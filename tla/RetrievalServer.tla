-------------------------- MODULE RetrievalServer --------------------------
(***************************************************************************)
(* tools/retrieval/server.py under the runner that starts, reloads and     *)
(* stops it: which process owns the socket, and the BM25 index each holds  *)
(* in memory beside the file that LabMemory's reindex replaces.  A search  *)
(* that finds no server runs in the caller's process and changes nothing.  *)
(* The ranking, the models and the graph boost are left out.               *)
(***************************************************************************)
EXTENDS LabMemory

CONSTANTS Servers      \* the server processes ever started

Nobody == "nobody"

ASSUME RetrievalServerAssumption == IsFiniteSet(Servers) /\ Nobody \notin Servers

VARIABLES
    srv,        \* each server: [pc, mem: its index, seen: the mtime it recorded, asked: a reload waits]
    sock,       \* whose socket data/infra/retrieval.sock is
    pidfile,    \* retrieval.pid
    launched,   \* retrieval.pid.runner
    stomped,    \* ghost: a stale-socket unlink hit the socket of a live server
    unasked     \* ghost: a runner ended between a build and its reload request

serverVars == <<srv, sock, pidfile, launched, stomped, unasked>>
vars == <<memoryVars, serverVars>>

NoServer == [pc |-> "off", mem |-> [f \in Files |-> NoRow], seen |-> 0, asked |-> FALSE]

Init ==
    /\ MemoryInit
    /\ srv = [s \in Servers |-> NoServer]
    /\ sock = Nobody /\ pidfile = Nobody /\ launched = Nobody
    /\ stomped = FALSE /\ unasked = FALSE

Serving(s) == srv[s].pc \in {"serve", "read", "stat"}
(* A connect succeeds: the path leads to a socket somebody listens on. *)
Reachable == sock # Nobody /\ Serving(sock)
Goto(s, pc) == srv' = [srv EXCEPT ![s].pc = pc]

-----------------------------------------------------------------------------
(* A server's life. *)

(* The runner starts one when a ping fails; a busy server may miss the ping too. *)
Launch(s) ==
    /\ Event /\ srv[s] = NoServer
    /\ Goto(s, "probe") /\ launched' = s
    /\ UNCHANGED <<clock, file, rows, ids, reindex, graph, bm25, snapshot, graphNewer, bm25Newer,
                   builds, missed, cut, overtaken, sock, pidfile, stomped, unasked>>

(* Another daemon answers: exit.  No answer: the socket is stale. *)
Probe(s) ==
    /\ srv[s].pc = "probe"
    /\ Goto(s, IF sock = Nobody THEN "warm" ELSE IF Reachable THEN "off" ELSE "unlink")
    /\ UNCHANGED <<memoryVars, sock, pidfile, launched, stomped, unasked>>

Unlink(s) ==
    /\ srv[s].pc = "unlink"
    /\ Goto(s, "warm") /\ sock' = Nobody
    /\ stomped' = (stomped \/ (sock # Nobody /\ srv[sock].pc # "off"))
    /\ UNCHANGED <<memoryVars, pidfile, launched, unasked>>

(* _ensure_models, then _load_bm25. *)
Warm(s) ==
    /\ srv[s].pc = "warm"
    /\ srv' = [srv EXCEPT ![s].pc = "bind", ![s].mem = bm25, ![s].seen = builds]
    /\ UNCHANGED <<memoryVars, sock, pidfile, launched, stomped, unasked>>

(* bind raises when the path exists: the process ends, the path stays. *)
Bind(s) ==
    /\ srv[s].pc = "bind"
    /\ IF sock = Nobody THEN Goto(s, "bound") /\ sock' = s
       ELSE srv' = [srv EXCEPT ![s] = NoServer] /\ UNCHANGED sock
    /\ UNCHANGED <<memoryVars, pidfile, launched, stomped, unasked>>

Listen(s) ==
    /\ srv[s].pc = "bound"
    /\ Goto(s, "serve") /\ pidfile' = s
    /\ UNCHANGED <<memoryVars, sock, launched, stomped, unasked>>

Crash(s) ==
    /\ Event /\ srv[s].pc # "off"
    /\ srv' = [srv EXCEPT ![s] = NoServer]
    /\ UNCHANGED <<clock, file, rows, ids, reindex, graph, bm25, snapshot, graphNewer, bm25Newer,
                   builds, missed, cut, overtaken, sock, pidfile, launched, stomped, unasked>>

(* The runner's exit: shutdown over the socket, then a kill of the two recorded pids; *)
(* a server that serves removes the socket and the pid file as it goes.               *)
Stopped == {s \in Servers : s \in {pidfile, launched} \/ (Reachable /\ s = sock)}
Stop ==
    /\ Event /\ \E s \in Servers : srv[s].pc # "off"
    /\ srv' = [s \in Servers |-> IF s \in Stopped THEN NoServer ELSE srv[s]]
    /\ sock' = IF \E s \in Stopped : Serving(s) THEN Nobody ELSE sock
    /\ pidfile' = Nobody /\ launched' = Nobody
    /\ UNCHANGED <<clock, file, rows, ids, reindex, graph, bm25, snapshot, graphNewer, bm25Newer,
                   builds, missed, cut, overtaken, stomped, unasked>>

-----------------------------------------------------------------------------
(* The index in memory. *)

(* The runner's reload request, which reaches whoever listens. *)
Reload ==
    /\ reindex.pc = "reload"
    /\ reindex' = Off
    /\ srv' = IF Reachable THEN [srv EXCEPT ![sock].asked = TRUE] ELSE srv
    /\ UNCHANGED <<clock, file, rows, ids, graph, bm25, snapshot, graphNewer, bm25Newer, builds,
                   missed, cut, overtaken, events, sock, pidfile, launched, stomped, unasked>>

ReloadCut ==
    /\ Event /\ reindex.pc = "reload"
    /\ reindex' = Off /\ unasked' = TRUE
    /\ UNCHANGED <<clock, file, rows, ids, graph, bm25, snapshot, graphNewer, bm25Newer, builds,
                   missed, cut, overtaken, srv, sock, pidfile, launched, stomped>>

(* A reload request, or a search that finds another mtime than the recorded one. *)
HandleReloadByTime(s) ==
    /\ srv[s].pc = "serve" /\ srv[s].asked
    /\ srv' = [srv EXCEPT ![s].pc = IF srv[s].seen # builds THEN "read" ELSE "serve", ![s].asked = FALSE]
    /\ UNCHANGED <<memoryVars, sock, pidfile, launched, stomped, unasked>>
HandleReload(s) ==
    /\ srv[s].pc = "serve" /\ srv[s].asked
    /\ srv' = [srv EXCEPT ![s].pc = "read", ![s].asked = FALSE]
    /\ UNCHANGED <<memoryVars, sock, pidfile, launched, stomped, unasked>>
Search(s) ==
    /\ srv[s].pc = "serve" /\ srv[s].seen # builds
    /\ Goto(s, "read")
    /\ UNCHANGED <<memoryVars, sock, pidfile, launched, stomped, unasked>>

(* _load_bm25 reads the file, and only then its mtime. *)
LoadRead(s) ==
    /\ srv[s].pc = "read"
    /\ srv' = IF builds = 0 THEN [srv EXCEPT ![s].pc = "serve"]
              ELSE [srv EXCEPT ![s].pc = "stat", ![s].mem = bm25]
    /\ UNCHANGED <<memoryVars, sock, pidfile, launched, stomped, unasked>>
LoadStat(s) ==
    /\ srv[s].pc = "stat"
    /\ srv' = [srv EXCEPT ![s].pc = "serve", ![s].seen = builds]
    /\ UNCHANGED <<memoryVars, sock, pidfile, launched, stomped, unasked>>

ServerNext ==
    \/ \E s \in Servers : Launch(s) \/ Probe(s) \/ Unlink(s) \/ Warm(s) \/ Bind(s) \/ Listen(s)
                             \/ Crash(s) \/ HandleReload(s) \/ Search(s) \/ LoadRead(s) \/ LoadStat(s)
    \/ Stop \/ Reload \/ ReloadCut

Next == (MemoryNext /\ UNCHANGED serverVars) \/ ServerNext

Spec == Init /\ [][Next]_vars

-----------------------------------------------------------------------------
(* "Don't stomp a live server": a server that listens owns the socket, so no *)
(* process with the models in memory is out of reach of every client, unless *)
(* the unlink of a stale socket came after another server had bound it.      *)
NoOrphan == ~stomped => \A s \in Servers : Serving(s) => sock = s

(* A server whose recorded mtime is that of the file, so that no search will *)
(* reload it, holds the index of the file: when the file was replaced        *)
(* between its read and its stat, the reload request of that build is still  *)
(* to come, unless the runner ended before sending it or the server could    *)
(* not be reached.                                                           *)
StaleCacheHeals ==
    \A s \in Servers :
        srv[s].pc = "serve" /\ srv[s].seen = builds /\ ~srv[s].asked /\ sock = s
        /\ reindex.pc # "reload" /\ ~unasked => srv[s].mem = bm25

(* What a search can reach holds what the notebook says: no file missed by the *)
(* ingest, no build skipped that was due.                                      *)
IndexIsCurrent == NothingMissed /\ SkipIsSafe

(* The server a client reaches is the only one, and its memory the file's.     *)
ServerIsCurrent == NoOrphan /\ StaleCacheHeals
=============================================================================
