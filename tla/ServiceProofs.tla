----------------------------- MODULE ServiceProofs -----------------------------
(***************************************************************************)
(* Theorems about the two services that run beside the loop.               *)
(*                                                                         *)
(* The retrieval stack, for any files and servers and any number of edits, *)
(* ingests, kills and server starts: the incremental ingest misses nothing *)
(* it does not know of, the indexes skipped as current are, and the server *)
(* a client reaches is the only one and holds the index of the file.       *)
(*                                                                         *)
(* The Slack bot, for any user files, cells, texts and verdicts and any    *)
(* number of changes of the lab, commands, failed posts and kills: every   *)
(* event reaches the channel once, and the alarms it raised are true.      *)
(***************************************************************************)
EXTENDS RetrievalServer, SlackBot, FiniteSetTheorems, FunctionTheorems, SequenceTheorems, WellFoundedInduction, TLAPS

-----------------------------------------------------------------------------
(* The retrieval stack: the invariants. *)

Row == [v : Int, ts : Nat, id : Nat]
ReindexShape == [pc : {"off", "scan", "embed", "graph", "bm25", "save", "reload"}, since : Nat,
                 todo : SUBSET Files, at : Files \cup {NoFile}, v : Int]
ServerShape == [pc : {"off", "probe", "unlink", "warm", "bind", "bound", "serve", "read", "stat"},
                mem : [Files -> Row], seen : Nat, asked : BOOLEAN]

(* Every variable stays in its type, and no row is of the future.              *)
FilesTyped ==
    /\ clock \in Nat /\ file \in [Files -> [v : Int, m : Nat]] /\ events \in Nat
    /\ rows \in [Files -> Row] /\ ids \in Nat /\ \A f \in Files : rows[f].ts <= clock
IndexesTyped ==
    /\ graph \in [Files -> SUBSET Int] /\ bm25 \in [Files -> Row] /\ snapshot \in [Files -> Row]
    /\ graphNewer \in BOOLEAN /\ bm25Newer \in BOOLEAN /\ overtaken \in BOOLEAN
    /\ builds \in Nat /\ missed \subseteq Files /\ cut \subseteq Files
ServersTyped ==
    /\ srv \in [Servers -> ServerShape]
    /\ {sock, pidfile, launched} \subseteq Servers \cup {Nobody}
    /\ stomped \in BOOLEAN /\ unasked \in BOOLEAN
Typed == FilesTyped /\ reindex \in ReindexShape /\ IndexesTyped /\ ServersTyped

(* A pass holds files while it scans, and one of them while it embeds it.      *)
Walking ==
    /\ reindex.pc \notin {"scan", "embed"} => reindex.todo = {}
    /\ IF reindex.pc = "embed" THEN reindex.at \in Files /\ (reindex.at \notin missed => reindex.v = file[reindex.at].v)
       ELSE reindex.at = NoFile

(* A file with text is stored as it is, or the pass has yet to come to it, or the next one will. *)
Ahead(f) == IF reindex.pc \in {"scan", "embed"} THEN f \in Unvisited /\ file[f].m > reindex.since
            ELSE file[f].m > _last_ingest_timestamp
Stored(f) == file[f].v > 0 => rows[f].v = file[f].v \/ Ahead(f)

(* The index newer than the database was built from it.                        *)
Built == bm25Newer => overtaken \/ bm25 = rows

(* A server owns the socket from its bind on.                                  *)
Owner(s) == srv[s].pc \in {"bound", "serve", "read", "stat"} => stomped \/ sock = s

(* What a server holds of the index; a reload is owed to one that read it too early.  *)
Owed(s) == srv[s].asked \/ reindex.pc = "reload" \/ unasked \/ sock # s
Cached(s) ==
    /\ srv[s].seen <= builds
    /\ srv[s].pc \in {"bind", "bound"} /\ srv[s].seen = builds => srv[s].mem = bm25
    /\ srv[s].pc \in {"bind", "bound", "serve", "read", "stat"} /\ builds = 0 => srv[s].mem = bm25
    /\ srv[s].pc = "stat" \/ (srv[s].pc = "serve" /\ srv[s].seen = builds) => srv[s].mem = bm25 \/ Owed(s)

Inv ==
    /\ Typed /\ Walking /\ Built
    /\ \A f \in Files \ (missed \cup cut) : Stored(f)
    /\ \A s \in Servers : Owner(s) /\ Cached(s)

-----------------------------------------------------------------------------
(* The time of the last ingest. *)

LEMMA BoundedHasMax ==
  ASSUME NEW S \in SUBSET Nat, S # {}, NEW n \in Nat, \A x \in S : x <= n
  PROVE  Max(S) \in S /\ \A x \in S : x <= Max(S)
  <1>1. \A x, y \in Nat : <<x, y>> \in OpToRel(<, Nat) <=> x < y
    BY DEF OpToRel
  <1> DEFINE Distances == {n - x : x \in S}
  <1>2. Distances \subseteq Nat /\ Distances # {}
    <2>1. Distances \subseteq Nat
      OBVIOUS
    <2>2. Distances # {}
      OBVIOUS
    <2> QED BY <2>1, <2>2
  <1>3. PICK d \in Distances : \A e \in Distances : ~ (<<e, d>> \in OpToRel(<, Nat))
    <2> HIDE DEF Distances
    <2> QED BY <1>2, NatLessThanWellFounded, WFMin
  <1>4. \A e \in Distances : d <= e
    <2> HIDE DEF Distances
    <2> TAKE e \in Distances
    <2>1. d \in Nat /\ e \in Nat /\ ~ (e < d)
      BY <1>1, <1>2, <1>3
    <2> QED BY <2>1
  <1>5. PICK m \in S : d = n - m
    OBVIOUS
  <1>6. \A x \in S : x <= m
    BY <1>4, <1>5
  <1>7. \E y \in S : \A x \in S : y >= x
    BY <1>6
  <1> QED BY <1>7 DEF Max

Latest(r) == Max({r[f].ts : f \in Files} \union {0})

LEMMA LatestFacts ==
  ASSUME NEW c \in Nat, NEW r \in [Files -> Row], \A f \in Files : r[f].ts <= c
  PROVE  /\ Latest(r) \in Nat /\ Latest(r) <= c /\ \A f \in Files : r[f].ts <= Latest(r)
         /\ Latest(r) = 0 \/ \E f \in Files : Latest(r) = r[f].ts
  <1> DEFINE S == {r[f].ts : f \in Files} \union {0}
  <1>1. S \in SUBSET Nat /\ S # {} /\ \A x \in S : x <= c
    BY DEF Row
  <1>2. Max(S) \in S /\ \A x \in S : x <= Max(S)
    <2> HIDE DEF S
    <2> QED BY <1>1, BoundedHasMax
  <1>3. (\A f \in Files : r[f].ts \in S) /\ \A x \in S : x = 0 \/ \E f \in Files : x = r[f].ts
    OBVIOUS
  <1>4. Latest(r) = Max(S)
    BY DEF Latest
  <1> HIDE DEF S
  <1> QED BY <1>1, <1>2, <1>3, <1>4

LEMMA LastIngest ==
  ASSUME FilesTyped
  PROVE  _last_ingest_timestamp \in Nat /\ _last_ingest_timestamp <= clock
  <1>1. _last_ingest_timestamp = Latest(rows)
    BY DEF _last_ingest_timestamp, Latest
  <1> QED BY <1>1, LatestFacts DEF FilesTyped

-----------------------------------------------------------------------------
(* Types. *)

LEMMA ShapeFacts ==
  /\ NoRow \in Row /\ Off \in ReindexShape /\ Off.pc = "off" /\ Off.todo = {} /\ Off.at = NoFile
  /\ NoServer \in ServerShape /\ NoServer.pc = "off" /\ NoServer.seen = 0
  BY DEF NoRow, Row, Off, ReindexShape, NoServer, ServerShape, Absent

LEMMA InvInit == Init => Inv
  <1> SUFFICES ASSUME Init
               PROVE  Inv
    OBVIOUS
  <1>1. /\ reindex = Off /\ rows = [f \in Files |-> NoRow] /\ bm25 = [f \in Files |-> NoRow]
        /\ missed = {} /\ cut = {} /\ srv = [s \in Servers |-> NoServer]
        /\ file \in [Files -> {[v |-> Absent, m |-> 0], [v |-> 1, m |-> 1]}] /\ clock = 1
    BY DEF Init, MemoryInit
  <1>2. FilesTyped
    <2>1. file \in [Files -> [v : Int, m : Nat]]
      BY <1>1 DEF Absent
    <2>2. \A f \in Files : rows[f].ts = 0
      BY <1>1 DEF NoRow
    <2> QED BY <1>1, <2>1, <2>2, ShapeFacts DEF Init, MemoryInit, FilesTyped
  <1>3. IndexesTyped
    BY <1>1, ShapeFacts DEF Init, MemoryInit, IndexesTyped
  <1>4. ServersTyped
    BY <1>1, ShapeFacts DEF Init, ServersTyped
  <1>5. Typed
    BY <1>1, <1>2, <1>3, <1>4, ShapeFacts DEF Typed
  <1>6. Walking /\ Built
    BY <1>1, ShapeFacts DEF Init, MemoryInit, Walking, Built
  <1>7. ASSUME NEW f \in Files
        PROVE  Stored(f)
    <2>1. file[f].v > 0 => file[f].m = 1
      BY <1>1 DEF Absent
    <2>2. _last_ingest_timestamp = 0
      <3>1. \A g \in Files : rows[g].ts = 0
        BY <1>1 DEF NoRow
      <3>2. {rows[g].ts : g \in Files} \union {0} = {0}
        BY <3>1
      <3> QED BY <3>2 DEF _last_ingest_timestamp, Max
    <2> QED BY <1>1, <2>1, <2>2, ShapeFacts DEF Stored, Ahead
  <1>8. ASSUME NEW s \in Servers
        PROVE  Owner(s) /\ Cached(s)
    BY <1>1, <1>3, ShapeFacts DEF Owner, Cached, IndexesTyped
  <1> QED BY <1>5, <1>6, <1>7, <1>8 DEF Inv

-----------------------------------------------------------------------------
(* What each step does to the pass of the runner. *)

LEMMA StartDoes ==
  ASSUME Typed, PassStart
  PROVE  /\ reindex.pc = "off" /\ reindex' \in ReindexShape /\ reindex'.pc = "scan" /\ reindex'.at = NoFile
         /\ reindex'.since = _last_ingest_timestamp /\ reindex'.todo = {f \in Files : file[f].v # Absent}
  <1> DEFINE todo == {f \in Files : file[f].v # Absent}
             since == _last_ingest_timestamp
  <1>1. todo \in SUBSET Files /\ since \in Nat
    BY LastIngest DEF Typed
  <1>2. reindex' = [Off EXCEPT !.pc = "scan", !.since = since, !.todo = todo] /\ reindex.pc = "off"
    BY DEF PassStart
  <1> HIDE DEF todo, since
  <1>3. reindex'.pc = "scan" /\ reindex'.at = NoFile /\ reindex'.since = since /\ reindex'.todo = todo
    BY <1>2 DEF Off
  <1>4. reindex' = [pc |-> "scan", since |-> since, todo |-> todo, at |-> NoFile, v |-> Absent]
    BY <1>2 DEF Off
  <1>5. reindex' \in ReindexShape
    BY <1>1, <1>4 DEF ReindexShape, Absent
  <1> QED BY <1>2, <1>3, <1>5 DEF todo, since

LEMMA VisitDoes ==
  ASSUME Typed, NEW f \in Files, Visit(f)
  PROVE  /\ reindex.pc = "scan" /\ f \in reindex.todo /\ reindex' \in ReindexShape
         /\ reindex'.since = reindex.since /\ reindex'.todo = reindex.todo \ {f}
         /\ \/ Due(f) /\ reindex'.pc = "embed" /\ reindex'.at = f /\ reindex'.v = file[f].v
            \/ ~ Due(f) /\ reindex'.pc = "scan" /\ reindex'.at = reindex.at
  <1>1. reindex \in ReindexShape /\ file[f].v \in Int
    BY DEF Typed, FilesTyped
  <1>2. CASE Due(f)
    <2>1. reindex' = [reindex EXCEPT !.pc = "embed", !.todo = reindex.todo \ {f}, !.at = f, !.v = file[f].v]
      BY <1>2 DEF Visit
    <2> QED BY <1>1, <1>2, <2>1 DEF Visit, ReindexShape
  <1>3. CASE ~ Due(f)
    <2>1. reindex' = [reindex EXCEPT !.todo = reindex.todo \ {f}]
      BY <1>3 DEF Visit
    <2> QED BY <1>1, <1>3, <2>1 DEF Visit, ReindexShape
  <1> QED BY <1>2, <1>3

LEMMA StoreDoes ==
  ASSUME Typed, Store
  PROVE  /\ reindex.pc = "embed" /\ reindex' \in ReindexShape /\ reindex'.pc = "scan" /\ reindex'.at = NoFile
         /\ reindex'.since = reindex.since /\ reindex'.todo = reindex.todo
  <1>1. PICK v \in Int : v = Absent
    BY DEF Absent
  <1>2. reindex' = [reindex EXCEPT !.pc = "scan", !.at = NoFile, !.v = v] /\ reindex.pc = "embed"
    BY <1>1 DEF Store
  <1> QED BY <1>2 DEF Typed, ReindexShape

LEMMA EndDoes ==
  ASSUME Typed, PassEnds
  PROVE  /\ reindex.pc = "scan" /\ reindex.todo = {} /\ reindex' \in ReindexShape
         /\ reindex'.pc \in {"off", "graph"} /\ reindex'.todo = {} /\ reindex'.at = NoFile
  BY DEF PassEnds, ReindexShape, Off, Absent

LEMMA BuildDoes ==
  ASSUME Typed, BuildGraph \/ BuildRead \/ BuildSave
  PROVE  /\ reindex.pc \in {"graph", "bm25", "save"} /\ reindex'.pc \in {"bm25", "reload", "save"}
         /\ reindex' \in ReindexShape /\ reindex'.todo = reindex.todo /\ reindex'.at = reindex.at
         /\ BuildSave => reindex'.pc = "reload"
  BY DEF BuildGraph, BuildRead, BuildSave, Typed, ReindexShape

LEMMA InterruptDoes ==
  ASSUME Typed, Interrupt
  PROVE  /\ reindex.pc \in {"scan", "embed", "graph", "bm25", "save"} /\ reindex' \in ReindexShape
         /\ reindex'.pc \in {"off", "graph", "bm25", "reload"} /\ reindex'.todo = {} /\ reindex'.at = NoFile
  <1>1. PICK pc \in {"off", "graph", "bm25", "reload"} : reindex' = [Off EXCEPT !.pc = pc]
    BY DEF Interrupt
  <1>2. reindex' \in ReindexShape /\ reindex'.pc = pc /\ reindex'.todo = {} /\ reindex'.at = NoFile
    BY <1>1 DEF Off, ReindexShape, Absent
  <1> QED BY <1>2 DEF Interrupt

(* The other steps leave the pass alone, but for the reload it asks for. *)
LEMMA ReindexKept ==
  ASSUME [Next]_vars, ~ PassStart, ~ Store, ~ PassEnds, ~ BuildGraph, ~ BuildRead, ~ BuildSave, ~ Interrupt,
         \A f \in Files : ~ Visit(f)
  PROVE  \/ reindex' = reindex
         \/ (Reload \/ ReloadCut) /\ reindex.pc = "reload" /\ reindex' = Off
  BY DEF Next, MemoryNext, ServerNext, Tick, Edit, Ingest, Delete, Launch, Probe, Unlink, Warm, Bind, Listen,
         Crash, HandleReload, Search, LoadRead, LoadStat, Stop, Reload, ReloadCut, vars, memoryVars

LEMMA ReindexStep ==
  ASSUME Inv, [Next]_vars
  PROVE  reindex' \in ReindexShape
  <1>1. Typed /\ reindex \in ReindexShape
    BY DEF Inv, Typed
  <1> QED BY <1>1, StartDoes, VisitDoes, StoreDoes, EndDoes, BuildDoes, InterruptDoes, ReindexKept, ShapeFacts

-----------------------------------------------------------------------------
(* The database and the indexes. *)

(* A server only reads them. *)
LEMMA ServersRead ==
  ASSUME ServerNext \/ UNCHANGED vars
  PROVE  UNCHANGED <<clock, file, rows, ids, graph, bm25, snapshot, graphNewer, bm25Newer, builds, missed, cut,
                     overtaken>>
  <1>1. ASSUME NEW s \in Servers, Launch(s) \/ Crash(s)
        PROVE  UNCHANGED <<clock, file, rows, ids, graph, bm25, snapshot, graphNewer, bm25Newer, builds, missed,
                           cut, overtaken>>
    BY <1>1 DEF Launch, Crash
  <1>2. ASSUME NEW s \in Servers, \/ Probe(s) \/ Unlink(s) \/ Warm(s) \/ Bind(s) \/ Listen(s) \/ HandleReload(s)
                                  \/ Search(s) \/ LoadRead(s) \/ LoadStat(s)
        PROVE  UNCHANGED memoryVars
    BY <1>2 DEF Probe, Unlink, Warm, Bind, Listen, HandleReload, Search, LoadRead, LoadStat
  <1>3. CASE Stop \/ Reload \/ ReloadCut
    BY <1>3 DEF Stop, Reload, ReloadCut
  <1>4. CASE UNCHANGED vars
    BY <1>4 DEF vars, memoryVars
  <1> QED BY <1>1, <1>2, <1>3, <1>4 DEF ServerNext, memoryVars

(* What a step can do to the rows and the texts. *)
LEMMA RowsMove ==
  ASSUME Inv, [Next]_vars
  PROVE  \/ UNCHANGED <<rows, ids, bm25Newer>>
         \/ BuildSave /\ UNCHANGED <<rows, ids>>
         \/ ~ bm25Newer' /\ \/ \E f \in Files, v \in Int : rows' = Ingested(f, v) /\ ids' = ids + 1
                            \/ \E f \in Files : rows' = [rows EXCEPT ![f] = NoRow] /\ ids' = ids
  <1>1. CASE Store
    <2>1. reindex.at \in Files /\ reindex.v \in Int
      BY <1>1 DEF Inv, Walking, Typed, ReindexShape, Store
    <2> QED BY <1>1, <2>1 DEF Store, Commit
  <1>2. ASSUME NEW f \in Files, Ingest(f)
        PROVE  ~ bm25Newer' /\ rows' = Ingested(f, file[f].v) /\ ids' = ids + 1 /\ file[f].v \in Int
    BY <1>2 DEF Ingest, Commit, Inv, Typed, FilesTyped
  <1>3. ASSUME NEW f \in Files, Delete(f)
        PROVE  ~ bm25Newer' /\ rows' = [rows EXCEPT ![f] = NoRow] /\ ids' = ids
    BY <1>3 DEF Delete, Commit
  <1>4. CASE BuildSave
    BY <1>4 DEF BuildSave
  <1>5. CASE \/ Tick \/ (\E f \in Files : Edit(f) \/ Visit(f)) \/ PassStart \/ PassEnds \/ BuildGraph \/ BuildRead
             \/ Interrupt
    BY <1>5 DEF Tick, Edit, Visit, PassStart, PassEnds, BuildGraph, BuildRead, Interrupt
  <1>6. CASE ServerNext \/ UNCHANGED vars
    BY <1>6, ServersRead
  <1> QED BY <1>1, <1>2, <1>3, <1>4, <1>5, <1>6 DEF Next, MemoryNext

LEMMA IngestedFacts ==
  ASSUME FilesTyped, NEW f \in Files, NEW v \in Int
  PROVE  /\ Ingested(f, v) \in [Files -> Row]
         /\ Ingested(f, v)[f].v = v /\ Ingested(f, v)[f].ts = clock
         /\ \A g \in Files \ {f} : Ingested(f, v)[g] = rows[g]
  BY DEF FilesTyped, Row, Ingested

LEMMA ClockAndFiles ==
  ASSUME Inv, [Next]_vars
  PROVE  /\ clock' = clock \/ clock' = clock + 1
         /\ file' = file \/ \E f \in Files : Edit(f)
         /\ events' = events \/ events' = events + 1
  <1>1. CASE MemoryNext
    BY <1>1 DEF MemoryNext, Tick, Edit, Ingest, Delete, Visit, PassStart, Store, PassEnds, BuildGraph, BuildRead,
           BuildSave, Interrupt, Event
  <1>2. CASE ServerNext \/ UNCHANGED vars
    BY <1>2 DEF ServerNext, Launch, Probe, Unlink, Warm, Bind, Listen, Crash, HandleReload, Search, LoadRead,
           LoadStat, Stop, Reload, ReloadCut, vars, memoryVars, Event
  <1> QED BY <1>1, <1>2 DEF Next

LEMMA FilesStep ==
  ASSUME Inv, [Next]_vars
  PROVE  FilesTyped'
  <1>1. FilesTyped
    BY DEF Inv, Typed
  <1>2. clock' \in Nat /\ clock' >= clock /\ events' \in Nat
    BY <1>1, ClockAndFiles DEF FilesTyped
  <1>3. file' \in [Files -> [v : Int, m : Nat]]
    <2>1. ASSUME NEW f \in Files, Edit(f)
          PROVE  file' \in [Files -> [v : Int, m : Nat]]
      <3>1. PICK v \in {events + 2, Empty, Absent} : file' = [file EXCEPT ![f] = [v |-> v, m |-> IF v = Absent THEN 0 ELSE clock]]
        BY <2>1 DEF Edit
      <3>2. v \in Int
        BY <1>1 DEF FilesTyped, Empty, Absent
      <3> QED BY <1>1, <3>1, <3>2 DEF FilesTyped
    <2> QED BY <1>1, <2>1, ClockAndFiles DEF FilesTyped
  <1>4. rows' \in [Files -> Row] /\ ids' \in Nat /\ \A f \in Files : rows'[f].ts <= clock'
    <2>1. CASE UNCHANGED <<rows, ids>>
      BY <1>1, <1>2, <2>1 DEF FilesTyped, Row
    <2>2. ASSUME NEW f \in Files, NEW v \in Int, rows' = Ingested(f, v), ids' = ids + 1
          PROVE  rows' \in [Files -> Row] /\ ids' \in Nat /\ \A g \in Files : rows'[g].ts <= clock'
      <3>1. rows'[f].ts = clock /\ \A g \in Files \ {f} : rows'[g] = rows[g]
        <4> HIDE DEF Ingested
        <4> QED BY <1>1, <2>2, IngestedFacts
      <3>2. \A g \in Files : rows'[g].ts <= clock
        BY <1>1, <3>1 DEF FilesTyped
      <3>3. rows' \in [Files -> Row]
        BY <1>1, <2>2, IngestedFacts
      <3>4. \A g \in Files : rows'[g].ts \in Nat
        BY <3>3 DEF Row
      <3> QED BY <1>1, <1>2, <2>2, <3>2, <3>3, <3>4 DEF FilesTyped
    <2>3. ASSUME NEW f \in Files, rows' = [rows EXCEPT ![f] = NoRow], ids' = ids
          PROVE  rows' \in [Files -> Row] /\ ids' \in Nat /\ \A g \in Files : rows'[g].ts <= clock'
      BY <1>1, <1>2, <2>3, ShapeFacts DEF FilesTyped, Row, NoRow
    <2> QED BY <2>1, <2>2, <2>3, RowsMove
  <1> QED BY <1>2, <1>3, <1>4 DEF FilesTyped

LEMMA IndexesStep ==
  ASSUME Inv, [Next]_vars
  PROVE  IndexesTyped'
  <1>1. FilesTyped /\ IndexesTyped
    BY DEF Inv, Typed
  <1>2. missed' \subseteq Files /\ cut' \subseteq Files
    <2>1. CASE Interrupt
      <3>1. Unvisited \subseteq Files
        BY DEF Inv, Typed, ReindexShape, Unvisited
      <3> QED BY <1>1, <2>1, <3>1 DEF Interrupt, IndexesTyped
    <2>2. CASE MemoryNext /\ ~ Interrupt
      BY <1>1, <2>2 DEF MemoryNext, Tick, Edit, Ingest, Delete, Visit, PassStart, Store, PassEnds, BuildGraph, BuildRead,
             BuildSave, IndexesTyped
    <2>3. CASE ServerNext \/ UNCHANGED vars
      BY <1>1, <2>3, ServersRead DEF IndexesTyped
    <2> QED BY <2>1, <2>2, <2>3 DEF Next
  <1>3. UNCHANGED <<graph, bm25, snapshot, graphNewer, bm25Newer, builds, overtaken>> => IndexesTyped'
    BY <1>1, <1>2 DEF IndexesTyped
  <1>4. ASSUME NEW new, Commit(new), UNCHANGED <<graph, bm25, snapshot, builds, overtaken>>
        PROVE  IndexesTyped'
    BY <1>1, <1>2, <1>4 DEF Commit, IndexesTyped
  <1>5. CASE \/ Tick \/ (\E f \in Files : Edit(f) \/ Visit(f)) \/ PassStart \/ PassEnds \/ Interrupt
             \/ ServerNext \/ UNCHANGED vars
    <2>1. CASE Tick \/ (\E f \in Files : Edit(f) \/ Visit(f)) \/ PassStart \/ PassEnds \/ Interrupt
      BY <1>3, <2>1 DEF Tick, Edit, Visit, PassStart, PassEnds, Interrupt
    <2>2. CASE ServerNext \/ UNCHANGED vars
      BY <1>3, <2>2, ServersRead
    <2> QED BY <1>5, <2>1, <2>2
  <1>6. CASE Store \/ \E f \in Files : Ingest(f) \/ Delete(f)
    BY <1>3, <1>4, <1>6 DEF Store, Ingest, Delete
  <1>7. CASE BuildGraph
    <2>1. \A f \in Files : file[f].v \in Int
      BY <1>1 DEF FilesTyped
    <2> QED BY <1>1, <1>2, <1>7, <2>1 DEF BuildGraph, IndexesTyped
  <1>8. CASE BuildRead
    BY <1>1, <1>2, <1>8 DEF BuildRead, IndexesTyped, FilesTyped
  <1>9. CASE BuildSave
    <2>1. (snapshot # rows) \in BOOLEAN
      OBVIOUS
    <2>2. overtaken' \in BOOLEAN
      BY <1>9, <2>1 DEF BuildSave
    <2> QED BY <1>1, <1>2, <1>9, <2>2 DEF BuildSave, IndexesTyped
  <1> QED BY <1>5, <1>6, <1>7, <1>8, <1>9 DEF Next, MemoryNext

LEMMA BuiltStep ==
  ASSUME Inv, [Next]_vars
  PROVE  Built'
  <1>1. Built
    BY DEF Inv
  <1>2. CASE BuildSave
    BY <1>2 DEF BuildSave, Built
  <1>3. CASE ~ BuildSave
    <2>1. UNCHANGED <<bm25, overtaken>>
      <3>1. CASE MemoryNext
        BY <1>3, <3>1 DEF MemoryNext, Tick, Edit, Ingest, Delete, Visit, PassStart, Store, PassEnds, BuildGraph,
               BuildRead, Interrupt
      <3>2. CASE ServerNext \/ UNCHANGED vars
        BY <3>2, ServersRead
      <3> QED BY <3>1, <3>2 DEF Next
    <2> QED BY <1>1, <1>3, <2>1, RowsMove DEF Built
  <1> QED BY <1>2, <1>3

-----------------------------------------------------------------------------
(* The pass. *)

LEMMA WalkingStep ==
  ASSUME Inv, [Next]_vars
  PROVE  Walking'
  <1>1. Typed /\ Walking /\ reindex \in ReindexShape /\ FilesTyped
    BY DEF Inv, Typed
  <1>2. CASE PassStart
    BY <1>1, <1>2, StartDoes DEF Walking
  <1>3. ASSUME NEW f \in Files, Visit(f)
        PROVE  Walking'
    BY <1>1, <1>3, VisitDoes DEF Walking, Visit
  <1>4. CASE Store \/ PassEnds \/ Interrupt
    BY <1>1, <1>4, StoreDoes, EndDoes, InterruptDoes DEF Walking
  <1>5. CASE BuildGraph \/ BuildRead \/ BuildSave
    BY <1>1, <1>5, BuildDoes DEF Walking
  <1>6. CASE Reload \/ ReloadCut
    BY <1>1, <1>6, ShapeFacts DEF Walking, Reload, ReloadCut
  <1>7. ASSUME NEW f \in Files, Edit(f)
        PROVE  Walking'
    <2>1. reindex' = reindex /\ (reindex.pc # "off" => missed' = missed \union {f})
          /\ \A g \in Files \ {f} : file'[g] = file[g]
      BY <1>1, <1>7 DEF Edit, FilesTyped
    <2> QED BY <1>1, <2>1 DEF Walking
  <1>8. ASSUME NEW f \in Files, Ingest(f)
        PROVE  Walking'
    <2>1. reindex' = reindex /\ file' = file /\ (reindex.at \in missed => reindex.at \in missed')
      BY <1>8 DEF Ingest
    <2> QED BY <1>1, <2>1 DEF Walking
  <1>9. CASE \/ Tick \/ (\E f \in Files : Delete(f)) \/ (ServerNext /\ ~ Reload /\ ~ ReloadCut) \/ UNCHANGED vars
    <2>1. reindex' = reindex /\ file' = file /\ missed \subseteq missed'
      BY <1>9 DEF Tick, Delete, ServerNext, Launch, Probe, Unlink, Warm, Bind, Listen, Crash, HandleReload, Search,
             LoadRead, LoadStat, Stop, vars, memoryVars
    <2> QED BY <1>1, <2>1 DEF Walking
  <1> QED BY <1>2, <1>3, <1>4, <1>5, <1>6, <1>7, <1>8, <1>9 DEF Next, MemoryNext

LEMMA StoredStep ==
  ASSUME Inv, [Next]_vars
  PROVE  \A f \in Files \ (missed' \cup cut') : Stored(f)'
  <1>1. /\ Typed /\ Walking /\ reindex \in ReindexShape /\ FilesTyped /\ NoFile \notin Files
        /\ \A g \in Files \ (missed \cup cut) : Stored(g)
    BY LabMemoryAssumption DEF Inv, Typed
  <1>2. _last_ingest_timestamp = Latest(rows) /\ _last_ingest_timestamp' = Latest(rows')
    BY DEF _last_ingest_timestamp, Latest
  <1>3. /\ Latest(rows) \in Nat /\ Latest(rows) <= clock /\ Latest(rows') \in Nat /\ Latest(rows') <= clock'
        /\ \A g \in Files : rows[g].ts <= Latest(rows) /\ rows'[g].ts <= Latest(rows')
        /\ Latest(rows') = 0 \/ \E g \in Files : Latest(rows') = rows'[g].ts
    <2>1. FilesTyped'
      BY FilesStep
    <2> QED BY <1>1, <2>1, LatestFacts DEF FilesTyped
  <1>4. \A g \in Files : file[g].v \in Int /\ file[g].m \in Nat /\ rows[g].v \in Int
    BY <1>1 DEF FilesTyped, Row
  <1>5. ASSUME UNCHANGED <<file, rows, reindex>>, missed \subseteq missed', cut \subseteq cut'
        PROVE  \A f \in Files \ (missed' \cup cut') : Stored(f)'
    BY <1>1, <1>2, <1>5 DEF Stored, Ahead, Unvisited
  <1>6. ASSUME NEW f \in Files \ (missed' \cup cut'), f \notin missed \cup cut, rows'[f].v = rows[f].v,
               file'[f] = file[f], Ahead(f) => Ahead(f)'
        PROVE  Stored(f)'
    BY <1>1, <1>6 DEF Stored
  <1>7. \A f \in Files : f \in Unvisited <=> f \in reindex.todo \/ f = reindex.at
    BY <1>1 DEF Unvisited
  <1>8. \A f \in Files : f \in Unvisited' <=> f \in reindex'.todo \/ f = reindex'.at
    BY <1>1 DEF Unvisited
  <1>10. CASE Tick \/ UNCHANGED vars
    BY <1>5, <1>10 DEF Tick, vars, memoryVars
  <1>11. ASSUME NEW g \in Files, Edit(g)
         PROVE  \A f \in Files \ (missed' \cup cut') : Stored(f)'
    <2> TAKE f \in Files \ (missed' \cup cut')
    <2>1. UNCHANGED <<clock, rows, reindex, cut>> /\ missed \subseteq missed'
      BY <1>11 DEF Edit
    <2>2. CASE f = g
      <3>1. reindex.pc = "off" /\ clock > _last_ingest_timestamp
        BY <1>1, <1>2, <1>3, <1>11, <2>2 DEF Edit, FilesTyped
      <3>2. file'[f].v > 0 => file'[f].m = clock
        BY <1>1, <1>11, <2>2 DEF Edit, FilesTyped, Absent
      <3> QED BY <1>2, <2>1, <3>1, <3>2 DEF Stored, Ahead
    <2>3. CASE f # g
      <3>1. file'[f] = file[f]
        BY <1>1, <1>11, <2>3 DEF Edit, FilesTyped
      <3> QED BY <1>2, <1>6, <2>1, <3>1 DEF Ahead, Unvisited
    <2> QED BY <2>2, <2>3
  <1>12. ASSUME NEW g \in Files, Ingest(g)
         PROVE  \A f \in Files \ (missed' \cup cut') : Stored(f)'
    <2> TAKE f \in Files \ (missed' \cup cut')
    <2>1. /\ UNCHANGED <<clock, file, reindex, cut>> /\ rows' = Ingested(g, file[g].v)
          /\ missed' = (missed \ ({g} \ {reindex.at})) \union
                {h \in Files \ {g} : file[h].m > _last_ingest_timestamp /\ file[h].m <= clock}
      BY <1>12 DEF Ingest, Commit
    <2>2. CASE f = g
      <3>1. rows'[f].v = file[f].v
        <4> HIDE DEF Ingested
        <4> QED BY <1>1, <1>4, <2>1, <2>2, IngestedFacts
      <3> QED BY <2>1, <3>1 DEF Stored
    <2>3. CASE f # g
      <3>1. rows'[f] = rows[f]
        <4> HIDE DEF Ingested
        <4> QED BY <1>1, <1>4, <2>1, <2>3, IngestedFacts
      <3>2. f \notin missed \cup cut /\ (file[f].m > _last_ingest_timestamp => file[f].m > clock)
        BY <1>1, <1>2, <1>3, <1>4, <2>1, <2>3 DEF FilesTyped
      <3>3. Ahead(f) => Ahead(f)'
        <4>1. file[f].m > clock => file[f].m > Latest(rows')
          BY <1>1, <1>3, <1>4, <2>1 DEF FilesTyped
        <4> QED BY <1>2, <2>1, <3>2, <4>1 DEF Ahead, Unvisited
      <3> QED BY <1>6, <2>1, <3>1, <3>2, <3>3
    <2> QED BY <2>2, <2>3
  <1>13. ASSUME NEW g \in Files, Delete(g)
         PROVE  \A f \in Files \ (missed' \cup cut') : Stored(f)'
    <2> TAKE f \in Files \ (missed' \cup cut')
    <2>1. /\ UNCHANGED <<clock, file, reindex, cut>> /\ rows' = [rows EXCEPT ![g] = NoRow] /\ missed' = missed \union {g}
      BY <1>13 DEF Delete, Commit
    <2>2. f # g /\ f \notin missed \cup cut /\ rows'[f] = rows[f]
      BY <1>1, <2>1 DEF FilesTyped
    <2>3. Latest(rows') <= Latest(rows)
      <3>1. \A h \in Files : rows'[h] = rows[h] \/ rows'[h].ts = 0
        BY <1>1, <2>1 DEF FilesTyped, NoRow
      <3>2. \A h \in Files : rows'[h].ts <= Latest(rows)
        BY <1>3, <3>1
      <3> QED BY <1>3, <3>2
    <2>4. Ahead(f) => Ahead(f)'
      BY <1>2, <1>3, <1>4, <2>1, <2>3 DEF Ahead, Unvisited
    <2> QED BY <1>6, <2>1, <2>2, <2>4
  <1>14. CASE PassStart
    <2>1. UNCHANGED <<file, rows, missed, cut>>
      BY <1>14 DEF PassStart
    <2> TAKE f \in Files \ (missed' \cup cut')
    <2>2. file[f].v > 0 /\ Ahead(f) => Ahead(f)'
      BY <1>1, <1>4, <1>8, <1>14, <2>1, StartDoes DEF Ahead, Absent
    <2> QED BY <1>1, <2>1, <2>2 DEF Stored
  <1>15. ASSUME NEW g \in Files, Visit(g)
         PROVE  \A f \in Files \ (missed' \cup cut') : Stored(f)'
    <2>1. UNCHANGED <<file, rows, missed, cut>>
      BY <1>15 DEF Visit
    <2> TAKE f \in Files \ (missed' \cup cut')
    <2>2. file[f].v > 0 /\ Ahead(f) => Ahead(f)'
      <3>1. reindex.pc = "scan" /\ reindex'.pc \in {"scan", "embed"} /\ reindex.at = NoFile /\ reindex'.since = reindex.since
        BY <1>1, <1>15, VisitDoes DEF Walking
      <3>2. f \in Unvisited /\ f \notin Unvisited' => f = g /\ ~ Due(g)
        BY <1>1, <1>7, <1>8, <1>15, <3>1, VisitDoes
      <3> QED BY <2>1, <3>1, <3>2 DEF Ahead, Due, Absent
    <2> QED BY <1>1, <2>1, <2>2 DEF Stored
  <1>16. CASE Store
    <2>1. /\ UNCHANGED <<clock, file, missed, cut>>
          /\ IF reindex.v = Empty THEN rows' = rows ELSE rows' = Ingested(reindex.at, reindex.v)
      BY <1>16 DEF Store, Commit
    <2>2. reindex.pc = "embed" /\ reindex.at \in Files /\ reindex.v \in Int
      BY <1>1, <1>16 DEF Store, Walking, ReindexShape
    <2> TAKE f \in Files \ (missed' \cup cut')
    <2>3. CASE f = reindex.at
      <3>1. file[f].v > 0 => rows'[f].v = file[f].v
        <4>1. reindex.v = file[f].v
          BY <1>1, <2>1, <2>2, <2>3 DEF Walking
        <4> HIDE DEF Ingested
        <4> QED BY <1>1, <2>1, <2>2, <2>3, <4>1, IngestedFacts DEF Empty
      <3> QED BY <2>1, <3>1 DEF Stored
    <2>4. CASE f # reindex.at
      <3>1. rows'[f] = rows[f]
        <4> HIDE DEF Ingested
        <4> QED BY <1>1, <2>1, <2>2, <2>4, IngestedFacts
      <3>2. Ahead(f) => Ahead(f)'
        BY <1>1, <1>7, <1>8, <1>16, <2>1, <2>2, <2>4, StoreDoes DEF Ahead
      <3> QED BY <1>6, <2>1, <3>1, <3>2
    <2> QED BY <2>3, <2>4
  <1>17. CASE PassEnds
    <2>1. /\ UNCHANGED <<file, rows>> /\ missed' = missed \ {f \in Files : file[f].v = rows[f].v}
          /\ cut' = cut \ {f \in Files : file[f].v = rows[f].v}
      BY <1>17 DEF PassEnds
    <2> TAKE f \in Files \ (missed' \cup cut')
    <2>2. ~ Ahead(f)
      BY <1>1, <1>7, <1>17, EndDoes DEF Ahead, Walking
    <2> QED BY <1>1, <2>1, <2>2 DEF Stored
  <1>18. CASE BuildGraph \/ BuildRead \/ BuildSave
    <2>1. UNCHANGED <<file, rows, missed, cut>>
      BY <1>18 DEF BuildGraph, BuildRead, BuildSave
    <2> TAKE f \in Files \ (missed' \cup cut')
    <2>2. Ahead(f) => Ahead(f)'
      BY <1>1, <1>2, <1>18, <2>1, BuildDoes DEF Ahead
    <2> QED BY <1>6, <2>1, <2>2
  <1>19. CASE Interrupt
    <2>1. /\ UNCHANGED <<file, rows, missed>>
          /\ cut' = cut \union {f \in Unvisited : file[f].m <= _last_ingest_timestamp /\ file[f].m > reindex.since}
      BY <1>19 DEF Interrupt
    <2> TAKE f \in Files \ (missed' \cup cut')
    <2>2. Ahead(f) => Ahead(f)'
      BY <1>1, <1>2, <1>3, <1>4, <1>19, <2>1, InterruptDoes DEF Ahead
    <2> QED BY <1>6, <2>1, <2>2
  <1>20. CASE ServerNext
    <2>1. UNCHANGED <<file, rows, missed, cut>>
      BY <1>20, ServersRead
    <2>2. reindex' = reindex \/ (reindex.pc = "reload" /\ reindex' = Off)
      <3>1. CASE Reload \/ ReloadCut
        BY <3>1 DEF Reload, ReloadCut
      <3>2. CASE ~ Reload /\ ~ ReloadCut
        BY <1>20, <3>2 DEF ServerNext, Launch, Probe, Unlink, Warm, Bind, Listen, Crash, HandleReload, Search,
               LoadRead, LoadStat, Stop, memoryVars
      <3> QED BY <3>1, <3>2
    <2> TAKE f \in Files \ (missed' \cup cut')
    <2>3. Ahead(f) => Ahead(f)'
      BY <1>1, <1>2, <2>1, <2>2, ShapeFacts DEF Ahead, Unvisited
    <2> QED BY <1>6, <2>1, <2>3
  <1> QED BY <1>10, <1>11, <1>12, <1>13, <1>14, <1>15, <1>16, <1>17, <1>18, <1>19, <1>20 DEF Next, MemoryNext

-----------------------------------------------------------------------------
(* The servers. *)

LEMMA GotoDoes ==
  ASSUME ServersTyped, NEW s \in Servers, NEW pc \in {"off", "probe", "unlink", "warm", "bind", "bound", "serve", "read", "stat"},
         Goto(s, pc)
  PROVE  /\ srv' \in [Servers -> ServerShape]
         /\ srv'[s].pc = pc /\ srv'[s].mem = srv[s].mem /\ srv'[s].seen = srv[s].seen /\ srv'[s].asked = srv[s].asked
         /\ \A t \in Servers \ {s} : srv'[t] = srv[t]
  <1>1. srv' = [srv EXCEPT ![s].pc = pc] /\ srv \in [Servers -> ServerShape]
    BY DEF Goto, ServersTyped
  <1>2. srv' \in [Servers -> ServerShape]
    BY <1>1 DEF ServerShape
  <1>3. srv'[s].pc = pc /\ srv'[s].mem = srv[s].mem /\ srv'[s].seen = srv[s].seen /\ \A t \in Servers \ {s} : srv'[t] = srv[t]
    BY <1>1 DEF ServerShape
  <1>4. srv'[s].asked = srv[s].asked
    BY <1>1 DEF ServerShape
  <1> QED BY <1>2, <1>3, <1>4

(* A server that is gone, or one that changes its place only. *)
Gone(s) == srv'[s] = NoServer
Moves(s, from, to) ==
    /\ srv[s].pc \in from /\ srv'[s].pc \in to
    /\ srv'[s].mem = srv[s].mem /\ srv'[s].seen = srv[s].seen /\ srv'[s].asked = srv[s].asked
OtherServers(s) == \A t \in Servers \ {s} : srv'[t] = srv[t]

LEMMA ProbeDoes ==
  ASSUME Typed, NEW s \in Servers, Launch(s) \/ Probe(s) \/ Unlink(s)
  PROVE  /\ srv' \in [Servers -> ServerShape] /\ OtherServers(s)
         /\ Moves(s, {"off", "probe", "unlink"}, {"probe", "warm", "off", "unlink"})
  <1>1. ServersTyped
    BY DEF Typed
  <1>2. CASE Launch(s)
    BY <1>1, <1>2, GotoDoes, ShapeFacts DEF Launch, Moves, OtherServers
  <1>3. CASE Probe(s)
    <2>1. PICK pc \in {"warm", "off", "unlink"} : Goto(s, pc)
      BY <1>3 DEF Probe
    <2> QED BY <1>1, <1>3, <2>1, GotoDoes DEF Probe, Moves, OtherServers
  <1>4. CASE Unlink(s)
    BY <1>1, <1>4, GotoDoes DEF Unlink, Moves, OtherServers
  <1> QED BY <1>2, <1>3, <1>4

LEMMA WarmDoes ==
  ASSUME Typed, NEW s \in Servers, Warm(s)
  PROVE  /\ srv' \in [Servers -> ServerShape] /\ OtherServers(s)
         /\ srv'[s].pc = "bind" /\ srv'[s].mem = bm25 /\ srv'[s].seen = builds
  <1>1. /\ srv' = [srv EXCEPT ![s].pc = "bind", ![s].mem = bm25, ![s].seen = builds] /\ srv \in [Servers -> ServerShape]
        /\ builds \in Nat /\ bm25 \in [Files -> Row]
    BY DEF Warm, Typed, ServersTyped, IndexesTyped
  <1> QED BY <1>1 DEF ServerShape, OtherServers

LEMMA BindDoes ==
  ASSUME Typed, NEW s \in Servers, Bind(s)
  PROVE  /\ srv' \in [Servers -> ServerShape] /\ OtherServers(s) /\ srv[s].pc = "bind"
         /\ \/ sock = Nobody /\ sock' = s /\ Moves(s, {"bind"}, {"bound"})
            \/ sock' = sock /\ Gone(s)
  <1>1. ServersTyped
    BY DEF Typed
  <1>2. CASE sock = Nobody
    BY <1>1, <1>2, GotoDoes DEF Bind, Moves, OtherServers
  <1>3. CASE sock # Nobody
    BY <1>1, <1>3, ShapeFacts DEF Bind, Gone, OtherServers, ServersTyped
  <1> QED BY <1>2, <1>3

LEMMA ServeDoes ==
  ASSUME Typed, NEW s \in Servers, Listen(s) \/ Search(s)
  PROVE  /\ srv' \in [Servers -> ServerShape] /\ OtherServers(s)
         /\ \/ Moves(s, {"bound"}, {"serve"})
            \/ Moves(s, {"serve"}, {"read"})
  <1>1. ServersTyped
    BY DEF Typed
  <1> QED BY <1>1, GotoDoes DEF Listen, Search, Moves, OtherServers

LEMMA LoadDoes ==
  ASSUME Typed, NEW s \in Servers, HandleReload(s) \/ LoadRead(s) \/ LoadStat(s)
  PROVE  /\ srv' \in [Servers -> ServerShape] /\ OtherServers(s)
         /\ \/ HandleReload(s) /\ srv[s].pc = "serve" /\ srv'[s].pc = "read" /\ srv'[s].mem = srv[s].mem /\ srv'[s].seen = srv[s].seen
            \/ builds = 0 /\ Moves(s, {"read"}, {"serve"})
            \/ builds # 0 /\ srv[s].pc = "read" /\ srv'[s].pc = "stat" /\ srv'[s].mem = bm25 /\ srv'[s].seen = srv[s].seen
            \/ srv[s].pc = "stat" /\ srv'[s].pc = "serve" /\ srv'[s].mem = srv[s].mem /\ srv'[s].seen = builds
               /\ srv'[s].asked = srv[s].asked
  <1>1. srv \in [Servers -> ServerShape] /\ builds \in Nat /\ bm25 \in [Files -> Row]
    BY DEF Typed, ServersTyped, IndexesTyped
  <1>2. CASE HandleReload(s)
    <2>1. srv' = [srv EXCEPT ![s].pc = "read", ![s].asked = FALSE]
      BY <1>2 DEF HandleReload
    <2>2. srv' \in [Servers -> ServerShape]
      BY <1>1, <2>1 DEF ServerShape
    <2>3. srv'[s].pc = "read" /\ srv'[s].mem = srv[s].mem /\ srv'[s].seen = srv[s].seen /\ OtherServers(s)
      BY <1>1, <2>1 DEF ServerShape, OtherServers
    <2> QED BY <1>2, <2>2, <2>3 DEF HandleReload
  <1>3. CASE LoadRead(s) /\ builds = 0
    <2>1. Goto(s, "serve")
      BY <1>3 DEF LoadRead, Goto
    <2> QED BY <1>3, <2>1, GotoDoes DEF LoadRead, Moves, OtherServers, Typed
  <1>4. CASE LoadRead(s) /\ builds # 0
    <2>1. srv' = [srv EXCEPT ![s].pc = "stat", ![s].mem = bm25]
      BY <1>4 DEF LoadRead
    <2> QED BY <1>1, <1>4, <2>1 DEF LoadRead, ServerShape, OtherServers
  <1>5. CASE LoadStat(s)
    <2>1. srv' = [srv EXCEPT ![s].pc = "serve", ![s].seen = builds]
      BY <1>5 DEF LoadStat
    <2>2. /\ srv' \in [Servers -> ServerShape] /\ OtherServers(s) /\ srv'[s].pc = "serve"
          /\ srv'[s].mem = srv[s].mem /\ srv'[s].seen = builds
      BY <1>1, <2>1 DEF ServerShape, OtherServers
    <2>3. srv'[s].asked = srv[s].asked
      BY <1>1, <2>1 DEF ServerShape
    <2> QED BY <1>5, <2>2, <2>3 DEF LoadStat
  <1> QED BY <1>2, <1>3, <1>4, <1>5

LEMMA StopDoes ==
  ASSUME Typed, Stop
  PROVE  /\ srv' \in [Servers -> ServerShape]
         /\ \A t \in Servers : srv'[t] = srv[t] \/ Gone(t)
         /\ sock' = sock \/ (sock' = Nobody /\ \E t \in Servers : Serving(t) /\ Gone(t))
  <1>1. srv \in [Servers -> ServerShape]
    BY DEF Typed, ServersTyped
  <1>2. \A t \in Servers : srv'[t] = IF t \in Stopped THEN NoServer ELSE srv[t]
    BY DEF Stop
  <1>3. Stopped \subseteq Servers
    BY DEF Stopped
  <1> QED BY <1>1, <1>2, <1>3, ShapeFacts DEF Stop, Gone

LEMMA ReloadDoes ==
  ASSUME Typed, Reload
  PROVE  /\ srv' \in [Servers -> ServerShape] /\ reindex.pc = "reload" /\ reindex' = Off
         /\ \A t \in Servers : /\ srv'[t].pc = srv[t].pc /\ srv'[t].mem = srv[t].mem /\ srv'[t].seen = srv[t].seen
                               /\ srv'[t].asked <=> srv[t].asked \/ (sock = t /\ Serving(t))
  <1>1. srv \in [Servers -> ServerShape] /\ sock \in Servers \cup {Nobody} /\ Nobody \notin Servers
    BY RetrievalServerAssumption DEF Typed, ServersTyped
  <1>2. CASE Reachable
    <2>1. PICK u \in Servers : u = sock
      BY <1>1, <1>2 DEF Reachable
    <2>2. srv' = [srv EXCEPT ![u].asked = TRUE]
      BY <1>2, <2>1 DEF Reload
    <2>3. srv' \in [Servers -> ServerShape]
      BY <1>1, <2>2 DEF ServerShape
    <2>4. \A t \in Servers : srv'[t].pc = srv[t].pc /\ srv'[t].mem = srv[t].mem /\ srv'[t].seen = srv[t].seen
      BY <1>1, <2>2 DEF ServerShape
    <2>5. srv'[u].asked /\ \A t \in Servers \ {u} : srv'[t] = srv[t]
      BY <1>1, <2>2 DEF ServerShape
    <2> QED BY <1>2, <2>1, <2>3, <2>4, <2>5 DEF Reload, Reachable
  <1>3. CASE ~ Reachable
    BY <1>1, <1>3 DEF Reload, Reachable
  <1> QED BY <1>2, <1>3

LEMMA CrashDoes ==
  ASSUME Typed, NEW s \in Servers, Crash(s)
  PROVE  srv' \in [Servers -> ServerShape] /\ Gone(s) /\ OtherServers(s) /\ sock' = sock
  BY ShapeFacts DEF Crash, Typed, ServersTyped, Gone, OtherServers

LEMMA ServersStep ==
  ASSUME Inv, [Next]_vars
  PROVE  ServersTyped'
  <1>1. Typed /\ ServersTyped
    BY DEF Inv, Typed
  <1>2. srv' \in [Servers -> ServerShape]
    <2>1. CASE (MemoryNext /\ UNCHANGED serverVars) \/ UNCHANGED vars \/ ReloadCut
      BY <1>1, <2>1 DEF serverVars, vars, ReloadCut, ServersTyped
    <2>2. CASE Stop \/ Reload
      BY <1>1, <2>2, StopDoes, ReloadDoes
    <2>3. CASE \E s \in Servers : \/ Launch(s) \/ Probe(s) \/ Unlink(s) \/ Warm(s) \/ Bind(s) \/ Listen(s) \/ Crash(s)
                                  \/ HandleReload(s) \/ Search(s) \/ LoadRead(s) \/ LoadStat(s)
      BY <1>1, <2>3, ProbeDoes, WarmDoes, BindDoes, ServeDoes, LoadDoes, CrashDoes
    <2> QED BY <2>1, <2>2, <2>3 DEF Next, ServerNext
  <1>3. {sock', pidfile', launched'} \subseteq Servers \cup {Nobody}
    <2>1. sock \in Servers \cup {Nobody} /\ pidfile \in Servers \cup {Nobody} /\ launched \in Servers \cup {Nobody}
      BY <1>1 DEF ServersTyped
    <2>2. /\ sock' \in {sock, Nobody} \cup Servers /\ pidfile' \in {pidfile, Nobody} \cup Servers
          /\ launched' \in {launched, Nobody} \cup Servers
      <3>1. CASE Stop \/ Reload \/ ReloadCut
        BY <3>1 DEF Stop, Reload, ReloadCut
      <3>2. CASE UNCHANGED serverVars \/ UNCHANGED vars
        BY <3>2 DEF vars, serverVars
      <3>3. ASSUME NEW s \in Servers, Launch(s) \/ Probe(s) \/ Unlink(s) \/ Warm(s) \/ Bind(s) \/ Listen(s)
            PROVE  /\ sock' \in {sock, Nobody, s} /\ pidfile' \in {pidfile, s} /\ launched' \in {launched, s}
        BY <3>3 DEF Launch, Probe, Unlink, Warm, Bind, Listen
      <3>4. ASSUME NEW s \in Servers, Crash(s) \/ HandleReload(s) \/ Search(s) \/ LoadRead(s) \/ LoadStat(s)
            PROVE  UNCHANGED <<sock, pidfile, launched>>
        BY <3>4 DEF Crash, HandleReload, Search, LoadRead, LoadStat
      <3> QED BY <3>1, <3>2, <3>3, <3>4 DEF Next, ServerNext
    <2> QED BY <2>1, <2>2
  <1>4. stomped' \in BOOLEAN /\ unasked' \in BOOLEAN
    <2>1. ASSUME NEW s \in Servers, Unlink(s)
          PROVE  stomped' \in BOOLEAN
      <3>1. (stomped \/ (sock # Nobody /\ srv[sock].pc # "off")) \in BOOLEAN
        OBVIOUS
      <3> QED BY <2>1, <3>1 DEF Unlink
    <2>2. CASE UNCHANGED <<stomped, unasked>>
      BY <1>1, <2>2 DEF ServersTyped
    <2>3. CASE \E s \in Servers : Unlink(s)
      BY <1>1, <2>1, <2>3 DEF Unlink, ServersTyped
    <2>4. CASE ReloadCut
      BY <1>1, <2>4 DEF ReloadCut, ServersTyped
    <2> QED BY <2>2, <2>3, <2>4 DEF Next, ServerNext, Launch, Probe, Warm, Bind, Listen, Crash, HandleReload, Search,
           LoadRead, LoadStat, Stop, Reload, vars, serverVars
  <1> QED BY <1>2, <1>3, <1>4 DEF ServersTyped

LEMMA TypedStep ==
  ASSUME Inv, [Next]_vars
  PROVE  Typed'
  BY FilesStep, ReindexStep, IndexesStep, ServersStep DEF Typed

(* A server that binds has the socket, and keeps it unless it is stomped. *)
LEMMA OwnerStep ==
  ASSUME Inv, [Next]_vars
  PROVE  \A t \in Servers : Owner(t)'
  <1>1. Typed /\ ServersTyped /\ Nobody \notin Servers /\ \A t \in Servers : Owner(t)
    BY RetrievalServerAssumption DEF Inv, Typed
  <1>2. ASSUME NEW t \in Servers, srv'[t].pc = srv[t].pc \/ Gone(t), UNCHANGED <<sock, stomped>>
        PROVE  Owner(t)'
    BY <1>1, <1>2, ShapeFacts DEF Owner, Gone
  <1>3. ASSUME NEW s \in Servers, OtherServers(s), UNCHANGED <<sock, stomped>>, Owner(s)'
        PROVE  \A t \in Servers : Owner(t)'
    BY <1>2, <1>3 DEF OtherServers
  <1>4. CASE (MemoryNext /\ UNCHANGED serverVars) \/ UNCHANGED vars
    BY <1>2, <1>4 DEF serverVars, vars
  <1>5. CASE Reload \/ ReloadCut
    <2>1. UNCHANGED <<sock, stomped>> /\ \A t \in Servers : srv'[t].pc = srv[t].pc
      BY <1>1, <1>5, ReloadDoes DEF Reload, ReloadCut
    <2> QED BY <1>2, <2>1
  <1>6. CASE Stop
    <2>1. stomped' = stomped
      BY <1>6 DEF Stop
    <2> TAKE t \in Servers
    <2>2. CASE sock' = sock
      BY <1>1, <1>2, <1>6, <2>1, <2>2, StopDoes
    <2>3. CASE sock' # sock
      <3>1. PICK u \in Servers : Serving(u) /\ Gone(u)
        BY <1>1, <1>6, <2>3, StopDoes
      <3>2. stomped \/ sock = u
        BY <1>1, <3>1 DEF Owner, Serving
      <3>3. srv'[t] = srv[t] \/ Gone(t)
        BY <1>1, <1>6, StopDoes
      <3>4. srv[t].pc \in {"bound", "serve", "read", "stat"} => stomped \/ t = u
        BY <1>1, <3>2 DEF Owner
      <3> QED BY <2>1, <3>1, <3>3, <3>4, ShapeFacts DEF Owner, Gone
    <2> QED BY <2>2, <2>3
  <1>7. ASSUME NEW s \in Servers, Launch(s) \/ Probe(s) \/ Warm(s) \/ Listen(s) \/ Crash(s) \/ HandleReload(s) \/ Search(s)
                                  \/ LoadRead(s) \/ LoadStat(s)
        PROVE  \A t \in Servers : Owner(t)'
    <2>1. UNCHANGED <<sock, stomped>>
      BY <1>7 DEF Launch, Probe, Warm, Listen, Crash, HandleReload, Search, LoadRead, LoadStat
    <2>2. OtherServers(s)
      BY <1>1, <1>7, ProbeDoes, WarmDoes, ServeDoes, LoadDoes, CrashDoes
    <2>3. srv'[s].pc \in {"bound", "serve", "read", "stat"} => srv[s].pc \in {"bound", "serve", "read", "stat"}
      <3>1. CASE Launch(s) \/ Probe(s) \/ Warm(s) \/ Crash(s)
        BY <1>1, <3>1, ProbeDoes, WarmDoes, CrashDoes, ShapeFacts DEF Moves, Gone
      <3>2. CASE Listen(s) \/ HandleReload(s) \/ Search(s) \/ LoadRead(s) \/ LoadStat(s)
        BY <1>1, <3>2, ServeDoes, LoadDoes DEF Moves
      <3> QED BY <1>7, <3>1, <3>2
    <2>4. Owner(s)'
      BY <1>1, <2>1, <2>3 DEF Owner
    <2> QED BY <1>3, <2>1, <2>2, <2>4
  <1>8. ASSUME NEW s \in Servers, Unlink(s)
        PROVE  \A t \in Servers : Owner(t)'
    <2>1. /\ sock' = Nobody /\ stomped' = (stomped \/ (sock # Nobody /\ srv[sock].pc # "off"))
          /\ OtherServers(s) /\ srv'[s].pc = "warm"
      BY <1>1, <1>8, GotoDoes DEF Unlink, OtherServers
    <2> TAKE t \in Servers
    <2>2. CASE stomped'
      BY <2>2 DEF Owner
    <2>3. CASE ~ stomped'
      <3>1. srv[t].pc \notin {"bound", "serve", "read", "stat"}
        BY <1>1, <2>1, <2>3 DEF Owner
      <3>2. srv'[t].pc \notin {"bound", "serve", "read", "stat"}
        BY <2>1, <3>1 DEF OtherServers
      <3> QED BY <3>2 DEF Owner
    <2> QED BY <2>2, <2>3
  <1>9. ASSUME NEW s \in Servers, Bind(s)
        PROVE  \A t \in Servers : Owner(t)'
    <2>1. stomped' = stomped
      BY <1>9 DEF Bind
    <2>2. CASE sock = Nobody /\ sock' = s
      <3>1. \A t \in Servers \ {s} : srv'[t] = srv[t] /\ (srv[t].pc \in {"bound", "serve", "read", "stat"} => stomped)
        BY <1>1, <1>9, <2>2, BindDoes DEF Owner, OtherServers
      <3> QED BY <2>1, <2>2, <3>1 DEF Owner
    <2>3. CASE sock' = sock /\ Gone(s)
      <3>1. OtherServers(s) /\ Owner(s)'
        BY <1>1, <1>9, <2>3, BindDoes, ShapeFacts DEF Owner, Gone
      <3> QED BY <1>3, <2>1, <2>3, <3>1
    <2> QED BY <1>1, <1>9, <2>2, <2>3, BindDoes
  <1> QED BY <1>4, <1>5, <1>6, <1>7, <1>8, <1>9 DEF Next, ServerNext

(* A server's index is the file's, or a reload is owed to it. *)
LEMMA CachedStep ==
  ASSUME Inv, [Next]_vars
  PROVE  \A t \in Servers : Cached(t)'
  <1>1. /\ Typed /\ ServersTyped /\ Nobody \notin Servers /\ builds \in Nat /\ reindex \in ReindexShape
        /\ \A t \in Servers : Cached(t) /\ srv[t].seen \in Nat
    BY RetrievalServerAssumption DEF Inv, Typed, ServersTyped, ServerShape, IndexesTyped
  <1>2. UNCHANGED <<builds, bm25>> \/ BuildSave
    <2>1. CASE MemoryNext
      BY <2>1 DEF MemoryNext, Tick, Edit, Ingest, Delete, Visit, PassStart, Store, PassEnds, BuildGraph, BuildRead, Interrupt
    <2> QED BY <2>1, ServersRead DEF Next
  <1>3. ASSUME NEW t \in Servers, Gone(t)
        PROVE  Cached(t)'
    <2>1. builds' \in Nat
      BY <1>1, <1>2 DEF BuildSave
    <2> QED BY <1>3, <2>1, ShapeFacts DEF Cached, Gone
  <1>4. ASSUME NEW t \in Servers, srv'[t] = srv[t], UNCHANGED <<builds, bm25>>, Owed(t) => Owed(t)'
        PROVE  Cached(t)'
    BY <1>1, <1>4 DEF Cached
  <1>5. CASE MemoryNext /\ UNCHANGED serverVars
    <2> TAKE t \in Servers
    <2>1. UNCHANGED <<srv, sock, unasked>>
      BY <1>5 DEF serverVars
    <2>2. CASE BuildSave
      <3>1. builds' = builds + 1 /\ Owed(t)'
        BY <1>1, <2>2, BuildDoes DEF Owed, BuildSave
      <3> QED BY <1>1, <2>1, <3>1 DEF Cached
    <2>3. CASE ~ BuildSave
      <3>1. reindex.pc = "reload" => reindex' = reindex
        BY <1>1, <1>5, StartDoes, VisitDoes, StoreDoes, EndDoes, BuildDoes, InterruptDoes
           DEF MemoryNext, Tick, Edit, Ingest, Delete
      <3>2. Owed(t) => Owed(t)'
        BY <2>1, <3>1 DEF Owed
      <3> QED BY <1>2, <1>4, <2>1, <2>3, <3>2
    <2> QED BY <2>2, <2>3
  <1>6. CASE UNCHANGED vars
    <2>1. UNCHANGED <<srv, builds, bm25, reindex, unasked, sock>>
      BY <1>6 DEF vars, memoryVars, serverVars
    <2>2. \A t \in Servers : Owed(t) => Owed(t)'
      BY <2>1 DEF Owed
    <2> QED BY <1>4, <2>1, <2>2
  <1>7. ASSUME ServerNext
        PROVE  UNCHANGED <<builds, bm25>>
    BY <1>7, ServersRead
  <1>8. CASE ReloadCut
    BY <1>4, <1>7, <1>8 DEF ReloadCut, ServerNext, Owed
  <1>9. CASE Stop
    <2> TAKE t \in Servers
    <2>1. srv'[t] = srv[t] \/ Gone(t)
      BY <1>1, <1>9, StopDoes
    <2>2. Owed(t) /\ srv'[t] = srv[t] => Owed(t)'
      BY <1>1, <1>9, StopDoes DEF Stop, Owed
    <2> QED BY <1>3, <1>4, <1>7, <1>9, <2>1, <2>2 DEF ServerNext
  <1>10. CASE Reload
    <2> TAKE t \in Servers
    <2>1. UNCHANGED <<builds, bm25, sock, unasked>>
      BY <1>10 DEF Reload
    <2>2. /\ srv'[t].pc = srv[t].pc /\ srv'[t].mem = srv[t].mem /\ srv'[t].seen = srv[t].seen
          /\ srv'[t].asked <=> srv[t].asked \/ (sock = t /\ Serving(t))
      BY <1>1, <1>10, ReloadDoes
    <2>3. srv[t].pc \in {"serve", "stat"} => Owed(t)'
      BY <2>1, <2>2 DEF Owed, Serving
    <2> QED BY <1>1, <2>1, <2>2, <2>3 DEF Cached
  <1>11. ASSUME NEW s \in Servers, OtherServers(s), Cached(s)', sock' = sock \/ sock' = s \/ sock' = Nobody,
                UNCHANGED <<builds, bm25, reindex, unasked>>
         PROVE  \A t \in Servers : Cached(t)'
    <2> TAKE t \in Servers
    <2>1. CASE t # s
      <3>1. srv'[t] = srv[t] /\ (Owed(t) => Owed(t)')
        BY <1>1, <1>11, <2>1 DEF OtherServers, Owed
      <3> QED BY <1>4, <1>11, <3>1
    <2> QED BY <1>11, <2>1
  <1>12. ASSUME NEW s \in Servers, \/ Launch(s) \/ Probe(s) \/ Unlink(s) \/ Warm(s) \/ Bind(s) \/ Listen(s) \/ Crash(s)
                                  \/ HandleReload(s) \/ Search(s) \/ LoadRead(s) \/ LoadStat(s)
         PROVE  /\ UNCHANGED <<builds, bm25, reindex, unasked>>
                /\ sock' = sock \/ sock' = s \/ sock' = Nobody
    BY <1>12 DEF Launch, Probe, Unlink, Warm, Bind, Listen, Crash, HandleReload, Search, LoadRead, LoadStat, memoryVars
  <1>13. ASSUME NEW s \in Servers, Launch(s) \/ Probe(s) \/ Unlink(s) \/ Crash(s)
         PROVE  \A t \in Servers : Cached(t)'
    <2>1. OtherServers(s) /\ Cached(s)'
      <3>1. CASE Crash(s)
        BY <1>1, <1>3, <3>1, CrashDoes
      <3>2. CASE Launch(s) \/ Probe(s) \/ Unlink(s)
        BY <1>1, <1>12, <3>2, ProbeDoes DEF Moves, Cached
      <3> QED BY <1>13, <3>1, <3>2
    <2> QED BY <1>11, <1>12, <1>13, <2>1
  <1>14. ASSUME NEW s \in Servers, Warm(s)
         PROVE  \A t \in Servers : Cached(t)'
    <2>1. OtherServers(s) /\ Cached(s)'
      BY <1>1, <1>12, <1>14, WarmDoes DEF Cached
    <2> QED BY <1>11, <1>12, <1>14, <2>1
  <1>15. ASSUME NEW s \in Servers, Bind(s)
         PROVE  \A t \in Servers : Cached(t)'
    <2>1. Cached(s)'
      BY <1>1, <1>3, <1>12, <1>15, BindDoes DEF Moves, Cached
    <2>2. OtherServers(s)
      BY <1>1, <1>15, BindDoes
    <2> QED BY <1>11, <1>12, <1>15, <2>1, <2>2
  <1>16. ASSUME NEW s \in Servers, Listen(s) \/ Search(s)
         PROVE  \A t \in Servers : Cached(t)'
    <2>1. OtherServers(s) /\ UNCHANGED sock
      BY <1>1, <1>16, ServeDoes DEF Listen, Search
    <2>2. Cached(s)'
      BY <1>1, <1>12, <1>16, ServeDoes DEF Moves, Cached
    <2> QED BY <1>11, <1>12, <1>16, <2>1, <2>2
  <1>17. ASSUME NEW s \in Servers, HandleReload(s) \/ LoadRead(s) \/ LoadStat(s)
         PROVE  \A t \in Servers : Cached(t)'
    <2>1. OtherServers(s) /\ UNCHANGED <<sock, reindex, unasked, builds, bm25>>
      BY <1>1, <1>12, <1>17, LoadDoes DEF HandleReload, LoadRead, LoadStat
    <2>2. Cached(s)'
      <3>1. CASE HandleReload(s) /\ srv[s].pc = "serve" /\ srv'[s].pc = "read" /\ srv'[s].mem = srv[s].mem /\ srv'[s].seen = srv[s].seen
        BY <1>1, <2>1, <3>1 DEF Cached
      <3>2. CASE builds = 0 /\ Moves(s, {"read"}, {"serve"})
        BY <1>1, <2>1, <3>2 DEF Cached, Moves
      <3>3. CASE builds # 0 /\ srv'[s].pc = "stat" /\ srv'[s].mem = bm25 /\ srv'[s].seen = srv[s].seen
        BY <1>1, <2>1, <3>3 DEF Cached
      <3>4. CASE srv[s].pc = "stat" /\ srv'[s].pc = "serve" /\ srv'[s].mem = srv[s].mem /\ srv'[s].seen = builds
                 /\ srv'[s].asked = srv[s].asked
        <4>1. Owed(s) => Owed(s)'
          BY <2>1, <3>4 DEF Owed
        <4> QED BY <1>1, <2>1, <3>4, <4>1 DEF Cached
      <3> QED BY <1>1, <1>17, <3>1, <3>2, <3>3, <3>4, LoadDoes
    <2> QED BY <1>11, <2>1, <2>2
  <1> QED BY <1>5, <1>6, <1>8, <1>9, <1>10, <1>13, <1>14, <1>15, <1>16, <1>17 DEF Next, ServerNext

-----------------------------------------------------------------------------
(* The theorems. *)

LEMMA Invariance == Spec => []Inv
  <1>1. Inv /\ [Next]_vars => Inv'
    BY TypedStep, WalkingStep, BuiltStep, StoredStep, OwnerStep, CachedStep DEF Inv
  <1> QED BY <1>1, InvInit, PTL DEF Spec

(* Every variable of the corpus, the indexes and the servers stays in its type, *)
(* and no row is dated after the clock.                                         *)
THEOREM TypeCorrect == Spec => []Typed
  <1>1. Inv => Typed
    BY DEF Inv
  <1> QED BY <1>1, Invariance, PTL

(* lab_memory.py's incremental ingest leaves no file behind but those hidden by *)
(* an edit or a command or cut off by an interrupt, and when the runner skips   *)
(* the builds the BM25 index is of the rows unless a commit overtook its build. *)
THEOREM IndexStaysCurrent == Spec => []IndexIsCurrent
  <1>1. Inv => IndexIsCurrent
    <2> SUFFICES ASSUME Inv
                 PROVE  IndexIsCurrent
      OBVIOUS
    <2>1. NothingMissed
      BY DEF Inv, Stored, Ahead, NothingMissed
    <2>2. SkipIsSafe
      BY DEF Inv, Built, SkipIsSafe, IndexesCurrent
    <2> QED BY <2>1, <2>2 DEF IndexIsCurrent
  <1> QED BY <1>1, Invariance, PTL

(* retrieval/server.py: a server that listens owns the socket unless another    *)
(* one's unlink came too late, and the index it takes for the file's is, or the *)
(* reload it needs is still to come.                                            *)
THEOREM ServerStaysCurrent == Spec => []ServerIsCurrent
  <1>1. Inv => ServerIsCurrent
    <2> SUFFICES ASSUME Inv
                 PROVE  ServerIsCurrent
      OBVIOUS
    <2>1. NoOrphan
      BY DEF Inv, Owner, Serving, NoOrphan
    <2>2. StaleCacheHeals
      BY DEF Inv, Cached, Owed, StaleCacheHeals
    <2> QED BY <2>1, <2>2 DEF ServerIsCurrent
  <1> QED BY <1>1, Invariance, PTL

(* A pass that comes to its end leaves no file with text behind but those an    *)
(* edit or a command has hidden from it, and those an earlier pass was cut off  *)
(* before: what TimeoutRetried promises, with the exception it leaves out.      *)
THEOREM PassLeavesNothing ==
  Spec => [][PassEnds => \A f \in Files \ (missed \cup cut) : file[f].v > 0 => rows[f].v = file[f].v]_vars
  <1>1. Inv /\ [Next]_vars
          => [PassEnds => \A f \in Files \ (missed \cup cut) : file[f].v > 0 => rows[f].v = file[f].v]_vars
    <2> SUFFICES ASSUME Inv, PassEnds, NEW f \in Files \ (missed \cup cut), file[f].v > 0
                 PROVE  rows[f].v = file[f].v
      OBVIOUS
    <2>1. f \notin Unvisited /\ reindex.pc = "scan"
      BY EndDoes, LabMemoryAssumption DEF Inv, Walking, Unvisited
    <2> QED BY <2>1 DEF Inv, Stored, Ahead
  <1> QED BY <1>1, Invariance, PTL DEF Spec

-----------------------------------------------------------------------------
(* The Slack bot: folds over the subsets of a finite set, which FoldLeft is one of. *)

LEMMA LeastOfNats ==
  ASSUME NEW S \in SUBSET Nat, S # {}
  PROVE  Min(S) \in S /\ \A x \in S : Min(S) <= x
  <1>1. PICK m \in S : \A x \in S : ~ (<<x, m>> \in OpToRel(<, Nat))
    BY NatLessThanWellFounded, WFMin
  <1>2. \A x, y \in Nat : <<x, y>> \in OpToRel(<, Nat) <=> x < y
    BY DEF OpToRel
  <1>3. \A x \in S : m <= x
    <2> TAKE x \in S
    <2>1. m \in Nat /\ x \in Nat /\ ~ (x < m)
      BY <1>1, <1>2
    <2> QED BY <2>1
  <1> QED BY <1>3 DEF Min

UpTo(S, n) == {s \in SUBSET S : Cardinality(s) <= n}
(* A fold over the subsets of S, that takes out pick[s] at each step and goes on with F. *)
FoldNext(g, F, base, pick, s) == IF s = {} THEN base ELSE F[<<pick[s], g[s \ {pick[s]}]>>]
FoldsUpTo(g, F, base, pick, S, T, n) ==
    g \in [UpTo(S, n) -> T] /\ \A s \in UpTo(S, n) : g[s] = FoldNext(g, F, base, pick, s)

Folds(g, F, base, pick, S, T) ==
    g \in [SUBSET S -> T] /\ \A s \in SUBSET S : g[s] = FoldNext(g, F, base, pick, s)
Picks(pick, S) == \A s \in SUBSET S : s # {} => pick[s] \in s

LEMMA PickedLess ==
  ASSUME NEW S, IsFiniteSet(S), NEW s \in SUBSET S, NEW x \in s
  PROVE  /\ s \ {x} \in SUBSET S /\ Cardinality(s) \in Nat
         /\ Cardinality(s \ {x}) \in Nat /\ Cardinality(s) = Cardinality(s \ {x}) + 1
  <1>2. IsFiniteSet(s)
    BY FS_Subset
  <1>3. Cardinality(s \ {x}) = Cardinality(s) - 1 /\ Cardinality(s) \in Nat /\ Cardinality(s) > 0
    BY <1>2, FS_RemoveElement, FS_CardinalityType, FS_EmptySet
  <1> QED BY <1>3

LEMMA FoldsToExist ==
  ASSUME NEW S, IsFiniteSet(S), NEW T, NEW base \in T, NEW F \in [S \X T -> T],
         NEW pick, Picks(pick, S), NEW n \in Nat
  PROVE  \E g : FoldsUpTo(g, F, base, pick, S, T, n)
  <1> DEFINE bad == {m \in Nat : ~ \E g : FoldsUpTo(g, F, base, pick, S, T, m)}
  <1>1. SUFFICES ASSUME bad # {} PROVE FALSE
    OBVIOUS
  <1>2. PICK m : m = Min(bad)
    OBVIOUS
  <1>3. m \in bad /\ \A x \in bad : m <= x
    <2>1. bad \in SUBSET Nat
      OBVIOUS
    <2> HIDE DEF bad
    <2> QED BY <1>1, <1>2, <2>1, LeastOfNats
  <1>4. m \in Nat /\ ~ \E g : FoldsUpTo(g, F, base, pick, S, T, m)
    BY <1>3
  <1>5. CASE m = 0
    <2> DEFINE g == [s \in UpTo(S, 0) |-> base]
    <2>1. ASSUME NEW s \in UpTo(S, 0) PROVE s = {}
      <3>1. s \in SUBSET S /\ Cardinality(s) <= 0
        BY DEF UpTo
      <3>2. SUFFICES ASSUME NEW x \in s PROVE FALSE
        OBVIOUS
      <3>3. Cardinality(s \ {x}) \in Nat /\ Cardinality(s) = Cardinality(s \ {x}) + 1
        BY <3>1, <3>2, PickedLess
      <3> QED BY <3>1, <3>3
    <2>2. FoldsUpTo(g, F, base, pick, S, T, 0)
      BY <2>1 DEF FoldsUpTo, FoldNext
    <2> QED BY <1>4, <1>5, <2>2
  <1>6. CASE m > 0
    <2>1. m - 1 \in Nat /\ m - 1 \notin bad
      BY <1>3, <1>4, <1>6
    <2>2. PICK g : FoldsUpTo(g, F, base, pick, S, T, m - 1)
      BY <2>1
    <2> DEFINE h == [s \in UpTo(S, m) |-> FoldNext(g, F, base, pick, s)]
    <2>3. ASSUME NEW s \in UpTo(S, m) PROVE h[s] \in T /\ h[s] = FoldNext(h, F, base, pick, s)
      <3>1. CASE s = {}
        BY <3>1 DEF FoldNext
      <3>2. CASE s # {}
        <4> PICK t : t = s \ {pick[s]}
          OBVIOUS
        <4>1. s \in SUBSET S /\ Cardinality(s) <= m
          BY DEF UpTo
        <4>2. t \in UpTo(S, m - 1) /\ t \in UpTo(S, m) /\ pick[s] \in S
          <5>1. pick[s] \in s
            BY <3>2, <4>1 DEF Picks
          <5> QED BY <1>4, <4>1, <5>1, PickedLess DEF UpTo
        <4>3. g[t] \in T /\ g[t] = FoldNext(g, F, base, pick, t)
          BY <2>2, <4>2 DEF FoldsUpTo
        <4>4. h[t] = g[t]
          BY <4>2, <4>3
        <4>5. h[s] = F[<<pick[s], g[t]>>]
          BY <3>2 DEF FoldNext
        <4>6. F[<<pick[s], g[t]>>] \in T
          BY <4>2, <4>3
        <4> HIDE DEF h
        <4> QED BY <3>2, <4>4, <4>5, <4>6 DEF FoldNext
      <3> QED BY <3>1, <3>2
    <2>4. h \in [UpTo(S, m) -> T]
      BY <2>3
    <2>5. FoldsUpTo(h, F, base, pick, S, T, m)
      <3> HIDE DEF h
      <3> QED BY <2>3, <2>4 DEF FoldsUpTo
    <2> QED BY <1>4, <2>5
  <1> QED BY <1>4, <1>5, <1>6

LEMMA FoldsExist ==
  ASSUME NEW S, IsFiniteSet(S), NEW T, NEW base \in T, NEW F \in [S \X T -> T],
         NEW pick, Picks(pick, S)
  PROVE  \E g : Folds(g, F, base, pick, S, T)
  <1>1. PICK n : n = Cardinality(S)
    OBVIOUS
  <1>2. n \in Nat
    BY <1>1, FS_CardinalityType
  <1>3. UpTo(S, n) = SUBSET S
    <2>1. ASSUME NEW s \in SUBSET S PROVE Cardinality(s) <= n
      BY <1>1, FS_Subset
    <2> QED BY <2>1 DEF UpTo
  <1>4. PICK g : FoldsUpTo(g, F, base, pick, S, T, n)
    BY <1>2, FoldsToExist
  <1>5. g \in [SUBSET S -> T] /\ \A s \in SUBSET S : g[s] = FoldNext(g, F, base, pick, s)
    BY <1>3, <1>4 DEF FoldsUpTo
  <1> QED BY <1>5 DEF Folds

(* What follows the steps of a fold over a set of good values stays in it. *)
Follows(g, F, base, pick, S, T) ==
    \A s \in SUBSET S :
        /\ s = {} => g[s] = base
        /\ s # {} /\ g[s \ {pick[s]}] \in T => g[s] = F[<<pick[s], g[s \ {pick[s]}]>>]

LEMMA FoldStays ==
  ASSUME NEW S, IsFiniteSet(S), NEW T, NEW base \in T, NEW F \in [S \X T -> T],
         NEW pick, Picks(pick, S), NEW g, Follows(g, F, base, pick, S, T)
  PROVE  \A s \in SUBSET S : g[s] \in T
  <1> DEFINE bad == {m \in Nat : \E s \in SUBSET S : Cardinality(s) = m /\ g[s] \notin T}
  <1>1. CASE bad = {}
    <2> TAKE s \in SUBSET S
    <2>1. Cardinality(s) \in Nat
      BY FS_Subset, FS_CardinalityType
    <2> QED BY <1>1, <2>1
  <1>2. CASE bad # {}
    <2>1. PICK m : m = Min(bad)
      OBVIOUS
    <2>2. m \in bad /\ \A x \in bad : m <= x
      <3>1. bad \in SUBSET Nat
        OBVIOUS
      <3> HIDE DEF bad
      <3> QED BY <1>2, <2>1, <3>1, LeastOfNats
    <2>3. PICK s \in SUBSET S : Cardinality(s) = m /\ g[s] \notin T
      BY <2>2
    <2>4. s # {}
      BY <2>3 DEF Follows
    <2> PICK x, t : x = pick[s] /\ t = s \ {pick[s]}
      OBVIOUS
    <2>5. x \in s /\ t = s \ {x}
      BY <2>4 DEF Picks
    <2>6. t \in SUBSET S /\ Cardinality(t) \in Nat /\ m = Cardinality(t) + 1 /\ x \in S
      BY <2>3, <2>5, PickedLess
    <2>7. Cardinality(t) \notin bad
      <3> HIDE DEF bad
      <3>1. ~ (m <= Cardinality(t))
        BY <2>6
      <3> QED BY <2>2, <3>1
    <2>8. g[t] \in T
      BY <2>6, <2>7
    <2>9. g[s] = F[<<x, g[t]>>]
      BY <2>4, <2>5, <2>8 DEF Follows
    <2>10. F[<<x, g[t]>>] \in T
      BY <2>6, <2>8
    <2> QED BY <2>3, <2>9, <2>10
  <1> QED BY <1>1, <1>2

-----------------------------------------------------------------------------
(* The detectors that touch no alarm: they say only news and keep what the alarms rest on. *)

(* What the poller says of the alarms, and the rest. *)
LabEvents == {"LAB_DEAD", "LAB_ALIVE"}
LoopEvents == {"HOLDING_LOOP_DETECTED", "HOLDING_LOOP_CLEARED"}
HoldingEvents == {"HOLDING_LOOP", "HOLDING_LOOP_END"}
LimitEvents == {"RATE_LIMIT", "RATE_LIMIT_END"}
VerdictEvents == {"EVALUATOR_FAIL", "EVALUATOR_OTHER"}
Alarms == {"LAB_DEAD", "LAB_ALIVE", "HOLDING_LOOP_DETECTED", "HOLDING_LOOP_CLEARED", "HOLDING_LOOP",
    "HOLDING_LOOP_END", "RATE_LIMIT", "RATE_LIMIT_END", "EVALUATOR_FAIL", "EVALUATOR_OTHER"}
News == {"VICTORY", "CATASTROPHIC", "SIGNATURE_FORGERY", "EVAL_FAIL_EXIT", "SESSION_END_OTHER", "NEW_DECISION",
    "ACCOUNTABILITY", "USER_ACTION_REQUIRED", "USER_ACTION_REMINDER", "USER_ACTION_RESOLVED",
    "PROGRAM_SWITCHED", "PHASE_PIVOT", "PHASE_BOUNDARY", "CELL_COMPLETE", "CHECKPOINT_LANDED"}
EventTypes == Alarms \cup News

UserEntry == [seen : BOOLEAN, posted : Nat, decision : {None, "PENDING", "GO"}]
BotState == [
    exit : Nat, verdict : Verdicts \cup {None}, decision : Nat, window : Seq(Texts \cup {None}), looped : BOOLEAN,
    ledger : Nat, limit : Nat, dead : BOOLEAN, status : SUBSET {"VICTORY", "CATASTROPHIC"},
    user : [UserFiles -> UserEntry], holding : BOOLEAN, count : Nat, program : Int, phase : Int,
    ckpt : [Cells -> Nat], completed : [Cells -> BOOLEAN], queue : Seq(Nat), pause : Nat]
World == [
    exit : [n : Nat, reason : Reasons \cup {None}], verdict : Verdicts \cup {None},
    decision : [n : Nat, text : Texts \cup {None}], ledger : Nat, limit : [at : Nat, past : BOOLEAN],
    silence : 0 .. 2, tmux : BOOLEAN, status : SUBSET {"VICTORY", "CATASTROPHIC"},
    user : [UserFiles -> {None, "PENDING", "GO"}], clock : Nat, short : Nat,
    advancing : BOOLEAN, program : Int, phase : Int, ckpt : [Cells -> Nat]]

(* The fields of the state that the alarms and the digest rest on. *)
Kept(s, t) ==
    /\ t.verdict = s.verdict /\ t.looped = s.looped /\ t.limit = s.limit /\ t.dead = s.dead /\ t.holding = s.holding
    /\ t.queue = s.queue /\ t.pause = s.pause
Harmless(s, r) == r.s \in BotState /\ r.say \in Seq(News) /\ Kept(s, r.s)

LEMMA QuietIsHarmless == ASSUME NEW s \in BotState PROVE Harmless(s, Quiet(s))
  BY DEF Harmless, Quiet, Result, Kept

LEMMA SaysIf ==
  ASSUME NEW T, NEW cond, NEW type, cond => type \in T
  PROVE  If(cond, type) \in Seq(T)
  <1>1. CASE cond
    BY <1>1 DEF If
  <1>2. CASE ~ cond
    BY <1>2 DEF If
  <1> QED BY <1>1, <1>2

LEMMA SaysOne == ASSUME NEW T, NEW type \in T PROVE <<type>> \in Seq(T)
  OBVIOUS

LEMMA ExitIsHarmless ==
  ASSUME NEW s \in BotState, NEW x \in World
  PROVE  Harmless(s, detect_session_exit(s, x))
  <1>1. CASE x.exit.n <= s.exit
    BY <1>1, QuietIsHarmless DEF detect_session_exit
  <1>2. CASE ~ (x.exit.n <= s.exit)
    <2> PICK t : t = [s EXCEPT !.exit = x.exit.n]
      OBVIOUS
    <2>1. t \in BotState /\ Kept(s, t)
      <3>1. x.exit.n \in Nat
        BY DEF World
      <3> QED BY <3>1 DEF BotState, Kept
    <2> DEFINE cond == x.exit.reason \in {"VICTORY", "CATASTROPHIC", "SIGNATURE_FORGERY",
                                      "EVAL_FAIL_EXIT", "SESSION_END_OTHER"}
    <2>2. If(cond, x.exit.reason) \in Seq(News)
      <3>1. cond => x.exit.reason \in News
        BY DEF News
      <3> HIDE DEF cond
      <3> QED BY <3>1, SaysIf
    <2>3. detect_session_exit(s, x) = [s |-> t, say |-> If(cond, x.exit.reason)]
      BY <1>2 DEF detect_session_exit, Result
    <2> HIDE DEF cond
    <2> QED BY <2>1, <2>2, <2>3 DEF Harmless
  <1> QED BY <1>1, <1>2

LEMMA LedgerIsHarmless ==
  ASSUME NEW s \in BotState, NEW x \in World
  PROVE  Harmless(s, detect_accountability(s, x))
  <1>1. CASE x.ledger \in {0, s.ledger}
    BY <1>1, QuietIsHarmless DEF detect_accountability
  <1>2. CASE x.ledger \notin {0, s.ledger}
    <2> PICK t : t = [s EXCEPT !.ledger = x.ledger]
      OBVIOUS
    <2>1. t \in BotState /\ Kept(s, t)
      <3>1. x.ledger \in Nat
        BY DEF World
      <3> QED BY <3>1 DEF BotState, Kept
    <2>2. <<"ACCOUNTABILITY">> \in Seq(News)
      <3>1. "ACCOUNTABILITY" \in News
        BY DEF News
      <3> QED BY <3>1, SaysOne
    <2>3. detect_accountability(s, x) = [s |-> t, say |-> <<"ACCOUNTABILITY">>]
      BY <1>2 DEF detect_accountability, Result
    <2> QED BY <2>1, <2>2, <2>3 DEF Harmless
  <1> QED BY <1>1, <1>2

LEMMA StatusIsHarmless ==
  ASSUME NEW s \in BotState, NEW x \in World
  PROVE  Harmless(s, detect_state_status(s, x))
  <1>1. CASE x.status \in {{}, s.status}
    BY <1>1, QuietIsHarmless DEF detect_state_status
  <1>2. CASE x.status \notin {{}, s.status}
    <2> PICK t : t = [s EXCEPT !.status = x.status]
      OBVIOUS
    <2>1. t \in BotState /\ Kept(s, t)
      <3>1. x.status \in SUBSET {"VICTORY", "CATASTROPHIC"}
        BY DEF World
      <3> QED BY <3>1 DEF BotState, Kept
    <2> PICK say : say = If("VICTORY" \in x.status, "VICTORY") \o If("CATASTROPHIC" \in x.status, "CATASTROPHIC")
      OBVIOUS
    <2>2. say \in Seq(News)
      <3>1. "VICTORY" \in News /\ "CATASTROPHIC" \in News
        BY DEF News
      <3>2. If("VICTORY" \in x.status, "VICTORY") \in Seq(News)
        BY <3>1, SaysIf
      <3>3. If("CATASTROPHIC" \in x.status, "CATASTROPHIC") \in Seq(News)
        BY <3>1, SaysIf
      <3> QED BY <3>2, <3>3
    <2>3. detect_state_status(s, x) = [s |-> t, say |-> say]
      BY <1>2 DEF detect_state_status, Result
    <2> QED BY <2>1, <2>2, <2>3 DEF Harmless
  <1> QED BY <1>1, <1>2

LEMMA PhaseIsHarmless ==
  ASSUME NEW s \in BotState, NEW x \in World
  PROVE  Harmless(s, detect_phase_boundary(s, x))
  <1> PICK t : t = [s EXCEPT !.program = x.program, !.phase = x.phase]
    OBVIOUS
  <1>1. t \in BotState /\ Kept(s, t)
    <2>1. x.program \in Int /\ x.phase \in Int
      BY DEF World
    <2> QED BY <2>1 DEF BotState, Kept
  <1>2. <<"PROGRAM_SWITCHED">> \in Seq(News) /\ <<"PHASE_PIVOT">> \in Seq(News) /\ <<"PHASE_BOUNDARY">> \in Seq(News)
    <2>1. "PROGRAM_SWITCHED" \in News /\ "PHASE_PIVOT" \in News /\ "PHASE_BOUNDARY" \in News
      BY DEF News
    <2> QED BY <2>1, SaysOne
  <1>3. << >> \in Seq(News)
    OBVIOUS
  <1>4. \/ detect_phase_boundary(s, x) = Quiet(s)
        \/ \E say \in {<< >>, <<"PROGRAM_SWITCHED">>, <<"PHASE_PIVOT">>, <<"PHASE_BOUNDARY">>} :
             detect_phase_boundary(s, x) = [s |-> t, say |-> say]
    BY DEF detect_phase_boundary, Result, Quiet
  <1>5. CASE detect_phase_boundary(s, x) = Quiet(s)
    BY <1>5, QuietIsHarmless
  <1>6. CASE detect_phase_boundary(s, x) # Quiet(s)
    <2>1. PICK say \in {<< >>, <<"PROGRAM_SWITCHED">>, <<"PHASE_PIVOT">>, <<"PHASE_BOUNDARY">>} :
            detect_phase_boundary(s, x) = [s |-> t, say |-> say]
      BY <1>4, <1>6
    <2>2. say \in Seq(News)
      BY <1>2, <1>3
    <2> QED BY <1>1, <2>1, <2>2 DEF Harmless
  <1> QED BY <1>5, <1>6

LEMMA UserChange ==
  ASSUME NEW s \in BotState, NEW f \in UserFiles, NEW e \in UserEntry
  PROVE  [s EXCEPT !.user[f] = e] \in BotState /\ Kept(s, [s EXCEPT !.user[f] = e])
  <1> PICK u : u = [s.user EXCEPT ![f] = e]
    OBVIOUS
  <1>1. u \in [UserFiles -> UserEntry]
    <2>1. s.user \in [UserFiles -> UserEntry]
      BY DEF BotState
    <2> QED BY <2>1
  <1>2. [s EXCEPT !.user[f] = e] = [s EXCEPT !.user = u]
    OBVIOUS
  <1>3. [s EXCEPT !.user = u] \in BotState /\ Kept(s, [s EXCEPT !.user = u])
    BY <1>1 DEF BotState, Kept
  <1> QED BY <1>2, <1>3

LEMMA UserFileIsHarmless ==
  ASSUME NEW s \in BotState, NEW x \in World, NEW f \in UserFiles
  PROVE  Harmless(s, UserFile(s, x, f))
  <1> PICK old : old = s.user[f]
    OBVIOUS
  <1> PICK d : d = x.user[f]
    OBVIOUS
  <1>1. old \in UserEntry
    <2>1. s.user \in [UserFiles -> UserEntry]
      BY DEF BotState
    <2> QED BY <2>1
  <1>2. d \in {None, "PENDING", "GO"} /\ x.clock \in Nat
    BY DEF World
  <1>3. FirstState.user[f] \in UserEntry
    <2>1. FirstState.user[f] = [seen |-> FALSE, posted |-> 0, decision |-> None]
      BY DEF FirstState
    <2> QED BY <2>1 DEF UserEntry
  <1>4. "USER_ACTION_REQUIRED" \in News /\ "USER_ACTION_REMINDER" \in News /\ "USER_ACTION_RESOLVED" \in News
    BY DEF News
  <1>5. << >> \in Seq(News)
    OBVIOUS
  <1>6. CASE d = None
    <2>1. UserFile(s, x, f) = [s |-> [s EXCEPT !.user[f] = FirstState.user[f]], say |-> << >>]
      BY <1>6 DEF UserFile, Quiet, Result
    <2> QED BY <1>3, <1>5, <2>1, UserChange DEF Harmless
  <1>7. CASE d # None /\ ~ old.seen
    <2> PICK e : e = [seen |-> TRUE, posted |-> x.clock, decision |-> d]
      OBVIOUS
    <2>1. UserFile(s, x, f) = [s |-> [s EXCEPT !.user[f] = e], say |-> <<"USER_ACTION_REQUIRED">>]
      BY <1>7 DEF UserFile, Quiet, Result
    <2>2. e \in UserEntry
      BY <1>2 DEF UserEntry
    <2>3. <<"USER_ACTION_REQUIRED">> \in Seq(News)
      BY <1>4, SaysOne
    <2>4. [s EXCEPT !.user[f] = e] \in BotState /\ Kept(s, [s EXCEPT !.user[f] = e])
      BY <2>2, UserChange
    <2> QED BY <2>1, <2>3, <2>4 DEF Harmless
  <1>8. CASE d # None /\ old.seen /\ d = "PENDING" /\ x.clock > old.posted
    <2> PICK e : e = [old EXCEPT !.posted = x.clock, !.decision = d]
      OBVIOUS
    <2>1. UserFile(s, x, f) = [s |-> [s EXCEPT !.user[f].posted = x.clock, !.user[f].decision = d],
                               say |-> <<"USER_ACTION_REMINDER">>]
      BY <1>8 DEF UserFile, Quiet, Result
    <2>2. e \in UserEntry
      BY <1>1, <1>2 DEF UserEntry
    <2>3. [s EXCEPT !.user[f].posted = x.clock, !.user[f].decision = d] = [s EXCEPT !.user[f] = e]
      <3>1. s = [i \in DOMAIN s |-> s[i]] /\ "user" \in DOMAIN s /\ f \in DOMAIN s.user
        BY DEF BotState
      <3> QED BY <3>1
    <2>4. <<"USER_ACTION_REMINDER">> \in Seq(News)
      BY <1>4, SaysOne
    <2> QED BY <2>1, <2>2, <2>3, <2>4, UserChange DEF Harmless
  <1>9. CASE d # None /\ old.seen /\ ~ (d = "PENDING" /\ x.clock > old.posted) /\ d # "PENDING" /\ old.decision # d
    <2>1. UserFile(s, x, f) = [s |-> [s EXCEPT !.user[f] = FirstState.user[f]], say |-> <<"USER_ACTION_RESOLVED">>]
      BY <1>9 DEF UserFile, Quiet, Result
    <2>2. <<"USER_ACTION_RESOLVED">> \in Seq(News)
      BY <1>4, SaysOne
    <2> QED BY <1>3, <2>1, <2>2, UserChange DEF Harmless
  <1>10. CASE d # None /\ old.seen /\ ~ (d = "PENDING" /\ x.clock > old.posted) /\ ~ (d # "PENDING" /\ old.decision # d)
    <2>1. UserFile(s, x, f) = Quiet(s)
      BY <1>10 DEF UserFile
    <2> QED BY <2>1, QuietIsHarmless
  <1> QED BY <1>6, <1>7, <1>8, <1>9, <1>10

LEMMA CellIsHarmless ==
  ASSUME NEW s \in BotState, NEW x \in World, NEW c \in Cells
  PROVE  Harmless(s, CellProgress(s, x, c))
  <1> PICK n : n = x.ckpt[c]
    OBVIOUS
  <1>1. n \in Nat
    BY DEF World
  <1>2. CASE n <= s.ckpt[c]
    BY <1>2, QuietIsHarmless DEF CellProgress
  <1>3. CASE ~ (n <= s.ckpt[c])
    <2> PICK complete \in BOOLEAN : complete = (n >= StepsPerCell /\ ~ s.completed[c])
      OBVIOUS
    <2> PICK k, m : k = [s.ckpt EXCEPT ![c] = n] /\ m = [s.completed EXCEPT ![c] = complete \/ @]
      OBVIOUS
    <2>1. k \in [Cells -> Nat] /\ m \in [Cells -> BOOLEAN]
      <3>1. s.ckpt \in [Cells -> Nat] /\ s.completed \in [Cells -> BOOLEAN]
        BY DEF BotState
      <3>2. k \in [Cells -> Nat]
        BY <1>1, <3>1
      <3>3. m \in [Cells -> BOOLEAN]
        BY <3>1
      <3> QED BY <3>2, <3>3
    <2> PICK t : t = [s EXCEPT !.ckpt = k, !.completed = m]
      OBVIOUS
    <2>2. t \in BotState /\ Kept(s, t)
      BY <2>1 DEF BotState, Kept
    <2>3. CellProgress(s, x, c).s = [s EXCEPT !.ckpt[c] = n, !.completed[c] = complete \/ @]
      BY <1>3 DEF CellProgress, Result
    <2>4. [s EXCEPT !.ckpt[c] = n, !.completed[c] = complete \/ @] = t
      <3>1. s = [i \in DOMAIN s |-> s[i]] /\ "ckpt" \in DOMAIN s /\ "completed" \in DOMAIN s
        BY DEF BotState
      <3> QED BY <3>1
    <2>5. CellProgress(s, x, c).say \in {<<"CELL_COMPLETE">>, <<"CHECKPOINT_LANDED">>}
      BY <1>3 DEF CellProgress, Result
    <2>6. <<"CELL_COMPLETE">> \in Seq(News) /\ <<"CHECKPOINT_LANDED">> \in Seq(News)
      <3>1. "CELL_COMPLETE" \in News /\ "CHECKPOINT_LANDED" \in News
        BY DEF News
      <3> QED BY <3>1, SaysOne
    <2>7. CellProgress(s, x, c).say \in Seq(News)
      BY <2>5, <2>6
    <2> QED BY <2>2, <2>3, <2>4, <2>7 DEF Harmless
  <1> QED BY <1>2, <1>3

-----------------------------------------------------------------------------
(* The detectors that go through a set, one member after the other. *)

Joined(r, x) == Result(x.s, r.say \o x.say)

LEMMA HarmlessJoins ==
  ASSUME NEW s, NEW r, Harmless(s, r), NEW x, Harmless(r.s, x)
  PROVE  Harmless(s, Joined(r, x))
  <1>1. Joined(r, x).s = x.s /\ Joined(r, x).say = r.say \o x.say
    BY DEF Joined, Result
  <1>2. r.say \o x.say \in Seq(News)
    BY DEF Harmless
  <1>3. Kept(s, x.s) /\ x.s \in BotState
    BY DEF Harmless, Kept
  <1> QED BY <1>1, <1>2, <1>3 DEF Harmless

(* The results of detectors that leave the alarms of s alone. *)
Harmlesses(s) == {r \in [s : BotState, say : Seq(News)] : Harmless(s, r)}

LEMMA HarmlessIsOne ==
  ASSUME NEW s, NEW r, Harmless(s, r), r = [s |-> r.s, say |-> r.say]
  PROVE  r \in Harmlesses(s)
  BY DEF Harmless, Harmlesses

(* One of a set after the other. *)
EachIs(g, step, s, items) ==
    \A n \in SUBSET DOMAIN items :
        /\ n = {} => g[n] = Quiet(s)
        /\ n # {} /\ g[n \ {Max(n)}] \in Harmlesses(s) =>
             g[n] = Joined(g[n \ {Max(n)}], step[<<items[Max(n)], g[n \ {Max(n)}]>>])

LEMMA SetIsListed ==
  ASSUME NEW S, IsFiniteSet(S)
  PROVE  SetToSeq(S) \in Seq(S)
  <1>0. Cardinality(S) \in Nat
    BY FS_CardinalityType
  <1>1. PICK g : g \in Bijection(1 .. Cardinality(S), S)
    BY FS_CardinalityType DEF ExistsBijection
  <1>2. g \in [1 .. Cardinality(S) -> S] /\ IsInjective(g)
    BY <1>1 DEF Bijection, Injection
  <1> DEFINE q == SetToSeq(S)
  <1>3. q \in [1 .. Cardinality(S) -> S]
    BY <1>2 DEF SetToSeq
  <1> HIDE DEF q
  <1>4. q \in Seq(S)
    BY <1>0, <1>3
  <1> QED BY <1>4 DEF q

(* step says what one member does after a harmless result. *)
StepsWell(step, s, X) == \A p \in X \X Harmlesses(s) : Harmless(p[2].s, step[p]) /\ step[p] = [s |-> step[p].s, say |-> step[p].say]

LEMMA JoinedStays ==
  ASSUME NEW s, NEW X, NEW step, StepsWell(step, s, X), NEW x \in X, NEW r \in Harmlesses(s)
  PROVE  Joined(r, step[<<x, r>>]) \in Harmlesses(s)
  <1> PICK p : p = <<x, r>>
    OBVIOUS
  <1>1. p \in X \X Harmlesses(s) /\ p[2] = r
    OBVIOUS
  <1> PICK one : one = step[p]
    OBVIOUS
  <1>2. Harmless(r.s, one)
    BY <1>1 DEF StepsWell
  <1>3. Harmless(s, r)
    BY DEF Harmlesses
  <1>4. Harmless(s, Joined(r, one))
    BY <1>2, <1>3, HarmlessJoins
  <1>5. Joined(r, one) = [s |-> Joined(r, one).s, say |-> Joined(r, one).say]
    BY DEF Joined, Result
  <1> QED BY <1>4, <1>5, HarmlessIsOne

LEMMA EachExists ==
  ASSUME NEW s \in BotState, NEW X, NEW step, StepsWell(step, s, X), NEW items \in Seq(X)
  PROVE  \E g \in [SUBSET DOMAIN items -> Harmlesses(s)] : EachIs(g, step, s, items)
  <1> DEFINE S == DOMAIN items
             T == Harmlesses(s)
             pick == [n \in SUBSET S |-> Max(n)]
             F == [p \in S \X T |-> Joined(p[2], step[<<items[p[1]], p[2]>>])]
  <1>0. S = 1 .. Len(items) /\ Len(items) \in Nat /\ IsFiniteSet(S)
    BY FS_Interval
  <1>1. ASSUME NEW n \in SUBSET S, n # {} PROVE Max(n) \in n
    <2>1. n \in SUBSET Nat /\ \A x \in n : x <= Len(items)
      BY <1>0
    <2> QED BY <1>0, <1>1, <2>1, BoundedHasMax
  <1>2. Picks(pick, S)
    BY <1>1 DEF Picks
  <1>3. F \in [S \X T -> T]
    <2>1. ASSUME NEW p \in S \X T PROVE Joined(p[2], step[<<items[p[1]], p[2]>>]) \in T
      <3>1. items[p[1]] \in X /\ p[2] \in T
        OBVIOUS
      <3> HIDE DEF T
      <3> QED BY <3>1, JoinedStays DEF T
    <2> HIDE DEF T
    <2> QED BY <2>1
  <1>4. Quiet(s) \in T
    <2>1. Quiet(s) = [s |-> Quiet(s).s, say |-> Quiet(s).say]
      BY DEF Quiet, Result
    <2> QED BY <2>1, QuietIsHarmless, HarmlessIsOne
  <1>5. PICK g : Folds(g, F, Quiet(s), pick, S, T)
    <2> HIDE DEF pick, F, S, T
    <2> QED BY <1>0, <1>2, <1>3, <1>4, FoldsExist
  <1>6. g \in [SUBSET S -> T]
    BY <1>5 DEF Folds
  <1>7. ASSUME NEW n \in SUBSET S
        PROVE  /\ n = {} => g[n] = Quiet(s)
               /\ n # {} => g[n] = Joined(g[n \ {Max(n)}], step[<<items[Max(n)], g[n \ {Max(n)}]>>])
    <2>1. g[n] = FoldNext(g, F, Quiet(s), pick, n)
      BY <1>5 DEF Folds
    <2>2. CASE n = {}
      BY <2>1, <2>2 DEF FoldNext
    <2>3. CASE n # {}
      <3> PICK x : x = Max(n)
        OBVIOUS
      <3>1. x \in n /\ pick[n] = x /\ n \ {x} \in SUBSET S /\ x \in S
        BY <1>1, <2>3
      <3>2. g[n \ {x}] \in T /\ g[n] = F[<<x, g[n \ {x}]>>]
        BY <1>6, <2>1, <2>3, <3>1 DEF FoldNext
      <3>3. F[<<x, g[n \ {x}]>>] = Joined(g[n \ {x}], step[<<items[x], g[n \ {x}]>>])
        BY <3>1, <3>2
      <3> QED BY <2>3, <3>2, <3>3
    <2> QED BY <2>2, <2>3
  <1> QED BY <1>6, <1>7 DEF EachIs

LEMMA EachStays ==
  ASSUME NEW s \in BotState, NEW X, NEW step, StepsWell(step, s, X), NEW items \in Seq(X),
         NEW g, EachIs(g, step, s, items)
  PROVE  g[DOMAIN items] \in Harmlesses(s)
  <1> DEFINE S == DOMAIN items
             T == Harmlesses(s)
             pick == [n \in SUBSET S |-> Max(n)]
             F == [p \in S \X T |-> Joined(p[2], step[<<items[p[1]], p[2]>>])]
  <1>0. S = 1 .. Len(items) /\ Len(items) \in Nat /\ IsFiniteSet(S)
    BY FS_Interval
  <1>1. ASSUME NEW n \in SUBSET S, n # {} PROVE Max(n) \in n
    <2>1. n \in SUBSET Nat /\ \A x \in n : x <= Len(items)
      BY <1>0
    <2> QED BY <1>0, <1>1, <2>1, BoundedHasMax
  <1>2. Picks(pick, S)
    BY <1>1 DEF Picks
  <1>3. F \in [S \X T -> T]
    <2>1. ASSUME NEW p \in S \X T PROVE Joined(p[2], step[<<items[p[1]], p[2]>>]) \in T
      <3>1. items[p[1]] \in X /\ p[2] \in T
        OBVIOUS
      <3> HIDE DEF T
      <3> QED BY <3>1, JoinedStays DEF T
    <2> HIDE DEF T
    <2> QED BY <2>1
  <1>4. Quiet(s) \in T
    <2>1. Quiet(s) = [s |-> Quiet(s).s, say |-> Quiet(s).say]
      BY DEF Quiet, Result
    <2> QED BY <2>1, QuietIsHarmless, HarmlessIsOne
  <1>5. Follows(g, F, Quiet(s), pick, S, T)
    <2>1. ASSUME NEW n \in SUBSET S PROVE n = {} => g[n] = Quiet(s)
      BY DEF EachIs
    <2>2. ASSUME NEW n \in SUBSET S, n # {}, g[n \ {pick[n]}] \in T
          PROVE  g[n] = F[<<pick[n], g[n \ {pick[n]}]>>]
      <3> PICK x : x = Max(n)
        OBVIOUS
      <3>1. x \in S /\ pick[n] = x
        BY <1>1, <2>2
      <3>2. g[n] = Joined(g[n \ {x}], step[<<items[x], g[n \ {x}]>>])
        BY <2>2, <3>1 DEF EachIs
      <3> QED BY <2>2, <3>1, <3>2
    <2> HIDE DEF pick, F, S, T
    <2> QED BY <2>1, <2>2 DEF Follows
  <1>6. S \in SUBSET S
    OBVIOUS
  <1>7. g[S] \in T
    <2> HIDE DEF pick, F, S, T
    <2> QED BY <1>0, <1>2, <1>3, <1>4, <1>5, <1>6, FoldStays
  <1> QED BY <1>7

LEMMA UsersAreHarmless ==
  ASSUME NEW s \in BotState, NEW x \in World
  PROVE  Harmless(s, detect_user_action_required(s, x))
  <1> DEFINE items == SetToSeq(UserFiles)
             step == [p \in UserFiles \X Harmlesses(s) |-> UserFile(p[2].s, x, p[1])]
             next(r, f) == LET one == UserFile(r.s, x, f) IN Result(one.s, r.say \o one.say)
             is(g) == g = [n \in SUBSET DOMAIN items |->
                             IF n = {} THEN Quiet(s) ELSE next(g[n \ {Max(n)}], items[Max(n)])]
  <1>1. items \in Seq(UserFiles)
    BY SlackDetectorsAssumption, SetIsListed
  <1>2. StepsWell(step, s, UserFiles)
    <2>1. ASSUME NEW p \in UserFiles \X Harmlesses(s)
          PROVE  Harmless(p[2].s, step[p]) /\ step[p] = [s |-> step[p].s, say |-> step[p].say]
      <3>1. p[2].s \in BotState /\ p[1] \in UserFiles
        BY DEF Harmlesses
      <3>2. Harmless(p[2].s, UserFile(p[2].s, x, p[1]))
        BY <3>1, UserFileIsHarmless
      <3>3. step[p] = UserFile(p[2].s, x, p[1])
        OBVIOUS
      <3>4. ASSUME NEW t, NEW f PROVE UserFile(t, x, f) = [s |-> UserFile(t, x, f).s, say |-> UserFile(t, x, f).say]
        BY DEF UserFile, Quiet, Result
      <3> HIDE DEF step
      <3> QED BY <3>2, <3>3, <3>4
    <2> QED BY <2>1 DEF StepsWell
  <1>3. detect_user_action_required(s, x) = (CHOOSE g : is(g))[DOMAIN items]
    BY Zenon DEF detect_user_action_required, Each, FoldLeft, MapThenFoldSet
  <1>4. ASSUME NEW r \in Harmlesses(s), NEW f \in UserFiles PROVE next(r, f) = Joined(r, step[<<f, r>>])
    <2>1. step[<<f, r>>] = UserFile(r.s, x, f)
      OBVIOUS
    <2> QED BY <2>1 DEF Joined
  <1>5. ASSUME NEW n \in SUBSET DOMAIN items, n # {} PROVE items[Max(n)] \in UserFiles
    <2>1. DOMAIN items = 1 .. Len(items) /\ Len(items) \in Nat
      BY <1>1
    <2>2. Max(n) \in n
      <3>1. n \in SUBSET Nat /\ \A i \in n : i <= Len(items)
        BY <2>1
      <3> QED BY <1>5, <2>1, <3>1, BoundedHasMax
    <2> QED BY <1>1, <2>1, <2>2
  <1> HIDE DEF items, step, next
  <1>6. \E g : is(g)
    <2>1. PICK g \in [SUBSET DOMAIN items -> Harmlesses(s)] : EachIs(g, step, s, items)
      BY <1>1, <1>2, EachExists
    <2>2. ASSUME NEW n \in SUBSET DOMAIN items
          PROVE  g[n] = IF n = {} THEN Quiet(s) ELSE next(g[n \ {Max(n)}], items[Max(n)])
      <3>1. CASE n = {}
        BY <2>1, <3>1 DEF EachIs
      <3>2. CASE n # {}
        <4>1. g[n \ {Max(n)}] \in Harmlesses(s)
          OBVIOUS
        <4>2. g[n] = Joined(g[n \ {Max(n)}], step[<<items[Max(n)], g[n \ {Max(n)}]>>])
          BY <2>1, <3>2, <4>1 DEF EachIs
        <4> QED BY <1>4, <1>5, <3>2, <4>1, <4>2
      <3> QED BY <3>1, <3>2
    <2>3. is(g)
      BY <2>2
    <2> QED BY <2>3
  <1>7. ASSUME NEW g, is(g) PROVE EachIs(g, step, s, items)
    <2>1. ASSUME NEW n \in SUBSET DOMAIN items
          PROVE  /\ n = {} => g[n] = Quiet(s)
                 /\ n # {} /\ g[n \ {Max(n)}] \in Harmlesses(s) =>
                      g[n] = Joined(g[n \ {Max(n)}], step[<<items[Max(n)], g[n \ {Max(n)}]>>])
      <3>1. g[n] = IF n = {} THEN Quiet(s) ELSE next(g[n \ {Max(n)}], items[Max(n)])
        BY <1>7
      <3> QED BY <1>4, <1>5, <3>1
    <2> QED BY <2>1 DEF EachIs
  <1> HIDE DEF is
  <1>8. PICK g : g = CHOOSE h : is(h)
    OBVIOUS
  <1>9. is(g)
    BY <1>6, <1>8
  <1>10. g[DOMAIN items] \in Harmlesses(s)
    BY <1>1, <1>2, <1>7, <1>9, EachStays
  <1> QED BY <1>3, <1>8, <1>10 DEF Harmlesses

LEMMA CellsAreHarmless ==
  ASSUME NEW s \in BotState, NEW x \in World
  PROVE  Harmless(s, detect_training_progress(s, x))
  <1> DEFINE items == SetToSeq(Cells)
             step == [p \in Cells \X Harmlesses(s) |-> CellProgress(p[2].s, x, p[1])]
             next(r, f) == LET one == CellProgress(r.s, x, f) IN Result(one.s, r.say \o one.say)
             is(g) == g = [n \in SUBSET DOMAIN items |->
                             IF n = {} THEN Quiet(s) ELSE next(g[n \ {Max(n)}], items[Max(n)])]
  <1>1. items \in Seq(Cells)
    BY SlackDetectorsAssumption, SetIsListed
  <1>2. StepsWell(step, s, Cells)
    <2>1. ASSUME NEW p \in Cells \X Harmlesses(s)
          PROVE  Harmless(p[2].s, step[p]) /\ step[p] = [s |-> step[p].s, say |-> step[p].say]
      <3>1. p[2].s \in BotState /\ p[1] \in Cells
        BY DEF Harmlesses
      <3>2. Harmless(p[2].s, CellProgress(p[2].s, x, p[1]))
        BY <3>1, CellIsHarmless
      <3>3. step[p] = CellProgress(p[2].s, x, p[1])
        OBVIOUS
      <3>4. ASSUME NEW t, NEW f PROVE CellProgress(t, x, f) = [s |-> CellProgress(t, x, f).s, say |-> CellProgress(t, x, f).say]
        BY DEF CellProgress, Quiet, Result
      <3> HIDE DEF step
      <3> QED BY <3>2, <3>3, <3>4
    <2> QED BY <2>1 DEF StepsWell
  <1>3. detect_training_progress(s, x) = (CHOOSE g : is(g))[DOMAIN items]
    BY Zenon DEF detect_training_progress, Each, FoldLeft, MapThenFoldSet
  <1>4. ASSUME NEW r \in Harmlesses(s), NEW f \in Cells PROVE next(r, f) = Joined(r, step[<<f, r>>])
    <2>1. step[<<f, r>>] = CellProgress(r.s, x, f)
      OBVIOUS
    <2> QED BY <2>1 DEF Joined
  <1>5. ASSUME NEW n \in SUBSET DOMAIN items, n # {} PROVE items[Max(n)] \in Cells
    <2>1. DOMAIN items = 1 .. Len(items) /\ Len(items) \in Nat
      BY <1>1
    <2>2. Max(n) \in n
      <3>1. n \in SUBSET Nat /\ \A i \in n : i <= Len(items)
        BY <2>1
      <3> QED BY <1>5, <2>1, <3>1, BoundedHasMax
    <2> QED BY <1>1, <2>1, <2>2
  <1> HIDE DEF items, step, next
  <1>6. \E g : is(g)
    <2>1. PICK g \in [SUBSET DOMAIN items -> Harmlesses(s)] : EachIs(g, step, s, items)
      BY <1>1, <1>2, EachExists
    <2>2. ASSUME NEW n \in SUBSET DOMAIN items
          PROVE  g[n] = IF n = {} THEN Quiet(s) ELSE next(g[n \ {Max(n)}], items[Max(n)])
      <3>1. CASE n = {}
        BY <2>1, <3>1 DEF EachIs
      <3>2. CASE n # {}
        <4>1. g[n \ {Max(n)}] \in Harmlesses(s)
          OBVIOUS
        <4>2. g[n] = Joined(g[n \ {Max(n)}], step[<<items[Max(n)], g[n \ {Max(n)}]>>])
          BY <2>1, <3>2, <4>1 DEF EachIs
        <4> QED BY <1>4, <1>5, <3>2, <4>1, <4>2
      <3> QED BY <3>1, <3>2
    <2>3. is(g)
      BY <2>2
    <2> QED BY <2>3
  <1>7. ASSUME NEW g, is(g) PROVE EachIs(g, step, s, items)
    <2>1. ASSUME NEW n \in SUBSET DOMAIN items
          PROVE  /\ n = {} => g[n] = Quiet(s)
                 /\ n # {} /\ g[n \ {Max(n)}] \in Harmlesses(s) =>
                      g[n] = Joined(g[n \ {Max(n)}], step[<<items[Max(n)], g[n \ {Max(n)}]>>])
      <3>1. g[n] = IF n = {} THEN Quiet(s) ELSE next(g[n \ {Max(n)}], items[Max(n)])
        BY <1>7
      <3> QED BY <1>4, <1>5, <3>1
    <2> QED BY <2>1 DEF EachIs
  <1> HIDE DEF is
  <1>8. PICK g : g = CHOOSE h : is(h)
    OBVIOUS
  <1>9. is(g)
    BY <1>6, <1>8
  <1>10. g[DOMAIN items] \in Harmlesses(s)
    BY <1>1, <1>2, <1>7, <1>9, EachStays
  <1> QED BY <1>3, <1>8, <1>10 DEF Harmlesses

-----------------------------------------------------------------------------
(* What the channel was told of the alarms, and what one more event makes of it. *)

(* LastOf over any history. *)
LastIn(h, types, n) == LET is == {i \in 1 .. n : h[i] \in types} IN IF is = {} THEN None ELSE h[Max(is)]

LEMMA LastIsLastIn == ASSUME NEW types, NEW n PROVE LastOf(types, n) = LastIn(history, types, n)
  BY DEF LastOf, LastIn

(* g goes on after h[n] without an event of these types. *)
GoesOn(g, m, h, n, types) ==
    /\ n \in Nat /\ m \in Nat /\ n <= m
    /\ \A i \in 1 .. n : g[i] = h[i]
    /\ \A i \in n + 1 .. m : g[i] \notin types

LEMMA LastSame ==
  ASSUME NEW g, NEW h, NEW types, NEW n, NEW m, GoesOn(g, m, h, n, types)
  PROVE  LastIn(g, types, m) = LastIn(h, types, n)
  <1>0. /\ n \in Nat /\ m \in Nat /\ n <= m /\ \A i \in 1 .. n : g[i] = h[i]
        /\ \A i \in n + 1 .. m : g[i] \notin types
    BY DEF GoesOn
  <1> PICK a, b : a = {i \in 1 .. m : g[i] \in types} /\ b = {i \in 1 .. n : h[i] \in types}
    OBVIOUS
  <1>1. a = b
    <2>1. ASSUME NEW i \in a PROVE i \in b
      <3>1. i \in 1 .. m /\ g[i] \in types
        OBVIOUS
      <3>2. ~ (i \in n + 1 .. m)
        BY <1>0, <3>1
      <3>3. i \in 1 .. n
        BY <1>0, <3>1, <3>2
      <3> QED BY <1>0, <3>1, <3>3
    <2>2. ASSUME NEW i \in b PROVE i \in a
      <3>1. i \in 1 .. n /\ h[i] \in types /\ i \in 1 .. m
        BY <1>0
      <3> QED BY <1>0, <3>1
    <2> QED BY <2>1, <2>2
  <1>2. CASE b = {}
    BY <1>1, <1>2 DEF LastIn
  <1>3. CASE b # {}
    <2>1. b \in SUBSET Nat /\ \A i \in b : i <= n
      BY <1>0
    <2>2. Max(b) \in b
      BY <1>0, <1>3, <2>1, BoundedHasMax
    <2>3. g[Max(b)] = h[Max(b)]
      BY <1>0, <2>2
    <2>4. LastIn(g, types, m) = g[Max(a)] /\ LastIn(h, types, n) = h[Max(b)]
      BY <1>1, <1>3 DEF LastIn
    <2> QED BY <1>1, <2>3, <2>4
  <1> QED BY <1>2, <1>3

LEMMA LastIs ==
  ASSUME NEW h, NEW types, NEW n \in Nat, n > 0, h[n] \in types
  PROVE  LastIn(h, types, n) = h[n]
  <1> PICK a : a = {i \in 1 .. n : h[i] \in types}
    OBVIOUS
  <1>1. a \in SUBSET Nat /\ n \in a /\ \A i \in a : i <= n
    OBVIOUS
  <1>2. Max(a) \in a /\ \A i \in a : i <= Max(a)
    BY <1>1, BoundedHasMax
  <1>3. Max(a) = n
    BY <1>1, <1>2
  <1> QED BY <1>1, <1>3 DEF LastIn

LEMMA LastOfNone == ASSUME NEW h, NEW types PROVE LastIn(h, types, 0) = None
  BY DEF LastIn

(* One event is in order after those before it: ClearsWhatItRaised. *)
InOrder(h, i) ==
    /\ h[i] \in DOMAIN Clears => LastIn(h, {h[i], Clears[h[i]]}, i - 1) = Clears[h[i]]
    /\ h[i] = "LAB_DEAD" => LastIn(h, LabEvents, i - 1) # "LAB_DEAD"
Ordered(h) == \A i \in 1 .. Len(h) : InOrder(h, i)

(* What the channel was told of the alarms is what the state remembers. *)
SaysLab(h, s) == s.dead <=> LastIn(h, LabEvents, Len(h)) = "LAB_DEAD"
SaysLoop(h, s) == s.holding <=> LastIn(h, LoopEvents, Len(h)) = "HOLDING_LOOP_DETECTED"
SaysHolding(h, s) == s.looped <=> LastIn(h, HoldingEvents, Len(h)) = "HOLDING_LOOP"
SaysLimit(h, s) == s.limit # 0 <=> LastIn(h, LimitEvents, Len(h)) = "RATE_LIMIT"
SaysVerdict(h, s) == s.verdict = "FAIL" <=> LastIn(h, VerdictEvents, Len(h)) = "EVALUATOR_FAIL"
Told(h, s) ==
    Ordered(h) /\ SaysLab(h, s) /\ SaysLoop(h, s) /\ SaysHolding(h, s) /\ SaysLimit(h, s) /\ SaysVerdict(h, s)

LEMMA InOrderStays ==
  ASSUME NEW g, NEW h, NEW i \in Nat, i > 0, \A j \in 1 .. i : g[j] = h[j], InOrder(h, i)
  PROVE  InOrder(g, i)
  <1>1. g[i] = h[i] /\ i - 1 \in Nat
    OBVIOUS
  <1>2. ASSUME NEW types PROVE LastIn(g, types, i - 1) = LastIn(h, types, i - 1)
    <2>1. \A j \in 1 .. i - 1 : g[j] = h[j]
      OBVIOUS
    <2>2. \A j \in (i - 1) + 1 .. i - 1 : g[j] \notin types
      BY <1>1
    <2> QED BY <1>1, <2>1, <2>2, LastSame DEF GoesOn
  <1> QED BY <1>1, <1>2 DEF InOrder

(* News leave the alarms as they are. *)
LEMMA NewsTellNothing ==
  ASSUME NEW h \in Seq(EventTypes), NEW say \in Seq(News), NEW s, NEW t, Kept(s, t), Told(h, s)
  PROVE  Told(h \o say, t)
  <1> PICK g : g = h \o say
    OBVIOUS
  <1>1. /\ Len(h) \in Nat /\ Len(g) \in Nat /\ Len(h) <= Len(g) /\ \A i \in 1 .. Len(h) : g[i] = h[i]
        /\ \A i \in Len(h) + 1 .. Len(g) : g[i] \in News
    OBVIOUS
  <1>2. ASSUME NEW types, types \cap News = {} PROVE LastIn(g, types, Len(g)) = LastIn(h, types, Len(h))
    <2>1. \A i \in Len(h) + 1 .. Len(g) : g[i] \notin types
      BY <1>1, <1>2
    <2>2. GoesOn(g, Len(g), h, Len(h), types)
      BY <1>1, <2>1 DEF GoesOn
    <2> QED BY <2>2, LastSame
  <1>3. /\ LabEvents \cap News = {} /\ LoopEvents \cap News = {} /\ HoldingEvents \cap News = {}
        /\ LimitEvents \cap News = {} /\ VerdictEvents \cap News = {}
    BY DEF LabEvents, LoopEvents, HoldingEvents, LimitEvents, VerdictEvents, News
  <1>4. ASSUME NEW i \in 1 .. Len(g) PROVE InOrder(g, i)
    <2>1. CASE i <= Len(h)
      <3>1. i \in Nat /\ i > 0 /\ \A j \in 1 .. i : g[j] = h[j]
        BY <1>1, <2>1
      <3>2. InOrder(h, i)
        BY <1>1, <2>1 DEF Told, Ordered
      <3> QED BY <3>1, <3>2, InOrderStays
    <2>2. CASE ~ (i <= Len(h))
      <3>1. g[i] \in News
        BY <1>1, <2>2
      <3>2. g[i] \notin DOMAIN Clears /\ g[i] # "LAB_DEAD"
        <4>1. DOMAIN Clears = {"LAB_ALIVE", "HOLDING_LOOP_CLEARED", "HOLDING_LOOP_END", "RATE_LIMIT_END"}
          BY DEF Clears
        <4> QED BY <3>1, <4>1 DEF News
      <3> QED BY <3>2 DEF InOrder
    <2> QED BY <2>1, <2>2
  <1>5. /\ LastIn(g, LabEvents, Len(g)) = LastIn(h, LabEvents, Len(h))
        /\ LastIn(g, LoopEvents, Len(g)) = LastIn(h, LoopEvents, Len(h))
        /\ LastIn(g, HoldingEvents, Len(g)) = LastIn(h, HoldingEvents, Len(h))
        /\ LastIn(g, LimitEvents, Len(g)) = LastIn(h, LimitEvents, Len(h))
        /\ LastIn(g, VerdictEvents, Len(g)) = LastIn(h, VerdictEvents, Len(h))
    BY <1>2, <1>3
  <1>6. Told(g, t)
    BY <1>4, <1>5 DEF Told, Ordered, SaysLab, SaysLoop, SaysHolding, SaysLimit, SaysVerdict, Kept
  <1> QED BY <1>6

(* An event of this type after which t is remembered where s was. *)
Heard(s, t, type) ==
    /\ IF type \in LabEvents THEN t.dead <=> type = "LAB_DEAD" ELSE t.dead = s.dead
    /\ IF type \in LoopEvents THEN t.holding <=> type = "HOLDING_LOOP_DETECTED" ELSE t.holding = s.holding
    /\ IF type \in HoldingEvents THEN t.looped <=> type = "HOLDING_LOOP" ELSE t.looped = s.looped
    /\ IF type \in LimitEvents THEN t.limit # 0 <=> type = "RATE_LIMIT" ELSE t.limit = s.limit
    /\ IF type \in VerdictEvents THEN t.verdict = "FAIL" <=> type = "EVALUATOR_FAIL" ELSE t.verdict = s.verdict
    /\ type = "LAB_DEAD" => ~ s.dead
    /\ type = "LAB_ALIVE" => s.dead
    /\ type = "HOLDING_LOOP_CLEARED" => s.holding
    /\ type = "HOLDING_LOOP_END" => s.looped
    /\ type = "RATE_LIMIT_END" => s.limit # 0

Adds(g, h, type) ==
    /\ Len(h) \in Nat /\ Len(g) = Len(h) + 1 /\ g[Len(h) + 1] = type
    /\ \A i \in 1 .. Len(h) : g[i] = h[i]

LEMMA Adding ==
  ASSUME NEW h \in Seq(EventTypes), NEW type \in EventTypes
  PROVE  Adds(h \o <<type>>, h, type)
  BY DEF Adds

LEMMA AddedLast ==
  ASSUME NEW g, NEW h, NEW type, NEW types, Adds(g, h, type)
  PROVE  LastIn(g, types, Len(g)) = IF type \in types THEN type ELSE LastIn(h, types, Len(h))
  <1>0. /\ Len(h) \in Nat /\ Len(g) = Len(h) + 1 /\ g[Len(h) + 1] = type
        /\ \A i \in 1 .. Len(h) : g[i] = h[i]
    BY DEF Adds
  <1>1. CASE type \in types
    <2>1. Len(g) \in Nat /\ Len(g) > 0 /\ g[Len(g)] = type
      BY <1>0
    <2> QED BY <1>1, <2>1, LastIs
  <1>2. CASE type \notin types
    <2>1. Len(g) \in Nat /\ Len(h) <= Len(g)
      BY <1>0
    <2>2. ASSUME NEW i \in Len(h) + 1 .. Len(g) PROVE g[i] \notin types
      <3>1. i = Len(h) + 1
        BY <1>0
      <3> QED BY <1>0, <1>2, <3>1
    <2>3. GoesOn(g, Len(g), h, Len(h), types)
      BY <1>0, <2>1, <2>2 DEF GoesOn
    <2>4. LastIn(g, types, Len(g)) = LastIn(h, types, Len(h))
      BY <2>3, LastSame
    <2> QED BY <1>2, <2>4
  <1> QED BY <1>1, <1>2

LEMMA AddedInOrder ==
  ASSUME NEW g, NEW h, NEW s, NEW t, NEW type, Adds(g, h, type), Told(h, s), Heard(s, t, type)
  PROVE  Ordered(g)
  <1>0. /\ Len(h) \in Nat /\ Len(g) = Len(h) + 1 /\ g[Len(h) + 1] = type
        /\ \A i \in 1 .. Len(h) : g[i] = h[i]
    BY DEF Adds
  <1>1. ASSUME NEW i \in 1 .. Len(h) PROVE InOrder(g, i)
    <2>1. i \in Nat /\ i > 0 /\ \A j \in 1 .. i : g[j] = h[j]
      BY <1>0
    <2>2. InOrder(h, i)
      BY DEF Told, Ordered
    <2> QED BY <2>1, <2>2, InOrderStays
  <1>2. InOrder(g, Len(h) + 1)
    <2> PICK n : n = Len(h)
      OBVIOUS
    <2>0. n \in Nat /\ g[n + 1] = type /\ (n + 1) - 1 = n
      BY <1>0
    <2>1. ASSUME NEW types PROVE LastIn(g, types, n) = LastIn(h, types, n)
      <3>1. \A j \in n + 1 .. n : g[j] \notin types
        BY <1>0
      <3>2. GoesOn(g, n, h, n, types)
        BY <1>0, <3>1 DEF GoesOn
      <3> QED BY <3>2, LastSame
    <2>2. type = "LAB_DEAD" => LastIn(g, LabEvents, n) # "LAB_DEAD"
      BY <2>1 DEF Heard, Told, SaysLab
    <2>3. ASSUME type \in DOMAIN Clears PROVE LastIn(g, {type, Clears[type]}, n) = Clears[type]
      <3>0. /\ Clears["LAB_ALIVE"] = "LAB_DEAD" /\ Clears["HOLDING_LOOP_CLEARED"] = "HOLDING_LOOP_DETECTED"
            /\ Clears["HOLDING_LOOP_END"] = "HOLDING_LOOP" /\ Clears["RATE_LIMIT_END"] = "RATE_LIMIT"
            /\ DOMAIN Clears = {"LAB_ALIVE", "HOLDING_LOOP_CLEARED", "HOLDING_LOOP_END", "RATE_LIMIT_END"}
        BY DEF Clears
      <3>1. CASE type = "LAB_ALIVE"
        <4>1. {type, Clears[type]} = LabEvents
          BY <3>0, <3>1 DEF LabEvents
        <4> QED BY <2>1, <3>0, <3>1, <4>1 DEF Heard, Told, SaysLab
      <3>2. CASE type = "HOLDING_LOOP_CLEARED"
        <4>1. {type, Clears[type]} = LoopEvents
          BY <3>0, <3>2 DEF LoopEvents
        <4> QED BY <2>1, <3>0, <3>2, <4>1 DEF Heard, Told, SaysLoop
      <3>3. CASE type = "HOLDING_LOOP_END"
        <4>1. {type, Clears[type]} = HoldingEvents
          BY <3>0, <3>3 DEF HoldingEvents
        <4> QED BY <2>1, <3>0, <3>3, <4>1 DEF Heard, Told, SaysHolding
      <3>4. CASE type = "RATE_LIMIT_END"
        <4>1. {type, Clears[type]} = LimitEvents
          BY <3>0, <3>4 DEF LimitEvents
        <4> QED BY <2>1, <3>0, <3>4, <4>1 DEF Heard, Told, SaysLimit
      <3> QED BY <2>3, <3>0, <3>1, <3>2, <3>3, <3>4
    <2> QED BY <2>0, <2>2, <2>3 DEF InOrder
  <1>3. ASSUME NEW i \in 1 .. Len(g) PROVE InOrder(g, i)
    <2>1. i \in 1 .. Len(h) \/ i = Len(h) + 1
      BY <1>0
    <2> QED BY <1>1, <1>2, <2>1
  <1> QED BY <1>3 DEF Ordered

LEMMA AddedIsTold ==
  ASSUME NEW g, NEW h, NEW s, NEW t, NEW type, Adds(g, h, type), Told(h, s), Heard(s, t, type)
  PROVE  Told(g, t)
  <1>2. Ordered(g)
    BY AddedInOrder
  <1>3. SaysLab(g, t)
    <2>1. LastIn(g, LabEvents, Len(g)) = IF type \in LabEvents THEN type ELSE LastIn(h, LabEvents, Len(h))
      BY AddedLast
    <2>2. SaysLab(h, s)
      BY DEF Told
    <2>3. CASE type \in LabEvents
      BY <2>1, <2>3 DEF Heard, SaysLab
    <2>4. CASE type \notin LabEvents
      BY <2>1, <2>2, <2>4 DEF Heard, SaysLab
    <2> QED BY <2>3, <2>4
  <1>4. SaysLoop(g, t)
    <2>1. LastIn(g, LoopEvents, Len(g)) = IF type \in LoopEvents THEN type ELSE LastIn(h, LoopEvents, Len(h))
      BY AddedLast
    <2>2. SaysLoop(h, s)
      BY DEF Told
    <2>3. CASE type \in LoopEvents
      BY <2>1, <2>3 DEF Heard, SaysLoop
    <2>4. CASE type \notin LoopEvents
      BY <2>1, <2>2, <2>4 DEF Heard, SaysLoop
    <2> QED BY <2>3, <2>4
  <1>5. SaysHolding(g, t)
    <2>1. LastIn(g, HoldingEvents, Len(g)) = IF type \in HoldingEvents THEN type ELSE LastIn(h, HoldingEvents, Len(h))
      BY AddedLast
    <2>2. SaysHolding(h, s)
      BY DEF Told
    <2>3. CASE type \in HoldingEvents
      BY <2>1, <2>3 DEF Heard, SaysHolding
    <2>4. CASE type \notin HoldingEvents
      BY <2>1, <2>2, <2>4 DEF Heard, SaysHolding
    <2> QED BY <2>3, <2>4
  <1>6. SaysLimit(g, t)
    <2>1. LastIn(g, LimitEvents, Len(g)) = IF type \in LimitEvents THEN type ELSE LastIn(h, LimitEvents, Len(h))
      BY AddedLast
    <2>2. SaysLimit(h, s)
      BY DEF Told
    <2>3. CASE type \in LimitEvents
      BY <2>1, <2>3 DEF Heard, SaysLimit
    <2>4. CASE type \notin LimitEvents
      BY <2>1, <2>2, <2>4 DEF Heard, SaysLimit
    <2> QED BY <2>3, <2>4
  <1>7. SaysVerdict(g, t)
    <2>1. LastIn(g, VerdictEvents, Len(g)) = IF type \in VerdictEvents THEN type ELSE LastIn(h, VerdictEvents, Len(h))
      BY AddedLast
    <2>2. SaysVerdict(h, s)
      BY DEF Told
    <2>3. CASE type \in VerdictEvents
      BY <2>1, <2>3 DEF Heard, SaysVerdict
    <2>4. CASE type \notin VerdictEvents
      BY <2>1, <2>2, <2>4 DEF Heard, SaysVerdict
    <2> QED BY <2>3, <2>4
  <1> QED BY <1>2, <1>3, <1>4, <1>5, <1>6, <1>7 DEF Told

LEMMA HeardIsTold ==
  ASSUME NEW h \in Seq(EventTypes), NEW s, NEW t, NEW type \in EventTypes, Told(h, s), Heard(s, t, type)
  PROVE  Told(h \o <<type>>, t)
  <1>1. Adds(h \o <<type>>, h, type)
    BY Adding
  <1> QED BY <1>1, AddedIsTold

-----------------------------------------------------------------------------
(* The detectors of the alarms, and all eleven in their order. *)

Sound(s, r) ==
    /\ r.s \in BotState /\ r.say \in Seq(EventTypes) /\ r.s.queue = s.queue /\ r.s.pause = s.pause
    /\ \A h \in Seq(EventTypes) : Told(h, s) => Told(h \o r.say, r.s)

LEMMA HarmlessIsSound ==
  ASSUME NEW s, NEW r, Harmless(s, r)
  PROVE  Sound(s, r)
  <1>1. r.s \in BotState /\ r.say \in Seq(News) /\ Kept(s, r.s)
    BY DEF Harmless
  <1>2. r.say \in Seq(EventTypes)
    <2>1. News \subseteq EventTypes
      BY DEF EventTypes
    <2> QED BY <1>1, <2>1
  <1>3. ASSUME NEW h \in Seq(EventTypes), Told(h, s) PROVE Told(h \o r.say, r.s)
    BY <1>1, <1>3, NewsTellNothing
  <1> QED BY <1>1, <1>2, <1>3 DEF Sound, Kept

LEMMA SilentIsSound ==
  ASSUME NEW s, NEW t \in BotState, Kept(s, t)
  PROVE  Sound(s, [s |-> t, say |-> << >>])
  <1>1. << >> \in Seq(News)
    OBVIOUS
  <1>2. Harmless(s, [s |-> t, say |-> << >>])
    BY <1>1 DEF Harmless
  <1> QED BY <1>2, HarmlessIsSound

LEMMA HeardIsSound ==
  ASSUME NEW s, NEW t \in BotState, NEW type \in EventTypes, Heard(s, t, type), t.queue = s.queue, t.pause = s.pause
  PROVE  Sound(s, [s |-> t, say |-> <<type>>])
  <1>1. <<type>> \in Seq(EventTypes)
    BY SaysOne
  <1>2. ASSUME NEW h \in Seq(EventTypes), Told(h, s) PROVE Told(h \o <<type>>, t)
    BY <1>2, HeardIsTold
  <1> QED BY <1>1, <1>2 DEF Sound

LEMMA JoinedIsSound ==
  ASSUME NEW s, NEW r, Sound(s, r), NEW x, Sound(r.s, x)
  PROVE  Sound(s, Joined(r, x))
  <1>0. Joined(r, x).s = x.s /\ Joined(r, x).say = r.say \o x.say
    BY DEF Joined, Result
  <1>1. /\ r.say \in Seq(EventTypes) /\ x.say \in Seq(EventTypes) /\ x.s \in BotState
        /\ x.s.queue = s.queue /\ x.s.pause = s.pause
    BY DEF Sound
  <1>2. r.say \o x.say \in Seq(EventTypes)
    BY <1>1
  <1>3. ASSUME NEW h \in Seq(EventTypes), Told(h, s) PROVE Told(h \o (r.say \o x.say), x.s)
    <2>1. h \o r.say \in Seq(EventTypes)
      BY <1>1
    <2>2. Told(h \o r.say, r.s)
      BY <1>3 DEF Sound
    <2>3. Told((h \o r.say) \o x.say, x.s)
      BY <2>1, <2>2 DEF Sound
    <2>0. h \in Seq(EventTypes)
      OBVIOUS
    <2>4. (h \o r.say) \o x.say = h \o (r.say \o x.say)
      <3> PICK u, v : u = r.say /\ v = x.say
        OBVIOUS
      <3>1. u \in Seq(EventTypes) /\ v \in Seq(EventTypes)
        BY <1>1
      <3>2. (h \o u) \o v = h \o (u \o v)
        BY ONLY <2>0, <3>1, ConcatAssociative
      <3> QED BY <3>2
    <2> QED BY <2>3, <2>4
  <1> QED BY <1>0, <1>1, <1>2, <1>3 DEF Sound

(* The alarms of the saved state agree with the lab's files. *)
TrueLab(s, x) ==
    /\ x.silence = 2 /\ ~ Limited(x) => s.dead
    /\ x.silence = 0 \/ Limited(x) => ~ s.dead
TrueLoop(s, x) == s.holding <=> x.short >= TriggerCount /\ ~ x.advancing
TrueVerdict(s, x) == s.verdict = "FAIL" <=> x.verdict = "FAIL"

LEMMA VerdictIsSound ==
  ASSUME NEW s \in BotState, NEW x \in World, NEW r, r = detect_evaluator(s, x)
  PROVE  /\ Sound(s, r)
         /\ r.s.dead = s.dead /\ r.s.holding = s.holding
         /\ (x.verdict = None => s.verdict = None) => TrueVerdict(r.s, x)
         /\ x.verdict = None => r.s.verdict = s.verdict
  <1>1. CASE x.verdict \in {None, s.verdict}
    <2>1. r = Quiet(s)
      BY <1>1 DEF detect_evaluator
    <2>2. Sound(s, r)
      BY <2>1, QuietIsHarmless, HarmlessIsSound
    <2>3. r.s = s
      BY <2>1 DEF Quiet, Result
    <2>4. None # "FAIL"
      BY DEF None
    <2> QED BY <1>1, <2>2, <2>3, <2>4 DEF TrueVerdict
  <1>2. CASE x.verdict \notin {None, s.verdict}
    <2> PICK t : t = [s EXCEPT !.verdict = x.verdict]
      OBVIOUS
    <2> PICK type : type = IF x.verdict = "FAIL" THEN "EVALUATOR_FAIL" ELSE "EVALUATOR_OTHER"
      OBVIOUS
    <2>1. r = [s |-> t, say |-> <<type>>]
      BY <1>2 DEF detect_evaluator, Result
    <2>2. t \in BotState /\ t.queue = s.queue /\ t.pause = s.pause /\ t.dead = s.dead /\ t.holding = s.holding
          /\ t.verdict = x.verdict /\ t.looped = s.looped /\ t.limit = s.limit
      <3>1. x.verdict \in Verdicts \cup {None}
        BY DEF World
      <3> QED BY <3>1 DEF BotState
    <2>3. type \in VerdictEvents /\ (type = "EVALUATOR_FAIL" <=> x.verdict = "FAIL") /\ type \in EventTypes
      BY DEF VerdictEvents, EventTypes, Alarms
    <2>4. Heard(s, t, type)
      <3>1. type \notin LabEvents /\ type \notin LoopEvents /\ type \notin HoldingEvents /\ type \notin LimitEvents
        BY DEF LabEvents, LoopEvents, HoldingEvents, LimitEvents
      <3> QED BY <2>2, <2>3, <3>1 DEF Heard, LabEvents, LoopEvents, HoldingEvents, LimitEvents
    <2>5. Sound(s, r)
      BY <2>1, <2>2, <2>3, <2>4, HeardIsSound
    <2>6. r.s = t
      BY <2>1
    <2>7. TrueVerdict(r.s, x)
      BY <2>2, <2>6 DEF TrueVerdict
    <2> QED BY <1>2, <2>2, <2>5, <2>6, <2>7
  <1> QED BY <1>1, <1>2

LEMMA LimitIsSound ==
  ASSUME NEW s \in BotState, NEW x \in World, NEW r, r = detect_rate_limit(s, x)
  PROVE  Sound(s, r) /\ r.s.dead = s.dead /\ r.s.holding = s.holding /\ r.s.verdict = s.verdict
  <1>0. x.limit.at \in Nat /\ s.limit \in Nat
    BY DEF World, BotState
  <1>1. CASE Limited(x)
    <2> PICK t : t = [s EXCEPT !.limit = x.limit.at]
      OBVIOUS
    <2>1. t \in BotState /\ t.queue = s.queue /\ t.pause = s.pause /\ t.dead = s.dead /\ t.holding = s.holding
          /\ t.verdict = s.verdict /\ t.looped = s.looped /\ t.limit = x.limit.at
      BY <1>0 DEF BotState
    <2>2. CASE s.limit = x.limit.at
      <3>1. r = [s |-> t, say |-> << >>]
        BY <1>1, <2>2 DEF detect_rate_limit, Result, If
      <3>2. Kept(s, t)
        BY <2>1, <2>2 DEF Kept
      <3>3. Sound(s, r)
        BY <2>1, <3>1, <3>2, SilentIsSound
      <3>4. r.s = t
        BY <3>1
      <3> QED BY <2>1, <3>3, <3>4
    <2>3. CASE s.limit # x.limit.at
      <3>1. r = [s |-> t, say |-> <<"RATE_LIMIT">>]
        BY <1>1, <2>3 DEF detect_rate_limit, Result, If
      <3>2. Heard(s, t, "RATE_LIMIT")
        BY <1>1, <2>1 DEF Heard, Limited, LabEvents, LoopEvents, HoldingEvents, LimitEvents, VerdictEvents
      <3>3. "RATE_LIMIT" \in EventTypes
        BY DEF EventTypes, Alarms
      <3>4. Sound(s, r)
        BY <2>1, <3>1, <3>2, <3>3, HeardIsSound
      <3>5. r.s = t
        BY <3>1
      <3> QED BY <2>1, <3>4, <3>5
    <2> QED BY <2>2, <2>3
  <1>2. CASE ~ Limited(x) /\ x.limit.at # 0 /\ s.limit = x.limit.at
    <2> PICK t : t = [s EXCEPT !.limit = 0]
      OBVIOUS
    <2>1. t \in BotState /\ t.queue = s.queue /\ t.pause = s.pause /\ t.dead = s.dead /\ t.holding = s.holding
          /\ t.verdict = s.verdict /\ t.looped = s.looped /\ t.limit = 0
      BY <1>0 DEF BotState
    <2>2. r = [s |-> t, say |-> <<"RATE_LIMIT_END">>]
      BY <1>2 DEF detect_rate_limit, Result
    <2>3. Heard(s, t, "RATE_LIMIT_END")
      BY <1>2, <2>1 DEF Heard, LabEvents, LoopEvents, HoldingEvents, LimitEvents, VerdictEvents
    <2>4. "RATE_LIMIT_END" \in EventTypes
      BY DEF EventTypes, Alarms
    <2>5. Sound(s, r)
      BY <2>1, <2>2, <2>3, <2>4, HeardIsSound
    <2>6. r.s = t
      BY <2>2
    <2> QED BY <2>1, <2>5, <2>6
  <1>3. CASE ~ Limited(x) /\ ~ (x.limit.at # 0 /\ s.limit = x.limit.at)
    <2>1. r = Quiet(s)
      BY <1>3 DEF detect_rate_limit
    <2>2. Sound(s, r)
      BY <2>1, QuietIsHarmless, HarmlessIsSound
    <2>3. r.s = s
      BY <2>1 DEF Quiet, Result
    <2> QED BY <2>2, <2>3
  <1> QED BY <1>1, <1>2, <1>3

LEMMA LabIsSound ==
  ASSUME NEW s \in BotState, NEW x \in World, NEW r, r = detect_lab_liveness(s, x)
  PROVE  Sound(s, r) /\ TrueLab(r.s, x) /\ r.s.holding = s.holding /\ r.s.verdict = s.verdict
  <1>0. x.silence \in 0 .. 2 /\ s.dead \in BOOLEAN
    BY DEF World, BotState
  <1>1. CASE x.silence > 0 /\ ~ Limited(x)
    <2>1. CASE ~ x.tmux \/ x.silence = 2
      <3> PICK t : t = [s EXCEPT !.dead = TRUE]
        OBVIOUS
      <3>1. t \in BotState /\ t.queue = s.queue /\ t.pause = s.pause /\ t.dead /\ t.holding = s.holding
            /\ t.verdict = s.verdict /\ t.looped = s.looped /\ t.limit = s.limit
        BY DEF BotState
      <3>2. r = [s |-> t, say |-> If(~ s.dead, "LAB_DEAD")]
        BY <1>1, <2>1 DEF detect_lab_liveness, Result
      <3>3. Sound(s, [s |-> t, say |-> If(~ s.dead, "LAB_DEAD")])
        <4>1. CASE s.dead
          <5>1. Kept(s, t)
            <6>1. t.dead = s.dead
              BY <1>0, <3>1, <4>1
            <6> QED BY <3>1, <6>1 DEF Kept
          <5>2. If(~ s.dead, "LAB_DEAD") = << >>
            BY <4>1 DEF If
          <5> QED BY <3>1, <5>1, <5>2, SilentIsSound
        <4>2. CASE ~ s.dead
          <5>1. Heard(s, t, "LAB_DEAD")
            BY <3>1, <4>2 DEF Heard, LabEvents, LoopEvents, HoldingEvents, LimitEvents, VerdictEvents
          <5>2. If(~ s.dead, "LAB_DEAD") = <<"LAB_DEAD">>
            BY <4>2 DEF If
          <5>3. "LAB_DEAD" \in EventTypes
            BY DEF EventTypes, Alarms
          <5> QED BY <3>1, <5>1, <5>2, <5>3, HeardIsSound
        <4> QED BY <4>1, <4>2
      <3>4. r.s = t
        BY <3>2
      <3>5. TrueLab(r.s, x)
        BY <1>0, <1>1, <3>1, <3>4 DEF TrueLab
      <3> QED BY <3>1, <3>2, <3>3, <3>4, <3>5
    <2>2. CASE ~ (~ x.tmux \/ x.silence = 2)
      <3>1. r = Quiet(s)
        BY <1>1, <2>2 DEF detect_lab_liveness
      <3>2. Sound(s, r)
        BY <3>1, QuietIsHarmless, HarmlessIsSound
      <3>3. r.s = s
        BY <3>1 DEF Quiet, Result
      <3>4. TrueLab(r.s, x)
        BY <1>0, <1>1, <2>2 DEF TrueLab
      <3> QED BY <3>2, <3>3, <3>4
    <2> QED BY <2>1, <2>2
  <1>2. CASE ~ (x.silence > 0 /\ ~ Limited(x))
    <2> PICK t : t = [s EXCEPT !.dead = FALSE]
      OBVIOUS
    <2>1. t \in BotState /\ t.queue = s.queue /\ t.pause = s.pause /\ ~ t.dead /\ t.holding = s.holding
          /\ t.verdict = s.verdict /\ t.looped = s.looped /\ t.limit = s.limit
      BY DEF BotState
    <2>2. r = [s |-> t, say |-> If(s.dead, "LAB_ALIVE")]
      BY <1>2 DEF detect_lab_liveness, Result
    <2>3. Sound(s, [s |-> t, say |-> If(s.dead, "LAB_ALIVE")])
      <3>1. CASE ~ s.dead
        <4>1. Kept(s, t)
          <5>1. t.dead \in BOOLEAN
            BY <2>1 DEF BotState
          <5>2. t.dead = s.dead
            BY <1>0, <2>1, <3>1, <5>1
          <5> QED BY <2>1, <5>2 DEF Kept
        <4>2. If(s.dead, "LAB_ALIVE") = << >>
          BY <3>1 DEF If
        <4> QED BY <2>1, <4>1, <4>2, SilentIsSound
      <3>2. CASE s.dead
        <4>1. Heard(s, t, "LAB_ALIVE")
          BY <2>1, <3>2 DEF Heard, LabEvents, LoopEvents, HoldingEvents, LimitEvents, VerdictEvents
        <4>2. If(s.dead, "LAB_ALIVE") = <<"LAB_ALIVE">>
          BY <3>2 DEF If
        <4>3. "LAB_ALIVE" \in EventTypes
          BY DEF EventTypes, Alarms
        <4> QED BY <2>1, <4>1, <4>2, <4>3, HeardIsSound
      <3> QED BY <3>1, <3>2
    <2>4. r.s = t
      BY <2>2
    <2>5. TrueLab(r.s, x)
      BY <1>0, <1>2, <2>1, <2>4 DEF TrueLab
    <2> QED BY <2>1, <2>2, <2>3, <2>4, <2>5
  <1> QED BY <1>1, <1>2

LEMMA LoopIsSound ==
  ASSUME NEW s \in BotState, NEW x \in World, NEW r, r = detect_holding_loop(s, x)
  PROVE  Sound(s, r) /\ TrueLoop(r.s, x) /\ r.s.dead = s.dead /\ r.s.verdict = s.verdict
  <1>0. x.short \in Nat /\ s.holding \in BOOLEAN
    BY DEF World, BotState
  <1>1. CASE x.short >= TriggerCount /\ ~ x.advancing
    <2>1. CASE ~ s.holding \/ x.short - s.count >= TriggerCount
      <3> PICK t : t = [s EXCEPT !.holding = TRUE, !.count = x.short]
        OBVIOUS
      <3>1. t \in BotState /\ t.queue = s.queue /\ t.pause = s.pause /\ t.dead = s.dead /\ t.holding
            /\ t.verdict = s.verdict /\ t.looped = s.looped /\ t.limit = s.limit
        BY <1>0 DEF BotState
      <3>2. r = [s |-> t, say |-> <<"HOLDING_LOOP_DETECTED">>]
        BY <1>1, <2>1 DEF detect_holding_loop, Result
      <3>3. Heard(s, t, "HOLDING_LOOP_DETECTED")
        BY <3>1 DEF Heard, LabEvents, LoopEvents, HoldingEvents, LimitEvents, VerdictEvents
      <3>4. "HOLDING_LOOP_DETECTED" \in EventTypes
        BY DEF EventTypes, Alarms
      <3>5. Sound(s, r)
        BY <3>1, <3>2, <3>3, <3>4, HeardIsSound
      <3>6. r.s = t
        BY <3>2
      <3>7. TrueLoop(r.s, x)
        BY <1>1, <3>1, <3>6 DEF TrueLoop
      <3> QED BY <3>1, <3>5, <3>6, <3>7
    <2>2. CASE ~ (~ s.holding \/ x.short - s.count >= TriggerCount)
      <3>1. r = Quiet(s)
        BY <1>1, <2>2 DEF detect_holding_loop
      <3>2. Sound(s, r)
        BY <3>1, QuietIsHarmless, HarmlessIsSound
      <3>3. r.s = s
        BY <3>1 DEF Quiet, Result
      <3>4. TrueLoop(r.s, x)
        BY <1>1, <2>2, <3>3 DEF TrueLoop
      <3> QED BY <3>2, <3>3, <3>4
    <2> QED BY <2>1, <2>2
  <1>2. CASE ~ (x.short >= TriggerCount /\ ~ x.advancing)
    <2> PICK t : t = [s EXCEPT !.holding = FALSE, !.count = 0]
      OBVIOUS
    <2>1. t \in BotState /\ t.queue = s.queue /\ t.pause = s.pause /\ t.dead = s.dead /\ ~ t.holding
          /\ t.verdict = s.verdict /\ t.looped = s.looped /\ t.limit = s.limit
      BY DEF BotState
    <2>2. r = [s |-> t, say |-> If(s.holding, "HOLDING_LOOP_CLEARED")]
      BY <1>2 DEF detect_holding_loop, Result
    <2>3. Sound(s, [s |-> t, say |-> If(s.holding, "HOLDING_LOOP_CLEARED")])
      <3>1. CASE ~ s.holding
        <4>1. Kept(s, t)
          <5>1. t.holding \in BOOLEAN
            BY <2>1 DEF BotState
          <5>2. t.holding = s.holding
            BY <1>0, <2>1, <3>1, <5>1
          <5> QED BY <2>1, <5>2 DEF Kept
        <4>2. If(s.holding, "HOLDING_LOOP_CLEARED") = << >>
          BY <3>1 DEF If
        <4> QED BY <2>1, <4>1, <4>2, SilentIsSound
      <3>2. CASE s.holding
        <4>1. Heard(s, t, "HOLDING_LOOP_CLEARED")
          BY <2>1, <3>2 DEF Heard, LabEvents, LoopEvents, HoldingEvents, LimitEvents, VerdictEvents
        <4>2. If(s.holding, "HOLDING_LOOP_CLEARED") = <<"HOLDING_LOOP_CLEARED">>
          BY <3>2 DEF If
        <4>3. "HOLDING_LOOP_CLEARED" \in EventTypes
          BY DEF EventTypes, Alarms
        <4> QED BY <2>1, <4>1, <4>2, <4>3, HeardIsSound
      <3> QED BY <3>1, <3>2
    <2>4. r.s = t
      BY <2>2
    <2>5. TrueLoop(r.s, x)
      BY <1>2, <2>1, <2>4 DEF TrueLoop
    <2> QED BY <2>1, <2>2, <2>3, <2>4, <2>5
  <1> QED BY <1>1, <1>2

LEMMA EmptyJoins ==
  ASSUME NEW a
  PROVE  <<a>> \o << >> = <<a>> /\ << >> \o <<a>> = <<a>> /\ << >> \o << >> = << >>
  <1>1. <<a>> \in Seq({a}) /\ << >> \in Seq({a})
    OBVIOUS
  <1> QED BY <1>1, ConcatEmptySeq

LEMMA DecisionIsSound ==
  ASSUME NEW s \in BotState, NEW x \in World, NEW r, r = detect_new_decision(s, x)
  PROVE  Sound(s, r) /\ r.s.dead = s.dead /\ r.s.holding = s.holding /\ r.s.verdict = s.verdict
  <1>10. PICK window : window = SubSeq(Append(s.window, x.decision.text), IF Len(s.window) >= 5 THEN 2 ELSE 1,
                                    Len(s.window) + 1)
    OBVIOUS
  <1>11. PICK looping : looping = Looping(window)
    OBVIOUS
  <1>12. PICK seen : seen = [s EXCEPT !.decision = x.decision.n]
    OBVIOUS
  <1>13. PICK t : t = [seen EXCEPT !.window = window, !.looped = looping]
    OBVIOUS
  <1>1. window \in Seq(Texts \cup {None}) /\ looping \in BOOLEAN
    <2>1. s.window \in Seq(Texts \cup {None}) /\ x.decision.text \in Texts \cup {None}
      BY DEF BotState, World
    <2>2. window \in Seq(Texts \cup {None})
      BY <1>10, <2>1
    <2>3. looping \in BOOLEAN
      BY <1>11 DEF Looping
    <2> QED BY <2>2, <2>3
  <1>2. /\ seen \in BotState /\ seen.queue = s.queue /\ seen.pause = s.pause /\ seen.dead = s.dead
        /\ seen.holding = s.holding /\ seen.verdict = s.verdict /\ seen.looped = s.looped /\ seen.limit = s.limit
    <2>1. x.decision.n \in Nat
      BY DEF World
    <2> QED BY <1>12, <2>1 DEF BotState
  <1>3. /\ t \in BotState /\ t.queue = s.queue /\ t.pause = s.pause /\ t.dead = s.dead
        /\ t.holding = s.holding /\ t.verdict = s.verdict /\ t.looped = looping /\ t.limit = s.limit
    BY <1>1, <1>2, <1>13 DEF BotState
  <1>4. CASE x.decision.n = 0
    <2>1. r = Quiet(s)
      BY <1>4 DEF detect_new_decision
    <2>2. Sound(s, r)
      BY <2>1, QuietIsHarmless, HarmlessIsSound
    <2>3. r.s = s
      BY <2>1 DEF Quiet, Result
    <2> QED BY <2>2, <2>3
  <1>5. CASE x.decision.n # 0 /\ s.decision \in {0, x.decision.n}
    <2>1. r = [s |-> seen, say |-> << >>]
      BY <1>5, <1>12 DEF detect_new_decision, Quiet, Result
    <2>2. Kept(s, seen)
      BY <1>2 DEF Kept
    <2>3. Sound(s, r)
      BY <1>2, <2>1, <2>2, SilentIsSound
    <2>4. r.s = seen
      BY <2>1
    <2> QED BY <1>2, <2>3, <2>4
  <1>6. CASE x.decision.n # 0 /\ s.decision \notin {0, x.decision.n}
    <2>0. PICK say : say = If(looping /\ ~ s.looped, "HOLDING_LOOP") \o If(~ looping /\ s.looped, "HOLDING_LOOP_END")
                         \o If(~ looping, "NEW_DECISION")
      OBVIOUS
    <2>1. r = [s |-> t, say |-> say]
      BY <1>6, <1>10, <1>11, <1>12, <1>13, <2>0 DEF detect_new_decision, Result
    <2>2. {"HOLDING_LOOP", "HOLDING_LOOP_END", "NEW_DECISION"} \subseteq EventTypes /\ s.looped \in BOOLEAN
      BY DEF EventTypes, Alarms, News, BotState
    <2>3. CASE looping /\ ~ s.looped
      <3>1. say = <<"HOLDING_LOOP">>
        <4>1. /\ If(looping /\ ~ s.looped, "HOLDING_LOOP") = <<"HOLDING_LOOP">>
              /\ If(~ looping /\ s.looped, "HOLDING_LOOP_END") = << >> /\ If(~ looping, "NEW_DECISION") = << >>
          BY <2>3 DEF If
        <4> QED BY <2>0, <4>1, EmptyJoins
      <3>2. Heard(s, t, "HOLDING_LOOP")
        BY <1>3, <2>3 DEF Heard, LabEvents, LoopEvents, HoldingEvents, LimitEvents, VerdictEvents
      <3>3. Sound(s, r)
        BY <1>3, <2>1, <2>2, <3>1, <3>2, HeardIsSound
      <3>4. r.s = t
        BY <2>1
      <3> QED BY <1>3, <3>3, <3>4
    <2>4. CASE looping /\ s.looped
      <3>1. say = << >>
        <4>1. /\ If(looping /\ ~ s.looped, "HOLDING_LOOP") = << >>
              /\ If(~ looping /\ s.looped, "HOLDING_LOOP_END") = << >> /\ If(~ looping, "NEW_DECISION") = << >>
          BY <2>4 DEF If
        <4> QED BY <2>0, <4>1, EmptyJoins
      <3>2. Kept(s, t)
        <4>1. t.looped = s.looped
          BY <1>1, <1>3, <2>2, <2>4
        <4> QED BY <1>3, <4>1 DEF Kept
      <3>3. Sound(s, r)
        BY <1>3, <2>1, <3>1, <3>2, SilentIsSound
      <3>4. r.s = t
        BY <2>1
      <3> QED BY <1>3, <3>3, <3>4
    <2>5. CASE ~ looping /\ ~ s.looped
      <3>1. say = <<"NEW_DECISION">>
        <4>1. /\ If(looping /\ ~ s.looped, "HOLDING_LOOP") = << >>
              /\ If(~ looping /\ s.looped, "HOLDING_LOOP_END") = << >>
              /\ If(~ looping, "NEW_DECISION") = <<"NEW_DECISION">>
          BY <2>5 DEF If
        <4> QED BY <2>0, <4>1, EmptyJoins
      <3>2. Kept(s, t)
        <4>1. t.looped = s.looped
          BY <1>1, <1>3, <2>2, <2>5
        <4> QED BY <1>3, <4>1 DEF Kept
      <3>3. Sound(s, r)
        <4>1. <<"NEW_DECISION">> \in Seq(News)
          BY SaysOne DEF News
        <4>2. r.s = t /\ r.say = <<"NEW_DECISION">>
          BY <2>1, <3>1
        <4>3. Harmless(s, r)
          BY <1>3, <3>2, <4>1, <4>2 DEF Harmless
        <4> QED BY <4>3, HarmlessIsSound
      <3>4. r.s = t
        BY <2>1
      <3> QED BY <1>3, <3>3, <3>4
    <2>6. CASE ~ looping /\ s.looped
      <3>1. say = <<"HOLDING_LOOP_END">> \o <<"NEW_DECISION">>
        <4>1. /\ If(looping /\ ~ s.looped, "HOLDING_LOOP") = << >>
              /\ If(~ looping /\ s.looped, "HOLDING_LOOP_END") = <<"HOLDING_LOOP_END">>
              /\ If(~ looping, "NEW_DECISION") = <<"NEW_DECISION">>
          BY <2>6 DEF If
        <4> QED BY <2>0, <4>1, EmptyJoins
      <3> PICK a, b : a = [s |-> t, say |-> <<"HOLDING_LOOP_END">>] /\ b = [s |-> t, say |-> <<"NEW_DECISION">>]
        OBVIOUS
      <3>2. Heard(s, t, "HOLDING_LOOP_END")
        BY <1>3, <2>6 DEF Heard, LabEvents, LoopEvents, HoldingEvents, LimitEvents, VerdictEvents
      <3>3. Sound(s, a)
        BY <1>3, <2>2, <3>2, HeardIsSound
      <3>4. Sound(a.s, b)
        <4>1. <<"NEW_DECISION">> \in Seq(News)
          BY SaysOne DEF News
        <4>2. Kept(t, t)
          BY DEF Kept
        <4>3. Harmless(t, b)
          BY <1>3, <4>1, <4>2 DEF Harmless
        <4>4. a.s = t
          OBVIOUS
        <4> QED BY <4>3, <4>4, HarmlessIsSound
      <3>5. r = Joined(a, b)
        BY <2>1, <3>1 DEF Joined, Result
      <3>6. Sound(s, r)
        BY <3>3, <3>4, <3>5, JoinedIsSound
      <3>7. r.s = t
        BY <2>1
      <3> QED BY <1>3, <3>6, <3>7
    <2> QED BY <1>1, <2>2, <2>3, <2>4, <2>5, <2>6
  <1> QED BY <1>4, <1>5, <1>6

LEMMA HarmlessGoesOn ==
  ASSUME NEW s, NEW r, NEW d, NEW t, Sound(s, r), Harmless(r.s, d), t = Joined(r, d)
  PROVE  Sound(s, t) /\ t.s.dead = r.s.dead /\ t.s.holding = r.s.holding /\ t.s.verdict = r.s.verdict
  <1>1. t.s = d.s
    BY DEF Joined, Result
  <1>2. Sound(s, t)
    BY HarmlessIsSound, JoinedIsSound
  <1>3. Kept(r.s, d.s)
    BY DEF Harmless
  <1> QED BY <1>1, <1>2, <1>3 DEF Kept

LEMMA SoundGoesOn ==
  ASSUME NEW s, NEW r, NEW d, NEW t, Sound(s, r), Sound(r.s, d), t = Joined(r, d)
  PROVE  Sound(s, t) /\ t.s = d.s
  <1>1. t.s = d.s
    BY DEF Joined, Result
  <1>2. Sound(s, t)
    BY JoinedIsSound
  <1> QED BY <1>1, <1>2

LEMMA DetectorsAreSound ==
  ASSUME NEW s \in BotState, NEW x \in World, NEW r, r = DETECTORS(s, x)
  PROVE  /\ Sound(s, r)
         /\ TrueLab(r.s, x) /\ TrueLoop(r.s, x)
         /\ (x.verdict = None => s.verdict = None) => TrueVerdict(r.s, x)
         /\ x.verdict = None => r.s.verdict = s.verdict
  <1>0. PICK r0 : r0 = Quiet(s)
    OBVIOUS
  <1>1. PICK r1 : r1 = Joined(r0, detect_session_exit(r0.s, x))
    OBVIOUS
  <1>2. PICK r2 : r2 = Joined(r1, detect_evaluator(r1.s, x))
    OBVIOUS
  <1>3. PICK r3 : r3 = Joined(r2, detect_new_decision(r2.s, x))
    OBVIOUS
  <1>4. PICK r4 : r4 = Joined(r3, detect_accountability(r3.s, x))
    OBVIOUS
  <1>5. PICK r5 : r5 = Joined(r4, detect_rate_limit(r4.s, x))
    OBVIOUS
  <1>6. PICK r6 : r6 = Joined(r5, detect_lab_liveness(r5.s, x))
    OBVIOUS
  <1>7. PICK r7 : r7 = Joined(r6, detect_state_status(r6.s, x))
    OBVIOUS
  <1>8. PICK r8 : r8 = Joined(r7, detect_user_action_required(r7.s, x))
    OBVIOUS
  <1>9. PICK r9 : r9 = Joined(r8, detect_holding_loop(r8.s, x))
    OBVIOUS
  <1>10. PICK r10 : r10 = Joined(r9, detect_phase_boundary(r9.s, x))
    OBVIOUS
  <1>11. PICK r11 : r11 = Joined(r10, detect_training_progress(r10.s, x))
    OBVIOUS
  <1>21. r1 = Then(r0, detect_session_exit, x)
    BY <1>1 DEF Then, Joined
  <1>22. r2 = Then(r1, detect_evaluator, x)
    BY <1>2 DEF Then, Joined
  <1>23. r3 = Then(r2, detect_new_decision, x)
    BY <1>3 DEF Then, Joined
  <1>24. r4 = Then(r3, detect_accountability, x)
    BY <1>4 DEF Then, Joined
  <1>25. r5 = Then(r4, detect_rate_limit, x)
    BY <1>5 DEF Then, Joined
  <1>26. r6 = Then(r5, detect_lab_liveness, x)
    BY <1>6 DEF Then, Joined
  <1>27. r7 = Then(r6, detect_state_status, x)
    BY <1>7 DEF Then, Joined
  <1>28. r8 = Then(r7, detect_user_action_required, x)
    BY <1>8 DEF Then, Joined
  <1>29. r9 = Then(r8, detect_holding_loop, x)
    BY <1>9 DEF Then, Joined
  <1>30. r10 = Then(r9, detect_phase_boundary, x)
    BY <1>10 DEF Then, Joined
  <1>31. r11 = Then(r10, detect_training_progress, x)
    BY <1>11 DEF Then, Joined
  <1>40. r = r11
    <2>1. DETECTORS(s, x) = r11
      BY <1>0, <1>21, <1>22, <1>23, <1>24, <1>25, <1>26, <1>27, <1>28, <1>29, <1>30, <1>31, Zenon DEF DETECTORS
    <2> QED BY <2>1
  <1>50. Sound(s, r0) /\ r0.s = s
    <2>1. Sound(s, r0)
      BY <1>0, QuietIsHarmless, HarmlessIsSound
    <2>2. r0.s = s
      BY <1>0 DEF Quiet, Result
    <2> QED BY <2>1, <2>2
  <1>51. /\ Sound(s, r1)
         /\ r1.s.dead = r0.s.dead /\ r1.s.holding = r0.s.holding /\ r1.s.verdict = r0.s.verdict
    <2>1. Harmless(r0.s, detect_session_exit(r0.s, x))
      BY <1>50, ExitIsHarmless DEF Sound
    <2> QED BY ONLY <1>1, <1>50, <2>1, HarmlessGoesOn
  <1>52. /\ Sound(s, r2)
         /\ r2.s.dead = r1.s.dead /\ r2.s.holding = r1.s.holding
         /\ (x.verdict = None => r1.s.verdict = None) => TrueVerdict(r2.s, x)
         /\ x.verdict = None => r2.s.verdict = r1.s.verdict
    <2>1. PICK d : d = detect_evaluator(r1.s, x)
      OBVIOUS
    <2>2. r1.s \in BotState
      BY <1>51 DEF Sound
    <2>3. Sound(r1.s, d)
      BY <2>1, <2>2, VerdictIsSound
    <2>4. Sound(s, r2) /\ r2.s = d.s
      BY <1>2, <1>51, <2>1, <2>3, SoundGoesOn
    <2> QED BY <2>1, <2>2, <2>4, VerdictIsSound
  <1>53. /\ Sound(s, r3)
         /\ r3.s.dead = r2.s.dead /\ r3.s.holding = r2.s.holding /\ r3.s.verdict = r2.s.verdict
    <2>1. PICK d : d = detect_new_decision(r2.s, x)
      OBVIOUS
    <2>2. r2.s \in BotState
      BY <1>52 DEF Sound
    <2>3. Sound(r2.s, d)
      BY <2>1, <2>2, DecisionIsSound
    <2>4. Sound(s, r3) /\ r3.s = d.s
      BY <1>3, <1>52, <2>1, <2>3, SoundGoesOn
    <2> QED BY <2>1, <2>2, <2>4, DecisionIsSound
  <1>54. /\ Sound(s, r4)
         /\ r4.s.dead = r3.s.dead /\ r4.s.holding = r3.s.holding /\ r4.s.verdict = r3.s.verdict
    <2>1. Harmless(r3.s, detect_accountability(r3.s, x))
      BY <1>53, LedgerIsHarmless DEF Sound
    <2> QED BY ONLY <1>4, <1>53, <2>1, HarmlessGoesOn
  <1>55. /\ Sound(s, r5)
         /\ r5.s.dead = r4.s.dead /\ r5.s.holding = r4.s.holding /\ r5.s.verdict = r4.s.verdict
    <2>1. PICK d : d = detect_rate_limit(r4.s, x)
      OBVIOUS
    <2>2. r4.s \in BotState
      BY <1>54 DEF Sound
    <2>3. Sound(r4.s, d)
      BY <2>1, <2>2, LimitIsSound
    <2>4. Sound(s, r5) /\ r5.s = d.s
      BY <1>5, <1>54, <2>1, <2>3, SoundGoesOn
    <2> QED BY <2>1, <2>2, <2>4, LimitIsSound
  <1>56. /\ Sound(s, r6)
         /\ TrueLab(r6.s, x) /\ r6.s.holding = r5.s.holding /\ r6.s.verdict = r5.s.verdict
    <2>1. PICK d : d = detect_lab_liveness(r5.s, x)
      OBVIOUS
    <2>2. r5.s \in BotState
      BY <1>55 DEF Sound
    <2>3. Sound(r5.s, d)
      BY <2>1, <2>2, LabIsSound
    <2>4. Sound(s, r6) /\ r6.s = d.s
      BY <1>6, <1>55, <2>1, <2>3, SoundGoesOn
    <2> QED BY <2>1, <2>2, <2>4, LabIsSound
  <1>57. /\ Sound(s, r7)
         /\ r7.s.dead = r6.s.dead /\ r7.s.holding = r6.s.holding /\ r7.s.verdict = r6.s.verdict
    <2>1. Harmless(r6.s, detect_state_status(r6.s, x))
      BY <1>56, StatusIsHarmless DEF Sound
    <2> QED BY ONLY <1>7, <1>56, <2>1, HarmlessGoesOn
  <1>58. /\ Sound(s, r8)
         /\ r8.s.dead = r7.s.dead /\ r8.s.holding = r7.s.holding /\ r8.s.verdict = r7.s.verdict
    <2>1. Harmless(r7.s, detect_user_action_required(r7.s, x))
      BY <1>57, UsersAreHarmless DEF Sound
    <2> QED BY ONLY <1>8, <1>57, <2>1, HarmlessGoesOn
  <1>59. /\ Sound(s, r9)
         /\ TrueLoop(r9.s, x) /\ r9.s.dead = r8.s.dead /\ r9.s.verdict = r8.s.verdict
    <2>1. PICK d : d = detect_holding_loop(r8.s, x)
      OBVIOUS
    <2>2. r8.s \in BotState
      BY <1>58 DEF Sound
    <2>3. Sound(r8.s, d)
      BY <2>1, <2>2, LoopIsSound
    <2>4. Sound(s, r9) /\ r9.s = d.s
      BY <1>9, <1>58, <2>1, <2>3, SoundGoesOn
    <2> QED BY <2>1, <2>2, <2>4, LoopIsSound
  <1>60. /\ Sound(s, r10)
         /\ r10.s.dead = r9.s.dead /\ r10.s.holding = r9.s.holding /\ r10.s.verdict = r9.s.verdict
    <2>1. Harmless(r9.s, detect_phase_boundary(r9.s, x))
      BY <1>59, PhaseIsHarmless DEF Sound
    <2> QED BY ONLY <1>10, <1>59, <2>1, HarmlessGoesOn
  <1>61. /\ Sound(s, r11)
         /\ r11.s.dead = r10.s.dead /\ r11.s.holding = r10.s.holding /\ r11.s.verdict = r10.s.verdict
    <2>1. Harmless(r10.s, detect_training_progress(r10.s, x))
      BY <1>60, CellsAreHarmless DEF Sound
    <2> QED BY ONLY <1>11, <1>60, <2>1, HarmlessGoesOn
  <1>70. r11.s.verdict = r2.s.verdict /\ r11.s.dead = r6.s.dead /\ r11.s.holding = r9.s.holding /\ r1.s.verdict = s.verdict
    BY <1>50, <1>51, <1>53, <1>54, <1>55, <1>56, <1>57, <1>58, <1>59, <1>60, <1>61
  <1>71. TrueLab(r11.s, x)
    BY <1>56, <1>70 DEF TrueLab
  <1>72. TrueLoop(r11.s, x)
    BY <1>59, <1>70 DEF TrueLoop
  <1>73. (x.verdict = None => s.verdict = None) => TrueVerdict(r11.s, x)
    BY <1>52, <1>70 DEF TrueVerdict
  <1>74. x.verdict = None => r11.s.verdict = s.verdict
    BY <1>52, <1>70
  <1> QED BY <1>40, <1>61, <1>71, <1>72, <1>73, <1>74

-----------------------------------------------------------------------------
(* The types of the bot's state. *)

PollerState ==
    {p \in [pc : {"idle", "detect", "post", "send", "flush", "clear"}, mine : BotState, events : Seq(Nat)] :
        /\ p.pc = "send" => p.events # << >>
        /\ p.pc \in {"idle", "detect", "flush", "clear"} => p.events = << >>}
CommandState == [pc : {"none", "pause"}, mine : BotState]

BotTypes ==
    /\ w \in World /\ disk \in BotState
    /\ poller \in PollerState /\ command \in CommandState
    /\ history \in Seq(EventTypes) /\ posts \in [1 .. Len(history) -> Nat]
    /\ settled \in BOOLEAN /\ torn \in BOOLEAN /\ lost \in BOOLEAN /\ doubt \in BOOLEAN
    /\ changes \in Nat /\ faults \in Nat /\ commands \in Nat
    /\ \A j \in DOMAIN poller.events : poller.events[j] \in 1 .. Len(history)

(* What the lab may do to its files. *)
Turns(x, y) == y \in World /\ (y.verdict = None => x.verdict = None)

LEMMA FirstStateType == FirstState \in BotState
  <1>1. FirstState.user \in [UserFiles -> UserEntry]
    BY DEF FirstState, UserEntry
  <1>2. << >> \in Seq(Texts \cup {None}) /\ << >> \in Seq(Nat)
    OBVIOUS
  <1>3. /\ FirstState.ckpt \in [Cells -> Nat] /\ FirstState.completed \in [Cells -> BOOLEAN]
        /\ FirstState.program \in Int /\ FirstState.phase \in Int
    BY DEF FirstState, Missing
  <1>4. /\ FirstState.window \in Seq(Texts \cup {None}) /\ FirstState.queue \in Seq(Nat)
        /\ FirstState.verdict \in Verdicts \cup {None} /\ FirstState.status \in SUBSET {"VICTORY", "CATASTROPHIC"}
    BY <1>2 DEF FirstState
  <1>5. /\ FirstState.exit \in Nat /\ FirstState.decision \in Nat /\ FirstState.looped \in BOOLEAN
        /\ FirstState.ledger \in Nat /\ FirstState.limit \in Nat /\ FirstState.dead \in BOOLEAN
        /\ FirstState.holding \in BOOLEAN /\ FirstState.count \in Nat /\ FirstState.pause \in Nat
    BY DEF FirstState
  <1>6. FirstState = [
    exit |-> FirstState.exit, verdict |-> FirstState.verdict, decision |-> FirstState.decision,
    window |-> FirstState.window, looped |-> FirstState.looped, ledger |-> FirstState.ledger,
    limit |-> FirstState.limit, dead |-> FirstState.dead, status |-> FirstState.status, user |-> FirstState.user,
    holding |-> FirstState.holding, count |-> FirstState.count, program |-> FirstState.program,
    phase |-> FirstState.phase, ckpt |-> FirstState.ckpt, completed |-> FirstState.completed,
    queue |-> FirstState.queue, pause |-> FirstState.pause]
    BY DEF FirstState
  <1> QED BY <1>1, <1>3, <1>4, <1>5, <1>6 DEF BotState

LEMMA SessionTurns ==
  ASSUME NEW x \in World
  PROVE  /\ \A r \in Reasons : Turns(x, [x EXCEPT !.exit = [n |-> @.n + 1, reason |-> r]])
         /\ \A v \in Verdicts : Turns(x, [x EXCEPT !.verdict = v])
         /\ \A t \in Texts : Turns(x, [x EXCEPT !.decision = [n |-> @.n + 1, text |-> t]])
         /\ Turns(x, [x EXCEPT !.ledger = @ + 1])
  <1>1. ASSUME NEW r \in Reasons PROVE Turns(x, [x EXCEPT !.exit = [n |-> @.n + 1, reason |-> r]])
    BY DEF World, Turns
  <1>2. ASSUME NEW v \in Verdicts PROVE Turns(x, [x EXCEPT !.verdict = v])
    BY SlackBotAssumption DEF World, Turns
  <1>3. ASSUME NEW t \in Texts PROVE Turns(x, [x EXCEPT !.decision = [n |-> @.n + 1, text |-> t]])
    BY DEF World, Turns
  <1>4. Turns(x, [x EXCEPT !.ledger = @ + 1])
    BY DEF World, Turns
  <1> QED BY <1>1, <1>2, <1>3, <1>4

LEMMA LivenessTurns ==
  ASSUME NEW x \in World, NEW n \in Nat
  PROVE  /\ \A d \in 0 .. 2 : Turns(x, [x EXCEPT !.silence = d])
         /\ Turns(x, [x EXCEPT !.tmux = ~@])
         /\ Turns(x, [x EXCEPT !.limit = [at |-> n + 1, past |-> FALSE]])
         /\ Turns(x, [x EXCEPT !.limit.past = TRUE])
         /\ Turns(x, [x EXCEPT !.limit = [at |-> 0, past |-> FALSE]])
  <1>1. ASSUME NEW d \in 0 .. 2 PROVE Turns(x, [x EXCEPT !.silence = d])
    BY DEF World, Turns
  <1>2. Turns(x, [x EXCEPT !.tmux = ~@])
    BY DEF World, Turns
  <1>3. Turns(x, [x EXCEPT !.limit = [at |-> n + 1, past |-> FALSE]])
    <2>1. PICK gate : gate = [at |-> n + 1, past |-> FALSE]
      OBVIOUS
    <2>2. n + 1 \in Nat
      OBVIOUS
    <2>3. gate \in [at : Nat, past : BOOLEAN]
      BY <2>1, <2>2
    <2>4. Turns(x, [x EXCEPT !.limit = gate])
      BY <2>3 DEF World, Turns
    <2> QED BY <2>1, <2>4
  <1>4. Turns(x, [x EXCEPT !.limit.past = TRUE])
    BY DEF World, Turns
  <1>5. Turns(x, [x EXCEPT !.limit = [at |-> 0, past |-> FALSE]])
    BY DEF World, Turns
  <1> QED BY <1>1, <1>2, <1>3, <1>4, <1>5

LEMMA ProgramTurns ==
  ASSUME NEW x \in World
  PROVE  /\ \A words \in SUBSET {"VICTORY", "CATASTROPHIC"} : Turns(x, [x EXCEPT !.status = words])
         /\ \A f \in UserFiles, d \in {None, "PENDING", "GO"} : Turns(x, [x EXCEPT !.user[f] = d])
         /\ Turns(x, [x EXCEPT !.clock = @ + 1])
         /\ \A n \in ShortCounts : Turns(x, [x EXCEPT !.short = n])
         /\ Turns(x, [x EXCEPT !.advancing = ~@])
         /\ \A p \in Phases \union {Unknown} : Turns(x, [x EXCEPT !.phase = p])
         /\ \A p \in {Unknown, 1, 2} : Turns(x, [x EXCEPT !.program = p])
         /\ \A c \in Cells, n \in 1 .. StepsPerCell : Turns(x, [x EXCEPT !.ckpt[c] = n])
  <1>1. ASSUME NEW words \in SUBSET {"VICTORY", "CATASTROPHIC"} PROVE Turns(x, [x EXCEPT !.status = words])
    BY DEF World, Turns
  <1>2. ASSUME NEW f \in UserFiles, NEW d \in {None, "PENDING", "GO"} PROVE Turns(x, [x EXCEPT !.user[f] = d])
    BY DEF World, Turns
  <1>3. Turns(x, [x EXCEPT !.clock = @ + 1])
    BY DEF World, Turns
  <1>4. ASSUME NEW n \in ShortCounts PROVE Turns(x, [x EXCEPT !.short = n])
    BY SlackBotAssumption DEF World, Turns
  <1>5. Turns(x, [x EXCEPT !.advancing = ~@])
    BY DEF World, Turns
  <1>6. ASSUME NEW p \in Phases \union {Unknown} PROVE Turns(x, [x EXCEPT !.phase = p])
    <2>1. p \in Int
      BY SlackBotAssumption DEF Unknown
    <2> QED BY <2>1 DEF World, Turns
  <1>7. ASSUME NEW p \in {Unknown, 1, 2} PROVE Turns(x, [x EXCEPT !.program = p])
    <2>1. p \in Int
      BY DEF Unknown
    <2> QED BY <2>1 DEF World, Turns
  <1>8. ASSUME NEW c \in Cells, NEW n \in 1 .. StepsPerCell PROVE Turns(x, [x EXCEPT !.ckpt[c] = n])
    <2>1. n \in Nat
      BY SlackDetectorsAssumption
    <2> QED BY <2>1 DEF World, Turns
  <1> QED BY <1>1, <1>2, <1>3, <1>4, <1>5, <1>6, <1>7, <1>8

LEMMA LabTurns ==
  ASSUME w \in World, changes \in Nat, SessionChanges \/ LivenessChanges \/ ProgramChanges
  PROVE  Turns(w, w') /\ Changed(w')
  <1>1. CASE SessionChanges
    BY <1>1, SessionTurns DEF SessionChanges, Changed
  <1>2. CASE LivenessChanges
    BY <1>2, LivenessTurns DEF LivenessChanges, Changed
  <1>3. CASE ProgramChanges
    <2>1. ASSUME NEW words \in SUBSET {"VICTORY", "CATASTROPHIC"}, Changed([w EXCEPT !.status = words])
          PROVE  Turns(w, w') /\ Changed(w')
      BY <2>1, ProgramTurns DEF Changed
    <2>2. ASSUME NEW f \in UserFiles, NEW d \in {None, "PENDING", "GO"}, Changed([w EXCEPT !.user[f] = d])
          PROVE  Turns(w, w') /\ Changed(w')
      BY <2>2, ProgramTurns DEF Changed
    <2>3. CASE Changed([w EXCEPT !.clock = @ + 1])
      BY <2>3, ProgramTurns DEF Changed
    <2>4. ASSUME NEW n \in ShortCounts, Changed([w EXCEPT !.short = n]) PROVE Turns(w, w') /\ Changed(w')
      BY <2>4, ProgramTurns DEF Changed
    <2>5. CASE Changed([w EXCEPT !.advancing = ~@])
      BY <2>5, ProgramTurns DEF Changed
    <2>6. ASSUME NEW p \in Phases \union {Unknown}, Changed([w EXCEPT !.phase = p]) PROVE Turns(w, w') /\ Changed(w')
      BY <2>6, ProgramTurns DEF Changed
    <2>7. ASSUME NEW p \in {Unknown, 1, 2}, Changed([w EXCEPT !.program = p]) PROVE Turns(w, w') /\ Changed(w')
      BY <2>7, ProgramTurns DEF Changed
    <2>8. ASSUME NEW c \in Cells, NEW n \in 1 .. StepsPerCell, Changed([w EXCEPT !.ckpt[c] = n])
          PROVE  Turns(w, w') /\ Changed(w')
      BY <2>8, ProgramTurns DEF Changed
    <2> QED BY <1>3, <2>1, <2>2, <2>3, <2>4, <2>5, <2>6, <2>7, <2>8 DEF ProgramChanges
  <1> QED BY <1>1, <1>2, <1>3

LEMMA IdleTypes == Idle \in PollerState /\ NoCommand \in CommandState
  <1>1. << >> \in Seq(Nat)
    OBVIOUS
  <1> QED BY <1>1, FirstStateType DEF Idle, NoCommand, PollerState, CommandState

LEMMA BotTypesInit == BotInit => BotTypes
  <1> SUFFICES ASSUME BotInit PROVE BotTypes
    OBVIOUS
  <1>0. Past \in Seq(Texts) /\ Len(Past) \in Nat /\ FirstLimit \in Nat
    BY SlackBotAssumption
  <1>1. w \in World
    <2> PICK user, ckpt : user = [f \in UserFiles |-> None] /\ ckpt = [c \in Cells |-> 0]
      OBVIOUS
    <2>1. user \in [UserFiles -> {None, "PENDING", "GO"}] /\ ckpt \in [Cells -> Nat]
      OBVIOUS
    <2>2. w = [exit |-> [n |-> 0, reason |-> None], verdict |-> None, decision |-> [n |-> Len(Past), text |-> None],
               ledger |-> 0, limit |-> [at |-> FirstLimit, past |-> FALSE], silence |-> 0, tmux |-> TRUE,
               status |-> {}, user |-> user, clock |-> 0, short |-> 0,
               advancing |-> FALSE, program |-> 1, phase |-> 1, ckpt |-> ckpt]
      BY DEF BotInit, FirstWorld
    <2> QED BY ONLY <1>0, <2>1, <2>2 DEF World
  <1>2. disk \in BotState
    <2>1. Past \in Seq(Texts \cup {None})
      BY <1>0
    <2>2. disk = [FirstState EXCEPT !.decision = Len(Past), !.window = Past]
      BY DEF BotInit
    <2> QED BY <1>0, <2>1, <2>2, FirstStateType DEF BotState
  <1>3. poller \in PollerState /\ command \in CommandState
    BY IdleTypes DEF BotInit
  <1>4. history \in Seq(EventTypes) /\ posts \in [1 .. Len(history) -> Nat]
    <2>1. history = << >> /\ posts = << >>
      BY DEF BotInit
    <2>2. Len(history) = 0
      BY <2>1
    <2> QED BY <2>1, <2>2
  <1>5. \A j \in DOMAIN poller.events : poller.events[j] \in 1 .. Len(history)
    <2>1. poller.events = << >>
      BY DEF BotInit, Idle
    <2> QED BY <2>1
  <1> QED BY <1>1, <1>2, <1>3, <1>4, <1>5 DEF BotInit, BotTypes

LEMMA QueueTypes ==
  ASSUME NEW s \in BotState
  PROVE  /\ \A i \in Nat : [s EXCEPT !.queue = Append(@, i)] \in BotState
         /\ [s EXCEPT !.queue = << >>] \in BotState
         /\ \A n \in Nat : [s EXCEPT !.pause = n] \in BotState
  <1>0. s.queue \in Seq(Nat) /\ << >> \in Seq(Nat)
    BY DEF BotState
  <1>1. ASSUME NEW i \in Nat PROVE [s EXCEPT !.queue = Append(@, i)] \in BotState
    <2>1. Append(s.queue, i) \in Seq(Nat)
      BY <1>0
    <2> QED BY <2>1 DEF BotState
  <1>2. [s EXCEPT !.queue = << >>] \in BotState
    BY <1>0 DEF BotState
  <1>3. ASSUME NEW n \in Nat PROVE [s EXCEPT !.pause = n] \in BotState
    BY DEF BotState
  <1> QED BY <1>1, <1>2, <1>3

LEMMA PostedTypes ==
  ASSUME BotTypes, poller.events # << >>, Posted, history' = history
  PROVE  /\ poller' \in PollerState
         /\ \A j \in DOMAIN (poller'.events) : (poller'.events)[j] \in 1 .. Len(history')
         /\ Current \in Nat /\ Current \in 1 .. Len(history)
  <1> PICK e : e = poller.events
    OBVIOUS
  <1>1. e \in Seq(Nat) /\ e # << >> /\ \A j \in DOMAIN e : e[j] \in 1 .. Len(history)
    BY DEF BotTypes, PollerState
  <1>2. Len(e) \in Nat /\ Len(e) > 0 /\ Tail(e) \in Seq(Nat) /\ Len(Tail(e)) = Len(e) - 1
        /\ \A j \in 1 .. Len(Tail(e)) : Tail(e)[j] = e[j + 1]
    BY <1>1
  <1>3. Head(e) = e[1] /\ 1 \in DOMAIN e
    BY <1>1, <1>2
  <1>4. Current \in 1 .. Len(history) /\ Current \in Nat
    <2>1. Len(history) \in Nat
      BY DEF BotTypes
    <2> QED BY <1>1, <1>3, <2>1 DEF Current
  <1>5. poller' = [Idle EXCEPT !.pc = "post", !.events = Tail(e)]
    BY DEF Posted
  <1>6. poller' \in PollerState
    BY <1>2, <1>5, IdleTypes DEF PollerState
  <1>7. poller'.events = Tail(e)
    BY <1>5 DEF Idle
  <1>8. ASSUME NEW j \in DOMAIN Tail(e) PROVE Tail(e)[j] \in 1 .. Len(history)
    <2>1. j \in 1 .. Len(Tail(e)) /\ j + 1 \in DOMAIN e
      BY <1>1, <1>2
    <2> QED BY <1>1, <1>2, <2>1
  <1> QED BY <1>4, <1>6, <1>7, <1>8

LEMMA BumpTypes ==
  ASSUME NEW p, NEW n \in Nat, p \in [1 .. n -> Nat], NEW i \in 1 .. n, NEW k \in Nat
  PROVE  [p EXCEPT ![i] = @ + k] \in [1 .. n -> Nat]
  OBVIOUS

LEMMA DigestTypes ==
  ASSUME BotTypes, NEW times \in Nat, DigestOut(times)
  PROVE  posts' \in [1 .. Len(history) -> Nat]
  <1>1. posts \in [1 .. Len(history) -> Nat]
    BY DEF BotTypes
  <1>2. ASSUME NEW i \in DOMAIN posts
        PROVE  posts[i] + (IF \E j \in DOMAIN poller.mine.queue : poller.mine.queue[j] = i THEN times ELSE 0) \in Nat
    <2>1. posts[i] \in Nat
      BY <1>1
    <2>2. (IF \E j \in DOMAIN poller.mine.queue : poller.mine.queue[j] = i THEN times ELSE 0) \in Nat
      OBVIOUS
    <2> QED BY <2>1, <2>2
  <1> QED BY <1>1, <1>2 DEF DigestOut

LEMMA DetectTypes ==
  ASSUME BotTypes, Detect
  PROVE  BotTypes'
  <1> PICK s : s = poller.mine
    OBVIOUS
  <1>1. PICK r : r = DETECTORS(s, w)
    OBVIOUS
  <1>2. s \in BotState /\ w \in World /\ history \in Seq(EventTypes) /\ posts \in [1 .. Len(history) -> Nat]
    BY DEF BotTypes, PollerState
  <1>3. r.s \in BotState /\ r.say \in Seq(EventTypes)
    BY <1>1, <1>2, DetectorsAreSound DEF Sound
  <1> PICK n, m : n = Len(history) /\ m = Len(r.say)
    OBVIOUS
  <1>4. /\ disk' = r.s /\ torn' = (torn \/ disk # s) /\ history' = history \o r.say
        /\ posts' = posts \o [i \in 1 .. m |-> 0]
        /\ poller' = [Idle EXCEPT !.pc = "post", !.events = [i \in 1 .. m |-> n + i]]
        /\ settled' = TRUE
        /\ UNCHANGED <<w, command, lost, doubt, bounds>>
    BY <1>1 DEF Detect, Save
  <1>5. n \in Nat /\ m \in Nat
    BY <1>2, <1>3
  <1>6. history' \in Seq(EventTypes) /\ Len(history') = n + m
    BY <1>2, <1>3, <1>4
  <1>7. posts' \in [1 .. Len(history') -> Nat]
    <2>1. PICK zeros : zeros = [i \in 1 .. m |-> 0]
      OBVIOUS
    <2>2. zeros \in Seq(Nat) /\ Len(zeros) = m
      BY <1>5, <2>1
    <2>3. posts \in Seq(Nat) /\ Len(posts) = n
      BY <1>2, <1>5
    <2>5. PICK p, q : p = posts /\ q = posts'
      OBVIOUS
    <2>6. q = p \o zeros
      BY <1>4, <2>1, <2>5
    <2>7. q \in Seq(Nat) /\ Len(q) = n + m
      <3>1. p \in Seq(Nat) /\ zeros \in Seq(Nat) /\ Len(p) = n /\ Len(zeros) = m
        BY <2>2, <2>3, <2>5
      <3>2. p \o zeros \in Seq(Nat) /\ Len(p \o zeros) = Len(p) + Len(zeros)
        BY ONLY <3>1
      <3> QED BY ONLY <2>6, <3>1, <3>2
    <2>4. posts' \in Seq(Nat) /\ Len(posts') = n + m
      BY <2>5, <2>7
    <2> QED BY <1>6, <2>4
  <1>8. poller' \in PollerState /\ \A j \in DOMAIN (poller'.events) : (poller'.events)[j] \in 1 .. Len(history')
    <2>1. PICK e : e = [i \in 1 .. m |-> n + i]
      OBVIOUS
    <2>2. e \in Seq(Nat) /\ \A j \in DOMAIN e : e[j] \in 1 .. n + m
      BY <1>5, <2>1
    <2>3. poller' = [Idle EXCEPT !.pc = "post", !.events = e]
      BY <1>4, <2>1
    <2>4. poller' \in PollerState
      BY <2>2, <2>3, IdleTypes DEF PollerState
    <2>5. poller'.events = e
      BY <2>3 DEF Idle
    <2> QED BY <1>6, <2>2, <2>4, <2>5
  <1>9. /\ w' \in World /\ command' \in CommandState /\ lost' \in BOOLEAN /\ doubt' \in BOOLEAN
        /\ changes' \in Nat /\ faults' \in Nat /\ commands' \in Nat /\ settled' \in BOOLEAN /\ torn' \in BOOLEAN
    BY <1>4 DEF BotTypes, bounds
  <1> QED BY <1>3, <1>4, <1>6, <1>7, <1>8, <1>9 DEF BotTypes

LEMMA PollerMoves ==
  ASSUME NEW p \in PollerState, NEW pc \in {"idle", "detect", "post", "send", "flush", "clear"}, NEW m \in BotState,
         pc = "send" => p.events # << >>,
         pc \in {"idle", "detect", "flush", "clear"} => p.events = << >>
  PROVE  /\ [p EXCEPT !.pc = pc, !.mine = m] \in PollerState
         /\ [p EXCEPT !.pc = pc, !.mine = m].events = p.events
  <1>1. /\ p \in [pc : {"idle", "detect", "post", "send", "flush", "clear"}, mine : BotState, events : Seq(Nat)]
    BY DEF PollerState
  <1> PICK q : q = [p EXCEPT !.pc = pc, !.mine = m]
    OBVIOUS
  <1>2. /\ q \in [pc : {"idle", "detect", "post", "send", "flush", "clear"}, mine : BotState, events : Seq(Nat)]
        /\ q.pc = pc /\ q.events = p.events
    BY <1>1
  <1> QED BY <1>2 DEF PollerState

LEMMA BotTypesNext == BotTypes /\ [BotNext]_botVars => BotTypes'
  <1> SUFFICES ASSUME BotTypes, [BotNext]_botVars PROVE BotTypes'
    OBVIOUS
  <1>0. /\ poller.mine \in BotState /\ poller.events \in Seq(Nat) /\ poller.pc \in {"idle", "detect", "post", "send", "flush", "clear"}
        /\ command.mine \in BotState
    BY DEF BotTypes, PollerState, CommandState
  <1>1. CASE SessionChanges \/ LivenessChanges \/ ProgramChanges
    <2>1. Turns(w, w') /\ Changed(w')
      BY <1>1, LabTurns DEF BotTypes
    <2>2. /\ w' \in World /\ changes' = changes + 1 /\ settled' = FALSE
          /\ UNCHANGED <<disk, poller, command, history, posts, torn, lost, doubt, faults, commands>>
      BY <2>1 DEF Turns, Changed
    <2>3. changes' \in Nat
      BY <2>2 DEF BotTypes
    <2>4. settled' \in BOOLEAN
      BY <2>2, Zenon
    <2> QED BY <2>2, <2>3, <2>4 DEF BotTypes
  <1>2. CASE Nightfall \/ Morning \/ PauseEnds
    BY <1>2 DEF BotTypes, Nightfall, Morning, PauseEnds, ghosts, bounds
  <1>3. CASE PollLoad
    <2>1. poller' = [poller EXCEPT !.pc = "detect", !.mine = disk]
      BY <1>3 DEF PollLoad
    <2>2. poller' \in PollerState /\ poller'.events = poller.events
      <3>1. poller \in PollerState /\ poller.events = << >> /\ disk \in BotState
        BY <1>3 DEF BotTypes, PollerState, PollLoad
      <3> QED BY <2>1, <3>1, PollerMoves
    <2> QED BY <1>3, <2>2 DEF BotTypes, PollLoad, ghosts, bounds
  <1>4. CASE Detect
    BY <1>4, DetectTypes
  <1>5. CASE PostLoad
    <2>1. poller' = [poller EXCEPT !.pc = "send", !.mine = disk]
      BY <1>5 DEF PostLoad
    <2>2. poller' \in PollerState /\ poller'.events = poller.events
      <3>1. poller \in PollerState /\ poller.events # << >> /\ disk \in BotState
        BY <1>5 DEF BotTypes, PostLoad
      <3> QED BY <2>1, <3>1, PollerMoves
    <2> QED BY <1>5, <2>2 DEF BotTypes, PostLoad, ghosts, bounds
  <1>6. CASE Buffer \/ Post \/ PostFails
    <2>1. Posted /\ history' = history
      BY <1>6 DEF Buffer, Post, PostFails
    <2>2. /\ poller' \in PollerState
          /\ \A j \in DOMAIN (poller'.events) : (poller'.events)[j] \in 1 .. Len(history')
          /\ Current \in Nat /\ Current \in 1 .. Len(history)
      <3>1. poller.pc = "send"
        BY <1>6 DEF Buffer, Post, PostFails
      <3>2. poller.events # << >>
        BY <3>1 DEF BotTypes, PollerState
      <3> QED BY <2>1, <3>2, PostedTypes
    <2>3. [poller.mine EXCEPT !.queue = Append(@, Current)] \in BotState
      BY <1>0, <2>2, QueueTypes
    <2>4. posts \in [1 .. Len(history) -> Nat] /\ Len(history) \in Nat
      BY DEF BotTypes
    <2>5. CASE Buffer
      <3>1. disk' \in BotState /\ torn' \in BOOLEAN
        BY <2>3, <2>5 DEF Buffer, ToDigest, Save
      <3>2. UNCHANGED <<w, command, history, posts, settled, lost, doubt, bounds>>
        BY <2>5 DEF Buffer
      <3> QED BY <2>2, <3>1, <3>2 DEF BotTypes, bounds
    <2>6. CASE Post
      <3>1. UNCHANGED <<w, disk, command, history, settled, torn, lost, doubt, bounds>>
        BY <2>6 DEF Post
      <3>2. posts' = [posts EXCEPT ![Current] = @ + 1]
        BY <2>6 DEF Post
      <3>3. posts' \in [1 .. Len(history) -> Nat]
        BY <2>2, <2>4, <3>2, BumpTypes
      <3> QED BY <2>2, <3>1, <3>3 DEF BotTypes, bounds
    <2>7. CASE PostFails
      <3>1. disk' \in BotState /\ torn' \in BOOLEAN
        BY <2>3, <2>7 DEF PostFails, ToDigest, Save
      <3>2. UNCHANGED <<w, command, history, settled, lost, changes, commands>> /\ faults' = faults + 1
        BY <2>7 DEF PostFails
      <3>3. PICK out \in {0, 1} : posts' = [posts EXCEPT ![Current] = @ + out] /\ doubt' = (doubt \/ out = 1)
        BY <2>7 DEF PostFails
      <3>4. posts' \in [1 .. Len(history) -> Nat]
        BY <2>2, <2>4, <3>3, BumpTypes
      <3>5. doubt' \in BOOLEAN
        BY <3>3
      <3>6. faults' \in Nat
        BY <3>2 DEF BotTypes
      <3> QED BY <2>2, <3>1, <3>2, <3>4, <3>5, <3>6 DEF BotTypes
    <2> QED BY <1>6, <2>5, <2>6, <2>7
  <1>7. CASE FlushLoad
    <2>1. poller' \in PollerState /\ (poller'.events = poller.events \/ poller'.events = << >>)
      <3>1. CASE FlushDue
        <4>1. poller' = [poller EXCEPT !.pc = "flush", !.mine = disk]
          BY <1>7, <3>1 DEF FlushLoad
        <4>2. poller \in PollerState /\ poller.events = << >> /\ disk \in BotState
          BY <1>7 DEF BotTypes, FlushLoad
        <4> QED BY <4>1, <4>2, PollerMoves
      <3>2. CASE ~ FlushDue
        <4>1. poller' = Idle
          BY <1>7, <3>2 DEF FlushLoad
        <4> QED BY <4>1, IdleTypes DEF Idle
      <3> QED BY <3>1, <3>2
    <2> QED BY <1>7, <2>1 DEF BotTypes, FlushLoad, ghosts, bounds
  <1>8. CASE Flush
    <2>1. poller' = [poller EXCEPT !.pc = "clear"] /\ DigestOut(1)
      BY <1>8 DEF Flush
    <2>2. poller' \in PollerState /\ poller'.events = poller.events
      <3>1. poller \in PollerState /\ poller.events = << >> /\ poller.mine \in BotState
        BY <1>0, <1>8 DEF BotTypes, PollerState, Flush
      <3>2. poller' = [poller EXCEPT !.pc = "clear", !.mine = poller.mine]
        BY <2>1, <3>1 DEF PollerState
      <3> QED BY <3>1, <3>2, PollerMoves
    <2>3. posts' \in [1 .. Len(history) -> Nat]
      BY <2>1, DigestTypes
    <2> QED BY <1>8, <2>2, <2>3 DEF BotTypes, Flush, bounds
  <1>9. CASE FlushFails
    <2>1. PICK out \in {0, 1} : DigestOut(out) /\ doubt' = (doubt \/ out = 1)
      BY <1>9 DEF FlushFails
    <2>2. posts' \in [1 .. Len(history) -> Nat]
      BY <2>1, DigestTypes
    <2>3. poller' \in PollerState /\ poller'.events = << >>
      BY <1>9, IdleTypes DEF FlushFails, Idle
    <2>4. doubt' \in BOOLEAN
      BY <2>1
    <2>5. faults' \in Nat
      BY <1>9 DEF FlushFails, BotTypes
    <2> QED BY <1>9, <2>2, <2>3, <2>4, <2>5 DEF BotTypes, FlushFails
  <1>10. CASE FlushClear
    <2>1. disk' \in BotState /\ torn' \in BOOLEAN
      BY <1>0, <1>10, QueueTypes DEF FlushClear, ClearedQueue, Save
    <2>2. poller' \in PollerState /\ poller'.events = << >>
      BY <1>10, IdleTypes DEF FlushClear, Idle
    <2> QED BY <1>10, <2>1, <2>2 DEF BotTypes, FlushClear, bounds
  <1>11. CASE CommandLoad
    <2>1. command' \in CommandState
      BY <1>11 DEF CommandLoad, CommandState, BotTypes
    <2> QED BY <1>11, <2>1 DEF BotTypes, CommandLoad, ghosts
  <1>12. CASE CommandSave
    <2>1. disk' \in BotState /\ torn' \in BOOLEAN
      BY <1>0, <1>12, QueueTypes DEF CommandSave, Save, BotTypes
    <2>2. command' \in CommandState
      BY <1>12, IdleTypes DEF CommandSave
    <2> QED BY <1>12, <2>1, <2>2 DEF BotTypes, CommandSave, bounds
  <1>13. CASE Kill
    <2>1. poller' \in PollerState /\ poller'.events = << >> /\ command' \in CommandState
      BY <1>13, IdleTypes DEF Kill, Idle
    <2> QED BY <1>13, <2>1 DEF BotTypes, Kill
  <1>14. CASE UNCHANGED botVars
    BY <1>14 DEF BotTypes, botVars, ghosts, bounds
  <1> QED
    <2>1. BotNext \/ UNCHANGED botVars
      OBVIOUS
    <2>2. CASE BotNext
      BY <2>2, <1>1, <1>2, <1>3, <1>4, <1>5, <1>6, <1>7, <1>8, <1>9, <1>10, <1>11, <1>12, <1>13 DEF BotNext, Poll
    <2> QED BY <1>14, <2>1, <2>2

-----------------------------------------------------------------------------
(* The alarms agree with the saved state, and the saved state with the lab. *)

AlarmsAgree(h, s, x, b) ==
    /\ Told(h, s)
    /\ x.verdict = None => s.verdict = None
    /\ b => TrueLab(s, x) /\ TrueLoop(s, x) /\ TrueVerdict(s, x)
AlarmInv == ~ torn => AlarmsAgree(history, disk, w, settled)

SameAlarms(s, t) ==
    t.verdict = s.verdict /\ t.looped = s.looped /\ t.limit = s.limit /\ t.dead = s.dead /\ t.holding = s.holding

LEMMA SameAlarmsAgree ==
  ASSUME NEW h, NEW s, NEW t, NEW x, NEW b, SameAlarms(s, t), AlarmsAgree(h, s, x, b)
  PROVE  AlarmsAgree(h, t, x, b)
  <1>1. Told(h, t)
    BY DEF AlarmsAgree, SameAlarms, Told, SaysLab, SaysLoop, SaysHolding, SaysLimit, SaysVerdict
  <1>2. x.verdict = None => t.verdict = None
    BY DEF AlarmsAgree, SameAlarms
  <1>3. b => TrueLab(t, x) /\ TrueLoop(t, x) /\ TrueVerdict(t, x)
    BY DEF AlarmsAgree, SameAlarms, TrueLab, TrueLoop, TrueVerdict
  <1> QED BY <1>1, <1>2, <1>3 DEF AlarmsAgree

LEMMA QueueSaves ==
  ASSUME NEW s \in BotState
  PROVE  /\ \A i \in Nat : SameAlarms(s, [s EXCEPT !.queue = Append(@, i)])
         /\ SameAlarms(s, [s EXCEPT !.queue = << >>])
         /\ \A n \in Nat : SameAlarms(s, [s EXCEPT !.pause = n])
  BY DEF SameAlarms, BotState

LEMMA SavesKeepAlarms ==
  ASSUME NEW mine, NEW new, Save(mine, new), SameAlarms(mine, new), AlarmInv, UNCHANGED <<w, history, settled>>
  PROVE  AlarmInv'
  <1> SUFFICES ASSUME ~ torn' PROVE AlarmsAgree(history', disk', w', settled')
    BY DEF AlarmInv
  <1>1. ~ torn /\ disk = mine /\ disk' = new
    BY DEF Save
  <1>2. AlarmsAgree(history, disk, w, settled)
    BY <1>1 DEF AlarmInv
  <1>3. AlarmsAgree(history, new, w, settled)
    BY <1>1, <1>2, SameAlarmsAgree
  <1> QED BY <1>1, <1>3

LEMMA AlarmInvInit == BotInit => AlarmInv
  <1> SUFFICES ASSUME BotInit PROVE AlarmsAgree(history, disk, w, settled)
    BY DEF AlarmInv
  <1>1. history = << >> /\ ~ settled /\ Len(history) = 0
    BY DEF BotInit
  <1>2. disk = [FirstState EXCEPT !.decision = Len(Past), !.window = Past]
    BY DEF BotInit
  <1>3. ~ disk.dead /\ ~ disk.holding /\ ~ disk.looped /\ disk.limit = 0 /\ disk.verdict = None
    BY <1>2 DEF FirstState
  <1>4. ASSUME NEW types PROVE LastIn(history, types, Len(history)) = None
    BY <1>1, LastOfNone
  <1>5. None \notin EventTypes
    BY DEF None, EventTypes, Alarms, News
  <1>6. SaysLab(history, disk) /\ SaysLoop(history, disk) /\ SaysHolding(history, disk) /\ SaysLimit(history, disk)
    BY <1>3, <1>4 DEF SaysLab, SaysLoop, SaysHolding, SaysLimit, None
  <1>7. SaysVerdict(history, disk)
    BY <1>3, <1>4 DEF SaysVerdict, None
  <1>8. Ordered(history)
    BY <1>1 DEF Ordered
  <1> QED BY <1>1, <1>3, <1>6, <1>7, <1>8 DEF AlarmsAgree, Told

LEMMA DetectKeepsAlarms ==
  ASSUME BotTypes, AlarmInv, Detect
  PROVE  AlarmInv'
  <1> SUFFICES ASSUME ~ torn' PROVE AlarmsAgree(history', disk', w', settled')
    BY DEF AlarmInv
  <1>1. PICK s : s = poller.mine
    OBVIOUS
  <1>2. PICK r : r = DETECTORS(s, w)
    OBVIOUS
  <1>3. /\ disk' = r.s /\ torn' = (torn \/ disk # s) /\ history' = history \o r.say /\ settled' = TRUE /\ w' = w
    BY <1>1, <1>2 DEF Detect, Save
  <1>4. ~ torn /\ disk = s
    BY <1>3
  <1>5. AlarmsAgree(history, s, w, settled)
    BY <1>4 DEF AlarmInv
  <1>6. s \in BotState /\ w \in World /\ history \in Seq(EventTypes)
    BY <1>4 DEF BotTypes
  <1>7. /\ Sound(s, r) /\ TrueLab(r.s, w) /\ TrueLoop(r.s, w)
        /\ (w.verdict = None => s.verdict = None) => TrueVerdict(r.s, w)
        /\ w.verdict = None => r.s.verdict = s.verdict
    BY <1>2, <1>6, DetectorsAreSound
  <1>8. Told(history \o r.say, r.s)
    BY <1>5, <1>6, <1>7 DEF Sound, AlarmsAgree
  <1>9. TrueVerdict(r.s, w) /\ (w.verdict = None => r.s.verdict = None)
    BY <1>5, <1>7 DEF AlarmsAgree
  <1>10. AlarmsAgree(history \o r.say, r.s, w, TRUE)
    BY <1>7, <1>8, <1>9 DEF AlarmsAgree
  <1> QED BY <1>3, <1>10

LEMMA AlarmInvNext == BotTypes /\ AlarmInv /\ [BotNext]_botVars => AlarmInv'
  <1> SUFFICES ASSUME BotTypes, AlarmInv, [BotNext]_botVars PROVE AlarmInv'
    OBVIOUS
  <1>0. poller.mine \in BotState /\ command.mine \in BotState
    BY DEF BotTypes, PollerState, CommandState
  <1>1. CASE SessionChanges \/ LivenessChanges \/ ProgramChanges
    <2>1. Turns(w, w') /\ Changed(w')
      BY <1>1, LabTurns DEF BotTypes
    <2>2. UNCHANGED <<disk, history, torn>> /\ ~ settled' /\ (w'.verdict = None => w.verdict = None)
      BY <2>1 DEF Turns, Changed
    <2> SUFFICES ASSUME ~ torn' PROVE AlarmsAgree(history', disk', w', settled')
      BY DEF AlarmInv
    <2>3. AlarmsAgree(history, disk, w, settled)
      BY <2>2 DEF AlarmInv
    <2> QED BY <2>2, <2>3 DEF AlarmsAgree
  <1>2. CASE UNCHANGED <<w, disk, history, settled, torn>>
    BY <1>2 DEF AlarmInv
  <1>3. CASE Detect
    BY <1>3, DetectKeepsAlarms
  <1>4. CASE Buffer \/ PostFails
    <2>1. poller.events # << >> /\ Posted /\ history' = history
      BY <1>4 DEF Buffer, PostFails, BotTypes, PollerState
    <2>2. Current \in Nat
      BY <2>1, PostedTypes
    <2>3. ToDigest /\ UNCHANGED <<w, history, settled>>
      BY <1>4 DEF Buffer, PostFails
    <2> QED BY <1>0, <2>2, <2>3, QueueSaves, SavesKeepAlarms DEF ToDigest
  <1>5. CASE FlushClear
    <2>1. Save(poller.mine, [poller.mine EXCEPT !.queue = << >>]) /\ UNCHANGED <<w, history, settled>>
      BY <1>5 DEF FlushClear, ClearedQueue
    <2> QED BY <1>0, <2>1, QueueSaves, SavesKeepAlarms
  <1>6. CASE CommandSave
    <2>1. Save(command.mine, [command.mine EXCEPT !.pause = commands]) /\ UNCHANGED <<w, history, settled>>
      BY <1>6 DEF CommandSave
    <2>2. commands \in Nat
      BY DEF BotTypes
    <2> QED BY <1>0, <2>1, <2>2, QueueSaves, SavesKeepAlarms
  <1>7. CASE \/ Nightfall \/ Morning \/ PauseEnds \/ PollLoad \/ PostLoad \/ Post \/ FlushLoad \/ Flush \/ FlushFails
             \/ CommandLoad \/ Kill \/ UNCHANGED botVars
    <2>1. UNCHANGED <<w, disk, history, settled, torn>>
      BY <1>7 DEF Nightfall, Morning, PauseEnds, PollLoad, PostLoad, Post, FlushLoad, Flush, FlushFails, CommandLoad,
                  Kill, botVars, ghosts
    <2> QED BY <1>2, <2>1
  <1> QED
    <2>1. BotNext \/ UNCHANGED botVars
      OBVIOUS
    <2> QED BY <1>1, <1>3, <1>4, <1>5, <1>6, <1>7, <2>1 DEF BotNext, Poll

(* Everything the bot saves, holds and posts stays in its type, whatever the lab *)
(* writes and however the threads interleave: load_state and save_state of the   *)
(* poller and of the command thread, the kill included.                          *)
THEOREM BotTypesHold == BotSpec => []BotTypes
  <1>1. BotInit => BotTypes
    BY BotTypesInit
  <1>2. BotTypes /\ [BotNext]_botVars => BotTypes'
    BY BotTypesNext
  <1> QED BY <1>1, <1>2, PTL DEF BotSpec

LEMMA AlarmsFollow == BotTypes /\ AlarmInv => AlarmsAreTrue
  <1> SUFFICES ASSUME BotTypes, AlarmInv PROVE AlarmsAreTrue
    OBVIOUS
  <1>0. history \in Seq(EventTypes) /\ DOMAIN history = 1 .. Len(history)
    BY DEF BotTypes
  <1>1. ClearsWhatItRaised
    <2> SUFFICES ASSUME ~ torn, NEW i \in DOMAIN history
                 PROVE  /\ history[i] \in DOMAIN Clears =>
                             LastOf({history[i], Clears[history[i]]}, i - 1) = Clears[history[i]]
                        /\ history[i] = "LAB_DEAD" => LastOf({"LAB_DEAD", "LAB_ALIVE"}, i - 1) # "LAB_DEAD"
      BY DEF ClearsWhatItRaised
    <2>1. InOrder(history, i)
      BY <1>0 DEF AlarmInv, AlarmsAgree, Told, Ordered
    <2> QED BY <2>1, LastIsLastIn DEF InOrder, LabEvents
  <1>2. LastWordIsTrue
    <2> SUFFICES ASSUME settled, ~ torn
                 PROVE  /\ w.silence = 2 /\ ~Limited(w) => LastOf({"LAB_DEAD", "LAB_ALIVE"}, Len(history)) = "LAB_DEAD"
                        /\ w.silence = 0 \/ Limited(w) => LastOf({"LAB_DEAD", "LAB_ALIVE"}, Len(history)) # "LAB_DEAD"
                        /\ (w.short >= TriggerCount /\ ~w.advancing) <=>
                             LastOf({"HOLDING_LOOP_DETECTED", "HOLDING_LOOP_CLEARED"}, Len(history)) = "HOLDING_LOOP_DETECTED"
                        /\ w.verdict = "FAIL" <=>
                             LastOf({"EVALUATOR_FAIL", "EVALUATOR_OTHER"}, Len(history)) = "EVALUATOR_FAIL"
      BY DEF LastWordIsTrue
    <2>1. Told(history, disk) /\ TrueLab(disk, w) /\ TrueLoop(disk, w) /\ TrueVerdict(disk, w)
      BY DEF AlarmInv, AlarmsAgree
    <2>2. /\ disk.dead <=> LastOf({"LAB_DEAD", "LAB_ALIVE"}, Len(history)) = "LAB_DEAD"
          /\ disk.holding <=> LastOf({"HOLDING_LOOP_DETECTED", "HOLDING_LOOP_CLEARED"}, Len(history)) = "HOLDING_LOOP_DETECTED"
          /\ disk.verdict = "FAIL" <=> LastOf({"EVALUATOR_FAIL", "EVALUATOR_OTHER"}, Len(history)) = "EVALUATOR_FAIL"
      BY <2>1, LastIsLastIn DEF Told, SaysLab, SaysLoop, SaysVerdict, LabEvents, LoopEvents, VerdictEvents
    <2>3. /\ w.silence = 2 /\ ~Limited(w) => disk.dead
          /\ w.silence = 0 \/ Limited(w) => ~ disk.dead
      BY <2>1 DEF TrueLab
    <2>4. disk.holding <=> w.short >= TriggerCount /\ ~w.advancing
      BY <2>1 DEF TrueLoop
    <2>5. disk.verdict = "FAIL" <=> w.verdict = "FAIL"
      BY <2>1 DEF TrueVerdict
    <2> QED BY <2>2, <2>3, <2>4, <2>5
  <1> QED BY <1>1, <1>2 DEF AlarmsAreTrue

(* What the channel was told of the alarms is paired and, once the detectors ran *)
(* over an unchanged lab, true of it, unless a save overwrote another's: what      *)
(* poll_once says, with DETECTORS in their order.                                 *)
THEOREM AlarmsStayTrue == BotSpec => []AlarmsAreTrue
  <1>1. BotInit => BotTypes /\ AlarmInv
    BY BotTypesInit, AlarmInvInit
  <1>2. BotTypes /\ AlarmInv /\ [BotNext]_botVars => BotTypes' /\ AlarmInv'
    BY BotTypesNext, AlarmInvNext
  <1>3. BotTypes /\ AlarmInv => AlarmsAreTrue
    BY AlarmsFollow
  <1> QED BY <1>1, <1>2, <1>3, PTL DEF BotSpec

-----------------------------------------------------------------------------
(* Every event is in one place: posted, in the digest or with the poller. *)

Has(q, i) == \E j \in DOMAIN q : q[j] = i
Distinct(q) == \A j, k \in DOMAIN q : q[j] = q[k] => j = k

Pends(p, q, i) == Has(p.events, i) \/ (p.pc # "clear" /\ Has(q, i))
Once(p, q, c, d, i) ==
    /\ ~ Pends(p, q, i) => c[i] >= 1
    /\ ~ d => c[i] = IF Pends(p, q, i) THEN 0 ELSE 1
Delivery(n, p, q, c, d) ==
    /\ Distinct(p.events) /\ Distinct(q)
    /\ \A i \in 1 .. n : ~ (Has(p.events, i) /\ Has(q, i))
    /\ \A i : Has(q, i) => i \in 1 .. n
    /\ p.pc \in {"flush", "clear"} => p.mine.queue = q
    /\ \A i \in 1 .. n : Once(p, q, c, d, i)
DeliveryInv == ~ torn /\ ~ lost => Delivery(Len(history), poller, disk.queue, posts, doubt)

LEMMA HasTail ==
  ASSUME NEW e \in Seq(Nat), e # << >>
  PROVE  /\ \A i : Has(e, i) <=> i = Head(e) \/ Has(Tail(e), i)
         /\ Distinct(e) => Distinct(Tail(e)) /\ ~ Has(Tail(e), Head(e))
         /\ Has(e, Head(e))
  <1>0. /\ Len(e) \in Nat /\ Len(e) > 0 /\ Tail(e) \in Seq(Nat) /\ Len(Tail(e)) = Len(e) - 1
        /\ \A j \in 1 .. Len(Tail(e)) : Tail(e)[j] = e[j + 1]
        /\ Head(e) = e[1] /\ DOMAIN e = 1 .. Len(e) /\ DOMAIN Tail(e) = 1 .. Len(Tail(e))
    OBVIOUS
  <1> PICK t : t = Tail(e)
    OBVIOUS
  <1> PICK m : m = Len(e)
    OBVIOUS
  <1>1. /\ m \in Nat /\ m > 0 /\ DOMAIN t = 1 .. m - 1 /\ DOMAIN e = 1 .. m /\ Head(e) = e[1]
        /\ \A j \in 1 .. m - 1 : t[j] = e[j + 1]
    BY <1>0
  <1>2. ASSUME NEW i PROVE Has(e, i) <=> i = e[1] \/ Has(t, i)
    <2>1. ASSUME NEW j \in 1 .. m, e[j] = i PROVE i = e[1] \/ Has(t, i)
      <3>1. CASE j = 1
        BY <2>1, <3>1
      <3>2. CASE j # 1
        <4>1. j - 1 \in 1 .. m - 1 /\ (j - 1) + 1 = j
          BY <1>1, <3>2
        <4>2. t[j - 1] = e[j]
          BY <1>1, <4>1
        <4> QED BY <1>1, <2>1, <4>1, <4>2 DEF Has
      <3> QED BY <3>1, <3>2
    <2>2. ASSUME NEW j \in 1 .. m - 1, t[j] = i PROVE Has(e, i)
      <3>1. j + 1 \in 1 .. m /\ t[j] = e[j + 1]
        BY <1>1
      <3> QED BY <1>1, <2>2, <3>1 DEF Has
    <2>3. i = e[1] => Has(e, i)
      <3>1. 1 \in DOMAIN e
        BY <1>1
      <3> QED BY <3>1 DEF Has
    <2>4. Has(e, i) => i = e[1] \/ Has(t, i)
      BY <1>1, <2>1 DEF Has
    <2>5. Has(t, i) => Has(e, i)
      BY <1>1, <2>2 DEF Has
    <2> QED BY <2>3, <2>4, <2>5
  <1>3. ASSUME Distinct(e) PROVE Distinct(t) /\ ~ Has(t, e[1])
    <2>1. ASSUME NEW j \in 1 .. m - 1, NEW k \in 1 .. m - 1, t[j] = t[k] PROVE j = k
      <3>1. j + 1 \in 1 .. m /\ k + 1 \in 1 .. m /\ e[j + 1] = e[k + 1]
        BY <1>1, <2>1
      <3>2. j + 1 = k + 1
        BY <1>1, <1>3, <3>1 DEF Distinct
      <3> QED BY <3>2
    <2>2. ASSUME NEW j \in 1 .. m - 1, t[j] = e[1] PROVE FALSE
      <3>1. j + 1 \in 1 .. m /\ 1 \in 1 .. m /\ e[j + 1] = e[1]
        BY <1>1, <2>2
      <3>2. j + 1 = 1
        BY <1>1, <1>3, <3>1 DEF Distinct
      <3> QED BY <3>2
    <2> QED BY <1>1, <2>1, <2>2 DEF Distinct, Has
  <1> QED BY <1>1, <1>2, <1>3

LEMMA HasAppended ==
  ASSUME NEW q \in Seq(Nat), NEW x \in Nat
  PROVE  /\ \A i : Has(Append(q, x), i) <=> i = x \/ Has(q, i)
         /\ Distinct(q) /\ ~ Has(q, x) => Distinct(Append(q, x))
  <1> PICK m, a : m = Len(q) /\ a = Append(q, x)
    OBVIOUS
  <1>1. /\ m \in Nat /\ DOMAIN q = 1 .. m /\ DOMAIN a = 1 .. m + 1 /\ a[m + 1] = x
        /\ \A j \in 1 .. m : a[j] = q[j]
    OBVIOUS
  <1>2. ASSUME NEW i PROVE Has(a, i) <=> i = x \/ Has(q, i)
    <2>1. Has(a, i) => i = x \/ Has(q, i)
      <3> SUFFICES ASSUME NEW j \in 1 .. m + 1, a[j] = i PROVE i = x \/ Has(q, i)
        BY <1>1 DEF Has
      <3>1. j \in 1 .. m \/ j = m + 1
        BY <1>1
      <3> QED BY <1>1, <3>1 DEF Has
    <2>2. Has(q, i) => Has(a, i)
      <3> SUFFICES ASSUME NEW j \in 1 .. m, q[j] = i PROVE Has(a, i)
        BY <1>1 DEF Has
      <3>1. j \in 1 .. m + 1
        BY <1>1
      <3> QED BY <1>1, <3>1 DEF Has
    <2>3. i = x => Has(a, i)
      <3>1. m + 1 \in 1 .. m + 1
        BY <1>1
      <3> QED BY <1>1, <3>1 DEF Has
    <2> QED BY <2>1, <2>2, <2>3
  <1>3. ASSUME Distinct(q), ~ Has(q, x) PROVE Distinct(a)
    <2> SUFFICES ASSUME NEW j \in 1 .. m + 1, NEW k \in 1 .. m + 1, a[j] = a[k] PROVE j = k
      BY <1>1 DEF Distinct
    <2>1. (j \in 1 .. m \/ j = m + 1) /\ (k \in 1 .. m \/ k = m + 1)
      BY <1>1
    <2>2. CASE j \in 1 .. m /\ k \in 1 .. m
      BY <1>1, <1>3, <2>2 DEF Distinct
    <2>3. CASE j \in 1 .. m /\ k = m + 1
      BY <1>1, <1>3, <2>3 DEF Has
    <2>4. CASE j = m + 1 /\ k \in 1 .. m
      BY <1>1, <1>3, <2>4 DEF Has
    <2> QED BY <2>1, <2>2, <2>3, <2>4
  <1> QED BY <1>2, <1>3

LEMMA DeliveryMoves ==
  ASSUME NEW n, NEW p, NEW q, NEW c, NEW d, NEW p2, Delivery(n, p, q, c, d),
         p2.events = p.events, p2.pc = "clear" <=> p.pc = "clear",
         p2.pc \in {"flush", "clear"} => p2.mine.queue = q
  PROVE  Delivery(n, p2, q, c, d)
  <1>1. ASSUME NEW i PROVE Pends(p2, q, i) <=> Pends(p, q, i)
    BY DEF Pends
  <1>2. ASSUME NEW i \in 1 .. n PROVE Once(p2, q, c, d, i)
    <2>1. Once(p, q, c, d, i)
      BY DEF Delivery
    <2> QED BY <1>1, <2>1 DEF Once
  <1> QED BY <1>2 DEF Delivery

LEMMA DeliveryDetects ==
  ASSUME NEW n \in Nat, NEW m \in Nat, NEW p, NEW q, NEW c \in [1 .. n -> Nat], NEW d, NEW p2, NEW c2,
         Delivery(n, p, q, c, d), p.events = << >>, p.pc = "detect",
         p2.events = [i \in 1 .. m |-> n + i], p2.pc = "post",
         \A i \in 1 .. n : c2[i] = c[i], \A i \in n + 1 .. n + m : c2[i] = 0
  PROVE  Delivery(n + m, p2, q, c2, d)
  <1>1. ASSUME NEW i PROVE Has(p2.events, i) <=> i \in n + 1 .. n + m
    <2>1. Has(p2.events, i) => i \in n + 1 .. n + m
      BY DEF Has
    <2>2. ASSUME i \in n + 1 .. n + m PROVE Has(p2.events, i)
      <3>1. i - n \in 1 .. m /\ n + (i - n) = i
        BY <2>2
      <3> QED BY <3>1 DEF Has
    <2> QED BY <2>1, <2>2
  <1>2. Distinct(p2.events)
    BY DEF Distinct
  <1>3. Distinct(q) /\ \A i : Has(q, i) => i \in 1 .. n
    BY DEF Delivery
  <1>4. \A i : Has(q, i) => i \in 1 .. n + m
    BY <1>3
  <1>5. ASSUME NEW i \in 1 .. n + m PROVE ~ (Has(p2.events, i) /\ Has(q, i))
    BY <1>1, <1>3
  <1>6. ASSUME NEW i \in 1 .. n + m PROVE Once(p2, q, c2, d, i)
    <2>1. CASE i \in 1 .. n
      <3>1. ~ Has(p.events, i) /\ ~ Has(p2.events, i)
        BY <1>1, <2>1 DEF Has
      <3>2. Pends(p2, q, i) <=> Pends(p, q, i)
        BY <3>1 DEF Pends
      <3>3. Once(p, q, c, d, i) /\ c2[i] = c[i]
        BY <2>1 DEF Delivery
      <3> QED BY <3>2, <3>3 DEF Once
    <2>2. CASE i \notin 1 .. n
      <3>1. i \in n + 1 .. n + m
        BY <2>2
      <3>2. Pends(p2, q, i) /\ c2[i] = 0
        BY <1>1, <3>1 DEF Pends
      <3> QED BY <3>2 DEF Once
    <2> QED BY <2>1, <2>2
  <1> QED BY <1>2, <1>3, <1>4, <1>5, <1>6 DEF Delivery

(* The event on hand goes to the digest, whether or not a message got out (k). *)
LEMMA DeliveryBuffers ==
  ASSUME NEW n \in Nat, NEW p, NEW q \in Seq(Nat), NEW c \in [1 .. n -> Nat], NEW d \in BOOLEAN, NEW p2, NEW k \in {0, 1},
         NEW d2, d2 = (d \/ k = 1),
         Delivery(n, p, q, c, d), p.pc = "send", p.events \in Seq(Nat), p.events # << >>, Head(p.events) \in 1 .. n,
         p2.events = Tail(p.events), p2.pc = "post"
  PROVE  Delivery(n, p2, Append(q, Head(p.events)), [c EXCEPT ![Head(p.events)] = @ + k], d2)
  <1> PICK x : x = Head(p.events)
    OBVIOUS
  <1> PICK q2, c2 : q2 = Append(q, x) /\ c2 = [c EXCEPT ![x] = @ + k]
    OBVIOUS
  <1>0. x \in 1 .. n /\ x \in Nat /\ k \in Nat
    OBVIOUS
  <1>1. /\ \A i : Has(p.events, i) <=> i = x \/ Has(p2.events, i)
        /\ Distinct(p2.events) /\ ~ Has(p2.events, x) /\ Has(p.events, x)
    BY HasTail DEF Delivery
  <1>2. ~ Has(q, x)
    BY <1>0, <1>1 DEF Delivery
  <1>3. Distinct(q2) /\ \A i : Has(q2, i) <=> i = x \/ Has(q, i)
    BY <1>0, <1>2, HasAppended DEF Delivery
  <1>4. ASSUME NEW i \in 1 .. n PROVE ~ (Has(p2.events, i) /\ Has(q2, i))
    BY <1>1, <1>3 DEF Delivery
  <1>5. \A i : Has(q2, i) => i \in 1 .. n
    BY <1>0, <1>3 DEF Delivery
  <1>6. ASSUME NEW i \in 1 .. n PROVE Once(p2, q2, c2, d2, i)
    <2>1. Pends(p2, q2, i) <=> Pends(p, q, i)
      BY <1>1, <1>3 DEF Pends
    <2>2. Once(p, q, c, d, i)
      BY DEF Delivery
    <2>7. c2[i] = IF i = x THEN c[i] + k ELSE c[i]
      BY <1>0
    <2>8. c[i] \in Nat
      OBVIOUS
    <2>3. c[i] \in Nat /\ c2[i] \in Nat /\ c2[i] >= c[i]
      BY ONLY <1>0, <2>7, <2>8
    <2>4. ~ d2 => ~ d /\ c2[i] = c[i]
      <3>1. ~ d2 => ~ d /\ k # 1
        OBVIOUS
      <3>2. k # 1 => k = 0
        OBVIOUS
      <3>3. k = 0 => c2[i] = c[i]
        BY ONLY <2>7, <2>8
      <3> QED BY <3>1, <3>2, <3>3
    <2>5. ~ Pends(p2, q2, i) => c2[i] >= 1
      BY <2>1, <2>2, <2>3 DEF Once
    <2>6. ~ d2 => c2[i] = IF Pends(p2, q2, i) THEN 0 ELSE 1
      BY <2>1, <2>2, <2>4 DEF Once
    <2> QED BY <2>5, <2>6 DEF Once
  <1>7. Delivery(n, p2, q2, c2, d2)
    BY <1>1, <1>3, <1>4, <1>5, <1>6 DEF Delivery
  <1> QED BY <1>7

LEMMA DeliveryPosts ==
  ASSUME NEW n \in Nat, NEW p, NEW q, NEW c \in [1 .. n -> Nat], NEW d \in BOOLEAN, NEW p2,
         Delivery(n, p, q, c, d), p.pc = "send", p.events \in Seq(Nat), p.events # << >>, Head(p.events) \in 1 .. n,
         p2.events = Tail(p.events), p2.pc = "post"
  PROVE  Delivery(n, p2, q, [c EXCEPT ![Head(p.events)] = @ + 1], d)
  <1> PICK x : x = Head(p.events)
    OBVIOUS
  <1> PICK c2 : c2 = [c EXCEPT ![x] = @ + 1]
    OBVIOUS
  <1>1. /\ \A i : Has(p.events, i) <=> i = x \/ Has(p2.events, i)
        /\ Distinct(p2.events) /\ ~ Has(p2.events, x) /\ Has(p.events, x)
    BY HasTail DEF Delivery
  <1>2. ~ Has(q, x)
    BY <1>1 DEF Delivery
  <1>3. ASSUME NEW i \in 1 .. n PROVE ~ (Has(p2.events, i) /\ Has(q, i))
    BY <1>1 DEF Delivery
  <1>4. ASSUME NEW i \in 1 .. n PROVE Once(p2, q, c2, d, i)
    <2>1. Once(p, q, c, d, i) /\ c[i] \in Nat
      BY DEF Delivery
    <2>2. CASE i = x
      <3>1. Pends(p, q, i) /\ ~ Pends(p2, q, i)
        BY <1>1, <1>2, <2>2 DEF Pends
      <3>2. c2[i] = c[i] + 1
        BY <2>2
      <3>3. ~ d => c[i] = 0
        BY <2>1, <3>1 DEF Once
      <3>4. c2[i] >= 1
        BY <2>1, <3>2
      <3>5. ~ d => c2[i] = 1
        BY <3>2, <3>3
      <3> QED BY <3>1, <3>4, <3>5 DEF Once
    <2>3. CASE i # x
      <3>1. Pends(p2, q, i) <=> Pends(p, q, i)
        BY <1>1, <2>3 DEF Pends
      <3>2. c2[i] = c[i]
        BY <2>3
      <3> QED BY <2>1, <3>1, <3>2 DEF Once
    <2> QED BY <2>2, <2>3
  <1>5. Distinct(q) /\ \A i : Has(q, i) => i \in 1 .. n
    BY DEF Delivery
  <1>6. Delivery(n, p2, q, c2, d)
    BY <1>1, <1>3, <1>4, <1>5 DEF Delivery
  <1> QED BY <1>6

LEMMA DeliveryFlushes ==
  ASSUME NEW n \in Nat, NEW p, NEW q, NEW c \in [1 .. n -> Nat], NEW d \in BOOLEAN, NEW p2, NEW c2,
         Delivery(n, p, q, c, d), p.pc = "flush", p.events = << >>,
         p2.events = << >>, p2.pc = "clear", p2.mine = p.mine,
         \A i \in 1 .. n : c2[i] = c[i] + IF Has(p.mine.queue, i) THEN 1 ELSE 0
  PROVE  Delivery(n, p2, q, c2, d)
  <1>1. p.mine.queue = q /\ p2.mine.queue = q
    BY DEF Delivery
  <1>2. ASSUME NEW i PROVE ~ Has(p.events, i) /\ ~ Has(p2.events, i)
    BY DEF Has
  <1>3. ASSUME NEW i \in 1 .. n PROVE Once(p2, q, c2, d, i)
    <2>1. Once(p, q, c, d, i) /\ c[i] \in Nat
      BY DEF Delivery
    <2>2. ~ Pends(p2, q, i) /\ (Pends(p, q, i) <=> Has(q, i))
      BY <1>2 DEF Pends
    <2>3. CASE Has(q, i)
      <3>1. c2[i] = c[i] + 1
        BY <1>1, <2>3
      <3>2. ~ d => c[i] = 0
        BY <2>1, <2>2, <2>3 DEF Once
      <3>3. c2[i] >= 1 /\ (~ d => c2[i] = 1)
        BY <2>1, <3>1, <3>2
      <3> QED BY <2>2, <3>3 DEF Once
    <2>4. CASE ~ Has(q, i)
      <3>1. c2[i] = c[i]
        BY <1>1, <2>1, <2>4
      <3> QED BY <2>1, <2>2, <2>4, <3>1 DEF Once
    <2> QED BY <2>3, <2>4
  <1>4. Distinct(p2.events)
    BY DEF Distinct
  <1> QED BY <1>1, <1>2, <1>3, <1>4 DEF Delivery

LEMMA DeliveryFlushFails ==
  ASSUME NEW n \in Nat, NEW p, NEW q, NEW c \in [1 .. n -> Nat], NEW d \in BOOLEAN, NEW p2, NEW c2, NEW k \in {0, 1},
         NEW d2, d2 = (d \/ k = 1),
         Delivery(n, p, q, c, d), p.pc = "flush", p.events = << >>,
         p2.events = << >>, p2.pc = "idle",
         \A i \in 1 .. n : c2[i] = c[i] + IF Has(p.mine.queue, i) THEN k ELSE 0
  PROVE  Delivery(n, p2, q, c2, d2)
  <1>1. ASSUME NEW i \in 1 .. n PROVE Once(p2, q, c2, d2, i)
    <2>1. Once(p, q, c, d, i) /\ c[i] \in Nat
      BY DEF Delivery
    <2>2. Pends(p2, q, i) <=> Pends(p, q, i)
      BY DEF Pends
    <2>3. c2[i] \in Nat /\ c2[i] >= c[i] /\ (k = 0 => c2[i] = c[i])
      BY <2>1
    <2>4. ~ Pends(p2, q, i) => c2[i] >= 1
      BY <2>1, <2>2, <2>3 DEF Once
    <2>5. ~ d2 => ~ d /\ c2[i] = c[i]
      BY <2>3
    <2>6. ~ d2 => c2[i] = IF Pends(p2, q, i) THEN 0 ELSE 1
      BY <2>1, <2>2, <2>5 DEF Once
    <2> QED BY <2>4, <2>6 DEF Once
  <1> QED BY <1>1 DEF Delivery

LEMMA DeliveryClears ==
  ASSUME NEW n, NEW p, NEW q, NEW c, NEW d, NEW p2,
         Delivery(n, p, q, c, d), p.pc = "clear", p.events = << >>, p2.events = << >>, p2.pc = "idle"
  PROVE  Delivery(n, p2, << >>, c, d)
  <1>1. ASSUME NEW i PROVE ~ Has(<< >>, i)
    BY DEF Has
  <1>2. ASSUME NEW i \in 1 .. n PROVE Once(p2, << >>, c, d, i)
    <2>1. Once(p, q, c, d, i)
      BY DEF Delivery
    <2>2. ~ Pends(p, q, i) /\ ~ Pends(p2, << >>, i)
      BY <1>1 DEF Pends
    <2> QED BY <2>1, <2>2 DEF Once
  <1>3. Distinct(<< >>) /\ Distinct(p2.events)
    BY DEF Distinct
  <1> QED BY <1>1, <1>2, <1>3 DEF Delivery

LEMMA DeliveryInvInit == BotInit => DeliveryInv
  <1> SUFFICES ASSUME BotInit PROVE Delivery(Len(history), poller, disk.queue, posts, doubt)
    BY DEF DeliveryInv
  <1>1. Len(history) = 0 /\ poller.events = << >> /\ poller.pc = "idle"
    BY DEF BotInit, Idle
  <1>2. disk.queue = << >>
    BY DEF BotInit, FirstState
  <1>3. Distinct(<< >>) /\ \A i : ~ Has(<< >>, i)
    BY DEF Distinct, Has
  <1> QED BY <1>1, <1>2, <1>3 DEF Delivery

LEMMA CardinalityOfOne ==
  ASSUME NEW q \in Seq(Nat), Distinct(q), NEW i
  PROVE  Cardinality({j \in DOMAIN q : q[j] = i}) = IF Has(q, i) THEN 1 ELSE 0
  <1> PICK S : S = {j \in DOMAIN q : q[j] = i}
    OBVIOUS
  <1>1. CASE Has(q, i)
    <2>1. PICK j \in DOMAIN q : q[j] = i
      BY <1>1 DEF Has
    <2>2. S = {j}
      BY <2>1 DEF Distinct
    <2>3. Cardinality({j}) = 1
      BY FS_Singleton
    <2> QED BY <1>1, <2>2, <2>3
  <1>2. CASE ~ Has(q, i)
    <2>1. S = {}
      BY <1>2 DEF Has
    <2>2. Cardinality({}) = 0
      BY FS_EmptySet
    <2> QED BY <1>2, <2>1, <2>2
  <1> QED BY <1>1, <1>2

LEMMA DeliveryFollows == BotTypes /\ DeliveryInv => DeliveredOnce
  <1> SUFFICES ASSUME BotTypes, DeliveryInv, ~ torn, ~ lost, NEW i \in DOMAIN history
               PROVE  IF doubt THEN posts[i] + Waiting(i) >= 1 ELSE posts[i] + Waiting(i) = 1
    BY DEF DeliveredOnce
  <1>0. Delivery(Len(history), poller, disk.queue, posts, doubt)
    BY DEF DeliveryInv
  <1>1. /\ poller.events \in Seq(Nat) /\ disk.queue \in Seq(Nat) /\ i \in 1 .. Len(history) /\ posts[i] \in Nat
        /\ doubt \in BOOLEAN
    <2>1. poller.events \in Seq(Nat) /\ disk.queue \in Seq(Nat)
      BY DEF BotTypes, PollerState, BotState
    <2>2. history \in Seq(EventTypes) /\ posts \in [1 .. Len(history) -> Nat] /\ doubt \in BOOLEAN
      BY DEF BotTypes
    <2>3. i \in 1 .. Len(history)
      BY <2>2
    <2> QED BY <2>1, <2>2, <2>3
  <1>2. /\ Cardinality({j \in DOMAIN poller.events : poller.events[j] = i}) = IF Has(poller.events, i) THEN 1 ELSE 0
        /\ Cardinality({j \in DOMAIN disk.queue : disk.queue[j] = i}) = IF Has(disk.queue, i) THEN 1 ELSE 0
    BY <1>0, <1>1, CardinalityOfOne DEF Delivery
  <1>3. ~ (Has(poller.events, i) /\ Has(disk.queue, i)) /\ Once(poller, disk.queue, posts, doubt, i)
    BY <1>0, <1>1 DEF Delivery
  <1>4. Waiting(i) = (IF Has(poller.events, i) THEN 1 ELSE 0)
                     + (IF poller.pc = "clear" THEN 0 ELSE IF Has(disk.queue, i) THEN 1 ELSE 0)
    BY <1>2 DEF Waiting
  <1>5. Waiting(i) = IF Pends(poller, disk.queue, i) THEN 1 ELSE 0
    BY <1>3, <1>4 DEF Pends
  <1>6. CASE doubt
    <2>1. ~ Pends(poller, disk.queue, i) => posts[i] >= 1
      BY <1>3 DEF Once
    <2> QED BY <1>1, <1>5, <1>6, <2>1
  <1>7. CASE ~ doubt
    <2>1. posts[i] = IF Pends(poller, disk.queue, i) THEN 0 ELSE 1
      BY <1>3, <1>7 DEF Once
    <2> QED BY <1>1, <1>5, <1>7, <2>1
  <1> QED BY <1>6, <1>7

LEMMA DetectDelivers ==
  ASSUME BotTypes, DeliveryInv, Detect, ~ torn', ~ lost'
  PROVE  Delivery(Len(history'), poller', disk'.queue, posts', doubt')
  <1>1. PICK s : s = poller.mine
    OBVIOUS
  <1>2. PICK r : r = DETECTORS(s, w)
    OBVIOUS
  <1>3. /\ disk' = r.s /\ torn' = (torn \/ disk # s) /\ history' = history \o r.say
        /\ posts' = posts \o [i \in 1 .. Len(r.say) |-> 0]
        /\ poller' = [Idle EXCEPT !.pc = "post", !.events = [i \in 1 .. Len(r.say) |-> Len(history) + i]]
        /\ lost' = lost /\ doubt' = doubt /\ poller.pc = "detect"
    BY <1>1, <1>2 DEF Detect, Save
  <1>4. ~ torn /\ disk = s /\ ~ lost
    BY <1>3
  <1>5. Delivery(Len(history), poller, disk.queue, posts, doubt)
    BY <1>4 DEF DeliveryInv
  <1>6. /\ disk \in BotState /\ w \in World /\ history \in Seq(EventTypes) /\ posts \in [1 .. Len(history) -> Nat]
        /\ poller.events = << >>
    BY <1>3 DEF BotTypes, PollerState
  <1>7. r.say \in Seq(EventTypes) /\ r.s.queue = s.queue
    BY <1>2, <1>4, <1>6, DetectorsAreSound DEF Sound
  <1>8. PICK n, m : n = Len(history) /\ m = Len(r.say)
    OBVIOUS
  <1>9. n \in Nat /\ m \in Nat /\ Len(history') = n + m
    BY <1>3, <1>6, <1>7, <1>8
  <1>10. /\ \A i \in 1 .. n : posts'[i] = posts[i]
         /\ \A i \in n + 1 .. n + m : posts'[i] = 0
    <2>1. PICK zeros : zeros = [i \in 1 .. m |-> 0]
      OBVIOUS
    <2>2. PICK p, q : p = posts /\ q = posts'
      OBVIOUS
    <2>3. q = p \o zeros
      BY <1>3, <1>8, <2>1, <2>2
    <2>4. p \in Seq(Nat) /\ Len(p) = n
      BY <1>6, <1>8, <1>9, <2>2
    <2>5. zeros \in Seq(Nat) /\ Len(zeros) = m /\ \A i \in 1 .. m : zeros[i] = 0
      BY <1>9, <2>1
    <2>6. \A i \in 1 .. n + m : (p \o zeros)[i] = IF i <= n THEN p[i] ELSE zeros[i - n]
      BY ONLY <1>9, <2>4, <2>5
    <2>7. ASSUME NEW i \in 1 .. n PROVE q[i] = p[i]
      <3>1. i \in 1 .. n + m /\ i <= n
        BY <1>9
      <3>2. (p \o zeros)[i] = p[i]
        BY <2>6, <3>1
      <3> QED BY <2>3, <3>2
    <2>8. ASSUME NEW i \in n + 1 .. n + m PROVE q[i] = 0
      <3>1. i \in 1 .. n + m /\ ~ (i <= n) /\ i - n \in 1 .. m
        BY <1>9
      <3>2. (p \o zeros)[i] = zeros[i - n]
        BY <2>6, <3>1
      <3> QED BY <2>3, <2>5, <3>1, <3>2
    <2> QED BY <2>2, <2>7, <2>8
  <1>11. poller'.events = [i \in 1 .. m |-> n + i] /\ poller'.pc = "post"
    BY <1>3, <1>8 DEF Idle
  <1>12. Delivery(n + m, poller', disk.queue, posts', doubt)
    <2>1. PICK p2, c2 : p2 = poller' /\ c2 = posts'
      OBVIOUS
    <2>2. PICK q : q = disk.queue
      OBVIOUS
    <2>3. /\ Delivery(n, poller, q, posts, doubt) /\ posts \in [1 .. n -> Nat] /\ poller.pc = "detect"
      BY <1>3, <1>5, <1>6, <1>8, <2>2
    <2>4. /\ \A i \in 1 .. n : c2[i] = posts[i]
          /\ \A i \in n + 1 .. n + m : c2[i] = 0
          /\ p2.events = [i \in 1 .. m |-> n + i] /\ p2.pc = "post"
      BY <1>10, <1>11, <2>1
    <2>5. Delivery(n + m, p2, q, c2, doubt)
      BY <1>6, <1>9, <2>3, <2>4, DeliveryDetects
    <2> QED BY <2>1, <2>2, <2>5
  <1> QED BY <1>3, <1>4, <1>7, <1>9, <1>12

LEMMA DigestCounts ==
  ASSUME BotTypes, NEW times, DigestOut(times), NEW i \in 1 .. Len(history)
  PROVE  posts'[i] = posts[i] + IF Has(poller.mine.queue, i) THEN times ELSE 0
  <1>1. i \in DOMAIN posts
    BY DEF BotTypes
  <1>2. posts'[i] = posts[i] + IF \E j \in DOMAIN poller.mine.queue : poller.mine.queue[j] = i THEN times ELSE 0
    BY <1>1 DEF DigestOut
  <1> QED BY <1>2 DEF Has

LEMMA PostedMoves ==
  ASSUME BotTypes, poller.pc = "send", Posted
  PROVE  /\ poller.events \in Seq(Nat) /\ poller.events # << >> /\ Head(poller.events) \in 1 .. Len(history)
         /\ poller'.events = Tail(poller.events) /\ poller'.pc = "post" /\ Current = Head(poller.events)
  <1>1. poller.events \in Seq(Nat) /\ poller.events # << >>
    BY DEF BotTypes, PollerState
  <1>2. poller'.events = Tail(poller.events) /\ poller'.pc = "post"
    BY DEF Posted, Idle
  <1>3. Head(poller.events) = (poller.events)[1] /\ 1 \in DOMAIN poller.events
    BY <1>1
  <1>4. (poller.events)[1] \in 1 .. Len(history)
    BY <1>3 DEF BotTypes
  <1> QED BY <1>1, <1>2, <1>3, <1>4 DEF Current

LEMMA BufferDelivers ==
  ASSUME BotTypes, DeliveryInv, Buffer, ~ torn', ~ lost'
  PROVE  Delivery(Len(history'), poller', disk'.queue, posts', doubt')
  <1>1. /\ poller.pc = "send" /\ Posted
        /\ disk' = [poller.mine EXCEPT !.queue = Append(@, Current)] /\ torn' = (torn \/ disk # poller.mine)
        /\ UNCHANGED <<history, posts, lost, doubt>>
    BY DEF Buffer, ToDigest, Save
  <1>2. ~ torn /\ disk = poller.mine /\ ~ lost
    BY <1>1
  <1>3. PICK n, p, q, c, d, p2 : n = Len(history) /\ p = poller /\ q = disk.queue /\ c = posts /\ d = doubt /\ p2 = poller'
    OBVIOUS
  <1>4. Delivery(n, p, q, c, d)
    BY <1>2, <1>3 DEF DeliveryInv
  <1>5. n \in Nat /\ q \in Seq(Nat) /\ c \in [1 .. n -> Nat] /\ d \in BOOLEAN /\ disk \in BotState
    BY <1>3 DEF BotTypes, BotState
  <1>6. /\ p.pc = "send" /\ p.events \in Seq(Nat) /\ p.events # << >> /\ Head(p.events) \in 1 .. n
        /\ p2.events = Tail(p.events) /\ p2.pc = "post" /\ Current = Head(p.events)
    BY <1>1, <1>3, PostedMoves
  <1>7. disk'.queue = Append(q, Head(p.events))
    BY <1>1, <1>2, <1>3, <1>5, <1>6 DEF BotState
  <1>8. d = (d \/ 0 = 1)
    BY <1>5
  <1>9. Delivery(n, p2, Append(q, Head(p.events)), [c EXCEPT ![Head(p.events)] = @ + 0], d)
    BY ONLY <1>4, <1>5, <1>6, <1>8, DeliveryBuffers
  <1>10. [c EXCEPT ![Head(p.events)] = @ + 0] = c
    BY <1>5, <1>6
  <1> QED BY <1>1, <1>3, <1>7, <1>9, <1>10

LEMMA PostFailsDelivers ==
  ASSUME BotTypes, DeliveryInv, PostFails, ~ torn', ~ lost'
  PROVE  Delivery(Len(history'), poller', disk'.queue, posts', doubt')
  <1>1. /\ poller.pc = "send" /\ Posted
        /\ disk' = [poller.mine EXCEPT !.queue = Append(@, Current)] /\ torn' = (torn \/ disk # poller.mine)
        /\ UNCHANGED <<history, lost>>
    BY DEF PostFails, ToDigest, Save
  <1>0. PICK k \in {0, 1} : posts' = [posts EXCEPT ![Current] = @ + k] /\ doubt' = (doubt \/ k = 1)
    BY DEF PostFails
  <1>2. ~ torn /\ disk = poller.mine /\ ~ lost
    BY <1>1
  <1>3. PICK n, p, q, c, d, p2, d2 : n = Len(history) /\ p = poller /\ q = disk.queue /\ c = posts /\ d = doubt /\ p2 = poller'
                                     /\ d2 = doubt'
    OBVIOUS
  <1>4. Delivery(n, p, q, c, d)
    BY <1>2, <1>3 DEF DeliveryInv
  <1>5. n \in Nat /\ q \in Seq(Nat) /\ c \in [1 .. n -> Nat] /\ d \in BOOLEAN /\ disk \in BotState
    BY <1>3 DEF BotTypes, BotState
  <1>6. /\ p.pc = "send" /\ p.events \in Seq(Nat) /\ p.events # << >> /\ Head(p.events) \in 1 .. n
        /\ p2.events = Tail(p.events) /\ p2.pc = "post" /\ Current = Head(p.events)
    BY <1>1, <1>3, PostedMoves
  <1>7. disk'.queue = Append(q, Head(p.events))
    BY <1>1, <1>2, <1>3, <1>5, <1>6 DEF BotState
  <1>8. d2 = (d \/ k = 1)
    BY <1>0, <1>3
  <1>9. Delivery(n, p2, Append(q, Head(p.events)), [c EXCEPT ![Head(p.events)] = @ + k], d2)
    BY ONLY <1>0, <1>4, <1>5, <1>6, <1>8, DeliveryBuffers
  <1>10. posts' = [c EXCEPT ![Head(p.events)] = @ + k]
    BY <1>0, <1>3, <1>6
  <1> QED BY <1>1, <1>3, <1>7, <1>9, <1>10

LEMMA PostDelivers ==
  ASSUME BotTypes, DeliveryInv, Post, ~ torn', ~ lost'
  PROVE  Delivery(Len(history'), poller', disk'.queue, posts', doubt')
  <1>1. /\ poller.pc = "send" /\ Posted /\ posts' = [posts EXCEPT ![Current] = @ + 1]
        /\ UNCHANGED <<disk, history, torn, lost, doubt>>
    BY DEF Post
  <1>3. PICK n, p, q, c, d, p2 : n = Len(history) /\ p = poller /\ q = disk.queue /\ c = posts /\ d = doubt /\ p2 = poller'
    OBVIOUS
  <1>4. Delivery(n, p, q, c, d)
    BY <1>1, <1>3 DEF DeliveryInv
  <1>5. n \in Nat /\ c \in [1 .. n -> Nat] /\ d \in BOOLEAN
    BY <1>3 DEF BotTypes
  <1>6. /\ p.pc = "send" /\ p.events \in Seq(Nat) /\ p.events # << >> /\ Head(p.events) \in 1 .. n
        /\ p2.events = Tail(p.events) /\ p2.pc = "post" /\ Current = Head(p.events)
    BY <1>1, <1>3, PostedMoves
  <1>9. Delivery(n, p2, q, [c EXCEPT ![Head(p.events)] = @ + 1], d)
    BY ONLY <1>4, <1>5, <1>6, DeliveryPosts
  <1>10. posts' = [c EXCEPT ![Head(p.events)] = @ + 1]
    BY <1>1, <1>3, <1>6
  <1> QED BY <1>1, <1>3, <1>9, <1>10

LEMMA FlushDelivers ==
  ASSUME BotTypes, DeliveryInv, Flush \/ FlushFails, ~ torn', ~ lost'
  PROVE  Delivery(Len(history'), poller', disk'.queue, posts', doubt')
  <1>1. poller.pc = "flush" /\ UNCHANGED <<disk, history, torn, lost>>
    BY DEF Flush, FlushFails
  <1>3. PICK n, p, q, c, d, p2, c2, d2 : n = Len(history) /\ p = poller /\ q = disk.queue /\ c = posts /\ d = doubt /\ p2 = poller'
                                         /\ c2 = posts' /\ d2 = doubt'
    OBVIOUS
  <1>4. Delivery(n, p, q, c, d)
    BY <1>1, <1>3 DEF DeliveryInv
  <1>5. n \in Nat /\ c \in [1 .. n -> Nat] /\ d \in BOOLEAN /\ p.pc = "flush" /\ p.events = << >>
    BY <1>1, <1>3 DEF BotTypes, PollerState
  <1>6. CASE Flush
    <2>1. DigestOut(1) /\ poller' = [poller EXCEPT !.pc = "clear"] /\ doubt' = doubt
      BY <1>6 DEF Flush
    <2>2. p2.events = << >> /\ p2.pc = "clear" /\ p2.mine = p.mine
      <3>1. p2 = [p EXCEPT !.pc = "clear"] /\ p \in PollerState
        BY <1>3, <2>1 DEF BotTypes
      <3> QED BY <1>5, <3>1 DEF PollerState
    <2>3. \A i \in 1 .. n : c2[i] = c[i] + IF Has(p.mine.queue, i) THEN 1 ELSE 0
      BY <1>3, <2>1, DigestCounts
    <2>4. Delivery(n, p2, q, c2, d)
      BY ONLY <1>4, <1>5, <2>2, <2>3, DeliveryFlushes
    <2> QED BY <1>1, <1>3, <2>1, <2>4
  <1>7. CASE FlushFails
    <2>1. PICK k \in {0, 1} : DigestOut(k) /\ doubt' = (doubt \/ k = 1)
      BY <1>7 DEF FlushFails
    <2>2. p2.events = << >> /\ p2.pc = "idle"
      BY <1>3, <1>7 DEF FlushFails, Idle
    <2>3. \A i \in 1 .. n : c2[i] = c[i] + IF Has(p.mine.queue, i) THEN k ELSE 0
      BY <1>3, <2>1, DigestCounts
    <2>4. d2 = (d \/ k = 1)
      BY <1>3, <2>1
    <2>5. Delivery(n, p2, q, c2, d2)
      BY ONLY <1>4, <1>5, <2>1, <2>2, <2>3, <2>4, DeliveryFlushFails
    <2> QED BY <1>1, <1>3, <2>5
  <1> QED BY <1>6, <1>7

LEMMA PollerOnDelivers ==
  ASSUME BotTypes, DeliveryInv, PollLoad \/ PostLoad \/ FlushLoad, ~ torn', ~ lost'
  PROVE  Delivery(Len(history'), poller', disk'.queue, posts', doubt')
  <1>1. UNCHANGED <<disk, history, posts, torn, lost, doubt>>
    BY DEF PollLoad, PostLoad, FlushLoad, ghosts
  <1>2. Delivery(Len(history), poller, disk.queue, posts, doubt)
    BY <1>1 DEF DeliveryInv
  <1>3. poller \in PollerState
    BY DEF BotTypes
  <1>4. /\ poller'.events = poller.events /\ poller.pc # "clear" /\ poller'.pc # "clear"
        /\ poller'.pc = "flush" => poller'.mine.queue = disk.queue
    <2>1. CASE PollLoad
      <3>1. poller' = [poller EXCEPT !.pc = "detect", !.mine = disk] /\ poller.pc = "idle"
        BY <2>1 DEF PollLoad
      <3> QED BY <1>3, <3>1 DEF PollerState
    <2>2. CASE PostLoad
      <3>1. poller' = [poller EXCEPT !.pc = "send", !.mine = disk] /\ poller.pc = "post"
        BY <2>2 DEF PostLoad
      <3> QED BY <1>3, <3>1 DEF PollerState
    <2>3. CASE FlushLoad /\ FlushDue
      <3>1. poller' = [poller EXCEPT !.pc = "flush", !.mine = disk] /\ poller.pc = "post"
        BY <2>3 DEF FlushLoad
      <3> QED BY <1>3, <3>1 DEF PollerState
    <2>4. CASE FlushLoad /\ ~ FlushDue
      BY <2>4 DEF FlushLoad, Idle
    <2> QED BY <2>1, <2>2, <2>3, <2>4
  <1>5. PICK p2, q : p2 = poller' /\ q = disk.queue
    OBVIOUS
  <1>6. /\ p2.events = poller.events /\ (p2.pc = "clear" <=> poller.pc = "clear")
        /\ p2.pc \in {"flush", "clear"} => p2.mine.queue = q
    BY <1>4, <1>5
  <1>7. Delivery(Len(history), p2, q, posts, doubt)
    BY <1>2, <1>5, <1>6, DeliveryMoves
  <1> QED BY <1>1, <1>5, <1>7

LEMMA SavesDeliver ==
  ASSUME BotTypes, DeliveryInv, FlushClear \/ CommandSave, ~ torn', ~ lost'
  PROVE  Delivery(Len(history'), poller', disk'.queue, posts', doubt')
  <1>1. UNCHANGED <<history, posts, lost, doubt>>
    BY DEF FlushClear, CommandSave
  <1>2. CASE FlushClear
    <2>1. disk' = [poller.mine EXCEPT !.queue = << >>] /\ torn' = (torn \/ disk # poller.mine) /\ poller.pc = "clear"
          /\ poller' = Idle
      BY <1>2 DEF FlushClear, Save, ClearedQueue
    <2>2. Delivery(Len(history), poller, disk.queue, posts, doubt)
      BY <1>1, <2>1 DEF DeliveryInv
    <2>3. poller.events = << >> /\ poller.mine \in BotState
      BY <2>1 DEF BotTypes, PollerState
    <2>4. disk'.queue = << >> /\ poller'.events = << >> /\ poller'.pc = "idle"
      BY <2>1, <2>3 DEF BotState, Idle
    <2>5. PICK p2, q : p2 = poller' /\ q = disk.queue
      OBVIOUS
    <2>6. Delivery(Len(history), p2, << >>, posts, doubt)
      BY <2>1, <2>2, <2>3, <2>4, <2>5, DeliveryClears
    <2> QED BY <1>1, <2>4, <2>5, <2>6
  <1>3. CASE CommandSave
    <2>1. /\ disk' = [command.mine EXCEPT !.pause = commands] /\ torn' = (torn \/ disk # command.mine)
          /\ poller' = poller
      BY <1>3 DEF CommandSave, Save
    <2>2. Delivery(Len(history), poller, disk.queue, posts, doubt)
      BY <1>1, <2>1 DEF DeliveryInv
    <2>3. disk'.queue = disk.queue
      <3>1. command.mine \in BotState
        BY DEF BotTypes, CommandState
      <3>2. disk'.queue = command.mine.queue /\ disk = command.mine
        BY <2>1, <3>1 DEF BotState
      <3> QED BY <3>2
    <2> QED BY <1>1, <2>1, <2>2, <2>3
  <1> QED BY <1>2, <1>3

LEMMA DeliveryInvNext == BotTypes /\ DeliveryInv /\ [BotNext]_botVars => DeliveryInv'
  <1> SUFFICES ASSUME BotTypes, DeliveryInv, [BotNext]_botVars, ~ torn', ~ lost'
               PROVE  Delivery(Len(history'), poller', disk'.queue, posts', doubt')
    BY DEF DeliveryInv
  <1>1. CASE SessionChanges \/ LivenessChanges \/ ProgramChanges
    <2>1. Changed(w')
      BY <1>1, LabTurns DEF BotTypes
    <2> QED BY <2>1 DEF Changed, DeliveryInv
  <1>2. CASE Nightfall \/ Morning \/ PauseEnds \/ CommandLoad \/ UNCHANGED botVars
    BY <1>2 DEF Nightfall, Morning, PauseEnds, CommandLoad, botVars, ghosts, DeliveryInv
  <1>3. CASE Detect
    BY <1>3, DetectDelivers
  <1>4. CASE Buffer
    BY <1>4, BufferDelivers
  <1>5. CASE Post
    BY <1>5, PostDelivers
  <1>6. CASE PostFails
    BY <1>6, PostFailsDelivers
  <1>7. CASE PollLoad \/ PostLoad \/ FlushLoad
    BY <1>7, PollerOnDelivers
  <1>8. CASE Flush \/ FlushFails
    BY <1>8, FlushDelivers
  <1>9. CASE FlushClear \/ CommandSave
    BY <1>9, SavesDeliver
  <1>10. CASE Kill
    BY <1>10 DEF Kill
  <1> QED
    <2>1. BotNext \/ UNCHANGED botVars
      OBVIOUS
    <2> QED BY <1>1, <1>2, <1>3, <1>4, <1>5, <1>6, <1>7, <1>8, <1>9, <1>10, <2>1 DEF BotNext, Poll

(* Post, buffer and flush lose no event and repeat none, with the exceptions that *)
(* DeliveredOnce names: post and flush_digest_if_due, and the saves of the pause.  *)
THEOREM EventsAreDeliveredOnce == BotSpec => []DeliveredOnce
  <1>1. BotInit => BotTypes /\ DeliveryInv
    BY BotTypesInit, DeliveryInvInit
  <1>2. BotTypes /\ DeliveryInv /\ [BotNext]_botVars => BotTypes' /\ DeliveryInv'
    BY BotTypesNext, DeliveryInvNext
  <1>3. BotTypes /\ DeliveryInv => DeliveredOnce
    BY DeliveryFollows
  <1> QED BY <1>1, <1>2, <1>3, PTL DEF BotSpec
=============================================================================
