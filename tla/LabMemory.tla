----------------------------- MODULE LabMemory -----------------------------
(***************************************************************************)
(* The retrieval corpus: the markdown files, tools/lab_memory.db, which    *)
(* the runner's reindex brings up to date from their modification times,   *)
(* the token graph (lab_graph.db) and the BM25 index (lab_bm25.json) built *)
(* from them when the database is newer than either.  A file is one chunk, *)
(* its text a version number, and vectors go with their rows (one          *)
(* transaction).  Times in the database are whole seconds; what matters of *)
(* the times of the three index files is which is newer.                   *)
(***************************************************************************)
EXTENDS Integers, FiniteSets, FiniteSetsExt, TLC

CONSTANTS
    Files,
    MaxTime,        \* bound on the clock
    MaxEvents       \* bound on edits, operator commands, kills and server starts

Absent == 0
Empty == -1         \* a file without text
NoFile == "no file"

ASSUME LabMemoryAssumption ==
    IsFiniteSet(Files) /\ NoFile \notin Files /\ {MaxTime, MaxEvents} \subseteq Nat

VARIABLES
    clock,
    file,       \* each markdown file: [v: its text, m: its modification time]
    rows,       \* memories and memories_vec: [v, ts, id] of each source_path
    ids,        \* AUTOINCREMENT
    reindex,    \* the runner's reindex: [pc, since, todo, at: the file, v: the text it read]
    graph,      \* lab_graph.db: the texts of each file that left nodes in it
    bm25,       \* lab_bm25.json: the rows it was built from
    snapshot,   \* the rows a running build has read
    graphNewer, \* lab_graph.db is newer than lab_memory.db
    bm25Newer,  \* lab_bm25.json is newer than lab_memory.db
    builds,     \* counts the builds of lab_bm25.json: its modification time
    missed,     \* ghost: files an edit or a command has hidden from the passes to come
    cut,        \* ghost: files an interrupted pass did not reach
    overtaken,  \* ghost: the database changed between the read and the write of a build
    events

memoryVars == <<clock, file, rows, ids, reindex, graph, bm25, snapshot, graphNewer, bm25Newer,
                builds, missed, cut, overtaken, events>>

NoRow == [v |-> Absent, ts |-> 0, id |-> 0]
Off == [pc |-> "off", since |-> 0, todo |-> {}, at |-> NoFile, v |-> Absent]

MemoryInit ==
    /\ clock = 1
    /\ file \in [Files -> {[v |-> Absent, m |-> 0], [v |-> 1, m |-> 1]}]
    /\ rows = [f \in Files |-> NoRow] /\ ids = 0 /\ reindex = Off
    /\ graph = [f \in Files |-> {}] /\ bm25 = [f \in Files |-> NoRow]
    /\ snapshot = [f \in Files |-> NoRow]
    /\ graphNewer = FALSE /\ bm25Newer = FALSE /\ builds = 0
    /\ missed = {} /\ cut = {} /\ overtaken = FALSE /\ events = 0

_last_ingest_timestamp == Max({rows[f].ts : f \in Files} \union {0})

Event == events < MaxEvents /\ events' = events + 1

(* A commit: the database is now newer than the two indexes. *)
Commit(new) ==
    /\ rows' = new
    /\ graphNewer' = FALSE /\ bm25Newer' = FALSE

-----------------------------------------------------------------------------
(* The world. *)

Tick ==
    /\ clock < MaxTime /\ clock' = clock + 1
    /\ UNCHANGED <<file, rows, ids, reindex, graph, bm25, snapshot, graphNewer, bm25Newer, builds,
                   missed, cut, overtaken, events>>

(* A new version, or the text or the file goes away. *)
Edit(f) ==
    /\ Event
    /\ \E v \in {events + 2, Empty, Absent} \ {file[f].v} :
          file' = [file EXCEPT ![f] = [v |-> v, m |-> IF v = Absent THEN 0 ELSE clock]]
    /\ missed' = IF reindex.pc # "off" \/ clock <= _last_ingest_timestamp
                 THEN missed \union {f} ELSE missed
    /\ UNCHANGED <<clock, rows, ids, reindex, graph, bm25, snapshot, graphNewer, bm25Newer, builds,
                   cut, overtaken>>

(* ingest(path) of a file that has text: the rows of the file are replaced. *)
Ingested(f, v) == [rows EXCEPT ![f] = [v |-> v, ts |-> clock, id |-> ids + 1]]
Ingest(f) ==
    /\ Event /\ file[f].v > 0
    /\ Commit(Ingested(f, file[f].v)) /\ ids' = ids + 1
    /\ missed' = (missed \ ({f} \ {reindex.at})) \union
          {g \in Files \ {f} : file[g].m > _last_ingest_timestamp /\ file[g].m <= clock}
    /\ UNCHANGED <<clock, file, reindex, graph, bm25, snapshot, builds, cut, overtaken>>

(* delete(id). *)
Delete(f) ==
    /\ Event /\ rows[f] # NoRow
    /\ Commit([rows EXCEPT ![f] = NoRow])
    /\ missed' = missed \union {f}
    /\ UNCHANGED <<clock, file, ids, reindex, graph, bm25, snapshot, builds, cut, overtaken>>

-----------------------------------------------------------------------------
(* The runner's reindex: ingest --incremental, then graph build, then bm25 build. *)

PassStart ==
    /\ reindex.pc = "off"
    /\ reindex' = [Off EXCEPT !.pc = "scan", !.since = _last_ingest_timestamp,
                              !.todo = {f \in Files : file[f].v # Absent}]
    /\ UNCHANGED <<clock, file, rows, ids, graph, bm25, snapshot, graphNewer, bm25Newer, builds,
                   missed, cut, overtaken, events>>

DueSinceLast(f) == file[f].v # Absent /\ file[f].m > _last_ingest_timestamp
Due(f) == file[f].v # Absent /\ file[f].m > reindex.since

(* The next file of the walk: skipped, or read and embedded. *)
Visit(f) ==
    /\ reindex.pc = "scan" /\ f \in reindex.todo
    /\ reindex' = IF Due(f) THEN [reindex EXCEPT !.pc = "embed", !.todo = @ \ {f}, !.at = f,
                                                 !.v = file[f].v]
                  ELSE [reindex EXCEPT !.todo = @ \ {f}]
    /\ UNCHANGED <<clock, file, rows, ids, graph, bm25, snapshot, graphNewer, bm25Newer, builds,
                   missed, cut, overtaken, events>>

(* The file's transaction.  A file without chunks returns before it: its old rows stay. *)
Store ==
    /\ reindex.pc = "embed"
    /\ reindex' = [reindex EXCEPT !.pc = "scan", !.at = NoFile, !.v = Absent]
    /\ IF reindex.v = Empty
       THEN UNCHANGED <<rows, ids, graphNewer, bm25Newer>>
       ELSE Commit(Ingested(reindex.at, reindex.v)) /\ ids' = ids + 1
    /\ UNCHANGED <<clock, file, graph, bm25, snapshot, builds, missed, cut, overtaken, events>>

(* The end of the pass, and the gate of _run_retrieval_graph_reindex. *)
IndexesCurrent == graphNewer /\ bm25Newer
PassEnds ==
    /\ reindex.pc = "scan" /\ reindex.todo = {}
    /\ reindex' = [Off EXCEPT !.pc = IF IndexesCurrent THEN "off" ELSE "graph"]
    /\ missed' = missed \ {f \in Files : file[f].v = rows[f].v}
    /\ cut' = cut \ {f \in Files : file[f].v = rows[f].v}
    /\ UNCHANGED <<clock, file, rows, ids, graph, bm25, snapshot, graphNewer, bm25Newer, builds,
                   overtaken, events>>

(* build_graph_from_corpus reads the markdown files, and only adds to the graph. *)
BuildGraph ==
    /\ reindex.pc = "graph"
    /\ graph' = [f \in Files |-> graph[f] \union ({file[f].v} \ {Absent, Empty})]
    /\ graphNewer' = TRUE
    /\ reindex' = [reindex EXCEPT !.pc = "bm25"]
    /\ UNCHANGED <<clock, file, rows, ids, bm25, snapshot, bm25Newer, builds, missed, cut, overtaken, events>>

(* from_lab_memory_db, which refuses an empty corpus, then save with os.replace. *)
BuildRead ==
    /\ reindex.pc = "bm25"
    /\ snapshot' = rows
    /\ reindex' = [reindex EXCEPT !.pc = IF \A f \in Files : rows[f] = NoRow THEN "reload" ELSE "save"]
    /\ UNCHANGED <<clock, file, rows, ids, graph, bm25, graphNewer, bm25Newer, builds, missed, cut,
                   overtaken, events>>

BuildSave ==
    /\ reindex.pc = "save"
    /\ bm25' = snapshot /\ builds' = builds + 1 /\ bm25Newer' = TRUE
    /\ overtaken' = (snapshot # rows)
    /\ reindex' = [reindex EXCEPT !.pc = "reload"]
    /\ UNCHANGED <<clock, file, rows, ids, graph, snapshot, graphNewer, missed, cut, events>>

(* timeout 120, 180 and 60, or the end of the runner.  After a timeout the runner goes on. *)
Unvisited == reindex.todo \union ({reindex.at} \ {NoFile})
Interrupt ==
    /\ Event /\ reindex.pc \in {"scan", "embed", "graph", "bm25", "save"}
    /\ \E pc \in {"off"} \union
             CASE reindex.pc \in {"scan", "embed"} -> IF IndexesCurrent THEN {} ELSE {"graph"}
               [] reindex.pc = "graph" -> {"bm25"}
               [] OTHER -> {"reload"} :
          reindex' = [Off EXCEPT !.pc = pc]
    /\ cut' = cut \union {f \in Unvisited : file[f].m <= _last_ingest_timestamp
                                                  /\ file[f].m > reindex.since}
    /\ UNCHANGED <<clock, file, rows, ids, graph, bm25, snapshot, graphNewer, bm25Newer, builds,
                   missed, overtaken>>

MemoryNext ==
    \/ Tick \/ \E f \in Files : Edit(f) \/ Ingest(f) \/ Delete(f) \/ Visit(f)
    \/ PassStart \/ Store \/ PassEnds \/ BuildGraph \/ BuildRead \/ BuildSave \/ Interrupt

-----------------------------------------------------------------------------
(* Incremental ingestion misses nothing but missed and cut: every             *)
(* other file with text is either stored as it is, or newer than the last    *)
(* ingest, so that the next pass takes it, or still ahead of the running one. *)
NothingMissed ==
    \A f \in Files \ (missed \union cut) : file[f].v > 0 =>
        \/ rows[f].v = file[f].v
        \/ file[f].m > _last_ingest_timestamp
        \/ f \in Unvisited /\ file[f].m > reindex.since

(* When the gate finds both indexes newer than the database, the BM25 index  *)
(* holds exactly its rows, unless a commit overtook the build.               *)
SkipIsSafe == IndexesCurrent /\ ~overtaken => bm25 = rows

(* The runner's message on a timeout: "will retry next iteration".  A complete *)
(* pass leaves no file behind but those an edit or a command has hidden.  It   *)
(* does leave those that a pass cut by the timeout had not reached.            *)
TimeoutRetried ==
    [][PassEnds => \A f \in Files : file[f].v > 0 /\ f \notin missed => rows[f].v = file[f].v]_memoryVars
=============================================================================
