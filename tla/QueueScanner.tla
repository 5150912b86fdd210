---------------------------- MODULE QueueScanner ----------------------------
(***************************************************************************)
(* tools/queue_scanner.py with tools/artifact_queue_projector.py: the scan *)
(* the runner makes before every session.  Eight detectors compare the     *)
(* workspace with last_seen.json and return items; the scan enqueues them  *)
(* one by one, notes each in its copy of last_seen and writes that copy    *)
(* back at the very end.  The workspace goes on changing meanwhile         *)
(* (training cells end, the operator edits user_notes.md, agents write     *)
(* diagnostics), and the scan can be killed at any step.                   *)
(*                                                                         *)
(* An item is <<type, key>> where key holds what compute_id hashes, so two *)
(* items are equal exactly when their ids are.  Sessions run only between  *)
(* scans, as in run_agi_lab.sh.  One program is active throughout.         *)
(***************************************************************************)
EXTENDS Integers, Sequences, FiniteSets, FiniteSetsExt, SequencesExt

CONSTANTS
    Cells,          \* training cells of run_index.json
    Diags,          \* files of data/diagnostics
    Claims,         \* claimed items whose session and close-out may both die
    Artifacts,      \* artifacts of the active phase in artifact_schema.yaml
    Prereqs,        \* the artifacts each one needs first
    LastPhase,      \* _MAX_PHASE
    ConsolidatorInterval, HeartbeatInterval,  \* in ticks of the clock
    MaxEvents,      \* bound on changes of the workspace
    MaxKills,       \* bound on kills of the scan
    MaxSessions     \* bound on the items sessions take

ASSUME ScanAssumption ==
    /\ Prereqs \in [Artifacts -> SUBSET Artifacts]
    /\ {LastPhase, ConsolidatorInterval, HeartbeatInterval} \subseteq Nat \ {0}
    /\ {MaxEvents, MaxKills, MaxSessions} \subseteq Nat
    /\ \A S \in {Cells, Diags, Claims, Artifacts} : IsFiniteSet(S)

VARIABLES
    closed,     \* phases with a close memo
    notes,      \* mtime of user_notes.md, 0 while there is none
    cell,       \* what run_index.json says of each cell
    diags,      \* diagnostics written
    clock,      \* ticks
    lastRun,    \* consolidator.last_run
    lastLog,    \* mtime of the newest session log
    stranded,   \* claims left in claimed.jsonl beside a finished deliverable
    ended,      \* claims with a complete or fail event in the telemetry
    quiet,      \* claimed.jsonl untouched for thirty minutes
    present,    \* artifacts whose file exists
    pending, claimed, done, failed,   \* the queue files
    lastSeen,   \* last_seen.json; Empty when missing or unreadable
    pc,         \* where the scan is
    todo,       \* items detected and not yet handled
    snap,       \* existing_ids_before
    marks,      \* the scan's copy of last_seen
    saw,        \* ghost: the workspace when the scan began
    runs,       \* ghost: consolidator runs appended, with the window of the scan
    reviewed,   \* ghost: claims whose review was appended
    events, kills, sessions

workspace == <<closed, notes, cell, diags, clock, lastRun, lastLog, stranded, ended,
               quiet, present>>
queue == <<pending, claimed, done, failed>>
memory == <<todo, snap, marks, saw>>
Window(t) == t \div ConsolidatorInterval
vars == <<workspace, queue, lastSeen, pc, memory, runs, reviewed, events, kills, sessions>>

(* Claims over thirty minutes old beside a deliverable newer than they, with no event. *)
Orphans == IF quiet THEN stranded \ ended ELSE {}
Sight == [closed |-> closed, notes |-> notes, cell |-> cell, diags |-> diags, clock |-> clock,
          orphans |-> Orphans]
Nothing == [closed |-> {}, notes |-> 0, cell |-> [c \in Cells |-> "in_progress"], diags |-> {},
            clock |-> 0, orphans |-> {}]
Empty == [phases |-> {}, mtime |-> 0, cells |-> {}, files |-> {}]
Everywhere == pending \cup claimed \cup done \cup failed
Outcomes == {"completed", "rc", "error"}

Init ==
    /\ closed = {} /\ notes = 0 /\ diags = {} /\ present = {}
    /\ cell = [c \in Cells |-> "in_progress"]
    /\ clock = 0 /\ lastRun = 0 - ConsolidatorInterval /\ lastLog = 0
    /\ stranded = {} /\ ended = {} /\ quiet = FALSE
    /\ pending = {} /\ claimed = {} /\ done = {} /\ failed = {}
    /\ lastSeen = Empty
    /\ pc = "idle" /\ todo = << >> /\ snap = {} /\ marks = Empty /\ saw = Nothing
    /\ runs = {} /\ reviewed = {} /\ events = 0 /\ kills = 0 /\ sessions = 0

-----------------------------------------------------------------------------
(* The detectors.  Each is a function of the workspace and last_seen. *)

PhaseItems ==
    LET n == Max(closed)
    IN  IF closed = {} \/ n + 1 > LastPhase \/ n \in lastSeen.phases
        THEN << >>
        ELSE << <<"phase_advance", n>> >>

NudgeItems ==
    IF notes = 0 \/ notes = lastSeen.mtime THEN << >> ELSE << <<"operator_nudge", notes>> >>

(* The id hashes the payload (cell and outcome), last_seen only cell and suffix. *)
CellKind(o) == IF o = "completed" THEN "cell_complete" ELSE "cell_failed"
CellItemsByName ==
    LET new == {c \in Cells : cell[c] \in Outcomes /\ \A m \in lastSeen.cells : m[1] # c}
    IN  SetToSeq({<<CellKind(cell[c]), <<c, cell[c]>> >> : c \in new})
CellItems ==
    LET new == {c \in Cells : cell[c] \in Outcomes /\ <<c, CellKind(cell[c])>> \notin lastSeen.cells}
    IN  SetToSeq({<<CellKind(cell[c]), <<c, cell[c]>> >> : c \in new})

DiagItems == SetToSeq({<<"diagnostic_review", d>> : d \in diags \ lastSeen.files})

(* What the consolidator's id was before it carried a dedup key. *)
ConsolidatorItemsByPayload ==
    IF clock - lastRun < ConsolidatorInterval
    THEN << >>
    ELSE << <<"consolidator_run", clock>> >>
ConsolidatorItems ==
    IF clock - lastRun < ConsolidatorInterval
    THEN << >>
    ELSE << <<"consolidator_run", Window(clock)>> >>

(* A heartbeat has no dedup key: the hours since the last session are part of its id. *)
HeartbeatItems ==
    IF clock - lastLog < HeartbeatInterval
    THEN << >>
    ELSE << <<"heartbeat", <<clock \div HeartbeatInterval, clock - lastLog>> >> >>

(* Every orphan of the program gets the same dedup key: the third component, the *)
(* claim the review is about, is no part of the id.                              *)
OrphanItems == SetToSeq({<<"session_recovery_review", "orphan_recovery", q>> : q \in Orphans})
Id(i) == <<i[1], i[2]>>

ArtifactItems ==
    SetToSeq({<<"artifact", a>> : a \in {a \in Artifacts \ present : Prereqs[a] \subseteq present}})

-----------------------------------------------------------------------------
(* scan(): detect, read last_seen and the queue's ids, enqueue, save. *)

Detect ==
    /\ pc = "idle"
    /\ todo' = PhaseItems \o NudgeItems \o CellItems \o DiagItems \o ConsolidatorItems
                 \o HeartbeatItems \o OrphanItems \o ArtifactItems
    /\ saw' = Sight
    /\ pc' = "snapshot"
    /\ UNCHANGED <<workspace, queue, lastSeen, snap, marks, runs, reviewed, events, kills, sessions>>

Snapshot ==
    /\ pc = "snapshot"
    /\ marks' = lastSeen
    /\ snap' = pending \cup claimed
    /\ pc' = "enqueue"
    /\ UNCHANGED <<workspace, queue, lastSeen, todo, saw, runs, reviewed, events, kills, sessions>>

(* What handling an item adds to the scan's copy of last_seen. *)
Marked(i) ==
    CASE i[1] = "phase_advance"  -> [marks EXCEPT !.phases = @ \cup {i[2]}]
      [] i[1] = "operator_nudge" -> [marks EXCEPT !.mtime = i[2]]
      [] i[1] \in {"cell_complete", "cell_failed"} ->
             [marks EXCEPT !.cells = @ \cup {<<i[2][1], i[1]>>}]
      [] i[1] = "diagnostic_review" -> [marks EXCEPT !.files = @ \cup {i[2]}]
      [] OTHER -> marks

(* work_queue.enqueue: an id that is pending, claimed or completed is not appended. *)
Enqueued(i) == IF i \in pending \cup claimed \cup done THEN pending ELSE pending \cup {i}

EnqueueNext ==
    /\ pc = "enqueue" /\ todo # << >>
    /\ LET i == Head(todo) IN
         IF Id(i) \in snap
         THEN UNCHANGED <<pending, marks, runs, reviewed>>
         ELSE /\ pending' = Enqueued(Id(i))
              /\ marks' = Marked(i)
              /\ runs' = IF i[1] = "consolidator_run" /\ pending' # pending
                         THEN runs \cup {<<Window(saw.clock), i>>}
                         ELSE runs
              /\ reviewed' = IF i[1] = "session_recovery_review" /\ pending' # pending
                             THEN reviewed \cup {i[3]}
                             ELSE reviewed
    /\ todo' = Tail(todo)
    /\ UNCHANGED <<workspace, claimed, done, failed, lastSeen, pc, snap, saw, events, kills, sessions>>

Saved == marks

Save ==
    /\ pc = "enqueue" /\ todo = << >>
    /\ lastSeen' = Saved
    /\ pc' = "idle" /\ snap' = {} /\ marks' = Empty /\ saw' = Nothing
    /\ UNCHANGED <<workspace, queue, todo, runs, reviewed, events, kills, sessions>>

(* The scan dies.  write_text truncates the file first, so a kill in it empties last_seen. *)
Kill ==
    /\ pc # "idle" /\ kills < MaxKills
    /\ kills' = kills + 1
    /\ lastSeen' \in {lastSeen} \cup (IF pc = "enqueue" /\ todo = << >> THEN {Empty} ELSE {})
    /\ pc' = "idle" /\ todo' = << >> /\ snap' = {} /\ marks' = Empty /\ saw' = Nothing
    /\ UNCHANGED <<workspace, queue, runs, reviewed, events, sessions>>

-----------------------------------------------------------------------------
(* A session between two scans takes an item and ends it one way or the other. *)

Serve(i) ==
    /\ pc = "idle" /\ i \in pending /\ claimed = {} /\ sessions < MaxSessions
    /\ sessions' = sessions + 1
    /\ pending' = pending \ {i} /\ claimed' = {i}
    /\ lastLog' = clock /\ quiet' = FALSE
    /\ UNCHANGED <<closed, notes, cell, diags, clock, lastRun, stranded, ended, present,
                   done, failed, lastSeen, pc, memory, runs, reviewed, events, kills>>

Finish(i) ==
    /\ pc = "idle" /\ i \in claimed
    /\ claimed' = {}
    /\ \/ done' = done \cup {i} /\ failed' = failed
          /\ lastRun' = IF i[1] = "consolidator_run" THEN clock ELSE lastRun
       \/ failed' = failed \cup {i} /\ done' = done /\ lastRun' = lastRun
    /\ quiet' = FALSE
    /\ UNCHANGED <<closed, notes, cell, diags, clock, lastLog, stranded, ended, present,
                   pending, lastSeen, pc, memory, runs, reviewed, events, kills, sessions>>

(* What others do to the workspace, at any time. *)
Elsewhere ==
    /\ events < MaxEvents /\ events' = events + 1
    /\ \/ \E n \in 1..LastPhase \ closed :
            closed' = closed \cup {n}
            /\ UNCHANGED <<notes, cell, diags, clock, lastRun, lastLog, stranded, ended, quiet, present>>
       \/ notes' = notes + 1
            /\ UNCHANGED <<closed, cell, diags, clock, lastRun, lastLog, stranded, ended, quiet, present>>
       \/ \E c \in Cells, o \in Outcomes \cup {"in_progress"} :
            cell' = [cell EXCEPT ![c] = o]
            /\ UNCHANGED <<closed, notes, diags, clock, lastRun, lastLog, stranded, ended, quiet, present>>
       \/ \E d \in Diags \ diags : diags' = diags \cup {d}
            /\ UNCHANGED <<closed, notes, cell, clock, lastRun, lastLog, stranded, ended, quiet, present>>
       \/ clock' = clock + 1 /\ quiet' = TRUE
            /\ UNCHANGED <<closed, notes, cell, diags, lastRun, lastLog, stranded, ended, present>>
       \/ \E q \in Claims \ stranded : stranded' = stranded \cup {q} /\ quiet' = FALSE
            /\ UNCHANGED <<closed, notes, cell, diags, clock, lastRun, lastLog, ended, present>>
       \/ \E q \in Claims \ ended : ended' = ended \cup {q}
            /\ UNCHANGED <<closed, notes, cell, diags, clock, lastRun, lastLog, stranded, quiet, present>>
       \/ \E a \in Artifacts \ present : present' = present \cup {a}
            /\ UNCHANGED <<closed, notes, cell, diags, clock, lastRun, lastLog, stranded, ended, quiet>>
    /\ UNCHANGED <<queue, lastSeen, pc, memory, runs, reviewed, kills, sessions>>

Scan == Detect \/ Snapshot \/ EnqueueNext \/ Save

Next ==
    \/ Scan \/ Kill \/ Elsewhere
    \/ \E i \in Everywhere : Serve(i) \/ Finish(i)

Spec == Init /\ [][Next]_vars

-----------------------------------------------------------------------------
(* Every high-water mark that reached the disk stands for an item that      *)
(* reached the queue: whatever is killed or edited during a scan, nothing   *)
(* is noted as announced that is not (scan writes last_seen.json last, from *)
(* what the detectors read).                                                *)
MarksBacked ==
    /\ \A n \in lastSeen.phases : <<"phase_advance", n>> \in Everywhere
    /\ lastSeen.mtime > 0 => <<"operator_nudge", lastSeen.mtime>> \in Everywhere
    /\ \A m \in lastSeen.cells : \E o \in Outcomes : <<m[2], <<m[1], o>> >> \in Everywhere
    /\ \A d \in lastSeen.files : <<"diagnostic_review", d>> \in Everywhere

(* P-D417: at most one consolidator run per six-hour window waits, is held  *)
(* or was completed, however often the workspace is scanned in it and       *)
(* whatever becomes of last_seen.json.                                      *)
ConsolidatorOncePerWindow ==
    \A r, t \in runs : r[1] = t[1] /\ {r[2], t[2]} \cap failed = {} => r = t

(* Nothing is marked that was not queued, nothing periodic is queued twice.  *)
MarkedAndOnce == MarksBacked /\ ConsolidatorOncePerWindow

(* A scan that runs to its end has announced everything that lay in the     *)
(* workspace when it began: the notes in the version it saw, every cell     *)
(* that had ended, every diagnostic and the last closed phase, whatever was *)
(* edited meanwhile and whatever an earlier, killed scan left half done.    *)
Announced(w) ==
    /\ w.notes > 0 => <<"operator_nudge", w.notes>> \in Everywhere
    /\ \A c \in Cells : w.cell[c] \in Outcomes =>
          \E o \in Outcomes : /\ (o = "completed") = (w.cell[c] = "completed")
                             /\ <<CellKind(w.cell[c]), <<c, o>> >> \in Everywhere
    /\ \A d \in w.diags : <<"diagnostic_review", d>> \in Everywhere
    /\ w.closed # {} /\ Max(w.closed) < LastPhase =>
          <<"phase_advance", Max(w.closed)>> \in Everywhere
ScanAnnounces ==
    [][pc = "enqueue" /\ pc' = "idle" /\ kills' = kills => Announced(saw)]_vars

(* "For each claim older than 30 min [...] emit a session_recovery_review   *)
(* queue item": a scan that ran to its end has sent every orphan it saw to  *)
(* review.  It does for one orphan; of two, the second has the first one's  *)
(* id and is dropped as its duplicate.                                      *)
OrphansReviewed ==
    [][pc = "enqueue" /\ pc' = "idle" /\ kills' = kills => saw.orphans \subseteq reviewed]_vars
=============================================================================
