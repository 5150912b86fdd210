----------------------------- MODULE NoteFiles -----------------------------
(***************************************************************************)
(* The lab's note files under "archive-never-delete": the memory tool      *)
(* (tools/memory.py) on data/memories, its log rotation, and the rotation  *)
(* of an agent's semantic memory (tools/rotate_agent_semantic.py).         *)
(*                                                                         *)
(* Callers are the Director and the roles it runs beside it: each issues   *)
(* one command at a time, and a command is as many steps as it has file    *)
(* writes.  A text is a version number, a log entry its number.  Log files *)
(* hold the newest entry first, semantic files the oldest.                 *)
(***************************************************************************)
EXTENDS Integers, Sequences, FiniteSets, FiniteSetsExt, SequencesExt

CONSTANTS
    Callers,
    Paths,
    Cap,            \* rotate_log's cap_kb, and the cap on semantic entries
    LongEntries,    \* entries longer than Cap by themselves
    MaxDay,         \* bound on the calendar
    MaxCommands     \* bound on commands, entries and kills

ASSUME NoteFilesAssumption ==
    /\ {Cap, MaxDay} \subseteq Nat \ {0} /\ MaxCommands \in Nat /\ LongEntries \subseteq Nat

Absent == 0
Breadcrumb == -1

VARIABLES
    day,
    note,       \* the text at each path
    trash,      \* archives/deletes/<day>/<path>
    shots,      \* archives/snapshots: what each snapshot holds
    log, archived, history,         \* log.md, archives/<day>/log.md, breadcrumbs of history.md
    semantic, semanticArchive,
    op,         \* each caller's command: [at, path, text, keep, drop]
    commands,   \* counts commands, entries and kills
    deleted,    \* ghost: the texts deletes replaced: <<day, path, text>>
    entries,    \* ghost: every entry ever written to the log and to the semantic file
    overrun,    \* ghost: entries written between the read and the write of a rotation
    torn        \* ghost: a kill hit the write of an archive file

noteVars == <<note, trash, shots, deleted>>
logVars == <<log, archived, history>>
semanticVars == <<semantic, semanticArchive>>
notesVars == <<day, noteVars, logVars, semanticVars, op, commands, entries, overrun, torn>>

Days == 1 .. MaxDay
Free == [at |-> "free", path |-> "", text |-> Absent, keep |-> << >>, drop |-> << >>]
NoEntries == [log |-> {}, semantic |-> {}]

NotesInit ==
    /\ day = 1
    /\ note = [p \in Paths |-> Absent] /\ trash = [d \in Days |-> [p \in Paths |-> Absent]]
    /\ shots = {} /\ deleted = {}
    /\ log = << >> /\ archived = [d \in Days |-> << >>] /\ history = 0
    /\ semantic = << >> /\ semanticArchive = << >>
    /\ op = [c \in Callers |-> Free] /\ commands = 0
    /\ entries = NoEntries /\ overrun = NoEntries /\ torn = FALSE

Command == commands < MaxCommands /\ commands' = commands + 1
Starts(c) == op[c].at = "free" /\ Command
Goto(c, next) == op' = [op EXCEPT ![c] = next]
Done(c) == Goto(c, Free)

-----------------------------------------------------------------------------
(* The protocol commands. *)

Create(c, p) ==
    /\ Starts(c)
    /\ note' = [note EXCEPT ![p] = commands + 1]
    /\ UNCHANGED <<day, trash, shots, deleted, logVars, semanticVars, op, entries, overrun, torn>>

(* str_replace and insert read the file, then create it. *)
Replace(c, p) ==
    /\ Starts(c) /\ note[p] # Absent
    /\ Goto(c, [Free EXCEPT !.at = "replace", !.path = p, !.text = commands + 1])
    /\ UNCHANGED <<day, noteVars, logVars, semanticVars, entries, overrun, torn>>
Replaced(c) ==
    /\ op[c].at = "replace"
    /\ note' = [note EXCEPT ![op[c].path] = op[c].text]
    /\ Done(c)
    /\ UNCHANGED <<day, trash, shots, deleted, logVars, semanticVars, commands, entries, overrun, torn>>

Rename(c, p, q) ==
    /\ Starts(c) /\ note[p] # Absent /\ p # q
    /\ note' = [note EXCEPT ![p] = Absent, ![q] = note[p]]
    /\ UNCHANGED <<day, trash, shots, deleted, logVars, semanticVars, op, entries, overrun, torn>>

Snapshot(c, p) ==
    /\ Starts(c) /\ note[p] # Absent
    /\ shots' = shots \union {<<p, note[p]>>}
    /\ UNCHANGED <<day, note, trash, deleted, logVars, semanticVars, op, entries, overrun, torn>>

(* delete copies the text to the day's archive, then writes the breadcrumb.      *)
Delete(c, p) ==
    /\ Starts(c) /\ note[p] # Absent
    /\ deleted' = deleted \union {<<day, p, note[p]>>}
    /\ trash' = [trash EXCEPT ![day][p] = note[p]]
    /\ Goto(c, [Free EXCEPT !.at = "crumb", !.path = p])
    /\ UNCHANGED <<day, note, shots, logVars, semanticVars, entries, overrun, torn>>
Crumb(c) ==
    /\ op[c].at = "crumb"
    /\ note' = [note EXCEPT ![op[c].path] = Breadcrumb]
    /\ Done(c)
    /\ UNCHANGED <<day, trash, shots, deleted, logVars, semanticVars, commands, entries, overrun, torn>>

-----------------------------------------------------------------------------
(* rotate_log. *)

(* A long entry is Cap + 1 in size, another one 1. *)
TotalSize(l) == Len(l) + Cap * Cardinality({i \in DOMAIN l : l[i] \in LongEntries})
(* The newest entries that fit: up to the first that does not. *)
Fitting(l) == Max({n \in 0 .. Len(l) : TotalSize(SubSeq(l, 1, n)) <= Cap})

(* An agent writes a decision on top of log.md. *)
Decide(c) ==
    /\ Starts(c)
    /\ log' = <<commands + 1>> \o log
    /\ entries' = [entries EXCEPT !.log = @ \union {commands + 1}]
    /\ overrun' = IF \E b \in Callers : op[b].at \in {"archive", "log"}
                  THEN [overrun EXCEPT !.log = @ \union {commands + 1}] ELSE overrun
    /\ UNCHANGED <<day, noteVars, archived, history, semanticVars, op, torn>>

RotateRead(c) ==
    /\ Starts(c) /\ TotalSize(log) > Cap
    /\ Goto(c, [Free EXCEPT !.at = "archive", !.keep = SubSeq(log, 1, Fitting(log)),
                            !.drop = SubSeq(log, Fitting(log) + 1, Len(log))])
    /\ UNCHANGED <<day, noteVars, logVars, semanticVars, entries, overrun, torn>>

(* Mutant of Archive: the live file is written first. *)
ArchiveLast(c) ==
    /\ op[c].at = "archive"
    /\ log' = op[c].keep
    /\ Goto(c, [op[c] EXCEPT !.at = "log"])
    /\ UNCHANGED <<day, noteVars, archived, history, semanticVars, commands, entries, overrun, torn>>
(* archive_path.write_text(existing + overflow). *)
Archive(c) ==
    /\ op[c].at = "archive"
    /\ archived' = [archived EXCEPT ![day] = @ \o op[c].drop]
    /\ Goto(c, [op[c] EXCEPT !.at = "log"])
    /\ UNCHANGED <<day, noteVars, log, history, semanticVars, commands, entries, overrun, torn>>

KeepLog(c) ==
    /\ op[c].at = "log"
    /\ log' = op[c].keep
    /\ Goto(c, [op[c] EXCEPT !.at = "history"])
    /\ UNCHANGED <<day, noteVars, archived, history, semanticVars, commands, entries, overrun, torn>>
KeepHistory(c) ==
    /\ op[c].at = "history"
    /\ history' = history + 1 /\ Done(c)
    /\ UNCHANGED <<day, noteVars, log, archived, semanticVars, commands, entries, overrun, torn>>

-----------------------------------------------------------------------------
(* rotate_role with --apply. *)

Learn(c) ==
    /\ Starts(c)
    /\ semantic' = Append(semantic, commands + 1)
    /\ entries' = [entries EXCEPT !.semantic = @ \union {commands + 1}]
    /\ overrun' = IF \E b \in Callers : op[b].at \in {"semantic archive", "semantic"}
                  THEN [overrun EXCEPT !.semantic = @ \union {commands + 1}] ELSE overrun
    /\ UNCHANGED <<day, noteVars, logVars, semanticArchive, op, torn>>

split_entries(l) == [drop |-> SubSeq(l, 1, Len(l) - Cap), keep |-> SubSeq(l, Len(l) - Cap + 1, Len(l))]

SemanticRead(c) ==
    /\ Starts(c) /\ Len(semantic) > Cap
    /\ Goto(c, [Free EXCEPT !.at = "semantic archive", !.keep = split_entries(semantic).keep,
                            !.drop = split_entries(semantic).drop])
    /\ UNCHANGED <<day, noteVars, logVars, semanticVars, entries, overrun, torn>>
SemanticArchived(c) ==
    /\ op[c].at = "semantic archive"
    /\ semanticArchive' = semanticArchive \o op[c].drop
    /\ Goto(c, [op[c] EXCEPT !.at = "semantic"])
    /\ UNCHANGED <<day, noteVars, logVars, semantic, commands, entries, overrun, torn>>
KeepSemantic(c) ==
    /\ op[c].at = "semantic"
    /\ semantic' = op[c].keep
    /\ Done(c)
    /\ UNCHANGED <<day, noteVars, logVars, semanticArchive, commands, entries, overrun, torn>>

-----------------------------------------------------------------------------
(* The end of the session, wherever its commands stand.  An archive is written in *)
(* place, so a command killed while it writes one may leave it empty.            *)
At(place) == \E c \in Callers : op[c].at = place
KillCommands ==
    /\ Command /\ \E c \in Callers : op[c].at # "free"
    /\ op' = [c \in Callers |-> Free]
    /\ \E tears \in {FALSE} \union (IF At("archive") \/ At("semantic archive") THEN {TRUE} ELSE {}) :
          /\ torn' = (torn \/ tears)
          /\ archived' = IF tears /\ At("archive") THEN [archived EXCEPT ![day] = << >>] ELSE archived
          /\ semanticArchive' = IF tears /\ At("semantic archive") THEN << >> ELSE semanticArchive
    /\ UNCHANGED <<day, noteVars, log, history, semantic, entries, overrun>>

(* The date is taken when a command starts to archive, so midnight is between commands. *)
NextDay ==
    /\ day < MaxDay /\ \A c \in Callers : op[c].at = "free"
    /\ day' = day + 1
    /\ UNCHANGED <<noteVars, logVars, semanticVars, op, commands, entries, overrun, torn>>

NotesNext ==
    \/ \E c \in Callers :
         \/ \E p \in Paths : Create(c, p) \/ Replace(c, p) \/ Snapshot(c, p) \/ Delete(c, p)
         \/ \E p, q \in Paths : Rename(c, p, q)
         \/ Replaced(c) \/ Crumb(c) \/ Decide(c) \/ Learn(c)
         \/ RotateRead(c) \/ Archive(c) \/ KeepLog(c) \/ KeepHistory(c)
         \/ SemanticRead(c) \/ SemanticArchived(c) \/ KeepSemantic(c)
    \/ KillCommands \/ NextDay

-----------------------------------------------------------------------------
(* resolve of a reference [log:<d>#<e>]: the live log, then the archive of the day. *)
resolve(d, e) == e \in Range(log) \/ e \in Range(archived[d])

(* Archive, never delete: every entry ever written to log.md or to a semantic *)
(* file resolves: it is still there or in its archives, wherever a rotation   *)
(* was killed and however two overlap.  Only an entry written while one held  *)
(* an older copy of the file can go, or be hit in an archive's own write.     *)
EntriesKept ==
    ~torn =>
        /\ \A e \in entries.log \ overrun.log : \E d \in Days : resolve(d, e)
        /\ entries.semantic \ overrun.semantic \subseteq Range(semantic) \union Range(semanticArchive)

(* A delete leaves the text in the day's archive, whatever else is done to the  *)
(* file and wherever the command is killed, until another delete of the path on *)
(* the same day.                                                                *)
DeletedKept ==
    \A x \in deleted :
        \/ trash[x[1]][x[2]] = x[3]
        \/ \E y \in deleted : y # x /\ y[1] = x[1] /\ y[2] = x[2]

(* The notebook's rule, archive and never delete, in its three kinds of file. *)
NothingDestroyed == EntriesKept /\ DeletedKept

NotesSpec == NotesInit /\ [][NotesNext]_notesVars
=============================================================================
