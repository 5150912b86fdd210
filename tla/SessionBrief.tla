---------------------------- MODULE SessionBrief ----------------------------
(***************************************************************************)
(* What a Director session is told before it starts: write_session_brief   *)
(* of run_agi_lab.sh writes session_brief.md, with the unread entries of   *)
(* the substrate changelog, and runs tools/brief_assembler.py, which cuts  *)
(* context_brief.md at a cap and whose failure the runner ignores.  The    *)
(* orchestrator, the operator, the roles and the last session change what  *)
(* both read.                                                              *)
(*                                                                         *)
(* Sizes are in units of which BriefCap are 30 KB; the text of a section is     *)
(* left out.  A time is a minute, of the clock and of the file times.      *)
(***************************************************************************)
EXTENDS Integers, Sequences, FiniteSets, SequencesExt

CONSTANTS
    BriefCap,            \* the 30 KB: one unit of it is kept free for the line that says the brief was cut,
                         \* and the correction and the notice take one each
    MaxDays, WarnPct,       \* the active program's budget, and its warn_at_pct in percent
    NotesWindow,    \* the 30 minutes in which a change of user_notes.md is new
    Reasons,        \* what DIRECTOR_REDISPATCH_REASON may be
    MaxMinute, MaxChanges   \* bounds on the clock, and on what is changed

ASSUME SessionBriefAssumption ==
    /\ {BriefCap, MaxDays, WarnPct, NotesWindow, MaxMinute, MaxChanges} \subseteq Nat /\ BriefCap >= 3
    /\ "" \notin Reasons

VARIABLES
    minute,
    lab,            \* the files read: times (0: no file) of log, index and notes; alive; exit reason;
                    \* program ("" if none is named), opened, override, block: its size; pending: claims
    changelog,      \* the substrate changelog: the minute of each entry
    cursor,         \* substrate_changelog_cursor, 0 if there is none
    brief,          \* session_brief.md: [latest, unread]
    context,        \* context_brief.md: [reason, type, notice, claims, sections: the whole ones]
    session,        \* the session that runs: [on, reason]
    changes,
    failed,         \* ghost: the assembler failed for this session
    seen            \* ghost: the entries a session has read

briefVars == <<minute, lab, changelog, cursor, brief, context, session, changes, failed, seen>>

BriefInit ==
    /\ minute = 1 /\ changelog = << >> /\ cursor = 0
    /\ lab = [log |-> 1, index |-> 0, notes |-> 0, alive |-> FALSE, exit |-> "", program |-> "p",
              opened |-> 1, override |-> FALSE, block |-> 1, pending |-> 0]
    /\ brief = [latest |-> 0, unread |-> {}]
    /\ context = [reason |-> "", type |-> "", notice |-> "", claims |-> 0, sections |-> {}]
    /\ session = [on |-> FALSE, reason |-> ""] /\ changes = 0 /\ failed = FALSE /\ seen = {}

Change == changes < MaxChanges /\ changes' = changes + 1

-----------------------------------------------------------------------------
(* brief_assembler.py. *)

classify_session ==
    IF ~ lab.alive /\ lab.log > 0 /\ lab.index > lab.log THEN "phase-transition"
    ELSE IF lab.notes > 0 /\ minute - lab.notes < NotesWindow THEN "user-action"
    ELSE IF lab.exit \notin {"", "GRACEFUL_CHECKPOINT"} THEN "post-failure"
    ELSE "routine-monitor"

(* A day is a minute here.  An extension on file turns the tripwire into a warning. *)
_check_program_budget ==
    LET days == minute - lab.opened
        spent == IF MaxDays > 0 THEN 100 * days ELSE 0 IN
    IF lab.program = "" THEN ""
    ELSE IF spent >= 100 * MaxDays /\ ~ lab.override THEN "tripwire"
    ELSE IF spent >= WarnPct * MaxDays THEN "warning"
    ELSE ""

_build_correction_prompt(reason) == [name |-> "correction", size |-> IF reason = "" THEN 0 ELSE 1]
Notice == [name |-> "budget", size |-> IF _check_program_budget = "" THEN 0 ELSE 1]
_pending_calibration_section == [name |-> "calibration", size |-> lab.pending]
Program == [name |-> "program", size |-> lab.block]
State == [name |-> "state", size |-> 1]     \* the sections of the files that are listed or quoted

\* Before Sections, a mutant with the order that the comment above the calibration nudge warns of.
ProgramFirst(reason) == <<Program, _build_correction_prompt(reason), Notice, _pending_calibration_section, State>>
Sections(reason) == <<_build_correction_prompt(reason), Notice, _pending_calibration_section, Program, State>>

SizeTo(sections, k) ==
    LET to[n \in 0 .. Len(sections)] == IF n = 0 THEN 0 ELSE to[n - 1] + sections[n].size IN to[k]
assemble_brief(reason) ==
    LET sections == Sections(reason)
        room == IF SizeTo(sections, Len(sections)) > BriefCap THEN BriefCap - 1 ELSE BriefCap IN
    [reason |-> reason, type |-> classify_session, notice |-> _check_program_budget, claims |-> lab.pending,
     sections |-> {sections[k].name : k \in {k \in 1 .. Len(sections) : SizeTo(sections, k) <= room}}]

-----------------------------------------------------------------------------
(* write_session_brief, and the session that starts then; a failure of the assembler *)
(* leaves the brief of an earlier session, and an interrupted write leaves none of it.*)

Newest(s) == Max({0} \union Range(s))
Unread == {i \in 1 .. Len(changelog) : changelog[i] > cursor}
write_session_brief(reason) ==
    /\ ~ session.on
    /\ session' = [on |-> TRUE, reason |-> reason]
    /\ brief' = [latest |-> Newest(changelog), unread |-> Unread]
    /\ lab' = [lab EXCEPT !.exit = ""]      \* the runner removes session_exit.md before it spawns
    /\ \/ context' = assemble_brief(reason) /\ failed' = FALSE /\ changes' = changes
       \/ /\ Change /\ failed' = TRUE
          /\ \/ context' = context
             \/ context' = [context EXCEPT !.sections = {}]
    /\ UNCHANGED <<minute, changelog, cursor, seen>>

(* The session reads the changelog when its brief says that there is something unread, *)
(* and sets the cursor to the time that the brief gave it.                             *)
AdvanceCursor ==
    /\ session.on /\ brief.unread # {} /\ cursor # brief.latest
    /\ cursor' = brief.latest /\ seen' = seen \union (1 .. Len(changelog))
    /\ UNCHANGED <<minute, lab, changelog, brief, context, session, changes, failed>>

EndSession(reason) ==
    /\ session.on /\ session' = [on |-> FALSE, reason |-> ""]
    /\ \E log \in {lab.log, minute} : lab' = [lab EXCEPT !.exit = reason, !.log = log]
    /\ UNCHANGED <<minute, changelog, cursor, brief, context, changes, failed, seen>>

-----------------------------------------------------------------------------
(* The others. *)

Becomes(next) ==
    /\ Change /\ lab' = next /\ lab' # lab
    /\ UNCHANGED <<minute, changelog, cursor, brief, context, session, failed, seen>>
Orchestrator ==
    \/ Becomes([lab EXCEPT !.alive = ~ @])
    \/ lab.alive /\ Becomes([lab EXCEPT !.index = minute])
Operator ==
    \/ Becomes([lab EXCEPT !.notes = minute])
    \/ Becomes([lab EXCEPT !.override = TRUE])
    \/ Becomes([lab EXCEPT !.program = IF @ = "" THEN "p" ELSE "", !.opened = minute])
Roles ==
    \/ Becomes([lab EXCEPT !.block = BriefCap])
    \/ Becomes([lab EXCEPT !.pending = @ + 1])
    \/ lab.pending > 0 /\ Becomes([lab EXCEPT !.pending = @ - 1])

Substrate ==
    /\ Change /\ changelog' = Append(changelog, minute)
    /\ UNCHANGED <<minute, lab, cursor, brief, context, session, failed, seen>>
Minute ==
    /\ minute < MaxMinute /\ minute' = minute + 1
    /\ UNCHANGED <<lab, changelog, cursor, brief, context, session, changes, failed, seen>>

BriefNext ==
    \/ \E reason \in Reasons \union {""} : write_session_brief(reason)
    \/ \E reason \in {"", "GRACEFUL_CHECKPOINT", "CATASTROPHIC"} : EndSession(reason)
    \/ AdvanceCursor \/ Orchestrator \/ Operator \/ Roles \/ Substrate \/ Minute

-----------------------------------------------------------------------------
(* A session that the runner forced for a reason has a brief with the whole of the    *)
(* correction for that reason, and whoever starts is told of a budget that is spent   *)
(* and of the claims that are pending, however long the program's block has grown;    *)
(* only a failed assembler, or claims enough to fill the brief, can keep it from it.  *)
(* No entry of the changelog is passed over: one that no session has read is counted  *)
(* in the next brief, unless it came in the minute that the cursor names.             *)
SessionIsTold ==
    /\ session.on /\ ~ failed =>
        /\ context.reason = session.reason
        /\ context.reason # "" => "correction" \in context.sections
        /\ context.notice # "" => "budget" \in context.sections
        /\ context.claims + 3 <= BriefCap => "calibration" \in context.sections
    /\ \A i \in 1 .. Len(changelog) : i \in seen \/ i \in Unread \/ changelog[i] = cursor

BriefSpec == BriefInit /\ [][BriefNext]_briefVars
=============================================================================
