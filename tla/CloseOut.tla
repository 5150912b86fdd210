------------------------------ MODULE CloseOut ------------------------------
(***************************************************************************)
(* tools/post_director.py: the close-out the runner performs after every   *)
(* Director session, one step per effect, so that it can be cut short      *)
(* between any two of them and run again over the same session_exit.md.    *)
(*                                                                         *)
(* The runner serialises its callers, so each queue operation is one step  *)
(* here: WorkQueueProofs shows the file-level queue implements QueueSpec   *)
(* under that discipline.  The Director and the operator are the           *)
(* environment: what a session writes into session_exit.md is free.        *)
(***************************************************************************)
EXTENDS Naturals, FiniteSets

CONSTANTS
    Items,            \* work items Directors are given
    Sids,             \* Director session ids
    NoItem,           \* null claimed_item_id or next_action
    Malformed,        \* a next_action that enqueue rejects with ValueError
    MaxRedispatch,    \* max_redispatches_per_session of agent_contracts.json
    MaxAborts,        \* bound on close-outs cut short
    MaxReruns,        \* bound on close-outs run again
    NewIdOnRedispatch, \* TRUE iff a redispatched Director may take a new session id
    ExtendingPatches, \* TRUE iff a current.md patch may keep its anchor (new contains old)
    CrossReferences   \* TRUE iff a log entry may name another session

(* Ids are deterministic: a session's diagnostic_review, and for a silent death *)
(* the diagnostic_review or session_recovery_review of the claimed item.        *)
Diagnostic(s) == <<"diagnostic", s>>
DeathDiagnostic(i) == <<"death_diagnostic", i>>
RecoveryReview(i) == <<"recovery_review", i>>

WorkIds == {<<"work", i>> : i \in Items} \cup {Diagnostic(s) : s \in Sids}
Ids == WorkIds \cup {DeathDiagnostic(i) : i \in WorkIds} \cup {RecoveryReview(i) : i \in WorkIds}

ASSUME CloseOutAssumption ==
    /\ NoItem \notin Ids /\ Malformed \notin Ids /\ NoItem # Malformed
    /\ MaxRedispatch \in Nat \ {0}
    /\ MaxAborts \in Nat /\ MaxReruns \in Nat
    /\ {NewIdOnRedispatch, ExtendingPatches, CrossReferences} \subseteq BOOLEAN

(* Log entries are headed by a session id, or by a synthetic one per silent death. *)
Recovered(i) == <<"D-RECOVERY", i>>
FailedDeath(i) == <<"D-FAILED", i>>
Headings == Sids \cup {Recovered(i) : i \in WorkIds} \cup {FailedDeath(i) : i \in WorkIds}

Statuses == {"success", "partial", "failure", "no_op", "unknown"}
NoExit == [status |-> "absent"]
Legacy == [status |-> "legacy"]

(* A parsed session_exit.md.  names: the session ids its log entry mentions;   *)
(* keeps: its patch's new text still contains the old one.                     *)
Exits == [status : Statuses, sid : Sids, item : WorkIds \cup {NoItem},
          next : WorkIds \cup {NoItem, Malformed}, programComplete : BOOLEAN,
          names : SUBSET Sids, keeps : BOOLEAN]

VARIABLES
    pending, claimed, completed, failed,   \* the queue's four places
    log,        \* entries in log.md, by heading
    mentioned,  \* session ids that occur anywhere in log.md
    applied,    \* how often a session's patch has been applied to current.md
    anchored,   \* sessions whose patch anchor is (still) in current.md
    counter,    \* director_redispatch_count.json
    flag,       \* the session session_exit_redispatch_pending.flag names, or NoItem
    review,     \* operator_review_pending.md exists
    exit,       \* data/session_exit.md
    pc,         \* where the runner is
    claim,      \* the claim a silent-death branch works on
    used,       \* session ids already taken
    answers,    \* ghost: the redispatch this session answers, or NoItem
    streak,     \* ghost: redispatches in a row, each after a rejected exit
    cut,        \* ghost: the last close-out over this exit was cut short
    before,     \* ghost: the effects when the exit was last settled
    aborts, reruns

queue == <<pending, claimed, completed, failed>>
memory == <<log, mentioned, applied, anchored>>
gate == <<counter, flag, review>>
ghosts == <<answers, streak, cut, before, aborts, reruns>>
vars == <<queue, memory, gate, exit, pc, claim, used, ghosts>>

Effects == <<queue, memory>>
Unsettled == <<>>

Init ==
    /\ pending \in {S \in SUBSET {<<"work", i>> : i \in Items} : S # {}}
    /\ claimed = {} /\ completed = {} /\ failed = {}
    /\ log = [h \in Headings |-> 0] /\ mentioned = {}
    /\ applied = [s \in Sids |-> 0] /\ anchored = Sids
    /\ counter = [sid |-> "none", count |-> 0]
    /\ flag = NoItem /\ review = FALSE
    /\ exit = NoExit
    /\ pc = "idle"
    /\ claim = NoItem
    /\ used = {}
    /\ answers = NoItem /\ streak = 0 /\ cut = FALSE /\ before = Unsettled
    /\ aborts = 0 /\ reruns = 0
-----------------------------------------------------------------------------
(* The queue operations, each whole. *)
Known == pending \cup claimed \cup completed

(* Mutant: enqueue as it was before the P-D417 fix. *)
EnqueueIgnoringCompleted(i) ==
    /\ pending' = IF i \in pending \cup claimed THEN pending ELSE pending \cup {i}
    /\ UNCHANGED <<claimed, completed, failed>>

Enqueue(i) ==
    /\ pending' = IF i \in Known THEN pending ELSE pending \cup {i}
    /\ UNCHANGED <<claimed, completed, failed>>

Complete(i) ==
    /\ claimed' = claimed \ {i}
    /\ completed' = IF i \in claimed THEN completed \cup {i} ELSE completed
    /\ UNCHANGED <<pending, failed>>

Fail(i) ==
    /\ claimed' = claimed \ {i}
    /\ failed' = IF i \in claimed THEN failed \cup {i} ELSE failed
    /\ UNCHANGED <<pending, completed>>

Goto(label) == pc' = label
-----------------------------------------------------------------------------
(* The environment: the scanner and the Director enqueue, a stale claim is      *)
(* reclaimed at the top of the loop, an operator clears the review.             *)
EnqueueWork(i) ==
    /\ pc \in {"idle", "session"}
    /\ <<"work", i>> \notin Known
    /\ Enqueue(<<"work", i>>)
    /\ before' = Unsettled
    /\ UNCHANGED <<memory, gate, exit, pc, claim, used, answers, streak, cut, aborts, reruns>>

Reclaim ==
    /\ pc = "idle" /\ ~review /\ claimed # {}
    /\ pending' = pending \cup claimed /\ claimed' = {}
    /\ before' = Unsettled
    /\ UNCHANGED <<completed, failed, memory, gate, exit, pc, claim, used, answers, streak,
                   cut, aborts, reruns>>

OperatorClears ==
    /\ pc = "idle" /\ review
    /\ review' = FALSE
    /\ \/ counter' = [sid |-> "none", count |-> 0]
       \/ UNCHANGED counter
    /\ streak' = 0
    /\ UNCHANGED <<queue, memory, flag, exit, pc, claim, used, answers, cut, before,
                   aborts, reruns>>

(* The runner spawns a Director: it consumes the redispatch flag and removes    *)
(* the previous session_exit.md.  It never does while a review is pending.      *)
SpawnDirector ==
    /\ pc = "idle" /\ ~review
    /\ exit' = NoExit /\ cut' = FALSE /\ before' = Unsettled
    /\ flag' = NoItem
    /\ answers' = flag
    /\ streak' = IF flag # NoItem THEN streak + 1 ELSE 0
    /\ Goto("session")
    /\ UNCHANGED <<queue, memory, counter, review, claim, used, aborts, reruns>>

DirectorClaims(i) ==
    /\ pc = "session" /\ claimed = {} /\ i \in pending \cap WorkIds
    /\ pending' = pending \ {i} /\ claimed' = {i}
    /\ UNCHANGED <<completed, failed, memory, gate, exit, pc, claim, used, ghosts>>

SessionIds ==
    IF answers # NoItem /\ ~NewIdOnRedispatch THEN {answers}
    ELSE Sids \ used

(* The session ends with an exit file, an unreadable one, or none.              *)
DirectorExits ==
    /\ pc = "session"
    /\ \/ \E sid \in SessionIds, status \in Statuses, item \in claimed \cup {NoItem},
             next \in {<<"work", i>> : i \in Items} \cup {NoItem, Malformed},
             complete, keeps \in BOOLEAN, other \in SUBSET Sids :
             /\ keeps => ExtendingPatches
             /\ other # {} => CrossReferences
             /\ exit' = [status |-> status, sid |-> sid, item |-> item, next |-> next,
                         programComplete |-> complete, names |-> {sid} \cup other, keeps |-> keeps]
             /\ used' = used \cup {sid}
       \/ exit' = Legacy /\ UNCHANGED used
       \/ exit' = NoExit /\ UNCHANGED used
    /\ Goto("read")
    /\ UNCHANGED <<queue, memory, gate, claim, ghosts>>
-----------------------------------------------------------------------------
(* The close-out.  It ends in "done", where its promises are stated; Finished   *)
(* is the runner going on to its next iteration.                                *)
Parsed == exit.status \in Statuses

(* _validate_session_exit_schema; the Director's contract asks for the same.    *)
Accepted ==
    /\ exit.status \in {"success", "partial", "failure", "no_op"}
    /\ exit.status \in {"success", "partial"} => exit.next # NoItem \/ exit.programComplete

(* main: choose the branch. *)
Decide ==
    /\ pc = "read"
    /\ \/ exit = Legacy /\ Goto("done") /\ UNCHANGED claim
       \/ exit = NoExit /\ claimed = {} /\ Goto("done") /\ UNCHANGED claim
       \/ /\ exit = NoExit /\ claimed # {}
          /\ claim' \in claimed
          /\ Goto("recover_log") \/ Goto("death_log")   \* a fresh deliverable on disk, or not
       \/ Parsed /\ Accepted /\ Goto("log") /\ UNCHANGED claim
       \/ Parsed /\ ~Accepted /\ Goto("count") /\ UNCHANGED claim
    /\ streak' = IF Parsed /\ ~Accepted THEN streak ELSE 0
    /\ UNCHANGED <<queue, memory, gate, exit, used, answers, cut, before, aborts, reruns>>

(* _append_log_idempotent: skipped when the heading occurs anywhere in log.md.  *)
(* (The mutant does not look.)                                                  *)
AppendLogAlways(heading, names) ==
    /\ log' = [log EXCEPT ![heading] = @ + 1]
    /\ mentioned' = mentioned \cup names

AppendLog(heading, names) ==
    IF heading \in mentioned THEN UNCHANGED <<log, mentioned>>
    ELSE /\ log' = [log EXCEPT ![heading] = @ + 1]
         /\ mentioned' = mentioned \cup names

WriteLog ==
    /\ pc = "log"
    /\ AppendLog(exit.sid, exit.names)
    /\ CASE exit.status \in {"success", "partial"} -> Goto("patch")
         [] exit.status = "failure" -> Goto("fail")
         [] exit.status = "no_op" -> Goto("done")
    /\ UNCHANGED <<queue, applied, anchored, gate, exit, claim, used, ghosts>>

(* _apply_current_patch: applied whenever the anchor is found.  (The mutant     *)
(* applies it whether or not the anchor is there.)                              *)
PatchAlways ==
    /\ pc = "patch"
    /\ applied' = [applied EXCEPT ![exit.sid] = @ + 1]
    /\ Goto("complete")
    /\ UNCHANGED <<queue, log, mentioned, anchored, gate, exit, claim, used, ghosts>>

Patch ==
    /\ pc = "patch"
    /\ IF exit.sid \in anchored
       THEN /\ applied' = [applied EXCEPT ![exit.sid] = @ + 1]
            /\ anchored' = IF exit.keeps THEN anchored ELSE anchored \ {exit.sid}
       ELSE UNCHANGED <<applied, anchored>>
    /\ Goto("complete")
    /\ UNCHANGED <<queue, log, mentioned, gate, exit, claim, used, ghosts>>

(* Mutant: an exit without a claim ends here.                                   *)
CompleteClaimOrStop ==
    /\ pc = "complete"
    /\ IF exit.item # NoItem /\ exit.item \notin completed
       THEN /\ Complete(exit.item)
            /\ Goto(IF exit.status = "success" /\ exit.next # NoItem THEN "next" ELSE "done")
       ELSE UNCHANGED queue /\ Goto("done")
    /\ UNCHANGED <<memory, gate, exit, claim, used, ghosts>>

CompleteClaim ==
    /\ pc = "complete"
    /\ IF exit.item # NoItem /\ exit.item \notin completed
       THEN Complete(exit.item)
       ELSE UNCHANGED queue
    /\ Goto(IF exit.status = "success" /\ exit.next # NoItem THEN "next" ELSE "done")
    /\ UNCHANGED <<memory, gate, exit, claim, used, ghosts>>

(* A malformed next_action raises; main swallows the exception and ends.        *)
EnqueueNext ==
    /\ pc = "next"
    /\ IF exit.next = Malformed THEN UNCHANGED queue ELSE Enqueue(exit.next)
    /\ Goto("done")
    /\ UNCHANGED <<memory, gate, exit, claim, used, ghosts>>

FailClaim ==
    /\ pc = "fail"
    /\ IF exit.item # NoItem /\ exit.item \notin completed \cup failed
       THEN Fail(exit.item)
       ELSE UNCHANGED queue
    /\ Goto("diagnose")
    /\ UNCHANGED <<memory, gate, exit, claim, used, ghosts>>

EnqueueDiagnostic ==
    /\ pc = "diagnose"
    /\ IF Diagnostic(exit.sid) \in pending \cup completed \cup failed
       THEN UNCHANGED queue
       ELSE Enqueue(Diagnostic(exit.sid))
    /\ Goto("done")
    /\ UNCHANGED <<memory, gate, exit, claim, used, ghosts>>
-----------------------------------------------------------------------------
(* A rejected exit: count it, then flag a redispatch or, at the ceiling, ask    *)
(* the operator and drop the flag.                                              *)
CountViolation ==
    /\ pc = "count"
    /\ counter' = [sid |-> exit.sid,
                   count |-> IF counter.sid = exit.sid THEN counter.count + 1 ELSE 1]
    /\ Goto(IF counter'.count >= MaxRedispatch THEN "review" ELSE "flag")
    /\ UNCHANGED <<queue, memory, flag, review, exit, claim, used, ghosts>>

FlagRedispatch ==
    /\ pc = "flag"
    /\ flag' = exit.sid
    /\ Goto("done")
    /\ UNCHANGED <<queue, memory, counter, review, exit, claim, used, ghosts>>

AskOperator ==
    /\ pc = "review"
    /\ review' = TRUE
    /\ Goto("unflag")
    /\ UNCHANGED <<queue, memory, counter, flag, exit, claim, used, ghosts>>

(* Mutant: the flag an earlier run left stays. *)
LeaveFlag ==
    /\ pc = "unflag"
    /\ Goto("done")
    /\ UNCHANGED <<queue, memory, gate, exit, claim, used, ghosts>>

DropFlag ==
    /\ pc = "unflag"
    /\ flag' = NoItem
    /\ Goto("done")
    /\ UNCHANGED <<queue, memory, counter, review, exit, claim, used, ghosts>>
-----------------------------------------------------------------------------
(* Silent death with a deliverable on disk: log, complete, follow-on, review.   *)
RecoverLog ==
    /\ pc = "recover_log"
    /\ AppendLog(Recovered(claim), {Recovered(claim)})
    /\ Goto("recover_complete")
    /\ UNCHANGED <<queue, applied, anchored, gate, exit, claim, used, ghosts>>

RecoverComplete ==
    /\ pc = "recover_complete"
    /\ IF claim \notin completed THEN Complete(claim) ELSE UNCHANGED queue
    /\ Goto("recover_next")
    /\ UNCHANGED <<memory, gate, exit, claim, used, ghosts>>

(* The handler's next_action_template, when it has one. *)
RecoverNext ==
    /\ pc = "recover_next"
    /\ \/ \E i \in Items : Enqueue(<<"work", i>>)
       \/ UNCHANGED queue
    /\ Goto("recover_review")
    /\ UNCHANGED <<memory, gate, exit, claim, used, ghosts>>

RecoverReview ==
    /\ pc = "recover_review"
    /\ Enqueue(RecoveryReview(claim))
    /\ Goto("done")
    /\ UNCHANGED <<memory, gate, exit, claim, used, ghosts>>

(* Silent death without one: log, fail, diagnostic. *)
DeathLog ==
    /\ pc = "death_log"
    /\ AppendLog(FailedDeath(claim), {FailedDeath(claim)})
    /\ Goto("death_fail")
    /\ UNCHANGED <<queue, applied, anchored, gate, exit, claim, used, ghosts>>

DeathFail ==
    /\ pc = "death_fail"
    /\ IF claim \notin completed \cup failed THEN Fail(claim) ELSE UNCHANGED queue
    /\ Goto("death_diagnose")
    /\ UNCHANGED <<memory, gate, exit, claim, used, ghosts>>

(* Mutant: the diagnostic is enqueued only for a claim that was just failed, so *)
(* a death after an earlier failure goes unseen.                                *)
DeathDiagnoseIfReleased ==
    /\ pc = "death_diagnose"
    /\ IF claim \in claimed THEN UNCHANGED queue ELSE Enqueue(DeathDiagnostic(claim))
    /\ Goto("done")
    /\ UNCHANGED <<memory, gate, exit, claim, used, ghosts>>

DeathDiagnose ==
    /\ pc = "death_diagnose"
    /\ Enqueue(DeathDiagnostic(claim))
    /\ Goto("done")
    /\ UNCHANGED <<memory, gate, exit, claim, used, ghosts>>
-----------------------------------------------------------------------------
Finished ==
    /\ pc = "done"
    /\ before' = IF cut \/ (Parsed /\ ~Accepted) THEN Unsettled ELSE Effects
    /\ claim' = NoItem
    /\ Goto("idle")
    /\ UNCHANGED <<queue, memory, gate, exit, used, answers, streak, cut, aborts, reruns>>

(* Cut short: killed, or an exception (log.md unreadable, the disk full) that   *)
(* main swallows; the remaining effects are not performed.                      *)
CutShort ==
    /\ pc \notin {"idle", "session", "done"}
    /\ aborts < MaxAborts
    /\ aborts' = aborts + 1
    /\ cut' = TRUE /\ before' = Unsettled
    /\ claim' = NoItem
    /\ Goto("idle")
    /\ UNCHANGED <<queue, memory, gate, exit, used, answers, streak, reruns>>

(* post_director.py run again over the session_exit.md that is still there.     *)
RunAgain ==
    /\ pc = "idle" /\ exit # NoExit
    /\ reruns < MaxReruns
    /\ reruns' = reruns + 1
    /\ cut' = FALSE
    /\ Goto("read")
    /\ UNCHANGED <<queue, memory, gate, exit, claim, used, answers, streak, before, aborts>>

Structured == WriteLog \/ Patch \/ CompleteClaim \/ EnqueueNext \/ FailClaim \/ EnqueueDiagnostic
Rejected == CountViolation \/ FlagRedispatch \/ AskOperator \/ DropFlag
SilentDeath == \/ RecoverLog \/ RecoverComplete \/ RecoverNext \/ RecoverReview
               \/ DeathLog \/ DeathFail \/ DeathDiagnose

Next == \/ \E i \in Items : EnqueueWork(i)
        \/ Reclaim \/ OperatorClears \/ SpawnDirector
        \/ \E i \in WorkIds : DirectorClaims(i)
        \/ DirectorExits
        \/ Decide \/ Structured \/ Rejected \/ SilentDeath
        \/ Finished \/ CutShort \/ RunAgain

Spec == Init /\ [][Next]_vars
-----------------------------------------------------------------------------
TypeOK ==
    /\ pending \subseteq Ids /\ claimed \subseteq WorkIds
    /\ completed \subseteq WorkIds /\ failed \subseteq WorkIds
    /\ \A h \in Headings : log[h] \in Nat
    /\ mentioned \subseteq Headings
    /\ DOMAIN applied = Sids /\ anchored \subseteq Sids
    /\ counter.sid \in Sids \cup {"none"} /\ counter.count \in Nat
    /\ flag \in Sids \cup {NoItem} /\ review \in BOOLEAN
    /\ exit \in {NoExit, Legacy} \/ exit \in Exits
    /\ claim \in WorkIds \cup {NoItem}
    /\ used \subseteq Sids

(* What holds where a close-out has run to its end. *)
Ended == pc = "done" /\ ~cut

(* The claim a success or partial exit names is closed, whatever happened to    *)
(* the item in earlier sessions (finalize_from_structured).                     *)
DoneReleasesClaim ==
    Ended /\ Parsed /\ Accepted /\ exit.status \in {"success", "partial"}
        => exit.item \notin claimed

(* "failure: append log, fail the claim, enqueue diagnostic_review"             *)
(* (finalize_from_structured): a failed session's claim is closed as well.      *)
FailureReleasesClaim ==
    Ended /\ Parsed /\ exit.status = "failure" => exit.item \notin claimed

(* A success exit's well-formed next_action is in the queue, or has run before, *)
(* when its close-out ends: the critical path is not dropped.                   *)
FollowOnKept ==
    Ended /\ exit.status = "success" /\ exit.next \in Ids => exit.next \in Known

(* A session that reports failure leaves a diagnostic_review somewhere, and a   *)
(* silent death one of its two reviews, even when the item had failed before.   *)
FailureIsDiagnosed ==
    /\ Ended /\ exit.status = "failure" => Diagnostic(exit.sid) \in Known \cup failed
    /\ Ended /\ claim # NoItem =>
          Known \cap {DeathDiagnostic(claim), RecoveryReview(claim)} # {}

(* However often a close-out is cut short and run again, a session has at most  *)
(* one entry in log.md.                                                         *)
LoggedOnce == \A h \in Headings : log[h] <= 1

(* Running the close-out again over an exit it has settled, with nothing in     *)
(* between, changes neither the queue nor the memory files ("Idempotent:        *)
(* re-running over the same session_exit dict is a no-op").                     *)
RerunIsNoOp == Ended /\ before # Unsettled /\ Parsed /\ Accepted => Effects = before

(* At most MaxRedispatch - 1 redispatches follow one another before the runner  *)
(* stops for the operator ("Max 3 redispatches per session_exit"); a close-out  *)
(* cut short may cost one more.                                                 *)
RedispatchBounded == streak < MaxRedispatch + aborts

(* While the operator's review is pending no Director is spawned, and unless    *)
(* the close-out was cut between its last two effects no flag waits to force    *)
(* one once the review is cleared (the ceiling branch of main).                 *)
ReviewStopsRedispatch ==
    review /\ pc \in {"idle", "session"} => pc = "idle" /\ (flag = NoItem \/ cut)

(* A Director's narrative reaches log.md when its exit is accepted.             *)
NarrativeKept == Ended /\ Parsed /\ Accepted => log[exit.sid] = 1

(* The queue as its clients see it: the close-out's operations are those of     *)
(* QueueSpec, so no item completed once is ever worked again.                   *)
Place == [i \in Ids |->
    IF i \in claimed THEN "claimed"
    ELSE IF i \in pending THEN "pending"
    ELSE IF i \in completed THEN "completed"
    ELSE IF i \in failed THEN "failed"
    ELSE "absent"]

QueueView == INSTANCE QueueSpec WITH where <- Place, Items <- Ids, MayLose <- FALSE
UsesQueueSpec == [][QueueView!Next]_Place

(* What ended is handed on: the claim of what is done goes, the next action of a *)
(* success comes, and a failure or a silent death leaves its review.             *)
EndIsHandedOn == TypeOK /\ DoneReleasesClaim /\ FollowOnKept /\ FailureIsDiagnosed

(* A session is narrated once: never lost, never twice, however often the       *)
(* close-out is cut and run again.                                              *)
NarratedOnce == LoggedOnce /\ NarrativeKept

(* The redispatches of one exit come to an end, and the end is an operator's.   *)
RedispatchEnds == RedispatchBounded /\ ReviewStopsRedispatch
=============================================================================
