----------------------------- MODULE RunnerLoop -----------------------------
(***************************************************************************)
(* The main loop of run_agi_lab.sh: the gates before a Director session,   *)
(* the session, its close-out, the sign-off gate and the dispatch on the   *)
(* exit reason.  post_director.py is one step here (CloseOut refines it)   *)
(* and each queue operation is one step (WorkQueue refines those).         *)
(*                                                                         *)
(* The Director, the operator, the clock and a kill of the runner are the  *)
(* environment.  The files outlive the runner; its shell variables do not. *)
(***************************************************************************)
EXTENDS Naturals

CONSTANTS
    Items,          \* work items
    NoItem,         \* a session_exit without claimed_item_id
    MaxRedispatch,  \* max_redispatches_per_session of agent_contracts.json
    MaxBlocks,      \* SIGNOFF_GATE_MAX_BLOCKS
    MaxFails,       \* MAX_CONSECUTIVE_FAILS
    MaxRestarts,    \* bound on kills of the runner
    MayWin          \* TRUE iff a session may write VICTORY or CATASTROPHIC

ASSUME RunnerAssumption ==
    /\ NoItem \notin Items
    /\ {MaxRedispatch, MaxBlocks, MaxFails} \subseteq Nat \ {0}
    /\ MaxRestarts \in Nat /\ MayWin \in BOOLEAN

VARIABLES
    at,          \* where the loop stands
    pending, claimed, completed, failed,   \* the queue's four places
    aged,        \* the claim is over 60 minutes old
    flag,        \* session_exit_redispatch_pending.flag: its violation_type
    counter,     \* the count in director_redispatch_count.json
    review,      \* operator_review_pending.md exists
    forced,      \* FORCE_SPAWN, with the flag it came from
    blocks,      \* SIGNOFF_GATE_BLOCKS
    fails,       \* CONSECUTIVE_FAILS
    exit,        \* the session_exit.md of the session that just ended
    reason,      \* EXIT_REASON
    streak,      \* ghost: blocked exits in a row since the operator last looked
    owes,        \* ghost: "closeout" and "gate", while the last exit still awaits them
    reenter,     \* ghost: the loop announced an immediate re-entry
    restarts

queue == <<pending, claimed, completed, failed, aged>>
gate == <<flag, counter, review>>
shell == <<forced, blocks, fails, reason>>
ghosts == <<streak, owes, reenter, restarts>>
vars == <<at, queue, gate, shell, exit, ghosts>>

Stages == {"top", "reclaim", "scan", "flag", "choose", "session", "stopcheck", "closeout",
           "followup", "reviewcheck", "classify", "signoff", "dispatch", "waiting", "stopped"}

NoExit == [status |-> "absent", item |-> NoItem]
Statuses == {"success", "partial", "failure", "no_op", "rejected", "legacy", "absent"}
Reasons == {"CHECKPOINT", "EVALUATOR_FAIL", "SIGNATURE_FORGERY", "RATE_LIMIT", "UNKNOWN"}
Flags == {"none", "schema", "signoff_gate"}

Init ==
    /\ at = "top"
    /\ pending \in SUBSET Items
    /\ claimed = {} /\ completed = {} /\ failed = {} /\ aged = {}
    /\ flag = "none" /\ counter = 0 /\ review = FALSE
    /\ forced = "none" /\ blocks = 0 /\ fails = 0 /\ reason = "UNKNOWN"
    /\ exit = NoExit
    /\ streak = 0 /\ owes = {} /\ reenter = FALSE /\ restarts = 0

Goto(stage) == at' = stage
Known == pending \cup claimed \cup completed
-----------------------------------------------------------------------------
(* Gate 2: while operator_review_pending.md exists the loop sleeps five         *)
(* minutes and starts over.                                                     *)
PassReviewGate ==
    /\ at = "top"
    /\ ~review
    /\ Goto("reclaim")
    /\ UNCHANGED <<queue, gate, shell, exit, ghosts>>

(* _run_reclaim_stale.  (The mutant is a runner without it.)                    *)
ReclaimSkipped ==
    /\ at = "reclaim"
    /\ Goto("scan")
    /\ UNCHANGED <<queue, gate, shell, exit, ghosts>>

ReclaimStale ==
    /\ at = "reclaim"
    /\ pending' = pending \cup aged
    /\ claimed' = claimed \ aged
    /\ aged' = {}
    /\ Goto("scan")
    /\ UNCHANGED <<completed, failed, gate, shell, exit, ghosts>>

(* enqueue, of nothing or of one item.  (The mutant forgets the completed.)     *)
MayEnqueueAny == UNCHANGED pending \/ \E i \in Items : pending' = pending \cup {i}

MayEnqueue == UNCHANGED pending \/ \E i \in Items \ Known : pending' = pending \cup {i}

(* _run_queue_scanner *)
Scan ==
    /\ at = "scan"
    /\ MayEnqueue
    /\ Goto("flag")
    /\ UNCHANGED <<claimed, completed, failed, aged, gate, shell, exit, ghosts>>

(* The redispatch flag is removed and becomes FORCE_SPAWN. *)
ConsumeFlag ==
    /\ at = "flag"
    /\ forced' = flag
    /\ flag' = "none"
    /\ Goto("choose")
    /\ UNCHANGED <<queue, counter, review, blocks, fails, reason, exit, ghosts>>

(* _queue_has_pending || FORCE_SPAWN; otherwise a recent session and a stable   *)
(* state skip the cycle, and anything else spawns.  (Whether the state is       *)
(* stable is the environment's choice.)  Two mutants forget one reason each.    *)
MustSpawnIfForced == forced # "none"

MustSpawnIfQueued == pending # {}

MustSpawn == pending # {} \/ forced # "none"

Spawn ==
    /\ at = "choose"
    /\ exit' = NoExit
    /\ owes' = {"closeout", "gate"} /\ reenter' = FALSE
    /\ Goto("session")
    /\ UNCHANGED <<queue, gate, shell, streak, restarts>>

SkipWhenStable ==
    /\ at = "choose"
    /\ ~MustSpawn
    /\ Goto("top")
    /\ UNCHANGED <<queue, gate, shell, exit, ghosts>>
-----------------------------------------------------------------------------
(* The session. *)
DirectorClaims(i) ==
    /\ at = "session"
    /\ claimed = {} /\ i \in pending
    /\ pending' = pending \ {i} /\ claimed' = {i}
    /\ UNCHANGED <<at, completed, failed, aged, gate, shell, exit, ghosts>>

DirectorEnqueues(i) ==
    /\ at = "session"
    /\ i \notin Known
    /\ pending' = pending \cup {i}
    /\ UNCHANGED <<at, claimed, completed, failed, aged, gate, shell, exit, ghosts>>

SessionEnds ==
    /\ at = "session"
    /\ \E status \in Statuses, item \in claimed \cup {NoItem} :
          exit' = [status |-> status, item |-> item]
    /\ Goto("stopcheck")
    /\ UNCHANGED <<queue, gate, shell, ghosts>>

(* VICTORY or CATASTROPHIC in the state file breaks the loop. *)
StopCheck ==
    /\ at = "stopcheck"
    /\ Goto("closeout") \/ (MayWin /\ Goto("stopped"))
    /\ UNCHANGED <<queue, gate, shell, exit, ghosts>>
-----------------------------------------------------------------------------
(* post_director.py, by status: what it does to the queue...                    *)
Release(S) == claimed' = claimed \ S /\ aged' = aged \ S

(* A claim whose item failed once before is not failed again, and stays. *)
FailClaim(S) ==
    LET new == (S \cap claimed) \ failed
    IN  Release(new) /\ failed' = failed \cup new

CompleteClaim(S) ==
    LET new == S \cap claimed
    IN  Release(new) /\ completed' = completed \cup new

CloseQueue ==
    \/ /\ exit.status \in {"success", "partial"}
       /\ CompleteClaim({exit.item}) /\ UNCHANGED failed
    \/ /\ exit.status = "failure"
       /\ FailClaim({exit.item}) /\ UNCHANGED completed
    \/ /\ exit.status \in {"no_op", "rejected", "legacy"}
       /\ UNCHANGED <<claimed, completed, failed, aged>>
    \/ /\ exit.status = "absent"
       /\ \/ CompleteClaim(claimed) /\ UNCHANGED failed
          \/ FailClaim(claimed) /\ UNCHANGED completed

(* ...and to the redispatch files.  A Director sent back for its exit file      *)
(* keeps its session id, so the counter goes on counting; at the ceiling the    *)
(* review is written and the flag removed.                                      *)
CloseGate ==
    IF exit.status # "rejected" THEN UNCHANGED gate
    ELSE /\ counter' = IF forced = "schema" THEN counter + 1 ELSE 1
         /\ flag' = IF counter' >= MaxRedispatch THEN "none" ELSE "schema"
         /\ review' = (counter' >= MaxRedispatch)

CloseOut ==
    /\ at = "closeout"
    /\ CloseQueue
    /\ CloseGate
    /\ owes' = owes \ {"closeout"}
    /\ Goto(IF exit.status \in {"success", "failure", "absent"} THEN "followup" ELSE "reviewcheck")
    /\ UNCHANGED <<pending, shell, exit, streak, reenter, restarts>>

(* The next_action, or the diagnostic_review or recovery review. *)
FollowUp ==
    /\ at = "followup"
    /\ MayEnqueue
    /\ Goto("reviewcheck")
    /\ UNCHANGED <<claimed, completed, failed, aged, gate, shell, exit, ghosts>>
-----------------------------------------------------------------------------
(* A review the close-out wrote ends the iteration here. *)
ReviewCheck ==
    /\ at = "reviewcheck"
    /\ Goto(IF review THEN "top" ELSE "classify")
    /\ UNCHANGED <<queue, gate, shell, exit, ghosts>>

(* EXIT_REASON, and the evaluator's veto of a checkpoint. *)
Classify ==
    /\ at = "classify"
    /\ reason' \in IF exit.status = "absent" THEN {"RATE_LIMIT", "UNKNOWN"}
                   ELSE Reasons \ {"SIGNATURE_FORGERY"}
    /\ reenter' = (reason' = "EVALUATOR_FAIL")
    /\ Goto("signoff")
    /\ UNCHANGED <<queue, gate, forced, blocks, fails, exit, streak, owes, restarts>>

(* _apply_signoff_gate, on a verdict that lets the exit through... *)
GatePasses ==
    /\ at = "signoff"
    /\ blocks' = 0
    /\ streak' = 0
    /\ owes' = owes \ {"gate"}
    /\ Goto("dispatch")
    /\ UNCHANGED <<queue, gate, forced, fails, reason, exit, reenter, restarts>>

(* ...and on one that does not: the reason is replaced unless it is a rate      *)
(* limit, the flag set unless one is there, and at the ceiling the operator     *)
(* asked and the flag removed.                                                  *)
AtCeilingLate(n) == n > MaxBlocks

AtCeiling(n) == n >= MaxBlocks

(* Mutant: a rate-limited exit raises no flag. *)
BlockFlagUnlessLimited ==
    IF AtCeiling(blocks + 1) THEN "none"
    ELSE IF flag = "none" /\ reason # "RATE_LIMIT" THEN "signoff_gate"
    ELSE flag

BlockFlag ==
    IF AtCeiling(blocks + 1) THEN "none"
    ELSE IF flag = "none" THEN "signoff_gate"
    ELSE flag

GateBlocks ==
    /\ at = "signoff"
    /\ blocks' = IF AtCeiling(blocks) THEN blocks ELSE blocks + 1   \* capped at the ceiling
    /\ reason' = IF reason = "RATE_LIMIT" THEN reason ELSE "SIGNATURE_FORGERY"
    /\ flag' = BlockFlag
    /\ review' = AtCeiling(blocks + 1)
    /\ streak' = streak + 1
    /\ owes' = owes \ {"gate"}
    /\ Goto("dispatch")
    /\ UNCHANGED <<queue, counter, forced, fails, exit, reenter, restarts>>

(* The case on EXIT_REASON.  Only an unknown exit within ten seconds counts as  *)
(* a failure; a rate limit and a short session wait for a probe to succeed.     *)
Dispatch ==
    /\ at = "dispatch"
    /\ \/ /\ reason \in {"CHECKPOINT", "EVALUATOR_FAIL", "SIGNATURE_FORGERY"}
          /\ fails' = 0 /\ Goto("top")
       \/ /\ reason = "RATE_LIMIT"
          /\ fails' = 0 /\ Goto("waiting")
       \/ /\ reason = "UNKNOWN"
          /\ \/ fails' = fails + 1 /\ Goto(IF fails' >= MaxFails THEN "stopped" ELSE "top")
             \/ fails' = 0 /\ (Goto("top") \/ Goto("waiting"))
    /\ UNCHANGED <<queue, gate, forced, blocks, reason, exit, ghosts>>

(* wait_for_rate_limit_reset and the probe_ready loop. *)
Resume ==
    /\ at = "waiting"
    /\ Goto("top")
    /\ UNCHANGED <<queue, gate, shell, exit, ghosts>>
-----------------------------------------------------------------------------
(* An hour passes; the operator clears a review; the runner is killed and       *)
(* started again, or started again after it stopped.                            *)
Age(i) ==
    /\ i \in claimed \ aged
    /\ aged' = aged \cup {i}
    /\ UNCHANGED <<at, pending, claimed, completed, failed, gate, shell, exit, ghosts>>

OperatorClears ==
    /\ at = "top" /\ review
    /\ review' = FALSE
    /\ counter' \in {0, counter}
    /\ streak' = 0
    /\ UNCHANGED <<at, queue, flag, shell, exit, owes, reenter, restarts>>

Restart ==
    /\ restarts < MaxRestarts
    /\ restarts' = restarts + 1
    /\ forced' = "none" /\ blocks' = 0 /\ fails' = 0 /\ reason' = "UNKNOWN"
    /\ reenter' = FALSE
    /\ Goto("top")
    /\ UNCHANGED <<queue, gate, exit, streak, owes>>

Before == PassReviewGate \/ ReclaimStale \/ Scan \/ ConsumeFlag \/ Spawn \/ SkipWhenStable
After == \/ StopCheck \/ CloseOut \/ FollowUp \/ ReviewCheck \/ Classify
         \/ GatePasses \/ GateBlocks \/ Dispatch

Next == \/ Before \/ After
        \/ \E i \in Items : DirectorClaims(i) \/ DirectorEnqueues(i) \/ Age(i)
        \/ SessionEnds \/ Resume \/ OperatorClears \/ Restart

Spec == Init /\ [][Next]_vars

(* The shell goes on to its next command.  A session ends, a rate limit is      *)
(* lifted and time passes: assumptions about what the loop waits for.  Nothing  *)
(* is assumed of the operator, and no choice the loop makes is fair.            *)
Fairness ==
    /\ WF_vars(Before \/ After)
    /\ WF_vars(SessionEnds)
    /\ WF_vars(Resume)
    /\ \A i \in Items : WF_vars(Age(i))

LiveSpec == Spec /\ Fairness
-----------------------------------------------------------------------------
TypeOK ==
    /\ at \in Stages
    /\ pending \subseteq Items /\ claimed \subseteq Items /\ aged \subseteq claimed
    /\ completed \subseteq Items /\ failed \subseteq Items
    /\ flag \in Flags /\ forced \in Flags /\ review \in BOOLEAN
    /\ counter \in 0..MaxRedispatch
    /\ blocks \in 0..MaxBlocks /\ fails \in 0..MaxFails
    /\ exit.status \in Statuses /\ exit.item \in Items \cup {NoItem}
    /\ reason \in Reasons
    /\ streak \in Nat /\ owes \subseteq {"closeout", "gate"} /\ reenter \in BOOLEAN
    /\ restarts \in 0..MaxRestarts

(* "Fail closed, and bounded": no session starts after MaxBlocks consecutive    *)
(* exits the sign-off gate blocked, until the operator has looked               *)
(* (_apply_signoff_gate and the review gates of the loop).  The count is a      *)
(* shell variable: every restart of the runner allows as many again.            *)
BlocksBounded == at = "session" => streak < MaxBlocks * (restarts + 1)

(* The two writers of the flag and the review (post_director and the sign-off   *)
(* gate) never leave a redispatch waiting behind an operator review.            *)
NoFlagBehindReview == at = "top" /\ review => flag = "none"

(* Blocked exits end, and end with the operator: the whole state is well-typed, *)
(* the sessions that cannot pass are counted, none is forced behind the review. *)
BlocksEnd == TypeOK /\ BlocksBounded /\ NoFlagBehindReview

(* A blocked exit is carried: while the runner lives, the session that follows  *)
(* it was forced by a redispatch flag, whatever the queue held, whatever reason *)
(* the exit gave and whichever of the two writers set the flag.                 *)
BlockCarried == at = "session" /\ streak > 0 /\ blocks > 0 => forced # "none"

(* The loop's queue operations are those of QueueSpec. *)
Place == [i \in Items |->
    IF i \in claimed THEN "claimed"
    ELSE IF i \in pending THEN "pending"
    ELSE IF i \in completed THEN "completed"
    ELSE IF i \in failed THEN "failed"
    ELSE "absent"]

QueueView == INSTANCE QueueSpec WITH where <- Place, MayLose <- FALSE
UsesQueueSpec == [][QueueView!Next]_Place

(* "Sign-off gate: runs on every exit": when the loop is back at the top the    *)
(* exit of the last session has been through the gate.                          *)
GatedEveryExit == at = "top" => "gate" \notin owes

(* "Runs unconditionally after every Director exit" (post_director.py): the     *)
(* runner never stops on a session it has not closed out.  It does after a      *)
(* session that leaves VICTORY or CATASTROPHIC (StopCheck).                     *)
ClosedOutEveryExit == at = "stopped" => "closeout" \notin owes

(* "force immediate re-entry so the Director addresses the FAIL on the next     *)
(* cycle": the cycle after an evaluator block is not skipped.  It is when the   *)
(* queue is empty and the state has not moved (Skip).                           *)
EvaluatorFailReenters == [][reenter /\ at = "choose" => at' # "top"]_vars

Idle == review \/ at = "stopped"

(* A claim never stays forever: its session's close-out releases it or, after   *)
(* an hour, reclaim_stale does, unless the loop waits for the operator.         *)
ClaimReleased == \A i \in Items : i \in claimed ~> i \notin claimed \/ Idle

(* "so the correction-prompt path is never silently lost": a redispatch flag    *)
(* leads to a forced session, or to the operator, also after a restart, once    *)
(* the runner is killed no more (ConsumeFlag and the spawn decision).           *)
FlagHonoured ==
    flag # "none" /\ restarts = MaxRestarts ~> (at = "session" /\ forced # "none") \/ Idle

(* Pending work leads to a session: a stable state never skips it forever.      *)
WorkServed == pending # {} ~> at = "session" \/ Idle
-----------------------------------------------------------------------------
(***************************************************************************)
(* The inductive invariants.                                               *)
(***************************************************************************)
(* The counters: MaxFails failures stop the loop, and a session forced by a     *)
(* schema flag is counted below the redispatch ceiling.                         *)
Counting ==
    /\ fails = MaxFails => at = "stopped"
    /\ flag = "schema" => counter < MaxRedispatch
    /\ at \in {"choose", "session", "stopcheck", "closeout"} /\ forced = "schema"
          => counter < MaxRedispatch

TypeInv == TypeOK /\ Counting

(* The gate: where a review can be pending, and how the ghost count of blocked  *)
(* exits relates to the shell's, which is capped and forgets at a restart.      *)
ReviewPlaces == {"top", "followup", "reviewcheck", "dispatch", "waiting", "stopped"}

Blocked == streak > 0 /\ blocks > 0

GateInv ==
    /\ review => at \in ReviewPlaces /\ flag = "none"
    /\ streak <= MaxBlocks * restarts + blocks
    /\ ~review => streak < MaxBlocks * (restarts + 1)
    /\ at \in {"top", "dispatch", "waiting"} /\ Blocked => flag # "none" \/ review
    /\ at \in {"reclaim", "scan", "flag"} /\ Blocked => flag # "none"
    /\ at \in {"choose", "session"} /\ Blocked => forced # "none"

(* The queue: an item is in one of the first three places, and one is claimed. *)
QueueInv ==
    /\ pending \cap claimed = {} /\ pending \cap completed = {} /\ claimed \cap completed = {}
    /\ \A i, j \in claimed : i = j
=============================================================================
