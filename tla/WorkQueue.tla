------------------------------ MODULE WorkQueue ------------------------------
(***************************************************************************)
(* tools/work_queue.py at the level of its file accesses.  Every operation *)
(* is a sequence of whole-file reads and renames on pending.jsonl,         *)
(* claimed.jsonl, completed/<day>.jsonl and failed/<day>.jsonl, with no    *)
(* lock.  A step here is one access; between two steps another process may *)
(* run, or this one may be killed.                                         *)
(*                                                                         *)
(* Which operations can be in progress together is the parameter Overlap:  *)
(* {} is the serial discipline of run_agi_lab.sh (the runner, the Director *)
(* and post_director take turns), AppendersOverlap adds an operator who    *)
(* enqueues by hand while post_director closes an item.                    *)
(***************************************************************************)
EXTENDS Naturals, FiniteSets

CONSTANTS Items,       \* item ids: compute_id is deterministic, so an id is the item
          Procs,       \* processes that call the module
          Overlap,     \* pairs of operations that may be in progress together
          MaxCrashes   \* bound on the kills considered

Kinds == {"enqueue", "claim", "complete", "fail", "reclaim"}

(* The operations that only append to pending, or never write it at all. *)
Appenders == {"enqueue", "complete", "fail"}

AppendersOverlap ==
    {<<"enqueue", k>> : k \in Appenders} \cup {<<k, "enqueue">> : k \in Appenders}

ASSUME ParamAssumption ==
    /\ Overlap \subseteq Kinds \X Kinds
    /\ MaxCrashes \in Nat

VARIABLES
    pending,    \* pending.jsonl: how many lines each id has
    claimed,    \* ids in claimed.jsonl
    aged,       \* claimed ids whose claimed_at is over timeout_min old
    completed,  \* ids in any completed/<day>.jsonl
    failed,     \* ids in any failed/<day>.jsonl
    pc,         \* where each process stands in the operation it runs
    hand,       \* the items that operation is about
    snapP,      \* what it read from pending.jsonl
    snapC,      \* what it read from claimed.jsonl
    owed,       \* ghost: appended to pending and not yet completed or failed
    grants,     \* ghost: successful claims of an item since it was last let go
    crashes     \* kills so far

files == <<pending, claimed, aged, completed, failed>>
vars == <<pending, claimed, aged, completed, failed, pc, hand, snapP, snapC,
          owed, grants, crashes>>

(* An operation's program counters name the access it makes next. *)
EnqueueSteps  == {"e_rclaimed", "e_rcompleted", "e_append"}
ClaimSteps    == {"c_rpending", "c_wpending", "c_wclaimed"}
CompleteSteps == {"d_write", "d_append"}
FailSteps     == {"f_write", "f_append"}
ReclaimSteps  == {"r_rpending", "r_wclaimed", "r_wpending"}

Steps == [enqueue |-> EnqueueSteps, claim |-> ClaimSteps, complete |-> CompleteSteps,
          fail |-> FailSteps, reclaim |-> ReclaimSteps]

PCs == {"idle"} \cup EnqueueSteps \cup ClaimSteps \cup CompleteSteps \cup FailSteps
          \cup ReclaimSteps

NoLines == [i \in Items |-> 0]
IsQueued(i) == pending[i] > 0
Queued == {i \in Items : IsQueued(i)}

(* Between the two writes of a move the item is in the process's memory only. *)
CarryPCs == {"c_wclaimed", "d_append", "f_append", "r_wpending"}
InTransit == {i \in Items : \E p \in Procs : pc[p] \in CarryPCs /\ i \in hand[p]}
Outstanding == Queued \cup claimed

Init ==
    /\ pending = NoLines
    /\ claimed = {} /\ aged = {} /\ completed = {} /\ failed = {}
    /\ pc = [p \in Procs |-> "idle"]
    /\ hand = [p \in Procs |-> {}]
    /\ snapP = [p \in Procs |-> NoLines]
    /\ snapC = [p \in Procs |-> {}]
    /\ owed = {}
    /\ grants = NoLines
    /\ crashes = 0
-----------------------------------------------------------------------------
(* Mutant: nothing keeps the callers apart. *)
MayStartAnytime(p, k) == pc[p] = "idle"

MayStart(p, k) ==
    /\ pc[p] = "idle"
    /\ \A q \in Procs, other \in Kinds :
          pc[q] \in Steps[other] => <<k, other>> \in Overlap

Goto(p, label) == pc' = [pc EXCEPT ![p] = label]

Return(p) ==
    /\ Goto(p, "idle")
    /\ hand' = [hand EXCEPT ![p] = {}]
    /\ snapP' = [snapP EXCEPT ![p] = NoLines]
    /\ snapC' = [snapC EXCEPT ![p] = {}]

(* _write_jsonl: the new file replaces the old one in one rename.              *)
WriteClaimed(ids) == claimed' = ids /\ aged' = aged \cap ids

AddLine(lines, ids) == [i \in Items |-> IF i \in ids THEN lines[i] + 1 ELSE lines[i]]
DropLines(lines, ids) == [i \in Items |-> IF i \in ids THEN 0 ELSE lines[i]]
-----------------------------------------------------------------------------
(* enqueue: an id found in pending, claimed or a completed file is returned   *)
(* as it is; otherwise the item is appended.  The failed files are not read,  *)
(* so a failed item can be enqueued again.  (A start whose first read already *)
(* finds the id changes nothing and is left out.)  Two mutants skip one look  *)
(* each.                                                                      *)
EnqueueStart(p, i) ==
    /\ MayStart(p, "enqueue")
    /\ ~IsQueued(i)
    /\ Goto(p, "e_rclaimed")
    /\ hand' = [hand EXCEPT ![p] = {i}]
    /\ UNCHANGED <<files, snapP, snapC, owed, grants, crashes>>

EnqueueReadClaimedSkipped(p) ==
    /\ pc[p] = "e_rclaimed"
    /\ Goto(p, "e_rcompleted")
    /\ UNCHANGED <<files, hand, snapP, snapC, owed, grants, crashes>>

EnqueueReadClaimed(p) ==
    /\ pc[p] = "e_rclaimed"
    /\ \/ /\ hand[p] \cap claimed # {}
          /\ Return(p)
       \/ /\ hand[p] \cap claimed = {}
          /\ Goto(p, "e_rcompleted")
          /\ UNCHANGED <<hand, snapP, snapC>>
    /\ UNCHANGED <<files, owed, grants, crashes>>

EnqueueReadCompletedSkipped(p) ==
    /\ pc[p] = "e_rcompleted"
    /\ Goto(p, "e_append")
    /\ UNCHANGED <<files, hand, snapP, snapC, owed, grants, crashes>>

EnqueueReadCompleted(p) ==
    /\ pc[p] = "e_rcompleted"
    /\ \/ /\ hand[p] \cap completed # {}
          /\ Return(p)
       \/ /\ hand[p] \cap completed = {}
          /\ Goto(p, "e_append")
          /\ UNCHANGED <<hand, snapP, snapC>>
    /\ UNCHANGED <<files, owed, grants, crashes>>

EnqueueAppend(p) ==
    /\ pc[p] = "e_append"
    /\ pending' = AddLine(pending, hand[p])
    /\ owed' = owed \cup hand[p]
    /\ Return(p)
    /\ UNCHANGED <<claimed, aged, completed, failed, grants, crashes>>

(* claim: refuse (ValueError) while claimed.jsonl holds an item, give None    *)
(* when the item is not pending, else write pending without it, then claimed  *)
(* with nothing but it.  (The mutants claim over a claim, and forget the      *)
(* remaining items.)                                                          *)
ClaimStartUnchecked(p, i) ==
    /\ MayStart(p, "claim")
    /\ Goto(p, "c_rpending")
    /\ hand' = [hand EXCEPT ![p] = {i}]
    /\ UNCHANGED <<files, snapP, snapC, owed, grants, crashes>>

ClaimStart(p, i) ==
    /\ MayStart(p, "claim")
    /\ claimed = {}
    /\ Goto(p, "c_rpending")
    /\ hand' = [hand EXCEPT ![p] = {i}]
    /\ UNCHANGED <<files, snapP, snapC, owed, grants, crashes>>

ClaimReadPending(p) ==
    /\ pc[p] = "c_rpending"
    /\ \/ /\ hand[p] \cap Queued = {}
          /\ Return(p)
       \/ /\ hand[p] \cap Queued # {}
          /\ snapP' = [snapP EXCEPT ![p] = pending]
          /\ Goto(p, "c_wpending")
          /\ UNCHANGED <<hand, snapC>>
    /\ UNCHANGED <<files, owed, grants, crashes>>

ClaimWriteNoneRemaining(p) ==
    /\ pc[p] = "c_wpending"
    /\ pending' = NoLines
    /\ Goto(p, "c_wclaimed")
    /\ UNCHANGED <<claimed, aged, completed, failed, hand, snapP, snapC, owed,
                   grants, crashes>>

ClaimWritePending(p) ==
    /\ pc[p] = "c_wpending"
    /\ pending' = DropLines(snapP[p], hand[p])
    /\ Goto(p, "c_wclaimed")
    /\ UNCHANGED <<claimed, aged, completed, failed, hand, snapP, snapC, owed,
                   grants, crashes>>

ClaimWriteClaimed(p) ==
    /\ pc[p] = "c_wclaimed"
    /\ claimed' = hand[p]
    /\ aged' = {}
    /\ grants' = AddLine(grants, hand[p])
    /\ Return(p)
    /\ UNCHANGED <<pending, completed, failed, owed, crashes>>

(* complete and fail: False when the item is not claimed, else write claimed  *)
(* without it and append it to the day's file.                                *)
FinishStart(p, i, kind) ==
    /\ MayStart(p, kind)
    /\ i \in claimed
    /\ Goto(p, IF kind = "complete" THEN "d_write" ELSE "f_write")
    /\ hand' = [hand EXCEPT ![p] = {i}]
    /\ snapC' = [snapC EXCEPT ![p] = claimed]
    /\ UNCHANGED <<files, snapP, owed, grants, crashes>>

(* Mutant: the terminal file is appended to but the claim is still listed. *)
FinishWriteNothing(p) ==
    /\ pc[p] \in {"d_write", "f_write"}
    /\ grants' = DropLines(grants, hand[p])
    /\ Goto(p, IF pc[p] = "d_write" THEN "d_append" ELSE "f_append")
    /\ UNCHANGED <<files, hand, snapP, snapC, owed, crashes>>

FinishWriteClaimed(p) ==
    /\ pc[p] \in {"d_write", "f_write"}
    /\ WriteClaimed(snapC[p] \ hand[p])
    /\ grants' = DropLines(grants, hand[p])
    /\ Goto(p, IF pc[p] = "d_write" THEN "d_append" ELSE "f_append")
    /\ UNCHANGED <<pending, completed, failed, hand, snapP, snapC, owed, crashes>>

CompleteAppend(p) ==
    /\ pc[p] = "d_append"
    /\ completed' = completed \cup hand[p]
    /\ owed' = owed \ hand[p]
    /\ Return(p)
    /\ UNCHANGED <<pending, claimed, aged, failed, grants, crashes>>

FailAppend(p) ==
    /\ pc[p] = "f_append"
    /\ failed' = failed \cup hand[p]
    /\ owed' = owed \ hand[p]
    /\ Return(p)
    /\ UNCHANGED <<pending, claimed, aged, completed, grants, crashes>>

(* reclaim_stale: nothing to do unless a claim is over timeout_min old; else  *)
(* write claimed without the stale items, then pending with them.  (A claim   *)
(* whose claimed_at is missing or unreadable never ages.)                     *)
ReclaimStart(p) ==
    /\ MayStart(p, "reclaim")
    /\ aged # {}
    /\ hand' = [hand EXCEPT ![p] = aged]
    /\ snapC' = [snapC EXCEPT ![p] = claimed]
    /\ Goto(p, "r_rpending")
    /\ UNCHANGED <<files, snapP, owed, grants, crashes>>

ReclaimReadPending(p) ==
    /\ pc[p] = "r_rpending"
    /\ snapP' = [snapP EXCEPT ![p] = pending]
    /\ Goto(p, "r_wclaimed")
    /\ UNCHANGED <<files, hand, snapC, owed, grants, crashes>>

ReclaimWriteClaimed(p) ==
    /\ pc[p] = "r_wclaimed"
    /\ WriteClaimed(snapC[p] \ hand[p])
    /\ grants' = DropLines(grants, hand[p])
    /\ Goto(p, "r_wpending")
    /\ UNCHANGED <<pending, completed, failed, hand, snapP, snapC, owed, crashes>>

(* An item already pending is not added a second time.                        *)
ReclaimWritePending(p) ==
    /\ pc[p] = "r_wpending"
    /\ pending' = AddLine(snapP[p], {i \in hand[p] : snapP[p][i] = 0})
    /\ Return(p)
    /\ UNCHANGED <<claimed, aged, completed, failed, owed, grants, crashes>>
-----------------------------------------------------------------------------
(* The hour passes. *)
Age(i) ==
    /\ i \in claimed \ aged
    /\ aged' = aged \cup {i}
    /\ UNCHANGED <<pending, claimed, completed, failed, pc, hand, snapP, snapC,
                   owed, grants, crashes>>

(* A process is killed between two accesses; each rename and each one-line    *)
(* append is taken whole or not at all.                                       *)
Crash(p) ==
    /\ pc[p] # "idle"
    /\ crashes < MaxCrashes
    /\ crashes' = crashes + 1
    /\ Return(p)
    /\ UNCHANGED <<files, owed, grants>>

Enqueue(p) == \/ \E i \in Items : EnqueueStart(p, i)
              \/ EnqueueReadClaimed(p)
              \/ EnqueueReadCompleted(p)
              \/ EnqueueAppend(p)

Claim(p) == \/ \E i \in Items : ClaimStart(p, i)
            \/ ClaimReadPending(p)
            \/ ClaimWritePending(p)
            \/ ClaimWriteClaimed(p)

Finish(p) == \/ \E i \in Items, kind \in {"complete", "fail"} : FinishStart(p, i, kind)
             \/ FinishWriteClaimed(p)
             \/ CompleteAppend(p)
             \/ FailAppend(p)

Reclaim(p) == \/ ReclaimStart(p)
              \/ ReclaimReadPending(p)
              \/ ReclaimWriteClaimed(p)
              \/ ReclaimWritePending(p)

Next == \/ \E p \in Procs : Enqueue(p) \/ Claim(p) \/ Finish(p) \/ Reclaim(p) \/ Crash(p)
        \/ \E i \in Items : Age(i)

Spec == Init /\ [][Next]_vars
-----------------------------------------------------------------------------
TypeOK ==
    /\ pending \in [Items -> Nat]
    /\ claimed \subseteq Items /\ aged \subseteq claimed
    /\ completed \subseteq Items /\ failed \subseteq Items
    /\ pc \in [Procs -> PCs]
    /\ hand \in [Procs -> SUBSET Items]
    /\ snapP \in [Procs -> [Items -> Nat]]
    /\ snapC \in [Procs -> SUBSET Items]
    /\ owed \subseteq Items
    /\ grants \in [Items -> Nat]
    /\ crashes \in 0..MaxCrashes

(* Every item a caller enqueued is, until it is completed or failed, in        *)
(* pending.jsonl, in claimed.jsonl or in the hands of a move that is still     *)
(* running: no interleaving of whole-file rewrites loses it.  (enqueue, claim, *)
(* complete, fail and reclaim_stale of work_queue.py.)                         *)
NothingLost == crashes = 0 => owed \subseteq Outstanding \cup InTransit

(* A killed operation loses at most the one item it was moving. *)
LossBounded == Cardinality(owed \ (Outstanding \cup InTransit)) <= crashes

(* A move never shows its item in both files: whoever reads pending.jsonl may  *)
(* take everything listed there for unclaimed work.                            *)
NeverInTwoFiles == Queued \cap claimed = {}

(* claim's one-at-a-time rule, counting the moves in progress as well as the   *)
(* file: at most one item is claimed or on its way in or out of claimed.jsonl, *)
(* and it was granted to at most one caller.                                   *)
ClaimExclusive ==
    /\ \A i, j \in claimed \cup InTransit : i = j
    /\ \A i \in Items : grants[i] <= 1

(* The P-D417 fix in enqueue: once an item has completed it is never pending   *)
(* or claimed again, under serial callers.                                     *)
CompletedIsFinal == completed \cap (Outstanding \cup InTransit) = {}

(* Deduplication: pending.jsonl has one line per id, even across reclaim.      *)
NoDuplicateLines == \A i \in Items : pending[i] <= 1

(* The queue holds no work nobody asked for: what is pending or claimed was    *)
(* enqueued and has not reached a terminal file since.                         *)
NoPhantomWork == Outstanding \cup InTransit \subseteq owed

(* What serial callers leave in the five files, kills included: well-typed,    *)
(* one line of pending.jsonl per id, only work that was asked for, and nothing  *)
(* that has been completed.                                                     *)
QueueConsistent == TypeOK /\ NoDuplicateLines /\ NoPhantomWork /\ CompletedIsFinal

(* Appends beside a move: one claim at a time, whose item is in no other file. *)
OneClaimOnePlace == ClaimExclusive /\ NeverInTwoFiles

(* The refinement: a claim takes effect at its second write, the other moves   *)
(* at their last one.                                                          *)
CarriedFrom(i, pcs) == \E p \in Procs : pc[p] \in pcs /\ i \in hand[p]

PlaceOf(i) ==
    IF i \in claimed \/ CarriedFrom(i, {"d_append", "f_append", "r_wpending"}) THEN "claimed"
    ELSE IF IsQueued(i) \/ CarriedFrom(i, {"c_wclaimed"}) THEN "pending"
    ELSE IF i \in completed THEN "completed"
    ELSE IF i \in failed THEN "failed"
    ELSE "absent"

Place == [i \in Items |-> PlaceOf(i)]

Abs == INSTANCE QueueSpec WITH where <- Place, MayLose <- (MaxCrashes > 0)

(* Under serial callers the file-level queue implements the one-step queue;    *)
(* with kills it may also drop an item, and nothing else goes wrong.           *)
ImplementsQueueSpec == Abs!Spec
-----------------------------------------------------------------------------
(***************************************************************************)
(* The inductive invariant for callers that overlap at most as             *)
(* AppendersOverlap allows.                                                *)
(***************************************************************************)
AppenderSteps == EnqueueSteps \cup CompleteSteps \cup FailSteps

(* Two operations in progress are an enqueue and an appender. *)
Exclusion ==
    \A p, q \in Procs :
        p # q /\ pc[p] # "idle" /\ pc[q] # "idle" =>
            \/ pc[p] \in EnqueueSteps /\ pc[q] \in AppenderSteps
            \/ pc[q] \in EnqueueSteps /\ pc[p] \in AppenderSteps

(* What a process knows of the files at each point of its operation: what it   *)
(* read is still what they hold.                                               *)
Knows(p) ==
    /\ \A i, j \in hand[p] : i = j
    /\ pc[p] \in {"e_rcompleted", "e_append"} => \A i \in hand[p] : i \notin claimed
    /\ pc[p] \in ClaimSteps => claimed = {}
    /\ pc[p] \in {"c_wpending", "r_wclaimed", "r_wpending"} => snapP[p] = pending
    /\ pc[p] = "c_wclaimed" => \A i \in hand[p] : ~IsQueued(i)
    /\ pc[p] \in {"d_write", "f_write", "r_rpending", "r_wclaimed"} =>
          snapC[p] = claimed /\ hand[p] \subseteq claimed /\ hand[p] # {}
    /\ pc[p] \in {"d_append", "f_append", "r_wpending"} => claimed = {}

OneClaim == \A i, j \in claimed : i = j

GrantsMatch == \A i \in Items : grants[i] = 0 \/ (grants[i] = 1 /\ i \in claimed)

IInv ==
    /\ TypeOK
    /\ Exclusion
    /\ \A p \in Procs : Knows(p)
    /\ OneClaim
    /\ NeverInTwoFiles
    /\ GrantsMatch
    /\ NothingLost

(* Under serial callers: one operation at a time, and an item in a process's   *)
(* hands is not pending (an enqueue's, once it has looked; a move's, between   *)
(* its writes) nor, when an enqueue is about to append it, completed; a claim  *)
(* that goes on has found its item pending.                                    *)
OneAtATime == \A p, q \in Procs : p # q => pc[p] = "idle" \/ pc[q] = "idle"

Carries(p) ==
    /\ pc[p] \in EnqueueSteps \cup CarryPCs => \A i \in hand[p] : ~IsQueued(i)
    /\ pc[p] = "e_append" => \A i \in hand[p] : i \notin completed
    /\ pc[p] = "c_wpending" => hand[p] \subseteq Queued

SerialInv ==
    /\ IInv
    /\ OneAtATime
    /\ \A p \in Procs : Carries(p)
    /\ CompletedIsFinal
    /\ NoPhantomWork
    /\ NoDuplicateLines
=============================================================================
