-------------------------- MODULE WorkQueueProofs --------------------------
(***************************************************************************)
(* TLAPS proofs about WorkQueue, for every set of items and processes, and *)
(* any number of kills.                                                    *)
(***************************************************************************)
EXTENDS WorkQueue, FiniteSetTheorems, TLAPS

(* A step keeps every variable within its type. *)
LEMMA TypeStep == TypeOK /\ [Next]_vars => TypeOK'
  <1> SUFFICES ASSUME TypeOK, [Next]_vars PROVE TypeOK'
    OBVIOUS
  <1> USE DEF TypeOK, PCs, EnqueueSteps, ClaimSteps, CompleteSteps, FailSteps,
              ReclaimSteps, Goto, Return, files, vars,
              AddLine, DropLines, NoLines, WriteClaimed
  <1>1. ASSUME NEW p \in Procs, Enqueue(p) PROVE TypeOK'
    <2>1. ASSUME NEW i \in Items, EnqueueStart(p, i) PROVE TypeOK'
      BY <2>1 DEF EnqueueStart
    <2>2. CASE EnqueueReadClaimed(p)
      <3>1. CASE Return(p)
        BY <2>2, <3>1 DEF EnqueueReadClaimed
      <3>2. CASE ~Return(p)
        BY <2>2, <3>2 DEF EnqueueReadClaimed
      <3> QED BY <3>1, <3>2
    <2>3. CASE EnqueueReadCompleted(p)
      <3>1. CASE Return(p)
        BY <2>3, <3>1 DEF EnqueueReadCompleted
      <3>2. CASE ~Return(p)
        BY <2>3, <3>2 DEF EnqueueReadCompleted
      <3> QED BY <3>1, <3>2
    <2>4. CASE EnqueueAppend(p)
      BY <2>4 DEF EnqueueAppend
    <2> QED BY <1>1, <2>1, <2>2, <2>3, <2>4 DEF Enqueue
  <1>2. ASSUME NEW p \in Procs, Claim(p) PROVE TypeOK'
    <2>1. ASSUME NEW i \in Items, ClaimStart(p, i) PROVE TypeOK'
      BY <2>1 DEF ClaimStart
    <2>2. CASE ClaimReadPending(p)
      <3>1. CASE Return(p)
        BY <2>2, <3>1 DEF ClaimReadPending
      <3>2. CASE ~Return(p)
        <4>1. /\ snapP' = [snapP EXCEPT ![p] = pending] /\ UNCHANGED <<hand, snapC>>
              /\ Goto(p, "c_wpending")
          BY <2>2, <3>2 DEF ClaimReadPending
        <4> QED BY <2>2, <4>1 DEF ClaimReadPending
      <3> QED BY <3>1, <3>2
    <2>3. CASE ClaimWritePending(p)
      BY <2>3 DEF ClaimWritePending
    <2>4. CASE ClaimWriteClaimed(p)
      BY <2>4 DEF ClaimWriteClaimed
    <2> QED BY <1>2, <2>1, <2>2, <2>3, <2>4 DEF Claim
  <1>3. ASSUME NEW p \in Procs, Finish(p) PROVE TypeOK'
    <2>1. ASSUME NEW i \in Items, NEW kind \in {"complete", "fail"}, FinishStart(p, i, kind)
          PROVE  TypeOK'
      BY <2>1 DEF FinishStart
    <2>2. CASE FinishWriteClaimed(p)
      BY <2>2 DEF FinishWriteClaimed
    <2>3. CASE CompleteAppend(p)
      BY <2>3 DEF CompleteAppend
    <2>4. CASE FailAppend(p)
      BY <2>4 DEF FailAppend
    <2> QED BY <1>3, <2>1, <2>2, <2>3, <2>4 DEF Finish
  <1>4. ASSUME NEW p \in Procs, Reclaim(p) PROVE TypeOK'
    <2>1. CASE ReclaimStart(p)
      BY <2>1 DEF ReclaimStart
    <2>2. CASE ReclaimReadPending(p)
      BY <2>2 DEF ReclaimReadPending
    <2>3. CASE ReclaimWriteClaimed(p)
      BY <2>3 DEF ReclaimWriteClaimed
    <2>4. CASE ReclaimWritePending(p)
      BY <2>4 DEF ReclaimWritePending
    <2> QED BY <1>4, <2>1, <2>2, <2>3, <2>4 DEF Reclaim
  <1>5. ASSUME NEW p \in Procs, Crash(p) PROVE TypeOK'
    BY <1>5, ParamAssumption DEF Crash
  <1>6. ASSUME NEW i \in Items, Age(i) PROVE TypeOK'
    BY <1>6 DEF Age
  <1>7. CASE UNCHANGED vars
    BY <1>7
  <1> QED BY <1>1, <1>2, <1>3, <1>4, <1>5, <1>6, <1>7 DEF Next

(* Type correctness, whatever the overlap and the kills. *)
THEOREM TypeCorrect == Spec => []TypeOK
  <1>1. Init => TypeOK
    BY ParamAssumption DEF Init, TypeOK, NoLines, PCs
  <1> QED BY <1>1, TypeStep, PTL DEF Spec
-----------------------------------------------------------------------------
(* Who may be in progress when an operation starts. *)
LEMMA StartClaim ==
  ASSUME Overlap \subseteq AppendersOverlap, TypeOK, NEW p \in Procs,
         NEW k \in {"claim", "reclaim"}, MayStart(p, k)
  PROVE  \A q \in Procs : pc[q] = "idle"
  <1> SUFFICES ASSUME NEW q \in Procs, pc[q] # "idle" PROVE FALSE
    OBVIOUS
  <1>1. \A other \in Kinds : <<k, other>> \notin Overlap
    BY DEF AppendersOverlap, Appenders
  <1>2. \A other \in Kinds : pc[q] \notin Steps[other]
    BY <1>1 DEF MayStart
  <1>3. /\ pc[q] \notin EnqueueSteps /\ pc[q] \notin ClaimSteps /\ pc[q] \notin CompleteSteps
        /\ pc[q] \notin FailSteps /\ pc[q] \notin ReclaimSteps
    BY <1>2 DEF Kinds, Steps
  <1> QED BY <1>3 DEF TypeOK, PCs

(* An enqueue starts beside appenders only. *)
LEMMA StartEnqueue ==
  ASSUME Overlap \subseteq AppendersOverlap, TypeOK, NEW p \in Procs, MayStart(p, "enqueue")
  PROVE  \A q \in Procs : pc[q] = "idle" \/ pc[q] \in AppenderSteps
  <1> SUFFICES ASSUME NEW q \in Procs, pc[q] # "idle" PROVE pc[q] \in AppenderSteps
    OBVIOUS
  <1>1. <<"enqueue", "claim">> \notin Overlap /\ <<"enqueue", "reclaim">> \notin Overlap
    BY DEF AppendersOverlap, Appenders
  <1>2. pc[q] \notin Steps["claim"] /\ pc[q] \notin Steps["reclaim"]
    BY <1>1 DEF MayStart, Kinds
  <1>3. pc[q] \notin ClaimSteps /\ pc[q] \notin ReclaimSteps
    BY <1>2 DEF Steps
  <1> QED BY <1>3 DEF TypeOK, PCs, AppenderSteps

(* A completion or a failure starts beside enqueues only. *)
LEMMA StartFinish ==
  ASSUME Overlap \subseteq AppendersOverlap, TypeOK, NEW p \in Procs,
         NEW k \in {"complete", "fail"}, MayStart(p, k)
  PROVE  \A q \in Procs : pc[q] = "idle" \/ pc[q] \in EnqueueSteps
  <1> SUFFICES ASSUME NEW q \in Procs, pc[q] # "idle" PROVE pc[q] \in EnqueueSteps
    OBVIOUS
  <1>1. \A other \in Kinds \ {"enqueue"} : <<k, other>> \notin Overlap
    BY DEF AppendersOverlap, Appenders
  <1>2. \A other \in Kinds \ {"enqueue"} : pc[q] \notin Steps[other]
    BY <1>1 DEF MayStart
  <1>3. /\ pc[q] \notin ClaimSteps /\ pc[q] \notin CompleteSteps
        /\ pc[q] \notin FailSteps /\ pc[q] \notin ReclaimSteps
    BY <1>2 DEF Kinds, Steps
  <1> QED BY <1>3 DEF TypeOK, PCs

(* Exclusion survives a step that keeps its process in the operation it runs,  *)
(* or ends it.                                                                 *)
LEMMA ExclusionKept ==
  ASSUME Exclusion, pc \in [Procs -> PCs], NEW p \in Procs, NEW label \in PCs,
         pc' = [pc EXCEPT ![p] = label],
         \/ label = "idle"
         \/ pc[p] \in EnqueueSteps /\ label \in EnqueueSteps
         \/ pc[p] \in AppenderSteps \ EnqueueSteps /\ label \in AppenderSteps
         \/ pc[p] \in ClaimSteps \cup ReclaimSteps /\ label \in ClaimSteps \cup ReclaimSteps
  PROVE  Exclusion'
  <1> SUFFICES ASSUME NEW q \in Procs, NEW r \in Procs, q # r, pc'[q] # "idle", pc'[r] # "idle"
               PROVE  \/ pc'[q] \in EnqueueSteps /\ pc'[r] \in AppenderSteps
                      \/ pc'[r] \in EnqueueSteps /\ pc'[q] \in AppenderSteps
    BY DEF Exclusion
  <1> USE DEF Exclusion, AppenderSteps, EnqueueSteps, CompleteSteps, FailSteps, ClaimSteps,
              ReclaimSteps
  <1>1. CASE q = p
    BY <1>1
  <1>2. CASE r = p
    BY <1>2
  <1>3. CASE q # p /\ r # p
    BY <1>3
  <1> QED BY <1>1, <1>2, <1>3

(* EnqueueStart keeps the invariant. *)
LEMMA SafeEnqueueStart ==
  ASSUME Overlap \subseteq AppendersOverlap, IInv, TypeOK', NEW p \in Procs, NEW i \in Items,
         EnqueueStart(p, i)
  PROVE  IInv'
  <1> USE DEF IInv, TypeOK, AppenderSteps, EnqueueSteps, ClaimSteps, CompleteSteps, FailSteps,
              ReclaimSteps, EnqueueStart, Goto, Return, files, WriteClaimed,
              AddLine, DropLines, NoLines, IsQueued
  <1>1. Exclusion'
    BY StartEnqueue DEF Exclusion
  <1>2. \A q \in Procs : Knows(q)'
    BY StartEnqueue DEF Knows, Exclusion
  <1>3. OneClaim'
    BY DEF OneClaim, Knows
  <1>4. NeverInTwoFiles'
    BY DEF NeverInTwoFiles, Queued, Knows
  <1>5. GrantsMatch'
    BY DEF GrantsMatch, Knows
  <1>6. NothingLost'
    <2>1. \A q \in Procs : /\ pc'[q] \in CarryPCs <=> pc[q] \in CarryPCs
                           /\ pc[q] \in CarryPCs => hand'[q] = hand[q]
      BY DEF MayStart, CarryPCs
    <2>2. InTransit' = InTransit
      BY ONLY <2>1 DEF InTransit
    <2> QED BY <2>2 DEF NothingLost, Outstanding, Queued
  <1> QED BY <1>1, <1>2, <1>3, <1>4, <1>5, <1>6

(* EnqueueReadClaimed keeps the invariant. *)
LEMMA SafeEnqueueReadClaimed ==
  ASSUME Overlap \subseteq AppendersOverlap, IInv, TypeOK', NEW p \in Procs, EnqueueReadClaimed(p)
  PROVE  IInv'
  <1> USE DEF IInv, TypeOK, AppenderSteps, EnqueueSteps, ClaimSteps, CompleteSteps, FailSteps,
              ReclaimSteps, EnqueueReadClaimed, Goto, Return, files, WriteClaimed,
              AddLine, DropLines, NoLines, IsQueued
  <1>1. Exclusion'
    <2>1. PICK label \in {"idle", "e_rcompleted"} : pc' = [pc EXCEPT ![p] = label]
      OBVIOUS
    <2>2. /\ Exclusion /\ pc \in [Procs -> PCs] /\ pc[p] \in EnqueueSteps /\ label \in PCs
          /\ label = "idle" \/ label \in EnqueueSteps
      BY DEF PCs
    <2> QED BY ONLY p \in Procs, <2>1, <2>2, ExclusionKept
  <1>2. \A q \in Procs : Knows(q)'
    BY DEF Knows, Exclusion
  <1>3. OneClaim'
    BY DEF OneClaim, Knows
  <1>4. NeverInTwoFiles'
    BY DEF NeverInTwoFiles, Queued, Knows
  <1>5. GrantsMatch'
    BY DEF GrantsMatch, Knows
  <1>6. NothingLost'
    BY DEF NothingLost, Outstanding, InTransit, CarryPCs, Queued, Knows
  <1> QED BY <1>1, <1>2, <1>3, <1>4, <1>5, <1>6

(* EnqueueReadCompleted keeps the invariant. *)
LEMMA SafeEnqueueReadCompleted ==
  ASSUME Overlap \subseteq AppendersOverlap, IInv, TypeOK', NEW p \in Procs, EnqueueReadCompleted(p)
  PROVE  IInv'
  <1> USE DEF IInv, TypeOK, AppenderSteps, EnqueueSteps, ClaimSteps, CompleteSteps, FailSteps,
              ReclaimSteps, EnqueueReadCompleted, Goto, Return, files, WriteClaimed,
              AddLine, DropLines, NoLines, IsQueued
  <1>1. Exclusion'
    <2>1. PICK label \in {"idle", "e_append"} : pc' = [pc EXCEPT ![p] = label]
      OBVIOUS
    <2>2. /\ Exclusion /\ pc \in [Procs -> PCs] /\ pc[p] \in EnqueueSteps /\ label \in PCs
          /\ label = "idle" \/ label \in EnqueueSteps
      BY DEF PCs
    <2> QED BY ONLY p \in Procs, <2>1, <2>2, ExclusionKept
  <1>2. \A q \in Procs : Knows(q)'
    BY DEF Knows, Exclusion
  <1>3. OneClaim'
    BY DEF OneClaim, Knows
  <1>4. NeverInTwoFiles'
    BY DEF NeverInTwoFiles, Queued, Knows
  <1>5. GrantsMatch'
    BY DEF GrantsMatch, Knows
  <1>6. NothingLost'
    BY DEF NothingLost, Outstanding, InTransit, CarryPCs, Queued, Knows
  <1> QED BY <1>1, <1>2, <1>3, <1>4, <1>5, <1>6

(* EnqueueAppend keeps the invariant. *)
LEMMA SafeEnqueueAppend ==
  ASSUME Overlap \subseteq AppendersOverlap, IInv, TypeOK', NEW p \in Procs, EnqueueAppend(p)
  PROVE  IInv'
  <1> USE DEF IInv, TypeOK, AppenderSteps, EnqueueSteps, ClaimSteps, CompleteSteps, FailSteps,
              ReclaimSteps, EnqueueAppend, Goto, Return, files, WriteClaimed,
              AddLine, DropLines, NoLines, IsQueued
  <1>1. Exclusion'
    BY DEF Exclusion
  <1>2. \A q \in Procs : Knows(q)'
    BY DEF Knows, Exclusion
  <1>3. OneClaim'
    BY DEF OneClaim, Knows
  <1>4. NeverInTwoFiles'
    BY DEF NeverInTwoFiles, Queued, Knows
  <1>5. GrantsMatch'
    BY DEF GrantsMatch, Knows
  <1>6. NothingLost'
    <2>1. InTransit' = InTransit
      BY DEF InTransit, CarryPCs
    <2>2. \A i \in Items : IsQueued(i)' <=> IsQueued(i) \/ i \in hand[p]
      OBVIOUS
    <2> QED BY <2>1, <2>2 DEF NothingLost, Outstanding, Queued
  <1> QED BY <1>1, <1>2, <1>3, <1>4, <1>5, <1>6

(* ClaimStart keeps the invariant. *)
LEMMA SafeClaimStart ==
  ASSUME Overlap \subseteq AppendersOverlap, IInv, TypeOK', NEW p \in Procs, NEW i \in Items,
         ClaimStart(p, i)
  PROVE  IInv'
  <1> USE DEF IInv, TypeOK, AppenderSteps, EnqueueSteps, ClaimSteps, CompleteSteps, FailSteps,
              ReclaimSteps, ClaimStart, Goto, Return, files, WriteClaimed,
              AddLine, DropLines, NoLines, IsQueued
  <1>1. Exclusion'
    BY StartClaim DEF Exclusion
  <1>2. \A q \in Procs : Knows(q)'
    BY StartClaim DEF Knows, Exclusion
  <1>3. OneClaim'
    BY DEF OneClaim, Knows
  <1>4. NeverInTwoFiles'
    BY DEF NeverInTwoFiles, Queued, Knows
  <1>5. GrantsMatch'
    BY DEF GrantsMatch, Knows
  <1>6. NothingLost'
    <2>1. \A q \in Procs : /\ pc'[q] \in CarryPCs <=> pc[q] \in CarryPCs
                           /\ pc[q] \in CarryPCs => hand'[q] = hand[q]
      BY DEF MayStart, CarryPCs
    <2>2. InTransit' = InTransit
      BY ONLY <2>1 DEF InTransit
    <2> QED BY <2>2 DEF NothingLost, Outstanding, Queued
  <1> QED BY <1>1, <1>2, <1>3, <1>4, <1>5, <1>6

(* ClaimReadPending keeps the invariant. *)
LEMMA SafeClaimReadPending ==
  ASSUME Overlap \subseteq AppendersOverlap, IInv, TypeOK', NEW p \in Procs, ClaimReadPending(p)
  PROVE  IInv'
  <1> USE DEF IInv, TypeOK, AppenderSteps, EnqueueSteps, ClaimSteps, CompleteSteps, FailSteps,
              ReclaimSteps, ClaimReadPending, Goto, Return, files, WriteClaimed,
              AddLine, DropLines, NoLines, IsQueued
  <1>1. Exclusion'
    BY DEF Exclusion
  <1>2. \A q \in Procs : Knows(q)'
    BY DEF Knows, Exclusion
  <1>3. OneClaim'
    BY DEF OneClaim, Knows
  <1>4. NeverInTwoFiles'
    BY DEF NeverInTwoFiles, Queued, Knows
  <1>5. GrantsMatch'
    BY DEF GrantsMatch, Knows
  <1>6. NothingLost'
    <2>1. \A q \in Procs : /\ pc'[q] \in CarryPCs <=> pc[q] \in CarryPCs
                           /\ pc[q] \in CarryPCs => hand'[q] = hand[q]
      BY DEF CarryPCs
    <2>2. InTransit' = InTransit
      BY ONLY <2>1 DEF InTransit
    <2> QED BY <2>2 DEF NothingLost, Outstanding, Queued
  <1> QED BY <1>1, <1>2, <1>3, <1>4, <1>5, <1>6

(* ClaimWritePending keeps the invariant. *)
LEMMA SafeClaimWritePending ==
  ASSUME Overlap \subseteq AppendersOverlap, IInv, TypeOK', NEW p \in Procs, ClaimWritePending(p)
  PROVE  IInv'
  <1> USE DEF IInv, TypeOK, AppenderSteps, EnqueueSteps, ClaimSteps, CompleteSteps, FailSteps,
              ReclaimSteps, ClaimWritePending, Goto, Return, files, WriteClaimed,
              AddLine, DropLines, NoLines, IsQueued
  <1>1. Exclusion'
    BY DEF Exclusion
  <1>2. \A q \in Procs : Knows(q)'
    BY DEF Knows, Exclusion
  <1>3. OneClaim'
    BY DEF OneClaim, Knows
  <1>4. NeverInTwoFiles'
    BY DEF NeverInTwoFiles, Queued, Knows
  <1>5. GrantsMatch'
    BY DEF GrantsMatch, Knows
  <1>6. NothingLost'
    BY DEF NothingLost, Outstanding, InTransit, CarryPCs, Queued, Knows
  <1> QED BY <1>1, <1>2, <1>3, <1>4, <1>5, <1>6

(* ClaimWriteClaimed keeps the invariant. *)
LEMMA SafeClaimWriteClaimed ==
  ASSUME Overlap \subseteq AppendersOverlap, IInv, TypeOK', NEW p \in Procs, ClaimWriteClaimed(p)
  PROVE  IInv'
  <1> USE DEF IInv, TypeOK, AppenderSteps, EnqueueSteps, ClaimSteps, CompleteSteps, FailSteps,
              ReclaimSteps, ClaimWriteClaimed, Goto, Return, files, WriteClaimed,
              AddLine, DropLines, NoLines, IsQueued
  <1>1. Exclusion'
    BY DEF Exclusion
  <1>2. \A q \in Procs : Knows(q)'
    <2>1. Knows(p)'
      BY DEF Knows
    <2>2. ASSUME NEW q \in Procs, q # p PROVE Knows(q)'
      <3>1. pc[q] = "idle"
        BY <2>2 DEF Exclusion
      <3>2. pc'[q] = "idle" /\ hand'[q] = hand[q] /\ Knows(q)
        BY <2>2, <3>1
      <3> QED BY ONLY <3>2 DEF Knows, ClaimSteps
    <2> QED BY <2>1, <2>2
  <1>3. OneClaim'
    BY DEF OneClaim, Knows
  <1>4. NeverInTwoFiles'
    BY DEF NeverInTwoFiles, Queued, Knows
  <1>5. GrantsMatch'
    BY DEF GrantsMatch, Knows
  <1>6. NothingLost'
    BY DEF NothingLost, Outstanding, InTransit, CarryPCs, Queued, Knows
  <1> QED BY <1>1, <1>2, <1>3, <1>4, <1>5, <1>6

(* FinishStart keeps the invariant. *)
LEMMA SafeFinishStart ==
  ASSUME Overlap \subseteq AppendersOverlap, IInv, TypeOK', NEW p \in Procs, NEW i \in Items,
         NEW kind \in {"complete", "fail"}, FinishStart(p, i, kind)
  PROVE  IInv'
  <1> USE DEF IInv, TypeOK, AppenderSteps, EnqueueSteps, ClaimSteps, CompleteSteps, FailSteps,
              ReclaimSteps, FinishStart, Goto, Return, files, WriteClaimed,
              AddLine, DropLines, NoLines, IsQueued
  <1>1. Exclusion'
    BY StartFinish DEF Exclusion
  <1>2. \A q \in Procs : Knows(q)'
    BY StartFinish DEF Knows, Exclusion
  <1>3. OneClaim'
    BY DEF OneClaim, Knows
  <1>4. NeverInTwoFiles'
    BY DEF NeverInTwoFiles, Queued, Knows
  <1>5. GrantsMatch'
    BY DEF GrantsMatch, Knows
  <1>6. NothingLost'
    BY DEF NothingLost, Outstanding, InTransit, CarryPCs, Queued, Knows
  <1> QED BY <1>1, <1>2, <1>3, <1>4, <1>5, <1>6

(* FinishWriteClaimed keeps the invariant. *)
LEMMA SafeFinishWriteClaimed ==
  ASSUME Overlap \subseteq AppendersOverlap, IInv, TypeOK', NEW p \in Procs, FinishWriteClaimed(p)
  PROVE  IInv'
  <1> USE DEF IInv, TypeOK, AppenderSteps, EnqueueSteps, ClaimSteps, CompleteSteps, FailSteps,
              ReclaimSteps, FinishWriteClaimed, Goto, Return, files, WriteClaimed,
              AddLine, DropLines, NoLines, IsQueued
  <1>1. Exclusion'
    BY DEF Exclusion
  <1>2. \A q \in Procs : Knows(q)'
    <2>1. claimed' = {}
      BY DEF Knows, OneClaim
    <2>2. Knows(p)'
      BY <2>1 DEF Knows
    <2>3. ASSUME NEW q \in Procs, q # p PROVE Knows(q)'
      BY <2>1, <2>3 DEF Knows, Exclusion
    <2> QED BY <2>2, <2>3
  <1>3. OneClaim'
    BY DEF OneClaim, Knows
  <1>4. NeverInTwoFiles'
    BY DEF NeverInTwoFiles, Queued, Knows
  <1>5. GrantsMatch'
    BY DEF GrantsMatch, Knows
  <1>6. NothingLost'
    BY DEF NothingLost, Outstanding, InTransit, CarryPCs, Queued, Knows
  <1> QED BY <1>1, <1>2, <1>3, <1>4, <1>5, <1>6

(* CompleteAppend keeps the invariant. *)
LEMMA SafeCompleteAppend ==
  ASSUME Overlap \subseteq AppendersOverlap, IInv, TypeOK', NEW p \in Procs, CompleteAppend(p)
  PROVE  IInv'
  <1> USE DEF IInv, TypeOK, AppenderSteps, EnqueueSteps, ClaimSteps, CompleteSteps, FailSteps,
              ReclaimSteps, CompleteAppend, Goto, Return, files, WriteClaimed,
              AddLine, DropLines, NoLines, IsQueued
  <1>1. Exclusion'
    BY DEF Exclusion
  <1>2. \A q \in Procs : Knows(q)'
    BY DEF Knows, Exclusion
  <1>3. OneClaim'
    BY DEF OneClaim, Knows
  <1>4. NeverInTwoFiles'
    BY DEF NeverInTwoFiles, Queued, Knows
  <1>5. GrantsMatch'
    BY DEF GrantsMatch, Knows
  <1>6. NothingLost'
    BY DEF NothingLost, Outstanding, InTransit, CarryPCs, Queued, Knows
  <1> QED BY <1>1, <1>2, <1>3, <1>4, <1>5, <1>6

(* FailAppend keeps the invariant. *)
LEMMA SafeFailAppend ==
  ASSUME Overlap \subseteq AppendersOverlap, IInv, TypeOK', NEW p \in Procs, FailAppend(p)
  PROVE  IInv'
  <1> USE DEF IInv, TypeOK, AppenderSteps, EnqueueSteps, ClaimSteps, CompleteSteps, FailSteps,
              ReclaimSteps, FailAppend, Goto, Return, files, WriteClaimed,
              AddLine, DropLines, NoLines, IsQueued
  <1>1. Exclusion'
    BY DEF Exclusion
  <1>2. \A q \in Procs : Knows(q)'
    BY DEF Knows, Exclusion
  <1>3. OneClaim'
    BY DEF OneClaim, Knows
  <1>4. NeverInTwoFiles'
    BY DEF NeverInTwoFiles, Queued, Knows
  <1>5. GrantsMatch'
    BY DEF GrantsMatch, Knows
  <1>6. NothingLost'
    BY DEF NothingLost, Outstanding, InTransit, CarryPCs, Queued, Knows
  <1> QED BY <1>1, <1>2, <1>3, <1>4, <1>5, <1>6

(* ReclaimStart keeps the invariant. *)
LEMMA SafeReclaimStart ==
  ASSUME Overlap \subseteq AppendersOverlap, IInv, TypeOK', NEW p \in Procs, ReclaimStart(p)
  PROVE  IInv'
  <1> USE DEF IInv, TypeOK, AppenderSteps, EnqueueSteps, ClaimSteps, CompleteSteps, FailSteps,
              ReclaimSteps, ReclaimStart, Goto, Return, files, WriteClaimed,
              AddLine, DropLines, NoLines, IsQueued
  <1>1. Exclusion'
    BY StartClaim DEF Exclusion
  <1>2. \A q \in Procs : Knows(q)'
    <2>1. Knows(p)'
      BY DEF Knows, OneClaim
    <2>2. ASSUME NEW q \in Procs, q # p PROVE Knows(q)'
      BY <2>2, StartClaim DEF Knows
    <2> QED BY <2>1, <2>2
  <1>3. OneClaim'
    BY DEF OneClaim, Knows
  <1>4. NeverInTwoFiles'
    BY DEF NeverInTwoFiles, Queued, Knows
  <1>5. GrantsMatch'
    BY DEF GrantsMatch, Knows
  <1>6. NothingLost'
    BY DEF NothingLost, Outstanding, InTransit, CarryPCs, Queued, Knows
  <1> QED BY <1>1, <1>2, <1>3, <1>4, <1>5, <1>6

(* ReclaimReadPending keeps the invariant. *)
LEMMA SafeReclaimReadPending ==
  ASSUME Overlap \subseteq AppendersOverlap, IInv, TypeOK', NEW p \in Procs, ReclaimReadPending(p)
  PROVE  IInv'
  <1> USE DEF IInv, TypeOK, AppenderSteps, EnqueueSteps, ClaimSteps, CompleteSteps, FailSteps,
              ReclaimSteps, ReclaimReadPending, Goto, Return, files, WriteClaimed,
              AddLine, DropLines, NoLines, IsQueued
  <1>1. Exclusion'
    BY DEF Exclusion
  <1>2. \A q \in Procs : Knows(q)'
    BY DEF Knows, Exclusion
  <1>3. OneClaim'
    BY DEF OneClaim, Knows
  <1>4. NeverInTwoFiles'
    BY DEF NeverInTwoFiles, Queued, Knows
  <1>5. GrantsMatch'
    BY DEF GrantsMatch, Knows
  <1>6. NothingLost'
    BY DEF NothingLost, Outstanding, InTransit, CarryPCs, Queued, Knows
  <1> QED BY <1>1, <1>2, <1>3, <1>4, <1>5, <1>6

(* ReclaimWriteClaimed keeps the invariant. *)
LEMMA SafeReclaimWriteClaimed ==
  ASSUME Overlap \subseteq AppendersOverlap, IInv, TypeOK', NEW p \in Procs, ReclaimWriteClaimed(p)
  PROVE  IInv'
  <1> USE DEF IInv, TypeOK, AppenderSteps, EnqueueSteps, ClaimSteps, CompleteSteps, FailSteps,
              ReclaimSteps, ReclaimWriteClaimed, Goto, Return, files, WriteClaimed,
              AddLine, DropLines, NoLines, IsQueued
  <1>1. Exclusion'
    BY DEF Exclusion
  <1>2. \A q \in Procs : Knows(q)'
    <2>1. claimed' = {}
      BY DEF Knows, OneClaim
    <2>2. Knows(p)'
      BY <2>1 DEF Knows
    <2>3. ASSUME NEW q \in Procs, q # p PROVE Knows(q)'
      BY <2>1, <2>3 DEF Knows, Exclusion
    <2> QED BY <2>2, <2>3
  <1>3. OneClaim'
    BY DEF OneClaim, Knows
  <1>4. NeverInTwoFiles'
    BY DEF NeverInTwoFiles, Queued, Knows
  <1>5. GrantsMatch'
    BY DEF GrantsMatch, Knows
  <1>6. NothingLost'
    BY DEF NothingLost, Outstanding, InTransit, CarryPCs, Queued, Knows
  <1> QED BY <1>1, <1>2, <1>3, <1>4, <1>5, <1>6

(* ReclaimWritePending keeps the invariant. *)
LEMMA SafeReclaimWritePending ==
  ASSUME Overlap \subseteq AppendersOverlap, IInv, TypeOK', NEW p \in Procs, ReclaimWritePending(p)
  PROVE  IInv'
  <1> USE DEF IInv, TypeOK, AppenderSteps, EnqueueSteps, ClaimSteps, CompleteSteps, FailSteps,
              ReclaimSteps, ReclaimWritePending, Goto, Return, files, WriteClaimed,
              AddLine, DropLines, NoLines, IsQueued
  <1>1. Exclusion'
    BY DEF Exclusion
  <1>2. \A q \in Procs : Knows(q)'
    BY DEF Knows, Exclusion
  <1>3. OneClaim'
    BY DEF OneClaim, Knows
  <1>4. NeverInTwoFiles'
    BY DEF NeverInTwoFiles, Queued, Knows
  <1>5. GrantsMatch'
    BY DEF GrantsMatch, Knows
  <1>6. NothingLost'
    BY DEF NothingLost, Outstanding, InTransit, CarryPCs, Queued, Knows
  <1> QED BY <1>1, <1>2, <1>3, <1>4, <1>5, <1>6

(* Crash keeps the invariant. *)
LEMMA SafeCrash ==
  ASSUME Overlap \subseteq AppendersOverlap, IInv, TypeOK', NEW p \in Procs, Crash(p)
  PROVE  IInv'
  <1> USE DEF IInv, TypeOK, AppenderSteps, EnqueueSteps, ClaimSteps, CompleteSteps, FailSteps,
              ReclaimSteps, Crash, Goto, Return, files, WriteClaimed,
              AddLine, DropLines, NoLines, IsQueued
  <1>1. Exclusion'
    BY DEF Exclusion
  <1>2. \A q \in Procs : Knows(q)'
    BY DEF Knows, Exclusion
  <1>3. OneClaim'
    BY DEF OneClaim, Knows
  <1>4. NeverInTwoFiles'
    BY DEF NeverInTwoFiles, Queued, Knows
  <1>5. GrantsMatch'
    BY DEF GrantsMatch, Knows
  <1>6. NothingLost'
    BY DEF NothingLost, Outstanding, InTransit, CarryPCs, Queued, Knows
  <1> QED BY <1>1, <1>2, <1>3, <1>4, <1>5, <1>6

(* Age keeps the invariant. *)
LEMMA SafeAge ==
  ASSUME IInv, TypeOK', NEW i \in Items, Age(i)
  PROVE  IInv'
  <1> USE DEF IInv, Age
  <1>1. Exclusion' /\ OneClaim' /\ NeverInTwoFiles' /\ GrantsMatch'
    BY DEF Exclusion, OneClaim, NeverInTwoFiles, Queued, IsQueued, GrantsMatch
  <1>2. \A q \in Procs : Knows(q)'
    BY DEF Knows, IsQueued
  <1>3. NothingLost'
    BY DEF NothingLost, Outstanding, Queued, IsQueued, InTransit
  <1> QED BY <1>1, <1>2, <1>3

(* Stutter keeps the invariant. *)
LEMMA SafeStutter ==
  ASSUME IInv, TypeOK', UNCHANGED vars
  PROVE  IInv'
  <1> USE DEF IInv, vars
  <1>1. Exclusion' /\ OneClaim' /\ NeverInTwoFiles' /\ GrantsMatch'
    BY DEF Exclusion, OneClaim, NeverInTwoFiles, Queued, IsQueued, GrantsMatch
  <1>2. \A q \in Procs : Knows(q)'
    BY DEF Knows, IsQueued
  <1>3. NothingLost'
    BY DEF NothingLost, Outstanding, Queued, IsQueued, InTransit
  <1> QED BY <1>1, <1>2, <1>3

(* The invariant is inductive when callers overlap only as appenders.          *)
LEMMA InvariantStep ==
  ASSUME Overlap \subseteq AppendersOverlap
  PROVE  IInv /\ [Next]_vars => IInv'
  <1> SUFFICES ASSUME IInv, [Next]_vars PROVE IInv'
    OBVIOUS
  <1>0. TypeOK'
    BY TypeStep DEF IInv
  <1>1. ASSUME NEW p \in Procs, Enqueue(p) PROVE IInv'
    BY <1>0, <1>1, SafeEnqueueStart, SafeEnqueueReadClaimed, SafeEnqueueReadCompleted,
       SafeEnqueueAppend DEF Enqueue
  <1>2. ASSUME NEW p \in Procs, Claim(p) PROVE IInv'
    BY <1>0, <1>2, SafeClaimStart, SafeClaimReadPending, SafeClaimWritePending,
       SafeClaimWriteClaimed DEF Claim
  <1>3. ASSUME NEW p \in Procs, Finish(p) PROVE IInv'
    BY <1>0, <1>3, SafeFinishStart, SafeFinishWriteClaimed, SafeCompleteAppend,
       SafeFailAppend DEF Finish
  <1>4. ASSUME NEW p \in Procs, Reclaim(p) PROVE IInv'
    BY <1>0, <1>4, SafeReclaimStart, SafeReclaimReadPending, SafeReclaimWriteClaimed,
       SafeReclaimWritePending DEF Reclaim
  <1> QED BY <1>0, <1>1, <1>2, <1>3, <1>4, SafeCrash, SafeAge, SafeStutter DEF Next

(* The inductive invariant holds at the start... *)
LEMMA InvariantInit == Init => IInv
  BY ParamAssumption DEF Init, IInv, TypeOK, PCs, NoLines, Exclusion, Knows, ClaimSteps,
     OneClaim, NeverInTwoFiles, Queued, IsQueued, GrantsMatch, NothingLost

(* ...and in every reachable state. *)
LEMMA InvariantImplies ==
  ASSUME IInv
  PROVE  ClaimExclusive
  <1>1. \A i \in Items : grants[i] <= 1
    BY DEF IInv, GrantsMatch
  <1>2. ASSUME NEW i \in claimed \cup InTransit, NEW j \in claimed \cup InTransit
        PROVE  i = j
    BY DEF IInv, OneClaim, InTransit, CarryPCs, Knows, Exclusion, ClaimSteps, AppenderSteps,
           EnqueueSteps, CompleteSteps, FailSteps
  <1> QED BY <1>1, <1>2 DEF ClaimExclusive

(* While at most an operator's enqueue runs beside another appender, no item   *)
(* is lost without a kill, whatever the number of items and processes.         *)
THEOREM AppendersLoseNothing ==
  ASSUME Overlap \subseteq AppendersOverlap
  PROVE  Spec => []NothingLost
  <1>1. IInv => NothingLost
    BY DEF IInv
  <1> QED BY <1>1, InvariantInit, InvariantStep, PTL DEF Spec

(* Under the same discipline, and kills or not, no move shows its item in both *)
(* pending.jsonl and claimed.jsonl.                                            *)
THEOREM AppendersNeverInTwoFiles ==
  ASSUME Overlap \subseteq AppendersOverlap
  PROVE  Spec => []NeverInTwoFiles
  <1>1. IInv => NeverInTwoFiles
    BY DEF IInv
  <1> QED BY <1>1, InvariantInit, InvariantStep, PTL DEF Spec

(* Under the same discipline, and kills or not, at most one item is claimed,   *)
(* moves in progress included, and to one caller.                              *)
THEOREM AppendersClaimExclusively ==
  ASSUME Overlap \subseteq AppendersOverlap
  PROVE  Spec => []ClaimExclusive
  BY InvariantInit, InvariantStep, InvariantImplies, PTL DEF Spec

(* Appends beside a move: one claim, whose item is in no other file. *)
THEOREM AppendersKeepOneClaim ==
  ASSUME Overlap \subseteq AppendersOverlap
  PROVE  Spec => []OneClaimOnePlace
  <1>1. Spec => [](ClaimExclusive /\ NeverInTwoFiles)
    BY AppendersClaimExclusively, AppendersNeverInTwoFiles, PTL
  <1> QED BY <1>1 DEF OneClaimOnePlace
-----------------------------------------------------------------------------
(* Serial callers: nothing is in progress when an operation starts.            *)
LEMMA StartAlone ==
  ASSUME Overlap = {}, TypeOK, NEW p \in Procs, NEW k \in Kinds, MayStart(p, k)
  PROVE  \A q \in Procs : pc[q] = "idle"
  <1>1. \A q \in Procs, other \in Kinds : pc[q] \notin Steps[other]
    BY DEF MayStart
  <1>2. \A q \in Procs :
           /\ pc[q] \notin EnqueueSteps /\ pc[q] \notin ClaimSteps
           /\ pc[q] \notin CompleteSteps /\ pc[q] \notin FailSteps /\ pc[q] \notin ReclaimSteps
    BY <1>1 DEF Kinds, Steps
  <1> QED BY <1>2 DEF TypeOK, PCs

(* EnqueueStart keeps the serial invariant. *)
LEMMA SerialEnqueueStart ==
  ASSUME Overlap = {}, SerialInv, IInv', NEW p \in Procs, NEW i \in Items, EnqueueStart(p, i)
  PROVE  SerialInv'
  <1> USE DEF SerialInv, IInv, TypeOK, EnqueueSteps, ClaimSteps, EnqueueStart, Goto, Return, files,
              WriteClaimed, AddLine, DropLines, NoLines, IsQueued
  <1>1. OneAtATime'
    BY StartAlone DEF OneAtATime, Kinds
  <1>2. \A q \in Procs : Carries(q)'
    BY StartAlone DEF Carries, Knows, OneAtATime, NeverInTwoFiles, Queued, CarryPCs, Kinds
  <1>3. CompletedIsFinal'
    BY StartAlone DEF CompletedIsFinal, Outstanding, Queued, InTransit, CarryPCs, Knows,
       Carries, OneAtATime, Kinds
  <1>4. NoPhantomWork'
    BY StartAlone DEF NoPhantomWork, Outstanding, Queued, InTransit, CarryPCs, Knows, Carries,
       OneAtATime, Kinds
  <1>5. NoDuplicateLines'
    BY StartAlone DEF NoDuplicateLines, Carries, Knows, Kinds
  <1> QED BY <1>1, <1>2, <1>3, <1>4, <1>5

(* EnqueueReadClaimed keeps the serial invariant. *)
LEMMA SerialEnqueueReadClaimed ==
  ASSUME Overlap = {}, SerialInv, IInv', NEW p \in Procs, EnqueueReadClaimed(p)
  PROVE  SerialInv'
  <1> USE DEF SerialInv, IInv, TypeOK, EnqueueSteps, ClaimSteps, EnqueueReadClaimed, Goto,
              Return, files,
              WriteClaimed, AddLine, DropLines, NoLines, IsQueued
  <1>1. OneAtATime'
    BY DEF OneAtATime
  <1>2. \A q \in Procs : Carries(q)'
    BY DEF Carries, Knows, OneAtATime, NeverInTwoFiles, Queued, CarryPCs
  <1>3. CompletedIsFinal'
    BY DEF CompletedIsFinal, Outstanding, Queued, InTransit, CarryPCs, Knows, Carries, OneAtATime
  <1>4. NoPhantomWork'
    BY DEF NoPhantomWork, Outstanding, Queued, InTransit, CarryPCs, Knows, Carries, OneAtATime
  <1>5. NoDuplicateLines'
    BY DEF NoDuplicateLines, Carries, Knows
  <1> QED BY <1>1, <1>2, <1>3, <1>4, <1>5

(* EnqueueReadCompleted keeps the serial invariant. *)
LEMMA SerialEnqueueReadCompleted ==
  ASSUME Overlap = {}, SerialInv, IInv', NEW p \in Procs, EnqueueReadCompleted(p)
  PROVE  SerialInv'
  <1> USE DEF SerialInv, IInv, TypeOK, EnqueueSteps, ClaimSteps, EnqueueReadCompleted, Goto,
              Return, files,
              WriteClaimed, AddLine, DropLines, NoLines, IsQueued
  <1>1. OneAtATime'
    BY DEF OneAtATime
  <1>2. \A q \in Procs : Carries(q)'
    BY DEF Carries, Knows, OneAtATime, NeverInTwoFiles, Queued, CarryPCs
  <1>3. CompletedIsFinal'
    BY DEF CompletedIsFinal, Outstanding, Queued, InTransit, CarryPCs, Knows, Carries, OneAtATime
  <1>4. NoPhantomWork'
    BY DEF NoPhantomWork, Outstanding, Queued, InTransit, CarryPCs, Knows, Carries, OneAtATime
  <1>5. NoDuplicateLines'
    BY DEF NoDuplicateLines, Carries, Knows
  <1> QED BY <1>1, <1>2, <1>3, <1>4, <1>5

(* EnqueueAppend keeps the serial invariant. *)
LEMMA SerialEnqueueAppend ==
  ASSUME Overlap = {}, SerialInv, IInv', NEW p \in Procs, EnqueueAppend(p)
  PROVE  SerialInv'
  <1> USE DEF SerialInv, IInv, TypeOK, EnqueueSteps, ClaimSteps, EnqueueAppend, Goto, Return, files,
              WriteClaimed, AddLine, DropLines, NoLines, IsQueued
  <1>1. OneAtATime'
    BY DEF OneAtATime
  <1>2. \A q \in Procs : Carries(q)'
    BY DEF Carries, Knows, OneAtATime, NeverInTwoFiles, Queued, CarryPCs
  <1>3. CompletedIsFinal'
    BY DEF CompletedIsFinal, Outstanding, Queued, InTransit, CarryPCs, Knows, Carries, OneAtATime
  <1>4. NoPhantomWork'
    BY DEF NoPhantomWork, Outstanding, Queued, InTransit, CarryPCs, Knows, Carries, OneAtATime
  <1>5. NoDuplicateLines'
    BY DEF NoDuplicateLines, Carries, Knows
  <1> QED BY <1>1, <1>2, <1>3, <1>4, <1>5

(* ClaimStart keeps the serial invariant. *)
LEMMA SerialClaimStart ==
  ASSUME Overlap = {}, SerialInv, IInv', NEW p \in Procs, NEW i \in Items, ClaimStart(p, i)
  PROVE  SerialInv'
  <1> USE DEF SerialInv, IInv, TypeOK, EnqueueSteps, ClaimSteps, ClaimStart, Goto, Return, files,
              WriteClaimed, AddLine, DropLines, NoLines, IsQueued
  <1>1. OneAtATime'
    BY StartAlone DEF OneAtATime, Kinds
  <1>2. \A q \in Procs : Carries(q)'
    BY StartAlone DEF Carries, Knows, OneAtATime, NeverInTwoFiles, Queued, CarryPCs, Kinds
  <1>3. CompletedIsFinal'
    BY StartAlone DEF CompletedIsFinal, Outstanding, Queued, InTransit, CarryPCs, Knows,
       Carries, OneAtATime, Kinds
  <1>4. NoPhantomWork'
    BY StartAlone DEF NoPhantomWork, Outstanding, Queued, InTransit, CarryPCs, Knows, Carries,
       OneAtATime, Kinds
  <1>5. NoDuplicateLines'
    BY StartAlone DEF NoDuplicateLines, Carries, Knows, Kinds
  <1> QED BY <1>1, <1>2, <1>3, <1>4, <1>5

(* ClaimReadPending keeps the serial invariant. *)
LEMMA SerialClaimReadPending ==
  ASSUME Overlap = {}, SerialInv, IInv', NEW p \in Procs, ClaimReadPending(p)
  PROVE  SerialInv'
  <1> USE DEF SerialInv, IInv, TypeOK, EnqueueSteps, ClaimSteps, ClaimReadPending, Goto,
              Return, files,
              WriteClaimed, AddLine, DropLines, NoLines, IsQueued
  <1>1. OneAtATime'
    BY DEF OneAtATime
  <1>2. \A q \in Procs : Carries(q)'
    <2>1. pc'[p] = "c_wpending" => hand[p] \subseteq Queued
      BY DEF Knows
    <2>2. Carries(p)'
      BY <2>1 DEF Carries, CarryPCs, Queued
    <2>3. ASSUME NEW q \in Procs, q # p PROVE Carries(q)'
      BY <2>3 DEF Carries, OneAtATime, CarryPCs, Queued
    <2> QED BY <2>2, <2>3
  <1>3. CompletedIsFinal'
    BY DEF CompletedIsFinal, Outstanding, Queued, InTransit, CarryPCs, Knows, Carries, OneAtATime
  <1>4. NoPhantomWork'
    BY DEF NoPhantomWork, Outstanding, Queued, InTransit, CarryPCs, Knows, Carries, OneAtATime
  <1>5. NoDuplicateLines'
    BY DEF NoDuplicateLines, Carries, Knows
  <1> QED BY <1>1, <1>2, <1>3, <1>4, <1>5

(* ClaimWritePending keeps the serial invariant. *)
LEMMA SerialClaimWritePending ==
  ASSUME Overlap = {}, SerialInv, IInv', NEW p \in Procs, ClaimWritePending(p)
  PROVE  SerialInv'
  <1> USE DEF SerialInv, IInv, TypeOK, EnqueueSteps, ClaimSteps, ClaimWritePending, Goto,
              Return, files,
              WriteClaimed, AddLine, DropLines, NoLines, IsQueued
  <1>1. OneAtATime'
    BY DEF OneAtATime
  <1>2. \A q \in Procs : Carries(q)'
    BY DEF Carries, Knows, OneAtATime, NeverInTwoFiles, Queued, CarryPCs
  <1>3. CompletedIsFinal'
    BY DEF CompletedIsFinal, Outstanding, Queued, InTransit, CarryPCs, Knows, Carries, OneAtATime
  <1>4. NoPhantomWork'
    BY DEF NoPhantomWork, Outstanding, Queued, InTransit, CarryPCs, Knows, Carries, OneAtATime
  <1>5. NoDuplicateLines'
    BY DEF NoDuplicateLines, Carries, Knows
  <1> QED BY <1>1, <1>2, <1>3, <1>4, <1>5

(* ClaimWriteClaimed keeps the serial invariant. *)
LEMMA SerialClaimWriteClaimed ==
  ASSUME Overlap = {}, SerialInv, IInv', NEW p \in Procs, ClaimWriteClaimed(p)
  PROVE  SerialInv'
  <1> USE DEF SerialInv, IInv, TypeOK, EnqueueSteps, ClaimSteps, ClaimWriteClaimed, Goto,
              Return, files,
              WriteClaimed, AddLine, DropLines, NoLines, IsQueued
  <1>1. OneAtATime'
    BY DEF OneAtATime
  <1>2. \A q \in Procs : Carries(q)'
    BY DEF Carries, Knows, OneAtATime, NeverInTwoFiles, Queued, CarryPCs
  <1>3. CompletedIsFinal'
    BY DEF CompletedIsFinal, Outstanding, Queued, InTransit, CarryPCs, Knows, Carries, OneAtATime
  <1>4. NoPhantomWork'
    BY DEF NoPhantomWork, Outstanding, Queued, InTransit, CarryPCs, Knows, Carries, OneAtATime
  <1>5. NoDuplicateLines'
    BY DEF NoDuplicateLines, Carries, Knows
  <1> QED BY <1>1, <1>2, <1>3, <1>4, <1>5

(* FinishStart keeps the serial invariant. *)
LEMMA SerialFinishStart ==
  ASSUME Overlap = {}, SerialInv, IInv', NEW p \in Procs, NEW i \in Items,
         NEW kind \in {"complete", "fail"}, FinishStart(p, i, kind)
  PROVE  SerialInv'
  <1> USE DEF SerialInv, IInv, TypeOK, EnqueueSteps, ClaimSteps, FinishStart, Goto, Return, files,
              WriteClaimed, AddLine, DropLines, NoLines, IsQueued
  <1>1. OneAtATime'
    BY StartAlone DEF OneAtATime, Kinds
  <1>2. \A q \in Procs : Carries(q)'
    BY StartAlone DEF Carries, Knows, OneAtATime, NeverInTwoFiles, Queued, CarryPCs, Kinds
  <1>3. CompletedIsFinal'
    BY StartAlone DEF CompletedIsFinal, Outstanding, Queued, InTransit, CarryPCs, Knows,
       Carries, OneAtATime, Kinds
  <1>4. NoPhantomWork'
    BY StartAlone DEF NoPhantomWork, Outstanding, Queued, InTransit, CarryPCs, Knows, Carries,
       OneAtATime, Kinds
  <1>5. NoDuplicateLines'
    BY StartAlone DEF NoDuplicateLines, Carries, Knows, Kinds
  <1> QED BY <1>1, <1>2, <1>3, <1>4, <1>5

(* FinishWriteClaimed keeps the serial invariant. *)
LEMMA SerialFinishWriteClaimed ==
  ASSUME Overlap = {}, SerialInv, IInv', NEW p \in Procs, FinishWriteClaimed(p)
  PROVE  SerialInv'
  <1> USE DEF SerialInv, IInv, TypeOK, EnqueueSteps, ClaimSteps, FinishWriteClaimed, Goto,
              Return, files,
              WriteClaimed, AddLine, DropLines, NoLines, IsQueued
  <1>1. OneAtATime'
    BY DEF OneAtATime
  <1>2. \A q \in Procs : Carries(q)'
    BY DEF Carries, Knows, OneAtATime, NeverInTwoFiles, Queued, CarryPCs
  <1>3. CompletedIsFinal'
    BY DEF CompletedIsFinal, Outstanding, Queued, InTransit, CarryPCs, Knows, Carries, OneAtATime
  <1>4. NoPhantomWork'
    BY DEF NoPhantomWork, Outstanding, Queued, InTransit, CarryPCs, Knows, Carries, OneAtATime
  <1>5. NoDuplicateLines'
    BY DEF NoDuplicateLines, Carries, Knows
  <1> QED BY <1>1, <1>2, <1>3, <1>4, <1>5

(* CompleteAppend keeps the serial invariant. *)
LEMMA SerialCompleteAppend ==
  ASSUME Overlap = {}, SerialInv, IInv', NEW p \in Procs, CompleteAppend(p)
  PROVE  SerialInv'
  <1> USE DEF SerialInv, IInv, TypeOK, EnqueueSteps, ClaimSteps, CompleteAppend, Goto, Return,
              files,
              WriteClaimed, AddLine, DropLines, NoLines, IsQueued
  <1>1. OneAtATime'
    BY DEF OneAtATime
  <1>2. \A q \in Procs : Carries(q)'
    BY DEF Carries, Knows, OneAtATime, NeverInTwoFiles, Queued, CarryPCs
  <1>3. CompletedIsFinal'
    <2>1. claimed' = {} /\ InTransit' = {}
      BY DEF Knows, InTransit, CarryPCs, OneAtATime
    <2>2. \A i \in completed' : ~IsQueued(i)'
      BY DEF CompletedIsFinal, Outstanding, Queued, Carries, CarryPCs
    <2> QED BY <2>1, <2>2 DEF CompletedIsFinal, Outstanding, Queued
  <1>4. NoPhantomWork'
    BY DEF NoPhantomWork, Outstanding, Queued, InTransit, CarryPCs, Knows, Carries, OneAtATime
  <1>5. NoDuplicateLines'
    BY DEF NoDuplicateLines, Carries, Knows
  <1> QED BY <1>1, <1>2, <1>3, <1>4, <1>5

(* FailAppend keeps the serial invariant. *)
LEMMA SerialFailAppend ==
  ASSUME Overlap = {}, SerialInv, IInv', NEW p \in Procs, FailAppend(p)
  PROVE  SerialInv'
  <1> USE DEF SerialInv, IInv, TypeOK, EnqueueSteps, ClaimSteps, FailAppend, Goto, Return, files,
              WriteClaimed, AddLine, DropLines, NoLines, IsQueued
  <1>1. OneAtATime'
    BY DEF OneAtATime
  <1>2. \A q \in Procs : Carries(q)'
    BY DEF Carries, Knows, OneAtATime, NeverInTwoFiles, Queued, CarryPCs
  <1>3. CompletedIsFinal'
    BY DEF CompletedIsFinal, Outstanding, Queued, InTransit, CarryPCs, Knows, Carries, OneAtATime
  <1>4. NoPhantomWork'
    BY DEF NoPhantomWork, Outstanding, Queued, InTransit, CarryPCs, Knows, Carries, OneAtATime
  <1>5. NoDuplicateLines'
    BY DEF NoDuplicateLines, Carries, Knows
  <1> QED BY <1>1, <1>2, <1>3, <1>4, <1>5

(* ReclaimStart keeps the serial invariant. *)
LEMMA SerialReclaimStart ==
  ASSUME Overlap = {}, SerialInv, IInv', NEW p \in Procs, ReclaimStart(p)
  PROVE  SerialInv'
  <1> USE DEF SerialInv, IInv, TypeOK, EnqueueSteps, ClaimSteps, ReclaimStart, Goto, Return, files,
              WriteClaimed, AddLine, DropLines, NoLines, IsQueued
  <1>1. OneAtATime'
    BY StartAlone DEF OneAtATime, Kinds
  <1>2. \A q \in Procs : Carries(q)'
    BY StartAlone DEF Carries, Knows, OneAtATime, NeverInTwoFiles, Queued, CarryPCs, Kinds
  <1>3. CompletedIsFinal'
    BY StartAlone DEF CompletedIsFinal, Outstanding, Queued, InTransit, CarryPCs, Knows,
       Carries, OneAtATime, Kinds
  <1>4. NoPhantomWork'
    BY StartAlone DEF NoPhantomWork, Outstanding, Queued, InTransit, CarryPCs, Knows, Carries,
       OneAtATime, Kinds
  <1>5. NoDuplicateLines'
    BY StartAlone DEF NoDuplicateLines, Carries, Knows, Kinds
  <1> QED BY <1>1, <1>2, <1>3, <1>4, <1>5

(* ReclaimReadPending keeps the serial invariant. *)
LEMMA SerialReclaimReadPending ==
  ASSUME Overlap = {}, SerialInv, IInv', NEW p \in Procs, ReclaimReadPending(p)
  PROVE  SerialInv'
  <1> USE DEF SerialInv, IInv, TypeOK, EnqueueSteps, ClaimSteps, ReclaimReadPending, Goto,
              Return, files,
              WriteClaimed, AddLine, DropLines, NoLines, IsQueued
  <1>1. OneAtATime'
    BY DEF OneAtATime
  <1>2. \A q \in Procs : Carries(q)'
    BY DEF Carries, Knows, OneAtATime, NeverInTwoFiles, Queued, CarryPCs
  <1>3. CompletedIsFinal'
    BY DEF CompletedIsFinal, Outstanding, Queued, InTransit, CarryPCs, Knows, Carries, OneAtATime
  <1>4. NoPhantomWork'
    BY DEF NoPhantomWork, Outstanding, Queued, InTransit, CarryPCs, Knows, Carries, OneAtATime
  <1>5. NoDuplicateLines'
    BY DEF NoDuplicateLines, Carries, Knows
  <1> QED BY <1>1, <1>2, <1>3, <1>4, <1>5

(* ReclaimWriteClaimed keeps the serial invariant. *)
LEMMA SerialReclaimWriteClaimed ==
  ASSUME Overlap = {}, SerialInv, IInv', NEW p \in Procs, ReclaimWriteClaimed(p)
  PROVE  SerialInv'
  <1> USE DEF SerialInv, IInv, TypeOK, EnqueueSteps, ClaimSteps, ReclaimWriteClaimed, Goto,
              Return, files,
              WriteClaimed, AddLine, DropLines, NoLines, IsQueued
  <1>1. OneAtATime'
    BY DEF OneAtATime
  <1>2. \A q \in Procs : Carries(q)'
    BY DEF Carries, Knows, OneAtATime, NeverInTwoFiles, Queued, CarryPCs
  <1>3. CompletedIsFinal'
    BY DEF CompletedIsFinal, Outstanding, Queued, InTransit, CarryPCs, Knows, Carries, OneAtATime
  <1>4. NoPhantomWork'
    BY DEF NoPhantomWork, Outstanding, Queued, InTransit, CarryPCs, Knows, Carries, OneAtATime
  <1>5. NoDuplicateLines'
    BY DEF NoDuplicateLines, Carries, Knows
  <1> QED BY <1>1, <1>2, <1>3, <1>4, <1>5

(* ReclaimWritePending keeps the serial invariant. *)
LEMMA SerialReclaimWritePending ==
  ASSUME Overlap = {}, SerialInv, IInv', NEW p \in Procs, ReclaimWritePending(p)
  PROVE  SerialInv'
  <1> USE DEF SerialInv, IInv, TypeOK, EnqueueSteps, ClaimSteps, ReclaimWritePending, Goto,
              Return, files,
              WriteClaimed, AddLine, DropLines, NoLines, IsQueued
  <1>1. OneAtATime'
    BY DEF OneAtATime
  <1>2. \A q \in Procs : Carries(q)'
    BY DEF Carries, Knows, OneAtATime, NeverInTwoFiles, Queued, CarryPCs
  <1>3. CompletedIsFinal'
    BY DEF CompletedIsFinal, Outstanding, Queued, InTransit, CarryPCs, Knows, Carries, OneAtATime
  <1>4. NoPhantomWork'
    BY DEF NoPhantomWork, Outstanding, Queued, InTransit, CarryPCs, Knows, Carries, OneAtATime
  <1>5. NoDuplicateLines'
    BY DEF NoDuplicateLines, Carries, Knows
  <1> QED BY <1>1, <1>2, <1>3, <1>4, <1>5

(* Crash keeps the serial invariant. *)
LEMMA SerialCrash ==
  ASSUME Overlap = {}, SerialInv, IInv', NEW p \in Procs, Crash(p)
  PROVE  SerialInv'
  <1> USE DEF SerialInv, IInv, TypeOK, EnqueueSteps, ClaimSteps, Crash, Goto, Return, files,
              WriteClaimed, AddLine, DropLines, NoLines, IsQueued
  <1>1. OneAtATime'
    BY DEF OneAtATime
  <1>2. \A q \in Procs : Carries(q)'
    BY DEF Carries, Knows, OneAtATime, NeverInTwoFiles, Queued, CarryPCs
  <1>3. CompletedIsFinal'
    BY DEF CompletedIsFinal, Outstanding, Queued, InTransit, CarryPCs, Knows, Carries, OneAtATime
  <1>4. NoPhantomWork'
    BY DEF NoPhantomWork, Outstanding, Queued, InTransit, CarryPCs, Knows, Carries, OneAtATime
  <1>5. NoDuplicateLines'
    BY DEF NoDuplicateLines, Carries, Knows
  <1> QED BY <1>1, <1>2, <1>3, <1>4, <1>5

(* Age keeps the serial invariant. *)
LEMMA SerialAge ==
  ASSUME SerialInv, IInv', NEW i \in Items, Age(i)
  PROVE  SerialInv'
  BY DEF SerialInv, Age, OneAtATime, Carries, CompletedIsFinal, NoPhantomWork, NoDuplicateLines,
         Outstanding, Queued, IsQueued, InTransit

(* Stutter keeps the serial invariant. *)
LEMMA SerialStutter ==
  ASSUME SerialInv, IInv', UNCHANGED vars
  PROVE  SerialInv'
  BY DEF SerialInv, vars, OneAtATime, Carries, CompletedIsFinal, NoPhantomWork,
         NoDuplicateLines, Outstanding, Queued, IsQueued, InTransit

(* The serial invariant is inductive when nothing overlaps... *)
LEMMA SerialStep ==
  ASSUME Overlap = {}
  PROVE  SerialInv /\ [Next]_vars => SerialInv'
  <1> SUFFICES ASSUME SerialInv, [Next]_vars PROVE SerialInv'
    OBVIOUS
  <1>0. IInv'
    BY InvariantStep DEF SerialInv
  <1>1. ASSUME NEW p \in Procs, Enqueue(p) PROVE SerialInv'
    BY <1>0, <1>1, SerialEnqueueStart, SerialEnqueueReadClaimed, SerialEnqueueReadCompleted,
       SerialEnqueueAppend DEF Enqueue
  <1>2. ASSUME NEW p \in Procs, Claim(p) PROVE SerialInv'
    BY <1>0, <1>2, SerialClaimStart, SerialClaimReadPending, SerialClaimWritePending,
       SerialClaimWriteClaimed DEF Claim
  <1>3. ASSUME NEW p \in Procs, Finish(p) PROVE SerialInv'
    BY <1>0, <1>3, SerialFinishStart, SerialFinishWriteClaimed, SerialCompleteAppend,
       SerialFailAppend DEF Finish
  <1>4. ASSUME NEW p \in Procs, Reclaim(p) PROVE SerialInv'
    BY <1>0, <1>4, SerialReclaimStart, SerialReclaimReadPending, SerialReclaimWriteClaimed,
       SerialReclaimWritePending DEF Reclaim
  <1> QED BY <1>0, <1>1, <1>2, <1>3, <1>4, SerialCrash, SerialAge, SerialStutter DEF Next

(* ...and holds at the start. *)
LEMMA SerialInit == Init => SerialInv
  BY InvariantInit DEF Init, SerialInv, OneAtATime, Carries, CarryPCs, EnqueueSteps,
     CompletedIsFinal, NoPhantomWork, NoDuplicateLines, Outstanding, Queued, IsQueued,
     InTransit, NoLines

(* Under serial callers, kills or not, a completed item is never worked again. *)
THEOREM SerialCompletedIsFinal ==
  ASSUME Overlap = {}
  PROVE  Spec => []CompletedIsFinal
  <1>1. SerialInv => CompletedIsFinal
    BY DEF SerialInv
  <1> QED BY <1>1, SerialInit, SerialStep, PTL DEF Spec

(* Under serial callers, kills or not, the queue holds only work someone asked *)
(* for.                                                                        *)
THEOREM SerialNoPhantomWork ==
  ASSUME Overlap = {}
  PROVE  Spec => []NoPhantomWork
  <1>1. SerialInv => NoPhantomWork
    BY DEF SerialInv
  <1> QED BY <1>1, SerialInit, SerialStep, PTL DEF Spec

(* Under serial callers, kills or not, pending.jsonl has one line per item.    *)
THEOREM SerialNoDuplicateLines ==
  ASSUME Overlap = {}
  PROVE  Spec => []NoDuplicateLines
  <1>1. SerialInv => NoDuplicateLines
    BY DEF SerialInv
  <1> QED BY <1>1, SerialInit, SerialStep, PTL DEF Spec

(* Serial callers leave the files consistent, however many are killed. *)
THEOREM SerialQueueConsistent ==
  ASSUME Overlap = {}
  PROVE  Spec => []QueueConsistent
  <1>1. Spec => [](TypeOK /\ NoDuplicateLines /\ NoPhantomWork /\ CompletedIsFinal)
    BY TypeCorrect, SerialNoDuplicateLines, SerialNoPhantomWork, SerialCompletedIsFinal, PTL
  <1> QED BY <1>1 DEF QueueConsistent
-----------------------------------------------------------------------------
(***************************************************************************)
(* Refinement.  With the others idle, an item's place depends on one        *)
(* process; a start, a read and every first write leave it alone.          *)
(***************************************************************************)
PlaceFor(p, i) ==
    IF i \in claimed \/ (pc[p] \in {"d_append", "f_append", "r_wpending"} /\ i \in hand[p])
    THEN "claimed"
    ELSE IF IsQueued(i) \/ (pc[p] = "c_wclaimed" /\ i \in hand[p]) THEN "pending"
    ELSE IF i \in completed THEN "completed"
    ELSE IF i \in failed THEN "failed"
    ELSE "absent"

(* With one process at work, an item's place depends on that process alone, *)
LEMMA PlaceByActive ==
  ASSUME NEW p \in Procs, \A q \in Procs : q # p => pc[q] = "idle"
  PROVE  \A i \in Items : PlaceOf(i) = PlaceFor(p, i)
  BY DEF PlaceOf, PlaceFor, CarriedFrom

(* in the next state too. *)
LEMMA PlaceByActivePrimed ==
  ASSUME NEW p \in Procs, \A q \in Procs : q # p => pc'[q] = "idle"
  PROVE  \A i \in Items : PlaceOf(i)' = PlaceFor(p, i)'
  BY DEF PlaceOf, PlaceFor, CarriedFrom

(* The abstract step each operation takes, with q the only process that moves. *)
LEMMA PlaceUnchanged ==
  ASSUME \A i \in Items : PlaceOf(i)' = PlaceOf(i)
  PROVE  Place' = Place
  BY DEF Place

(* EnqueueStart moves nothing in the abstract queue. *)
LEMMA QuietEnqueueStart ==
  ASSUME Overlap = {}, SerialInv, SerialInv', NEW p \in Procs, NEW i \in Items, EnqueueStart(p, i)
  PROVE  Place' = Place
  <1> USE DEF SerialInv, IInv, TypeOK, EnqueueStart, Goto, Return, files
  <1>1. \A q \in Procs : q # p => pc[q] = "idle" /\ pc'[q] = "idle"
    BY StartAlone DEF OneAtATime, Kinds
  <1>2. \A j \in Items : PlaceFor(p, j)' = PlaceFor(p, j)
    BY DEF PlaceFor, IsQueued, Knows, Carries, CarryPCs, EnqueueSteps, ClaimSteps, MayStart,
       WriteClaimed,
           DropLines, Queued
  <1> QED BY <1>1, <1>2, PlaceByActive, PlaceByActivePrimed, PlaceUnchanged

(* EnqueueReadClaimed moves nothing in the abstract queue. *)
LEMMA QuietEnqueueReadClaimed ==
  ASSUME Overlap = {}, SerialInv, SerialInv', NEW p \in Procs, EnqueueReadClaimed(p)
  PROVE  Place' = Place
  <1> USE DEF SerialInv, IInv, TypeOK, EnqueueReadClaimed, Goto, Return, files
  <1>1. \A q \in Procs : q # p => pc[q] = "idle" /\ pc'[q] = "idle"
    BY DEF OneAtATime
  <1>2. \A j \in Items : PlaceFor(p, j)' = PlaceFor(p, j)
    BY DEF PlaceFor, IsQueued, Knows, Carries, CarryPCs, EnqueueSteps, ClaimSteps, MayStart,
       WriteClaimed,
           DropLines, Queued
  <1> QED BY <1>1, <1>2, PlaceByActive, PlaceByActivePrimed, PlaceUnchanged

(* EnqueueReadCompleted moves nothing in the abstract queue. *)
LEMMA QuietEnqueueReadCompleted ==
  ASSUME Overlap = {}, SerialInv, SerialInv', NEW p \in Procs, EnqueueReadCompleted(p)
  PROVE  Place' = Place
  <1> USE DEF SerialInv, IInv, TypeOK, EnqueueReadCompleted, Goto, Return, files
  <1>1. \A q \in Procs : q # p => pc[q] = "idle" /\ pc'[q] = "idle"
    BY DEF OneAtATime
  <1>2. \A j \in Items : PlaceFor(p, j)' = PlaceFor(p, j)
    BY DEF PlaceFor, IsQueued, Knows, Carries, CarryPCs, EnqueueSteps, ClaimSteps, MayStart,
       WriteClaimed,
           DropLines, Queued
  <1> QED BY <1>1, <1>2, PlaceByActive, PlaceByActivePrimed, PlaceUnchanged

(* ClaimStart moves nothing in the abstract queue. *)
LEMMA QuietClaimStart ==
  ASSUME Overlap = {}, SerialInv, SerialInv', NEW p \in Procs, NEW i \in Items, ClaimStart(p, i)
  PROVE  Place' = Place
  <1> USE DEF SerialInv, IInv, TypeOK, ClaimStart, Goto, Return, files
  <1>1. \A q \in Procs : q # p => pc[q] = "idle" /\ pc'[q] = "idle"
    BY StartAlone DEF OneAtATime, Kinds
  <1>2. \A j \in Items : PlaceFor(p, j)' = PlaceFor(p, j)
    BY DEF PlaceFor, IsQueued, Knows, Carries, CarryPCs, EnqueueSteps, ClaimSteps, MayStart,
       WriteClaimed,
           DropLines, Queued
  <1> QED BY <1>1, <1>2, PlaceByActive, PlaceByActivePrimed, PlaceUnchanged

(* ClaimReadPending moves nothing in the abstract queue. *)
LEMMA QuietClaimReadPending ==
  ASSUME Overlap = {}, SerialInv, SerialInv', NEW p \in Procs, ClaimReadPending(p)
  PROVE  Place' = Place
  <1> USE DEF SerialInv, IInv, TypeOK, ClaimReadPending, Goto, Return, files
  <1>1. \A q \in Procs : q # p => pc[q] = "idle" /\ pc'[q] = "idle"
    BY DEF OneAtATime
  <1>2. \A j \in Items : PlaceFor(p, j)' = PlaceFor(p, j)
    BY DEF PlaceFor, IsQueued, Knows, Carries, CarryPCs, EnqueueSteps, ClaimSteps, MayStart,
       WriteClaimed,
           DropLines, Queued
  <1> QED BY <1>1, <1>2, PlaceByActive, PlaceByActivePrimed, PlaceUnchanged

(* ClaimWritePending moves nothing in the abstract queue. *)
LEMMA QuietClaimWritePending ==
  ASSUME Overlap = {}, SerialInv, SerialInv', NEW p \in Procs, ClaimWritePending(p)
  PROVE  Place' = Place
  <1> USE DEF SerialInv, IInv, TypeOK, ClaimWritePending, Goto, Return, files
  <1>1. \A q \in Procs : q # p => pc[q] = "idle" /\ pc'[q] = "idle"
    BY DEF OneAtATime
  <1>2. \A j \in Items : PlaceFor(p, j)' = PlaceFor(p, j)
    BY DEF PlaceFor, IsQueued, Knows, Carries, CarryPCs, EnqueueSteps, ClaimSteps, MayStart,
       WriteClaimed,
           DropLines, Queued
  <1> QED BY <1>1, <1>2, PlaceByActive, PlaceByActivePrimed, PlaceUnchanged

(* FinishStart moves nothing in the abstract queue. *)
LEMMA QuietFinishStart ==
  ASSUME Overlap = {}, SerialInv, SerialInv', NEW p \in Procs, NEW i \in Items,
         NEW kind \in {"complete", "fail"}, FinishStart(p, i, kind)
  PROVE  Place' = Place
  <1> USE DEF SerialInv, IInv, TypeOK, FinishStart, Goto, Return, files
  <1>1. \A q \in Procs : q # p => pc[q] = "idle" /\ pc'[q] = "idle"
    BY StartAlone DEF OneAtATime, Kinds
  <1>2. \A j \in Items : PlaceFor(p, j)' = PlaceFor(p, j)
    BY DEF PlaceFor, IsQueued, Knows, Carries, CarryPCs, EnqueueSteps, ClaimSteps, MayStart,
       WriteClaimed,
           DropLines, Queued
  <1> QED BY <1>1, <1>2, PlaceByActive, PlaceByActivePrimed, PlaceUnchanged

(* FinishWriteClaimed moves nothing in the abstract queue. *)
LEMMA QuietFinishWriteClaimed ==
  ASSUME Overlap = {}, SerialInv, SerialInv', NEW p \in Procs, FinishWriteClaimed(p)
  PROVE  Place' = Place
  <1> USE DEF SerialInv, IInv, TypeOK, FinishWriteClaimed, Goto, Return, files
  <1>1. \A q \in Procs : q # p => pc[q] = "idle" /\ pc'[q] = "idle"
    BY DEF OneAtATime
  <1>2. \A j \in Items : PlaceFor(p, j)' = PlaceFor(p, j)
    BY DEF PlaceFor, IsQueued, Knows, Carries, CarryPCs, EnqueueSteps, ClaimSteps, MayStart,
       WriteClaimed,
           DropLines, Queued
  <1> QED BY <1>1, <1>2, PlaceByActive, PlaceByActivePrimed, PlaceUnchanged

(* ReclaimStart moves nothing in the abstract queue. *)
LEMMA QuietReclaimStart ==
  ASSUME Overlap = {}, SerialInv, SerialInv', NEW p \in Procs, ReclaimStart(p)
  PROVE  Place' = Place
  <1> USE DEF SerialInv, IInv, TypeOK, ReclaimStart, Goto, Return, files
  <1>1. \A q \in Procs : q # p => pc[q] = "idle" /\ pc'[q] = "idle"
    BY StartAlone DEF OneAtATime, Kinds
  <1>2. \A j \in Items : PlaceFor(p, j)' = PlaceFor(p, j)
    BY DEF PlaceFor, IsQueued, Knows, Carries, CarryPCs, EnqueueSteps, ClaimSteps, MayStart,
       WriteClaimed,
           DropLines, Queued
  <1> QED BY <1>1, <1>2, PlaceByActive, PlaceByActivePrimed, PlaceUnchanged

(* ReclaimReadPending moves nothing in the abstract queue. *)
LEMMA QuietReclaimReadPending ==
  ASSUME Overlap = {}, SerialInv, SerialInv', NEW p \in Procs, ReclaimReadPending(p)
  PROVE  Place' = Place
  <1> USE DEF SerialInv, IInv, TypeOK, ReclaimReadPending, Goto, Return, files
  <1>1. \A q \in Procs : q # p => pc[q] = "idle" /\ pc'[q] = "idle"
    BY DEF OneAtATime
  <1>2. \A j \in Items : PlaceFor(p, j)' = PlaceFor(p, j)
    BY DEF PlaceFor, IsQueued, Knows, Carries, CarryPCs, EnqueueSteps, ClaimSteps, MayStart,
       WriteClaimed,
           DropLines, Queued
  <1> QED BY <1>1, <1>2, PlaceByActive, PlaceByActivePrimed, PlaceUnchanged

(* ReclaimWriteClaimed moves nothing in the abstract queue. *)
LEMMA QuietReclaimWriteClaimed ==
  ASSUME Overlap = {}, SerialInv, SerialInv', NEW p \in Procs, ReclaimWriteClaimed(p)
  PROVE  Place' = Place
  <1> USE DEF SerialInv, IInv, TypeOK, ReclaimWriteClaimed, Goto, Return, files
  <1>1. \A q \in Procs : q # p => pc[q] = "idle" /\ pc'[q] = "idle"
    BY DEF OneAtATime
  <1>2. \A j \in Items : PlaceFor(p, j)' = PlaceFor(p, j)
    BY DEF PlaceFor, IsQueued, Knows, Carries, CarryPCs, EnqueueSteps, ClaimSteps, MayStart,
       WriteClaimed,
           DropLines, Queued
  <1> QED BY <1>1, <1>2, PlaceByActive, PlaceByActivePrimed, PlaceUnchanged

(* A step that moves one item moves it in the abstract queue. *)
LEMMA PlaceMoves ==
  ASSUME NEW i \in Items, NEW to, PlaceOf(i)' = to,
         \A j \in Items : j # i => PlaceOf(j)' = PlaceOf(j)
  PROVE  Place' = [Place EXCEPT ![i] = to]
  BY DEF Place

(* EnqueueAppend is a step of the abstract queue. *)
LEMMA VisibleEnqueueAppend ==
  ASSUME Overlap = {}, SerialInv, SerialInv', NEW p \in Procs, EnqueueAppend(p)
  PROVE  [Abs!Next]_Place
  <1> USE DEF SerialInv, IInv, TypeOK, EnqueueAppend, Goto, Return, files
  <1>0. \A q \in Procs : q # p => pc[q] = "idle" /\ pc'[q] = "idle"
    BY DEF OneAtATime
  <1>1. CASE hand[p] = {}
    <2>1. \A j \in Items : PlaceFor(p, j)' = PlaceFor(p, j)
      BY <1>1 DEF PlaceFor, IsQueued, AddLine, Knows, ClaimSteps
    <2> QED BY ONLY p \in Procs, <1>0, <2>1, PlaceByActive, PlaceByActivePrimed,
                    PlaceUnchanged
  <1>2. CASE hand[p] # {}
    <2>1. PICK i \in Items : hand[p] = {i}
      BY <1>2 DEF Knows
    <2>2. /\ PlaceFor(p, i) \in {"absent", "failed"} /\ PlaceFor(p, i)' = "pending"
      <3>1. i \notin claimed /\ pending[i] = 0 /\ i \notin completed
        BY <2>1 DEF Knows, Carries, EnqueueSteps, IsQueued
      <3>2. claimed' = claimed /\ pending'[i] = 1 /\ pc'[p] = "idle"
        BY <2>1, <3>1 DEF AddLine
      <3>3. pc[p] = "e_append"
        OBVIOUS
      <3> QED BY ONLY <3>1, <3>2, <3>3 DEF PlaceFor, IsQueued
    <2>3. \A j \in Items : j # i => PlaceFor(p, j)' = PlaceFor(p, j)
      BY <2>1 DEF PlaceFor, IsQueued, AddLine, Knows, ClaimSteps
    <2>4. Place' = [Place EXCEPT ![i] = "pending"]
      BY ONLY p \in Procs, i \in Items, <1>0, <2>1, <2>2, <2>3, PlaceByActive,
         PlaceByActivePrimed, PlaceMoves
    <2>5. Abs!Add(i)
      BY <1>0, <2>2, <2>4, PlaceByActive DEF Abs!Add, Place
    <2> QED BY <2>5 DEF Abs!Next
  <1> QED BY <1>1, <1>2

(* ClaimWriteClaimed is a step of the abstract queue. *)
LEMMA VisibleClaimWriteClaimed ==
  ASSUME Overlap = {}, SerialInv, SerialInv', NEW p \in Procs, ClaimWriteClaimed(p)
  PROVE  [Abs!Next]_Place
  <1> USE DEF SerialInv, IInv, TypeOK, ClaimWriteClaimed, Goto, Return, files
  <1>0. \A q \in Procs : q # p => pc[q] = "idle" /\ pc'[q] = "idle"
    BY DEF OneAtATime
  <1>1. CASE hand[p] = {}
    <2>1. \A j \in Items : PlaceFor(p, j)' = PlaceFor(p, j)
      BY <1>1 DEF PlaceFor, IsQueued, AddLine, Knows, ClaimSteps
    <2> QED BY ONLY p \in Procs, <1>0, <2>1, PlaceByActive, PlaceByActivePrimed,
                    PlaceUnchanged
  <1>2. CASE hand[p] # {}
    <2>1. PICK i \in Items : hand[p] = {i}
      BY <1>2 DEF Knows
    <2>2. /\ PlaceFor(p, i) = "pending" /\ PlaceFor(p, i)' = "claimed"
          /\ \A j \in Items : PlaceFor(p, j) # "claimed"
      <3>1. claimed = {} /\ pending[i] = 0 /\ pc[p] = "c_wclaimed" /\ i \in hand[p]
        BY <2>1 DEF Knows, ClaimSteps, Carries, CarryPCs, IsQueued
      <3>2. i \in claimed'
        BY <2>1
      <3>3. PlaceFor(p, i) = "pending" /\ PlaceFor(p, i)' = "claimed"
        BY ONLY <3>1, <3>2 DEF PlaceFor, IsQueued
      <3>4. ASSUME NEW j \in Items PROVE PlaceFor(p, j) # "claimed"
        BY ONLY <3>1 DEF PlaceFor, IsQueued
      <3> QED BY <3>3, <3>4
    <2>3. \A j \in Items : j # i => PlaceFor(p, j)' = PlaceFor(p, j)
      BY <2>1 DEF PlaceFor, IsQueued, AddLine, Knows, ClaimSteps
    <2>4. Place' = [Place EXCEPT ![i] = "claimed"]
      BY ONLY p \in Procs, i \in Items, <1>0, <2>1, <2>2, <2>3, PlaceByActive,
         PlaceByActivePrimed, PlaceMoves
    <2>5. Abs!Take(i)
      BY <1>0, <2>2, <2>4, PlaceByActive DEF Abs!Take, Place
    <2> QED BY <2>5 DEF Abs!Next
  <1> QED BY <1>1, <1>2

(* CompleteAppend is a step of the abstract queue. *)
LEMMA VisibleCompleteAppend ==
  ASSUME Overlap = {}, SerialInv, SerialInv', NEW p \in Procs, CompleteAppend(p)
  PROVE  [Abs!Next]_Place
  <1> USE DEF SerialInv, IInv, TypeOK, CompleteAppend, Goto, Return, files
  <1>0. \A q \in Procs : q # p => pc[q] = "idle" /\ pc'[q] = "idle"
    BY DEF OneAtATime
  <1>1. CASE hand[p] = {}
    <2>1. \A j \in Items : PlaceFor(p, j)' = PlaceFor(p, j)
      BY <1>1 DEF PlaceFor, IsQueued, AddLine, Knows, ClaimSteps
    <2> QED BY ONLY p \in Procs, <1>0, <2>1, PlaceByActive, PlaceByActivePrimed,
                    PlaceUnchanged
  <1>2. CASE hand[p] # {}
    <2>1. PICK i \in Items : hand[p] = {i}
      BY <1>2 DEF Knows
    <2>2. /\ PlaceFor(p, i) = "claimed" /\ PlaceFor(p, i)' = "completed"
      <3>0. Knows(p) /\ Carries(p) /\ pc[p] = "d_append" /\ pending[i] \in Nat
        OBVIOUS
      <3>1. claimed = {} /\ pending[i] = 0 /\ pc[p] = "d_append" /\ i \in hand[p]
        BY ONLY <2>1, <3>0 DEF Knows, Carries, CarryPCs, IsQueued
      <3>2. claimed' = {} /\ pending'[i] = 0 /\ pc'[p] = "idle" /\ i \in completed'
        BY <2>1, <3>1
      <3> QED BY ONLY <3>1, <3>2 DEF PlaceFor, IsQueued
    <2>3. \A j \in Items : j # i => PlaceFor(p, j)' = PlaceFor(p, j)
      BY <2>1 DEF PlaceFor, IsQueued, AddLine, Knows, ClaimSteps
    <2>4. Place' = [Place EXCEPT ![i] = "completed"]
      BY ONLY p \in Procs, i \in Items, <1>0, <2>1, <2>2, <2>3, PlaceByActive,
         PlaceByActivePrimed, PlaceMoves
    <2>5. Abs!Finish(i)
      BY <1>0, <2>2, <2>4, PlaceByActive DEF Abs!Finish, Place
    <2> QED BY <2>5 DEF Abs!Next
  <1> QED BY <1>1, <1>2

(* FailAppend is a step of the abstract queue. *)
LEMMA VisibleFailAppend ==
  ASSUME Overlap = {}, SerialInv, SerialInv', NEW p \in Procs, FailAppend(p)
  PROVE  [Abs!Next]_Place
  <1> USE DEF SerialInv, IInv, TypeOK, FailAppend, Goto, Return, files
  <1>0. \A q \in Procs : q # p => pc[q] = "idle" /\ pc'[q] = "idle"
    BY DEF OneAtATime
  <1>1. CASE hand[p] = {}
    <2>1. \A j \in Items : PlaceFor(p, j)' = PlaceFor(p, j)
      BY <1>1 DEF PlaceFor, IsQueued, AddLine, Knows, ClaimSteps
    <2> QED BY ONLY p \in Procs, <1>0, <2>1, PlaceByActive, PlaceByActivePrimed,
                    PlaceUnchanged
  <1>2. CASE hand[p] # {}
    <2>1. PICK i \in Items : hand[p] = {i}
      BY <1>2 DEF Knows
    <2>2. /\ PlaceFor(p, i) = "claimed" /\ PlaceFor(p, i)' = "failed"
      <3>0. Knows(p) /\ Carries(p) /\ pc[p] = "f_append" /\ pending[i] \in Nat /\ CompletedIsFinal
        OBVIOUS
      <3>1. claimed = {} /\ pending[i] = 0 /\ pc[p] = "f_append" /\ i \in hand[p] /\ i \notin completed
        BY ONLY p \in Procs, i \in Items, <2>1, <3>0 DEF Knows, Carries, CarryPCs, IsQueued,
           CompletedIsFinal, InTransit
      <3>2. claimed' = {} /\ pending'[i] = 0 /\ pc'[p] = "idle" /\ i \in failed' /\ i \notin completed'
        BY <2>1, <3>1
      <3> QED BY ONLY <3>1, <3>2 DEF PlaceFor, IsQueued
    <2>3. \A j \in Items : j # i => PlaceFor(p, j)' = PlaceFor(p, j)
      BY <2>1 DEF PlaceFor, IsQueued, AddLine, Knows, ClaimSteps
    <2>4. Place' = [Place EXCEPT ![i] = "failed"]
      BY ONLY p \in Procs, i \in Items, <1>0, <2>1, <2>2, <2>3, PlaceByActive,
         PlaceByActivePrimed, PlaceMoves
    <2>5. Abs!Finish(i)
      BY <1>0, <2>2, <2>4, PlaceByActive DEF Abs!Finish, Place
    <2> QED BY <2>5 DEF Abs!Next
  <1> QED BY <1>1, <1>2

(* ReclaimWritePending is a step of the abstract queue. *)
LEMMA VisibleReclaimWritePending ==
  ASSUME Overlap = {}, SerialInv, SerialInv', NEW p \in Procs, ReclaimWritePending(p)
  PROVE  [Abs!Next]_Place
  <1> USE DEF SerialInv, IInv, TypeOK, ReclaimWritePending, Goto, Return, files
  <1>0. \A q \in Procs : q # p => pc[q] = "idle" /\ pc'[q] = "idle"
    BY DEF OneAtATime
  <1>1. CASE hand[p] = {}
    <2>1. \A j \in Items : PlaceFor(p, j)' = PlaceFor(p, j)
      BY <1>1 DEF PlaceFor, IsQueued, AddLine, Knows, ClaimSteps
    <2> QED BY ONLY p \in Procs, <1>0, <2>1, PlaceByActive, PlaceByActivePrimed,
                    PlaceUnchanged
  <1>2. CASE hand[p] # {}
    <2>1. PICK i \in Items : hand[p] = {i}
      BY <1>2 DEF Knows
    <2>2. /\ PlaceFor(p, i) = "claimed" /\ PlaceFor(p, i)' = "pending"
      <3>0. Knows(p) /\ Carries(p) /\ pc[p] = "r_wpending" /\ pending[i] \in Nat /\ CompletedIsFinal
        OBVIOUS
      <3>1. claimed = {} /\ pending[i] = 0 /\ pc[p] = "r_wpending" /\ i \in hand[p]
        BY ONLY p \in Procs, i \in Items, <2>1, <3>0 DEF Knows, Carries, CarryPCs, IsQueued
      <3>2. claimed' = {} /\ pending'[i] = 1 /\ pc'[p] = "idle"
        BY <2>1, <3>1 DEF Knows, AddLine
      <3> QED BY ONLY <3>1, <3>2 DEF PlaceFor, IsQueued
    <2>3. \A j \in Items : j # i => PlaceFor(p, j)' = PlaceFor(p, j)
      BY <2>1 DEF PlaceFor, IsQueued, AddLine, Knows, ClaimSteps
    <2>4. Place' = [Place EXCEPT ![i] = "pending"]
      BY ONLY p \in Procs, i \in Items, <1>0, <2>1, <2>2, <2>3, PlaceByActive,
         PlaceByActivePrimed, PlaceMoves
    <2>5. Abs!Reclaim(i)
      BY <1>0, <2>2, <2>4, PlaceByActive DEF Abs!Reclaim, Place
    <2> QED BY <2>5 DEF Abs!Next
  <1> QED BY <1>1, <1>2

(* Crash is a step of the abstract queue. *)
LEMMA VisibleCrash ==
  ASSUME Overlap = {}, SerialInv, SerialInv', NEW p \in Procs, Crash(p)
  PROVE  [Abs!Next]_Place
  <1> USE DEF SerialInv, IInv, TypeOK, Crash, Goto, Return, files
  <1>0. /\ \A q \in Procs : q # p => pc[q] = "idle" /\ pc'[q] = "idle"
        /\ MaxCrashes > 0
    BY ParamAssumption DEF OneAtATime
  <1>1. CASE hand[p] = {} \/ pc[p] \notin CarryPCs
    <2>1. \A j \in Items : PlaceFor(p, j)' = PlaceFor(p, j)
      BY <1>1 DEF PlaceFor, IsQueued, CarryPCs
    <2> QED BY ONLY p \in Procs, <1>0, <2>1, PlaceByActive, PlaceByActivePrimed, PlaceUnchanged
  <1>2. CASE hand[p] # {} /\ pc[p] \in CarryPCs
    <2>1. PICK i \in Items : hand[p] = {i}
      BY <1>2 DEF Knows
    <2>2. /\ PlaceFor(p, i) \in {"pending", "claimed"}
          /\ PlaceFor(p, i)' \in {"absent", "failed"}
      <3>1. /\ claimed = {} /\ pending[i] = 0 /\ i \notin completed /\ i \in hand[p]
            /\ pc[p] \in {"c_wclaimed", "d_append", "f_append", "r_wpending"}
        BY <1>2, <2>1 DEF Knows, Carries, CarryPCs, ClaimSteps, IsQueued, CompletedIsFinal,
           InTransit
      <3>2. claimed' = {} /\ pending'[i] = 0 /\ pc'[p] = "idle" /\ i \notin completed'
        BY <2>1, <3>1
      <3> QED BY ONLY <3>1, <3>2 DEF PlaceFor, IsQueued
    <2>3. \A j \in Items : j # i => PlaceFor(p, j)' = PlaceFor(p, j)
      BY <2>1 DEF PlaceFor, IsQueued
    <2>4. PICK left \in {"absent", "failed"} : Place' = [Place EXCEPT ![i] = left]
      BY ONLY p \in Procs, i \in Items, <1>0, <2>2, <2>3, PlaceByActive, PlaceByActivePrimed,
         PlaceMoves
    <2>5. Abs!Drop(i)
      BY <1>0, <2>2, <2>4, PlaceByActive DEF Abs!Drop, Place
    <2> QED BY <2>5 DEF Abs!Next
  <1> QED BY <1>1, <1>2

(* Every step of serial callers is a step of QueueSpec or a stutter. *)
LEMMA RefinementStep ==
  ASSUME Overlap = {}
  PROVE  SerialInv /\ SerialInv' /\ [Next]_vars => [Abs!Next]_Place
  <1> SUFFICES ASSUME SerialInv, SerialInv', [Next]_vars PROVE [Abs!Next]_Place
    OBVIOUS
  <1>1. ASSUME NEW p \in Procs, Enqueue(p) PROVE [Abs!Next]_Place
    BY <1>1, QuietEnqueueStart, QuietEnqueueReadClaimed, QuietEnqueueReadCompleted,
       VisibleEnqueueAppend DEF Enqueue
  <1>2. ASSUME NEW p \in Procs, Claim(p) PROVE [Abs!Next]_Place
    BY <1>2, QuietClaimStart, QuietClaimReadPending, QuietClaimWritePending,
       VisibleClaimWriteClaimed DEF Claim
  <1>3. ASSUME NEW p \in Procs, Finish(p) PROVE [Abs!Next]_Place
    BY <1>3, QuietFinishStart, QuietFinishWriteClaimed, VisibleCompleteAppend,
       VisibleFailAppend DEF Finish
  <1>4. ASSUME NEW p \in Procs, Reclaim(p) PROVE [Abs!Next]_Place
    BY <1>4, QuietReclaimStart, QuietReclaimReadPending, QuietReclaimWriteClaimed,
       VisibleReclaimWritePending DEF Reclaim
  <1>5. ASSUME NEW i \in Items, Age(i) PROVE Place' = Place
    BY <1>5 DEF Age, Place, PlaceOf, CarriedFrom, IsQueued
  <1>6. CASE UNCHANGED vars
    BY <1>6 DEF vars, Place, PlaceOf, CarriedFrom, IsQueued
  <1> QED BY <1>1, <1>2, <1>3, <1>4, <1>5, <1>6, VisibleCrash DEF Next

(* Under serial callers the file-level queue implements the one-step queue of  *)
(* QueueSpec, losing an item only if a kill may come.                          *)
THEOREM SerialImplementsQueueSpec ==
  ASSUME Overlap = {}
  PROVE  Spec => ImplementsQueueSpec
  <1>1. Init => Abs!Init
    BY DEF Init, Abs!Init, Place, PlaceOf, CarriedFrom, IsQueued, NoLines
  <1> QED BY <1>1, SerialInit, SerialStep, RefinementStep, PTL
          DEF Spec, ImplementsQueueSpec, Abs!Spec

-----------------------------------------------------------------------------
(* A killed operation loses at most what it carries.                           *)
Lost == owed \ (Outstanding \cup InTransit)
LossInv == IInv /\ IsFiniteSet(Lost) /\ Cardinality(Lost) <= crashes

(* EnqueueStart loses nothing. *)
LEMMA KeepsEnqueueStart ==
  ASSUME IInv, NEW p \in Procs, NEW i \in Items, EnqueueStart(p, i)
  PROVE  Lost' \subseteq Lost
  BY DEF Lost, IInv, TypeOK, Exclusion, Knows, AppenderSteps, EnqueueSteps, ClaimSteps, CompleteSteps, FailSteps,
     ReclaimSteps, EnqueueStart, Goto, Return, files, WriteClaimed, AddLine, DropLines, NoLines, IsQueued,
     Outstanding, InTransit, CarryPCs, Queued, MayStart

(* EnqueueReadClaimed loses nothing. *)
LEMMA KeepsEnqueueReadClaimed ==
  ASSUME IInv, NEW p \in Procs, EnqueueReadClaimed(p)
  PROVE  Lost' \subseteq Lost
  BY DEF Lost, IInv, TypeOK, Exclusion, Knows, AppenderSteps, EnqueueSteps, ClaimSteps, CompleteSteps, FailSteps,
     ReclaimSteps, EnqueueReadClaimed, Goto, Return, files, WriteClaimed, AddLine, DropLines, NoLines, IsQueued,
     Outstanding, InTransit, CarryPCs, Queued

(* EnqueueReadCompleted loses nothing. *)
LEMMA KeepsEnqueueReadCompleted ==
  ASSUME IInv, NEW p \in Procs, EnqueueReadCompleted(p)
  PROVE  Lost' \subseteq Lost
  BY DEF Lost, IInv, TypeOK, Exclusion, Knows, AppenderSteps, EnqueueSteps, ClaimSteps, CompleteSteps, FailSteps,
     ReclaimSteps, EnqueueReadCompleted, Goto, Return, files, WriteClaimed, AddLine, DropLines, NoLines, IsQueued,
     Outstanding, InTransit, CarryPCs, Queued

(* EnqueueAppend loses nothing. *)
LEMMA KeepsEnqueueAppend ==
  ASSUME IInv, NEW p \in Procs, EnqueueAppend(p)
  PROVE  Lost' \subseteq Lost
  BY DEF Lost, IInv, TypeOK, Exclusion, Knows, AppenderSteps, EnqueueSteps, ClaimSteps, CompleteSteps, FailSteps,
     ReclaimSteps, EnqueueAppend, Goto, Return, files, WriteClaimed, AddLine, DropLines, NoLines, IsQueued,
     Outstanding, InTransit, CarryPCs, Queued

(* ClaimStart loses nothing. *)
LEMMA KeepsClaimStart ==
  ASSUME IInv, NEW p \in Procs, NEW i \in Items, ClaimStart(p, i)
  PROVE  Lost' \subseteq Lost
  BY DEF Lost, IInv, TypeOK, Exclusion, Knows, AppenderSteps, EnqueueSteps, ClaimSteps, CompleteSteps, FailSteps,
     ReclaimSteps, ClaimStart, Goto, Return, files, WriteClaimed, AddLine, DropLines, NoLines, IsQueued,
     Outstanding, InTransit, CarryPCs, Queued, MayStart

(* ClaimReadPending loses nothing. *)
LEMMA KeepsClaimReadPending ==
  ASSUME IInv, NEW p \in Procs, ClaimReadPending(p)
  PROVE  Lost' \subseteq Lost
  BY DEF Lost, IInv, TypeOK, Exclusion, Knows, AppenderSteps, EnqueueSteps, ClaimSteps, CompleteSteps, FailSteps,
     ReclaimSteps, ClaimReadPending, Goto, Return, files, WriteClaimed, AddLine, DropLines, NoLines, IsQueued,
     Outstanding, InTransit, CarryPCs, Queued

(* ClaimWritePending loses nothing. *)
LEMMA KeepsClaimWritePending ==
  ASSUME IInv, NEW p \in Procs, ClaimWritePending(p)
  PROVE  Lost' \subseteq Lost
  BY DEF Lost, IInv, TypeOK, Exclusion, Knows, AppenderSteps, EnqueueSteps, ClaimSteps, CompleteSteps, FailSteps,
     ReclaimSteps, ClaimWritePending, Goto, Return, files, WriteClaimed, AddLine, DropLines, NoLines, IsQueued,
     Outstanding, InTransit, CarryPCs, Queued

(* ClaimWriteClaimed loses nothing. *)
LEMMA KeepsClaimWriteClaimed ==
  ASSUME IInv, NEW p \in Procs, ClaimWriteClaimed(p)
  PROVE  Lost' \subseteq Lost
  BY DEF Lost, IInv, TypeOK, Exclusion, Knows, AppenderSteps, EnqueueSteps, ClaimSteps, CompleteSteps, FailSteps,
     ReclaimSteps, ClaimWriteClaimed, Goto, Return, files, WriteClaimed, AddLine, DropLines, NoLines, IsQueued,
     Outstanding, InTransit, CarryPCs, Queued

(* FinishStart loses nothing. *)
LEMMA KeepsFinishStart ==
  ASSUME IInv, NEW p \in Procs, NEW i \in Items, NEW kind \in {"complete", "fail"}, FinishStart(p, i, kind)
  PROVE  Lost' \subseteq Lost
  BY DEF Lost, IInv, TypeOK, Exclusion, Knows, AppenderSteps, EnqueueSteps, ClaimSteps, CompleteSteps, FailSteps,
     ReclaimSteps, FinishStart, Goto, Return, files, WriteClaimed, AddLine, DropLines, NoLines, IsQueued,
     Outstanding, InTransit, CarryPCs, Queued

(* FinishWriteClaimed loses nothing. *)
LEMMA KeepsFinishWriteClaimed ==
  ASSUME IInv, NEW p \in Procs, FinishWriteClaimed(p)
  PROVE  Lost' \subseteq Lost
  BY DEF Lost, IInv, TypeOK, Exclusion, Knows, AppenderSteps, EnqueueSteps, ClaimSteps, CompleteSteps, FailSteps,
     ReclaimSteps, FinishWriteClaimed, Goto, Return, files, WriteClaimed, AddLine, DropLines, NoLines, IsQueued,
     Outstanding, InTransit, CarryPCs, Queued

(* CompleteAppend loses nothing. *)
LEMMA KeepsCompleteAppend ==
  ASSUME IInv, NEW p \in Procs, CompleteAppend(p)
  PROVE  Lost' \subseteq Lost
  BY DEF Lost, IInv, TypeOK, Exclusion, Knows, AppenderSteps, EnqueueSteps, ClaimSteps, CompleteSteps, FailSteps,
     ReclaimSteps, CompleteAppend, Goto, Return, files, WriteClaimed, AddLine, DropLines, NoLines, IsQueued,
     Outstanding, InTransit, CarryPCs, Queued

(* FailAppend loses nothing. *)
LEMMA KeepsFailAppend ==
  ASSUME IInv, NEW p \in Procs, FailAppend(p)
  PROVE  Lost' \subseteq Lost
  BY DEF Lost, IInv, TypeOK, Exclusion, Knows, AppenderSteps, EnqueueSteps, ClaimSteps, CompleteSteps, FailSteps,
     ReclaimSteps, FailAppend, Goto, Return, files, WriteClaimed, AddLine, DropLines, NoLines, IsQueued,
     Outstanding, InTransit, CarryPCs, Queued

(* ReclaimStart loses nothing. *)
LEMMA KeepsReclaimStart ==
  ASSUME IInv, NEW p \in Procs, ReclaimStart(p)
  PROVE  Lost' \subseteq Lost
  BY DEF Lost, IInv, TypeOK, Exclusion, Knows, AppenderSteps, EnqueueSteps, ClaimSteps, CompleteSteps, FailSteps,
     ReclaimSteps, ReclaimStart, Goto, Return, files, WriteClaimed, AddLine, DropLines, NoLines, IsQueued,
     Outstanding, InTransit, CarryPCs, Queued

(* ReclaimReadPending loses nothing. *)
LEMMA KeepsReclaimReadPending ==
  ASSUME IInv, NEW p \in Procs, ReclaimReadPending(p)
  PROVE  Lost' \subseteq Lost
  BY DEF Lost, IInv, TypeOK, Exclusion, Knows, AppenderSteps, EnqueueSteps, ClaimSteps, CompleteSteps, FailSteps,
     ReclaimSteps, ReclaimReadPending, Goto, Return, files, WriteClaimed, AddLine, DropLines, NoLines, IsQueued,
     Outstanding, InTransit, CarryPCs, Queued

(* ReclaimWriteClaimed loses nothing. *)
LEMMA KeepsReclaimWriteClaimed ==
  ASSUME IInv, NEW p \in Procs, ReclaimWriteClaimed(p)
  PROVE  Lost' \subseteq Lost
  BY DEF Lost, IInv, TypeOK, Exclusion, Knows, AppenderSteps, EnqueueSteps, ClaimSteps, CompleteSteps, FailSteps,
     ReclaimSteps, ReclaimWriteClaimed, Goto, Return, files, WriteClaimed, AddLine, DropLines, NoLines, IsQueued,
     Outstanding, InTransit, CarryPCs, Queued

(* ReclaimWritePending loses nothing. *)
LEMMA KeepsReclaimWritePending ==
  ASSUME IInv, NEW p \in Procs, ReclaimWritePending(p)
  PROVE  Lost' \subseteq Lost
  BY DEF Lost, IInv, TypeOK, Exclusion, Knows, AppenderSteps, EnqueueSteps, ClaimSteps, CompleteSteps, FailSteps,
     ReclaimSteps, ReclaimWritePending, Goto, Return, files, WriteClaimed, AddLine, DropLines, NoLines, IsQueued,
     Outstanding, InTransit, CarryPCs, Queued

(* A kill loses what its operation carries, which is one item at most. *)
LEMMA CrashLosesOne ==
  ASSUME IInv, NEW p \in Procs, Crash(p)
  PROVE  crashes' = crashes + 1 /\ \E S : Lost' \subseteq Lost \cup S /\ \A i, j \in S : i = j
  <1>1. Lost' \subseteq Lost \cup hand[p]
    BY DEF Lost, IInv, TypeOK, Crash, Return, Goto, files, Outstanding, InTransit, CarryPCs, Queued, IsQueued
  <1>2. \A i, j \in hand[p] : i = j
    BY DEF IInv, Knows
  <1> QED BY <1>1, <1>2 DEF Crash

LEMMA LossStep ==
  ASSUME Overlap \subseteq AppendersOverlap
  PROVE  LossInv /\ [Next]_vars => LossInv'
  <1> SUFFICES ASSUME LossInv, [Next]_vars PROVE LossInv'
    OBVIOUS
  <1>1. IInv /\ IInv' /\ crashes \in Nat /\ IsFiniteSet(Lost) /\ Cardinality(Lost) \in Nat /\ Cardinality(Lost) <= crashes
    BY InvariantStep, FS_CardinalityType DEF LossInv, IInv, TypeOK
  <1>2. ASSUME Lost' \subseteq Lost, crashes' = crashes PROVE LossInv'
    <2>1. IsFiniteSet(Lost') /\ Cardinality(Lost') <= Cardinality(Lost) /\ Cardinality(Lost') \in Nat
      BY <1>1, <1>2, FS_Subset, FS_CardinalityType
    <2> QED BY <1>1, <1>2, <2>1 DEF LossInv
  <1>3. ASSUME NEW p \in Procs, Crash(p) PROVE LossInv'
    <2>1. PICK S : Lost' \subseteq Lost \cup S /\ \A i, j \in S : i = j
      BY <1>1, <1>3, CrashLosesOne
    <2>2. crashes' = crashes + 1
      BY <1>3 DEF Crash
    <2>3. CASE S = {}
      <3>1. IsFiniteSet(Lost') /\ Cardinality(Lost') <= Cardinality(Lost) /\ Cardinality(Lost') \in Nat
        BY <1>1, <2>1, <2>3, FS_Subset, FS_CardinalityType
      <3> QED BY <1>1, <2>2, <3>1 DEF LossInv
    <2>4. CASE S # {}
      <3>1. PICK i : i \in S
        BY <2>4
      <3>2. S = {i}
        BY <2>1, <3>1
      <3>3. PICK lost : lost = Lost
        OBVIOUS
      <3>4. IsFiniteSet(lost) /\ Cardinality(lost) \in Nat /\ Cardinality(lost) <= crashes
        BY <1>1, <3>3
      <3>5. IsFiniteSet(lost \cup {i}) /\ Cardinality(lost \cup {i}) <= Cardinality(lost) + 1
        <4>1. /\ IsFiniteSet(lost \cup {i})
              /\ Cardinality(lost \cup {i}) = IF i \in lost THEN Cardinality(lost) ELSE Cardinality(lost) + 1
          BY <3>4, FS_AddElement
        <4> QED BY <3>4, <4>1
      <3>6. IsFiniteSet(Lost') /\ Cardinality(Lost') <= Cardinality(lost \cup {i}) /\ Cardinality(Lost') \in Nat
        BY <2>1, <3>2, <3>3, <3>5, FS_Subset, FS_CardinalityType
      <3>7. Cardinality(lost \cup {i}) \in Nat
        BY <3>5, FS_CardinalityType
      <3> QED BY <1>1, <2>2, <3>4, <3>5, <3>6, <3>7 DEF LossInv
    <2> QED BY <2>3, <2>4
  <1>4. ASSUME NEW p \in Procs, Enqueue(p) PROVE LossInv'
    <2>1. crashes' = crashes
      BY <1>4 DEF Enqueue, EnqueueStart, EnqueueReadClaimed, EnqueueReadCompleted, EnqueueAppend
    <2> QED BY <1>1, <1>2, <1>4, <2>1, KeepsEnqueueStart, KeepsEnqueueReadClaimed, KeepsEnqueueReadCompleted,
            KeepsEnqueueAppend DEF Enqueue
  <1>5. ASSUME NEW p \in Procs, Claim(p) PROVE LossInv'
    <2>1. crashes' = crashes
      BY <1>5 DEF Claim, ClaimStart, ClaimReadPending, ClaimWritePending, ClaimWriteClaimed
    <2> QED BY <1>1, <1>2, <1>5, <2>1, KeepsClaimStart, KeepsClaimReadPending, KeepsClaimWritePending,
            KeepsClaimWriteClaimed DEF Claim
  <1>6. ASSUME NEW p \in Procs, Finish(p) PROVE LossInv'
    <2>1. crashes' = crashes
      BY <1>6 DEF Finish, FinishStart, FinishWriteClaimed, CompleteAppend, FailAppend
    <2> QED BY <1>1, <1>2, <1>6, <2>1, KeepsFinishStart, KeepsFinishWriteClaimed, KeepsCompleteAppend,
            KeepsFailAppend DEF Finish
  <1>7. ASSUME NEW p \in Procs, Reclaim(p) PROVE LossInv'
    <2>1. crashes' = crashes
      BY <1>7 DEF Reclaim, ReclaimStart, ReclaimReadPending, ReclaimWriteClaimed, ReclaimWritePending
    <2> QED BY <1>1, <1>2, <1>7, <2>1, KeepsReclaimStart, KeepsReclaimReadPending, KeepsReclaimWriteClaimed,
            KeepsReclaimWritePending DEF Reclaim
  <1>8. ASSUME NEW i \in Items, Age(i) PROVE LossInv'
    <2>1. Lost' = Lost /\ crashes' = crashes
      BY <1>8 DEF Age, Lost, Outstanding, Queued, IsQueued, InTransit
    <2> QED BY <1>2, <2>1
  <1>9. CASE UNCHANGED vars
    <2>1. Lost' = Lost /\ crashes' = crashes
      BY <1>9 DEF vars, Lost, Outstanding, Queued, IsQueued, InTransit
    <2> QED BY <1>2, <2>1
  <1> QED BY <1>3, <1>4, <1>5, <1>6, <1>7, <1>8, <1>9 DEF Next

(* While at most an operator's enqueue runs beside another appender, every kill *)
(* loses at most the one item that its operation was moving, whatever the       *)
(* number of items, processes and kills.                                        *)
THEOREM AppendersLoseOnePerKill ==
  ASSUME Overlap \subseteq AppendersOverlap
  PROVE  Spec => []LossBounded
  <1>1. Init => LossInv
    <2> SUFFICES ASSUME Init PROVE LossInv
      OBVIOUS
    <2>1. Lost = {} /\ crashes = 0
      BY DEF Init, Lost
    <2> QED BY <2>1, InvariantInit, FS_EmptySet DEF LossInv
  <1>2. LossInv => LossBounded
    BY DEF LossInv, LossBounded, Lost
  <1> QED BY <1>1, <1>2, LossStep, PTL DEF Spec

=============================================================================
