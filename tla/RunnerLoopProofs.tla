--------------------------- MODULE RunnerLoopProofs ---------------------------
(***************************************************************************)
(* Theorems about the runner loop: its types and counters, the bound on    *)
(* blocked exits, the redispatch flag, and its use of the queue.           *)
(***************************************************************************)
EXTENDS RunnerLoop, TLAPS

(* The parameters, one by one. *)
LEMMA Params ==
  /\ NoItem \notin Items
  /\ MaxRedispatch \in Nat /\ MaxRedispatch > 0
  /\ MaxBlocks \in Nat /\ MaxBlocks > 0
  /\ MaxFails \in Nat /\ MaxFails > 0
  /\ MaxRestarts \in Nat /\ MayWin \in BOOLEAN
  BY RunnerAssumption

(* The initial state is well typed and its counters are in bounds. *)
LEMMA TypeInit == Init => TypeInv
  <1> SUFFICES ASSUME Init
               PROVE  TypeInv
    OBVIOUS
  <1> USE Params DEF Init
  <1>1. counter \in 0..MaxRedispatch /\ blocks \in 0..MaxBlocks
    OBVIOUS
  <1>2. fails \in 0..MaxFails /\ restarts \in 0..MaxRestarts /\ Counting
    BY DEF Counting
  <1> QED BY <1>1, <1>2 DEF TypeInv, TypeOK, Stages, Flags, Reasons, Statuses, NoExit

(* Every step of the loop and its environment keeps the types and counters. *)
LEMMA TypeStep == TypeInv /\ [Next]_vars => TypeInv'
  <1> SUFFICES ASSUME TypeInv, [Next]_vars
               PROVE  TypeInv'
    OBVIOUS
  <1> USE Params DEF TypeInv, TypeOK, Counting, Stages, Flags, Reasons, Statuses,
          Goto, queue, gate, shell, ghosts
  <1>1. CASE PassReviewGate
    BY <1>1 DEF PassReviewGate
  <1>2. CASE ReclaimStale
    BY <1>2 DEF ReclaimStale
  <1>3. CASE Scan
    BY <1>3 DEF Scan, MayEnqueue
  <1>4. CASE ConsumeFlag
    BY <1>4 DEF ConsumeFlag
  <1>5. CASE Spawn
    BY <1>5 DEF Spawn, NoExit
  <1>6. CASE SkipWhenStable
    BY <1>6 DEF SkipWhenStable
  <1>7. CASE StopCheck
    BY <1>7 DEF StopCheck
  <1>8. CASE CloseOut
    <2>1. /\ claimed' \subseteq Items /\ aged' \subseteq claimed'
          /\ completed' \subseteq Items /\ failed' \subseteq Items
      BY <1>8 DEF CloseOut, CloseQueue, CompleteClaim, FailClaim, Release
    <2>2. /\ counter' \in 0..MaxRedispatch /\ flag' \in Flags /\ review' \in BOOLEAN
          /\ flag' = "schema" => counter' < MaxRedispatch
      <3>1. CASE exit.status # "rejected"
        BY <1>8, <3>1 DEF CloseOut, CloseGate
      <3>2. CASE exit.status = "rejected"
        <4>1. counter' \in 1..MaxRedispatch
          BY <1>8, <3>2 DEF CloseOut, CloseGate
        <4> QED BY <1>8, <3>2, <4>1 DEF CloseOut, CloseGate
      <3> QED BY <3>1, <3>2
    <2>3. at' \in {"followup", "reviewcheck"} /\ owes' \subseteq {"closeout", "gate"}
      BY <1>8 DEF CloseOut
    <2> QED BY <1>8, <2>1, <2>2, <2>3 DEF CloseOut
  <1>9. CASE FollowUp
    BY <1>9 DEF FollowUp, MayEnqueue
  <1>10. CASE ReviewCheck
    BY <1>10 DEF ReviewCheck
  <1>11. CASE Classify
    BY <1>11 DEF Classify
  <1>12. CASE GatePasses
    BY <1>12 DEF GatePasses
  <1>13. CASE GateBlocks
    BY <1>13 DEF GateBlocks, BlockFlag, AtCeiling
  <1>14. CASE Dispatch
    BY <1>14 DEF Dispatch
  <1>15. CASE SessionEnds
    BY <1>15 DEF SessionEnds
  <1>16. CASE Resume
    BY <1>16 DEF Resume
  <1>17. CASE OperatorClears
    <2>1. counter' \in 0..MaxRedispatch /\ counter' <= counter
      BY <1>17 DEF OperatorClears
    <2>2. Counting'
      BY <1>17, <2>1 DEF OperatorClears
    <2> QED BY <1>17, <2>1, <2>2 DEF OperatorClears
  <1>18. CASE Restart
    <2>1. restarts' \in 0..MaxRestarts /\ blocks' \in 0..MaxBlocks /\ fails' \in 0..MaxFails
      BY <1>18 DEF Restart
    <2>2. at' \in Stages /\ forced' \in Flags /\ reason' \in Reasons /\ reenter' \in BOOLEAN
      BY <1>18 DEF Restart
    <2>3. Counting'
      BY <1>18 DEF Restart
    <2> QED BY <1>18, <2>1, <2>2, <2>3 DEF Restart
  <1>19. ASSUME NEW i \in Items, DirectorClaims(i)
         PROVE  TypeInv'
    BY <1>19 DEF DirectorClaims
  <1>20. ASSUME NEW i \in Items, DirectorEnqueues(i)
         PROVE  TypeInv'
    BY <1>20 DEF DirectorEnqueues
  <1>21. ASSUME NEW i \in Items, Age(i)
         PROVE  TypeInv'
    BY <1>21 DEF Age
  <1>22. CASE UNCHANGED vars
    BY <1>22 DEF vars
  <1> QED BY <1>1, <1>2, <1>3, <1>4, <1>5, <1>6, <1>7, <1>8, <1>9, <1>10, <1>11, <1>12, <1>13,
             <1>14, <1>15, <1>16, <1>17, <1>18, <1>19, <1>20, <1>21, <1>22
          DEF Next, Before, After

(* Every reachable state of the loop is well typed and its counters bounded. *)
THEOREM TypeCorrect == Spec => []TypeOK
  <1>1. TypeInv => TypeOK
    BY DEF TypeInv
  <1> QED BY <1>1, TypeInit, TypeStep, PTL DEF Spec
-----------------------------------------------------------------------------
(* Another runner process allows MaxBlocks more blocked exits. *)
LEMMA BlocksPerProcess ==
  ASSUME NEW r \in Nat
  PROVE  /\ MaxBlocks * (r + 1) = MaxBlocks * r + MaxBlocks
         /\ MaxBlocks * r \in Nat
         /\ MaxBlocks * (r + 1) \in Nat
  BY Params

(* No exit has been blocked and nothing waits for the operator at the start. *)
LEMMA GateInit == Init => GateInv
  <1> SUFFICES ASSUME Init
               PROVE  GateInv
    OBVIOUS
  <1>1. /\ MaxBlocks * 0 = 0
        /\ MaxBlocks * (0 + 1) = MaxBlocks
    BY Params
  <1> QED BY Params, <1>1 DEF Init, GateInv, Blocked, ReviewPlaces

(* Steps that leave the redispatch files, the counts and the forcing alone and  *)
(* move the loop between places of the same kind keep the gate invariant.       *)
LEMMA GateQuiet ==
  ASSUME GateInv, UNCHANGED <<flag, review, forced, blocks, streak, restarts>>,
         review => at' \in ReviewPlaces,
         at' \in {"top", "dispatch", "waiting"} =>
            at \in {"top", "dispatch", "waiting"} \/ flag # "none" \/ review \/ ~Blocked,
         at' \in {"reclaim", "scan", "flag"} =>
            at \in {"reclaim", "scan", "flag"} \/ (at = "top" /\ ~review),
         at' \in {"choose", "session"} => at \in {"choose", "session"}
  PROVE  GateInv'
  BY DEF GateInv, Blocked, ReviewPlaces

(* Every step keeps the gate invariant. *)
LEMMA GateStep == TypeInv /\ GateInv /\ [Next]_vars => GateInv'
  <1> SUFFICES ASSUME TypeInv, GateInv, [Next]_vars
               PROVE  GateInv'
    OBVIOUS
  <1> USE DEF Goto, queue, gate, shell, ghosts
  <1>t. restarts \in Nat /\ streak \in Nat /\ blocks \in 0..MaxBlocks
    BY Params DEF TypeInv, TypeOK
  <1>1. CASE PassReviewGate
    BY <1>1, GateQuiet DEF PassReviewGate
  <1>2. CASE ReclaimStale
    BY <1>2, GateQuiet DEF ReclaimStale, GateInv, ReviewPlaces
  <1>3. CASE Scan
    BY <1>3, GateQuiet DEF Scan, GateInv, ReviewPlaces
  <1>4. CASE ConsumeFlag
    BY <1>4 DEF ConsumeFlag, GateInv, Blocked, ReviewPlaces
  <1>5. CASE Spawn
    BY <1>5, GateQuiet DEF Spawn, GateInv, ReviewPlaces
  <1>6. CASE SkipWhenStable
    BY <1>6, GateQuiet DEF SkipWhenStable, MustSpawn, GateInv, ReviewPlaces
  <1>7. CASE StopCheck
    BY <1>7, GateQuiet DEF StopCheck, GateInv, ReviewPlaces
  <1>8. CASE CloseOut
    <2>1. ~review
      BY <1>8 DEF CloseOut, GateInv, ReviewPlaces
    <2>2. review' => flag' = "none"
      BY <1>8, <2>1 DEF CloseOut, CloseGate
    <2>3. at' \in {"followup", "reviewcheck"}
      BY <1>8 DEF CloseOut
    <2>4. UNCHANGED <<forced, blocks, streak, restarts>>
      BY <1>8 DEF CloseOut
    <2> QED BY <2>1, <2>2, <2>3, <2>4 DEF GateInv, ReviewPlaces
  <1>9. CASE FollowUp
    BY <1>9, GateQuiet DEF FollowUp, ReviewPlaces
  <1>10. CASE ReviewCheck
    BY <1>10, GateQuiet DEF ReviewCheck, ReviewPlaces
  <1>11. CASE Classify
    BY <1>11, GateQuiet DEF Classify, GateInv, ReviewPlaces
  <1>12. CASE GatePasses
    <2>1. ~review
      BY <1>12 DEF GatePasses, GateInv, ReviewPlaces
    <2>2. streak' = 0 /\ blocks' = 0 /\ UNCHANGED <<review, restarts>> /\ at' = "dispatch"
      BY <1>12 DEF GatePasses
    <2>3. 0 < MaxBlocks * (restarts + 1) /\ 0 <= MaxBlocks * restarts + 0
      BY <1>t, BlocksPerProcess, Params
    <2> QED BY <2>1, <2>2, <2>3 DEF GateInv, Blocked, ReviewPlaces
  <1>13. CASE GateBlocks
    <2> DEFINE base == MaxBlocks * restarts
    <2>1. ~review /\ streak < base + MaxBlocks /\ streak <= base + blocks /\ base \in Nat
      BY <1>13, <1>t, BlocksPerProcess DEF GateBlocks, GateInv, ReviewPlaces
    <2>2. /\ streak' = streak + 1 /\ restarts' = restarts /\ at' = "dispatch"
          /\ blocks' = IF blocks >= MaxBlocks THEN blocks ELSE blocks + 1
          /\ review' <=> blocks + 1 >= MaxBlocks
          /\ flag' = BlockFlag
      BY <1>13 DEF GateBlocks, AtCeiling
    <2> HIDE DEF base
    <2>3. streak' <= base + blocks'
      BY <2>1, <2>2, <1>t, Params
    <2>4. ~review' => streak' < base + MaxBlocks
      BY <2>1, <2>2, <1>t, Params
    <2>5. /\ review' => flag' = "none"
          /\ ~review' => flag' # "none"
      <3>1. CASE blocks + 1 >= MaxBlocks
        BY <2>2, <3>1 DEF BlockFlag, AtCeiling
      <3>2. CASE ~(blocks + 1 >= MaxBlocks)
        BY <2>2, <3>2 DEF BlockFlag, AtCeiling
      <3> QED BY <3>1, <3>2
    <2>6. base = MaxBlocks * restarts' /\ base + MaxBlocks = MaxBlocks * (restarts' + 1)
      BY <2>2, <1>t, BlocksPerProcess DEF base
    <2> QED BY <2>2, <2>3, <2>4, <2>5, <2>6 DEF GateInv, ReviewPlaces
  <1>14. CASE Dispatch
    BY <1>14, GateQuiet DEF Dispatch, ReviewPlaces
  <1>15. CASE SessionEnds
    BY <1>15, GateQuiet DEF SessionEnds, GateInv, ReviewPlaces
  <1>16. CASE Resume
    BY <1>16, GateQuiet DEF Resume, ReviewPlaces
  <1>17. CASE OperatorClears
    <2>1. 0 < MaxBlocks * (restarts + 1) /\ 0 <= MaxBlocks * restarts + blocks
      BY <1>t, BlocksPerProcess, Params
    <2> QED BY <1>17, <2>1 DEF OperatorClears, GateInv, Blocked, ReviewPlaces
  <1>18. CASE Restart
    <2> DEFINE base == MaxBlocks * restarts
               next == MaxBlocks * (restarts + 1)
    <2>1. base \in Nat /\ next = base + MaxBlocks /\ streak <= base + blocks
      BY <1>t, BlocksPerProcess DEF GateInv
    <2>2. MaxBlocks * ((restarts + 1) + 1) = next + MaxBlocks
      BY <1>t, BlocksPerProcess
    <2> HIDE DEF base, next
    <2>3. streak <= next + 0 /\ streak < next + MaxBlocks
      BY <2>1, <1>t, Params
    <2>4. /\ restarts' = restarts + 1 /\ blocks' = 0 /\ at' = "top"
          /\ UNCHANGED <<flag, review, streak>>
      BY <1>18 DEF Restart
    <2> QED BY <2>2, <2>3, <2>4, <1>t DEF next, GateInv, Blocked, ReviewPlaces
  <1>19. ASSUME NEW i \in Items, DirectorClaims(i)
         PROVE  GateInv'
    BY <1>19, GateQuiet DEF DirectorClaims, GateInv
  <1>20. ASSUME NEW i \in Items, DirectorEnqueues(i)
         PROVE  GateInv'
    BY <1>20, GateQuiet DEF DirectorEnqueues, GateInv
  <1>21. ASSUME NEW i \in Items, Age(i)
         PROVE  GateInv'
    BY <1>21, GateQuiet DEF Age, GateInv
  <1>22. CASE UNCHANGED vars
    BY <1>22, GateQuiet DEF vars, GateInv
  <1> QED BY <1>1, <1>2, <1>3, <1>4, <1>5, <1>6, <1>7, <1>8, <1>9, <1>10, <1>11, <1>12, <1>13,
             <1>14, <1>15, <1>16, <1>17, <1>18, <1>19, <1>20, <1>21, <1>22
          DEF Next, Before, After

(* No runner process starts a session after MaxBlocks exits in a row were       *)
(* blocked, until the operator has looked.                                      *)
THEOREM BlocksAreBounded == Spec => []BlocksBounded
  <1>1. GateInv => BlocksBounded
    BY DEF GateInv, BlocksBounded, ReviewPlaces
  <1> QED BY <1>1, TypeInit, TypeStep, GateInit, GateStep, PTL DEF Spec

(* post_director and the sign-off gate never leave a flag behind a review. *)
THEOREM ReviewLeavesNoFlag == Spec => []NoFlagBehindReview
  <1>1. GateInv => NoFlagBehindReview
    BY DEF GateInv, NoFlagBehindReview
  <1> QED BY <1>1, TypeInit, TypeStep, GateInit, GateStep, PTL DEF Spec

(* Blocked exits end, with the operator. *)
THEOREM BlocksAreEnded == Spec => []BlocksEnd
  <1>1. Spec => [](TypeOK /\ BlocksBounded /\ NoFlagBehindReview)
    BY TypeCorrect, BlocksAreBounded, ReviewLeavesNoFlag, PTL
  <1> QED BY <1>1 DEF BlocksEnd

(* The session after a blocked exit was forced, while the runner lives. *)
THEOREM BlocksAreCarried == Spec => []BlockCarried
  <1>1. GateInv => BlockCarried
    BY DEF GateInv, BlockCarried, Blocked
  <1> QED BY <1>1, TypeInit, TypeStep, GateInit, GateStep, PTL DEF Spec
-----------------------------------------------------------------------------
(* The four places, and what an item's membership in them says of the others. *)
places == <<pending, claimed, completed, failed>>

(* Steps that leave the four places alone stutter. *)
LEMMA PlaceUnchanged == UNCHANGED places => UNCHANGED Place
  BY DEF places, Place

(* A step that concerns one item changes that item's place only. *)
LEMMA PlaceMoves ==
  ASSUME NEW i \in Items, NEW v, Place'[i] = v,
         \A j \in Items \ {i} :
            /\ j \in pending' <=> j \in pending
            /\ j \in claimed' <=> j \in claimed
            /\ j \in completed' <=> j \in completed
            /\ j \in failed' <=> j \in failed
  PROVE  Place' = [Place EXCEPT ![i] = v]
  BY DEF Place

(* An enqueue adds an unknown item to pending. *)
LEMMA EnqueueAdds ==
  ASSUME TypeInv, QueueInv, MayEnqueue, UNCHANGED <<claimed, completed, failed>>
  PROVE  QueueInv' /\ [QueueView!Next]_Place
  <1>1. CASE UNCHANGED pending
    BY <1>1, PlaceUnchanged DEF places, QueueInv
  <1>2. ASSUME NEW i \in Items \ Known, pending' = pending \cup {i}
        PROVE  QueueInv' /\ [QueueView!Next]_Place
    <2>1. i \notin pending /\ i \notin claimed /\ i \notin completed
      BY DEF Known
    <2>2. QueueInv'
      BY <1>2, <2>1 DEF QueueInv
    <2>3. Place[i] \in {"absent", "failed"} /\ Place'[i] = "pending"
      BY <1>2, <2>1 DEF Place
    <2>4. Place' = [Place EXCEPT ![i] = "pending"]
      BY <1>2, <2>3, PlaceMoves
    <2> QED BY <2>2, <2>3, <2>4 DEF QueueView!Next, QueueView!Add
  <1> QED BY <1>1, <1>2 DEF MayEnqueue

(* A claim takes one pending item while none is claimed. *)
LEMMA ClaimTakes ==
  ASSUME TypeInv, QueueInv, NEW i \in Items, DirectorClaims(i)
  PROVE  QueueInv' /\ [QueueView!Next]_Place
  <1>1. /\ claimed = {} /\ i \in pending /\ i \notin completed
        /\ pending' = pending \ {i} /\ claimed' = {i} /\ UNCHANGED <<completed, failed>>
    BY DEF DirectorClaims, QueueInv
  <1>2. QueueInv'
    BY <1>1 DEF QueueInv
  <1>3. Place[i] = "pending" /\ Place'[i] = "claimed" /\ \A j \in Items : Place[j] # "claimed"
    BY <1>1 DEF Place
  <1>4. Place' = [Place EXCEPT ![i] = "claimed"]
    BY <1>1, <1>3, PlaceMoves
  <1> QED BY <1>2, <1>3, <1>4 DEF QueueView!Next, QueueView!Take

(* The reclaim puts the one claimed item back. *)
LEMMA ReclaimReturns ==
  ASSUME TypeInv, QueueInv, ReclaimStale
  PROVE  QueueInv' /\ [QueueView!Next]_Place
  <1>1. /\ pending' = pending \cup aged /\ claimed' = claimed \ aged
        /\ UNCHANGED <<completed, failed>>
        /\ aged \subseteq claimed /\ claimed \subseteq Items
    BY DEF ReclaimStale, TypeInv, TypeOK
  <1>2. QueueInv'
    BY <1>1 DEF QueueInv
  <1>3. CASE aged = {}
    BY <1>1, <1>2, <1>3, PlaceUnchanged DEF places
  <1>4. ASSUME NEW i \in aged
        PROVE  [QueueView!Next]_Place
    <2>1. aged = {i} /\ claimed = {i} /\ i \in Items
      BY <1>1 DEF QueueInv
    <2>2. Place[i] = "claimed" /\ Place'[i] = "pending"
      BY <1>1, <2>1 DEF Place
    <2>3. Place' = [Place EXCEPT ![i] = "pending"]
      BY <1>1, <2>1, <2>2, PlaceMoves
    <2> QED BY <2>1, <2>2, <2>3 DEF QueueView!Next, QueueView!Reclaim
  <1> QED BY <1>2, <1>3, <1>4

(* The close-out finishes the claimed item or leaves the queue alone. *)
LEMMA CloseOutFinishes ==
  ASSUME TypeInv, QueueInv, CloseOut
  PROVE  QueueInv' /\ [QueueView!Next]_Place
  <1>1. UNCHANGED pending /\ claimed \subseteq Items
    BY DEF CloseOut, TypeInv, TypeOK
  <1>2. ASSUME NEW S, CompleteClaim(S), UNCHANGED failed
        PROVE  QueueInv' /\ [QueueView!Next]_Place
    <2>1. claimed' = claimed \ (S \cap claimed) /\ completed' = completed \cup (S \cap claimed)
      BY <1>2 DEF CompleteClaim, Release
    <2>2. QueueInv'
      BY <1>1, <2>1 DEF QueueInv
    <2>3. CASE S \cap claimed = {}
      BY <1>1, <1>2, <2>1, <2>2, <2>3, PlaceUnchanged DEF places
    <2>4. ASSUME NEW i \in S \cap claimed
          PROVE  [QueueView!Next]_Place
      <3>1. claimed = {i} /\ S \cap claimed = {i} /\ i \in Items /\ i \notin pending
        BY <1>1 DEF QueueInv
      <3>2. Place[i] = "claimed" /\ Place'[i] = "completed"
        BY <1>1, <2>1, <3>1 DEF Place
      <3>3. Place' = [Place EXCEPT ![i] = "completed"]
        BY <1>1, <1>2, <2>1, <3>1, <3>2, PlaceMoves
      <3> QED BY <3>1, <3>2, <3>3 DEF QueueView!Next, QueueView!Finish
    <2> QED BY <2>2, <2>3, <2>4
  <1>3. ASSUME NEW S, FailClaim(S), UNCHANGED completed
        PROVE  QueueInv' /\ [QueueView!Next]_Place
    <2> DEFINE new == (S \cap claimed) \ failed
    <2>1. claimed' = claimed \ new /\ failed' = failed \cup new
      BY <1>3 DEF FailClaim, Release
    <2>2. QueueInv'
      BY <1>1, <1>3, <2>1 DEF QueueInv
    <2>3. CASE new = {}
      BY <1>1, <1>3, <2>1, <2>2, <2>3, PlaceUnchanged DEF places
    <2>4. ASSUME NEW i \in new
          PROVE  [QueueView!Next]_Place
      <3>1. claimed = {i} /\ new = {i} /\ i \in Items /\ i \notin pending /\ i \notin completed
        BY <1>1 DEF QueueInv
      <3>2. Place[i] = "claimed" /\ Place'[i] = "failed"
        BY <1>1, <1>3, <2>1, <3>1 DEF Place
      <3>3. Place' = [Place EXCEPT ![i] = "failed"]
        BY <1>1, <1>3, <2>1, <3>1, <3>2, PlaceMoves
      <3> QED BY <3>1, <3>2, <3>3 DEF QueueView!Next, QueueView!Finish
    <2> QED BY <2>2, <2>3, <2>4
  <1>4. CASE UNCHANGED <<claimed, completed, failed, aged>>
    BY <1>1, <1>4, PlaceUnchanged DEF places, QueueInv
  <1> QED BY <1>2, <1>3, <1>4 DEF CloseOut, CloseQueue

(* Every step keeps the queue invariant and is a step of QueueSpec or none. *)
LEMMA QueueStep == TypeInv /\ QueueInv /\ [Next]_vars => QueueInv' /\ [QueueView!Next]_Place
  <1> SUFFICES ASSUME TypeInv, QueueInv, [Next]_vars
               PROVE  QueueInv' /\ [QueueView!Next]_Place
    OBVIOUS
  <1>1. CASE UNCHANGED places
    BY <1>1, PlaceUnchanged DEF places, QueueInv
  <1>2. CASE Scan
    BY <1>2, EnqueueAdds DEF Scan
  <1>3. CASE FollowUp
    BY <1>3, EnqueueAdds DEF FollowUp
  <1>4. ASSUME NEW i \in Items, DirectorEnqueues(i)
        PROVE  QueueInv' /\ [QueueView!Next]_Place
    BY <1>4, EnqueueAdds DEF DirectorEnqueues, MayEnqueue
  <1>5. CASE ReclaimStale
    BY <1>5, ReclaimReturns
  <1>6. ASSUME NEW i \in Items, DirectorClaims(i)
        PROVE  QueueInv' /\ [QueueView!Next]_Place
    BY <1>6, ClaimTakes
  <1>7. CASE CloseOut
    BY <1>7, CloseOutFinishes
  <1>8. CASE PassReviewGate \/ ConsumeFlag \/ Spawn \/ SkipWhenStable
    BY <1>1, <1>8 DEF PassReviewGate, ConsumeFlag, Spawn, SkipWhenStable, places, queue
  <1>9. CASE StopCheck \/ ReviewCheck \/ Classify \/ GatePasses \/ GateBlocks \/ Dispatch
    BY <1>1, <1>9 DEF StopCheck, ReviewCheck, Classify, GatePasses, GateBlocks, Dispatch, places,
                      queue
  <1>10. CASE SessionEnds \/ Resume \/ OperatorClears \/ Restart \/ \E i \in Items : Age(i)
    BY <1>1, <1>10 DEF SessionEnds, Resume, OperatorClears, Restart, Age, places, queue
  <1>11. CASE UNCHANGED vars
    BY <1>1, <1>11 DEF vars, places, queue
  <1> QED BY <1>2, <1>3, <1>4, <1>5, <1>6, <1>7, <1>8, <1>9, <1>10, <1>11 DEF Next, Before, After

(* Whatever the Director, the operator and kills do, the loop uses the queue    *)
(* as QueueSpec allows: one claim at a time, and no completed item comes back.  *)
THEOREM LoopUsesQueueSpec == Spec => UsesQueueSpec
  <1>1. Init => QueueInv
    BY DEF Init, QueueInv
  <1> QED BY <1>1, TypeInit, TypeStep, QueueStep, PTL DEF Spec, UsesQueueSpec
=============================================================================
