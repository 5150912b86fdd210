--------------------------- MODULE CloseOutProofs ---------------------------
(***************************************************************************)
(* Theorems about the close-out, for any items, sessions, ceiling, number  *)
(* of cuts and of re-runs: what a session that ended hands on, that it is  *)
(* narrated once, that a re-run is a no-op, that redispatches end, and     *)
(* that the queue is used as QueueSpec allows.                             *)
(***************************************************************************)
EXTENDS CloseOut, TLAPS

-----------------------------------------------------------------------------
(* The invariants. *)

TypeInv ==
    /\ TypeOK
    /\ log \in [Headings -> Nat] /\ applied \in [Sids -> Nat]
    /\ answers \in Sids \cup {NoItem} /\ streak \in Nat
    /\ cut \in BOOLEAN /\ aborts \in Nat

Structural == {"log", "patch", "complete", "next", "fail", "diagnose"}
Rejecting == {"count", "flag", "review", "unflag"}
Deaths == {"recover_log", "recover_complete", "recover_next", "recover_review",
           "death_log", "death_fail", "death_diagnose"}

Done == Parsed /\ Accepted
Finishing == exit.status \in {"success", "partial"}

(* The branch the close-out is in says what kind of exit it is over.           *)
Branch ==
    /\ pc \in {"idle", "session", "read", "done"} \cup Structural \cup Rejecting \cup Deaths
    /\ pc \in Structural => Done
    /\ pc \in {"patch", "complete", "next"} => Finishing
    /\ pc = "next" => exit.status = "success" /\ exit.next # NoItem
    /\ pc \in {"fail", "diagnose"} => exit.status = "failure"
    /\ pc \in Rejecting => Parsed /\ ~Accepted
    /\ pc \in Deaths => exit = NoExit /\ claim \in WorkIds
    /\ pc \notin Deaths \cup {"done"} => claim = NoItem
    /\ pc = "done" /\ claim # NoItem => exit = NoExit
    /\ pc = "session" => exit = NoExit /\ flag = NoItem
    /\ cut => pc = "idle" /\ aborts > 0
    /\ Parsed => /\ exit.keeps => ExtendingPatches
                 /\ exit.sid \in exit.names /\ (~CrossReferences => exit.names = {exit.sid})

(* The queue's places, and the one claim. *)
QueueInv ==
    /\ pending \cap claimed = {} /\ pending \cap completed = {} /\ claimed \cap completed = {}
    /\ \A i, j \in claimed : i = j

(* What each effect leaves behind, from its step to the end of the close-out.  *)
Logged == exit.sid \in mentioned
Patched == ExtendingPatches \/ exit.sid \notin anchored
Closed == exit.item \notin claimed
FollowedOn == exit.next \in Ids => exit.next \in Known
FailedOnce == exit.item = NoItem \/ exit.item \in completed \cup failed \/ exit.item \notin claimed
Diagnosed == Diagnostic(exit.sid) \in Known \cup failed
Reviewed == Known \cap {DeathDiagnostic(claim), RecoveryReview(claim)} # {}

Settled ==
    /\ Logged
    /\ Finishing => Patched /\ Closed
    /\ exit.status = "success" => FollowedOn
    /\ exit.status = "failure" => FailedOnce /\ Diagnosed

Progress ==
    /\ pc \in Structural \ {"log"} => Logged
    /\ pc \in {"complete", "next"} => Patched
    /\ pc = "next" => Closed
    /\ pc = "diagnose" => FailedOnce
    /\ pc = "done" /\ Done => Settled
    /\ pc = "done" /\ claim # NoItem => Reviewed

(* A heading that log.md mentions has its one entry, and the others none.      *)
Narrated ==
    /\ \A h \in Headings : log[h] = 0 \/ (log[h] = 1 /\ h \in mentioned)
    /\ ~CrossReferences => \A h \in mentioned : log[h] = 1

(* Over a settled exit every effect is in place already.                       *)
Resting ==
    ~ExtendingPatches /\ before # Unsettled =>
        /\ before = Effects
        /\ Parsed => Accepted /\ Settled
        /\ ~Parsed => exit = Legacy \/ pc \in {"idle", "done"}

(* How often the current redispatch chain was counted. *)
CountFor(s) == IF counter.sid = s THEN counter.count ELSE 0

(* The redispatches in a row are at most the violations counted, but for a     *)
(* flag that outlived its review; and a review stops what could set a flag.    *)
Bounded ==
    /\ streak < MaxRedispatch + aborts
    /\ streak > 0 => answers # NoItem /\ streak <= CountFor(answers) + aborts
    /\ answers # NoItem /\ Parsed => exit.sid = answers
    /\ flag # NoItem => /\ Parsed /\ exit.sid = flag
                        /\ streak + 2 <= MaxRedispatch + aborts
                        /\ streak + 1 <= CountFor(flag) + aborts
    /\ pc = "flag" => /\ counter.sid = exit.sid /\ counter.count < MaxRedispatch
                      /\ streak + 1 <= counter.count + aborts

ReviewInv ==
    /\ pc \in {"review", "unflag"} => counter.sid = exit.sid /\ counter.count >= MaxRedispatch
    /\ review => /\ Parsed /\ ~Accepted
                 /\ counter.sid = exit.sid /\ counter.count >= MaxRedispatch
                 /\ pc \in {"idle", "read", "count", "review", "unflag", "done"}
                 /\ flag = NoItem \/ cut \/ pc \in {"read", "count", "review", "unflag"}
-----------------------------------------------------------------------------
(* The ids, and what an exit file can say.                                     *)
LEMMA Params ==
  /\ NoItem \notin Ids /\ Malformed \notin Ids /\ NoItem # Malformed
  /\ MaxRedispatch \in Nat /\ MaxRedispatch > 0 /\ MaxAborts \in Nat
  /\ WorkIds \subseteq Ids /\ NoItem \notin WorkIds /\ Malformed \notin WorkIds
  /\ \A i \in Items : <<"work", i>> \in WorkIds
  /\ \A s \in Sids : Diagnostic(s) \in WorkIds
  /\ \A i \in WorkIds : DeathDiagnostic(i) \in Ids /\ RecoveryReview(i) \in Ids
  /\ Sids \subseteq Headings
  /\ \A i \in WorkIds : Recovered(i) \in Headings /\ FailedDeath(i) \in Headings
  BY CloseOutAssumption DEF Ids, WorkIds, Headings

LEMMA ExitFacts ==
  ASSUME TypeOK
  PROVE  /\ Parsed <=> exit \in Exits
         /\ exit.status \in {"success", "partial", "failure"} => Parsed
         /\ exit = Legacy \/ exit = NoExit \/ Parsed
         /\ exit = NoExit => ~Parsed
         /\ exit = Legacy => ~Parsed
         /\ Parsed => /\ exit.sid \in Sids /\ exit.item \in WorkIds \cup {NoItem}
                      /\ exit.next \in WorkIds \cup {NoItem, Malformed}
                      /\ exit.names \subseteq Sids /\ exit.keeps \in BOOLEAN
  <1>1. exit \in Exits => Parsed
    BY DEF Exits, Parsed, Statuses
  <1>2. exit = NoExit => exit.status = "absent"
    BY DEF NoExit
  <1>3. exit = Legacy => exit.status = "legacy"
    BY DEF Legacy
  <1>4. exit \in Exits \/ exit = NoExit \/ exit = Legacy
    BY DEF TypeOK
  <1>5. exit \in Exits => /\ exit.sid \in Sids /\ exit.item \in WorkIds \cup {NoItem}
                          /\ exit.next \in WorkIds \cup {NoItem, Malformed}
                          /\ exit.names \subseteq Sids /\ exit.keeps \in BOOLEAN
    BY DEF Exits
  <1>6. exit.status \in {"success", "partial", "failure"} => Parsed
    BY DEF Parsed, Statuses
  <1>7. exit = NoExit => ~Parsed
    BY <1>2 DEF Parsed, Statuses
  <1>8. exit = Legacy => ~Parsed
    BY <1>3 DEF Parsed, Statuses
  <1> QED BY <1>1, <1>4, <1>5, <1>6, <1>7, <1>8

-----------------------------------------------------------------------------
(* Types.  What an effect may change is checked with it; the rest is unchanged. *)

LEMMA TypeInit == Init => TypeInv
  <1> SUFFICES ASSUME Init
               PROVE  TypeInv
    OBVIOUS
  <1>1. pending \subseteq Ids
    BY Params DEF Init
  <1>2. exit = NoExit
    BY DEF Init
  <1>3. log \in [Headings -> Nat] /\ applied \in [Sids -> Nat]
    BY DEF Init
  <1>4. counter.sid = "none" /\ counter.count = 0
    BY DEF Init
  <1>5. /\ claimed = {} /\ completed = {} /\ failed = {} /\ mentioned = {} /\ anchored = Sids
        /\ flag = NoItem /\ review = FALSE /\ claim = NoItem /\ used = {}
        /\ answers = NoItem /\ streak = 0 /\ cut = FALSE /\ aborts = 0
    BY DEF Init
  <1>6. review \in BOOLEAN /\ cut \in BOOLEAN
    BY DEF Init
  <1>7. TypeOK
    BY <1>1, <1>2, <1>3, <1>4, <1>5, <1>6 DEF TypeOK
  <1> QED BY <1>3, <1>5, <1>6, <1>7 DEF TypeInv

(* The appended log stays a count of entries of known headings. *)
LEMMA LogType ==
  ASSUME TypeInv, NEW h \in Headings, NEW N \in SUBSET Headings, AppendLog(h, N)
  PROVE  log' \in [Headings -> Nat] /\ mentioned' \subseteq Headings
  BY DEF TypeInv, TypeOK, AppendLog

(* Each of the queue's operations stays inside the ids. *)
LEMMA QueueType ==
  ASSUME TypeInv, NEW i,
         (i \in Ids /\ Enqueue(i)) \/ Complete(i) \/ Fail(i) \/ UNCHANGED queue
  PROVE  /\ pending' \subseteq Ids /\ claimed' \subseteq WorkIds
         /\ completed' \subseteq WorkIds /\ failed' \subseteq WorkIds
  BY DEF TypeInv, TypeOK, Enqueue, Complete, Fail, queue

LEMMA TypeStep == TypeInv /\ Branch /\ [Next]_vars => TypeInv'
  <1> SUFFICES ASSUME TypeInv, Branch, [Next]_vars
               PROVE  TypeInv'
    OBVIOUS
  <1>0. TypeOK
    BY DEF TypeInv
  <1> DEFINE QueueOK == /\ pending \subseteq Ids /\ claimed \subseteq WorkIds
                        /\ completed \subseteq WorkIds /\ failed \subseteq WorkIds
             MemoryOK == /\ log \in [Headings -> Nat] /\ mentioned \subseteq Headings
                         /\ applied \in [Sids -> Nat] /\ anchored \subseteq Sids
             GateOK == /\ counter.sid \in Sids \cup {"none"} /\ counter.count \in Nat
                       /\ flag \in Sids \cup {NoItem} /\ review \in BOOLEAN
             ExitOK == /\ exit \in {NoExit, Legacy} \/ exit \in Exits
                       /\ used \subseteq Sids
             ClaimOK == claim \in WorkIds \cup {NoItem}
             GhostOK == /\ answers \in Sids \cup {NoItem} /\ streak \in Nat
                        /\ cut \in BOOLEAN /\ aborts \in Nat
  <1>1. QueueOK /\ MemoryOK /\ GateOK /\ ExitOK /\ ClaimOK /\ GhostOK
    BY DEF TypeInv, TypeOK
  <1>2. QueueOK' /\ MemoryOK' /\ GateOK' /\ ExitOK' /\ ClaimOK' /\ GhostOK' => TypeInv'
    BY DEF TypeInv, TypeOK
  <1>3. UNCHANGED queue => QueueOK'
    BY <1>1 DEF queue
  <1>4. UNCHANGED memory => MemoryOK'
    BY <1>1 DEF memory
  <1>5. UNCHANGED gate => GateOK'
    BY <1>1 DEF gate
  <1>6. UNCHANGED <<exit, used>> => ExitOK'
    BY <1>1
  <1>7. UNCHANGED claim => ClaimOK'
    BY <1>1
  <1>8. UNCHANGED <<answers, streak, cut, aborts>> => GhostOK'
    BY <1>1
  <1>9. UNCHANGED ghosts => GhostOK'
    BY <1>8 DEF ghosts
  <1> HIDE DEF QueueOK, MemoryOK, GateOK, ExitOK, ClaimOK, GhostOK
  <1>10. ASSUME NEW i \in Items, EnqueueWork(i)
         PROVE  TypeInv'
    BY <1>10, <1>2, <1>4, <1>5, <1>6, <1>7, <1>8, QueueType, Params DEF EnqueueWork, QueueOK
  <1>11. CASE Reclaim
    BY <1>11, <1>1, <1>2, <1>4, <1>5, <1>6, <1>7, <1>8, Params DEF Reclaim, QueueOK
  <1>12. CASE OperatorClears
    <2>1. counter'.sid \in Sids \cup {"none"} /\ counter'.count \in Nat
      BY <1>12, <1>1 DEF OperatorClears, GateOK
    <2>2. GateOK'
      BY <1>12, <1>1, <2>1 DEF OperatorClears, GateOK
    <2>3. GhostOK'
      BY <1>12, <1>1 DEF OperatorClears, GhostOK
    <2> QED BY <1>12, <2>2, <2>3, <1>2, <1>3, <1>4, <1>6, <1>7 DEF OperatorClears
  <1>13. CASE SpawnDirector
    <2>1. GateOK' /\ ExitOK'
      BY <1>13, <1>1 DEF SpawnDirector, GateOK, ExitOK
    <2>2. answers' \in Sids \cup {NoItem} /\ streak' \in Nat /\ cut' \in BOOLEAN /\ aborts' \in Nat
      <3>1. cut' \in BOOLEAN
        BY <1>13 DEF SpawnDirector
      <3> QED BY <1>13, <1>1, <3>1 DEF SpawnDirector, GateOK, GhostOK
    <2>3. GhostOK'
      BY <2>2 DEF GhostOK
    <2> QED BY <1>13, <2>1, <2>3, <1>2, <1>3, <1>4, <1>7 DEF SpawnDirector
  <1>14. ASSUME NEW i \in WorkIds, DirectorClaims(i)
         PROVE  TypeInv'
    BY <1>14, <1>1, <1>2, <1>4, <1>5, <1>6, <1>7, <1>9 DEF DirectorClaims, QueueOK
  <1>15. CASE DirectorExits
    <2>1. SessionIds \subseteq Sids
      BY <1>1 DEF SessionIds, GhostOK
    <2>2. ExitOK'
      BY <1>15, <1>1, <2>1, Params DEF DirectorExits, ExitOK, QueueOK, Exits
    <2> QED BY <1>15, <2>2, <1>2, <1>3, <1>4, <1>5, <1>7, <1>9 DEF DirectorExits
  <1>16. CASE Decide
    BY <1>16, <1>1, <1>2, <1>3, <1>4, <1>5, <1>6 DEF Decide, QueueOK, ClaimOK, GhostOK
  <1>17. CASE WriteLog
    <2>1. log' \in [Headings -> Nat] /\ mentioned' \subseteq Headings
      BY <1>17, <1>0, ExitFacts, Params, LogType DEF WriteLog, Branch, Structural, Done
    <2> QED BY <1>17, <2>1, <1>1, <1>2, <1>3, <1>5, <1>6, <1>7, <1>9 DEF WriteLog, MemoryOK
  <1>18. CASE Patch
    <2>1. exit.sid \in Sids
      BY <1>18, <1>0, ExitFacts DEF Patch, Branch, Structural, Done
    <2>2. MemoryOK'
      BY <1>18, <1>1, <2>1 DEF Patch, MemoryOK
    <2> QED BY <1>18, <2>2, <1>2, <1>3, <1>5, <1>6, <1>7, <1>9 DEF Patch
  <1>19. CASE CompleteClaim
    BY <1>19, <1>2, <1>4, <1>5, <1>6, <1>7, <1>9, QueueType DEF CompleteClaim, QueueOK
  <1>20. CASE EnqueueNext
    <2>1. exit.next \in WorkIds \cup {Malformed}
      BY <1>20, <1>0, ExitFacts DEF EnqueueNext, Branch, Structural, Done
    <2> QED BY <1>20, <2>1, <1>2, <1>4, <1>5, <1>6, <1>7, <1>9, QueueType, Params DEF EnqueueNext, QueueOK
  <1>21. CASE FailClaim
    BY <1>21, <1>2, <1>4, <1>5, <1>6, <1>7, <1>9, QueueType DEF FailClaim, QueueOK
  <1>22. CASE EnqueueDiagnostic
    <2>1. Diagnostic(exit.sid) \in Ids
      BY <1>22, <1>0, ExitFacts, Params DEF EnqueueDiagnostic, Branch, Structural, Done
    <2> QED BY <1>22, <2>1, <1>2, <1>4, <1>5, <1>6, <1>7, <1>9, QueueType DEF EnqueueDiagnostic, QueueOK
  <1>23. CASE Rejected
    <2>1. exit.sid \in Sids
      BY <1>23, <1>0, ExitFacts DEF Rejected, CountViolation, FlagRedispatch, AskOperator, DropFlag,
                                    Branch, Rejecting
    <2>2. GateOK'
      <3>1. CASE CountViolation
        <4>1. counter'.sid \in Sids /\ counter'.count \in Nat
          BY <3>1, <1>1, <2>1 DEF CountViolation, GateOK
        <4> QED BY <3>1, <1>1, <4>1 DEF CountViolation, GateOK
      <3>2. CASE FlagRedispatch \/ DropFlag
        BY <3>2, <1>1, <2>1 DEF FlagRedispatch, DropFlag, GateOK
      <3>3. CASE AskOperator
        <4>1. review' \in BOOLEAN
          BY <3>3 DEF AskOperator
        <4> QED BY <3>3, <4>1, <1>1 DEF AskOperator, GateOK
      <3> QED BY <1>23, <3>1, <3>2, <3>3 DEF Rejected
    <2>3. UNCHANGED <<queue, memory, exit, used, claim, ghosts>>
      BY <1>23 DEF Rejected, CountViolation, FlagRedispatch, AskOperator, DropFlag
    <2> QED BY <2>2, <2>3, <1>2, <1>3, <1>4, <1>6, <1>7, <1>9
  <1>24. CASE RecoverLog \/ DeathLog
    <2>1. log' \in [Headings -> Nat] /\ mentioned' \subseteq Headings
      BY <1>24, Params, LogType DEF RecoverLog, DeathLog, Branch, Deaths
    <2> QED BY <1>24, <2>1, <1>1, <1>2, <1>3, <1>5, <1>6, <1>7, <1>9 DEF RecoverLog, DeathLog, MemoryOK
  <1>25. CASE RecoverComplete \/ DeathFail
    BY <1>25, <1>2, <1>4, <1>5, <1>6, <1>7, <1>9, QueueType DEF RecoverComplete, DeathFail, QueueOK
  <1>26. CASE RecoverNext \/ RecoverReview \/ DeathDiagnose
    <2>1. RecoveryReview(claim) \in Ids /\ DeathDiagnostic(claim) \in Ids
      BY <1>26, Params DEF RecoverNext, RecoverReview, DeathDiagnose, Branch, Deaths
    <2>2. QueueOK'
      BY <1>26, <2>1, QueueType, Params DEF RecoverNext, RecoverReview, DeathDiagnose, QueueOK
    <2> QED BY <1>26, <2>2, <1>2, <1>4, <1>5, <1>6, <1>7, <1>9 DEF RecoverNext, RecoverReview, DeathDiagnose
  <1>27. CASE Finished \/ CutShort \/ RunAgain
    <2>1. cut' \in BOOLEAN
      BY <1>27, <1>1 DEF Finished, CutShort, RunAgain, GhostOK
    <2>2. GhostOK' /\ ClaimOK'
      BY <1>27, <2>1, <1>1 DEF Finished, CutShort, RunAgain, ClaimOK, GhostOK
    <2> QED BY <1>27, <2>2, <1>2, <1>3, <1>4, <1>5, <1>6 DEF Finished, CutShort, RunAgain
  <1>28. CASE UNCHANGED vars
    BY <1>28, <1>2, <1>3, <1>4, <1>5, <1>6, <1>7, <1>9 DEF vars
  <1> QED BY <1>10, <1>11, <1>12, <1>13, <1>14, <1>15, <1>16, <1>17, <1>18, <1>19, <1>20, <1>21, <1>22,
             <1>23, <1>24, <1>25, <1>26, <1>27, <1>28 DEF Next, Structured, SilentDeath
-----------------------------------------------------------------------------
(* The steps that leave the exit file alone do not change what it says. *)
LEMMA SameExit ==
  ASSUME UNCHANGED exit
  PROVE  /\ Parsed' = Parsed /\ Accepted' = Accepted /\ Done' = Done /\ Finishing' = Finishing
  BY DEF Parsed, Accepted, Done, Finishing

LEMMA BranchInit == Init => Branch
  BY DEF Init, Branch, Structural, Rejecting, Deaths, Done, Parsed, NoExit, Statuses

LEMMA BranchStep == TypeInv /\ Branch /\ [Next]_vars => Branch'
  <1> SUFFICES ASSUME TypeInv, Branch, [Next]_vars
               PROVE  Branch'
    OBVIOUS
  <1> USE DEF Goto, Structural, Rejecting, Deaths
  <1>0. TypeOK
    BY DEF TypeInv
  <1>1. ASSUME pc' = pc, UNCHANGED <<exit, flag, claim, cut, aborts>>
        PROVE  Branch'
    BY <1>1, SameExit DEF Branch
  <1>2. CASE (\E i \in Items : EnqueueWork(i)) \/ Reclaim \/ \E i \in WorkIds : DirectorClaims(i)
    BY <1>1, <1>2 DEF EnqueueWork, Reclaim, DirectorClaims, gate, ghosts
  <1>3. CASE OperatorClears
    BY <1>1, <1>3 DEF OperatorClears
  <1>4. CASE SpawnDirector
    <2>1. ~Parsed'
      BY <1>4 DEF SpawnDirector, Parsed, NoExit, Statuses
    <2> QED BY <1>4, <2>1 DEF SpawnDirector, Branch
  <1>5. CASE DirectorExits
    <2>1. Parsed' => /\ exit'.keeps => ExtendingPatches
                     /\ exit'.sid \in exit'.names /\ (~CrossReferences => exit'.names = {exit'.sid})
      BY <1>5 DEF DirectorExits, Parsed, Statuses, NoExit, Legacy
    <2> QED BY <1>5, <2>1 DEF DirectorExits, Branch, ghosts
  <1>6. CASE Decide
    <2>1. /\ Parsed' = Parsed /\ Accepted' = Accepted /\ Done' = Done /\ exit' = exit /\ claim = NoItem
          /\ ~cut /\ ~cut'
      BY <1>6, SameExit DEF Decide, Branch
    <2>2. CASE exit = Legacy \/ (exit = NoExit /\ claimed = {})
      <3>1. pc' = "done" /\ UNCHANGED claim /\ ~Parsed
        BY <1>6, <2>2, <1>0, ExitFacts DEF Decide, NoExit, Legacy
      <3> QED BY <2>1, <3>1 DEF Branch, Done
    <2>3. CASE exit = NoExit /\ claimed # {}
      <3>1. claim' \in WorkIds /\ pc' \in {"recover_log", "death_log"}
        BY <1>6, <2>3, <1>0, ExitFacts DEF Decide, TypeOK, Legacy, NoExit
      <3> QED BY <2>1, <2>3, <3>1, <1>0, ExitFacts DEF Branch
    <2>4. CASE Parsed
      <3>1. UNCHANGED claim /\ IF Accepted THEN pc' = "log" ELSE pc' = "count"
        BY <1>6, <2>4, <1>0, ExitFacts DEF Decide
      <3> QED BY <2>1, <2>4, <3>1 DEF Branch, Done
    <2> QED BY <2>2, <2>3, <2>4, <1>0, ExitFacts
  <1>7. CASE Structured
    <2>1. /\ pc \in Structural /\ UNCHANGED <<exit, claim, cut, aborts, flag>>
          /\ Parsed' = Parsed /\ Accepted' = Accepted /\ Done' = Done
      BY <1>7, SameExit DEF Structured, WriteLog, Patch, CompleteClaim, EnqueueNext, FailClaim,
                            EnqueueDiagnostic, gate, ghosts
    <2>2. Done /\ exit.status \in {"success", "partial", "failure", "no_op"}
      BY <2>1 DEF Branch, Done, Accepted
    <2>3. CASE WriteLog
      BY <2>1, <2>2, <2>3 DEF WriteLog, Branch, Finishing
    <2>4. CASE CompleteClaim
      BY <2>1, <2>2, <2>4 DEF CompleteClaim, Branch, Finishing
    <2>5. CASE Patch \/ EnqueueNext \/ FailClaim \/ EnqueueDiagnostic
      BY <2>1, <2>2, <2>5 DEF Patch, EnqueueNext, FailClaim, EnqueueDiagnostic, Branch, Finishing
    <2> QED BY <1>7, <2>3, <2>4, <2>5 DEF Structured
  <1>8. CASE Rejected
    <2>1. /\ pc \in Rejecting /\ pc' \in {"review", "flag", "unflag", "done"}
          /\ UNCHANGED <<exit, claim, cut, aborts>>
          /\ Parsed' = Parsed /\ Accepted' = Accepted /\ Done' = Done
      BY <1>8, SameExit DEF Rejected, CountViolation, FlagRedispatch, AskOperator, DropFlag, ghosts
    <2> QED BY <2>1 DEF Branch
  <1>9. CASE SilentDeath
    <2>1. /\ pc \in Deaths /\ pc' \in Deaths \cup {"done"}
          /\ UNCHANGED <<exit, claim, cut, aborts, flag>>
          /\ Parsed' = Parsed /\ Accepted' = Accepted /\ Done' = Done
      BY <1>9, SameExit DEF SilentDeath, RecoverLog, RecoverComplete, RecoverNext, RecoverReview,
                            DeathLog, DeathFail, DeathDiagnose, gate, ghosts
    <2> QED BY <2>1 DEF Branch
  <1>10. CASE Finished
    BY <1>10, SameExit DEF Finished, Branch
  <1>11. CASE CutShort
    BY <1>11, SameExit DEF CutShort, Branch, TypeInv
  <1>12. CASE RunAgain
    BY <1>12, SameExit DEF RunAgain, Branch, gate
  <1>13. CASE UNCHANGED vars
    BY <1>1, <1>13 DEF vars, gate, ghosts
  <1> QED BY <1>2, <1>3, <1>4, <1>5, <1>6, <1>7, <1>8, <1>9, <1>10, <1>11, <1>12, <1>13 DEF Next

(* Every reachable state of the close-out is well typed, and the branch it is in *)
(* agrees with the exit file.                                                    *)
THEOREM TypeCorrect == Spec => [](TypeInv /\ Branch)
  BY TypeInit, TypeStep, BranchInit, BranchStep, PTL DEF Spec

-----------------------------------------------------------------------------
(* The queue: places stay apart, one item is claimed, and every step is one of *)
(* QueueSpec.                                                                  *)

LEMMA PlaceUnchanged == UNCHANGED queue => UNCHANGED Place
  BY DEF Place, queue

LEMMA PlaceMoves ==
  ASSUME NEW i \in Ids, NEW p,
         \A j \in Ids \ {i} : /\ (j \in pending') = (j \in pending)
                              /\ (j \in claimed') = (j \in claimed)
                              /\ (j \in completed') = (j \in completed)
                              /\ (j \in failed') = (j \in failed),
         Place'[i] = p
  PROVE  Place' = [Place EXCEPT ![i] = p]
  BY DEF Place

LEMMA Enqueued ==
  ASSUME QueueInv, NEW i \in Ids, Enqueue(i)
  PROVE  QueueInv' /\ [QueueView!Next]_Place
  <1>1. CASE i \in Known
    BY <1>1, PlaceUnchanged DEF Enqueue, QueueInv, queue
  <1>2. CASE i \notin Known
    <2>1. pending' = pending \cup {i} /\ UNCHANGED <<claimed, completed, failed>>
      BY <1>2 DEF Enqueue
    <2>2. QueueInv'
      BY <1>2, <2>1 DEF QueueInv, Known
    <2>3. Place[i] \in {"absent", "failed"} /\ Place'[i] = "pending"
      BY <1>2, <2>1 DEF Place, Known
    <2>4. Place' = [Place EXCEPT ![i] = "pending"]
      BY <2>1, <2>3, PlaceMoves
    <2> QED BY <2>2, <2>3, <2>4 DEF QueueView!Next, QueueView!Add
  <1> QED BY <1>1, <1>2

LEMMA CompletedOrNot ==
  ASSUME QueueInv, NEW i \in Ids, Complete(i)
  PROVE  QueueInv' /\ [QueueView!Next]_Place
  <1>1. CASE i \notin claimed
    BY <1>1, PlaceUnchanged DEF Complete, QueueInv, queue
  <1>2. CASE i \in claimed
    <2>1. claimed' = claimed \ {i} /\ completed' = completed \cup {i} /\ UNCHANGED <<pending, failed>>
      BY <1>2 DEF Complete
    <2>2. QueueInv'
      BY <1>2, <2>1 DEF QueueInv
    <2>3. Place[i] = "claimed" /\ Place'[i] = "completed"
      BY <1>2, <2>1 DEF Place, QueueInv
    <2>4. Place' = [Place EXCEPT ![i] = "completed"]
      BY <2>1, <2>3, PlaceMoves
    <2> QED BY <2>2, <2>3, <2>4 DEF QueueView!Next, QueueView!Finish
  <1> QED BY <1>1, <1>2

LEMMA FailedOrNot ==
  ASSUME QueueInv, NEW i \in Ids, Fail(i)
  PROVE  QueueInv' /\ [QueueView!Next]_Place
  <1>1. CASE i \notin claimed
    BY <1>1, PlaceUnchanged DEF Fail, QueueInv, queue
  <1>2. CASE i \in claimed
    <2>1. claimed' = claimed \ {i} /\ failed' = failed \cup {i} /\ UNCHANGED <<pending, completed>>
      BY <1>2 DEF Fail
    <2>2. QueueInv'
      BY <1>2, <2>1 DEF QueueInv
    <2>3. Place[i] = "claimed" /\ Place'[i] = "failed"
      BY <1>2, <2>1 DEF Place, QueueInv
    <2>4. Place' = [Place EXCEPT ![i] = "failed"]
      BY <2>1, <2>3, PlaceMoves
    <2> QED BY <2>2, <2>3, <2>4 DEF QueueView!Next, QueueView!Finish
  <1> QED BY <1>1, <1>2

LEMMA QueueStep ==
  TypeInv /\ Branch /\ QueueInv /\ [Next]_vars => QueueInv' /\ [QueueView!Next]_Place
  <1> SUFFICES ASSUME TypeInv, Branch, QueueInv, [Next]_vars
               PROVE  QueueInv' /\ [QueueView!Next]_Place
    OBVIOUS
  <1>0. TypeOK
    BY DEF TypeInv
  <1>1. CASE UNCHANGED queue
    BY <1>1, PlaceUnchanged DEF QueueInv, queue
  <1>2. ASSUME NEW i \in Items, EnqueueWork(i)
        PROVE  QueueInv' /\ [QueueView!Next]_Place
    BY <1>2, Params, Enqueued DEF EnqueueWork
  <1>3. CASE Reclaim
    <2>1. PICK i \in claimed : claimed = {i}
      BY <1>3 DEF Reclaim, QueueInv
    <2>2. i \in Ids /\ pending' = pending \cup {i} /\ claimed' = {} /\ UNCHANGED <<completed, failed>>
      BY <1>3, <2>1, <1>0, Params DEF Reclaim, TypeOK
    <2>3. QueueInv'
      BY <2>1, <2>2 DEF QueueInv
    <2>4. Place[i] = "claimed" /\ Place'[i] = "pending"
      BY <2>1, <2>2 DEF Place
    <2>5. Place' = [Place EXCEPT ![i] = "pending"]
      BY <2>1, <2>2, <2>4, PlaceMoves
    <2> QED BY <2>2, <2>3, <2>4, <2>5 DEF QueueView!Next, QueueView!Reclaim
  <1>4. ASSUME NEW i \in WorkIds, DirectorClaims(i)
        PROVE  QueueInv' /\ [QueueView!Next]_Place
    <2>1. /\ i \in Ids /\ i \in pending /\ claimed = {}
          /\ pending' = pending \ {i} /\ claimed' = {i} /\ UNCHANGED <<completed, failed>>
      BY <1>4, Params DEF DirectorClaims
    <2>2. QueueInv'
      BY <2>1 DEF QueueInv
    <2>3. Place[i] = "pending" /\ Place'[i] = "claimed" /\ \A j \in Ids : Place[j] # "claimed"
      BY <2>1 DEF Place
    <2>4. Place' = [Place EXCEPT ![i] = "claimed"]
      BY <2>1, <2>3, PlaceMoves
    <2> QED BY <2>1, <2>2, <2>3, <2>4 DEF QueueView!Next, QueueView!Take
  <1>5. CASE CompleteClaim
    <2>1. exit.item \in Ids \cup {NoItem}
      BY <1>5, <1>0, ExitFacts, Params DEF CompleteClaim, Branch, Structural, Done
    <2> QED BY <1>1, <1>5, <2>1, CompletedOrNot DEF CompleteClaim
  <1>6. CASE EnqueueNext
    <2>1. exit.next = Malformed \/ exit.next \in Ids
      BY <1>6, <1>0, ExitFacts, Params DEF EnqueueNext, Branch, Structural, Done
    <2> QED BY <1>1, <1>6, <2>1, Enqueued DEF EnqueueNext
  <1>7. CASE FailClaim
    <2>1. exit.item \in Ids \cup {NoItem}
      BY <1>7, <1>0, ExitFacts, Params DEF FailClaim, Branch, Structural, Done
    <2> QED BY <1>1, <1>7, <2>1, FailedOrNot DEF FailClaim
  <1>8. CASE EnqueueDiagnostic
    <2>1. Diagnostic(exit.sid) \in Ids
      BY <1>8, <1>0, ExitFacts, Params DEF EnqueueDiagnostic, Branch, Structural, Done
    <2> QED BY <1>1, <1>8, <2>1, Enqueued DEF EnqueueDiagnostic
  <1>9. CASE RecoverComplete \/ DeathFail
    <2>1. claim \in Ids
      BY <1>9, Params DEF RecoverComplete, DeathFail, Branch, Deaths
    <2> QED BY <1>1, <1>9, <2>1, CompletedOrNot, FailedOrNot DEF RecoverComplete, DeathFail
  <1>10. CASE RecoverNext
    <2>1. \A i \in Items : <<"work", i>> \in Ids
      BY Params
    <2> QED BY <1>1, <1>10, <2>1, Enqueued DEF RecoverNext
  <1>11. CASE RecoverReview \/ DeathDiagnose
    <2>1. RecoveryReview(claim) \in Ids /\ DeathDiagnostic(claim) \in Ids
      BY <1>11, Params DEF RecoverReview, DeathDiagnose, Branch, Deaths
    <2> QED BY <1>11, <2>1, Enqueued DEF RecoverReview, DeathDiagnose
  <1>12. CASE WriteLog \/ Patch \/ Rejected \/ RecoverLog \/ DeathLog
    BY <1>1, <1>12 DEF WriteLog, Patch, Rejected, CountViolation, FlagRedispatch, AskOperator, DropFlag,
                       RecoverLog, DeathLog
  <1>13. CASE OperatorClears \/ SpawnDirector \/ DirectorExits \/ Decide \/ Finished \/ CutShort \/ RunAgain
    BY <1>1, <1>13 DEF OperatorClears, SpawnDirector, DirectorExits, Decide, Finished, CutShort, RunAgain
  <1>14. CASE UNCHANGED vars
    BY <1>1, <1>14 DEF vars
  <1> QED BY <1>2, <1>3, <1>4, <1>5, <1>6, <1>7, <1>8, <1>9, <1>10, <1>11, <1>12, <1>13, <1>14
          DEF Next, Structured, SilentDeath

(* The close-outs, cut or run again, use the queue as QueueSpec allows: one    *)
(* claim at a time, and no completed item comes back.                          *)
THEOREM CloseOutUsesQueueSpec == Spec => UsesQueueSpec
  <1>1. Init => QueueInv
    BY DEF Init, QueueInv
  <1> QED BY <1>1, TypeInit, TypeStep, BranchInit, BranchStep, QueueStep, PTL DEF Spec, UsesQueueSpec

-----------------------------------------------------------------------------
(* What an accepted exit's close-out has done so far is still there. *)

LEMMA ProgressStep ==
  TypeInv /\ Branch /\ QueueInv /\ Progress /\ [Next]_vars => Progress'
  <1> SUFFICES ASSUME TypeInv, Branch, QueueInv, Progress, [Next]_vars
               PROVE  Progress'
    OBVIOUS
  <1> USE DEF Goto
  <1>0. TypeOK
    BY DEF TypeInv
  <1>1. ASSUME pc' \notin {"patch", "complete", "next", "fail", "diagnose", "done"}
        PROVE  Progress'
    BY <1>1 DEF Progress, Structural
  <1>2. ASSUME pc' = "done", ~Done', claim' = NoItem \/ Reviewed'
        PROVE  Progress'
    BY <1>2 DEF Progress, Structural
  <1>3. CASE pc \in {"idle", "session"}
    BY <1>1, <1>3 DEF Next, EnqueueWork, Reclaim, OperatorClears, SpawnDirector, DirectorClaims,
        DirectorExits, Decide, Structured, WriteLog, Patch, CompleteClaim, EnqueueNext, FailClaim,
        EnqueueDiagnostic, Rejected, CountViolation, FlagRedispatch, AskOperator, DropFlag, SilentDeath,
        RecoverLog, RecoverComplete, RecoverNext, RecoverReview, DeathLog, DeathFail, DeathDiagnose,
        Finished, CutShort, RunAgain, vars
  <1>4. CASE Decide
    <2>1. pc' = "done" => ~Done' /\ claim' = NoItem
      BY <1>4, <1>0, ExitFacts, SameExit DEF Decide, Branch, Done, Deaths
    <2>2. pc' \in {"done", "recover_log", "death_log", "log", "count"}
      BY <1>4 DEF Decide
    <2> QED BY <1>1, <1>2, <2>1, <2>2
  <1>5. CASE Structured
    <2>1. /\ pc \in Structural /\ Done /\ exit' = exit /\ claim' = NoItem /\ claim = NoItem
          /\ Finishing' = Finishing /\ Done'
          /\ exit.sid \in Sids /\ exit.item \in WorkIds \cup {NoItem}
          /\ exit.next \in WorkIds \cup {NoItem, Malformed}
      BY <1>5, <1>0, ExitFacts, SameExit DEF Structured, WriteLog, Patch, CompleteClaim, EnqueueNext,
             FailClaim, EnqueueDiagnostic, Branch, Done, Structural, Deaths
    <2>2. CASE WriteLog
      <3>1. Logged'
        <4>1. exit.sid \in exit.names
          BY <2>1 DEF Branch, Done
        <4> QED BY <2>1, <2>2, <4>1 DEF WriteLog, AppendLog, Logged
      <3>2. exit.status \in {"success", "partial", "failure", "no_op"}
        BY <2>1 DEF Done, Accepted
      <3>3. pc' \in {"patch", "fail", "done"} /\ (pc' = "done" => exit.status = "no_op")
        BY <2>2, <3>2 DEF WriteLog
      <3> QED BY <2>1, <3>1, <3>3 DEF Progress, Structural, Settled, Finishing
    <2>3. CASE Patch
      <3>1. exit.keeps => ExtendingPatches
        BY <2>1 DEF Branch, Done
      <3>2. Logged' /\ Patched'
        BY <2>1, <2>3, <3>1 DEF Patch, Progress, Structural, Logged, Patched
      <3>3. pc' = "complete"
        BY <2>3 DEF Patch
      <3> QED BY <3>2, <3>3 DEF Progress, Structural
    <2>4. CASE CompleteClaim
      <3>1. Logged' /\ Patched'
        BY <2>1, <2>4 DEF CompleteClaim, memory, Progress, Structural, Logged, Patched
      <3>2. Closed'
        BY <2>1, <2>4, <1>0, Params DEF CompleteClaim, Complete, queue, Closed, QueueInv, TypeOK
      <3>3. pc' = "done" /\ exit.status = "success" => exit.next \notin Ids
        BY <2>4, Params DEF CompleteClaim
      <3>4. pc' \in {"next", "done"} /\ Finishing
        BY <2>4 DEF CompleteClaim, Branch
      <3> QED BY <2>1, <3>1, <3>2, <3>3, <3>4 DEF Progress, Structural, Settled, FollowedOn, Finishing
    <2>5. CASE EnqueueNext
      <3>1. Logged' /\ Patched' /\ Closed'
        BY <2>1, <2>5 DEF EnqueueNext, Enqueue, queue, memory, Progress, Structural, Logged, Patched, Closed
      <3>2. FollowedOn'
        BY <2>1, <2>5, Params DEF EnqueueNext, Enqueue, Known, FollowedOn
      <3>3. pc' = "done" /\ exit.status = "success"
        BY <2>5 DEF EnqueueNext, Branch
      <3> QED BY <2>1, <3>1, <3>2, <3>3 DEF Progress, Structural, Settled
    <2>6. CASE FailClaim
      <3>1. Logged' /\ FailedOnce'
        BY <2>1, <2>6 DEF FailClaim, Fail, queue, memory, Progress, Structural, Logged, FailedOnce
      <3>2. pc' = "diagnose"
        BY <2>6 DEF FailClaim
      <3> QED BY <3>1, <3>2 DEF Progress, Structural
    <2>7. CASE EnqueueDiagnostic
      <3>1. Logged' /\ FailedOnce'
        BY <2>1, <2>7 DEF EnqueueDiagnostic, Enqueue, queue, memory, Progress, Structural, Logged, FailedOnce
      <3>2. Diagnosed'
        BY <2>1, <2>7 DEF EnqueueDiagnostic, Enqueue, queue, Known, Diagnosed
      <3>3. pc' = "done" /\ exit.status = "failure"
        BY <2>7 DEF EnqueueDiagnostic, Branch
      <3> QED BY <2>1, <3>1, <3>2, <3>3 DEF Progress, Structural, Settled, Finishing
    <2> QED BY <1>5, <2>2, <2>3, <2>4, <2>5, <2>6, <2>7 DEF Structured
  <1>6. CASE Rejected
    <2>1. ~Done' /\ claim' = NoItem /\ pc' \in {"review", "flag", "unflag", "done"}
      BY <1>6, SameExit DEF Rejected, CountViolation, FlagRedispatch, AskOperator, DropFlag, Branch, Rejecting,
             Deaths, Done
    <2> QED BY <1>1, <1>2, <2>1
  <1>7. CASE SilentDeath
    <2>1. ~Done' /\ claim' = claim /\ pc' \in Deaths \cup {"done"}
      BY <1>7, <1>0, ExitFacts, SameExit DEF SilentDeath, RecoverLog, RecoverComplete, RecoverNext,
             RecoverReview, DeathLog, DeathFail, DeathDiagnose, Branch, Deaths, Done
    <2>2. pc' = "done" => RecoverReview \/ DeathDiagnose
      BY <1>7 DEF SilentDeath, RecoverLog, RecoverComplete, RecoverNext, DeathLog, DeathFail
    <2>3. RecoverReview \/ DeathDiagnose => Reviewed'
      BY <2>1 DEF RecoverReview, DeathDiagnose, Enqueue, Known, Reviewed
    <2> QED BY <1>1, <1>2, <2>1, <2>2, <2>3 DEF Deaths
  <1>8. CASE Finished \/ CutShort \/ RunAgain
    BY <1>1, <1>8 DEF Finished, CutShort, RunAgain
  <1>9. CASE UNCHANGED vars
    BY <1>9, SameExit DEF vars, queue, memory, Progress, Structural, Settled, Logged, Patched, Closed,
           FollowedOn, FailedOnce, Diagnosed, Reviewed, Known
  <1> QED BY <1>3, <1>4, <1>5, <1>6, <1>7, <1>8, <1>9 DEF Next, EnqueueWork, Reclaim, OperatorClears,
             SpawnDirector, DirectorClaims, DirectorExits

(* At the end of a close-out: what is done is released, what follows is queued, *)
(* and a failure or a silent death has its review.                              *)
THEOREM EndsAreHandedOn == Spec => []EndIsHandedOn
  <1>1. Init => QueueInv /\ Progress
    BY DEF Init, QueueInv, Progress, Structural
  <1>2. TypeInv /\ Branch /\ Progress => EndIsHandedOn
    <2> SUFFICES ASSUME TypeInv, Branch, Progress
                 PROVE  EndIsHandedOn
      OBVIOUS
    <2>1. TypeOK
      BY DEF TypeInv
    <2>2. DoneReleasesClaim
      BY DEF Progress, Settled, Done, Finishing, Closed, DoneReleasesClaim, Ended
    <2>3. FollowOnKept
      <3>1. exit.status = "success" /\ exit.next \in Ids => Done
        BY <2>1, ExitFacts, Params DEF Done, Accepted
      <3> QED BY <3>1 DEF Progress, Settled, FollowedOn, FollowOnKept, Ended
    <2>4. FailureIsDiagnosed
      <3>1. exit.status = "failure" => Done
        BY <2>1, ExitFacts DEF Done, Accepted
      <3> QED BY <3>1 DEF Progress, Settled, Diagnosed, Reviewed, FailureIsDiagnosed, Ended
    <2> QED BY <2>1, <2>2, <2>3, <2>4 DEF EndIsHandedOn
  <1> QED BY <1>1, <1>2, TypeInit, TypeStep, BranchInit, BranchStep, QueueStep, ProgressStep, PTL DEF Spec

-----------------------------------------------------------------------------
(* The narrative. *)

(* The log gets an entry under a heading it did not mention, and mentions it. *)
LEMMA LogAppended ==
  ASSUME TypeInv, NEW h \in Headings, NEW N \in SUBSET Headings, h \in N,
         ~CrossReferences => N = {h},
         \A x \in Headings : log[x] = 0 \/ (log[x] = 1 /\ x \in mentioned),
         ~CrossReferences => \A x \in mentioned : log[x] = 1,
         AppendLog(h, N)
  PROVE  /\ \A x \in Headings : log'[x] = 0 \/ (log'[x] = 1 /\ x \in mentioned')
         /\ ~CrossReferences => \A x \in mentioned' : log'[x] = 1
  <1>1. CASE h \in mentioned
    BY <1>1 DEF AppendLog
  <1>2. CASE h \notin mentioned
    <2>1. /\ log[h] = 0 /\ log' = [log EXCEPT ![h] = log[h] + 1] /\ mentioned' = mentioned \cup N
          /\ log \in [Headings -> Nat] /\ mentioned \subseteq Headings
      BY <1>2 DEF AppendLog, TypeInv, TypeOK
    <2>2. log'[h] = 1 /\ \A x \in Headings \ {h} : log'[x] = log[x]
      BY <2>1
    <2>3. \A x \in Headings : log'[x] = 0 \/ (log'[x] = 1 /\ x \in mentioned')
      BY <2>1, <2>2
    <2>4. ASSUME ~CrossReferences, NEW x \in mentioned'
          PROVE  log'[x] = 1
      BY <2>1, <2>2, <2>4
    <2> QED BY <2>3, <2>4
  <1> QED BY <1>1, <1>2

LEMMA NarratedStep == TypeInv /\ Branch /\ Narrated /\ [Next]_vars => Narrated'
  <1> SUFFICES ASSUME TypeInv, Branch, Narrated, [Next]_vars
               PROVE  Narrated'
    OBVIOUS
  <1>0. TypeOK
    BY DEF TypeInv
  <1>1. ASSUME UNCHANGED <<log, mentioned>>
        PROVE  Narrated'
    BY <1>1 DEF Narrated
  <1>2. CASE WriteLog
    <2>1. /\ exit.sid \in Headings /\ exit.names \in SUBSET Headings
          /\ exit.sid \in exit.names /\ (~CrossReferences => exit.names = {exit.sid})
      BY <1>2, <1>0, ExitFacts, Params DEF WriteLog, Branch, Structural, Done
    <2> QED BY <1>2, <2>1, LogAppended DEF WriteLog, Narrated
  <1>3. CASE RecoverLog \/ DeathLog
    <2>1. Recovered(claim) \in Headings /\ FailedDeath(claim) \in Headings
      BY <1>3, Params DEF RecoverLog, DeathLog, Branch, Deaths
    <2> QED BY <1>3, <2>1, LogAppended DEF RecoverLog, DeathLog, Narrated
  <1>4. CASE \/ \E i \in Items : EnqueueWork(i)
             \/ Reclaim \/ OperatorClears \/ SpawnDirector
             \/ \E i \in WorkIds : DirectorClaims(i)
             \/ DirectorExits \/ Decide \/ Rejected \/ Finished \/ CutShort \/ RunAgain
    BY <1>1, <1>4 DEF EnqueueWork, Reclaim, OperatorClears, SpawnDirector, DirectorClaims, DirectorExits,
        Decide, Rejected, CountViolation, FlagRedispatch, AskOperator, DropFlag, Finished, CutShort,
        RunAgain, memory
  <1>5. CASE \/ Patch \/ CompleteClaim \/ EnqueueNext \/ FailClaim \/ EnqueueDiagnostic
             \/ RecoverComplete \/ RecoverNext \/ RecoverReview \/ DeathFail \/ DeathDiagnose
    BY <1>1, <1>5 DEF Patch, CompleteClaim, EnqueueNext, FailClaim, EnqueueDiagnostic, RecoverComplete,
        RecoverNext, RecoverReview, DeathFail, DeathDiagnose, memory
  <1>6. CASE UNCHANGED vars
    BY <1>1, <1>6 DEF vars, memory
  <1> QED BY <1>2, <1>3, <1>4, <1>5, <1>6 DEF Next, Structured, SilentDeath

LEMMA NarratedInit == Init => Narrated
  BY DEF Init, Narrated

(* However often close-outs are cut and run again, no heading has two entries. *)
THEOREM NothingIsLoggedTwice == Spec => []LoggedOnce
  <1>1. Narrated => LoggedOnce
    BY DEF Narrated, LoggedOnce
  <1> QED BY <1>1, NarratedInit, NarratedStep, TypeInit, TypeStep, BranchInit, BranchStep, PTL DEF Spec

(* And while an entry names its own session only, an accepted exit has its one. *)
THEOREM SessionsAreNarratedOnce ==
  ASSUME CrossReferences = FALSE
  PROVE  Spec => []NarratedOnce
  <1>1. Init => QueueInv /\ Progress
    BY DEF Init, QueueInv, Progress, Structural
  <1>2. TypeInv /\ Branch /\ Progress /\ Narrated => NarratedOnce
    <2> SUFFICES ASSUME TypeInv, Branch, Progress, Narrated
                 PROVE  NarratedOnce
      OBVIOUS
    <2>1. LoggedOnce
      BY DEF Narrated, LoggedOnce
    <2>2. NarrativeKept
      BY DEF Narrated, Progress, Settled, Done, Logged, NarrativeKept, Ended
    <2> QED BY <2>1, <2>2 DEF NarratedOnce
  <1> QED BY <1>1, <1>2, TypeInit, TypeStep, BranchInit, BranchStep, QueueStep, ProgressStep, NarratedInit,
             NarratedStep, PTL DEF Spec

-----------------------------------------------------------------------------
(* The re-run. *)

LEMMA RestingStep ==
  TypeInv /\ Branch /\ QueueInv /\ Progress /\ Resting /\ [Next]_vars => Resting'
  <1> SUFFICES ASSUME TypeInv, Branch, QueueInv, Progress, Resting, [Next]_vars,
                      ~ExtendingPatches, before' # Unsettled
               PROVE  /\ before' = Effects'
                      /\ Parsed' => Accepted' /\ Settled'
                      /\ ~Parsed' => exit' = Legacy \/ pc' \in {"idle", "done"}
    BY DEF Resting
  <1> USE DEF Goto
  <1>0. TypeOK
    BY DEF TypeInv
  <1>1. ASSUME UNCHANGED <<queue, memory, exit>>
        PROVE  /\ Parsed' = Parsed /\ Accepted' = Accepted /\ Settled' = Settled /\ Effects' = Effects
    BY <1>1, SameExit DEF queue, memory, Effects, Settled, Logged, Patched, Closed, FollowedOn, FailedOnce,
           Diagnosed, Known, Finishing
  <1>2. ASSUME UNCHANGED <<queue, memory, exit, before>>,
               ~Parsed => exit = Legacy \/ pc' \in {"idle", "done"}
        PROVE  /\ before' = Effects'
               /\ Parsed' => Accepted' /\ Settled'
               /\ ~Parsed' => exit' = Legacy \/ pc' \in {"idle", "done"}
    BY <1>1, <1>2 DEF Resting
  <1>3. CASE (\E i \in Items : EnqueueWork(i)) \/ Reclaim \/ SpawnDirector \/ CutShort
    BY <1>3 DEF EnqueueWork, Reclaim, SpawnDirector, CutShort
  <1>4. CASE pc = "session" /\ before' = before
    BY <1>4, <1>0, ExitFacts DEF Branch, Resting, Legacy, NoExit
  <1>5. CASE OperatorClears
    <2>1. UNCHANGED <<queue, memory, exit, before>> /\ pc = "idle" /\ pc' = pc
      BY <1>5 DEF OperatorClears
    <2> QED BY <1>2, <2>1
  <1>6. CASE Decide
    <2>1. UNCHANGED <<queue, memory, exit, before>> /\ pc = "read"
      BY <1>6 DEF Decide
    <2>2. ~Parsed => exit = Legacy
      BY <2>1 DEF Resting
    <2> QED BY <1>2, <2>1, <2>2
  <1>7. CASE Structured
    <2>1. pc \in Structural /\ Done /\ UNCHANGED <<exit, before>>
      BY <1>7 DEF Structured, WriteLog, Patch, CompleteClaim, EnqueueNext, FailClaim,
             EnqueueDiagnostic, Branch, ghosts, Structural
    <2>2. Settled /\ Parsed
      BY <2>1 DEF Resting, Done
    <2>3. ASSUME WriteLog
         PROVE  UNCHANGED memory
      BY <2>2, <2>3 DEF WriteLog, AppendLog, Settled, Logged, memory
    <2>4. ASSUME Patch
         PROVE  UNCHANGED memory
      BY <2>2, <2>4 DEF Patch, Branch, Settled, Patched, memory
    <2>5. ASSUME CompleteClaim
         PROVE  UNCHANGED queue
      <3>1. exit.item \notin claimed
        BY <2>2, <2>5 DEF CompleteClaim, Branch, Settled, Closed
      <3> QED BY <2>5, <3>1 DEF CompleteClaim, Complete, queue
    <2>6. ASSUME EnqueueNext
         PROVE  UNCHANGED queue
      <3>1. exit.next \in Ids => exit.next \in Known
        BY <2>2, <2>6 DEF EnqueueNext, Branch, Settled, FollowedOn
      <3>2. exit.next = Malformed \/ exit.next \in Ids
        BY <1>0, <2>2, <2>6, ExitFacts, Params DEF EnqueueNext, Branch
      <3> QED BY <2>6, <3>1, <3>2 DEF EnqueueNext, Enqueue, queue
    <2>7. ASSUME FailClaim
         PROVE  UNCHANGED queue
      <3>1. FailedOnce
        BY <2>2, <2>7 DEF FailClaim, Branch, Settled
      <3> QED BY <2>7, <3>1 DEF FailClaim, Fail, FailedOnce, queue
    <2>8. ASSUME EnqueueDiagnostic
         PROVE  UNCHANGED queue
      <3>1. Diagnosed
        BY <2>2, <2>8 DEF EnqueueDiagnostic, Branch, Settled
      <3> QED BY <2>8, <3>1 DEF EnqueueDiagnostic, Enqueue, Diagnosed, Known, queue
    <2>9. UNCHANGED <<queue, memory>>
      <3>1. WriteLog \/ Patch => UNCHANGED queue
        BY DEF WriteLog, Patch
      <3>2. CompleteClaim \/ EnqueueNext \/ FailClaim \/ EnqueueDiagnostic => UNCHANGED memory
        BY DEF CompleteClaim, EnqueueNext, FailClaim, EnqueueDiagnostic
      <3> QED BY <1>7, <2>3, <2>4, <2>5, <2>6, <2>7, <2>8, <3>1, <3>2 DEF Structured
    <2> QED BY <1>2, <2>1, <2>2, <2>9
  <1>8. CASE Rejected
    BY <1>8 DEF Rejected, CountViolation, FlagRedispatch, AskOperator, DropFlag, Branch, Rejecting,
           Resting, ghosts
  <1>9. CASE SilentDeath
    <2>1. pc \in Deaths /\ before' = before
      BY <1>9 DEF SilentDeath, RecoverLog, RecoverComplete, RecoverNext, RecoverReview, DeathLog,
             DeathFail, DeathDiagnose, Deaths, ghosts
    <2>2. exit = NoExit /\ exit # Legacy
      BY <2>1 DEF Branch, NoExit, Legacy
    <2> QED BY <1>0, <2>1, <2>2, ExitFacts DEF Resting, Deaths
  <1>10. CASE Finished
    <2>1. /\ UNCHANGED <<queue, memory, exit>> /\ pc = "done" /\ pc' = "idle"
          /\ before' = IF cut \/ (Parsed /\ ~Accepted) THEN Unsettled ELSE Effects
      BY <1>10 DEF Finished
    <2>2. before' = Effects /\ (Parsed => Accepted)
      BY <2>1
    <2>3. Parsed => Settled
      BY <2>1, <2>2 DEF Progress, Done
    <2> QED BY <1>1, <2>1, <2>2, <2>3
  <1>11. CASE RunAgain
    <2>1. UNCHANGED <<queue, memory, exit, before>> /\ exit # NoExit
      BY <1>11 DEF RunAgain
    <2> QED BY <1>0, <1>2, <2>1, ExitFacts
  <1>12. CASE UNCHANGED vars
    <2>1. UNCHANGED <<queue, memory, exit, before, pc>>
      BY <1>12 DEF vars, ghosts
    <2> QED BY <1>2, <2>1 DEF Resting
  <1>13. (\E i \in WorkIds : DirectorClaims(i)) \/ DirectorExits => pc = "session" /\ before' = before
    BY DEF DirectorClaims, DirectorExits, ghosts
  <1> QED BY <1>3, <1>4, <1>5, <1>6, <1>7, <1>8, <1>9, <1>10, <1>11, <1>12, <1>13 DEF Next

(* While no patch keeps its anchor, the close-out run again over an exit it has *)
(* settled changes neither the queue nor the memory files.                      *)
THEOREM RerunsAreNoOps ==
  ASSUME ExtendingPatches = FALSE
  PROVE  Spec => []RerunIsNoOp
  <1>1. Init => QueueInv /\ Progress /\ Resting
    BY DEF Init, QueueInv, Progress, Structural, Resting
  <1>2. Resting => RerunIsNoOp
    BY DEF Resting, RerunIsNoOp
  <1> QED BY <1>1, <1>2, TypeInit, TypeStep, BranchInit, BranchStep, QueueStep, ProgressStep, RestingStep,
             PTL DEF Spec

-----------------------------------------------------------------------------
(* The redispatches. *)

(* Over an exit whose redispatches are exhausted, the review and what a re-run  *)
(* does to it stay consistent: no flag is set, and one that is left is dropped. *)
LEMMA ReviewStep == TypeInv /\ Branch /\ ReviewInv /\ [Next]_vars => ReviewInv'
  <1> SUFFICES ASSUME TypeInv, Branch, ReviewInv, [Next]_vars
               PROVE  ReviewInv'
    OBVIOUS
  <1> USE DEF Goto
  <1>0. TypeOK
    BY DEF TypeInv
  <1> DEFINE Elsewhere == pc' \notin {"review", "unflag"}
  <1>1. ASSUME UNCHANGED <<counter, flag, exit, cut>>, review' = review, Elsewhere,
               review => /\ pc' \in {"idle", "read", "count", "done"}
                         /\ flag = NoItem \/ cut \/ pc' \in {"read", "count"}
        PROVE  ReviewInv'
    BY <1>1, SameExit DEF ReviewInv
  <1>2. ASSUME ~review', Elsewhere
        PROVE  ReviewInv'
    BY <1>2 DEF ReviewInv
  <1>3. CASE \/ \E i \in Items : EnqueueWork(i)
             \/ Reclaim \/ (\E i \in WorkIds : DirectorClaims(i))
    BY <1>1, <1>3 DEF EnqueueWork, Reclaim, DirectorClaims, gate, ghosts, ReviewInv
  <1>4. CASE OperatorClears \/ SpawnDirector
    BY <1>2, <1>4 DEF OperatorClears, SpawnDirector
  <1>5. CASE DirectorExits
    BY <1>2, <1>5 DEF DirectorExits, gate, ReviewInv
  <1>6. CASE Decide
    <2>1. /\ UNCHANGED <<counter, flag, exit, cut>> /\ review' = review /\ Elsewhere
          /\ Parsed /\ ~Accepted => pc' = "count"
      BY <1>0, <1>6, ExitFacts DEF Decide, gate
    <2> QED BY <1>1, <2>1 DEF ReviewInv
  <1>7. CASE Structured
    <2>1. pc \in Structural /\ Done /\ review' = review
      BY <1>7 DEF Structured, WriteLog, Patch, CompleteClaim, EnqueueNext, FailClaim,
             EnqueueDiagnostic, Branch, gate, Structural
    <2>2. ~review
      BY <2>1 DEF ReviewInv, Done
    <2>3. exit.status \in {"success", "partial", "failure", "no_op"}
      BY <2>1 DEF Done, Accepted
    <2>4. Elsewhere
      BY <1>7, <2>3 DEF Structured, WriteLog, Patch, CompleteClaim, EnqueueNext, FailClaim, EnqueueDiagnostic
    <2> QED BY <1>2, <2>1, <2>2, <2>4
  <1>8. CASE CountViolation
    <2>1. /\ pc = "count" /\ Parsed /\ ~Accepted /\ counter.count \in Nat /\ MaxRedispatch \in Nat
          /\ counter' = [sid |-> exit.sid,
                         count |-> IF counter.sid = exit.sid THEN counter.count + 1 ELSE 1]
          /\ pc' = IF counter'.count >= MaxRedispatch THEN "review" ELSE "flag"
          /\ exit' = exit /\ review' = review
      BY <1>8, <1>0, Params DEF CountViolation, Branch, Rejecting, TypeOK
    <2>2. counter'.sid = exit.sid
          /\ counter'.count = IF counter.sid = exit.sid THEN counter.count + 1 ELSE 1
      BY <2>1
    <2>3. review => pc' = "review" /\ counter'.count >= MaxRedispatch
      BY <2>1, <2>2 DEF ReviewInv
    <2>4. pc' = "review" => counter'.count >= MaxRedispatch
      BY <2>1
    <2> QED BY <2>1, <2>2, <2>3, <2>4, SameExit DEF ReviewInv
  <1>9. CASE FlagRedispatch
    BY <1>2, <1>9 DEF FlagRedispatch, ReviewInv
  <1>10. CASE AskOperator
    BY <1>10, SameExit DEF AskOperator, Branch, Rejecting, ReviewInv
  <1>11. CASE DropFlag
    BY <1>11, SameExit DEF DropFlag, ReviewInv
  <1>12. CASE SilentDeath
    <2>1. pc \in Deaths /\ review' = review /\ Elsewhere
      BY <1>12 DEF SilentDeath, RecoverLog, RecoverComplete, RecoverNext, RecoverReview, DeathLog,
             DeathFail, DeathDiagnose, Deaths, gate
    <2>2. ~review
      BY <2>1 DEF ReviewInv, Deaths
    <2> QED BY <1>2, <2>1, <2>2
  <1>13. CASE Finished
    BY <1>1, <1>13 DEF Finished, gate, ReviewInv
  <1>14. CASE CutShort
    BY <1>14, SameExit DEF CutShort, gate, ReviewInv
  <1>15. CASE RunAgain
    BY <1>15, SameExit DEF RunAgain, gate, ReviewInv
  <1>16. CASE UNCHANGED vars
    BY <1>16, SameExit DEF vars, gate, ghosts, ReviewInv
  <1> QED BY <1>3, <1>4, <1>5, <1>6, <1>7, <1>8, <1>9, <1>10, <1>11, <1>12, <1>13, <1>14, <1>15, <1>16
          DEF Next, Rejected

(* A chain of redispatches is one rejected exit's: each is counted under the    *)
(* session it answers, and the one counted as the last allowed sets no flag.    *)
LEMMA BoundedStep ==
  ASSUME NewIdOnRedispatch = FALSE
  PROVE  TypeInv /\ Branch /\ ReviewInv /\ Bounded /\ [Next]_vars => Bounded'
  <1> SUFFICES ASSUME TypeInv, Branch, ReviewInv, Bounded, [Next]_vars
               PROVE  Bounded'
    OBVIOUS
  <1> USE DEF Goto
  <1>0. TypeOK /\ streak \in Nat /\ aborts \in Nat /\ counter.count \in Nat
        /\ MaxRedispatch \in Nat /\ MaxRedispatch > 0 /\ answers \in Sids \cup {NoItem}
    BY Params DEF TypeInv, TypeOK
  <1>1. ASSUME UNCHANGED <<counter, flag, exit, answers, streak, aborts>>, pc' # "flag"
        PROVE  Bounded'
    BY <1>1, SameExit DEF Bounded, CountFor
  <1>2. \A s : CountFor(s) \in Nat
    BY <1>0 DEF CountFor
  <1>3. CASE \/ \E i \in Items : EnqueueWork(i)
             \/ Reclaim \/ (\E i \in WorkIds : DirectorClaims(i))
    BY <1>1, <1>3 DEF EnqueueWork, Reclaim, DirectorClaims, gate, ghosts
  <1>4. CASE OperatorClears
    <2>1. flag # NoItem => aborts > 0
      BY <1>4 DEF OperatorClears, ReviewInv, Branch
    <2>2. /\ streak' = 0 /\ UNCHANGED <<flag, exit, answers, aborts, pc>> /\ pc = "idle"
          /\ counter'.count \in Nat
      BY <1>0, <1>4 DEF OperatorClears
    <2>3. \A s : CountFor(s)' \in Nat
      BY <2>2 DEF CountFor
    <2>4. flag # NoItem => 0 + 1 <= CountFor(flag)' + aborts
      BY <1>0, <2>1, <2>3
    <2> QED BY <1>0, <2>1, <2>2, <2>4, SameExit DEF Bounded, CountFor
  <1>5. CASE SpawnDirector
    <2>1. /\ exit' = NoExit /\ flag' = NoItem /\ answers' = flag /\ pc' = "session"
          /\ streak' = IF flag # NoItem THEN streak + 1 ELSE 0
          /\ UNCHANGED <<counter, aborts>>
      BY <1>5 DEF SpawnDirector
    <2>2. ~Parsed'
      BY <2>1 DEF Parsed, NoExit, Statuses
    <2> QED BY <1>0, <1>2, <2>1, <2>2 DEF Bounded, CountFor
  <1>6. CASE DirectorExits
    <2>1. flag = NoItem /\ UNCHANGED <<counter, flag, answers, streak, aborts>> /\ pc' = "read"
      BY <1>6 DEF DirectorExits, Branch, gate, ghosts
    <2>2. exit' = Legacy \/ exit' = NoExit => ~Parsed'
      BY DEF Parsed, Legacy, NoExit, Statuses
    <2>3. answers # NoItem /\ Parsed' => exit'.sid = answers
      BY <1>6, <2>2 DEF DirectorExits, SessionIds
    <2> QED BY <2>1, <2>3 DEF Bounded, CountFor
  <1>7. CASE Decide
    <2>1. /\ UNCHANGED <<counter, flag, exit, answers, aborts>> /\ pc' # "flag"
          /\ streak' = streak \/ streak' = 0
      BY <1>7 DEF Decide, gate
    <2> QED BY <1>0, <1>2, <2>1, SameExit DEF Bounded, CountFor
  <1>8. CASE Structured
    <2>1. pc \in Structural /\ Done
      BY <1>8 DEF Structured, WriteLog, Patch, CompleteClaim, EnqueueNext, FailClaim,
             EnqueueDiagnostic, Branch, Structural
    <2>2. exit.status \in {"success", "partial", "failure", "no_op"}
      BY <2>1 DEF Done, Accepted
    <2> QED BY <1>1, <1>8, <2>2 DEF Structured, WriteLog, Patch, CompleteClaim, EnqueueNext, FailClaim,
             EnqueueDiagnostic, gate, ghosts
  <1>9. CASE CountViolation
    <2>1. /\ Parsed /\ UNCHANGED <<flag, exit, answers, streak, aborts>>
          /\ counter' = [sid |-> exit.sid,
                         count |-> IF counter.sid = exit.sid THEN counter.count + 1 ELSE 1]
          /\ pc' = "flag" => ~(counter'.count >= MaxRedispatch)
      BY <1>9 DEF CountViolation, Branch, Rejecting, ghosts
    <2>2. counter'.sid = exit.sid /\ counter'.count = CountFor(exit.sid) + 1
      BY <1>0, <2>1 DEF CountFor
    <2>3. CountFor(exit.sid)' = CountFor(exit.sid) + 1
      BY <2>1, <2>2 DEF CountFor
    <2>4. streak > 0 => answers = exit.sid /\ streak <= CountFor(exit.sid) + aborts
      BY <2>1 DEF Bounded
    <2>5. streak + 1 <= counter'.count + aborts
      BY <1>0, <1>2, <2>2, <2>4
    <2>6. streak > 0 => answers # NoItem /\ streak <= CountFor(answers)' + aborts
      BY <1>0, <1>2, <2>1, <2>2, <2>3, <2>4 DEF Bounded, CountFor
    <2>7. flag # NoItem => streak + 1 <= CountFor(flag)' + aborts
      BY <1>0, <2>1, <2>2, <2>5 DEF Bounded, CountFor
    <2>8. pc' = "flag" => counter'.count < MaxRedispatch
      BY <1>0, <1>2, <2>1, <2>2
    <2> QED BY <2>1, <2>2, <2>5, <2>6, <2>7, <2>8, SameExit DEF Bounded, CountFor
  <1>10. CASE FlagRedispatch
    <2>1. /\ Parsed /\ pc = "flag" /\ pc' = "done" /\ flag' = exit.sid
          /\ UNCHANGED <<counter, exit, answers, streak, aborts>>
      BY <1>10 DEF FlagRedispatch, Branch, Rejecting, ghosts
    <2>2. streak + 2 <= MaxRedispatch + aborts /\ streak + 1 <= CountFor(exit.sid) + aborts
      BY <1>0, <2>1 DEF Bounded, CountFor
    <2> QED BY <2>1, <2>2, SameExit DEF Bounded, CountFor
  <1>11. CASE AskOperator
    BY <1>1, <1>11 DEF AskOperator, ghosts
  <1>12. CASE DropFlag
    BY <1>12, SameExit DEF DropFlag, ghosts, Bounded, CountFor
  <1>13. CASE SilentDeath
    BY <1>1, <1>13 DEF SilentDeath, RecoverLog, RecoverComplete, RecoverNext, RecoverReview, DeathLog,
             DeathFail, DeathDiagnose, gate, ghosts
  <1>14. CASE Finished \/ RunAgain
    BY <1>1, <1>14 DEF Finished, RunAgain, gate
  <1>15. CASE CutShort
    <2>1. aborts' = aborts + 1 /\ pc' = "idle" /\ UNCHANGED <<counter, flag, exit, answers, streak>>
      BY <1>15 DEF CutShort, gate
    <2> QED BY <1>0, <1>2, <2>1, SameExit DEF Bounded, CountFor
  <1>16. CASE UNCHANGED vars
    BY <1>16, SameExit DEF vars, gate, ghosts, Bounded, CountFor
  <1> QED BY <1>3, <1>4, <1>5, <1>6, <1>7, <1>8, <1>9, <1>10, <1>11, <1>12, <1>13, <1>14, <1>15, <1>16
          DEF Next, Rejected

(* While a redispatched Director keeps the session id it answers, fewer than    *)
(* MaxRedispatch redispatches follow one another (one more per close-out cut    *)
(* short), and a review that is pending stops the next.                         *)
THEOREM RedispatchesEnd ==
  ASSUME NewIdOnRedispatch = FALSE
  PROVE  Spec => []RedispatchEnds
  <1>1. Init => ReviewInv /\ Bounded
    BY Params DEF Init, ReviewInv, Bounded
  <1>2. ReviewInv /\ Bounded => RedispatchEnds
    BY DEF ReviewInv, Bounded, RedispatchEnds, RedispatchBounded, ReviewStopsRedispatch
  <1> QED BY <1>1, <1>2, TypeInit, TypeStep, BranchInit, BranchStep, ReviewStep, BoundedStep, PTL DEF Spec
=============================================================================
