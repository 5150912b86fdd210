--------------------------- MODULE FactorialProofs ---------------------------
(***************************************************************************)
(* Theorems about the factorial, for any runs, slots, manifests and launch *)
(* order, and any number of restarts, faults and amendments: its trainings *)
(* follow one another and only a finished one counts, its order and its    *)
(* manifest stay the locked ones, and the trigger is evaluated in time.    *)
(***************************************************************************)
EXTENDS Factorial, FiniteSetTheorems, TLAPS

-----------------------------------------------------------------------------
(* The invariants. *)

LaunchShape == [pc : {None, "check", "verify", "seal", "spawn", "pid", "wait", "clear", "returned"},
                run : Runs \cup {None}, resume : BOOLEAN, drift : BOOLEAN, rc : Int]
ChildShape == [state : {None, "boot", "run", "exited"}, run : Runs \cup {None}, resumed : SUBSET Manifests,
               under : SUBSET Manifests, speed : {"fast", "slow"}, warned : BOOLEAN, rc : Int]
OrchShape == [pc : {"off", "next", "busy", "handoff"}, pos : Nat, slot : Slots \cup {None}]

(* Every variable stays in its type, and a working orchestrator is at a run.   *)
FilesTyped ==
    /\ manifest \in Manifests /\ lock \in Manifests \cup {None}
    /\ pidFile \in [Runs -> Slots \cup {"stranger", None}] /\ doneFile \subseteq Runs
    /\ window \in [Runs -> {None, "fast", "slow"}] /\ warned \in [Runs -> BOOLEAN]
    /\ ckpts \in [Runs -> SUBSET Manifests] /\ sentinel \in [Runs -> Manifests \cup {None}]
    /\ index \in [Runs -> {None, "in_progress", "completed", "failed", "perf_drift"}]
ProcessesTyped ==
    /\ launch \in [Slots -> LaunchShape] /\ child \in [Slots -> ChildShape]
    /\ orch \in OrchShape
    /\ orch.pc \in {"busy", "handoff"} => orch.pos \in Positions
    /\ orch.pc = "busy" => orch.slot \in Slots
GhostsTyped == /\ finished \subseteq Runs /\ loose \subseteq Runs /\ unsealed \subseteq Runs
               /\ waived \in BOOLEAN /\ amended \in BOOLEAN /\ faults \in Nat
Typed == FilesTyped /\ ProcessesTyped /\ GhostsTyped

(* A slot holds one wrapper and the one process it started.                    *)
Slotted(s) ==
    /\ IF launch[s].pc = None THEN launch[s] = NoLaunch ELSE launch[s].run \in Runs
    /\ IF child[s].state = None THEN child[s] = NoChild ELSE child[s].run \in Runs
    /\ launch[s].pc \in {"check", "verify", "seal", "spawn", "clear", "returned"} => child[s] = NoChild
    /\ launch[s].pc \in {"pid", "wait"} => child[s].state # None /\ child[s].run = launch[s].run

(* A run that did not lose its wrapper or its caller is the one the orchestrator waits for.  *)
Attended(s) ==
    /\ launch[s].pc # None /\ launch[s].run \notin loose => Owned(s) /\ Current = launch[s].run
    /\ child[s].state # None /\ child[s].run \notin loose => launch[s].pc # None
Awaited == orch.pc = "busy" /\ launch[orch.slot].pc # None => launch[orch.slot].run = Current
NoStranger == \A r \in Runs : pidFile[r] = "stranger" => r \in loose

(* Its training reads the manifest its sentinel names.                         *)
SealedSlot(s, r) ==
    /\ launch[s].run = r /\ At(s, "seal") => ckpts[r] = {} \/ sentinel[r] = manifest
    /\ launch[s].run = r /\ At(s, "spawn") => sentinel[r] = manifest
    /\ child[s].run = r => /\ child[s].resumed \cup child[s].under \subseteq {sentinel[r]}
                           /\ child[s].state = "boot" => sentinel[r] = manifest
SealedRun(r) == /\ ckpts[r] \subseteq {sentinel[r]}
                /\ \A s \in Slots : SealedSlot(s, r)

(* A zero is returned for a training that came to its end.                     *)
HonestSlot(s, r) ==
    /\ launch[s].run = r /\ launch[s].pc \in {"clear", "returned"} /\ launch[s].rc = 0 => r \in finished
    /\ child[s].run = r => /\ child[s].warned => warned[r]
                           /\ child[s].state = "exited" /\ child[s].rc = 0 => r \in finished \/ child[s].warned
HonestRun(r) == /\ index[r] = "completed" \/ r \in doneFile => r \in finished
                /\ \A s \in Slots : HonestSlot(s, r)

(* Runs are begun in order.                                                    *)
Done(i) == index[LaunchOrder[i]] = "completed"
Ordered ==
    /\ \A i, j \in Positions : j < i /\ index[LaunchOrder[i]] # None => Done(j)
    /\ orch.pc # "off" => \A j \in Positions : j < orch.pos => Done(j)
    /\ orch.pc = "busy" => index[Current] = "in_progress"
    /\ orch.pc = "handoff" => Done(orch.pos) /\ \A i \in Positions : i > orch.pos => index[LaunchOrder[i]] = None
Begun ==
    /\ \A r \in Runs : ckpts[r] # {} => index[r] # None
    /\ \A s \in Slots : /\ launch[s].pc # None => index[launch[s].run] # None
                        /\ child[s].state # None => index[child[s].run] # None

(* What was trained, and what is being trained, is the locked manifest.        *)
UnderLock ==
    waived \/ amended \/
        /\ \A r \in Runs : ckpts[r] \subseteq {lock}
        /\ \A s \in Slots : child[s].resumed \cup child[s].under \subseteq {lock}
        /\ orch.pc # "off" => lock = manifest
        /\ \A s \in Slots : launch[s].pc # None \/ child[s].state = "boot" => lock = manifest

(* The trigger's run is completed only on the way to its evaluation.           *)
Triggered ==
    /\ orch.pc = "handoff" => orch.pos = EvalAfter
    /\ faults = 0 /\ EvalAfter \in Positions /\ Done(EvalAfter) => verdict # None \/ orch.pc = "handoff"

Inv ==
    /\ Typed /\ Ordered /\ Begun /\ UnderLock /\ Triggered /\ NoStranger /\ Awaited
    /\ \A s \in Slots : Slotted(s) /\ Attended(s)
    /\ \A r \in Runs \ loose : HonestRun(r) /\ (r \notin unsealed => SealedRun(r))

-----------------------------------------------------------------------------
(* What the operators of a step do to the slots. *)

Alone == UNCHANGED <<lock, index, verdict, orch, waived, amended, counters>>
Kept(t) == launch'[t] = launch[t] /\ child'[t] = child[t]

LEMMA StepEffect ==
  ASSUME ProcessesTyped, NEW s \in Slots,
         NEW pc \in {"check", "verify", "seal", "spawn", "pid", "wait", "clear", "returned"}, Step(s, pc)
  PROVE  /\ launch' \in [Slots -> LaunchShape]
         /\ launch'[s].pc = pc /\ launch'[s].run = launch[s].run /\ launch'[s].resume = launch[s].resume
         /\ launch'[s].drift = launch[s].drift /\ launch'[s].rc = launch[s].rc
         /\ \A t \in Slots \ {s} : launch'[t] = launch[t]
  BY DEF ProcessesTyped, LaunchShape, Step

LEMMA ReturnEffect ==
  ASSUME ProcessesTyped, NEW s \in Slots, NEW code \in Int, Return(s, code)
  PROVE  /\ launch' \in [Slots -> LaunchShape]
         /\ launch'[s].pc = "returned" /\ launch'[s].run = launch[s].run /\ launch'[s].rc = code
         /\ \A t \in Slots \ {s} : launch'[t] = launch[t]
  BY DEF ProcessesTyped, LaunchShape, Return

LEMMA NoneShapes == NoLaunch \in LaunchShape /\ NoChild \in ChildShape /\ Off \in OrchShape
  BY DEF NoLaunch, NoChild, Off, LaunchShape, ChildShape, OrchShape

LEMMA OrchMoves ==
  ASSUME NEW o \in OrchShape, NEW n \in Nat
  PROVE  [o EXCEPT !.pos = n] \in OrchShape /\ [o EXCEPT !.pc = "next", !.pos = n] \in OrchShape
  BY DEF OrchShape

(* A child that exits waits for its wrapper, if it has one. *)
LEMMA ExitEffect ==
  ASSUME ProcessesTyped, NEW s \in Slots, NEW code \in Int, Exit(s, code)
  PROVE  /\ child' \in [Slots -> ChildShape]
         /\ \A t \in Slots \ {s} : child'[t] = child[t]
         /\ IF launch[s].pc = None THEN child'[s] = NoChild
            ELSE /\ child'[s].state = "exited" /\ child'[s].rc = code /\ child'[s].run = child[s].run
                 /\ child'[s].warned = child[s].warned
                 /\ child'[s].resumed = child[s].resumed /\ child'[s].under = child[s].under
  BY NoneShapes DEF ProcessesTyped, ChildShape, Exit

LEMMA LoosenEffect ==
  ASSUME ProcessesTyped, NEW s \in Slots, Loosen(s)
  PROVE  /\ launch' \in [Slots -> LaunchShape] /\ child' \in [Slots -> ChildShape]
         /\ launch'[s] = NoLaunch /\ child'[s] = (IF child[s].state = "exited" THEN NoChild ELSE child[s])
         /\ \A t \in Slots \ {s} : Kept(t)
  BY NoneShapes DEF ProcessesTyped, Loosen, Kept

-----------------------------------------------------------------------------
(* Types. *)

LEMMA InvInit == Init => Inv
  <1> SUFFICES ASSUME Init
               PROVE  Inv
    OBVIOUS
  <1> USE LongRunAssumption, FactorialAssumption
  <1>1. /\ launch = [s \in Slots |-> NoLaunch] /\ child = [s \in Slots |-> NoChild] /\ orch = Off
        /\ index = [r \in Runs |-> None] /\ ckpts = [r \in Runs |-> {}] /\ doneFile = {}
        /\ pidFile = [r \in Runs |-> None] /\ lock = None
    BY DEF Init, LongInit
  <1>2. FilesTyped
    BY <1>1 DEF Init, LongInit, FilesTyped
  <1>3. ProcessesTyped
    BY <1>1, NoneShapes DEF ProcessesTyped, Off
  <1>4. GhostsTyped
    BY DEF Init, LongInit, GhostsTyped
  <1>5. \A s \in Slots : Slotted(s) /\ Attended(s)
    <2>1. NoLaunch.pc = None /\ NoChild.state = None /\ NoChild.run = None
      BY DEF NoLaunch, NoChild
    <2>2. \A s \in Slots : launch[s] = NoLaunch /\ child[s] = NoChild
      BY <1>1
    <2> QED BY <2>1, <2>2 DEF Slotted, Attended, None
  <1>6. \A r \in Runs : HonestRun(r) /\ SealedRun(r)
    BY <1>1 DEF HonestRun, HonestSlot, SealedRun, SealedSlot, NoLaunch, NoChild, At, None
  <1>7. Ordered /\ Begun
    <2>1. \A i \in Positions : LaunchOrder[i] \in Runs
      BY DEF Positions
    <2> QED BY <1>1, <2>1 DEF Ordered, Begun, Off, NoLaunch, NoChild
  <1>8. UnderLock /\ Triggered /\ NoStranger /\ Awaited
    <2>1. \A i \in Positions : LaunchOrder[i] \in Runs
      BY DEF Positions
    <2> QED BY <1>1, <2>1 DEF UnderLock, Triggered, NoStranger, Awaited, Off, NoLaunch, NoChild, Done, None
  <1> QED BY <1>2, <1>3, <1>4, <1>5, <1>6, <1>7, <1>8 DEF Inv, Typed

LEMMA CurrentRun ==
  ASSUME Typed, orch.pos \in Positions
  PROVE  Current \in Runs
  BY FactorialAssumption DEF Current, Positions

LEMMA TypedStep == Inv /\ [Next]_vars => Typed'
  <1> SUFFICES ASSUME Inv, [Next]_vars
               PROVE  Typed'
    OBVIOUS
  <1>0. Typed /\ FilesTyped /\ ProcessesTyped /\ GhostsTyped /\ \A s \in Slots : Slotted(s)
    BY DEF Inv, Typed
  <1>1. FilesTyped' /\ ProcessesTyped' /\ GhostsTyped' => Typed'
    BY DEF Typed
  <1>2. UNCHANGED <<manifest, files, lock, index>> => FilesTyped'
    BY <1>0 DEF FilesTyped, files
  <1>3. ASSUME UNCHANGED orch, launch' \in [Slots -> LaunchShape], child' \in [Slots -> ChildShape]
        PROVE  ProcessesTyped'
    BY <1>0, <1>3 DEF ProcessesTyped, Positions
  <1>4. UNCHANGED <<ghosts, waived, amended, faults>> => GhostsTyped'
    BY <1>0 DEF GhostsTyped, ghosts
  <1>5. launch \in [Slots -> LaunchShape] /\ child \in [Slots -> ChildShape]
    BY <1>0 DEF ProcessesTyped
  <1>6. \A s \in Slots : launch[s].pc \in {"check", "verify", "seal", "spawn", "pid", "wait", "clear", "returned"}
                            => launch[s].run \in Runs
    BY <1>0 DEF Slotted, None
  <1>7. \A s \in Slots : child[s].state \in {"boot", "run", "exited"} => child[s].run \in Runs
    BY <1>0 DEF Slotted, None
  <1>10. CASE Start
    <2>1. ProcessesTyped'
      BY <1>0, <1>10 DEF Start, ProcessesTyped, OrchShape, longVars
    <2>2. FilesTyped'
      BY <1>0, <1>10 DEF Start, FilesTyped, longVars, files
    <2>3. (~ FingerprintOK) \in BOOLEAN /\ (waived \/ ~ FingerprintOK) \in BOOLEAN
      OBVIOUS
    <2>4. GhostsTyped'
      BY <1>0, <1>10, <2>3 DEF Start, GhostsTyped, longVars, ghosts
    <2> QED BY <1>1, <2>1, <2>2, <2>4
  <1>11. CASE Skip \/ Handoff \/ Complete
    <2>1. ProcessesTyped'
      <3>1. orch' \in OrchShape
        <4>1. orch \in OrchShape
          BY <1>0 DEF ProcessesTyped
        <4>2. orch.pos + 1 \in Nat
          BY <4>1 DEF OrchShape
        <4>3. orch' \in {[orch EXCEPT !.pos = orch.pos + 1], [orch EXCEPT !.pc = "next", !.pos = orch.pos + 1], Off}
          BY <1>11 DEF Skip, Handoff, Complete
        <4> QED BY <4>1, <4>2, <4>3, NoneShapes, OrchMoves
      <3>2. orch'.pc \in {"next", "off"}
        <4>1. orch \in OrchShape
          BY <1>0 DEF ProcessesTyped
        <4>2. CASE Skip
          BY <4>1, <4>2 DEF Skip, AtRun, OrchShape
        <4>3. CASE Handoff
          BY <4>1, <4>3 DEF Handoff, OrchShape
        <4>4. CASE Complete
          BY <4>4 DEF Complete, Off
        <4> QED BY <1>11, <4>2, <4>3, <4>4
      <3>3. launch' = launch /\ child' = child
        BY <1>11 DEF Skip, Handoff, Complete, longVars
      <3> QED BY <1>5, <3>1, <3>2, <3>3 DEF ProcessesTyped
    <2> QED BY <1>1, <1>2, <1>4, <1>11, <2>1 DEF Skip, Handoff, Complete, longVars, counters
  <1>12. CASE Begin
    <2>1. Current \in Runs /\ NextSlot \in Slots
      BY <1>0, <1>12, CurrentRun DEF Begin, AtRun, NextSlot, Free
    <2>2. FilesTyped'
      BY <1>0, <1>12, <2>1 DEF Begin, FilesTyped, files
    <2>3. [NoLaunch EXCEPT !.pc = "check", !.run = Current] \in LaunchShape
      BY <2>1, NoneShapes DEF LaunchShape
    <2>4. ProcessesTyped'
      BY <1>0, <1>12, <2>1, <2>3 DEF Begin, AtRun, ProcessesTyped, OrchShape, Positions
    <2> QED BY <1>1, <1>4, <1>12, <2>2, <2>4 DEF Begin, counters
  <1>13. CASE Record
    <2>1. Current \in Runs
      BY <1>0, <1>13, CurrentRun DEF Record, AtRun
    <2>2. FilesTyped'
      BY <1>0, <1>13, <2>1 DEF Record, FilesTyped, files, StateOf
    <2>3. orch' \in OrchShape /\ (orch'.pc \in {"busy", "handoff"} => orch'.pos \in Positions) /\ orch'.pc # "busy"
      <3>1. orch \in OrchShape /\ orch.pos \in Positions
        BY <1>0, <1>13 DEF Record, AtRun, ProcessesTyped
      <3>2. CASE Halts(Answer)
        BY <1>13, <3>2, NoneShapes DEF Record, Off
      <3>3. CASE ~ Halts(Answer) /\ EvalDue(orch.pos)
        <4>1. orch' = [orch EXCEPT !.pc = "handoff", !.slot = None]
          BY <1>13, <3>3 DEF Record
        <4> QED BY <3>1, <4>1 DEF OrchShape
      <3>4. CASE ~ Halts(Answer) /\ ~ EvalDue(orch.pos)
        <4>1. orch' = [pc |-> "next", pos |-> orch.pos + 1, slot |-> None]
          BY <1>13, <3>4 DEF Record
        <4> QED BY <3>1, <4>1 DEF OrchShape
      <3> QED BY <3>2, <3>3, <3>4
    <2>4. ProcessesTyped'
      BY <1>0, <1>13, <2>3, NoneShapes DEF Record, ProcessesTyped, Positions
    <2> QED BY <1>1, <1>4, <1>13, <2>2, <2>4 DEF Record, counters
  <1>20. ASSUME NEW s \in Slots, CheckPid(s), Alone
         PROVE  Typed'
    <2>1. launch[s].run \in Runs
      BY <1>6, <1>20 DEF CheckPid, At
    <2>2. launch' \in [Slots -> LaunchShape]
      BY <1>0, <1>20, StepEffect, ReturnEffect DEF CheckPid
    <2>3. FilesTyped'
      BY <1>0, <1>20, <2>1 DEF CheckPid, FilesTyped, Alone
    <2> QED BY <1>1, <1>3, <1>4, <1>5, <1>20, <2>2, <2>3 DEF CheckPid, Alone, counters
  <1>21. ASSUME NEW s \in Slots, Verify(s), Alone
         PROVE  Typed'
    <2>1. (ckpts[launch[s].run] # {}) \in BOOLEAN
      OBVIOUS
    <2>2. launch' \in [Slots -> LaunchShape]
      BY <1>0, <1>5, <1>21, <2>1, ReturnEffect DEF Verify, LaunchShape
    <2> QED BY <1>1, <1>2, <1>3, <1>4, <1>5, <1>21, <2>2 DEF Verify, Alone, counters
  <1>22. ASSUME NEW s \in Slots, Seal(s), Alone
         PROVE  Typed'
    <2>1. launch[s].run \in Runs
      BY <1>6, <1>22 DEF Seal, At
    <2>2. launch' \in [Slots -> LaunchShape]
      BY <1>0, <1>22, StepEffect DEF Seal
    <2>3. FilesTyped'
      BY <1>0, <1>22, <2>1 DEF Seal, FilesTyped, Alone
    <2> QED BY <1>1, <1>3, <1>4, <1>5, <1>22, <2>2, <2>3 DEF Seal, Alone, counters
  <1>23. ASSUME NEW s \in Slots, SentinelLost(s)
         PROVE  Typed'
    <2>1. launch[s].run \in Runs
      BY <1>6, <1>23 DEF SentinelLost, SealFails, At
    <2>2. launch' \in [Slots -> LaunchShape]
      BY <1>0, <1>23, StepEffect DEF SentinelLost, SealFails
    <2>3. GhostsTyped'
      BY <1>0, <1>23, <2>1 DEF SentinelLost, SealFails, GhostsTyped, Fault
    <2> QED BY <1>1, <1>2, <1>3, <1>5, <1>23, <2>2, <2>3 DEF SentinelLost, SealFails
  <1>24. ASSUME NEW s \in Slots, Spawn(s), Alone
         PROVE  Typed'
    <2>1. launch[s].run \in Runs
      BY <1>6, <1>24 DEF Spawn, At
    <2>2. launch' \in [Slots -> LaunchShape]
      <3>1. launch' = [launch EXCEPT ![s].pc = "pid", ![s].resume = FALSE]
        BY <1>24 DEF Spawn
      <3> QED BY <1>5, <3>1 DEF LaunchShape
    <2>3. FilesTyped'
      BY <1>0, <1>24, <2>1 DEF Spawn, FilesTyped, Alone
    <2>4. (IF launch[s].resume THEN ckpts[launch[s].run] ELSE {}) \in SUBSET Manifests
      BY <1>0, <2>1 DEF FilesTyped
    <2>5. child' \in [Slots -> ChildShape]
      <3> DEFINE resumed == IF launch[s].resume THEN ckpts[launch[s].run] ELSE {}
                 born == [NoChild EXCEPT !.state = "boot", !.run = launch[s].run, !.resumed = resumed]
      <3>2. born \in ChildShape
        <4>1. resumed \in SUBSET Manifests
          BY <2>4
        <4> HIDE DEF resumed
        <4> QED BY <2>1, <4>1, NoneShapes DEF ChildShape
      <3>3. child' = [child EXCEPT ![s] = born]
        BY <1>24 DEF Spawn
      <3> HIDE DEF born
      <3> QED BY <1>5, <3>2, <3>3
    <2> QED BY <1>1, <1>3, <1>4, <1>24, <2>2, <2>3, <2>5 DEF Spawn, Alone, counters
  <1>25. ASSUME NEW s \in Slots, WritePid(s) \/ ClearPid(s), Alone
         PROVE  Typed'
    <2>1. launch[s].run \in Runs
      BY <1>6, <1>25 DEF WritePid, ClearPid, At
    <2>2. launch' \in [Slots -> LaunchShape]
      BY <1>0, <1>25, StepEffect DEF WritePid, ClearPid
    <2>3. FilesTyped'
      BY <1>0, <1>25, <2>1 DEF WritePid, ClearPid, FilesTyped, Alone
    <2> QED BY <1>1, <1>3, <1>4, <1>5, <1>25, <2>2, <2>3 DEF WritePid, ClearPid, Alone, counters
  <1>26. ASSUME NEW s \in Slots, WatcherKills(s), Alone
         PROVE  Typed'
    <2>1. launch' \in [Slots -> LaunchShape]
      BY <1>5, <1>26 DEF WatcherKills, LaunchShape
    <2>2. child' \in [Slots -> ChildShape]
      <3>1. CASE child[s].state = "run"
        <4>1. child' = [child EXCEPT ![s].state = "exited", ![s].rc = 1]
          BY <1>26, <3>1 DEF WatcherKills
        <4>2. PICK code \in Int : code = 1
          OBVIOUS
        <4>3. child' = [child EXCEPT ![s] = [child[s] EXCEPT !.state = "exited", !.rc = code]]
          BY <4>1, <4>2
        <4>4. [child[s] EXCEPT !.state = "exited", !.rc = code] \in ChildShape
          BY <1>5 DEF ChildShape
        <4> QED BY <1>5, <4>3, <4>4
      <3>2. CASE child[s].state # "run"
        BY <1>5, <1>26, <3>2 DEF WatcherKills
      <3> QED BY <3>1, <3>2
    <2> QED BY <1>1, <1>2, <1>3, <1>4, <1>26, <2>1, <2>2 DEF WatcherKills, Alone, counters
  <1>27. ASSUME NEW s \in Slots, Reap(s), Alone
         PROVE  Typed'
    <2>1. launch[s].run \in Runs
      BY <1>6, <1>27 DEF Reap, At
    <2>2. ExitCode(child[s].rc, warned[launch[s].run], launch[s].drift) \in Int
      BY <1>5 DEF ExitCode, ExitCodePlain, ChildShape
    <2>3. launch' \in [Slots -> LaunchShape]
      <3> DEFINE code == ExitCode(child[s].rc, warned[launch[s].run], launch[s].drift)
      <3>1. launch' = [launch EXCEPT ![s].pc = "clear", ![s].drift = FALSE, ![s].rc = code]
        BY <1>27 DEF Reap
      <3> HIDE DEF code
      <3>2. code \in Int
        BY <2>2 DEF code
      <3>3. [launch[s] EXCEPT !.pc = "clear", !.drift = FALSE, !.rc = code] \in LaunchShape
        BY <1>5, <3>2 DEF LaunchShape
      <3>4. launch' = [launch EXCEPT ![s] = [launch[s] EXCEPT !.pc = "clear", !.drift = FALSE, !.rc = code]]
        BY <3>1
      <3> QED BY <1>5, <3>3, <3>4
    <2>4. child' \in [Slots -> ChildShape]
      BY <1>5, <1>27, NoneShapes DEF Reap
    <2>5. FilesTyped'
      BY <1>0, <1>27, <2>1 DEF Reap, FilesTyped, Alone
    <2> QED BY <1>1, <1>3, <1>4, <1>27, <2>3, <2>4, <2>5 DEF Reap, Alone, counters
  <1>28. ASSUME NEW s \in Slots, Boot(s), Alone
         PROVE  Typed'
    <2>1. child[s].run \in Runs
      BY <1>7, <1>28 DEF Boot
    <2>2. child' \in [Slots -> ChildShape]
      <3>1. CASE <<manifest, child[s].run>> \in Rejected
        BY <1>0, <1>28, <3>1, ExitEffect DEF Boot
      <3>2. CASE <<manifest, child[s].run>> \notin Rejected
        <4>1. PICK speed \in {"fast", "slow"}, warn \in BOOLEAN :
                child' = [child EXCEPT ![s].state = "run", ![s].speed = speed, ![s].warned = warn,
                            ![s].resumed = {}, ![s].under = {manifest} \cup IF warn THEN {} ELSE child[s].resumed]
          BY <1>28, <3>2 DEF Boot
        <4>2. {manifest} \cup (IF warn THEN {} ELSE child[s].resumed) \in SUBSET Manifests
          BY <1>0, <1>5 DEF FilesTyped, ChildShape
        <4> DEFINE under == {manifest} \cup (IF warn THEN {} ELSE child[s].resumed)
        <4>3. child' = [child EXCEPT ![s].state = "run", ![s].speed = speed, ![s].warned = warn,
                          ![s].resumed = {}, ![s].under = under]
          BY <4>1
        <4> HIDE DEF under
        <4>4. under \in SUBSET Manifests
          BY <4>2 DEF under
        <4>5. [child[s] EXCEPT !.state = "run", !.speed = speed, !.warned = warn, !.resumed = {}, !.under = under] \in ChildShape
          BY <1>5, <4>4 DEF ChildShape
        <4>6. child' = [child EXCEPT ![s] = [child[s] EXCEPT !.state = "run", !.speed = speed, !.warned = warn,
                                                             !.resumed = {}, !.under = under]]
          BY <4>3
        <4> QED BY <1>5, <4>5, <4>6
      <3> QED BY <3>1, <3>2
    <2>3. FilesTyped'
      <3>1. warned' \in [Runs -> BOOLEAN]
        BY <1>0, <1>28, <2>1 DEF Boot, FilesTyped
      <3> QED BY <1>0, <1>28, <3>1 DEF Boot, FilesTyped, Alone
    <2> QED BY <1>1, <1>3, <1>4, <1>5, <1>28, <2>2, <2>3 DEF Boot, Alone, counters
  <1>29. ASSUME NEW s \in Slots, Train(s), Alone
         PROVE  Typed'
    <2>1. child[s].run \in Runs /\ child[s].under \in SUBSET Manifests /\ child[s].speed \in {"fast", "slow"}
      BY <1>5, <1>7, <1>29 DEF Train, ChildShape
    <2>2. FilesTyped'
      BY <1>0, <1>29, <2>1 DEF Train, FilesTyped, Alone
    <2> QED BY <1>1, <1>3, <1>4, <1>5, <1>29, <2>2 DEF Train, Alone, counters
  <1>30. ASSUME NEW s \in Slots, End(s), Alone
         PROVE  Typed'
    <2>1. child[s].run \in Runs /\ child[s].under \in SUBSET Manifests
      BY <1>5, <1>7, <1>30 DEF End, ChildShape
    <2>2. FilesTyped' /\ GhostsTyped'
      BY <1>0, <1>30, <2>1 DEF End, FilesTyped, GhostsTyped, Alone, counters
    <2>3. child' \in [Slots -> ChildShape]
      BY <1>0, <1>30, ExitEffect DEF End
    <2> QED BY <1>1, <1>3, <1>5, <1>30, <2>2, <2>3 DEF End, Alone
  <1>31. CASE Operator
    <2>1. FilesTyped' /\ UNCHANGED <<launch, child, orch>>
      BY <1>0, <1>31 DEF Operator, Amend, Archive, FilesTyped, files
    <2>2. GhostsTyped'
      <3>1. amended' \in BOOLEAN
        BY <1>0, <1>31 DEF Operator, GhostsTyped
      <3> QED BY <1>0, <1>31, <3>1 DEF Operator, Amend, Archive, GhostsTyped, ghosts
    <2> QED BY <1>1, <1>3, <1>5, <2>1, <2>2
  <1>32. CASE KillOrchestrator
    <2>1. ProcessesTyped'
      BY <1>0, <1>32, NoneShapes DEF KillOrchestrator, ProcessesTyped, Off
    <2>2. GhostsTyped'
      BY <1>0, <1>32 DEF KillOrchestrator, GhostsTyped, Fault
    <2> QED BY <1>1, <1>2, <1>32, <2>1, <2>2 DEF KillOrchestrator
  <1>33. CASE Reboot
    <2>1. ProcessesTyped'
      BY <1>0, <1>33, NoneShapes DEF Reboot, ProcessesTyped, Off
    <2>2. GhostsTyped' /\ FilesTyped'
      BY <1>0, <1>33 DEF Reboot, GhostsTyped, FilesTyped, Fault
    <2> QED BY <1>1, <2>1, <2>2
  <1>34. ASSUME NEW s \in Slots, Forget(s)
         PROVE  Typed'
    <2>1. launch' \in [Slots -> LaunchShape]
      BY <1>5, <1>34, NoneShapes DEF Forget
    <2> QED BY <1>1, <1>2, <1>3, <1>4, <1>5, <1>34, <2>1 DEF Forget, counters
  <1>35. ASSUME NEW s \in Slots, KillWrapper(s)
         PROVE  Typed'
    <2>1. launch[s].run \in Runs
      BY <1>0, <1>35 DEF KillWrapper, Slotted
    <2>2. ProcessesTyped'
      <3>1. launch' \in [Slots -> LaunchShape] /\ child' \in [Slots -> ChildShape]
        BY <1>0, <1>35, LoosenEffect DEF KillWrapper
      <3> QED BY <1>0, <1>35, <3>1, NoneShapes DEF KillWrapper, ProcessesTyped, Off, Positions
    <2>3. GhostsTyped'
      BY <1>0, <1>35, <2>1 DEF KillWrapper, GhostsTyped, Fault
    <2> QED BY <1>1, <1>2, <1>35, <2>2, <2>3 DEF KillWrapper
  <1>36. CASE UNCHANGED vars
    BY <1>1, <1>2, <1>3, <1>4, <1>5, <1>36 DEF vars, longVars, counters
  <1> QED BY <1>10, <1>11, <1>12, <1>13, <1>20, <1>21, <1>22, <1>23, <1>24, <1>25, <1>26, <1>27, <1>28, <1>29,
             <1>30, <1>31, <1>32, <1>33, <1>34, <1>35, <1>36
          DEF Next, Orchestrator, Processes, Wrapper, Training, Alone

-----------------------------------------------------------------------------
(* What each step of a wrapper or a training does to its slot; the others are kept. *)

OthersKept(s) == \A t \in Slots \ {s} : Kept(t)
SameLaunch(s) == launch'[s].run = launch[s].run

LEMMA CheckPidDoes ==
  ASSUME ProcessesTyped, NEW s \in Slots, CheckPid(s)
  PROVE  /\ launch[s].pc = "check" /\ SameLaunch(s) /\ child' = child /\ OthersKept(s)
         /\ \/ launch'[s].pc = "verify"
            \/ launch'[s].pc = "returned" /\ launch'[s].rc = 0 /\ PidAlive(launch[s].run)
  BY StepEffect, ReturnEffect DEF CheckPid, At, OthersKept, Kept, SameLaunch

LEMMA VerifyDoes ==
  ASSUME ProcessesTyped, NEW s \in Slots, Verify(s)
  PROVE  /\ launch[s].pc = "verify" /\ SameLaunch(s) /\ child' = child /\ OthersKept(s)
         /\ \/ launch'[s].pc = "seal" /\ SentinelOK(launch[s].run)
            \/ launch'[s].pc = "returned" /\ launch'[s].rc = 3
  <1>1. CASE SentinelOK(launch[s].run)
    <2>1. launch' = [launch EXCEPT ![s].pc = "seal", ![s].resume = ckpts[launch[s].run] # {}]
      BY <1>1 DEF Verify
    <2>2. launch'[s].pc = "seal" /\ launch'[s].run = launch[s].run /\ \A t \in Slots \ {s} : launch'[t] = launch[t]
      BY <2>1 DEF ProcessesTyped, LaunchShape
    <2> QED BY <1>1, <2>2 DEF Verify, At, OthersKept, Kept, SameLaunch
  <1>2. CASE ~ SentinelOK(launch[s].run)
    BY <1>2, ReturnEffect DEF Verify, At, OthersKept, Kept, SameLaunch
  <1> QED BY <1>1, <1>2

LEMMA SealDoes ==
  ASSUME ProcessesTyped, NEW s \in Slots, Seal(s) \/ SealFails(s)
  PROVE  launch[s].pc = "seal" /\ launch'[s].pc = "spawn" /\ SameLaunch(s) /\ child' = child /\ OthersKept(s)
  BY StepEffect DEF Seal, SealFails, At, OthersKept, Kept, SameLaunch

LEMMA SpawnDoes ==
  ASSUME ProcessesTyped, NEW s \in Slots, Spawn(s)
  PROVE  /\ launch[s].pc = "spawn" /\ launch'[s].pc = "pid" /\ SameLaunch(s) /\ OthersKept(s)
         /\ child'[s].state = "boot" /\ child'[s].run = launch[s].run /\ ~ child'[s].warned
         /\ child'[s].resumed \subseteq ckpts[launch[s].run] /\ child'[s].under = {}
  <1>1. launch' = [launch EXCEPT ![s].pc = "pid", ![s].resume = FALSE]
    BY DEF Spawn
  <1>2. /\ launch'[s].pc = "pid" /\ launch'[s].run = launch[s].run
        /\ \A t \in Slots \ {s} : launch'[t] = launch[t]
    BY <1>1 DEF ProcessesTyped, LaunchShape
  <1> DEFINE resumed == IF launch[s].resume THEN ckpts[launch[s].run] ELSE {}
             born == [NoChild EXCEPT !.state = "boot", !.run = launch[s].run, !.resumed = resumed]
  <1>3. /\ born.state = "boot" /\ born.run = launch[s].run /\ ~ born.warned /\ born.resumed = resumed
        /\ born.under = {}
    BY DEF NoChild
  <1>4. child' = [child EXCEPT ![s] = born]
    BY DEF Spawn
  <1> HIDE DEF born
  <1>5. child'[s] = born /\ \A t \in Slots \ {s} : child'[t] = child[t]
    BY <1>4 DEF ProcessesTyped
  <1> QED BY <1>2, <1>3, <1>5 DEF Spawn, At, OthersKept, Kept, SameLaunch

LEMMA PidDoes ==
  ASSUME ProcessesTyped, NEW s \in Slots, WritePid(s) \/ ClearPid(s)
  PROVE  /\ \/ launch[s].pc = "pid" /\ launch'[s].pc = "wait"
            \/ launch[s].pc = "clear" /\ launch'[s].pc = "returned" /\ launch'[s].rc = launch[s].rc
         /\ SameLaunch(s) /\ child' = child /\ OthersKept(s)
  BY StepEffect DEF WritePid, ClearPid, At, OthersKept, Kept, SameLaunch

LEMMA WatcherDoes ==
  ASSUME ProcessesTyped, NEW s \in Slots, WatcherKills(s)
  PROVE  /\ launch[s].pc = "wait" /\ launch'[s].pc = "wait" /\ SameLaunch(s) /\ OthersKept(s)
         /\ \/ child'[s] = child[s] /\ child[s].state = "exited"
            \/ /\ child[s].state = "run" /\ child'[s].state = "exited" /\ child'[s].rc = 1
               /\ child'[s].run = child[s].run /\ child'[s].warned = child[s].warned
               /\ child'[s].resumed = child[s].resumed /\ child'[s].under = child[s].under
  <1>1. launch' = [launch EXCEPT ![s].drift = TRUE]
    BY DEF WatcherKills
  <1>2. /\ launch'[s].pc = launch[s].pc /\ launch'[s].run = launch[s].run
        /\ \A t \in Slots \ {s} : launch'[t] = launch[t]
    BY <1>1 DEF ProcessesTyped, LaunchShape
  <1>3. CASE child[s].state = "run"
    <2>1. child' = [child EXCEPT ![s].state = "exited", ![s].rc = 1]
      BY <1>3 DEF WatcherKills
    <2>2. /\ child'[s].state = "exited" /\ child'[s].rc = 1 /\ child'[s].run = child[s].run
          /\ child'[s].resumed = child[s].resumed /\ child'[s].under = child[s].under
          /\ \A t \in Slots \ {s} : child'[t] = child[t]
      BY <2>1 DEF ProcessesTyped, ChildShape
    <2>3. child'[s].warned = child[s].warned
      BY <2>1 DEF ProcessesTyped, ChildShape
    <2> QED BY <1>2, <1>3, <2>2, <2>3 DEF WatcherKills, At, OthersKept, Kept, SameLaunch
  <1>4. CASE child[s].state # "run"
    BY <1>2, <1>4 DEF WatcherKills, At, OthersKept, Kept, SameLaunch
  <1> QED BY <1>3, <1>4

LEMMA ReapDoes ==
  ASSUME ProcessesTyped, NEW s \in Slots, Reap(s)
  PROVE  /\ launch[s].pc = "wait" /\ launch'[s].pc = "clear" /\ SameLaunch(s) /\ OthersKept(s)
         /\ child[s].state = "exited" /\ child'[s] = NoChild
         /\ launch'[s].rc = ExitCode(child[s].rc, warned[launch[s].run], launch[s].drift)
  <1> DEFINE code == ExitCode(child[s].rc, warned[launch[s].run], launch[s].drift)
  <1>1. launch' = [launch EXCEPT ![s].pc = "clear", ![s].drift = FALSE, ![s].rc = code]
    BY DEF Reap
  <1> HIDE DEF code
  <1>2. /\ launch'[s].pc = "clear" /\ launch'[s].run = launch[s].run /\ launch'[s].rc = code
        /\ \A t \in Slots \ {s} : launch'[t] = launch[t]
    BY <1>1 DEF ProcessesTyped, LaunchShape
  <1>3. child'[s] = NoChild /\ \A t \in Slots \ {s} : child'[t] = child[t]
    BY DEF Reap, ProcessesTyped
  <1> QED BY <1>2, <1>3 DEF Reap, At, OthersKept, Kept, SameLaunch, code

LEMMA BootDoes ==
  ASSUME ProcessesTyped, NEW s \in Slots, Boot(s)
  PROVE  /\ child[s].state = "boot" /\ launch' = launch /\ OthersKept(s)
         /\ \/ Exit(s, 1) /\ warned' = warned
            \/ /\ child'[s].state = "run" /\ child'[s].run = child[s].run
               /\ child'[s].resumed = {} /\ child'[s].under \subseteq {manifest} \cup child[s].resumed
               /\ child'[s].warned => warned' = [warned EXCEPT ![child[s].run] = TRUE]
               /\ ~ child'[s].warned => warned' = [warned EXCEPT ![child[s].run] = @ \/ FALSE]
  <1>1. CASE <<manifest, child[s].run>> \in Rejected
    BY <1>1, ExitEffect DEF Boot, OthersKept, Kept
  <1>2. CASE <<manifest, child[s].run>> \notin Rejected
    <2>1. PICK speed \in {"fast", "slow"}, warn \in BOOLEAN :
            /\ child' = [child EXCEPT ![s].state = "run", ![s].speed = speed, ![s].warned = warn,
                        ![s].resumed = {}, ![s].under = {manifest} \cup IF warn THEN {} ELSE child[s].resumed]
            /\ warned' = [warned EXCEPT ![child[s].run] = @ \/ warn]
      BY <1>2 DEF Boot
    <2> DEFINE under == {manifest} \cup (IF warn THEN {} ELSE child[s].resumed)
    <2>2. under \subseteq {manifest} \cup child[s].resumed
      OBVIOUS
    <2>3. child' = [child EXCEPT ![s].state = "run", ![s].speed = speed, ![s].warned = warn,
                      ![s].resumed = {}, ![s].under = under]
      BY <2>1
    <2> HIDE DEF under
    <2>4. /\ child'[s].state = "run" /\ child'[s].run = child[s].run /\ child'[s].resumed = {}
          /\ child'[s].under = under /\ \A t \in Slots \ {s} : child'[t] = child[t]
      BY <2>3 DEF ProcessesTyped, ChildShape
    <2>5. child'[s].warned = warn
      BY <2>3 DEF ProcessesTyped, ChildShape
    <2>6. CASE warn = TRUE
      BY <1>2, <2>1, <2>2, <2>4, <2>5, <2>6 DEF Boot, OthersKept, Kept
    <2>7. CASE warn = FALSE
      BY <1>2, <2>1, <2>2, <2>4, <2>5, <2>7 DEF Boot, OthersKept, Kept
    <2> QED BY <2>6, <2>7
  <1> QED BY <1>1, <1>2

LEMMA BeginDoes ==
  ASSUME ProcessesTyped, Begin
  PROVE  /\ NextSlot \in Slots /\ launch[NextSlot] = NoLaunch /\ child[NextSlot] = NoChild
         /\ launch'[NextSlot].pc = "check" /\ launch'[NextSlot].run = Current
         /\ child' = child /\ OthersKept(NextSlot)
         /\ orch'.pc = "busy" /\ orch'.slot = NextSlot /\ orch'.pos = orch.pos /\ Current' = Current
  <1>1. NextSlot \in Free
    BY DEF Begin, NextSlot
  <1> DEFINE s == NextSlot
  <1> HIDE DEF s
  <1>2. s \in Slots /\ launch[s] = NoLaunch /\ child[s] = NoChild
    BY <1>1 DEF Free, s
  <1>3. launch' = [launch EXCEPT ![s] = [NoLaunch EXCEPT !.pc = "check", !.run = Current]]
    BY DEF Begin, s
  <1>4. launch'[s] = [NoLaunch EXCEPT !.pc = "check", !.run = Current] /\ \A t \in Slots \ {s} : launch'[t] = launch[t]
    BY <1>2, <1>3 DEF ProcessesTyped
  <1>5. launch'[s].pc = "check" /\ launch'[s].run = Current
    BY <1>4 DEF NoLaunch
  <1>6. orch'.pc = "busy" /\ orch'.slot = s /\ orch'.pos = orch.pos
    BY DEF Begin, s, ProcessesTyped, OrchShape
  <1>7. child' = child
    BY DEF Begin
  <1> QED BY <1>2, <1>4, <1>5, <1>6, <1>7 DEF OthersKept, Kept, s, Current

LEMMA RecordDoes ==
  ASSUME ProcessesTyped, Record
  PROVE  /\ orch.pc = "busy" /\ orch.pos \in Positions /\ orch.slot \in Slots
         /\ launch[orch.slot].pc \in {"returned", None}
         /\ launch'[orch.slot] = NoLaunch /\ child' = child /\ OthersKept(orch.slot)
         /\ \/ orch' = Off
            \/ Answer = 0 /\ orch'.pc = "handoff" /\ orch'.pos = orch.pos /\ EvalDue(orch.pos)
            \/ Answer = 0 /\ orch'.pc = "next" /\ orch'.pos = orch.pos + 1 /\ ~ EvalDue(orch.pos)
  <1>1. orch.pc = "busy" /\ orch.pos \in Positions /\ orch.slot \in Slots /\ launch[orch.slot].pc \in {"returned", None}
    BY DEF Record, AtRun, Answered, ProcessesTyped
  <1>2. launch'[orch.slot] = NoLaunch /\ \A t \in Slots \ {orch.slot} : launch'[t] = launch[t]
    BY <1>1 DEF Record, ProcessesTyped
  <1>3. \/ orch' = Off
        \/ Answer = 0 /\ orch'.pc = "handoff" /\ orch'.pos = orch.pos /\ EvalDue(orch.pos)
        \/ Answer = 0 /\ orch'.pc = "next" /\ orch'.pos = orch.pos + 1 /\ ~ EvalDue(orch.pos)
    <2>1. CASE Halts(Answer)
      BY <2>1 DEF Record
    <2>2. CASE ~ Halts(Answer) /\ EvalDue(orch.pos)
      <3>1. orch' = [orch EXCEPT !.pc = "handoff", !.slot = None] /\ Answer = 0
        BY <2>2 DEF Record, Halts
      <3> QED BY <2>2, <3>1 DEF ProcessesTyped, OrchShape
    <2>3. CASE ~ Halts(Answer) /\ ~ EvalDue(orch.pos)
      <3>1. orch' = [pc |-> "next", pos |-> orch.pos + 1, slot |-> None] /\ Answer = 0
        BY <2>3 DEF Record, Halts
      <3> QED BY <2>3, <3>1
    <2> QED BY <2>1, <2>2, <2>3
  <1>4. child' = child
    BY DEF Record
  <1> QED BY <1>1, <1>2, <1>3, <1>4 DEF OthersKept, Kept

-----------------------------------------------------------------------------
(* A slot holds one wrapper and the one process it started. *)

LEMMA NoneFacts ==
  /\ NoLaunch.pc = None /\ NoChild.state = None /\ NoChild.run = None /\ NoLaunch.run = None
  /\ ~ NoChild.warned /\ NoChild.resumed = {} /\ NoChild.under = {}
  /\ None \notin {"check", "verify", "seal", "spawn", "pid", "wait", "clear", "returned", "boot", "run", "exited"}
  /\ Off.pc = "off"
  BY DEF NoLaunch, NoChild, None, Off

(* The steps that touch no slot, and the ones that touch every slot. *)
LEMMA OtherSteps ==
  ASSUME [Next]_vars
  PROVE  \/ UNCHANGED <<launch, child>>
         \/ Begin \/ Record \/ Reboot
         \/ \E s \in Slots : (Wrapper(s) \/ Training(s)) /\ Alone
         \/ \E s \in Slots : Forget(s) \/ KillWrapper(s) \/ SentinelLost(s)
  <1>1. CASE Start \/ Skip \/ Handoff \/ Complete \/ Operator \/ KillOrchestrator \/ UNCHANGED vars
    BY <1>1 DEF Start, Skip, Handoff, Complete, Operator, Amend, Archive, KillOrchestrator, vars, longVars
  <1> QED BY <1>1 DEF Next, Orchestrator, Processes, Alone

LEMMA SlottedStep ==
  ASSUME Inv, [Next]_vars
  PROVE  \A t \in Slots : Slotted(t)'
  <1>1. ProcessesTyped /\ \A t \in Slots : Slotted(t)
    BY DEF Inv, Typed
  <1>2. \A t \in Slots : Kept(t) => Slotted(t)'
    BY <1>1 DEF Kept, Slotted
  <1>3. ASSUME NEW s \in Slots, OthersKept(s), Slotted(s)'
        PROVE  \A t \in Slots : Slotted(t)'
    BY <1>2, <1>3 DEF OthersKept
  <1>4. CASE UNCHANGED <<launch, child>>
    BY <1>2, <1>4 DEF Kept
  <1>5. CASE Begin
    <2>1. Current \in Runs
      BY <1>5, CurrentRun DEF Begin, AtRun, Inv
    <2>2. PICK s \in Slots : s = NextSlot
      BY <1>1, <1>5, BeginDoes
    <2>3. OthersKept(s) /\ launch'[s].pc = "check" /\ launch'[s].run = Current /\ child'[s] = NoChild
      BY <1>1, <1>5, <2>2, BeginDoes
    <2> QED BY <1>3, <2>1, <2>3, NoneFacts DEF Slotted
  <1>6. CASE Record
    <2>1. PICK s \in Slots : s = orch.slot
      BY <1>1, <1>6, RecordDoes
    <2>2. OthersKept(s) /\ launch'[s] = NoLaunch /\ child'[s] = child[s] /\ launch[s].pc \in {"returned", None}
      BY <1>1, <1>6, <2>1, RecordDoes
    <2> QED BY <1>1, <1>3, <2>2, NoneFacts DEF Slotted
  <1>7. CASE Reboot
    BY <1>7, NoneFacts DEF Reboot, Slotted
  <1>8. ASSUME NEW s \in Slots, Wrapper(s)
        PROVE  OthersKept(s) /\ Slotted(s)'
    <2>1. CASE CheckPid(s) \/ Verify(s) \/ Seal(s) \/ WritePid(s) \/ ClearPid(s)
      <3>1. /\ SameLaunch(s) /\ child' = child /\ OthersKept(s)
            /\ \/ launch[s].pc \in {"check", "verify", "seal"} /\ launch'[s].pc \in {"verify", "seal", "spawn", "returned"}
               \/ launch[s].pc = "pid" /\ launch'[s].pc = "wait"
               \/ launch[s].pc = "clear" /\ launch'[s].pc = "returned"
        BY <1>1, <2>1, CheckPidDoes, VerifyDoes, SealDoes, PidDoes
      <3> QED BY <1>1, <3>1, NoneFacts DEF Slotted, SameLaunch
    <2>2. CASE Spawn(s)
      BY <1>1, <2>2, SpawnDoes, NoneFacts DEF Slotted, SameLaunch
    <2>3. CASE WatcherKills(s)
      BY <1>1, <2>3, WatcherDoes, NoneFacts DEF Slotted, SameLaunch
    <2>4. CASE Reap(s)
      BY <1>1, <2>4, ReapDoes, NoneFacts DEF Slotted, SameLaunch
    <2> QED BY <1>8, <2>1, <2>2, <2>3, <2>4 DEF Wrapper
  <1>9. ASSUME NEW s \in Slots, NEW code \in Int, Exit(s, code), launch' = launch, child[s].state # None
        PROVE  OthersKept(s) /\ Slotted(s)'
    BY <1>1, <1>9, ExitEffect, NoneFacts DEF Slotted, OthersKept, Kept
  <1>10. ASSUME NEW s \in Slots, Training(s)
         PROVE  OthersKept(s) /\ Slotted(s)'
    <2>1. CASE Boot(s)
      <3>1. child[s].state # None
        BY <1>1, <2>1, BootDoes, NoneFacts
      <3> QED BY <1>1, <1>9, <2>1, <3>1, BootDoes, NoneFacts DEF Slotted
    <2>2. CASE Train(s)
      BY <1>2, <2>2 DEF Train, OthersKept, Kept
    <2>3. CASE End(s)
      BY <1>9, <2>3, NoneFacts DEF End
    <2> QED BY <1>10, <2>1, <2>2, <2>3 DEF Training
  <1>11. ASSUME NEW s \in Slots, Forget(s)
         PROVE  OthersKept(s) /\ Slotted(s)'
    <2>1. launch'[s] = NoLaunch /\ child' = child /\ \A t \in Slots \ {s} : launch'[t] = launch[t]
      BY <1>1, <1>11 DEF Forget, ProcessesTyped
    <2> QED BY <1>1, <2>1, NoneFacts DEF Slotted, OthersKept, Kept
  <1>12. ASSUME NEW s \in Slots, KillWrapper(s)
         PROVE  OthersKept(s) /\ Slotted(s)'
    BY <1>1, <1>12, LoosenEffect, NoneFacts DEF KillWrapper, OthersKept, Slotted
  <1>13. ASSUME NEW s \in Slots, SentinelLost(s)
         PROVE  OthersKept(s) /\ Slotted(s)'
    BY <1>1, <1>13, SealDoes, NoneFacts DEF SentinelLost, Slotted, SameLaunch
  <1> QED BY <1>3, <1>4, <1>5, <1>6, <1>7, <1>8, <1>10, <1>11, <1>12, <1>13, OtherSteps

-----------------------------------------------------------------------------
(* A run that is not loose is the one the orchestrator waits for. *)

LEMMA GhostsGrow ==
  ASSUME [Next]_vars
  PROVE  loose \subseteq loose' /\ finished \subseteq finished' /\ unsealed \subseteq unsealed'
  <1>1. CASE Orchestrator \/ Operator \/ KillOrchestrator \/ Reboot \/ UNCHANGED vars
    BY <1>1 DEF Orchestrator, Start, Skip, Begin, Record, Handoff, Complete, Operator, Amend, Archive,
           KillOrchestrator, Reboot, vars, longVars, ghosts
  <1>2. CASE Processes
    BY <1>2 DEF Processes, Wrapper, Training, CheckPid, Verify, Seal, Spawn, WritePid, WatcherKills, Reap,
           ClearPid, Boot, Train, End, ghosts
  <1>3. CASE \E s \in Slots : Forget(s) \/ KillWrapper(s) \/ SentinelLost(s)
    BY <1>3 DEF Forget, KillWrapper, SentinelLost, SealFails, ghosts
  <1> QED BY <1>1, <1>2, <1>3 DEF Next

LEMMA LooseStays ==
  ASSUME [Next]_vars, \/ Begin \/ Record \/ Start \/ Skip \/ Handoff \/ Complete \/ Operator \/ UNCHANGED vars
                      \/ \E s \in Slots : (Wrapper(s) \/ Training(s)) /\ Alone
                      \/ \E s \in Slots : Forget(s) \/ SentinelLost(s)
  PROVE  loose' = loose
  <1>1. CASE \/ Begin \/ Record \/ Start \/ Skip \/ Handoff \/ Complete \/ Operator \/ UNCHANGED vars
    BY <1>1 DEF Begin, Record, Start, Skip, Handoff, Complete, Operator, Amend, Archive, vars, longVars, ghosts
  <1>2. CASE \E s \in Slots : (Wrapper(s) \/ Training(s)) /\ Alone
    BY <1>2 DEF Wrapper, Training, CheckPid, Verify, Seal, Spawn, WritePid, WatcherKills, Reap, ClearPid,
           Boot, Train, End, ghosts
  <1>3. CASE \E s \in Slots : Forget(s) \/ SentinelLost(s)
    BY <1>3 DEF Forget, SentinelLost, SealFails, ghosts
  <1> QED BY <1>1, <1>2, <1>3

LEMMA AttendedStep ==
  ASSUME Inv, [Next]_vars
  PROVE  \A t \in Slots : Attended(t)'
  <1>1. ProcessesTyped /\ (\A t \in Slots : Slotted(t) /\ Attended(t)) /\ loose \subseteq loose'
    BY GhostsGrow DEF Inv, Typed
  <1>2. ASSUME orch.pc # "busy", NEW t \in Slots, Kept(t)
        PROVE  Attended(t)'
    BY <1>1, <1>2 DEF Attended, Owned, Kept
  <1>3. ASSUME orch' = orch, NEW t \in Slots, Kept(t)
        PROVE  Attended(t)'
    BY <1>1, <1>3 DEF Attended, Owned, Kept, Current
  <1>4. CASE Start \/ Skip \/ Handoff \/ Complete
    <2>1. orch.pc # "busy" /\ UNCHANGED <<launch, child>>
      BY <1>4 DEF Start, Skip, Handoff, Complete, AtRun, longVars
    <2> QED BY <1>2, <2>1 DEF Kept
  <1>5. CASE Operator \/ UNCHANGED vars
    BY <1>3, <1>5 DEF Operator, Amend, Archive, Kept, vars, longVars
  <1>6. CASE Begin
    <2>1. PICK s \in Slots : s = NextSlot
      BY <1>1, <1>6, BeginDoes
    <2>2. /\ OthersKept(s) /\ launch'[s].run = Current /\ child'[s] = NoChild /\ orch.pc # "busy"
          /\ launch'[s].pc = "check" /\ orch'.pc = "busy" /\ orch'.slot = s /\ Current' = Current
      BY <1>1, <1>6, <2>1, BeginDoes DEF Begin, AtRun
    <2>3. Attended(s)'
      BY <2>2, NoneFacts DEF Attended, Owned
    <2> QED BY <1>2, <2>2, <2>3 DEF OthersKept
  <1>7. CASE Record
    <2>1. PICK s \in Slots : s = orch.slot
      BY <1>1, <1>7, RecordDoes
    <2>2. /\ OthersKept(s) /\ launch'[s] = NoLaunch /\ child'[s] = child[s] /\ launch[s].pc \in {"returned", None}
      BY <1>1, <1>7, <2>1, RecordDoes
    <2>3. Attended(s)'
      BY <1>1, <2>2, NoneFacts DEF Attended, Slotted
    <2>4. \A t \in Slots \ {s} : Attended(t)'
      BY <1>1, <2>1, <2>2 DEF Attended, Owned, OthersKept, Kept
    <2> QED BY <2>3, <2>4
  <1>8. CASE KillOrchestrator
    <2>1. UNCHANGED <<launch, child>> /\ (orch.pc = "busy" => \A r \in Runs : r = Current => r \in loose')
      BY <1>8 DEF KillOrchestrator
    <2> QED BY <1>1, <2>1 DEF Attended, Owned, Slotted
  <1>9. CASE Reboot
    BY <1>9, NoneFacts DEF Reboot, Attended
  <1>10. ASSUME NEW s \in Slots, KillWrapper(s)
         PROVE  \A t \in Slots : Attended(t)'
    <2>1. /\ launch'[s] = NoLaunch /\ child'[s] \in {NoChild, child[s]} /\ \A t \in Slots \ {s} : Kept(t)
      BY <1>1, <1>10, LoosenEffect DEF KillWrapper
    <2>2. launch[s].run \in loose' /\ launch[s].pc # None /\ orch' \in {orch} \cup (IF Owned(s) THEN {Off} ELSE {})
      BY <1>10 DEF KillWrapper
    <2>3. Attended(s)'
      <3>1. child[s] = NoChild \/ child[s].run = launch[s].run
        BY <1>1, <2>2 DEF Slotted, ProcessesTyped, LaunchShape
      <3> QED BY <2>1, <2>2, <3>1, NoneFacts DEF Attended
    <2>4. ASSUME NEW t \in Slots \ {s}
          PROVE  Attended(t)'
      <3>1. CASE orch' = orch
        BY <1>3, <2>1, <3>1
      <3>2. CASE Owned(s)
        BY <1>1, <2>1, <3>2 DEF Attended, Owned, Kept
      <3> QED BY <2>2, <3>1, <3>2
    <2> QED BY <2>3, <2>4
  <1>11. ASSUME NEW s \in Slots, OthersKept(s), orch' = orch, launch[s].pc # None, launch'[s].pc # None,
                SameLaunch(s)
         PROVE  \A t \in Slots : Attended(t)'
    <2>1. Attended(s)'
      BY <1>1, <1>11 DEF Attended, Owned, Current, SameLaunch
    <2> QED BY <1>3, <1>11, <2>1 DEF OthersKept
  <1>12. ASSUME NEW s \in Slots, OthersKept(s), orch' = orch, launch' = launch,
                child'[s] = NoChild \/ (child[s].state # None /\ child'[s].run = child[s].run)
         PROVE  \A t \in Slots : Attended(t)'
    <2>1. Attended(s)'
      BY <1>1, <1>12, NoneFacts DEF Attended, Owned, Current
    <2> QED BY <1>3, <1>12, <2>1 DEF OthersKept
  <1>13. ASSUME NEW s \in Slots, Wrapper(s), Alone
         PROVE  \A t \in Slots : Attended(t)'
    <2>1. /\ OthersKept(s) /\ SameLaunch(s) /\ launch[s].pc # None /\ launch'[s].pc # None
      BY <1>1, <1>13, CheckPidDoes, VerifyDoes, SealDoes, PidDoes, SpawnDoes, WatcherDoes, ReapDoes, NoneFacts DEF Wrapper
    <2> QED BY <1>11, <1>13, <2>1 DEF Alone
  <1>14. ASSUME NEW s \in Slots, SentinelLost(s)
         PROVE  \A t \in Slots : Attended(t)'
    BY <1>1, <1>11, <1>14, SealDoes, NoneFacts DEF SentinelLost
  <1>15. ASSUME NEW s \in Slots, Training(s), Alone
         PROVE  \A t \in Slots : Attended(t)'
    <2>1. CASE Boot(s)
      <3>1. child[s].state # None /\ launch' = launch /\ OthersKept(s)
        BY <1>1, <2>1, BootDoes, NoneFacts
      <3>2. child'[s] = NoChild \/ child'[s].run = child[s].run
        BY <1>1, <2>1, BootDoes, ExitEffect
      <3> QED BY <1>12, <1>15, <3>1, <3>2 DEF Alone
    <2>2. CASE Train(s)
      BY <1>3, <1>15, <2>2 DEF Train, Alone, Kept
    <2>3. CASE End(s)
      <3>1. child[s].state # None /\ launch' = launch /\ OthersKept(s)
        BY <1>1, <2>3, ExitEffect, NoneFacts DEF End, OthersKept, Kept
      <3>2. child'[s] = NoChild \/ child'[s].run = child[s].run
        BY <1>1, <2>3, ExitEffect DEF End
      <3> QED BY <1>12, <1>15, <3>1, <3>2 DEF Alone
    <2> QED BY <1>15, <2>1, <2>2, <2>3 DEF Training
  <1>16. ASSUME NEW s \in Slots, Forget(s)
         PROVE  \A t \in Slots : Attended(t)'
    <2>1. launch'[s] = NoLaunch /\ child' = child /\ (\A t \in Slots \ {s} : launch'[t] = launch[t])
          /\ launch[s].pc = "returned" /\ orch' = orch
      BY <1>1, <1>16 DEF Forget, ProcessesTyped, At
    <2>2. Attended(s)'
      BY <1>1, <2>1, NoneFacts DEF Attended, Slotted
    <2> QED BY <1>3, <2>1, <2>2 DEF Kept
  <1> QED BY <1>4, <1>5, <1>6, <1>7, <1>8, <1>9, <1>10, <1>13, <1>14, <1>15, <1>16
          DEF Next, Orchestrator, Processes, Alone

LEMMA StrangerStep ==
  ASSUME Inv, [Next]_vars
  PROVE  NoStranger'
  <1>1. NoStranger /\ loose \subseteq loose' /\ Typed /\ \A s \in Slots : Slotted(s)
    BY GhostsGrow DEF Inv
  <1>2. pidFile' = pidFile => NoStranger'
    BY <1>1 DEF NoStranger
  <1>3. ASSUME NEW s \in Slots, CheckPid(s) \/ WritePid(s) \/ ClearPid(s)
        PROVE  NoStranger'
    <2>1. pidFile' \in {pidFile, [pidFile EXCEPT ![launch[s].run] = None], [pidFile EXCEPT ![launch[s].run] = s]}
      BY <1>3 DEF CheckPid, WritePid, ClearPid
    <2>2. s # "stranger" /\ None # "stranger"
      BY LongRunAssumption DEF None
    <2> QED BY <1>1, <2>1, <2>2 DEF NoStranger, Typed, FilesTyped
  <1>4. CASE Reboot
    BY <1>1, <1>4 DEF Reboot, NoStranger, None
  <1>5. CASE Processes
    BY <1>2, <1>3, <1>5 DEF Processes, Wrapper, Training, Verify, Seal, Spawn, WatcherKills, Reap, Boot, Train,
           End, files
  <1>6. CASE \/ Orchestrator \/ Operator \/ KillOrchestrator \/ UNCHANGED vars
             \/ \E s \in Slots : Forget(s) \/ KillWrapper(s) \/ SentinelLost(s)
    BY <1>2, <1>6 DEF Orchestrator, Start, Skip, Begin, Record, Handoff, Complete, Operator, Amend, Archive,
           KillOrchestrator, Forget, KillWrapper, SentinelLost, SealFails, vars, longVars, files
  <1> QED BY <1>4, <1>5, <1>6 DEF Next

-----------------------------------------------------------------------------
(* Runs are begun in order. *)

LEMMA OrderFacts ==
  /\ \A i \in Positions : LaunchOrder[i] \in Runs /\ i \in Nat /\ i >= 1
  /\ \A i, j \in Positions : LaunchOrder[i] = LaunchOrder[j] => i = j
  BY FactorialAssumption DEF Positions

LEMMA IndexKept ==
  ASSUME [Next]_vars, ~ Begin, ~ Record
  PROVE  index' = index
  BY DEF Next, Orchestrator, Start, Skip, Handoff, Complete, Processes, Operator, KillOrchestrator, Reboot, Forget,
         KillWrapper, SentinelLost, vars

(* The orchestrator stays where it is, or stops. *)
LEMMA OrchKept ==
  ASSUME [Next]_vars, ~ Orchestrator
  PROVE  orch' \in {orch, Off}
  BY DEF Next, Processes, Operator, KillOrchestrator, Reboot, Forget, KillWrapper, SentinelLost, vars

LEMMA OrderedStep ==
  ASSUME Inv, [Next]_vars
  PROVE  Ordered'
  <1>1. Ordered /\ FilesTyped /\ ProcessesTyped
    BY DEF Inv, Typed
  <1> USE OrderFacts
  <1>2. CASE ~ Orchestrator
    <2>1. index' = index /\ orch' \in {orch, Off}
      BY <1>2, IndexKept, OrchKept DEF Orchestrator
    <2> QED BY <1>1, <2>1, NoneFacts DEF Ordered, Done, Current
  <1>3. CASE Start
    <2>1. index' = index /\ (orch' = orch \/ orch' = [pc |-> "next", pos |-> 1, slot |-> None])
      BY <1>3 DEF Start
    <2> QED BY <1>1, <2>1 DEF Ordered, Done, Current
  <1>4. CASE Skip
    <2>1. /\ index' = index /\ orch'.pc = "next" /\ orch'.pos = orch.pos + 1 /\ orch.pc = "next"
          /\ Done(orch.pos) /\ orch.pos \in Positions
      BY <1>1, <1>4 DEF Skip, AtRun, ProcessesTyped, OrchShape, Done, Current
    <2> QED BY <1>1, <2>1 DEF Ordered, Done
  <1>5. CASE Begin
    <2>1. /\ orch.pc = "next" /\ orch.pos \in Positions /\ orch'.pc = "busy" /\ orch'.pos = orch.pos
          /\ Current' = Current /\ ~ Done(orch.pos)
      BY <1>1, <1>5, BeginDoes DEF Begin, AtRun, Done, Current
    <2>2. /\ index'[LaunchOrder[orch.pos]] = "in_progress"
          /\ \A i \in Positions \ {orch.pos} : index'[LaunchOrder[i]] = index[LaunchOrder[i]]
      BY <1>1, <1>5, <2>1 DEF Begin, FilesTyped, Current
    <2>3. \A i \in Positions : i > orch.pos => index[LaunchOrder[i]] = None
      BY <1>1, <2>1 DEF Ordered
    <2>4. \A i, j \in Positions : j < i /\ index'[LaunchOrder[i]] # None => Done(j)'
      <3> TAKE i, j \in Positions
      <3>1. CASE i = orch.pos
        BY <1>1, <2>1, <2>2, <3>1 DEF Ordered, Done
      <3>2. CASE i # orch.pos /\ j # orch.pos
        BY <1>1, <2>2, <3>2 DEF Ordered, Done
      <3>3. CASE i # orch.pos /\ j = orch.pos
        BY <2>2, <2>3, <3>3
      <3> QED BY <3>1, <3>2, <3>3
    <2>5. \A j \in Positions : j < orch.pos => Done(j)'
      BY <1>1, <2>1, <2>2 DEF Ordered, Done
    <2> QED BY <2>1, <2>2, <2>4, <2>5 DEF Ordered, Current
  <1>6. CASE Record
    <2>1. /\ orch.pc = "busy" /\ orch.pos \in Positions /\ index[LaunchOrder[orch.pos]] = "in_progress"
      BY <1>1, <1>6, RecordDoes DEF Ordered, Current
    <2>2. /\ index'[LaunchOrder[orch.pos]] = StateOf(Answer)
          /\ \A i \in Positions \ {orch.pos} : index'[LaunchOrder[i]] = index[LaunchOrder[i]]
      BY <1>1, <1>6, <2>1 DEF Record, FilesTyped, Current
    <2>3. \A i \in Positions : i > orch.pos => index[LaunchOrder[i]] = None
      BY <1>1, <2>1 DEF Ordered, Done
    <2>4. \A i, j \in Positions : j < i /\ index'[LaunchOrder[i]] # None => Done(j)'
      <3> TAKE i, j \in Positions
      <3>1. CASE i = orch.pos
        BY <1>1, <2>1, <2>2, <3>1 DEF Ordered, Done, None
      <3>2. CASE i # orch.pos /\ j # orch.pos
        BY <1>1, <2>2, <3>2 DEF Ordered, Done
      <3>3. CASE i # orch.pos /\ j = orch.pos
        BY <2>2, <2>3, <3>3
      <3> QED BY <3>1, <3>2, <3>3
    <2>5. \A j \in Positions : j < orch.pos => Done(j)'
      BY <1>1, <2>1, <2>2 DEF Ordered, Done
    <2>6. Answer = 0 => index'[LaunchOrder[orch.pos]] = "completed"
      BY <2>2 DEF StateOf
    <2>7. CASE orch' = Off
      BY <2>4, <2>7, NoneFacts DEF Ordered
    <2>8. CASE Answer = 0 /\ orch'.pc = "handoff" /\ orch'.pos = orch.pos
      <3>1. Done(orch.pos)'
        BY <2>6, <2>8 DEF Done
      <3>2. \A i \in Positions : i > orch.pos => index'[LaunchOrder[i]] = None
        BY <2>1, <2>2, <2>3
      <3> QED BY <2>4, <2>5, <2>8, <3>1, <3>2 DEF Ordered
    <2>9. CASE Answer = 0 /\ orch'.pc = "next" /\ orch'.pos = orch.pos + 1
      BY <2>1, <2>4, <2>5, <2>6, <2>9 DEF Ordered, Done
    <2> QED BY <1>1, <1>6, <2>7, <2>8, <2>9, RecordDoes
  <1>7. CASE Handoff
    <2>1. /\ index' = index /\ orch'.pc = "next" /\ orch'.pos = orch.pos + 1 /\ orch.pc = "handoff"
          /\ orch.pos \in Positions
      BY <1>1, <1>7 DEF Handoff, AtRun, ProcessesTyped, OrchShape
    <2> QED BY <1>1, <2>1 DEF Ordered, Done
  <1>8. CASE Complete
    BY <1>1, <1>8, NoneFacts DEF Complete, Ordered, Done
  <1> QED BY <1>2, <1>3, <1>4, <1>5, <1>6, <1>7, <1>8 DEF Orchestrator

(* The run of a wrapper is the one it was begun with, a child's run its wrapper's. *)
LEMMA SlotMoves ==
  ASSUME Inv, [Next]_vars, NEW t \in Slots
  PROVE  /\ \/ launch'[t].pc = None
            \/ launch[t].pc # None /\ launch'[t].run = launch[t].run
            \/ Begin /\ launch'[t].run = Current
         /\ \/ child'[t].state = None
            \/ child[t].state # None /\ child'[t].run = child[t].run
            \/ launch[t].pc # None /\ child'[t].run = launch[t].run
  <1> DEFINE LaunchMoved(s) == launch'[s].pc = None \/ (launch[s].pc # None /\ launch'[s].run = launch[s].run)
             ChildMoved(s) == \/ child'[s].state = None
                              \/ child[s].state # None /\ child'[s].run = child[s].run
                              \/ launch[s].pc # None /\ child'[s].run = launch[s].run
             Moved == \A s \in Slots : LaunchMoved(s) /\ ChildMoved(s)
  <1>1. ProcessesTyped /\ \A s \in Slots : Slotted(s)
    BY DEF Inv, Typed
  <1>2. ASSUME NEW s \in Slots, OthersKept(s), LaunchMoved(s), ChildMoved(s)
        PROVE  Moved
    BY <1>2 DEF OthersKept, Kept
  <1>3. CASE UNCHANGED <<launch, child>>
    BY <1>3
  <1>4. CASE Begin
    BY <1>1, <1>4, BeginDoes DEF OthersKept, Kept
  <1>5. CASE Record
    <2>1. PICK s \in Slots : s = orch.slot
      BY <1>1, <1>5, RecordDoes
    <2> QED BY <1>1, <1>2, <1>5, <2>1, RecordDoes, NoneFacts
  <1>6. CASE Reboot
    BY <1>6, NoneFacts DEF Reboot
  <1>7. ASSUME NEW s \in Slots, Wrapper(s) \/ SentinelLost(s)
        PROVE  Moved
    <2>1. OthersKept(s) /\ SameLaunch(s) /\ launch[s].pc # None
      BY <1>1, <1>7, CheckPidDoes, VerifyDoes, SealDoes, PidDoes, SpawnDoes, WatcherDoes, ReapDoes, NoneFacts
         DEF Wrapper, SentinelLost
    <2>2. ChildMoved(s)
      BY <1>1, <1>7, CheckPidDoes, VerifyDoes, SealDoes, PidDoes, SpawnDoes, WatcherDoes, ReapDoes, NoneFacts
         DEF Wrapper, SentinelLost
    <2> QED BY <1>2, <2>1, <2>2 DEF SameLaunch
  <1>8. ASSUME NEW s \in Slots, Training(s)
        PROVE  Moved
    <2>1. launch' = launch /\ OthersKept(s)
      BY <1>1, <1>8, BootDoes, ExitEffect DEF Training, Train, End, OthersKept, Kept
    <2>2. ChildMoved(s)
      BY <1>1, <1>8, BootDoes, ExitEffect, NoneFacts DEF Training, Train, End
    <2> QED BY <1>2, <2>1, <2>2
  <1>9. ASSUME NEW s \in Slots, Forget(s) \/ KillWrapper(s)
        PROVE  Moved
    <2>1. launch'[s] = NoLaunch /\ (child'[s] = child[s] \/ child'[s] = NoChild) /\ OthersKept(s)
      BY <1>1, <1>9, LoosenEffect DEF Forget, KillWrapper, ProcessesTyped, OthersKept, Kept
    <2> QED BY <1>2, <2>1, NoneFacts
  <1> QED BY <1>3, <1>4, <1>5, <1>6, <1>7, <1>8, <1>9, OtherSteps

LEMMA AwaitedStep ==
  ASSUME Inv, [Next]_vars
  PROVE  Awaited'
  <1>1. ProcessesTyped /\ Awaited
    BY DEF Inv, Typed
  <1>2. CASE Begin
    BY <1>1, <1>2, BeginDoes DEF Awaited
  <1>3. CASE ~ Begin
    <2>1. orch'.pc = "busy" => orch' = orch
      <3>1. CASE Start
        BY <3>1 DEF Start
      <3>2. CASE Record
        BY <1>1, <3>2, RecordDoes, NoneFacts
      <3>3. CASE Skip \/ Handoff \/ Complete
        BY <1>1, <3>3, NoneFacts DEF Skip, Handoff, Complete, AtRun, ProcessesTyped, OrchShape
      <3> QED BY <1>3, <3>1, <3>2, <3>3, OrchKept, NoneFacts DEF Orchestrator
    <2>2. SUFFICES ASSUME orch'.pc = "busy", launch'[orch.slot].pc # None, orch' = orch
                   PROVE  launch'[orch.slot].run = Current
      BY <2>1 DEF Awaited, Current
    <2>3. PICK s \in Slots : s = orch.slot
      BY <1>1, <2>2 DEF ProcessesTyped
    <2> QED BY <1>1, <1>3, <2>2, <2>3, SlotMoves DEF Awaited
  <1> QED BY <1>2, <1>3

(* Checkpoints are written by a training of their run. *)
LEMMA CkptsMoves ==
  ASSUME Inv, [Next]_vars, NEW r \in Runs
  PROVE  \/ ckpts'[r] \subseteq ckpts[r]
         \/ \E s \in Slots : /\ child[s].state = "run" /\ child[s].run = r
                             /\ ckpts'[r] \subseteq ckpts[r] \cup child[s].under
  <1>1. FilesTyped
    BY DEF Inv, Typed
  <1>2. CASE ckpts' = ckpts
    BY <1>2
  <1>3. ASSUME NEW s \in Slots, Train(s) \/ End(s)
        PROVE  \/ ckpts'[r] \subseteq ckpts[r]
               \/ child[s].state = "run" /\ child[s].run = r /\ ckpts'[r] \subseteq ckpts[r] \cup child[s].under
    BY <1>1, <1>3 DEF Train, End, FilesTyped
  <1>4. CASE Operator
    BY <1>1, <1>4 DEF Operator, Amend, Archive, FilesTyped, files
  <1>5. CASE Processes
    BY <1>2, <1>3, <1>5 DEF Processes, Wrapper, Training, CheckPid, Verify, Seal, Spawn, WritePid, WatcherKills,
           Reap, ClearPid, Boot, files
  <1>6. CASE \/ Orchestrator \/ KillOrchestrator \/ Reboot \/ UNCHANGED vars
             \/ \E s \in Slots : Forget(s) \/ KillWrapper(s) \/ SentinelLost(s)
    BY <1>2, <1>6 DEF Orchestrator, Start, Skip, Begin, Record, Handoff, Complete, KillOrchestrator, Reboot,
           Forget, KillWrapper, SentinelLost, SealFails, vars, longVars, files
  <1> QED BY <1>3, <1>4, <1>5, <1>6 DEF Next

LEMMA BegunStep ==
  ASSUME Inv, [Next]_vars
  PROVE  Begun'
  <1>1. Begun /\ Ordered /\ FilesTyped /\ ProcessesTyped /\ \A s \in Slots : Slotted(s)
    BY DEF Inv, Typed
  <1>2. \A r \in Runs : index[r] # None => index'[r] # None
    <2>1. CASE Begin
      BY <1>1, <2>1 DEF Begin, FilesTyped, None
    <2>2. CASE Record
      <3>1. StateOf(Answer) # None
        BY DEF StateOf, None
      <3> QED BY <1>1, <2>2, <3>1 DEF Record, FilesTyped
    <2> QED BY <2>1, <2>2, IndexKept
  <1>3. Begin => index'[Current] # None
    <2>1. Begin => Current \in Runs
      BY CurrentRun DEF Begin, AtRun, Inv
    <2> QED BY <1>1, <2>1 DEF Begin, FilesTyped, None
  <1>4. ASSUME NEW t \in Slots
        PROVE  /\ launch'[t].pc # None => index'[launch'[t].run] # None
               /\ child'[t].state # None => index'[child'[t].run] # None
    BY <1>1, <1>2, <1>3, SlotMoves DEF Begun, Slotted
  <1>5. ASSUME NEW r \in Runs, ckpts'[r] # {}
        PROVE  index'[r] # None
    <2>1. ckpts[r] # {} \/ \E s \in Slots : child[s].state = "run" /\ child[s].run = r
      BY <1>5, CkptsMoves
    <2> QED BY <1>1, <1>2, <2>1, NoneFacts DEF Begun
  <1> QED BY <1>4, <1>5 DEF Begun

-----------------------------------------------------------------------------
(* Everything is trained under the locked manifest. *)

(* What a child resumes from and is trained under comes from its directory and the manifest. *)
LEMMA ChildMoves ==
  ASSUME Inv, [Next]_vars, NEW t \in Slots
  PROVE  \/ child'[t].resumed \cup child'[t].under \subseteq child[t].resumed \cup child[t].under
            /\ (child'[t].state = "boot" => child[t].state = "boot")
         \/ /\ Boot(t) /\ child'[t].resumed \cup child'[t].under \subseteq {manifest} \cup child[t].resumed
            /\ child[t].state = "boot" /\ child'[t].state # "boot"
         \/ /\ Spawn(t) /\ child'[t].resumed \cup child'[t].under \subseteq ckpts[launch[t].run]
            /\ launch[t].pc = "spawn" /\ launch[t].run \in Runs
  <1> DEFINE Moved(s) ==
         \/ child'[s].resumed \cup child'[s].under \subseteq child[s].resumed \cup child[s].under
            /\ (child'[s].state = "boot" => child[s].state = "boot")
         \/ /\ Boot(s) /\ child'[s].resumed \cup child'[s].under \subseteq {manifest} \cup child[s].resumed
            /\ child[s].state = "boot" /\ child'[s].state # "boot"
         \/ /\ Spawn(s) /\ child'[s].resumed \cup child'[s].under \subseteq ckpts[launch[s].run]
            /\ launch[s].pc = "spawn" /\ launch[s].run \in Runs
  <1>1. ProcessesTyped /\ \A s \in Slots : Slotted(s)
    BY DEF Inv, Typed
  <1>2. \A s \in Slots : child'[s] = child[s] \/ child'[s] = NoChild => Moved(s)
    BY NoneFacts
  <1>3. ASSUME NEW s \in Slots, OthersKept(s), Moved(s)
        PROVE  \A u \in Slots : Moved(u)
    BY <1>2, <1>3 DEF OthersKept, Kept
  <1>4. ASSUME UNCHANGED <<launch, child>> \/ Begin \/ Record \/ Reboot
        PROVE  Moved(t)
    <2>1. child'[t] = child[t] \/ child'[t] = NoChild
      BY <1>1, <1>4, BeginDoes, RecordDoes DEF Reboot
    <2> QED BY <1>2, <2>1
  <1>5. ASSUME NEW s \in Slots, Wrapper(s) \/ SentinelLost(s)
        PROVE  OthersKept(s) /\ Moved(s)
    <2>1. CASE Spawn(s)
      <3>1. launch[s].run \in Runs
        BY <1>1, <2>1, SpawnDoes, NoneFacts DEF Slotted
      <3> QED BY <1>1, <2>1, <3>1, SpawnDoes
    <2>2. CASE WatcherKills(s)
      BY <1>1, <2>2, WatcherDoes
    <2>3. CASE CheckPid(s) \/ Verify(s) \/ Seal(s) \/ WritePid(s) \/ ClearPid(s) \/ SentinelLost(s) \/ Reap(s)
      <3>1. OthersKept(s) /\ (child'[s] = child[s] \/ child'[s] = NoChild)
        BY <1>1, <2>3, CheckPidDoes, VerifyDoes, SealDoes, PidDoes, ReapDoes DEF SentinelLost
      <3> QED BY <1>2, <3>1
    <2> QED BY <1>5, <2>1, <2>2, <2>3 DEF Wrapper
  <1>6. ASSUME NEW s \in Slots, NEW code \in Int, Exit(s, code), launch' = launch
        PROVE  OthersKept(s) /\ Moved(s)
    BY <1>1, <1>6, ExitEffect, NoneFacts DEF OthersKept, Kept
  <1>7. ASSUME NEW s \in Slots, Training(s)
        PROVE  OthersKept(s) /\ Moved(s)
    <2>1. CASE Boot(s)
      <3>1. CASE Exit(s, 1)
        BY <1>1, <1>6, <2>1, <3>1, BootDoes
      <3>2. CASE ~ Exit(s, 1)
        BY <1>1, <2>1, <3>2, BootDoes
      <3> QED BY <3>1, <3>2
    <2>2. CASE Train(s)
      BY <1>2, <2>2 DEF Train, OthersKept, Kept
    <2>3. CASE End(s)
      BY <1>6, <2>3 DEF End
    <2> QED BY <1>7, <2>1, <2>2, <2>3 DEF Training
  <1>8. ASSUME NEW s \in Slots, Forget(s) \/ KillWrapper(s)
        PROVE  child'[t] = child[t] \/ child'[t] = NoChild
    BY <1>1, <1>8, LoosenEffect DEF Forget, KillWrapper, Kept
  <1> HIDE DEF Moved
  <1>9. Moved(t)
    <2>1. ASSUME NEW s \in Slots, Wrapper(s) \/ SentinelLost(s) \/ Training(s)
          PROVE  Moved(t)
      BY <1>3, <1>5, <1>7, <2>1
    <2>2. ASSUME NEW s \in Slots, Forget(s) \/ KillWrapper(s)
          PROVE  Moved(t)
      BY <1>2, <1>8, <2>2
    <2>3. CASE UNCHANGED <<launch, child>> \/ Begin \/ Record \/ Reboot
      BY <1>4, <2>3
    <2> QED BY <2>1, <2>2, <2>3, OtherSteps
  <1> QED BY <1>9 DEF Moved

LEMMA UnderLockStep ==
  ASSUME Inv, [Next]_vars
  PROVE  UnderLock'
  <1> SUFFICES ASSUME ~ waived', ~ amended'
               PROVE  /\ \A r \in Runs : ckpts'[r] \subseteq {lock'}
                      /\ \A s \in Slots : child'[s].resumed \cup child'[s].under \subseteq {lock'}
                      /\ orch'.pc # "off" => lock' = manifest'
                      /\ \A s \in Slots : launch'[s].pc # None \/ child'[s].state = "boot" => lock' = manifest'
    BY DEF UnderLock
  <1>1. ~ waived /\ ~ amended
    <2>1. waived => waived'
      BY DEF Next, Orchestrator, Start, Skip, Begin, Record, Handoff, Complete, Processes, Operator,
             KillOrchestrator, Reboot, Forget, KillWrapper, SentinelLost, vars
    <2>2. amended => amended'
      BY DEF Next, Orchestrator, Start, Skip, Begin, Record, Handoff, Complete, Processes, Operator,
             KillOrchestrator, Reboot, Forget, KillWrapper, SentinelLost, vars
    <2> QED BY <2>1, <2>2
  <1>2. FilesTyped /\ ProcessesTyped /\ \A s \in Slots : Slotted(s)
    BY DEF Inv, Typed
  <1>3. /\ \A r \in Runs : ckpts[r] \subseteq {lock}
        /\ \A s \in Slots : child[s].resumed \cup child[s].under \subseteq {lock}
        /\ orch.pc # "off" => lock = manifest
        /\ \A s \in Slots : launch[s].pc # None \/ child[s].state = "boot" => lock = manifest
    BY <1>1 DEF Inv, UnderLock
  <1>4. CASE Start
    <2>1. UNCHANGED <<manifest, ckpts, launch, child>>
      BY <1>4 DEF Start, longVars, files
    <2>2. lock' = IF lock = None THEN manifest ELSE lock
      BY <1>4 DEF Start
    <2>3. orch' # orch => FingerprintOK
      BY <1>4 DEF Start
    <2>4. manifest \in Manifests /\ None \notin Manifests
      BY <1>2, LongRunAssumption DEF FilesTyped
    <2>5. CASE lock = None
      <3>1. \A r \in Runs : ckpts[r] = {}
        BY <1>2, <1>3, <2>4, <2>5 DEF FilesTyped
      <3>2. \A s \in Slots : child[s].resumed \cup child[s].under = {}
        BY <1>2, <1>3, <2>4, <2>5 DEF ProcessesTyped, ChildShape
      <3> QED BY <2>1, <2>2, <2>5, <3>1, <3>2
    <2>6. CASE lock # None
      <3>1. orch'.pc # "off" => lock = manifest
        BY <1>3, <2>3, <2>6 DEF FingerprintOK
      <3> QED BY <1>3, <2>1, <2>2, <2>6, <3>1
    <2> QED BY <2>5, <2>6
  <1>5. CASE Operator
    <2>1. UNCHANGED <<launch, child, orch, lock>> /\ \A r \in Runs : ckpts'[r] \subseteq ckpts[r]
      BY <1>2, <1>5 DEF Operator, Amend, Archive, FilesTyped, files
    <2>2. \/ manifest' = manifest
          \/ orch.pc = "off" /\ \A s \in Slots : launch[s].pc = None /\ child[s].state # "boot"
      BY <1>5 DEF Operator, Archive
    <2> QED BY <1>3, <2>1, <2>2
  <1>6. CASE ~ Start /\ ~ Operator
    <2>1. lock' = lock /\ manifest' = manifest
      BY <1>6 DEF Next, Orchestrator, Skip, Begin, Record, Handoff, Complete, Processes, Wrapper, Training, CheckPid,
             Verify, Seal, Spawn, WritePid, WatcherKills, Reap, ClearPid, Boot, Train, End, KillOrchestrator, Reboot,
             Forget, KillWrapper, SentinelLost, SealFails, vars, longVars
    <2>2. orch'.pc # "off" => orch.pc # "off"
      <3>1. Orchestrator => orch.pc # "off"
        BY <1>6, <1>2, RecordDoes DEF Orchestrator, Skip, Begin, Handoff, Complete, AtRun
      <3> QED BY <3>1, OrchKept, NoneFacts
    <2>3. \A r \in Runs : ckpts'[r] \subseteq {lock}
      BY <1>3, CkptsMoves
    <2>4. ASSUME NEW s \in Slots
          PROVE  child'[s].resumed \cup child'[s].under \subseteq {lock}
      BY <1>3, <2>4, ChildMoves, NoneFacts
    <2>5. ASSUME NEW s \in Slots, launch'[s].pc # None \/ child'[s].state = "boot"
          PROVE  lock = manifest
      <3>1. CASE launch'[s].pc # None
        BY <1>3, <3>1, SlotMoves DEF Begin, AtRun
      <3>2. CASE child'[s].state = "boot"
        BY <1>3, <3>2, ChildMoves, NoneFacts
      <3> QED BY <2>5, <3>1, <3>2
    <2> QED BY <1>3, <2>1, <2>2, <2>3, <2>4, <2>5
  <1> QED BY <1>4, <1>5, <1>6

-----------------------------------------------------------------------------
(* A run that is not loose has one slot. *)

LEMMA OneSlot ==
  ASSUME Inv, NEW r \in Runs \ loose
  PROVE  /\ \A s \in Slots : launch[s].run = r => launch[s].pc # None /\ Owned(s) /\ Current = r
         /\ \A s, t \in Slots : launch[s].run = r /\ launch[t].run = r => s = t
         /\ \A s \in Slots : child[s].run = r => launch[s].pc \in {"pid", "wait"} /\ launch[s].run = r
  <1>1. ProcessesTyped /\ (\A s \in Slots : Slotted(s) /\ Attended(s)) /\ r # None
    BY LongRunAssumption DEF Inv, Typed
  <1>2. \A s \in Slots : launch[s].run = r => launch[s].pc # None /\ Owned(s) /\ Current = r
    BY <1>1, NoneFacts DEF Slotted, Attended
  <1>3. \A s, t \in Slots : launch[s].run = r /\ launch[t].run = r => s = t
    BY <1>2 DEF Owned
  <1>4. ASSUME NEW s \in Slots, child[s].run = r
        PROVE  launch[s].pc \in {"pid", "wait"} /\ launch[s].run = r
    <2>1. child[s].state # None /\ child[s] # NoChild
      BY <1>1, <1>4, NoneFacts DEF Slotted
    <2>2. launch[s].pc # None
      BY <1>1, <1>4, <2>1 DEF Attended
    <2>3. launch[s].pc \in {None, "check", "verify", "seal", "spawn", "pid", "wait", "clear", "returned"}
      BY <1>1 DEF ProcessesTyped, LaunchShape
    <2> QED BY <1>1, <1>4, <2>1, <2>2, <2>3 DEF Slotted
  <1> QED BY <1>2, <1>3, <1>4

LEMMA SealedStep ==
  ASSUME Inv, [Next]_vars, NEW r \in Runs, r \notin loose', r \notin unsealed'
  PROVE  SealedRun(r)'
  <1>1. /\ ProcessesTyped /\ FilesTyped /\ (\A s \in Slots : Slotted(s)) /\ r \in Runs \ loose /\ r \notin unsealed
        /\ SealedRun(r) /\ r # None
    BY GhostsGrow, LongRunAssumption DEF Inv, Typed
  <1>2. \A s \in Slots : SealedSlot(s, r) /\ ckpts[r] \subseteq {sentinel[r]}
    BY <1>1 DEF SealedRun
  <1> DEFINE Still == manifest' = manifest /\ sentinel'[r] = sentinel[r] /\ ckpts'[r] \subseteq ckpts[r]
  <1>3. ASSUME Still, NEW s \in Slots, Kept(s) \/ (launch'[s] = NoLaunch /\ child'[s] \in {child[s], NoChild})
        PROVE  SealedSlot(s, r)'
    BY <1>1, <1>2, <1>3, NoneFacts DEF SealedSlot, At, Kept
  <1>4. ASSUME Still, NEW s \in Slots, OthersKept(s), SealedSlot(s, r)'
        PROVE  SealedRun(r)'
    <2>1. \A t \in Slots : SealedSlot(t, r)'
      BY <1>3, <1>4 DEF OthersKept
    <2> QED BY <1>1, <1>4, <2>1 DEF SealedRun
  <1>5. ASSUME Still, \A s \in Slots : Kept(s) \/ (launch'[s] = NoLaunch /\ child'[s] \in {child[s], NoChild})
        PROVE  SealedRun(r)'
    BY <1>1, <1>3, <1>5 DEF SealedRun
  <1>6. CASE Orchestrator
    <2>1. Still
      BY <1>6 DEF Orchestrator, Start, Skip, Begin, Record, Handoff, Complete, longVars, files
    <2>2. CASE Begin
      <3>1. PICK s \in Slots : s = NextSlot
        BY <1>1, <2>2, BeginDoes
      <3>2. OthersKept(s) /\ launch'[s].pc = "check" /\ child'[s] = child[s] /\ child[s] = NoChild
        BY <1>1, <2>2, <3>1, BeginDoes
      <3>3. SealedSlot(s, r)'
        BY <1>1, <3>2, NoneFacts DEF SealedSlot, At
      <3> QED BY <1>4, <2>1, <3>2, <3>3
    <2>3. CASE Record
      BY <1>1, <1>5, <2>1, <2>3, RecordDoes DEF OthersKept, Kept
    <2>4. CASE Start \/ Skip \/ Handoff \/ Complete
      BY <1>5, <2>1, <2>4 DEF Start, Skip, Handoff, Complete, longVars, Kept
    <2> QED BY <1>6, <2>2, <2>3, <2>4 DEF Orchestrator
  <1>7. CASE Reboot \/ KillOrchestrator \/ UNCHANGED vars
    <2>1. Still
      BY <1>7 DEF Reboot, KillOrchestrator, vars, longVars, files
    <2> QED BY <1>5, <1>7, <2>1 DEF Reboot, KillOrchestrator, vars, longVars, Kept
  <1>8. CASE Operator
    <2>1. CASE Amend
      <3>1. UNCHANGED <<ckpts, sentinel, launch, child>>
        BY <2>1 DEF Amend, files
      <3>2. \A s \in Slots : Boarding(s) => launch[s].run # r /\ child[s].run # r
        BY <2>1 DEF Amend
      <3>3. \A s \in Slots : SealedSlot(s, r)'
        BY <1>2, <3>1, <3>2 DEF SealedSlot, At, Boarding
      <3> QED BY <1>1, <3>1, <3>3 DEF SealedRun
    <2>2. ASSUME NEW q \in Runs, Archive(q)
          PROVE  SealedRun(r)'
      <3>1. UNCHANGED <<manifest, launch, child>>
        BY <2>2 DEF Archive
      <3>2. CASE q = r
        <4>1. ckpts'[r] = {} /\ \A s \in Slots : launch[s].run # r /\ child[s].run # r
          BY <1>1, <2>2, <3>2 DEF Archive, FilesTyped
        <4> QED BY <3>1, <4>1 DEF SealedRun, SealedSlot
      <3>3. CASE q # r
        <4>1. Still
          BY <1>1, <2>2, <3>1, <3>3 DEF Archive, FilesTyped
        <4> QED BY <1>5, <3>1, <4>1 DEF Kept
      <3> QED BY <3>2, <3>3
    <2> QED BY <1>8, <2>1, <2>2 DEF Operator
  <1>9. ASSUME NEW s \in Slots, CheckPid(s) \/ WritePid(s) \/ ClearPid(s) \/ Verify(s) \/ WatcherKills(s) \/ Reap(s)
        PROVE  SealedRun(r)'
    <2>1. Still
      BY <1>9 DEF CheckPid, WritePid, ClearPid, Verify, WatcherKills, Reap, files
    <2>2. CASE CheckPid(s) \/ WritePid(s) \/ ClearPid(s)
      <3>1. OthersKept(s) /\ child' = child /\ launch'[s].pc \notin {"seal", "spawn"}
        BY <1>1, <2>2, CheckPidDoes, PidDoes
      <3>2. SealedSlot(s, r)'
        BY <1>2, <2>1, <3>1 DEF SealedSlot, At
      <3> QED BY <1>4, <2>1, <3>1, <3>2
    <2>3. CASE Verify(s)
      <3>1. /\ OthersKept(s) /\ child' = child /\ SameLaunch(s)
            /\ launch'[s].pc = "returned" \/ (launch'[s].pc = "seal" /\ SentinelOK(launch[s].run))
            /\ ckpts' = ckpts /\ sentinel' = sentinel
        BY <1>1, <2>3, VerifyDoes DEF Verify, files
      <3>2. SealedSlot(s, r)'
        BY <1>2, <2>1, <3>1 DEF SealedSlot, At, SentinelOK, SameLaunch
      <3> QED BY <1>4, <2>1, <3>1, <3>2
    <2>4. CASE WatcherKills(s)
      <3>1. /\ OthersKept(s) /\ launch'[s].pc = "wait" /\ child'[s].run = child[s].run
            /\ child'[s].resumed = child[s].resumed /\ child'[s].under = child[s].under /\ child'[s].state = "exited"
        BY <1>1, <2>4, WatcherDoes
      <3>2. SealedSlot(s, r)'
        BY <1>2, <2>1, <3>1 DEF SealedSlot, At
      <3> QED BY <1>4, <2>1, <3>1, <3>2
    <2>5. CASE Reap(s)
      <3>1. OthersKept(s) /\ launch'[s].pc = "clear" /\ child'[s] = NoChild
        BY <1>1, <2>5, ReapDoes
      <3>2. SealedSlot(s, r)'
        BY <1>1, <3>1, NoneFacts DEF SealedSlot, At
      <3> QED BY <1>4, <2>1, <3>1, <3>2
    <2> QED BY <1>9, <2>2, <2>3, <2>4, <2>5
  <1>10. ASSUME NEW s \in Slots, Seal(s)
         PROVE  SealedRun(r)'
    <2>1. /\ launch[s].pc = "seal" /\ launch'[s].pc = "spawn" /\ SameLaunch(s) /\ child' = child /\ OthersKept(s)
          /\ sentinel' = [sentinel EXCEPT ![launch[s].run] = manifest] /\ UNCHANGED <<manifest, ckpts>>
      BY <1>1, <1>10, SealDoes DEF Seal
    <2>2. CASE launch[s].run = r
      <3>1. sentinel'[r] = manifest
        BY <1>1, <2>1, <2>2 DEF FilesTyped
      <3>2. ckpts[r] \subseteq {manifest}
        BY <1>2, <2>1, <2>2 DEF SealedSlot, At
      <3>3. \A t \in Slots : child[t].run # r
        BY <1>1, <2>1, <2>2, OneSlot
      <3>4. \A t \in Slots : SealedSlot(t, r)'
        BY <2>1, <3>1, <3>3 DEF SealedSlot, At
      <3> QED BY <2>1, <3>1, <3>2, <3>4 DEF SealedRun
    <2>3. CASE launch[s].run # r
      <3>1. Still
        BY <1>1, <2>1, <2>3 DEF FilesTyped
      <3>2. SealedSlot(s, r)'
        BY <1>2, <2>1, <2>3, <3>1 DEF SealedSlot, At, SameLaunch
      <3> QED BY <1>4, <2>1, <3>1, <3>2
    <2> QED BY <2>2, <2>3
  <1>11. ASSUME NEW s \in Slots, SentinelLost(s)
         PROVE  SealedRun(r)'
    <2>1. Still /\ launch[s].run # r
      BY <1>11 DEF SentinelLost, SealFails, files
    <2>2. /\ launch'[s].pc = "spawn" /\ SameLaunch(s) /\ child' = child /\ OthersKept(s)
      BY <1>1, <1>11, SealDoes DEF SentinelLost
    <2>3. SealedSlot(s, r)'
      BY <1>2, <2>1, <2>2 DEF SealedSlot, At, SameLaunch
    <2> QED BY <1>4, <2>1, <2>2, <2>3
  <1>12. ASSUME NEW s \in Slots, Spawn(s)
         PROVE  SealedRun(r)'
    <2>1. Still
      BY <1>12 DEF Spawn
    <2>2. SealedSlot(s, r)'
      BY <1>1, <1>2, <1>12, <2>1, SpawnDoes DEF SealedSlot, At
    <2> QED BY <1>1, <1>4, <1>12, <2>1, <2>2, SpawnDoes
  <1>13. ASSUME NEW s \in Slots, NEW code \in Int, Exit(s, code), launch' = launch, Still
         PROVE  SealedSlot(s, r)' /\ OthersKept(s)
    <2>1. OthersKept(s)
      BY <1>1, <1>13, ExitEffect DEF OthersKept, Kept
    <2>2. \/ child'[s] = NoChild
          \/ /\ child'[s].run = child[s].run /\ child'[s].state = "exited"
             /\ child'[s].resumed = child[s].resumed /\ child'[s].under = child[s].under
      BY <1>1, <1>13, ExitEffect
    <2>3. SealedSlot(s, r)'
      BY <1>1, <1>2, <1>13, <2>2, NoneFacts DEF SealedSlot, At
    <2> QED BY <2>1, <2>3
  <1>14. ASSUME NEW s \in Slots, Boot(s)
         PROVE  SealedRun(r)'
    <2>1. Still
      BY <1>14 DEF Boot
    <2>2. CASE Exit(s, 1)
      BY <1>1, <1>4, <1>13, <1>14, <2>1, <2>2, BootDoes
    <2>3. CASE ~ Exit(s, 1)
      <3>1. /\ child[s].state = "boot" /\ launch' = launch /\ OthersKept(s)
            /\ child'[s].state = "run" /\ child'[s].run = child[s].run
            /\ child'[s].resumed = {} /\ child'[s].under \subseteq {manifest} \cup child[s].resumed
        BY <1>1, <1>14, <2>3, BootDoes
      <3>2. SealedSlot(s, r)'
        BY <1>2, <2>1, <3>1 DEF SealedSlot, At
      <3> QED BY <1>4, <2>1, <3>1, <3>2
    <2> QED BY <2>2, <2>3
  <1>15. ASSUME NEW s \in Slots, Train(s) \/ End(s)
         PROVE  SealedRun(r)'
    <2>1. /\ manifest' = manifest /\ sentinel' = sentinel /\ launch' = launch /\ child[s].state = "run"
          /\ ckpts' \in {ckpts, [ckpts EXCEPT ![child[s].run] = @ \cup child[s].under]}
      BY <1>15 DEF Train, End
    <2>2. CASE ckpts'[r] \subseteq ckpts[r]
      <3>1. Still
        BY <2>1, <2>2
      <3>2. CASE Train(s)
        BY <1>5, <2>1, <3>1, <3>2 DEF Train, Kept
      <3>3. CASE End(s)
        BY <1>4, <1>13, <2>1, <3>1, <3>3 DEF End
      <3> QED BY <1>15, <3>2, <3>3
    <2>3. CASE ~ (ckpts'[r] \subseteq ckpts[r])
      <3>1. child[s].run = r /\ ckpts'[r] = ckpts[r] \cup child[s].under
        BY <1>1, <2>1, <2>3 DEF FilesTyped
      <3>2. ckpts'[r] \subseteq {sentinel[r]}
        BY <1>2, <3>1 DEF SealedSlot
      <3>3. \A t \in Slots : launch[t].run = r => launch[t].pc \in {"pid", "wait"}
        BY <1>1, <3>1, OneSlot
      <3>4. \A t \in Slots \ {s} : child[t].run # r /\ child'[t] = child[t]
        <4>1. \A t \in Slots : child[t].run = r => t = s
          BY <1>1, <3>1, OneSlot
        <4>2. \A t \in Slots \ {s} : child'[t] = child[t]
          BY <1>1, <1>15, ExitEffect DEF Train, End
        <4> QED BY <4>1, <4>2
      <3>5. \/ child'[s] = NoChild
            \/ /\ child'[s].state \in {"exited", "run"}
               /\ child'[s].resumed = child[s].resumed /\ child'[s].under = child[s].under
        BY <1>1, <1>15, <2>1, ExitEffect DEF Train, End
      <3>6. \A t \in Slots : SealedSlot(t, r)'
        <4>1. SealedSlot(s, r)'
          BY <1>1, <1>2, <2>1, <3>1, <3>3, <3>5, NoneFacts DEF SealedSlot, At
        <4>2. \A t \in Slots \ {s} : SealedSlot(t, r)'
          BY <2>1, <3>3, <3>4 DEF SealedSlot, At
        <4> QED BY <4>1, <4>2
      <3> QED BY <2>1, <3>2, <3>6 DEF SealedRun
    <2> QED BY <2>2, <2>3
  <1>16. ASSUME NEW s \in Slots, Forget(s) \/ KillWrapper(s)
         PROVE  SealedRun(r)'
    <2>1. Still
      BY <1>16 DEF Forget, KillWrapper, files
    <2>2. \A t \in Slots : Kept(t) \/ (launch'[t] = NoLaunch /\ child'[t] \in {child[t], NoChild})
      BY <1>1, <1>16, LoosenEffect DEF Forget, KillWrapper, ProcessesTyped, Kept
    <2> QED BY <1>5, <2>1, <2>2
  <1> HIDE DEF Still
  <1> QED BY <1>6, <1>7, <1>8, <1>9, <1>10, <1>11, <1>12, <1>14, <1>15, <1>16
          DEF Next, Processes, Wrapper, Training

-----------------------------------------------------------------------------
(* Only a finished run counts as completed. *)

LEMMA ZeroExit ==
  ASSUME NEW rc \in Int, NEW warnings, NEW drift, ExitCode(rc, warnings, drift) = 0
  PROVE  rc = 0 /\ ~ warnings
  BY DEF ExitCode, ExitCodePlain

(* The pid file of a run that is not loose names no live process when it is checked. *)
LEMMA CheckFindsNone ==
  ASSUME Inv, NEW s \in Slots, launch[s].pc = "check", launch[s].run \notin loose
  PROVE  launch[s].run \in Runs /\ ~ PidAlive(launch[s].run)
  <1>1. launch[s].run \in Runs
    BY NoneFacts DEF Inv, Slotted
  <1>2. pidFile[launch[s].run] # "stranger"
    BY <1>1 DEF Inv, NoStranger
  <1>3. ASSUME NEW t \in Slots, Alive(t, launch[s].run)
        PROVE  FALSE
    <2>1. launch[t].pc \in {"pid", "wait"} /\ launch[t].run = launch[s].run
      BY <1>1, <1>3, OneSlot DEF Alive
    <2>2. t = s
      BY <1>1, <2>1, OneSlot
    <2> QED BY <2>1, <2>2
  <1> QED BY <1>1, <1>2, <1>3 DEF PidAlive

LEMMA HonestStep ==
  ASSUME Inv, [Next]_vars, NEW r \in Runs, r \notin loose'
  PROVE  HonestRun(r)'
  <1>1. /\ ProcessesTyped /\ FilesTyped /\ (\A s \in Slots : Slotted(s)) /\ r \in Runs \ loose
        /\ HonestRun(r) /\ r # None /\ finished \subseteq finished'
    BY GhostsGrow, LongRunAssumption DEF Inv, Typed
  <1>2. \A s \in Slots : HonestSlot(s, r)
    BY <1>1 DEF HonestRun
  <1> DEFINE Noted == index'[r] = "completed" \/ r \in doneFile' => r \in finished'
             Warned == warned[r] => warned'[r]
             Dropped(s) == launch'[s] = NoLaunch /\ child'[s] \in {child[s], NoChild}
  <1>3. ASSUME Warned, NEW s \in Slots, Kept(s) \/ Dropped(s)
        PROVE  HonestSlot(s, r)'
    BY <1>1, <1>2, <1>3, NoneFacts DEF HonestSlot, Kept
  <1>4. ASSUME Noted, Warned, NEW s \in Slots, OthersKept(s), HonestSlot(s, r)'
        PROVE  HonestRun(r)'
    <2>1. \A t \in Slots : HonestSlot(t, r)'
      BY <1>3, <1>4 DEF OthersKept
    <2> QED BY <1>4, <2>1 DEF HonestRun
  <1>5. ASSUME Noted, Warned, \A s \in Slots : Kept(s) \/ Dropped(s)
        PROVE  HonestRun(r)'
    BY <1>3, <1>5 DEF HonestRun
  <1>6. (index' = index \/ index'[r] # "completed") /\ doneFile' = doneFile => Noted
    BY <1>1 DEF HonestRun
  <1>7. CASE Begin
    <2>1. PICK s \in Slots : s = NextSlot
      BY <1>1, <1>7, BeginDoes
    <2>2. OthersKept(s) /\ launch'[s].pc = "check" /\ child'[s] = NoChild
      BY <1>1, <1>7, <2>1, BeginDoes
    <2>3. Warned /\ doneFile' = doneFile /\ index' = [index EXCEPT ![Current] = "in_progress"]
      BY <1>7 DEF Begin, files
    <2>4. Noted
      BY <1>1, <2>3 DEF HonestRun, FilesTyped
    <2>5. HonestSlot(s, r)'
      BY <1>1, <2>2, NoneFacts DEF HonestSlot
    <2> QED BY <1>4, <2>2, <2>3, <2>4, <2>5
  <1>8. CASE Record
    <2>1. PICK s \in Slots : s = orch.slot
      BY <1>1, <1>8, RecordDoes
    <2>2. Warned /\ doneFile' = doneFile /\ index' = [index EXCEPT ![Current] = StateOf(Answer)]
      BY <1>8 DEF Record, files
    <2>3. Noted
      <3>1. CASE Current # r \/ StateOf(Answer) # "completed"
        BY <1>1, <2>2, <3>1 DEF HonestRun, FilesTyped
      <3>2. CASE Current = r /\ StateOf(Answer) = "completed"
        <4>1. launch[s].pc = "returned" /\ launch[s].rc = 0
          BY <2>1, <3>2 DEF StateOf, Answer, At
        <4>2. launch[s].run = r
          BY <1>1, <1>8, <2>1, <3>2, <4>1, RecordDoes, NoneFacts DEF Inv, Awaited
        <4> QED BY <1>1, <1>2, <4>1, <4>2 DEF HonestSlot
      <3> QED BY <3>1, <3>2
    <2> QED BY <1>1, <1>5, <1>8, <2>2, <2>3, RecordDoes DEF OthersKept, Kept

  <1>9. CASE \/ Start \/ Skip \/ Handoff \/ Complete \/ Operator \/ KillOrchestrator \/ Reboot \/ UNCHANGED vars
    <2>1. Noted /\ Warned
      BY <1>6, <1>9 DEF Start, Skip, Handoff, Complete, Operator, Amend, Archive, KillOrchestrator, Reboot, vars, longVars, files
    <2> QED BY <1>5, <1>9, <2>1 DEF Start, Skip, Handoff, Complete, Operator, Amend, Archive, KillOrchestrator, Reboot,
               vars, longVars, Kept
  <1>10. ASSUME NEW s \in Slots, Forget(s) \/ KillWrapper(s)
         PROVE  HonestRun(r)'
    <2>1. Noted /\ Warned
      BY <1>6, <1>10 DEF Forget, KillWrapper, files
    <2>2. \A t \in Slots : Kept(t) \/ Dropped(t)
      BY <1>1, <1>10, LoosenEffect DEF Forget, KillWrapper, ProcessesTyped, Kept
    <2> QED BY <1>5, <2>1, <2>2
  <1>11. ASSUME NEW s \in Slots, CheckPid(s) \/ Verify(s) \/ Seal(s) \/ SentinelLost(s) \/ WritePid(s) \/ ClearPid(s), index' = index
         PROVE  HonestRun(r)'
    <2>1. Noted /\ Warned
      BY <1>6, <1>11 DEF CheckPid, Verify, Seal, SentinelLost, SealFails, WritePid, ClearPid, files
    <2>2. /\ OthersKept(s) /\ child' = child /\ SameLaunch(s)
          /\ \/ launch'[s].pc \notin {"clear", "returned"}
             \/ launch[s].pc = "clear" /\ launch'[s].rc = launch[s].rc
             \/ launch[s].pc = "check" /\ PidAlive(launch[s].run)
             \/ launch'[s].rc = 3
      BY <1>1, <1>11, CheckPidDoes, VerifyDoes, SealDoes, PidDoes DEF SentinelLost
    <2>3. launch[s].run = r /\ launch[s].pc = "check" => ~ PidAlive(launch[s].run)
      BY <1>1, CheckFindsNone
    <2>4. warned'[r] = warned[r]
      BY <1>11 DEF CheckPid, Verify, Seal, SentinelLost, SealFails, WritePid, ClearPid, files
    <2>5. HonestSlot(s, r)'
      BY <1>1, <1>2, <2>2, <2>3, <2>4 DEF HonestSlot, SameLaunch
    <2> QED BY <1>4, <2>1, <2>2, <2>5
  <1>12. ASSUME NEW s \in Slots, Spawn(s), index' = index
         PROVE  HonestRun(r)'
    <2>1. Noted
      BY <1>6, <1>12 DEF Spawn
    <2>2. /\ launch[s].pc = "spawn" /\ launch'[s].pc = "pid" /\ SameLaunch(s) /\ OthersKept(s)
          /\ child'[s].state = "boot" /\ ~ child'[s].warned
      BY <1>1, <1>12, SpawnDoes
    <2>3. HonestSlot(s, r)'
      BY <2>2 DEF HonestSlot
    <2>4. CASE launch[s].run = r
      <3>1. \A t \in Slots \ {s} : launch'[t].run # r /\ child'[t].run # r
        BY <1>1, <2>2, <2>4, OneSlot DEF OthersKept, Kept
      <3>2. \A t \in Slots : HonestSlot(t, r)'
        BY <2>3, <3>1 DEF HonestSlot
      <3> QED BY <2>1, <3>2 DEF HonestRun
    <2>5. CASE launch[s].run # r
      <3>1. Warned
        BY <1>1, <1>12, <2>5 DEF Spawn, FilesTyped
      <3> QED BY <1>4, <2>1, <2>2, <2>3, <3>1
    <2> QED BY <2>4, <2>5
  <1>13. ASSUME NEW s \in Slots, WatcherKills(s), index' = index
         PROVE  HonestRun(r)'
    <2>1. Noted /\ Warned /\ warned' = warned
      BY <1>6, <1>13 DEF WatcherKills, files
    <2>2. HonestSlot(s, r)'
      BY <1>1, <1>2, <1>13, <2>1, WatcherDoes DEF HonestSlot
    <2> QED BY <1>1, <1>4, <1>13, <2>1, <2>2, WatcherDoes
  <1>14. ASSUME NEW s \in Slots, Reap(s), index' = index
         PROVE  HonestRun(r)'
    <2>1. /\ launch[s].pc = "wait" /\ launch'[s].pc = "clear" /\ SameLaunch(s) /\ OthersKept(s)
          /\ child[s].state = "exited" /\ child'[s] = NoChild
          /\ launch'[s].rc = ExitCode(child[s].rc, warned[launch[s].run], launch[s].drift)
      BY <1>1, <1>14, ReapDoes
    <2>2. launch[s].run = r /\ launch'[s].rc = 0 => r \in finished
      <3>1. SUFFICES ASSUME launch[s].run = r, launch'[s].rc = 0
                     PROVE  r \in finished
        OBVIOUS
      <3>2. child[s].run = r /\ child[s].rc \in Int
        BY <1>1, <2>1, <3>1 DEF Slotted, ProcessesTyped, ChildShape
      <3>3. child[s].rc = 0 /\ ~ warned[r]
        BY <2>1, <3>1, <3>2, ZeroExit
      <3> QED BY <1>2, <2>1, <3>2, <3>3 DEF HonestSlot
    <2>3. Noted
      <3>1. r \in doneFile' => r \in doneFile \/ (launch[s].run = r /\ launch'[s].rc = 0)
        BY <1>14, <2>1 DEF Reap
      <3> QED BY <1>1, <1>14, <2>2, <3>1 DEF HonestRun
    <2>4. HonestSlot(s, r)'
      BY <1>1, <2>1, <2>2, NoneFacts DEF HonestSlot, SameLaunch
    <2>5. Warned
      BY <1>14 DEF Reap
    <2> QED BY <1>4, <2>1, <2>3, <2>4, <2>5
  <1>15. ASSUME NEW s \in Slots, NEW code \in Int, Exit(s, code), launch' = launch, warned' = warned,
                code = 0 /\ child[s].run = r => r \in finished' \/ child[s].warned
         PROVE  HonestSlot(s, r)' /\ OthersKept(s)
    <2>1. OthersKept(s)
      BY <1>1, <1>15, ExitEffect DEF OthersKept, Kept
    <2>2. \/ child'[s] = NoChild
          \/ /\ child'[s].run = child[s].run /\ child'[s].state = "exited"
             /\ child'[s].rc = code /\ child'[s].warned = child[s].warned
      BY <1>1, <1>15, ExitEffect
    <2>3. HonestSlot(s, r)'
      BY <1>1, <1>2, <1>15, <2>2, NoneFacts DEF HonestSlot
    <2> QED BY <2>1, <2>3
  <1>16. ASSUME NEW s \in Slots, Boot(s), index' = index
         PROVE  HonestRun(r)'
    <2>1. Noted
      BY <1>6, <1>16 DEF Boot
    <2>2. CASE Exit(s, 1) /\ warned' = warned
      BY <1>1, <1>4, <1>15, <1>16, <2>1, <2>2, BootDoes
    <2>3. CASE ~ (Exit(s, 1) /\ warned' = warned)
      <3>1. /\ launch' = launch /\ OthersKept(s)
            /\ child'[s].state = "run" /\ child'[s].run = child[s].run
            /\ child'[s].warned => warned' = [warned EXCEPT ![child[s].run] = TRUE]
            /\ ~ child'[s].warned => warned' = [warned EXCEPT ![child[s].run] = @ \/ FALSE]
        BY <1>1, <1>16, <2>3, BootDoes
      <3>2. Warned /\ (child[s].run = r /\ child'[s].warned => warned'[r])
        BY <1>1, <3>1 DEF FilesTyped
      <3>3. HonestSlot(s, r)'
        BY <1>1, <1>2, <3>1, <3>2 DEF HonestSlot
      <3> QED BY <1>4, <2>1, <3>1, <3>2, <3>3
    <2> QED BY <2>2, <2>3
  <1>17. ASSUME NEW s \in Slots, Train(s), index' = index
         PROVE  HonestRun(r)'
    <2>1. Noted /\ Warned
      BY <1>6, <1>17 DEF Train
    <2> QED BY <1>5, <1>17, <2>1 DEF Train, Kept
  <1>18. ASSUME NEW s \in Slots, End(s), index' = index
         PROVE  HonestRun(r)'
    <2>1. Noted /\ Warned /\ launch' = launch /\ warned' = warned
      BY <1>6, <1>18 DEF End
    <2>2. \/ Exit(s, 1)
          \/ Exit(s, 0) /\ (child[s].run = r => r \in finished' \/ child[s].warned)
      BY <1>18 DEF End
    <2>3. HonestSlot(s, r)' /\ OthersKept(s)
      BY <1>15, <2>1, <2>2
    <2> QED BY <1>4, <2>1, <2>3
  <1> HIDE DEF Noted, Warned, Dropped
  <1> QED BY <1>7, <1>8, <1>9, <1>10, <1>11, <1>12, <1>13, <1>14, <1>16, <1>17, <1>18
          DEF Next, Orchestrator, Processes, Wrapper, Training, SentinelLost

-----------------------------------------------------------------------------
(* The trigger is evaluated before the launches go on. *)

LEMMA TriggeredStep ==
  ASSUME Inv, [Next]_vars
  PROVE  Triggered'
  <1>1. Triggered /\ FilesTyped /\ ProcessesTyped /\ faults \in Nat
    BY DEF Inv, Typed, GhostsTyped
  <1> USE OrderFacts
  <1>2. CASE Start \/ Skip \/ Complete
    <2>1. /\ UNCHANGED <<index, verdict, faults>> /\ orch.pc # "handoff"
          /\ orch'.pc # "handoff"
      <3>1. CASE Start
        BY <3>1 DEF Start, counters
      <3>2. CASE Skip \/ Complete
        BY <1>1, <3>2, NoneFacts DEF Skip, Complete, AtRun, ProcessesTyped, OrchShape, counters
      <3> QED BY <1>2, <3>1, <3>2
    <2> QED BY <1>1, <2>1 DEF Triggered, Done
  <1>3. CASE Begin
    <2>1. UNCHANGED <<verdict, faults>> /\ orch.pc # "handoff" /\ orch'.pc # "handoff"
      BY <1>1, <1>3, BeginDoes DEF Begin, AtRun, counters
    <2>2. EvalAfter \in Positions /\ Done(EvalAfter)' => Done(EvalAfter)
      <3>1. index' = [index EXCEPT ![Current] = "in_progress"]
        BY <1>3 DEF Begin
      <3> QED BY <1>1, <3>1 DEF Done, FilesTyped
    <2> QED BY <1>1, <2>1, <2>2 DEF Triggered
  <1>4. CASE Record
    <2>1. /\ UNCHANGED <<verdict, faults>> /\ orch.pc = "busy" /\ orch.pos \in Positions
          /\ index' = [index EXCEPT ![LaunchOrder[orch.pos]] = StateOf(Answer)]
      BY <1>1, <1>4, RecordDoes DEF Record, counters, Current
    <2>2. \/ orch' = Off /\ Halts(Answer)
          \/ Answer = 0 /\ orch'.pc = "handoff" /\ orch'.pos = orch.pos /\ EvalDue(orch.pos)
          \/ Answer = 0 /\ orch'.pc = "next" /\ ~ EvalDue(orch.pos)
      <3>1. CASE Halts(Answer)
        BY <1>4, <3>1 DEF Record
      <3>2. CASE ~ Halts(Answer)
        <4>1. orch' # Off
          BY <1>1, <1>4, <3>2 DEF Record, Off, ProcessesTyped, OrchShape
        <4> QED BY <1>1, <1>4, <4>1, RecordDoes
      <3> QED BY <3>1, <3>2
    <2>3. Halts(Answer) => StateOf(Answer) # "completed"
      BY DEF Halts, StateOf
    <2>4. CASE orch'.pc = "handoff"
      BY <2>2, <2>4, NoneFacts DEF Triggered, EvalDue
    <2>5. CASE orch'.pc # "handoff"
      <3>1. EvalAfter \in Positions /\ Done(EvalAfter)' => Done(EvalAfter)
        BY <1>1, <2>1, <2>2, <2>3, <2>5 DEF Done, FilesTyped, EvalDue
      <3> QED BY <1>1, <2>1, <2>5, <3>1 DEF Triggered
    <2> QED BY <2>4, <2>5
  <1>5. CASE Handoff
    <2>1. orch'.pc = "next" /\ verdict' # None
      BY <1>1, <1>5 DEF Handoff, ProcessesTyped, OrchShape, None
    <2> QED BY <2>1 DEF Triggered
  <1>6. CASE Operator \/ Processes \/ UNCHANGED vars \/ \E s \in Slots : Forget(s)
    BY <1>1, <1>6 DEF Operator, Processes, Forget, Triggered, Done, vars, counters
  <1>7. CASE KillOrchestrator \/ Reboot \/ \E s \in Slots : KillWrapper(s) \/ SentinelLost(s)
    <2>1. faults' = faults + 1 /\ orch' \in {orch, Off}
      BY <1>7 DEF KillOrchestrator, Reboot, KillWrapper, SentinelLost, Fault
    <2> QED BY <1>1, <2>1, NoneFacts DEF Triggered
  <1> QED BY <1>2, <1>3, <1>4, <1>5, <1>6, <1>7 DEF Next, Orchestrator

-----------------------------------------------------------------------------
(* The theorems. *)

LEMMA Invariance == Spec => []Inv
  <1>1. Inv /\ [Next]_vars => Inv'
    <2> SUFFICES ASSUME Inv, [Next]_vars
                 PROVE  Inv'
      OBVIOUS
    <2>1. Typed' /\ Ordered' /\ Begun' /\ UnderLock' /\ Triggered' /\ NoStranger' /\ Awaited'
      BY TypedStep, OrderedStep, BegunStep, UnderLockStep, TriggeredStep, StrangerStep, AwaitedStep
    <2>2. \A s \in Slots : Slotted(s)' /\ Attended(s)'
      BY SlottedStep, AttendedStep
    <2>3. \A r \in Runs \ loose' : HonestRun(r)' /\ (r \notin unsealed' => SealedRun(r)')
      BY HonestStep, SealedStep
    <2> QED BY <2>1, <2>2, <2>3 DEF Inv
  <1> QED BY <1>1, InvInit, PTL DEF Spec

LEMMA AtMostOne ==
  ASSUME NEW S, NEW e, S \subseteq {e}
  PROVE  Cardinality(S) <= 1
  <1>1. IsFiniteSet({e}) /\ Cardinality({e}) = 1
    BY FS_Singleton
  <1>2. Cardinality(S) <= Cardinality({e})
    BY <1>1, FS_Subset
  <1> QED BY <1>1, <1>2

(* Every variable of the wrapper, the orchestrator and the files they share     *)
(* stays in its type, whatever is killed, rebooted, amended or archived.        *)
THEOREM TypeCorrect == Spec => []Typed
  <1>1. Inv => Typed
    BY DEF Inv
  <1> QED BY <1>1, Invariance, PTL

(* run_phase3_factorial.py and run_long.py: as long as no launch lost its       *)
(* wrapper or its caller at most one training runs, and a run recorded as       *)
(* completed, or with a done file, really came to its end.                      *)
THEOREM FactorialIsSerialAndHonest == Spec => []SerialAndHonest
  <1>1. Inv => SerialAndHonest
    <2> SUFFICES ASSUME Inv
                 PROVE  SerialAndHonest
      OBVIOUS
    <2>1. ASSUME loose = {}
          PROVE  Cardinality(Underway) <= 1
      <3>1. Underway \subseteq {orch.slot}
        <4> SUFFICES ASSUME NEW s \in Slots, child[s].state \in {"boot", "run"}
                     PROVE  s = orch.slot
          BY DEF Underway
        <4>1. child[s].run \in Runs \ loose
          BY <2>1, NoneFacts DEF Inv, Slotted
        <4>2. launch[s].run = child[s].run
          BY <4>1, OneSlot
        <4> QED BY <4>1, <4>2, OneSlot DEF Owned
      <3> QED BY <3>1, AtMostOne
    <2>2. \A r \in Runs \ loose : index[r] = "completed" \/ r \in doneFile => r \in finished
      BY DEF Inv, HonestRun
    <2> QED BY <2>1, <2>2 DEF SerialAndHonest
  <1> QED BY <1>1, Invariance, PTL

(* Across halts, kills and restarts a run starts only when every earlier one is *)
(* recorded as completed, every checkpoint is of the locked manifest unless it  *)
(* was amended or waived, and no directory mixes the checkpoints of two.        *)
THEOREM FactorialIsLocked == Spec => []LockedFactorial
  <1>1. Inv => LockedFactorial
    <2> SUFFICES ASSUME Inv
                 PROVE  LockedFactorial
      OBVIOUS
    <2>1. LockedOrder
      BY OrderFacts DEF Inv, Ordered, Begun, LockedOrder, Started, Done
    <2>2. LockedSpec
      BY DEF Inv, UnderLock, LockedSpec
    <2>3. SpecsNotMixed
      BY AtMostOne DEF Inv, SealedRun, SpecsNotMixed
    <2> QED BY <2>1, <2>2, <2>3 DEF LockedFactorial
  <1> QED BY <1>1, Invariance, PTL

(* Nothing having been killed, no run after number EvalAfter starts before the  *)
(* verdict on the trigger is recorded, whatever halted and was resumed.         *)
THEOREM TriggerComesFirst == Spec => []TriggerBeforeRest
  <1>1. Inv => TriggerBeforeRest
    <2> SUFFICES ASSUME Inv, faults = 0, NEW i \in Positions, i > EvalAfter, EvalAfter > 0, Started(LaunchOrder[i])
                 PROVE  verdict # None
      BY DEF TriggerBeforeRest
    <2>1. EvalAfter \in Positions
      BY FactorialAssumption DEF Positions
    <2>2. index[LaunchOrder[i]] # None
      BY OrderFacts DEF Inv, Begun, Started
    <2>3. Done(EvalAfter)
      BY <2>1, <2>2 DEF Inv, Ordered
    <2>4. orch.pc # "handoff"
      BY <2>2 DEF Inv, Ordered, Triggered
    <2> QED BY <2>1, <2>3, <2>4 DEF Inv, Triggered
  <1> QED BY <1>1, Invariance, PTL
=============================================================================
