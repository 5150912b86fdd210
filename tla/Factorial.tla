----------------------------- MODULE Factorial -----------------------------
(***************************************************************************)
(* tools/run_phase3_factorial.py: the orchestrator that trains the runs of *)
(* LaunchOrder one after the other through run_long.py (LongRun), skips    *)
(* the completed ones, stops at the first that is not, and evaluates the   *)
(* B4 T1 trigger after run number EvalAfter.  The operator starts it again *)
(* after a halt or a kill, never twice at once.  The journal of a cell,    *)
(* which nothing reads, and the digests are left out.                      *)
(***************************************************************************)
EXTENDS LongRun, Sequences

CONSTANTS
    LaunchOrder,    \* the runs in their locked order
    EvalAfter,      \* B4_T1_EVAL_AFTER_RUN
    Cell,           \* what each run is launched with: [id, model, lr, seed, seq]
    Arms,           \* the arms of each manifest, in file order, 0 for a field left out
    MaxStarts,      \* bound on invocations
    MaxFaults,      \* bound on kills and failed writes
    MaxAmends       \* bound on amendments of the manifest and archived directories

ASSUME FactorialAssumption ==
    /\ LaunchOrder \in Seq(Runs) /\ Len(LaunchOrder) >= 1
    /\ \A i, j \in 1..Len(LaunchOrder) : LaunchOrder[i] = LaunchOrder[j] => i = j
    /\ EvalAfter \in Nat
    /\ {MaxStarts, MaxFaults, MaxAmends} \subseteq Nat

VARIABLES
    lock,       \* lock_fingerprint.txt
    index,      \* run_index.json: the state of each run
    verdict,    \* _meta.b4_t1_verdict
    orch,       \* the orchestrator: where it is, the run it is at, the slot it waits for
    waived,     \* ghost: --allow-fingerprint-drift let a drifted manifest through
    amended,    \* ghost: the manifest changed under an orchestrator or a launch
    starts, faults, amends

counters == <<starts, faults, amends>>
vars == <<longVars, lock, index, verdict, orch, waived, amended, counters>>

Positions == 1..Len(LaunchOrder)
Off == [pc |-> "off", pos |-> 0, slot |-> None]

Flags == {"dry", "drift", "sentinel", "fingerprint"}

Init ==
    /\ LongInit
    /\ lock = None /\ index = [r \in Runs |-> None] /\ verdict = None
    /\ orch = Off /\ waived = FALSE /\ amended = FALSE
    /\ starts = 0 /\ faults = 0 /\ amends = 0

-----------------------------------------------------------------------------
(* Preflight. *)

(* The arm of a run: by cell id if one has it, else by model. *)
ArmsOf(m, r) ==
    LET byId == SelectSeq(Arms[m], LAMBDA a : a.id = Cell[r].id)
    IN  IF byId # << >> THEN byId ELSE SelectSeq(Arms[m], LAMBDA a : a.model = Cell[r].model)
Conflicts(m, r) ==
    \/ ArmsOf(m, r) = << >>
    \/ \E field \in {"lr", "seed", "seq"} :
          Head(ArmsOf(m, r))[field] \notin {0, Cell[r][field]}
Blocked(m) == {r \in Runs : Conflicts(m, r)}

FingerprintOK == lock \in {None, manifest}
SentinelsOK == \A r \in Runs : SentinelOK(r)

(* Each check has a flag of its own, but a failed one of the last two needs both flags. *)
Cleared(flags) ==
    /\ FingerprintOK \/ "fingerprint" \in flags
    /\ (Blocked(manifest) = {} /\ SentinelsOK) \/ {"drift", "sentinel"} \subseteq flags

Start ==
    /\ orch.pc = "off" /\ starts < MaxStarts
    /\ starts' = starts + 1
    /\ lock' = IF lock = None THEN manifest ELSE lock
    /\ \E flags \in SUBSET Flags :
          IF Cleared(flags) /\ "dry" \notin flags
          THEN /\ orch' = [pc |-> "next", pos |-> 1, slot |-> None]
               /\ waived' = (waived \/ ~FingerprintOK)
          ELSE UNCHANGED <<orch, waived>>
    /\ UNCHANGED <<longVars, index, verdict, amended, faults, amends>>

-----------------------------------------------------------------------------
(* The serial loop. *)

AtRun(step) == orch.pc = step /\ orch.pos \in Positions
Current == LaunchOrder[orch.pos]
Free == {s \in Slots : launch[s] = NoLaunch /\ child[s] = NoChild}
NextSlot == CHOOSE s \in Free : TRUE

Skip ==
    /\ AtRun("next") /\ index[Current] = "completed"
    /\ orch' = [orch EXCEPT !.pos = @ + 1]
    /\ UNCHANGED <<longVars, lock, index, verdict, waived, amended, counters>>

Begin ==
    /\ AtRun("next") /\ index[Current] # "completed" /\ Free # {}
    /\ index' = [index EXCEPT ![Current] = "in_progress"]
    /\ orch' = [orch EXCEPT !.pc = "busy", !.slot = NextSlot]
    /\ launch' = [launch EXCEPT ![NextSlot] = [NoLaunch EXCEPT !.pc = "check", !.run = Current]]
    /\ UNCHANGED <<manifest, files, child, ghosts, lock, verdict, waived, amended, counters>>

(* subprocess.call returned: a code of run_long, or a negative one for a killed wrapper. *)
Answered == launch[orch.slot].pc \in {"returned", None}
Answer == IF At(orch.slot, "returned") THEN launch[orch.slot].rc ELSE 0 - 9
StateOf(rc) == CASE rc = 4 -> "perf_drift" [] rc = 0 -> "completed" [] OTHER -> "failed"

Halts(rc) == rc # 0
EvalDueLate(pos) == pos = EvalAfter + 1
EvalDue(pos) == pos = EvalAfter

Record ==
    /\ AtRun("busy") /\ Answered
    /\ index' = [index EXCEPT ![Current] = StateOf(Answer)]
    /\ launch' = [launch EXCEPT ![orch.slot] = NoLaunch]
    /\ orch' = IF Halts(Answer) THEN Off
               ELSE IF EvalDue(orch.pos) THEN [orch EXCEPT !.pc = "handoff", !.slot = None]
               ELSE [pc |-> "next", pos |-> orch.pos + 1, slot |-> None]
    /\ UNCHANGED <<manifest, files, child, ghosts, lock, verdict, waived, amended, counters>>

(* The trigger's answer is recorded, whatever it is; the launches go on. *)
Handoff ==
    /\ AtRun("handoff")
    /\ verdict' \in {"evaluated", "fatal", "missing"}
    /\ orch' = [orch EXCEPT !.pc = "next", !.pos = @ + 1]
    /\ UNCHANGED <<longVars, lock, index, waived, amended, counters>>

Complete ==
    /\ orch.pc = "next" /\ orch.pos \notin Positions
    /\ orch' = Off
    /\ UNCHANGED <<longVars, lock, index, verdict, waived, amended, counters>>

-----------------------------------------------------------------------------
(* What happens to the processes. *)

Owned(s) == orch.pc = "busy" /\ orch.slot = s

(* A wrapper whose caller is gone ends unheard. *)
Forget(s) ==
    /\ At(s, "returned") /\ ~Owned(s)
    /\ launch' = [launch EXCEPT ![s] = NoLaunch]
    /\ UNCHANGED <<manifest, files, child, ghosts, lock, index, verdict, orch, waived, amended, counters>>

Fault == faults < MaxFaults /\ faults' = faults + 1

KillWrapper(s) ==
    /\ Fault /\ launch[s].pc # None
    /\ Loosen(s)
    /\ loose' = loose \cup {launch[s].run}
    /\ orch' \in {orch} \cup (IF Owned(s) THEN {Off} ELSE {})    \* a signal to the whole group
    /\ UNCHANGED <<manifest, files, finished, unsealed, lock, index, verdict, waived, amended,
                   starts, amends>>

SentinelLost(s) ==
    /\ Fault /\ SealFails(s)
    /\ UNCHANGED <<lock, index, verdict, orch, waived, amended, starts, amends>>

(* The wrapper ignores hang-ups; its caller does not. *)
KillOrchestrator ==
    /\ Fault /\ orch.pc # "off"
    /\ loose' = loose \cup {r \in Runs : orch.pc = "busy" /\ r = Current}
    /\ orch' = Off
    /\ UNCHANGED <<manifest, files, launch, child, finished, unsealed, lock, index, verdict,
                   waived, amended, starts, amends>>

(* Everything dies; afterwards a number left in a pid file may be another process. *)
Reboot ==
    /\ Fault
    /\ launch' = [s \in Slots |-> NoLaunch] /\ child' = [s \in Slots |-> NoChild]
    /\ loose' = loose \cup {r \in Runs : pidFile[r] # None}
    /\ pidFile' \in {pidFile, [r \in Runs |-> IF pidFile[r] = None THEN None ELSE "stranger"]}
    /\ orch' = Off
    /\ UNCHANGED <<manifest, doneFile, window, warned, ckpts, sentinel, finished, unsealed, lock,
                   index, verdict, waived, amended, starts, amends>>

Operator ==
    \/ /\ amends < MaxAmends /\ amends' = amends + 1
       /\ Amend
       /\ amended' = (amended \/ orch.pc # "off" \/ \E s \in Slots :
                        launch[s].pc # None \/ child[s].state = "boot")
       /\ UNCHANGED <<lock, index, verdict, orch, waived, starts, faults>>
    \/ /\ amends < MaxAmends /\ amends' = amends + 1
       /\ orch.pc = "off" /\ \E r \in Runs : Archive(r)
       /\ UNCHANGED <<lock, index, verdict, orch, waived, amended, starts, faults>>

Orchestrator == Start \/ Skip \/ Begin \/ Record \/ Handoff \/ Complete
Processes ==
    /\ \E s \in Slots : Wrapper(s) \/ Training(s)
    /\ UNCHANGED <<lock, index, verdict, orch, waived, amended, counters>>

Next ==
    \/ Orchestrator \/ Processes \/ Operator
    \/ KillOrchestrator \/ Reboot
    \/ \E s \in Slots : Forget(s) \/ KillWrapper(s) \/ SentinelLost(s)

Spec == Init /\ [][Next]_vars

-----------------------------------------------------------------------------
Started(r) == index[r] # None \/ ckpts[r] # {}
Underway == {s \in Slots : child[s].state \in {"boot", "run"}}

(* The locked order holds across halts, kills and restarts: a run starts    *)
(* only when every earlier one is recorded as completed, so a failed or     *)
(* drifted run stops the factorial until it is repaired.                    *)
LockedOrder ==
    \A i, j \in Positions :
        j < i /\ Started(LaunchOrder[i]) => index[LaunchOrder[j]] = "completed"

(* Every checkpoint was trained under the manifest that was locked, unless  *)
(* it was amended under a running orchestrator or the operator waived the   *)
(* check.                                                                   *)
LockedSpec == \A r \in Runs : waived \/ amended \/ ckpts[r] \subseteq {lock}

(* No launch having lost its wrapper or its caller: trainings follow one    *)
(* another (PC-3), and a run counts as completed only when its training     *)
(* came to its end, resumed where it was meant to and inside its band.      *)
SerialAndHonest ==
    /\ loose = {} => Cardinality(Underway) <= 1
    /\ \A r \in Runs \ loose : index[r] = "completed" \/ r \in doneFile => r \in finished

(* Without a kill, no run after number EvalAfter starts before the verdict  *)
(* on the trigger is recorded, whatever halted and was resumed.             *)
TriggerBeforeRest ==
    faults = 0 => \A i \in Positions :
        i > EvalAfter /\ EvalAfter > 0 /\ Started(LaunchOrder[i]) => verdict # None

(* "next never starts until the previous process has fully exited via the   *)
(* run_long.py waiter": no training of a completed run goes on.  One does   *)
(* when the orchestrator dies under it and is started again: the new        *)
(* wrapper finds the live pid, returns 0 and the run is taken as done.      *)
ExitedBeforeNext ==
    \A s \in Underway : index[child[s].run] # "completed"

(* A training is killed for drifting on its own step times.  It is not when *)
(* it is resumed: the watcher reads the log from its first launch on.       *)
DriftIsItsOwn ==
    [][\A s \in Slots : launch'[s].drift /\ ~launch[s].drift => child[s].speed = "slow"]_vars

(* The factorial is the locked one: its order, its manifest, and no run whose   *)
(* checkpoints come from two.                                                   *)
LockedFactorial == LockedOrder /\ LockedSpec /\ SpecsNotMixed
=============================================================================
