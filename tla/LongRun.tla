------------------------------ MODULE LongRun ------------------------------
(***************************************************************************)
(* tools/run_long.py: the wrapper that starts one training run, resumes it *)
(* from its checkpoints, waits for it and translates its exit.             *)
(*                                                                         *)
(* A slot is one wrapper process and the training process it started.  The *)
(* wrapper can die (or be orphaned by the tool that called it) while the   *)
(* training process, which has its own session, lives on.  The manifest    *)
(* programs/<program>/spec_invariants.yaml is a number: its fingerprint.   *)
(* The nohup/caffeinate/bash chain is one process.                         *)
(***************************************************************************)
EXTENDS Integers, FiniteSets

CONSTANTS
    Runs,       \* run ids, each with a checkpoint directory of its own
    Slots,      \* wrapper processes that may exist at once
    Rejected,   \* <<manifest, run>> that config_drift.c of the binary refuses
    Manifests,  \* fingerprints the manifest can take
    First       \* the one it starts with

None == "none"      \* no fingerprint, no run, no file

ASSUME LongRunAssumption ==
    /\ Rejected \subseteq Manifests \X Runs
    /\ First \in Manifests
    /\ None \notin Manifests \cup Runs /\ {None, "stranger"} \cap Slots = {}

VARIABLES
    manifest,   \* fingerprint of the manifest on disk
    pidFile,    \* data/runs/<run>/pid: a slot, "stranger" (a recycled pid) or None
    doneFile,   \* runs with data/runs/<run>/done
    window,     \* speed of the first full window of step times in stdout.log
    warned,     \* a load warning stands after the last launch header of the log
    ckpts,      \* manifests the checkpoints of the directory were trained under
    sentinel,   \* .run_long_spec_sentinel
    launch,     \* the wrapper of each slot
    child,      \* its training process
    finished,   \* ghost: runs whose training really came to its end
    loose,      \* ghost: runs a launch of which lost its wrapper or its caller
    unsealed    \* ghost: runs whose sentinel may not be what the training read

files == <<pidFile, doneFile, window, warned, ckpts, sentinel>>
ghosts == <<finished, loose, unsealed>>
longVars == <<manifest, files, launch, child, ghosts>>

NoLaunch == [pc |-> None, run |-> None, resume |-> FALSE, drift |-> FALSE, rc |-> 0]
NoChild == [state |-> None, run |-> None, resumed |-> {}, under |-> {}, speed |-> "fast",
            warned |-> FALSE, rc |-> 0]

LongInit ==
    /\ manifest = First
    /\ pidFile = [r \in Runs |-> None] /\ doneFile = {}
    /\ window = [r \in Runs |-> None] /\ warned = [r \in Runs |-> FALSE]
    /\ ckpts = [r \in Runs |-> {}] /\ sentinel = [r \in Runs |-> None]
    /\ launch = [s \in Slots |-> NoLaunch] /\ child = [s \in Slots |-> NoChild]
    /\ finished = {} /\ loose = {} /\ unsealed = {}

At(s, step) == launch[s].pc = step
Step(s, step) == launch' = [launch EXCEPT ![s].pc = step]
Return(s, code) == launch' = [launch EXCEPT ![s].pc = "returned", ![s].rc = code]

(* A process that exited and is not waited for yet still answers kill(pid, 0). *)
Alive(s, r) == child[s].run = r /\ child[s].state \in {"boot", "run", "exited"}
PidAlive(r) == \/ pidFile[r] = "stranger"
               \/ pidFile[r] \in Slots /\ Alive(pidFile[r], r)

(* verify_spec_sentinel: no checkpoints, or the ones of this manifest. *)
SentinelOKAlways(r) == TRUE
SentinelOK(r) == ckpts[r] = {} \/ sentinel[r] = manifest

(* The slot is between the check of its directory and the child's look at the manifest. *)
Boarding(s) == launch[s].pc \in {"seal", "spawn"} \/ child[s].state = "boot"

-----------------------------------------------------------------------------
(* main() of run_long.py, one step per access. *)

CheckPid(s) ==
    LET r == launch[s].run IN
    /\ At(s, "check")
    /\ IF PidAlive(r)
       THEN Return(s, 0) /\ UNCHANGED pidFile
       ELSE Step(s, "verify") /\ pidFile' = [pidFile EXCEPT ![r] = None]
    /\ UNCHANGED <<manifest, doneFile, window, warned, ckpts, sentinel, child, ghosts>>

Verify(s) ==
    LET r == launch[s].run IN
    /\ At(s, "verify")
    /\ IF SentinelOK(r)
       THEN launch' = [launch EXCEPT ![s].pc = "seal", ![s].resume = ckpts[r] # {}]
       ELSE Return(s, 3)
    /\ UNCHANGED <<manifest, files, child, ghosts>>

(* The sentinel is written before the child starts; a failure to write is only logged. *)
Seal(s) ==
    /\ At(s, "seal")
    /\ Step(s, "spawn")
    /\ sentinel' = [sentinel EXCEPT ![launch[s].run] = manifest]
    /\ UNCHANGED <<manifest, pidFile, doneFile, window, warned, ckpts, child, ghosts>>
SealFails(s) ==
    /\ At(s, "seal")
    /\ Step(s, "spawn")
    /\ unsealed' = unsealed \cup {launch[s].run}
    /\ UNCHANGED <<manifest, files, child, finished, loose>>

Spawn(s) ==
    LET r == launch[s].run IN
    /\ At(s, "spawn")
    /\ launch' = [launch EXCEPT ![s].pc = "pid", ![s].resume = FALSE]
    /\ warned' = [warned EXCEPT ![r] = FALSE]
    /\ child' = [child EXCEPT ![s] = [NoChild EXCEPT !.state = "boot", !.run = r,
                   !.resumed = IF launch[s].resume THEN ckpts[r] ELSE {}]]
    /\ UNCHANGED <<manifest, pidFile, doneFile, window, ckpts, sentinel, ghosts>>

WritePid(s) ==
    /\ At(s, "pid")
    /\ Step(s, "wait")
    /\ pidFile' = [pidFile EXCEPT ![launch[s].run] = s]
    /\ UNCHANGED <<manifest, doneFile, window, warned, ckpts, sentinel, child, ghosts>>

(* The performance watcher judges the first full window of the log, whoever wrote it. *)
WatcherKills(s) ==
    LET r == launch[s].run IN
    /\ At(s, "wait") /\ ~launch[s].drift
    /\ child[s].state \in {"run", "exited"} /\ window[r] = "slow"
    /\ launch' = [launch EXCEPT ![s].drift = TRUE]
    /\ child' = IF child[s].state = "run"
                THEN [child EXCEPT ![s].state = "exited", ![s].rc = 1]
                ELSE child
    /\ UNCHANGED <<manifest, files, ghosts>>

(* What the wrapper makes of the exit: a silent fresh start fails, drift has its own code. *)
ExitCodePlain(rc, warnings, drift) == IF drift THEN 4 ELSE rc
ExitCode(rc, warnings, drift) ==
    IF rc = 0 /\ warnings THEN 2 ELSE ExitCodePlain(rc, warnings, drift)

Reap(s) ==
    LET r == launch[s].run
        code == ExitCode(child[s].rc, warned[r], launch[s].drift)
    IN
    /\ At(s, "wait") /\ child[s].state = "exited"
    /\ launch' = [launch EXCEPT ![s].pc = "clear", ![s].drift = FALSE, ![s].rc = code]
    /\ child' = [child EXCEPT ![s] = NoChild]
    /\ doneFile' = IF code = 0 THEN doneFile \cup {r} ELSE doneFile
    /\ UNCHANGED <<manifest, pidFile, window, warned, ckpts, sentinel, ghosts>>

ClearPid(s) ==
    /\ At(s, "clear")
    /\ Step(s, "returned")
    /\ pidFile' = [pidFile EXCEPT ![launch[s].run] = None]
    /\ UNCHANGED <<manifest, doneFile, window, warned, ckpts, sentinel, child, ghosts>>

Wrapper(s) == \/ CheckPid(s) \/ Verify(s) \/ Seal(s) \/ Spawn(s) \/ WritePid(s)
              \/ WatcherKills(s) \/ Reap(s) \/ ClearPid(s)

-----------------------------------------------------------------------------
(* The training process, as run_long.py sees it. *)

(* A process that nobody waits for is reaped at once. *)
Exit(s, code) ==
    child' = [child EXCEPT ![s] = IF launch[s].pc = None
                                  THEN NoChild
                                  ELSE [child[s] EXCEPT !.state = "exited", !.rc = code]]

Boot(s) ==
    LET r == child[s].run IN
    /\ child[s].state = "boot"
    /\ IF <<manifest, r>> \in Rejected
       THEN Exit(s, 1) /\ UNCHANGED warned
       ELSE \E speed \in {"fast", "slow"}, warn \in BOOLEAN :
              /\ warn => child[s].resumed # {}
              /\ child' = [child EXCEPT ![s].state = "run", ![s].speed = speed, ![s].warned = warn,
                             ![s].resumed = {}, ![s].under = {manifest} \cup IF warn THEN {} ELSE child[s].resumed]
              /\ warned' = [warned EXCEPT ![r] = @ \/ warn]
    /\ UNCHANGED <<manifest, pidFile, doneFile, window, ckpts, sentinel, launch, ghosts>>

Train(s) ==
    LET r == child[s].run IN
    /\ child[s].state = "run"
    /\ window' = [window EXCEPT ![r] = IF @ = None THEN child[s].speed ELSE @]
    /\ ckpts' \in {ckpts, [ckpts EXCEPT ![r] = @ \cup child[s].under]}
    /\ UNCHANGED <<manifest, pidFile, doneFile, warned, sentinel, launch, child, ghosts>>

End(s) ==
    LET r == child[s].run IN
    /\ child[s].state = "run"
    /\ \/ Exit(s, 1) /\ UNCHANGED <<ckpts, finished>>
       \/ /\ Exit(s, 0)
          /\ ckpts' = [ckpts EXCEPT ![r] = @ \cup child[s].under]
          /\ finished' = IF child[s].warned THEN finished ELSE finished \cup {r}
    /\ UNCHANGED <<manifest, pidFile, doneFile, window, warned, sentinel, launch, loose, unsealed>>

Training(s) == Boot(s) \/ Train(s) \/ End(s)

-----------------------------------------------------------------------------
(* The operator. *)

Amend ==
    /\ \E m \in Manifests \ {manifest} : manifest' = m
    /\ unsealed' = unsealed \cup {r \in Runs : \E s \in Slots :
                                     Boarding(s) /\ r \in {launch[s].run, child[s].run}}
    /\ UNCHANGED <<files, launch, child, finished, loose>>

(* mv <checkpoint-dir> <checkpoint-dir>_archive, as the refusal asks for. *)
Archive(r) ==
    /\ ckpts[r] # {} /\ \A s \in Slots : child[s].run # r /\ launch[s].run # r
    /\ ckpts' = [ckpts EXCEPT ![r] = {}] /\ sentinel' = [sentinel EXCEPT ![r] = None]
    /\ UNCHANGED <<manifest, pidFile, doneFile, window, warned, launch, child, ghosts>>

(* The wrapper of slot s dies; what it started goes on. *)
Loosen(s) ==
    /\ launch' = [launch EXCEPT ![s] = NoLaunch]
    /\ child' = IF child[s].state = "exited" THEN [child EXCEPT ![s] = NoChild] ELSE child

-----------------------------------------------------------------------------
(* The checkpoints of a run come from one manifest: a resume never mixes    *)
(* two specifications.  The exceptions are named: a manifest amended        *)
(* between the check of the directory and the child's own reading of it, a  *)
(* sentinel that could not be written, a run that lost its wrapper.         *)
SpecsNotMixed ==
    \A r \in Runs \ (unsealed \cup loose) : Cardinality(ckpts[r]) <= 1
=============================================================================
