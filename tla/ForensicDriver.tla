--------------------------- MODULE ForensicDriver ---------------------------
(***************************************************************************)
(* tools/forensic_driver.py: an evaluation of an old checkpoint by drivers *)
(* that only know how to write data/eval/<bench>_results.json.  The        *)
(* wrapper moves the current result aside, runs the driver, harvests what  *)
(* it wrote into its own directory and moves the current result back.  A   *)
(* result is a number, 0 for no file.  Every file move is a step, since    *)
(* the wrapper may be killed at any of them, or leave by an exception.     *)
(***************************************************************************)
EXTENDS Integers, Sequences, FiniteSets

CONSTANTS
    Drivers,        \* the benchmarks
    Scorecard,      \* scorecard.md, which every driver writes too
    MaxEvals        \* bound on evaluations, forensic runs and kills

ASSUME ForensicDriverAssumption == MaxEvals \in Nat /\ Scorecard \notin Drivers

Artifacts == Drivers \union {Scorecard}
Missing == 0

VARIABLES
    canonical,      \* data/eval/<name>
    aside,          \* data/eval/<name>.forensic-save
    baselines,      \* the baseline snapshots of all forensic runs
    harvested,      \* what their forensic_results directories hold
    wrapper,        \* the running wrapper: [at, todo, bench, saved]
    evals,          \* counts evaluations, runs and kills
    current,        \* ghost: the result of the last evaluation of the current model
    interrupted,    \* ghost: a run ended early
    disturbed       \* ghost: artifacts whose last evaluation fell into a run

forensicVars == <<canonical, aside, baselines, harvested, wrapper, evals, current, interrupted, disturbed>>

None == [a \in Artifacts |-> Missing]
NoWrapper == [at |-> "off", todo |-> {}, bench |-> Scorecard, saved |-> [a \in Artifacts |-> FALSE]]

ForensicInit ==
    /\ canonical = None /\ aside = None /\ baselines = {} /\ harvested = {}
    /\ wrapper = NoWrapper /\ evals = 0 /\ current = None /\ interrupted = FALSE /\ disturbed = {}

Event == evals < MaxEvals /\ evals' = evals + 1
Running == wrapper.at # "off"

(* An evaluation of the current model, at any time. *)
Evaluate(d) ==
    /\ Event
    /\ canonical' = [canonical EXCEPT ![d] = evals + 1, ![Scorecard] = evals + 1]
    /\ current' = [current EXCEPT ![d] = evals + 1, ![Scorecard] = evals + 1]
    /\ disturbed' = IF Running THEN disturbed \union {d, Scorecard} ELSE disturbed \ {d, Scorecard}
    /\ UNCHANGED <<aside, baselines, harvested, wrapper, interrupted>>

-----------------------------------------------------------------------------
(* run_forensic. *)

MoveAside(a, after) ==
    /\ IF canonical[a] = Missing THEN UNCHANGED <<canonical, aside>>
       ELSE /\ aside' = [aside EXCEPT ![a] = canonical[a]]
            /\ canonical' = [canonical EXCEPT ![a] = Missing]
    /\ wrapper' = [after EXCEPT !.saved[a] = canonical[a] # Missing]

(* The baseline is of every artifact; in the mutant before it, of the drivers' only. *)
_snapshot_drivers(benches) ==
    /\ Event /\ ~ Running
    /\ baselines' = baselines \union {<<a, canonical[a]>> : a \in Drivers}
    /\ wrapper' = [NoWrapper EXCEPT !.at = "scorecard", !.todo = benches]
    /\ UNCHANGED <<canonical, aside, harvested, current, interrupted, disturbed>>
_snapshot_canonical(benches) ==
    /\ Event /\ ~ Running
    /\ baselines' = baselines \union {<<a, canonical[a]>> : a \in Artifacts}
    /\ wrapper' = [NoWrapper EXCEPT !.at = "scorecard", !.todo = benches]
    /\ UNCHANGED <<canonical, aside, harvested, current, interrupted, disturbed>>

_save_aside_scorecard ==
    /\ wrapper.at = "scorecard"
    /\ MoveAside(Scorecard, [wrapper EXCEPT !.at = "next"])
    /\ UNCHANGED <<baselines, harvested, evals, current, interrupted, disturbed>>

_save_aside(d) ==
    /\ wrapper.at = "next" /\ d \in wrapper.todo
    /\ MoveAside(d, [wrapper EXCEPT !.at = "run", !.todo = @ \ {d}, !.bench = d])
    /\ UNCHANGED <<baselines, harvested, evals, current, interrupted, disturbed>>

(* The driver writes both files, or fails before one of them; -1 is its result. *)
_run_driver(writes) ==
    /\ wrapper.at = "run" /\ writes \subseteq {wrapper.bench, Scorecard}
    /\ canonical' = [a \in Artifacts |-> IF a \in writes THEN -1 ELSE canonical[a]]
    /\ wrapper' = [wrapper EXCEPT !.at = "harvest"]
    /\ UNCHANGED <<aside, baselines, harvested, evals, current, interrupted, disturbed>>

_harvest ==
    /\ \/ wrapper.at = "harvest"
       \/ wrapper.at = "next" /\ wrapper.todo = {}
    /\ LET a == IF wrapper.at = "harvest" THEN wrapper.bench ELSE Scorecard IN
         /\ harvested' = harvested \union ({<<a, canonical[a]>>} \ {<<a, Missing>>})
         /\ canonical' = [canonical EXCEPT ![a] = Missing]
         /\ wrapper' = [wrapper EXCEPT !.at = "restore", !.bench = a]
    /\ UNCHANGED <<aside, baselines, evals, current, interrupted, disturbed>>

(* _restore, when something was saved. *)
_restore ==
    /\ wrapper.at = "restore"
    /\ IF wrapper.saved[wrapper.bench]
       THEN /\ canonical' = [canonical EXCEPT ![wrapper.bench] = aside[wrapper.bench]]
            /\ aside' = [aside EXCEPT ![wrapper.bench] = Missing]
       ELSE UNCHANGED <<canonical, aside>>
    /\ wrapper' = [wrapper EXCEPT !.at = IF wrapper.bench = Scorecard THEN "finally" ELSE "next"]
    /\ UNCHANGED <<baselines, harvested, evals, current, interrupted, disturbed>>

(* A driver that cannot be started, or an interrupt, goes to the finally. *)
Raise ==
    /\ Event /\ Running /\ wrapper.at \notin {"scorecard", "finally"}
    /\ wrapper' = [wrapper EXCEPT !.at = "finally"] /\ interrupted' = TRUE
    /\ UNCHANGED <<canonical, aside, baselines, harvested, current, disturbed>>

(* The finally moves back what is aside where nothing took its place. *)
Finally ==
    /\ wrapper.at = "finally"
    /\ LET back == {a \in Artifacts : aside[a] # Missing /\ canonical[a] = Missing} IN
         /\ canonical' = [a \in Artifacts |-> IF a \in back THEN aside[a] ELSE canonical[a]]
         /\ aside' = [a \in Artifacts |-> IF a \in back THEN Missing ELSE aside[a]]
    /\ wrapper' = NoWrapper
    /\ UNCHANGED <<baselines, harvested, evals, current, interrupted, disturbed>>

KillWrapper ==
    /\ Event /\ Running /\ wrapper' = NoWrapper /\ interrupted' = TRUE
    /\ UNCHANGED <<canonical, aside, baselines, harvested, current, disturbed>>

ForensicNext ==
    \/ \E d \in Drivers : Evaluate(d) \/ _save_aside(d)
    \/ \E benches \in SUBSET Drivers : _snapshot_canonical(benches)
    \/ _save_aside_scorecard \/ (\E writes \in SUBSET Artifacts : _run_driver(writes))
    \/ _harvest \/ _restore \/ Raise \/ Finally \/ KillWrapper

-----------------------------------------------------------------------------
(* "after the tool returns, the canonical data/eval/* state is byte-identical to *)
(* what it was before": between runs, the canonical results are the current      *)
(* model's, unless a run was cut short or the current model was evaluated during *)
(* one.  And whatever was cut short, a current result that was there when a run  *)
(* began is still on disk: in its place, aside, or in a baseline.                *)
CurrentKept ==
    /\ ~ Running /\ ~ interrupted /\ disturbed = {} => canonical = current
    /\ \A a \in Artifacts \ disturbed : \/ current[a] \in {Missing, canonical[a], aside[a]}
                                        \/ <<a, current[a]>> \in baselines

ForensicSpec == ForensicInit /\ [][ForensicNext]_forensicVars
=============================================================================
