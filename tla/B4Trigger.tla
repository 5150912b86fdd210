------------------------------ MODULE B4Trigger ------------------------------
(***************************************************************************)
(* The T1 trigger after run 8: b4_t1_handoff of run_phase3_factorial.py    *)
(* gathers the cells' final_scores.json into one results file and runs     *)
(* tools/b4_t1_trigger.py on it, which either writes the decision file or  *)
(* exits 1 and leaves an older one in place.  An operator may run the tool *)
(* too.  Scores are whole tenths of a percent, so that the pooled sigma is *)
(* compared exactly, by squares; where a ratio is exactly the threshold    *)
(* the code's floating point may fall on either side, and so may the       *)
(* model's.                                                                *)
(***************************************************************************)
EXTENDS Integers, FiniteSets, FiniteSetsExt, Folds

CONSTANTS
    B4Cells,            \* the cells, each run with two seeds
    Evaluations,        \* what an evaluation of a cell may leave: for each seed a file
    SigmaRef,           \* each required benchmark's (threshold * sigma_ref) ^ 2, in the units of the scores
    MaxHandoffs         \* bound on evaluations of a cell, handoffs, manual runs and kills

Seeds == {42, 43}
CellSeeds == B4Cells \X Seeds
REQUIRED_BENCHMARKS == DOMAIN SigmaRef

NotThere == [kind |-> "missing"]
Garbled == [kind |-> "garbled"]
Scored(f) == [kind |-> "scores", of |-> f]
ScoreFiles == {NotThere, Garbled} \union [kind : {"scores"}, of : [REQUIRED_BENCHMARKS -> Nat]]

ASSUME B4TriggerAssumption ==
    /\ MaxHandoffs \in Nat /\ B4Cells # {} /\ IsFiniteSet(B4Cells)
    /\ REQUIRED_BENCHMARKS # {} /\ IsFiniteSet(REQUIRED_BENCHMARKS)
    /\ \A b \in REQUIRED_BENCHMARKS : SigmaRef[b] \in Nat
    /\ Evaluations \subseteq [Seeds -> ScoreFiles]

VARIABLES
    final_scores,   \* each cell-seed's file: "missing", "garbled" or its scores
    results,        \* phase3_factorial_run8_eval.json: the entries, none yet: "missing"
    decision,       \* phase3_b4_t1_decision.json: [label, inputs], or "missing"
    t1,             \* run_index's record of the handoff: its rc, or "none"
    handoff,        \* where the handoff and the tool stand: [at, by, inputs]
    cut,            \* ghost: the last handoff was killed
    handoffs        \* counts evaluations, handoffs, manual runs and kills

b4Vars == <<final_scores, results, decision, t1, handoff, cut, handoffs>>

NoHandoff == [at |-> "off", by |-> "", inputs |-> [cs \in CellSeeds |-> NotThere]]
NoDecision == [label |-> "missing", inputs |-> NoHandoff.inputs]

B4Init ==
    /\ final_scores = NoHandoff.inputs /\ results = NoHandoff.inputs
    /\ decision = NoDecision /\ t1 = "none" /\ handoff = NoHandoff /\ cut = FALSE /\ handoffs = 0

Act == handoffs < MaxHandoffs /\ handoffs' = handoffs + 1

(* An evaluation tool writes one seed's scores, or half of them, or leaves a NaN: both *)
(* are the same to the trigger.                                                        *)
ScoreCell(cell, scores) ==
    /\ Act
    /\ final_scores' = [cs \in CellSeeds |-> IF cs[1] = cell THEN scores[cs[2]] ELSE final_scores[cs]]
    /\ UNCHANGED <<results, decision, t1, handoff, cut>>

-----------------------------------------------------------------------------
(* The tool. *)

load_results_json(inputs) == \A cs \in CellSeeds : inputs[cs].kind = "scores"

(* Twice the variance of a cell, and the sum of it over the cells: pooled sigma > threshold * *)
(* sigma_ref iff the sum is more than 2 k SigmaRef.                                           *)
Square(n) == n * n
per_cell_variance_n2(inputs, b, cell) ==
    Square(inputs[<<cell, 42>>].of[b] - inputs[<<cell, 43>>].of[b])
Pooled(inputs, b) == MapThenSumSet(LAMBDA cell : per_cell_variance_n2(inputs, b, cell), B4Cells)
Limit(b) == 2 * Cardinality(B4Cells) * SigmaRef[b]

Over(inputs) == {b \in REQUIRED_BENCHMARKS : Pooled(inputs, b) > Limit(b)}
Tie(inputs) == {b \in REQUIRED_BENCHMARKS : Pooled(inputs, b) = Limit(b)}
(* In the mutant before it every benchmark must be over. *)
evaluate_trigger_all(inputs) == IF Over(inputs) = REQUIRED_BENCHMARKS THEN {"ESCALATE_N4"} ELSE {"HOLD_N3"}
evaluate_trigger(inputs) ==
    IF Over(inputs) # {} THEN {"ESCALATE_N4"}
    ELSE {"HOLD_N3"} \union (IF Tie(inputs) # {} THEN {"ESCALATE_N4"} ELSE {})

(* main: FATAL, or evaluate and replace the decision.  The orchestrator notes the exit code. *)
Noted(rc) == IF handoff.by = "orchestrator" THEN t1' = rc /\ cut' = FALSE ELSE UNCHANGED <<t1, cut>>
Fatal ==
    /\ handoff.at = "trigger" /\ ~ load_results_json(handoff.inputs)
    /\ Noted("1") /\ handoff' = NoHandoff
    /\ UNCHANGED <<final_scores, results, decision, handoffs>>
write_decision_json ==
    /\ handoff.at = "trigger" /\ load_results_json(handoff.inputs)
    /\ \E label \in evaluate_trigger(handoff.inputs) : decision' = [label |-> label, inputs |-> handoff.inputs]
    /\ handoff' = [handoff EXCEPT !.at = "exit"]
    /\ UNCHANGED <<final_scores, results, t1, cut, handoffs>>
TriggerExits ==
    /\ handoff.at = "exit" /\ Noted("0") /\ handoff' = NoHandoff
    /\ UNCHANGED <<final_scores, results, decision, handoffs>>

(* The five minutes of the handoff are over: rc -2, wherever the tool was. *)
TriggerTimesOut ==
    /\ Act /\ handoff.at \in {"trigger", "exit"} /\ handoff.by = "orchestrator"
    /\ Noted("-2") /\ handoff' = NoHandoff
    /\ UNCHANGED <<final_scores, results, decision>>

-----------------------------------------------------------------------------
(* b4_t1_handoff, and a run of the tool by hand on the results file. *)

_build_consolidated_results_json ==
    /\ Act /\ handoff = NoHandoff
    /\ results' = final_scores
    /\ handoff' = [at |-> "start", by |-> "orchestrator", inputs |-> NoHandoff.inputs]
    /\ UNCHANGED <<final_scores, decision, t1, cut>>
TriggerLoads ==
    /\ handoff.at = "start"
    /\ handoff' = [handoff EXCEPT !.at = "trigger", !.inputs = results]
    /\ UNCHANGED <<final_scores, results, decision, t1, cut, handoffs>>
ManualTrigger ==
    /\ Act /\ handoff = NoHandoff
    /\ handoff' = [at |-> "start", by |-> "operator", inputs |-> NoHandoff.inputs]
    /\ UNCHANGED <<final_scores, results, decision, t1, cut>>
KillHandoff ==
    /\ Act /\ handoff # NoHandoff /\ handoff' = NoHandoff
    /\ cut' = (cut \/ handoff.by = "orchestrator")
    /\ UNCHANGED <<final_scores, results, decision, t1>>

B4Next ==
    \/ \E cell \in B4Cells, scores \in Evaluations : ScoreCell(cell, scores)
    \/ Fatal \/ write_decision_json \/ TriggerExits \/ TriggerTimesOut
    \/ _build_consolidated_results_json \/ TriggerLoads \/ ManualTrigger \/ KillHandoff

-----------------------------------------------------------------------------
(* A decision on disk was made from complete scores, and is the one the rule of     *)
(* section 8.1 gives them, ratios at the threshold apart; and after a handoff that  *)
(* run_index notes with rc 0 it is of the scores that the results file holds.  So a *)
(* FATAL, a timeout or a kill may leave an older decision, but never half of one,   *)
(* and never under rc 0 of the last handoff that came to an end.                    *)
Ratio(inputs, b) == Pooled(inputs, b) - Limit(b)
DecisionSound ==
    decision.label # "missing" =>
        /\ \A cs \in CellSeeds : decision.inputs[cs].kind = "scores"
        /\ LET worst == Max({Ratio(decision.inputs, b) : b \in REQUIRED_BENCHMARKS}) IN
             worst # 0 => (decision.label = "ESCALATE_N4") = (worst > 0)
RecordSound == t1 = "0" /\ handoff = NoHandoff /\ ~ cut => decision.label # "missing" /\ decision.inputs = results

DecisionHolds == DecisionSound /\ RecordSound

B4Spec == B4Init /\ [][B4Next]_b4Vars
=============================================================================
