----------------------------- MODULE EvalHarness -----------------------------
(***************************************************************************)
(* tools/eval_harness_p11.py: every cell's final checkpoint against every  *)
(* benchmark, some 18 hours of evaluations in a fixed order.  A result is  *)
(* written as it is computed, and a run after a kill loads the results it  *)
(* finds; the last step writes benchmark_scores.json.  A smoke run of a    *)
(* few items may be made beside it.                                        *)
(***************************************************************************)
EXTENDS Integers, Sequences, FiniteSets, SequencesExt

CONSTANTS
    EvalCells, EvalBenchmarks,      \* CELLS and BENCHMARKS, as sequences
    MaxRuns         \* bound on runs, kills and trainings

ASSUME EvalHarnessAssumption ==
    /\ MaxRuns \in Nat /\ EvalCells \in Seq(Range(EvalCells)) /\ EvalBenchmarks \in Seq(Range(EvalBenchmarks))
    /\ EvalBenchmarks # << >> /\ IsInjective(EvalCells) /\ IsInjective(EvalBenchmarks)

VARIABLES
    final,          \* each cell's final.ckpt: how often it was trained, 0 for none
    scores,         \* output_dir: the records in it, of full runs and of smoke runs
    benchmark_scores,       \* the aggregate: [records, cells: those whose checkpoint the run found]
    harness,        \* the full run: [at, c, b: indexes, records, cells, record]
    runs,           \* counts runs, kills and trainings
    spent,          \* ghost: evaluations of whole benchmarks made so far
    cuts            \* ghost: kills that cost an evaluation

harnessVars == <<final, scores, benchmark_scores, harness, runs, spent, cuts>>

Blocked == "gsm8k"
BlankRecord == [cell |-> "", benchmark |-> "", ckpt |-> 0, acc |-> "none", status |-> "", smoke |-> FALSE]
NoAggregate == [records |-> << >>, cells |-> {}, done |-> FALSE]
NoHarness == [at |-> "off", c |-> 1, b |-> 1, records |-> << >>, cells |-> {}, record |-> BlankRecord]

HarnessInit ==
    /\ final = [c \in Range(EvalCells) |-> 0] /\ scores = {} /\ benchmark_scores = NoAggregate
    /\ harness = NoHarness /\ runs = 0 /\ spent = 0 /\ cuts = 0

Budget == runs < MaxRuns /\ runs' = runs + 1

Train(c) ==
    /\ Budget /\ final' = [final EXCEPT ![c] = @ + 1]
    /\ UNCHANGED <<scores, benchmark_scores, harness, spent, cuts>>

-----------------------------------------------------------------------------

(* The floor of a benchmark divides its accuracies into low and high; "none" is an *)
(* accuracy the harness did not report.                                            *)
compute_sigma_gate_status(benchmark, acc) ==
    IF benchmark = Blocked THEN "PARTIAL_BLOCKED_NO_GENERATE" ELSE IF acc = "high" THEN "PASS" ELSE "FAIL"
build_record(c, benchmark, acc, smoke) ==
    [cell |-> c, benchmark |-> benchmark, ckpt |-> final[c],
     acc |-> IF benchmark = Blocked THEN "none" ELSE acc,
     status |-> compute_sigma_gate_status(benchmark, acc), smoke |-> smoke]

(* The file of a record: smoke runs have names of their own. *)
IsFile(r, c, benchmark, smoke) == r.cell = c /\ r.benchmark = benchmark /\ r.smoke = smoke
Written(r) == {x \in scores : ~ IsFile(x, r.cell, r.benchmark, r.smoke)} \union {r}

run_smoke(c, benchmark, acc) ==
    /\ Budget /\ final[c] > 0
    /\ scores' = Written(build_record(c, benchmark, acc, TRUE))
    /\ UNCHANGED <<final, benchmark_scores, harness, spent, cuts>>

-----------------------------------------------------------------------------
(* run_full. *)

Cell == EvalCells[harness.c]
Benchmark == EvalBenchmarks[harness.b]
(* The next benchmark of the cell, or the next cell. *)
Onward(h) == IF h.b < Len(EvalBenchmarks) THEN [h EXCEPT !.at = "benchmark", !.b = @ + 1]
             ELSE [h EXCEPT !.at = "cell", !.c = @ + 1, !.b = 1]

run_full ==
    /\ Budget /\ harness.at = "off" /\ harness' = [NoHarness EXCEPT !.at = "cell"]
    /\ UNCHANGED <<final, scores, benchmark_scores, spent, cuts>>

NextCell ==
    /\ harness.at = "cell" /\ harness.c <= Len(EvalCells)
    /\ harness' = IF final[Cell] = 0 THEN [harness EXCEPT !.c = @ + 1]
                  ELSE [harness EXCEPT !.at = "benchmark", !.cells = @ \union {Cell}]
    /\ UNCHANGED <<final, scores, benchmark_scores, runs, spent, cuts>>

ResumeSkip ==
    /\ harness.at = "benchmark"
    /\ \E r \in scores : /\ IsFile(r, Cell, Benchmark, FALSE)
                         /\ harness' = Onward([harness EXCEPT !.records = Append(@, r)])
    /\ UNCHANGED <<final, scores, benchmark_scores, runs, spent, cuts>>

run_benchmark_via_harness(acc) ==
    /\ harness.at = "benchmark"
    /\ ~ \E r \in scores : IsFile(r, Cell, Benchmark, FALSE)
    /\ LET r == build_record(Cell, Benchmark, acc, FALSE) IN
         harness' = [harness EXCEPT !.at = "write", !.records = Append(@, r), !.record = r]
    /\ spent' = spent + 1
    /\ UNCHANGED <<final, scores, benchmark_scores, runs, cuts>>

(* A temporary file and a replace; the mutant before it leaves the results to the last step. *)
KeepInMemory ==
    /\ harness.at = "write"
    /\ harness' = Onward(harness)
    /\ UNCHANGED <<final, scores, benchmark_scores, runs, spent, cuts>>
PerCellWrite ==
    /\ harness.at = "write"
    /\ scores' = Written(harness.record) /\ harness' = Onward(harness)
    /\ UNCHANGED <<final, benchmark_scores, runs, spent, cuts>>

WriteAggregate ==
    /\ harness.at = "cell" /\ harness.c > Len(EvalCells)
    /\ benchmark_scores' = [records |-> harness.records, cells |-> harness.cells, done |-> TRUE]
    /\ harness' = NoHarness
    /\ UNCHANGED <<final, scores, runs, spent, cuts>>

(* A kill, or an evaluation that raises. *)
KillHarness ==
    /\ Budget /\ harness.at # "off" /\ harness' = NoHarness
    /\ cuts' = IF harness.at = "write" THEN cuts + 1 ELSE cuts
    /\ UNCHANGED <<final, scores, benchmark_scores, spent>>

Accs == {"none", "low", "high"}
HarnessNext ==
    \/ \E c \in Range(EvalCells) :
         \/ Train(c)
         \/ \E benchmark \in Range(EvalBenchmarks), acc \in Accs : run_smoke(c, benchmark, acc)
    \/ (\E acc \in Accs : run_benchmark_via_harness(acc))
    \/ run_full \/ NextCell \/ ResumeSkip \/ PerCellWrite \/ WriteAggregate \/ KillHarness

-----------------------------------------------------------------------------
(* "limiting rerun cost after mid-run death": however often the run is killed and *)
(* started again, and whatever is trained or smoke-tested meanwhile, a kill costs *)
(* at most the one evaluation it fell into, and the aggregate has one record of a *)
(* full evaluation for every benchmark of every cell it found, each the one in    *)
(* output_dir.                                                                    *)
RerunCostsOne ==
    /\ spent <= Cardinality({r \in scores : ~ r.smoke}) + cuts + (IF harness.at = "write" THEN 1 ELSE 0)
    /\ LET agg == benchmark_scores IN
         /\ Range(agg.records) \subseteq {r \in scores : ~ r.smoke}
         /\ Len(agg.records) = Cardinality(agg.cells) * (IF agg.done THEN Len(EvalBenchmarks) ELSE 0)
         /\ IsInjective(agg.records)

HarnessSpec == HarnessInit /\ [][HarnessNext]_harnessVars
=============================================================================
