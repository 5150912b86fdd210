----------------------------- MODULE Calibration -----------------------------
(***************************************************************************)
(* The calibration telemetry: log_calibration appends a claim to the jsonl *)
(* file, score_calibration rewrites the file with an outcome, and          *)
(* list_pending_claims and calibration_rollup read it.  Judges are the     *)
(* roles and the operator that call them at the same time; a rewrite is a  *)
(* read and a write with nothing between them but the other judges.  A     *)
(* claim is its number.                                                    *)
(***************************************************************************)
EXTENDS Integers, Sequences, FiniteSets, SequencesExt

CONSTANTS
    Judges,
    Decisions,      \* decision ids: two claims may be about one
    MaxClaims       \* bound on claims, scorings and kills

ASSUME CalibrationAssumption == MaxClaims \in Nat

VARIABLES
    telemetry,      \* the file: [claim, decision, outcome: "null", "true" or "false"]
    judge,          \* each judge's scoring: [at, read, lines: what it read, and that rescored]
    rollup,         \* calibration_rollup.md: [total, scored, hits, of: how far the file was]
    claims,         \* counts claims, scorings and kills
    logged,         \* ghost: every claim ever logged
    answered,       \* ghost: the outcome a scoring gave a claim: <<claim, outcome>>
    crossed         \* ghost: claims that a rewrite of an older copy, or a kill in a rewrite, touched

calibrationVars == <<telemetry, judge, rollup, claims, logged, answered, crossed>>

Idle == [at |-> "idle", read |-> << >>, lines |-> << >>]
CalibrationInit ==
    /\ telemetry = << >> /\ judge = [j \in Judges |-> Idle]
    /\ rollup = [total |-> 0, scored |-> 0, hits |-> 0, of |-> 0]
    /\ claims = 0 /\ logged = {} /\ answered = {} /\ crossed = {}

Turn == claims < MaxClaims /\ claims' = claims + 1

log_calibration(j, d) ==
    /\ Turn /\ judge[j] = Idle
    /\ telemetry' = Append(telemetry, [claim |-> claims + 1, decision |-> d, outcome |-> "null"])
    /\ logged' = logged \union {claims + 1}
    /\ UNCHANGED <<judge, rollup, answered, crossed>>

-----------------------------------------------------------------------------
(* score_calibration: all claims of the decision without an outcome get it, and the   *)
(* file is written only when there was one.  The mutant before it forgets that some   *)
(* have an outcome.                                                                   *)

ScoreAll(line, d, outcome) == line.decision = d
IsOpen(line, d, outcome) == line.decision = d /\ line.outcome = "null"
Rescored(lines, d, outcome) ==
    [i \in 1 .. Len(lines) |->
        IF IsOpen(lines[i], d, outcome) THEN [lines[i] EXCEPT !.outcome = outcome] ELSE lines[i]]

score_calibration(j, d, outcome) ==
    /\ Turn /\ judge[j] = Idle
    /\ judge' = IF \E i \in 1 .. Len(telemetry) : IsOpen(telemetry[i], d, outcome)
                THEN [judge EXCEPT ![j] = [at |-> "rewrite", read |-> telemetry,
                                                 lines |-> Rescored(telemetry, d, outcome)]]
                ELSE judge
    /\ UNCHANGED <<telemetry, rollup, logged, answered, crossed>>

(* The claims whose lines the rewrite changes or drops. *)
Touched(j) == {line.claim : line \in (Range(telemetry) \ Range(judge[j].lines))}
WriteTelemetry(j) ==
    /\ judge[j].at = "rewrite"
    /\ answered' = answered \union {<<line.claim, line.outcome>> :
                        line \in {line \in Range(judge[j].lines) :
                                    line.outcome # "null" /\ ~ \E y \in answered : y[1] = line.claim}}
    /\ crossed' = IF telemetry = judge[j].read THEN crossed ELSE crossed \union Touched(j)
    /\ telemetry' = judge[j].lines /\ judge' = [judge EXCEPT ![j] = Idle]
    /\ UNCHANGED <<rollup, claims, logged>>

(* A kill in the write may leave any first part of the file. *)
KillJudge(j) ==
    /\ Turn /\ judge[j].at = "rewrite" /\ judge' = [judge EXCEPT ![j] = Idle]
    /\ \E n \in 0 .. Len(judge[j].lines) :
         \/ /\ telemetry' = SubSeq(judge[j].lines, 1, n)
            /\ crossed' = crossed \union logged
         \/ UNCHANGED <<telemetry, crossed>>
    /\ UNCHANGED <<rollup, logged, answered>>

-----------------------------------------------------------------------------
(* The readers. *)

list_pending_claims == {line.claim : line \in {line \in Range(telemetry) : line.outcome = "null"}}

Rollup ==
    /\ LET scored == SelectSeq(telemetry, LAMBDA line : line.outcome # "null") IN
         rollup' = [total |-> Len(telemetry), scored |-> Len(scored),
                    hits |-> Len(SelectSeq(scored, LAMBDA line : line.outcome = "true")), of |-> claims]
    /\ rollup' # rollup
    /\ UNCHANGED <<telemetry, judge, claims, logged, answered, crossed>>

CalibrationNext ==
    \/ \E j \in Judges, d \in Decisions :
         log_calibration(j, d) \/ \E outcome \in {"true", "false"} : score_calibration(j, d, outcome)
    \/ \E j \in Judges : WriteTelemetry(j) \/ KillJudge(j)
    \/ Rollup

-----------------------------------------------------------------------------
(* The scoring is "idempotent": a claim is logged once, stays in the file, keeps the  *)
(* first outcome it was given, and is in the brief's list of pending claims exactly   *)
(* as long as it has none.  Only a claim whose line a rewrite of an older copy of the *)
(* file changed or dropped, or that was in a file torn by a kill, can be an exception.*)
ClaimsAnsweredOnce ==
    /\ IsInjective([i \in 1 .. Len(telemetry) |-> telemetry[i].claim])
    /\ \A c \in logged \ crossed :
         /\ c \in {line.claim : line \in Range(telemetry)}
         /\ c \in list_pending_claims <=> ~ \E y \in answered : y[1] = c
         /\ \A line \in Range(telemetry) :
              line.claim = c /\ line.outcome # "null" => <<c, line.outcome>> \in answered

CalibrationSpec == CalibrationInit /\ [][CalibrationNext]_calibrationVars
=============================================================================
