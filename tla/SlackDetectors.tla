--------------------------- MODULE SlackDetectors ---------------------------
(***************************************************************************)
(* The eleven detectors of tools/slack_bot.py.  A detector takes the saved *)
(* state s (data/infra/slack_bot_state.json) and the lab's files w, and    *)
(* yields the updated state and the events to post.  Text is left out: an  *)
(* event is its type.  A modification time is kept only where the content  *)
(* does not already tell two writes apart.                                 *)
(***************************************************************************)
EXTENDS Integers, Sequences, FiniteSets, SequencesExt

CONSTANTS
    UserFiles,      \* programs/*/USER_*.md
    Cells,          \* directories of data/checkpoints/phase3_factorial
    StepsPerCell,   \* steps_per_cell, counted in checkpoints
    Pivotal         \* phase numbers whose line says VICTORY, CATASTROPHIC or PIVOT

ASSUME SlackDetectorsAssumption ==
    /\ StepsPerCell \in Nat \ {0} /\ Pivotal \subseteq Nat \ {0}
    /\ IsFiniteSet(UserFiles) /\ IsFiniteSet(Cells)

None == "none"
Unknown == 0        \* "(unknown)"
Missing == -1       \* no program recorded yet
TriggerCount == 5   \* trigger_count and repost_step of detect_holding_loop

(* The events whose urgency is TRUE. *)
Urgent == {"VICTORY", "CATASTROPHIC", "SIGNATURE_FORGERY", "EVAL_FAIL_EXIT", "EVALUATOR_FAIL", "HOLDING_LOOP",
    "ACCOUNTABILITY", "LAB_DEAD", "USER_ACTION_REQUIRED", "USER_ACTION_REMINDER",
    "HOLDING_LOOP_DETECTED", "PROGRAM_SWITCHED", "PHASE_PIVOT"}

(* load_state when there is no file. *)
FirstState == [
    exit |-> 0, verdict |-> None, decision |-> 0, window |-> << >>, looped |-> FALSE,
    ledger |-> 0, limit |-> 0, dead |-> FALSE, status |-> {},
    user |-> [f \in UserFiles |-> [seen |-> FALSE, posted |-> 0, decision |-> None]],
    holding |-> FALSE, count |-> 0, program |-> Missing, phase |-> Missing,
    ckpt |-> [c \in Cells |-> 0], completed |-> [c \in Cells |-> FALSE],
    queue |-> << >>, pause |-> 0]

Result(s, say) == [s |-> s, say |-> say]
If(cond, type) == IF cond THEN <<type>> ELSE << >>
Quiet(s) == Result(s, << >>)

-----------------------------------------------------------------------------
(* session_exit.md: w.exit = [n |-> which write, reason |-> its EXIT reason, as an event]. *)
detect_session_exit(s, w) ==
    IF w.exit.n <= s.exit THEN Quiet(s)
    ELSE Result([s EXCEPT !.exit = w.exit.n],
                If(w.exit.reason \in {"VICTORY", "CATASTROPHIC", "SIGNATURE_FORGERY",
                                      "EVAL_FAIL_EXIT", "SESSION_END_OTHER"}, w.exit.reason))

(* evaluator_report.md: w.verdict. *)
detect_evaluator(s, w) ==
    IF w.verdict \in {None, s.verdict} THEN Quiet(s)
    ELSE Result([s EXCEPT !.verdict = w.verdict],
                <<IF w.verdict = "FAIL" THEN "EVALUATOR_FAIL" ELSE "EVALUATOR_OTHER">>)

(* The newest decision: w.decision = [n |-> its number, text |-> its normalized text]. *)
(* Equal texts stand for long ones that agree on 0.7 of their length, "idle" for those *)
(* with a holding marker.                                                              *)
Looping(window) ==
    /\ Len(window) >= 3
    /\ LET recent == {window[i] : i \in (Len(window) - 2)..Len(window)}
       IN  "idle" \in recent \/ Cardinality(recent) = 1

detect_new_decision(s, w) ==
    LET window == SubSeq(Append(s.window, w.decision.text), IF Len(s.window) >= 5 THEN 2 ELSE 1,
                         Len(s.window) + 1)
        looping == Looping(window)
        seen == [s EXCEPT !.decision = w.decision.n]
    IN  IF w.decision.n = 0 THEN Quiet(s)
        ELSE IF s.decision \in {0, w.decision.n} THEN Quiet(seen)
        ELSE Result([seen EXCEPT !.window = window, !.looped = looping],
                    If(looping /\ ~s.looped, "HOLDING_LOOP")
                    \o If(~looping /\ s.looped, "HOLDING_LOOP_END")
                    \o If(~looping, "NEW_DECISION"))

(* accountability_ledger.md: w.ledger = its newest entry, 0 if it has none. *)
detect_accountability(s, w) ==
    IF w.ledger \in {0, s.ledger} THEN Quiet(s)
    ELSE Result([s EXCEPT !.ledger = w.ledger], <<"ACCOUNTABILITY">>)

(* rate_limit_resets_at: w.limit = [at |-> its time, 0 for no file, past |-> it has passed]. *)
Limited(w) == w.limit.at # 0 /\ ~w.limit.past
detect_rate_limit(s, w) ==
    IF Limited(w)
    THEN Result([s EXCEPT !.limit = w.limit.at], If(s.limit # w.limit.at, "RATE_LIMIT"))
    ELSE IF w.limit.at # 0 /\ s.limit = w.limit.at
    THEN Result([s EXCEPT !.limit = 0], <<"RATE_LIMIT_END">>)
    ELSE Quiet(s)

(* The newest session log: w.silence = 0 written in the last 10 minutes, 1 in the last 30, 2. *)
detect_lab_liveness(s, w) ==
    IF w.silence > 0 /\ ~Limited(w)
    THEN IF ~w.tmux \/ w.silence = 2
         THEN Result([s EXCEPT !.dead = TRUE], If(~s.dead, "LAB_DEAD"))
         ELSE Quiet(s)
    ELSE Result([s EXCEPT !.dead = FALSE], If(s.dead, "LAB_ALIVE"))

(* current.md's status: w.status, a set of words. *)
detect_state_status(s, w) ==
    IF w.status \in {{}, s.status} THEN Quiet(s)
    ELSE Result([s EXCEPT !.status = w.status],
                If("VICTORY" \in w.status, "VICTORY")
                \o If("CATASTROPHIC" \in w.status, "CATASTROPHIC"))

(* One USER_*.md file: w.user[f] = None without a file, else its DECISION;  *)
(* w.clock counts six-hour periods.  A resolved file is forgotten.          *)
UserFile(s, w, f) ==
    LET entry == s.user[f]
        pending == w.user[f] = "PENDING"
        forgotten == [s EXCEPT !.user[f] = FirstState.user[f]]
    IN  IF w.user[f] = None THEN Quiet(forgotten)
        ELSE IF ~entry.seen
        THEN Result([s EXCEPT !.user[f] = [seen |-> TRUE, posted |-> w.clock, decision |-> w.user[f]]],
                    <<"USER_ACTION_REQUIRED">>)
        ELSE IF pending /\ w.clock > entry.posted
        THEN Result([s EXCEPT !.user[f].posted = w.clock, !.user[f].decision = w.user[f]],
                    <<"USER_ACTION_REMINDER">>)
        ELSE IF ~pending /\ entry.decision # w.user[f]
        THEN Result(forgotten, <<"USER_ACTION_RESOLVED">>)
        ELSE Quiet(s)

(* Running a detector on every member of a set, in some order. *)
Each(D(_, _, _), s, w, set) ==
    FoldLeft(LAMBDA r, x : LET one == D(r.s, w, x) IN Result(one.s, r.say \o one.say),
             Quiet(s), SetToSeq(set))

detect_user_action_required(s, w) == Each(UserFile, s, w, UserFiles)

(* The short session logs of two hours: w.short; w.advancing = _training_is_advancing. *)
detect_holding_loopSilenced(s, w) ==
    IF w.advancing THEN Quiet(s)
    ELSE IF w.short >= TriggerCount
    THEN IF ~s.holding \/ w.short - s.count >= TriggerCount
         THEN Result([s EXCEPT !.holding = TRUE, !.count = w.short], <<"HOLDING_LOOP_DETECTED">>)
         ELSE Quiet(s)
    ELSE Result([s EXCEPT !.holding = FALSE, !.count = 0], If(s.holding, "HOLDING_LOOP_CLEARED"))
detect_holding_loop(s, w) ==
    IF w.short >= TriggerCount /\ ~w.advancing
    THEN IF ~s.holding \/ w.short - s.count >= TriggerCount
         THEN Result([s EXCEPT !.holding = TRUE, !.count = w.short], <<"HOLDING_LOOP_DETECTED">>)
         ELSE Quiet(s)
    ELSE Result([s EXCEPT !.holding = FALSE, !.count = 0], If(s.holding, "HOLDING_LOOP_CLEARED"))

(* current.md's program and phase, each possibly Unknown. *)
detect_phase_boundary(s, w) ==
    LET switched == w.program \notin {s.program, Unknown}
        moved == w.phase \notin {s.phase, Unknown}
        noted == [s EXCEPT !.program = w.program, !.phase = w.phase]
    IN  IF w.program = Unknown /\ w.phase = Unknown THEN Quiet(s)
        ELSE IF s.program = Missing THEN Quiet(noted)
        ELSE IF switched THEN Result(noted, <<"PROGRAM_SWITCHED">>)
        ELSE IF moved
        THEN Result(noted, <<IF w.phase \in Pivotal THEN "PHASE_PIVOT" ELSE "PHASE_BOUNDARY">>)
        ELSE Quiet(s)

(* The checkpoint written last of a cell: w.ckpt[c], 0 for none. *)
CellProgress(s, w, c) ==
    LET complete == w.ckpt[c] >= StepsPerCell /\ ~s.completed[c]
    IN  IF w.ckpt[c] <= s.ckpt[c] THEN Quiet(s)
        ELSE Result([s EXCEPT !.ckpt[c] = w.ckpt[c], !.completed[c] = complete \/ @],
                    <<IF complete THEN "CELL_COMPLETE" ELSE "CHECKPOINT_LANDED">>)
detect_training_progress(s, w) == Each(CellProgress, s, w, Cells)

-----------------------------------------------------------------------------
Then(r, D(_, _), w) == LET x == D(r.s, w) IN Result(x.s, r.say \o x.say)

(* DETECTORS, in their order. *)
DETECTORS(s, w) ==
    LET r1 == Then(Then(Then(Then(Quiet(s), detect_session_exit, w), detect_evaluator, w),
                        detect_new_decision, w), detect_accountability, w)
        r2 == Then(Then(Then(r1, detect_rate_limit, w), detect_lab_liveness, w),
                   detect_state_status, w)
        r3 == Then(Then(r2, detect_user_action_required, w), detect_holding_loop, w)
    IN  Then(Then(r3, detect_phase_boundary, w), detect_training_progress, w)
=============================================================================
