---------------------------- MODULE HspaAdapter ----------------------------
(***************************************************************************)
(* tools/hspa_lm_eval_adapter.py and the scoring loop of eval_model.c: the *)
(* evaluation's requests are cut into batches, each is scored by a process *)
(* of its own, and its rows are put back in the order of the requests.     *)
(*                                                                         *)
(* A request is [size, line]: its bytes, and what the binary does with its *)
(* line: "scored" prints a row; "unread" (no choices, or longer than       *)
(* MAX_LINE) is passed over without an item_id; "cut" (left-truncation     *)
(* took the whole prompt) and "unscored" (no choice had a log-prob) have   *)
(* an item_id and no row.  The log-prob of a request is its number.        *)
(***************************************************************************)
EXTENDS Integers, Sequences, FiniteSets, SequencesExt

CONSTANTS
    BatchMaxBytes,         \* BATCH_MAX_BYTES
    BatchSize,      \* the batch size of the older smoke command
    RequestLists    \* the lists of requests

Request == [size : Nat, line : {"scored", "unread", "cut", "unscored"}]

ASSUME HspaAdapterAssumption ==
    BatchMaxBytes \in Nat /\ BatchSize \in Nat \ {0} /\ RequestLists \subseteq Seq(Request)

VARIABLES
    requests,
    caller,         \* what was called: "loglikelihood" or "smoke"
    batches,        \* those still to be scored: sequences of request numbers
    logprobs, totals,       \* what the call has so far: log-probs, or [correct, total]
    outcome         \* "running", "done" or the exception

adapterVars == <<requests, caller, batches, logprobs, totals, outcome>>

-----------------------------------------------------------------------------
(* _batch_requests_under_byte_budget. *)

SizeOf(batch) == FoldSeq(LAMBDA i, n : requests[i].size + n, 0, batch)
Flushed(acc) == IF acc.batch = << >> THEN acc.out ELSE Append(acc.out, acc.batch)
Packed(acc, i) ==
    IF requests[i].size > BatchMaxBytes
    THEN [out |-> Append(Flushed(acc), <<i>>), batch |-> << >>]
    ELSE IF SizeOf(acc.batch) + requests[i].size > BatchMaxBytes
    THEN [out |-> Flushed(acc), batch |-> <<i>>]
    ELSE [out |-> acc.out, batch |-> Append(acc.batch, i)]
_batch_requests_under_byte_budget(items) == Flushed(FoldLeft(Packed, [out |-> << >>, batch |-> << >>], items))

(* run_eval_in_batches cuts by number. *)
Slices(items) ==
    [k \in 1 .. (Len(items) + BatchSize - 1) \div BatchSize |->
        SubSeq(items, (k - 1) * BatchSize + 1, IF k * BatchSize < Len(items) THEN k * BatchSize ELSE Len(items))]

-----------------------------------------------------------------------------
(* run_score in eval_model.c: the rows of a batch, as <<item_id, request>>. *)

LineOf(batch, k) == requests[batch[k]].line
ItemId(batch, k) == Cardinality({j \in 1 .. k - 1 : LineOf(batch, j) # "unread"})
run_score(batch) == {<<ItemId(batch, k), batch[k]>> : k \in {k \in 1 .. Len(batch) : LineOf(batch, k) = "scored"}}
Total(batch) == Cardinality({k \in 1 .. Len(batch) : LineOf(batch, k) \in {"scored", "unscored"}})

-----------------------------------------------------------------------------
(* parse_score_per_choice_output: as many rows as requests, looked up by their    *)
(* numbers.  The mutant does not count them.                                     *)

AnyRows(rows, n) == TRUE
AllRows(rows, n) == Cardinality(rows) = n
Numbered(rows, n) == {row[1] : row \in rows} = 0 .. n - 1
parse_score_per_choice_output(rows, n) == [i \in 1 .. n |-> (CHOOSE row \in rows : row[1] = i - 1)[2]]

AdapterInit ==
    /\ requests \in RequestLists /\ caller \in {"loglikelihood", "smoke"}
    /\ LET items == [i \in 1 .. Len(requests) |-> i] IN
         batches = IF caller = "smoke" THEN Slices(items) ELSE _batch_requests_under_byte_budget(items)
    /\ logprobs = << >> /\ totals = [correct |-> 0, total |-> 0] /\ outcome = "running"

(* loglikelihood: a process for each batch. *)
ScoreBatch ==
    /\ outcome = "running" /\ caller = "loglikelihood" /\ batches # << >>
    /\ LET batch == Head(batches)  rows == run_score(batch)  n == Len(batch) IN
         IF AllRows(rows, n) /\ Numbered(rows, n)
         THEN /\ logprobs' = logprobs \o parse_score_per_choice_output(rows, n)
              /\ batches' = Tail(batches) /\ UNCHANGED outcome
         ELSE /\ outcome' = IF AllRows(rows, n) THEN "KeyError" ELSE "ValueError"
              /\ UNCHANGED <<batches, logprobs>>
    /\ UNCHANGED <<requests, caller, totals>>

(* run_eval_in_batches with run_eval_binary: only the counts, which leave out the *)
(* requests that the binary passed over.  Any of the scored ones may be right.    *)
SmokeBatch ==
    /\ outcome = "running" /\ caller = "smoke" /\ batches # << >>
    /\ \E right \in 0 .. Cardinality(run_score(Head(batches))) :
         totals' = [correct |-> totals.correct + right, total |-> totals.total + Total(Head(batches))]
    /\ batches' = Tail(batches) /\ UNCHANGED <<requests, caller, logprobs, outcome>>

(* The process exits with a code, and the call is over. *)
BinaryFails ==
    /\ outcome = "running" /\ batches # << >>
    /\ outcome' = IF caller = "smoke" THEN "error" ELSE "RuntimeError"
    /\ UNCHANGED <<requests, caller, batches, logprobs, totals>>

Return ==
    /\ outcome = "running" /\ batches = << >> /\ outcome' = "done"
    /\ UNCHANGED <<requests, caller, batches, logprobs, totals>>

AdapterNext == ScoreBatch \/ SmokeBatch \/ BinaryFails \/ Return

-----------------------------------------------------------------------------
(* The harness pairs the answers with its requests by position: the answers are *)
(* those of the requests, in their order, though the binary numbers the lines   *)
(* of each batch anew and passes lines over without a number, and a call that   *)
(* returns has one for each request.  As many rows as requests are theirs: no   *)
(* number is missed in the lookup.  No batch is over the budget but one of a    *)
(* single request.                                                              *)
AnswersAligned ==
    /\ \A i \in 1 .. Len(logprobs) : logprobs[i] = i
    /\ outcome # "KeyError"
    /\ outcome = "done" /\ caller = "loglikelihood" => Len(logprobs) = Len(requests)
    /\ \A k \in 1 .. Len(batches) : caller = "loglikelihood" =>
         SizeOf(batches[k]) <= BatchMaxBytes \/ Len(batches[k]) = 1
    /\ totals.correct <= totals.total /\ totals.total <= Len(requests)

AdapterSpec == AdapterInit /\ [][AdapterNext]_adapterVars
=============================================================================
