--------------------------- MODULE TrainingDigest ---------------------------
(***************************************************************************)
(* tools/training_digest.py and training_digest_aggregate.py: a cell's     *)
(* stdout.log and its run_index entry are read into <cell>.json and        *)
(* <cell>.md, and the phase summary reads the digest of every cell.  The   *)
(* training may still write the log, and the tool skips a cell whose       *)
(* digest is no older than the log.                                        *)
(*                                                                         *)
(* A log is the sequence of its parsed lines:                              *)
(*   [says |-> "summary", avg, best]  a step summary, avg_lm in units of   *)
(*                                    0.05, best_ppl as a whole number     *)
(*   [says |-> "layer", K, ratio, flat]  a load line of a layer: ratio > 5 *)
(*                                    or not, EMA std-dev < 0.02 or not    *)
(*   [says |-> "worst", state]        a SUMMARY load line: ok, mid or bad  *)
(*   [says |-> "nan"]                 NaN events in the final block        *)
(* Step rows, the other numbers and the layout are left out.  Times are    *)
(* those of a counter that every write moves on.                           *)
(***************************************************************************)
EXTENDS Integers, Sequences, FiniteSets, SequencesExt

CONSTANTS
    Cells,
    Chunks,         \* what the training writes at a time: sequences of lines
    Entries,        \* the entries the orchestrator records: [nan, rc, fatal]
    MaxMoves        \* bound on chunks, entries, calls and kills

SummaryLine == [says : {"summary"}, avg : Int, best : Int]
Line == SummaryLine \union [says : {"layer"}, K : Nat, ratio : BOOLEAN, flat : BOOLEAN]
        \union [says : {"worst"}, state : {"ok", "mid", "bad"}] \union [says : {"nan"}]

ASSUME TrainingDigestAssumption ==
    /\ MaxMoves \in Nat /\ \A e \in Entries : {e.nan, e.rc, e.fatal} \subseteq Int
    /\ Chunks \subseteq Seq(Line)

NoEntry == [nan |-> 0, rc |-> 0, fatal |-> 0]

VARIABLES
    stamp,      \* the clock
    stdout,     \* each cell's log: [lines, m: mtime]
    run_index,  \* the cells with an entry, and the entry of each
    json, md,   \* each cell's digest (none or torn: at = 0) and the page made of it
    summary,    \* the phase summary: the digest of each cell it shows
    tool,       \* the running tool: [at, cell, lines, entry, todo: cells to load, shown]
    moves

digestVars == <<stamp, stdout, run_index, json, md, summary, tool, moves>>

NoLog == [lines |-> << >>, m |-> 0]
(* raced is a ghost: the log grew between the read and digest_generated_at. *)
NoDigest == [shape |-> "", regime |-> "", nans |-> "", upto |-> 0, at |-> 0, raced |-> FALSE]
NoDigests == [c \in Cells |-> NoDigest]
NoTool == [at |-> "off", cell |-> "", lines |-> << >>, entry |-> NoEntry, raced |-> FALSE,
           todo |-> {}, shown |-> NoDigests]

DigestInit ==
    /\ stamp = 1 /\ stdout = [c \in Cells |-> NoLog]
    /\ run_index = [cells |-> {}, entry |-> [c \in Cells |-> NoEntry]]
    /\ json = NoDigests /\ md = NoDigests /\ summary = NoDigests
    /\ tool = NoTool /\ moves = 0

Move == moves < MaxMoves /\ moves' = moves + 1

-----------------------------------------------------------------------------
(* The classifiers. *)

Adds(what, acc, x) == IF x.says = what THEN Append(acc, x) ELSE acc
Said(l, what) == FoldLeft(LAMBDA acc, x : Adds(what, acc, x), << >>, l)
Upto(n) == [i \in 1 .. n |-> i]

Diff(l, i) == l[i + 1].avg - l[i].avg
Turned(l, acc, i) ==      \* direction changes of avg_lm, flat steps skipped
    LET to == IF Diff(l, i) > 0 THEN 1 ELSE -1 IN
    IF Diff(l, i) = 0 THEN acc
    ELSE [dir |-> to, n |-> IF acc.dir \in {0, to} THEN acc.n ELSE acc.n + 1]
Turns(l) == FoldLeft(LAMBDA acc, i : Turned(l, acc, i), [dir |-> 0, n |-> 0], Upto(Len(l) - 1)).n
Flat(l, i) == -1 < Diff(l, i) /\ Diff(l, i) < 1
\* Before Plateau, a mutant that does not ask for a row.
PlateauAnyThree(l) == Cardinality({i \in 1 .. Len(l) - 1 : Flat(l, i)}) >= 2
Runs(l, acc, i) == [run |-> IF Flat(l, i) THEN acc.run + 1 ELSE 1,
                    found |-> acc.found \/ (Flat(l, i) /\ acc.run + 1 >= 3)]
Plateau(l) ==   \* three summaries in a row
    FoldLeft(LAMBDA acc, i : Runs(l, acc, i), [run |-> 1, found |-> FALSE], Upto(Len(l) - 1)).found
NoisyRises(l) == Cardinality({i \in 1 .. Len(l) - 1 :
    l[i].best > 0 /\ 50 * (l[i + 1].best - l[i].best) > l[i].best})

classify_loss_trajectory(log) ==
    LET l == Said(log, "summary") IN
    IF Len(l) < 2 THEN "insufficient_data"
    ELSE IF l[1].best > 0 /\ 2 * l[Len(l)].best > l[1].best THEN "collapsed"
    ELSE IF Turns(l) >= 4 THEN "oscillating"
    ELSE IF Plateau(l) THEN "plateau_after_N"
    ELSE IF NoisyRises(l) <= 1 THEN "monotone_decreasing"
    ELSE "noisy_no_class"

Swings(w) ==    \* changes between ok and bad, lines in between skipped
    FoldLeft(LAMBDA acc, x : IF x.state = "mid" THEN acc
                             ELSE [state |-> x.state, n |-> IF acc.state \in {"", x.state} THEN acc.n ELSE acc.n + 1],
             [state |-> "", n |-> 0], w).n
classify_moe_regime(log) ==
    LET layers == Range(Said(log, "layer"))
        stds == {x \in layers : x.K > 1} IN
    IF \A x \in layers : x.K = 1 THEN "n/a"
    ELSE IF \E x \in layers : x.ratio THEN "collapsed"
    ELSE IF Swings(Said(log, "worst")) >= 3 THEN "oscillating"
    ELSE IF stds # {} /\ \A x \in stds : x.flat THEN "uniform"
    ELSE "mostly_uniform"

classify_nan(entry, log) ==
    IF entry.nan = 0 THEN IF Said(log, "nan") = << >> THEN "none" ELSE "unclassified"
    ELSE IF entry.fatal = 0 /\ entry.rc = 0 THEN "false_positive"
    ELSE "hard_nan"

-----------------------------------------------------------------------------
(* The training and the orchestrator. *)

LogChunk(c, chunk) ==
    /\ Move
    /\ stdout' = [stdout EXCEPT ![c] = [lines |-> @.lines \o chunk, m |-> stamp + 1]]
    /\ stamp' = stamp + 1
    /\ tool' = IF tool.at = "write" /\ tool.cell = c THEN [tool EXCEPT !.raced = TRUE] ELSE tool
    /\ UNCHANGED <<run_index, json, md, summary>>

IndexEntry(c, entry) ==
    /\ Move /\ stdout[c] # NoLog
    /\ run_index' = [cells |-> run_index.cells \union {c}, entry |-> [run_index.entry EXCEPT ![c] = entry]]
    /\ UNCHANGED <<stamp, stdout, json, md, summary, tool>>

-----------------------------------------------------------------------------
(* main of training_digest.py. *)

_digest_exists(c) == json[c].at > 0
_digest_is_fresh(c) == json[c].at > 0 /\ json[c].at >= stdout[c].m
_discover_phase(c) == c \in run_index.cells

(* A call without --phase looks the cell up in the run indexes. *)
Call(c, phase, regen) ==
    /\ Move /\ tool = NoTool /\ (phase \/ _discover_phase(c)) /\ stdout[c] # NoLog
    /\ tool' = IF ~ regen /\ _digest_is_fresh(c) THEN NoTool ELSE [NoTool EXCEPT !.at = "read", !.cell = c]
    /\ UNCHANGED <<stamp, stdout, run_index, json, md, summary>>

(* generate_digest, for one cell or for the summary: the JSON carries the time of *)
(* its writing, and only main makes a page.                                       *)
ReadLog ==
    /\ tool.at = "read"
    /\ tool' = [tool EXCEPT !.at = "write", !.entry = run_index.entry[tool.cell],
                            !.lines = stdout[tool.cell].lines]
    /\ UNCHANGED <<stamp, stdout, run_index, json, md, summary, moves>>

Digest == [shape |-> classify_loss_trajectory(tool.lines), regime |-> classify_moe_regime(tool.lines),
           nans |-> classify_nan(tool.entry, tool.lines), upto |-> Len(tool.lines),
           at |-> stamp + 1, raced |-> tool.raced]
ForSummary == tool.cell \in tool.todo
Loaded(c, digest) == [NoTool EXCEPT !.at = "load", !.todo = tool.todo \ {c}, !.shown = [tool.shown EXCEPT ![c] = digest]]

WriteJson ==
    /\ tool.at = "write"
    /\ json' = [json EXCEPT ![tool.cell] = Digest] /\ stamp' = stamp + 1
    /\ tool' = IF ForSummary THEN Loaded(tool.cell, Digest) ELSE [tool EXCEPT !.at = "page"]
    /\ UNCHANGED <<stdout, run_index, md, summary, moves>>
WritePage ==
    /\ tool.at = "page"
    /\ md' = [md EXCEPT ![tool.cell] = json[tool.cell]] /\ tool' = NoTool
    /\ UNCHANGED <<stamp, stdout, run_index, json, summary, moves>>

(* A kill may leave the JSON it writes torn, which counts as none. *)
KillTool ==
    /\ Move /\ tool # NoTool /\ tool' = NoTool
    /\ json' \in {json} \union (IF tool.at = "write" THEN {[json EXCEPT ![tool.cell] = NoDigest]} ELSE {})
    /\ UNCHANGED <<stamp, stdout, run_index, md, summary>>

-----------------------------------------------------------------------------
(* main of training_digest_aggregate.py: a sidecar that is there is shown, however *)
(* old, and a cell without one gets its digest then.                               *)
Aggregate ==
    /\ Move /\ tool = NoTool /\ run_index.cells # {}
    /\ tool' = [NoTool EXCEPT !.at = "load", !.todo = run_index.cells]
    /\ UNCHANGED <<stamp, stdout, run_index, json, md, summary>>
LoadDigest(c) ==
    /\ tool.at = "load" /\ c \in tool.todo
    /\ tool' = IF _digest_exists(c) THEN Loaded(c, json[c]) ELSE [tool EXCEPT !.at = "read", !.cell = c]
    /\ UNCHANGED <<stamp, stdout, run_index, json, md, summary, moves>>
WriteSummary ==
    /\ tool.at = "load" /\ tool.todo = {}
    /\ summary' = tool.shown /\ tool' = NoTool
    /\ UNCHANGED <<stamp, stdout, run_index, json, md, moves>>

DigestNext ==
    \/ \E c \in Cells :
         \/ \E chunk \in Chunks : LogChunk(c, chunk)
         \/ \E entry \in Entries : IndexEntry(c, entry)
         \/ \E phase, regen \in BOOLEAN : Call(c, phase, regen)
         \/ LoadDigest(c)
    \/ ReadLog \/ WriteJson \/ WritePage \/ KillTool \/ Aggregate \/ WriteSummary

-----------------------------------------------------------------------------
(* The shapes as the table above classify_loss_trajectory names them. *)

Reverses(l, i) ==
    \E j \in 1 .. i - 1 : Diff(l, j) * Diff(l, i) < 0 /\ \A k \in j + 1 .. i - 1 : Diff(l, k) = 0
ShapeOf(log) ==
    LET l == Said(log, "summary")  n == Len(l)
        shape == [collapsed |-> n > 1 /\ l[1].best > 0 /\ l[n].best * 2 > l[1].best,
                  oscillating |-> Cardinality({i \in 1 .. n - 1 : Reverses(l, i)}) >= 4,
                  plateau |-> \E i \in 1 .. n - 2 : l[i].avg = l[i + 1].avg /\ l[i].avg = l[i + 2].avg] IN
    IF n < 2 THEN "insufficient_data"
    ELSE IF shape.collapsed THEN "collapsed"
    ELSE IF shape.oscillating THEN "oscillating"
    ELSE IF shape.plateau THEN "plateau_after_N"
    ELSE IF NoisyRises(l) <= 1 THEN "monotone_decreasing" ELSE "noisy_no_class"

(* A digest that the tool takes for fresh, and so will never make again, gives *)
(* the whole log its class, wherever calls, summaries and kills fell among the *)
(* lines.  Only a line written between the read of the log and the timestamp   *)
(* of the digest can hide behind it.  The phase summary never shows a digest   *)
(* of more than the log held.                                                  *)
FreshTellsAll ==
    \A c \in Cells :
        /\ _digest_is_fresh(c) /\ ~ json[c].raced => json[c].shape = ShapeOf(stdout[c].lines)
        /\ summary[c].upto <= Len(stdout[c].lines)
           /\ (summary[c].at > 0 => summary[c].shape = ShapeOf(SubSeq(stdout[c].lines, 1, summary[c].upto)))

DigestSpec == DigestInit /\ [][DigestNext]_digestVars
=============================================================================
