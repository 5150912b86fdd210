----------------------------- MODULE CostRollup -----------------------------
(***************************************************************************)
(* tools/cost_rollup.py: the sessions' jsonl files and three telemetry     *)
(* files are joined into one summary of a range of days, written as        *)
(* cost_rollup.md and then cost_rollup.json.  post_director starts it on   *)
(* every Director's exit and kills it after 30 s; an operator may ask for  *)
(* other days.  Sessions write on while it reads.                          *)
(*                                                                         *)
(* Time is counted in ticks, DayTicks to a day, the last of which is what  *)
(* comes after 23:59:59.  A message is [at, model, usage], a dispatch [at, *)
(* role, escalated, passed], another event [at, what].  Prices are in      *)
(* twentieths of a dollar a million tokens, a percentage is its numerator, *)
(* and the page is the summary: its layout is left out.                    *)
(***************************************************************************)
EXTENDS Integers, Sequences, FiniteSets, SequencesExt, TLC

CONSTANTS
    Files,          \* the session files, in the order of their names
    SessionOf,      \* the session id that a file carries: two files may share one
    AgentSessions,  \* the ids that begin with agent-
    Usages,         \* what a message may have used
    EventKinds,     \* what the Director's tools record: "silent_death", "error" or "fail"
    DayTicks, LastTick,
    WeekDays,       \* how far back the default range goes
    RoleWindow,     \* ROLE_MAP_WINDOW_SECONDS, in ticks
    MaxCostWork     \* bound on messages, records, calls and kills

Buckets == {"input", "cache_creation", "cache_read", "output"}

ASSUME CostRollupAssumption ==
    /\ DayTicks \in Nat \ {0} /\ {LastTick, WeekDays, RoleWindow, MaxCostWork} \subseteq Nat
    /\ Files \in Seq(Range(Files)) /\ Usages \subseteq [Buckets -> Nat]

VARIABLES
    tick,
    messages,       \* each session file's assistant messages
    dispatched,     \* dispatch_telemetry.jsonl
    events,         \* post_director_telemetry.jsonl and queue_telemetry.jsonl
    cost_md, cost_json,
    collector,      \* the running tool: [at, since, until, todo, sessions, summary]
    jobs,
    billed          \* ghost: for each range, the files its summaries ever billed, with their tokens

costVars == <<tick, messages, dispatched, events, cost_md, cost_json, collector, jobs, billed>>

NoSummary == [since |-> 0, until |-> -1, sessions |-> << >>, cost |-> 0, by_model |-> << >>,
              by_role |-> << >>, outliers |-> << >>, wastage |-> 0, delta |-> << >>]
Off == [at |-> "off", since |-> 0, until |-> 0, todo |-> << >>, sessions |-> << >>, summary |-> NoSummary]

CostInit ==
    /\ tick = 0 /\ messages = [f \in Range(Files) |-> << >>]
    /\ dispatched = << >> /\ events = << >>
    /\ cost_md = NoSummary /\ cost_json = NoSummary
    /\ collector = Off /\ jobs = 0 /\ billed = << >>

Job == jobs < MaxCostWork /\ jobs' = jobs + 1

-----------------------------------------------------------------------------
(* The operators of the joins. *)

Prices(input, creation, read, output) ==
    [input |-> input, cache_creation |-> creation, cache_read |-> read, output |-> output]
PRICING == [opus |-> Prices(300, 375, 30, 1500), sonnet |-> Prices(60, 75, 6, 300), haiku |-> Prices(20, 25, 2, 100)]
SumSeq(s) == FoldSeq(LAMBDA x, y : x + y, 0, s)
Column(s, Of(_)) == [i \in 1 .. Len(s) |-> Of(s[i])]

compute_cost(model, usage) ==
    LET prices == PRICING[IF model \in DOMAIN PRICING THEN model ELSE "opus"] IN
    FoldSet(LAMBDA b, cost : cost + usage[b] * prices[b], 0, Buckets)

\* Before StartTs, a mutant that files a session under its last message.
EndTs(log) == Last(log).at
StartTs(log) == Head(log).at
parse_session_jsonl(f) ==
    LET log == messages[f]
        real == SelectSeq(log, LAMBDA x : x.model # "<synthetic>") IN
    [file |-> f, id |-> SessionOf[f], start |-> StartTs(log), role |-> "",
     model |-> IF real = << >> THEN "<synthetic>" ELSE Last(real).model,
     usage |-> [b \in Buckets |-> SumSeq(Column(log, LAMBDA x : x.usage[b]))]]

_ts_in_range(ts, since, until) == since * DayTicks <= ts /\ ts <= (until + 1) * DayTicks - 2

(* The closest dispatch in the window, the first of equals. *)
Away(s, d) == IF s.start < d.at THEN d.at - s.start ELSE s.start - d.at
map_session_to_role(s) ==
    LET near == {i \in 1 .. Len(dispatched) : Away(s, dispatched[i]) <= RoleWindow}
        best == {i \in near : \A j \in near : Away(s, dispatched[i]) < Away(s, dispatched[j])
                                 \/ (Away(s, dispatched[i]) = Away(s, dispatched[j]) /\ i <= j)} IN
    IF near # {} THEN dispatched[CHOOSE i \in best : TRUE].role
    ELSE IF s.id \in AgentSessions THEN "subagent_unknown_role" ELSE "director"

(* aggregate_by_model and aggregate_by_role: what the sessions of one field's value cost. *)
Grouped(sessions, field) ==
    [k \in Range(Column(sessions, LAMBDA s : s[field])) |->
        LET of == SelectSeq(sessions, LAMBDA s : s[field] = k) IN
        [n |-> Len(of), cost |-> SumSeq(Column(of, LAMBDA s : s.cost)), model |-> Head(of).model]]

detect_wastage_events(since, until) ==
    LET In(x) == _ts_in_range(x.at, since, until)
        Count(s, Test(_)) == Len(SelectSeq(s, Test))
        Of(what) == Count(events, LAMBDA x : In(x) /\ x.what = what) IN
    [silent_death_recoveries |-> Of("silent_death"), post_director_errors |-> Of("error"),
     failed_claims |-> Of("fail"), holding_loop_count |-> Of("error") \div 3,
     escalated_dispatches |-> Count(dispatched, LAMBDA x : In(x) /\ x.escalated),
     verifier_failures |-> Count(dispatched, LAMBDA x : In(x) /\ ~ x.passed)]
Wastage(w) == FoldSet(LAMBDA k, n : n + w[k], 0, DOMAIN w)

(* find_outliers: more than 3.5 MAD above the median.  The flagged files of one id are *)
(* one row, with the sum of their costs, and the dearest row is first.                 *)
TwiceMedian(s) == LET t == SortSeq(s, <)  n == Len(s) IN t[(n + 1) \div 2] + t[n \div 2 + 1]
find_outliers(sessions) ==
    LET costs == Column(sessions, LAMBDA s : s.cost)
        median2 == TwiceMedian(costs)
        mad4 == TwiceMedian(Column(costs, LAMBDA c : IF 2 * c < median2 THEN median2 - 2 * c ELSE 2 * c - median2))
        flagged == SelectSeq(sessions, LAMBDA s : 8 * s.cost > 4 * median2 + 7 * mad4)
        rows == Grouped(flagged, "id") IN
    IF Len(sessions) < 3 THEN << >>
    ELSE IF mad4 = 0 THEN << >>
    ELSE SortSeq(SetToSeq({[id |-> k, cost |-> rows[k].cost] : k \in DOMAIN rows}), LAMBDA x, y : x.cost > y.cost)

compute_week_delta(now, previous) ==
    IF previous = NoSummary THEN << >>
    ELSE << IF previous.cost = 0 THEN "None" ELSE ToString(now.cost - previous.cost),
            IF previous.sessions = << >> THEN "None" ELSE ToString(Len(now.sessions) - Len(previous.sessions)),
            ToString(now.wastage - previous.wastage) >>

-----------------------------------------------------------------------------
(* The sessions, the Director's tools and the clock. *)

Message(f, model, usage) ==
    /\ Job
    /\ messages' = [messages EXCEPT ![f] = Append(@, [at |-> tick, model |-> model, usage |-> usage])]
    /\ UNCHANGED <<tick, dispatched, events, cost_md, cost_json, collector, billed>>

DispatchRecord(role, escalated, passed) ==
    /\ Job
    /\ dispatched' = Append(dispatched, [at |-> tick, role |-> role, escalated |-> escalated, passed |-> passed])
    /\ UNCHANGED <<tick, messages, events, cost_md, cost_json, collector, billed>>

EventRecord(what) ==
    /\ Job
    /\ events' = Append(events, [at |-> tick, what |-> what])
    /\ UNCHANGED <<tick, messages, dispatched, cost_md, cost_json, collector, billed>>

CostTick ==
    /\ tick < LastTick /\ tick' = tick + 1
    /\ UNCHANGED <<messages, dispatched, events, cost_md, cost_json, collector, jobs, billed>>

-----------------------------------------------------------------------------
(* main.  The default range is from WeekDays ago to today. *)

Today == tick \div DayTicks
RollupCall(since, until) ==
    /\ Job /\ collector = Off
    /\ collector' = [Off EXCEPT !.at = "sessions", !.since = since, !.until = until,
                                !.todo = Files]
    /\ UNCHANGED <<tick, messages, dispatched, events, cost_md, cost_json, billed>>

(* A file without an answer yet is passed over. *)
ReadSession ==
    /\ collector.at = "sessions" /\ collector.todo # << >>
    /\ LET f == Head(collector.todo)
           s == parse_session_jsonl(f)
           began == messages[f] # << >> /\ _ts_in_range(s.start, collector.since, collector.until) IN
         collector' = [collector EXCEPT !.todo = Tail(@), !.sessions = IF began THEN Append(@, s) ELSE @]
    /\ UNCHANGED <<tick, messages, dispatched, events, cost_md, cost_json, jobs, billed>>

Enriched(s) ==
    [file |-> s.file, id |-> s.id, model |-> s.model, role |-> map_session_to_role(s),
     cost |-> compute_cost(s.model, s.usage), tokens |-> FoldSet(LAMBDA b, n : s.usage[b] + n, 0, Buckets)]
Summarised ==
    LET rows == Column(collector.sessions, Enriched)
        now == [since |-> collector.since, until |-> collector.until, sessions |-> rows,
                cost |-> SumSeq(Column(rows, LAMBDA s : s.cost)),
                by_model |-> Grouped(rows, "model"), by_role |-> Grouped(rows, "role"),
                outliers |-> find_outliers(rows),
                wastage |-> Wastage(detect_wastage_events(collector.since, collector.until)), delta |-> << >>] IN
    [now EXCEPT !.delta = compute_week_delta(now, cost_json)]
Summarise ==
    /\ collector.at = "sessions" /\ collector.todo = << >>
    /\ collector' = [collector EXCEPT !.at = "md", !.summary = Summarised]
    /\ UNCHANGED <<tick, messages, dispatched, events, cost_md, cost_json, jobs, billed>>

WriteMd ==
    /\ collector.at = "md"
    /\ cost_md' = collector.summary /\ collector' = [collector EXCEPT !.at = "json"]
    /\ UNCHANGED <<tick, messages, dispatched, events, cost_json, jobs, billed>>

Asked == <<collector.since, collector.until>>
BilledNow == {<<s.file, s.tokens>> : s \in Range(collector.summary.sessions)}
WriteCostJson ==
    /\ collector.at = "json"
    /\ cost_json' = collector.summary /\ collector' = Off
    /\ billed' = [r \in DOMAIN billed \union {Asked} |->
                    (IF r \in DOMAIN billed THEN billed[r] ELSE {}) \union (IF r = Asked THEN BilledNow ELSE {})]
    /\ UNCHANGED <<tick, messages, dispatched, events, cost_md, jobs>>

(* Both writes go through a renamed file, so a kill leaves the old one or the new one. *)
KillCollector ==
    /\ Job /\ collector # Off /\ collector' = Off
    /\ UNCHANGED <<tick, messages, dispatched, events, cost_md, cost_json, billed>>

CostNext ==
    \/ \E f \in Range(Files), model \in {"haiku", "<synthetic>"}, usage \in Usages : Message(f, model, usage)
    \/ \E passed \in BOOLEAN : DispatchRecord("pi", ~ passed, passed)
    \/ \E what \in EventKinds : EventRecord(what)
    \/ RollupCall(Today - WeekDays, Today)
    \/ \E since \in 0 .. Today : \E until \in since .. Today : RollupCall(since, until)
    \/ CostTick \/ ReadSession \/ Summarise \/ WriteMd \/ WriteCostJson \/ KillCollector

-----------------------------------------------------------------------------
(* A session is billed in the days it began in, all of it, and in no others: a  *)
(* summary of the same days never loses a session, nor any of its tokens,       *)
(* however long the session went on, and summaries of days that do not overlap  *)
(* never have a session in common.  (Its cost may go down: all the tokens of a  *)
(* session are priced at the last model it used.)                               *)
BilledOnce ==
    /\ \A r1, r2 \in DOMAIN billed : r1[2] < r2[1] =>
         ~ \E x \in billed[r1], y \in billed[r2] : x[1] = y[1]
    /\ \A r \in DOMAIN billed : r = <<cost_json.since, cost_json.until>> =>
         \A x \in billed[r] : \E s \in Range(cost_json.sessions) : s.file = x[1] /\ s.tokens >= x[2]
    /\ \A s \in Range(cost_json.sessions) :
         Head(messages[s.file]).at \div DayTicks \in cost_json.since .. cost_json.until

CostSpec == CostInit /\ [][CostNext]_costVars
=============================================================================
