-------------------------- MODULE RetrievalWorker --------------------------
(***************************************************************************)
(* src/tools/retrieval/concurrency.py: a subprocess that holds the search  *)
(* model and answers one line of its stdout for each line of its stdin.    *)
(* Nothing in a line says which query it answers: query takes the next     *)
(* one, and nothing keeps two threads from asking at once.                 *)
(***************************************************************************)
EXTENDS Integers, Sequences

CONSTANTS Askers,       \* threads that share the worker
          MaxQueries    \* bound on the queries

VARIABLES
    worker,     \* "up" or "gone"
    questions,   \* its stdin: query numbers, Stop for a shutdown
    answers,    \* its stdout, in the pipe
    buffered,   \* lines the reading side took out of the pipe with an earlier one
    step,       \* step[c]: "idle", "select", "read" or "reap"
    asked, got, \* ghost: the number of c's last query, and of the query its answer was for (0: none)
    written,    \* ghost: queries written so far
    late,       \* ghost: queries that timed out on this worker
    shared      \* ghost: two threads used this worker at once

workerVars == <<worker, questions, answers, buffered, step, asked, got, written, late, shared>>

Stop == 0

WorkerInit ==
    /\ worker = "gone" /\ questions = << >> /\ answers = << >> /\ buffered = << >>
    /\ step = [c \in Askers |-> "idle"]
    /\ asked = [c \in Askers |-> 0] /\ got = [c \in Askers |-> 0]
    /\ written = 0 /\ late = 0 /\ shared = FALSE

To(c, s) == step' = [step EXCEPT ![c] = s]
Others(c) == \E d \in Askers \ {c} : step[d] # "idle"
-----------------------------------------------------------------------------
(* A spawn that gets no "ready" in time kills its child and raises. *)
Spawn ==
    /\ worker = "gone" /\ \A c \in Askers : step[c] = "idle"
    /\ worker' = "up" /\ questions' = << >> /\ answers' = << >> /\ buffered' = << >>
    /\ late' = 0 /\ shared' = FALSE /\ got' = [c \in Askers |-> 0]
    /\ UNCHANGED <<step, asked, written>>

Query(c) ==
    /\ step[c] = "idle" /\ worker = "up" /\ written < MaxQueries
    /\ questions' = Append(questions, written + 1) /\ written' = written + 1
    /\ asked' = [asked EXCEPT ![c] = written + 1] /\ got' = [got EXCEPT ![c] = 0]
    /\ \E timeout \in BOOLEAN : To(c, IF timeout THEN "select" ELSE "read")
    /\ shared' = (shared \/ Others(c))
    /\ UNCHANGED <<worker, answers, buffered, late>>

(* select looks at the pipe, not at the lines already buffered; the end of a *)
(* dead worker's output counts as readable.                                  *)
Readable(c) ==
    /\ step[c] = "select" /\ (answers # << >> \/ worker = "gone") /\ To(c, "read")
    /\ UNCHANGED <<worker, questions, answers, buffered, asked, got, written, late, shared>>

TimedOut(c) ==
    /\ step[c] = "select" /\ answers = << >> /\ worker = "up" /\ To(c, "idle")
    /\ late' = late + 1
    /\ UNCHANGED <<worker, questions, answers, buffered, asked, got, written, shared>>

(* readline: the first line of the buffer, which is filled with what the pipe holds. *)
Lines == IF buffered = << >> THEN answers ELSE buffered

Read(c) ==
    /\ step[c] = "read" /\ Lines # << >> /\ To(c, "idle")
    /\ got' = [got EXCEPT ![c] = Head(Lines)]
    /\ buffered' = Tail(Lines) /\ answers' = IF buffered = << >> THEN << >> ELSE answers
    /\ UNCHANGED <<worker, questions, asked, written, late, shared>>

ReadsEnd(c) ==
    /\ step[c] = "read" /\ Lines = << >> /\ worker = "gone" /\ To(c, "idle")
    /\ UNCHANGED <<worker, questions, answers, buffered, asked, got, written, late, shared>>

(* The caller tells the worker to stop, waits, and kills it in the end. *)
Shutdown(c) ==
    /\ step[c] = "idle" /\ worker = "up" /\ To(c, "reap")
    /\ questions' = Append(questions, Stop) /\ shared' = (shared \/ Others(c))
    /\ UNCHANGED <<worker, answers, buffered, asked, got, written, late>>

Reap(c) ==
    /\ step[c] = "reap" /\ To(c, "idle") /\ worker' = "gone"
    /\ UNCHANGED <<questions, answers, buffered, asked, got, written, late, shared>>
-----------------------------------------------------------------------------
(* The hits or the error of a query are one line.  The mutant before it lets an *)
(* error be followed by a result.                                               *)
LinesTwice(n) == {<<n>>, <<n, n>>}
LinesFor(n) == {<<n>>}

Serve ==
    /\ worker = "up" /\ questions # << >> /\ Head(questions) # Stop
    /\ \E lines \in LinesFor(Head(questions)) : answers' = answers \o lines
    /\ questions' = Tail(questions)
    /\ UNCHANGED <<worker, buffered, step, asked, got, written, late, shared>>

Exit ==
    /\ worker = "up" /\ worker' = "gone"    \* told to, or it crashed
    /\ UNCHANGED <<questions, answers, buffered, step, asked, got, written, late, shared>>

WorkerNext ==
    \/ Spawn \/ Serve \/ Exit
    \/ \E c \in Askers : Query(c) \/ Readable(c) \/ TimedOut(c) \/ Read(c) \/ ReadsEnd(c) \/ Shutdown(c) \/ Reap(c)
-----------------------------------------------------------------------------
WorkerSpec == WorkerInit /\ [][WorkerNext]_workerVars

(* While one thread at a time asks, an answer is for the query it is returned   *)
(* for, or, after timeouts on the same worker, for one at most as many queries  *)
(* earlier, whatever errors, crashes and fresh workers lie between.             *)
AnswersAreOwn ==
    shared \/ \A c \in Askers : got[c] = 0 \/ asked[c] - got[c] \in 0 .. late
=============================================================================
