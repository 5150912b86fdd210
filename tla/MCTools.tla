------------------------------ MODULE MCTools ------------------------------
(***************************************************************************)
(* The tools that keep files of their own, each beside the processes it    *)
(* shares them with.  They share nothing with each other, so one instance  *)
(* checks them side by side: subject says which of them moves.             *)
(***************************************************************************)
EXTENDS NoteFiles, EpisodicAudit, TrainingDigest, ForensicDriver, EvalHarness, B4Trigger,
        Calibration, CostRollup, HspaAdapter, SessionBrief, RetrievalWorker, MemoryPool

VARIABLE subject
toolsVars == <<subject, notesVars, auditVars, digestVars, forensicVars, harnessVars, b4Vars, calibrationVars,
               costVars, adapterVars, briefVars, workerVars, poolVars>>

(* A log's chunks: a first summary, a swing, two level ones and a rise, and the load lines of a layer. *)
Summary(avg, best) == [says |-> "summary", avg |-> avg, best |-> best]
Worst(state) == [says |-> "worst", state |-> state]
MCChunks == {<<Summary(2, 100)>>, <<Summary(1, 40), Summary(3, 45), Summary(1, 40)>>,
             <<Summary(1, 40), Summary(1, 40), Summary(3, 45)>>,
             <<[says |-> "layer", K |-> 2, ratio |-> FALSE, flat |-> TRUE], Worst("ok"), Worst("bad")>>}
MCEntries == {[nan |-> 1, rc |-> 7, fatal |-> 0]}

MCCells == <<"A42", "B42">>
MCBenchmarks == <<"mmlu", "gsm8k">>

(* In tenths: 1.5 * 1.0 and 1.5 * 1.4, squared. *)
MCSigma == [HS |-> 225, WG |-> 441]
SeedScores(hs, wg) == [s \in Seeds |-> Scored([HS |-> IF s = 42 THEN 400 ELSE 400 - hs,
                                               WG |-> IF s = 42 THEN 500 ELSE 500 + wg])]
MCEvaluations == {SeedScores(0, 0), SeedScores(30, 0), SeedScores(30, 42), SeedScores(0, 43),
                  [SeedScores(0, 0) EXCEPT ![42] = Garbled]}

MCUsages == {[input |-> 1, cache_creation |-> 0, cache_read |-> 2, output |-> 1]}
MCFiles == <<"f1", "f2">>
MCSessionOf == [f1 |-> "s", f2 |-> "agent-t"]

MCRequests == [size : {1}, line : {"scored", "cut", "unscored"}] \union
              {[size |-> 2, line |-> "scored"], [size |-> 2, line |-> "unread"], [size |-> 4, line |-> "unread"]}
MCRequestLists == UNION {[1 .. n -> MCRequests] : n \in 0 .. 4}

(* What the adapter and the pool fix at the start is left open in their own instance only. *)
Init ==
    /\ subject \in {"notes", "audit", "digest", "forensic", "harness", "b4", "calibration", "cost", "adapter", "brief",
                   "worker", "pool"}
    /\ NotesInit /\ AuditInit /\ DigestInit /\ ForensicInit /\ HarnessInit /\ B4Init /\ CalibrationInit
    /\ CostInit /\ AdapterInit /\ BriefInit /\ (subject # "adapter" => requests = << >> /\ caller = "smoke")
    /\ WorkerInit /\ PoolInit /\ (subject # "pool" => type = "bump")

Only(name) ==
    /\ subject = name /\ subject' = subject
    /\ name # "notes" => UNCHANGED notesVars
    /\ name # "audit" => UNCHANGED auditVars
    /\ name # "digest" => UNCHANGED digestVars
    /\ name # "forensic" => UNCHANGED forensicVars
    /\ name # "harness" => UNCHANGED harnessVars
    /\ name # "b4" => UNCHANGED b4Vars
    /\ name # "calibration" => UNCHANGED calibrationVars
    /\ name # "cost" => UNCHANGED costVars
    /\ name # "adapter" => UNCHANGED adapterVars
    /\ name # "brief" => UNCHANGED briefVars
    /\ name # "worker" => UNCHANGED workerVars
    /\ name # "pool" => UNCHANGED poolVars

Next ==
    \/ Only("notes") /\ NotesNext
    \/ Only("audit") /\ AuditNext
    \/ Only("digest") /\ DigestNext
    \/ Only("forensic") /\ ForensicNext
    \/ Only("harness") /\ HarnessNext
    \/ Only("b4") /\ B4Next
    \/ Only("calibration") /\ CalibrationNext
    \/ Only("cost") /\ CostNext
    \/ Only("adapter") /\ AdapterNext
    \/ Only("brief") /\ BriefNext
    \/ Only("worker") /\ WorkerNext
    \/ Only("pool") /\ PoolNext

Spec == Init /\ [][Next]_toolsVars
=============================================================================
