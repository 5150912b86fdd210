-------------------------- MODULE SignoffGateProofs --------------------------
(***************************************************************************)
(* Theorems about the sign-off gate, for any number of runs, any roles,    *)
(* documents and lines, and any number of faults and operator baselines:   *)
(* what it accepts is backed by the ledger, an exit it lets through is     *)
(* complete, and it can read what the recorder and the token tool write.   *)
(***************************************************************************)
EXTENDS SignoffGate, FiniteSetTheorems, WellFoundedInduction, TLAPS

-----------------------------------------------------------------------------
(* The invariants. *)

(* The gate looks at the sealed ledger of a session that ended; a recorder     *)
(* writes into the ledger of one that has not.                                 *)
Phases ==
    /\ gate.at # "off" => phase = "gate" /\ run \in opened /\ Sealed(run) /\ gate.status \in Statuses
    /\ recorder # "off" => phase = "session" /\ run \in opened
    /\ initing => phase = "down"

Receipts(r) == {ledger[r][i].receipt : i \in Dispatched(r)}
Completed(r, id) == \E j \in DOMAIN ledger[r] :
                        ledger[r][j].kind = "complete" /\ ledger[r][j].receipt = id

(* The recorder's fields say what it wrote.                                    *)
Recording ==
    /\ recorder = "created" => ledger[run] = << >> /\ seen = {} /\ pending = {}
    /\ recorder = "on" =>
         /\ seen = Receipts(run) /\ pending = {id \in seen : ~ Completed(run, id)}
         /\ IsFiniteSet(seen) /\ Cardinality(seen) = Cardinality(Dispatched(run))
         /\ ~ Sealed(run)

(* The ledgers are in order, and no two of them share a receipt.               *)
Ledgers ==
    /\ \A r \in Runs \ opened : ledger[r] = << >>
    /\ \A r \in Runs : InOrder(r)
    /\ \A r \in Runs : \A i \in Dispatched(r) : RunOf[ledger[r][i].receipt] = r

(* The token of that line is the role's approval of that document.             *)
Approves(t, l, r, d) ==
    /\ t.role = r /\ t.target = d /\ t.verdict = "APPROVE"
    /\ Backed(t) \/ l \in based.lines

(* What a baseline of these lines and files may hold.                          *)
Backing(ls, fs) ==
    /\ \A l \in ls \ based.lines : Genuine(l)
    /\ \A d \in (fs \cap Docs) \ based.files : \A r \in Required[d] :
         \E l \in Lines : \E t \in l.tokens : Approves(t, l, r, d)
    /\ \A r \in (fs \cap Roles) \ based.files : Answers(r) # {}

(* The baseline in force is backed, and so is the one the gate is to save.     *)
BackedInv ==
    /\ Backing(accepted.lines, accepted.files)
    /\ gate.at = "missed" => Backing(gate.lines, gate.files)

(* Nothing in the tree is outside a baseline of these lines and files.         *)
Covers(ls, fs) ==
    /\ lines \subseteq ls /\ filed \subseteq fs
    /\ {d \in docs \ drafts : Required[d] # {}} \subseteq fs

(* How far the gate has come with the baseline and the verdicts.               *)
Judging ==
    /\ gate.at = "missed" => {q \in opened \ {run} : verdict[q] = "none"} \subseteq gate.missed
    /\ gate.at \in {"accepted", "judged"} => \A q \in opened \ {run} : verdict[q] # "none"
    /\ gate.at = "judged" => verdict[run] = gate.status
    /\ gate.at = "missed" /\ gate.status # "FORGERY" => Covers(gate.lines, gate.files)
    /\ gate.at \in {"accepted", "judged"} /\ gate.status # "FORGERY" =>
         Covers(accepted.lines, accepted.files)
-----------------------------------------------------------------------------
(* Types. *)

LEMMA RecordFacts ==
  ASSUME NEW rec \in Records
  PROVE  /\ rec.kind \in {"open", "torn", "dispatch", "complete", "seal"}
         /\ rec.kind \in {"dispatch", "complete"} => rec.receipt \in Ids
         /\ rec.kind = "dispatch" => rec.dictated \in SUBSET Attestations
         /\ rec.kind = "complete" => rec.attests \in Seq(Attestations)
  BY DEF Records

(* An appended record is the last one of the current run, and nothing else changes. *)
LEMMA Appended ==
  ASSUME TypeOK, run \in Runs, NEW rec, AppendRecord(rec)
  PROVE  /\ ledger'[run] = Append(ledger[run], rec)
         /\ \A r \in Runs \ {run} : ledger'[r] = ledger[r]
         /\ ledger[run] \in Seq(Records) /\ Len(ledger[run]) \in Nat
         /\ Len(ledger'[run]) = Len(ledger[run]) + 1
         /\ DOMAIN ledger[run] = 1 .. Len(ledger[run])
         /\ DOMAIN ledger'[run] = 1 .. Len(ledger[run]) + 1
         /\ ledger'[run][Len(ledger[run]) + 1] = rec
         /\ \A i \in DOMAIN ledger[run] : ledger'[run][i] = ledger[run][i]
  BY DEF TypeOK, AppendRecord

LEMMA AppendType ==
  ASSUME TypeOK, run \in Runs, NEW rec \in Records, AppendRecord(rec)
  PROVE  ledger' \in [Runs -> Seq(Records)]
  BY DEF TypeOK, AppendRecord

LEMMA RunFacts ==
  ASSUME TypeOK
  PROVE  /\ opened \subseteq Runs /\ NRuns \in Nat
         /\ run \in opened => run \in Runs
         /\ run < NRuns => run + 1 \in Runs /\ run + 1 \notin opened /\ run \in Nat
  BY GateAssumption DEF TypeOK, Runs

LEMMA TypeInit == Init => TypeOK /\ Phases
  <1> SUFFICES ASSUME Init
               PROVE  TypeOK /\ Phases
    OBVIOUS
  <1>1. ledger \in [Runs -> Seq(Records)]
    BY DEF Init
  <1>2. lines \subseteq Lines /\ docs \subseteq Docs
    BY GateAssumption DEF Init, LineShapes
  <1>3. accepted \in BaselineShape /\ gate.at = "off"
    BY DEF Init, BaselineShape, NoBaseline, Idle
  <1>4. gate \in [at : {"off", "missed", "accepted", "judged"}, missed : SUBSET Runs, lines : SUBSET Lines,
                 files : SUBSET (Docs \cup Roles), status : Statuses \cup {"none"}]
    BY DEF Init, Idle
  <1>5. verdict \in [Runs -> Statuses \cup {"none", "NEVER_GATED"}]
    BY DEF Init
  <1>6. based \in [lines : SUBSET Lines, files : SUBSET (Docs \cup Roles)]
    BY DEF Init
  <1>7. run \in 0 .. NRuns /\ upsets \in 0 .. MaxUpsets
    BY GateAssumption DEF Init
  <1>8. key \in BOOLEAN /\ initing \in BOOLEAN
    BY DEF Init
  <1>9. TypeOK
    BY <1>1, <1>2, <1>3, <1>4, <1>5, <1>6, <1>7, <1>8 DEF Init, TypeOK
  <1> QED BY <1>3, <1>9 DEF Init, Phases

GateShape == [at : {"off", "missed", "accepted", "judged"}, missed : SUBSET Runs, lines : SUBSET Lines,
              files : SUBSET (Docs \cup Roles), status : Statuses \cup {"none"}]

LEMMA TypeStep == TypeOK /\ Phases /\ Recording /\ [Next]_vars => TypeOK'
  <1> SUFFICES ASSUME TypeOK, Phases, Recording, [Next]_vars
               PROVE  TypeOK'
    OBVIOUS
  <1> DEFINE RunOK == phase \in {"down", "idle", "session", "gate"} /\ run \in 0 .. NRuns
                      /\ opened \subseteq 1 .. run
             RecOK == recorder \in {"off", "created", "on"} /\ seen \subseteq Ids /\ pending \subseteq seen
                      /\ completed \in Nat
             LedgerOK == ledger \in [Runs -> Seq(Records)]
             FilesOK == key \in BOOLEAN /\ accepted \in BaselineShape /\ initing \in BOOLEAN
                        /\ based \in [lines : SUBSET Lines, files : SUBSET (Docs \cup Roles)]
             VerdictOK == verdict \in [Runs -> Statuses \cup {"none", "NEVER_GATED"}] /\ passed \subseteq Runs
             TreeOK == lines \subseteq Lines /\ docs \subseteq Docs /\ drafts \subseteq docs /\ filed \subseteq Roles
                       /\ aged \subseteq Ids
             GateOK == gate \in GateShape
             UpsetsOK == upsets \in 0 .. MaxUpsets
  <1>1. /\ RunOK /\ RecOK /\ LedgerOK /\ FilesOK /\ VerdictOK /\ TreeOK /\ GateOK /\ UpsetsOK
        /\ MaxUpsets \in Nat /\ NRuns \in Nat /\ opened \subseteq Runs /\ (run \in opened => run \in Runs)
    BY RunFacts, GateAssumption DEF TypeOK, GateShape
  <1>2. RunOK' /\ RecOK' /\ LedgerOK' /\ FilesOK' /\ VerdictOK' /\ TreeOK' /\ GateOK' /\ UpsetsOK' => TypeOK'
    BY DEF TypeOK, GateShape
  <1>3. UNCHANGED <<phase, run, opened>> => RunOK'
    BY <1>1
  <1>4. UNCHANGED recording => RecOK'
    BY <1>1 DEF recording
  <1>5. UNCHANGED ledger => LedgerOK'
    BY <1>1
  <1>6. UNCHANGED <<key, accepted, initing, based>> => FilesOK'
    BY <1>1
  <1>7. UNCHANGED <<verdict, passed>> => VerdictOK'
    BY <1>1
  <1>8. UNCHANGED <<tree, aged>> => TreeOK'
    BY <1>1 DEF tree
  <1>9. UNCHANGED gate => GateOK'
    BY <1>1
  <1>10. UNCHANGED upsets => UpsetsOK'
    BY <1>1
  <1>11. upsets < MaxUpsets /\ upsets' = upsets + 1 => UpsetsOK'
    BY <1>1
  <1> HIDE DEF LedgerOK, FilesOK, VerdictOK, TreeOK, GateOK, UpsetsOK
  <1> USE DEF evidence
  <1>20. CASE StartSession
    <2>1. RunOK'
      <3>1. run \in Nat /\ run < NRuns /\ run' = run + 1 /\ phase' = "session"
        BY <1>1, <1>20 DEF StartSession
      <3>2. opened' \subseteq opened \cup {run + 1}
        BY <1>20 DEF StartSession
      <3>3. \A q \in opened : q \in 1 .. run
        BY <1>1
      <3> QED BY <1>1, <3>1, <3>2, <3>3
    <2>2. RecOK'
      BY <1>1, <1>20 DEF StartSession
    <2> QED BY <1>20, <2>1, <2>2, <1>2, <1>5, <1>6, <1>7, <1>8, <1>9, <1>10 DEF StartSession
  <1>21. CASE OpenLedger
    <2>1. LedgerOK'
      BY <1>1, <1>21, AppendType DEF OpenLedger, Phases, LedgerOK, Records
    <2>2. RunOK' /\ RecOK'
      BY <1>1, <1>21 DEF OpenLedger
    <2> QED BY <1>21, <2>1, <2>2, <1>2, <1>6, <1>7, <1>8, <1>9, <1>10 DEF OpenLedger
  <1>22. ASSUME NEW id \in Ids, NEW in \in DispatchInputs[id], Dispatch(id, in)
         PROVE  TypeOK'
    <2>1. LedgerOK'
      <3>1. in \in [role : STRING, nested : BOOLEAN, dictated : SUBSET Attestations]
        BY GateAssumption
      <3>2. [kind |-> "dispatch", receipt |-> id, role |-> in.role, nested |-> in.nested,
             dictated |-> in.dictated] \in Records
        BY <3>1 DEF Records
      <3> QED BY <1>1, <1>22, <3>2, AppendType DEF Dispatch, Phases, LedgerOK
    <2>2. RunOK' /\ RecOK'
      BY <1>1, <1>22 DEF Dispatch
    <2> QED BY <1>22, <2>1, <2>2, <1>2, <1>6, <1>7, <1>8, <1>9, <1>10 DEF Dispatch
  <1>23. ASSUME NEW id \in Ids, NEW out \in ResultInputs[id], Complete(id, out)
         PROVE  TypeOK'
    <2>1. LedgerOK'
      <3>1. out \in [isError : BOOLEAN, attests : Seq(Attestations)]
        BY GateAssumption
      <3>2. [kind |-> "complete", receipt |-> id, isError |-> out.isError, attests |-> out.attests] \in Records
        BY <3>1 DEF Records
      <3> QED BY <1>1, <1>23, <3>2, AppendType DEF Complete, Phases, LedgerOK
    <2>2. RunOK' /\ RecOK'
      BY <1>1, <1>23 DEF Complete
    <2> QED BY <1>23, <2>1, <2>2, <1>2, <1>6, <1>7, <1>8, <1>9, <1>10 DEF Complete
  <1>24. CASE EndStream
    <2>1. LedgerOK'
      <3>1. [kind |-> "seal", dispatches |-> Cardinality(seen)] \in Records
        BY <1>24, FS_CardinalityType DEF EndStream, Recording, Records
      <3> QED BY <1>1, <1>24, <3>1, AppendType DEF EndStream, Phases, LedgerOK
    <2>2. RunOK' /\ RecOK'
      BY <1>1, <1>24 DEF EndStream
    <2> QED BY <1>24, <2>1, <2>2, <1>2, <1>6, <1>7, <1>8, <1>9, <1>10 DEF EndStream
  <1>25. CASE RecorderFails
    <2>1. RunOK' /\ RecOK'
      BY <1>1, <1>25 DEF RecorderFails
    <2> QED BY <1>25, <2>1, <1>2, <1>5, <1>6, <1>7, <1>8, <1>9, <1>11 DEF RecorderFails
  <1>26. CASE ShortWrite
    <2>1. LedgerOK'
      BY <1>1, <1>26, AppendType DEF ShortWrite, Phases, LedgerOK, Records
    <2> QED BY <1>26, <2>1, <1>2, <1>3, <1>4, <1>6, <1>7, <1>8, <1>9, <1>11 DEF ShortWrite
  <1>27. CASE EndSession
    <2>1. TreeOK'
      <3>1. Answered \subseteq Ids
        BY DEF Answered
      <3> QED BY <1>1, <1>27, <3>1 DEF EndSession, TreeOK
    <2>2. RunOK'
      BY <1>1, <1>27 DEF EndSession
    <2> QED BY <1>27, <2>1, <2>2, <1>2, <1>4, <1>5, <1>6, <1>7, <1>9, <1>10 DEF EndSession
  <1>28. CASE GateCannotJudge
    <2>1. RunOK'
      BY <1>1, <1>28 DEF GateCannotJudge
    <2> QED BY <1>28, <2>1, <1>2, <1>4, <1>5, <1>6, <1>7, <1>8, <1>9, <1>10 DEF GateCannotJudge
  <1>29. CASE GateRead
    <2>1. GateOK'
      <3>1. gate' = [at |-> "missed", missed |-> {r \in opened \ {run} : verdict[r] = "none"},
                     lines |-> accepted.lines \cup {l \in NewLines : Holds(l)},
                     files |-> accepted.files \cup {d \in Owing : Signed(d)} \cup {r \in NewRecords : Witnessed(r)},
                     status |-> Outcome]
        BY <1>29 DEF GateRead
      <3>2. accepted.lines \subseteq Lines /\ accepted.files \subseteq Docs \cup Roles
        BY <1>1 DEF FilesOK, BaselineShape
      <3>3. NewLines \subseteq Lines /\ Owing \subseteq Docs /\ NewRecords \subseteq Roles
        BY <1>1 DEF TreeOK, NewLines, Owing, NewRecords
      <3>4. Outcome \in Statuses
        BY DEF Outcome, Statuses
      <3> QED BY <1>1, <3>1, <3>2, <3>3, <3>4 DEF GateOK, GateShape
    <2> QED BY <1>29, <2>1, <1>2, <1>3, <1>4, <1>5, <1>6, <1>7, <1>8, <1>10 DEF GateRead
  <1>30. ASSUME NEW r \in Runs, MarkMissed(r)
         PROVE  TypeOK'
    <2>1. GateOK' /\ VerdictOK'
      BY <1>1, <1>30 DEF MarkMissed, GateOK, GateShape, VerdictOK
    <2> QED BY <1>30, <2>1, <1>2, <1>3, <1>4, <1>5, <1>6, <1>8, <1>10 DEF MarkMissed
  <1>31. CASE SaveAccepted
    <2>1. GateOK' /\ gate.lines \subseteq Lines /\ gate.files \subseteq Docs \cup Roles
      BY <1>1, <1>31 DEF SaveAccepted, GateOK, GateShape
    <2>2. FilesOK'
      BY <1>1, <1>31, <2>1 DEF SaveAccepted, FilesOK, BaselineShape, Baseline
    <2> QED BY <1>31, <2>1, <2>2, <1>2, <1>3, <1>4, <1>5, <1>7, <1>8, <1>10 DEF SaveAccepted
  <1>32. CASE WriteVerdict
    <2>1. GateOK' /\ gate.status \in Statuses
      BY <1>1, <1>32 DEF WriteVerdict, GateOK, GateShape, Phases
    <2>2. VerdictOK'
      BY <1>1, <1>32, <2>1 DEF WriteVerdict, VerdictOK
    <2> QED BY <1>32, <2>1, <2>2, <1>2, <1>3, <1>4, <1>5, <1>6, <1>8, <1>10 DEF WriteVerdict
  <1>33. Idle \in GateShape
    BY DEF Idle, GateShape
  <1>34. CASE ReportVerdict
    <2>1. GateOK' /\ RunOK'
      BY <1>1, <1>33, <1>34 DEF ReportVerdict, GateOK
    <2>2. VerdictOK'
      BY <1>1, <1>34 DEF ReportVerdict, VerdictOK, Phases
    <2> QED BY <1>34, <2>1, <2>2, <1>2, <1>4, <1>5, <1>6, <1>8, <1>10 DEF ReportVerdict
  <1>35. CASE GateDies \/ KillRunner
    <2>1. GateOK' /\ RunOK'
      BY <1>1, <1>33, <1>35 DEF GateDies, KillRunner, GateOK
    <2>2. RecOK'
      BY <1>1, <1>4, <1>35 DEF GateDies, KillRunner
    <2> QED BY <1>35, <2>1, <2>2, <1>2, <1>5, <1>6, <1>7, <1>8, <1>11 DEF GateDies, KillRunner
  <1>36. CASE PreflightOK
    <2>1. RunOK'
      BY <1>1, <1>36 DEF PreflightOK
    <2> QED BY <1>36, <2>1, <1>2, <1>4, <1>5, <1>6, <1>7, <1>8, <1>9, <1>10 DEF PreflightOK
  <1>37. CASE InitKey
    <2>1. FilesOK'
      <3>1. key' \in BOOLEAN /\ initing' \in BOOLEAN
        BY <1>37 DEF InitKey
      <3> QED BY <1>1, <1>37, <3>1 DEF InitKey, FilesOK
    <2> QED BY <1>37, <2>1, <1>2, <1>3, <1>4, <1>5, <1>7, <1>8, <1>9, <1>10 DEF InitKey
  <1>38. CASE InitDies
    <2>1. FilesOK'
      <3>1. initing' \in BOOLEAN
        BY <1>38 DEF InitDies
      <3> QED BY <1>1, <1>38, <3>1 DEF InitDies, FilesOK
    <2> QED BY <1>38, <2>1, <1>2, <1>3, <1>4, <1>5, <1>7, <1>8, <1>9, <1>11 DEF InitDies
  <1>39. CASE InitBaseline \/ Rebaseline
    <2>1. CurrentLines \subseteq Lines /\ CurrentFiles \subseteq Docs \cup Roles
      BY <1>1 DEF TreeOK, CurrentLines, CurrentFiles
    <2>2. Baseline(CurrentLines, CurrentFiles) \in BaselineShape
      BY <2>1 DEF Baseline, BaselineShape
    <2>3. Rebased \in [lines : SUBSET Lines, files : SUBSET (Docs \cup Roles)]
      BY <1>1, <2>1 DEF FilesOK, Rebased
    <2>4. initing' \in BOOLEAN
      BY <1>1, <1>39 DEF InitBaseline, Rebaseline, FilesOK
    <2>5. FilesOK'
      BY <1>1, <1>39, <2>2, <2>3, <2>4 DEF InitBaseline, Rebaseline, FilesOK
    <2>6. UpsetsOK'
      BY <1>10, <1>11, <1>39 DEF InitBaseline, Rebaseline
    <2> QED BY <1>39, <2>5, <2>6, <1>2, <1>3, <1>4, <1>5, <1>7, <1>8, <1>9 DEF InitBaseline, Rebaseline
  <1>40. CASE UNCHANGED vars
    BY <1>40, <1>2, <1>3, <1>4, <1>5, <1>6, <1>7, <1>8, <1>9, <1>10 DEF vars
  <1> QED BY <1>20, <1>21, <1>22, <1>23, <1>24, <1>25, <1>26, <1>27, <1>28, <1>29, <1>30, <1>31, <1>32,
             <1>34, <1>35, <1>36, <1>37, <1>38, <1>39, <1>40 DEF Next, Record, Gate, Operate

LEMMA PhasesStep == TypeOK /\ Phases /\ [Next]_vars => Phases'
  <1> SUFFICES ASSUME TypeOK, Phases, [Next]_vars
               PROVE  Phases'
    OBVIOUS
  <1>1. UNCHANGED <<phase, run, opened, ledger, gate, recorder, initing>> => Phases'
    BY DEF Phases, Sealed
  <1>2. gate.at \in {"off", "missed", "accepted", "judged"} /\ recorder \in {"off", "created", "on"}
    BY DEF TypeOK
  <1>3. CASE StartSession
    BY <1>3 DEF StartSession, Phases
  <1>4. CASE \/ OpenLedger \/ EndStream \/ ShortWrite
             \/ \E id \in Ids : \E in \in DispatchInputs[id] : Dispatch(id, in)
             \/ \E id \in Ids : \E out \in ResultInputs[id] : Complete(id, out)
    <2>1. phase = "session" /\ phase' = phase /\ UNCHANGED <<run, opened, gate, initing>>
          /\ recorder' \in {"off", "on"} /\ recorder # "off"
      BY <1>4 DEF OpenLedger, EndStream, ShortWrite, Dispatch, Complete, recording
    <2> QED BY <2>1 DEF Phases
  <1>5. CASE RecorderFails
    BY <1>5 DEF RecorderFails, Phases, evidence
  <1>6. CASE EndSession
    BY <1>6 DEF EndSession, Phases, evidence, recording
  <1>7. CASE GateRead
    <2>1. Outcome \in Statuses
      BY DEF Outcome, Statuses
    <2>2. /\ phase = "gate" /\ run \in opened /\ Sealed(run) /\ gate'.status = Outcome
          /\ UNCHANGED <<phase, run, opened, ledger, recorder, initing>>
      BY <1>7 DEF GateRead, recording, evidence
    <2> QED BY <2>1, <2>2 DEF Phases, Sealed
  <1>8. CASE SaveAccepted \/ WriteVerdict \/ \E r \in Runs : MarkMissed(r)
    <2>1. /\ gate.at # "off" /\ gate'.status = gate.status
          /\ UNCHANGED <<phase, run, opened, ledger, recorder, initing>>
      BY <1>8 DEF SaveAccepted, WriteVerdict, MarkMissed, recording, TypeOK
    <2> QED BY <2>1 DEF Phases, Sealed
  <1>9. CASE GateCannotJudge \/ ReportVerdict \/ GateDies \/ KillRunner
    <2>1. gate'.at = "off" /\ recorder' = "off" /\ initing' = initing /\ (phase' = "down" \/ phase # "down")
      BY <1>2, <1>9 DEF GateCannotJudge, ReportVerdict, GateDies, KillRunner, Idle, recording, evidence, Phases
    <2> QED BY <2>1 DEF Phases
  <1>10. CASE PreflightOK \/ InitKey
    BY <1>10 DEF PreflightOK, InitKey, Phases, recording, evidence
  <1>11. CASE InitBaseline \/ InitDies \/ Rebaseline
    BY <1>11 DEF InitBaseline, InitDies, Rebaseline, Phases, recording, Sealed
  <1>12. CASE UNCHANGED vars
    BY <1>1, <1>12 DEF vars, recording, evidence
  <1> QED BY <1>3, <1>4, <1>5, <1>6, <1>7, <1>8, <1>9, <1>10, <1>11, <1>12 DEF Next, Record, Gate, Operate

-----------------------------------------------------------------------------
(* The evidence only grows. *)

Grows ==
    /\ opened \subseteq opened' /\ opened' \subseteq Runs
    /\ \A r \in Runs : \A i \in DOMAIN ledger[r] : i \in DOMAIN ledger'[r] /\ ledger'[r][i] = ledger[r][i]

LEMMA EvidenceGrows ==
  ASSUME TypeOK, TypeOK', Phases, [Next]_vars
  PROVE  Grows
  <1>1. opened' \subseteq Runs
    <2>1. opened' \subseteq 1 .. run' /\ run' \in 0 .. NRuns /\ NRuns \in Nat
      BY GateAssumption DEF TypeOK
    <2> QED BY <2>1 DEF Runs
  <1>2. UNCHANGED <<opened, ledger>> => Grows
    BY <1>1 DEF Grows
  <1>3. ASSUME NEW rec, AppendRecord(rec), run \in Runs, UNCHANGED opened
        PROVE  Grows
    BY <1>1, <1>3, Appended DEF Grows
  <1>4. recorder # "off" => run \in Runs
    BY RunFacts DEF Phases
  <1>5. CASE StartSession
    BY <1>1, <1>5 DEF StartSession, Grows
  <1>6. CASE OpenLedger \/ EndStream \/ ShortWrite
    BY <1>3, <1>4, <1>6 DEF OpenLedger, EndStream, ShortWrite
  <1>7. ASSUME NEW id \in Ids, NEW in \in DispatchInputs[id], Dispatch(id, in)
        PROVE  Grows
    BY <1>3, <1>4, <1>7 DEF Dispatch
  <1>8. ASSUME NEW id \in Ids, NEW out \in ResultInputs[id], Complete(id, out)
        PROVE  Grows
    BY <1>3, <1>4, <1>8 DEF Complete
  <1>9. CASE RecorderFails \/ EndSession \/ Gate \/ Operate \/ UNCHANGED vars
    BY <1>2, <1>9 DEF RecorderFails, EndSession, Gate, Operate, GateCannotJudge, GateRead, SaveAccepted,
           WriteVerdict, ReportVerdict, GateDies, MarkMissed, PreflightOK, InitKey, InitBaseline, InitDies,
           Rebaseline, KillRunner, vars, evidence
  <1> QED BY <1>5, <1>6, <1>7, <1>8, <1>9 DEF Next, Record

(* What a token, a line or a role has to show for itself stays there. *)
LEMMA BackingGrows ==
  ASSUME TypeOK, Grows
  PROVE  /\ \A role : Answers(role) \subseteq Answers(role)'
         /\ \A t : Backed(t) => Backed(t)'
         /\ \A l : Genuine(l) => Genuine(l)'
  <1>0. opened \subseteq Runs
    BY RunFacts
  <1>1. ASSUME NEW role, NEW a \in Answers(role)
        PROVE  /\ a \in Answers(role)'
               /\ ReceiptOf(a)' = ReceiptOf(a)
               /\ \A d, v : Says(a, d, v) => Says(a, d, v)'
               /\ ledger'[a[1]][a[2]].dictated = ledger[a[1]][a[2]].dictated
    <2>1. /\ a[1] \in opened /\ a[2] \in DOMAIN ledger[a[1]] /\ a[3] \in DOMAIN ledger[a[1]]
          /\ a = <<a[1], a[2], a[3]>>
          /\ SameDispatch(a[1], a[2], a[3]) /\ ledger[a[1]][a[2]].role = role
          /\ ~ ledger[a[1]][a[2]].nested /\ ~ ledger[a[1]][a[3]].isError
      BY DEF Answers
    <2>2. /\ a[1] \in opened' /\ a[2] \in DOMAIN ledger'[a[1]] /\ a[3] \in DOMAIN ledger'[a[1]]
          /\ ledger'[a[1]][a[2]] = ledger[a[1]][a[2]] /\ ledger'[a[1]][a[3]] = ledger[a[1]][a[3]]
      BY <1>0, <2>1 DEF Grows
    <2>3. SameDispatch(a[1], a[2], a[3])'
      BY <2>1, <2>2 DEF SameDispatch
    <2>4. a \in Answers(role)'
      <3>1. a \in UNION {{r} \X (DOMAIN ledger'[r]) \X (DOMAIN ledger'[r]) : r \in opened'}
        BY <2>1, <2>2
      <3> QED BY <2>1, <2>2, <2>3, <3>1 DEF Answers
    <2> QED BY <2>2, <2>4 DEF ReceiptOf, Says
  <1>2. ASSUME NEW t, Backed(t)
        PROVE  Backed(t)'
    <2>1. CASE t.role = "director"
      BY <1>2, <2>1 DEF Backed, Grows
    <2>2. CASE t.role # "director"
      <3>1. PICK a \in Answers(t.role) : /\ a[1] = t.run /\ ReceiptOf(a) = t.receipt
                                         /\ Says(a, t.target, t.verdict)
                                         /\ <<t.target, t.verdict>> \notin ledger[a[1]][a[2]].dictated
        BY <1>2, <2>2 DEF Backed
      <3>2. /\ a \in Answers(t.role)' /\ ReceiptOf(a)' = t.receipt /\ Says(a, t.target, t.verdict)'
            /\ <<t.target, t.verdict>> \notin ledger'[a[1]][a[2]].dictated
        BY <1>1, <3>1
      <3> QED BY <2>2, <3>1, <3>2 DEF Backed
    <2> QED BY <2>1, <2>2
  <1>3. ASSUME NEW l, Genuine(l)
        PROVE  Genuine(l)'
    BY <1>2, <1>3 DEF Genuine
  <1> QED BY <1>1, <1>2, <1>3

-----------------------------------------------------------------------------
(* What is accepted is backed. *)

LEMMA StaysBacked ==
  ASSUME TypeOK, Grows, based.lines \subseteq based'.lines, based.files \subseteq based'.files,
         NEW ls, NEW fs, Backing(ls, fs)
  PROVE  Backing(ls, fs)'
  <1>1. \A l \in ls \ based'.lines : Genuine(l)'
    BY BackingGrows DEF Backing
  <1>2. ASSUME NEW d \in (fs \cap Docs) \ based'.files, NEW r \in Required[d]
        PROVE  \E l \in Lines : \E t \in l.tokens : Approves(t, l, r, d)'
    <2>1. d \in (fs \cap Docs) \ based.files
      BY <1>2
    <2>2. PICK l \in Lines : \E t \in l.tokens : Approves(t, l, r, d)
      BY <2>1 DEF Backing
    <2>3. PICK t \in l.tokens : Approves(t, l, r, d)
      BY <2>2
    <2>4. Approves(t, l, r, d)'
      BY <2>3, BackingGrows DEF Approves
    <2> QED BY <2>4
  <1>3. \A r \in (fs \cap Roles) \ based'.files : Answers(r)' # {}
    <2> SUFFICES ASSUME NEW r \in (fs \cap Roles) \ based'.files
                 PROVE  Answers(r)' # {}
      OBVIOUS
    <2>1. Answers(r) # {} /\ Answers(r) \subseteq Answers(r)'
      BY BackingGrows DEF Backing
    <2> QED BY <2>1
  <1> QED BY <1>1, <1>2, <1>3 DEF Backing

(* A baseline that an operator takes is the ghost's, so that it is backed as it is. *)
LEMMA BaselineBacked ==
  ASSUME NEW ls, NEW fs, ls \subseteq based.lines, fs \subseteq based.files
  PROVE  Backing(ls, fs)
  BY DEF Backing

(* What the gate reads adds only what it verified. *)
LEMMA ReadBacked ==
  ASSUME TypeOK, Backing(accepted.lines, accepted.files),
         NEW ls, ls = accepted.lines \cup {l \in NewLines : Holds(l)},
         NEW fs, fs = accepted.files \cup {d \in Owing : Signed(d)} \cup {r \in NewRecords : Witnessed(r)}
  PROVE  Backing(ls, fs)
  <1>1. Owing \subseteq Docs /\ NewRecords \subseteq Roles /\ NewLines \subseteq Lines /\ lines \subseteq Lines
        /\ Docs \cap Roles = {}
    BY GateAssumption DEF TypeOK, Owing, NewRecords, NewLines
  <1>2. ASSUME NEW l \in ls \ based.lines
        PROVE  Genuine(l)
    BY <1>2 DEF Backing, Holds, Genuine, Verifies
  <1>3. ASSUME NEW d \in (fs \cap Docs) \ based.files, NEW r \in Required[d]
        PROVE  \E l \in Lines : \E t \in l.tokens : Approves(t, l, r, d)
    <2>1. CASE d \in accepted.files
      BY <1>3, <2>1 DEF Backing
    <2>2. CASE d \notin accepted.files
      <3>1. d \in Owing /\ Signed(d)
        BY <1>1, <1>3, <2>2
      <3>2. PICK t \in GoodTokens(d) : t.role = r /\ t.target = d /\ t.verdict = "APPROVE"
        BY <1>3, <3>1 DEF Signed
      <3>3. CASE Verifies(t)
        <4>1. PICK l \in lines : t \in l.tokens
          BY <3>2 DEF GoodTokens
        <4> QED BY <1>1, <3>2, <3>3, <4>1 DEF Verifies, Approves
      <3>4. CASE ~ Verifies(t)
        <4>1. PICK l \in lines \cap accepted.lines : t \in l.tokens
          BY <3>2, <3>4 DEF GoodTokens
        <4>2. l \in based.lines \/ Backed(t)
          BY <4>1 DEF Backing, Genuine
        <4> QED BY <1>1, <3>2, <4>1, <4>2 DEF Approves
      <3> QED BY <3>3, <3>4
    <2> QED BY <2>1, <2>2
  <1>4. ASSUME NEW r \in (fs \cap Roles) \ based.files
        PROVE  Answers(r) # {}
    BY <1>1, <1>4 DEF Backing, Witnessed
  <1> QED BY <1>2, <1>3, <1>4 DEF Backing

LEMMA BackedInit == Init => BackedInv
  <1> SUFFICES ASSUME Init
               PROVE  BackedInv
    OBVIOUS
  <1>1. accepted.lines = {} /\ accepted.files = {} /\ gate.at = "off"
    BY DEF Init, NoBaseline, Idle
  <1> QED BY <1>1, BaselineBacked DEF BackedInv

LEMMA BackedStep == TypeOK /\ TypeOK' /\ Phases /\ BackedInv /\ [Next]_vars => BackedInv'
  <1> SUFFICES ASSUME TypeOK, TypeOK', Phases, BackedInv, [Next]_vars
               PROVE  BackedInv'
    OBVIOUS
  <1>0. Grows
    BY EvidenceGrows
  <1>1. ASSUME UNCHANGED <<accepted, based>>, gate' = gate \/ gate'.at # "missed"
        PROVE  BackedInv'
    <2>1. Backing(accepted.lines, accepted.files)'
      BY <1>0, <1>1, StaysBacked DEF BackedInv
    <2>2. gate.at = "missed" /\ gate' = gate => Backing(gate.lines, gate.files)'
      BY <1>0, <1>1, StaysBacked DEF BackedInv
    <2> QED BY <1>1, <2>1, <2>2 DEF BackedInv
  <1>2. CASE Record
    BY <1>1, <1>2 DEF Record, StartSession, OpenLedger, EndStream, EndSession, RecorderFails, ShortWrite,
           Dispatch, Complete, evidence
  <1>3. CASE GateCannotJudge \/ ReportVerdict \/ GateDies \/ KillRunner
    BY <1>1, <1>3 DEF GateCannotJudge, ReportVerdict, GateDies, KillRunner, Idle, evidence
  <1>4. CASE WriteVerdict
    BY <1>1, <1>4 DEF WriteVerdict, TypeOK
  <1>5. CASE PreflightOK \/ InitKey \/ InitDies
    BY <1>1, <1>5 DEF PreflightOK, InitKey, InitDies, evidence
  <1>6. CASE GateRead
    <2> DEFINE ls == accepted.lines \cup {l \in NewLines : Holds(l)}
               fs == accepted.files \cup {d \in Owing : Signed(d)} \cup {r \in NewRecords : Witnessed(r)}
    <2>1. gate'.lines = ls /\ gate'.files = fs /\ UNCHANGED <<accepted, based>>
      BY <1>6 DEF GateRead, evidence
    <2>2. Backing(ls, fs)
      BY ReadBacked DEF BackedInv
    <2> HIDE DEF ls, fs
    <2>3. Backing(gate.lines, gate.files)'
      BY <1>0, <2>1, <2>2, StaysBacked
    <2>4. Backing(accepted.lines, accepted.files)'
      BY <1>0, <2>1, StaysBacked DEF BackedInv
    <2> QED BY <2>3, <2>4 DEF BackedInv
  <1>7. ASSUME NEW r \in Runs, MarkMissed(r)
        PROVE  BackedInv'
    <2>1. /\ gate.at = "missed" /\ UNCHANGED <<accepted, based>>
          /\ gate'.lines = gate.lines /\ gate'.files = gate.files
      BY <1>7 DEF MarkMissed, TypeOK
    <2>2. Backing(gate.lines, gate.files)'
      BY <1>0, <2>1, StaysBacked DEF BackedInv
    <2>3. Backing(accepted.lines, accepted.files)'
      BY <1>0, <2>1, StaysBacked DEF BackedInv
    <2> QED BY <2>2, <2>3 DEF BackedInv
  <1>8. CASE SaveAccepted
    <2>1. /\ gate.at = "missed" /\ based' = based /\ gate'.at = "accepted"
          /\ accepted'.lines = gate.lines /\ accepted'.files = gate.files
      BY <1>8 DEF SaveAccepted, Baseline, TypeOK
    <2>2. Backing(accepted.lines, accepted.files)'
      BY <1>0, <2>1, StaysBacked DEF BackedInv
    <2> QED BY <2>1, <2>2 DEF BackedInv
  <1>9. CASE InitBaseline \/ Rebaseline
    <2>1. /\ gate' = gate /\ accepted' = Baseline(CurrentLines, CurrentFiles) /\ based' = Rebased
      BY <1>9 DEF InitBaseline, Rebaseline
    <2>2. /\ accepted'.lines \subseteq based'.lines /\ accepted'.files \subseteq based'.files
          /\ based.lines \subseteq based'.lines /\ based.files \subseteq based'.files
      BY <2>1 DEF Baseline, Rebased
    <2>3. Backing(accepted.lines, accepted.files)'
      BY <2>2 DEF Backing
    <2>4. gate.at = "missed" => Backing(gate.lines, gate.files)'
      BY <1>0, <2>1, <2>2, StaysBacked DEF BackedInv
    <2> QED BY <2>1, <2>3, <2>4 DEF BackedInv
  <1>10. CASE UNCHANGED vars
    BY <1>1, <1>10 DEF vars, evidence
  <1> QED BY <1>2, <1>3, <1>4, <1>5, <1>6, <1>7, <1>8, <1>9, <1>10 DEF Next, Gate, Operate

-----------------------------------------------------------------------------
(* A pass is complete. *)

LEMMA JudgingStep == TypeOK /\ TypeOK' /\ Phases /\ Phases' /\ Judging /\ [Next]_vars => Judging'
  <1> SUFFICES ASSUME TypeOK, TypeOK', Phases, Phases', Judging, [Next]_vars
               PROVE  Judging'
    OBVIOUS
  <1>1. ASSUME gate'.at = "off"
        PROVE  Judging'
    BY <1>1 DEF Judging
  <1>2. ASSUME UNCHANGED <<opened, run, verdict, gate, tree, accepted>>
        PROVE  Judging'
    BY <1>2 DEF Judging, Covers, tree
  <1>3. CASE Record
    <2>1. phase' # "gate" \/ gate.at = "off"
      BY <1>3 DEF Record, StartSession, OpenLedger, EndStream, EndSession, RecorderFails, ShortWrite,
             Dispatch, Complete, Phases
    <2>2. gate' = gate
      BY <1>3 DEF Record, StartSession, OpenLedger, EndStream, EndSession, RecorderFails, ShortWrite,
             Dispatch, Complete
    <2> QED BY <1>1, <2>1, <2>2 DEF Phases
  <1>4. CASE GateCannotJudge \/ ReportVerdict \/ GateDies \/ KillRunner
    BY <1>1, <1>4 DEF GateCannotJudge, ReportVerdict, GateDies, KillRunner, Idle
  <1>5. CASE GateRead
    <2>1. /\ gate'.at = "missed" /\ gate'.missed = {r \in opened \ {run} : verdict[r] = "none"}
          /\ gate'.lines = accepted.lines \cup {l \in NewLines : Holds(l)}
          /\ gate'.files = accepted.files \cup {d \in Owing : Signed(d)} \cup {r \in NewRecords : Witnessed(r)}
          /\ gate'.status = Outcome /\ UNCHANGED <<opened, run, verdict, lines, docs, drafts, filed>>
      BY <1>5 DEF GateRead, evidence, tree
    <2>2. Outcome # "FORGERY" => /\ \A l \in NewLines : Holds(l)
                                 /\ \A d \in Owing : Signed(d)
                                 /\ \A r \in NewRecords : Witnessed(r)
      BY DEF Outcome, Violated
    <2>3. Outcome # "FORGERY" => Covers(gate.lines, gate.files)'
      BY <2>1, <2>2 DEF Covers, NewLines, Owing, NewRecords
    <2> QED BY <2>1, <2>3 DEF Judging
  <1>6. ASSUME NEW r \in Runs, MarkMissed(r)
        PROVE  Judging'
    <2>1. /\ gate.at = "missed" /\ gate'.at = "missed" /\ gate'.missed = gate.missed \ {r}
          /\ gate'.lines = gate.lines /\ gate'.files = gate.files /\ gate'.status = gate.status
          /\ verdict' = [verdict EXCEPT ![r] = "NEVER_GATED"] /\ UNCHANGED <<opened, run, tree>>
      BY <1>6 DEF MarkMissed, TypeOK
    <2>2. ASSUME NEW q \in opened \ {run}, verdict'[q] = "none"
          PROVE  q \in gate'.missed
      <3>1. q \in Runs
        BY RunFacts
      <3>2. q # r
        BY <2>1, <2>2, <3>1 DEF TypeOK
      <3>3. verdict[q] = "none"
        BY <2>1, <2>2, <3>1, <3>2 DEF TypeOK
      <3> QED BY <2>1, <3>2, <3>3 DEF Judging
    <2> QED BY <2>1, <2>2 DEF Judging, Covers, tree
  <1>7. CASE SaveAccepted
    <2>1. /\ gate.at = "missed" /\ gate.missed = {} /\ gate'.at = "accepted" /\ gate'.status = gate.status
          /\ accepted'.lines = gate.lines /\ accepted'.files = gate.files
          /\ UNCHANGED <<opened, run, verdict, tree>>
      BY <1>7 DEF SaveAccepted, Baseline, TypeOK
    <2> QED BY <2>1 DEF Judging, Covers, tree
  <1>8. CASE WriteVerdict
    <2>1. /\ gate.at = "accepted" /\ gate'.at = "judged" /\ gate'.status = gate.status
          /\ verdict' = [verdict EXCEPT ![run] = gate.status] /\ run \in Runs
          /\ UNCHANGED <<opened, run, accepted, tree>>
      BY <1>8, RunFacts DEF WriteVerdict, TypeOK, Phases
    <2>2. verdict'[run] = gate.status /\ \A q \in opened \ {run} : verdict'[q] = verdict[q]
      BY <2>1 DEF TypeOK
    <2> QED BY <2>1, <2>2 DEF Judging, Covers, tree
  <1>9. CASE PreflightOK \/ InitKey \/ InitDies
    BY <1>2, <1>9 DEF PreflightOK, InitKey, InitDies, evidence
  <1>10. CASE InitBaseline
    BY <1>1, <1>10 DEF InitBaseline, Phases, TypeOK
  <1>11. CASE Rebaseline
    <2>1. /\ accepted'.lines = lines /\ accepted'.files = docs \cup filed
          /\ UNCHANGED <<opened, run, verdict, gate, tree>>
      BY <1>11 DEF Rebaseline, Baseline, CurrentLines, CurrentFiles
    <2>2. Covers(accepted.lines, accepted.files)'
      BY <2>1 DEF Covers, tree
    <2> QED BY <2>1, <2>2 DEF Judging, Covers, tree
  <1>12. CASE UNCHANGED vars
    BY <1>2, <1>12 DEF vars, evidence
  <1> QED BY <1>3, <1>4, <1>5, <1>6, <1>7, <1>8, <1>9, <1>10, <1>11, <1>12 DEF Next, Gate, Operate

LEMMA PassStep ==
  TypeOK /\ Phases /\ Judging /\ [Next]_vars =>
    [\A r \in passed' \ passed :
         /\ Sealed(r) /\ verdict[r] \in {"VERIFIED", "EMPTY"}
         /\ \A q \in opened : verdict[q] # "none"
         /\ lines \subseteq accepted.lines /\ filed \subseteq accepted.files
         /\ {d \in docs \ drafts : Required[d] # {}} \subseteq accepted.files]_vars
  <1> SUFFICES ASSUME TypeOK, Phases, Judging, Next, NEW r \in passed' \ passed
               PROVE  /\ Sealed(r) /\ verdict[r] \in {"VERIFIED", "EMPTY"}
                      /\ \A q \in opened : verdict[q] # "none"
                      /\ lines \subseteq accepted.lines /\ filed \subseteq accepted.files
                      /\ {d \in docs \ drafts : Required[d] # {}} \subseteq accepted.files
    OBVIOUS
  <1>1. ReportVerdict
    BY DEF Next, Record, Gate, Operate, StartSession, OpenLedger, EndStream, EndSession, RecorderFails,
           ShortWrite, Dispatch, Complete, GateCannotJudge, GateRead, SaveAccepted, WriteVerdict, GateDies,
           MarkMissed, PreflightOK, InitKey, InitBaseline, InitDies, Rebaseline, KillRunner
  <1>2. /\ gate.at = "judged" /\ r = run /\ gate.status # "FORGERY"
        /\ Sealed(run) /\ gate.status \in Statuses
    BY <1>1 DEF ReportVerdict, Phases
  <1>3. verdict[run] \in {"VERIFIED", "EMPTY"}
    BY <1>2 DEF Judging, Statuses
  <1>4. \A q \in opened : verdict[q] # "none"
    BY <1>2, <1>3 DEF Judging
  <1>5. Covers(accepted.lines, accepted.files)
    BY <1>2 DEF Judging
  <1> QED BY <1>2, <1>3, <1>4, <1>5 DEF Covers

-----------------------------------------------------------------------------
(* The reader accepts what the recorder writes. *)

(* The three parts of InOrder. *)
Distinct(r) == \A i, j \in Dispatched(r) : ledger[r][i].receipt = ledger[r][j].receipt => i = j
Following(r) ==
    \A j \in DOMAIN ledger[r] : ledger[r][j].kind = "complete" =>
        /\ \E i \in DOMAIN ledger[r] : SameDispatch(r, i, j)
        /\ \A k \in 1 .. j - 1 : ledger[r][k].kind = "complete" =>
                                 ledger[r][k].receipt # ledger[r][j].receipt
SealLast(r) ==
    \A i \in DOMAIN ledger[r] : ledger[r][i].kind = "seal" =>
        i = Len(ledger[r]) /\ ledger[r][i].dispatches = Cardinality(Dispatched(r))

LEMMA OrderParts == \A r : InOrder(r) <=> Distinct(r) /\ Following(r) /\ SealLast(r)
  BY DEF InOrder, Distinct, Following, SealLast

(* Nothing that is said of a ledger changes with the others. *)
LEMMA SameLedger ==
  ASSUME NEW r, ledger'[r] = ledger[r]
  PROVE  /\ Dispatched(r)' = Dispatched(r) /\ InOrder(r)' = InOrder(r) /\ Receipts(r)' = Receipts(r)
         /\ \A id : Completed(r, id)' = Completed(r, id)
  BY DEF Dispatched, InOrder, Receipts, Completed, SameDispatch

(* What an appended record adds. *)
LEMMA AppendedRecord ==
  ASSUME TypeOK, run \in Runs, run' = run, NEW rec, AppendRecord(rec), NEW n, n = Len(ledger[run]) + 1
  PROVE  /\ Dispatched(run)' = IF rec.kind = "dispatch" THEN Dispatched(run) \cup {n} ELSE Dispatched(run)
         /\ n \notin DOMAIN ledger[run]
         /\ Receipts(run)' = IF rec.kind = "dispatch" THEN Receipts(run) \cup {rec.receipt} ELSE Receipts(run)
         /\ \A id : Completed(run, id)' <=> \/ Completed(run, id)
                                            \/ rec.kind = "complete" /\ rec.receipt = id
         /\ Sealed(run)' <=> Sealed(run) \/ rec.kind = "seal"
  <1>1. /\ n \in Nat \ {0} /\ DOMAIN ledger[run] = 1 .. n - 1 /\ DOMAIN ledger'[run] = 1 .. n
        /\ ledger'[run][n] = rec /\ \A i \in DOMAIN ledger[run] : ledger'[run][i] = ledger[run][i]
        /\ Len(ledger'[run]) = n
    BY Appended
  <1>2. DOMAIN ledger'[run] = DOMAIN ledger[run] \cup {n} /\ n \notin DOMAIN ledger[run]
    BY <1>1
  <1>3. Dispatched(run)' = IF rec.kind = "dispatch" THEN Dispatched(run) \cup {n} ELSE Dispatched(run)
    BY <1>1, <1>2 DEF Dispatched
  <1>4. Receipts(run)' = IF rec.kind = "dispatch" THEN Receipts(run) \cup {rec.receipt} ELSE Receipts(run)
    BY <1>1, <1>2, <1>3 DEF Receipts, Dispatched
  <1>5. \A id : Completed(run, id)' <=> Completed(run, id) \/ (rec.kind = "complete" /\ rec.receipt = id)
    BY <1>1, <1>2 DEF Completed
  <1>6. Sealed(run)' <=> Sealed(run) \/ rec.kind = "seal"
    BY <1>1, <1>2 DEF Sealed
  <1> QED BY <1>2, <1>3, <1>4, <1>5, <1>6

(* A record that fits behind the others leaves the ledger in order. *)
LEMMA OrderKept ==
  ASSUME TypeOK, run \in Runs, run' = run, InOrder(run), ~ Sealed(run), NEW rec, AppendRecord(rec),
         rec.kind = "dispatch" => rec.receipt \notin Receipts(run),
         rec.kind = "complete" => rec.receipt \in Receipts(run) /\ ~ Completed(run, rec.receipt),
         rec.kind = "seal" => rec.dispatches = Cardinality(Dispatched(run))
  PROVE  InOrder(run)'
  <1> DEFINE n == Len(ledger[run]) + 1
  <1>1. /\ n \in Nat \ {0} /\ DOMAIN ledger[run] = 1 .. n - 1 /\ DOMAIN ledger'[run] = 1 .. n
        /\ ledger'[run][n] = rec /\ \A i \in DOMAIN ledger[run] : ledger'[run][i] = ledger[run][i]
        /\ Len(ledger'[run]) = n
    BY Appended
  <1>2. /\ Dispatched(run)' = IF rec.kind = "dispatch" THEN Dispatched(run) \cup {n} ELSE Dispatched(run)
        /\ n \notin DOMAIN ledger[run]
    BY AppendedRecord
  <1> HIDE DEF n
  <1>3. Dispatched(run) \subseteq DOMAIN ledger[run]
    BY DEF Dispatched
  <1>4. Distinct(run)'
    <2>1. \A i \in Dispatched(run) : ledger'[run][i] = ledger[run][i] /\ i \in DOMAIN ledger[run]
      BY <1>1, <1>3
    <2>2. \A i, j \in Dispatched(run) : ledger'[run][i].receipt = ledger'[run][j].receipt => i = j
      BY <2>1, OrderParts DEF Distinct
    <2>3. rec.kind = "dispatch" => \A i \in Dispatched(run) : ledger'[run][i].receipt # rec.receipt
      BY <2>1 DEF Receipts
    <2> QED BY <1>1, <1>2, <2>2, <2>3 DEF Distinct
  <1>5. Following(run)'
    <2> SUFFICES ASSUME NEW j \in DOMAIN ledger'[run], ledger'[run][j].kind = "complete"
                 PROVE  /\ \E i \in DOMAIN ledger'[run] : SameDispatch(run, i, j)'
                        /\ \A k \in 1 .. j - 1 : ledger'[run][k].kind = "complete" =>
                                                 ledger'[run][k].receipt # ledger'[run][j].receipt
      BY DEF Following
    <2>1. CASE j \in DOMAIN ledger[run]
      <3>1. ledger[run][j].kind = "complete" /\ ledger'[run][j] = ledger[run][j]
        BY <1>1, <2>1
      <3>2. PICK i \in DOMAIN ledger[run] : SameDispatch(run, i, j)
        BY <2>1, <3>1, OrderParts DEF Following
      <3>3. SameDispatch(run, i, j)' /\ i \in DOMAIN ledger'[run]
        BY <1>1, <3>1, <3>2 DEF SameDispatch
      <3>4. \A k \in 1 .. j - 1 : k \in DOMAIN ledger[run]
        BY <1>1, <2>1
      <3>5. \A k \in 1 .. j - 1 : ledger[run][k].kind = "complete" => ledger[run][k].receipt # ledger[run][j].receipt
        BY <2>1, <3>1, OrderParts DEF Following
      <3> QED BY <1>1, <3>1, <3>3, <3>4, <3>5
    <2>2. CASE j = n
      <3>1. rec.kind = "complete" /\ rec.receipt \in Receipts(run) /\ ~ Completed(run, rec.receipt)
        BY <1>1, <2>2
      <3>2. PICK i \in Dispatched(run) : ledger[run][i].receipt = rec.receipt
        BY <3>1 DEF Receipts
      <3>3. SameDispatch(run, i, j)' /\ i \in DOMAIN ledger'[run]
        BY <1>1, <1>3, <2>2, <3>1, <3>2 DEF SameDispatch, Dispatched
      <3>4. \A k \in 1 .. j - 1 : k \in DOMAIN ledger[run] /\ ledger'[run][k] = ledger[run][k]
        BY <1>1, <2>2
      <3> QED BY <1>1, <2>2, <3>1, <3>3, <3>4 DEF Completed
    <2> QED BY <1>1, <2>1, <2>2
  <1>6. SealLast(run)'
    <2> SUFFICES ASSUME NEW i \in DOMAIN ledger'[run], ledger'[run][i].kind = "seal"
                 PROVE  i = Len(ledger'[run]) /\ ledger'[run][i].dispatches = Cardinality(Dispatched(run)')
      BY DEF SealLast
    <2>1. i \notin DOMAIN ledger[run]
      BY <1>1 DEF Sealed
    <2> QED BY <1>1, <1>2, <2>1
  <1> QED BY <1>4, <1>5, <1>6, OrderParts DEF InOrder, Distinct, Following, SealLast

LEMMA RecordingInit == Init => Recording /\ Ledgers
  <1> SUFFICES ASSUME Init
               PROVE  Recording /\ Ledgers
    OBVIOUS
  <1>1. \A r \in Runs : ledger[r] = << >>
    BY DEF Init
  <1>2. recorder = "off"
    BY DEF Init
  <1>3. \A r \in Runs : Dispatched(r) = {} /\ InOrder(r)
    BY <1>1 DEF Dispatched, InOrder
  <1> QED BY <1>1, <1>2, <1>3 DEF Recording, Ledgers

LEMMA DispatchedFinite ==
  ASSUME TypeOK, NEW r \in Runs
  PROVE  IsFiniteSet(Dispatched(r))
  <1>1. Dispatched(r) \in SUBSET (1 .. Len(ledger[r])) /\ Len(ledger[r]) \in Nat
    BY DEF TypeOK, Dispatched
  <1>2. IsFiniteSet(1 .. Len(ledger[r]))
    <2>1. 1 \in Int /\ Len(ledger[r]) \in Int
      BY <1>1
    <2> QED BY <2>1, FS_Interval
  <1> QED BY <1>1, <1>2, FS_Subset

(* While the recorder is on, its fields and the ledger take every record together. *)
LEMMA RecordsTogether ==
  ASSUME TypeOK, TypeOK', Phases, Recording, Ledgers, [Next]_vars, recorder = "on" \/ OpenLedger,
         NEW rec, AppendRecord(rec), UNCHANGED <<run, opened>>,
         rec.kind = "dispatch" => /\ rec.receipt \in Ids /\ RunOf[rec.receipt] = run /\ rec.receipt \notin seen
                                  /\ seen' = seen \cup {rec.receipt} /\ pending' = pending \cup {rec.receipt}
                                  /\ recorder' = "on",
         rec.kind = "complete" => /\ rec.receipt \in pending /\ seen' = seen /\ recorder' = "on"
                                  /\ pending' = pending \ {rec.receipt},
         rec.kind = "seal" => recorder' = "off" /\ rec.dispatches = Cardinality(seen),
         rec.kind \in {"open", "torn"} => UNCHANGED <<seen, pending>> /\ recorder' = "on",
         rec.kind \in {"dispatch", "complete", "seal", "open", "torn"},
         OpenLedger => rec.kind = "open" /\ seen = {} /\ pending = {}
  PROVE  Recording' /\ Ledgers'
  <1> DEFINE n == Len(ledger[run]) + 1
  <1>1. run \in Runs /\ run \in opened /\ opened \subseteq Runs
    BY RunFacts DEF Phases, OpenLedger
  <1>2. /\ seen = Receipts(run) /\ pending = {id \in seen : ~ Completed(run, id)}
        /\ IsFiniteSet(seen) /\ Cardinality(seen) = Cardinality(Dispatched(run))
        /\ ~ Sealed(run) /\ InOrder(run)
    <2>1. CASE recorder = "on"
      BY <1>1, <2>1 DEF Recording, Ledgers
    <2>2. CASE OpenLedger
      <3>1. ledger[run] = << >> /\ seen = {} /\ pending = {}
        BY <2>2 DEF OpenLedger, Recording
      <3>2. Dispatched(run) = {} /\ Receipts(run) = {} /\ ~ Sealed(run)
        BY <3>1 DEF Dispatched, Receipts, Sealed
      <3> QED BY <1>1, <3>1, <3>2, FS_EmptySet DEF Ledgers
    <2> QED BY <2>1, <2>2
  <1>3. /\ Dispatched(run)' = IF rec.kind = "dispatch" THEN Dispatched(run) \cup {n} ELSE Dispatched(run)
        /\ n \notin DOMAIN ledger[run]
        /\ Receipts(run)' = IF rec.kind = "dispatch" THEN Receipts(run) \cup {rec.receipt} ELSE Receipts(run)
        /\ \A id : Completed(run, id)' <=> Completed(run, id) \/ (rec.kind = "complete" /\ rec.receipt = id)
        /\ Sealed(run)' <=> Sealed(run) \/ rec.kind = "seal"
    BY <1>1, AppendedRecord
  <1>4. InOrder(run)'
    BY <1>1, <1>2, OrderKept
  <1>5. \A i \in DOMAIN ledger[run] : ledger'[run][i] = ledger[run][i]
    BY <1>1, Appended
  <1>6. ledger'[run][n] = rec
    BY <1>1, Appended
  <1> HIDE DEF n
  <1>7. Ledgers'
    <2>1. \A r \in Runs \ {run} : ledger'[r] = ledger[r]
      BY <1>1, Appended
    <2>2. \A r \in Runs \ opened : ledger'[r] = << >>
      BY <1>1, <2>1 DEF Ledgers
    <2>3. \A r \in Runs : InOrder(r)'
      BY <1>4, <2>1, SameLedger DEF Ledgers
    <2>4. ASSUME NEW r \in Runs, NEW i \in Dispatched(r)'
          PROVE  RunOf[ledger'[r][i].receipt] = r
      <3>1. CASE r # run
        BY <2>1, <2>4, <3>1, SameLedger DEF Ledgers
      <3>2. CASE r = run /\ i \in Dispatched(run)
        BY <1>1, <1>5, <3>2 DEF Ledgers, Dispatched
      <3>3. CASE r = run /\ i \notin Dispatched(run)
        BY <1>3, <1>6, <2>4, <3>3
      <3> QED BY <3>1, <3>2, <3>3
    <2> QED BY <2>2, <2>3, <2>4 DEF Ledgers
  <1>8. ASSUME recorder' = "on"
        PROVE  /\ seen' = Receipts(run)' /\ pending' = {id \in seen' : ~ Completed(run, id)'}
               /\ IsFiniteSet(seen') /\ Cardinality(seen') = Cardinality(Dispatched(run)')
               /\ ~ Sealed(run)'
    <2>1. rec.kind # "seal"
      BY <1>8
    <2>2. CASE rec.kind = "dispatch"
      <3>1. ~ Completed(run, rec.receipt)
        BY <1>1, <1>2, <2>2 DEF Completed, Receipts, InOrder, Dispatched, SameDispatch
      <3>2. n \notin Dispatched(run) /\ IsFiniteSet(Dispatched(run))
        BY <1>1, <1>3, DispatchedFinite DEF Dispatched
      <3>3. /\ IsFiniteSet(seen') /\ Cardinality(seen') = Cardinality(seen) + 1
            /\ Cardinality(Dispatched(run)') = Cardinality(Dispatched(run)) + 1
        <4>1. seen' = seen \cup {rec.receipt} /\ rec.receipt \notin seen
          BY <2>2
        <4>2. Dispatched(run)' = Dispatched(run) \cup {n}
          BY <1>3, <2>2
        <4>3. IsFiniteSet(seen') /\ Cardinality(seen') = Cardinality(seen) + 1
          BY <1>2, <4>1, FS_AddElement
        <4>4. Cardinality(Dispatched(run)') = Cardinality(Dispatched(run)) + 1
          BY <3>2, <4>2, FS_AddElement
        <4> QED BY <4>3, <4>4
      <3> QED BY <1>2, <1>3, <2>2, <3>1, <3>3
    <2>3. CASE rec.kind # "dispatch"
      <3>1. seen' = seen /\ Dispatched(run)' = Dispatched(run)
        BY <1>3, <2>1, <2>3
      <3>2. pending' = {id \in seen' : ~ Completed(run, id)'}
        BY <1>2, <1>3, <2>1, <2>3, <3>1
      <3> QED BY <1>2, <1>3, <2>1, <2>3, <3>1, <3>2
    <2> QED BY <2>2, <2>3
  <1>9. recorder' \in {"off", "on"}
    OBVIOUS
  <1> QED BY <1>7, <1>8, <1>9 DEF Recording

LEMMA RecordingStep ==
  TypeOK /\ TypeOK' /\ Phases /\ Recording /\ Ledgers /\ [Next]_vars => Recording' /\ Ledgers'
  <1> SUFFICES ASSUME TypeOK, TypeOK', Phases, Recording, Ledgers, [Next]_vars
               PROVE  Recording' /\ Ledgers'
    OBVIOUS
  <1>1. UNCHANGED <<ledger, opened>> => Ledgers'
    <2> SUFFICES ASSUME UNCHANGED <<ledger, opened>>
                 PROVE  Ledgers'
      OBVIOUS
    <2>1. \A r \in Runs : Dispatched(r)' = Dispatched(r) /\ InOrder(r)' = InOrder(r)
      BY SameLedger
    <2> QED BY <2>1 DEF Ledgers
  <1>2. recorder' = "off" => Recording'
    BY DEF Recording
  <1>3. ASSUME UNCHANGED <<ledger, run, recorder, seen, pending>>
        PROVE  Recording'
    BY <1>3 DEF Recording, Receipts, Completed, Dispatched, Sealed
  <1>4. CASE StartSession
    <2>1. run + 1 \in Runs /\ run + 1 \notin opened /\ run' = run + 1
      BY <1>4, RunFacts DEF StartSession
    <2>2. ledger'[run + 1] = << >>
      BY <1>4, <2>1 DEF StartSession, Ledgers
    <2>3. Recording'
      BY <1>4, <2>1, <2>2 DEF StartSession, Recording
    <2>4. opened \subseteq opened' /\ ledger' = ledger
      BY <1>4 DEF StartSession
    <2>5. \A r \in Runs : Dispatched(r)' = Dispatched(r) /\ InOrder(r)' = InOrder(r)
      BY <2>4, SameLedger
    <2>6. Ledgers'
      BY <2>4, <2>5 DEF Ledgers
    <2> QED BY <2>3, <2>6
  <1>5. CASE OpenLedger
    <2>1. [kind |-> "open"].kind = "open"
      OBVIOUS
    <2>2. seen = {} /\ pending = {}
      BY <1>5 DEF OpenLedger, Recording
    <2> QED BY <1>5, <2>1, <2>2, RecordsTogether DEF OpenLedger
  <1>6. ASSUME NEW id \in Ids, NEW in \in DispatchInputs[id], Dispatch(id, in)
        PROVE  Recording' /\ Ledgers'
    <2> DEFINE rec == [kind |-> "dispatch", receipt |-> id, role |-> in.role, nested |-> in.nested,
                       dictated |-> in.dictated]
    <2>1. rec.kind = "dispatch" /\ rec.receipt = id
      OBVIOUS
    <2>2. AppendRecord(rec) /\ ~ OpenLedger
      BY <1>6 DEF Dispatch, OpenLedger
    <2> HIDE DEF rec
    <2> QED BY <1>6, <2>1, <2>2, RecordsTogether DEF Dispatch
  <1>7. ASSUME NEW id \in Ids, NEW out \in ResultInputs[id], Complete(id, out)
        PROVE  Recording' /\ Ledgers'
    <2> DEFINE rec == [kind |-> "complete", receipt |-> id, isError |-> out.isError, attests |-> out.attests]
    <2>1. rec.kind = "complete" /\ rec.receipt = id
      OBVIOUS
    <2>2. AppendRecord(rec) /\ ~ OpenLedger
      BY <1>7 DEF Complete, OpenLedger
    <2> HIDE DEF rec
    <2> QED BY <1>7, <2>1, <2>2, RecordsTogether DEF Complete
  <1>8. CASE EndStream
    <2> DEFINE rec == [kind |-> "seal", dispatches |-> Cardinality(seen)]
    <2>1. rec.kind = "seal" /\ rec.dispatches = Cardinality(seen)
      OBVIOUS
    <2>2. AppendRecord(rec) /\ ~ OpenLedger
      BY <1>8 DEF EndStream, OpenLedger
    <2> HIDE DEF rec
    <2> QED BY <1>8, <2>1, <2>2, RecordsTogether DEF EndStream
  <1>9. CASE ShortWrite
    <2> DEFINE rec == [kind |-> "torn"]
    <2>1. rec.kind = "torn"
      OBVIOUS
    <2>2. AppendRecord(rec) /\ ~ OpenLedger
      BY <1>9 DEF ShortWrite, OpenLedger
    <2> HIDE DEF rec
    <2> QED BY <1>9, <2>1, <2>2, RecordsTogether DEF ShortWrite, recording
  <1>10. CASE RecorderFails \/ KillRunner
    BY <1>1, <1>2, <1>10 DEF RecorderFails, KillRunner, evidence
  <1>11. CASE EndSession \/ Gate \/ PreflightOK \/ InitKey \/ InitBaseline \/ InitDies \/ Rebaseline
    <2>1. UNCHANGED <<ledger, opened, run, recording>>
      BY <1>11 DEF EndSession, Gate, GateCannotJudge, GateRead, SaveAccepted, WriteVerdict, ReportVerdict,
             GateDies, MarkMissed, PreflightOK, InitKey, InitBaseline, InitDies, Rebaseline, evidence
    <2> QED BY <1>1, <1>3, <2>1 DEF recording
  <1>12. CASE UNCHANGED vars
    BY <1>1, <1>3, <1>12 DEF vars, evidence, recording
  <1> QED BY <1>4, <1>5, <1>6, <1>7, <1>8, <1>9, <1>10, <1>11, <1>12 DEF Next, Record, Operate

(* A bounded set of numbers has a largest one. *)
LEMMA MaxExists ==
  ASSUME NEW S \in SUBSET Nat, S # {}, NEW n \in Nat, \A x \in S : x <= n
  PROVE  \E m \in S : \A x \in S : x <= m
  <1>1. \A x, y \in Nat : <<x, y>> \in OpToRel(<, Nat) <=> x < y
    BY DEF OpToRel
  <1> DEFINE T == {n - x : x \in S}
  <1>2. T \subseteq Nat
    OBVIOUS
  <1>3. T # {}
    OBVIOUS
  <1>4. PICK y \in T : \A z \in T : ~ (<<z, y>> \in OpToRel(<, Nat))
    <2> HIDE DEF T
    <2> QED BY <1>2, <1>3, NatLessThanWellFounded, WFMin
  <1>5. \A z \in T : y <= z
    <2> HIDE DEF T
    <2> TAKE z \in T
    <2>1. y \in Nat /\ z \in Nat
      BY <1>2
    <2>2. ~ (z < y)
      BY <1>1, <1>4, <2>1
    <2> QED BY <2>1, <2>2
  <1>6. PICK m \in S : y = n - m
    OBVIOUS
  <1>7. \A x \in S : n - m <= n - x
    BY <1>5, <1>6
  <1> QED BY <1>7

(* Whoever reads the ledgers reads what the recorder wrote. *)
LEMMA ReaderAccepts == TypeOK /\ Ledgers => ReaderAcceptsWriter
  <1> SUFFICES ASSUME TypeOK, Ledgers, NEW r \in opened, Untorn(r)
               PROVE  WellFormed(r)
    BY DEF ReaderAcceptsWriter
  <1>1. r \in Runs /\ InOrder(r)
    BY RunFacts DEF Ledgers
  <1>2. ASSUME NEW q \in Runs \ {r}, NEW i \in Dispatched(r)
        PROVE  ~ ReceiptIn(q, ledger[r][i].receipt)
    BY <1>1, <1>2 DEF Ledgers, ReceiptIn
  <1> QED BY <1>1, <1>2 DEF WellFormed

-----------------------------------------------------------------------------
(* The token that is printed is one the gate takes. *)

LEMMA AnswerFacts ==
  ASSUME TypeOK, NEW role, NEW a \in Answers(role)
  PROVE  /\ a[1] \in Nat /\ a[1] <= NRuns /\ a[1] \in Runs /\ NRuns \in Nat
         /\ a[3] \in Nat /\ a[3] <= Len(ledger[a[1]]) /\ Len(ledger[a[1]]) \in Nat
         /\ ledger[a[1]][a[3]].attests \in Seq(Attestations)
  <1>1. /\ a[1] \in opened /\ a[2] \in DOMAIN ledger[a[1]] /\ a[3] \in DOMAIN ledger[a[1]]
        /\ SameDispatch(a[1], a[2], a[3])
    BY DEF Answers
  <1>2. a[1] \in Runs /\ NRuns \in Nat /\ ledger[a[1]] \in Seq(Records)
    BY <1>1, RunFacts DEF TypeOK
  <1>3. ledger[a[1]][a[3]] \in Records /\ ledger[a[1]][a[3]].kind = "complete"
    BY <1>1, <1>2 DEF SameDispatch
  <1> QED BY <1>1, <1>2, <1>3, RecordFacts DEF Runs

(* The newest answer is one of them. *)
LEMMA NewestAnswer ==
  ASSUME TypeOK, NEW role, NEW target, Attesting(role, target) # {}
  PROVE  LastOf(Attesting(role, target), Earlier) \in Attesting(role, target)
  <1> DEFINE S == Attesting(role, target)
             InRuns == {a[1] : a \in S}
  <1>1. \A a \in S : a \in Answers(role)
    BY DEF Attesting
  <1>2. PICK m \in InRuns : \A x \in InRuns : x <= m
    <2>1. InRuns \in SUBSET Nat /\ InRuns # {} /\ NRuns \in Nat /\ \A x \in InRuns : x <= NRuns
      BY <1>1, AnswerFacts
    <2> HIDE DEF InRuns
    <2> QED BY <2>1, MaxExists
  <1> DEFINE At == {a[3] : a \in {b \in S : b[1] = m}}
  <1>3. PICK k \in At : \A x \in At : x <= k
    <2>1. At \in SUBSET Nat /\ At # {} /\ Len(ledger[m]) \in Nat /\ \A x \in At : x <= Len(ledger[m])
      BY <1>1, <1>2, AnswerFacts
    <2> HIDE DEF At
    <2> QED BY <2>1, MaxExists
  <1>4. PICK a \in S : a[1] = m /\ a[3] = k
    BY <1>3
  <1>5. \A b \in S : ~ Earlier(a, b)
    <2> TAKE b \in S
    <2>1. a[1] \in Nat /\ b[1] \in Nat /\ a[3] \in Nat /\ b[3] \in Nat
      BY <1>1, AnswerFacts
    <2>2. b[1] <= a[1]
      BY <1>2, <1>4
    <2>3. b[1] = a[1] => b[3] <= a[3]
      BY <1>3, <1>4
    <2> QED BY <2>1, <2>2, <2>3 DEF Earlier
  <1> HIDE DEF S
  <1>6. LastOf(S, Earlier) \in S
    BY <1>5 DEF LastOf
  <1> QED BY <1>6 DEF S

LEMMA EmittedIsTaken == TypeOK => EmittedVerifies
  <1> SUFFICES ASSUME TypeOK, NEW role \in Roles \ {"director"}, NEW target \in docs,
                      Attesting(role, target) # {}
               PROVE  \/ Verifies(Emitted(role, target)) \/ Emitted(role, target).receipt \in aged
                      \/ \E a \in Answers(role) :
                            /\ ReceiptOf(a) = Emitted(role, target).receipt
                            /\ <<target, Emitted(role, target).verdict>> \in ledger[a[1]][a[2]].dictated
    BY DEF EmittedVerifies
  <1> DEFINE a == LastOf(Attesting(role, target), Earlier)
             said == ledger[a[1]][a[3]].attests
             K == {k \in DOMAIN said : said[k][1] = target}
             last == LastOf(K, <)
             t == Emitted(role, target)
  <1>1. a \in Answers(role) /\ \E vd \in Verdicts : Says(a, target, vd)
    BY NewestAnswer DEF Attesting
  <1>2. said \in Seq(Attestations)
    BY <1>1, AnswerFacts
  <1>3. t = [role |-> role, target |-> target, verdict |-> said[last][2], run |-> a[1], receipt |-> ReceiptOf(a)]
    BY DEF Emitted
  <1>4. K # {}
    BY <1>1 DEF Says
  <1> HIDE DEF a, t
  <1>5. K \in SUBSET Nat /\ Len(said) \in Nat /\ \A k \in K : k <= Len(said)
    <2>1. \A s \in Seq(Attestations) : DOMAIN s = 1 .. Len(s) /\ Len(s) \in Nat
      OBVIOUS
    <2> HIDE DEF said, last
    <2> QED BY <1>2, <2>1
  <1>6. last \in K
    <2> HIDE DEF K
    <2>1. PICK m \in K : \A x \in K : x <= m
      BY <1>4, <1>5, MaxExists
    <2>2. \A x \in K : ~ (m < x)
      BY <1>5, <2>1
    <2> QED BY <2>2 DEF LastOf
  <1> HIDE DEF last
  <1>7. said[last] = <<target, said[last][2]>>
    BY <1>2, <1>6 DEF Attestations
  <1>8. Says(a, target, t.verdict)
    BY <1>3, <1>6, <1>7 DEF Says
  <1>9. CASE <<target, t.verdict>> \in ledger[a[1]][a[2]].dictated
    BY <1>1, <1>3, <1>9 DEF t
  <1>10. CASE <<target, t.verdict>> \notin ledger[a[1]][a[2]].dictated
    <2>1. Backed(t)
      BY <1>1, <1>3, <1>8, <1>10 DEF Backed
    <2> QED BY <1>3, <2>1 DEF Verifies, t
  <1> QED BY <1>9, <1>10

-----------------------------------------------------------------------------
(* The theorems. *)

Inv == TypeOK /\ Phases /\ Recording /\ Ledgers /\ BackedInv /\ Judging

LEMMA Invariance == Spec => []Inv
  <1>1. Init => Inv
    BY TypeInit, RecordingInit, BackedInit DEF Inv, Init, Idle, Judging
  <1>2. Inv /\ [Next]_vars => Inv'
    BY TypeStep, PhasesStep, RecordingStep, BackedStep, JudgingStep DEF Inv
  <1> QED BY <1>1, <1>2, PTL DEF Spec

(* Every variable stays in its type: whatever is dispatched, written, killed   *)
(* or rebaselined, the ledgers hold whole records and the three JSON files     *)
(* their shapes.                                                               *)
THEOREM TypeCorrect == Spec => []TypeOK
  BY Invariance, PTL DEF Inv

(* Whatever accepted.json holds beyond an operator's baseline was attested in  *)
(* the ledger (save_accepted in verify_signatures.py), however many sessions,  *)
(* kills, torn records and rebaselines came since.                             *)
THEOREM AcceptedIsAlwaysBacked == Spec => []AcceptedIsBacked
  <1>1. Inv => AcceptedIsBacked
    BY DEF Inv, BackedInv, Backing, Approves, AcceptedIsBacked
  <1> QED BY <1>1, Invariance, PTL

(* When the runner lets an exit through (GATE-VERDICT with exit code 0 or 3),  *)
(* the run is sealed and judged, no earlier ledger lacks a verdict, and the    *)
(* tree holds nothing unaccepted.                                              *)
THEOREM PassesAreComplete == Spec => PassIsComplete
  <1>1. Inv /\ [Next]_vars =>
          [\A r \in passed' \ passed :
             /\ Sealed(r) /\ verdict[r] \in {"VERIFIED", "EMPTY"}
             /\ \A q \in opened : verdict[q] # "none"
             /\ lines \subseteq accepted.lines /\ filed \subseteq accepted.files
             /\ {d \in docs \ drafts : Required[d] # {}} \subseteq accepted.files]_vars
    BY PassStep DEF Inv
  <1> QED BY <1>1, Invariance, PTL DEF Spec, PassIsComplete

(* The gate can use what the lab's own tools write: every ledger that stores   *)
(* whole records reads (_read_run), and the token --emit-signoff prints        *)
(* verifies unless it is too old or its verdict was dictated.                  *)
THEOREM OwnOutputIsAlwaysTaken == Spec => []OwnOutputIsTaken
  <1>1. Inv => OwnOutputIsTaken
    BY ReaderAccepts, EmittedIsTaken DEF Inv, OwnOutputIsTaken
  <1> QED BY <1>1, Invariance, PTL
=============================================================================
