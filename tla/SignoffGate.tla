---------------------------- MODULE SignoffGate ----------------------------
(***************************************************************************)
(* The sign-off evidence: the recorder that sits in the harness's stream   *)
(* (dispatch_ledger.py, hosted by stream_formatter.py), the ledger file it *)
(* writes for each run, and the gate that reads the ledgers and the tree   *)
(* at a session's exit (verify_signatures.py).                             *)
(*                                                                         *)
(* The Director and its roles are free: they dispatch, answer and write    *)
(* any line of Lines.  The HMAC chain makes the recorder the only author   *)
(* of a ledger, so a ledger is a sequence that only the recorder extends.  *)
(* A fault is a kill of the runner, a gate or recorder that dies, or a     *)
(* write that fails or stores part of a record on a full disk.             *)
(***************************************************************************)
EXTENDS Integers, Sequences, FiniteSets

CONSTANTS
    NRuns,            \* run ids are 1 .. NRuns, in the order they start
    Ids, RunOf,       \* tool_use ids; the harness draws new ones for each run
    Roles,            \* registered roles; a role also names its one episodic record
    Docs, Required,   \* documents, and the roles each needs by signoff_requirements.json
    Lines,            \* the sign-off lines that may appear in the tree
    DispatchInputs,   \* what the dispatch event of each id may say
    ResultInputs,     \* what its tool_result may say
    MaxUpsets         \* bound on faults and operator baselines together

Runs == 1 .. NRuns
Verdicts == {"APPROVE", "MODIFY", "REJECT"}
Attestations == Docs \X Verdicts
Tokens == [role : Roles, target : Docs, verdict : Verdicts, run : Runs, receipt : Ids \cup {"self"}]
LineShapes == [doc : Docs, tokens : SUBSET Tokens, claims : SUBSET Roles, malformed : BOOLEAN]

ASSUME GateAssumption ==
    /\ NRuns \in Nat \ {0} /\ MaxUpsets \in Nat
    /\ "director" \in Roles /\ "self" \notin Ids /\ RunOf \in [Ids -> Runs]
    /\ Docs \cap Roles = {}   \* a document is not an episodic record
    /\ Required \in [Docs -> SUBSET Roles]
    /\ Lines \subseteq LineShapes
    /\ DispatchInputs \in [Ids -> SUBSET [role : STRING, nested : BOOLEAN, dictated : SUBSET Attestations]]
    /\ ResultInputs \in [Ids -> SUBSET [isError : BOOLEAN, attests : Seq(Attestations)]]

VARIABLES
    phase,      \* "down", "idle", "session" or "gate": where the runner stands
    run,        \* the last run started
    recorder,   \* "off", "created" (file there, no record), "on"
    seen, pending, completed,   \* the Recorder's fields
    opened,     \* runs whose ledger file exists
    ledger,     \* ledger[r]: the records of run r
    key,        \* receipt.key exists
    accepted,   \* accepted.json: none, or its lines and files
    initing,    \* --init-evidence stands between its two writes
    verdict,    \* verdicts/<run>.json
    lines, docs, drafts, filed,   \* the tree: sign-off lines, documents, drafts, episodic records
    aged,       \* receipts completed longer ago than the window
    gate,       \* the gate process
    based,      \* ghost: lines and files an operator's baseline ever held
    passed,     \* ghost: runs whose exit the runner let through
    upsets

evidence == <<opened, ledger, key, accepted, initing, verdict>>
recording == <<recorder, seen, pending, completed>>
tree == <<lines, docs, drafts, filed>>
vars == <<phase, run, recording, evidence, tree, aged, gate, based, passed, upsets>>

NoBaseline == [exists |-> FALSE, lines |-> {}, files |-> {}]
Baseline(ls, fs) == [exists |-> TRUE, lines |-> ls, files |-> fs]
Idle == [at |-> "off", missed |-> {}, lines |-> {}, files |-> {}, status |-> "none"]
Statuses == {"VERIFIED", "FORGERY", "EMPTY"}

Init ==
    /\ phase = "down" /\ run = 0
    /\ recorder = "off" /\ seen = {} /\ pending = {} /\ completed = 0
    /\ opened = {} /\ ledger = [r \in Runs |-> << >>]
    /\ key = FALSE /\ accepted = NoBaseline /\ initing = FALSE
    /\ verdict = [r \in Runs |-> "none"]
    /\ lines \in SUBSET {l \in Lines : l.tokens = {}} /\ docs = {l.doc : l \in lines}
    /\ drafts = {} /\ filed = {}
    /\ aged = {} /\ gate = Idle
    /\ based = [lines |-> {}, files |-> {}] /\ passed = {} /\ upsets = 0

-----------------------------------------------------------------------------
\* The recorder.

\* LedgerWriter.append on the current run's file.
AppendRecord(rec) == ledger' = [ledger EXCEPT ![run] = Append(@, rec)]

Dispatched(r) == {i \in DOMAIN ledger[r] : ledger[r][i].kind = "dispatch"}
SameDispatch(r, i, j) ==
    /\ ledger[r][i].kind = "dispatch" /\ ledger[r][j].kind = "complete"
    /\ ledger[r][i].receipt = ledger[r][j].receipt /\ i < j
ReceiptIn(r, id) == \E i \in Dispatched(r) : ledger[r][i].receipt = id

\* stream_formatter starts: O_EXCL creates the run's file.
StartSession ==
    /\ phase = "idle" /\ run < NRuns
    /\ phase' = "session" /\ run' = run + 1
    /\ IF key
         THEN opened' = opened \cup {run + 1} /\ recorder' = "created"
         ELSE recorder' = "off" /\ UNCHANGED opened
    /\ seen' = {} /\ pending' = {} /\ completed' = 0
    /\ UNCHANGED <<ledger, key, accepted, initing, verdict, tree, aged, gate, based, passed, upsets>>

\* Recorder.__init__ writes the first record.
OpenLedger ==
    /\ phase = "session" /\ recorder = "created"
    /\ AppendRecord([kind |-> "open"]) /\ recorder' = "on"
    /\ UNCHANGED <<phase, run, seen, pending, completed, opened, key, accepted, initing, verdict,
                   tree, aged, gate, based, passed, upsets>>

\* Recorder._dispatch: an id seen before is dropped.
Dispatch(id, in) ==
    /\ phase = "session" /\ recorder = "on" /\ RunOf[id] = run /\ id \notin seen
    /\ AppendRecord([kind |-> "dispatch", receipt |-> id, role |-> in.role, nested |-> in.nested,
                     dictated |-> in.dictated])
    /\ seen' = seen \cup {id} /\ pending' = pending \cup {id}
    /\ UNCHANGED <<phase, run, recorder, completed, opened, key, accepted, initing, verdict,
                   tree, aged, gate, based, passed, upsets>>

\* Recorder._complete: only for a pending id.
Complete(id, out) ==
    /\ phase = "session" /\ recorder = "on" /\ id \in pending
    /\ AppendRecord([kind |-> "complete", receipt |-> id, isError |-> out.isError,
                     attests |-> out.attests])
    /\ pending' = pending \ {id} /\ completed' = completed + 1
    /\ UNCHANGED <<phase, run, recorder, seen, opened, key, accepted, initing, verdict,
                   tree, aged, gate, based, passed, upsets>>

\* End of the stream: the recorder, if it is still there, seals the run.
EndStream ==
    /\ phase = "session" /\ recorder = "on"
    /\ AppendRecord([kind |-> "seal", dispatches |-> Cardinality(seen)])
    /\ recorder' = "off" /\ seen' = {} /\ pending' = {} /\ completed' = 0
    /\ UNCHANGED <<phase, run, opened, key, accepted, initing, verdict, tree, aged, gate, based,
                   passed, upsets>>

\* An append raises: stream_formatter drops the recorder and goes on displaying.
RecorderFails ==
    /\ phase = "session" /\ recorder # "off" /\ upsets < MaxUpsets
    /\ recorder' = "off" /\ seen' = {} /\ pending' = {} /\ completed' = 0 /\ upsets' = upsets + 1
    /\ UNCHANGED <<phase, run, evidence, tree, aged, gate, based, passed>>

\* os.write stores part of a record and nothing notices.
ShortWrite ==
    /\ phase = "session" /\ recorder = "on" /\ upsets < MaxUpsets
    /\ AppendRecord([kind |-> "torn"]) /\ upsets' = upsets + 1
    /\ UNCHANGED <<phase, run, recording, opened, key, accepted, initing, verdict, tree, aged,
                   gate, based, passed>>

-----------------------------------------------------------------------------
\* Receipts whose answer is recorded: the window of 48 hours may pass for them.
Answered == {id \in Ids : \E r \in Runs : \E j \in DOMAIN ledger[r] :
                ledger[r][j].kind = "complete" /\ ledger[r][j].receipt = id}

\* What the session leaves in the tree, and how late it is.  The roles edit the tree and the
\* receipts age all along, but only the gate and the operator's commands look, so it is one
\* step here, and the runner calls the gate.
EndSession ==
    /\ phase = "session" /\ recorder = "off"
    /\ docs' \in {D \in SUBSET Docs : docs \subseteq D}
    /\ drafts' \in SUBSET (docs' \ (docs \ drafts))
    /\ lines' \in SUBSET {l \in Lines : l.doc \in docs'}
    /\ filed' \in {F \in SUBSET (Roles \ {"director"}) : filed \subseteq F}
    /\ aged' \in {A \in SUBSET Ids : aged \subseteq A /\ A \subseteq aged \cup Answered}
    /\ phase' = "gate"
    /\ UNCHANGED <<run, recording, evidence, gate, based, passed, upsets>>

-----------------------------------------------------------------------------
\* Reading the evidence.

\* _read_run: every check it makes of one file (the chain cannot break but by a torn record).
Untorn(r) == \A i \in DOMAIN ledger[r] : ledger[r][i].kind # "torn"

\* A run's records: no receipt dispatched or answered twice, an answer after its dispatch, the
\* seal last and with the right count.
InOrder(r) ==
    LET log == ledger[r] IN
    /\ \A i, j \in Dispatched(r) : log[i].receipt = log[j].receipt => i = j
    /\ \A j \in DOMAIN log : log[j].kind = "complete" =>
         /\ \E i \in DOMAIN log : SameDispatch(r, i, j)
         /\ \A k \in 1 .. j - 1 : log[k].kind = "complete" => log[k].receipt # log[j].receipt
    /\ \A i \in DOMAIN log : log[i].kind = "seal" =>
         i = Len(log) /\ log[i].dispatches = Cardinality(Dispatched(r))

WellFormed(r) ==
    /\ Untorn(r) /\ InOrder(r)
    /\ \A q \in Runs \ {r} : \A i \in Dispatched(r) : ~ ReceiptIn(q, ledger[r][i].receipt)
Sealed(r) == \E i \in DOMAIN ledger[r] : ledger[r][i].kind = "seal"
LedgerReadable == \A r \in opened : WellFormed(r)

\* The completed dispatches of a role that count, each as run, dispatch and answer: the Director's
\* own, ended without error.
Answers(role) ==
    {a \in UNION {{r} \X (DOMAIN ledger[r]) \X (DOMAIN ledger[r]) : r \in opened} :
        /\ SameDispatch(a[1], a[2], a[3]) /\ ledger[a[1]][a[2]].role = role
        /\ ~ ledger[a[1]][a[2]].nested /\ ~ ledger[a[1]][a[3]].isError}
Says(a, target, vd) == \E k \in DOMAIN ledger[a[1]][a[3]].attests : ledger[a[1]][a[3]].attests[k] = <<target, vd>>
ReceiptOf(a) == ledger[a[1]][a[2]].receipt

\* What check_signoff asks of a token, the age of its receipt apart.
Backed(t) ==
    IF t.role = "director"
      THEN t.run \in opened /\ t.receipt = "self"
      ELSE \E a \in Answers(t.role) :
             /\ a[1] = t.run /\ ReceiptOf(a) = t.receipt
             /\ Says(a, t.target, t.verdict)
             /\ <<t.target, t.verdict>> \notin ledger[a[1]][a[2]].dictated

\* Mutant of Verifies: a verdict the prompt dictated counts too.
VerifiesDictated(t) ==
    /\ t.target \in docs /\ t.receipt \notin aged
    /\ \/ t.role = "director" /\ t.run \in opened /\ t.receipt = "self"
       \/ \E a \in Answers(t.role) : a[1] = t.run /\ ReceiptOf(a) = t.receipt /\ Says(a, t.target, t.verdict)

\* check_signoff returns None.
Verifies(t) == t.target \in docs /\ t.receipt \notin aged /\ Backed(t)

\* A new line holds: no malformed token, every token verified, every claimed role backed by one of them.
Holds(l) ==
    /\ ~ l.malformed
    /\ \A t \in l.tokens : Verifies(t)
    /\ \A c \in l.claims : \E t \in l.tokens : t.role = c

\* An episodic record filed under a role: some answer of that role inside the window.
Witnessed(role) == \E a \in Answers(role) : ReceiptOf(a) \notin aged

NewLines == lines \ accepted.lines
\* The tokens that count for a document: verified now, or on a line accepted before.
GoodTokens(d) == {t \in UNION {l.tokens : l \in {k \in lines : k.doc = d}} :
                    Verifies(t) \/ \E l \in lines \cap accepted.lines : l.doc = d /\ t \in l.tokens}

Signed(d) == \A r \in Required[d] : \E t \in GoodTokens(d) : t.role = r /\ t.target = d /\ t.verdict = "APPROVE"

Owing == {d \in docs \ (drafts \cup accepted.files) : Required[d] # {}}
NewRecords == filed \ accepted.files
Violated ==
    \/ \E l \in NewLines : ~ Holds(l)
    \/ \E d \in Owing : ~ Signed(d)
    \/ \E r \in NewRecords : ~ Witnessed(r)
\* report: nothing new to verify is EMPTY, never VERIFIED.
Outcome ==
    IF Violated THEN "FORGERY"
    ELSE IF (\E l \in NewLines : l.tokens # {}) \/ NewRecords # {} THEN "VERIFIED" ELSE "EMPTY"

-----------------------------------------------------------------------------
\* The gate: read everything, mark the runs it missed, save the baseline, write the verdict.

\* EvidenceError: the gate prints no verdict, the runner refuses the exit.
GateCannotJudge ==
    /\ phase = "gate" /\ gate = Idle
    /\ ~ (key /\ LedgerReadable /\ accepted.exists /\ run \in opened /\ Sealed(run))
    /\ phase' = "idle"
    /\ UNCHANGED <<run, recording, evidence, tree, aged, gate, based, passed, upsets>>

\* Mutant of GateRead: the seal is not asked for.
GateReadUnsealed ==
    /\ phase = "gate" /\ gate = Idle
    /\ key /\ LedgerReadable /\ accepted.exists /\ run \in opened
    /\ gate' = [at |-> "missed", missed |-> {r \in opened \ {run} : verdict[r] = "none"},
                lines |-> accepted.lines \cup {l \in NewLines : Holds(l)},
                files |-> accepted.files \cup {d \in Owing : Signed(d)} \cup {r \in NewRecords : Witnessed(r)},
                status |-> Outcome]
    /\ UNCHANGED <<phase, run, recording, evidence, tree, aged, based, passed, upsets>>

\* run_gate up to its first write: evidence, ledger, baseline and tree are read once.
GateRead ==
    /\ phase = "gate" /\ gate = Idle
    /\ key /\ LedgerReadable /\ accepted.exists /\ run \in opened /\ Sealed(run)
    /\ gate' = [at |-> "missed", missed |-> {r \in opened \ {run} : verdict[r] = "none"},
                lines |-> accepted.lines \cup {l \in NewLines : Holds(l)},
                files |-> accepted.files \cup {d \in Owing : Signed(d)} \cup {r \in NewRecords : Witnessed(r)},
                status |-> Outcome]
    /\ UNCHANGED <<phase, run, recording, evidence, tree, aged, based, passed, upsets>>

\* One NEVER_GATED verdict.
MarkMissed(r) ==
    /\ gate.at = "missed" /\ r \in gate.missed
    /\ verdict' = [verdict EXCEPT ![r] = "NEVER_GATED"]
    /\ gate' = [gate EXCEPT !.missed = @ \ {r}]
    /\ UNCHANGED <<phase, run, recording, opened, ledger, key, accepted, initing, tree, aged, based, passed, upsets>>

\* save_accepted: what was read, and what verified.
SaveAccepted ==
    /\ gate.at = "missed" /\ gate.missed = {}
    /\ accepted' = Baseline(gate.lines, gate.files)
    /\ gate' = [gate EXCEPT !.at = "accepted"]
    /\ UNCHANGED <<phase, run, recording, opened, ledger, key, initing, verdict, tree, aged, based, passed, upsets>>

WriteVerdict ==
    /\ gate.at = "accepted"
    /\ verdict' = [verdict EXCEPT ![run] = gate.status]
    /\ gate' = [gate EXCEPT !.at = "judged"]
    /\ UNCHANGED <<phase, run, recording, opened, ledger, key, accepted, initing, tree, aged, based, passed, upsets>>

\* GATE-VERDICT is printed; the runner lets exit codes 0 and 3 through.
ReportVerdict ==
    /\ gate.at = "judged"
    /\ passed' = IF gate.status = "FORGERY" THEN passed ELSE passed \cup {run}
    /\ gate' = Idle /\ phase' = "idle"
    /\ UNCHANGED <<run, recording, evidence, tree, aged, based, upsets>>

\* The gate dies or a write of it fails: no verdict line, the exit is refused.
GateDies ==
    /\ phase = "gate" /\ upsets < MaxUpsets
    /\ gate' = Idle /\ phase' = "idle" /\ upsets' = upsets + 1
    /\ UNCHANGED <<run, recording, evidence, tree, aged, based, passed>>

-----------------------------------------------------------------------------
\* The runner's start and the operator's two commands.

\* _all_current_lines
CurrentLines == lines
CurrentFiles == docs \cup filed
Rebased == [lines |-> based.lines \cup CurrentLines, files |-> based.files \cup CurrentFiles]

\* run_preflight with evidence in place: it must be readable.
PreflightOK ==
    /\ phase = "down" /\ key /\ accepted.exists /\ LedgerReadable /\ ~ initing
    /\ phase' = "idle"
    /\ UNCHANGED <<run, recording, evidence, tree, aged, gate, based, passed, upsets>>

\* init_key, by preflight on a tree with nothing to launder or by --init-evidence on any tree.
InitKey ==
    /\ phase = "down" /\ ~ key /\ ~ accepted.exists
    /\ key' = TRUE /\ initing' = TRUE
    /\ UNCHANGED <<phase, run, recording, opened, ledger, accepted, verdict, tree, aged, gate, based, passed, upsets>>

\* The second write of run_init_evidence.
InitBaseline ==
    /\ initing
    /\ accepted' = Baseline(CurrentLines, CurrentFiles) /\ based' = Rebased /\ initing' = FALSE
    /\ UNCHANGED <<phase, run, recording, opened, ledger, key, verdict, tree, aged, gate, passed, upsets>>

\* --init-evidence is killed between its writes: preflight refuses from now on.
InitDies ==
    /\ initing /\ upsets < MaxUpsets
    /\ initing' = FALSE /\ upsets' = upsets + 1
    /\ UNCHANGED <<phase, run, recording, opened, ledger, key, accepted, verdict, tree, aged, gate, based, passed>>

\* --rebaseline: the operator accepts everything now in the tree, at any time.
Rebaseline ==
    /\ key /\ ~ initing /\ upsets < MaxUpsets
    /\ accepted' = Baseline(CurrentLines, CurrentFiles) /\ based' = Rebased
    /\ upsets' = upsets + 1
    /\ UNCHANGED <<phase, run, recording, opened, ledger, key, initing, verdict, tree, aged, gate, passed>>

\* The runner is killed with everything it started.
KillRunner ==
    /\ phase # "down" /\ upsets < MaxUpsets
    /\ phase' = "down" /\ recorder' = "off" /\ gate' = Idle /\ upsets' = upsets + 1
    /\ seen' = {} /\ pending' = {} /\ completed' = 0
    /\ UNCHANGED <<run, evidence, tree, aged, based, passed>>

Record ==
    \/ StartSession \/ OpenLedger \/ EndStream \/ EndSession \/ RecorderFails \/ ShortWrite
    \/ \E id \in Ids : \E in \in DispatchInputs[id] : Dispatch(id, in)
    \/ \E id \in Ids : \E out \in ResultInputs[id] : Complete(id, out)
Gate ==
    \/ GateCannotJudge \/ GateRead \/ SaveAccepted \/ WriteVerdict \/ ReportVerdict \/ GateDies
    \/ \E r \in Runs : MarkMissed(r)
Operate == PreflightOK \/ InitKey \/ InitBaseline \/ InitDies \/ Rebaseline \/ KillRunner
Next == Record \/ Gate \/ Operate
Spec == Init /\ [][Next]_vars

-----------------------------------------------------------------------------
\* --emit-signoff: the token the Director is told to paste.

LastOf(S, Before(_, _)) == CHOOSE a \in S : \A b \in S : ~ Before(a, b)
Earlier(a, b) == a[1] < b[1] \/ (a[1] = b[1] /\ a[3] < b[3])
Attesting(role, target) == {a \in Answers(role) : \E vd \in Verdicts : Says(a, target, vd)}

\* Mutant of Emitted: the token names the newest run, not the run of the receipt.
EmittedInLatestRun(role, target) ==
    LET a == LastOf(Attesting(role, target), Earlier)
        said == ledger[a[1]][a[3]].attests
        last == LastOf({k \in DOMAIN said : said[k][1] = target}, <)
    IN [role |-> role, target |-> target, verdict |-> said[last][2],
        run |-> CHOOSE r \in opened : \A q \in opened : q <= r, receipt |-> ReceiptOf(a)]

\* The newest answer that attests the target, with the last verdict it gives.
Emitted(role, target) ==
    LET a == LastOf(Attesting(role, target), Earlier)
        said == ledger[a[1]][a[3]].attests
        last == LastOf({k \in DOMAIN said : said[k][1] = target}, <)
    IN [role |-> role, target |-> target, verdict |-> said[last][2],
        run |-> a[1], receipt |-> ReceiptOf(a)]

-----------------------------------------------------------------------------
\* Properties.

Records ==
    [kind : {"open", "torn"}]
    \cup [kind : {"dispatch"}, receipt : Ids, role : STRING, nested : BOOLEAN, dictated : SUBSET Attestations]
    \cup [kind : {"complete"}, receipt : Ids, isError : BOOLEAN, attests : Seq(Attestations)]
    \cup [kind : {"seal"}, dispatches : Nat]
BaselineShape == [exists : BOOLEAN, lines : SUBSET Lines, files : SUBSET (Docs \cup Roles)]

\* Every variable stays in its type: the shapes of the ledger records and of the three JSON files.
TypeOK ==
    /\ phase \in {"down", "idle", "session", "gate"} /\ run \in 0 .. NRuns
    /\ recorder \in {"off", "created", "on"} /\ seen \subseteq Ids /\ pending \subseteq seen /\ completed \in Nat
    /\ opened \subseteq 1 .. run /\ ledger \in [Runs -> Seq(Records)]
    /\ key \in BOOLEAN /\ accepted \in BaselineShape /\ initing \in BOOLEAN
    /\ verdict \in [Runs -> Statuses \cup {"none", "NEVER_GATED"}]
    /\ lines \subseteq Lines /\ docs \subseteq Docs /\ drafts \subseteq docs /\ filed \subseteq Roles
    /\ aged \subseteq Ids
    /\ gate \in [at : {"off", "missed", "accepted", "judged"}, missed : SUBSET Runs, lines : SUBSET Lines,
                 files : SUBSET (Docs \cup Roles), status : Statuses \cup {"none"}]
    /\ based \in [lines : SUBSET Lines, files : SUBSET (Docs \cup Roles)]
    /\ passed \subseteq Runs /\ upsets \in 0 .. MaxUpsets

\* A line is no forgery once and for all: it is whole and a recorded dispatch stands behind
\* each of its tokens.
Genuine(l) ==
    /\ ~ l.malformed /\ \A t \in l.tokens : Backed(t)
    /\ \A c \in l.claims : \E t \in l.tokens : t.role = c

\* Whatever accepted.json holds beyond an operator's baseline was really attested: each line by
\* the ledger's record of a dispatch of that role that gave that verdict undictated, each
\* required document by every role it needs, each episodic record by an answer of its role.
\* It survives later sessions, killed gates and runs that were never sealed or judged.
AcceptedIsBacked ==
    /\ \A l \in accepted.lines \ based.lines : Genuine(l)
    /\ \A d \in (accepted.files \cap Docs) \ based.files : \A r \in Required[d] :
         \E l \in Lines : \E t \in l.tokens :
            /\ t.role = r /\ t.target = d /\ t.verdict = "APPROVE"
            /\ Backed(t) \/ l \in based.lines
    /\ \A r \in (accepted.files \cap Roles) \ based.files : Answers(r) # {}

\* When the runner lets an exit through, the run's ledger is sealed, its verdict is on disk, no
\* earlier ledger is left without a verdict, and nothing in the tree is unaccepted: no new
\* line, no finished document without its signatures, no episodic record without its role.
PassIsComplete ==
    [][\A r \in passed' \ passed :
         /\ Sealed(r) /\ verdict[r] \in {"VERIFIED", "EMPTY"}
         /\ \A q \in opened : verdict[q] # "none"
         /\ lines \subseteq accepted.lines /\ filed \subseteq accepted.files
         /\ {d \in docs \ drafts : Required[d] # {}} \subseteq accepted.files]_vars

\* The reader refuses nothing the recorder wrote: a file cut anywhere by a kill, or left by a
\* recorder that failed, still reads, unless a record was stored in part.
ReaderAcceptsWriter == \A r \in opened : Untorn(r) => WellFormed(r)

\* The token the tool prints is one the gate takes: it fails only for its age or because the
\* prompt dictated the verdict.
EmittedVerifies ==
    LedgerReadable => \A role \in Roles \ {"director"}, target \in docs :
        Attesting(role, target) # {} =>
            LET t == Emitted(role, target) IN
            \/ Verifies(t) \/ t.receipt \in aged
            \/ \E a \in Answers(role) : /\ ReceiptOf(a) = t.receipt
                                        /\ <<target, t.verdict>> \in ledger[a[1]][a[2]].dictated

\* What the lab's own tools write, the gate can use: the recorder's ledger reads, the printed
\* token verifies.
OwnOutputIsTaken == ReaderAcceptsWriter /\ EmittedVerifies
=============================================================================
