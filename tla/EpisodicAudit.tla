--------------------------- MODULE EpisodicAudit ---------------------------
(***************************************************************************)
(* The archive audits of tools/verify_signatures.py, beside the work they  *)
(* look back at: free-text signatures against the episodic records their   *)
(* roles filed (--legacy-episodic), and the records against the agent      *)
(* types that the runner's session logs show (--check-identity             *)
(* --legacy-logs).  The audits only read, so they are operators; what      *)
(* changes is the tree, and the date on which it is looked at.             *)
(***************************************************************************)
EXTENDS Integers, FiniteSets, FiniteSetsExt

CONSTANTS
    AuditRoles,     \* registered roles, the Director apart
    Window,         \* --window-hours, in days
    LastDay,        \* bound on the calendar
    MaxWork         \* bound on dispatches, records, edits and signatures

ASSUME EpisodicAuditAssumption == {Window, LastDay, MaxWork} \subseteq Nat

Undated == 0
Generic == "general-purpose"

VARIABLES
    today,
    logs,           \* the session logs' agent lines: [type, when]
    records,        \* data/agents/<role>/episodic: [id, role, named: its filename's date, m: its mtime]
    signatures,     \* [role, date, cites: a record's id or none], each on a line of a document
    work,           \* counts dispatches, records, edits and signatures
    honest          \* ghost: [records: filed by their own role's agent under the date of that day,
                    \*         signatures: dated, of a role with such a record within the window]

auditVars == <<today, logs, records, signatures, work, honest>>

NoRecord == 0
Nowhere == -1       \* cites a file that does not exist

AuditInit ==
    /\ today = 1 /\ logs = {} /\ records = {} /\ signatures = {} /\ work = 0
    /\ honest = [records |-> {}, signatures |-> {}]

-----------------------------------------------------------------------------
(* verify_signature. *)

Distance(d, e) == IF d > e THEN d - e ELSE e - d
episodic_date(r) == IF r.named # Undated THEN r.named ELSE r.m
RecordsOf(role) == {r \in records : r.role = role}

(* An inline citation settles it: the file exists or not. *)
Cites(s) == s.cites # NoRecord
CitationHolds(s) == \E r \in records : r.id = s.cites

(* Live gate: a record touched within the window before now. *)
ForgedNow(s) ==
    IF Cites(s) THEN ~ CitationHolds(s)
    ELSE \A r \in RecordsOf(s.role) : today - r.m > Window

(* Retrospective, as of the day ref: a record dated within the window of it.  Before *)
(* it, a mutant that looks at the window from today on.                              *)
ForgedAsSeenToday(s, ref) ==
    IF Cites(s) THEN ~ CitationHolds(s)
    ELSE ref # Undated /\ \A r \in RecordsOf(s.role) : Distance(today, episodic_date(r)) > Max({1, Window})
ForgedAsOf(s, ref) ==
    IF Cites(s) THEN ~ CitationHolds(s)
    ELSE ref # Undated /\ \A r \in RecordsOf(s.role) : Distance(ref, episodic_date(r)) > Max({1, Window})

(* run_legacy_episodic with --as-of signature. *)
LegacyOutcome ==
    IF signatures = {} THEN "EMPTY"
    ELSE IF \E s \in signatures : ForgedAsOf(s, s.date) THEN "FORGERY" ELSE "VERIFIED"

-----------------------------------------------------------------------------
(* audit_dispatch_identity. *)

first_by_type(role) == {l \in logs : l.type = role}
FirstDay(role) == Min({l.when : l \in first_by_type(role)})
IdentityViolation(r) ==
    \/ first_by_type(r.role) = {}
    \/ r.named # Undated /\ r.named < FirstDay(r.role)

IdentityOutcome ==
    IF logs = {} THEN "cannot audit"
    ELSE IF \E r \in records : IdentityViolation(r) THEN "VIOLATION" ELSE "OK"

-----------------------------------------------------------------------------
(* The work that the audits look back at. *)

Work == work < MaxWork /\ work' = work + 1

(* A session dispatches an agent, under a registered type or a generic one. *)
DispatchAgent(type) ==
    /\ Work /\ logs' = logs \union {[type |-> type, when |-> today]}
    /\ UNCHANGED <<today, records, signatures, honest>>

(* A record appears under a role, whoever wrote it, with or without a date in its name. *)
FileEpisodic(role, named) ==
    /\ Work
    /\ LET r == [id |-> work + 1, role |-> role, named |-> named, m |-> today] IN
         /\ records' = records \union {r}
         /\ honest' = IF named = today /\ \E l \in logs : l.type = role
                      THEN [honest EXCEPT !.records = @ \union {r.id}] ELSE honest
    /\ UNCHANGED <<today, logs, signatures>>

TouchEpisodic(r) ==
    /\ Work /\ r.m < today
    /\ records' = (records \ {r}) \union {[r EXCEPT !.m = today]}
    /\ UNCHANGED <<today, logs, signatures, honest>>

Sign(role, date, cites) ==
    /\ Work
    /\ LET s == [role |-> role, date |-> date, cites |-> cites] IN
         /\ signatures' = signatures \union {s}
         /\ honest' = IF date \in {today, Undated} /\ \/ Cites(s) /\ CitationHolds(s)
                                                      \/ /\ ~ Cites(s)
                                                         /\ \E r \in RecordsOf(role) :
                                                              r.id \in honest.records /\ today - r.named <= Window
                      THEN [honest EXCEPT !.signatures = @ \union {s}] ELSE honest
    /\ UNCHANGED <<today, logs, records>>

NextDate ==
    /\ today < LastDay /\ today' = today + 1
    /\ UNCHANGED <<logs, records, signatures, work, honest>>

AuditNext ==
    \/ \E type \in AuditRoles \union {Generic} : DispatchAgent(type)
    \/ \E role \in AuditRoles, named \in 0 .. today : FileEpisodic(role, named)
    \/ \E r \in records : TouchEpisodic(r)
    \/ \E role \in AuditRoles, date \in 0 .. today, cites \in {Nowhere, NoRecord} \union {r.id : r \in records} :
         Sign(role, date, cites)
    \/ NextDate

AuditSpec == AuditInit /\ [][AuditNext]_auditVars

-----------------------------------------------------------------------------
(* Honest work is never reported: neither a signature that an honest record   *)
(* or an existing citation backed when it was written, by the live gate on    *)
(* its day or by an audit of the archive any time later, nor a record its own *)
(* role filed under that day's date, whatever else is filed, touched, signed  *)
(* or dispatched before and after.                                            *)
HonestWorkPasses ==
    /\ \A s \in honest.signatures : ~ ForgedAsOf(s, s.date) /\ (s.date = today => ~ ForgedNow(s))
    /\ \A r \in records : r.id \in honest.records => ~ IdentityViolation(r)
    /\ signatures # {} /\ signatures = honest.signatures => LegacyOutcome = "VERIFIED"
    /\ records # {} /\ {r.id : r \in records} = honest.records => IdentityOutcome = "OK"
=============================================================================
