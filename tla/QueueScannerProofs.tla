------------------------- MODULE QueueScannerProofs -------------------------
(***************************************************************************)
(* TLAPS proofs about QueueScanner: for any cells, diagnostics, claims and *)
(* artifacts, any edits of the workspace and any kills of the scan.        *)
(*                                                                         *)
(* The argument: what the scan saw when it began is in its list until it   *)
(* reaches the queue, its copy of last_seen never marks more than the      *)
(* queue has, and nothing ever leaves the queue's four files.              *)
(***************************************************************************)
EXTENDS QueueScanner, FunctionTheorems, FiniteSetTheorems, WellFoundedInduction, TLAPS

-----------------------------------------------------------------------------
(* Sequences that list a set. *)

Lists(q, S) == q \in Seq(S) /\ \A x \in S : \E k \in 1 .. Len(q) : q[k] = x

LEMMA ImageIsFinite ==
  ASSUME NEW S, IsFiniteSet(S), NEW f, DOMAIN f = S, f = [x \in S |-> f[x]]
  PROVE  IsFiniteSet({f[x] : x \in S})
  <1> DEFINE T == {f[x] : x \in S}
  <1>1. f \in [S -> T]
    OBVIOUS
  <1>2. \A t \in T : \E x \in S : f[x] = t
    OBVIOUS
  <1> HIDE DEF T
  <1>3. f \in Surjection(S, T)
    BY <1>1, <1>2, Fun_IsSurj
  <1>4. IsFiniteSet(T)
    BY <1>3, FS_Surjection
  <1> QED BY <1>4 DEF T

LEMMA SetsAreListed ==
  ASSUME NEW S, IsFiniteSet(S)
  PROVE  Lists(SetToSeq(S), S)
  <1>0. Cardinality(S) \in Nat
    BY FS_CardinalityType
  <1>1. PICK g : g \in Bijection(1 .. Cardinality(S), S)
    BY FS_CardinalityType DEF ExistsBijection
  <1>2. g \in [1 .. Cardinality(S) -> S] /\ IsInjective(g)
    BY <1>1 DEF Bijection, Injection
  <1> DEFINE q == SetToSeq(S)
  <1>3. q \in [1 .. Cardinality(S) -> S] /\ IsInjective(q)
    BY <1>2 DEF SetToSeq
  <1> HIDE DEF q
  <1>4. \A a, b \in 1 .. Cardinality(S) : q[a] = q[b] => a = b
    BY <1>3 DEF IsInjective
  <1>5. q \in Injection(1 .. Cardinality(S), S)
    BY <1>3, <1>4, Fun_IsInj
  <1>6. IsFiniteSet(1 .. Cardinality(S)) /\ Cardinality(1 .. Cardinality(S)) = Cardinality(S)
    BY <1>0, FS_Interval
  <1>7. q \in Surjection(1 .. Cardinality(S), S)
    BY <1>5, <1>6, FS_Injection
  <1>8. \A x \in S : \E k \in 1 .. Cardinality(S) : q[k] = x
    BY <1>7 DEF Surjection
  <1>9. q \in Seq(S) /\ Len(q) = Cardinality(S)
    BY <1>0, <1>3
  <1>10. Lists(q, S)
    BY <1>8, <1>9 DEF Lists
  <1> QED BY <1>10 DEF q

LEMMA ListsJoin ==
  ASSUME NEW a, NEW A, NEW b, NEW B, Lists(a, A), Lists(b, B)
  PROVE  Lists(a \o b, A \cup B)
  <1>1. a \in Seq(A \cup B) /\ b \in Seq(A \cup B)
    BY DEF Lists
  <1>2. a \o b \in Seq(A \cup B) /\ Len(a \o b) = Len(a) + Len(b) /\ Len(a) \in Nat /\ Len(b) \in Nat
    BY <1>1
  <1>3. ASSUME NEW x \in A PROVE \E k \in 1 .. Len(a \o b) : (a \o b)[k] = x
    <2>1. PICK k \in 1 .. Len(a) : a[k] = x
      BY DEF Lists
    <2>2. k \in 1 .. Len(a \o b) /\ (a \o b)[k] = a[k]
      BY <1>1, <1>2
    <2> QED BY <2>1, <2>2
  <1>4. ASSUME NEW x \in B PROVE \E k \in 1 .. Len(a \o b) : (a \o b)[k] = x
    <2>1. PICK k \in 1 .. Len(b) : b[k] = x
      BY DEF Lists
    <2>2. Len(a) + k \in 1 .. Len(a \o b) /\ (a \o b)[Len(a) + k] = b[k]
      BY <1>1, <1>2
    <2> QED BY <2>1, <2>2
  <1> QED BY <1>2, <1>3, <1>4 DEF Lists

LEMMA ListsOne == \A x : Lists(<<x>>, {x})
  <1> TAKE x
  <1>1. <<x>> \in Seq({x}) /\ Len(<<x>>) = 1 /\ <<x>>[1] = x
    OBVIOUS
  <1> QED BY <1>1 DEF Lists

LEMMA ListsNone == Lists(<< >>, {})
  <1>1. << >> \in Seq({})
    OBVIOUS
  <1> QED BY <1>1 DEF Lists

LEMMA LastPhaseIsThere ==
  ASSUME NEW S \in SUBSET (1 .. LastPhase), S # {}
  PROVE  Max(S) \in S /\ Max(S) \in Nat
  <1>1. LastPhase \in Nat
    BY ScanAssumption
  <1> DEFINE gaps == {LastPhase - x : x \in S}
  <1>2. gaps \subseteq Nat /\ gaps # {}
    <2>1. \A x \in S : x \in Nat /\ LastPhase - x \in Nat
      BY <1>1
    <2> QED BY <2>1
  <1> HIDE DEF gaps
  <1>3. PICK m \in gaps : \A x \in gaps : ~ (<<x, m>> \in OpToRel(<, Nat))
    BY <1>2, NatLessThanWellFounded, WFMin
  <1>4. \A x \in gaps : m <= x
    <2> TAKE x \in gaps
    <2>1. m \in Nat /\ x \in Nat /\ ~ (x < m)
      BY <1>2, <1>3 DEF OpToRel
    <2> QED BY <2>1
  <1>5. PICK n \in S : m = LastPhase - n
    BY <1>3 DEF gaps
  <1>6. \A x \in S : n >= x
    <2> TAKE x \in S
    <2>1. LastPhase - x \in gaps
      BY DEF gaps
    <2>2. n \in Nat /\ x \in Nat
      OBVIOUS
    <2> QED BY <1>1, <1>4, <1>5, <2>1, <2>2
  <1>7. Max(S) \in S
    BY <1>6 DEF Max
  <1>8. \A x \in S : x \in Nat
    BY <1>1
  <1> QED BY <1>7, <1>8

-----------------------------------------------------------------------------
(* The invariant. *)

CellStates == Outcomes \cup {"in_progress"}
Seen == [phases : SUBSET Nat, mtime : Nat, cells : SUBSET (Cells \X {"cell_complete", "cell_failed"}),
         files : SUBSET Diags]
Sights == [closed : SUBSET (1 .. LastPhase), notes : Nat, cell : [Cells -> CellStates], diags : SUBSET Diags,
           clock : Nat, orphans : SUBSET Claims]

TypeOK ==
  /\ closed \subseteq 1 .. LastPhase /\ notes \in Nat /\ cell \in [Cells -> CellStates]
  /\ diags \subseteq Diags /\ clock \in Nat /\ stranded \subseteq Claims /\ present \subseteq Artifacts
  /\ lastSeen \in Seen /\ marks \in Seen /\ saw \in Sights
  /\ pc \in {"idle", "snapshot", "enqueue"} /\ kills \in Nat
  /\ \A x, y \in claimed : x = y

(* The items that the detectors may find at time t. *)
Good(i, t) ==
  \/ \E n \in Nat : i = <<"phase_advance", n>>
  \/ \E n \in Nat : i = <<"operator_nudge", n>>
  \/ \E c \in Cells, o \in Outcomes : i = <<CellKind(o), <<c, o>> >>
  \/ \E d \in Diags : i = <<"diagnostic_review", d>>
  \/ i = <<"consolidator_run", Window(t)>>
  \/ i[1] \in {"heartbeat", "session_recovery_review", "artifact"}
TodoIsGood ==
  /\ \E S : todo \in Seq(S)
  /\ \A t : t = saw.clock => \A k \in 1 .. Len(todo) : Good(todo[k], t)
  /\ pc = "idle" => todo = << >>

(* What a copy of last_seen marks is in the queue, under its own kind. *)
Backs(m) ==
  /\ \A n \in m.phases : <<"phase_advance", n>> \in Everywhere
  /\ m.mtime > 0 => <<"operator_nudge", m.mtime>> \in Everywhere
  /\ \A c \in m.cells : \E o \in Outcomes : c[2] = CellKind(o) /\ <<CellKind(o), <<c[1], o>> >> \in Everywhere
  /\ \A d \in m.files : <<"diagnostic_review", d>> \in Everywhere
MarksAreBacked ==
  /\ \A m : m = lastSeen => Backs(m)
  /\ pc = "enqueue" => \A m : m = marks => Backs(m)
  /\ pc = "enqueue" => snap \subseteq Everywhere

(* What the scan saw is queued or still in its list. *)
Coming(i) == i \in Everywhere \/ \E k \in 1 .. Len(todo) : todo[k] = i
Due(w) ==
  /\ w.notes > 0 => Coming(<<"operator_nudge", w.notes>>)
  /\ \A c \in Cells : w.cell[c] \in Outcomes =>
        \E o \in Outcomes : CellKind(o) = CellKind(w.cell[c]) /\ Coming(<<CellKind(o), <<c, o>> >>)
  /\ \A d \in w.diags : Coming(<<"diagnostic_review", d>>)
  /\ w.closed # {} /\ Max(w.closed) < LastPhase => Coming(<<"phase_advance", Max(w.closed)>>)
SightIsDue == pc # "idle" => \A w : w = saw => Due(w)

RunsAreWindows == \A r \in runs : r = <<r[1], <<"consolidator_run", r[1]>> >>

ScanInv == TypeOK /\ TodoIsGood /\ MarksAreBacked /\ SightIsDue /\ RunsAreWindows

(* The start: nothing to announce, nothing marked. *)
LEMMA ScanStarts == Init => ScanInv
  <1> SUFFICES ASSUME Init PROVE ScanInv
    OBVIOUS
  <1>1. {} \subseteq 1 .. LastPhase /\ 0 \in Nat
    OBVIOUS
  <1>2. Empty \in Seen
    BY DEF Empty, Seen
  <1>3. [c \in Cells |-> "in_progress"] \in [Cells -> CellStates]
    BY DEF CellStates
  <1>4. Nothing \in Sights
    BY <1>1, <1>3 DEF Nothing, Sights
  <1>5. TypeOK
    BY <1>1, <1>2, <1>3, <1>4 DEF Init, TypeOK
  <1>6. TodoIsGood
    <2>1. << >> \in Seq({}) /\ Len(<< >>) = 0
      OBVIOUS
    <2> QED BY <2>1 DEF Init, TodoIsGood
  <1>7. MarksAreBacked
    <2>1. lastSeen.phases = {} /\ lastSeen.mtime = 0 /\ lastSeen.cells = {} /\ lastSeen.files = {}
      BY DEF Init, Empty
    <2> QED BY <2>1 DEF Init, MarksAreBacked, Backs
  <1>8. SightIsDue /\ RunsAreWindows
    BY DEF Init, SightIsDue, RunsAreWindows
  <1> QED BY <1>5, <1>6, <1>7, <1>8 DEF ScanInv

(* What is queued stays somewhere in the queue, so what was backed stays so. *)
LEMMA BacksKept ==
  ASSUME Everywhere \subseteq Everywhere', NEW m, Backs(m)
  PROVE  Backs(m)'
  BY DEF Backs

LEMMA DueKept ==
  ASSUME \A a, b : Coming(<<a, b>>) => Coming(<<a, b>>)', NEW w, Due(w)
  PROVE  Due(w)'
  <1>1. w.notes > 0 => Coming(<<"operator_nudge", w.notes>>)'
    BY DEF Due
  <1>2. \A c \in Cells : w.cell[c] \in Outcomes =>
           \E o \in Outcomes : CellKind(o) = CellKind(w.cell[c]) /\ Coming(<<CellKind(o), <<c, o>> >>)'
    BY DEF Due
  <1>3. \A d \in w.diags : Coming(<<"diagnostic_review", d>>)'
    BY DEF Due
  <1>4. w.closed # {} /\ Max(w.closed) < LastPhase => Coming(<<"phase_advance", Max(w.closed)>>)'
    BY DEF Due
  <1> QED BY <1>1, <1>2, <1>3, <1>4 DEF Due

(* A step that leaves the scan and what it holds alone. *)
LEMMA ScanAside ==
  ASSUME ScanInv, TypeOK', UNCHANGED <<lastSeen, pc, memory, runs>>, Everywhere \subseteq Everywhere'
  PROVE  ScanInv'
  <1>1. TodoIsGood'
    BY DEF ScanInv, TodoIsGood, memory
  <1>2. MarksAreBacked'
    BY BacksKept DEF ScanInv, MarksAreBacked, memory
  <1>3. SightIsDue'
    <2>1. \A a, b : Coming(<<a, b>>) => Coming(<<a, b>>)'
      BY DEF Coming, memory
    <2> QED BY <2>1, DueKept DEF ScanInv, SightIsDue, memory
  <1>4. RunsAreWindows'
    BY DEF ScanInv, RunsAreWindows
  <1> QED BY <1>1, <1>2, <1>3, <1>4 DEF ScanInv

-----------------------------------------------------------------------------
(* The detectors. *)

LEMMA WorkspaceIsFinite ==
  ASSUME TypeOK
  PROVE  /\ \A S \in SUBSET Cells : IsFiniteSet(S)
         /\ \A S \in SUBSET Diags : IsFiniteSet(S)
         /\ \A S \in SUBSET Claims : IsFiniteSet(S)
         /\ \A S \in SUBSET Artifacts : IsFiniteSet(S)
  <1>1. IsFiniteSet(Cells) /\ IsFiniteSet(Diags) /\ IsFiniteSet(Claims) /\ IsFiniteSet(Artifacts)
    BY ScanAssumption
  <1> QED BY <1>1, FS_Subset

(* A detector that looks at one thing lists at most one item. *)
AtMost(q, x) == IF q = << >> THEN {} ELSE {x}
LEMMA OneOrNone ==
  ASSUME NEW q, NEW x, q \in {<< >>, <<x>>}
  PROVE  Lists(q, AtMost(q, x))
  <1>1. CASE q = << >>
    BY <1>1, ListsNone DEF AtMost
  <1>2. CASE q = <<x>>
    <2>1. q # << >>
      BY <1>2
    <2> QED BY <1>2, <2>1, ListsOne DEF AtMost
  <1> QED BY <1>1, <1>2

(* One that looks at every member of a finite set lists the item of each. *)
LEMMA OnePerMember ==
  ASSUME NEW S, IsFiniteSet(S), NEW f, f = [x \in S |-> f[x]]
  PROVE  Lists(SetToSeq({f[x] : x \in S}), {f[x] : x \in S})
  <1> DEFINE T == {f[x] : x \in S}
  <1>1. IsFiniteSet(T)
    BY ImageIsFinite
  <1> HIDE DEF T
  <1>2. Lists(SetToSeq(T), T)
    BY <1>1, SetsAreListed
  <1> QED BY <1>2 DEF T

PhaseFound == AtMost(PhaseItems, <<"phase_advance", Max(closed)>>)
NudgeFound == AtMost(NudgeItems, <<"operator_nudge", notes>>)
NewCells == {c \in Cells : cell[c] \in Outcomes /\ <<c, CellKind(cell[c])>> \notin lastSeen.cells}
CellFound == {<<CellKind(cell[c]), <<c, cell[c]>> >> : c \in NewCells}
DiagFound == {<<"diagnostic_review", d>> : d \in diags \ lastSeen.files}
RunFound == AtMost(ConsolidatorItems, <<"consolidator_run", Window(clock)>>)
BeatFound == AtMost(HeartbeatItems, <<"heartbeat", <<clock \div HeartbeatInterval, clock - lastLog>> >>)
OrphanFound == {<<"session_recovery_review", "orphan_recovery", q>> : q \in Orphans}
ArtifactFound == {<<"artifact", a>> : a \in {a \in Artifacts \ present : Prereqs[a] \subseteq present}}
Found == ((((((PhaseFound \cup NudgeFound) \cup CellFound) \cup DiagFound) \cup RunFound) \cup BeatFound)
             \cup OrphanFound) \cup ArtifactFound
AllItems == PhaseItems \o NudgeItems \o CellItems \o DiagItems \o ConsolidatorItems
              \o HeartbeatItems \o OrphanItems \o ArtifactItems

LEMMA AllItemsList ==
  ASSUME TypeOK
  PROVE  Lists(AllItems, Found)
  <1>1. Lists(PhaseItems, PhaseFound)
    <2>1. PhaseItems \in {<< >>, <<<<"phase_advance", Max(closed)>> >>}
      BY DEF PhaseItems
    <2> QED BY <2>1, OneOrNone DEF PhaseFound
  <1>2. Lists(NudgeItems, NudgeFound)
    <2>1. NudgeItems \in {<< >>, <<<<"operator_nudge", notes>> >>}
      BY DEF NudgeItems
    <2> QED BY <2>1, OneOrNone DEF NudgeFound
  <1>3. Lists(CellItems, CellFound)
    <2> DEFINE f == [c \in NewCells |-> <<CellKind(cell[c]), <<c, cell[c]>> >>]
    <2>1. IsFiniteSet(NewCells)
      BY WorkspaceIsFinite DEF NewCells
    <2>2. f = [c \in NewCells |-> f[c]]
      OBVIOUS
    <2>3. {f[c] : c \in NewCells} = CellFound
      BY DEF CellFound
    <2>4. CellItems = SetToSeq(CellFound)
      BY DEF CellItems, CellFound, NewCells
    <2> HIDE DEF f
    <2> QED BY <2>1, <2>2, <2>3, <2>4, OnePerMember
  <1>4. Lists(DiagItems, DiagFound)
    <2> DEFINE S == diags \ lastSeen.files
               f == [d \in S |-> <<"diagnostic_review", d>>]
    <2>1. IsFiniteSet(S)
      BY WorkspaceIsFinite DEF TypeOK
    <2>2. f = [d \in S |-> f[d]]
      OBVIOUS
    <2>3. {f[d] : d \in S} = DiagFound
      BY DEF DiagFound
    <2>4. DiagItems = SetToSeq(DiagFound)
      BY DEF DiagItems, DiagFound
    <2> HIDE DEF f, S
    <2> QED BY <2>1, <2>2, <2>3, <2>4, OnePerMember
  <1>5. Lists(ConsolidatorItems, RunFound)
    <2>1. ConsolidatorItems \in {<< >>, <<<<"consolidator_run", Window(clock)>> >>}
      BY DEF ConsolidatorItems
    <2> QED BY <2>1, OneOrNone DEF RunFound
  <1>6. Lists(HeartbeatItems, BeatFound)
    <2>1. HeartbeatItems \in {<< >>, <<<<"heartbeat", <<clock \div HeartbeatInterval, clock - lastLog>> >> >>}
      BY DEF HeartbeatItems
    <2> QED BY <2>1, OneOrNone DEF BeatFound
  <1>7. Lists(OrphanItems, OrphanFound)
    <2> DEFINE f == [q \in Orphans |-> <<"session_recovery_review", "orphan_recovery", q>>]
    <2>1. IsFiniteSet(Orphans)
      BY WorkspaceIsFinite DEF Orphans, TypeOK
    <2>2. f = [q \in Orphans |-> f[q]]
      OBVIOUS
    <2>3. {f[q] : q \in Orphans} = OrphanFound
      BY DEF OrphanFound
    <2>4. OrphanItems = SetToSeq(OrphanFound)
      BY DEF OrphanItems, OrphanFound
    <2> HIDE DEF f
    <2> QED BY <2>1, <2>2, <2>3, <2>4, OnePerMember
  <1>8. Lists(ArtifactItems, ArtifactFound)
    <2> DEFINE S == {a \in Artifacts \ present : Prereqs[a] \subseteq present}
               f == [a \in S |-> <<"artifact", a>>]
    <2>1. IsFiniteSet(S)
      BY WorkspaceIsFinite
    <2>2. f = [a \in S |-> f[a]]
      OBVIOUS
    <2>3. {f[a] : a \in S} = ArtifactFound
      BY DEF ArtifactFound
    <2>4. ArtifactItems = SetToSeq(ArtifactFound)
      BY DEF ArtifactItems, ArtifactFound
    <2> HIDE DEF f, S
    <2> QED BY <2>1, <2>2, <2>3, <2>4, OnePerMember
  <1> QED BY <1>1, <1>2, <1>3, <1>4, <1>5, <1>6, <1>7, <1>8, ListsJoin DEF AllItems, Found

LEMMA FoundIsGood ==
  ASSUME TypeOK, NEW i \in Found
  PROVE  Good(i, clock)
  <1>1. CASE i \in PhaseFound
    <2>1. closed # {} /\ i = <<"phase_advance", Max(closed)>>
      BY <1>1 DEF AtMost, PhaseFound, PhaseItems
    <2>2. closed \in SUBSET (1 .. LastPhase)
      BY DEF TypeOK
    <2>4. Max(closed) \in Nat
      BY <2>1, <2>2, LastPhaseIsThere
    <2> QED BY <2>1, <2>4 DEF Good
  <1>2. CASE i \in NudgeFound
    BY <1>2 DEF AtMost, NudgeFound, Good, TypeOK
  <1>3. CASE i \in CellFound
    BY <1>3 DEF CellFound, NewCells, Good
  <1>4. CASE i \in DiagFound
    BY <1>4 DEF DiagFound, Good, TypeOK
  <1>5. CASE i \in RunFound
    BY <1>5 DEF AtMost, RunFound, Good
  <1>6. CASE i \in BeatFound
    BY <1>6 DEF AtMost, BeatFound, Good
  <1>7. CASE i \in OrphanFound
    BY <1>7 DEF OrphanFound, Good
  <1>8. CASE i \in ArtifactFound
    BY <1>8 DEF ArtifactFound, Good
  <1> QED BY <1>1, <1>2, <1>3, <1>4, <1>5, <1>6, <1>7, <1>8 DEF Found

(* What there is to announce is found or was queued before. *)
LEMMA SightIsFound ==
  ASSUME TypeOK, Backs(lastSeen)
  PROVE  /\ notes > 0 => <<"operator_nudge", notes>> \in Found \cup Everywhere
         /\ \A c \in Cells : cell[c] \in Outcomes =>
              \E o \in Outcomes : CellKind(o) = CellKind(cell[c]) /\ <<CellKind(o), <<c, o>> >> \in Found \cup Everywhere
         /\ \A d \in diags : <<"diagnostic_review", d>> \in Found \cup Everywhere
         /\ closed # {} /\ Max(closed) < LastPhase => <<"phase_advance", Max(closed)>> \in Found \cup Everywhere
  <1>1. ASSUME notes > 0 PROVE <<"operator_nudge", notes>> \in Found \cup Everywhere
    <2>1. CASE notes = lastSeen.mtime
      BY <1>1, <2>1 DEF Backs
    <2>2. CASE notes # lastSeen.mtime
      <3>1. NudgeItems # << >>
        BY <1>1, <2>2 DEF NudgeItems, TypeOK
      <3> QED BY <3>1 DEF AtMost, NudgeFound, Found
    <2> QED BY <2>1, <2>2
  <1>2. ASSUME NEW c \in Cells, cell[c] \in Outcomes
        PROVE  \E o \in Outcomes : CellKind(o) = CellKind(cell[c]) /\ <<CellKind(o), <<c, o>> >> \in Found \cup Everywhere
    <2>1. CASE <<c, CellKind(cell[c])>> \in lastSeen.cells
      <3>1. PICK o \in Outcomes : CellKind(cell[c]) = CellKind(o) /\ <<CellKind(o), <<c, o>> >> \in Everywhere
        BY <2>1 DEF Backs
      <3> QED BY <3>1
    <2>2. CASE <<c, CellKind(cell[c])>> \notin lastSeen.cells
      <3>1. c \in NewCells
        BY <1>2, <2>2 DEF NewCells
      <3>2. <<CellKind(cell[c]), <<c, cell[c]>> >> \in Found
        BY <3>1 DEF CellFound, Found
      <3> QED BY <1>2, <3>2
    <2> QED BY <2>1, <2>2
  <1>3. ASSUME NEW d \in diags PROVE <<"diagnostic_review", d>> \in Found \cup Everywhere
    <2>1. CASE d \in lastSeen.files
      BY <2>1 DEF Backs
    <2>2. CASE d \notin lastSeen.files
      BY <2>2 DEF DiagFound, Found
    <2> QED BY <2>1, <2>2
  <1>4. ASSUME closed # {}, Max(closed) < LastPhase
        PROVE  <<"phase_advance", Max(closed)>> \in Found \cup Everywhere
    <2>0. Max(closed) \in Nat /\ LastPhase \in Nat
      <3>1. closed \in SUBSET (1 .. LastPhase)
        BY DEF TypeOK
      <3>2. LastPhase \in Nat
        BY ScanAssumption
      <3>3. Max(closed) \in Nat
        BY <1>4, <3>1, LastPhaseIsThere
      <3> QED BY <3>2, <3>3
    <2>1. CASE Max(closed) \in lastSeen.phases
      BY <2>1 DEF Backs
    <2>2. CASE Max(closed) \notin lastSeen.phases
      <3>1. PhaseItems # << >>
        BY <1>4, <2>0, <2>2 DEF PhaseItems
      <3> QED BY <3>1 DEF AtMost, PhaseFound, Found
    <2> QED BY <2>1, <2>2
  <1> QED BY <1>1, <1>2, <1>3, <1>4

(* Detect. *)
LEMMA DetectStep == ScanInv /\ TypeOK' /\ Detect => ScanInv'
  <1> SUFFICES ASSUME ScanInv, TypeOK', Detect PROVE ScanInv'
    OBVIOUS
  <1>1. todo' = AllItems /\ saw' = Sight
    BY DEF Detect, AllItems
  <1>2. Lists(todo', Found)
    BY <1>1, AllItemsList DEF ScanInv
  <1>3. TodoIsGood'
    <2>1. ASSUME NEW t, t = saw'.clock, NEW k \in 1 .. Len(todo') PROVE Good(todo'[k], t)
      <3>1. todo'[k] \in Found
        BY <1>2 DEF Lists
      <3>2. t = clock
        BY <1>1, <2>1 DEF Sight
      <3> QED BY <3>1, <3>2, FoundIsGood DEF ScanInv
    <2>2. \E S : todo' \in Seq(S)
      BY <1>2 DEF Lists
    <2> QED BY <2>1, <2>2 DEF TodoIsGood, Detect
  <1>4. Everywhere' = Everywhere /\ lastSeen' = lastSeen /\ pc' = "snapshot" /\ runs' = runs
    BY DEF Detect, queue, Everywhere
  <1>5. MarksAreBacked'
    BY <1>4, BacksKept DEF ScanInv, MarksAreBacked
  <1>6. SightIsDue'
    <2> SUFFICES ASSUME NEW w, w = Sight PROVE Due(w)'
      BY <1>1 DEF SightIsDue
    <2>1. \A x \in Found \cup Everywhere : Coming(x)'
      BY <1>2, <1>4 DEF Coming, Lists
    <2>2. /\ w.notes > 0 => <<"operator_nudge", w.notes>> \in Found \cup Everywhere
          /\ \A c \in Cells : w.cell[c] \in Outcomes =>
               \E o \in Outcomes : CellKind(o) = CellKind(w.cell[c]) /\ <<CellKind(o), <<c, o>> >> \in Found \cup Everywhere
          /\ \A d \in w.diags : <<"diagnostic_review", d>> \in Found \cup Everywhere
          /\ w.closed # {} /\ Max(w.closed) < LastPhase => <<"phase_advance", Max(w.closed)>> \in Found \cup Everywhere
      <3>1. w.notes = notes /\ w.cell = cell /\ w.diags = diags /\ w.closed = closed
        BY DEF Sight
      <3> QED BY <3>1, SightIsFound DEF ScanInv, MarksAreBacked
    <2> QED BY <2>1, <2>2 DEF Due
  <1>7. RunsAreWindows'
    BY <1>4 DEF ScanInv, RunsAreWindows
  <1> QED BY <1>3, <1>5, <1>6, <1>7 DEF ScanInv

-----------------------------------------------------------------------------
(* The rest of the scan. *)

LEMMA SnapshotStep == ScanInv /\ TypeOK' /\ Snapshot => ScanInv'
  <1> SUFFICES ASSUME ScanInv, TypeOK', Snapshot PROVE ScanInv'
    OBVIOUS
  <1>1. Everywhere' = Everywhere /\ todo' = todo /\ saw' = saw /\ runs' = runs /\ lastSeen' = lastSeen
    BY DEF Snapshot, queue, Everywhere
  <1>2. marks' = lastSeen /\ snap' \subseteq Everywhere /\ pc = "snapshot" /\ pc' = "enqueue"
    BY DEF Snapshot, Everywhere
  <1>3. TodoIsGood'
    BY <1>1, <1>2 DEF ScanInv, TodoIsGood
  <1>4. MarksAreBacked'
    BY <1>1, <1>2, BacksKept DEF ScanInv, MarksAreBacked
  <1>5. SightIsDue'
    <2>1. \A a, b : Coming(<<a, b>>) => Coming(<<a, b>>)'
      BY <1>1 DEF Coming
    <2> QED BY <1>1, <1>2, <2>1, DueKept DEF ScanInv, SightIsDue
  <1>6. RunsAreWindows'
    BY <1>1 DEF ScanInv, RunsAreWindows
  <1> QED BY <1>3, <1>4, <1>5, <1>6 DEF ScanInv

(* Marking a good item adds the mark of that item and no other. *)
LEMMA MarkedIsBacked ==
  ASSUME TypeOK, NEW i, NEW t \in Nat, Good(i, t), NEW m, m = Marked(i),
         \A x : x = marks => Backs(x), Everywhere \subseteq Everywhere', Id(i) \in Everywhere'
  PROVE  m \in Seen /\ Backs(m)'
  <1>1. marks \in Seen /\ Backs(marks)
    BY DEF TypeOK
  <1>2. CASE \E n \in Nat : i = <<"phase_advance", n>>
    <2>1. PICK n \in Nat : i = <<"phase_advance", n>>
      BY <1>2
    <2>2. m = [marks EXCEPT !.phases = @ \cup {n}] /\ i \in Everywhere'
      BY <2>1 DEF Marked, Id
    <2>3. m \in Seen /\ m.phases = marks.phases \cup {n} /\ m.mtime = marks.mtime /\ m.cells = marks.cells /\ m.files = marks.files
      BY <1>1, <2>2 DEF Seen
    <2> QED BY <1>1, <2>1, <2>2, <2>3 DEF Backs
  <1>3. CASE \E n \in Nat : i = <<"operator_nudge", n>>
    <2>1. PICK n \in Nat : i = <<"operator_nudge", n>>
      BY <1>3
    <2>2. m = [marks EXCEPT !.mtime = n] /\ i \in Everywhere'
      BY <2>1 DEF Marked, Id
    <2>3. m \in Seen /\ m.phases = marks.phases /\ m.mtime = n /\ m.cells = marks.cells /\ m.files = marks.files
      BY <1>1, <2>2 DEF Seen
    <2> QED BY <1>1, <2>1, <2>2, <2>3 DEF Backs
  <1>4. CASE \E c \in Cells, o \in Outcomes : i = <<CellKind(o), <<c, o>> >>
    <2>1. PICK c \in Cells, o \in Outcomes : i = <<CellKind(o), <<c, o>> >>
      BY <1>4
    <2>2. CellKind(o) \in {"cell_complete", "cell_failed"}
      BY DEF CellKind
    <2>3. m = [marks EXCEPT !.cells = @ \cup {<<c, CellKind(o)>>}] /\ i \in Everywhere'
      BY <2>1, <2>2 DEF Marked, Id
    <2>4. m \in Seen /\ m.phases = marks.phases /\ m.mtime = marks.mtime /\ m.cells = marks.cells \cup {<<c, CellKind(o)>>}
          /\ m.files = marks.files
      BY <1>1, <2>2, <2>3 DEF Seen
    <2>5. ASSUME NEW x \in m.cells
          PROVE  \E p \in Outcomes : x[2] = CellKind(p) /\ <<CellKind(p), <<x[1], p>> >> \in Everywhere'
      <3>1. CASE x \in marks.cells
        BY <1>1, <3>1 DEF Backs
      <3>2. CASE x = <<c, CellKind(o)>>
        BY <2>1, <2>3, <3>2
      <3> QED BY <2>4, <2>5, <3>1, <3>2
    <2> QED BY <1>1, <2>4, <2>5 DEF Backs
  <1>5. CASE \E d \in Diags : i = <<"diagnostic_review", d>>
    <2>1. PICK d \in Diags : i = <<"diagnostic_review", d>>
      BY <1>5
    <2>2. m = [marks EXCEPT !.files = @ \cup {d}] /\ i \in Everywhere'
      BY <2>1 DEF Marked, Id
    <2>3. m \in Seen /\ m.phases = marks.phases /\ m.mtime = marks.mtime /\ m.cells = marks.cells /\ m.files = marks.files \cup {d}
      BY <1>1, <2>2 DEF Seen
    <2> QED BY <1>1, <2>1, <2>2, <2>3 DEF Backs
  <1>6. CASE i = <<"consolidator_run", Window(t)>> \/ i[1] \in {"heartbeat", "session_recovery_review", "artifact"}
    <2>1. m = marks
      BY <1>6 DEF Marked
    <2> QED BY <1>1, <2>1, BacksKept
  <1> QED BY <1>2, <1>3, <1>4, <1>5, <1>6 DEF Good

(* EnqueueNext. *)
LEMMA EnqueueStep == ScanInv /\ EnqueueNext => ScanInv'
  <1> SUFFICES ASSUME ScanInv, EnqueueNext PROVE ScanInv'
    OBVIOUS
  <1>0. TypeOK /\ pc = "enqueue" /\ pc' = pc /\ lastSeen' = lastSeen /\ saw' = saw /\ snap' = snap
        /\ claimed' = claimed /\ done' = done /\ failed' = failed /\ todo' = Tail(todo) /\ todo # << >>
    BY DEF ScanInv, EnqueueNext
  <1>1. PICK i : i = Head(todo)
    OBVIOUS
  <1>2. PICK S : todo \in Seq(S)
    BY DEF ScanInv, TodoIsGood
  <1>3. /\ Len(todo) \in Nat \ {0} /\ todo' \in Seq(S) /\ Len(todo') = Len(todo) - 1 /\ todo[1] = i
        /\ \A k \in 1 .. Len(todo') : todo'[k] = todo[k + 1]
    BY <1>0, <1>1, <1>2
  <1>4. PICK t : t = saw.clock
    OBVIOUS
  <1>5. t \in Nat /\ Good(i, t)
    <2>1. t \in Nat
      BY <1>0, <1>4 DEF TypeOK, Sights
    <2>2. 1 \in 1 .. Len(todo)
      BY <1>3
    <2> QED BY <1>3, <1>4, <2>1, <2>2 DEF ScanInv, TodoIsGood
  <1>6. Everywhere \subseteq Everywhere' /\ Id(i) \in Everywhere'
    <2>1. CASE Id(i) \in snap
      <3>1. pending' = pending
        BY <1>1, <2>1 DEF EnqueueNext
      <3>2. Id(i) \in Everywhere
        BY <1>0, <2>1 DEF ScanInv, MarksAreBacked
      <3> QED BY <1>0, <3>1, <3>2 DEF Everywhere
    <2>2. CASE Id(i) \notin snap
      <3>1. pending' = Enqueued(Id(i))
        BY <1>1, <2>2 DEF EnqueueNext
      <3> QED BY <1>0, <3>1 DEF Everywhere, Enqueued
    <2> QED BY <2>1, <2>2
  <1>7. marks' \in Seen /\ \A m : m = marks' => Backs(m)'
    <2>1. \A m : m = marks => Backs(m)
      BY <1>0 DEF ScanInv, MarksAreBacked
    <2>2. CASE Id(i) \in snap
      <3>1. marks' = marks
        BY <1>1, <2>2 DEF EnqueueNext
      <3> QED BY <1>0, <1>6, <2>1, <3>1, BacksKept DEF TypeOK
    <2>3. CASE Id(i) \notin snap
      <3>1. marks' = Marked(i)
        BY <1>1, <2>3 DEF EnqueueNext
      <3>2. PICK m : m = Marked(i)
        OBVIOUS
      <3>3. m \in Seen /\ Backs(m)'
        BY <1>0, <1>5, <1>6, <2>1, <3>2, MarkedIsBacked
      <3> QED BY <3>1, <3>2, <3>3
    <2> QED BY <2>2, <2>3
  <1>8. TypeOK'
    BY <1>0, <1>7 DEF TypeOK, EnqueueNext, workspace
  <1>9. TodoIsGood'
    <2>1. ASSUME NEW k \in 1 .. Len(todo') PROVE Good(todo'[k], t)
      <3>1. k + 1 \in 1 .. Len(todo) /\ todo'[k] = todo[k + 1]
        BY <1>3
      <3>2. Good(todo[k + 1], t)
        BY <1>4, <3>1 DEF ScanInv, TodoIsGood
      <3> QED BY <3>1, <3>2
    <2> QED BY <1>0, <1>3, <1>4, <2>1 DEF TodoIsGood
  <1>10. MarksAreBacked'
    BY <1>0, <1>6, <1>7, BacksKept DEF ScanInv, MarksAreBacked
  <1>11. SightIsDue'
    <2>1. ASSUME NEW a, NEW b, Coming(<<a, b>>) PROVE Coming(<<a, b>>)'
      <3>1. CASE <<a, b>> \in Everywhere
        BY <1>6, <3>1 DEF Coming
      <3>2. CASE \E k \in 1 .. Len(todo) : todo[k] = <<a, b>>
        <4>1. PICK k \in 1 .. Len(todo) : todo[k] = <<a, b>>
          BY <3>2
        <4>2. CASE k = 1
          <5>1. Id(i) = <<a, b>>
            BY <1>3, <4>1, <4>2 DEF Id
          <5> QED BY <1>6, <5>1 DEF Coming
        <4>3. CASE k # 1
          <5>1. k - 1 \in 1 .. Len(todo') /\ todo'[k - 1] = todo[k]
            BY <1>3, <4>3
          <5> QED BY <4>1, <5>1 DEF Coming
        <4> QED BY <4>2, <4>3
      <3> QED BY <2>1, <3>1, <3>2 DEF Coming
    <2>2. \A w : w = saw' => Due(w)'
      BY <1>0, <2>1, DueKept DEF ScanInv, SightIsDue
    <2> QED BY <2>2 DEF SightIsDue
  <1>12. RunsAreWindows'
    <2>1. CASE runs' = runs
      BY <2>1 DEF ScanInv, RunsAreWindows
    <2>2. CASE runs' # runs
      <3>1. runs' = runs \cup {<<Window(saw.clock), i>>} /\ i[1] = "consolidator_run"
        BY <1>1, <2>2 DEF EnqueueNext
      <3>2. i = <<"consolidator_run", Window(t)>>
        <4>1. \A o : CellKind(o) # "consolidator_run"
          BY DEF CellKind
        <4> QED BY <1>5, <3>1, <4>1 DEF Good
      <3>3. PICK n : n = Window(t)
        OBVIOUS
      <3>4. runs' = runs \cup {<<n, <<"consolidator_run", n>> >>}
        BY <1>4, <3>1, <3>2, <3>3
      <3> QED BY <3>4 DEF ScanInv, RunsAreWindows
    <2> QED BY <2>1, <2>2
  <1> QED BY <1>8, <1>9, <1>10, <1>11, <1>12 DEF ScanInv

(* A scan that is over, by Save or by a kill, holds nothing. *)
LEMMA ScanOver ==
  ASSUME ScanInv, TypeOK', UNCHANGED <<queue, runs>>, pc' = "idle", todo' = << >>,
         lastSeen' \in {lastSeen, Empty} \/ (pc = "enqueue" /\ lastSeen' = marks)
  PROVE  ScanInv'
  <1>1. Everywhere' = Everywhere
    BY DEF Everywhere, queue
  <1>2. \A m : Backs(m) => Backs(m)'
    BY <1>1, BacksKept
  <1>3. Backs(Empty)
    BY DEF Empty, Backs
  <1>4. \A m : m = lastSeen' => Backs(m)'
    BY <1>2, <1>3 DEF ScanInv, MarksAreBacked
  <1>5. TodoIsGood'
    <2>1. << >> \in Seq({}) /\ Len(<< >>) = 0
      OBVIOUS
    <2> QED BY <2>1 DEF TodoIsGood
  <1>6. MarksAreBacked' /\ SightIsDue'
    BY <1>4 DEF MarksAreBacked, SightIsDue
  <1>7. RunsAreWindows'
    BY DEF ScanInv, RunsAreWindows
  <1> QED BY <1>5, <1>6, <1>7 DEF ScanInv

(* Types: the workspace, what the scan remembers, and its control. *)
LEMMA TypeKept ==
  ASSUME ScanInv, Next
  PROVE  EnqueueNext \/ TypeOK'
  <1>0. TypeOK
    BY DEF ScanInv
  <1>1. CASE Detect
    <2>1. Sight \in Sights
      BY <1>0 DEF TypeOK, Sight, Sights, Orphans
    <2> QED BY <1>0, <1>1, <2>1 DEF TypeOK, Detect, workspace, queue
  <1>2. CASE Snapshot
    BY <1>0, <1>2 DEF TypeOK, Snapshot, workspace, queue
  <1>3. Empty \in Seen /\ Nothing \in Sights
    <2>1. Empty \in Seen
      BY DEF Empty, Seen
    <2>2. {} \subseteq 1 .. LastPhase /\ [c \in Cells |-> "in_progress"] \in [Cells -> CellStates]
      BY DEF CellStates
    <2> QED BY <2>1, <2>2 DEF Nothing, Sights
  <1>4. CASE Save
    BY <1>0, <1>3, <1>4 DEF TypeOK, Save, Saved, workspace, queue
  <1>5. CASE Kill
    <2>1. lastSeen' \in Seen
      BY <1>0, <1>3, <1>5 DEF TypeOK, Kill
    <2> QED BY <1>0, <1>3, <1>5, <2>1 DEF TypeOK, Kill, workspace, queue
  <1>6. CASE Elsewhere
    <2>0. UNCHANGED <<lastSeen, pc, memory, kills>>
      BY <1>6 DEF Elsewhere
    <2>1. closed' \subseteq 1 .. LastPhase
      <3>1. closed \subseteq 1 .. LastPhase /\ (closed' = closed \/ \E n \in 1 .. LastPhase : closed' = closed \cup {n})
        BY <1>0, <1>6 DEF TypeOK, Elsewhere
      <3> QED BY <3>1
    <2>3. notes' \in Nat /\ clock' \in Nat
      <3>1. notes \in Nat /\ clock \in Nat /\ notes' \in {notes, notes + 1} /\ clock' \in {clock, clock + 1}
        BY <1>0, <1>6 DEF TypeOK, Elsewhere
      <3> QED BY <3>1
    <2>4. diags' \subseteq Diags /\ stranded' \subseteq Claims /\ present' \subseteq Artifacts
      BY <1>0, <1>6 DEF TypeOK, Elsewhere
    <2>5. claimed' = claimed
      BY <1>6 DEF Elsewhere, queue
    <2>2. cell' \in [Cells -> CellStates]
      <3>1. CASE cell' = cell
        BY <1>0, <3>1 DEF TypeOK
      <3>2. CASE cell' # cell
        <4>1. \E c \in Cells, o \in CellStates : cell' = [cell EXCEPT ![c] = o]
          BY <1>6, <3>2 DEF Elsewhere, CellStates
        <4> QED BY <1>0, <4>1 DEF TypeOK
      <3> QED BY <3>1, <3>2
    <2> QED BY <1>0, <2>0, <2>1, <2>2, <2>3, <2>4, <2>5 DEF TypeOK, memory
  <1>7. ASSUME NEW i \in Everywhere, Serve(i) PROVE TypeOK'
    BY <1>0, <1>7 DEF TypeOK, Serve, memory
  <1>8. ASSUME NEW i \in Everywhere, Finish(i) PROVE TypeOK'
    BY <1>0, <1>8 DEF TypeOK, Finish, memory
  <1> QED BY <1>1, <1>2, <1>4, <1>5, <1>6, <1>7, <1>8 DEF Next, Scan

LEMMA ScanStep == ScanInv /\ [Next]_vars => ScanInv'
  <1> SUFFICES ASSUME ScanInv, [Next]_vars PROVE ScanInv'
    OBVIOUS
  <1>1. CASE UNCHANGED vars
    <2>1. TypeOK' /\ UNCHANGED <<lastSeen, pc, memory, runs>> /\ Everywhere' = Everywhere
      BY <1>1 DEF vars, workspace, memory, queue, TypeOK, ScanInv, Everywhere
    <2> QED BY <2>1, ScanAside
  <1>2. CASE EnqueueNext
    BY <1>2, EnqueueStep
  <1>3. ASSUME Next, ~ EnqueueNext PROVE ScanInv'
    <2>0. TypeOK'
      BY <1>3, TypeKept
    <2>1. CASE Detect
      BY <2>0, <2>1, DetectStep
    <2>2. CASE Snapshot
      BY <2>0, <2>2, SnapshotStep
    <2>3. CASE Save
      <3>1. UNCHANGED <<queue, runs>> /\ pc' = "idle" /\ todo' = << >> /\ pc = "enqueue" /\ lastSeen' = marks
        BY <2>3 DEF Save, Saved
      <3> QED BY <2>0, <3>1, ScanOver
    <2>4. CASE Kill
      <3>1. UNCHANGED <<queue, runs>> /\ pc' = "idle" /\ todo' = << >> /\ lastSeen' \in {lastSeen, Empty}
        BY <2>4 DEF Kill
      <3> QED BY <2>0, <3>1, ScanOver
    <2>5. CASE Elsewhere
      <3>1. UNCHANGED <<lastSeen, pc, memory, runs>> /\ Everywhere' = Everywhere
        BY <2>5 DEF Elsewhere, queue, Everywhere
      <3> QED BY <2>0, <3>1, ScanAside
    <2>6. ASSUME NEW i \in Everywhere, Serve(i) PROVE ScanInv'
      <3>1. UNCHANGED <<lastSeen, pc, memory, runs>> /\ Everywhere \subseteq Everywhere'
        BY <2>6 DEF Serve, Everywhere
      <3> QED BY <2>0, <3>1, ScanAside
    <2>7. ASSUME NEW i \in Everywhere, Finish(i) PROVE ScanInv'
      <3>0. i \in claimed /\ \A x \in claimed : x = i
        BY <2>7 DEF ScanInv, TypeOK, Finish
      <3>1. UNCHANGED <<lastSeen, pc, memory, runs>> /\ Everywhere \subseteq Everywhere'
        BY <2>7, <3>0 DEF Finish, Everywhere
      <3> QED BY <2>0, <3>1, ScanAside
    <2> QED BY <1>3, <2>1, <2>2, <2>3, <2>4, <2>5, <2>6, <2>7 DEF Next, Scan
  <1> QED BY <1>1, <1>2, <1>3

-----------------------------------------------------------------------------
(* A mark on disk stands for an item in the queue, and one window has one       *)
(* consolidator run, whatever is killed or edited during a scan                 *)
(* (scan, and detect_consolidator_due's dedup key).                             *)
THEOREM MarksStayBacked == Spec => []MarkedAndOnce
  <1>1. ScanInv => MarkedAndOnce
    <2> SUFFICES ASSUME ScanInv PROVE MarkedAndOnce
      OBVIOUS
    <2>1. Backs(lastSeen)
      BY DEF ScanInv, MarksAreBacked
    <2>2. ASSUME NEW m \in lastSeen.cells PROVE \E o \in Outcomes : <<m[2], <<m[1], o>> >> \in Everywhere
      <3>1. PICK o \in Outcomes : m[2] = CellKind(o) /\ <<CellKind(o), <<m[1], o>> >> \in Everywhere
        BY <2>1 DEF Backs
      <3> QED BY <3>1
    <2>3. MarksBacked
      BY <2>1, <2>2 DEF Backs, MarksBacked
    <2>4. ConsolidatorOncePerWindow
      BY DEF ScanInv, RunsAreWindows, ConsolidatorOncePerWindow
    <2> QED BY <2>3, <2>4 DEF MarkedAndOnce
  <1> QED BY <1>1, ScanStarts, ScanStep, PTL DEF Spec

(* A scan that runs to its end has announced what lay in the workspace when it *)
(* began, whatever was edited meanwhile and whatever killed scans left behind  *)
(* (scan).                                                                     *)
THEOREM ScansAnnounce == Spec => ScanAnnounces
  <1>1. ScanInv /\ [Next]_vars =>
          [pc = "enqueue" /\ pc' = "idle" /\ kills' = kills => Announced(saw)]_vars
    <2> SUFFICES ASSUME ScanInv, Next, pc = "enqueue", pc' = "idle", kills' = kills PROVE Announced(saw)
      OBVIOUS
    <2>1. todo = << >>
      <3>1. CASE Save
        BY <3>1 DEF Save
      <3>2. CASE Kill
        BY <3>2 DEF Kill, ScanInv, TypeOK
      <3>3. CASE Detect \/ Snapshot \/ EnqueueNext
        BY <3>3 DEF Detect, Snapshot, EnqueueNext
      <3>4. CASE Elsewhere \/ \E i \in Everywhere : Serve(i) \/ Finish(i)
        BY <3>4 DEF Elsewhere, Serve, Finish
      <3> QED BY <3>1, <3>2, <3>3, <3>4 DEF Next, Scan
    <2>2. PICK w : w = saw
      OBVIOUS
    <2>3. Due(w)
      BY <2>2 DEF ScanInv, SightIsDue
    <2>4. \A x : Coming(x) => x \in Everywhere
      <3>1. Len(todo) = 0
        BY <2>1
      <3> QED BY <3>1 DEF Coming
    <2>5. ASSUME NEW c \in Cells, w.cell[c] \in Outcomes
          PROVE  \E o \in Outcomes : /\ (o = "completed") = (w.cell[c] = "completed")
                                    /\ <<CellKind(w.cell[c]), <<c, o>> >> \in Everywhere
      <3>1. PICK o \in Outcomes : CellKind(o) = CellKind(w.cell[c]) /\ Coming(<<CellKind(o), <<c, o>> >>)
        BY <2>3, <2>5 DEF Due
      <3>2. (o = "completed") <=> (w.cell[c] = "completed")
        BY <3>1 DEF CellKind
      <3>3. (o = "completed") = (w.cell[c] = "completed")
        BY <3>2
      <3>4. <<CellKind(w.cell[c]), <<c, o>> >> \in Everywhere
        BY <2>4, <3>1
      <3> QED BY <3>3, <3>4
    <2>6. Announced(w)
      BY <2>3, <2>4, <2>5 DEF Due, Announced
    <2> QED BY <2>2, <2>6
  <1> QED BY <1>1, ScanStarts, ScanStep, PTL DEF Spec, ScanAnnounces
=============================================================================
