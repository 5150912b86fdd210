------------------------------ MODULE ToolProofs ------------------------------
(***************************************************************************)
(* Theorems about the modules that MCTools checks side by side, one after  *)
(* the other: the tools that keep files of their own, for any number of    *)
(* callers, files, runs and kills, and the C memory pool.                  *)
(***************************************************************************)
EXTENDS NoteFiles, EpisodicAudit, ForensicDriver, EvalHarness, B4Trigger, Calibration, SessionBrief,
        RetrievalWorker, MemoryPool, CostRollup, HspaAdapter, TrainingDigest,
        FiniteSetTheorems, SequenceTheorems, WellFoundedInduction, TLAPS

-----------------------------------------------------------------------------
(* Least and greatest elements, and sums over finite sets. *)

LEMMA LeastOfNats ==
  ASSUME NEW S \in SUBSET Nat, S # {}
  PROVE  Min(S) \in S /\ \A x \in S : Min(S) <= x
  <1>1. PICK m \in S : \A x \in S : ~ (<<x, m>> \in OpToRel(<, Nat))
    BY NatLessThanWellFounded, WFMin
  <1>2. \A x, y \in Nat : <<x, y>> \in OpToRel(<, Nat) <=> x < y
    BY DEF OpToRel
  <1>3. \A x \in S : m <= x
    <2> TAKE x \in S
    <2>1. m \in Nat /\ x \in Nat /\ ~ (x < m)
      BY <1>1, <1>2
    <2> QED BY <2>1
  <1> QED BY <1>3 DEF Min

LEMMA GreatestOfBounded ==
  ASSUME NEW S \in SUBSET Nat, S # {}, NEW n \in Nat, \A x \in S : x <= n
  PROVE  Max(S) \in S /\ \A x \in S : x <= Max(S)
  <1> DEFINE gaps == {n - x : x \in S}
  <1>1. gaps \subseteq Nat /\ gaps # {}
    <2>1. gaps \subseteq Nat
      OBVIOUS
    <2>2. gaps # {}
      OBVIOUS
    <2> QED BY <2>1, <2>2
  <1>2. Min(gaps) \in gaps /\ \A d \in gaps : Min(gaps) <= d
    <2> HIDE DEF gaps
    <2> QED BY <1>1, LeastOfNats
  <1>3. PICK m \in S : Min(gaps) = n - m
    BY <1>2
  <1>4. \A x \in S : x <= m
    <2> TAKE x \in S
    <2>1. n - x \in gaps
      OBVIOUS
    <2>2. n - m <= n - x
      <3> HIDE DEF gaps
      <3> QED BY <1>2, <1>3, <2>1
    <2> QED BY <2>2
  <1>5. \E y \in S : \A x \in S : y >= x
    BY <1>4
  <1> QED BY <1>5 DEF Max

(* The fold of the community modules that sums a function e over a finite set: it *)
(* takes the elements one by one, in the order that CHOOSE gives them.            *)
AnyOf(s) == CHOOSE x \in s : TRUE
AddNext(g, e, s) == IF s = {} THEN 0 ELSE e[AnyOf(s)] + g[s \ {AnyOf(s)}]
Sums(g, e, S) == g = [s \in SUBSET S |-> AddNext(g, e, s)]
UpTo(S, n) == {s \in SUBSET S : Cardinality(s) <= n}

LEMMA OneLess ==
  ASSUME NEW S, IsFiniteSet(S), NEW s \in SUBSET S, s # {}
  PROVE  /\ AnyOf(s) \in s /\ s \ {AnyOf(s)} \in SUBSET S /\ Cardinality(s) \in Nat
         /\ Cardinality(s \ {AnyOf(s)}) \in Nat /\ Cardinality(s) = Cardinality(s \ {AnyOf(s)}) + 1
  <1>1. AnyOf(s) \in s
    BY DEF AnyOf
  <1>2. IsFiniteSet(s)
    BY FS_Subset
  <1>3. Cardinality(s \ {AnyOf(s)}) = Cardinality(s) - 1 /\ Cardinality(s) \in Nat /\ Cardinality(s) > 0
    BY <1>1, <1>2, FS_RemoveElement, FS_CardinalityType, FS_EmptySet
  <1> QED BY <1>1, <1>3

(* A fold over the subsets of S, that takes out pick[s] at each step and goes on with F. *)
FoldNext(g, F, base, pick, s) == IF s = {} THEN base ELSE F[<<pick[s], g[s \ {pick[s]}]>>]
FoldsUpTo(g, F, base, pick, S, T, n) ==
    g \in [UpTo(S, n) -> T] /\ \A s \in UpTo(S, n) : g[s] = FoldNext(g, F, base, pick, s)

Folds(g, F, base, pick, S, T) ==
    g \in [SUBSET S -> T] /\ \A s \in SUBSET S : g[s] = FoldNext(g, F, base, pick, s)
Picks(pick, S) == \A s \in SUBSET S : s # {} => pick[s] \in s

LEMMA PickedLess ==
  ASSUME NEW S, IsFiniteSet(S), NEW s \in SUBSET S, NEW x \in s
  PROVE  /\ s \ {x} \in SUBSET S /\ Cardinality(s) \in Nat
         /\ Cardinality(s \ {x}) \in Nat /\ Cardinality(s) = Cardinality(s \ {x}) + 1
  <1>2. IsFiniteSet(s)
    BY FS_Subset
  <1>3. Cardinality(s \ {x}) = Cardinality(s) - 1 /\ Cardinality(s) \in Nat /\ Cardinality(s) > 0
    BY <1>2, FS_RemoveElement, FS_CardinalityType, FS_EmptySet
  <1> QED BY <1>3

LEMMA FoldsToExist ==
  ASSUME NEW S, IsFiniteSet(S), NEW T, NEW base \in T, NEW F \in [S \X T -> T],
         NEW pick, Picks(pick, S), NEW n \in Nat
  PROVE  \E g : FoldsUpTo(g, F, base, pick, S, T, n)
  <1> DEFINE bad == {m \in Nat : ~ \E g : FoldsUpTo(g, F, base, pick, S, T, m)}
  <1>1. SUFFICES ASSUME bad # {} PROVE FALSE
    OBVIOUS
  <1>2. PICK m : m = Min(bad)
    OBVIOUS
  <1>3. m \in bad /\ \A x \in bad : m <= x
    <2>1. bad \in SUBSET Nat
      OBVIOUS
    <2> HIDE DEF bad
    <2> QED BY <1>1, <1>2, <2>1, LeastOfNats
  <1>4. m \in Nat /\ ~ \E g : FoldsUpTo(g, F, base, pick, S, T, m)
    BY <1>3
  <1>5. CASE m = 0
    <2> DEFINE g == [s \in UpTo(S, 0) |-> base]
    <2>1. ASSUME NEW s \in UpTo(S, 0) PROVE s = {}
      <3>1. s \in SUBSET S /\ Cardinality(s) <= 0
        BY DEF UpTo
      <3>2. SUFFICES ASSUME NEW x \in s PROVE FALSE
        OBVIOUS
      <3>3. Cardinality(s \ {x}) \in Nat /\ Cardinality(s) = Cardinality(s \ {x}) + 1
        BY <3>1, <3>2, PickedLess
      <3> QED BY <3>1, <3>3
    <2>2. FoldsUpTo(g, F, base, pick, S, T, 0)
      BY <2>1 DEF FoldsUpTo, FoldNext
    <2> QED BY <1>4, <1>5, <2>2
  <1>6. CASE m > 0
    <2>1. m - 1 \in Nat /\ m - 1 \notin bad
      BY <1>3, <1>4, <1>6
    <2>2. PICK g : FoldsUpTo(g, F, base, pick, S, T, m - 1)
      BY <2>1
    <2> DEFINE h == [s \in UpTo(S, m) |-> FoldNext(g, F, base, pick, s)]
    <2>3. ASSUME NEW s \in UpTo(S, m) PROVE h[s] \in T /\ h[s] = FoldNext(h, F, base, pick, s)
      <3>1. CASE s = {}
        BY <3>1 DEF FoldNext
      <3>2. CASE s # {}
        <4> PICK t : t = s \ {pick[s]}
          OBVIOUS
        <4>1. s \in SUBSET S /\ Cardinality(s) <= m
          BY DEF UpTo
        <4>2. t \in UpTo(S, m - 1) /\ t \in UpTo(S, m) /\ pick[s] \in S
          <5>1. pick[s] \in s
            BY <3>2, <4>1 DEF Picks
          <5> QED BY <1>4, <4>1, <5>1, PickedLess DEF UpTo
        <4>3. g[t] \in T /\ g[t] = FoldNext(g, F, base, pick, t)
          BY <2>2, <4>2 DEF FoldsUpTo
        <4>4. h[t] = g[t]
          BY <4>2, <4>3
        <4>5. h[s] = F[<<pick[s], g[t]>>]
          BY <3>2 DEF FoldNext
        <4>6. F[<<pick[s], g[t]>>] \in T
          BY <4>2, <4>3
        <4> HIDE DEF h
        <4> QED BY <3>2, <4>4, <4>5, <4>6 DEF FoldNext
      <3> QED BY <3>1, <3>2
    <2>4. h \in [UpTo(S, m) -> T]
      BY <2>3
    <2>5. FoldsUpTo(h, F, base, pick, S, T, m)
      <3> HIDE DEF h
      <3> QED BY <2>3, <2>4 DEF FoldsUpTo
    <2> QED BY <1>4, <2>5
  <1> QED BY <1>4, <1>5, <1>6

LEMMA FoldsExist ==
  ASSUME NEW S, IsFiniteSet(S), NEW T, NEW base \in T, NEW F \in [S \X T -> T],
         NEW pick, Picks(pick, S)
  PROVE  \E g : Folds(g, F, base, pick, S, T)
  <1>1. PICK n : n = Cardinality(S)
    OBVIOUS
  <1>2. n \in Nat
    BY <1>1, FS_CardinalityType
  <1>3. UpTo(S, n) = SUBSET S
    <2>1. ASSUME NEW s \in SUBSET S PROVE Cardinality(s) <= n
      BY <1>1, FS_Subset
    <2> QED BY <2>1 DEF UpTo
  <1>4. PICK g : FoldsUpTo(g, F, base, pick, S, T, n)
    BY <1>2, FoldsToExist
  <1>5. g \in [SUBSET S -> T] /\ \A s \in SUBSET S : g[s] = FoldNext(g, F, base, pick, s)
    BY <1>3, <1>4 DEF FoldsUpTo
  <1> QED BY <1>5 DEF Folds

(* There is such a fold... *)
LEMMA SumsExist ==
  ASSUME NEW S, IsFiniteSet(S), NEW e \in [S -> Int]
  PROVE  \E g : Sums(g, e, S)
  <1> DEFINE pick == [s \in SUBSET S |-> AnyOf(s)]
             F == [p \in S \X Int |-> e[p[1]] + p[2]]
  <1>1. Picks(pick, S)
    BY DEF AnyOf, Picks
  <1>2. F \in [S \X Int -> Int] /\ 0 \in Int
    <2>1. ASSUME NEW p \in S \X Int PROVE e[p[1]] + p[2] \in Int
      <3>1. e[p[1]] \in Int /\ p[2] \in Int
        OBVIOUS
      <3> QED BY <3>1
    <2> QED BY <2>1
  <1>3. PICK g : Folds(g, F, 0, pick, S, Int)
    <2> HIDE DEF pick, F
    <2> QED BY <1>1, <1>2, FoldsExist
  <1>4. ASSUME NEW s \in SUBSET S PROVE g[s] = AddNext(g, e, s)
    <2>1. CASE s = {}
      BY <1>3, <2>1 DEF Folds, FoldNext, AddNext
    <2>2. CASE s # {}
      <3> PICK x : x = AnyOf(s)
        OBVIOUS
      <3>1. x \in s /\ pick[s] = x /\ s \ {x} \in SUBSET S
        BY <2>2 DEF AnyOf
      <3>2. g[s \ {x}] \in Int /\ g[s] = F[<<x, g[s \ {x}]>>]
        BY <1>3, <2>2, <3>1 DEF Folds, FoldNext
      <3>3. F[<<x, g[s \ {x}]>>] = e[x] + g[s \ {x}]
        BY <3>1, <3>2
      <3> QED BY <2>2, <3>2, <3>3 DEF AddNext
    <2> QED BY <2>1, <2>2
  <1>5. g = [s \in SUBSET S |-> AddNext(g, e, s)]
    BY <1>3, <1>4 DEF Folds
  <1> QED BY <1>5 DEF Sums

(* ... and what it gives is an integer. *)
LEMMA SumsAreInt ==
  ASSUME NEW S, IsFiniteSet(S), NEW e \in [S -> Int], NEW g, Sums(g, e, S)
  PROVE  \A s \in SUBSET S : g[s] \in Int
  <1> DEFINE bad == {m \in Nat : \E s \in SUBSET S : Cardinality(s) = m /\ g[s] \notin Int}
  <1>1. CASE bad = {}
    <2> TAKE s \in SUBSET S
    <2>1. Cardinality(s) \in Nat
      BY FS_Subset, FS_CardinalityType
    <2> QED BY <1>1, <2>1
  <1>2. CASE bad # {}
    <2>1. PICK m : m = Min(bad)
      OBVIOUS
    <2>2. m \in bad /\ \A x \in bad : m <= x
      <3>1. bad \in SUBSET Nat
        OBVIOUS
      <3> HIDE DEF bad
      <3> QED BY <1>2, <2>1, <3>1, LeastOfNats
    <2>3. PICK s \in SUBSET S : Cardinality(s) = m /\ g[s] \notin Int
      BY <2>2
    <2>4. g[s] = AddNext(g, e, s)
      BY DEF Sums
    <2>5. s # {}
      BY <2>3, <2>4 DEF AddNext
    <2> PICK t : t = s \ {AnyOf(s)}
      OBVIOUS
    <2>6. AnyOf(s) \in S /\ t \in SUBSET S /\ Cardinality(t) \in Nat /\ m = Cardinality(t) + 1
      BY <2>3, <2>5, OneLess
    <2>7. Cardinality(t) \notin bad
      <3> HIDE DEF bad
      <3>1. ~ (m <= Cardinality(t))
        BY <2>6
      <3> QED BY <2>2, <3>1
    <2>8. g[t] \in Int
      BY <2>6, <2>7
    <2>9. e[AnyOf(s)] \in Int
      BY <2>6
    <2> QED BY <2>3, <2>4, <2>5, <2>8, <2>9 DEF AddNext
  <1> QED BY <1>1, <1>2

(* A sum of naturals is one. *)
LEMMA SumsAreNat ==
  ASSUME NEW S, IsFiniteSet(S), NEW e \in [S -> Nat], NEW g, Sums(g, e, S)
  PROVE  \A s \in SUBSET S : g[s] \in Nat
  <1> DEFINE bad == {m \in Nat : \E s \in SUBSET S : Cardinality(s) = m /\ g[s] \notin Nat}
  <1>1. CASE bad = {}
    <2> TAKE s \in SUBSET S
    <2>1. Cardinality(s) \in Nat
      BY FS_Subset, FS_CardinalityType
    <2> QED BY <1>1, <2>1
  <1>2. CASE bad # {}
    <2>1. PICK m : m = Min(bad)
      OBVIOUS
    <2>2. m \in bad /\ \A x \in bad : m <= x
      <3>1. bad \in SUBSET Nat
        OBVIOUS
      <3> HIDE DEF bad
      <3> QED BY <1>2, <2>1, <3>1, LeastOfNats
    <2>3. PICK s \in SUBSET S : Cardinality(s) = m /\ g[s] \notin Nat
      BY <2>2
    <2>4. g[s] = AddNext(g, e, s)
      BY DEF Sums
    <2>5. s # {}
      BY <2>3, <2>4 DEF AddNext
    <2> PICK t : t = s \ {AnyOf(s)}
      OBVIOUS
    <2>6. AnyOf(s) \in S /\ t \in SUBSET S /\ Cardinality(t) \in Nat /\ m = Cardinality(t) + 1
      BY <2>3, <2>5, OneLess
    <2>7. Cardinality(t) \notin bad
      <3> HIDE DEF bad
      <3>1. ~ (m <= Cardinality(t))
        BY <2>6
      <3> QED BY <2>2, <3>1
    <2>8. g[t] \in Nat
      BY <2>6, <2>7
    <2>9. e[AnyOf(s)] \in Nat
      BY <2>6
    <2> QED BY <2>3, <2>4, <2>5, <2>8, <2>9 DEF AddNext
  <1> QED BY <1>1, <1>2

(* A sum takes out any element... *)
LEMMA SumsTakeOut ==
  ASSUME NEW S, IsFiniteSet(S), NEW e \in [S -> Int], NEW g, Sums(g, e, S)
  PROVE  \A s \in SUBSET S : \A x \in s : g[s] = e[x] + g[s \ {x}]
  <1> DEFINE Takes(s) == \A x \in s : g[s] = e[x] + g[s \ {x}]
             bad == {m \in Nat : \E s \in SUBSET S : Cardinality(s) = m /\ ~ Takes(s)}
  <1>0. \A s \in SUBSET S : g[s] \in Int /\ g[s] = AddNext(g, e, s)
    BY SumsAreInt DEF Sums
  <1>1. CASE bad = {}
    <2> TAKE s \in SUBSET S
    <2>1. Cardinality(s) \in Nat
      BY FS_Subset, FS_CardinalityType
    <2>2. Takes(s)
      BY <1>1, <2>1
    <2> QED BY <2>2
  <1>2. CASE bad # {}
    <2>1. PICK m : m = Min(bad)
      OBVIOUS
    <2>2. m \in bad /\ \A x \in bad : m <= x
      <3>1. bad \in SUBSET Nat
        OBVIOUS
      <3> HIDE DEF bad
      <3> QED BY <1>2, <2>1, <3>1, LeastOfNats
    <2>3. PICK s \in SUBSET S : Cardinality(s) = m /\ ~ Takes(s)
      BY <2>2
    <2>4. PICK x \in s : g[s] # e[x] + g[s \ {x}]
      BY <2>3
    <2> PICK y : y = AnyOf(s)
      OBVIOUS
    <2>5. y \in s /\ m \in Nat
      BY <2>2, <2>4 DEF AnyOf
    <2>6. g[s] = e[y] + g[s \ {y}]
      <3> HIDE DEF Takes, bad
      <3>1. s # {} /\ g[s] = AddNext(g, e, s)
        BY <1>0, <2>4
      <3>2. g[s] = e[AnyOf(s)] + g[s \ {AnyOf(s)}]
        BY <3>1 DEF AddNext
      <3> QED BY <3>2
    <2>7. x # y
      BY <2>4, <2>6
    <2> PICK t : t = s \ {x}
      OBVIOUS
    <2> PICK u : u = s \ {y}
      OBVIOUS
    <2>8. t \in SUBSET S /\ u \in SUBSET S /\ y \in t /\ x \in u /\ t \ {y} = u \ {x} /\ x \in S /\ y \in S
      BY <2>5, <2>7
    <2>9. Cardinality(t) \in Nat /\ Cardinality(u) \in Nat /\ Cardinality(t) < m /\ Cardinality(u) < m
      <3>1. IsFiniteSet(s)
        BY FS_Subset
      <3>2. Cardinality(t) = Cardinality(s) - 1 /\ Cardinality(u) = Cardinality(s) - 1
        BY <2>5, <3>1, FS_RemoveElement
      <3>3. Cardinality(t) \in Nat /\ Cardinality(u) \in Nat
        BY <2>8, FS_Subset, FS_CardinalityType
      <3> QED BY <2>3, <2>5, <3>2, <3>3
    <2>10. Cardinality(t) \notin bad /\ Cardinality(u) \notin bad
      <3> HIDE DEF bad
      <3>1. ~ (m <= Cardinality(t)) /\ ~ (m <= Cardinality(u))
        BY <2>5, <2>9
      <3> QED BY <2>2, <3>1
    <2>11. Takes(t) /\ Takes(u)
      <3> HIDE DEF Takes
      <3> QED BY <2>8, <2>9, <2>10
    <2>12. g[t] = e[y] + g[t \ {y}] /\ g[u] = e[x] + g[u \ {x}]
      BY <2>8, <2>11
    <2> PICK v : v = t \ {y}
      OBVIOUS
    <2>13. v \in SUBSET S /\ v = u \ {x}
      BY <2>8
    <2>14. e[x] \in Int /\ e[y] \in Int /\ g[v] \in Int /\ g[t] \in Int /\ g[u] \in Int
      BY <1>0, <2>8, <2>13
    <2>15. g[s] = e[y] + (e[x] + g[v])
      BY <2>6, <2>12, <2>13
    <2>16. g[s] = e[x] + g[t]
      BY <2>12, <2>14, <2>15
    <2> QED BY <2>4, <2>16
  <1> QED BY <1>1, <1>2

(* ... and grows with what it sums. *)
LEMMA SumsGrow ==
  ASSUME NEW S, IsFiniteSet(S), NEW e \in [S -> Int], NEW g, Sums(g, e, S),
         NEW T, IsFiniteSet(T), NEW d \in [T -> Int], NEW h, Sums(h, d, T)
  PROVE  \A s \in SUBSET S : s \subseteq T /\ (\A x \in s : e[x] <= d[x]) => g[s] <= h[s]
  <1> DEFINE Grows(s) == s \subseteq T /\ (\A x \in s : e[x] <= d[x]) => g[s] <= h[s]
             bad == {m \in Nat : \E s \in SUBSET S : Cardinality(s) = m /\ ~ Grows(s)}
  <1>0. /\ \A s \in SUBSET S : g[s] \in Int /\ g[s] = AddNext(g, e, s)
        /\ \A s \in SUBSET T : h[s] \in Int /\ h[s] = AddNext(h, d, s)
    BY SumsAreInt DEF Sums
  <1>1. CASE bad = {}
    <2> TAKE s \in SUBSET S
    <2>1. Cardinality(s) \in Nat
      BY FS_Subset, FS_CardinalityType
    <2>2. Grows(s)
      BY <1>1, <2>1
    <2> QED BY <2>2
  <1>2. CASE bad # {}
    <2>1. PICK m : m = Min(bad)
      OBVIOUS
    <2>2. m \in bad /\ \A x \in bad : m <= x
      <3>1. bad \in SUBSET Nat
        OBVIOUS
      <3> HIDE DEF bad
      <3> QED BY <1>2, <2>1, <3>1, LeastOfNats
    <2>3. PICK s \in SUBSET S : Cardinality(s) = m /\ ~ Grows(s)
      BY <2>2
    <2>4. s \in SUBSET T /\ (\A x \in s : e[x] <= d[x]) /\ ~ (g[s] <= h[s])
      BY <2>3
    <2>5. s # {}
      <3>1. SUFFICES ASSUME s = {} PROVE FALSE
        OBVIOUS
      <3>2. g[s] = AddNext(g, e, s) /\ h[s] = AddNext(h, d, s)
        BY <1>0, <2>4
      <3>3. g[s] = 0 /\ h[s] = 0
        BY <3>1, <3>2 DEF AddNext
      <3> QED BY <2>4, <3>3
    <2> PICK y : y = AnyOf(s)
      OBVIOUS
    <2> PICK u : u = s \ {y}
      OBVIOUS
    <2>6. y \in s /\ u \in SUBSET S /\ Cardinality(u) \in Nat /\ m = Cardinality(u) + 1
      BY <2>3, <2>5, OneLess
    <2>7. u \in SUBSET T /\ y \in S /\ y \in T /\ \A x \in u : e[x] <= d[x]
      BY <2>4, <2>6
    <2>8. Grows(u)
      <3>1. Cardinality(u) \notin bad
        <4> HIDE DEF bad
        <4>1. ~ (m <= Cardinality(u))
          BY <2>6
        <4> QED BY <2>2, <4>1
      <3> HIDE DEF Grows
      <3> QED BY <2>6, <3>1
    <2>9. g[u] <= h[u] /\ g[u] \in Int /\ h[u] \in Int
      BY <1>0, <2>6, <2>7, <2>8
    <2>10. g[s] = e[y] + g[u] /\ h[s] = d[y] + h[u]
      BY <1>0, <2>4, <2>5 DEF AddNext
    <2>11. e[y] \in Int /\ d[y] \in Int /\ e[y] <= d[y]
      BY <2>4, <2>6, <2>7
    <2> QED BY <2>4, <2>9, <2>10, <2>11
  <1> QED BY <1>1, <1>2

(* A sum over one element more is at least the old one and that element. *)
LEMMA SumsGrowByOne ==
  ASSUME NEW I, IsFiniteSet(I), NEW J, IsFiniteSet(J), I \subseteq J, NEW k \in J, J \ {k} = I,
         NEW c \in [I -> Int], NEW d \in [J -> Int], \A i \in I : c[i] <= d[i],
         NEW g, Sums(g, c, I), NEW h, Sums(h, d, J)
  PROVE  g[I] \in Int /\ h[J] \in Int /\ g[I] + d[k] <= h[J]
  <1>1. I \in SUBSET I /\ J \in SUBSET J /\ I \in SUBSET J
    OBVIOUS
  <1>2. g[I] <= h[I]
    BY <1>1, SumsGrow
  <1>3. h[J] = d[k] + h[I]
    BY <1>1, SumsTakeOut
  <1>4. g[I] \in Int /\ h[I] \in Int /\ h[J] \in Int /\ d[k] \in Int
    BY <1>1, SumsAreInt
  <1> QED BY <1>2, <1>3, <1>4

(* Sums of what is equal are equal. *)
Agree(e, d, s) == \A x \in s : e[x] = d[x]

LEMMA SumsAgree ==
  ASSUME NEW S, IsFiniteSet(S), NEW e \in [S -> Int], NEW g, Sums(g, e, S),
         NEW T, IsFiniteSet(T), NEW d \in [T -> Int], NEW h, Sums(h, d, T),
         NEW s \in SUBSET S, s \subseteq T, Agree(e, d, s)
  PROVE  g[s] = h[s] /\ g[s] \in Int
  <1>1. s \in SUBSET T /\ g[s] \in Int
    BY SumsAreInt
  <1>2. h[s] \in Int
    BY <1>1, SumsAreInt
  <1>3. \A x \in s : e[x] <= d[x] /\ d[x] <= e[x]
    <2> TAKE x \in s
    <2>1. e[x] \in Int /\ e[x] = d[x]
      BY DEF Agree
    <2> QED BY <2>1
  <1>4. g[s] <= h[s]
    BY <1>3, SumsGrow
  <1>5. h[s] <= g[s]
    BY <1>1, <1>3, SumsGrow
  <1> QED BY <1>1, <1>2, <1>4, <1>5

LEMMA SumsExtend ==
  ASSUME NEW I, IsFiniteSet(I), NEW J, IsFiniteSet(J), I \subseteq J, NEW k \in J, J \ {k} = I,
         NEW c \in [I -> Int], NEW d \in [J -> Int], Agree(c, d, I),
         NEW g, Sums(g, c, I), NEW h, Sums(h, d, J)
  PROVE  h[J] = g[I] + d[k]
  <1>1. I \in SUBSET I /\ J \in SUBSET J /\ I \in SUBSET J
    OBVIOUS
  <1>2. g[I] = h[I] /\ g[I] \in Int
    BY <1>1, SumsAgree
  <1>3. h[J] = d[k] + h[I]
    BY <1>1, SumsTakeOut
  <1>4. d[k] \in Int
    OBVIOUS
  <1> QED BY <1>2, <1>3, <1>4

(* What the fold gives for all of S. *)
SumIs(e, S, n) == \E g : Sums(g, e, S) /\ n = g[S]

LEMMA TotalOnce ==
  ASSUME NEW S, IsFiniteSet(S), NEW e \in [S -> Int], NEW m, NEW n, SumIs(e, S, m), SumIs(e, S, n)
  PROVE  m = n
  <1>1. PICK g : Sums(g, e, S) /\ m = g[S]
    BY DEF SumIs
  <1>2. PICK h : Sums(h, e, S) /\ n = h[S]
    BY DEF SumIs
  <1>3. S \in SUBSET S /\ S \subseteq S /\ Agree(e, e, S)
    BY DEF Agree
  <1>4. g[S] = h[S]
    BY <1>1, <1>2, <1>3, SumsAgree
  <1> QED BY <1>1, <1>2, <1>4

(* d sums what c does and the element k. *)
OneMore(c, I, d, J, k) ==
    /\ IsFiniteSet(I) /\ IsFiniteSet(J) /\ I \subseteq J /\ k \in J /\ J \ {k} = I
    /\ c \in [I -> Int] /\ d \in [J -> Int] /\ Agree(c, d, I)

LEMMA TotalExtends ==
  ASSUME NEW I, NEW J, NEW c, NEW d, NEW k, OneMore(c, I, d, J, k), NEW m, NEW n, SumIs(c, I, m), SumIs(d, J, n)
  PROVE  n = m + d[k]
  <1>0. /\ IsFiniteSet(I) /\ IsFiniteSet(J) /\ I \subseteq J /\ k \in J /\ J \ {k} = I
        /\ c \in [I -> Int] /\ d \in [J -> Int] /\ Agree(c, d, I)
    BY DEF OneMore
  <1>1. PICK g : Sums(g, c, I) /\ m = g[I]
    BY DEF SumIs
  <1>2. PICK h : Sums(h, d, J) /\ n = h[J]
    BY DEF SumIs
  <1>3. h[J] = g[I] + d[k]
    BY <1>0, <1>1, <1>2, SumsExtend
  <1> QED BY <1>1, <1>2, <1>3

-----------------------------------------------------------------------------
(* The retrieval worker. *)

(* The lines of the pipeline are of consecutive queries, up to the last one asked. *)
Pending == Len(buffered) + Len(answers) + Len(questions)
Awaits(c) == step[c] \in {"select", "read"}
WorkerTyped ==
    /\ worker \in {"up", "gone"}
    /\ questions \in Seq(Nat) /\ answers \in Seq(Nat) /\ buffered \in Seq(Nat)
    /\ step \in [Askers -> {"idle", "select", "read", "reap"}]
    /\ asked \in [Askers -> Nat] /\ got \in [Askers -> Nat]
    /\ written \in Nat /\ late \in Nat /\ shared \in BOOLEAN
Alone == \A c, d \in Askers : step[c] # "idle" /\ step[d] # "idle" => c = d
Consecutive ==
    /\ \A i \in 1 .. Len(buffered) : buffered[i] = written - Pending + i
    /\ \A i \in 1 .. Len(answers) : answers[i] = written - Pending + Len(buffered) + i
    /\ \A i \in 1 .. Len(questions) : questions[i] = written - Pending + Len(buffered) + Len(answers) + i
InUse == (\A c \in Askers : step[c] # "reap") /\ (worker = "up" \/ \E c \in Askers : Awaits(c))
Flowing ==
    /\ Consecutive /\ Pending <= written
    /\ Pending <= late + 1 /\ ((\A c \in Askers : ~ Awaits(c)) => Pending <= late)
AwaitsLast == \A c \in Askers : Awaits(c) => asked[c] = written /\ got[c] = 0
Lag(c) == got[c] = 0 \/ asked[c] - got[c] \in 0 .. late
WorkerInv ==
    /\ WorkerTyped
    /\ ~ shared => Alone /\ (InUse => Flowing) /\ AwaitsLast /\ \A c \in Askers : Lag(c)

LEMMA AppendedLine ==
  ASSUME NEW s \in Seq(Nat), NEW n \in Nat
  PROVE  /\ Append(s, n) \in Seq(Nat) /\ s \o <<n>> = Append(s, n)
         /\ Len(Append(s, n)) = Len(s) + 1
         /\ \A i \in 1 .. Len(s) + 1 : Append(s, n)[i] = IF i = Len(s) + 1 THEN n ELSE s[i]
  OBVIOUS

LEMMA TakenLine ==
  ASSUME NEW s \in Seq(Nat), s # << >>
  PROVE  /\ Tail(s) \in Seq(Nat) /\ Head(s) \in Nat /\ Head(s) = s[1]
         /\ Len(s) \in Nat /\ Len(s) >= 1 /\ Len(Tail(s)) = Len(s) - 1
         /\ \A i \in 1 .. Len(s) - 1 : Tail(s)[i] = s[i + 1]
  OBVIOUS

LEMMA WorkerStarts == WorkerInit => WorkerInv
  <1> SUFFICES ASSUME WorkerInit PROVE WorkerInv
    OBVIOUS
  <1>1. WorkerTyped
    <2>1. shared \in BOOLEAN
      BY DEF WorkerInit
    <2>2. << >> \in Seq(Nat)
      OBVIOUS
    <2> QED BY <2>1, <2>2 DEF WorkerInit, WorkerTyped
  <1>2. ~ InUse
    BY DEF WorkerInit, InUse, Awaits
  <1> QED BY <1>1, <1>2 DEF WorkerInit, WorkerInv, Alone, Awaits, AwaitsLast, Lag

LEMMA WorkerStep == WorkerInv /\ [WorkerNext]_workerVars => WorkerInv'
  <1> SUFFICES ASSUME WorkerInv, [WorkerNext]_workerVars PROVE WorkerInv'
    OBVIOUS
  <1>t. WorkerTyped
    BY DEF WorkerInv
  <1>n. Len(questions) \in Nat /\ Len(answers) \in Nat /\ Len(buffered) \in Nat /\ Pending \in Nat
    BY <1>t DEF WorkerTyped, Pending
  <1>1. CASE UNCHANGED workerVars
    BY <1>1 DEF workerVars, WorkerInv, WorkerTyped, Alone, InUse, Flowing, Consecutive, Pending, Awaits, AwaitsLast, Lag
  <1>2. CASE Spawn
    <2>1. WorkerTyped'
      <3>1. shared' \in BOOLEAN
        BY <1>2 DEF Spawn
      <3>2. << >> \in Seq(Nat)
        OBVIOUS
      <3> QED BY <1>2, <3>1, <3>2, <1>t DEF Spawn, WorkerTyped
    <2>2. Pending' = 0 /\ late' = 0 /\ Len(buffered') = 0 /\ Len(answers') = 0 /\ Len(questions') = 0
      BY <1>2 DEF Spawn, Pending
    <2>3. Flowing'
      BY <2>1, <2>2 DEF Flowing, Consecutive, WorkerTyped
    <2> QED BY <1>2, <2>1, <2>3 DEF Spawn, WorkerInv, Alone, Awaits, AwaitsLast, Lag
  <1>3. CASE Exit
    BY <1>3, <1>t DEF Exit, WorkerInv, WorkerTyped, Alone, InUse, Flowing, Consecutive, Pending, Awaits, AwaitsLast, Lag
  <1>4. CASE Serve
    <2>1. /\ questions # << >> /\ answers' = answers \o <<Head(questions)>> /\ questions' = Tail(questions)
          /\ worker = "up" /\ UNCHANGED <<worker, buffered, step, asked, got, written, late, shared>>
      BY <1>4 DEF Serve, LinesFor
    <2>2. /\ questions' \in Seq(Nat) /\ answers' \in Seq(Nat)
          /\ Len(questions') = Len(questions) - 1 /\ Len(answers') = Len(answers) + 1 /\ Len(questions) >= 1
          /\ Head(questions) = questions[1]
          /\ \A i \in 1 .. Len(questions) - 1 : questions'[i] = questions[i + 1]
          /\ \A i \in 1 .. Len(answers) + 1 : answers'[i] = IF i = Len(answers) + 1 THEN questions[1] ELSE answers[i]
      <3>1. questions \in Seq(Nat) /\ answers \in Seq(Nat)
        BY <1>t DEF WorkerTyped
      <3>2. /\ questions' \in Seq(Nat) /\ Head(questions) \in Nat /\ Head(questions) = questions[1]
            /\ Len(questions) >= 1 /\ Len(questions') = Len(questions) - 1
            /\ \A i \in 1 .. Len(questions) - 1 : questions'[i] = questions[i + 1]
        BY <2>1, <3>1, TakenLine
      <3>3. answers' = Append(answers, Head(questions))
        BY <2>1, <3>1, <3>2, AppendedLine
      <3>4. /\ answers' \in Seq(Nat) /\ Len(answers') = Len(answers) + 1
            /\ \A i \in 1 .. Len(answers) + 1 :
                 answers'[i] = IF i = Len(answers) + 1 THEN Head(questions) ELSE answers[i]
        BY <3>1, <3>2, <3>3, AppendedLine
      <3> QED BY <3>2, <3>4
    <2>3. WorkerTyped'
      BY <2>1, <2>2, <1>t DEF WorkerTyped
    <2>4. Pending' = Pending
      BY <2>1, <2>2, <1>n DEF Pending
    <2>5. ASSUME Consecutive PROVE Consecutive'
      <3> USE <1>n, <2>1, <2>2, <2>4, <2>5, <1>t
      <3>0. questions[1] = written - Pending + Len(buffered) + Len(answers) + 1
        BY DEF Consecutive
      <3>1. \A i \in 1 .. Len(buffered') : buffered'[i] = written' - Pending' + i
        BY DEF Consecutive
      <3>2. \A i \in 1 .. Len(answers') : answers'[i] = written' - Pending' + Len(buffered') + i
        <4> TAKE i \in 1 .. Len(answers')
        <4>1. CASE i = Len(answers) + 1
          BY <4>1, <3>0 DEF WorkerTyped
        <4>2. CASE i # Len(answers) + 1
          <5>1. i \in 1 .. Len(answers) /\ answers'[i] = answers[i]
            BY <4>2
          <5>2. answers[i] = written - Pending + Len(buffered) + i
            BY <5>1 DEF Consecutive
          <5> QED BY <5>1, <5>2 DEF WorkerTyped
        <4> QED BY <4>1, <4>2
      <3>3. \A i \in 1 .. Len(questions') : questions'[i] = written' - Pending' + Len(buffered') + Len(answers') + i
        BY DEF Consecutive, WorkerTyped
      <3> QED BY <3>1, <3>2, <3>3 DEF Consecutive
    <2> QED BY <2>1, <2>3, <2>4, <2>5 DEF WorkerInv, Alone, InUse, Flowing, Awaits, AwaitsLast, Lag
  <1>5. ASSUME NEW c \in Askers, Query(c) PROVE WorkerInv'
    <2>1. /\ step[c] = "idle" /\ worker = "up" /\ questions' = Append(questions, written + 1) /\ written' = written + 1
          /\ asked' = [asked EXCEPT ![c] = written + 1] /\ got' = [got EXCEPT ![c] = 0]
          /\ UNCHANGED <<worker, answers, buffered, late>> /\ shared' = (shared \/ Others(c))
      BY <1>5 DEF Query
    <2>2. PICK s \in {"select", "read"} : step' = [step EXCEPT ![c] = s]
      BY <1>5 DEF Query, To
    <2>3. /\ questions' \in Seq(Nat) /\ Len(questions') = Len(questions) + 1
          /\ \A i \in 1 .. Len(questions) + 1 : questions'[i] = IF i = Len(questions) + 1 THEN written + 1 ELSE questions[i]
      BY <2>1, <1>t, AppendedLine DEF WorkerTyped
    <2>4. shared' \in BOOLEAN
      BY <2>1, <1>t DEF WorkerTyped
    <2>5. WorkerTyped'
      BY <2>1, <2>2, <2>3, <2>4, <1>t DEF WorkerTyped
    <2>6. Pending' = Pending + 1
      BY <2>1, <2>3, <1>n DEF Pending
    <2>7. ASSUME ~ shared' PROVE Alone' /\ Flowing' /\ AwaitsLast' /\ \A d \in Askers : Lag(d)'
      <3>1. ~ shared /\ \A d \in Askers : step[d] = "idle"
        <4>1. ~ shared /\ ~ Others(c)
          BY <2>1, <2>7
        <4> QED BY <4>1, <2>1 DEF Others
      <3>2. Alone'
        BY <3>1, <2>2, <1>t DEF Alone, WorkerTyped
      <3>3. Flowing /\ Pending <= late
        BY <3>1, <2>1 DEF WorkerInv, InUse, Flowing, Awaits
      <3>4. Consecutive'
        <4> USE <1>n, <1>t, <2>1, <2>3, <2>6
        <4>0. Consecutive
          BY <3>3 DEF Flowing
        <4>1. \A i \in 1 .. Len(buffered') : buffered'[i] = written' - Pending' + i
          BY <4>0 DEF Consecutive, WorkerTyped
        <4>2. \A i \in 1 .. Len(answers') : answers'[i] = written' - Pending' + Len(buffered') + i
          BY <4>0 DEF Consecutive, WorkerTyped
        <4>3. ASSUME NEW i \in 1 .. Len(questions')
              PROVE  questions'[i] = written' - Pending' + Len(buffered') + Len(answers') + i
          <5>1. CASE i = Len(questions) + 1
            <6>1. questions'[i] = written + 1
              BY <5>1
            <6>2. Pending = Len(buffered) + Len(answers) + Len(questions)
              BY DEF Pending
            <6> QED BY <5>1, <6>1, <6>2 DEF WorkerTyped
          <5>2. CASE i \in 1 .. Len(questions)
            <6>1. questions'[i] = written - Pending + Len(buffered) + Len(answers) + i
              BY <4>0, <5>2 DEF Consecutive
            <6>2. questions'[i] = questions[i]
              BY <5>2
            <6> QED BY <6>1, <6>2 DEF WorkerTyped
          <5>3. i = Len(questions) + 1 \/ i \in 1 .. Len(questions)
            OBVIOUS
          <5> QED BY <5>1, <5>2, <5>3
        <4> QED BY <4>1, <4>2, <4>3 DEF Consecutive
      <3>5. Awaits(c)'
        BY <2>2, <1>t DEF Awaits, WorkerTyped
      <3>6. Flowing'
        BY <3>3, <3>4, <3>5, <2>1, <2>6, <1>n, <1>t DEF Flowing, WorkerTyped
      <3>7. AwaitsLast'
        BY <3>1, <2>1, <2>2, <1>t DEF AwaitsLast, Awaits, WorkerTyped
      <3>8. ASSUME NEW d \in Askers PROVE Lag(d)'
        BY <3>1, <2>1, <1>t DEF WorkerInv, Lag, WorkerTyped
      <3> QED BY <3>2, <3>6, <3>7, <3>8
    <2> QED BY <2>5, <2>7 DEF WorkerInv
  <1>6. ASSUME NEW c \in Askers, Readable(c) PROVE WorkerInv'
    BY <1>6, <1>t DEF Readable, To, WorkerInv, WorkerTyped, Alone, InUse, Flowing, Consecutive, Pending, Awaits, AwaitsLast, Lag
  <1>7. ASSUME NEW c \in Askers, TimedOut(c) PROVE WorkerInv'
    <2>1. /\ step[c] = "select" /\ worker = "up" /\ step' = [step EXCEPT ![c] = "idle"] /\ late' = late + 1
          /\ UNCHANGED <<worker, questions, answers, buffered, asked, got, written, shared>>
      BY <1>7 DEF TimedOut, To
    <2>2. WorkerTyped' /\ Pending' = Pending
      BY <2>1, <1>t DEF WorkerTyped, Pending
    <2>3. ASSUME ~ shared PROVE Alone' /\ AwaitsLast' /\ \A d \in Askers : Lag(d)'
      BY <2>1, <2>3, <1>t DEF WorkerInv, Alone, AwaitsLast, Awaits, Lag, WorkerTyped
    <2>4. ASSUME ~ shared PROVE Flowing'
      <3>1. \A d \in Askers : step[d] # "reap"
        BY <2>1, <2>4, <1>t DEF WorkerInv, Alone
      <3>2. Flowing
        BY <2>1, <2>4, <3>1 DEF WorkerInv, InUse
      <3>3. Consecutive'
        BY <3>2, <2>1, <2>2 DEF Flowing, Consecutive
      <3> QED BY <3>2, <3>3, <2>1, <2>2, <1>n, <1>t DEF Flowing, WorkerTyped
    <2> QED BY <2>1, <2>2, <2>3, <2>4 DEF WorkerInv
  <1>8. ASSUME NEW c \in Askers, Read(c) PROVE WorkerInv'
    <2>1. /\ step[c] = "read" /\ Lines # << >> /\ step' = [step EXCEPT ![c] = "idle"]
          /\ got' = [got EXCEPT ![c] = Head(Lines)] /\ buffered' = Tail(Lines)
          /\ answers' = IF buffered = << >> THEN << >> ELSE answers
          /\ UNCHANGED <<worker, questions, asked, written, late, shared>>
      BY <1>8 DEF Read, To
    <2>2. Lines \in Seq(Nat)
      BY <1>t DEF Lines, WorkerTyped
    <2>3. /\ buffered' \in Seq(Nat) /\ Head(Lines) \in Nat /\ Head(Lines) = Lines[1]
          /\ Len(Lines) \in Nat /\ Len(Lines) >= 1 /\ Len(buffered') = Len(Lines) - 1
          /\ \A i \in 1 .. Len(Lines) - 1 : buffered'[i] = Lines[i + 1]
      BY <2>1, <2>2, TakenLine
    <2>4. answers' \in Seq(Nat) /\ Len(answers') \in Nat
      BY <2>1, <1>t DEF WorkerTyped
    <2>5. WorkerTyped'
      BY <2>1, <2>3, <2>4, <1>t DEF WorkerTyped
    <2>6. Pending' = Pending - 1 /\ Len(Lines) + Len(answers') = Len(buffered) + Len(answers)
      <3>1. CASE buffered = << >>
        BY <3>1, <2>1, <2>3, <1>n DEF Pending, Lines
      <3>2. CASE buffered # << >>
        BY <3>2, <2>1, <2>3, <1>n DEF Pending, Lines
      <3> QED BY <3>1, <3>2
    <2>7. ASSUME ~ shared PROVE Alone' /\ Flowing' /\ AwaitsLast' /\ \A d \in Askers : Lag(d)'
      <3>1. \A d \in Askers \ {c} : step[d] = "idle"
        BY <2>1, <2>7 DEF WorkerInv, Alone
      <3>2. \A d \in Askers : step'[d] = "idle"
        BY <3>1, <2>1, <1>t DEF WorkerTyped
      <3>3. Awaits(c) /\ InUse /\ asked[c] = written
        BY <3>1, <2>1, <2>7 DEF Awaits, InUse, WorkerInv, AwaitsLast
      <3>4. Flowing
        BY <3>3, <2>7 DEF WorkerInv
      <3>5. /\ \A i \in 1 .. Len(Lines) : Lines[i] = written - Pending + i
            /\ \A i \in 1 .. Len(answers') : answers'[i] = written - Pending + Len(Lines) + i
        <4>1. CASE buffered = << >>
          BY <4>1, <3>4, <2>1, <1>n, <1>t DEF Flowing, Consecutive, Lines, WorkerTyped
        <4>2. CASE buffered # << >>
          BY <4>2, <3>4, <2>1, <1>n, <1>t DEF Flowing, Consecutive, Lines, WorkerTyped
        <4> QED BY <4>1, <4>2
      <3>6. Consecutive'
        <4> USE <3>4, <3>5, <2>1, <2>3, <2>4, <2>6, <1>n, <1>t
        <4>1. \A i \in 1 .. Len(buffered') : buffered'[i] = written' - Pending' + i
          BY DEF WorkerTyped
        <4>2. \A i \in 1 .. Len(answers') : answers'[i] = written' - Pending' + Len(buffered') + i
          BY DEF WorkerTyped
        <4>3. \A i \in 1 .. Len(questions') : questions'[i] = written' - Pending' + Len(buffered') + Len(answers') + i
          <5> DEFINE base == written - Pending + Len(buffered) + Len(answers)
                     base2 == written' - Pending' + Len(buffered') + Len(answers')
          <5>1. base2 = base
            <6>1. written' = written /\ written \in Int /\ Pending \in Int
              BY DEF WorkerTyped
            <6>2. Len(buffered') = Len(buffered) + Len(answers) - Len(answers') - 1
              OBVIOUS
            <6>3. Pending' = Pending - 1
              OBVIOUS
            <6>4. Len(buffered) \in Int /\ Len(answers) \in Int /\ Len(answers') \in Int /\ Len(buffered') \in Int
              OBVIOUS
            <6> HIDE <3>4, <3>5, <2>1, <2>3, <2>4, <2>6, <1>n, <1>t
            <6> QED BY <6>1, <6>2, <6>3, <6>4
          <5>2. \A i \in 1 .. Len(questions) : questions[i] = base + i
            BY DEF Flowing, Consecutive
          <5>3. questions' = questions
            OBVIOUS
          <5>4. \A i \in 1 .. Len(questions') : questions'[i] = base2 + i
            <6> HIDE DEF base, base2
            <6> QED BY <5>1, <5>2, <5>3
          <5> QED BY <5>4
        <4> QED BY <4>1, <4>2, <4>3 DEF Consecutive
      <3>7. Flowing'
        BY <3>4, <3>6, <2>1, <2>6, <1>n, <1>t DEF Flowing, WorkerTyped
      <3>8. Alone' /\ AwaitsLast'
        BY <3>2 DEF Alone, AwaitsLast, Awaits
      <3>9. Head(Lines) = written - Pending + 1 /\ Pending >= 1
        <4>1. Pending >= 1
          BY <2>3, <2>6, <1>n, <2>4 DEF Pending
        <4>2. Lines[1] = written - Pending + 1
          BY <3>5, <2>3
        <4> QED BY <4>1, <4>2, <2>3
      <3>10. ASSUME NEW d \in Askers PROVE Lag(d)'
        <4>1. CASE d = c
          BY <4>1, <3>3, <3>4, <3>9, <2>1, <1>n, <1>t DEF Lag, Flowing, WorkerTyped
        <4>2. CASE d # c
          BY <4>2, <2>1, <2>7, <1>t DEF Lag, WorkerInv, WorkerTyped
        <4> QED BY <4>1, <4>2
      <3> QED BY <3>7, <3>8, <3>10
    <2> QED BY <2>1, <2>5, <2>7 DEF WorkerInv
  <1>9. ASSUME NEW c \in Askers, ReadsEnd(c) PROVE WorkerInv'
    <2>1. /\ step[c] = "read" /\ worker = "gone" /\ step' = [step EXCEPT ![c] = "idle"]
          /\ UNCHANGED <<worker, questions, answers, buffered, asked, got, written, late, shared>>
      BY <1>9 DEF ReadsEnd, To
    <2>2. ASSUME ~ shared PROVE ~ InUse'
      BY <2>1, <2>2, <1>t DEF WorkerInv, Alone, InUse, Awaits, WorkerTyped
    <2> QED BY <2>1, <2>2, <1>t DEF WorkerInv, WorkerTyped, Alone, Awaits, AwaitsLast, Lag
  <1>10. ASSUME NEW c \in Askers, Shutdown(c) PROVE WorkerInv'
    <2>1. /\ step[c] = "idle" /\ step' = [step EXCEPT ![c] = "reap"]
          /\ questions' = Append(questions, 0) /\ shared' = (shared \/ Others(c))
          /\ UNCHANGED <<worker, answers, buffered, asked, got, written, late>>
      BY <1>10 DEF Shutdown, To, Stop
    <2>2. shared' \in BOOLEAN /\ questions' \in Seq(Nat)
      BY <2>1, <1>t, AppendedLine DEF WorkerTyped
    <2>3. WorkerTyped'
      BY <2>1, <2>2, <1>t DEF WorkerTyped
    <2>4. ~ InUse'
      BY <2>1, <1>t DEF InUse, WorkerTyped
    <2>5. ASSUME ~ shared' PROVE ~ shared /\ Alone'
      <3>1. ~ shared /\ ~ Others(c)
        BY <2>1, <2>5
      <3> QED BY <3>1, <2>1, <1>t DEF Others, Alone, WorkerTyped
    <2> QED BY <2>1, <2>3, <2>4, <2>5, <1>t DEF WorkerInv, WorkerTyped, AwaitsLast, Awaits, Lag
  <1>11. ASSUME NEW c \in Askers, Reap(c) PROVE WorkerInv'
    <2>1. /\ step[c] = "reap" /\ step' = [step EXCEPT ![c] = "idle"] /\ worker' = "gone"
          /\ UNCHANGED <<questions, answers, buffered, asked, got, written, late, shared>>
      BY <1>11 DEF Reap, To
    <2>2. ASSUME ~ shared PROVE ~ InUse'
      BY <2>1, <2>2, <1>t DEF WorkerInv, Alone, InUse, Awaits, WorkerTyped
    <2> QED BY <2>1, <2>2, <1>t DEF WorkerInv, WorkerTyped, Alone, Awaits, AwaitsLast, Lag
  <1> QED BY <1>1, <1>2, <1>3, <1>4, <1>5, <1>6, <1>7, <1>8, <1>9, <1>10, <1>11 DEF WorkerNext

(* While one thread at a time asks, the answer that it takes is that of its own query, *)
(* or of one at most as many queries earlier as were given up on, whatever errors,     *)
(* crashes and fresh workers lie between (RetrievalWorker.query).                      *)
THEOREM AnswersStayOwn == WorkerSpec => []AnswersAreOwn
  <1>1. WorkerInv => AnswersAreOwn
    BY DEF WorkerInv, AnswersAreOwn, Lag
  <1> QED BY WorkerStarts, WorkerStep, <1>1, PTL DEF WorkerSpec

-----------------------------------------------------------------------------
(* The wrapper of the forensic drivers. *)

Places == {"off", "scorecard", "next", "run", "harvest", "restore", "finally"}
WrapperShape == [at : Places, todo : SUBSET Drivers, bench : Artifacts, saved : [Artifacts -> BOOLEAN]]
ForensicTyped ==
    /\ canonical \in [Artifacts -> Int] /\ aside \in [Artifacts -> Int] /\ current \in [Artifacts -> Int]
    /\ wrapper \in WrapperShape /\ evals \in Nat /\ disturbed \subseteq Artifacts
    /\ interrupted \in BOOLEAN
    /\ wrapper.at \in {"run", "harvest"} => wrapper.bench \in Drivers

(* What the run has moved aside and not back yet. *)
IsOut(a) ==
    IF a = Scorecard THEN wrapper.at \in {"next", "run", "harvest", "restore"}
    ELSE a = wrapper.bench /\ wrapper.at \in {"run", "harvest", "restore"}
(* Whatever was cut short, the current result is in its place or in a baseline... *)
Kept(a) ==
    \/ current[a] = Missing \/ <<a, current[a]>> \in baselines
    \/ ~ Running /\ canonical[a] = current[a]
(* ... and as long as nothing was, it is aside while its artifact is out, and in place while it is not. *)
Uncut(a) ==
    IF IsOut(a)
    THEN /\ wrapper.saved[a] => aside[a] = current[a]
         /\ ~ wrapper.saved[a] => current[a] = Missing
         /\ wrapper.at = "restore" /\ wrapper.bench = a => canonical[a] = Missing
    ELSE canonical[a] = current[a]
AtHome(a) == ~ IsOut(a) \/ ~ wrapper.saved[a] => aside[a] = Missing
ForensicInv ==
    /\ ForensicTyped
    /\ \A a \in Artifacts \ disturbed : Kept(a) /\ (~ interrupted => Uncut(a))
    /\ ~ interrupted => \A a \in Artifacts : AtHome(a)

LEMMA ForensicStarts == ForensicInit => ForensicInv
  <1> SUFFICES ASSUME ForensicInit PROVE ForensicInv
    OBVIOUS
  <1>1. wrapper \in WrapperShape /\ wrapper.at = "off"
    BY DEF ForensicInit, NoWrapper, WrapperShape, Places, Artifacts
  <1>2. interrupted \in BOOLEAN
    BY DEF ForensicInit
  <1>3. ForensicTyped
    BY <1>1, <1>2 DEF ForensicInit, ForensicTyped, None, Missing
  <1> QED BY <1>1, <1>3 DEF ForensicInit, ForensicInv, Kept, Uncut, IsOut, AtHome, None, Missing

(* What each action does to the variables that the invariant is about. *)
LEMMA MoveAsideDoes ==
  ASSUME ForensicTyped, NEW a \in Artifacts, NEW after \in WrapperShape, MoveAside(a, after)
  PROVE  /\ canonical' = [canonical EXCEPT ![a] = Missing]
         /\ aside' = [aside EXCEPT ![a] = IF canonical[a] = Missing THEN @ ELSE canonical[a]]
         /\ wrapper' \in WrapperShape
         /\ wrapper'.at = after.at /\ wrapper'.bench = after.bench
         /\ \A b \in Artifacts : wrapper'.saved[b] <=> IF b = a THEN canonical[a] # Missing ELSE after.saved[b]
  <1>1. CASE canonical[a] = Missing
    <2>1. wrapper' = [after EXCEPT !.saved[a] = FALSE]
      BY <1>1 DEF MoveAside
    <2>2. after.saved \in [Artifacts -> BOOLEAN]
      BY DEF WrapperShape
    <2> DEFINE saved == [after.saved EXCEPT ![a] = FALSE]
    <2>3. wrapper' = [after EXCEPT !.saved = saved]
      BY <2>1 DEF WrapperShape
    <2>4. saved \in [Artifacts -> BOOLEAN] /\ \A b \in Artifacts : saved[b] <=> IF b = a THEN FALSE ELSE after.saved[b]
      BY <2>2
    <2> HIDE DEF saved
    <2>5. wrapper' \in WrapperShape /\ wrapper'.at = after.at /\ wrapper'.bench = after.bench /\ wrapper'.saved = saved
      BY <2>3, <2>4 DEF WrapperShape
    <2>6. canonical' = [canonical EXCEPT ![a] = Missing]
      BY <1>1 DEF MoveAside, ForensicTyped
    <2>7. aside' = [aside EXCEPT ![a] = IF canonical[a] = Missing THEN @ ELSE canonical[a]]
      BY <1>1 DEF MoveAside, ForensicTyped
    <2> QED BY <1>1, <2>4, <2>5, <2>6, <2>7
  <1>2. CASE canonical[a] # Missing
    <2>1. wrapper' = [after EXCEPT !.saved[a] = TRUE]
      BY <1>2 DEF MoveAside
    <2>2. after.saved \in [Artifacts -> BOOLEAN]
      BY DEF WrapperShape
    <2> DEFINE saved == [after.saved EXCEPT ![a] = TRUE]
    <2>3. wrapper' = [after EXCEPT !.saved = saved]
      BY <2>1 DEF WrapperShape
    <2>4. saved \in [Artifacts -> BOOLEAN] /\ \A b \in Artifacts : saved[b] <=> IF b = a THEN TRUE ELSE after.saved[b]
      BY <2>2
    <2> HIDE DEF saved
    <2>5. wrapper' \in WrapperShape /\ wrapper'.at = after.at /\ wrapper'.bench = after.bench /\ wrapper'.saved = saved
      BY <2>3, <2>4 DEF WrapperShape
    <2>6. canonical' = [canonical EXCEPT ![a] = Missing]
      BY <1>2 DEF MoveAside, ForensicTyped
    <2>7. aside' = [aside EXCEPT ![a] = IF canonical[a] = Missing THEN @ ELSE canonical[a]]
      BY <1>2 DEF MoveAside, ForensicTyped
    <2> QED BY <1>2, <2>4, <2>5, <2>6, <2>7
  <1> QED BY <1>1, <1>2

LEMMA ForensicStep == ForensicInv /\ [ForensicNext]_forensicVars => ForensicInv'
  <1> SUFFICES ASSUME ForensicInv, [ForensicNext]_forensicVars PROVE ForensicInv'
    OBVIOUS
  <1>t. ForensicTyped
    BY DEF ForensicInv
  <1>s. Scorecard \in Artifacts /\ Drivers \subseteq Artifacts /\ Scorecard \notin Drivers
    BY ForensicDriverAssumption DEF Artifacts
  <1>1. CASE UNCHANGED forensicVars
    BY <1>1 DEF forensicVars, ForensicInv, ForensicTyped, Kept, Uncut, IsOut, AtHome, Running
  <1>2. ASSUME NEW d \in Drivers, Evaluate(d) PROVE ForensicInv'
    <2>1. /\ canonical' = [canonical EXCEPT ![d] = evals + 1, ![Scorecard] = evals + 1]
          /\ current' = [current EXCEPT ![d] = evals + 1, ![Scorecard] = evals + 1]
          /\ disturbed' = (IF Running THEN disturbed \union {d, Scorecard} ELSE disturbed \ {d, Scorecard})
          /\ evals' = evals + 1 /\ UNCHANGED <<aside, baselines, wrapper, interrupted>>
      BY <1>2 DEF Evaluate, Event
    <2>2. evals + 1 \in Nat /\ evals + 1 \in Int
      BY <1>t DEF ForensicTyped
    <2>3. ForensicTyped'
      BY <2>1, <2>2, <1>t, <1>s DEF ForensicTyped
    <2>4. ASSUME NEW a \in Artifacts \ disturbed' PROVE Kept(a)' /\ (~ interrupted' => Uncut(a)')
      <3>1. CASE a \in {d, Scorecard}
        <4>1. ~ Running
          BY <3>1, <2>1
        <4>2. canonical'[a] = current'[a]
          BY <3>1, <2>1, <1>t, <1>s DEF ForensicTyped
        <4> QED BY <4>1, <4>2, <2>1 DEF Kept, Uncut, IsOut, Running
      <3>2. CASE a \notin {d, Scorecard}
        <4>1. a \in Artifacts \ disturbed
          BY <3>2, <2>1
        <4>2. canonical'[a] = canonical[a] /\ current'[a] = current[a]
          BY <3>2, <2>1, <1>t, <1>s DEF ForensicTyped
        <4> QED BY <4>1, <4>2, <2>1 DEF ForensicInv, Kept, Uncut, IsOut, Running
      <3> QED BY <3>1, <3>2
    <2>5. ASSUME ~ interrupted', NEW a \in Artifacts PROVE AtHome(a)'
      BY <2>1, <2>5 DEF ForensicInv, AtHome, IsOut
    <2> QED BY <2>3, <2>4, <2>5 DEF ForensicInv
  <1>3. ASSUME NEW benches \in SUBSET Drivers, _snapshot_canonical(benches) PROVE ForensicInv'
    <2>1. /\ ~ Running /\ wrapper.at = "off" /\ evals' = evals + 1
          /\ baselines' = baselines \union {<<a, canonical[a]>> : a \in Artifacts}
          /\ wrapper' = [NoWrapper EXCEPT !.at = "scorecard", !.todo = benches]
          /\ UNCHANGED <<canonical, aside, current, interrupted, disturbed>>
      BY <1>3 DEF _snapshot_canonical, Event, Running
    <2>2. wrapper' \in WrapperShape /\ wrapper'.at = "scorecard"
      BY <2>1, <1>s DEF NoWrapper, WrapperShape, Places
    <2>3. ForensicTyped'
      BY <2>1, <2>2, <1>t DEF ForensicTyped
    <2>4. \A a \in Artifacts : ~ IsOut(a) /\ ~ IsOut(a)'
      BY <2>1, <2>2 DEF IsOut
    <2>5. \A a \in Artifacts \ disturbed : Kept(a)'
      BY <2>1 DEF ForensicInv, Kept
    <2> QED BY <2>1, <2>3, <2>4, <2>5 DEF ForensicInv, Uncut, AtHome
  <1>4. CASE _save_aside_scorecard
    <2> DEFINE after == [wrapper EXCEPT !.at = "next"]
    <2>1. after \in WrapperShape /\ after.at = "next" /\ after.bench = wrapper.bench /\ after.saved = wrapper.saved
      BY <1>t DEF ForensicTyped, WrapperShape, Places
    <2>2. MoveAside(Scorecard, after) /\ wrapper.at = "scorecard"
          /\ UNCHANGED <<baselines, evals, current, interrupted, disturbed>>
      BY <1>4 DEF _save_aside_scorecard
    <2> HIDE DEF after
    <2>3. /\ canonical' = [canonical EXCEPT ![Scorecard] = Missing]
          /\ aside' = [aside EXCEPT ![Scorecard] = IF canonical[Scorecard] = Missing THEN @ ELSE canonical[Scorecard]]
          /\ wrapper' \in WrapperShape /\ wrapper'.at = "next"
          /\ \A b \in Artifacts : wrapper'.saved[b] <=>
               IF b = Scorecard THEN canonical[Scorecard] # Missing ELSE wrapper.saved[b]
      BY <2>1, <2>2, <1>s, <1>t, MoveAsideDoes
    <2>4. ForensicTyped'
      BY <2>2, <2>3, <1>t, <1>s DEF ForensicTyped, Missing
    <2>5. ASSUME NEW a \in Artifacts \ disturbed' PROVE Kept(a)' /\ (~ interrupted' => Uncut(a)')
      <3>1. Kept(a)'
        BY <2>2, <2>3 DEF ForensicInv, Kept, Running
      <3>2. ~ interrupted' => Uncut(a)'
        BY <2>2, <2>3, <1>t, <1>s DEF ForensicInv, Uncut, AtHome, IsOut, ForensicTyped, Missing
      <3> QED BY <3>1, <3>2
    <2>6. ASSUME ~ interrupted', NEW a \in Artifacts PROVE AtHome(a)'
      BY <2>2, <2>3, <2>6, <1>t, <1>s DEF ForensicInv, AtHome, IsOut, ForensicTyped, Missing
    <2> QED BY <2>4, <2>5, <2>6 DEF ForensicInv
  <1>5. ASSUME NEW d \in Drivers, _save_aside(d) PROVE ForensicInv'
    <2> DEFINE after == [wrapper EXCEPT !.at = "run", !.todo = @ \ {d}, !.bench = d]
    <2>1. after \in WrapperShape /\ after.at = "run" /\ after.bench = d /\ after.saved = wrapper.saved
      BY <1>t, <1>s DEF ForensicTyped, WrapperShape, Places
    <2>2. MoveAside(d, after) /\ wrapper.at = "next"
          /\ UNCHANGED <<baselines, evals, current, interrupted, disturbed>>
      BY <1>5 DEF _save_aside
    <2> HIDE DEF after
    <2>3. /\ canonical' = [canonical EXCEPT ![d] = Missing]
          /\ aside' = [aside EXCEPT ![d] = IF canonical[d] = Missing THEN @ ELSE canonical[d]]
          /\ wrapper' \in WrapperShape /\ wrapper'.at = "run" /\ wrapper'.bench = d
          /\ \A b \in Artifacts : wrapper'.saved[b] <=> IF b = d THEN canonical[d] # Missing ELSE wrapper.saved[b]
      BY <2>1, <2>2, <1>s, <1>t, MoveAsideDoes
    <2>4. ForensicTyped'
      BY <2>2, <2>3, <1>t, <1>s DEF ForensicTyped, Missing
    <2>5. ASSUME NEW a \in Artifacts \ disturbed' PROVE Kept(a)' /\ (~ interrupted' => Uncut(a)')
      <3>1. Kept(a)'
        BY <2>2, <2>3 DEF ForensicInv, Kept, Running
      <3>2. ~ interrupted' => Uncut(a)'
        BY <2>2, <2>3, <1>t, <1>s DEF ForensicInv, Uncut, AtHome, IsOut, ForensicTyped, Missing
      <3> QED BY <3>1, <3>2
    <2>6. ASSUME ~ interrupted', NEW a \in Artifacts PROVE AtHome(a)'
      BY <2>2, <2>3, <2>6, <1>t, <1>s DEF ForensicInv, AtHome, IsOut, ForensicTyped, Missing
    <2> QED BY <2>4, <2>5, <2>6 DEF ForensicInv
  <1>6. ASSUME NEW writes \in SUBSET Artifacts, _run_driver(writes) PROVE ForensicInv'
    <2>1. /\ wrapper.at = "run" /\ writes \subseteq {wrapper.bench, Scorecard}
          /\ canonical' = [a \in Artifacts |-> IF a \in writes THEN -1 ELSE canonical[a]]
          /\ wrapper' = [wrapper EXCEPT !.at = "harvest"]
          /\ UNCHANGED <<aside, baselines, evals, current, interrupted, disturbed>>
      BY <1>6 DEF _run_driver
    <2>2. wrapper' \in WrapperShape /\ wrapper'.at = "harvest" /\ wrapper'.bench = wrapper.bench /\ wrapper'.saved = wrapper.saved
      BY <2>1, <1>t DEF ForensicTyped, WrapperShape, Places
    <2>3. ForensicTyped'
      BY <2>1, <2>2, <1>t, <1>s DEF ForensicTyped
    <2>4. ASSUME NEW a \in Artifacts \ disturbed' PROVE Kept(a)' /\ (~ interrupted' => Uncut(a)')
      <3>1. Kept(a)'
        BY <2>1, <2>2 DEF ForensicInv, Kept, Running
      <3>2. ~ interrupted' => Uncut(a)'
        BY <2>1, <2>2, <1>t, <1>s DEF ForensicInv, Uncut, IsOut, ForensicTyped
      <3> QED BY <3>1, <3>2
    <2>5. ASSUME ~ interrupted', NEW a \in Artifacts PROVE AtHome(a)'
      BY <2>1, <2>2, <2>5 DEF ForensicInv, AtHome, IsOut
    <2> QED BY <2>3, <2>4, <2>5 DEF ForensicInv
  <1>7. CASE _harvest
    <2> DEFINE b == IF wrapper.at = "harvest" THEN wrapper.bench ELSE Scorecard
    <2>1. /\ wrapper.at \in {"harvest", "next"}
          /\ canonical' = [canonical EXCEPT ![b] = Missing]
          /\ wrapper' = [wrapper EXCEPT !.at = "restore", !.bench = b]
          /\ UNCHANGED <<aside, baselines, evals, current, interrupted, disturbed>>
      BY <1>7 DEF _harvest
    <2>2. b \in Artifacts /\ (wrapper.at = "harvest" => b = wrapper.bench /\ b \in Drivers) /\ (wrapper.at = "next" => b = Scorecard)
      BY <2>1, <1>t, <1>s DEF ForensicTyped, WrapperShape
    <2> HIDE DEF b
    <2>3. wrapper' \in WrapperShape /\ wrapper'.at = "restore" /\ wrapper'.bench = b /\ wrapper'.saved = wrapper.saved
      BY <2>1, <2>2, <1>t DEF ForensicTyped, WrapperShape, Places
    <2>4. ForensicTyped'
      BY <2>1, <2>2, <2>3, <1>t DEF ForensicTyped, Missing
    <2>5. ASSUME NEW a \in Artifacts \ disturbed' PROVE Kept(a)' /\ (~ interrupted' => Uncut(a)')
      <3>1. Kept(a)'
        BY <2>1, <2>2, <2>3 DEF ForensicInv, Kept, Running
      <3>2. ~ interrupted' => Uncut(a)'
        BY <2>1, <2>2, <2>3, <1>t, <1>s DEF ForensicInv, Uncut, IsOut, ForensicTyped
      <3> QED BY <3>1, <3>2
    <2>6. ASSUME ~ interrupted', NEW a \in Artifacts PROVE AtHome(a)'
      BY <2>1, <2>2, <2>3, <2>6, <1>s DEF ForensicInv, AtHome, IsOut
    <2> QED BY <2>4, <2>5, <2>6 DEF ForensicInv
  <1>8. CASE _restore
    <2> DEFINE b == wrapper.bench
               at == IF b = Scorecard THEN "finally" ELSE "next"
    <2>1. /\ wrapper.at = "restore" /\ wrapper' = [wrapper EXCEPT !.at = at]
          /\ canonical' = IF wrapper.saved[b] THEN [canonical EXCEPT ![b] = aside[b]] ELSE canonical
          /\ aside' = IF wrapper.saved[b] THEN [aside EXCEPT ![b] = Missing] ELSE aside
          /\ UNCHANGED <<baselines, evals, current, interrupted, disturbed>>
      BY <1>8 DEF _restore
    <2>2. b \in Artifacts
      BY <1>t DEF ForensicTyped, WrapperShape
    <2>3. wrapper' \in WrapperShape /\ wrapper'.at = at /\ wrapper'.bench = b /\ wrapper'.saved = wrapper.saved
      BY <2>1, <1>t DEF ForensicTyped, WrapperShape, Places
    <2>4. ForensicTyped'
      BY <2>1, <2>2, <2>3, <1>t DEF ForensicTyped, Missing
    <2>5. ASSUME NEW a \in Artifacts \ disturbed' PROVE Kept(a)' /\ (~ interrupted' => Uncut(a)')
      <3>1. Kept(a)'
        BY <2>1, <2>2, <2>3 DEF ForensicInv, Kept, Running
      <3>2. ~ interrupted' => Uncut(a)'
        BY <2>1, <2>2, <2>3, <1>t, <1>s DEF ForensicInv, Uncut, IsOut, ForensicTyped
      <3> QED BY <3>1, <3>2
    <2>6. ASSUME ~ interrupted', NEW a \in Artifacts PROVE AtHome(a)'
      BY <2>1, <2>2, <2>3, <2>6, <1>t, <1>s DEF ForensicInv, AtHome, IsOut, ForensicTyped
    <2> QED BY <2>4, <2>5, <2>6 DEF ForensicInv
  <1>9. CASE Raise
    <2>1. /\ Running /\ wrapper' = [wrapper EXCEPT !.at = "finally"] /\ interrupted' = TRUE /\ evals' = evals + 1
          /\ UNCHANGED <<canonical, aside, baselines, current, disturbed>>
      BY <1>9 DEF Raise, Event
    <2>2. wrapper' \in WrapperShape /\ wrapper'.at = "finally"
      BY <2>1, <1>t DEF ForensicTyped, WrapperShape, Places
    <2>3. ForensicTyped'
      BY <2>1, <2>2, <1>t DEF ForensicTyped
    <2> QED BY <2>1, <2>2, <2>3 DEF ForensicInv, Kept, Running
  <1>10. CASE Finally
    <2>1. /\ wrapper.at = "finally" /\ wrapper' = NoWrapper
          /\ canonical' = [a \in Artifacts |-> IF aside[a] # Missing /\ canonical[a] = Missing THEN aside[a] ELSE canonical[a]]
          /\ aside' = [a \in Artifacts |-> IF aside[a] # Missing /\ canonical[a] = Missing THEN Missing ELSE aside[a]]
          /\ UNCHANGED <<baselines, evals, current, interrupted, disturbed>>
      BY <1>10 DEF Finally
    <2>2. wrapper' \in WrapperShape /\ wrapper'.at = "off"
      BY <2>1, <1>s DEF NoWrapper, WrapperShape, Places
    <2>3. ForensicTyped'
      BY <2>1, <2>2, <1>t DEF ForensicTyped, Missing
    <2>4. ASSUME NEW a \in Artifacts \ disturbed' PROVE Kept(a)'
      BY <2>1, <2>2 DEF ForensicInv, Kept, Running
    <2>5. ASSUME ~ interrupted', NEW a \in Artifacts PROVE AtHome(a)' /\ (a \notin disturbed' => Uncut(a)')
      BY <2>1, <2>2, <2>5 DEF ForensicInv, AtHome, IsOut, Uncut
    <2> QED BY <2>3, <2>4, <2>5 DEF ForensicInv
  <1>11. CASE KillWrapper
    <2>1. /\ Running /\ wrapper' = NoWrapper /\ interrupted' = TRUE /\ evals' = evals + 1
          /\ UNCHANGED <<canonical, aside, baselines, current, disturbed>>
      BY <1>11 DEF KillWrapper, Event
    <2>2. wrapper' \in WrapperShape /\ wrapper'.at = "off"
      BY <2>1, <1>s DEF NoWrapper, WrapperShape, Places
    <2>3. ForensicTyped'
      BY <2>1, <2>2, <1>t DEF ForensicTyped
    <2> QED BY <2>1, <2>2, <2>3 DEF ForensicInv, Kept, Running
  <1> QED BY <1>1, <1>2, <1>3, <1>4, <1>5, <1>6, <1>7, <1>8, <1>9, <1>10, <1>11 DEF ForensicNext

(* The canonical results are the current model's again when a run of the wrapper has  *)
(* returned, and a result that was there when a run began is on disk whatever cut the *)
(* run short: in its place, aside, or in a baseline (forensic_driver.py).             *)
THEOREM CurrentIsKept == ForensicSpec => []CurrentKept
  <1>1. ForensicInv => CurrentKept
    <2> SUFFICES ASSUME ForensicInv PROVE CurrentKept
      OBVIOUS
    <2>1. ASSUME ~ Running, ~ interrupted, disturbed = {} PROVE canonical = current
      <3>1. \A a \in Artifacts : canonical[a] = current[a]
        BY <2>1 DEF ForensicInv, Uncut, IsOut, Running
      <3> QED BY <3>1 DEF ForensicInv, ForensicTyped
    <2> QED BY <2>1 DEF CurrentKept, ForensicInv, Kept
  <1> QED BY ForensicStarts, ForensicStep, <1>1, PTL DEF ForensicSpec

-----------------------------------------------------------------------------
(* The audits of the archive. *)

LEMMA GreatestOfTwo ==
  ASSUME NEW n \in Nat
  PROVE  Max({1, n}) \in {1, n} /\ Max({1, n}) >= n
  <1>1. \E x \in {1, n} : \A y \in {1, n} : x >= y
    <2>1. CASE n >= 1
      BY <2>1
    <2>2. CASE ~ (n >= 1)
      BY <2>2
    <2> QED BY <2>1, <2>2
  <1> QED BY <1>1 DEF Max

Signature == [role : AuditRoles, date : Nat, cites : Int]
Record == [id : Nat, role : AuditRoles, named : Nat, m : Nat]
AuditTyped ==
    /\ today \in Nat \ {0} /\ work \in Nat
    /\ logs \subseteq [type : AuditRoles \union {Generic}, when : Nat] /\ \A l \in logs : l.when <= today
    /\ records \subseteq Record /\ \A r \in records : r.id <= work /\ r.m <= today
    /\ signatures \subseteq Signature
    /\ honest \in [records : SUBSET (0 .. work), signatures : SUBSET Signature]
(* An honest record bears a date on or after the first dispatch of its role's agent. *)
Filed(r) ==
    /\ r.named \in 1 .. r.m
    /\ \E l \in logs : l.type = r.role /\ l.when <= r.named
(* What an honest signature was backed by is still there. *)
Vouches(r, s) == r.role = s.role /\ r.id \in honest.records /\ r.named <= s.date /\ s.date - r.named <= Window
Backed(s) ==
    /\ s.date <= today
    /\ IF Cites(s) THEN CitationHolds(s)
       ELSE s.date = Undated \/ \E r \in records : Vouches(r, s)
AuditInv ==
    /\ AuditTyped
    /\ \A r \in records : r.id \in honest.records => Filed(r)
    /\ \A s \in honest.signatures : Backed(s)

LEMMA AuditStarts == AuditInit => AuditInv
  BY DEF AuditInit, AuditInv, AuditTyped

LEMMA AuditStep == AuditInv /\ [AuditNext]_auditVars => AuditInv'
  <1> SUFFICES ASSUME AuditInv, [AuditNext]_auditVars PROVE AuditInv'
    OBVIOUS
  <1>t. AuditTyped
    BY DEF AuditInv
  <1>1. CASE UNCHANGED auditVars
    BY <1>1 DEF auditVars, AuditInv, AuditTyped, Filed, Backed, Vouches, Cites, CitationHolds
  <1>2. ASSUME NEW kind \in AuditRoles \union {Generic}, DispatchAgent(kind) PROVE AuditInv'
    <2>1. /\ logs' = logs \union {[type |-> kind, when |-> today]} /\ work' = work + 1
          /\ UNCHANGED <<today, records, signatures, honest>>
      BY <1>2 DEF DispatchAgent, Work
    <2>2. AuditTyped'
      BY <2>1, <1>t DEF AuditTyped, Record
    <2>3. ASSUME NEW r \in records', r.id \in honest'.records PROVE Filed(r)'
      BY <2>1, <2>3 DEF AuditInv, Filed
    <2>4. ASSUME NEW s \in honest'.signatures PROVE Backed(s)'
      BY <2>1 DEF AuditInv, Backed, Vouches, Cites, CitationHolds
    <2> QED BY <2>2, <2>3, <2>4 DEF AuditInv
  <1>3. ASSUME NEW role \in AuditRoles, NEW named \in 0 .. today, FileEpisodic(role, named) PROVE AuditInv'
    <2>0. PICK new : new = [id |-> work + 1, role |-> role, named |-> named, m |-> today]
      OBVIOUS
    <2> DEFINE clean == named = today /\ \E l \in logs : l.type = role
    <2>1. /\ records' = records \union {new} /\ work' = work + 1
          /\ honest' = IF clean THEN [honest EXCEPT !.records = @ \union {new.id}] ELSE honest
          /\ UNCHANGED <<today, logs, signatures>>
      BY <1>3, <2>0 DEF FileEpisodic, Work
    <2>2. /\ new \in Record /\ new.id = work + 1 /\ new.role = role /\ new.named = named /\ new.m = today
      BY <2>0, <1>t DEF AuditTyped, Record
    <2>3. new.id \notin honest.records /\ honest.records \subseteq 0 .. work + 1
      BY <2>2, <1>t DEF AuditTyped
    <2>4. clean => Filed(new)'
      BY <2>1, <2>2, <1>t DEF Filed, AuditTyped
    <2> HIDE DEF clean
    <2>5. /\ honest'.signatures = honest.signatures /\ honest.records \subseteq honest'.records
          /\ honest'.records \subseteq honest.records \union {new.id}
          /\ (new.id \in honest'.records => clean)
          /\ honest' \in [records : SUBSET (0 .. work + 1), signatures : SUBSET Signature]
      BY <2>1, <2>2, <2>3, <1>t DEF AuditTyped
    <2>6. AuditTyped'
      BY <2>1, <2>2, <2>5, <1>t DEF AuditTyped, Record
    <2>7. ASSUME NEW r \in records', r.id \in honest'.records PROVE Filed(r)'
      <3>1. CASE r = new
        BY <3>1, <2>4, <2>5, <2>7
      <3>2. CASE r # new
        <4>1. r \in records /\ r.id # new.id
          BY <3>2, <2>1, <2>2, <1>t DEF AuditTyped, Record
        <4>2. Filed(r)
          BY <4>1, <2>5, <2>7 DEF AuditInv
        <4> QED BY <4>2, <2>1 DEF Filed
      <3> QED BY <3>1, <3>2
    <2>8. ASSUME NEW s \in honest'.signatures PROVE Backed(s)'
      BY <2>1, <2>5 DEF AuditInv, Backed, Vouches, Cites, CitationHolds
    <2> QED BY <2>6, <2>7, <2>8 DEF AuditInv
  <1>4. ASSUME NEW x \in records, TouchEpisodic(x) PROVE AuditInv'
    <2>0. PICK new : new = [x EXCEPT !.m = today]
      OBVIOUS
    <2>1. /\ x.m < today /\ records' = (records \ {x}) \union {new} /\ work' = work + 1
          /\ UNCHANGED <<today, logs, signatures, honest>>
      BY <1>4, <2>0 DEF TouchEpisodic, Work
    <2>2. new \in Record /\ new.id = x.id /\ new.role = x.role /\ new.named = x.named /\ new.m = today
      BY <2>0, <1>t DEF AuditTyped, Record
    <2>3. AuditTyped'
      BY <2>1, <2>2, <1>t DEF AuditTyped, Record
    <2>4. ASSUME NEW r \in records', r.id \in honest'.records PROVE Filed(r)'
      <3>1. CASE r = new
        <4>1. Filed(x)
          BY <3>1, <2>1, <2>2, <2>4 DEF AuditInv
        <4> QED BY <3>1, <4>1, <2>1, <2>2, <1>t DEF Filed, AuditTyped, Record
      <3>2. CASE r # new
        BY <3>2, <2>1, <2>4 DEF AuditInv, Filed
      <3> QED BY <3>1, <3>2
    <2>5. ASSUME NEW s \in honest'.signatures PROVE Backed(s)'
      <3>1. Backed(s)
        BY <2>1 DEF AuditInv
      <3>2. CitationHolds(s) => CitationHolds(s)'
        BY <2>1, <2>2 DEF CitationHolds
      <3>3. ASSUME NEW r \in records, Vouches(r, s) PROVE \E q \in records' : Vouches(q, s)'
        <4>1. CASE r = x
          <5>1. Vouches(new, s)'
            BY <3>3, <4>1, <2>1, <2>2 DEF Vouches
          <5> QED BY <5>1, <2>1
        <4>2. CASE r # x
          BY <3>3, <4>2, <2>1 DEF Vouches
        <4> QED BY <4>1, <4>2
      <3> QED BY <3>1, <3>2, <3>3, <2>1 DEF Backed, Cites
    <2> QED BY <2>3, <2>4, <2>5 DEF AuditInv
  <1>5. ASSUME NEW role \in AuditRoles, NEW date \in 0 .. today,
               NEW cites \in {Nowhere, NoRecord} \union {r.id : r \in records}, Sign(role, date, cites)
        PROVE  AuditInv'
    <2> DEFINE new == [role |-> role, date |-> date, cites |-> cites]
               clean == /\ date \in {today, Undated}
                        /\ \/ Cites(new) /\ CitationHolds(new)
                           \/ /\ ~ Cites(new)
                              /\ \E r \in RecordsOf(role) : r.id \in honest.records /\ today - r.named <= Window
    <2>1. /\ signatures' = signatures \union {new} /\ work' = work + 1
          /\ honest' = IF clean THEN [honest EXCEPT !.signatures = @ \union {new}] ELSE honest
          /\ UNCHANGED <<today, logs, records>>
      BY <1>5 DEF Sign, Work
    <2>2. /\ new \in Signature /\ new.role = role /\ new.date = date /\ new.cites = cites
      <3>1. cites \in Int
        BY <1>t DEF AuditTyped, Record, Nowhere, NoRecord
      <3> QED BY <3>1, <1>t DEF AuditTyped, Signature
    <2>3. clean => Backed(new)
      <3>1. ASSUME clean, ~ Cites(new), date = today PROVE \E r \in records : Vouches(r, new)
        <4>1. PICK r \in records : r.role = role /\ r.id \in honest.records /\ today - r.named <= Window
          BY <3>1 DEF RecordsOf
        <4>2. Filed(r)
          BY <4>1 DEF AuditInv
        <4>3. r.named <= today
          BY <4>2, <1>t DEF Filed, AuditTyped, Record
        <4>4. Vouches(r, new)
          BY <4>1, <4>3, <3>1, <2>2 DEF Vouches
        <4> QED BY <4>4
      <3>2. date <= today
        BY <1>t DEF AuditTyped
      <3> QED BY <3>1, <3>2, <2>2 DEF Backed
    <2> HIDE DEF new, clean
    <2>4. /\ honest'.records = honest.records
          /\ honest'.signatures = honest.signatures \union (IF clean THEN {new} ELSE {})
          /\ honest' \in [records : SUBSET (0 .. work + 1), signatures : SUBSET Signature]
      <3>1. honest.records \subseteq 0 .. work + 1
        BY <1>t DEF AuditTyped
      <3> QED BY <3>1, <2>1, <2>2, <1>t DEF AuditTyped
    <2>5. AuditTyped'
      BY <2>1, <2>2, <2>4, <1>t DEF AuditTyped, Record
    <2>6. ASSUME NEW r \in records', r.id \in honest'.records PROVE Filed(r)'
      BY <2>1, <2>4, <2>6 DEF AuditInv, Filed
    <2>7. ASSUME NEW s \in honest'.signatures PROVE Backed(s)'
      <3>1. Backed(s)
        BY <2>3, <2>4 DEF AuditInv
      <3> QED BY <3>1, <2>1, <2>4 DEF Backed, Vouches, Cites, CitationHolds
    <2> QED BY <2>5, <2>6, <2>7 DEF AuditInv
  <1>6. CASE NextDate
    <2>1. today' = today + 1 /\ UNCHANGED <<logs, records, signatures, work, honest>>
      BY <1>6 DEF NextDate
    <2>2. AuditTyped'
      BY <2>1, <1>t DEF AuditTyped, Record
    <2>3. ASSUME NEW r \in records', r.id \in honest'.records PROVE Filed(r)'
      BY <2>1, <2>3 DEF AuditInv, Filed
    <2>4. ASSUME NEW s \in honest'.signatures PROVE Backed(s)'
      <3>1. Backed(s) /\ s.date \in Nat
        BY <2>1, <1>t DEF AuditInv, AuditTyped, Signature
      <3>2. s.date <= today'
        BY <3>1, <2>1, <1>t DEF Backed, AuditTyped
      <3> QED BY <3>1, <3>2, <2>1 DEF Backed, Vouches, Cites, CitationHolds
    <2> QED BY <2>2, <2>3, <2>4 DEF AuditInv
  <1> QED BY <1>1, <1>2, <1>3, <1>4, <1>5, <1>6 DEF AuditNext

LEMMA AuditsPass == AuditInv => HonestWorkPasses
  <1> SUFFICES ASSUME AuditInv PROVE HonestWorkPasses
    OBVIOUS
  <1>t. AuditTyped
    BY DEF AuditInv
  <1>w. Window \in Nat /\ Max({1, Window}) \in Nat /\ Max({1, Window}) >= Window
    BY EpisodicAuditAssumption, GreatestOfTwo
  <1>1. ASSUME NEW s \in honest.signatures PROVE ~ ForgedAsOf(s, s.date) /\ (s.date = today => ~ ForgedNow(s))
    <2>1. Backed(s) /\ s.date \in Nat
      BY <1>t DEF AuditInv, AuditTyped, Signature
    <2>2. CASE Cites(s)
      BY <2>1, <2>2 DEF Backed, ForgedAsOf, ForgedNow
    <2>3. CASE ~ Cites(s) /\ s.date = Undated
      BY <2>1, <2>3, <1>t DEF ForgedAsOf, AuditTyped, Undated
    <2>4. ASSUME ~ Cites(s), NEW r \in records, Vouches(r, s) 
          PROVE ~ ForgedAsOf(s, s.date) /\ (s.date = today => ~ ForgedNow(s))
      <3>1. r \in Record /\ Filed(r)
        BY <2>4, <1>t DEF AuditInv, AuditTyped, Vouches
      <3>2. r.named \in Nat /\ r.m \in Nat /\ r.named # 0 /\ r.named <= r.m /\ r.named <= s.date /\ s.date - r.named <= Window
        BY <3>1, <2>4 DEF Record, Filed, Vouches
      <3>3. r \in RecordsOf(s.role)
        BY <2>4 DEF RecordsOf, Vouches
      <3>4. episodic_date(r) = r.named /\ Distance(s.date, r.named) = s.date - r.named
        BY <3>2, <2>1 DEF episodic_date, Undated, Distance
      <3>5. ~ ForgedAsOf(s, s.date)
        <4>1. ~ (Distance(s.date, episodic_date(r)) > Max({1, Window}))
          BY <3>2, <3>4, <1>w, <2>1
        <4> QED BY <4>1, <3>3, <2>4 DEF ForgedAsOf
      <3>6. s.date = today => ~ (today - r.m > Window)
        BY <3>2, <2>1, <1>w
      <3> QED BY <3>3, <3>5, <3>6, <2>4 DEF ForgedNow
    <2> QED BY <2>1, <2>2, <2>3, <2>4 DEF Backed
  <1>2. ASSUME NEW r \in records, r.id \in honest.records PROVE ~ IdentityViolation(r) /\ logs # {}
    <2>1. PICK l \in logs : l.type = r.role /\ l.when <= r.named
      BY <1>2 DEF AuditInv, Filed
    <2> DEFINE days == {x.when : x \in first_by_type(r.role)}
    <2>2. l \in first_by_type(r.role) /\ l.when \in days
      BY <2>1 DEF first_by_type
    <2>3. days \in SUBSET Nat /\ days # {}
      BY <2>2, <1>t DEF first_by_type, AuditTyped
    <2>4. FirstDay(r.role) = Min(days)
      BY DEF FirstDay
    <2> HIDE DEF days
    <2>5. FirstDay(r.role) \in Nat /\ FirstDay(r.role) <= l.when
      <3>1. Min(days) \in days /\ \A x \in days : Min(days) <= x
        BY <2>3, LeastOfNats
      <3> QED BY <3>1, <2>2, <2>3, <2>4
    <2>6. r.named \in Nat /\ l.when \in Nat
      BY <2>2, <2>3, <1>t DEF AuditTyped, Record
    <2>7. ~ (r.named < FirstDay(r.role))
      BY <2>1, <2>5, <2>6
    <2> QED BY <2>2, <2>7 DEF IdentityViolation
  <1>3. signatures # {} /\ signatures = honest.signatures => LegacyOutcome = "VERIFIED"
    BY <1>1 DEF LegacyOutcome
  <1>4. ASSUME records # {}, {r.id : r \in records} = honest.records PROVE IdentityOutcome = "OK"
    <2>1. \A r \in records : r.id \in honest.records
      BY <1>4
    <2> QED BY <1>2, <1>4, <2>1 DEF IdentityOutcome
  <1> QED BY <1>1, <1>2, <1>3, <1>4 DEF HonestWorkPasses

(* Neither the live gate nor an audit of the archive ever reports a signature that was *)
(* backed when it was written, or a record that its own role filed under that day's    *)
(* date, whatever else is filed, touched, signed or dispatched (verify_signatures.py). *)
THEOREM HonestWorkAlwaysPasses == AuditSpec => []HonestWorkPasses
  BY AuditStarts, AuditStep, AuditsPass, PTL DEF AuditSpec

-----------------------------------------------------------------------------
(* The calibration telemetry. *)

TelemetryLine == [claim : Nat, decision : Decisions, outcome : {"null", "true", "false"}]
Scoring == [at : {"idle", "rewrite"}, read : Seq(TelemetryLine), lines : Seq(TelemetryLine)]
CalibrationTyped ==
    /\ telemetry \in Seq(TelemetryLine) /\ judge \in [Judges -> Scoring] /\ claims \in Nat
    /\ logged \subseteq 1 .. claims /\ answered \subseteq Nat \X {"true", "false"} /\ crossed \subseteq Nat
(* No claim has two lines, and every line is of a claim that was logged. *)
OfLogged(lines, ids) ==
    /\ \A i, k \in 1 .. Len(lines) : lines[i].claim = lines[k].claim => i = k
    /\ \A i \in 1 .. Len(lines) : lines[i].claim \in ids
(* A rewrite differs from what it read in lines that had no outcome, which have one now. *)
Rescores(read, lines) ==
    /\ Len(lines) = Len(read)
    /\ \A i \in 1 .. Len(lines) :
         /\ lines[i].claim = read[i].claim
         /\ lines[i] = read[i] \/ (read[i].outcome = "null" /\ lines[i].outcome # "null")
(* The line of a claim has its answer. *)
AnsweredAs(line, c, told) ==
    /\ line.claim = c
    /\ IF line.outcome = "null" THEN \A y \in told : y[1] # c ELSE <<c, line.outcome>> \in told
TellsIn(lines, c, told) == \E i \in 1 .. Len(lines) : AnsweredAs(lines[i], c, told)
CalibrationInv ==
    /\ CalibrationTyped /\ OfLogged(telemetry, logged) /\ \A y \in answered : y[1] \in logged
    /\ \A j \in Judges : OfLogged(judge[j].lines, logged) /\ Rescores(judge[j].read, judge[j].lines)
    /\ \A c \in logged \ crossed : TellsIn(telemetry, c, answered)

LEMMA IdleScoring == Idle \in Scoring /\ Idle.lines = << >> /\ Idle.read = << >>
  <1>1. << >> \in Seq(TelemetryLine)
    OBVIOUS
  <1> QED BY <1>1 DEF Idle, Scoring

LEMMA CalibrationStarts == CalibrationInit => CalibrationInv
  <1> SUFFICES ASSUME CalibrationInit PROVE CalibrationInv
    OBVIOUS
  <1>1. telemetry \in Seq(TelemetryLine) /\ Len(telemetry) = 0
    BY DEF CalibrationInit
  <1>2. CalibrationTyped
    BY <1>1, IdleScoring DEF CalibrationInit, CalibrationTyped
  <1>3. \A j \in Judges : judge[j] = Idle
    BY DEF CalibrationInit
  <1>4. OfLogged(<< >>, logged) /\ Rescores(<< >>, << >>)
    BY DEF OfLogged, Rescores
  <1>5. telemetry = << >> /\ logged = {} /\ answered = {}
    BY DEF CalibrationInit
  <1> QED BY <1>2, <1>3, <1>4, <1>5, IdleScoring DEF CalibrationInv

LEMMA LoggedGrows ==
  ASSUME NEW lines \in Seq(TelemetryLine), NEW ids, NEW more, ids \subseteq more, OfLogged(lines, ids)
  PROVE  OfLogged(lines, more)
  BY DEF OfLogged

LEMMA AppendLogged ==
  ASSUME NEW lines \in Seq(TelemetryLine), NEW ids, NEW line \in TelemetryLine, line.claim \notin ids, OfLogged(lines, ids)
  PROVE  OfLogged(Append(lines, line), ids \union {line.claim})
  <1> DEFINE longer == Append(lines, line)
  <1>1. Len(longer) = Len(lines) + 1 /\ Len(lines) \in Nat
    OBVIOUS
  <1>2. \A i \in 1 .. Len(lines) + 1 : longer[i] = IF i = Len(lines) + 1 THEN line ELSE lines[i]
    OBVIOUS
  <1> HIDE DEF longer
  <1>3. \A i \in 1 .. Len(lines) + 1 : i = Len(lines) + 1 \/ i \in 1 .. Len(lines)
    BY <1>1
  <1>4. ASSUME NEW i \in 1 .. Len(longer), NEW k \in 1 .. Len(longer), longer[i].claim = longer[k].claim PROVE i = k
    BY <1>1, <1>2, <1>3, <1>4 DEF OfLogged
  <1>5. ASSUME NEW i \in 1 .. Len(longer) PROVE longer[i].claim \in ids \union {line.claim}
    BY <1>1, <1>2, <1>3 DEF OfLogged
  <1> QED BY <1>4, <1>5 DEF OfLogged, longer

LEMMA PartLogged ==
  ASSUME NEW lines \in Seq(TelemetryLine), NEW ids, NEW n \in 0 .. Len(lines), OfLogged(lines, ids)
  PROVE  SubSeq(lines, 1, n) \in Seq(TelemetryLine) /\ OfLogged(SubSeq(lines, 1, n), ids)
  <1> DEFINE part == SubSeq(lines, 1, n)
  <1>1. Len(lines) \in Nat /\ part \in Seq(TelemetryLine) /\ Len(part) = n /\ \A i \in 1 .. n : part[i] = lines[i]
    OBVIOUS
  <1> HIDE DEF part
  <1>2. OfLogged(part, ids)
    BY <1>1 DEF OfLogged
  <1> QED BY <1>1, <1>2 DEF part

LEMMA RescoredDoes ==
  ASSUME NEW lines \in Seq(TelemetryLine), NEW d, NEW found \in {"true", "false"}, NEW ids, OfLogged(lines, ids)
  PROVE  /\ Rescored(lines, d, found) \in Seq(TelemetryLine)
         /\ OfLogged(Rescored(lines, d, found), ids)
         /\ Rescores(lines, Rescored(lines, d, found))
  <1> DEFINE new == Rescored(lines, d, found)
             line(i) == IF IsOpen(lines[i], d, found) THEN [lines[i] EXCEPT !.outcome = found] ELSE lines[i]
  <1>1. Len(lines) \in Nat /\ \A i \in 1 .. Len(lines) : lines[i] \in TelemetryLine
    OBVIOUS
  <1>2. ASSUME NEW i \in 1 .. Len(lines)
        PROVE  /\ line(i) \in TelemetryLine /\ line(i).claim = lines[i].claim
               /\ line(i) = lines[i] \/ (lines[i].outcome = "null" /\ line(i).outcome # "null")
    BY <1>1 DEF IsOpen, TelemetryLine
  <1>3. new = [i \in 1 .. Len(lines) |-> line(i)]
    BY DEF Rescored
  <1> HIDE DEF new, line
  <1>4. new \in Seq(TelemetryLine) /\ Len(new) = Len(lines) /\ \A i \in 1 .. Len(lines) : new[i] = line(i)
    BY <1>1, <1>2, <1>3
  <1>5. OfLogged(new, ids) /\ Rescores(lines, new)
    BY <1>2, <1>4 DEF OfLogged, Rescores
  <1> QED BY <1>4, <1>5 DEF new

(* The file that WriteTelemetry leaves tells of every claim that is not crossed. *)
LEMMA WriteTells ==
  ASSUME CalibrationInv, NEW j \in Judges, WriteTelemetry(j), NEW c \in logged, c \notin crossed'
  PROVE  TellsIn(judge[j].lines, c, answered')
  <1> DEFINE lines == judge[j].lines
             fresh == {x \in Range(lines) : x.outcome # "null" /\ ~ \E y \in answered : y[1] = x.claim}
  <1>1. answered' = answered \union {<<x.claim, x.outcome>> : x \in fresh}
    BY DEF WriteTelemetry
  <1>2. lines \in Seq(TelemetryLine) /\ judge[j].read \in Seq(TelemetryLine) /\ telemetry \in Seq(TelemetryLine)
    BY DEF CalibrationInv, CalibrationTyped, Scoring
  <1>3. OfLogged(lines, logged) /\ Rescores(judge[j].read, lines) /\ c \notin crossed
    BY DEF CalibrationInv, WriteTelemetry
  <1>4. PICK i \in 1 .. Len(telemetry) : AnsweredAs(telemetry[i], c, answered)
    BY <1>3 DEF CalibrationInv, TellsIn
  <1>5. \A x \in fresh : \E k \in 1 .. Len(lines) : x = lines[k]
    BY <1>2 DEF Range
  <1>6. \A k \in 1 .. Len(lines) : lines[k] \in Range(lines)
    BY <1>2 DEF Range
  <1>7. ASSUME NEW k \in 1 .. Len(lines), lines[k].claim = c,
               lines[k] = telemetry[i] \/ (telemetry[i].outcome = "null" /\ lines[k].outcome # "null")
        PROVE  AnsweredAs(lines[k], c, answered')
    <2>1. CASE lines[k].outcome = "null"
      <3>1. \A y \in answered : y[1] # c
        BY <1>4, <1>7, <2>1 DEF AnsweredAs
      <3>2. \A x \in fresh : x.claim # c
        BY <1>3, <1>5, <1>7, <2>1 DEF OfLogged
      <3>3. \A y \in answered' : y[1] # c
        BY <1>1, <3>1, <3>2
      <3> QED BY <1>7, <2>1, <3>3 DEF AnsweredAs
    <2>2. CASE lines[k].outcome # "null"
      <3>1. CASE telemetry[i].outcome = "null"
        <4>1. \A y \in answered : y[1] # c
          BY <1>4, <3>1 DEF AnsweredAs
        <4>2. lines[k] \in fresh
          BY <1>6, <1>7, <2>2, <4>1
        <4>3. <<c, lines[k].outcome>> \in answered'
          BY <1>1, <1>7, <4>2
        <4> QED BY <1>7, <2>2, <4>3 DEF AnsweredAs
      <3>2. CASE telemetry[i].outcome # "null"
        BY <1>1, <1>4, <1>7, <2>2, <3>2 DEF AnsweredAs
      <3> QED BY <3>1, <3>2
    <2> QED BY <2>1, <2>2
  <1>8. CASE telemetry = judge[j].read
    <2>1. i \in 1 .. Len(lines) /\ lines[i].claim = c
          /\ (lines[i] = telemetry[i] \/ (telemetry[i].outcome = "null" /\ lines[i].outcome # "null"))
      BY <1>3, <1>4, <1>8 DEF Rescores, AnsweredAs
    <2> QED BY <1>7, <2>1 DEF TellsIn
  <1>9. CASE telemetry # judge[j].read
    <2>1. telemetry[i] \in Range(telemetry) /\ telemetry[i].claim = c
      BY <1>2, <1>4 DEF Range, AnsweredAs
    <2>2. c \notin Touched(j)
      BY <1>9 DEF WriteTelemetry
    <2>3. telemetry[i] \in Range(lines)
      BY <2>1, <2>2 DEF Touched
    <2>4. PICK k \in 1 .. Len(lines) : lines[k] = telemetry[i]
      BY <1>2, <2>3 DEF Range
    <2> QED BY <1>7, <2>1, <2>4 DEF TellsIn
  <1> QED BY <1>8, <1>9

LEMMA CalibrationStep == CalibrationInv /\ [CalibrationNext]_calibrationVars => CalibrationInv'
  <1> SUFFICES ASSUME CalibrationInv, [CalibrationNext]_calibrationVars PROVE CalibrationInv'
    OBVIOUS
  <1>t. CalibrationTyped
    BY DEF CalibrationInv
  <1>1. CASE UNCHANGED calibrationVars
    BY <1>1 DEF calibrationVars, CalibrationInv, CalibrationTyped
  <1>2. ASSUME NEW j \in Judges, NEW d \in Decisions, log_calibration(j, d) PROVE CalibrationInv'
    <2>0. PICK new : new = [claim |-> claims + 1, decision |-> d, outcome |-> "null"]
      OBVIOUS
    <2>1. /\ telemetry' = Append(telemetry, new) /\ logged' = logged \union {claims + 1} /\ claims' = claims + 1
          /\ UNCHANGED <<judge, answered, crossed>>
      BY <1>2, <2>0 DEF log_calibration, Turn
    <2>2. new \in TelemetryLine /\ new.claim = claims + 1 /\ new.outcome = "null" /\ claims + 1 \notin logged
      BY <2>0, <1>t DEF TelemetryLine, CalibrationTyped
    <2>3. CalibrationTyped'
      <3>1. telemetry' \in Seq(TelemetryLine)
        BY <2>1, <2>2, <1>t DEF CalibrationTyped
      <3>2. claims' \in Nat /\ logged' \subseteq 1 .. claims'
        BY <2>1, <1>t DEF CalibrationTyped
      <3> QED BY <2>1, <3>1, <3>2, <1>t DEF CalibrationTyped
    <2>4. OfLogged(telemetry', logged')
      BY <2>1, <2>2, <1>t, AppendLogged DEF CalibrationInv, CalibrationTyped
    <2>5. \A k \in Judges : judge[k].lines \in Seq(TelemetryLine)
      BY <1>t DEF CalibrationTyped, Scoring
    <2>6. \A k \in Judges : OfLogged(judge'[k].lines, logged') /\ Rescores(judge'[k].read, judge'[k].lines)
      BY <2>1, <2>5, LoggedGrows DEF CalibrationInv
    <2>7. ASSUME NEW c \in logged' \ crossed' PROVE TellsIn(telemetry', c, answered')
      <3>1. /\ Len(telemetry') = Len(telemetry) + 1 /\ Len(telemetry) \in Nat
            /\ \A i \in 1 .. Len(telemetry) : telemetry'[i] = telemetry[i]
            /\ telemetry'[Len(telemetry) + 1] = new
        BY <2>1, <2>2, <1>t DEF CalibrationTyped
      <3>2. CASE c = claims + 1
        <4>1. \A y \in answered : y[1] # c
          BY <2>2, <3>2 DEF CalibrationInv
        <4>2. AnsweredAs(new, c, answered')
          BY <2>1, <2>2, <3>2, <4>1 DEF AnsweredAs
        <4> QED BY <3>1, <4>2 DEF TellsIn
      <3>3. CASE c # claims + 1
        <4>1. PICK i \in 1 .. Len(telemetry) : AnsweredAs(telemetry[i], c, answered)
          BY <2>1, <2>7, <3>3 DEF CalibrationInv, TellsIn
        <4> QED BY <2>1, <3>1, <4>1 DEF TellsIn
      <3> QED BY <3>2, <3>3
    <2>8. \A y \in answered' : y[1] \in logged'
      BY <2>1 DEF CalibrationInv
    <2> QED BY <2>3, <2>4, <2>6, <2>7, <2>8 DEF CalibrationInv
  <1>3. ASSUME NEW j \in Judges, NEW d \in Decisions, NEW found \in {"true", "false"}, score_calibration(j, d, found)
        PROVE  CalibrationInv'
    <2>0. PICK new : new = [at |-> "rewrite", read |-> telemetry, lines |-> Rescored(telemetry, d, found)]
      OBVIOUS
    <2>1. /\ judge' \in {[judge EXCEPT ![j] = new], judge} /\ claims' = claims + 1
          /\ UNCHANGED <<telemetry, logged, answered, crossed>>
      BY <1>3, <2>0 DEF score_calibration, Turn
    <2>2. /\ telemetry \in Seq(TelemetryLine) /\ OfLogged(telemetry, logged)
      BY <1>t DEF CalibrationInv, CalibrationTyped
    <2>3. new \in Scoring /\ OfLogged(new.lines, logged) /\ Rescores(new.read, new.lines)
      BY <2>0, <2>2, RescoredDoes DEF Scoring
    <2>4. CalibrationTyped'
      BY <2>1, <2>3, <1>t DEF CalibrationTyped
    <2>5. ASSUME NEW k \in Judges PROVE OfLogged(judge'[k].lines, logged) /\ Rescores(judge'[k].read, judge'[k].lines)
      <3>1. judge'[k] = new \/ judge'[k] = judge[k]
        BY <2>1, <1>t DEF CalibrationTyped
      <3> QED BY <2>3, <3>1 DEF CalibrationInv
    <2> QED BY <2>1, <2>4, <2>5 DEF CalibrationInv
  <1>4. ASSUME NEW j \in Judges, WriteTelemetry(j) PROVE CalibrationInv'
    <2>1. /\ telemetry' = judge[j].lines /\ judge' = [judge EXCEPT ![j] = Idle] /\ UNCHANGED <<claims, logged>>
      BY <1>4 DEF WriteTelemetry
    <2>2. judge[j].lines \in Seq(TelemetryLine) /\ OfLogged(judge[j].lines, logged)
      BY <1>t DEF CalibrationInv, CalibrationTyped, Scoring
    <2>3. answered' \subseteq Nat \X {"true", "false"}
      <3>1. \A x \in Range(judge[j].lines) : x \in TelemetryLine
        BY <2>2 DEF Range
      <3> QED BY <1>4, <3>1, <1>t DEF WriteTelemetry, TelemetryLine, CalibrationTyped
    <2>4. crossed' \subseteq Nat
      <3>1. \A x \in Range(telemetry) : x \in TelemetryLine
        BY <1>t DEF Range, CalibrationTyped
      <3> QED BY <1>4, <3>1, <1>t DEF WriteTelemetry, Touched, TelemetryLine, CalibrationTyped
    <2>5. CalibrationTyped'
      BY <2>1, <2>2, <2>3, <2>4, <1>t, IdleScoring DEF CalibrationTyped
    <2>6. ASSUME NEW k \in Judges PROVE OfLogged(judge'[k].lines, logged) /\ Rescores(judge'[k].read, judge'[k].lines)
      <3>1. judge'[k] = Idle \/ judge'[k] = judge[k]
        BY <2>1, <1>t DEF CalibrationTyped
      <3>2. OfLogged(<< >>, logged) /\ Rescores(<< >>, << >>)
        BY DEF OfLogged, Rescores
      <3> QED BY <3>1, <3>2, IdleScoring DEF CalibrationInv
    <2>7. \A c \in logged \ crossed' : TellsIn(judge[j].lines, c, answered')
      BY <1>4, WriteTells
    <2>8. \A y \in answered' : y[1] \in logged
      <3>1. \A x \in Range(judge[j].lines) : x.claim \in logged
        BY <2>2 DEF Range, OfLogged
      <3> QED BY <1>4, <3>1 DEF WriteTelemetry, CalibrationInv
    <2> QED BY <2>1, <2>2, <2>5, <2>6, <2>7, <2>8 DEF CalibrationInv
  <1>5. ASSUME NEW j \in Judges, KillJudge(j) PROVE CalibrationInv'
    <2>1. judge' = [judge EXCEPT ![j] = Idle] /\ claims' = claims + 1 /\ UNCHANGED <<logged, answered>>
      BY <1>5 DEF KillJudge, Turn
    <2>2. judge[j].lines \in Seq(TelemetryLine) /\ OfLogged(judge[j].lines, logged)
      BY <1>t DEF CalibrationInv, CalibrationTyped, Scoring
    <2>3. /\ telemetry' \in Seq(TelemetryLine) /\ OfLogged(telemetry', logged)
          /\ (crossed' = crossed \union logged \/ (crossed' = crossed /\ telemetry' = telemetry))
      BY <1>5, <2>2, <1>t, PartLogged DEF KillJudge, CalibrationInv, CalibrationTyped
    <2>4. CalibrationTyped'
      <3>0. claims \in Nat /\ logged \subseteq 1 .. claims /\ 1 .. claims \subseteq 1 .. claims + 1 /\ crossed \subseteq Nat
        BY <1>t DEF CalibrationTyped
      <3>a. claims' \in Nat /\ logged' \subseteq 1 .. claims'
        BY <2>1, <3>0
      <3>b. crossed' \subseteq Nat
        <4>1. crossed' = crossed \union logged \/ crossed' = crossed
          BY <2>3
        <4>2. logged \subseteq Nat
          BY <3>0
        <4> QED BY <3>0, <4>1, <4>2
      <3>1. claims' \in Nat /\ logged' \subseteq 1 .. claims' /\ crossed' \subseteq Nat
        BY <3>a, <3>b
      <3>2. judge' \in [Judges -> Scoring]
        BY <2>1, <1>t, IdleScoring DEF CalibrationTyped
      <3> QED BY <2>1, <2>3, <3>1, <3>2, <1>t DEF CalibrationTyped
    <2>5. ASSUME NEW k \in Judges PROVE OfLogged(judge'[k].lines, logged) /\ Rescores(judge'[k].read, judge'[k].lines)
      <3>1. judge'[k] = Idle \/ judge'[k] = judge[k]
        BY <2>1, <1>t DEF CalibrationTyped
      <3>2. OfLogged(<< >>, logged) /\ Rescores(<< >>, << >>)
        BY DEF OfLogged, Rescores
      <3> QED BY <3>1, <3>2, IdleScoring DEF CalibrationInv
    <2> QED BY <2>1, <2>3, <2>4, <2>5 DEF CalibrationInv
  <1>6. CASE Rollup
    BY <1>6 DEF Rollup, CalibrationInv, CalibrationTyped
  <1> QED BY <1>1, <1>2, <1>3, <1>4, <1>5, <1>6 DEF CalibrationNext

LEMMA ClaimsAreTold == CalibrationInv => ClaimsAnsweredOnce
  <1> SUFFICES ASSUME CalibrationInv PROVE ClaimsAnsweredOnce
    OBVIOUS
  <1>1. telemetry \in Seq(TelemetryLine) /\ Range(telemetry) = {telemetry[i] : i \in 1 .. Len(telemetry)}
    BY DEF CalibrationInv, CalibrationTyped, Range
  <1>2. IsInjective([i \in 1 .. Len(telemetry) |-> telemetry[i].claim])
    BY DEF CalibrationInv, OfLogged, IsInjective
  <1>3. ASSUME NEW c \in logged \ crossed
        PROVE  /\ c \in {line.claim : line \in Range(telemetry)}
               /\ c \in list_pending_claims <=> ~ \E y \in answered : y[1] = c
               /\ \A line \in Range(telemetry) :
                    line.claim = c /\ line.outcome # "null" => <<c, line.outcome>> \in answered
    <2>1. PICK i \in 1 .. Len(telemetry) : AnsweredAs(telemetry[i], c, answered)
      BY DEF CalibrationInv, TellsIn
    <2>2. telemetry[i] \in Range(telemetry) /\ telemetry[i].claim = c
      BY <1>1, <2>1 DEF AnsweredAs
    <2>3. ASSUME NEW line \in Range(telemetry), line.claim = c PROVE line = telemetry[i]
      BY <1>1, <2>2, <2>3 DEF CalibrationInv, OfLogged
    <2>4. c \in list_pending_claims <=> telemetry[i].outcome = "null"
      BY <2>2, <2>3 DEF list_pending_claims
    <2>5. telemetry[i].outcome = "null" <=> ~ \E y \in answered : y[1] = c
      BY <2>1 DEF AnsweredAs
    <2>6. ASSUME NEW line \in Range(telemetry), line.claim = c, line.outcome # "null"
          PROVE  <<c, line.outcome>> \in answered
      BY <2>1, <2>3, <2>6 DEF AnsweredAs
    <2> QED BY <2>2, <2>4, <2>5, <2>6
  <1> QED BY <1>2, <1>3 DEF ClaimsAnsweredOnce

(* A claim has one line, which keeps the first outcome it was given and is pending until *)
(* then, but for the claims whose line a rewrite of an older copy or a kill changed      *)
(* (log_calibration, score_calibration, list_pending_claims).                            *)
THEOREM ClaimsStayAnswered == CalibrationSpec => []ClaimsAnsweredOnce
  BY CalibrationStarts, CalibrationStep, ClaimsAreTold, PTL DEF CalibrationSpec

-----------------------------------------------------------------------------
(* The note files of the memory tool. *)

OpShape == [at : {"free", "replace", "crumb", "archive", "log", "history", "semantic archive", "semantic"},
            path : Paths \union {""}, text : Int, keep : Seq(Nat), drop : Seq(Nat)]
NotesTyped ==
    /\ day \in Days /\ note \in [Paths -> Int] /\ trash \in [Days -> [Paths -> Int]]
    /\ log \in Seq(Nat) /\ archived \in [Days -> Seq(Nat)] /\ semantic \in Seq(Nat) /\ semanticArchive \in Seq(Nat)
    /\ op \in [Callers -> OpShape] /\ commands \in Nat
    /\ torn \in BOOLEAN

(* An entry of the log is in it or in an archive, and so it will be when the rotations under way write it.  *)
IsArchived(e) == \E d \in Days : e \in Range(archived[d])
LogHeld(e) == e \in Range(log) \/ IsArchived(e)
LogCopyHeld(c, e) ==
    op[c].at \in {"archive", "log"} =>
        e \in Range(op[c].keep) \/ IsArchived(e) \/ (op[c].at = "archive" /\ e \in Range(op[c].drop))
LogKept ==
    ~ torn => \A e \in entries.log \ overrun.log : LogHeld(e) /\ \A c \in Callers : LogCopyHeld(c, e)

SemanticHeld(e) == e \in Range(semantic) \/ e \in Range(semanticArchive)
SemanticCopyHeld(c, e) ==
    op[c].at \in {"semantic archive", "semantic"} =>
        \/ e \in Range(op[c].keep) \/ e \in Range(semanticArchive)
        \/ op[c].at = "semantic archive" /\ e \in Range(op[c].drop)
SemanticKept ==
    ~ torn => \A e \in entries.semantic \ overrun.semantic :
                  SemanticHeld(e) /\ \A c \in Callers : SemanticCopyHeld(c, e)

EntrySets == [log : SUBSET Nat, semantic : SUBSET Nat]
DeletedTyped == deleted \subseteq Days \X Paths \X Int
GhostsTyped == DeletedTyped /\ entries \in EntrySets /\ overrun \in EntrySets
NotesInv == NotesTyped /\ GhostsTyped /\ DeletedKept /\ LogKept /\ SemanticKept

-----------------------------------------------------------------------------
LEMMA RangeConcat ==
  ASSUME NEW s \in Seq(Nat), NEW t \in Seq(Nat)
  PROVE  s \o t \in Seq(Nat) /\ \A e : e \in Range(s \o t) <=> e \in Range(s) \/ e \in Range(t)
  <1> DEFINE u == s \o t
  <1>1. u \in Seq(Nat) /\ Len(u) = Len(s) + Len(t) /\ Len(s) \in Nat /\ Len(t) \in Nat
    OBVIOUS
  <1>2. /\ \A i \in 1 .. Len(s) : u[i] = s[i]
        /\ \A i \in 1 .. Len(t) : u[Len(s) + i] = t[i]
    OBVIOUS
  <1>3. DOMAIN u = 1 .. Len(u) /\ DOMAIN s = 1 .. Len(s) /\ DOMAIN t = 1 .. Len(t)
    OBVIOUS
  <1> HIDE DEF u
  <1>4. \A i \in 1 .. Len(u) : i \in 1 .. Len(s) \/ (i - Len(s) \in 1 .. Len(t) /\ i = Len(s) + (i - Len(s)))
    BY <1>1
  <1>5. ASSUME NEW e, e \in Range(u) PROVE e \in Range(s) \/ e \in Range(t)
    <2>1. PICK i \in 1 .. Len(u) : u[i] = e
      BY <1>3, <1>5 DEF Range
    <2>2. CASE i \in 1 .. Len(s)
      BY <1>2, <1>3, <2>1, <2>2 DEF Range
    <2>3. CASE i - Len(s) \in 1 .. Len(t) /\ i = Len(s) + (i - Len(s))
      <3>1. PICK k \in 1 .. Len(t) : i = Len(s) + k
        BY <2>3
      <3> QED BY <1>2, <1>3, <2>1, <3>1 DEF Range
    <2> QED BY <1>4, <2>2, <2>3
  <1>6. ASSUME NEW e, e \in Range(s) PROVE e \in Range(u)
    <2>1. PICK i \in 1 .. Len(s) : s[i] = e
      BY <1>3, <1>6 DEF Range
    <2>2. i \in 1 .. Len(u)
      BY <1>1
    <2> QED BY <1>2, <1>3, <2>1, <2>2 DEF Range
  <1>7. ASSUME NEW e, e \in Range(t) PROVE e \in Range(u)
    <2>1. PICK i \in 1 .. Len(t) : t[i] = e
      BY <1>3, <1>7 DEF Range
    <2>2. Len(s) + i \in 1 .. Len(u)
      BY <1>1
    <2> QED BY <1>2, <1>3, <2>1, <2>2 DEF Range
  <1> QED BY <1>1, <1>5, <1>6, <1>7 DEF u

LEMMA RangeOfOne == ASSUME NEW n \in Nat PROVE <<n>> \in Seq(Nat) /\ \A e : e \in Range(<<n>>) <=> e = n
  BY DEF Range

LEMMA RangeAppend ==
  ASSUME NEW s \in Seq(Nat), NEW n \in Nat
  PROVE  Append(s, n) \in Seq(Nat) /\ \A e : e \in Range(Append(s, n)) <=> e \in Range(s) \/ e = n
  <1>1. Append(s, n) = s \o <<n>>
    OBVIOUS
  <1> QED BY <1>1, RangeConcat, RangeOfOne

LEMMA RangeSplit ==
  ASSUME NEW s \in Seq(Nat), NEW n \in 0 .. Len(s)
  PROVE  /\ SubSeq(s, 1, n) \in Seq(Nat) /\ SubSeq(s, n + 1, Len(s)) \in Seq(Nat)
         /\ \A e : e \in Range(s) => e \in Range(SubSeq(s, 1, n)) \/ e \in Range(SubSeq(s, n + 1, Len(s)))
  <1> DEFINE a == SubSeq(s, 1, n)
             b == SubSeq(s, n + 1, Len(s))
  <1>1. /\ a \in Seq(Nat) /\ b \in Seq(Nat) /\ Len(s) \in Nat
        /\ DOMAIN a = 1 .. n /\ DOMAIN b = 1 .. Len(s) - n /\ DOMAIN s = 1 .. Len(s)
        /\ \A i \in 1 .. n : a[i] = s[i]
        /\ \A i \in 1 .. Len(s) - n : b[i] = s[n + i]
    <2>1. Len(s) \in Nat /\ n \in Nat /\ n <= Len(s) /\ DOMAIN s = 1 .. Len(s)
      OBVIOUS
    <2>2. a \in Seq(Nat) /\ Len(a) = n /\ \A i \in 1 .. n : a[i] = s[i]
      BY <2>1
    <2>3. b \in Seq(Nat) /\ Len(b) = Len(s) - n
      <3>1. \A i \in n + 1 .. Len(s) : s[i] \in Nat
        BY <2>1
      <3>2. b \in Seq(Nat) /\ Len(b) = IF n + 1 <= Len(s) THEN Len(s) - (n + 1) + 1 ELSE 0
        BY <2>1, <3>1, SubSeqProperties
      <3>3. \A k, m \in Nat : m <= k => k - m = IF m + 1 <= k THEN k - (m + 1) + 1 ELSE 0
        OBVIOUS
      <3> HIDE DEF b
      <3> QED BY <2>1, <3>2, <3>3
    <2>4. \A i \in 1 .. Len(s) - n : b[i] = s[n + i]
      <3>1. \A i \in n + 1 .. Len(s) : s[i] \in Nat
        BY <2>1
      <3>2. \A i \in 1 .. Len(s) - (n + 1) + 1 : b[i] = s[(n + 1) + i - 1]
        BY <2>1, <3>1, SubSeqProperties
      <3>3. Len(s) - (n + 1) + 1 = Len(s) - n
        BY <2>1
      <3>4. ASSUME NEW i \in 1 .. Len(s) - n PROVE b[i] = s[n + i]
        <4>1. (n + 1) + i - 1 = n + i
          BY <2>1
        <4> QED BY <3>2, <3>3, <4>1
      <3> QED BY <3>4
    <2>5. DOMAIN a = 1 .. Len(a) /\ DOMAIN b = 1 .. Len(b)
      OBVIOUS
    <2> HIDE DEF a, b
    <2> QED BY <2>1, <2>2, <2>3, <2>4, <2>5
  <1> HIDE DEF a, b
  <1>2. ASSUME NEW e, e \in Range(s) PROVE e \in Range(a) \/ e \in Range(b)
    <2>1. PICK i \in 1 .. Len(s) : s[i] = e
      BY <1>1, <1>2 DEF Range
    <2>2. CASE i <= n
      <3>1. i \in 1 .. n /\ a[i] = e
        BY <1>1, <2>1, <2>2
      <3> QED BY <1>1, <3>1 DEF Range
    <2>3. CASE ~ (i <= n)
      <3>1. i - n \in 1 .. Len(s) - n /\ n + (i - n) = i
        BY <1>1, <2>3
      <3>2. b[i - n] = e
        BY <1>1, <2>1, <3>1
      <3> QED BY <1>1, <3>1, <3>2 DEF Range
    <2> QED BY <2>2, <2>3
  <1> QED BY <1>1, <1>2 DEF a, b

(* What rotate_log keeps is a first part of the log. *)
LEMMA FittingInLog == ASSUME NEW l \in Seq(Nat) PROVE Fitting(l) \in 0 .. Len(l)
  <1> DEFINE S == {n \in 0 .. Len(l) : TotalSize(SubSeq(l, 1, n)) <= Cap}
  <1>1. Len(l) \in Nat /\ SubSeq(l, 1, 0) = << >>
    OBVIOUS
  <1>2. TotalSize(<< >>) = 0
    <2>1. {i \in DOMAIN << >> : << >>[i] \in LongEntries} = {}
      OBVIOUS
    <2>2. Cap * Cardinality({}) = 0
      BY FS_EmptySet, NoteFilesAssumption
    <2>3. Len(<< >>) = 0
      OBVIOUS
    <2> QED BY <2>1, <2>2, <2>3 DEF TotalSize
  <1>3. 0 \in S
    <2>1. TotalSize(SubSeq(l, 1, 0)) = 0
      BY <1>1, <1>2
    <2>2. 0 <= Cap
      BY NoteFilesAssumption
    <2>3. 0 \in 0 .. Len(l)
      BY <1>1
    <2> QED BY <2>1, <2>2, <2>3
  <1>4. S \in SUBSET Nat /\ \A n \in S : n <= Len(l)
    BY <1>1
  <1>5. Fitting(l) = Max(S)
    BY DEF Fitting
  <1>6. Max(S) \in S
    <2> HIDE DEF S
    <2> QED BY <1>1, <1>3, <1>4, GreatestOfBounded
  <1> QED BY <1>5, <1>6

LEMMA OneIsADay == 1 \in Days /\ MaxDay \in Nat
  BY NoteFilesAssumption DEF Days

LEMMA FreeOp == Free \in OpShape /\ Free.at = "free"
  <1>1. << >> \in Seq(Nat)
    OBVIOUS
  <1> QED BY <1>1 DEF Free, OpShape, Absent

LEMMA NotesStart == NotesInit => NotesInv
  <1> SUFFICES ASSUME NotesInit PROVE NotesInv
    OBVIOUS
  <1>1. << >> \in Seq(Nat)
    OBVIOUS
  <1>2. torn \in BOOLEAN
    BY DEF NotesInit
  <1>3. op \in [Callers -> OpShape]
    BY FreeOp DEF NotesInit
  <1>4. NotesTyped
    BY <1>1, <1>2, <1>3, OneIsADay DEF NotesInit, NotesTyped, Absent
  <1>5. GhostsTyped /\ DeletedKept /\ LogKept /\ SemanticKept
    BY DEF NotesInit, GhostsTyped, DeletedTyped, EntrySets, DeletedKept, LogKept, SemanticKept, NoEntries
  <1> QED BY <1>4, <1>5 DEF NotesInv

-----------------------------------------------------------------------------
(* An action that leaves the log, its archives and its entries alone, and starts no rotation of it. *)
LogQuiet ==
    /\ UNCHANGED <<log, archived>> /\ entries'.log = entries.log /\ overrun'.log = overrun.log
    /\ (~ torn' => ~ torn)
    /\ \A c \in Callers : op'[c].at \in {"archive", "log"} => op'[c] = op[c]
LEMMA QuietLogKept == LogKept /\ LogQuiet => LogKept'
  BY DEF LogKept, LogQuiet, LogHeld, LogCopyHeld, IsArchived

SemanticQuiet ==
    /\ UNCHANGED <<semantic, semanticArchive>> /\ entries'.semantic = entries.semantic
    /\ overrun'.semantic = overrun.semantic /\ (~ torn' => ~ torn)
    /\ \A c \in Callers : op'[c].at \in {"semantic archive", "semantic"} => op'[c] = op[c]
LEMMA QuietSemanticKept == SemanticKept /\ SemanticQuiet => SemanticKept'
  BY DEF SemanticKept, SemanticQuiet, SemanticHeld, SemanticCopyHeld

(* An action that deletes nothing. *)
GhostsQuiet == UNCHANGED <<trash, deleted, entries, overrun>>
LEMMA QuietGhosts == GhostsTyped /\ DeletedKept /\ GhostsQuiet => GhostsTyped' /\ DeletedKept'
  BY DEF GhostsTyped, DeletedTyped, DeletedKept, GhostsQuiet

(* A caller's command goes on with next. *)
LEMMA GoesTo ==
  ASSUME NotesTyped, NEW c \in Callers, NEW next \in OpShape, Goto(c, next)
  PROVE  op' \in [Callers -> OpShape] /\ \A b \in Callers : op'[b] = IF b = c THEN next ELSE op[b]
  BY DEF Goto, NotesTyped

LEMMA NoteActions ==
  ASSUME NotesInv, NEW c \in Callers, NEW p, NEW q,
         \/ (p \in Paths /\ (Create(c, p) \/ Replace(c, p) \/ Snapshot(c, p) \/ (q \in Paths /\ Rename(c, p, q))))
         \/ Replaced(c) \/ Crumb(c) \/ KeepHistory(c)
  PROVE  NotesInv'
  <1>t. NotesTyped
    BY DEF NotesInv
  <1>o. \A b \in Callers : op[b] \in OpShape /\ op[b].text \in Int
    BY <1>t DEF NotesTyped, OpShape
  <1>1. NotesTyped' /\ \A b \in Callers : op'[b] = op[b] \/ op'[b].at \in {"replace", "free"}
    <2>1. CASE p \in Paths /\ Create(c, p)
      BY <2>1, <1>t DEF Create, Starts, Command, NotesTyped, semanticVars, logVars
    <2>2. CASE p \in Paths /\ Replace(c, p)
      <3> DEFINE next == [Free EXCEPT !.at = "replace", !.path = p, !.text = commands + 1]
      <3>1. next \in OpShape /\ next.at = "replace"
        <4>1. commands + 1 \in Int
          BY <1>t DEF NotesTyped
        <4> QED BY FreeOp, <2>2, <4>1 DEF OpShape
      <3>2. Goto(c, next)
        BY <2>2 DEF Replace
      <3> HIDE DEF next
      <3>3. op' \in [Callers -> OpShape] /\ \A b \in Callers : op'[b] = IF b = c THEN next ELSE op[b]
        BY <3>1, <3>2, <1>t, GoesTo
      <3> QED BY <2>2, <3>1, <3>3, <1>t DEF Replace, Starts, Command, NotesTyped, noteVars, semanticVars, logVars
    <2>3. CASE Snapshot(c, p)
      BY <2>3, <1>t DEF Snapshot, Starts, Command, NotesTyped, semanticVars, logVars
    <2>4. CASE p \in Paths /\ q \in Paths /\ Rename(c, p, q)
      <3>1. note' \in [Paths -> Int]
        BY <2>4, <1>t DEF Rename, NotesTyped, Absent
      <3> QED BY <2>4, <3>1, <1>t DEF Rename, Starts, Command, NotesTyped, semanticVars, logVars
    <2>5. ASSUME Replaced(c) \/ Crumb(c) \/ KeepHistory(c) PROVE NotesTyped' /\ \A b \in Callers : op'[b] = op[b] \/ op'[b].at \in {"replace", "free"}
      <3>1. Goto(c, Free)
        BY <2>5 DEF Replaced, Crumb, KeepHistory, Done
      <3>2. op' \in [Callers -> OpShape] /\ \A b \in Callers : op'[b] = IF b = c THEN Free ELSE op[b]
        BY <3>1, <1>t, FreeOp, GoesTo
      <3>3. note' \in [Paths -> Int]
        BY <2>5, <1>t, <1>o DEF Replaced, Crumb, KeepHistory, NotesTyped, Breadcrumb, noteVars
      <3>4. UNCHANGED <<day, trash, log, archived, semantic, semanticArchive, commands, torn>>
        BY <2>5 DEF Replaced, Crumb, KeepHistory, noteVars, logVars, semanticVars
      <3> QED BY <3>2, <3>3, <3>4, <1>t, FreeOp DEF NotesTyped
    <2> QED BY <2>1, <2>2, <2>3, <2>4, <2>5
  <1>2. UNCHANGED <<log, archived, semantic, semanticArchive, torn, trash, deleted, entries, overrun>>
    BY DEF Create, Replace, Snapshot, Rename, Replaced, Crumb, KeepHistory, noteVars, logVars, semanticVars
  <1>3. LogQuiet /\ SemanticQuiet /\ GhostsQuiet
    BY <1>1, <1>2 DEF LogQuiet, SemanticQuiet, GhostsQuiet
  <1> QED BY <1>1, <1>3, QuietLogKept, QuietSemanticKept, QuietGhosts DEF NotesInv

LEMMA DeleteAction ==
  ASSUME NotesInv, NEW c \in Callers, NEW p \in Paths, Delete(c, p)
  PROVE  NotesInv'
  <1>t. NotesTyped /\ GhostsTyped
    BY DEF NotesInv
  <1> DEFINE next == [Free EXCEPT !.at = "crumb", !.path = p]
  <1>1. next \in OpShape /\ next.at = "crumb"
    BY FreeOp DEF OpShape
  <1>2. Goto(c, next)
    BY DEF Delete
  <1> HIDE DEF next
  <1>3. op' \in [Callers -> OpShape] /\ \A b \in Callers : op'[b] = IF b = c THEN next ELSE op[b]
    BY <1>1, <1>2, <1>t, GoesTo
  <1>4. /\ deleted' = deleted \union {<<day, p, note[p]>>} /\ trash' = [trash EXCEPT ![day][p] = note[p]]
        /\ commands' = commands + 1
        /\ UNCHANGED <<day, note, log, archived, semantic, semanticArchive, entries, overrun, torn>>
    BY DEF Delete, Starts, Command, logVars, semanticVars
  <1>5. day \in Days /\ note[p] \in Int
    BY <1>t DEF NotesTyped
  <1>6. /\ trash' \in [Days -> [Paths -> Int]]
        /\ \A d \in Days, x \in Paths : trash'[d][x] = IF d = day /\ x = p THEN note[p] ELSE trash[d][x]
    BY <1>4, <1>5, <1>t DEF NotesTyped
  <1>7. NotesTyped'
    BY <1>3, <1>4, <1>6, <1>t DEF NotesTyped
  <1>8. GhostsTyped'
    BY <1>4, <1>5, <1>t DEF GhostsTyped, DeletedTyped
  <1>9. DeletedKept'
    <2> SUFFICES ASSUME NEW x \in deleted'
                 PROVE  \/ trash'[x[1]][x[2]] = x[3]
                        \/ \E y \in deleted' : y # x /\ y[1] = x[1] /\ y[2] = x[2]
      BY DEF DeletedKept
    <2>1. x[1] \in Days /\ x[2] \in Paths /\ x = <<x[1], x[2], x[3]>>
      BY <1>8 DEF GhostsTyped, DeletedTyped
    <2>2. CASE x[1] = day /\ x[2] = p
      <3>1. CASE x[3] = note[p]
        BY <1>6, <2>1, <2>2, <3>1
      <3>2. CASE x[3] # note[p]
        <4>1. <<day, p, note[p]>> \in deleted' /\ <<day, p, note[p]>> # x
          BY <1>4, <2>1, <3>2
        <4> QED BY <2>2, <4>1
      <3> QED BY <3>1, <3>2
    <2>3. CASE ~ (x[1] = day /\ x[2] = p)
      <3>1. x \in deleted
        BY <1>4, <2>3
      <3>2. \/ trash[x[1]][x[2]] = x[3]
            \/ \E y \in deleted : y # x /\ y[1] = x[1] /\ y[2] = x[2]
        BY <3>1 DEF NotesInv, DeletedKept
      <3>3. trash'[x[1]][x[2]] = trash[x[1]][x[2]]
        BY <1>6, <2>1, <2>3
      <3> QED BY <1>4, <3>2, <3>3
    <2> QED BY <2>2, <2>3
  <1>10. LogQuiet /\ SemanticQuiet
    BY <1>1, <1>3, <1>4 DEF LogQuiet, SemanticQuiet
  <1> QED BY <1>7, <1>8, <1>9, <1>10, QuietLogKept, QuietSemanticKept DEF NotesInv

LEMMA DecideAction ==
  ASSUME NotesInv, NEW c \in Callers, Decide(c)
  PROVE  NotesInv'
  <1>t. NotesTyped /\ GhostsTyped
    BY DEF NotesInv
  <1> DEFINE n == commands + 1
  <1>1. /\ n \in Nat /\ log' = <<n>> \o log /\ commands' = n /\ entries' = [entries EXCEPT !.log = @ \union {n}]
        /\ UNCHANGED <<day, note, trash, deleted, archived, semantic, semanticArchive, op, torn>>
    BY <1>t DEF Decide, Starts, Command, noteVars, semanticVars, NotesTyped
  <1>2. overrun' = IF \E b \in Callers : op[b].at \in {"archive", "log"}
                   THEN [overrun EXCEPT !.log = @ \union {n}] ELSE overrun
    BY DEF Decide
  <1>3. /\ entries' \in EntrySets /\ entries'.log = entries.log \union {n} /\ entries'.semantic = entries.semantic
    BY <1>1, <1>t DEF GhostsTyped, EntrySets
  <1>4. /\ overrun' \in EntrySets /\ overrun'.semantic = overrun.semantic /\ overrun.log \subseteq overrun'.log
        /\ (\E b \in Callers : op[b].at \in {"archive", "log"}) => n \in overrun'.log
    BY <1>1, <1>2, <1>t DEF GhostsTyped, EntrySets
  <1> HIDE DEF n
  <1>5. log' \in Seq(Nat) /\ \A e : e \in Range(log') <=> e = n \/ e \in Range(log)
    BY <1>1, <1>t, RangeConcat, RangeOfOne DEF NotesTyped
  <1>6. NotesTyped' /\ GhostsTyped' /\ DeletedKept'
    BY <1>1, <1>3, <1>4, <1>5, <1>t DEF NotesTyped, GhostsTyped, DeletedTyped, DeletedKept, NotesInv
  <1>7. ASSUME ~ torn', NEW e \in entries'.log \ overrun'.log PROVE LogHeld(e)' /\ \A b \in Callers : LogCopyHeld(b, e)'
    <2>1. CASE e = n
      BY <1>1, <1>4, <1>5, <1>7, <2>1 DEF LogHeld, LogCopyHeld
    <2>2. CASE e # n
      <3>1. LogHeld(e) /\ \A b \in Callers : LogCopyHeld(b, e)
        BY <1>1, <1>3, <1>4, <1>7, <2>2 DEF NotesInv, LogKept
      <3> QED BY <3>1, <1>1, <1>5 DEF LogHeld, LogCopyHeld, IsArchived
    <2> QED BY <2>1, <2>2
  <1>8. SemanticQuiet
    BY <1>1, <1>3, <1>4 DEF SemanticQuiet
  <1> QED BY <1>6, <1>7, <1>8, QuietSemanticKept DEF NotesInv, LogKept

LEMMA LearnAction ==
  ASSUME NotesInv, NEW c \in Callers, Learn(c)
  PROVE  NotesInv'
  <1>t. NotesTyped /\ GhostsTyped
    BY DEF NotesInv
  <1> DEFINE n == commands + 1
  <1>1. /\ n \in Nat /\ semantic' = Append(semantic, n) /\ commands' = n
        /\ entries' = [entries EXCEPT !.semantic = @ \union {n}]
        /\ UNCHANGED <<day, note, trash, deleted, log, archived, semanticArchive, op, torn>>
    <2>1. n \in Nat
      BY <1>t DEF NotesTyped
    <2> QED BY <2>1 DEF Learn, Starts, Command, noteVars, logVars
  <1>2. overrun' = IF \E b \in Callers : op[b].at \in {"semantic archive", "semantic"}
                   THEN [overrun EXCEPT !.semantic = @ \union {n}] ELSE overrun
    BY DEF Learn
  <1>3. /\ entries' \in EntrySets /\ entries'.semantic = entries.semantic \union {n} /\ entries'.log = entries.log
    BY <1>1, <1>t DEF GhostsTyped, EntrySets
  <1>4. /\ overrun' \in EntrySets /\ overrun'.log = overrun.log /\ overrun.semantic \subseteq overrun'.semantic
        /\ (\E b \in Callers : op[b].at \in {"semantic archive", "semantic"}) => n \in overrun'.semantic
    BY <1>1, <1>2, <1>t DEF GhostsTyped, EntrySets
  <1> HIDE DEF n
  <1>5. semantic' \in Seq(Nat) /\ \A e : e \in Range(semantic') <=> e \in Range(semantic) \/ e = n
    BY <1>1, <1>t, RangeAppend DEF NotesTyped
  <1>6. NotesTyped' /\ GhostsTyped' /\ DeletedKept'
    BY <1>1, <1>3, <1>4, <1>5, <1>t DEF NotesTyped, GhostsTyped, DeletedTyped, DeletedKept, NotesInv
  <1>7. ASSUME ~ torn', NEW e \in entries'.semantic \ overrun'.semantic
        PROVE  SemanticHeld(e)' /\ \A b \in Callers : SemanticCopyHeld(b, e)'
    <2>1. CASE e = n
      BY <1>1, <1>4, <1>5, <1>7, <2>1 DEF SemanticHeld, SemanticCopyHeld
    <2>2. CASE e # n
      <3>1. SemanticHeld(e) /\ \A b \in Callers : SemanticCopyHeld(b, e)
        BY <1>1, <1>3, <1>4, <1>7, <2>2 DEF NotesInv, SemanticKept
      <3> QED BY <3>1, <1>1, <1>5 DEF SemanticHeld, SemanticCopyHeld
    <2> QED BY <2>1, <2>2
  <1>8. LogQuiet
    BY <1>1, <1>3, <1>4 DEF LogQuiet
  <1> QED BY <1>6, <1>7, <1>8, QuietLogKept DEF NotesInv, SemanticKept

LEMMA ReadActions ==
  ASSUME NotesInv, NEW c \in Callers, RotateRead(c) \/ SemanticRead(c)
  PROVE  NotesInv'
  <1>t. NotesTyped
    BY DEF NotesInv
  <1>1. /\ commands' = commands + 1
        /\ UNCHANGED <<day, note, trash, deleted, log, archived, semantic, semanticArchive, entries, overrun, torn>>
    BY DEF RotateRead, SemanticRead, Starts, Command, noteVars, logVars, semanticVars
  <1>2. ASSUME RotateRead(c) PROVE op' \in [Callers -> OpShape] /\ LogKept' /\ SemanticQuiet
    <2> DEFINE next == [Free EXCEPT !.at = "archive", !.keep = SubSeq(log, 1, Fitting(log)),
                                    !.drop = SubSeq(log, Fitting(log) + 1, Len(log))]
    <2>1. /\ SubSeq(log, 1, Fitting(log)) \in Seq(Nat) /\ SubSeq(log, Fitting(log) + 1, Len(log)) \in Seq(Nat)
          /\ \A e \in Range(log) : \/ e \in Range(SubSeq(log, 1, Fitting(log)))
                                   \/ e \in Range(SubSeq(log, Fitting(log) + 1, Len(log)))
      <3>1. log \in Seq(Nat) /\ Fitting(log) \in 0 .. Len(log)
        BY <1>t, FittingInLog DEF NotesTyped
      <3> QED BY <3>1, RangeSplit
    <2>2. /\ next \in OpShape /\ next.at = "archive" /\ \A e \in Range(log) : e \in Range(next.keep) \/ e \in Range(next.drop)
      BY <2>1, FreeOp DEF OpShape
    <2>3. Goto(c, next)
      BY <1>2 DEF RotateRead
    <2> HIDE DEF next
    <2>4. op' \in [Callers -> OpShape] /\ \A b \in Callers : op'[b] = IF b = c THEN next ELSE op[b]
      BY <2>2, <2>3, <1>t, GoesTo
    <2>5. LogKept'
      BY <1>1, <2>2, <2>4 DEF NotesInv, LogKept, LogHeld, LogCopyHeld, IsArchived
    <2>6. SemanticQuiet
      BY <1>1, <2>2, <2>4 DEF SemanticQuiet
    <2> QED BY <2>4, <2>5, <2>6
  <1>3. ASSUME SemanticRead(c) PROVE op' \in [Callers -> OpShape] /\ SemanticKept' /\ LogQuiet
    <2>0. PICK n \in 0 .. Len(semantic) : n = Len(semantic) - Cap
      BY <1>3, <1>t, NoteFilesAssumption DEF SemanticRead, NotesTyped
    <2> DEFINE next == [Free EXCEPT !.at = "semantic archive", !.keep = SubSeq(semantic, n + 1, Len(semantic)),
                                    !.drop = SubSeq(semantic, 1, n)]
    <2>1. /\ SubSeq(semantic, 1, n) \in Seq(Nat) /\ SubSeq(semantic, n + 1, Len(semantic)) \in Seq(Nat)
          /\ \A e \in Range(semantic) : e \in Range(SubSeq(semantic, 1, n)) \/ e \in Range(SubSeq(semantic, n + 1, Len(semantic)))
      BY <1>t, RangeSplit DEF NotesTyped
    <2>2. /\ next \in OpShape /\ next.at = "semantic archive"
          /\ \A e \in Range(semantic) : e \in Range(next.keep) \/ e \in Range(next.drop)
      BY <2>1, FreeOp DEF OpShape
    <2>3. Goto(c, next)
      BY <1>3, <2>0 DEF SemanticRead, split_entries
    <2> HIDE DEF next
    <2>4. op' \in [Callers -> OpShape] /\ \A b \in Callers : op'[b] = IF b = c THEN next ELSE op[b]
      BY <2>2, <2>3, <1>t, GoesTo
    <2>5. SemanticKept'
      BY <1>1, <2>2, <2>4 DEF NotesInv, SemanticKept, SemanticHeld, SemanticCopyHeld
    <2>6. LogQuiet
      BY <1>1, <2>2, <2>4 DEF LogQuiet
    <2> QED BY <2>4, <2>5, <2>6
  <1>4. op' \in [Callers -> OpShape] /\ LogKept' /\ SemanticKept'
    BY <1>2, <1>3, QuietLogKept, QuietSemanticKept DEF NotesInv
  <1>5. NotesTyped'
    BY <1>1, <1>4, <1>t DEF NotesTyped
  <1>6. GhostsQuiet
    BY <1>1 DEF GhostsQuiet
  <1> QED BY <1>4, <1>5, <1>6, QuietGhosts DEF NotesInv

LEMMA LogWrites ==
  ASSUME NotesInv, NEW c \in Callers, Archive(c) \/ KeepLog(c)
  PROVE  NotesInv'
  <1>t. NotesTyped
    BY DEF NotesInv
  <1>o. op[c] \in OpShape /\ op[c].keep \in Seq(Nat) /\ op[c].drop \in Seq(Nat) /\ day \in Days
    BY <1>t DEF NotesTyped, OpShape
  <1>1. UNCHANGED <<day, note, trash, deleted, semantic, semanticArchive, commands, entries, overrun, torn>>
    BY DEF Archive, KeepLog, noteVars, semanticVars
  <1>2. ASSUME Archive(c)
        PROVE  op' \in [Callers -> OpShape] /\ archived' \in [Days -> Seq(Nat)] /\ log' = log /\ LogKept' /\ SemanticQuiet
    <2> DEFINE next == [op[c] EXCEPT !.at = "log"]
    <2>0. op[c].at = "archive" /\ archived' = [archived EXCEPT ![day] = @ \o op[c].drop] /\ log' = log
      BY <1>2 DEF Archive
    <2>1. next \in OpShape /\ next.at = "log" /\ next.keep = op[c].keep
      BY <1>o DEF OpShape
    <2>2. Goto(c, next)
      BY <1>2 DEF Archive
    <2> HIDE DEF next
    <2>3. op' \in [Callers -> OpShape] /\ \A b \in Callers : op'[b] = IF b = c THEN next ELSE op[b]
      BY <2>1, <2>2, <1>t, GoesTo
    <2>4. /\ archived[day] \in Seq(Nat) /\ archived[day] \o op[c].drop \in Seq(Nat)
          /\ \A e : e \in Range(archived[day] \o op[c].drop) <=> e \in Range(archived[day]) \/ e \in Range(op[c].drop)
      BY <1>t, <1>o, RangeConcat DEF NotesTyped
    <2>5. archived' \in [Days -> Seq(Nat)]
      BY <2>0, <2>4, <1>t DEF NotesTyped
    <2>6. \A e : IsArchived(e) \/ e \in Range(op[c].drop) => IsArchived(e)'
      BY <2>0, <2>4, <1>t, <1>o DEF IsArchived, NotesTyped
    <2>7. LogKept'
      BY <1>1, <2>0, <2>1, <2>3, <2>6 DEF NotesInv, LogKept, LogHeld, LogCopyHeld
    <2>8. SemanticQuiet
      BY <1>1, <2>1, <2>3 DEF SemanticQuiet
    <2> QED BY <2>0, <2>3, <2>5, <2>7, <2>8
  <1>3. ASSUME KeepLog(c)
        PROVE  op' \in [Callers -> OpShape] /\ archived' = archived /\ log' = op[c].keep /\ LogKept' /\ SemanticQuiet
    <2> DEFINE next == [op[c] EXCEPT !.at = "history"]
    <2>0. op[c].at = "log" /\ archived' = archived /\ log' = op[c].keep
      BY <1>3 DEF KeepLog
    <2>1. next \in OpShape /\ next.at = "history"
      BY <1>o DEF OpShape
    <2>2. Goto(c, next)
      BY <1>3 DEF KeepLog
    <2> HIDE DEF next
    <2>3. op' \in [Callers -> OpShape] /\ \A b \in Callers : op'[b] = IF b = c THEN next ELSE op[b]
      BY <2>1, <2>2, <1>t, GoesTo
    <2>4. LogKept'
      BY <1>1, <2>0, <2>1, <2>3 DEF NotesInv, LogKept, LogHeld, LogCopyHeld, IsArchived
    <2>5. SemanticQuiet
      BY <1>1, <2>1, <2>3 DEF SemanticQuiet
    <2> QED BY <2>0, <2>3, <2>4, <2>5
  <1>4. op' \in [Callers -> OpShape] /\ archived' \in [Days -> Seq(Nat)] /\ log' \in Seq(Nat)
    BY <1>2, <1>3, <1>o, <1>t DEF NotesTyped
  <1>5. LogKept' /\ SemanticKept'
    BY <1>2, <1>3, QuietSemanticKept DEF NotesInv
  <1>6. NotesTyped' /\ GhostsQuiet
    BY <1>1, <1>4, <1>t DEF NotesTyped, GhostsQuiet
  <1> QED BY <1>5, <1>6, QuietGhosts DEF NotesInv

LEMMA SemanticWrites ==
  ASSUME NotesInv, NEW c \in Callers, SemanticArchived(c) \/ KeepSemantic(c)
  PROVE  NotesInv'
  <1>t. NotesTyped
    BY DEF NotesInv
  <1>o. op[c] \in OpShape /\ op[c].keep \in Seq(Nat) /\ op[c].drop \in Seq(Nat)
    BY <1>t DEF NotesTyped, OpShape
  <1>1. UNCHANGED <<day, note, trash, deleted, log, archived, commands, entries, overrun, torn>>
    BY DEF SemanticArchived, KeepSemantic, noteVars, logVars
  <1>2. ASSUME SemanticArchived(c)
        PROVE  /\ op' \in [Callers -> OpShape] /\ semanticArchive' \in Seq(Nat) /\ semantic' = semantic
               /\ SemanticKept' /\ LogQuiet
    <2> DEFINE next == [op[c] EXCEPT !.at = "semantic"]
    <2>0. op[c].at = "semantic archive" /\ semanticArchive' = semanticArchive \o op[c].drop /\ semantic' = semantic
      BY <1>2 DEF SemanticArchived
    <2>1. next \in OpShape /\ next.at = "semantic" /\ next.keep = op[c].keep
      BY <1>o DEF OpShape
    <2>2. Goto(c, next)
      BY <1>2 DEF SemanticArchived
    <2> HIDE DEF next
    <2>3. op' \in [Callers -> OpShape] /\ \A b \in Callers : op'[b] = IF b = c THEN next ELSE op[b]
      BY <2>1, <2>2, <1>t, GoesTo
    <2>4. /\ semanticArchive' \in Seq(Nat)
          /\ \A e : e \in Range(semanticArchive') <=> e \in Range(semanticArchive) \/ e \in Range(op[c].drop)
      BY <2>0, <1>t, <1>o, RangeConcat DEF NotesTyped
    <2>5. SemanticKept'
      BY <1>1, <2>0, <2>1, <2>3, <2>4 DEF NotesInv, SemanticKept, SemanticHeld, SemanticCopyHeld
    <2>6. LogQuiet
      BY <1>1, <2>1, <2>3 DEF LogQuiet
    <2> QED BY <2>0, <2>3, <2>4, <2>5, <2>6
  <1>3. ASSUME KeepSemantic(c)
        PROVE  /\ op' \in [Callers -> OpShape] /\ semanticArchive' = semanticArchive /\ semantic' = op[c].keep
               /\ SemanticKept' /\ LogQuiet
    <2>0. op[c].at = "semantic" /\ semanticArchive' = semanticArchive /\ semantic' = op[c].keep /\ Goto(c, Free)
      BY <1>3 DEF KeepSemantic, Done
    <2>3. op' \in [Callers -> OpShape] /\ \A b \in Callers : op'[b] = IF b = c THEN Free ELSE op[b]
      BY <2>0, <1>t, FreeOp, GoesTo
    <2>4. SemanticKept'
      BY <1>1, <2>0, <2>3, FreeOp DEF NotesInv, SemanticKept, SemanticHeld, SemanticCopyHeld
    <2>5. LogQuiet
      BY <1>1, <2>3, FreeOp DEF LogQuiet
    <2> QED BY <2>0, <2>3, <2>4, <2>5
  <1>4. op' \in [Callers -> OpShape] /\ semanticArchive' \in Seq(Nat) /\ semantic' \in Seq(Nat)
    BY <1>2, <1>3, <1>o, <1>t DEF NotesTyped
  <1>5. LogKept' /\ SemanticKept'
    BY <1>2, <1>3, QuietLogKept DEF NotesInv
  <1>6. NotesTyped' /\ GhostsQuiet
    BY <1>1, <1>4, <1>t DEF NotesTyped, GhostsQuiet
  <1> QED BY <1>5, <1>6, QuietGhosts DEF NotesInv

LEMMA KillAction == ASSUME NotesInv, KillCommands PROVE NotesInv'
  <1>t. NotesTyped
    BY DEF NotesInv
  <1>1. /\ commands' = commands + 1 /\ op' = [c \in Callers |-> Free]
        /\ UNCHANGED <<day, note, trash, deleted, log, semantic, entries, overrun>>
    BY DEF KillCommands, Command, noteVars
  <1>2. PICK tears \in BOOLEAN :
          /\ torn' = (torn \/ tears)
          /\ archived' = IF tears /\ At("archive") THEN [archived EXCEPT ![day] = << >>] ELSE archived
          /\ semanticArchive' = IF tears /\ At("semantic archive") THEN << >> ELSE semanticArchive
    BY DEF KillCommands
  <1>3. << >> \in Seq(Nat)
    OBVIOUS
  <1>4. torn' \in BOOLEAN
    BY <1>2, <1>t DEF NotesTyped
  <1>5. archived' \in [Days -> Seq(Nat)]
    BY <1>2, <1>3, <1>t DEF NotesTyped
  <1>6. semanticArchive' \in Seq(Nat)
    BY <1>2, <1>3, <1>t DEF NotesTyped
  <1>7. op' \in [Callers -> OpShape] /\ \A c \in Callers : op'[c].at = "free"
    BY <1>1, FreeOp
  <1>8. NotesTyped'
    BY <1>1, <1>4, <1>5, <1>6, <1>7, <1>t DEF NotesTyped
  <1>9. ~ torn' => ~ torn /\ archived' = archived /\ semanticArchive' = semanticArchive
    BY <1>2
  <1>10. LogKept' /\ SemanticKept'
    BY <1>1, <1>7, <1>9 DEF NotesInv, LogKept, SemanticKept, LogHeld, LogCopyHeld, IsArchived, SemanticHeld, SemanticCopyHeld
  <1>11. GhostsQuiet
    BY <1>1 DEF GhostsQuiet
  <1> QED BY <1>8, <1>10, <1>11, QuietGhosts DEF NotesInv

LEMMA NotesStep == NotesInv /\ [NotesNext]_notesVars => NotesInv'
  <1> SUFFICES ASSUME NotesInv, [NotesNext]_notesVars PROVE NotesInv'
    OBVIOUS
  <1>1. ASSUME UNCHANGED notesVars \/ NextDay PROVE NotesInv'
    <2>1. UNCHANGED <<note, trash, deleted, log, archived, semantic, semanticArchive, op, commands, entries, overrun, torn>>
      BY <1>1 DEF notesVars, NextDay, noteVars, logVars, semanticVars
    <2>2. day' \in Days
      BY <1>1, OneIsADay DEF notesVars, NextDay, Days, NotesInv, NotesTyped
    <2>3. NotesTyped' /\ LogQuiet /\ SemanticQuiet /\ GhostsQuiet
      BY <2>1, <2>2 DEF NotesInv, NotesTyped, LogQuiet, SemanticQuiet, GhostsQuiet
    <2> QED BY <2>3, QuietLogKept, QuietSemanticKept, QuietGhosts DEF NotesInv
  <1>2. ASSUME NEW c \in Callers, Replaced(c) \/ Crumb(c) \/ KeepHistory(c) PROVE NotesInv'
    BY <1>2, NoteActions
  <1>3. ASSUME NEW c \in Callers, NEW p \in Paths, Create(c, p) \/ Replace(c, p) \/ Snapshot(c, p) PROVE NotesInv'
    BY <1>3, NoteActions
  <1>4. ASSUME NEW c \in Callers, NEW p \in Paths, Delete(c, p) PROVE NotesInv'
    BY <1>4, DeleteAction
  <1>5. ASSUME NEW c \in Callers, NEW p \in Paths, NEW q \in Paths, Rename(c, p, q) PROVE NotesInv'
    BY <1>5, NoteActions
  <1>6. ASSUME NEW c \in Callers, Decide(c) PROVE NotesInv'
    BY <1>6, DecideAction
  <1>7. ASSUME NEW c \in Callers, Learn(c) PROVE NotesInv'
    BY <1>7, LearnAction
  <1>8. ASSUME NEW c \in Callers, RotateRead(c) \/ SemanticRead(c) PROVE NotesInv'
    BY <1>8, ReadActions
  <1>9. ASSUME NEW c \in Callers, Archive(c) \/ KeepLog(c) PROVE NotesInv'
    BY <1>9, LogWrites
  <1>10. ASSUME NEW c \in Callers, SemanticArchived(c) \/ KeepSemantic(c) PROVE NotesInv'
    BY <1>10, SemanticWrites
  <1>11. CASE KillCommands
    BY <1>11, KillAction
  <1> QED BY <1>1, <1>2, <1>3, <1>4, <1>5, <1>6, <1>7, <1>8, <1>9, <1>10, <1>11 DEF NotesNext

(* No command of the memory tool destroys what a file held: a deleted text is in the *)
(* day's trash, and an entry that was moved to an archive is there or still in its   *)
(* file, but for the overruns and torn writes that the property names                *)
(* (tools/memory.py, rotate_agent_semantic.py).                                      *)
THEOREM NothingIsDestroyed == NotesSpec => []NothingDestroyed
  <1>1. NotesInv => NothingDestroyed
    <2> SUFFICES ASSUME NotesInv PROVE NothingDestroyed
      OBVIOUS
    <2>1. EntriesKept
      <3> SUFFICES ASSUME ~ torn PROVE /\ \A e \in entries.log \ overrun.log : \E d \in Days : resolve(d, e)
                                       /\ entries.semantic \ overrun.semantic \subseteq Range(semantic) \union Range(semanticArchive)
        BY DEF EntriesKept
      <3>1. \A e \in entries.log \ overrun.log : \E d \in Days : resolve(d, e)
        BY OneIsADay DEF NotesInv, LogKept, LogHeld, IsArchived, resolve
      <3>2. \A e \in entries.semantic \ overrun.semantic : SemanticHeld(e)
        BY DEF NotesInv, SemanticKept
      <3> QED BY <3>1, <3>2 DEF SemanticHeld
    <2> QED BY <2>1 DEF NothingDestroyed, NotesInv
  <1> QED BY NotesStart, NotesStep, <1>1, PTL DEF NotesSpec

-----------------------------------------------------------------------------
(* The benchmark trigger. *)

(* The library's sum of an expression over a set is an integer when the expression is. *)
LEMMA PooledIsInt ==
  ASSUME NEW inputs, NEW b, \A cell \in B4Cells : per_cell_variance_n2(inputs, b, cell) \in Int
  PROVE  Pooled(inputs, b) \in Int
  <1> DEFINE e == [cell \in B4Cells |-> per_cell_variance_n2(inputs, b, cell)]
             v(s) == per_cell_variance_n2(inputs, b, AnyOf(s))
             add(g, s) == IF s = {} THEN 0 ELSE v(s) + g[s \ {AnyOf(s)}]
             is(g) == g = [s \in SUBSET B4Cells |-> add(g, s)]
  <1>1. Pooled(inputs, b) = (CHOOSE g : is(g))[B4Cells]
    BY Zenon DEF Pooled, MapThenSumSet, MapThenFoldSet, AnyOf
  <1>2. e \in [B4Cells -> Int] /\ IsFiniteSet(B4Cells)
    BY B4TriggerAssumption
  <1>3. ASSUME NEW g, NEW s \in SUBSET B4Cells PROVE add(g, s) = AddNext(g, e, s)
    <2>1. s = {} \/ (s # {} /\ AnyOf(s) \in B4Cells)
      BY DEF AnyOf
    <2> QED BY <2>1 DEF AddNext
  <1>4. ASSUME NEW g PROVE is(g) <=> Sums(g, e, B4Cells)
    <2> HIDE DEF add, e
    <2>1. [s \in SUBSET B4Cells |-> add(g, s)] = [s \in SUBSET B4Cells |-> AddNext(g, e, s)]
      BY <1>3
    <2> QED BY <2>1 DEF Sums
  <1> HIDE DEF e, is
  <1>5. \E g : is(g)
    BY <1>2, <1>4, SumsExist
  <1>6. PICK g : g = CHOOSE h : is(h)
    OBVIOUS
  <1>7. is(g)
    BY <1>5, <1>6
  <1>8. g[B4Cells] \in Int
    BY <1>2, <1>4, <1>7, SumsAreInt
  <1> QED BY <1>1, <1>6, <1>8

Inputs == [CellSeeds -> ScoreFiles]
B4Typed ==
    /\ final_scores \in Inputs /\ results \in Inputs
    /\ decision \in [label : {"missing", "HOLD_N3", "ESCALATE_N4"}, inputs : Inputs]
    /\ handoff \in [at : {"off", "start", "trigger", "exit"}, by : {"", "orchestrator", "operator"}, inputs : Inputs]
    /\ handoff.at = "off" <=> handoff = NoHandoff
    /\ cut \in BOOLEAN
Current == decision.label # "missing" /\ decision.inputs = results
(* The tool has loaded what the results file still holds, and exits 0 with the decision of it on disk. *)
InHand == handoff.at \in {"trigger", "exit"} => handoff.inputs = results
Exiting == handoff.at = "exit" => Current
(* The rc 0 of the last handoff that ended stands for a decision of the results file. *)
Recorded == t1 = "0" /\ ~ cut /\ handoff.by # "orchestrator" => Current
Decided ==
    decision.label # "missing" =>
        load_results_json(decision.inputs) /\ decision.label \in evaluate_trigger(decision.inputs)
B4Inv == B4Typed /\ InHand /\ Exiting /\ Recorded /\ Decided

LEMMA NothingHandedOff ==
  /\ NoHandoff.inputs \in Inputs /\ NoHandoff.at = "off" /\ NoHandoff.by = ""
  /\ NoHandoff \in [at : {"off", "start", "trigger", "exit"}, by : {"", "orchestrator", "operator"}, inputs : Inputs]
  /\ NoDecision \in [label : {"missing", "HOLD_N3", "ESCALATE_N4"}, inputs : Inputs] /\ NoDecision.label = "missing"
  <1>1. [cs \in CellSeeds |-> NotThere] \in Inputs
    BY DEF Inputs, ScoreFiles
  <1> QED BY <1>1 DEF NoHandoff, NoDecision

LEMMA B4Starts == B4Init => B4Inv
  <1> SUFFICES ASSUME B4Init PROVE B4Inv
    OBVIOUS
  <1>1. B4Typed
    BY NothingHandedOff DEF B4Init, B4Typed
  <1>2. InHand /\ Exiting /\ Recorded /\ Decided
    BY NothingHandedOff DEF B4Init, InHand, Exiting, Recorded, Decided
  <1> QED BY <1>1, <1>2 DEF B4Inv

LEMMA ScoreCellKeepsB4 ==
  ASSUME B4Inv, NEW cell \in B4Cells, NEW s \in Evaluations, ScoreCell(cell, s) PROVE B4Inv'
  <1>1. /\ results' = results /\ decision' = decision /\ t1' = t1 /\ handoff' = handoff /\ cut' = cut
        /\ final_scores' = [cs \in CellSeeds |-> IF cs[1] = cell THEN s[cs[2]] ELSE final_scores[cs]]
    BY DEF ScoreCell
  <1>2. \A cs \in CellSeeds : s[cs[2]] \in ScoreFiles
    BY B4TriggerAssumption DEF CellSeeds
  <1>3. final_scores' \in Inputs
    BY <1>1, <1>2 DEF B4Inv, B4Typed, Inputs
  <1>4. B4Typed'
    BY <1>1, <1>3 DEF B4Inv, B4Typed
  <1>5. InHand' /\ Exiting' /\ Recorded' /\ Decided'
    BY <1>1 DEF B4Inv, InHand, Exiting, Current, Recorded, Decided
  <1> QED BY <1>4, <1>5 DEF B4Inv

LEMMA FatalKeepsB4 == ASSUME B4Inv, Fatal PROVE B4Inv'
  <1>1. /\ final_scores' = final_scores /\ results' = results /\ decision' = decision /\ handoff' = NoHandoff
        /\ IF handoff.by = "orchestrator" THEN t1' = "1" /\ cut' = FALSE ELSE t1' = t1 /\ cut' = cut
    BY DEF Fatal, Noted
  <1>2. B4Typed'
    BY <1>1, NothingHandedOff DEF B4Inv, B4Typed
  <1>3. InHand' /\ Exiting' /\ Recorded' /\ Decided'
    BY <1>1, NothingHandedOff DEF B4Inv, InHand, Exiting, Current, Recorded, Decided
  <1> QED BY <1>2, <1>3 DEF B4Inv

LEMMA DecisionKeepsB4 == ASSUME B4Inv, write_decision_json PROVE B4Inv'
  <1>1. PICK label \in evaluate_trigger(handoff.inputs) : decision' = [label |-> label, inputs |-> handoff.inputs]
    BY DEF write_decision_json
  <1>2. /\ final_scores' = final_scores /\ results' = results /\ t1' = t1 /\ cut' = cut
        /\ handoff' = [handoff EXCEPT !.at = "exit"] /\ handoff.at = "trigger" /\ load_results_json(handoff.inputs)
    BY DEF write_decision_json
  <1>3. label \in {"HOLD_N3", "ESCALATE_N4"}
    BY DEF evaluate_trigger
  <1>4. handoff.inputs = results /\ results \in Inputs
    BY <1>2 DEF B4Inv, InHand, B4Typed
  <1>5. decision'.label = label /\ decision'.inputs = results
    BY <1>1, <1>4
  <1>6. handoff'.at = "exit" /\ handoff'.by = handoff.by /\ handoff'.inputs = results
    BY <1>2, <1>4 DEF B4Inv, B4Typed
  <1>7. B4Typed'
    <2>1. decision' \in [label : {"missing", "HOLD_N3", "ESCALATE_N4"}, inputs : Inputs]
      BY <1>1, <1>3, <1>4
    <2>2. handoff' \in [at : {"off", "start", "trigger", "exit"}, by : {"", "orchestrator", "operator"}, inputs : Inputs]
      BY <1>2 DEF B4Inv, B4Typed
    <2>3. handoff'.at = "off" <=> handoff' = NoHandoff
      BY <1>6, NothingHandedOff
    <2> QED BY <1>2, <2>1, <2>2, <2>3 DEF B4Inv, B4Typed
  <1>8. Current'
    BY <1>2, <1>3, <1>5 DEF Current
  <1>9. Decided'
    BY <1>2, <1>4, <1>5 DEF Decided
  <1>10. InHand' /\ Exiting' /\ Recorded'
    BY <1>2, <1>6, <1>8 DEF InHand, Exiting, Recorded
  <1> QED BY <1>7, <1>9, <1>10 DEF B4Inv

LEMMA ExitKeepsB4 == ASSUME B4Inv, TriggerExits PROVE B4Inv'
  <1>1. /\ final_scores' = final_scores /\ results' = results /\ decision' = decision /\ handoff' = NoHandoff
        /\ handoff.at = "exit"
        /\ IF handoff.by = "orchestrator" THEN t1' = "0" /\ cut' = FALSE ELSE t1' = t1 /\ cut' = cut
    BY DEF TriggerExits, Noted
  <1>2. B4Typed'
    BY <1>1, NothingHandedOff DEF B4Inv, B4Typed
  <1>3. InHand' /\ Exiting' /\ Recorded' /\ Decided'
    BY <1>1, NothingHandedOff DEF B4Inv, InHand, Exiting, Current, Recorded, Decided
  <1> QED BY <1>2, <1>3 DEF B4Inv

LEMMA TimeoutKeepsB4 == ASSUME B4Inv, TriggerTimesOut PROVE B4Inv'
  <1>1. /\ final_scores' = final_scores /\ results' = results /\ decision' = decision /\ handoff' = NoHandoff
        /\ t1' = "-2" /\ cut' = FALSE
    BY DEF TriggerTimesOut, Noted
  <1>2. B4Typed'
    BY <1>1, NothingHandedOff DEF B4Inv, B4Typed
  <1>3. InHand' /\ Exiting' /\ Recorded' /\ Decided'
    BY <1>1, NothingHandedOff DEF B4Inv, InHand, Exiting, Current, Recorded, Decided
  <1> QED BY <1>2, <1>3 DEF B4Inv

LEMMA ResultsKeepB4 == ASSUME B4Inv, _build_consolidated_results_json PROVE B4Inv'
  <1>1. /\ final_scores' = final_scores /\ results' = final_scores /\ decision' = decision /\ t1' = t1 /\ cut' = cut
        /\ handoff' = [at |-> "start", by |-> "orchestrator", inputs |-> NoHandoff.inputs]
    BY DEF _build_consolidated_results_json
  <1>2. handoff'.at = "start" /\ handoff'.by = "orchestrator" /\ handoff' # NoHandoff
    <2>1. handoff'.at = "start" /\ handoff'.by = "orchestrator"
      BY <1>1
    <2> QED BY <2>1, NothingHandedOff
  <1>3. B4Typed'
    BY <1>1, <1>2, NothingHandedOff DEF B4Inv, B4Typed
  <1>4. InHand' /\ Exiting' /\ Recorded' /\ Decided'
    BY <1>1, <1>2 DEF B4Inv, InHand, Exiting, Recorded, Decided
  <1> QED BY <1>3, <1>4 DEF B4Inv

LEMMA LoadKeepsB4 == ASSUME B4Inv, TriggerLoads PROVE B4Inv'
  <1>1. /\ final_scores' = final_scores /\ results' = results /\ decision' = decision /\ t1' = t1 /\ cut' = cut
        /\ handoff' = [handoff EXCEPT !.at = "trigger", !.inputs = results]
    BY DEF TriggerLoads
  <1>2. handoff'.at = "trigger" /\ handoff'.by = handoff.by /\ handoff'.inputs = results /\ handoff' # NoHandoff
    BY <1>1, NothingHandedOff DEF B4Inv, B4Typed
  <1>3. B4Typed'
    BY <1>1, <1>2 DEF B4Inv, B4Typed
  <1>4. InHand' /\ Exiting' /\ Recorded' /\ Decided'
    BY <1>1, <1>2 DEF B4Inv, InHand, Exiting, Current, Recorded, Decided
  <1> QED BY <1>3, <1>4 DEF B4Inv

LEMMA ManualKeepsB4 == ASSUME B4Inv, ManualTrigger PROVE B4Inv'
  <1>1. /\ final_scores' = final_scores /\ results' = results /\ decision' = decision /\ t1' = t1 /\ cut' = cut
        /\ handoff = NoHandoff /\ handoff' = [at |-> "start", by |-> "operator", inputs |-> NoHandoff.inputs]
    BY DEF ManualTrigger
  <1>2. handoff'.at = "start" /\ handoff'.by = "operator" /\ handoff' # NoHandoff
    <2>1. handoff'.at = "start" /\ handoff'.by = "operator"
      BY <1>1
    <2> QED BY <2>1, NothingHandedOff
  <1>3. B4Typed'
    BY <1>1, <1>2, NothingHandedOff DEF B4Inv, B4Typed
  <1>4. InHand' /\ Exiting' /\ Recorded' /\ Decided'
    BY <1>1, <1>2, NothingHandedOff DEF B4Inv, InHand, Exiting, Current, Recorded, Decided
  <1> QED BY <1>3, <1>4 DEF B4Inv

LEMMA KillKeepsB4 == ASSUME B4Inv, KillHandoff PROVE B4Inv'
  <1>1. /\ final_scores' = final_scores /\ results' = results /\ decision' = decision /\ t1' = t1
        /\ handoff' = NoHandoff /\ cut' = (cut \/ handoff.by = "orchestrator")
    BY DEF KillHandoff
  <1>2. cut' \in BOOLEAN
    BY <1>1
  <1>3. B4Typed'
    BY <1>1, <1>2, NothingHandedOff DEF B4Inv, B4Typed
  <1>4. InHand' /\ Exiting' /\ Recorded' /\ Decided'
    BY <1>1, NothingHandedOff DEF B4Inv, B4Typed, InHand, Exiting, Current, Recorded, Decided
  <1> QED BY <1>3, <1>4 DEF B4Inv

(* A finite set of integers has a greatest element. *)
LEMMA GreatestOfInts ==
  ASSUME NEW S \in SUBSET Int, IsFiniteSet(S), S # {}
  PROVE  \E x \in S : \A y \in S : x >= y
  <1> DEFINE has(s) == \E x \in s : \A y \in s : x >= y
             bad == {m \in Nat : \E s \in SUBSET S : Cardinality(s) = m /\ s # {} /\ ~ has(s)}
  <1>1. CASE bad = {}
    <2>1. Cardinality(S) \in Nat
      BY FS_CardinalityType
    <2> QED BY <1>1, <2>1
  <1>2. CASE bad # {}
    <2>1. PICK m : m = Min(bad)
      OBVIOUS
    <2>2. m \in bad /\ \A x \in bad : m <= x
      <3>1. bad \in SUBSET Nat
        OBVIOUS
      <3> HIDE DEF bad
      <3> QED BY <1>2, <2>1, <3>1, LeastOfNats
    <2>3. PICK s \in SUBSET S : Cardinality(s) = m /\ s # {} /\ ~ has(s)
      BY <2>2
    <2> PICK x : x = AnyOf(s)
      OBVIOUS
    <2> PICK t : t = s \ {x}
      OBVIOUS
    <2>4. x \in s /\ t \in SUBSET S /\ Cardinality(t) \in Nat /\ m = Cardinality(t) + 1
      BY <2>3, OneLess
    <2>5. Cardinality(t) \notin bad
      <3> HIDE DEF bad
      <3>1. ~ (m <= Cardinality(t))
        BY <2>4
      <3> QED BY <2>2, <3>1
    <2>6. t = {} \/ has(t)
      BY <2>4, <2>5
    <2>7. CASE t = {}
      BY <2>3, <2>4, <2>7
    <2>8. CASE has(t)
      <3>1. PICK z \in t : \A y \in t : z >= y
        BY <2>8
      <3>2. x \in Int /\ z \in Int /\ \A y \in s : y = x \/ y \in t
        BY <2>4
      <3>3. CASE x >= z
        BY <2>3, <2>4, <3>1, <3>2, <3>3
      <3>4. CASE z >= x
        BY <2>3, <3>1, <3>2, <3>4
      <3> QED BY <3>2, <3>3, <3>4
    <2> QED BY <2>6, <2>7, <2>8
  <1> QED BY <1>1, <1>2

(* Complete scores have a ratio for every benchmark. *)
LEMMA RatiosAreInt ==
  ASSUME NEW inputs \in Inputs, load_results_json(inputs), NEW b \in REQUIRED_BENCHMARKS
  PROVE  Pooled(inputs, b) \in Int /\ Limit(b) \in Int
  <1>1. ASSUME NEW cs \in CellSeeds PROVE inputs[cs].of[b] \in Nat
    <2>1. inputs[cs] \in ScoreFiles /\ inputs[cs].kind = "scores"
      BY DEF Inputs, load_results_json
    <2>2. inputs[cs] \in [kind : {"scores"}, of : [REQUIRED_BENCHMARKS -> Nat]]
      BY <2>1 DEF ScoreFiles, NotThere, Garbled
    <2> QED BY <2>2
  <1>2. ASSUME NEW cell \in B4Cells PROVE per_cell_variance_n2(inputs, b, cell) \in Int
    <2>1. <<cell, 42>> \in CellSeeds /\ <<cell, 43>> \in CellSeeds
      BY DEF CellSeeds, Seeds
    <2>2. inputs[<<cell, 42>>].of[b] - inputs[<<cell, 43>>].of[b] \in Int
      BY <1>1, <2>1
    <2>3. \A n \in Int : Square(n) \in Int
      BY DEF Square
    <2> QED BY <2>2, <2>3 DEF per_cell_variance_n2
  <1>3. Cardinality(B4Cells) \in Nat /\ SigmaRef[b] \in Nat
    BY B4TriggerAssumption, FS_CardinalityType
  <1>4. Limit(b) \in Int
    <2>1. 2 * Cardinality(B4Cells) \in Int
      BY <1>3
    <2>2. \A n \in Int, m \in Nat : n * m \in Int
      OBVIOUS
    <2> QED BY <1>3, <2>1, <2>2 DEF Limit
  <1> QED BY <1>2, <1>4, PooledIsInt

LEMMA DecidedIsSound == B4Inv => DecisionSound
  <1> SUFFICES ASSUME B4Inv, decision.label # "missing" PROVE DecisionSound
    BY DEF DecisionSound
  <1> PICK inputs : inputs = decision.inputs
    OBVIOUS
  <1> DEFINE ratios == {Ratio(inputs, b) : b \in REQUIRED_BENCHMARKS}
  <1>1. inputs \in Inputs /\ load_results_json(inputs) /\ decision.label \in evaluate_trigger(inputs)
    BY DEF B4Inv, B4Typed, Decided
  <1>2. \A b \in REQUIRED_BENCHMARKS : Pooled(inputs, b) \in Int /\ Limit(b) \in Int /\ Ratio(inputs, b) \in Int
    BY <1>1, RatiosAreInt DEF Ratio
  <1>3. ratios \in SUBSET Int /\ ratios # {}
    BY <1>2, B4TriggerAssumption
  <1>4. IsFiniteSet(ratios)
    <2> DEFINE f == [b \in REQUIRED_BENCHMARKS |-> Ratio(inputs, b)]
    <2>1. f \in [REQUIRED_BENCHMARKS -> ratios] /\ \A r \in ratios : \E b \in REQUIRED_BENCHMARKS : f[b] = r
      OBVIOUS
    <2> HIDE DEF f, ratios
    <2>2. f \in Surjection(REQUIRED_BENCHMARKS, ratios)
      BY <2>1 DEF Surjection
    <2> QED BY <2>2, B4TriggerAssumption, FS_Surjection
  <1> PICK worst : worst = Max(ratios)
    OBVIOUS
  <1>5. worst \in ratios /\ \A y \in ratios : worst >= y
    <2> HIDE DEF ratios
    <2> QED BY <1>3, <1>4, GreatestOfInts DEF Max
  <1>6. worst \in Int /\ \A b \in REQUIRED_BENCHMARKS : Ratio(inputs, b) <= worst
    BY <1>2, <1>5
  <1>7. PICK b \in REQUIRED_BENCHMARKS : worst = Ratio(inputs, b)
    BY <1>5
  <1>8. CASE worst > 0
    <2>1. Pooled(inputs, b) > Limit(b)
      BY <1>2, <1>7, <1>8 DEF Ratio
    <2>2. decision.label = "ESCALATE_N4"
      BY <1>1, <2>1 DEF evaluate_trigger, Over
    <2> QED BY <1>1, <1>8, <2>2 DEF DecisionSound, load_results_json
  <1>9. CASE worst < 0
    <2>1. ASSUME NEW k \in REQUIRED_BENCHMARKS PROVE Pooled(inputs, k) < Limit(k)
      <3>1. Ratio(inputs, k) < 0
        BY <1>2, <1>6, <1>9
      <3> QED BY <1>2, <3>1 DEF Ratio
    <2>2. Over(inputs) = {} /\ Tie(inputs) = {}
      BY <1>2, <2>1 DEF Over, Tie
    <2>3. decision.label = "HOLD_N3"
      BY <1>1, <2>2 DEF evaluate_trigger
    <2>4. ~ (worst > 0)
      BY <1>6, <1>9
    <2> QED BY <1>1, <2>3, <2>4 DEF DecisionSound, load_results_json
  <1>10. CASE worst = 0
    BY <1>1, <1>10 DEF DecisionSound, load_results_json
  <1> QED BY <1>6, <1>8, <1>9, <1>10

(* A decision on disk is of complete scores and is the one that the rule gives them, *)
(* and under rc 0 of the last handoff that ended it is of the results file           *)
(* (b4_t1_handoff and the trigger's main).                                           *)
THEOREM DecisionsHold == B4Spec => []DecisionHolds
  <1>1. B4Inv /\ [B4Next]_b4Vars => B4Inv'
    <2> SUFFICES ASSUME B4Inv, [B4Next]_b4Vars PROVE B4Inv'
      OBVIOUS
    <2>1. CASE B4Next
      BY <2>1, ScoreCellKeepsB4, FatalKeepsB4, DecisionKeepsB4, ExitKeepsB4, TimeoutKeepsB4, ResultsKeepB4,
         LoadKeepsB4, ManualKeepsB4, KillKeepsB4 DEF B4Next
    <2>2. CASE UNCHANGED b4Vars
      BY <2>2 DEF b4Vars, B4Inv, B4Typed, InHand, Exiting, Current, Recorded, Decided
    <2> QED BY <2>1, <2>2
  <1>2. B4Inv => RecordSound
    BY NothingHandedOff DEF B4Inv, Recorded, Current, RecordSound
  <1>3. B4Inv => DecisionHolds
    BY <1>2, DecidedIsSound DEF DecisionHolds
  <1> QED BY <1>1, <1>3, B4Starts, PTL DEF B4Spec

-----------------------------------------------------------------------------
(* The session brief. *)

LabShape == [log : Nat, index : Nat, notes : Nat, alive : BOOLEAN, exit : {"", "GRACEFUL_CHECKPOINT", "CATASTROPHIC"},
             program : {"", "p"}, opened : Nat, override : BOOLEAN, block : Nat, pending : Nat]
BriefTyped ==
    /\ minute \in Nat /\ cursor \in Nat /\ cursor <= minute /\ lab \in LabShape
    /\ changelog \in Seq(Nat) /\ \A i \in 1 .. Len(changelog) : changelog[i] <= minute
    /\ brief.latest \in Nat /\ brief.latest <= minute
(* The brief of the session that runs has what the session is to be told. *)
ToldOf ==
    session.on /\ ~ failed =>
        /\ context.reason = session.reason
        /\ context.reason # "" => "correction" \in context.sections
        /\ context.notice # "" => "budget" \in context.sections
        /\ context.claims + 3 <= BriefCap => "calibration" \in context.sections
(* The cursor has passed no entry that no session has read. *)
NoneLost == \A i \in 1 .. Len(changelog) : i \in seen \/ changelog[i] >= cursor
BriefInv == BriefTyped /\ ToldOf /\ NoneLost

(* The size of a brief of five sections up to the first, the second and the third. *)
LEMMA SizesOfFive ==
  ASSUME NEW sections, Len(sections) = 5, \A k \in 1 .. 5 : sections[k].size \in Nat
  PROVE  /\ SizeTo(sections, 1) = sections[1].size
         /\ SizeTo(sections, 2) = sections[1].size + sections[2].size
         /\ SizeTo(sections, 3) = sections[1].size + sections[2].size + sections[3].size
  <1> PICK size : size = [k \in 1 .. 5 |-> sections[k].size]
    OBVIOUS
  <1>1. \A k \in 1 .. 5 : size[k] = sections[k].size /\ size[k] \in Nat
    OBVIOUS
  <1> DEFINE next(to, n) == IF n = 0 THEN 0 ELSE to[n - 1] + sections[n].size
             is(to) == to = [n \in 0 .. 5 |-> next(to, n)]
             upto == [n \in 0 .. 5 |->
                        IF n = 0 THEN 0 ELSE IF n = 1 THEN size[1] ELSE IF n = 2 THEN size[1] + size[2]
                        ELSE IF n = 3 THEN size[1] + size[2] + size[3]
                        ELSE IF n = 4 THEN size[1] + size[2] + size[3] + size[4]
                        ELSE size[1] + size[2] + size[3] + size[4] + size[5]]
  <1>2. \A k : SizeTo(sections, k) = (CHOOSE to : is(to))[k]
    BY DEF SizeTo
  <1>3. is(upto)
    <2>1. ASSUME NEW n \in 0 .. 5 PROVE upto[n] = next(upto, n)
      <3>1. n \in {0, 1, 2, 3, 4, 5}
        OBVIOUS
      <3> QED BY <1>1, <3>1
    <2> QED BY <2>1
  <1>4. PICK to : to = CHOOSE f : is(f)
    OBVIOUS
  <1>5. is(to)
    <2> HIDE DEF is, upto
    <2> QED BY <1>3, <1>4
  <1>6. to[0] = 0 /\ to[1] = to[0] + size[1] /\ to[2] = to[1] + size[2] /\ to[3] = to[2] + size[3]
    BY <1>1, <1>5
  <1>7. to[1] = size[1] /\ to[2] = size[1] + size[2] /\ to[3] = size[1] + size[2] + size[3]
    BY <1>1, <1>6
  <1> HIDE DEF is
  <1>8. SizeTo(sections, 1) = to[1] /\ SizeTo(sections, 2) = to[2] /\ SizeTo(sections, 3) = to[3]
    BY <1>2, <1>4
  <1>9. sections[1].size = size[1] /\ sections[2].size = size[2] /\ sections[3].size = size[3]
    BY <1>1
  <1> QED BY <1>7, <1>8, <1>9

(* What a brief tells, however long the program's block has grown. *)
LEMMA BriefTells ==
  ASSUME BriefTyped, NEW reason, NEW c, c = assemble_brief(reason)
  PROVE  /\ c.reason = reason
         /\ c.reason # "" => "correction" \in c.sections
         /\ c.notice # "" => "budget" \in c.sections
         /\ c.claims + 3 <= BriefCap => "calibration" \in c.sections
  <1> PICK sections : sections = Sections(reason)
    OBVIOUS
  <1> PICK room : room = IF SizeTo(sections, Len(sections)) > BriefCap THEN BriefCap - 1 ELSE BriefCap
    OBVIOUS
  <1>1. /\ Len(sections) = 5 /\ \A k \in 1 .. 5 : sections[k].size \in Nat
        /\ sections[1].name = "correction" /\ sections[2].name = "budget" /\ sections[3].name = "calibration"
        /\ sections[1].size <= 1 /\ sections[2].size <= 1 /\ sections[3].size = lab.pending /\ lab.pending \in Nat
    <2>1. lab.pending \in Nat /\ lab.block \in Nat
      BY DEF BriefTyped, LabShape
    <2>2. /\ _build_correction_prompt(reason).name = "correction" /\ _build_correction_prompt(reason).size \in {0, 1}
          /\ Notice.name = "budget" /\ Notice.size \in {0, 1}
          /\ _pending_calibration_section.name = "calibration" /\ _pending_calibration_section.size = lab.pending
          /\ Program.size = lab.block /\ State.size = 1
      BY DEF _build_correction_prompt, Notice, _pending_calibration_section, Program, State
    <2>3. /\ Len(sections) = 5 /\ sections[1] = _build_correction_prompt(reason) /\ sections[2] = Notice
          /\ sections[3] = _pending_calibration_section /\ sections[4] = Program /\ sections[5] = State
      BY DEF Sections
    <2>4. \A k \in 1 .. 5 : k \in {1, 2, 3, 4, 5}
      OBVIOUS
    <2>5. \A k \in 1 .. 5 : sections[k].size \in Nat
      BY <2>1, <2>2, <2>3, <2>4
    <2> QED BY <2>1, <2>2, <2>3, <2>5
  <1>2. BriefCap \in Nat /\ BriefCap >= 3 /\ room >= BriefCap - 1 /\ room \in Int
    <2>1. BriefCap \in Nat /\ BriefCap >= 3
      BY SessionBriefAssumption
    <2>2. room = BriefCap - 1 \/ room = BriefCap
      OBVIOUS
    <2> QED BY <2>1, <2>2
  <1>3. c.reason = reason /\ c.notice = _check_program_budget /\ c.claims = lab.pending
    BY DEF assemble_brief
  <1>4. ASSUME NEW k \in 1 .. 5, SizeTo(sections, k) <= room PROVE sections[k].name \in c.sections
    BY <1>1, <1>4 DEF assemble_brief
  <1>5. SizeTo(sections, 1) <= room /\ SizeTo(sections, 2) <= room /\ (lab.pending + 3 <= BriefCap => SizeTo(sections, 3) <= room)
    <2>1. sections[1].size \in Nat /\ sections[2].size \in Nat
      BY <1>1
    <2> QED BY <1>1, <1>2, <2>1, SizesOfFive
  <1>6. "correction" \in c.sections /\ "budget" \in c.sections
    BY <1>1, <1>4, <1>5
  <1>7. lab.pending + 3 <= BriefCap => "calibration" \in c.sections
    BY <1>1, <1>4, <1>5
  <1> QED BY <1>3, <1>6, <1>7

LEMMA NewestIsBounded ==
  ASSUME BriefTyped PROVE Newest(changelog) \in Nat /\ Newest(changelog) <= minute
  <1> DEFINE times == {0} \union Range(changelog)
  <1>1. times \in SUBSET Nat /\ times # {} /\ minute \in Nat /\ \A x \in times : x <= minute
    BY DEF BriefTyped, Range
  <1>2. Newest(changelog) = Max(times)
    BY DEF Newest
  <1> HIDE DEF times
  <1>3. Max(times) \in times
    BY <1>1, GreatestOfBounded
  <1> QED BY <1>1, <1>2, <1>3

LEMMA BriefStarts == BriefInit => BriefInv
  <1> SUFFICES ASSUME BriefInit PROVE BriefInv
    OBVIOUS
  <1>1. << >> \in Seq(Nat) /\ Len(<< >>) = 0
    OBVIOUS
  <1>2. lab \in LabShape
    BY DEF BriefInit, LabShape
  <1>3. brief.latest = 0 /\ session.on = FALSE /\ minute = 1 /\ cursor = 0 /\ changelog = << >>
    BY DEF BriefInit
  <1>4. Len(changelog) = 0 /\ changelog \in Seq(Nat) /\ 1 .. 0 = {}
    BY <1>1, <1>3
  <1>5. BriefTyped
    BY <1>2, <1>3, <1>4 DEF BriefTyped
  <1>6. ToldOf /\ NoneLost
    BY <1>3, <1>4 DEF ToldOf, NoneLost
  <1> QED BY <1>5, <1>6 DEF BriefInv

LEMMA WriteKeepsBrief ==
  ASSUME BriefInv, NEW reason \in Reasons \union {""}, write_session_brief(reason) PROVE BriefInv'
  <1>1. /\ session' = [on |-> TRUE, reason |-> reason] /\ lab' = [lab EXCEPT !.exit = ""]
        /\ brief' = [latest |-> Newest(changelog), unread |-> Unread]
        /\ minute' = minute /\ changelog' = changelog /\ cursor' = cursor /\ seen' = seen
        /\ (context' = assemble_brief(reason) /\ failed' = FALSE) \/ failed' = TRUE
    BY DEF write_session_brief
  <1>2. BriefTyped'
    <2>1. lab' \in LabShape
      BY <1>1 DEF BriefInv, BriefTyped, LabShape
    <2>2. brief'.latest = Newest(changelog)
      BY <1>1
    <2> QED BY <1>1, <2>1, <2>2, NewestIsBounded DEF BriefInv, BriefTyped
  <1>3. ToldOf'
    <2>1. session'.on = TRUE /\ session'.reason = reason
      BY <1>1
    <2>2. CASE failed' = TRUE
      BY <2>2 DEF ToldOf
    <2>3. CASE context' = assemble_brief(reason)
      <3> PICK c : c = assemble_brief(reason)
        OBVIOUS
      <3>1. /\ c.reason = reason
            /\ c.reason # "" => "correction" \in c.sections
            /\ c.notice # "" => "budget" \in c.sections
            /\ c.claims + 3 <= BriefCap => "calibration" \in c.sections
        BY BriefTells DEF BriefInv
      <3>2. context' = c
        BY <2>3
      <3> QED BY <2>1, <3>1, <3>2 DEF ToldOf
    <2> QED BY <1>1, <2>2, <2>3
  <1>4. NoneLost'
    BY <1>1 DEF BriefInv, NoneLost
  <1> QED BY <1>2, <1>3, <1>4 DEF BriefInv

LEMMA AdvanceKeepsBrief == ASSUME BriefInv, AdvanceCursor PROVE BriefInv'
  <1>1. /\ cursor' = brief.latest /\ seen' = seen \union (1 .. Len(changelog)) /\ minute' = minute /\ lab' = lab
        /\ changelog' = changelog /\ brief' = brief /\ context' = context /\ session' = session /\ failed' = failed
    BY DEF AdvanceCursor
  <1>2. BriefTyped' /\ ToldOf' /\ NoneLost'
    BY <1>1 DEF BriefInv, BriefTyped, ToldOf, NoneLost
  <1> QED BY <1>2 DEF BriefInv

LEMMA EndKeepsBrief ==
  ASSUME BriefInv, NEW reason \in {"", "GRACEFUL_CHECKPOINT", "CATASTROPHIC"}, EndSession(reason) PROVE BriefInv'
  <1>1. /\ minute' = minute /\ changelog' = changelog /\ cursor' = cursor /\ brief' = brief /\ context' = context
        /\ seen' = seen /\ session' = [on |-> FALSE, reason |-> ""]
    BY DEF EndSession
  <1>2. PICK newest \in {lab.log, minute} : lab' = [lab EXCEPT !.exit = reason, !.log = newest]
    BY DEF EndSession
  <1>3. lab' \in LabShape
    <2>1. newest \in Nat
      BY DEF BriefInv, BriefTyped, LabShape
    <2> QED BY <1>2, <2>1 DEF BriefInv, BriefTyped, LabShape
  <1>4. BriefTyped' /\ ToldOf' /\ NoneLost'
    BY <1>1, <1>3 DEF BriefInv, BriefTyped, ToldOf, NoneLost
  <1> QED BY <1>4 DEF BriefInv

LEMMA BecomesKeepsBrief == ASSUME BriefInv, NEW next \in LabShape, Becomes(next) PROVE BriefInv'
  BY DEF Becomes, BriefInv, BriefTyped, ToldOf, NoneLost

LEMMA OthersKeepBrief == ASSUME BriefInv, Orchestrator \/ Operator \/ Roles PROVE BriefInv'
  <1>1. lab \in LabShape /\ minute \in Nat /\ lab.pending \in Nat /\ BriefCap \in Nat
    BY SessionBriefAssumption DEF BriefInv, BriefTyped, LabShape
  <1>2. CASE Orchestrator
    <2>1. [lab EXCEPT !.alive = ~ @] \in LabShape /\ [lab EXCEPT !.index = minute] \in LabShape
      BY <1>1 DEF LabShape
    <2> QED BY <1>2, <2>1, BecomesKeepsBrief DEF Orchestrator
  <1>3. CASE Operator
    <2>1. [lab EXCEPT !.notes = minute] \in LabShape /\ [lab EXCEPT !.override = TRUE] \in LabShape
      BY <1>1 DEF LabShape
    <2>2. [lab EXCEPT !.program = IF @ = "" THEN "p" ELSE "", !.opened = minute] \in LabShape
      BY <1>1 DEF LabShape
    <2> QED BY <1>3, <2>1, <2>2, BecomesKeepsBrief DEF Operator
  <1>4. CASE Roles
    <2>1. [lab EXCEPT !.block = BriefCap] \in LabShape
      BY <1>1 DEF LabShape
    <2>2. [lab EXCEPT !.pending = @ + 1] \in LabShape
      <3>1. lab.pending + 1 \in Nat
        BY <1>1
      <3> QED BY <1>1, <3>1 DEF LabShape
    <2>3. lab.pending > 0 => [lab EXCEPT !.pending = @ - 1] \in LabShape
      <3>1. lab.pending > 0 => lab.pending - 1 \in Nat
        BY <1>1
      <3> QED BY <1>1, <3>1 DEF LabShape
    <2> QED BY <1>4, <2>1, <2>2, <2>3, BecomesKeepsBrief DEF Roles
  <1> QED BY <1>2, <1>3, <1>4

LEMMA SubstrateKeepsBrief == ASSUME BriefInv, Substrate PROVE BriefInv'
  <1>1. /\ changelog' = Append(changelog, minute) /\ minute' = minute /\ lab' = lab /\ cursor' = cursor /\ brief' = brief
        /\ context' = context /\ session' = session /\ failed' = failed /\ seen' = seen
    BY DEF Substrate
  <1>2. changelog \in Seq(Nat) /\ minute \in Nat /\ cursor \in Nat /\ cursor <= minute
    BY DEF BriefInv, BriefTyped
  <1>3. /\ changelog' \in Seq(Nat) /\ Len(changelog') = Len(changelog) + 1
        /\ \A i \in 1 .. Len(changelog') : (i \in 1 .. Len(changelog) /\ changelog'[i] = changelog[i]) \/ changelog'[i] = minute
    BY <1>1, <1>2
  <1>4. BriefTyped'
    BY <1>1, <1>2, <1>3 DEF BriefInv, BriefTyped
  <1>5. ToldOf'
    BY <1>1 DEF BriefInv, ToldOf
  <1>6. NoneLost'
    BY <1>1, <1>2, <1>3 DEF BriefInv, NoneLost
  <1> QED BY <1>4, <1>5, <1>6 DEF BriefInv

LEMMA MinuteKeepsBrief == ASSUME BriefInv, Minute PROVE BriefInv'
  <1>1. /\ minute' = minute + 1 /\ lab' = lab /\ changelog' = changelog /\ cursor' = cursor /\ brief' = brief
        /\ context' = context /\ session' = session /\ failed' = failed /\ seen' = seen
    BY DEF Minute
  <1>2. BriefTyped'
    BY <1>1 DEF BriefInv, BriefTyped
  <1>3. ToldOf' /\ NoneLost'
    BY <1>1 DEF BriefInv, ToldOf, NoneLost
  <1> QED BY <1>2, <1>3 DEF BriefInv

(* A session that the runner forced for a reason is told the whole correction, any     *)
(* session of a budget that is spent and of the claims that are pending, and the       *)
(* cursor passes over no entry of the changelog (assemble_brief, write_session_brief). *)
THEOREM SessionsAreTold == BriefSpec => []SessionIsTold
  <1>1. BriefInv /\ [BriefNext]_briefVars => BriefInv'
    <2> SUFFICES ASSUME BriefInv, [BriefNext]_briefVars PROVE BriefInv'
      OBVIOUS
    <2>1. CASE BriefNext
      BY <2>1, WriteKeepsBrief, AdvanceKeepsBrief, EndKeepsBrief, OthersKeepBrief, SubstrateKeepsBrief, MinuteKeepsBrief
         DEF BriefNext
    <2>2. CASE UNCHANGED briefVars
      BY <2>2 DEF briefVars, BriefInv, BriefTyped, ToldOf, NoneLost
    <2> QED BY <2>1, <2>2
  <1>2. BriefInv => SessionIsTold
    <2> SUFFICES ASSUME BriefInv PROVE SessionIsTold
      OBVIOUS
    <2>1. ASSUME NEW i \in 1 .. Len(changelog) PROVE i \in seen \/ i \in Unread \/ changelog[i] = cursor
      BY DEF BriefInv, BriefTyped, NoneLost, Unread
    <2> QED BY <2>1 DEF BriefInv, ToldOf, SessionIsTold
  <1> QED BY <1>1, <1>2, BriefStarts, PTL DEF BriefSpec

-----------------------------------------------------------------------------
(* The evaluation harness. *)

CellCount == Len(EvalCells)
BenchCount == Len(EvalBenchmarks)
ResultOf == [cell : Range(EvalCells), benchmark : Range(EvalBenchmarks), ckpt : Nat, acc : {"none", "low", "high"},
             status : {"PARTIAL_BLOCKED_NO_GENERATE", "PASS", "FAIL"}, smoke : BOOLEAN]
RunShape == [at : {"off", "cell", "benchmark", "write"}, c : Nat, b : Nat, records : Seq(ResultOf),
             cells : SUBSET Range(EvalCells), record : ResultOf \union {BlankRecord}]

(* Where a run h is in the cells and the benchmarks. *)
InCell(h) == h.at \in {"benchmark", "write"}
Position(h) ==
    /\ h.c \in 1 .. CellCount + 1 /\ h.b \in 1 .. BenchCount
    /\ InCell(h) => h.c <= CellCount
    /\ ~ InCell(h) => h.b = 1
(* It has the record of this pair of them. *)
Behind(h, i, k) == i < h.c \/ (i = h.c /\ (k < h.b \/ (k = h.b /\ h.at = "write")))
Covers(h, r) ==
    ~ r.smoke /\ \E i \in 1 .. CellCount, k \in 1 .. BenchCount :
                    r.cell = EvalCells[i] /\ r.benchmark = EvalBenchmarks[k] /\ Behind(h, i, k)
CellsBehind(h) ==
    /\ IsFiniteSet(h.cells)
    /\ \A i \in 1 .. CellCount : EvalCells[i] \in h.cells => i < h.c \/ (i = h.c /\ InCell(h))
    /\ InCell(h) => EvalCells[h.c] \in h.cells
Counted(h) ==
    Len(h.records) = (Cardinality(h.cells) - (IF InCell(h) THEN 1 ELSE 0)) * BenchCount
                       + (h.b - 1) + (IF h.at = "write" THEN 1 ELSE 0)
OneEach(h) ==
    /\ \A n \in 1 .. Len(h.records) : Covers(h, h.records[n])
    /\ \A n, m \in 1 .. Len(h.records) : h.records[n] = h.records[m] => n = m
RunSound(h) == h \in RunShape /\ Position(h) /\ CellsBehind(h) /\ Counted(h) /\ OneEach(h)

FullRecords == {r \in scores : ~ r.smoke}
HarnessTyped ==
    /\ final \in [Range(EvalCells) -> Nat] /\ scores \subseteq ResultOf /\ IsFiniteSet(scores)
    /\ spent \in Nat /\ cuts \in Nat
(* The records of a run are in the directory, the last one apart until it is written. *)
OnDisk ==
    /\ \A n \in 1 .. Len(harness.records) :
         harness.records[n] \in scores \/ (harness.at = "write" /\ harness.records[n] = harness.record)
    /\ harness.at = "write" =>
         /\ harness.record \in ResultOf /\ IsFile(harness.record, Cell, Benchmark, FALSE)
         /\ ~ \E r \in scores : IsFile(r, Cell, Benchmark, FALSE)
Spared == spent <= Cardinality(FullRecords) + cuts + (IF harness.at = "write" THEN 1 ELSE 0)
Aggregated ==
    LET agg == benchmark_scores IN
    /\ agg.records \in Seq(ResultOf) /\ Range(agg.records) \subseteq FullRecords
    /\ Len(agg.records) = Cardinality(agg.cells) * (IF agg.done THEN BenchCount ELSE 0)
    /\ IsInjective(agg.records)
HarnessInv == HarnessTyped /\ RunSound(harness) /\ OnDisk /\ Spared /\ Aggregated

LEMMA HarnessConstants ==
  /\ CellCount \in Nat /\ BenchCount \in Nat \ {0}
  /\ \A i \in 1 .. CellCount : EvalCells[i] \in Range(EvalCells)
  /\ \A k \in 1 .. BenchCount : EvalBenchmarks[k] \in Range(EvalBenchmarks)
  /\ \A i, j \in 1 .. CellCount : EvalCells[i] = EvalCells[j] => i = j
  /\ \A i, j \in 1 .. BenchCount : EvalBenchmarks[i] = EvalBenchmarks[j] => i = j
  <1>1. EvalCells \in Seq(Range(EvalCells)) /\ EvalBenchmarks \in Seq(Range(EvalBenchmarks)) /\ EvalBenchmarks # << >>
    BY EvalHarnessAssumption
  <1>2. CellCount \in Nat /\ BenchCount \in Nat /\ DOMAIN EvalCells = 1 .. CellCount /\ DOMAIN EvalBenchmarks = 1 .. BenchCount
    BY <1>1 DEF CellCount, BenchCount
  <1>3. BenchCount # 0
    BY <1>1 DEF BenchCount
  <1>4. /\ \A i \in 1 .. CellCount : EvalCells[i] \in Range(EvalCells)
        /\ \A k \in 1 .. BenchCount : EvalBenchmarks[k] \in Range(EvalBenchmarks)
    BY <1>2 DEF Range
  <1>5. /\ \A i, j \in 1 .. CellCount : EvalCells[i] = EvalCells[j] => i = j
        /\ \A i, j \in 1 .. BenchCount : EvalBenchmarks[i] = EvalBenchmarks[j] => i = j
    BY <1>2, EvalHarnessAssumption DEF IsInjective
  <1> QED BY <1>2, <1>3, <1>4, <1>5

LEMMA NewRun == /\ RunSound(NoHarness) /\ NoHarness.at = "off" /\ NoHarness.records = << >>
                /\ RunSound([NoHarness EXCEPT !.at = "cell"]) /\ [NoHarness EXCEPT !.at = "cell"].at = "cell"
                /\ [NoHarness EXCEPT !.at = "cell"].records = << >>
  <1>1. ASSUME NEW h, h = NoHarness \/ h = [NoHarness EXCEPT !.at = "cell"]
        PROVE  RunSound(h) /\ h.records = << >>
    <2>1. << >> \in Seq(ResultOf) /\ Len(<< >>) = 0
      OBVIOUS
    <2>2. /\ h \in RunShape /\ h.at \in {"off", "cell"} /\ h.c = 1 /\ h.b = 1 /\ h.records = << >> /\ h.cells = {}
      <3>1. CASE h = NoHarness
        BY <2>1, <3>1 DEF NoHarness, RunShape
      <3>2. CASE h = [NoHarness EXCEPT !.at = "cell"]
        BY <2>1, <3>2 DEF NoHarness, RunShape
      <3> QED BY <1>1, <3>1, <3>2
    <2>3. Position(h)
      BY <2>2, HarnessConstants DEF Position, InCell
    <2>4. CellsBehind(h) /\ Cardinality(h.cells) = 0
      BY <2>2, FS_EmptySet DEF CellsBehind, InCell
    <2>5. Counted(h)
      BY <2>1, <2>2, <2>4, HarnessConstants DEF Counted, InCell
    <2>6. OneEach(h)
      BY <2>1, <2>2 DEF OneEach
    <2> QED BY <2>2, <2>3, <2>4, <2>5, <2>6 DEF RunSound
  <1>2. NoHarness.at = "off" /\ [NoHarness EXCEPT !.at = "cell"].at = "cell"
    BY DEF NoHarness
  <1> QED BY <1>1, <1>2

(* A run goes on to the next cell when this one has no checkpoint... *)
LEMMA SkipsCell ==
  ASSUME NEW h, RunSound(h), h.at = "cell", h.c <= CellCount
  PROVE  RunSound([h EXCEPT !.c = @ + 1])
  <1> DEFINE g == [h EXCEPT !.c = @ + 1]
  <1>1. /\ g \in RunShape /\ g.at = "cell" /\ g.c = h.c + 1 /\ g.b = h.b /\ g.records = h.records /\ g.cells = h.cells
    BY DEF RunSound, RunShape
  <1>2. h.c \in Nat /\ h.b = 1 /\ h.c >= 1
    BY DEF RunSound, RunShape, Position, InCell
  <1> HIDE DEF g
  <1>3. Position(g)
    BY <1>1, <1>2, HarnessConstants DEF RunSound, Position, InCell
  <1>4. CellsBehind(g)
    BY <1>1, <1>2, HarnessConstants DEF RunSound, CellsBehind, InCell
  <1>5. Counted(g)
    BY <1>1 DEF RunSound, Counted, InCell
  <1>6. OneEach(g)
    <2>1. ASSUME NEW r, Covers(h, r) PROVE Covers(g, r)
      BY <1>1, <1>2, <2>1, HarnessConstants DEF Covers, Behind
    <2> QED BY <1>1, <2>1 DEF RunSound, OneEach
  <1> QED BY <1>1, <1>3, <1>4, <1>5, <1>6 DEF RunSound, g

(* ... or into it. *)
LEMMA EntersCell ==
  ASSUME NEW h, RunSound(h), h.at = "cell", h.c <= CellCount
  PROVE  RunSound([h EXCEPT !.at = "benchmark", !.cells = @ \union {EvalCells[h.c]}])
  <1> DEFINE x == EvalCells[h.c]
             g == [h EXCEPT !.at = "benchmark", !.cells = @ \union {x}]
  <1>1. h.c \in 1 .. CellCount /\ h.b = 1 /\ x \in Range(EvalCells)
    BY HarnessConstants DEF RunSound, RunShape, Position, InCell
  <1>2. /\ g \in RunShape /\ g.at = "benchmark" /\ g.c = h.c /\ g.b = h.b /\ g.records = h.records
        /\ g.cells = h.cells \union {x}
    BY <1>1 DEF RunSound, RunShape
  <1> HIDE DEF g
  <1>3. Position(g)
    BY <1>1, <1>2, HarnessConstants DEF RunSound, Position, InCell
  <1>4. x \notin h.cells /\ IsFiniteSet(h.cells)
    BY <1>1 DEF RunSound, CellsBehind, InCell
  <1>5. IsFiniteSet(g.cells) /\ Cardinality(g.cells) = Cardinality(h.cells) + 1 /\ Cardinality(h.cells) \in Nat
    BY <1>2, <1>4, FS_AddElement, FS_CardinalityType
  <1>6. CellsBehind(g)
    BY <1>1, <1>2, <1>5, HarnessConstants DEF RunSound, CellsBehind, InCell
  <1>7. Counted(g)
    <2>1. Len(h.records) = Cardinality(h.cells) * BenchCount
      BY <1>1, <1>5, HarnessConstants DEF RunSound, Counted, InCell
    <2>2. Cardinality(g.cells) - 1 = Cardinality(h.cells)
      BY <1>5
    <2>3. Cardinality(h.cells) * BenchCount \in Int
      BY <1>5, HarnessConstants
    <2> QED BY <1>1, <1>2, <2>1, <2>2, <2>3 DEF Counted, InCell
  <1>8. OneEach(g)
    <2>1. ASSUME NEW r, Covers(h, r) PROVE Covers(g, r)
      BY <1>1, <1>2, <2>1, HarnessConstants DEF Covers, Behind
    <2> QED BY <1>2, <2>1 DEF RunSound, OneEach
  <1> QED BY <1>2, <1>3, <1>6, <1>7, <1>8 DEF RunSound, g

(* It takes the record of the benchmark it is at... *)
LEMMA TakesRecord ==
  ASSUME NEW h, RunSound(h), h.at = "benchmark", NEW r \in ResultOf,
         IsFile(r, EvalCells[h.c], EvalBenchmarks[h.b], FALSE),
         NEW g \in RunShape, g.at = "write", g.c = h.c, g.b = h.b, g.cells = h.cells, g.records = Append(h.records, r)
  PROVE  RunSound(g)
  <1>1. h.c \in 1 .. CellCount /\ h.b \in 1 .. BenchCount /\ h.records \in Seq(ResultOf)
    BY HarnessConstants DEF RunSound, RunShape, Position, InCell
  <1>2. /\ Len(g.records) = Len(h.records) + 1 /\ Len(h.records) \in Nat
        /\ \A n \in 1 .. Len(h.records) : g.records[n] = h.records[n]
        /\ g.records[Len(h.records) + 1] = r
    BY <1>1
  <1>3. \A n \in 1 .. Len(h.records) + 1 : n \in 1 .. Len(h.records) \/ n = Len(h.records) + 1
    BY <1>2
  <1>4. Position(g) /\ CellsBehind(g)
    BY DEF RunSound, Position, CellsBehind, InCell
  <1>5. Counted(g)
    <2> DEFINE whole == (Cardinality(h.cells) - 1) * BenchCount
    <2>1. whole \in Int
      BY FS_CardinalityType, HarnessConstants DEF RunSound, CellsBehind
    <2>2. Len(h.records) = whole + (h.b - 1) + 0
      BY DEF RunSound, Counted, InCell
    <2>3. (Cardinality(g.cells) - 1) * BenchCount = whole
      OBVIOUS
    <2> HIDE DEF whole
    <2>4. Len(g.records) = whole + (g.b - 1) + 1
      BY <1>1, <1>2, <2>1, <2>2
    <2> QED BY <2>3, <2>4 DEF Counted, InCell
  <1>6. \A n \in 1 .. Len(h.records) : Covers(h, h.records[n])
    BY DEF RunSound, OneEach
  <1>7. ASSUME NEW y, Covers(h, y) PROVE Covers(g, y) /\ y # r
    <2>1. PICK i \in 1 .. CellCount, k \in 1 .. BenchCount :
            y.cell = EvalCells[i] /\ y.benchmark = EvalBenchmarks[k] /\ Behind(h, i, k)
      BY <1>7 DEF Covers
    <2>2. Behind(g, i, k)
      BY <2>1 DEF Behind
    <2>3. y # r
      BY <1>1, <2>1, HarnessConstants DEF IsFile, Behind
    <2> QED BY <1>7, <2>1, <2>2, <2>3 DEF Covers
  <1>8. Covers(g, r)
    <2>1. Behind(g, h.c, h.b)
      BY <1>1 DEF Behind
    <2> QED BY <1>1, <2>1 DEF Covers, IsFile
  <1>9. OneEach(g)
    <2>1. ASSUME NEW n \in 1 .. Len(g.records) PROVE Covers(g, g.records[n])
      BY <1>2, <1>3, <1>6, <1>7, <1>8
    <2>2. ASSUME NEW n \in 1 .. Len(g.records), NEW m \in 1 .. Len(g.records), g.records[n] = g.records[m] PROVE n = m
      <3>1. \A a, b \in 1 .. Len(h.records) : h.records[a] = h.records[b] => a = b
        BY DEF RunSound, OneEach
      <3> QED BY <1>2, <1>3, <1>6, <1>7, <2>2, <3>1
    <2> QED BY <2>1, <2>2 DEF OneEach
  <1> QED BY <1>4, <1>5, <1>9 DEF RunSound

(* ... and goes on to the next one. *)
LEMMA GoesOnward == ASSUME NEW h, RunSound(h), h.at = "write" PROVE RunSound(Onward(h))
  <1>1. h.c \in 1 .. CellCount /\ h.b \in 1 .. BenchCount /\ h \in RunShape
    BY HarnessConstants DEF RunSound, RunShape, Position, InCell
  <1> DEFINE whole == (Cardinality(h.cells) - 1) * BenchCount
  <1>2. whole \in Int /\ whole + BenchCount = Cardinality(h.cells) * BenchCount
    BY FS_CardinalityType, HarnessConstants DEF RunSound, CellsBehind
  <1>3. Len(h.records) = whole + (h.b - 1) + 1
    BY DEF RunSound, Counted, InCell
  <1> HIDE DEF whole
  <1>4. ASSUME h.b < BenchCount PROVE RunSound(Onward(h))
    <2> DEFINE g == [h EXCEPT !.at = "benchmark", !.b = @ + 1]
    <2>0. h.b + 1 \in Nat
      BY <1>1, HarnessConstants
    <2>1. /\ g \in RunShape /\ g.at = "benchmark" /\ g.c = h.c /\ g.b = h.b + 1 /\ g.records = h.records /\ g.cells = h.cells
      BY <1>1, <2>0 DEF RunShape
    <2>2. Onward(h) = g
      BY <1>4 DEF Onward, BenchCount
    <2> HIDE DEF g
    <2>3. Position(g) /\ CellsBehind(g)
      BY <1>1, <1>4, <2>1, HarnessConstants DEF RunSound, Position, CellsBehind, InCell
    <2>4. Counted(g)
      <3>1. Len(g.records) = whole + (g.b - 1)
        BY <1>1, <1>2, <1>3, <2>1
      <3> QED BY <1>1, <1>2, <2>1, <3>1 DEF Counted, InCell, whole
    <2>5. ASSUME NEW r, Covers(h, r) PROVE Covers(g, r)
      BY <1>1, <2>1, <2>5, HarnessConstants DEF Covers, Behind
    <2>6. OneEach(g)
      BY <2>1, <2>5 DEF RunSound, OneEach
    <2> QED BY <2>1, <2>2, <2>3, <2>4, <2>6 DEF RunSound
  <1>5. ASSUME ~ (h.b < BenchCount) PROVE RunSound(Onward(h))
    <2> DEFINE g == [h EXCEPT !.at = "cell", !.c = @ + 1, !.b = 1]
    <2>0. h.c + 1 \in Nat
      BY <1>1, HarnessConstants
    <2>1. /\ g \in RunShape /\ g.at = "cell" /\ g.c = h.c + 1 /\ g.b = 1 /\ g.records = h.records /\ g.cells = h.cells
      BY <1>1, <2>0 DEF RunShape
    <2>2. Onward(h) = g /\ h.b = BenchCount
      BY <1>1, <1>5, HarnessConstants DEF Onward, BenchCount
    <2> HIDE DEF g
    <2>3. Position(g) /\ CellsBehind(g)
      BY <1>1, <2>1, HarnessConstants DEF RunSound, Position, CellsBehind, InCell
    <2>4. Counted(g)
      <3>1. Len(g.records) = Cardinality(g.cells) * BenchCount /\ Cardinality(g.cells) * BenchCount \in Int
        BY <1>1, <1>2, <1>3, <2>1, <2>2, HarnessConstants
      <3>2. Cardinality(g.cells) - 0 = Cardinality(g.cells)
        BY <2>1, FS_CardinalityType DEF RunSound, CellsBehind
      <3> QED BY <2>1, <3>1, <3>2 DEF Counted, InCell
    <2>5. ASSUME NEW r, Covers(h, r) PROVE Covers(g, r)
      BY <1>1, <2>1, <2>5, HarnessConstants DEF Covers, Behind
    <2>6. OneEach(g)
      BY <2>1, <2>5 DEF RunSound, OneEach
    <2> QED BY <2>1, <2>2, <2>3, <2>4, <2>6 DEF RunSound
  <1> QED BY <1>4, <1>5

LEMMA HarnessStarts == HarnessInit => HarnessInv
  <1> SUFFICES ASSUME HarnessInit PROVE HarnessInv
    OBVIOUS
  <1>1. harness = NoHarness /\ scores = {} /\ benchmark_scores = NoAggregate /\ spent = 0 /\ cuts = 0
    BY DEF HarnessInit
  <1>2. HarnessTyped
    BY <1>1, FS_EmptySet DEF HarnessInit, HarnessTyped
  <1>3. RunSound(harness)
    BY <1>1, NewRun
  <1>4. OnDisk
    BY <1>1, NewRun DEF OnDisk
  <1>5. FullRecords = {} /\ Cardinality(FullRecords) = 0
    BY <1>1, FS_EmptySet DEF FullRecords
  <1>6. Spared
    BY <1>1, <1>5, NewRun DEF Spared
  <1>7. Aggregated
    <2>1. << >> \in Seq(ResultOf) /\ Len(<< >>) = 0 /\ Range(<< >>) = {} /\ IsInjective(<< >>)
      BY DEF Range, IsInjective
    <2>2. benchmark_scores.records = << >> /\ benchmark_scores.done = FALSE /\ benchmark_scores.cells = {}
      BY <1>1 DEF NoAggregate
    <2>3. Cardinality({}) * 0 = 0
      BY FS_EmptySet
    <2> QED BY <2>1, <2>2, <2>3 DEF Aggregated
  <1> QED BY <1>2, <1>3, <1>4, <1>6, <1>7 DEF HarnessInv

(* A step that leaves the directory alone and moves the run to a sound one whose *)
(* records are in the directory.                                                 *)
LEMMA HarnessMoves ==
  ASSUME HarnessInv, scores' = scores, benchmark_scores' = benchmark_scores,
         final' \in [Range(EvalCells) -> Nat], spent' \in Nat, cuts' \in Nat,
         RunSound(harness'), OnDisk',
         spent' <= Cardinality(FullRecords) + cuts' + (IF harness'.at = "write" THEN 1 ELSE 0)
  PROVE  HarnessInv'
  <1>1. FullRecords' = FullRecords
    BY DEF FullRecords
  <1>2. HarnessTyped'
    BY DEF HarnessInv, HarnessTyped
  <1>3. Spared'
    BY <1>1 DEF Spared
  <1>4. Aggregated'
    BY <1>1 DEF HarnessInv, Aggregated
  <1> QED BY <1>2, <1>3, <1>4 DEF HarnessInv

LEMMA TrainKeepsHarness == ASSUME HarnessInv, NEW c \in Range(EvalCells), Train(c) PROVE HarnessInv'
  <1>1. final' \in [Range(EvalCells) -> Nat]
    BY DEF HarnessInv, HarnessTyped, Train
  <1>2. /\ scores' = scores /\ benchmark_scores' = benchmark_scores /\ harness' = harness
        /\ spent' = spent /\ cuts' = cuts /\ spent \in Nat /\ cuts \in Nat
    BY DEF Train, HarnessInv, HarnessTyped
  <1>3. RunSound(harness') /\ OnDisk'
    BY <1>2 DEF HarnessInv, OnDisk, Cell, Benchmark
  <1>4. spent' <= Cardinality(FullRecords) + cuts' + (IF harness'.at = "write" THEN 1 ELSE 0)
    BY <1>2 DEF HarnessInv, Spared
  <1> QED BY <1>1, <1>2, <1>3, <1>4, HarnessMoves

(* A run has only records of full evaluations, all but the one that it is about *)
(* to write in the directory.                                                   *)
LEMMA RecordsAreFull ==
  ASSUME HarnessInv, NEW n \in 1 .. Len(harness.records)
  PROVE  /\ harness.records[n] \in FullRecords \/ (harness.at = "write" /\ harness.records[n] = harness.record)
         /\ ~ harness.records[n].smoke
  BY DEF HarnessInv, RunSound, OneEach, Covers, OnDisk, FullRecords

LEMMA BuildsRecord ==
  ASSUME HarnessInv, NEW c \in Range(EvalCells), NEW benchmark \in Range(EvalBenchmarks), NEW acc \in Accs,
         NEW smoke \in BOOLEAN
  PROVE  /\ build_record(c, benchmark, acc, smoke) \in ResultOf
         /\ IsFile(build_record(c, benchmark, acc, smoke), c, benchmark, smoke)
  <1>1. final[c] \in Nat
    BY DEF HarnessInv, HarnessTyped
  <1>2. compute_sigma_gate_status(benchmark, acc) \in {"PARTIAL_BLOCKED_NO_GENERATE", "PASS", "FAIL"}
    BY DEF compute_sigma_gate_status
  <1>3. (IF benchmark = Blocked THEN "none" ELSE acc) \in {"none", "low", "high"}
    BY DEF Accs
  <1> QED BY <1>1, <1>2, <1>3 DEF build_record, ResultOf, IsFile

(* A smoke run touches no record of a full one. *)
LEMMA SmokeKeepsHarness ==
  ASSUME HarnessInv, NEW c \in Range(EvalCells), NEW benchmark \in Range(EvalBenchmarks), NEW acc \in Accs,
         run_smoke(c, benchmark, acc)
  PROVE  HarnessInv'
  <1> PICK r : r = build_record(c, benchmark, acc, TRUE)
    OBVIOUS
  <1>1. r \in ResultOf /\ r.smoke = TRUE
    BY BuildsRecord DEF IsFile
  <1>2. /\ scores' = Written(r) /\ harness' = harness /\ benchmark_scores' = benchmark_scores /\ final' = final
        /\ spent' = spent /\ cuts' = cuts
    BY DEF run_smoke
  <1>3. FullRecords' = FullRecords
    BY <1>1, <1>2 DEF FullRecords, Written, IsFile
  <1>4. IsFiniteSet(scores') /\ scores' \subseteq ResultOf
    <2> DEFINE rest == {x \in scores : ~ IsFile(x, r.cell, r.benchmark, r.smoke)}
    <2>1. IsFiniteSet(rest) /\ rest \subseteq ResultOf
      BY FS_Subset DEF HarnessInv, HarnessTyped
    <2>2. scores' = rest \union {r}
      BY <1>2 DEF Written
    <2> HIDE DEF rest
    <2> QED BY <1>1, <2>1, <2>2, FS_AddElement
  <1>5. HarnessTyped'
    BY <1>2, <1>4 DEF HarnessInv, HarnessTyped
  <1>6. RunSound(harness')
    BY <1>2 DEF HarnessInv
  <1>7. OnDisk'
    <2>1. ASSUME NEW n \in 1 .. Len(harness.records)
          PROVE  harness.records[n] \in scores' \/ (harness.at = "write" /\ harness.records[n] = harness.record)
      BY <1>3, RecordsAreFull DEF FullRecords
    <2>2. ASSUME NEW x \in scores', IsFile(x, Cell, Benchmark, FALSE) PROVE x \in scores
      BY <1>1, <1>2, <2>2 DEF Written, IsFile
    <2> QED BY <1>2, <2>1, <2>2 DEF HarnessInv, OnDisk, Cell, Benchmark
  <1>8. Spared'
    BY <1>2, <1>3 DEF HarnessInv, Spared
  <1>9. Aggregated'
    BY <1>2, <1>3 DEF HarnessInv, Aggregated
  <1> QED BY <1>5, <1>6, <1>7, <1>8, <1>9 DEF HarnessInv

LEMMA RunFullKeepsHarness == ASSUME HarnessInv, run_full PROVE HarnessInv'
  <1>1. /\ scores' = scores /\ benchmark_scores' = benchmark_scores /\ final' = final /\ harness.at = "off"
        /\ spent' = spent /\ cuts' = cuts /\ harness' = [NoHarness EXCEPT !.at = "cell"]
    BY DEF run_full
  <1>2. RunSound(harness') /\ harness'.at = "cell" /\ harness'.records = << >>
    BY <1>1, NewRun
  <1>3. OnDisk'
    BY <1>2 DEF OnDisk
  <1>4. spent' <= Cardinality(FullRecords) + cuts' + (IF harness'.at = "write" THEN 1 ELSE 0)
    BY <1>1, <1>2 DEF HarnessInv, Spared
  <1>5. final' \in [Range(EvalCells) -> Nat] /\ spent' \in Nat /\ cuts' \in Nat
    BY <1>1 DEF HarnessInv, HarnessTyped
  <1> QED BY <1>1, <1>2, <1>3, <1>4, <1>5, HarnessMoves

LEMMA NextCellKeepsHarness == ASSUME HarnessInv, NextCell PROVE HarnessInv'
  <1>1. /\ scores' = scores /\ benchmark_scores' = benchmark_scores /\ final' = final /\ harness.at = "cell"
        /\ harness.c <= CellCount /\ spent' = spent /\ cuts' = cuts
        /\ \/ harness' = [harness EXCEPT !.c = @ + 1]
           \/ harness' = [harness EXCEPT !.at = "benchmark", !.cells = @ \union {EvalCells[harness.c]}]
    BY DEF NextCell, CellCount, Cell
  <1>2. RunSound(harness) /\ harness \in RunShape
    BY DEF HarnessInv, RunSound
  <1>3. RunSound(harness')
    BY <1>1, <1>2, SkipsCell, EntersCell
  <1>4. harness'.at \in {"cell", "benchmark"} /\ harness'.records = harness.records
    BY <1>1, <1>2 DEF RunShape
  <1>5. OnDisk'
    BY <1>1, <1>4 DEF HarnessInv, OnDisk
  <1>6. spent' <= Cardinality(FullRecords) + cuts' + (IF harness'.at = "write" THEN 1 ELSE 0)
    BY <1>1, <1>4 DEF HarnessInv, Spared
  <1>7. final' \in [Range(EvalCells) -> Nat] /\ spent' \in Nat /\ cuts' \in Nat
    BY <1>1 DEF HarnessInv, HarnessTyped
  <1> QED BY <1>1, <1>3, <1>5, <1>6, <1>7, HarnessMoves

LEMMA OnwardIsOn ==
  ASSUME NEW h \in RunShape
  PROVE  Onward(h).at \in {"benchmark", "cell"} /\ Onward(h).records = h.records
  BY DEF Onward, RunShape

LEMMA ResumeSkipKeepsHarness == ASSUME HarnessInv, ResumeSkip PROVE HarnessInv'
  <1>1. PICK r \in scores : /\ IsFile(r, Cell, Benchmark, FALSE)
                            /\ harness' = Onward([harness EXCEPT !.records = Append(@, r)])
    BY DEF ResumeSkip
  <1>2. /\ scores' = scores /\ benchmark_scores' = benchmark_scores /\ final' = final /\ harness.at = "benchmark"
        /\ spent' = spent /\ cuts' = cuts /\ r \in ResultOf /\ RunSound(harness) /\ harness \in RunShape
    BY DEF ResumeSkip, HarnessInv, HarnessTyped, RunSound
  <1> DEFINE some == Append(harness.records, r)
  <1>3. some \in Seq(ResultOf) /\ harness.records \in Seq(ResultOf)
    BY <1>2 DEF RunShape
  <1> HIDE DEF some
  <1> PICK f : f = [harness EXCEPT !.records = some]
    OBVIOUS
  <1> PICK g : g = [f EXCEPT !.at = "write"]
    OBVIOUS
  <1>4. f \in RunShape /\ f.records = some /\ f.c = harness.c /\ f.b = harness.b /\ f.cells = harness.cells
    BY <1>2, <1>3 DEF RunShape
  <1>5. g \in RunShape /\ g.at = "write" /\ g.records = some /\ g.c = harness.c /\ g.b = harness.b /\ g.cells = harness.cells
    BY <1>4 DEF RunShape
  <1>6. RunSound(g)
    BY <1>1, <1>2, <1>5, TakesRecord DEF Cell, Benchmark, some
  <1>7. Onward(g) = Onward(f)
    BY <1>4, <1>5 DEF Onward, RunShape
  <1>8. harness' = Onward(g)
    BY <1>1, <1>7 DEF some
  <1>9. RunSound(harness') /\ harness'.at \in {"benchmark", "cell"} /\ harness'.records = some
    BY <1>5, <1>6, <1>8, GoesOnward, OnwardIsOn
  <1>10. OnDisk'
    <2>1. \A n \in 1 .. Len(some) : some[n] \in scores
      BY <1>1, <1>2, <1>3 DEF some, HarnessInv, OnDisk
    <2> QED BY <1>2, <1>9, <2>1 DEF OnDisk
  <1>11. spent' <= Cardinality(FullRecords) + cuts' + (IF harness'.at = "write" THEN 1 ELSE 0)
    BY <1>2, <1>9 DEF HarnessInv, Spared
  <1>12. final' \in [Range(EvalCells) -> Nat] /\ spent' \in Nat /\ cuts' \in Nat
    BY <1>2 DEF HarnessInv, HarnessTyped
  <1> QED BY <1>2, <1>9, <1>10, <1>11, <1>12, HarnessMoves

(* An evaluation of a benchmark adds its record to the run. *)
LEMMA EvaluationRecords ==
  ASSUME HarnessInv, NEW r \in ResultOf, IsFile(r, Cell, Benchmark, FALSE), harness.at = "benchmark",
         ~ \E x \in scores : IsFile(x, Cell, Benchmark, FALSE),
         harness' = [harness EXCEPT !.at = "write", !.records = Append(@, r), !.record = r],
         scores' = scores, benchmark_scores' = benchmark_scores, final' = final, spent' = spent + 1, cuts' = cuts
  PROVE  HarnessInv'
  <1> DEFINE some == Append(harness.records, r)
  <1>1. RunSound(harness) /\ harness \in RunShape /\ harness.records \in Seq(ResultOf)
    BY DEF HarnessInv, RunSound, RunShape
  <1>2. some \in Seq(ResultOf)
    BY <1>1
  <1>3. \A n \in 1 .. Len(some) : some[n] = r \/ \E m \in 1 .. Len(harness.records) : some[n] = harness.records[m]
    BY <1>1
  <1>4. harness' = [harness EXCEPT !.at = "write", !.records = some, !.record = r]
    OBVIOUS
  <1> HIDE DEF some
  <1>5. /\ harness' \in RunShape /\ harness'.at = "write" /\ harness'.records = some /\ harness'.record = r
        /\ harness'.c = harness.c /\ harness'.b = harness.b /\ harness'.cells = harness.cells
    BY <1>1, <1>2, <1>4 DEF RunShape
  <1>6. RunSound(harness')
    <2> PICK g : g = harness'
      OBVIOUS
    <2>1. RunSound(g)
      BY <1>1, <1>5, TakesRecord DEF Cell, Benchmark, some
    <2> QED BY <2>1
  <1>7. OnDisk'
    <2>1. \A m \in 1 .. Len(harness.records) : harness.records[m] \in scores
      BY DEF HarnessInv, OnDisk
    <2>2. \A n \in 1 .. Len(some) : some[n] \in scores \/ some[n] = r
      BY <1>3, <2>1
    <2>3. Cell' = Cell /\ Benchmark' = Benchmark
      BY <1>5 DEF Cell, Benchmark
    <2> QED BY <1>5, <2>2, <2>3 DEF OnDisk, IsFile
  <1>8. final' \in [Range(EvalCells) -> Nat] /\ spent' \in Nat /\ cuts' \in Nat /\ spent \in Nat /\ cuts \in Nat
    BY DEF HarnessInv, HarnessTyped
  <1>9. Cardinality(FullRecords) \in Nat
    BY FS_Subset, FS_CardinalityType DEF HarnessInv, HarnessTyped, FullRecords
  <1>10. spent' <= Cardinality(FullRecords) + cuts' + (IF harness'.at = "write" THEN 1 ELSE 0)
    BY <1>5, <1>8, <1>9 DEF HarnessInv, Spared
  <1> QED BY <1>6, <1>7, <1>8, <1>10, HarnessMoves

LEMMA EvaluationKeepsHarness ==
  ASSUME HarnessInv, NEW acc \in Accs, run_benchmark_via_harness(acc) PROVE HarnessInv'
  <1>1. Cell \in Range(EvalCells) /\ Benchmark \in Range(EvalBenchmarks)
    BY HarnessConstants DEF run_benchmark_via_harness, Cell, Benchmark, HarnessInv, RunSound, Position, InCell
  <1>2. /\ build_record(Cell, Benchmark, acc, FALSE) \in ResultOf
        /\ IsFile(build_record(Cell, Benchmark, acc, FALSE), Cell, Benchmark, FALSE)
    BY <1>1, BuildsRecord
  <1> QED BY <1>2, EvaluationRecords DEF run_benchmark_via_harness

LEMMA WriteKeepsHarness == ASSUME HarnessInv, PerCellWrite PROVE HarnessInv'
  <1> PICK r : r = harness.record
    OBVIOUS
  <1>1. /\ harness.at = "write" /\ scores' = Written(r) /\ harness' = Onward(harness) /\ final' = final
        /\ benchmark_scores' = benchmark_scores /\ spent' = spent /\ cuts' = cuts
    BY DEF PerCellWrite
  <1>2. RunSound(harness) /\ harness \in RunShape
    BY DEF HarnessInv, RunSound
  <1>3. r \in ResultOf /\ IsFile(r, Cell, Benchmark, FALSE) /\ ~ \E x \in scores : IsFile(x, Cell, Benchmark, FALSE)
    BY <1>1 DEF HarnessInv, OnDisk
  <1>4. scores' = scores \union {r} /\ r \notin scores /\ ~ r.smoke
    BY <1>1, <1>3 DEF Written, IsFile
  <1>5. HarnessTyped'
    BY <1>1, <1>3, <1>4, FS_AddElement DEF HarnessInv, HarnessTyped
  <1>6. RunSound(harness') /\ harness'.at \in {"benchmark", "cell"} /\ harness'.records = harness.records
    BY <1>1, <1>2, GoesOnward, OnwardIsOn
  <1>7. OnDisk'
    BY <1>1, <1>4, <1>6 DEF HarnessInv, OnDisk
  <1>8. FullRecords' = FullRecords \union {r} /\ r \notin FullRecords /\ IsFiniteSet(FullRecords)
    BY <1>4, FS_Subset DEF FullRecords, HarnessInv, HarnessTyped
  <1>9. Cardinality(FullRecords') = Cardinality(FullRecords) + 1 /\ Cardinality(FullRecords) \in Nat
    BY <1>8, FS_AddElement, FS_CardinalityType
  <1>10. Spared'
    BY <1>1, <1>6, <1>9 DEF HarnessInv, HarnessTyped, Spared
  <1>11. Aggregated'
    BY <1>1, <1>8 DEF HarnessInv, Aggregated
  <1> QED BY <1>5, <1>6, <1>7, <1>10, <1>11 DEF HarnessInv

LEMMA AggregateKeepsHarness == ASSUME HarnessInv, WriteAggregate PROVE HarnessInv'
  <1>1. /\ scores' = scores /\ final' = final /\ harness.at = "cell" /\ harness.c > CellCount /\ harness' = NoHarness
        /\ spent' = spent /\ cuts' = cuts
        /\ benchmark_scores' = [records |-> harness.records, cells |-> harness.cells, done |-> TRUE]
    BY DEF WriteAggregate, CellCount
  <1>2. RunSound(harness) /\ harness \in RunShape /\ harness.b = 1
    BY <1>1 DEF HarnessInv, RunSound, Position, InCell
  <1>3. FullRecords' = FullRecords
    BY <1>1 DEF FullRecords
  <1>4. HarnessTyped'
    BY <1>1 DEF HarnessInv, HarnessTyped
  <1>5. RunSound(harness') /\ harness'.at = "off" /\ harness'.records = << >>
    BY <1>1, NewRun
  <1>6. OnDisk'
    BY <1>5 DEF OnDisk
  <1>7. Spared'
    BY <1>1, <1>3, <1>5 DEF HarnessInv, Spared
  <1>8. Aggregated'
    <2> PICK some : some = harness.records
      OBVIOUS
    <2>1. some \in Seq(ResultOf)
      BY <1>2 DEF RunShape
    <2>2. \A n \in 1 .. Len(some) : some[n] \in FullRecords
      BY <1>1, RecordsAreFull
    <2>3. Range(some) \subseteq FullRecords
      BY <2>1, <2>2 DEF Range
    <2>4. IsInjective(some)
      BY <1>2, <2>1 DEF IsInjective, RunSound, OneEach
    <2>5. Len(some) = Cardinality(harness.cells) * BenchCount
      <3>1. Cardinality(harness.cells) \in Nat /\ Cardinality(harness.cells) * BenchCount \in Int
        BY <1>2, FS_CardinalityType, HarnessConstants DEF RunSound, CellsBehind
      <3>2. Len(some) = (Cardinality(harness.cells) - 0) * BenchCount + (1 - 1) + 0
        BY <1>1, <1>2 DEF RunSound, Counted, InCell
      <3>3. Cardinality(harness.cells) - 0 = Cardinality(harness.cells)
        BY <3>1
      <3> QED BY <3>1, <3>2, <3>3
    <2> QED BY <1>1, <1>3, <2>1, <2>3, <2>4, <2>5 DEF Aggregated
  <1> QED BY <1>4, <1>5, <1>6, <1>7, <1>8 DEF HarnessInv

LEMMA KillKeepsHarness == ASSUME HarnessInv, KillHarness PROVE HarnessInv'
  <1>1. /\ scores' = scores /\ benchmark_scores' = benchmark_scores /\ final' = final /\ harness' = NoHarness
        /\ spent' = spent /\ cuts' = IF harness.at = "write" THEN cuts + 1 ELSE cuts
    BY DEF KillHarness
  <1>2. RunSound(harness') /\ harness'.at = "off" /\ harness'.records = << >>
    BY <1>1, NewRun
  <1>3. OnDisk'
    BY <1>2 DEF OnDisk
  <1>4. final' \in [Range(EvalCells) -> Nat] /\ spent' \in Nat /\ cuts' \in Nat /\ spent \in Nat /\ cuts \in Nat
    BY <1>1 DEF HarnessInv, HarnessTyped
  <1>5. Cardinality(FullRecords) \in Nat
    BY FS_Subset, FS_CardinalityType DEF HarnessInv, HarnessTyped, FullRecords
  <1>6. spent' <= Cardinality(FullRecords) + cuts' + (IF harness'.at = "write" THEN 1 ELSE 0)
    BY <1>1, <1>2, <1>4, <1>5 DEF HarnessInv, Spared
  <1> QED BY <1>1, <1>2, <1>3, <1>4, <1>6, HarnessMoves

LEMMA HarnessStays == HarnessInv /\ UNCHANGED harnessVars => HarnessInv'
  BY DEF harnessVars, HarnessInv, HarnessTyped, OnDisk, Cell, Benchmark, Spared, Aggregated, FullRecords

LEMMA HarnessGivesIt == HarnessInv => RerunCostsOne
  BY DEF HarnessInv, Spared, Aggregated, RerunCostsOne, FullRecords, BenchCount

(* However often the harness is killed and run again, and whatever is trained or *)
(* smoke-tested meanwhile, a kill costs at most the one evaluation it fell into, *)
(* and the aggregate has one record for every benchmark of every cell that its   *)
(* run found (run_full).                                                         *)
THEOREM RerunsCostOne == HarnessSpec => []RerunCostsOne
  <1>1. HarnessInv /\ [HarnessNext]_harnessVars => HarnessInv'
    <2> SUFFICES ASSUME HarnessInv, [HarnessNext]_harnessVars PROVE HarnessInv'
      OBVIOUS
    <2>1. CASE HarnessNext
      BY <2>1, TrainKeepsHarness, SmokeKeepsHarness, RunFullKeepsHarness, NextCellKeepsHarness,
         ResumeSkipKeepsHarness, EvaluationKeepsHarness, WriteKeepsHarness, AggregateKeepsHarness,
         KillKeepsHarness DEF HarnessNext
    <2>2. CASE UNCHANGED harnessVars
      BY <2>2, HarnessStays
    <2> QED BY <2>1, <2>2
  <1> QED BY <1>1, HarnessStarts, HarnessGivesIt, PTL DEF HarnessSpec

-----------------------------------------------------------------------------
(* The memory pool, for every size of the arena, of the headers and of what callers *)
(* ask for.  The blocks of a weights pool lie one behind the other below the head,  *)
(* and while no block off the grid has been reused every holder sits inside one     *)
(* block in use, behind its header, and no two in the same one.  In a bump pool     *)
(* every holder lies below the head, which only a reset, which takes the holders    *)
(* away, moves back.                                                                *)
(* Rounding up: the result is not smaller, it is a multiple, and a multiple is *)
(* what rounding leaves alone.                                                 *)
LEMMA RoundUp ==
  ASSUME NEW x \in Nat, NEW a \in Nat \ {0}
  PROVE  /\ align_up(x, a) \in Nat
         /\ align_up(x, a) >= x
         /\ Multiple(align_up(x, a), a)
  <1>1. align_up(x, a) \in Nat /\ align_up(x, a) >= x
    BY DEF align_up
  <1>2. \A k \in Nat : ((k * a + a - 1) \div a) * a = k * a
    OBVIOUS
  <1>3. (x + a - 1) \div a \in Nat
    OBVIOUS
  <1> QED BY <1>1, <1>2, <1>3 DEF align_up, Multiple

LEMMA MultiplesAdd ==
  ASSUME NEW a \in Nat \ {0}, NEW x \in Nat, NEW y \in Nat, Multiple(x, a), Multiple(y, a)
  PROVE  Multiple(x + y, a)
  <1> DEFINE k == (x + a - 1) \div a
             l == (y + a - 1) \div a
  <1>1. k \in Nat /\ l \in Nat
    OBVIOUS
  <1>2. x = k * a /\ y = l * a
    BY DEF Multiple, align_up
  <1> HIDE DEF k, l
  <1>3. x + y = (k + l) * a
    BY <1>1, <1>2
  <1>4. \A m \in Nat : ((m * a + a - 1) \div a) * a = m * a
    OBVIOUS
  <1>5. k + l \in Nat
    BY <1>1
  <1>6. (((k + l) * a + a - 1) \div a) * a = (k + l) * a
    BY <1>4, <1>5
  <1> QED BY <1>3, <1>6 DEF Multiple, align_up
-----------------------------------------------------------------------------
Block == [start : Nat, size : Nat, total_size : Nat, in_use : BOOLEAN]
Holder == [at : Nat, size : Nat \ {0}, alignment : Nat \ {0}]

PoolTypeOK ==
  /\ type \in {"weights", "bump"}
  /\ ring_head \in Nat /\ ring_head <= Capacity
  /\ blocks \in Seq(Block) /\ live \subseteq Holder
  /\ ragged \in BOOLEAN /\ reused \in BOOLEAN

End(i) == blocks[i].start + blocks[i].total_size
Within(x, i) == blocks[i].start + HeaderSize <= x.at /\ x.at + x.size <= End(i)

Chain ==
  /\ \A i \in DOMAIN blocks : HeaderSize + blocks[i].size <= blocks[i].total_size /\ End(i) <= ring_head
  /\ \A i, j \in DOMAIN blocks : i < j => End(i) <= blocks[j].start

Housed ==
  type = "weights" /\ ~ (ragged /\ reused) =>
     /\ \A x \in live : \E i \in DOMAIN blocks : blocks[i].in_use /\ Within(x, i)
     /\ \A x, y \in live, i \in DOMAIN blocks : Within(x, i) /\ Within(y, i) => x = y

OnGrid ==
  type = "weights" /\ ~ ragged =>
     /\ Multiple(ring_head, MinAlignment)
     /\ \A i \in DOMAIN blocks : Multiple(blocks[i].start, MinAlignment)
     /\ Aligned

Bumped ==
  type = "bump" =>
     /\ blocks = << >> /\ ~ ragged /\ ~ reused /\ Aligned
     /\ \A x \in live : x.at + x.size <= ring_head
     /\ \A x, y \in live : x = y \/ Apart(x.at, x.size, y.at, y.size)

PoolInv == PoolTypeOK /\ Chain /\ Housed /\ OnGrid /\ Bumped

(* A holder that lies within two blocks lies within one. *)
LEMMA OneHouse ==
  ASSUME PoolTypeOK, Chain, NEW x \in Holder, NEW i \in DOMAIN blocks, NEW j \in DOMAIN blocks,
         Within(x, i), Within(x, j)
  PROVE  i = j
  <1>a. x.at \in Nat /\ x.size \in Nat /\ x.size > 0 /\ HeaderSize \in Nat
    BY MemoryPoolAssumption DEF Holder
  <1>b. i \in Nat /\ j \in Nat /\ blocks[i] \in Block /\ blocks[j] \in Block
    BY DEF PoolTypeOK
  <1>1. /\ blocks[i].start \in Nat /\ blocks[i].total_size \in Nat
        /\ blocks[j].start \in Nat /\ blocks[j].total_size \in Nat
    BY <1>b DEF Block
  <1>2. /\ x.at >= blocks[i].start + HeaderSize /\ x.at + x.size <= End(i)
        /\ x.at >= blocks[j].start + HeaderSize /\ x.at + x.size <= End(j)
    BY <1>a, <1>1 DEF Within, End
  <1>3. ~ (i < j)
    BY <1>a, <1>b, <1>1, <1>2 DEF Chain, End
  <1>4. ~ (j < i)
    BY <1>a, <1>b, <1>1, <1>2 DEF Chain, End
  <1> QED BY <1>b, <1>3, <1>4

(* The invariant is strong enough. *)
LEMMA PoolInvOwns == PoolInv => BytesAreOwned
  <1> SUFFICES ASSUME PoolInv PROVE BytesAreOwned
    OBVIOUS
  <1> USE DEF PoolInv
  <1>0. /\ HeaderSize \in Nat \ {0} /\ Capacity \in Nat
        /\ \A x \in live : x \in Holder /\ x.at \in Nat /\ x.size \in Nat \ {0}
        /\ \A i \in DOMAIN blocks : i \in Nat /\ blocks[i] \in Block
    BY MemoryPoolAssumption DEF PoolTypeOK, Holder
  <1>1. ragged \/ Aligned
    BY DEF PoolTypeOK, OnGrid, Bumped
  <1>2. CASE type = "bump"
    <2>1. Disjoint
      BY <1>0, <1>2 DEF Disjoint, Bumped, PoolTypeOK
    <2> QED BY <1>1, <2>1 DEF BytesAreOwned
  <1>3. CASE type = "weights" /\ ~ (ragged /\ reused)
    <2>1. PICK home \in [live -> DOMAIN blocks] : \A x \in live : Within(x, home[x])
      <3> DEFINE h == [x \in live |-> CHOOSE i \in DOMAIN blocks : blocks[i].in_use /\ Within(x, i)]
      <3>1. h \in [live -> DOMAIN blocks] /\ \A x \in live : Within(x, h[x])
        BY <1>3 DEF Housed
      <3> QED BY <3>1
    <2>2. ASSUME NEW x \in live, NEW y \in live, x # y
          PROVE  Apart(x.at, x.size, y.at, y.size)
      <3>1. home[x] # home[y]
        BY <1>3, <2>1, <2>2 DEF Housed
      <3>2. home[x] \in DOMAIN blocks /\ home[y] \in DOMAIN blocks /\ Within(x, home[x]) /\ Within(y, home[y])
        BY <2>1
      <3>3. home[x] < home[y] \/ home[y] < home[x]
        BY <3>1, <3>2, <1>0
      <3>4. CASE home[x] < home[y]
        BY <1>0, <3>2, <3>4 DEF Chain, Within, End, Apart, Block
      <3>5. CASE home[y] < home[x]
        BY <1>0, <3>2, <3>5 DEF Chain, Within, End, Apart, Block
      <3> QED BY <3>3, <3>4, <3>5
    <2>3. ASSUME NEW x \in live, NEW j \in DOMAIN blocks
          PROVE  Apart(x.at, x.size, blocks[j].start, HeaderSize)
      <3>1. home[x] \in DOMAIN blocks /\ Within(x, home[x])
        BY <2>1
      <3>2. home[x] < j \/ j < home[x] \/ home[x] = j
        BY <3>1, <1>0
      <3>3. CASE home[x] < j
        BY <1>0, <3>1, <3>3 DEF Chain, Within, End, Apart, Block
      <3>4. CASE j < home[x]
        BY <1>0, <3>1, <3>4 DEF Chain, Within, End, Apart, Block
      <3>5. CASE home[x] = j
        BY <1>0, <3>1, <3>5 DEF Within, End, Apart, Block
      <3> QED BY <3>2, <3>3, <3>4, <3>5
    <2>4. ASSUME NEW x \in live
          PROVE  x.at >= 0 /\ x.at + x.size <= Capacity
      <3>1. home[x] \in DOMAIN blocks /\ Within(x, home[x])
        BY <2>1
      <3>2. End(home[x]) \in Nat /\ End(home[x]) <= ring_head
        BY <1>0, <3>1 DEF Chain, End, Block
      <3> QED BY <1>0, <3>1, <3>2 DEF Within, PoolTypeOK
    <2>5. Disjoint
      BY <2>2, <2>3, <2>4 DEF Disjoint
    <2> QED BY <1>1, <2>5 DEF BytesAreOwned
  <1>4. CASE ragged /\ reused
    BY <1>1, <1>4 DEF BytesAreOwned
  <1> QED BY <1>2, <1>3, <1>4 DEF PoolTypeOK
-----------------------------------------------------------------------------
LEMMA PoolInvInit == PoolInit => PoolInv
  <1> SUFFICES ASSUME PoolInit PROVE PoolInv
    OBVIOUS
  <1>1. PoolTypeOK
    <2>1. blocks \in Seq(Block)
      BY DEF PoolInit
    <2>2. ring_head \in Nat /\ ring_head <= Capacity
      BY MemoryPoolAssumption DEF PoolInit
    <2> QED BY <2>1, <2>2 DEF PoolInit, PoolTypeOK
  <1>2. align_up(0, MinAlignment) = 0
    <2>1. 0 \in Nat /\ MinAlignment \in Nat \ {0}
      BY MemoryPoolAssumption
    <2>2. \A a \in Nat \ {0} : ((0 + a - 1) \div a) * a = 0
      OBVIOUS
    <2> QED BY <2>1, <2>2 DEF align_up
  <1> QED BY <1>1, <1>2 DEF PoolInit, PoolInv, Chain, Housed, OnGrid, Bumped, Aligned, Multiple

(* A reused block: a holder that fits it, where the grid is kept. *)
LEMMA ReusedStep ==
  ASSUME PoolInv, NEW n \in Sizes, NEW a \in Alignments, AllocReused(n, a)
  PROVE  PoolInv'
  <1>0. /\ HeaderSize \in Nat /\ n \in Nat \ {0} /\ a \in Nat \ {0} /\ MinAlignment \in Nat \ {0}
        /\ Multiple(HeaderSize, MinAlignment)
    BY MemoryPoolAssumption
  <1>1. PoolTypeOK /\ Chain /\ Housed /\ OnGrid /\ Bumped
    BY DEF PoolInv
  <1>2. PICK i \in DOMAIN blocks :
          /\ ~ blocks[i].in_use /\ blocks[i].size >= n
          /\ blocks' = [blocks EXCEPT ![i].in_use = TRUE]
          /\ live' = live \union {[at |-> align_up(blocks[i].start + HeaderSize, a), size |-> n, alignment |-> a]}
    BY DEF AllocReused, Fits, Held
  <1>3. /\ type = "weights" /\ type' = type /\ ring_head' = ring_head /\ reused' = TRUE
        /\ ragged' = (ragged \/ a # MinAlignment \/ ~ Multiple(n, MinAlignment))
    BY DEF AllocReused, OffGrid
  <1> DEFINE at == align_up(blocks[i].start + HeaderSize, a)
             x == [at |-> at, size |-> n, alignment |-> a]
  <1>4. \A j \in DOMAIN blocks : blocks[j] \in Block /\ blocks[j].start \in Nat /\ blocks[j].size \in Nat
                                 /\ blocks[j].total_size \in Nat /\ j \in Nat
    <2>1. \A j \in DOMAIN blocks : blocks[j] \in Block /\ j \in Nat
      BY <1>1 DEF PoolTypeOK
    <2> QED BY <2>1 DEF Block
  <1>5. at \in Nat /\ at >= blocks[i].start + HeaderSize /\ Multiple(at, a)
    BY <1>0, <1>4, RoundUp
  <1>6. x \in Holder /\ live' = live \union {x}
    BY <1>0, <1>2, <1>5 DEF Holder
  <1>7. /\ DOMAIN blocks' = DOMAIN blocks
        /\ \A j \in DOMAIN blocks : /\ blocks'[j].start = blocks[j].start /\ blocks'[j].size = blocks[j].size
                                    /\ blocks'[j].total_size = blocks[j].total_size
                                    /\ blocks[j].in_use => blocks'[j].in_use
        /\ blocks'[i].in_use /\ blocks' \in Seq(Block)
    <2>1. blocks \in Seq(Block) /\ blocks[i] \in Block
      BY <1>1, <1>4 DEF PoolTypeOK
    <2>2. [blocks[i] EXCEPT !.in_use = TRUE] \in Block
      BY <2>1 DEF Block
    <2>3. blocks' \in Seq(Block) /\ DOMAIN blocks' = DOMAIN blocks
      BY <1>2, <2>1, <2>2
    <2>4. /\ blocks'[i] = [blocks[i] EXCEPT !.in_use = TRUE]
          /\ \A j \in DOMAIN blocks : j # i => blocks'[j] = blocks[j]
      BY <1>2, <2>1
    <2> QED BY <2>1, <2>2, <2>3, <2>4 DEF Block
  <1>8. \A y \in Holder, j \in DOMAIN blocks : Within(y, j)' <=> Within(y, j)
    BY <1>7 DEF Within, End
  <1> HIDE DEF at, x
  <1>9. PoolTypeOK'
    BY <1>1, <1>3, <1>6, <1>7 DEF PoolTypeOK
  <1>10. Chain'
    BY <1>1, <1>3, <1>7 DEF Chain, End
  <1>11. Bumped'
    BY <1>3 DEF Bumped
  <1>12. OnGrid'
    <2>1. Multiple(x.at, x.alignment)
      BY <1>5 DEF x
    <2>2. ASSUME ~ ragged' PROVE Aligned'
      BY <1>1, <1>3, <1>6, <2>1, <2>2 DEF OnGrid, Aligned, Multiple, align_up
    <2> QED BY <1>1, <1>3, <1>7, <2>2 DEF OnGrid
  <1>13. Housed'
    <2> SUFFICES ASSUME ~ ragged'
                 PROVE  /\ \A y \in live' : \E j \in DOMAIN blocks' : blocks'[j].in_use /\ Within(y, j)'
                        /\ \A y, z \in live', j \in DOMAIN blocks' : Within(y, j)' /\ Within(z, j)' => y = z
      BY <1>3 DEF Housed
    <2>1. /\ ~ ragged /\ a = MinAlignment /\ live \subseteq Holder
      BY <1>1, <1>3 DEF PoolTypeOK
    <2>2. /\ \A y \in live : \E j \in DOMAIN blocks : blocks[j].in_use /\ Within(y, j)
          /\ \A y, z \in live, j \in DOMAIN blocks : Within(y, j) /\ Within(z, j) => y = z
      BY <1>1, <1>3, <2>1 DEF Housed
    <2>3. at = blocks[i].start + HeaderSize
      <3>1. Multiple(blocks[i].start, MinAlignment)
        BY <1>1, <1>3, <2>1 DEF OnGrid
      <3> QED BY <1>0, <1>4, <2>1, <3>1, MultiplesAdd DEF Multiple, at
    <2>4. Within(x, i)
      BY <1>0, <1>1, <1>2, <1>4, <2>3 DEF Within, x, Chain, End
    <2>5. \A y \in live : ~ Within(y, i)
      <3> SUFFICES ASSUME NEW y \in live, Within(y, i) PROVE FALSE
        OBVIOUS
      <3>1. PICK j \in DOMAIN blocks : blocks[j].in_use /\ Within(y, j)
        BY <2>2
      <3>2. i = j
        BY <1>1, <2>1, <3>1, OneHouse
      <3> QED BY <1>2, <3>1, <3>2
    <2>6. \A j \in DOMAIN blocks : Within(x, j) => j = i
      BY <1>1, <1>6, <2>4, OneHouse
    <2>7. \A y \in live' : \E j \in DOMAIN blocks' : blocks'[j].in_use /\ Within(y, j)'
      BY <1>6, <1>7, <1>8, <2>1, <2>2, <2>4
    <2>8. \A y, z \in live', j \in DOMAIN blocks' : Within(y, j)' /\ Within(z, j)' => y = z
      BY <1>6, <1>7, <1>8, <2>1, <2>2, <2>5, <2>6
    <2> QED BY <2>7, <2>8
  <1> QED BY <1>9, <1>10, <1>11, <1>12, <1>13 DEF PoolInv

(* A new block begins at the head, behind every block and every holder. *)
LEMMA NewStep ==
  ASSUME PoolInv, NEW n \in Sizes, NEW a \in Alignments, AllocNew(n, a)
  PROVE  PoolInv'
  <1>0. /\ HeaderSize \in Nat \ {0} /\ n \in Nat \ {0} /\ a \in Nat \ {0} /\ MinAlignment \in Nat \ {0}
        /\ Multiple(HeaderSize, MinAlignment) /\ Capacity \in Nat
    BY MemoryPoolAssumption
  <1>1. PoolTypeOK /\ Chain /\ Housed /\ OnGrid /\ Bumped
    BY DEF PoolInv
  <1> DEFINE space == align_up(HeaderSize, a)
  <1>3. space \in Nat /\ space >= HeaderSize /\ ring_head \in Nat
    BY <1>0, <1>1, RoundUp DEF PoolTypeOK
  <1>b. PICK b \in Block :
          b = [start |-> ring_head, size |-> n, total_size |-> space + n, in_use |-> TRUE]
    <2>1. n \in Nat /\ space + n \in Nat
      BY <1>0, <1>3
    <2>2. [start |-> ring_head, size |-> n, total_size |-> space + n, in_use |-> TRUE] \in Block
      BY <1>3, <2>1 DEF Block
    <2> QED BY <2>2
  <1>x. PICK x \in Holder : x = [at |-> ring_head + space, size |-> n, alignment |-> a]
    <2>1. ring_head + space \in Nat
      BY <1>3
    <2>2. [at |-> ring_head + space, size |-> n, alignment |-> a] \in Holder
      BY <1>0, <2>1 DEF Holder
    <2> QED BY <2>2
  <1>5. blocks \in Seq(Block)
    BY <1>1 DEF PoolTypeOK
  <1>m. PICK m \in Nat : m = Len(blocks) + 1
    BY <1>5
  <1>2. /\ type = "weights" /\ type' = type /\ reused' = reused
        /\ ragged' = (ragged \/ a # MinAlignment \/ ~ Multiple(n, MinAlignment))
        /\ ring_head' = ring_head + space + n /\ ring_head' <= Capacity
        /\ blocks' = Append(blocks, b) /\ live' = live \union {x}
    BY <1>b, <1>x DEF AllocNew, OffGrid, Held
  <1> HIDE DEF space
  <1>6. /\ m \notin DOMAIN blocks
        /\ blocks' \in Seq(Block) /\ DOMAIN blocks' = DOMAIN blocks \union {m} /\ blocks'[m] = b
        /\ \A j \in DOMAIN blocks : blocks'[j] = blocks[j] /\ j \in Nat /\ j < m
    BY <1>2, <1>5, <1>m
  <1>7. /\ b.start = ring_head /\ b.size = n /\ b.total_size = space + n /\ b.in_use
        /\ x.at = ring_head + space /\ x.size = n /\ x.alignment = a
    BY <1>b, <1>x
  <1>8. \A j \in DOMAIN blocks : blocks[j].start \in Nat /\ blocks[j].size \in Nat /\ blocks[j].total_size \in Nat
    <2>1. \A j \in DOMAIN blocks : blocks[j] \in Block
      BY <1>5
    <2> QED BY <2>1 DEF Block
  <1>9. End(m)' = ring_head + space + n /\ \A j \in DOMAIN blocks : End(j)' = End(j) /\ End(j) \in Nat
    BY <1>0, <1>3, <1>6, <1>7, <1>8 DEF End
  <1>10. PoolTypeOK'
    <2>1. ring_head' \in Nat /\ ragged' \in BOOLEAN
      BY <1>0, <1>1, <1>2, <1>3 DEF PoolTypeOK
    <2> QED BY <1>1, <1>2, <1>6, <2>1 DEF PoolTypeOK
  <1>11. Chain'
    <2>1. \A j \in DOMAIN blocks : End(j) <= ring_head
      BY <1>1 DEF Chain
    <2>2. ASSUME NEW j \in DOMAIN blocks'
          PROVE  HeaderSize + blocks'[j].size <= blocks'[j].total_size /\ End(j)' <= ring_head'
      <3>1. CASE j = m
        BY <1>0, <1>2, <1>3, <1>6, <1>7, <1>9, <3>1
      <3>2. CASE j \in DOMAIN blocks
        BY <1>0, <1>1, <1>2, <1>3, <1>6, <1>9, <2>1, <3>2 DEF Chain
      <3> QED BY <1>6, <3>1, <3>2
    <2>3. ASSUME NEW i \in DOMAIN blocks', NEW j \in DOMAIN blocks', i < j
          PROVE  End(i)' <= blocks'[j].start
      <3>1. i \in DOMAIN blocks
        BY <1>6, <2>3
      <3>2. CASE j = m
        BY <1>6, <1>7, <1>9, <2>1, <3>1, <3>2
      <3>3. CASE j \in DOMAIN blocks
        BY <1>1, <1>6, <1>9, <2>3, <3>1, <3>3 DEF Chain
      <3> QED BY <1>6, <3>2, <3>3
    <2> QED BY <2>2, <2>3 DEF Chain
  <1>12. OnGrid'
    <2> SUFFICES ASSUME ~ ragged'
                 PROVE  /\ Multiple(ring_head, MinAlignment)' /\ Aligned'
                        /\ \A i \in DOMAIN blocks' : Multiple(blocks'[i].start, MinAlignment)
      BY DEF OnGrid, Multiple, align_up
    <2>1. /\ a = MinAlignment /\ Multiple(n, MinAlignment)
          /\ Multiple(ring_head, MinAlignment) /\ Aligned
          /\ \A i \in DOMAIN blocks : Multiple(blocks[i].start, MinAlignment)
      BY <1>1, <1>2 DEF OnGrid
    <2>2. space = HeaderSize
      BY <1>0, <2>1 DEF space, Multiple
    <2>3. Multiple(ring_head + HeaderSize, MinAlignment)
      BY <1>0, <1>3, <2>1, MultiplesAdd
    <2>4. Multiple(ring_head + HeaderSize + n, MinAlignment)
      BY <1>0, <1>3, <2>1, <2>3, MultiplesAdd
    <2>5. Multiple(ring_head, MinAlignment)'
      BY <1>2, <2>2, <2>4 DEF Multiple, align_up
    <2>6. Multiple(x.at, x.alignment)
      BY <1>7, <2>1, <2>2, <2>3
    <2>7. Aligned'
      BY <1>2, <2>1, <2>6 DEF Aligned, Multiple, align_up
    <2> QED BY <1>6, <1>7, <2>1, <2>5, <2>7
  <1>13. Housed'
    <2> SUFFICES ASSUME ~ (ragged' /\ reused')
                 PROVE  /\ \A y \in live' : \E j \in DOMAIN blocks' : blocks'[j].in_use /\ Within(y, j)'
                        /\ \A y, z \in live', j \in DOMAIN blocks' : Within(y, j)' /\ Within(z, j)' => y = z
      BY DEF Housed
    <2>1. /\ \A y \in live : \E j \in DOMAIN blocks : blocks[j].in_use /\ Within(y, j)
          /\ \A y, z \in live, j \in DOMAIN blocks : Within(y, j) /\ Within(z, j) => y = z
      BY <1>1, <1>2 DEF Housed
    <2>2. \A y \in Holder, j \in DOMAIN blocks : Within(y, j)' <=> Within(y, j)
      BY <1>6, <1>9 DEF Within
    <2>3. \A y \in live : y \in Holder /\ y.at \in Nat /\ y.size \in Nat \ {0}
      BY <1>1 DEF PoolTypeOK, Holder
    <2>4. \A y \in live : y.at + y.size <= ring_head
      <3> SUFFICES ASSUME NEW y \in live PROVE y.at + y.size <= ring_head
        OBVIOUS
      <3>1. PICK j \in DOMAIN blocks : Within(y, j)
        BY <2>1
      <3>2. y.at + y.size <= End(j) /\ End(j) <= ring_head /\ End(j) \in Nat
        BY <1>1, <1>9, <3>1 DEF Within, Chain
      <3> QED BY <1>3, <2>3, <3>2
    <2>5. \A y \in live : ~ Within(y, m)'
      BY <1>0, <1>3, <1>6, <1>7, <2>3, <2>4 DEF Within
    <2>6. Within(x, m)'
      BY <1>0, <1>3, <1>6, <1>7, <1>9 DEF Within
    <2>7. \A j \in DOMAIN blocks : ~ Within(x, j)'
      <3> SUFFICES ASSUME NEW j \in DOMAIN blocks PROVE ~ Within(x, j)'
        OBVIOUS
      <3>1. End(j)' <= ring_head /\ End(j)' \in Nat
        BY <1>1, <1>9 DEF Chain
      <3> QED BY <1>0, <1>3, <1>7, <3>1 DEF Within
    <2>8. \A y \in live' : \E j \in DOMAIN blocks' : blocks'[j].in_use /\ Within(y, j)'
      BY <1>2, <1>6, <1>7, <2>1, <2>2, <2>3, <2>6
    <2>9. \A y, z \in live', j \in DOMAIN blocks' : Within(y, j)' /\ Within(z, j)' => y = z
      BY <1>2, <1>6, <2>1, <2>2, <2>3, <2>5, <2>7
    <2> QED BY <2>8, <2>9
  <1>14. Bumped'
    BY <1>2 DEF Bumped
  <1> QED BY <1>10, <1>11, <1>12, <1>13, <1>14 DEF PoolInv

(* A bump pool rounds its head up and moves it over the new holder. *)
LEMMA BumpStep ==
  ASSUME PoolInv, NEW n \in Sizes, NEW a \in Alignments, AllocBump(n, a)
  PROVE  PoolInv'
  <1>0. n \in Nat \ {0} /\ a \in Nat \ {0} /\ Capacity \in Nat
    BY MemoryPoolAssumption
  <1>1. PoolTypeOK /\ Chain /\ Bumped
    BY DEF PoolInv
  <1> DEFINE at == align_up(ring_head, a)
  <1>2. at \in Nat /\ at >= ring_head /\ Multiple(at, a) /\ ring_head \in Nat
    BY <1>0, <1>1, RoundUp DEF PoolTypeOK
  <1>3. PICK x \in Holder : x = [at |-> at, size |-> n, alignment |-> a]
    <2>1. [at |-> at, size |-> n, alignment |-> a] \in Holder
      BY <1>0, <1>2 DEF Holder
    <2> QED BY <2>1
  <1>4. /\ type = "bump" /\ type' = type /\ blocks' = blocks /\ ragged' = ragged /\ reused' = reused
        /\ ring_head' = at + n /\ ring_head' <= Capacity /\ live' = live \union {x}
    BY <1>3 DEF AllocBump, Held
  <1>5. x.at = at /\ x.size = n /\ x.alignment = a
    BY <1>3
  <1> HIDE DEF at
  <1>6. PoolTypeOK'
    <2>1. ring_head' \in Nat
      BY <1>0, <1>2, <1>4
    <2> QED BY <1>1, <1>4, <2>1 DEF PoolTypeOK
  <1>7. /\ blocks = << >> /\ ~ ragged /\ ~ reused /\ Aligned
        /\ \A y \in live : y.at + y.size <= ring_head /\ y.at \in Nat /\ y.size \in Nat
        /\ \A y, z \in live : y = z \/ Apart(y.at, y.size, z.at, z.size)
    BY <1>1, <1>4 DEF Bumped, PoolTypeOK, Holder
  <1>8. Aligned'
    BY <1>2, <1>4, <1>5, <1>7 DEF Aligned, Multiple, align_up
  <1>9. \A y \in live : y.at + y.size <= x.at
    BY <1>2, <1>5, <1>7
  <1>10. \A y \in live' : y.at + y.size <= ring_head'
    BY <1>0, <1>2, <1>4, <1>5, <1>7
  <1>11. \A y, z \in live' : y = z \/ Apart(y.at, y.size, z.at, z.size)
    BY <1>4, <1>7, <1>9 DEF Apart
  <1>12. Bumped'
    BY <1>4, <1>7, <1>8, <1>10, <1>11 DEF Bumped
  <1>13. Chain' /\ Housed' /\ OnGrid'
    BY <1>4, <1>7 DEF Chain, Housed, OnGrid
  <1> QED BY <1>6, <1>12, <1>13 DEF PoolInv

(* A release frees the block its holder sits in, and no other. *)
LEMMA ReleaseStep ==
  ASSUME PoolInv, NEW x \in live, Release(x)
  PROVE  PoolInv'
  <1>0. HeaderSize \in Nat
    BY MemoryPoolAssumption
  <1>1. PoolTypeOK /\ Chain /\ Housed /\ OnGrid /\ Bumped
    BY DEF PoolInv
  <1>2. /\ type' = type /\ ring_head' = ring_head /\ ragged' = ragged /\ reused' = reused
        /\ live' = live \ {x}
    BY DEF Release
  <1>3. CASE blocks' = blocks
    <2>1. PoolTypeOK' /\ Chain'
      BY <1>1, <1>2, <1>3 DEF PoolTypeOK, Chain, End
    <2>2. Aligned => Aligned'
      BY <1>2 DEF Aligned, Multiple, align_up
    <2>3. Housed' /\ OnGrid' /\ Bumped'
      BY <1>1, <1>2, <1>3, <2>2 DEF Housed, OnGrid, Bumped, Within, End, Multiple, align_up
    <2> QED BY <2>1, <2>3 DEF PoolInv
  <1>4. CASE \E i \in DOMAIN blocks : Owns(i, x) /\ blocks' = [blocks EXCEPT ![i].in_use = FALSE]
    <2>1. PICK i \in DOMAIN blocks : Owns(i, x) /\ blocks' = [blocks EXCEPT ![i].in_use = FALSE]
      BY <1>4
    <2>2. blocks \in Seq(Block) /\ blocks[i] \in Block
      BY <1>1 DEF PoolTypeOK
    <2>3. [blocks[i] EXCEPT !.in_use = FALSE] \in Block
      BY <2>2 DEF Block
    <2>4. blocks' \in Seq(Block) /\ DOMAIN blocks' = DOMAIN blocks
      BY <2>1, <2>2, <2>3
    <2>5. /\ blocks'[i] = [blocks[i] EXCEPT !.in_use = FALSE]
          /\ \A j \in DOMAIN blocks : j # i => blocks'[j] = blocks[j]
      BY <2>1, <2>2
    <2>6. \A j \in DOMAIN blocks :
             /\ blocks'[j].start = blocks[j].start /\ blocks'[j].size = blocks[j].size
             /\ blocks'[j].total_size = blocks[j].total_size
             /\ j # i => blocks'[j].in_use = blocks[j].in_use
      BY <2>2, <2>5 DEF Block
    <2>7. PoolTypeOK'
      BY <1>1, <1>2, <2>4 DEF PoolTypeOK
    <2>8. Chain'
      BY <1>1, <1>2, <2>4, <2>6 DEF Chain, End
    <2>9. Aligned => Aligned'
      BY <1>2 DEF Aligned, Multiple, align_up
    <2>10. OnGrid'
      BY <1>1, <1>2, <2>4, <2>6, <2>9 DEF OnGrid, Multiple, align_up
    <2>11. Bumped'
      BY <1>1, <1>2, <2>1 DEF Bumped
    <2>12. Housed'
      <3> SUFFICES ASSUME type = "weights", ~ (ragged /\ reused)
                   PROVE  /\ \A y \in live' : \E j \in DOMAIN blocks' : blocks'[j].in_use /\ Within(y, j)'
                          /\ \A y, z \in live', j \in DOMAIN blocks' : Within(y, j)' /\ Within(z, j)' => y = z
        BY <1>2 DEF Housed
      <3>1. /\ \A y \in live : \E j \in DOMAIN blocks : blocks[j].in_use /\ Within(y, j)
            /\ \A y, z \in live, j \in DOMAIN blocks : Within(y, j) /\ Within(z, j) => y = z
        BY <1>1 DEF Housed
      <3>2. \A y \in Holder, j \in DOMAIN blocks : Within(y, j)' <=> Within(y, j)
        BY <2>6 DEF Within, End
      <3>3. \A y \in live : y \in Holder
        BY <1>1 DEF PoolTypeOK
      <3>4. Within(x, i)
        <4>1. PICK k \in DOMAIN blocks : Within(x, k)
          BY <3>1
        <4>2. /\ x.at \in Nat /\ x.size \in Nat \ {0}
              /\ i \in Nat /\ blocks[i].start \in Nat /\ blocks[i].total_size \in Nat
              /\ k \in Nat /\ blocks[k].start \in Nat /\ blocks[k].total_size \in Nat
          <5>1. blocks[k] \in Block /\ k \in Nat /\ i \in Nat
            BY <2>2
          <5> QED BY <2>2, <3>3, <5>1 DEF Holder, Block
        <4>3. blocks[i].start <= x.at /\ x.at < End(i)
          BY <2>1 DEF Owns, End
        <4>4. blocks[k].start <= x.at /\ x.at < End(k)
          BY <1>0, <4>1, <4>2 DEF Within, End
        <4>5. ~ (i < k) /\ ~ (k < i)
          BY <1>1, <4>2, <4>3, <4>4 DEF Chain, End
        <4> QED BY <4>1, <4>2, <4>5
      <3>5. \A y \in live' : ~ Within(y, i)
        BY <1>2, <3>1, <3>4
      <3>6. \A y \in live' : \E j \in DOMAIN blocks' : blocks'[j].in_use /\ Within(y, j)'
        BY <1>2, <2>4, <2>6, <3>1, <3>2, <3>3, <3>5
      <3>7. \A y, z \in live', j \in DOMAIN blocks' : Within(y, j)' /\ Within(z, j)' => y = z
        BY <1>2, <2>4, <3>1, <3>2, <3>3
      <3> QED BY <3>6, <3>7
    <2> QED BY <2>7, <2>8, <2>10, <2>11, <2>12 DEF PoolInv
  <1> QED BY <1>3, <1>4 DEF Release

LEMMA PoolInvStep == PoolInv /\ [PoolNext]_poolVars => PoolInv'
  <1> SUFFICES ASSUME PoolInv, [PoolNext]_poolVars PROVE PoolInv'
    OBVIOUS
  <1>1. CASE \E n \in Sizes, a \in Alignments : AllocReused(n, a) \/ AllocNew(n, a) \/ AllocBump(n, a)
    BY <1>1, ReusedStep, NewStep, BumpStep
  <1>2. CASE \E x \in live : Release(x)
    BY <1>2, ReleaseStep
  <1>3. CASE Reset
    <2>1. PoolTypeOK' /\ Chain' /\ Housed' /\ OnGrid'
      BY <1>3, MemoryPoolAssumption DEF Reset, PoolInv, PoolTypeOK, Chain, Housed, OnGrid, Bumped
    <2>2. Bumped'
      BY <1>3 DEF Reset, PoolInv, Bumped, Aligned
    <2> QED BY <2>1, <2>2 DEF PoolInv
  <1>4. CASE UNCHANGED poolVars
    BY <1>4 DEF poolVars, PoolInv, PoolTypeOK, Chain, Housed, OnGrid, Bumped, Aligned, Within, End,
                Multiple, align_up
  <1> QED BY <1>1, <1>2, <1>3, <1>4 DEF PoolNext

(* Whatever a pool is asked for, in whatever order it is released and reset: no *)
(* two holders share a byte, none reaches a header or the end of the arena, and *)
(* each is aligned, except where a weights pool was asked off the grid.         *)
THEOREM PoolBytesAreOwned == PoolSpec => []BytesAreOwned
  <1> QED BY PoolInvInit, PoolInvStep, PoolInvOwns, PTL DEF PoolSpec

-----------------------------------------------------------------------------
(* The cost rollup. *)

(* The sum of a sequence, and that of the four kinds of tokens, are such folds. *)
LEMMA SumSeqSums ==
  ASSUME NEW c \in Seq(Nat)
  PROVE  \E g : Sums(g, c, 1 .. Len(c)) /\ SumSeq(c) = g[1 .. Len(c)]
  <1> DEFINE v(s) == c[AnyOf(s)]
             add(g, s) == IF s = {} THEN 0 ELSE v(s) + g[s \ {AnyOf(s)}]
             is(g) == g = [s \in SUBSET DOMAIN c |-> add(g, s)]
  <1>1. SumSeq(c) = (CHOOSE g : is(g))[DOMAIN c]
    BY Zenon DEF SumSeq, FoldSeq, FoldFunction, FoldFunctionOnSet, MapThenFoldSet, AnyOf
  <1>2. c \in [1 .. Len(c) -> Int] /\ DOMAIN c = 1 .. Len(c) /\ IsFiniteSet(1 .. Len(c))
    BY FS_Interval
  <1>4. ASSUME NEW g PROVE is(g) <=> Sums(g, c, 1 .. Len(c))
    BY <1>2 DEF Sums, AddNext
  <1> HIDE DEF is
  <1>5. \E g : is(g)
    BY <1>2, <1>4, SumsExist
  <1>6. PICK g : g = CHOOSE h : is(h)
    OBVIOUS
  <1>7. is(g)
    BY <1>5, <1>6
  <1>8. Sums(g, c, 1 .. Len(c)) /\ SumSeq(c) = g[1 .. Len(c)]
    BY <1>1, <1>2, <1>4, <1>6, <1>7
  <1> QED BY <1>8

(* The tokens of a row of the summary. *)
Tokens(usage) == FoldSet(LAMBDA b, n : usage[b] + n, 0, Buckets)

LEMMA FourBuckets == IsFiniteSet(Buckets)
  <1>1. IsFiniteSet({}) /\ IsFiniteSet({"input"}) /\ IsFiniteSet({"input", "cache_creation"})
        /\ IsFiniteSet({"input", "cache_creation", "cache_read"})
    <2>1. IsFiniteSet({}) 
      BY FS_EmptySet
    <2>2. IsFiniteSet({} \cup {"input"})
      BY <2>1, FS_AddElement
    <2>3. IsFiniteSet({"input"} \cup {"cache_creation"})
      BY <2>2, FS_AddElement
    <2>4. IsFiniteSet({"input", "cache_creation"} \cup {"cache_read"})
      BY <2>3, FS_AddElement
    <2> QED BY <2>1, <2>2, <2>3, <2>4
  <1>2. IsFiniteSet({"input", "cache_creation", "cache_read"} \cup {"output"})
    BY <1>1, FS_AddElement
  <1>3. Buckets = {"input", "cache_creation", "cache_read"} \cup {"output"}
    BY DEF Buckets
  <1> QED BY <1>2, <1>3

LEMMA TokensSum ==
  ASSUME NEW u \in [Buckets -> Nat]
  PROVE  \E g : Sums(g, u, Buckets) /\ Tokens(u) = g[Buckets]
  <1> DEFINE v(s) == u[AnyOf(s)]
             add(g, s) == IF s = {} THEN 0 ELSE v(s) + g[s \ {AnyOf(s)}]
             is(g) == g = [s \in SUBSET Buckets |-> add(g, s)]
  <1>1. Tokens(u) = (CHOOSE g : is(g))[Buckets]
    BY Zenon DEF Tokens, FoldSet, MapThenFoldSet, AnyOf
  <1>2. u \in [Buckets -> Int] /\ IsFiniteSet(Buckets)
    BY FourBuckets
  <1>4. ASSUME NEW g PROVE is(g) <=> Sums(g, u, Buckets)
    BY <1>2 DEF Sums, AddNext
  <1> HIDE DEF is
  <1>5. \E g : is(g)
    BY <1>2, <1>4, SumsExist
  <1>6. PICK g : g = CHOOSE h : is(h)
    OBVIOUS
  <1>7. is(g)
    BY <1>5, <1>6
  <1>8. Sums(g, u, Buckets) /\ Tokens(u) = g[Buckets]
    BY <1>1, <1>2, <1>4, <1>6, <1>7
  <1> QED BY <1>8

LEMMA SeqIsFunction ==
  ASSUME NEW c \in Seq(Nat)
  PROVE  c \in [1 .. Len(c) -> Nat] /\ c \in [1 .. Len(c) -> Int] /\ Len(c) \in Nat /\ IsFiniteSet(1 .. Len(c))
  <1>1. IsFiniteSet(1 .. Len(c))
    BY FS_Interval
  <1> QED BY <1>1

LEMMA SumSeqGrows ==
  ASSUME NEW c \in Seq(Nat), NEW n \in Nat
  PROVE  SumSeq(c) <= SumSeq(Append(c, n))
  <1> PICK d : d = Append(c, n)
    OBVIOUS
  <1>1. d \in Seq(Nat) /\ Len(d) = Len(c) + 1 /\ Len(c) \in Nat
        /\ d[Len(d)] = n /\ \A i \in 1 .. Len(c) : d[i] = c[i]
    OBVIOUS
  <1>2. 1 .. Len(c) \subseteq 1 .. Len(d) /\ Len(d) \in 1 .. Len(d) /\ (1 .. Len(d)) \ {Len(d)} = 1 .. Len(c)
    BY <1>1
  <1>3. /\ c \in [1 .. Len(c) -> Int] /\ IsFiniteSet(1 .. Len(c))
        /\ d \in [1 .. Len(d) -> Int] /\ IsFiniteSet(1 .. Len(d))
    BY <1>1, SeqIsFunction
  <1>4. PICK g : Sums(g, c, 1 .. Len(c)) /\ SumSeq(c) = g[1 .. Len(c)]
    BY SumSeqSums
  <1>5. PICK h : Sums(h, d, 1 .. Len(d)) /\ SumSeq(d) = h[1 .. Len(d)]
    BY <1>1, SumSeqSums
  <1>6. \A i \in 1 .. Len(c) : c[i] \in Int /\ c[i] <= d[i]
    BY <1>1, <1>3
  <1>7. g[1 .. Len(c)] \in Int /\ h[1 .. Len(d)] \in Int /\ g[1 .. Len(c)] + d[Len(d)] <= h[1 .. Len(d)]
    BY <1>2, <1>3, <1>4, <1>5, <1>6, SumsGrowByOne
  <1> QED BY <1>1, <1>4, <1>5, <1>7

LEMMA SumSeqIsNat ==
  ASSUME NEW c \in Seq(Nat)
  PROVE  SumSeq(c) \in Nat
  <1> PICK I : I = 1 .. Len(c)
    OBVIOUS
  <1>1. IsFiniteSet(I)
    BY FS_Interval
  <1>2. c \in [I -> Nat] /\ c \in [I -> Int]
    OBVIOUS
  <1>3. PICK g : Sums(g, c, I) /\ SumSeq(c) = g[I]
    BY SumSeqSums
  <1> QED BY <1>1, <1>2, <1>3, SumsAreNat

(* What a session's log sums up to. *)
CostMessage == [at : Nat, model : {"haiku", "<synthetic>"}, usage : [Buckets -> Nat]]
InBucket(ms, b) == [i \in 1 .. Len(ms) |-> ms[i].usage[b]]
UsageOf(ms) == [b \in Buckets |-> SumSeq(InBucket(ms, b))]
Spent(ms) == Tokens(UsageOf(ms))

(* What a session has spent only grows as it goes on. *)
LEMMA TokensGrow ==
  ASSUME NEW u \in [Buckets -> Nat], NEW v \in [Buckets -> Nat], \A b \in Buckets : u[b] <= v[b]
  PROVE  Tokens(u) \in Nat /\ Tokens(v) \in Nat /\ Tokens(u) <= Tokens(v)
  <1>1. IsFiniteSet(Buckets) /\ u \in [Buckets -> Int] /\ v \in [Buckets -> Int] /\ Buckets \in SUBSET Buckets
    BY FourBuckets
  <1>2. PICK g : Sums(g, u, Buckets) /\ Tokens(u) = g[Buckets]
    BY TokensSum
  <1>3. PICK h : Sums(h, v, Buckets) /\ Tokens(v) = h[Buckets]
    BY TokensSum
  <1>4. g[Buckets] <= h[Buckets]
    BY <1>1, <1>2, <1>3, SumsGrow
  <1>5. g[Buckets] \in Nat /\ h[Buckets] \in Nat
    BY <1>1, <1>2, <1>3, SumsAreNat
  <1> QED BY <1>2, <1>3, <1>4, <1>5

LEMMA MessageUses ==
  ASSUME NEW ms \in Seq(CostMessage), NEW i \in 1 .. Len(ms), NEW b \in Buckets
  PROVE  ms[i].usage[b] \in Nat
  <1>1. ms[i] \in CostMessage
    OBVIOUS
  <1>2. ms[i].usage \in [Buckets -> Nat]
    BY <1>1 DEF CostMessage
  <1> QED BY <1>2

LEMMA UsageIsNat ==
  ASSUME NEW ms \in Seq(CostMessage)
  PROVE  UsageOf(ms) \in [Buckets -> Nat] /\ Spent(ms) \in Nat
  <1>1. ASSUME NEW b \in Buckets PROVE InBucket(ms, b) \in Seq(Nat) /\ SumSeq(InBucket(ms, b)) \in Nat
    <2>1. \A i \in 1 .. Len(ms) : ms[i].usage[b] \in Nat
      BY MessageUses
    <2>2. InBucket(ms, b) \in Seq(Nat)
      BY <2>1 DEF InBucket
    <2> QED BY <2>2, SumSeqIsNat
  <1>2. UsageOf(ms) \in [Buckets -> Nat]
    BY <1>1 DEF UsageOf
  <1> QED BY <1>2, TokensGrow DEF Spent

LEMMA LogGrows ==
  ASSUME NEW ms \in Seq(CostMessage), NEW m \in CostMessage
  PROVE  /\ Append(ms, m) \in Seq(CostMessage) /\ Append(ms, m) # << >>
         /\ ms # << >> => Head(Append(ms, m)) = Head(ms)
         /\ Spent(ms) <= Spent(Append(ms, m))
  <1> PICK more : more = Append(ms, m)
    OBVIOUS
  <1>1. more \in Seq(CostMessage) /\ more # << >> /\ (ms # << >> => Head(more) = Head(ms))
        /\ Len(more) = Len(ms) + 1 /\ Len(ms) \in Nat
        /\ more[Len(ms) + 1] = m /\ \A i \in 1 .. Len(ms) : more[i] = ms[i]
    OBVIOUS
  <1>2. ASSUME NEW b \in Buckets PROVE UsageOf(ms)[b] <= UsageOf(more)[b]
    <2>1. \A i \in 1 .. Len(ms) : ms[i].usage[b] \in Nat
      BY MessageUses
    <2>2. InBucket(ms, b) \in Seq(Nat) /\ m.usage[b] \in Nat
      BY <2>1 DEF InBucket, CostMessage
    <2>3. InBucket(more, b) = Append(InBucket(ms, b), m.usage[b])
      BY <1>1, <2>1, <2>2 DEF InBucket
    <2>4. SumSeq(InBucket(ms, b)) <= SumSeq(InBucket(more, b))
      BY <2>2, <2>3, SumSeqGrows
    <2> QED BY <2>4 DEF UsageOf
  <1>3. Spent(ms) <= Spent(more)
    BY <1>1, <1>2, UsageIsNat, TokensGrow DEF Spent
  <1> QED BY <1>1, <1>3

-----------------------------------------------------------------------------
(* A session that began in these days, told from its log. *)
BeganIn(ms, since, until) == ms # << >> /\ _ts_in_range(Head(ms).at, since, until)

Shape == [at : {"off", "sessions", "md", "json"}, since : Int, until : Int, todo : Seq(Range(Files)),
          sessions : {collector.sessions}, summary : {collector.summary}]
CostTyped ==
    /\ tick \in Nat /\ messages \in [Range(Files) -> Seq(CostMessage)]
    /\ collector \in Shape

(* What was billed is of a session of those days, and not more than it has spent. *)
BillsSound ==
    \A r \in DOMAIN billed :
        /\ r[1] \in Int /\ r[2] \in Int
        /\ \A x \in billed[r] :
             /\ x[1] \in Range(Files) /\ BeganIn(messages[x[1]], r[1], r[2])
             /\ x[2] \in Nat /\ x[2] <= Spent(messages[x[1]])
(* So are the rows of a summary, and it has a row for whatever was billed for its days. *)
RowsSound(rows, since, until) ==
    /\ since \in Int /\ until \in Int /\ \E S : rows \in Seq(S)
    /\ \A k \in 1 .. Len(rows) :
         /\ rows[k].file \in Range(Files) /\ BeganIn(messages[rows[k].file], since, until)
         /\ rows[k].tokens \in Nat /\ rows[k].tokens <= Spent(messages[rows[k].file])
RowsTell(rows, r) ==
    r \in DOMAIN billed =>
        \A x \in billed[r] : \E k \in 1 .. Len(rows) : rows[k].file = x[1] /\ rows[k].tokens >= x[2]
SummarySound(s) == RowsSound(s.sessions, s.since, s.until) /\ RowsTell(s.sessions, <<s.since, s.until>>)
(* The sessions that were read, with the files still to be read. *)
ReadSound(c) ==
    /\ \E S : c.sessions \in Seq(S)
    /\ \A k \in 1 .. Len(c.sessions) :
         /\ c.sessions[k].file \in Range(Files) /\ BeganIn(messages[c.sessions[k].file], c.since, c.until)
         /\ c.sessions[k].usage \in [Buckets -> Nat]
         /\ Tokens(c.sessions[k].usage) <= Spent(messages[c.sessions[k].file])
    /\ <<c.since, c.until>> \in DOMAIN billed =>
         \A x \in billed[<<c.since, c.until>>] :
            \/ \E k \in 1 .. Len(c.todo) : c.todo[k] = x[1]
            \/ \E k \in 1 .. Len(c.sessions) :
                 c.sessions[k].file = x[1] /\ Tokens(c.sessions[k].usage) >= x[2]
Collected(c) ==
    /\ c.at = "sessions" => ReadSound(c)
    /\ c.at \in {"md", "json"} =>
         SummarySound(c.summary) /\ c.summary.since = c.since /\ c.summary.until = c.until

CostInv ==
    /\ CostTyped /\ BillsSound
    /\ \A c : c = collector => Collected(c)
    /\ \A s : s = cost_json => SummarySound(s)

(* Days are compared as multiples of their ticks. *)
LEMMA MultiplesOrder ==
  ASSUME NEW a \in Int, NEW b \in Int, a <= b, NEW n \in Nat
  PROVE  a * n <= b * n
  OBVIOUS

LEMMA DayOf ==
  ASSUME NEW at \in Nat, NEW since \in Int, NEW until \in Int, _ts_in_range(at, since, until)
  PROVE  at \div DayTicks \in since .. until
  <1> PICK n : n = DayTicks
    OBVIOUS
  <1> PICK q : q = at \div n
    OBVIOUS
  <1>1. n \in Nat /\ n > 0
    BY CostRollupAssumption
  <1>2. q \in Int /\ q * n <= at /\ at < (q + 1) * n
    BY <1>1
  <1>3. since * n <= at /\ at < (until + 1) * n
    BY <1>1 DEF _ts_in_range
  <1>4. since <= q
    <2>1. SUFFICES ASSUME q + 1 <= since PROVE FALSE
      BY <1>2
    <2>2. (q + 1) * n <= since * n
      BY <1>1, <1>2, <2>1, MultiplesOrder
    <2> QED BY <1>1, <1>2, <1>3, <2>2
  <1>5. q <= until
    <2>1. SUFFICES ASSUME until + 1 <= q PROVE FALSE
      BY <1>2
    <2>2. (until + 1) * n <= q * n
      BY <1>1, <1>2, <2>1, MultiplesOrder
    <2> QED BY <1>1, <1>2, <1>3, <2>2
  <1> QED BY <1>2, <1>4, <1>5

LEMMA DaysApart ==
  ASSUME NEW ms \in Seq(CostMessage), NEW a \in Int, NEW b \in Int, NEW c \in Int, NEW d \in Int,
         b < c, BeganIn(ms, a, b), BeganIn(ms, c, d)
  PROVE  FALSE
  <1>1. Head(ms) \in CostMessage
    BY DEF BeganIn
  <1>2. Head(ms).at \in Nat /\ DayTicks \in Nat
    BY <1>1, CostRollupAssumption DEF CostMessage
  <1>3. (b + 1) * DayTicks <= c * DayTicks
    BY <1>2, MultiplesOrder
  <1>4. c * DayTicks <= Head(ms).at /\ Head(ms).at <= (b + 1) * DayTicks - 2
    BY DEF BeganIn, _ts_in_range
  <1>5. (b + 1) * DayTicks \in Int /\ c * DayTicks \in Int
    BY <1>2
  <1> QED BY <1>2, <1>3, <1>4, <1>5

(* Days that do not overlap share no session, for each began in one day. *)
LEMMA InvIsBilledOnce == CostInv => BilledOnce
  <1> SUFFICES ASSUME CostInv PROVE BilledOnce
    OBVIOUS
  <1>1. ASSUME NEW r1 \in DOMAIN billed, NEW r2 \in DOMAIN billed, r1[2] < r2[1],
               NEW x \in billed[r1], NEW y \in billed[r2], x[1] = y[1]
        PROVE  FALSE
    <2>1. /\ r1[1] \in Int /\ r1[2] \in Int /\ r2[1] \in Int /\ r2[2] \in Int
          /\ BeganIn(messages[x[1]], r1[1], r1[2]) /\ BeganIn(messages[x[1]], r2[1], r2[2])
          /\ x[1] \in Range(Files)
      BY <1>1 DEF CostInv, BillsSound
    <2>2. messages[x[1]] \in Seq(CostMessage)
      BY <2>1 DEF CostInv, CostTyped
    <2> QED BY <1>1, <2>1, <2>2, DaysApart
  <1> PICK j : j = cost_json
    OBVIOUS
  <1>2. SummarySound(j)
    BY DEF CostInv
  <1>3. Range(j.sessions) = {j.sessions[k] : k \in 1 .. Len(j.sessions)}
    <2>1. PICK S : j.sessions \in Seq(S)
      BY <1>2 DEF SummarySound, RowsSound
    <2>2. DOMAIN j.sessions = 1 .. Len(j.sessions)
      BY <2>1
    <2> QED BY <2>2 DEF Range
  <1>d. j.since \in Int /\ j.until \in Int
    BY <1>2 DEF SummarySound, RowsSound
  <1>4. ASSUME NEW r \in DOMAIN billed, r = <<j.since, j.until>>, NEW x \in billed[r]
        PROVE  \E s \in Range(j.sessions) : s.file = x[1] /\ s.tokens >= x[2]
    BY <1>2, <1>3, <1>4 DEF SummarySound, RowsTell
  <1>5. ASSUME NEW s \in Range(j.sessions)
        PROVE  Head(messages[s.file]).at \div DayTicks \in j.since .. j.until
    <2>1. PICK k \in 1 .. Len(j.sessions) : s = j.sessions[k]
      BY <1>3
    <2>2. s.file \in Range(Files) /\ BeganIn(messages[s.file], j.since, j.until)
      BY <1>2, <2>1 DEF SummarySound, RowsSound
    <2>3. messages[s.file] \in Seq(CostMessage) /\ messages[s.file] # << >>
      BY <2>2 DEF CostInv, CostTyped, BeganIn
    <2>4. Head(messages[s.file]) \in CostMessage
      BY <2>3
    <2>5. Head(messages[s.file]).at \in Nat
      BY <2>4 DEF CostMessage
    <2> QED BY <1>d, <2>2, <2>5, DayOf DEF BeganIn
  <1> QED BY <1>1, <1>4, <1>5 DEF BilledOnce

LEMMA EmptyRows == << >> \in Seq({}) /\ Len(<< >>) = 0
  OBVIOUS

LEMMA CostStarts == CostInit => CostInv
  <1> SUFFICES ASSUME CostInit PROVE CostInv
    OBVIOUS
  <1>1. Files \in Seq(Range(Files)) /\ << >> \in Seq(Range(Files)) /\ << >> \in Seq(CostMessage)
    BY CostRollupAssumption
  <1>2. CostTyped
    BY <1>1 DEF CostInit, CostTyped, Shape, Off
  <1>3. BillsSound /\ DOMAIN billed = {}
    BY DEF CostInit, BillsSound
  <1>4. ASSUME NEW s, s = NoSummary PROVE SummarySound(s)
    <2>1. s.sessions = << >> /\ s.since = 0 /\ s.until = -1
      BY <1>4 DEF NoSummary
    <2> QED BY <1>3, <2>1, EmptyRows DEF SummarySound, RowsSound, RowsTell
  <1> QED BY <1>2, <1>3, <1>4 DEF CostInit, CostInv, Collected, Off

(* As long as messages only grow and the bills stay, so does everything said of a summary or a reading. *)
Grown ==
    /\ messages' \in [Range(Files) -> Seq(CostMessage)]
    /\ \A f \in Range(Files) :
         /\ messages[f] # << >> => messages'[f] # << >> /\ Head(messages'[f]) = Head(messages[f])
         /\ Spent(messages[f]) \in Nat /\ Spent(messages'[f]) \in Nat /\ Spent(messages[f]) <= Spent(messages'[f])

LEMMA SameIsGrown == CostTyped /\ UNCHANGED messages => Grown
  <1> SUFFICES ASSUME CostTyped, UNCHANGED messages PROVE Grown
    OBVIOUS
  <1>1. messages \in [Range(Files) -> Seq(CostMessage)]
    BY DEF CostTyped
  <1>2. \A f \in Range(Files) : Spent(messages[f]) \in Nat
    BY <1>1, UsageIsNat
  <1> QED BY <1>1, <1>2 DEF Grown

LEMMA RowsStay ==
  ASSUME Grown, NEW s, SummarySound(s), UNCHANGED billed
  PROVE  SummarySound(s)'
  <1>1. ASSUME NEW f \in Range(Files), NEW n \in Nat, NEW a, NEW b, BeganIn(messages[f], a, b), n <= Spent(messages[f])
        PROVE  BeganIn(messages'[f], a, b) /\ n <= Spent(messages'[f])
    <2>1. BeganIn(messages'[f], a, b)
      BY <1>1 DEF Grown, BeganIn
    <2>2. n <= Spent(messages'[f])
      BY <1>1 DEF Grown
    <2> QED BY <2>1, <2>2
  <1>2. RowsTell(s.sessions, <<s.since, s.until>>)'
    BY DEF SummarySound, RowsTell
  <1>3. RowsSound(s.sessions, s.since, s.until)'
    BY <1>1 DEF SummarySound, RowsSound
  <1> QED BY <1>2, <1>3 DEF SummarySound

LEMMA ReadStays ==
  ASSUME Grown, NEW c, ReadSound(c), UNCHANGED billed
  PROVE  ReadSound(c)'
  <1>1. ASSUME NEW f \in Range(Files), NEW n \in Nat, NEW a, NEW b, BeganIn(messages[f], a, b), n <= Spent(messages[f])
        PROVE  BeganIn(messages'[f], a, b) /\ n <= Spent(messages'[f])
    <2>1. BeganIn(messages'[f], a, b)
      BY <1>1 DEF Grown, BeganIn
    <2>2. n <= Spent(messages'[f])
      BY <1>1 DEF Grown
    <2> QED BY <2>1, <2>2
  <1>2. \A u \in [Buckets -> Nat] : Tokens(u) \in Nat
    <2> TAKE u \in [Buckets -> Nat]
    <2>1. \A b \in Buckets : u[b] <= u[b]
      OBVIOUS
    <2> QED BY <2>1, TokensGrow
  <1> QED BY <1>1, <1>2 DEF ReadSound

LEMMA BillsStay ==
  ASSUME Grown, BillsSound, UNCHANGED billed
  PROVE  BillsSound'
  <1>1. ASSUME NEW f \in Range(Files), NEW n \in Nat, NEW a, NEW b, BeganIn(messages[f], a, b), n <= Spent(messages[f])
        PROVE  BeganIn(messages'[f], a, b) /\ n <= Spent(messages'[f])
    <2>1. BeganIn(messages'[f], a, b)
      BY <1>1 DEF Grown, BeganIn
    <2>2. n <= Spent(messages'[f])
      BY <1>1 DEF Grown
    <2> QED BY <2>1, <2>2
  <1> QED BY <1>1 DEF BillsSound

(* A step of the sessions, the telemetry or the clock. *)
LEMMA EnvironmentMoves ==
  ASSUME CostInv, Grown, tick' \in Nat, UNCHANGED <<collector, cost_json, billed>>
  PROVE  CostInv'
  <1>1. CostTyped'
    BY DEF CostInv, CostTyped, Grown, Shape
  <1>2. BillsSound'
    BY BillsStay DEF CostInv
  <1>3. ASSUME NEW c, c = collector PROVE Collected(c)'
    <2>1. Collected(c)
      BY <1>3 DEF CostInv
    <2>2. c.at = "sessions" => ReadSound(c)'
      BY <2>1, ReadStays DEF Collected
    <2>3. c.at \in {"md", "json"} => SummarySound(c.summary)' /\ c.summary.since = c.since /\ c.summary.until = c.until
      BY <2>1, RowsStay DEF Collected
    <2> QED BY <2>2, <2>3 DEF Collected
  <1>4. ASSUME NEW s, s = cost_json PROVE SummarySound(s)'
    BY <1>4, RowsStay DEF CostInv
  <1> QED BY <1>1, <1>2, <1>3, <1>4 DEF CostInv

LEMMA MessageIsGrown ==
  ASSUME CostInv, NEW f \in Range(Files), NEW model \in {"haiku", "<synthetic>"}, NEW usage \in Usages,
         Message(f, model, usage)
  PROVE  Grown
  <1> PICK m : m = [at |-> tick, model |-> model, usage |-> usage]
    OBVIOUS
  <1>1. usage \in [Buckets -> Nat]
    BY CostRollupAssumption
  <1>2. m \in CostMessage
    BY <1>1 DEF CostInv, CostTyped, CostMessage
  <1>3. messages \in [Range(Files) -> Seq(CostMessage)] /\ messages' = [messages EXCEPT ![f] = Append(@, m)]
    BY DEF CostInv, CostTyped, Message
  <1>4. \A g \in Range(Files) : messages[g] \in Seq(CostMessage) /\ Spent(messages[g]) \in Nat
    BY <1>3, UsageIsNat
  <1>5. Append(messages[f], m) \in Seq(CostMessage) /\ Spent(Append(messages[f], m)) \in Nat
    BY <1>2, <1>4, LogGrows, UsageIsNat
  <1>6. /\ messages[f] # << >> => Head(Append(messages[f], m)) = Head(messages[f])
        /\ Append(messages[f], m) # << >>
        /\ Spent(messages[f]) <= Spent(Append(messages[f], m))
    BY <1>2, <1>4, LogGrows
  <1>7. messages'[f] = Append(messages[f], m) /\ \A g \in Range(Files) \ {f} : messages'[g] = messages[g]
    BY <1>3
  <1>8. messages' \in [Range(Files) -> Seq(CostMessage)]
    BY <1>3, <1>4, <1>5
  <1>9. ASSUME NEW g \in Range(Files)
        PROVE  /\ messages[g] # << >> => messages'[g] # << >> /\ Head(messages'[g]) = Head(messages[g])
               /\ Spent(messages[g]) \in Nat /\ Spent(messages'[g]) \in Nat /\ Spent(messages[g]) <= Spent(messages'[g])
    <2>1. CASE g = f
      BY <1>4, <1>5, <1>6, <1>7, <2>1
    <2>2. CASE g # f
      BY <1>4, <1>7, <2>2
    <2> QED BY <2>1, <2>2
  <1> QED BY <1>8, <1>9 DEF Grown

(* What the tool's steps do to its own state. *)
CollectorMoves ==
    /\ collector' \in [at : {"off", "sessions", "md", "json"}, since : Int, until : Int, todo : Seq(Range(Files)),
                       sessions : {collector'.sessions}, summary : {collector'.summary}]
    /\ UNCHANGED <<tick, messages>>

(* A step of the tool that writes no summary. *)
LEMMA ToolMoves ==
  ASSUME CostInv, CollectorMoves, UNCHANGED <<cost_json, billed>>, \A c : c = collector' => Collected(c)
  PROVE  CostInv'
  <1>1. CostTyped'
    BY DEF CostInv, CostTyped, Shape, CollectorMoves
  <1>2. UNCHANGED messages
    BY DEF CollectorMoves
  <1>3. BillsSound'
    BY <1>2 DEF CostInv, BillsSound
  <1>4. ASSUME NEW c, c = collector' PROVE Collected(c)'
    <2>1. Collected(c)
      BY <1>4
    <2> QED BY <1>2, <2>1 DEF Collected, SummarySound, RowsSound, RowsTell, ReadSound
  <1>5. ASSUME NEW s, s = cost_json' PROVE SummarySound(s)'
    <2>1. SummarySound(s)
      BY <1>5 DEF CostInv
    <2> QED BY <1>2, <2>1 DEF SummarySound, RowsSound, RowsTell
  <1> QED BY <1>1, <1>3, <1>4, <1>5 DEF CostInv

LEMMA CallKeepsBills ==
  ASSUME CostInv, NEW since \in Int, NEW until \in Int, RollupCall(since, until)
  PROVE  CostInv'
  <1>1. Files \in Seq(Range(Files)) /\ Range(Files) = {Files[k] : k \in 1 .. Len(Files)}
    <2>1. Files \in Seq(Range(Files))
      BY CostRollupAssumption
    <2>2. DOMAIN Files = 1 .. Len(Files)
      BY <2>1
    <2> QED BY <2>1, <2>2 DEF Range
  <1> PICK c : c = collector'
    OBVIOUS
  <1>2. /\ c.at = "sessions" /\ c.since = since /\ c.until = until /\ c.todo = Files /\ c.sessions = << >>
        /\ c.summary = NoSummary
        /\ c \in [at : {"off", "sessions", "md", "json"}, since : Int, until : Int, todo : Seq(Range(Files)),
                       sessions : {c.sessions}, summary : {c.summary}]
    BY <1>1 DEF RollupCall, Off
  <1>3. ASSUME <<since, until>> \in DOMAIN billed, NEW x \in billed[<<since, until>>]
        PROVE  \E k \in 1 .. Len(Files) : Files[k] = x[1]
    <2>1. x[1] \in Range(Files)
      BY <1>3 DEF CostInv, BillsSound
    <2> QED BY <1>1, <2>1
  <1>4. ReadSound(c)
    BY <1>2, <1>3, EmptyRows DEF ReadSound
  <1>5. Collected(c)
    BY <1>2, <1>4 DEF Collected
  <1>6. CollectorMoves /\ UNCHANGED <<cost_json, billed>>
    BY <1>2 DEF CollectorMoves, RollupCall
  <1> QED BY <1>5, <1>6, ToolMoves

LEMMA ParseDoes ==
  ASSUME NEW f
  PROVE  /\ parse_session_jsonl(f).file = f /\ parse_session_jsonl(f).start = Head(messages[f]).at
         /\ parse_session_jsonl(f).usage = UsageOf(messages[f])
  <1>1. \A b \in Buckets : Column(messages[f], LAMBDA x : x.usage[b]) = InBucket(messages[f], b)
    BY DEF Column, InBucket
  <1> QED BY <1>1 DEF parse_session_jsonl, StartTs, UsageOf

LEMMA ReadKeepsBills ==
  ASSUME CostInv, ReadSession
  PROVE  CostInv'
  <1> PICK c : c = collector
    OBVIOUS
  <1> PICK d : d = collector'
    OBVIOUS
  <1> PICK f : f = Head(c.todo)
    OBVIOUS
  <1> PICK s : s = parse_session_jsonl(f)
    OBVIOUS
  <1>1. c.at = "sessions" /\ c \in Shape /\ ReadSound(c)
    BY DEF CostInv, CostTyped, Collected, ReadSession
  <1>2. c.todo \in Seq(Range(Files)) /\ c.todo # << >> /\ c.since \in Int /\ c.until \in Int
    BY <1>1 DEF Shape, ReadSession
  <1>3. /\ f \in Range(Files) /\ Tail(c.todo) \in Seq(Range(Files)) /\ Len(c.todo) \in Nat /\ Len(c.todo) >= 1
        /\ Len(Tail(c.todo)) = Len(c.todo) - 1 /\ c.todo[1] = f
        /\ \A k \in 1 .. Len(c.todo) : k = 1 \/ c.todo[k] = Tail(c.todo)[k - 1]
    BY <1>2
  <1>4. s.file = f /\ s.start = Head(messages[f]).at /\ s.usage = UsageOf(messages[f])
    BY ParseDoes
  <1>5. messages[f] \in Seq(CostMessage)
    BY <1>3 DEF CostInv, CostTyped
  <1>6. s.usage \in [Buckets -> Nat] /\ Tokens(s.usage) = Spent(messages[f]) /\ Spent(messages[f]) \in Nat
    BY <1>4, <1>5, UsageIsNat DEF Spent
  <1>7. d = [c EXCEPT !.todo = Tail(c.todo),
                      !.sessions = IF BeganIn(messages[f], c.since, c.until) THEN Append(c.sessions, s) ELSE c.sessions]
    BY <1>4 DEF ReadSession, BeganIn
  <1>8. /\ d.at = "sessions" /\ d.since = c.since /\ d.until = c.until /\ d.todo = Tail(c.todo)
        /\ d.sessions = IF BeganIn(messages[f], c.since, c.until) THEN Append(c.sessions, s) ELSE c.sessions
        /\ d \in [at : {"off", "sessions", "md", "json"}, since : Int, until : Int, todo : Seq(Range(Files)),
                       sessions : {d.sessions}, summary : {d.summary}]
    BY <1>1, <1>2, <1>3, <1>7 DEF Shape
  <1>9. PICK S : c.sessions \in Seq(S)
    BY <1>1 DEF ReadSound
  <1>t. ASSUME NEW x, x # f, NEW k \in 1 .. Len(c.todo), c.todo[k] = x
        PROVE  \E i \in 1 .. Len(d.todo) : d.todo[i] = x
    <2> PICK rest : rest = Tail(c.todo)
      OBVIOUS
    <2>1. k # 1
      BY <1>3, <1>t
    <2>2. k - 1 \in 1 .. Len(rest) /\ rest[k - 1] = x
      BY <1>3, <1>t, <2>1
    <2> QED BY <1>8, <2>2
  <1>10. ReadSound(d)
    <2>1. CASE ~ BeganIn(messages[f], c.since, c.until)
      <3>1. d.sessions = c.sessions
        BY <1>8, <2>1
      <3>2. ASSUME <<c.since, c.until>> \in DOMAIN billed, NEW x \in billed[<<c.since, c.until>>]
            PROVE  x[1] # f
        BY <2>1, <3>2 DEF CostInv, BillsSound
      <3>3. ASSUME <<c.since, c.until>> \in DOMAIN billed, NEW x \in billed[<<c.since, c.until>>]
            PROVE  \/ \E k \in 1 .. Len(d.todo) : d.todo[k] = x[1]
                   \/ \E k \in 1 .. Len(c.sessions) :
                        c.sessions[k].file = x[1] /\ Tokens(c.sessions[k].usage) >= x[2]
        <4>1. \/ \E k \in 1 .. Len(c.todo) : c.todo[k] = x[1]
              \/ \E k \in 1 .. Len(c.sessions) :
                   c.sessions[k].file = x[1] /\ Tokens(c.sessions[k].usage) >= x[2]
          BY <1>1, <3>3 DEF ReadSound
        <4> QED BY <1>t, <3>2, <3>3, <4>1
      <3>4. /\ \E T : c.sessions \in Seq(T)
            /\ \A k \in 1 .. Len(c.sessions) :
                 /\ c.sessions[k].file \in Range(Files) /\ BeganIn(messages[c.sessions[k].file], c.since, c.until)
                 /\ c.sessions[k].usage \in [Buckets -> Nat]
                 /\ Tokens(c.sessions[k].usage) <= Spent(messages[c.sessions[k].file])
        BY <1>1 DEF ReadSound
      <3> QED BY <1>8, <3>1, <3>3, <3>4 DEF ReadSound
    <2>2. CASE BeganIn(messages[f], c.since, c.until)
      <3> PICK q : q = c.sessions
        OBVIOUS
      <3>1. d.sessions = Append(q, s) /\ q \in Seq(S)
        BY <1>8, <1>9, <2>2
      <3>2. /\ Append(q, s) \in Seq(S \cup {s}) /\ Len(Append(q, s)) = Len(q) + 1 /\ Len(q) \in Nat
            /\ Append(q, s)[Len(q) + 1] = s /\ \A k \in 1 .. Len(q) : Append(q, s)[k] = q[k]
        <4>1. q \in Seq(S \cup {s})
          BY <3>1
        <4> QED BY <4>1
      <3>3. ASSUME NEW k \in 1 .. Len(d.sessions)
            PROVE  /\ d.sessions[k].file \in Range(Files) /\ BeganIn(messages[d.sessions[k].file], c.since, c.until)
                   /\ d.sessions[k].usage \in [Buckets -> Nat]
                   /\ Tokens(d.sessions[k].usage) <= Spent(messages[d.sessions[k].file])
        <4>1. CASE k = Len(q) + 1
          <5>1. d.sessions[k] = s
            BY <3>1, <3>2, <4>1
          <5> QED BY <1>3, <1>4, <1>6, <2>2, <5>1
        <4>2. CASE k # Len(q) + 1
          <5>1. k \in 1 .. Len(c.sessions) /\ d.sessions[k] = c.sessions[k]
            BY <3>1, <3>2, <4>2
          <5> QED BY <1>1, <5>1 DEF ReadSound
        <4> QED BY <4>1, <4>2
      <3>4. ASSUME <<c.since, c.until>> \in DOMAIN billed, NEW x \in billed[<<c.since, c.until>>]
            PROVE  \/ \E k \in 1 .. Len(d.todo) : d.todo[k] = x[1]
                   \/ \E k \in 1 .. Len(d.sessions) :
                        d.sessions[k].file = x[1] /\ Tokens(d.sessions[k].usage) >= x[2]
        <4>1. x[2] \in Nat /\ x[2] <= Spent(messages[x[1]])
          BY <3>4 DEF CostInv, BillsSound
        <4>2. CASE x[1] = f
          <5>1. Len(q) + 1 \in 1 .. Len(d.sessions) /\ d.sessions[Len(q) + 1] = s
            BY <3>1, <3>2
          <5>2. s.file = x[1] /\ Tokens(s.usage) >= x[2]
            BY <1>4, <1>6, <4>1, <4>2
          <5> QED BY <5>1, <5>2
        <4>3. CASE x[1] # f
          <5>1. \/ \E k \in 1 .. Len(c.todo) : c.todo[k] = x[1]
                \/ \E k \in 1 .. Len(c.sessions) :
                     c.sessions[k].file = x[1] /\ Tokens(c.sessions[k].usage) >= x[2]
            BY <1>1, <3>4 DEF ReadSound
          <5>2. ASSUME NEW k \in 1 .. Len(c.todo), c.todo[k] = x[1]
                PROVE  \E i \in 1 .. Len(d.todo) : d.todo[i] = x[1]
            BY <1>t, <4>3, <5>2
          <5>3. ASSUME NEW k \in 1 .. Len(c.sessions)
                PROVE  k \in 1 .. Len(d.sessions) /\ d.sessions[k] = c.sessions[k]
            BY <3>1, <3>2
          <5> QED BY <5>1, <5>2, <5>3
        <4> QED BY <4>2, <4>3
      <3> QED BY <1>8, <3>1, <3>2, <3>3, <3>4 DEF ReadSound
    <2> QED BY <2>1, <2>2
  <1>11. Collected(d)
    BY <1>8, <1>10 DEF Collected
  <1>12. CollectorMoves /\ UNCHANGED <<cost_json, billed>>
    BY <1>8 DEF CollectorMoves, ReadSession
  <1> QED BY <1>11, <1>12, ToolMoves

LEMMA SummariseKeepsBills ==
  ASSUME CostInv, Summarise
  PROVE  CostInv'
  <1> PICK c : c = collector
    OBVIOUS
  <1> PICK d : d = collector'
    OBVIOUS
  <1> PICK s : s = Summarised
    OBVIOUS
  <1> PICK rows : rows = Column(c.sessions, Enriched)
    OBVIOUS
  <1>1. c.at = "sessions" /\ c \in Shape /\ ReadSound(c) /\ c.todo = << >>
    BY DEF CostInv, CostTyped, Collected, Summarise
  <1>2. c.since \in Int /\ c.until \in Int
    BY <1>1 DEF Shape
  <1>3. s.since = c.since /\ s.until = c.until /\ s.sessions = rows
    BY DEF Summarised
  <1>4. d = [c EXCEPT !.at = "md", !.summary = s]
    BY DEF Summarise
  <1>5. /\ d.at = "md" /\ d.since = c.since /\ d.until = c.until /\ d.summary = s
        /\ d \in [at : {"off", "sessions", "md", "json"}, since : Int, until : Int, todo : Seq(Range(Files)),
                       sessions : {d.sessions}, summary : {d.summary}]
    BY <1>1, <1>2, <1>4 DEF Shape
  <1>6. PICK S : c.sessions \in Seq(S)
    BY <1>1 DEF ReadSound
  <1>7. /\ rows \in Seq({rows[k] : k \in 1 .. Len(c.sessions)}) /\ Len(rows) = Len(c.sessions)
        /\ \A k \in 1 .. Len(c.sessions) :
             rows[k].file = c.sessions[k].file /\ rows[k].tokens = Tokens(c.sessions[k].usage)
    <2>1. Len(c.sessions) \in Nat
      BY <1>6
    <2>2. rows = [k \in 1 .. Len(c.sessions) |-> Enriched(c.sessions[k])]
      BY DEF Column
    <2>3. ASSUME NEW z PROVE Enriched(z).file = z.file /\ Enriched(z).tokens = Tokens(z.usage)
      BY DEF Enriched, Tokens
    <2>4. \A k \in 1 .. Len(c.sessions) : rows[k] = Enriched(c.sessions[k])
      BY <2>2
    <2> PICK n : n = Len(c.sessions)
      OBVIOUS
    <2>5. rows = [k \in 1 .. n |-> rows[k]]
      BY <2>2, <2>4
    <2>6. rows \in Seq({rows[k] : k \in 1 .. n}) /\ Len(rows) = n
      BY <2>1, <2>5
    <2> QED BY <2>3, <2>4, <2>6
  <1>8. \A u \in [Buckets -> Nat] : Tokens(u) \in Nat
    <2> TAKE u \in [Buckets -> Nat]
    <2>1. \A b \in Buckets : u[b] <= u[b]
      OBVIOUS
    <2> QED BY <2>1, TokensGrow
  <1>9. RowsSound(rows, c.since, c.until)
    <2>1. ASSUME NEW k \in 1 .. Len(rows)
          PROVE  /\ rows[k].file \in Range(Files) /\ BeganIn(messages[rows[k].file], c.since, c.until)
                 /\ rows[k].tokens \in Nat /\ rows[k].tokens <= Spent(messages[rows[k].file])
      <3>1. k \in 1 .. Len(c.sessions)
        BY <1>7
      <3>2. /\ c.sessions[k].file \in Range(Files) /\ BeganIn(messages[c.sessions[k].file], c.since, c.until)
            /\ c.sessions[k].usage \in [Buckets -> Nat]
            /\ Tokens(c.sessions[k].usage) <= Spent(messages[c.sessions[k].file])
        BY <1>1, <3>1 DEF ReadSound
      <3>3. rows[k].file = c.sessions[k].file /\ rows[k].tokens = Tokens(c.sessions[k].usage)
        BY <1>7, <3>1
      <3> QED BY <1>8, <3>2, <3>3
    <2>2. \E T : rows \in Seq(T)
      BY <1>7
    <2> QED BY <1>2, <2>1, <2>2 DEF RowsSound
  <1>10. RowsTell(rows, <<c.since, c.until>>)
    <2> SUFFICES ASSUME <<c.since, c.until>> \in DOMAIN billed, NEW x \in billed[<<c.since, c.until>>]
                 PROVE  \E k \in 1 .. Len(rows) : rows[k].file = x[1] /\ rows[k].tokens >= x[2]
      BY DEF RowsTell
    <2>1. Len(c.todo) = 0
      BY <1>1
    <2>2. PICK k \in 1 .. Len(c.sessions) : c.sessions[k].file = x[1] /\ Tokens(c.sessions[k].usage) >= x[2]
      BY <1>1, <2>1 DEF ReadSound
    <2> QED BY <1>7, <2>2
  <1>11. SummarySound(s)
    BY <1>3, <1>9, <1>10 DEF SummarySound
  <1>12. Collected(d)
    BY <1>3, <1>5, <1>11 DEF Collected
  <1>13. CollectorMoves /\ UNCHANGED <<cost_json, billed>>
    BY <1>5 DEF CollectorMoves, Summarise
  <1> QED BY <1>12, <1>13, ToolMoves

LEMMA OffIsTyped ==
  /\ Off.at = "off"
  /\ Off \in [at : {"off", "sessions", "md", "json"}, since : Int, until : Int, todo : Seq(Range(Files)),
              sessions : {Off.sessions}, summary : {Off.summary}]
  BY DEF Off

LEMMA PageKeepsBills ==
  ASSUME CostInv, WriteMd
  PROVE  CostInv'
  <1> PICK c : c = collector
    OBVIOUS
  <1> PICK d : d = collector'
    OBVIOUS
  <1>1. c.at = "md" /\ c \in Shape /\ Collected(c) /\ d = [c EXCEPT !.at = "json"]
    BY DEF CostInv, CostTyped, WriteMd
  <1>2. /\ d.at = "json" /\ d.since = c.since /\ d.until = c.until /\ d.summary = c.summary
        /\ d \in [at : {"off", "sessions", "md", "json"}, since : Int, until : Int, todo : Seq(Range(Files)),
                       sessions : {d.sessions}, summary : {d.summary}]
    BY <1>1 DEF Shape
  <1>3. Collected(d)
    BY <1>1, <1>2 DEF Collected
  <1>4. CollectorMoves /\ UNCHANGED <<cost_json, billed>>
    BY <1>2 DEF CollectorMoves, WriteMd
  <1> QED BY <1>3, <1>4, ToolMoves

LEMMA KillKeepsBills ==
  ASSUME CostInv, KillCollector
  PROVE  CostInv'
  <1>1. CollectorMoves /\ UNCHANGED <<cost_json, billed>>
    BY OffIsTyped DEF CollectorMoves, KillCollector
  <1>2. \A c : c = collector' => Collected(c)
    BY OffIsTyped DEF KillCollector, Collected
  <1> QED BY <1>1, <1>2, ToolMoves

(* A summary is billed: its rows join what was billed for its days. *)
LEMMA WriteKeepsBills ==
  ASSUME CostInv, WriteCostJson
  PROVE  CostInv'
  <1> PICK c : c = collector
    OBVIOUS
  <1> PICK s : s = c.summary
    OBVIOUS
  <1> PICK r : r = <<c.since, c.until>>
    OBVIOUS
  <1> PICK old : old = IF r \in DOMAIN billed THEN billed[r] ELSE {}
    OBVIOUS
  <1>1. c.at = "json" /\ c \in Shape /\ SummarySound(s) /\ s.since = c.since /\ s.until = c.until
    BY DEF CostInv, CostTyped, Collected, WriteCostJson
  <1>2. c.since \in Int /\ c.until \in Int /\ r[1] = c.since /\ r[2] = c.until
    BY <1>1 DEF Shape
  <1>3. PICK S : s.sessions \in Seq(S)
    BY <1>1 DEF SummarySound, RowsSound
  <1>4. Range(s.sessions) = {s.sessions[k] : k \in 1 .. Len(s.sessions)}
    <2>1. DOMAIN s.sessions = 1 .. Len(s.sessions)
      BY <1>3
    <2> QED BY <2>1 DEF Range
  <1> PICK now : now = {<<z.file, z.tokens>> : z \in Range(s.sessions)}
    OBVIOUS
  <1>5. billed' = [q \in DOMAIN billed \cup {r} |->
                      (IF q \in DOMAIN billed THEN billed[q] ELSE {}) \cup (IF q = r THEN now ELSE {})]
    BY DEF WriteCostJson, Asked, BilledNow
  <1>6. /\ DOMAIN billed' = {r} \cup DOMAIN billed
        /\ billed'[r] = now \cup old
        /\ \A q \in DOMAIN billed \ {r} : billed'[q] = billed[q]
    BY <1>5
  <1>7. ASSUME NEW x \in now \cup old
        PROVE  /\ x[1] \in Range(Files) /\ BeganIn(messages[x[1]], c.since, c.until)
               /\ x[2] \in Nat /\ x[2] <= Spent(messages[x[1]])
               /\ \E k \in 1 .. Len(s.sessions) : s.sessions[k].file = x[1] /\ s.sessions[k].tokens >= x[2]
    <2>1. CASE x \in now
      <3>1. PICK k \in 1 .. Len(s.sessions) : x = <<s.sessions[k].file, s.sessions[k].tokens>>
        BY <1>4, <2>1
      <3>2. x[1] = s.sessions[k].file /\ x[2] = s.sessions[k].tokens
        BY <3>1
      <3>3. /\ s.sessions[k].file \in Range(Files) /\ BeganIn(messages[s.sessions[k].file], c.since, c.until)
            /\ s.sessions[k].tokens \in Nat /\ s.sessions[k].tokens <= Spent(messages[s.sessions[k].file])
        BY <1>1 DEF SummarySound, RowsSound
      <3> QED BY <3>2, <3>3
    <2>2. CASE x \in old
      <3>1. r \in DOMAIN billed /\ x \in billed[r]
        BY <2>2
      <3>2. /\ x[1] \in Range(Files) /\ BeganIn(messages[x[1]], c.since, c.until)
            /\ x[2] \in Nat /\ x[2] <= Spent(messages[x[1]])
        BY <1>2, <3>1 DEF CostInv, BillsSound
      <3>3. \E k \in 1 .. Len(s.sessions) : s.sessions[k].file = x[1] /\ s.sessions[k].tokens >= x[2]
        BY <1>1, <3>1 DEF SummarySound, RowsTell
      <3> QED BY <3>2, <3>3
    <2> QED BY <2>1, <2>2
  <1>8. UNCHANGED <<messages, tick>> /\ cost_json' = s /\ collector' = Off
    BY DEF WriteCostJson
  <1>9. BillsSound'
    <2> SUFFICES ASSUME NEW q \in DOMAIN billed'
                 PROVE  /\ q[1] \in Int /\ q[2] \in Int
                        /\ \A x \in billed'[q] :
                             /\ x[1] \in Range(Files) /\ BeganIn(messages[x[1]], q[1], q[2])
                             /\ x[2] \in Nat /\ x[2] <= Spent(messages[x[1]])
      BY <1>8 DEF BillsSound
    <2>1. CASE q = r
      BY <1>2, <1>6, <1>7, <2>1
    <2>2. CASE q # r
      BY <1>6, <2>2 DEF CostInv, BillsSound
    <2> QED BY <2>1, <2>2
  <1>10. SummarySound(s)'
    <2>1. RowsSound(s.sessions, s.since, s.until)'
      BY <1>1, <1>8 DEF SummarySound, RowsSound
    <2>2. RowsTell(s.sessions, <<s.since, s.until>>)'
      BY <1>1, <1>6, <1>7 DEF RowsTell
    <2> QED BY <2>1, <2>2 DEF SummarySound
  <1>11. CostTyped'
    BY <1>8, OffIsTyped DEF CostInv, CostTyped, Shape
  <1> QED BY <1>8, <1>9, <1>10, <1>11, OffIsTyped DEF CostInv, Collected

LEMMA CostStep == CostInv /\ [CostNext]_costVars => CostInv'
  <1> SUFFICES ASSUME CostInv, [CostNext]_costVars PROVE CostInv'
    OBVIOUS
  <1>0. tick \in Nat /\ DayTicks \in Nat /\ DayTicks > 0 /\ WeekDays \in Nat
    BY CostRollupAssumption DEF CostInv, CostTyped
  <1>1. ASSUME NEW f \in Range(Files), NEW model \in {"haiku", "<synthetic>"}, NEW usage \in Usages,
               Message(f, model, usage)
        PROVE  CostInv'
    BY <1>0, <1>1, MessageIsGrown, EnvironmentMoves DEF Message
  <1>2. ASSUME NEW passed \in BOOLEAN, DispatchRecord("pi", ~ passed, passed) PROVE CostInv'
    BY <1>0, <1>2, SameIsGrown, EnvironmentMoves DEF DispatchRecord, CostInv
  <1>3. ASSUME NEW what \in EventKinds, EventRecord(what) PROVE CostInv'
    BY <1>0, <1>3, SameIsGrown, EnvironmentMoves DEF EventRecord, CostInv
  <1>4. Today \in Nat /\ Today - WeekDays \in Int
    BY <1>0 DEF Today
  <1>5. CASE RollupCall(Today - WeekDays, Today)
    BY <1>4, <1>5, CallKeepsBills
  <1>6. ASSUME NEW since \in 0 .. Today, NEW until \in since .. Today, RollupCall(since, until) PROVE CostInv'
    BY <1>4, <1>6, CallKeepsBills
  <1>7. CASE CostTick
    BY <1>0, <1>7, SameIsGrown, EnvironmentMoves DEF CostTick, CostInv
  <1>8. CASE UNCHANGED costVars
    BY <1>0, <1>8, SameIsGrown, EnvironmentMoves DEF costVars, CostInv
  <1> QED BY <1>1, <1>2, <1>3, <1>5, <1>6, <1>7, <1>8, ReadKeepsBills, SummariseKeepsBills, PageKeepsBills,
             WriteKeepsBills, KillKeepsBills DEF CostNext

(* A session is billed in the days it began in and in no others, and a summary of the   *)
(* same days never loses a session nor any of its tokens, however long the session goes *)
(* on, whatever ranges are asked for and whenever the tool is killed (cost_rollup.py).  *)
THEOREM SessionsAreBilledOnce == CostSpec => []BilledOnce
  BY CostStarts, CostStep, InvIsBilledOnce, PTL DEF CostSpec

-----------------------------------------------------------------------------
(* The evaluation adapter. *)

(* The batches cover the requests from one number up to another, in order and without gaps. *)
Stretch(b) == b \in Seq(Nat) /\ b # << >> /\ \A j \in 1 .. Len(b) : b[j] = b[1] + j - 1
StopOf(b) == b[1] + Len(b)
Tiled(bs, from, to) ==
    /\ bs \in Seq(Seq(Nat)) /\ from \in Nat /\ to \in Nat /\ from <= to
    /\ \A k \in 1 .. Len(bs) : Stretch(bs[k]) /\ from <= bs[k][1] /\ StopOf(bs[k]) <= to
    /\ \A j, k \in 1 .. Len(bs) : j < k => StopOf(bs[j]) <= bs[k][1]
    /\ \A k \in 1 .. Len(bs) - 1 : bs[k + 1][1] = StopOf(bs[k])
    /\ IF bs = << >> THEN from = to ELSE bs[1][1] = from /\ StopOf(bs[Len(bs)]) = to

LEMMA StretchEnds ==
  ASSUME NEW b, Stretch(b)
  PROVE  b \in Seq(Nat) /\ Len(b) \in Nat /\ Len(b) >= 1 /\ b[1] \in Nat /\ StopOf(b) \in Nat /\ b[1] < StopOf(b)
  <1>1. b \in Seq(Nat) /\ Len(b) \in Nat /\ Len(b) >= 1
    BY DEF Stretch
  <1>2. b[1] \in Nat
    BY <1>1
  <1> QED BY <1>1, <1>2 DEF StopOf

LEMMA TiledNone == ASSUME NEW n \in Nat PROVE Tiled(<< >>, n, n)
  <1>1. << >> \in Seq(Seq(Nat)) /\ Len(<< >>) = 0
    OBVIOUS
  <1> QED BY <1>1 DEF Tiled

LEMMA TiledAppend ==
  ASSUME NEW bs, NEW from, NEW b, Stretch(b), Tiled(bs, from, b[1])
  PROVE  Tiled(Append(bs, b), from, StopOf(b))
  <1> PICK cs : cs = Append(bs, b)
    OBVIOUS
  <1> PICK n : n = Len(bs)
    OBVIOUS
  <1>1. b \in Seq(Nat) /\ b[1] \in Nat /\ StopOf(b) \in Nat /\ b[1] < StopOf(b)
    BY StretchEnds
  <1>2. bs \in Seq(Seq(Nat)) /\ from \in Nat /\ from <= b[1]
    BY DEF Tiled
  <1>3. /\ cs \in Seq(Seq(Nat)) /\ Len(cs) = n + 1 /\ n \in Nat /\ cs # << >>
        /\ cs[n + 1] = b /\ \A k \in 1 .. n : cs[k] = bs[k]
    BY <1>1, <1>2
  <1>4. \A k \in 1 .. n : Stretch(bs[k]) /\ from <= bs[k][1] /\ StopOf(bs[k]) <= b[1] /\ StopOf(bs[k]) \in Nat
    BY StretchEnds DEF Tiled
  <1>5. ASSUME NEW k \in 1 .. n + 1 PROVE Stretch(cs[k]) /\ from <= cs[k][1] /\ StopOf(cs[k]) <= StopOf(b)
    <2>1. CASE k = n + 1
      BY <1>1, <1>2, <1>3, <2>1
    <2>2. CASE k # n + 1
      BY <1>1, <1>3, <1>4, <2>2
    <2> QED BY <2>1, <2>2
  <1>6. ASSUME NEW j \in 1 .. n + 1, NEW k \in 1 .. n + 1, j < k PROVE StopOf(cs[j]) <= cs[k][1]
    <2>1. j \in 1 .. n
      BY <1>3, <1>6
    <2>2. CASE k = n + 1
      BY <1>3, <1>4, <2>1, <2>2
    <2>3. CASE k # n + 1
      <3>1. k \in 1 .. n
        BY <1>3, <2>3
      <3> QED BY <1>3, <1>6, <2>1, <3>1 DEF Tiled
    <2> QED BY <2>2, <2>3
  <1>7. ASSUME NEW k \in 1 .. n PROVE cs[k + 1][1] = StopOf(cs[k])
    <2>1. CASE k = n
      <3>1. bs # << >> /\ StopOf(bs[n]) = b[1]
        BY <1>2, <2>1 DEF Tiled
      <3> QED BY <1>3, <2>1, <3>1
    <2>2. CASE k # n
      <3>1. k \in 1 .. n - 1 /\ k + 1 \in 1 .. n
        BY <1>3, <2>2
      <3> QED BY <1>3, <3>1 DEF Tiled
    <2> QED BY <2>1, <2>2
  <1>8. cs[1][1] = from
    <2>1. CASE bs = << >>
      <3>1. n = 0 /\ from = b[1]
        BY <2>1 DEF Tiled
      <3> QED BY <1>3, <3>1
    <2>2. CASE bs # << >>
      <3>1. 1 \in 1 .. n /\ bs[1][1] = from
        BY <1>2, <2>2 DEF Tiled
      <3> QED BY <1>3, <3>1
    <2> QED BY <2>1, <2>2
  <1>9. from <= StopOf(b)
    BY <1>1, <1>2
  <1>10. StopOf(cs[Len(cs)]) = StopOf(b) /\ \A k \in 1 .. Len(cs) - 1 : k \in 1 .. n
    BY <1>3
  <1> QED BY <1>1, <1>2, <1>3, <1>5, <1>6, <1>7, <1>8, <1>9, <1>10 DEF Tiled

LEMMA TiledTail ==
  ASSUME NEW bs, NEW from, NEW to, Tiled(bs, from, to), bs # << >>
  PROVE  /\ Stretch(Head(bs)) /\ Head(bs)[1] = from /\ StopOf(Head(bs)) <= to
         /\ Tiled(Tail(bs), StopOf(Head(bs)), to)
  <1> PICK cs : cs = Tail(bs)
    OBVIOUS
  <1> PICK b : b = Head(bs)
    OBVIOUS
  <1> PICK n : n = Len(cs)
    OBVIOUS
  <1>1. bs \in Seq(Seq(Nat)) /\ from \in Nat /\ to \in Nat
    BY DEF Tiled
  <1>2. /\ cs \in Seq(Seq(Nat)) /\ Len(bs) = n + 1 /\ n \in Nat /\ (cs = << >> <=> n = 0)
        /\ b = bs[1] /\ \A k \in 1 .. n : cs[k] = bs[k + 1]
    <2>1. cs \in Seq(Seq(Nat)) /\ Len(cs) = Len(bs) - 1 /\ Len(bs) \in Nat /\ Len(bs) >= 1 /\ b = bs[1]
      BY <1>1
    <2>2. n \in Nat /\ (cs = << >> <=> n = 0)
      <3>1. n \in Nat
        BY <2>1
      <3>2. cs = << >> <=> Len(cs) = 0
        BY <2>1, EmptySeq
      <3> QED BY <3>1, <3>2
    <2>3. \A k \in 1 .. n : cs[k] = bs[k + 1]
      BY <1>1, <2>1
    <2> QED BY <2>1, <2>2, <2>3
  <1>3. Stretch(b) /\ b[1] = from /\ StopOf(b) <= to
    <2>1. 1 \in 1 .. Len(bs)
      BY <1>2
    <2> QED BY <1>2, <2>1 DEF Tiled
  <1>4. StopOf(b) \in Nat
    BY <1>3, StretchEnds
  <1>5. ASSUME NEW k \in 1 .. n PROVE Stretch(cs[k]) /\ StopOf(b) <= cs[k][1] /\ StopOf(cs[k]) <= to
    <2>1. 1 \in 1 .. Len(bs) /\ k + 1 \in 1 .. Len(bs) /\ 1 < k + 1
      BY <1>2
    <2>2. StopOf(bs[1]) <= bs[k + 1][1] /\ Stretch(bs[k + 1]) /\ StopOf(bs[k + 1]) <= to
      BY <2>1 DEF Tiled
    <2> QED BY <1>2, <2>2
  <1>6. ASSUME NEW j \in 1 .. n, NEW k \in 1 .. n, j < k PROVE StopOf(cs[j]) <= cs[k][1]
    <2>1. j + 1 \in 1 .. Len(bs) /\ k + 1 \in 1 .. Len(bs) /\ j + 1 < k + 1
      BY <1>2, <1>6
    <2>2. StopOf(bs[j + 1]) <= bs[k + 1][1]
      BY <2>1 DEF Tiled
    <2> QED BY <1>2, <2>2
  <1>7. ASSUME NEW k \in 1 .. n - 1 PROVE cs[k + 1][1] = StopOf(cs[k])
    <2>1. k + 1 \in 1 .. Len(bs) - 1 /\ k + 1 \in 1 .. n /\ k \in 1 .. n
      BY <1>2
    <2>2. bs[(k + 1) + 1][1] = StopOf(bs[k + 1])
      BY <2>1 DEF Tiled
    <2> QED BY <1>2, <2>1, <2>2
  <1>8. IF cs = << >> THEN StopOf(b) = to ELSE cs[1][1] = StopOf(b) /\ StopOf(cs[Len(cs)]) = to
    <2>1. StopOf(bs[Len(bs)]) = to
      BY DEF Tiled
    <2>2. CASE cs = << >>
      <3>1. Len(bs) = 1
        BY <1>2, <2>2
      <3> QED BY <1>2, <2>1, <2>2, <3>1
    <2>3. CASE cs # << >>
      <3>1. n >= 1 /\ n \in 1 .. n /\ 1 \in 1 .. n /\ 1 \in 1 .. Len(bs) - 1
        BY <1>2, <2>3
      <3>2. bs[1 + 1][1] = StopOf(bs[1])
        BY <3>1 DEF Tiled
      <3>3. cs[1] = bs[1 + 1] /\ cs[n] = bs[Len(bs)]
        BY <1>2, <3>1
      <3> QED BY <1>2, <2>1, <2>3, <3>2, <3>3
    <2> QED BY <2>2, <2>3
  <1> QED BY <1>1, <1>2, <1>3, <1>4, <1>5, <1>6, <1>7, <1>8 DEF Tiled

UpFrom1(items, L) == items = [i \in 1 .. L |-> i]
Multiples(m, B) == m = [k \in Int |-> k * B]
SliceOf(b, items, lo, hi) == b = SubSeq(items, lo + 1, hi)

LEMMA CountedSeq ==
  ASSUME NEW L \in Nat, NEW items, UpFrom1(items, L)
  PROVE  items \in Seq(Nat) /\ Len(items) = L /\ \A i \in 1 .. L : items[i] = i
  BY DEF UpFrom1

(* run_eval_in_batches: a slice of the numbers 1 .. L is a stretch. *)
LEMMA SliceStretches ==
  ASSUME NEW L \in Nat, NEW items, UpFrom1(items, L), NEW lo \in Nat, NEW hi \in Nat, lo + 1 <= hi, hi <= L,
         NEW b, SliceOf(b, items, lo, hi)
  PROVE  Stretch(b) /\ b[1] = lo + 1 /\ StopOf(b) = hi + 1
  <1>0. items \in Seq(Nat) /\ Len(items) = L /\ \A i \in 1 .. L : items[i] = i
    BY CountedSeq
  <1>1. b \in Seq(Nat) /\ Len(b) = hi - lo
    BY <1>0 DEF SliceOf
  <1>2. \A j \in 1 .. hi - lo : b[j] = items[lo + j]
    BY <1>0 DEF SliceOf
  <1>3. \A j \in 1 .. hi - lo : lo + j \in 1 .. L
    OBVIOUS
  <1>4. \A j \in 1 .. hi - lo : b[j] = lo + j
    BY <1>0, <1>2, <1>3
  <1>5. b[1] = lo + 1 /\ b # << >>
    BY <1>1, <1>4
  <1>6. \A j \in 1 .. Len(b) : b[j] = b[1] + j - 1
    BY <1>1, <1>4, <1>5
  <1>7. StopOf(b) = hi + 1
    BY <1>1, <1>5 DEF StopOf
  <1> QED BY <1>1, <1>5, <1>6, <1>7 DEF Stretch

(* The starts of the slices, in a table of the multiples of the batch size... *)
LEMMA RoundedUp ==
  ASSUME NEW L \in Nat, NEW B \in Nat, B > 0, NEW K, K = (L + B - 1) \div B
  PROVE  K \in Nat /\ K * B <= L + B - 1 /\ L + B - 1 < (K + 1) * B
  <1> PICK x : x = L + B - 1
    OBVIOUS
  <1>1. x \in Nat /\ K = x \div B
    OBVIOUS
  <1>2. K \in Nat /\ K * B <= x /\ x < (K + 1) * B
    BY ONLY <1>1, B \in Nat, B > 0
  <1> QED BY <1>2

Grid(m, B) ==
    /\ m \in [Int -> Int] /\ \A k \in Int : m[k - 1] = m[k] - B /\ m[k + 1] = m[k] + B
    /\ \A j, k \in Int : j <= k => m[j] <= m[k]

LEMMA GridHolds ==
  ASSUME NEW L \in Nat, NEW B \in Nat, B > 0, NEW K, K = (L + B - 1) \div B, NEW m, Multiples(m, B)
  PROVE  Grid(m, B) /\ m[0] = 0 /\ K \in Nat /\ m[K] <= L + B - 1 /\ L + B - 1 < m[K] + B
  <1>1. ASSUME NEW k \in Int PROVE k * B \in Int /\ (k - 1) * B = k * B - B /\ (k + 1) * B = k * B + B
    OBVIOUS
  <1>2. \A j, k \in Int : j <= k => j * B <= k * B
    BY MultiplesOrder
  <1>3. \A k \in Int : m[k] = k * B
    BY DEF Multiples
  <1>4. m \in [Int -> Int] /\ \A j, k \in Int : j <= k => m[j] <= m[k]
    BY <1>1, <1>2, <1>3 DEF Multiples
  <1>5. ASSUME NEW k \in Int PROVE m[k - 1] = m[k] - B /\ m[k + 1] = m[k] + B
    <2>1. k - 1 \in Int /\ k + 1 \in Int
      OBVIOUS
    <2>2. m[k - 1] = (k - 1) * B /\ m[k + 1] = (k + 1) * B /\ m[k] = k * B
      BY <1>3, <2>1
    <2> QED BY <1>1, <2>2
  <1>6. K \in Nat /\ K * B <= L + B - 1 /\ L + B - 1 < (K + 1) * B
    BY RoundedUp
  <1>7. m[K] = K * B /\ (K + 1) * B = K * B + B /\ 0 * B = 0 /\ m[0] = 0 * B
    BY <1>1, <1>3, <1>6
  <1> QED BY <1>4, <1>5, <1>6, <1>7 DEF Grid

(* ... and where they stop. *)
LEMMA GridStops ==
  ASSUME NEW L \in Nat, NEW B \in Nat, B > 0, NEW K \in Nat, NEW m, Grid(m, B), m[0] = 0,
         m[K] <= L + B - 1, L + B - 1 < m[K] + B,
         NEW k \in 1 .. K, NEW stop, stop = IF m[k] < L THEN m[k] ELSE L
  PROVE  /\ m[k - 1] \in Nat /\ m[k - 1] < L /\ stop \in Nat /\ m[k - 1] + 1 <= stop
         /\ stop <= L /\ stop <= m[k] /\ (k < K => stop = m[k]) /\ (k = K => stop = L)
  <1>1. k \in Int /\ K \in Int /\ k - 1 \in Int /\ 0 \in Int /\ k + 1 \in Int /\ k <= K /\ 0 <= k - 1
    OBVIOUS
  <1>2. m[k] \in Int /\ m[K] \in Int /\ m[k - 1] \in Int /\ m[k] <= m[K] /\ m[0] <= m[k - 1]
        /\ m[k - 1] = m[k] - B /\ m[k + 1] = m[k] + B /\ (k < K => m[k + 1] <= m[K])
    <2>1. m[k] \in Int /\ m[K] \in Int /\ m[k - 1] \in Int
      BY <1>1 DEF Grid
    <2>2. m[k - 1] = m[k] - B /\ m[k + 1] = m[k] + B
      BY <1>1 DEF Grid
    <2>3. m[k] <= m[K] /\ m[0] <= m[k - 1]
      BY <1>1 DEF Grid
    <2>4. k < K => k + 1 <= K
      BY <1>1
    <2>5. k < K => m[k + 1] <= m[K]
      BY <1>1, <2>4 DEF Grid
    <2> QED BY <2>1, <2>2, <2>3, <2>5
  <1>3. k < K => m[k] < L
    BY <1>2
  <1>4. k = K => L <= m[k]
    BY <1>2
  <1>5. m[k - 1] \in Nat /\ m[k - 1] < L
    BY <1>2
  <1> QED BY <1>2, <1>3, <1>4, <1>5

LEMMA SlicesAt ==
  ASSUME NEW L \in Nat, NEW items, UpFrom1(items, L), NEW B, B = BatchSize, NEW K \in Nat, K = (L + B - 1) \div B,
         NEW m, Multiples(m, B)
  PROVE  /\ DOMAIN Slices(items) = 1 .. K /\ Slices(items) = [k \in 1 .. K |-> Slices(items)[k]]
         /\ \A k \in 1 .. K : SliceOf(Slices(items)[k], items, m[k - 1], IF m[k] < L THEN m[k] ELSE L)
  <1>1. Len(items) = L
    BY DEF UpFrom1
  <1>2. Slices(items) = [k \in 1 .. K |-> SubSeq(items, (k - 1) * B + 1, IF k * B < L THEN k * B ELSE L)]
    BY <1>1 DEF Slices
  <1>3. ASSUME NEW k \in 1 .. K PROVE m[k - 1] = (k - 1) * B /\ m[k] = k * B
    <2>1. k \in Int /\ k - 1 \in Int
      OBVIOUS
    <2> QED BY <2>1 DEF Multiples
  <1> QED BY <1>2, <1>3 DEF SliceOf

LEMMA SlicesTile ==
  ASSUME NEW L \in Nat, NEW items, UpFrom1(items, L)
  PROVE  Tiled(Slices(items), 1, L + 1)
  <1> PICK B : B = BatchSize
    OBVIOUS
  <1> PICK K : K = (L + B - 1) \div B
    OBVIOUS
  <1> PICK m : Multiples(m, B)
    BY DEF Multiples
  <1> PICK bs : bs = Slices(items)
    OBVIOUS
  <1> DEFINE stop(k) == IF m[k] < L THEN m[k] ELSE L
  <1>1. items \in Seq(Nat) /\ Len(items) = L /\ \A i \in 1 .. L : items[i] = i
    BY CountedSeq
  <1>2. B \in Nat /\ B > 0
    BY HspaAdapterAssumption
  <1>3. Grid(m, B) /\ m[0] = 0 /\ K \in Nat /\ m[K] <= L + B - 1 /\ L + B - 1 < m[K] + B
    BY <1>2, GridHolds
  <1>4. /\ bs = [k \in 1 .. K |-> bs[k]]
        /\ \A k \in 1 .. K : SliceOf(bs[k], items, m[k - 1], stop(k))
    BY <1>3, SlicesAt
  <1>5. ASSUME NEW k \in 1 .. K
        PROVE  /\ m[k - 1] \in Nat /\ m[k - 1] < L /\ stop(k) \in Nat /\ m[k - 1] + 1 <= stop(k)
               /\ stop(k) <= L /\ stop(k) <= m[k] /\ (k < K => stop(k) = m[k]) /\ (k = K => stop(k) = L)
    <2> PICK e : e = stop(k)
      OBVIOUS
    <2>1. e = IF m[k] < L THEN m[k] ELSE L
      OBVIOUS
    <2> HIDE DEF stop
    <2>2. /\ m[k - 1] \in Nat /\ m[k - 1] < L /\ e \in Nat /\ m[k - 1] + 1 <= e
          /\ e <= L /\ e <= m[k] /\ (k < K => e = m[k]) /\ (k = K => e = L)
      BY <1>2, <1>3, <2>1, GridStops
    <2> QED BY <2>2
  <1> HIDE DEF stop
  <1>7. ASSUME NEW k \in 1 .. K
        PROVE  Stretch(bs[k]) /\ bs[k][1] = m[k - 1] + 1 /\ StopOf(bs[k]) = stop(k) + 1
    <2> PICK lo : lo = m[k - 1]
      OBVIOUS
    <2> PICK hi : hi = stop(k)
      OBVIOUS
    <2>1. SliceOf(bs[k], items, lo, hi)
      BY <1>4
    <2>2. lo \in Nat /\ hi \in Nat /\ lo + 1 <= hi /\ hi <= L
      BY <1>5
    <2> PICK b : b = bs[k]
      OBVIOUS
    <2>4. SliceOf(b, items, lo, hi)
      BY <2>1
    <2>5. Stretch(b) /\ b[1] = lo + 1 /\ StopOf(b) = hi + 1
      BY <2>2, <2>4, SliceStretches
    <2> QED BY <2>5
  <1>8. bs \in Seq(Seq(Nat)) /\ Len(bs) = K
    <2>1. \A k \in 1 .. K : bs[k] \in Seq(Nat)
      BY <1>7, StretchEnds
    <2>2. bs = [k \in 1 .. K |-> bs[k]]
      BY <1>4
    <2> QED BY <1>3, <2>1, <2>2
  <1>9. ASSUME NEW k \in 1 .. K PROVE Stretch(bs[k]) /\ 1 <= bs[k][1] /\ StopOf(bs[k]) <= L + 1
    <2>1. m[k - 1] \in Nat /\ stop(k) \in Nat /\ stop(k) <= L
      BY <1>5
    <2>2. Stretch(bs[k]) /\ bs[k][1] = m[k - 1] + 1 /\ StopOf(bs[k]) = stop(k) + 1
      BY <1>7
    <2> QED BY <2>1, <2>2
  <1>10. ASSUME NEW j \in 1 .. K, NEW k \in 1 .. K, j < k PROVE StopOf(bs[j]) <= bs[k][1]
    <2>1. j \in Int /\ k - 1 \in Int /\ j <= k - 1
      BY <1>3, <1>10
    <2>2. m[j] <= m[k - 1] /\ m[j] \in Int
      BY <1>3, <2>1 DEF Grid
    <2>3. stop(j) <= m[j] /\ stop(j) \in Nat /\ m[k - 1] \in Nat
      BY <1>5
    <2>4. bs[k][1] = m[k - 1] + 1 /\ StopOf(bs[j]) = stop(j) + 1
      BY <1>7
    <2> QED BY <2>2, <2>3, <2>4
  <1>11. ASSUME NEW k \in 1 .. K - 1 PROVE bs[k + 1][1] = StopOf(bs[k])
    <2>1. k \in 1 .. K /\ k + 1 \in 1 .. K /\ k < K /\ (k + 1) - 1 = k
      BY <1>3
    <2>2. stop(k) = m[k]
      BY <1>5, <2>1
    <2>3. bs[k + 1][1] = m[(k + 1) - 1] + 1 /\ StopOf(bs[k]) = stop(k) + 1
      BY <1>7, <2>1
    <2> QED BY <2>1, <2>2, <2>3
  <1>12. IF bs = << >> THEN 1 = L + 1 ELSE bs[1][1] = 1 /\ StopOf(bs[K]) = L + 1
    <2>1. CASE bs = << >>
      <3>1. K = 0
        BY <1>8, <2>1
      <3>2. L = 0
        BY <1>2, <1>3, <3>1
      <3> QED BY <2>1, <3>2
    <2>2. CASE bs # << >>
      <3>1. 1 \in 1 .. K /\ K \in 1 .. K
        <4>1. K # 0
          BY <1>8, <2>2, EmptySeq
        <4> QED BY <1>3, <4>1
      <3>2. stop(K) = L /\ m[1 - 1] = 0
        BY <1>3, <1>5, <3>1
      <3>3. bs[1][1] = m[1 - 1] + 1 /\ StopOf(bs[K]) = stop(K) + 1
        BY <1>7, <3>1
      <3> QED BY <2>2, <3>2, <3>3
    <2> QED BY <2>1, <2>2
  <1>14. Tiled(bs, 1, L + 1)
    BY <1>8, <1>9, <1>10, <1>11, <1>12 DEF Tiled
  <1> QED BY <1>14

(* The bytes of a batch, as a sum over its places. *)
SizesIn(r, b) == [j \in 1 .. Len(b) |-> r[b[j]].size]
Weighs(r, b, n) == SumIs(SizesIn(r, b), 1 .. Len(b), n)

LEMMA SizesAreNat ==
  ASSUME NEW r \in Seq(Request), NEW b \in Seq(1 .. Len(r))
  PROVE  /\ SizesIn(r, b) \in [1 .. Len(b) -> Nat] /\ SizesIn(r, b) \in [1 .. Len(b) -> Int]
         /\ IsFiniteSet(1 .. Len(b)) /\ Len(b) \in Nat
  <1>1. ASSUME NEW j \in 1 .. Len(b) PROVE r[b[j]].size \in Nat
    <2>1. b[j] \in 1 .. Len(r)
      OBVIOUS
    <2>2. r[b[j]] \in Request
      BY <2>1
    <2> QED BY <2>2 DEF Request
  <1>2. SizesIn(r, b) \in [1 .. Len(b) -> Nat] /\ SizesIn(r, b) \in [1 .. Len(b) -> Int]
    BY <1>1 DEF SizesIn
  <1>3. IsFiniteSet(1 .. Len(b)) /\ Len(b) \in Nat
    BY FS_Interval
  <1> QED BY <1>2, <1>3

LEMMA SizeWeighs ==
  ASSUME requests \in Seq(Request), NEW b \in Seq(1 .. Len(requests))
  PROVE  Weighs(requests, b, SizeOf(b)) /\ SizeOf(b) \in Nat
  <1> DEFINE v(s) == requests[b[AnyOf(s)]].size
             add(g, s) == IF s = {} THEN 0 ELSE v(s) + g[s \ {AnyOf(s)}]
             is(g) == g = [s \in SUBSET DOMAIN b |-> add(g, s)]
  <1>1. SizeOf(b) = (CHOOSE g : is(g))[DOMAIN b]
    BY Zenon DEF SizeOf, FoldSeq, FoldFunction, FoldFunctionOnSet, MapThenFoldSet, AnyOf
  <1> PICK e : e = SizesIn(requests, b)
    OBVIOUS
  <1>2. e \in [1 .. Len(b) -> Nat] /\ e \in [1 .. Len(b) -> Int] /\ IsFiniteSet(1 .. Len(b)) /\ DOMAIN b = 1 .. Len(b)
    BY SizesAreNat
  <1>3. ASSUME NEW s \in SUBSET (1 .. Len(b)), s # {} PROVE v(s) = e[AnyOf(s)]
    <2>1. AnyOf(s) \in 1 .. Len(b)
      BY <1>3 DEF AnyOf
    <2> QED BY <2>1 DEF SizesIn
  <1>4. ASSUME NEW g PROVE is(g) <=> Sums(g, e, 1 .. Len(b))
    <2>1. ASSUME NEW s \in SUBSET (1 .. Len(b)) PROVE add(g, s) = AddNext(g, e, s)
      BY <1>3 DEF AddNext
    <2> HIDE DEF add
    <2> QED BY <1>2, <2>1 DEF Sums
  <1> HIDE DEF is
  <1>5. \E g : is(g)
    BY <1>2, <1>4, SumsExist
  <1>6. PICK g : g = CHOOSE h : is(h)
    OBVIOUS
  <1>7. is(g)
    BY <1>5, <1>6
  <1>8. Sums(g, e, 1 .. Len(b)) /\ SizeOf(b) = g[1 .. Len(b)]
    BY <1>1, <1>2, <1>4, <1>6, <1>7
  <1>9. g[1 .. Len(b)] \in Nat
    BY <1>2, <1>8, SumsAreNat
  <1> QED BY <1>8, <1>9 DEF Weighs, SumIs

LEMMA WeighsOnce ==
  ASSUME NEW r \in Seq(Request), NEW b \in Seq(1 .. Len(r)), NEW m, NEW n, Weighs(r, b, m), Weighs(r, b, n)
  PROVE  m = n
  <1>1. SizesIn(r, b) \in [1 .. Len(b) -> Int] /\ IsFiniteSet(1 .. Len(b))
    BY SizesAreNat
  <1> QED BY <1>1, TotalOnce DEF Weighs

LEMMA SizeAppends ==
  ASSUME requests \in Seq(Request), NEW b \in Seq(1 .. Len(requests)), NEW i \in 1 .. Len(requests)
  PROVE  SizeOf(Append(b, i)) = SizeOf(b) + requests[i].size
  <1> PICK c : c = Append(b, i)
    OBVIOUS
  <1>1. c \in Seq(1 .. Len(requests)) /\ Len(c) = Len(b) + 1 /\ Len(b) \in Nat
        /\ c[Len(c)] = i /\ \A j \in 1 .. Len(b) : c[j] = b[j]
    OBVIOUS
  <1>2. 1 .. Len(b) \subseteq 1 .. Len(c) /\ Len(c) \in 1 .. Len(c) /\ (1 .. Len(c)) \ {Len(c)} = 1 .. Len(b)
    BY <1>1
  <1>3. /\ SizesIn(requests, b) \in [1 .. Len(b) -> Int] /\ IsFiniteSet(1 .. Len(b))
        /\ SizesIn(requests, c) \in [1 .. Len(c) -> Int] /\ IsFiniteSet(1 .. Len(c))
    BY <1>1, SizesAreNat
  <1>4. SizesIn(requests, c)[Len(c)] = requests[i].size /\ Agree(SizesIn(requests, b), SizesIn(requests, c), 1 .. Len(b))
    BY <1>1, <1>2 DEF SizesIn, Agree
  <1>5. Weighs(requests, b, SizeOf(b)) /\ Weighs(requests, c, SizeOf(c))
    BY <1>1, SizeWeighs
  <1>6. SizeOf(c) = SizeOf(b) + SizesIn(requests, c)[Len(c)]
    <2>1. OneMore(SizesIn(requests, b), 1 .. Len(b), SizesIn(requests, c), 1 .. Len(c), Len(c))
      BY <1>2, <1>3, <1>4 DEF OneMore
    <2> QED BY <1>5, <2>1, TotalExtends DEF Weighs
  <1> QED BY <1>4, <1>6

(* _batch_requests_under_byte_budget after n requests: the batches that are out and the one being filled. *)
Filling == [out : Seq(Seq(Nat)), batch : Seq(Nat)]
NoneFilled == [out |-> << >>, batch |-> << >>]
Small(b) == Len(b) = 1 \/ SizeOf(b) <= BatchMaxBytes
AllSmall(bs) == \A k \in 1 .. Len(bs) : Small(bs[k])
Filled(acc, n) ==
    /\ acc \in Filling /\ AllSmall(acc.out)
    /\ acc.batch = << >> => Tiled(acc.out, 1, n + 1)
    /\ acc.batch # << >> =>
         /\ Stretch(acc.batch) /\ StopOf(acc.batch) = n + 1 /\ Small(acc.batch)
         /\ Tiled(acc.out, 1, acc.batch[1])

LEMMA SmallAppend ==
  ASSUME NEW bs \in Seq(Seq(Nat)), AllSmall(bs), NEW b \in Seq(Nat), Small(b)
  PROVE  Append(bs, b) \in Seq(Seq(Nat)) /\ AllSmall(Append(bs, b))
  <1> PICK cs : cs = Append(bs, b)
    OBVIOUS
  <1>1. /\ cs \in Seq(Seq(Nat)) /\ Len(cs) = Len(bs) + 1 /\ Len(bs) \in Nat
        /\ cs[Len(bs) + 1] = b /\ \A k \in 1 .. Len(bs) : cs[k] = bs[k]
    OBVIOUS
  <1>2. ASSUME NEW k \in 1 .. Len(cs) PROVE Small(cs[k])
    <2>1. CASE k = Len(bs) + 1
      BY <1>1, <2>1
    <2>2. CASE k # Len(bs) + 1
      <3>1. k \in 1 .. Len(bs) /\ cs[k] = bs[k]
        BY <1>1, <2>2
      <3> QED BY <3>1 DEF AllSmall
    <2> QED BY <2>1, <2>2
  <1> QED BY <1>1, <1>2 DEF AllSmall

LEMMA FlushedTiles ==
  ASSUME NEW acc, NEW n \in Nat, Filled(acc, n)
  PROVE  Flushed(acc) \in Seq(Seq(Nat)) /\ AllSmall(Flushed(acc)) /\ Tiled(Flushed(acc), 1, n + 1)
  <1>1. acc.out \in Seq(Seq(Nat)) /\ acc.batch \in Seq(Nat) /\ AllSmall(acc.out)
    BY DEF Filled, Filling
  <1>2. CASE acc.batch = << >>
    BY <1>1, <1>2 DEF Filled, Flushed
  <1>3. CASE acc.batch # << >>
    <2>1. Stretch(acc.batch) /\ StopOf(acc.batch) = n + 1 /\ Small(acc.batch) /\ Tiled(acc.out, 1, acc.batch[1])
      BY <1>3 DEF Filled
    <2>2. Tiled(Append(acc.out, acc.batch), 1, n + 1)
      BY <2>1, TiledAppend
    <2> QED BY <1>1, <1>3, <2>1, <2>2, SmallAppend DEF Flushed
  <1> QED BY <1>2, <1>3

LEMMA OneStretches ==
  ASSUME NEW i \in Nat
  PROVE  <<i>> \in Seq(Nat) /\ Stretch(<<i>>) /\ <<i>>[1] = i /\ StopOf(<<i>>) = i + 1 /\ Small(<<i>>) /\ <<i>> # << >>
  <1>1. <<i>> \in Seq(Nat) /\ Len(<<i>>) = 1 /\ <<i>>[1] = i /\ <<i>> # << >>
    OBVIOUS
  <1> QED BY <1>1 DEF Stretch, StopOf, Small

LEMMA StretchIsOf ==
  ASSUME NEW b, Stretch(b), NEW L \in Nat, 1 <= b[1], StopOf(b) <= L + 1
  PROVE  b \in Seq(1 .. L)
  <1>1. b \in Seq(Nat) /\ Len(b) \in Nat /\ b[1] \in Nat /\ b[1] + Len(b) <= L + 1
    BY StretchEnds DEF StopOf
  <1>2. ASSUME NEW j \in 1 .. Len(b) PROVE b[j] \in 1 .. L
    <2>1. b[j] = b[1] + j - 1
      BY DEF Stretch
    <2> QED BY <1>1, <2>1
  <1>3. b = [j \in 1 .. Len(b) |-> b[j]]
    BY <1>1
  <1> QED BY <1>1, <1>2, <1>3

LEMMA LongerStretches ==
  ASSUME NEW b, Stretch(b), NEW i \in Nat, StopOf(b) = i
  PROVE  /\ Append(b, i) \in Seq(Nat) /\ Stretch(Append(b, i)) /\ Append(b, i)[1] = b[1]
         /\ StopOf(Append(b, i)) = i + 1 /\ Append(b, i) # << >>
  <1> PICK c : c = Append(b, i)
    OBVIOUS
  <1>1. b \in Seq(Nat) /\ Len(b) \in Nat /\ Len(b) >= 1 /\ b[1] \in Nat
    BY StretchEnds
  <1>2. c \in Seq(Nat) /\ Len(c) = Len(b) + 1 /\ c[Len(b) + 1] = i /\ \A j \in 1 .. Len(b) : c[j] = b[j]
    BY <1>1
  <1>3. c[1] = b[1] /\ c # << >>
    BY <1>1, <1>2
  <1>4. ASSUME NEW j \in 1 .. Len(c) PROVE c[j] = c[1] + j - 1
    <2>1. CASE j = Len(b) + 1
      BY <1>1, <1>2, <1>3, <2>1 DEF StopOf
    <2>2. CASE j # Len(b) + 1
      <3>1. j \in 1 .. Len(b)
        BY <1>1, <1>2, <2>2
      <3> QED BY <1>2, <1>3, <3>1 DEF Stretch
    <2> QED BY <2>1, <2>2
  <1>5. StopOf(c) = i + 1
    <2>1. b[1] + Len(b) = i /\ StopOf(c) = c[1] + Len(c)
      BY DEF StopOf
    <2> QED BY <1>1, <1>2, <1>3, <2>1
  <1> QED BY <1>2, <1>3, <1>4, <1>5 DEF Stretch

LEMMA PackedIsFilling ==
  ASSUME NEW acc \in Filling, NEW i \in Nat
  PROVE  Packed(acc, i) \in Filling
  <1>1. acc.out \in Seq(Seq(Nat)) /\ acc.batch \in Seq(Nat) /\ <<i>> \in Seq(Nat) /\ << >> \in Seq(Nat)
    BY DEF Filling
  <1>2. Append(acc.out, acc.batch) \in Seq(Seq(Nat)) /\ Append(acc.batch, i) \in Seq(Nat)
    BY <1>1
  <1>3. Flushed(acc) \in Seq(Seq(Nat))
    BY <1>1, <1>2 DEF Flushed
  <1>4. Append(Flushed(acc), <<i>>) \in Seq(Seq(Nat))
    BY <1>1, <1>3
  <1> QED BY <1>1, <1>2, <1>3, <1>4 DEF Packed, Filling

LEMMA PackedIsFilled ==
  ASSUME requests \in Seq(Request), NEW acc, NEW n \in Nat, Filled(acc, n), n + 1 <= Len(requests)
  PROVE  Filled(Packed(acc, n + 1), n + 1)
  <1> PICK i : i = n + 1
    OBVIOUS
  <1> PICK next : next = Packed(acc, i)
    OBVIOUS
  <1>1. i \in Nat /\ acc \in Filling /\ acc.out \in Seq(Seq(Nat)) /\ acc.batch \in Seq(Nat) /\ AllSmall(acc.out)
    BY DEF Filled, Filling
  <1>2. next \in Filling
    BY <1>1, PackedIsFilling
  <1>3. /\ <<i>> \in Seq(Nat) /\ Stretch(<<i>>) /\ <<i>>[1] = i /\ StopOf(<<i>>) = i + 1 /\ Small(<<i>>) /\ <<i>> # << >>
    BY <1>1, OneStretches
  <1>4. Flushed(acc) \in Seq(Seq(Nat)) /\ AllSmall(Flushed(acc)) /\ Tiled(Flushed(acc), 1, i)
    BY FlushedTiles
  <1>5. CASE requests[i].size > BatchMaxBytes
    <2>1. next.out = Append(Flushed(acc), <<i>>) /\ next.batch = << >>
      BY <1>5 DEF Packed
    <2>2. AllSmall(next.out)
      BY <1>3, <1>4, <2>1, SmallAppend
    <2>3. Tiled(next.out, 1, i + 1)
      <3>1. Tiled(Flushed(acc), 1, <<i>>[1])
        BY <1>3, <1>4
      <3>2. Tiled(Append(Flushed(acc), <<i>>), 1, StopOf(<<i>>))
        BY <1>3, <3>1, TiledAppend
      <3> QED BY <1>3, <2>1, <3>2
    <2> QED BY <1>2, <2>1, <2>2, <2>3 DEF Filled
  <1>6. CASE ~ (requests[i].size > BatchMaxBytes) /\ SizeOf(acc.batch) + requests[i].size > BatchMaxBytes
    <2>1. next.out = Flushed(acc) /\ next.batch = <<i>>
      BY <1>6 DEF Packed
    <2>2. Tiled(next.out, 1, next.batch[1]) /\ AllSmall(next.out)
      BY <1>3, <1>4, <2>1
    <2> QED BY <1>2, <1>3, <2>1, <2>2 DEF Filled
  <1>7. CASE ~ (requests[i].size > BatchMaxBytes) /\ ~ (SizeOf(acc.batch) + requests[i].size > BatchMaxBytes)
    <2>1. next.out = acc.out /\ next.batch = Append(acc.batch, i)
      BY <1>1, <1>7 DEF Packed, Filling
    <2>2. CASE acc.batch = << >>
      <3>1. next.batch = <<i>>
        BY <2>1, <2>2
      <3>2. Tiled(next.out, 1, next.batch[1]) /\ AllSmall(next.out)
        BY <1>1, <1>3, <2>1, <2>2, <3>1 DEF Filled
      <3> QED BY <1>2, <1>3, <3>1, <3>2 DEF Filled
    <2>3. CASE acc.batch # << >>
      <3>1. Stretch(acc.batch) /\ StopOf(acc.batch) = i /\ Tiled(acc.out, 1, acc.batch[1])
        BY <2>3 DEF Filled
      <3>2. /\ Stretch(next.batch) /\ next.batch[1] = acc.batch[1] /\ StopOf(next.batch) = i + 1 /\ next.batch # << >>
        BY <1>1, <2>1, <3>1, LongerStretches
      <3>3. acc.batch \in Seq(1 .. Len(requests)) /\ i \in 1 .. Len(requests)
        <4>1. 1 <= acc.batch[1] /\ Len(requests) \in Nat /\ i <= Len(requests) /\ i >= 1
          BY <1>1, <3>1 DEF Tiled
        <4>2. StopOf(acc.batch) <= Len(requests) + 1
          BY <1>1, <3>1, <4>1
        <4> QED BY <1>1, <3>1, <4>1, <4>2, StretchIsOf
      <3>4. SizeOf(next.batch) = SizeOf(acc.batch) + requests[i].size /\ SizeOf(acc.batch) \in Nat
        <4>1. SizeOf(Append(acc.batch, i)) = SizeOf(acc.batch) + requests[i].size
          BY <3>3, SizeAppends
        <4>2. SizeOf(acc.batch) \in Nat
          BY <3>3, SizeWeighs
        <4> QED BY <2>1, <4>1, <4>2
      <3>5. requests[i].size \in Nat
        <4>1. requests[i] \in Request
          BY <3>3
        <4> QED BY <4>1 DEF Request
      <3>6. Small(next.batch)
        BY <1>7, <3>4, <3>5, HspaAdapterAssumption DEF Small
      <3> QED BY <1>1, <1>2, <2>1, <3>1, <3>2, <3>6 DEF Filled
    <2> QED BY <2>2, <2>3
  <1>8. Filled(next, i)
    BY <1>5, <1>6, <1>7
  <1> QED BY <1>8

LEMMA LastIsMax ==
  ASSUME NEW n \in Nat, n > 0
  PROVE  Max(1 .. n) = n /\ (1 .. n) \ {n} = 1 .. n - 1 /\ 1 .. n # {}
  <1>1. 1 .. n \in SUBSET Nat /\ 1 .. n # {} /\ \A x \in 1 .. n : x <= n
    OBVIOUS
  <1>2. Max(1 .. n) \in 1 .. n /\ \A x \in 1 .. n : x <= Max(1 .. n)
    BY <1>1, GreatestOfBounded
  <1>3. (1 .. n) \ {n} = 1 .. n - 1
    OBVIOUS
  <1> QED BY <1>1, <1>2, <1>3

(* The fold over the requests takes them from the last one back. *)
FillNext(g, items, s) == IF s = {} THEN NoneFilled ELSE Packed(g[s \ {Max(s)}], items[Max(s)])
Fills(g, items, L) == \A s \in SUBSET (1 .. L) : g[s] = FillNext(g, items, s)

LEMMA FillingExists ==
  ASSUME NEW L \in Nat, NEW items, UpFrom1(items, L)
  PROVE  \E g : g \in [SUBSET (1 .. L) -> Filling] /\ Fills(g, items, L)
  <1> DEFINE S == 1 .. L
             pick == [s \in SUBSET S |-> Max(s)]
             F == [p \in S \X Filling |-> Packed(p[2], p[1])]
  <1>1. ASSUME NEW s \in SUBSET S, s # {} PROVE Max(s) \in s
    <2>1. s \in SUBSET Nat /\ \A x \in s : x <= L
      OBVIOUS
    <2> QED BY <1>1, <2>1, GreatestOfBounded
  <1>2. Picks(pick, S)
    BY <1>1 DEF Picks
  <1>3. F \in [S \X Filling -> Filling]
    <2>1. ASSUME NEW p \in S \X Filling PROVE Packed(p[2], p[1]) \in Filling
      <3>1. p[1] \in Nat /\ p[2] \in Filling
        OBVIOUS
      <3> QED BY <3>1, PackedIsFilling
    <2> QED BY <2>1
  <1>4. NoneFilled \in Filling /\ IsFiniteSet(S)
    <2>1. << >> \in Seq(Seq(Nat)) /\ << >> \in Seq(Nat)
      OBVIOUS
    <2>2. IsFiniteSet(S)
      BY FS_Interval
    <2> QED BY <2>1, <2>2 DEF NoneFilled, Filling
  <1>5. PICK g : Folds(g, F, NoneFilled, pick, S, Filling)
    <2> HIDE DEF pick, F, S
    <2> QED BY <1>2, <1>3, <1>4, FoldsExist
  <1>6. g \in [SUBSET S -> Filling]
    BY <1>5 DEF Folds
  <1>7. ASSUME NEW s \in SUBSET S PROVE g[s] = FillNext(g, items, s)
    <2>1. g[s] = FoldNext(g, F, NoneFilled, pick, s)
      BY <1>5 DEF Folds
    <2>2. CASE s = {}
      BY <2>1, <2>2 DEF FoldNext, FillNext
    <2>3. CASE s # {}
      <3> PICK x : x = Max(s)
        OBVIOUS
      <3>1. x \in s /\ pick[s] = x /\ s \ {x} \in SUBSET S /\ x \in S
        BY <1>1, <2>3
      <3>2. g[s \ {x}] \in Filling /\ g[s] = F[<<x, g[s \ {x}]>>]
        BY <1>6, <2>1, <2>3, <3>1 DEF FoldNext
      <3>3. F[<<x, g[s \ {x}]>>] = Packed(g[s \ {x}], x)
        BY <3>1, <3>2
      <3>4. items[x] = x
        BY <3>1, CountedSeq
      <3> QED BY <2>3, <3>2, <3>3, <3>4 DEF FillNext
    <2> QED BY <2>2, <2>3
  <1> QED BY <1>6, <1>7 DEF Fills

LEMMA FoldFills ==
  ASSUME NEW L \in Nat, NEW items, UpFrom1(items, L)
  PROVE  \E g : Fills(g, items, L) /\ FoldLeft(Packed, NoneFilled, items) = g[1 .. L]
  <1> DEFINE is(g) == g = [s \in SUBSET DOMAIN items |-> FillNext(g, items, s)]
  <1>1. FoldLeft(Packed, NoneFilled, items) = (CHOOSE g : is(g))[DOMAIN items]
    BY Zenon DEF FoldLeft, MapThenFoldSet, FillNext
  <1>2. DOMAIN items = 1 .. L
    BY DEF UpFrom1
  <1>3. \E g : is(g)
    <2>1. PICK g : g \in [SUBSET (1 .. L) -> Filling] /\ Fills(g, items, L)
      BY FillingExists
    <2>2. g = [s \in SUBSET (1 .. L) |-> FillNext(g, items, s)]
      BY <2>1 DEF Fills
    <2> QED BY <1>2, <2>2
  <1>4. ASSUME NEW g, is(g) PROVE Fills(g, items, L)
    BY <1>2, <1>4 DEF Fills
  <1> HIDE DEF is
  <1>5. PICK g : g = CHOOSE h : is(h)
    OBVIOUS
  <1>6. is(g)
    BY <1>3, <1>5
  <1> QED BY <1>1, <1>2, <1>4, <1>5, <1>6

LEMMA FilledUpTo ==
  ASSUME requests \in Seq(Request), NEW items, UpFrom1(items, Len(requests)), NEW g, Fills(g, items, Len(requests))
  PROVE  Filled(g[1 .. Len(requests)], Len(requests))
  <1> PICK L : L = Len(requests)
    OBVIOUS
  <1>0. L \in Nat
    OBVIOUS
  <1> DEFINE bad == {n \in Nat : n <= L /\ ~ Filled(g[1 .. n], n)}
  <1>1. CASE bad = {}
    BY <1>0, <1>1
  <1>2. CASE bad # {}
    <2>1. PICK m : m = Min(bad)
      OBVIOUS
    <2>2. m \in bad /\ \A x \in bad : m <= x
      <3>1. bad \in SUBSET Nat
        OBVIOUS
      <3> HIDE DEF bad
      <3> QED BY <1>2, <2>1, <3>1, LeastOfNats
    <2>3. m \in Nat /\ m <= L /\ ~ Filled(g[1 .. m], m) /\ 1 .. m \in SUBSET (1 .. L)
      BY <1>0, <2>2
    <2>4. g[1 .. m] = FillNext(g, items, 1 .. m)
      BY <2>3 DEF Fills
    <2>5. m # 0
      <3>1. SUFFICES ASSUME m = 0 PROVE FALSE
        OBVIOUS
      <3>2. g[1 .. m] = NoneFilled
        BY <2>4, <3>1 DEF FillNext
      <3>3. << >> \in Seq(Seq(Nat)) /\ << >> \in Seq(Nat) /\ Len(<< >>) = 0
        OBVIOUS
      <3>4. Tiled(<< >>, 1, 1)
        BY TiledNone
      <3>5. Filled(NoneFilled, 0)
        BY <3>3, <3>4 DEF Filled, NoneFilled, Filling, AllSmall
      <3> QED BY <2>3, <3>1, <3>2, <3>5
    <2>6. m - 1 \in Nat /\ m - 1 \notin bad
      <3> HIDE DEF bad
      <3>1. m - 1 \in Nat /\ ~ (m <= m - 1)
        BY <2>3, <2>5
      <3> QED BY <2>2, <3>1
    <2>7. Filled(g[1 .. m - 1], m - 1)
      BY <1>0, <2>3, <2>6
    <2>8. Max(1 .. m) = m /\ (1 .. m) \ {m} = 1 .. m - 1 /\ 1 .. m # {} /\ items[m] = m
      <3>1. m > 0 /\ m \in 1 .. L
        BY <1>0, <2>3, <2>5
      <3>2. Max(1 .. m) = m /\ (1 .. m) \ {m} = 1 .. m - 1 /\ 1 .. m # {}
        BY <2>3, <3>1, LastIsMax
      <3>3. items[m] = m
        BY <1>0, <3>1, CountedSeq
      <3> QED BY <3>2, <3>3
    <2>9. g[1 .. m] = Packed(g[1 .. m - 1], m)
      BY <2>4, <2>8 DEF FillNext
    <2>10. Filled(Packed(g[1 .. m - 1], (m - 1) + 1), (m - 1) + 1)
      BY <2>3, <2>6, <2>7, PackedIsFilled
    <2> QED BY <2>3, <2>9, <2>10
  <1> QED BY <1>1, <1>2

(* loglikelihood: the packed batches. *)
LEMMA PackedTiles ==
  ASSUME requests \in Seq(Request), NEW items, UpFrom1(items, Len(requests))
  PROVE  /\ Tiled(_batch_requests_under_byte_budget(items), 1, Len(requests) + 1)
         /\ AllSmall(_batch_requests_under_byte_budget(items))
  <1>1. Len(requests) \in Nat
    OBVIOUS
  <1>2. PICK g : /\ Fills(g, items, Len(requests))
                 /\ FoldLeft(Packed, NoneFilled, items) = g[1 .. Len(requests)]
    BY <1>1, FoldFills
  <1>3. Filled(g[1 .. Len(requests)], Len(requests))
    BY <1>2, FilledUpTo
  <1>4. _batch_requests_under_byte_budget(items) = Flushed(FoldLeft(Packed, NoneFilled, items))
    BY Zenon DEF _batch_requests_under_byte_budget, NoneFilled
  <1>5. Flushed(FoldLeft(Packed, NoneFilled, items)) = Flushed(g[1 .. Len(requests)])
    BY <1>2
  <1> QED BY <1>1, <1>3, <1>4, <1>5, FlushedTiles

(* The places of a batch that the binary prints a row for. *)
ScoredPlaces(b) == {k \in 1 .. Len(b) : LineOf(b, k) = "scored"}

LEMMA RowsOfScored ==
  ASSUME NEW b \in Seq(Nat)
  PROVE  /\ IsFiniteSet(run_score(b)) /\ Cardinality(run_score(b)) \in Nat
         /\ Cardinality(run_score(b)) <= Cardinality(ScoredPlaces(b))
         /\ Cardinality(ScoredPlaces(b)) \in Nat /\ Cardinality(ScoredPlaces(b)) <= Len(b)
         /\ Cardinality(ScoredPlaces(b)) = Len(b) => ScoredPlaces(b) = 1 .. Len(b)
         /\ Total(b) \in Nat /\ Cardinality(ScoredPlaces(b)) <= Total(b) /\ Total(b) <= Len(b)
  <1> DEFINE f == [k \in ScoredPlaces(b) |-> <<ItemId(b, k), b[k]>>]
  <1>1. Len(b) \in Nat /\ IsFiniteSet(1 .. Len(b)) /\ Cardinality(1 .. Len(b)) = Len(b)
    <2>1. Len(b) \in Nat
      OBVIOUS
    <2>2. IsFiniteSet(1 .. Len(b)) /\ Cardinality(1 .. Len(b)) = IF 1 > Len(b) THEN 0 ELSE Len(b) - 1 + 1
      BY <2>1, FS_Interval
    <2> QED BY <2>1, <2>2
  <1>2. ScoredPlaces(b) \in SUBSET (1 .. Len(b))
    BY DEF ScoredPlaces
  <1>3. IsFiniteSet(ScoredPlaces(b)) /\ Cardinality(ScoredPlaces(b)) <= Len(b)
        /\ (Cardinality(ScoredPlaces(b)) = Len(b) => ScoredPlaces(b) = 1 .. Len(b))
    BY <1>1, <1>2, FS_Subset
  <1>4. Cardinality(ScoredPlaces(b)) \in Nat
    BY <1>3, FS_CardinalityType
  <1>5. f \in [ScoredPlaces(b) -> run_score(b)] /\ \A row \in run_score(b) : \E k \in ScoredPlaces(b) : f[k] = row
    BY DEF run_score, ScoredPlaces
  <1>6. IsFiniteSet(run_score(b)) /\ Cardinality(run_score(b)) <= Cardinality(ScoredPlaces(b))
    <2> HIDE DEF f
    <2>1. f \in Surjection(ScoredPlaces(b), run_score(b))
      BY <1>5 DEF Surjection
    <2> QED BY <1>3, <2>1, FS_Surjection
  <1>7. Cardinality(run_score(b)) \in Nat
    BY <1>6, FS_CardinalityType
  <1>8. Total(b) \in Nat /\ Cardinality(ScoredPlaces(b)) <= Total(b) /\ Total(b) <= Len(b)
    <2>1. PICK P : P = {k \in 1 .. Len(b) : LineOf(b, k) \in {"scored", "unscored"}}
      OBVIOUS
    <2>2. Total(b) = Cardinality(P)
      BY <2>1 DEF Total
    <2>3. P \in SUBSET (1 .. Len(b)) /\ ScoredPlaces(b) \in SUBSET P
      BY <2>1 DEF ScoredPlaces
    <2>4. IsFiniteSet(P) /\ Cardinality(P) <= Len(b)
      BY <1>1, <2>3, FS_Subset
    <2>5. Cardinality(P) \in Nat
      BY <2>4, FS_CardinalityType
    <2>6. Cardinality(ScoredPlaces(b)) <= Cardinality(P)
      BY <2>3, <2>4, FS_Subset
    <2> QED BY <2>2, <2>4, <2>5, <2>6
  <1> QED BY <1>3, <1>4, <1>6, <1>7, <1>8

(* As many rows as lines: each line was scored, and the numbers of the rows are the places. *)
LEMMA AllScored ==
  ASSUME NEW b \in Seq(Nat), AllRows(run_score(b), Len(b))
  PROVE  Numbered(run_score(b), Len(b)) /\ parse_score_per_choice_output(run_score(b), Len(b)) = b
  <1>1. Len(b) \in Nat /\ ScoredPlaces(b) = 1 .. Len(b)
    <2>1. Len(b) \in Nat /\ Cardinality(run_score(b)) = Len(b)
      BY DEF AllRows
    <2>2. /\ Cardinality(run_score(b)) <= Cardinality(ScoredPlaces(b)) /\ Cardinality(ScoredPlaces(b)) \in Nat
          /\ Cardinality(ScoredPlaces(b)) <= Len(b)
      BY RowsOfScored
    <2>3. Cardinality(ScoredPlaces(b)) = Len(b)
      BY <2>1, <2>2
    <2> QED BY <2>1, <2>3, RowsOfScored
  <1>2. ASSUME NEW k \in 1 .. Len(b) PROVE ItemId(b, k) = k - 1
    <2>1. \A j \in 1 .. k - 1 : LineOf(b, j) # "unread"
      <3> TAKE j \in 1 .. k - 1
      <3>1. j \in ScoredPlaces(b)
        BY <1>1
      <3> QED BY <3>1 DEF ScoredPlaces
    <2>2. {j \in 1 .. k - 1 : LineOf(b, j) # "unread"} = 1 .. k - 1
      BY <2>1
    <2>3. k - 1 \in Int /\ Cardinality(1 .. k - 1) = IF 1 > k - 1 THEN 0 ELSE (k - 1) - 1 + 1
      BY <1>1, FS_Interval
    <2>4. ItemId(b, k) = Cardinality(1 .. k - 1)
      BY <2>2 DEF ItemId
    <2> QED BY <1>1, <2>3, <2>4
  <1>3. run_score(b) = {<<k - 1, b[k]>> : k \in 1 .. Len(b)}
    <2>1. run_score(b) = {<<ItemId(b, k), b[k]>> : k \in ScoredPlaces(b)}
      BY DEF run_score, ScoredPlaces
    <2> QED BY <1>1, <1>2, <2>1
  <1>4. ASSUME NEW i \in 1 .. Len(b) PROVE (CHOOSE row \in run_score(b) : row[1] = i - 1)[2] = b[i]
    <2>1. <<i - 1, b[i]>> \in run_score(b)
      BY <1>3
    <2>2. ASSUME NEW row \in run_score(b), row[1] = i - 1 PROVE row[2] = b[i]
      <3>1. PICK k \in 1 .. Len(b) : row = <<k - 1, b[k]>>
        BY <1>3
      <3>2. k - 1 = i - 1
        BY <2>2, <3>1
      <3> QED BY <1>1, <3>1, <3>2
    <2>3. \E row \in run_score(b) : row[1] = i - 1
      BY <2>1
    <2> QED BY <2>2, <2>3
  <1>5. Numbered(run_score(b), Len(b))
    <2>1. ASSUME NEW z \in 0 .. Len(b) - 1 PROVE \E row \in run_score(b) : z = row[1]
      <3>1. z + 1 \in 1 .. Len(b) /\ (z + 1) - 1 = z
        BY <1>1
      <3>2. <<(z + 1) - 1, b[z + 1]>> \in run_score(b)
        BY <1>3, <3>1
      <3> QED BY <3>1, <3>2
    <2>2. ASSUME NEW row \in run_score(b) PROVE row[1] \in 0 .. Len(b) - 1
      <3>1. PICK k \in 1 .. Len(b) : row = <<k - 1, b[k]>>
        BY <1>3
      <3> QED BY <1>1, <3>1
    <2> QED BY <2>1, <2>2 DEF Numbered
  <1>6. b = [i \in 1 .. Len(b) |-> b[i]]
    OBVIOUS
  <1> QED BY <1>4, <1>5, <1>6 DEF parse_score_per_choice_output

(* The batches that are left cover the requests from the first without an answer on. *)
Light(r, b) == Len(b) = 1 \/ \E n \in Nat : Weighs(r, b, n) /\ n <= BatchMaxBytes
AllLight(r, bs) == \A k \in 1 .. Len(bs) : Light(r, bs[k])
AdapterTyped ==
    /\ requests \in Seq(Request) /\ caller \in {"loglikelihood", "smoke"} /\ logprobs \in Seq(Nat)
    /\ totals \in [correct : Nat, total : Nat]
    /\ outcome \in {"running", "done", "ValueError", "RuntimeError", "error"}
AdapterInv ==
    /\ AdapterTyped
    /\ \A i \in 1 .. Len(logprobs) : logprobs[i] = i
    /\ totals.correct <= totals.total
    /\ caller = "loglikelihood" =>
         /\ Tiled(batches, Len(logprobs) + 1, Len(requests) + 1) /\ AllLight(requests, batches)
         /\ totals.total = 0
    /\ caller = "smoke" =>
         logprobs = << >> /\ \E from \in Nat : Tiled(batches, from, Len(requests) + 1) /\ totals.total < from
    /\ outcome = "done" => batches = << >>

LEMMA InvIsAligned == AdapterInv => AnswersAligned
  <1> SUFFICES ASSUME AdapterInv PROVE AnswersAligned
    OBVIOUS
  <1>1. /\ requests \in Seq(Request) /\ Len(requests) \in Nat /\ logprobs \in Seq(Nat) /\ Len(logprobs) \in Nat
        /\ caller \in {"loglikelihood", "smoke"} /\ totals.correct \in Nat /\ totals.total \in Nat
    BY DEF AdapterInv, AdapterTyped
  <1>2. outcome # "KeyError" /\ totals.correct <= totals.total /\ \A i \in 1 .. Len(logprobs) : logprobs[i] = i
    BY DEF AdapterInv, AdapterTyped
  <1>3. ASSUME outcome = "done", caller = "loglikelihood" PROVE Len(logprobs) = Len(requests)
    <2>1. Tiled(<< >>, Len(logprobs) + 1, Len(requests) + 1)
      BY <1>3 DEF AdapterInv
    <2>2. Len(logprobs) + 1 = Len(requests) + 1
      BY <2>1 DEF Tiled
    <2> QED BY <1>1, <2>2
  <1>4. ASSUME NEW k \in 1 .. Len(batches), caller = "loglikelihood", Len(batches[k]) # 1
        PROVE  SizeOf(batches[k]) <= BatchMaxBytes
    <2>1. Stretch(batches[k]) /\ Len(logprobs) + 1 <= batches[k][1] /\ StopOf(batches[k]) <= Len(requests) + 1
      BY <1>4 DEF AdapterInv, Tiled
    <2>2. 1 <= batches[k][1]
      BY <1>1, <2>1, StretchEnds
    <2>3. batches[k] \in Seq(1 .. Len(requests))
      BY <1>1, <2>1, <2>2, StretchIsOf
    <2>4. PICK n \in Nat : Weighs(requests, batches[k], n) /\ n <= BatchMaxBytes
      BY <1>4 DEF AdapterInv, AllLight, Light
    <2>5. Weighs(requests, batches[k], SizeOf(batches[k]))
      BY <1>1, <2>3, SizeWeighs
    <2>6. n = SizeOf(batches[k])
      BY <1>1, <2>3, <2>4, <2>5, WeighsOnce
    <2> QED BY <2>4, <2>6
  <1>5. totals.total <= Len(requests)
    <2>1. CASE caller = "loglikelihood"
      BY <1>1, <2>1 DEF AdapterInv
    <2>2. CASE caller = "smoke"
      <3>1. PICK from \in Nat : Tiled(batches, from, Len(requests) + 1) /\ totals.total < from
        BY <2>2 DEF AdapterInv
      <3>2. from <= Len(requests) + 1
        BY <3>1 DEF Tiled
      <3> QED BY <1>1, <3>1, <3>2
    <2> QED BY <1>1, <2>1, <2>2
  <1> QED BY <1>2, <1>3, <1>4, <1>5 DEF AnswersAligned

LEMMA AdapterStarts == AdapterInit => AdapterInv
  <1> SUFFICES ASSUME AdapterInit PROVE AdapterInv
    OBVIOUS
  <1>1. requests \in Seq(Request) /\ Len(requests) \in Nat
    <2>1. requests \in Seq(Request)
      BY HspaAdapterAssumption DEF AdapterInit
    <2> QED BY <2>1
  <1> PICK items : UpFrom1(items, Len(requests))
    BY DEF UpFrom1
  <1>2. batches = IF caller = "smoke" THEN Slices(items) ELSE _batch_requests_under_byte_budget(items)
    BY DEF AdapterInit, UpFrom1
  <1>3. logprobs = << >> /\ totals = [correct |-> 0, total |-> 0] /\ outcome = "running"
        /\ caller \in {"loglikelihood", "smoke"}
    BY DEF AdapterInit
  <1>4. << >> \in Seq(Nat) /\ Len(<< >>) = 0
    OBVIOUS
  <1>5. AdapterTyped
    BY <1>1, <1>3, <1>4 DEF AdapterTyped
  <1>6. ASSUME caller = "loglikelihood"
        PROVE  Tiled(batches, 1, Len(requests) + 1) /\ AllLight(requests, batches)
    <2>1. Tiled(batches, 1, Len(requests) + 1) /\ AllSmall(batches)
      BY <1>1, <1>2, <1>6, PackedTiles
    <2>2. ASSUME NEW k \in 1 .. Len(batches) PROVE Light(requests, batches[k])
      <3>1. Stretch(batches[k]) /\ 1 <= batches[k][1] /\ StopOf(batches[k]) <= Len(requests) + 1
        BY <2>1 DEF Tiled
      <3>2. batches[k] \in Seq(1 .. Len(requests))
        BY <1>1, <3>1, StretchIsOf
      <3>3. Weighs(requests, batches[k], SizeOf(batches[k])) /\ SizeOf(batches[k]) \in Nat
        BY <1>1, <3>2, SizeWeighs
      <3>4. Small(batches[k])
        BY <2>1 DEF AllSmall
      <3> QED BY <3>3, <3>4 DEF Small, Light
    <2> QED BY <2>1, <2>2 DEF AllLight
  <1>7. ASSUME caller = "smoke" PROVE Tiled(batches, 1, Len(requests) + 1)
    BY <1>1, <1>2, <1>7, SlicesTile
  <1>8. totals.total = 0 /\ totals.correct = 0 /\ 0 < 1 /\ 1 \in Nat /\ Len(logprobs) + 1 = 1
    BY <1>3, <1>4
  <1> QED BY <1>3, <1>4, <1>5, <1>6, <1>7, <1>8 DEF AdapterInv

LEMMA LightTail ==
  ASSUME NEW r, NEW bs \in Seq(Seq(Nat)), bs # << >>, AllLight(r, bs)
  PROVE  AllLight(r, Tail(bs))
  <1> PICK cs : cs = Tail(bs)
    OBVIOUS
  <1>1. Len(cs) = Len(bs) - 1 /\ Len(bs) \in Nat /\ \A k \in 1 .. Len(cs) : cs[k] = bs[k + 1]
    OBVIOUS
  <1>2. ASSUME NEW k \in 1 .. Len(cs) PROVE Light(r, cs[k])
    <2>1. k + 1 \in 1 .. Len(bs) /\ cs[k] = bs[k + 1]
      BY <1>1
    <2> QED BY <2>1 DEF AllLight
  <1> QED BY <1>2 DEF AllLight

(* The answers of a batch follow those of the requests before it. *)
LEMMA AnswersFollow ==
  ASSUME NEW p \in Seq(Nat), \A i \in 1 .. Len(p) : p[i] = i, NEW b, Stretch(b), b[1] = Len(p) + 1
  PROVE  /\ p \o b \in Seq(Nat) /\ \A i \in 1 .. Len(p \o b) : (p \o b)[i] = i
         /\ Len(p \o b) + 1 = StopOf(b)
  <1> PICK c : c = p \o b
    OBVIOUS
  <1>1. b \in Seq(Nat) /\ Len(b) \in Nat /\ Len(p) \in Nat
    BY StretchEnds
  <1>2. c \in Seq(Nat) /\ Len(c) = Len(p) + Len(b)
        /\ \A i \in 1 .. Len(c) : c[i] = IF i <= Len(p) THEN p[i] ELSE b[i - Len(p)]
    BY <1>1
  <1>3. ASSUME NEW i \in 1 .. Len(c) PROVE c[i] = i
    <2>1. CASE i <= Len(p)
      BY <1>1, <1>2, <2>1
    <2>2. CASE ~ (i <= Len(p))
      <3>1. i - Len(p) \in 1 .. Len(b) /\ c[i] = b[i - Len(p)]
        BY <1>1, <1>2, <2>2
      <3>2. b[i - Len(p)] = b[1] + (i - Len(p)) - 1
        BY <3>1 DEF Stretch
      <3> QED BY <1>1, <3>1, <3>2
    <2> QED BY <2>1, <2>2
  <1> QED BY <1>1, <1>2, <1>3 DEF StopOf

LEMMA ScoreKeepsAligned ==
  ASSUME AdapterInv, ScoreBatch
  PROVE  AdapterInv'
  <1> PICK b : b = Head(batches)
    OBVIOUS
  <1>1. /\ outcome = "running" /\ caller = "loglikelihood" /\ batches # << >>
        /\ UNCHANGED <<requests, caller, totals>>
    BY DEF ScoreBatch
  <1>2. Tiled(batches, Len(logprobs) + 1, Len(requests) + 1) /\ AllLight(requests, batches) /\ totals.total = 0
    BY <1>1 DEF AdapterInv
  <1>3. Stretch(b) /\ b[1] = Len(logprobs) + 1 /\ Tiled(Tail(batches), StopOf(b), Len(requests) + 1)
    BY <1>1, <1>2, TiledTail
  <1>4. b \in Seq(Nat) /\ batches \in Seq(Seq(Nat))
    BY <1>2, <1>3, StretchEnds DEF Tiled
  <1>5. CASE AllRows(run_score(b), Len(b))
    <2>1. Numbered(run_score(b), Len(b)) /\ parse_score_per_choice_output(run_score(b), Len(b)) = b
      BY <1>4, <1>5, AllScored
    <2>2. logprobs' = logprobs \o b /\ batches' = Tail(batches) /\ outcome' = outcome
      BY <1>5, <2>1 DEF ScoreBatch
    <2>3. logprobs \in Seq(Nat) /\ \A i \in 1 .. Len(logprobs) : logprobs[i] = i
      BY DEF AdapterInv, AdapterTyped
    <2>4. /\ logprobs' \in Seq(Nat) /\ \A i \in 1 .. Len(logprobs') : logprobs'[i] = i
          /\ Len(logprobs') + 1 = StopOf(b)
      BY <1>3, <2>2, <2>3, AnswersFollow
    <2>5. Tiled(batches', Len(logprobs') + 1, Len(requests') + 1)
      BY <1>1, <1>3, <2>2, <2>4
    <2>6. AllLight(requests', batches')
      BY <1>1, <1>2, <1>4, <2>2, LightTail
    <2>7. AdapterTyped'
      BY <1>1, <2>2, <2>4 DEF AdapterInv, AdapterTyped
    <2> QED BY <1>1, <1>2, <2>2, <2>4, <2>5, <2>6, <2>7 DEF AdapterInv
  <1>6. CASE ~ AllRows(run_score(b), Len(b))
    <2>1. outcome' = "ValueError" /\ UNCHANGED <<batches, logprobs>>
      BY <1>6 DEF ScoreBatch
    <2>2. AdapterTyped'
      BY <1>1, <2>1 DEF AdapterInv, AdapterTyped
    <2> QED BY <1>1, <2>1, <2>2 DEF AdapterInv
  <1> QED BY <1>5, <1>6

LEMMA SmokeKeepsAligned ==
  ASSUME AdapterInv, SmokeBatch
  PROVE  AdapterInv'
  <1> PICK b : b = Head(batches)
    OBVIOUS
  <1>1. /\ outcome = "running" /\ caller = "smoke" /\ batches # << >> /\ batches' = Tail(batches)
        /\ UNCHANGED <<requests, caller, logprobs, outcome>>
    BY DEF SmokeBatch
  <1>2. PICK right \in 0 .. Cardinality(run_score(b)) :
          totals' = [correct |-> totals.correct + right, total |-> totals.total + Total(b)]
    BY DEF SmokeBatch
  <1>3. PICK from \in Nat : Tiled(batches, from, Len(requests) + 1) /\ totals.total < from
    BY <1>1 DEF AdapterInv
  <1>4. Stretch(b) /\ b[1] = from /\ Tiled(Tail(batches), StopOf(b), Len(requests) + 1)
    BY <1>1, <1>3, TiledTail
  <1>5. b \in Seq(Nat) /\ Len(b) \in Nat /\ StopOf(b) \in Nat /\ StopOf(b) = from + Len(b)
    BY <1>4, StretchEnds DEF StopOf
  <1>6. right \in Nat /\ right <= Total(b) /\ Total(b) \in Nat /\ Total(b) <= Len(b)
    BY <1>2, <1>5, RowsOfScored
  <1>7. totals.correct \in Nat /\ totals.total \in Nat /\ totals.correct <= totals.total
    BY DEF AdapterInv, AdapterTyped
  <1>8. /\ totals' \in [correct : Nat, total : Nat] /\ totals'.correct <= totals'.total
        /\ totals'.total < StopOf(b)
    <2> PICK c, t : c = totals.correct + right /\ t = totals.total + Total(b)
      OBVIOUS
    <2>1. totals' = [correct |-> c, total |-> t]
      BY <1>2
    <2>2. c \in Nat /\ t \in Nat /\ c <= t /\ t < StopOf(b)
      <3> PICK x, y, z, n, e : x = totals.correct /\ y = totals.total /\ z = Total(b) /\ n = Len(b) /\ e = StopOf(b)
        OBVIOUS
      <3>1. x \in Nat /\ y \in Nat /\ x <= y /\ y < from
        BY <1>3, <1>7
      <3>2. z \in Nat /\ right <= z /\ right \in Nat /\ z <= n
        BY <1>6
      <3>3. n \in Nat /\ e = from + n
        BY <1>5
      <3>4. c = x + right /\ t = y + z
        OBVIOUS
      <3>5. c \in Nat /\ t \in Nat /\ c <= t /\ t < e
        BY ONLY <3>1, <3>2, <3>3, <3>4, from \in Nat
      <3> QED BY <3>5
    <2>3. totals'.correct = c /\ totals'.total = t
      BY <2>1
    <2> QED BY <2>1, <2>2, <2>3
  <1>9. AdapterTyped'
    BY <1>1, <1>8 DEF AdapterInv, AdapterTyped
  <1>10. Tiled(batches', StopOf(b), Len(requests') + 1)
    BY <1>1, <1>4
  <1>11. logprobs' = << >> /\ \A i \in 1 .. Len(logprobs') : logprobs'[i] = i
    BY <1>1 DEF AdapterInv
  <1> QED BY <1>1, <1>5, <1>8, <1>9, <1>10, <1>11 DEF AdapterInv

LEMMA AdapterStep == AdapterInv /\ [AdapterNext]_adapterVars => AdapterInv'
  <1> SUFFICES ASSUME AdapterInv, [AdapterNext]_adapterVars PROVE AdapterInv'
    OBVIOUS
  <1>1. CASE BinaryFails
    <2>1. outcome' \in {"error", "RuntimeError"} /\ UNCHANGED <<requests, caller, batches, logprobs, totals>>
      BY <1>1 DEF BinaryFails
    <2>2. AdapterTyped'
      BY <2>1 DEF AdapterInv, AdapterTyped
    <2> QED BY <2>1, <2>2 DEF AdapterInv
  <1>2. CASE Return
    <2>1. batches = << >> /\ outcome' = "done" /\ UNCHANGED <<requests, caller, batches, logprobs, totals>>
      BY <1>2 DEF Return
    <2>2. AdapterTyped'
      BY <2>1 DEF AdapterInv, AdapterTyped
    <2> QED BY <2>1, <2>2 DEF AdapterInv
  <1>3. CASE UNCHANGED adapterVars
    <2>1. AdapterTyped'
      BY <1>3 DEF AdapterInv, AdapterTyped, adapterVars
    <2> QED BY <1>3, <2>1 DEF AdapterInv, adapterVars
  <1> QED BY <1>1, <1>2, <1>3, ScoreKeepsAligned, SmokeKeepsAligned DEF AdapterNext

(* Whatever lines the binary passes over or prints no row for, however the requests are   *)
(* sized: the answers of a call are those of its requests in order, one for each when it  *)
(* returns; a batch with as many rows as requests has every number that is looked up; and *)
(* only a single request makes a batch over the budget (hspa_lm_eval_adapter.py with      *)
(* run_score).                                                                            *)
THEOREM AnswersStayAligned == AdapterSpec => []AnswersAligned
  BY AdapterStarts, AdapterStep, InvIsAligned, PTL DEF AdapterSpec

-----------------------------------------------------------------------------
(* Folds from left to right, and what holds along them. *)

(* What holds of 0, and of n + 1 whenever of n, holds up to L. *)
LEMMA Climbs ==
  ASSUME NEW L \in Nat, NEW A, 0 \in A, \A n \in Nat : n < L /\ n \in A => n + 1 \in A
  PROVE  \A n \in 0 .. L : n \in A
  <1> DEFINE bad == {n \in Nat : n <= L /\ n \notin A}
  <1>1. SUFFICES ASSUME bad # {} PROVE FALSE
    OBVIOUS
  <1>2. PICK m : m = Min(bad)
    OBVIOUS
  <1>3. m \in bad /\ \A x \in bad : m <= x
    <2>1. bad \in SUBSET Nat
      OBVIOUS
    <2> HIDE DEF bad
    <2> QED BY <1>1, <1>2, <2>1, LeastOfNats
  <1>4. m \in Nat /\ m <= L /\ m \notin A /\ m # 0
    BY <1>3
  <1>5. m - 1 \in Nat /\ m - 1 \notin bad
    BY <1>3, <1>4
  <1>6. m - 1 \in A
    BY <1>4, <1>5
  <1> QED BY <1>4, <1>5, <1>6

(* A fold from left to right over 1 .. L, as the iteration over the subsets of it. *)
StepNext(g, F, base, s) == IF s = {} THEN base ELSE F[<<Max(s), g[s \ {Max(s)}]>>]
Steps(g, F, base, L, T) ==
    /\ g \in [SUBSET (1 .. L) -> T]
    /\ \A s \in SUBSET (1 .. L) : /\ g[s] = StepNext(g, F, base, s)
                                  /\ s # {} => Max(s) \in 1 .. L /\ g[s \ {Max(s)}] \in T
LEMMA StepsExist ==
  ASSUME NEW L \in Nat, NEW T, NEW base \in T, NEW F \in [(1 .. L) \X T -> T]
  PROVE  \E g : Steps(g, F, base, L, T)
  <1> DEFINE S == 1 .. L
             pick == [s \in SUBSET S |-> Max(s)]
  <1>1. ASSUME NEW s \in SUBSET S, s # {} PROVE Max(s) \in s
    <2>1. s \in SUBSET Nat /\ \A x \in s : x <= L
      OBVIOUS
    <2> QED BY <1>1, <2>1, GreatestOfBounded
  <1>2. Picks(pick, S)
    BY <1>1 DEF Picks
  <1>3. IsFiniteSet(S)
    BY FS_Interval
  <1>4. PICK g : Folds(g, F, base, pick, S, T)
    <2> HIDE DEF pick, S
    <2>1. F \in [S \X T -> T]
      BY DEF S
    <2> QED BY <1>2, <1>3, <2>1, FoldsExist
  <1>5. g \in [SUBSET S -> T]
    BY <1>4 DEF Folds
  <1>6. ASSUME NEW s \in SUBSET S
        PROVE  g[s] = StepNext(g, F, base, s) /\ (s # {} => Max(s) \in S /\ g[s \ {Max(s)}] \in T)
    <2>1. g[s] = FoldNext(g, F, base, pick, s)
      BY <1>4 DEF Folds
    <2>2. pick[s] = Max(s)
      OBVIOUS
    <2>3. g[s] = StepNext(g, F, base, s)
      BY <2>1, <2>2 DEF FoldNext, StepNext
    <2>4. ASSUME s # {} PROVE Max(s) \in S /\ g[s \ {Max(s)}] \in T
      BY <1>1, <1>5, <2>4
    <2> QED BY <2>3, <2>4
  <1> QED BY <1>5, <1>6 DEF Steps

(* What the steps of such a fold leave after each of 1 .. L. *)
LEMMA StepsInOrder ==
  ASSUME NEW L \in Nat, NEW g
  PROVE  \A n \in 1 .. L : /\ 1 .. n \in SUBSET (1 .. L) /\ 1 .. n # {}
                           /\ Max(1 .. n) = n /\ (1 .. n) \ {Max(1 .. n)} = 1 .. n - 1
  <1> TAKE n \in 1 .. L
  <1>1. n \in Nat /\ n > 0 /\ 1 .. n \in SUBSET (1 .. L)
    OBVIOUS
  <1> QED BY <1>1, LastIsMax

-----------------------------------------------------------------------------
(* The training digest: the lines of a kind, and the three folds over them. *)

Adding(g, l, s) == IF s = {} THEN << >> ELSE Adds("summary", g[s \ {Max(s)}], l[Max(s)])
LEMMA SaidSteps ==
  ASSUME NEW l \in Seq(Line)
  PROVE  \E h : /\ h[0] = << >> /\ h[Len(l)] = Said(l, "summary")
                /\ \A n \in 1 .. Len(l) : h[n] = Adds("summary", h[n - 1], l[n])
  <1> DEFINE is(g) == g = [s \in SUBSET DOMAIN l |-> Adding(g, l, s)]
  <1> PICK L : L = Len(l)
    OBVIOUS
  <1>0. L \in Nat /\ DOMAIN l = 1 .. L
    OBVIOUS
  <1>1. Said(l, "summary") = (CHOOSE g : is(g))[DOMAIN l]
    BY Zenon DEF Said, FoldLeft, MapThenFoldSet, Adding
  <1>2. \E g : is(g)
    <2> DEFINE T == Seq(SummaryLine)
               F == [p \in (1 .. L) \X T |-> Adds("summary", p[2], l[p[1]])]
    <2>1. F \in [(1 .. L) \X T -> T]
      <3>1. ASSUME NEW i \in 1 .. L, NEW acc \in T PROVE Adds("summary", acc, l[i]) \in T
        <4>1. l[i] \in Line
          BY <1>0
        <4>2. l[i].says = "summary" => l[i] \in SummaryLine
          BY <4>1 DEF Line
        <4> QED BY <4>2 DEF Adds
      <3> QED BY <3>1
    <2>2. << >> \in T
      OBVIOUS
    <2>3. PICK g : Steps(g, F, << >>, L, T)
      <3>1. PICK none : none = << >>
        OBVIOUS
      <3> HIDE DEF F, T
      <3>2. none \in T
        BY Zenon, <2>2, <3>1
      <3>3. \E g : Steps(g, F, none, L, T)
        BY <1>0, <2>1, <3>2, StepsExist
      <3> QED BY Zenon, <3>1, <3>3
    <2>4. ASSUME NEW s \in SUBSET (1 .. L) PROVE g[s] = Adding(g, l, s)
      <3>1. g[s] = StepNext(g, F, << >>, s)
        <4> HIDE DEF F, T
        <4> QED BY <2>3 DEF Steps
      <3>2. CASE s = {}
        BY <3>1, <3>2 DEF StepNext, Adding
      <3>3. CASE s # {}
        <4>1. <<Max(s), g[s \ {Max(s)}]>> \in (1 .. L) \X T
          <5> HIDE DEF F, T
          <5> QED BY <2>3, <3>3 DEF Steps
        <4>2. F[<<Max(s), g[s \ {Max(s)}]>>] = Adds("summary", g[s \ {Max(s)}], l[Max(s)])
          BY <4>1
        <4> QED BY <3>1, <3>3, <4>2 DEF StepNext, Adding
      <3> QED BY <3>2, <3>3
    <2>5. g = [s \in SUBSET (1 .. L) |-> Adding(g, l, s)]
      <3> HIDE DEF F, T
      <3> QED BY <2>3, <2>4 DEF Steps
    <2> QED BY <1>0, <2>5
  <1>3. PICK g : g = CHOOSE f : is(f)
    OBVIOUS
  <1>4. is(g)
    <2> HIDE DEF is
    <2> QED BY <1>2, <1>3
  <1>5. \A s \in SUBSET (1 .. L) : g[s] = Adding(g, l, s)
    BY <1>0, <1>4
  <1> DEFINE h == [n \in 0 .. L |-> g[1 .. n]]
  <1>6. h[0] = << >>
    <2>1. 1 .. 0 = {} /\ {} \in SUBSET (1 .. L)
      OBVIOUS
    <2>2. g[{}] = << >>
      BY Zenon, <1>5, <2>1 DEF Adding
    <2>3. h[0] = g[1 .. 0]
      BY <1>0
    <2> QED BY Zenon, <2>1, <2>2, <2>3
  <1>7. h[L] = Said(l, "summary")
    <2> HIDE DEF is
    <2> QED BY <1>0, <1>1, <1>3
  <1>8. ASSUME NEW n \in 1 .. L PROVE h[n] = Adds("summary", h[n - 1], l[n])
    <2>1. /\ 1 .. n \in SUBSET (1 .. L) /\ 1 .. n # {}
          /\ Max(1 .. n) = n /\ (1 .. n) \ {Max(1 .. n)} = 1 .. n - 1
      BY <1>0, StepsInOrder
    <2>2. g[1 .. n] = Adds("summary", g[1 .. n - 1], l[n])
      BY <1>5, <2>1 DEF Adding
    <2>3. h[n] = g[1 .. n] /\ h[n - 1] = g[1 .. n - 1]
      BY <1>0
    <2> QED BY <2>2, <2>3
  <1> QED
    <2> HIDE DEF h
    <2> QED BY <1>6, <1>7, <1>8

LEMMA SaidIsSummaries ==
  ASSUME NEW l \in Seq(Line)
  PROVE  Said(l, "summary") \in Seq(SummaryLine)
  <1>1. PICK h : /\ h[0] = << >> /\ h[Len(l)] = Said(l, "summary")
                 /\ \A n \in 1 .. Len(l) : h[n] = Adds("summary", h[n - 1], l[n])
    BY SaidSteps
  <1> DEFINE A == {n \in Nat : h[n] \in Seq(SummaryLine)}
  <1>2. 0 \in A
    <2>1. << >> \in Seq(SummaryLine)
      OBVIOUS
    <2> QED BY Zenon, <1>1, <2>1
  <1>3. ASSUME NEW n \in Nat, n < Len(l), n \in A PROVE n + 1 \in A
    <2>1. n + 1 \in 1 .. Len(l) /\ (n + 1) - 1 = n
      BY <1>3
    <2>2. h[n + 1] = Adds("summary", h[n], l[n + 1]) /\ l[n + 1] \in Line
      BY <1>1, <2>1
    <2>3. l[n + 1].says = "summary" => l[n + 1] \in SummaryLine
      BY <2>2 DEF Line
    <2>4. h[n] \in Seq(SummaryLine)
      BY <1>3
    <2>5. h[n + 1] \in Seq(SummaryLine)
      <3>1. CASE l[n + 1].says = "summary"
        <4>1. h[n + 1] = Append(h[n], l[n + 1])
          BY <2>2, <3>1 DEF Adds
        <4> QED BY <2>3, <2>4, <3>1, <4>1, AppendProperties
      <3>2. CASE l[n + 1].says # "summary"
        BY <2>2, <2>4, <3>2 DEF Adds
      <3> QED BY <3>1, <3>2
    <2> QED BY <2>5
  <1>4. Len(l) \in Nat
    OBVIOUS
  <1>5. \A n \in 0 .. Len(l) : n \in A
    <2> HIDE DEF A
    <2> QED BY <1>2, <1>3, <1>4, Climbs
  <1>6. Len(l) \in A
    BY <1>4, <1>5
  <1> QED BY <1>1, <1>6

TurnShape == [dir : {-1, 0, 1}, n : Nat]
RowShape == [run : Nat, found : BOOLEAN]

LEMMA DiffIsInt ==
  ASSUME NEW l \in Seq(SummaryLine), NEW i \in Nat, 1 <= i, i + 1 <= Len(l)
  PROVE  Diff(l, i) \in Int /\ l[i].avg \in Int /\ l[i + 1].avg \in Int
  <1>1. i \in 1 .. Len(l) /\ i + 1 \in 1 .. Len(l)
    OBVIOUS
  <1>2. l[i] \in SummaryLine /\ l[i + 1] \in SummaryLine
    BY <1>1
  <1> QED BY <1>2 DEF SummaryLine, Diff

LEMMA TurnsTyped ==
  ASSUME NEW l \in Seq(SummaryLine), NEW i \in 1 .. Len(l) - 1, NEW acc \in TurnShape
  PROVE  Turned(l, acc, i) \in TurnShape
  BY DEF Turned, TurnShape

LEMMA PlateauTyped ==
  ASSUME NEW l \in Seq(SummaryLine), NEW i \in 1 .. Len(l) - 1, NEW acc \in RowShape
  PROVE  Runs(l, acc, i) \in RowShape
  <1>1. acc.run \in Nat /\ acc.found \in BOOLEAN
    BY DEF RowShape
  <1>2. Flat(l, i) \in BOOLEAN
    BY DEF Flat
  <1> QED BY <1>1, <1>2 DEF Runs, RowShape

TurnNext(g, l, L, s) == IF s = {} THEN [dir |-> 0, n |-> 0] ELSE Turned(l, g[s \ {Max(s)}], Upto(L)[Max(s)])
LEMMA TurnsSteps ==
  ASSUME NEW l \in Seq(SummaryLine), Len(l) > 1
  PROVE  \E h : /\ h[0] = [dir |-> 0, n |-> 0] /\ h[Len(l) - 1].n = Turns(l)
                /\ \A n \in 1 .. Len(l) - 1 : h[n] = Turned(l, h[n - 1], n)
  <1> PICK L : L = Len(l) - 1
    OBVIOUS
  <1>0. L \in Nat /\ L > 0 /\ Len(l) = L + 1 /\ DOMAIN Upto(L) = 1 .. L /\ \A n \in 1 .. L : Upto(L)[n] = n
    BY DEF Upto
  <1> PICK none : none = [dir |-> 0, n |-> 0]
    OBVIOUS
  <1> DEFINE is(g) == g = [s \in SUBSET DOMAIN Upto(L) |-> TurnNext(g, l, L, s)]
  <1>1. Turns(l) = (CHOOSE g : is(g))[DOMAIN Upto(L)].n
    <2>1. Turns(l) = FoldLeft(LAMBDA acc, i : Turned(l, acc, i), [dir |-> 0, n |-> 0], Upto(L)).n
      BY Zenon DEF Turns
    <2> QED BY Zenon, <2>1 DEF FoldLeft, MapThenFoldSet, TurnNext
  <1>2. \E g : is(g)
    <2> DEFINE F == [p \in (1 .. L) \X TurnShape |-> Turned(l, p[2], p[1])]
    <2>1. F \in [(1 .. L) \X TurnShape -> TurnShape]
      <3>1. ASSUME NEW i \in 1 .. L, NEW acc \in TurnShape PROVE Turned(l, acc, i) \in TurnShape
        BY <1>0, TurnsTyped
      <3> QED BY <3>1
    <2>2. none \in TurnShape
      BY DEF TurnShape
    <2>3. PICK g : Steps(g, F, none, L, TurnShape)
      <3> HIDE DEF F
      <3> QED BY <1>0, <2>1, <2>2, StepsExist
    <2>4. ASSUME NEW s \in SUBSET (1 .. L) PROVE g[s] = TurnNext(g, l, L, s)
      <3>1. g[s] = StepNext(g, F, none, s)
        <4> HIDE DEF F
        <4> QED BY <2>3 DEF Steps
      <3>2. CASE s = {}
        BY Zenon, <3>1, <3>2 DEF StepNext, TurnNext
      <3>3. CASE s # {}
        <4>1. Max(s) \in 1 .. L /\ g[s \ {Max(s)}] \in TurnShape
          <5> HIDE DEF F
          <5> QED BY <2>3, <3>3 DEF Steps
        <4>2. F[<<Max(s), g[s \ {Max(s)}]>>] = Turned(l, g[s \ {Max(s)}], Max(s))
          BY <4>1
        <4>3. Upto(L)[Max(s)] = Max(s)
          BY <1>0, <4>1
        <4>4. g[s] = F[<<Max(s), g[s \ {Max(s)}]>>]
          <5> HIDE DEF F
          <5> QED BY <3>1, <3>3 DEF StepNext
        <4>5. g[s] = Turned(l, g[s \ {Max(s)}], Upto(L)[Max(s)])
          <5> HIDE DEF F
          <5> QED BY Zenon, <4>2, <4>3, <4>4
        <4> HIDE DEF F
        <4> QED BY Zenon, <3>3, <4>5 DEF TurnNext
      <3> QED BY <3>2, <3>3
    <2>5. g = [s \in SUBSET (1 .. L) |-> TurnNext(g, l, L, s)]
      <3> HIDE DEF F
      <3> QED BY <2>3, <2>4 DEF Steps
    <2>6. DOMAIN Upto(L) = 1 .. L
      BY <1>0
    <2>7. is(g)
      <3> HIDE DEF F
      <3> QED BY Zenon, <2>5, <2>6
    <2> HIDE DEF is
    <2> QED BY <2>7
  <1>3. PICK g : g = CHOOSE f : is(f)
    OBVIOUS
  <1>4. is(g)
    <2> HIDE DEF is
    <2> QED BY <1>2, <1>3
  <1>5. \A s \in SUBSET (1 .. L) : g[s] = TurnNext(g, l, L, s)
    BY <1>0, <1>4
  <1> DEFINE h == [n \in 0 .. L |-> g[1 .. n]]
  <1>6. h[0] = [dir |-> 0, n |-> 0]
    <2>1. 1 .. 0 = {} /\ {} \in SUBSET (1 .. L)
      OBVIOUS
    <2>2. g[{}] = [dir |-> 0, n |-> 0]
      BY Zenon, <1>5, <2>1 DEF TurnNext
    <2>3. h[0] = g[1 .. 0]
      BY <1>0
    <2> QED BY Zenon, <2>1, <2>2, <2>3
  <1>7. h[L].n = Turns(l)
    <2> HIDE DEF is
    <2>1. h[L] = g[1 .. L]
      BY <1>0
    <2> HIDE DEF h
    <2> QED BY Zenon, <1>0, <1>1, <1>3, <2>1
  <1>8. ASSUME NEW n \in 1 .. L PROVE h[n] = Turned(l, h[n - 1], n)
    <2>1. /\ 1 .. n \in SUBSET (1 .. L) /\ 1 .. n # {}
          /\ Max(1 .. n) = n /\ (1 .. n) \ {Max(1 .. n)} = 1 .. n - 1
      BY <1>0, StepsInOrder
    <2>2. g[1 .. n] = Turned(l, g[1 .. n - 1], Upto(L)[n])
      <3>1. g[1 .. n] = TurnNext(g, l, L, 1 .. n)
        BY Zenon, <1>5, <2>1
      <3> QED BY Zenon, <2>1, <3>1 DEF TurnNext
    <2>3. h[n] = g[1 .. n] /\ h[n - 1] = g[1 .. n - 1] /\ Upto(L)[n] = n
      BY <1>0
    <2> HIDE DEF h
    <2> QED BY Zenon, <2>2, <2>3
  <1> QED
    <2> HIDE DEF h
    <2>1. Len(l) - 1 = L
      BY <1>0
    <2> QED BY Zenon, <1>6, <1>7, <1>8, <2>1

RunNext(g, l, L, s) == IF s = {} THEN [run |-> 1, found |-> FALSE] ELSE Runs(l, g[s \ {Max(s)}], Upto(L)[Max(s)])
LEMMA PlateauSteps ==
  ASSUME NEW l \in Seq(SummaryLine), Len(l) > 1
  PROVE  \E h : /\ h[0] = [run |-> 1, found |-> FALSE] /\ h[Len(l) - 1].found = Plateau(l)
                /\ \A n \in 1 .. Len(l) - 1 : h[n] = Runs(l, h[n - 1], n)
  <1> PICK L : L = Len(l) - 1
    OBVIOUS
  <1>0. L \in Nat /\ L > 0 /\ Len(l) = L + 1 /\ DOMAIN Upto(L) = 1 .. L /\ \A n \in 1 .. L : Upto(L)[n] = n
    BY DEF Upto
  <1> PICK none : none = [run |-> 1, found |-> FALSE]
    OBVIOUS
  <1> DEFINE is(g) == g = [s \in SUBSET DOMAIN Upto(L) |-> RunNext(g, l, L, s)]
  <1>1. Plateau(l) = (CHOOSE g : is(g))[DOMAIN Upto(L)].found
    <2>1. Plateau(l) = FoldLeft(LAMBDA acc, i : Runs(l, acc, i), [run |-> 1, found |-> FALSE], Upto(L)).found
      BY Zenon DEF Plateau
    <2> QED BY Zenon, <2>1 DEF FoldLeft, MapThenFoldSet, RunNext
  <1>2. \E g : is(g)
    <2> DEFINE F == [p \in (1 .. L) \X RowShape |-> Runs(l, p[2], p[1])]
    <2>1. F \in [(1 .. L) \X RowShape -> RowShape]
      <3>1. ASSUME NEW i \in 1 .. L, NEW acc \in RowShape PROVE Runs(l, acc, i) \in RowShape
        BY <1>0, PlateauTyped
      <3> QED BY <3>1
    <2>2. none \in RowShape
      BY DEF RowShape
    <2>3. PICK g : Steps(g, F, none, L, RowShape)
      <3> HIDE DEF F
      <3> QED BY <1>0, <2>1, <2>2, StepsExist
    <2>4. ASSUME NEW s \in SUBSET (1 .. L) PROVE g[s] = RunNext(g, l, L, s)
      <3>1. g[s] = StepNext(g, F, none, s)
        <4> HIDE DEF F
        <4> QED BY <2>3 DEF Steps
      <3>2. CASE s = {}
        BY Zenon, <3>1, <3>2 DEF StepNext, RunNext
      <3>3. CASE s # {}
        <4>1. Max(s) \in 1 .. L /\ g[s \ {Max(s)}] \in RowShape
          <5> HIDE DEF F
          <5> QED BY <2>3, <3>3 DEF Steps
        <4>2. F[<<Max(s), g[s \ {Max(s)}]>>] = Runs(l, g[s \ {Max(s)}], Max(s))
          BY <4>1
        <4>3. Upto(L)[Max(s)] = Max(s)
          BY <1>0, <4>1
        <4>4. g[s] = F[<<Max(s), g[s \ {Max(s)}]>>]
          <5> HIDE DEF F
          <5> QED BY <3>1, <3>3 DEF StepNext
        <4>5. g[s] = Runs(l, g[s \ {Max(s)}], Upto(L)[Max(s)])
          <5> HIDE DEF F
          <5> QED BY Zenon, <4>2, <4>3, <4>4
        <4> HIDE DEF F
        <4> QED BY Zenon, <3>3, <4>5 DEF RunNext
      <3> QED BY <3>2, <3>3
    <2>5. g = [s \in SUBSET (1 .. L) |-> RunNext(g, l, L, s)]
      <3> HIDE DEF F
      <3> QED BY <2>3, <2>4 DEF Steps
    <2>6. DOMAIN Upto(L) = 1 .. L
      BY <1>0
    <2>7. is(g)
      <3> HIDE DEF F
      <3> QED BY Zenon, <2>5, <2>6
    <2> HIDE DEF is
    <2> QED BY <2>7
  <1>3. PICK g : g = CHOOSE f : is(f)
    OBVIOUS
  <1>4. is(g)
    <2> HIDE DEF is
    <2> QED BY <1>2, <1>3
  <1>5. \A s \in SUBSET (1 .. L) : g[s] = RunNext(g, l, L, s)
    BY <1>0, <1>4
  <1> DEFINE h == [n \in 0 .. L |-> g[1 .. n]]
  <1>6. h[0] = [run |-> 1, found |-> FALSE]
    <2>1. 1 .. 0 = {} /\ {} \in SUBSET (1 .. L)
      OBVIOUS
    <2>2. g[{}] = [run |-> 1, found |-> FALSE]
      BY Zenon, <1>5, <2>1 DEF RunNext
    <2>3. h[0] = g[1 .. 0]
      BY <1>0
    <2> QED BY Zenon, <2>1, <2>2, <2>3
  <1>7. h[L].found = Plateau(l)
    <2> HIDE DEF is
    <2>1. h[L] = g[1 .. L]
      BY <1>0
    <2> HIDE DEF h
    <2> QED BY Zenon, <1>0, <1>1, <1>3, <2>1
  <1>8. ASSUME NEW n \in 1 .. L PROVE h[n] = Runs(l, h[n - 1], n)
    <2>1. /\ 1 .. n \in SUBSET (1 .. L) /\ 1 .. n # {}
          /\ Max(1 .. n) = n /\ (1 .. n) \ {Max(1 .. n)} = 1 .. n - 1
      BY <1>0, StepsInOrder
    <2>2. g[1 .. n] = Runs(l, g[1 .. n - 1], Upto(L)[n])
      <3>1. g[1 .. n] = RunNext(g, l, L, 1 .. n)
        BY Zenon, <1>5, <2>1
      <3> QED BY Zenon, <2>1, <3>1 DEF RunNext
    <2>3. h[n] = g[1 .. n] /\ h[n - 1] = g[1 .. n - 1] /\ Upto(L)[n] = n
      BY <1>0
    <2> HIDE DEF h
    <2> QED BY Zenon, <2>2, <2>3
  <1> QED
    <2> HIDE DEF h
    <2>1. Len(l) - 1 = L
      BY <1>0
    <2> QED BY Zenon, <1>6, <1>7, <1>8, <2>1

(* How far the count of direction changes and the last direction have come. *)
TurnsAt(l, n, acc) ==
    /\ acc \in TurnShape
    /\ acc.n = Cardinality({i \in 1 .. n : Reverses(l, i)})
    /\ acc.dir = 0 => \A k \in 1 .. n : Diff(l, k) = 0
    /\ acc.dir # 0 => \E j \in 1 .. n : /\ acc.dir = IF Diff(l, j) > 0 THEN 1 ELSE -1
                                        /\ Diff(l, j) # 0 /\ \A k \in j + 1 .. n : Diff(l, k) = 0

LEMMA OppositeSigns ==
  ASSUME NEW a \in Int, NEW b \in Int
  PROVE  a * b < 0 <=> (a < 0 /\ b > 0) \/ (a > 0 /\ b < 0)
  OBVIOUS

LEMMA CountsOneMore ==
  ASSUME NEW n \in Nat, NEW P, P \in [1 .. n + 1 -> BOOLEAN]
  PROVE  /\ Cardinality({i \in 1 .. n : P[i]}) \in Nat
         /\ Cardinality({i \in 1 .. n + 1 : P[i]})
              = Cardinality({i \in 1 .. n : P[i]}) + IF P[n + 1] THEN 1 ELSE 0
  <1> DEFINE S == {i \in 1 .. n : P[i]}
  <1>1. IsFiniteSet(S) /\ Cardinality(S) \in Nat /\ n + 1 \notin S
    <2>1. IsFiniteSet(1 .. n) /\ S \subseteq 1 .. n
      BY FS_Interval
    <2>2. IsFiniteSet(S)
      <3> HIDE DEF S
      <3> QED BY <2>1, FS_Subset
    <2>3. n + 1 \notin S
      OBVIOUS
    <2> HIDE DEF S
    <2> QED BY <2>2, <2>3, FS_CardinalityType
  <1>2. {i \in 1 .. n + 1 : P[i]} = IF P[n + 1] THEN S \union {n + 1} ELSE S
    <2>1. 1 .. n + 1 = (1 .. n) \union {n + 1}
      OBVIOUS
    <2> QED BY <2>1
  <1>3. Cardinality(S \union {n + 1}) = Cardinality(S) + 1
    <2> HIDE DEF S
    <2> QED BY <1>1, FS_AddElement
  <1> HIDE DEF S
  <1>4. CASE P[n + 1]
    BY <1>1, <1>2, <1>3, <1>4 DEF S
  <1>5. CASE ~ P[n + 1]
    <2>1. {i \in 1 .. n + 1 : P[i]} = S
      BY Zenon, <1>2, <1>5
    <2>2. Cardinality({i \in 1 .. n + 1 : P[i]}) = Cardinality(S)
      BY Zenon, <2>1
    <2>3. Cardinality(S) + 0 = Cardinality(S)
      BY <1>1
    <2> QED BY <1>1, <1>5, <2>2, <2>3 DEF S
  <1> QED BY <1>4, <1>5

LEMMA TurnsStep ==
  ASSUME NEW l \in Seq(SummaryLine), NEW n \in Nat, n + 1 < Len(l), NEW acc, TurnsAt(l, n, acc)
  PROVE  TurnsAt(l, n + 1, Turned(l, acc, n + 1))
  <1> PICK m : m = n + 1
    OBVIOUS
  <1> PICK D : D = [k \in 1 .. m |-> Diff(l, k)]
    OBVIOUS
  <1>0. m \in Nat /\ m - 1 = n /\ D \in [1 .. m -> Int] /\ m \in 1 .. m /\ Len(l) \in Nat
    <2>1. ASSUME NEW k \in 1 .. m PROVE Diff(l, k) \in Int
      <3>1. k \in Nat /\ 1 <= k /\ k + 1 <= Len(l)
        OBVIOUS
      <3> QED BY <3>1, DiffIsInt
    <2> QED BY <2>1
  <1>1. acc \in TurnShape /\ acc.n \in Nat /\ acc.dir \in {-1, 0, 1}
    BY DEF TurnsAt, TurnShape
  <1> PICK P : P = [i \in 1 .. n + 1 |-> Reverses(l, i)]
    OBVIOUS
  <1>2. P \in [1 .. n + 1 -> BOOLEAN] /\ \A i \in 1 .. n + 1 : P[i] <=> Reverses(l, i)
    BY Zenon DEF Reverses
  <1>3. {i \in 1 .. n : P[i]} = {i \in 1 .. n : Reverses(l, i)} /\ {i \in 1 .. n + 1 : P[i]} = {i \in 1 .. m : Reverses(l, i)}
    BY <1>2
  <1>4. Cardinality({i \in 1 .. m : Reverses(l, i)}) = acc.n + IF Reverses(l, m) THEN 1 ELSE 0
    <2>1. Cardinality({i \in 1 .. n + 1 : P[i]}) = Cardinality({i \in 1 .. n : P[i]}) + IF P[n + 1] THEN 1 ELSE 0
      BY <1>2, CountsOneMore
    <2>2. acc.n = Cardinality({i \in 1 .. n : Reverses(l, i)})
      BY DEF TurnsAt
    <2>3. n + 1 \in 1 .. n + 1
      OBVIOUS
    <2>4. P[n + 1] <=> Reverses(l, m)
      BY <1>2, <2>3
    <2> QED BY <1>3, <2>1, <2>2, <2>4
  <1>5. Reverses(l, m) <=> \E j \in 1 .. n : /\ (D[j] < 0 /\ D[m] > 0) \/ (D[j] > 0 /\ D[m] < 0)
                                             /\ \A k \in j + 1 .. n : D[k] = 0
    <2>1. \A j \in 1 .. n : Diff(l, j) * Diff(l, m) < 0 <=> (D[j] < 0 /\ D[m] > 0) \/ (D[j] > 0 /\ D[m] < 0)
      <3> TAKE j \in 1 .. n
      <3>1. D[j] = Diff(l, j) /\ D[m] = Diff(l, m) /\ D[j] \in Int /\ D[m] \in Int
        BY <1>0
      <3> QED BY <3>1, OppositeSigns
    <2>2. \A j \in 1 .. n : \A k \in j + 1 .. n : D[k] = Diff(l, k)
      BY <1>0
    <2> QED BY <1>0, <2>1, <2>2 DEF Reverses
  <1>6. acc.dir = 0 => \A k \in 1 .. n : D[k] = 0
    BY <1>0 DEF TurnsAt
  <1>7. acc.dir # 0 => \E j \in 1 .. n : /\ acc.dir = IF D[j] > 0 THEN 1 ELSE -1
                                         /\ D[j] # 0 /\ \A k \in j + 1 .. n : D[k] = 0
    BY <1>0 DEF TurnsAt
  <1>8. CASE D[m] = 0
    <2>1. Turned(l, acc, m) = acc /\ ~ Reverses(l, m)
      BY <1>0, <1>5, <1>8 DEF Turned
    <2>2. acc.dir = 0 => \A k \in 1 .. m : Diff(l, k) = 0
      <3> SUFFICES ASSUME acc.dir = 0, NEW k \in 1 .. m PROVE Diff(l, k) = 0
        OBVIOUS
      <3>1. D[k] = Diff(l, k) /\ (k = m \/ k \in 1 .. n)
        BY <1>0
      <3> QED BY <1>6, <1>8, <3>1
    <2>3. ASSUME acc.dir # 0
          PROVE  \E j \in 1 .. m : /\ acc.dir = IF Diff(l, j) > 0 THEN 1 ELSE -1
                                   /\ Diff(l, j) # 0 /\ \A k \in j + 1 .. m : Diff(l, k) = 0
      <3>1. PICK j \in 1 .. n : /\ acc.dir = IF D[j] > 0 THEN 1 ELSE -1
                                /\ D[j] # 0 /\ \A k \in j + 1 .. n : D[k] = 0
        BY <1>7, <2>3
      <3>2. j \in 1 .. m /\ D[j] = Diff(l, j) /\ \A k \in j + 1 .. m : D[k] = 0 /\ D[k] = Diff(l, k)
        <4>1. j \in 1 .. m /\ D[j] = Diff(l, j)
          BY <1>0
        <4>2. ASSUME NEW k \in j + 1 .. m PROVE D[k] = 0 /\ D[k] = Diff(l, k)
          <5>1. k \in 1 .. m /\ (k = m \/ k \in j + 1 .. n)
            BY <1>0
          <5>2. D[k] = Diff(l, k)
            BY <5>1
          <5> QED BY <1>8, <3>1, <5>1, <5>2
        <4> QED BY <4>1, <4>2
      <3> QED BY <3>1, <3>2
    <2> QED BY <1>1, <1>4, <2>1, <2>2, <2>3 DEF TurnsAt
  <1>9. CASE D[m] # 0
    <2> PICK to : to = IF D[m] > 0 THEN 1 ELSE -1
      OBVIOUS
    <2>1. to \in {-1, 1} /\ Diff(l, m) = D[m]
      BY <1>0
    <2>2. Turned(l, acc, m) = [dir |-> to, n |-> IF acc.dir \in {0, to} THEN acc.n ELSE acc.n + 1]
      BY <1>9, <2>1 DEF Turned
    <2>3. Reverses(l, m) <=> acc.dir \notin {0, to}
      <3>1. ASSUME acc.dir \notin {0, to} PROVE Reverses(l, m)
        <4>1. PICK j \in 1 .. n : /\ acc.dir = IF D[j] > 0 THEN 1 ELSE -1
                                  /\ D[j] # 0 /\ \A k \in j + 1 .. n : D[k] = 0
          BY <1>7, <3>1
        <4>2. D[j] \in Int /\ D[m] \in Int
          BY <1>0
        <4>3. (D[j] < 0 /\ D[m] > 0) \/ (D[j] > 0 /\ D[m] < 0)
          BY <1>9, <3>1, <4>1, <4>2
        <4> QED BY <1>5, <4>1, <4>3
      <3>2. ASSUME Reverses(l, m) PROVE acc.dir \notin {0, to}
        <4>1. PICK i \in 1 .. n : /\ (D[i] < 0 /\ D[m] > 0) \/ (D[i] > 0 /\ D[m] < 0)
                                  /\ \A k \in i + 1 .. n : D[k] = 0
          BY <1>5, <3>2
        <4>2. D[i] \in Int /\ D[m] \in Int /\ D[i] # 0
          BY <1>0, <4>1
        <4>3. acc.dir # 0
          BY <1>6, <4>2
        <4>4. PICK j \in 1 .. n : /\ acc.dir = IF D[j] > 0 THEN 1 ELSE -1
                                  /\ D[j] # 0 /\ \A k \in j + 1 .. n : D[k] = 0
          BY <1>7, <4>3
        <4>5. i = j
          <5>1. ~ (i < j)
            <6>1. SUFFICES ASSUME i < j PROVE FALSE
              OBVIOUS
            <6>2. j \in i + 1 .. n
              BY <6>1
            <6> QED BY <4>1, <4>4, <6>2
          <5>2. ~ (j < i)
            <6>1. SUFFICES ASSUME j < i PROVE FALSE
              OBVIOUS
            <6>2. i \in j + 1 .. n
              BY <6>1
            <6> QED BY <4>2, <4>4, <6>2
          <5> QED BY <5>1, <5>2
        <4> QED BY <4>1, <4>2, <4>3, <4>4, <4>5
      <3> QED BY <3>1, <3>2
    <2>4. Turned(l, acc, m).n = Cardinality({i \in 1 .. m : Reverses(l, i)})
      BY <1>1, <1>4, <2>2, <2>3
    <2>5. Turned(l, acc, m) \in TurnShape /\ Turned(l, acc, m).dir = to
      BY <1>1, <2>1, <2>2 DEF TurnShape
    <2>6. \E j \in 1 .. m : /\ to = IF Diff(l, j) > 0 THEN 1 ELSE -1
                            /\ Diff(l, j) # 0 /\ \A k \in j + 1 .. m : Diff(l, k) = 0
      <3>1. m \in 1 .. m /\ m + 1 .. m = {}
        BY <1>0
      <3> QED BY <1>9, <2>1, <3>1
    <2> QED BY <2>1, <2>4, <2>5, <2>6 DEF TurnsAt
  <1>10. TurnsAt(l, m, Turned(l, acc, m))
    BY <1>8, <1>9
  <1> QED BY <1>10

LEMMA TurnsCount ==
  ASSUME NEW l \in Seq(SummaryLine), Len(l) > 1
  PROVE  Turns(l) = Cardinality({i \in 1 .. Len(l) - 1 : Reverses(l, i)})
  <1>1. PICK h : /\ h[0] = [dir |-> 0, n |-> 0] /\ h[Len(l) - 1].n = Turns(l)
                 /\ \A n \in 1 .. Len(l) - 1 : h[n] = Turned(l, h[n - 1], n)
    BY TurnsSteps
  <1> DEFINE A == {n \in Nat : TurnsAt(l, n, h[n])}
  <1>0. Len(l) - 1 \in Nat
    OBVIOUS
  <1>2. 0 \in A
    <2>1. h[0] \in TurnShape /\ h[0].n = 0 /\ h[0].dir = 0
      BY <1>1 DEF TurnShape
    <2>2. {i \in 1 .. 0 : Reverses(l, i)} = {} /\ 1 .. 0 = {}
      OBVIOUS
    <2>3. Cardinality({i \in 1 .. 0 : Reverses(l, i)}) = 0
      BY <2>2, FS_EmptySet
    <2> QED BY <2>1, <2>2, <2>3 DEF TurnsAt
  <1>3. ASSUME NEW n \in Nat, n < Len(l) - 1, n \in A PROVE n + 1 \in A
    <2>1. n + 1 \in 1 .. Len(l) - 1 /\ (n + 1) - 1 = n /\ n + 1 < Len(l)
      BY <1>3
    <2>2. h[n + 1] = Turned(l, h[n], n + 1)
      BY <1>1, <2>1
    <2>3. TurnsAt(l, n + 1, Turned(l, h[n], n + 1))
      BY <1>3, <2>1, TurnsStep
    <2> QED BY <2>2, <2>3
  <1>4. \A n \in 0 .. Len(l) - 1 : n \in A
    <2> HIDE DEF A
    <2> QED BY <1>0, <1>2, <1>3, Climbs
  <1>5. Len(l) - 1 \in A
    BY <1>0, <1>4
  <1> QED BY <1>1, <1>5 DEF TurnsAt

RunsAt(l, n, acc) ==
    /\ acc \in RowShape /\ acc.run >= 1
    /\ acc.run >= 2 <=> n > 0 /\ Flat(l, n)
    /\ acc.found <=> \E i \in 1 .. n - 1 : Flat(l, i) /\ Flat(l, i + 1)

LEMMA RunsStep ==
  ASSUME NEW l \in Seq(SummaryLine), NEW n \in Nat, n + 1 < Len(l), NEW acc, RunsAt(l, n, acc)
  PROVE  RunsAt(l, n + 1, Runs(l, acc, n + 1))
  <1>1. acc \in RowShape /\ acc.run \in Nat /\ acc.found \in BOOLEAN /\ acc.run >= 1
    BY DEF RunsAt, RowShape
  <1>2. n + 1 \in 1 .. Len(l) - 1 /\ Flat(l, n + 1) \in BOOLEAN
    BY DEF Flat
  <1>3. Runs(l, acc, n + 1) \in RowShape
    BY <1>1, <1>2, PlateauTyped
  <1>4. Runs(l, acc, n + 1).run = (IF Flat(l, n + 1) THEN acc.run + 1 ELSE 1)
        /\ (Runs(l, acc, n + 1).found <=> acc.found \/ (Flat(l, n + 1) /\ acc.run + 1 >= 3))
    BY DEF Runs
  <1>5. acc.run + 1 >= 3 <=> n > 0 /\ Flat(l, n)
    BY <1>1 DEF RunsAt
  <1>6. (\E i \in 1 .. (n + 1) - 1 : Flat(l, i) /\ Flat(l, i + 1))
          <=> (\E i \in 1 .. n - 1 : Flat(l, i) /\ Flat(l, i + 1)) \/ (n > 0 /\ Flat(l, n) /\ Flat(l, n + 1))
    <2>1. CASE n = 0
      <3>1. 1 .. (n + 1) - 1 = {} /\ 1 .. n - 1 = {} /\ ~ (n > 0)
        BY <2>1
      <3> QED BY <3>1
    <2>2. CASE n > 0
      <3>1. 1 .. (n + 1) - 1 = (1 .. n - 1) \union {n}
        BY <2>2
      <3> HIDE DEF Flat
      <3> QED BY <2>2, <3>1
    <2> QED BY <2>1, <2>2
  <1>7. Runs(l, acc, n + 1).found <=> \E i \in 1 .. (n + 1) - 1 : Flat(l, i) /\ Flat(l, i + 1)
    BY <1>4, <1>5, <1>6 DEF RunsAt
  <1>8. Runs(l, acc, n + 1).run >= 1 /\ (Runs(l, acc, n + 1).run >= 2 <=> n + 1 > 0 /\ Flat(l, n + 1))
    BY <1>1, <1>2, <1>4
  <1> QED BY <1>3, <1>7, <1>8 DEF RunsAt

LEMMA PlateauFinds ==
  ASSUME NEW l \in Seq(SummaryLine), Len(l) > 1
  PROVE  Plateau(l) <=> \E i \in 1 .. Len(l) - 2 : l[i].avg = l[i + 1].avg /\ l[i].avg = l[i + 2].avg
  <1>1. PICK h : /\ h[0] = [run |-> 1, found |-> FALSE] /\ h[Len(l) - 1].found = Plateau(l)
                 /\ \A n \in 1 .. Len(l) - 1 : h[n] = Runs(l, h[n - 1], n)
    BY PlateauSteps
  <1> DEFINE A == {n \in Nat : RunsAt(l, n, h[n])}
  <1>0. Len(l) - 1 \in Nat /\ Len(l) \in Nat
    OBVIOUS
  <1>2. 0 \in A
    <2>1. h[0] \in RowShape /\ h[0].run = 1 /\ h[0].found = FALSE
      BY <1>1 DEF RowShape
    <2>2. 1 .. 0 - 1 = {}
      OBVIOUS
    <2> QED BY <2>1, <2>2 DEF RunsAt
  <1>3. ASSUME NEW n \in Nat, n < Len(l) - 1, n \in A PROVE n + 1 \in A
    <2>1. n + 1 \in 1 .. Len(l) - 1 /\ (n + 1) - 1 = n /\ n + 1 < Len(l)
      BY <1>3
    <2>2. h[n + 1] = Runs(l, h[n], n + 1)
      BY <1>1, <2>1
    <2>3. RunsAt(l, n + 1, Runs(l, h[n], n + 1))
      BY <1>3, <2>1, RunsStep
    <2> QED BY <2>2, <2>3
  <1>4. \A n \in 0 .. Len(l) - 1 : n \in A
    <2> HIDE DEF A
    <2> QED BY <1>0, <1>2, <1>3, Climbs
  <1>5. RunsAt(l, Len(l) - 1, h[Len(l) - 1])
    BY <1>0, <1>4
  <1>6. Plateau(l) <=> \E i \in 1 .. (Len(l) - 1) - 1 : Flat(l, i) /\ Flat(l, i + 1)
    BY <1>1, <1>5 DEF RunsAt
  <1>7. (Len(l) - 1) - 1 = Len(l) - 2
    BY <1>0
  <1>8. ASSUME NEW i \in 1 .. Len(l) - 2
        PROVE  Flat(l, i) /\ Flat(l, i + 1) <=> l[i].avg = l[i + 1].avg /\ l[i].avg = l[i + 2].avg
    <2>1. /\ i \in Nat /\ i + 1 \in Nat /\ 1 <= i /\ i + 1 <= Len(l) /\ 1 <= i + 1 /\ (i + 1) + 1 <= Len(l)
          /\ (i + 1) + 1 = i + 2
      BY <1>0
    <2>2. l[i].avg \in Int /\ l[i + 1].avg \in Int /\ l[i + 2].avg \in Int
      BY <2>1, DiffIsInt
    <2>3. Diff(l, i) = l[i + 1].avg - l[i].avg /\ Diff(l, i + 1) = l[i + 2].avg - l[i + 1].avg
      BY <2>1 DEF Diff
    <2> QED BY <2>2, <2>3 DEF Flat
  <1> QED BY <1>6, <1>7, <1>8

(* classify_loss_trajectory gives every log the class that the table above it names: *)
(* the two loops that keep a state, the last direction and the length of the run,    *)
(* count what the table counts.                                                      *)
LEMMA ClassIsShape ==
  ASSUME NEW lines \in Seq(Line)
  PROVE  classify_loss_trajectory(lines) = ShapeOf(lines)
  <1> PICK l : l = Said(lines, "summary")
    OBVIOUS
  <1>1. l \in Seq(SummaryLine) /\ Len(l) \in Nat
    BY SaidIsSummaries
  <1>2. CASE Len(l) < 2
    BY <1>2 DEF classify_loss_trajectory, ShapeOf
  <1>3. CASE ~ (Len(l) < 2)
    <2>1. l[1].best \in Int /\ l[Len(l)].best \in Int
      <3>1. l[1] \in SummaryLine /\ l[Len(l)] \in SummaryLine
        BY <1>1, <1>3
      <3> QED BY <3>1 DEF SummaryLine
    <2>2. Turns(l) = Cardinality({i \in 1 .. Len(l) - 1 : Reverses(l, i)})
      BY <1>1, <1>3, TurnsCount
    <2>3. Plateau(l) <=> \E i \in 1 .. Len(l) - 2 : l[i].avg = l[i + 1].avg /\ l[i].avg = l[i + 2].avg
      <3>1. Len(l) > 1
        BY <1>1, <1>3
      <3> QED BY Zenon, <1>1, <3>1, PlateauFinds
    <2>4. 2 * l[Len(l)].best = l[Len(l)].best * 2 /\ Len(l) > 1
      BY <1>1, <1>3, <2>1
    <2>5. classify_loss_trajectory(lines) =
            IF l[1].best > 0 /\ 2 * l[Len(l)].best > l[1].best THEN "collapsed"
            ELSE IF Turns(l) >= 4 THEN "oscillating"
            ELSE IF Plateau(l) THEN "plateau_after_N"
            ELSE IF NoisyRises(l) <= 1 THEN "monotone_decreasing" ELSE "noisy_no_class"
      BY Zenon, <1>3 DEF classify_loss_trajectory
    <2>6. ShapeOf(lines) =
            IF Len(l) > 1 /\ l[1].best > 0 /\ l[Len(l)].best * 2 > l[1].best THEN "collapsed"
            ELSE IF Cardinality({i \in 1 .. Len(l) - 1 : Reverses(l, i)}) >= 4 THEN "oscillating"
            ELSE IF \E i \in 1 .. Len(l) - 2 : l[i].avg = l[i + 1].avg /\ l[i].avg = l[i + 2].avg THEN "plateau_after_N"
            ELSE IF NoisyRises(l) <= 1 THEN "monotone_decreasing" ELSE "noisy_no_class"
      BY <1>3 DEF ShapeOf
    <2>7. Turns(l) >= 4 <=> Cardinality({i \in 1 .. Len(l) - 1 : Reverses(l, i)}) >= 4
      BY Zenon, <2>2
    <2>8. Len(l) > 1 /\ l[1].best > 0 /\ l[Len(l)].best * 2 > l[1].best
            <=> l[1].best > 0 /\ 2 * l[Len(l)].best > l[1].best
      BY Zenon, <2>4
    <2> QED BY <2>3, <2>5, <2>6, <2>7, <2>8
  <1> QED BY <1>2, <1>3

-----------------------------------------------------------------------------
(* What a digest tells is what the log held up to the line it was read to. *)

Shapes == {"", "insufficient_data", "collapsed", "oscillating", "plateau_after_N", "monotone_decreasing", "noisy_no_class"}
Regimes == {"", "n/a", "collapsed", "oscillating", "uniform", "mostly_uniform"}
NanKinds == {"", "none", "unclassified", "false_positive", "hard_nan"}
Made == [shape : Shapes, regime : Regimes, nans : NanKinds, upto : Nat, at : Nat, raced : BOOLEAN]
ToolShape == [at : {"off", "read", "write", "page", "load"}, cell : Cells \union {""}, lines : Seq(Line),
              entry : Entries \union {NoEntry}, raced : BOOLEAN, todo : SUBSET Cells, shown : [Cells -> Made]]

DigestTypes ==
    /\ stamp \in Nat
    /\ stdout \in [Cells -> [lines : Seq(Line), m : Nat]]
    /\ run_index \in [cells : SUBSET Cells, entry : [Cells -> Entries \union {NoEntry}]]
    /\ json \in [Cells -> Made] /\ summary \in [Cells -> Made]
    /\ tool \in ToolShape

Tells(d, lines) == d.upto <= Len(lines) /\ (d.at > 0 => d.shape = ShapeOf(SubSeq(lines, 1, d.upto)))
Prefix(part, lines) == Len(part) <= Len(lines) /\ part = SubSeq(lines, 1, Len(part))

CellTold(c) ==
    /\ stdout[c].m <= stamp /\ json[c].at <= stamp
    /\ Tells(json[c], stdout[c].lines) /\ Tells(summary[c], stdout[c].lines) /\ Tells(tool.shown[c], stdout[c].lines)
    /\ _digest_is_fresh(c) /\ ~ json[c].raced => json[c].upto = Len(stdout[c].lines)
ToolReads ==
    /\ tool.at \in {"read", "write", "page"} => tool.cell \in Cells
    /\ tool.at = "write" => /\ Prefix(tool.lines, stdout[tool.cell].lines)
                            /\ ~ tool.raced => tool.lines = stdout[tool.cell].lines
DigestInv == DigestTypes /\ (\A c \in Cells : CellTold(c)) /\ ToolReads

LEMMA WholePrefix ==
  ASSUME NEW l \in Seq(Line)
  PROVE  SubSeq(l, 1, Len(l)) = l /\ Prefix(l, l) /\ Len(l) \in Nat
  <1>1. SubSeq(l, 1, Len(l)) = l
    OBVIOUS
  <1> QED BY <1>1 DEF Prefix

LEMMA PrefixStays ==
  ASSUME NEW l \in Seq(Line), NEW more \in Seq(Line), NEW n \in Nat, n <= Len(l)
  PROVE  /\ n <= Len(l \o more) /\ SubSeq(l \o more, 1, n) = SubSeq(l, 1, n)
         /\ l \o more \in Seq(Line)
  <1>1. l \o more \in Seq(Line) /\ Len(l \o more) = Len(l) + Len(more) /\ Len(l) \in Nat /\ Len(more) \in Nat
    BY ConcatProperties
  <1>2. SubSeq(l \o more, 1, n) = SubSeq(l, 1, n)
    OBVIOUS
  <1> QED BY <1>1, <1>2

LEMMA StillTells ==
  ASSUME NEW l \in Seq(Line), NEW more \in Seq(Line), NEW d \in Made, Tells(d, l)
  PROVE  Tells(d, l \o more)
  <1>1. d.upto \in Nat /\ d.upto <= Len(l)
    BY DEF Made, Tells
  <1>2. d.upto <= Len(l \o more) /\ SubSeq(l \o more, 1, d.upto) = SubSeq(l, 1, d.upto)
    BY <1>1, PrefixStays
  <1> QED BY <1>2 DEF Tells

LEMMA NothingTold ==
  /\ NoDigest \in Made /\ NoDigests \in [Cells -> Made]
  /\ \A c \in Cells : NoDigests[c] = NoDigest
  /\ \A l \in Seq(Line) : Tells(NoDigest, l)
  /\ NoTool \in ToolShape /\ NoTool.at = "off" /\ NoTool.shown = NoDigests
  <1>1. NoDigest \in Made
    BY DEF NoDigest, Made, Shapes, Regimes, NanKinds
  <1>2. NoDigests \in [Cells -> Made] /\ \A c \in Cells : NoDigests[c] = NoDigest
    BY <1>1 DEF NoDigests
  <1>3. \A l \in Seq(Line) : Tells(NoDigest, l)
    BY DEF Tells, NoDigest
  <1>4. << >> \in Seq(Line) /\ {} \in SUBSET Cells
    OBVIOUS
  <1>5. NoTool \in ToolShape /\ NoTool.at = "off" /\ NoTool.shown = NoDigests
    BY <1>2, <1>4 DEF NoTool, ToolShape
  <1> QED BY <1>1, <1>2, <1>3, <1>5

LEMMA DigestStarts == DigestInit => DigestInv
  <1> SUFFICES ASSUME DigestInit PROVE DigestInv
    OBVIOUS
  <1>1. << >> \in Seq(Line) /\ Len(<< >>) = 0
    OBVIOUS
  <1>2. NoLog \in [lines : Seq(Line), m : Nat] /\ NoLog.m = 0 /\ NoLog.lines \in Seq(Line)
    BY <1>1 DEF NoLog
  <1>3. DigestTypes
    BY <1>2, NothingTold DEF DigestTypes, DigestInit
  <1>4. ASSUME NEW c \in Cells PROVE CellTold(c)
    <2>1. /\ stdout[c] = NoLog /\ json[c] = NoDigest /\ summary[c] = NoDigest /\ tool.shown[c] = NoDigest /\ stamp = 1
      BY NothingTold DEF DigestInit
    <2>2. NoDigest.at = 0
      BY DEF NoDigest
    <2> QED BY <1>2, <2>1, <2>2, NothingTold DEF CellTold, _digest_is_fresh
  <1>5. ToolReads
    BY NothingTold DEF ToolReads, DigestInit
  <1> QED BY <1>3, <1>4, <1>5 DEF DigestInv

(* The types, action by action. *)
LEMMA DigestIsMade ==
  ASSUME DigestTypes
  PROVE  Digest \in Made /\ Digest.at = stamp + 1 /\ Digest.upto = Len(tool.lines) /\ Digest.raced = tool.raced
         /\ Digest.shape = classify_loss_trajectory(tool.lines)
  <1>1. tool.lines \in Seq(Line) /\ tool.raced \in BOOLEAN /\ stamp + 1 \in Nat
    <2>1. tool \in ToolShape /\ stamp \in Nat
      BY DEF DigestTypes
    <2>2. tool.lines \in Seq(Line) /\ tool.raced \in BOOLEAN
      BY <2>1 DEF ToolShape
    <2> QED BY <2>1, <2>2
  <1>2. classify_loss_trajectory(tool.lines) \in Shapes
    BY DEF classify_loss_trajectory, Shapes
  <1>3. classify_moe_regime(tool.lines) \in Regimes
    BY DEF classify_moe_regime, Regimes
  <1>4. classify_nan(tool.entry, tool.lines) \in NanKinds
    BY DEF classify_nan, NanKinds
  <1>5. Len(tool.lines) \in Nat
    BY <1>1
  <1> QED BY <1>1, <1>2, <1>3, <1>4, <1>5 DEF Digest, Made

LEMMA LoadedIsTool ==
  ASSUME DigestTypes, NEW c \in Cells, NEW d \in Made
  PROVE  /\ Loaded(c, d) \in ToolShape /\ Loaded(c, d).at = "load"
         /\ Loaded(c, d).shown = [tool.shown EXCEPT ![c] = d]
  <1> PICK shown : shown = [tool.shown EXCEPT ![c] = d]
    OBVIOUS
  <1> PICK todo : todo = tool.todo \ {c}
    OBVIOUS
  <1>1. tool.shown \in [Cells -> Made] /\ tool.todo \in SUBSET Cells
    BY DEF DigestTypes, ToolShape
  <1>2. shown \in [Cells -> Made] /\ todo \in SUBSET Cells
    BY <1>1
  <1>3. Loaded(c, d) = [NoTool EXCEPT !.at = "load", !.todo = todo, !.shown = shown]
    BY Zenon DEF Loaded
  <1>4. Loaded(c, d) \in ToolShape /\ Loaded(c, d).at = "load" /\ Loaded(c, d).shown = shown
    BY <1>2, <1>3, NothingTold DEF ToolShape
  <1> QED BY <1>4

LEMMA ToolOnly ==
  ASSUME DigestInv, UNCHANGED <<stamp, stdout, json, summary>>, run_index' \in [cells : SUBSET Cells, entry : [Cells -> Entries \union {NoEntry}]],
         tool' \in ToolShape, ToolReads',
         \A c \in Cells : Tells(tool'.shown[c], stdout[c].lines)
  PROVE  DigestInv'
  <1>1. DigestTypes'
    BY DEF DigestInv, DigestTypes
  <1>2. ASSUME NEW c \in Cells PROVE CellTold(c)'
    BY DEF DigestInv, CellTold, _digest_is_fresh
  <1> QED BY <1>1, <1>2 DEF DigestInv

LEMMA ChunkKeepsDigest ==
  ASSUME DigestInv, NEW c \in Cells, NEW chunk \in Chunks, LogChunk(c, chunk)
  PROVE  DigestInv'
  <1>1. chunk \in Seq(Line) /\ stamp \in Nat /\ stdout \in [Cells -> [lines : Seq(Line), m : Nat]] /\ tool \in ToolShape
    BY TrainingDigestAssumption DEF DigestInv, DigestTypes
  <1>2. /\ stdout' = [stdout EXCEPT ![c] = [lines |-> stdout[c].lines \o chunk, m |-> stamp + 1]] /\ stamp' = stamp + 1
        /\ tool' = IF tool.at = "write" /\ tool.cell = c THEN [tool EXCEPT !.raced = TRUE] ELSE tool
        /\ UNCHANGED <<run_index, json, summary>>
    BY DEF LogChunk
  <1>3. stdout[c].lines \in Seq(Line) /\ stdout[c].lines \o chunk \in Seq(Line)
    BY <1>1
  <1>4. tool' \in ToolShape /\ tool'.shown = tool.shown /\ tool'.at = tool.at /\ tool'.cell = tool.cell /\ tool'.lines = tool.lines
        /\ (tool.at = "write" /\ tool.cell = c => tool'.raced) /\ (~ (tool.at = "write" /\ tool.cell = c) => tool'.raced = tool.raced)
    BY <1>1, <1>2 DEF ToolShape
  <1>5. DigestTypes'
    <2>1. stdout' \in [Cells -> [lines : Seq(Line), m : Nat]]
      BY <1>1, <1>2, <1>3
    <2> QED BY <1>1, <1>2, <1>4, <2>1 DEF DigestInv, DigestTypes
  <1>6. stdout'[c].lines = stdout[c].lines \o chunk /\ stdout'[c].m = stamp + 1 /\ \A o \in Cells : o # c => stdout'[o] = stdout[o]
    BY <1>1, <1>2
  <1>7. ASSUME NEW o \in Cells PROVE CellTold(o)'
    <2>1. CellTold(o) /\ json[o] \in Made /\ summary[o] \in Made /\ tool.shown[o] \in Made
      BY DEF DigestInv, DigestTypes, ToolShape
    <2>2. json[o].at \in Nat /\ stdout[o].m \in Nat
      BY <1>1, <2>1 DEF Made
    <2>3. CASE o = c
      <3>1. /\ Tells(json[c], stdout[c].lines \o chunk) /\ Tells(summary[c], stdout[c].lines \o chunk)
            /\ Tells(tool.shown[c], stdout[c].lines \o chunk)
        BY <1>1, <1>3, <2>1, <2>3, StillTells DEF CellTold
      <3>2. json[c].at <= stamp /\ stdout'[c].m <= stamp' /\ ~ (json[c].at >= stdout'[c].m) /\ json[c].at <= stamp'
        BY <1>1, <1>2, <1>6, <2>1, <2>2, <2>3 DEF CellTold
      <3> QED BY <1>2, <1>4, <1>6, <2>3, <3>1, <3>2 DEF CellTold, _digest_is_fresh
    <2>4. CASE o # c
      <3>1. stdout'[o] = stdout[o] /\ stdout[o].m <= stamp' /\ json[o].at <= stamp'
        BY <1>1, <1>2, <1>6, <2>1, <2>2, <2>4 DEF CellTold
      <3> QED BY <1>2, <1>4, <2>1, <3>1 DEF CellTold, _digest_is_fresh
    <2> QED BY <2>3, <2>4
  <1>8. ToolReads'
    <2>1. tool.lines \in Seq(Line)
      BY <1>1 DEF ToolShape
    <2>2. CASE tool.at = "write" /\ tool.cell = c
      <3>1. Prefix(tool.lines, stdout[c].lines)
        BY <2>2 DEF DigestInv, ToolReads
      <3>2. Prefix(tool.lines, stdout[c].lines \o chunk)
        <4>1. Len(tool.lines) \in Nat /\ Len(tool.lines) <= Len(stdout[c].lines)
          BY <2>1, <3>1 DEF Prefix
        <4>2. /\ Len(tool.lines) <= Len(stdout[c].lines \o chunk)
              /\ SubSeq(stdout[c].lines \o chunk, 1, Len(tool.lines)) = SubSeq(stdout[c].lines, 1, Len(tool.lines))
          BY <1>1, <1>3, <4>1, PrefixStays
        <4> QED BY <3>1, <4>2 DEF Prefix
      <3> QED BY <1>4, <1>6, <2>2, <3>2 DEF ToolReads
    <2>3. CASE ~ (tool.at = "write" /\ tool.cell = c)
      <3>1. tool.at = "write" => tool.cell \in Cells /\ stdout'[tool.cell] = stdout[tool.cell]
        BY <1>6, <2>3 DEF DigestInv, ToolReads
      <3> QED BY <1>4, <2>3, <3>1 DEF DigestInv, ToolReads
    <2> QED BY <2>2, <2>3
  <1> QED BY <1>5, <1>7, <1>8 DEF DigestInv

LEMMA WriteKeepsDigest == ASSUME DigestInv, WriteJson PROVE DigestInv'
  <1> PICK c : c = tool.cell
    OBVIOUS
  <1> PICK d : d = Digest
    OBVIOUS
  <1>1. /\ c \in Cells /\ tool.at = "write" /\ Prefix(tool.lines, stdout[c].lines)
        /\ ~ tool.raced => tool.lines = stdout[c].lines
    BY DEF DigestInv, ToolReads, WriteJson
  <1>2. DigestTypes /\ tool \in ToolShape /\ tool.lines \in Seq(Line) /\ stamp \in Nat /\ json \in [Cells -> Made]
        /\ stdout \in [Cells -> [lines : Seq(Line), m : Nat]]
    BY DEF DigestInv, DigestTypes, ToolShape
  <1>3. d \in Made /\ d.at = stamp + 1 /\ d.upto = Len(tool.lines) /\ d.raced = tool.raced
        /\ d.shape = classify_loss_trajectory(tool.lines)
    BY <1>2, DigestIsMade
  <1>4. Tells(d, stdout[c].lines)
    <2>1. d.shape = ShapeOf(tool.lines)
      BY <1>2, <1>3, ClassIsShape
    <2> QED BY <1>1, <1>3, <2>1 DEF Tells, Prefix
  <1>5. json' = [json EXCEPT ![c] = d] /\ stamp' = stamp + 1 /\ UNCHANGED <<stdout, run_index, summary>>
        /\ tool' = IF ForSummary THEN Loaded(c, d) ELSE [tool EXCEPT !.at = "page"]
    BY DEF WriteJson
  <1>6. tool' \in ToolShape /\ tool'.at \in {"load", "page"} /\ (tool'.at = "page" => tool'.cell = c)
        /\ (tool'.shown = tool.shown \/ tool'.shown = [tool.shown EXCEPT ![c] = d])
    <2>1. Loaded(c, d) \in ToolShape /\ Loaded(c, d).at = "load" /\ Loaded(c, d).shown = [tool.shown EXCEPT ![c] = d]
      BY <1>1, <1>2, <1>3, LoadedIsTool
    <2>2. CASE ForSummary
      BY <1>5, <2>1, <2>2
    <2>3. CASE ~ ForSummary
      BY <1>2, <1>5, <2>3 DEF ToolShape
    <2> QED BY <2>2, <2>3
  <1>7. DigestTypes'
    <2>1. json' \in [Cells -> Made]
      <3>1. json \in [Cells -> Made] /\ json' = [json EXCEPT ![c] = d] /\ d \in Made
        BY <1>2, <1>3, <1>5
      <3> QED BY <3>1
    <2>3. stamp' \in Nat
      <3>1. stamp' = stamp + 1 /\ stamp \in Nat
        BY <1>2, <1>5
      <3> QED BY <3>1
    <2>2. UNCHANGED <<stdout, run_index, summary>>
      BY <1>5
    <2> QED BY <1>2, <1>6, <2>1, <2>2, <2>3 DEF DigestTypes
  <1>8. ASSUME NEW o \in Cells PROVE CellTold(o)'
    <2>1. CellTold(o) /\ stdout[o].m \in Nat /\ json[o].at \in Nat /\ tool.shown \in [Cells -> Made] /\ stdout[o].m <= stamp
      BY <1>2 DEF DigestInv, CellTold, Made, ToolShape
    <2>2. Tells(tool'.shown[o], stdout[o].lines)
      BY <1>1, <1>4, <1>6, <2>1 DEF CellTold
    <2>3. CASE o = c
      <3>1. json'[o] = d /\ stdout'[o] = stdout[o]
        BY <1>1, <1>2, <1>5, <2>3
      <3>2. ~ d.raced => d.upto = Len(stdout[o].lines)
        BY <1>1, <1>3, <2>3
      <3>3. d.at <= stamp' /\ stdout[o].m <= stamp'
        BY <1>2, <1>3, <1>5, <2>1
      <3> QED BY <1>4, <1>5, <2>1, <2>2, <2>3, <3>1, <3>2, <3>3 DEF CellTold, _digest_is_fresh
    <2>4. CASE o # c
      <3>1. json'[o] = json[o] /\ stdout'[o] = stdout[o] /\ json[o].at <= stamp' /\ stdout[o].m <= stamp'
        BY <1>2, <1>5, <2>1, <2>4 DEF CellTold
      <3> QED BY <1>5, <2>1, <2>2, <3>1 DEF CellTold, _digest_is_fresh
    <2> QED BY <2>3, <2>4
  <1>9. ToolReads'
    BY <1>1, <1>6 DEF ToolReads
  <1> QED BY <1>7, <1>8, <1>9 DEF DigestInv

LEMMA KillKeepsDigest == ASSUME DigestInv, KillTool PROVE DigestInv'
  <1>1. tool' = NoTool /\ UNCHANGED <<stamp, stdout, run_index, summary>>
        /\ (json' = json \/ (tool.at = "write" /\ json' = [json EXCEPT ![tool.cell] = NoDigest]))
    BY DEF KillTool
  <1>2. json \in [Cells -> Made] /\ stamp \in Nat
    BY DEF DigestInv, DigestTypes
  <1>3. json' \in [Cells -> Made] /\ \A c \in Cells : json'[c] = json[c] \/ json'[c] = NoDigest
    BY <1>1, <1>2, NothingTold
  <1>4. DigestTypes'
    BY <1>1, <1>3, NothingTold DEF DigestInv, DigestTypes
  <1>5. ASSUME NEW c \in Cells PROVE CellTold(c)'
    <2>1. CellTold(c) /\ stdout[c].lines \in Seq(Line)
      BY DEF DigestInv, DigestTypes
    <2>2. Tells(NoDigest, stdout[c].lines) /\ tool'.shown[c] = NoDigest /\ NoDigest.at = 0
      BY <1>1, <2>1, NothingTold DEF NoDigest
    <2>3. CASE json'[c] = json[c]
      BY <1>1, <2>1, <2>2, <2>3 DEF CellTold, _digest_is_fresh
    <2>4. CASE json'[c] = NoDigest
      BY <1>1, <1>2, <2>1, <2>2, <2>4 DEF CellTold, _digest_is_fresh
    <2> QED BY <1>3, <2>3, <2>4
  <1>6. ToolReads'
    BY <1>1, NothingTold DEF ToolReads
  <1> QED BY <1>4, <1>5, <1>6 DEF DigestInv

LEMMA SummaryKeepsDigest == ASSUME DigestInv, WriteSummary PROVE DigestInv'
  <1>1. tool' = NoTool /\ summary' = tool.shown /\ UNCHANGED <<stamp, stdout, run_index, json>>
    BY DEF WriteSummary
  <1>2. DigestTypes'
    BY <1>1, NothingTold DEF DigestInv, DigestTypes, ToolShape
  <1>3. ASSUME NEW c \in Cells PROVE CellTold(c)'
    <2>1. CellTold(c) /\ stdout[c].lines \in Seq(Line)
      BY DEF DigestInv, DigestTypes
    <2>2. Tells(NoDigest, stdout[c].lines) /\ tool'.shown[c] = NoDigest
      BY <1>1, <2>1, NothingTold
    <2> QED BY <1>1, <2>1, <2>2 DEF CellTold, _digest_is_fresh
  <1>4. ToolReads'
    BY <1>1, NothingTold DEF ToolReads
  <1> QED BY <1>2, <1>3, <1>4 DEF DigestInv

LEMMA DigestStep == DigestInv /\ [DigestNext]_digestVars => DigestInv'
  <1> SUFFICES ASSUME DigestInv, [DigestNext]_digestVars PROVE DigestInv'
    OBVIOUS
  <1>0. DigestTypes /\ tool \in ToolShape /\ ToolReads /\ run_index \in [cells : SUBSET Cells, entry : [Cells -> Entries \union {NoEntry}]]
        /\ stdout \in [Cells -> [lines : Seq(Line), m : Nat]] /\ json \in [Cells -> Made]
        /\ \A c \in Cells : CellTold(c) /\ Tells(tool.shown[c], stdout[c].lines) /\ Tells(NoDigest, stdout[c].lines) /\ Tells(json[c], stdout[c].lines)
    BY NothingTold DEF DigestInv, DigestTypes, CellTold
  <1>1. ASSUME NEW c \in Cells, NEW chunk \in Chunks, LogChunk(c, chunk) PROVE DigestInv'
    BY <1>1, ChunkKeepsDigest
  <1>2. ASSUME NEW c \in Cells, NEW entry \in Entries, IndexEntry(c, entry) PROVE DigestInv'
    <2>1. run_index' \in [cells : SUBSET Cells, entry : [Cells -> Entries \union {NoEntry}]]
      BY <1>0, <1>2 DEF IndexEntry
    <2>2. UNCHANGED <<stamp, stdout, json, summary, tool>>
      BY <1>2 DEF IndexEntry
    <2>3. ToolReads'
      BY <1>0, <2>2 DEF ToolReads
    <2> QED BY <1>0, <2>1, <2>2, <2>3, ToolOnly
  <1>3. ASSUME NEW c \in Cells, NEW phase \in BOOLEAN, NEW regen \in BOOLEAN, Call(c, phase, regen) PROVE DigestInv'
    <2>1. UNCHANGED <<stamp, stdout, json, summary, run_index>>
          /\ (tool' = NoTool \/ tool' = [NoTool EXCEPT !.at = "read", !.cell = c])
      BY <1>3 DEF Call
    <2>2. tool' \in ToolShape /\ tool'.shown = NoDigests /\ (tool'.at = "off" \/ (tool'.at = "read" /\ tool'.cell \in Cells))
      BY <2>1, NothingTold DEF ToolShape
    <2>3. ToolReads'
      BY <2>2 DEF ToolReads
    <2>4. \A o \in Cells : Tells(tool'.shown[o], stdout[o].lines)
      BY <1>0, <2>2, NothingTold
    <2> QED BY <1>0, <2>1, <2>2, <2>3, <2>4, ToolOnly
  <1>4. ASSUME NEW c \in Cells, LoadDigest(c) PROVE DigestInv'
    <2>1. UNCHANGED <<stamp, stdout, json, summary, run_index>>
          /\ tool' = IF _digest_exists(c) THEN Loaded(c, json[c]) ELSE [tool EXCEPT !.at = "read", !.cell = c]
      BY <1>4 DEF LoadDigest
    <2>2. CASE _digest_exists(c)
      <3>1. /\ tool' \in ToolShape /\ tool'.at = "load" /\ tool'.shown = [tool.shown EXCEPT ![c] = json[c]]
        BY <1>0, <2>1, <2>2, LoadedIsTool
      <3>2. ToolReads'
        BY <3>1 DEF ToolReads
      <3>3. \A o \in Cells : Tells(tool'.shown[o], stdout[o].lines)
        BY <1>0, <3>1 DEF ToolShape
      <3> QED BY <1>0, <2>1, <3>1, <3>2, <3>3, ToolOnly
    <2>3. CASE ~ _digest_exists(c)
      <3>1. tool' \in ToolShape /\ tool'.at = "read" /\ tool'.cell = c /\ tool'.shown = tool.shown
        BY <1>0, <2>1, <2>3 DEF ToolShape
      <3>2. ToolReads'
        BY <3>1 DEF ToolReads
      <3>3. \A o \in Cells : Tells(tool'.shown[o], stdout[o].lines)
        BY <1>0, <3>1
      <3> QED BY <1>0, <2>1, <3>1, <3>2, <3>3, ToolOnly
    <2> QED BY <2>2, <2>3
  <1>5. CASE ReadLog
    <2>1. UNCHANGED <<stamp, stdout, json, summary, run_index>> /\ tool.at = "read" /\ tool.cell \in Cells
          /\ tool' = [tool EXCEPT !.at = "write", !.entry = run_index.entry[tool.cell], !.lines = stdout[tool.cell].lines]
      BY <1>0, <1>5 DEF ReadLog, ToolReads
    <2>2. run_index.entry[tool.cell] \in Entries \union {NoEntry} /\ stdout[tool.cell].lines \in Seq(Line)
      BY <1>0, <2>1
    <2>3. tool' \in ToolShape /\ tool'.at = "write" /\ tool'.cell = tool.cell /\ tool'.shown = tool.shown
          /\ tool'.lines = stdout[tool.cell].lines
      BY <1>0, <2>1, <2>2 DEF ToolShape
    <2>4. ToolReads'
      BY <2>1, <2>2, <2>3, WholePrefix DEF ToolReads
    <2>5. \A o \in Cells : Tells(tool'.shown[o], stdout[o].lines)
      BY <1>0, <2>3
    <2> QED BY <1>0, <2>1, <2>3, <2>4, <2>5, ToolOnly
  <1>6. CASE WriteJson
    BY <1>6, WriteKeepsDigest
  <1>7. CASE WritePage
    <2>1. UNCHANGED <<stamp, stdout, json, summary, run_index>> /\ tool' = NoTool
      BY <1>7 DEF WritePage
    <2>2. ToolReads' /\ \A o \in Cells : Tells(tool'.shown[o], stdout[o].lines)
      BY <1>0, <2>1, NothingTold DEF ToolReads
    <2> QED BY <1>0, <2>1, <2>2, NothingTold, ToolOnly
  <1>8. CASE KillTool
    BY <1>8, KillKeepsDigest
  <1>9. CASE Aggregate
    <2>1. UNCHANGED <<stamp, stdout, json, summary, run_index>> /\ tool' = [NoTool EXCEPT !.at = "load", !.todo = run_index.cells]
      BY <1>9 DEF Aggregate
    <2>2. tool' \in ToolShape /\ tool'.at = "load" /\ tool'.shown = NoDigests
      BY <1>0, <2>1, NothingTold DEF ToolShape
    <2>3. ToolReads' /\ \A o \in Cells : Tells(tool'.shown[o], stdout[o].lines)
      BY <1>0, <2>2, NothingTold DEF ToolReads
    <2> QED BY <1>0, <2>1, <2>2, <2>3, ToolOnly
  <1>10. CASE WriteSummary
    BY <1>10, SummaryKeepsDigest
  <1>11. CASE UNCHANGED digestVars
    <2>1. UNCHANGED <<stamp, stdout, json, summary, run_index, tool>>
      BY <1>11 DEF digestVars
    <2>2. ToolReads'
      BY <1>0, <2>1 DEF ToolReads
    <2> QED BY <1>0, <2>1, <2>2, ToolOnly
  <1> QED BY <1>1, <1>2, <1>3, <1>4, <1>5, <1>6, <1>7, <1>8, <1>9, <1>10, <1>11 DEF DigestNext

LEMMA InvTellsAll == DigestInv => FreshTellsAll
  <1> SUFFICES ASSUME DigestInv, NEW c \in Cells
               PROVE  /\ _digest_is_fresh(c) /\ ~ json[c].raced => json[c].shape = ShapeOf(stdout[c].lines)
                      /\ summary[c].upto <= Len(stdout[c].lines)
                      /\ (summary[c].at > 0 => summary[c].shape = ShapeOf(SubSeq(stdout[c].lines, 1, summary[c].upto)))
    BY DEF FreshTellsAll
  <1>1. CellTold(c) /\ stdout[c].lines \in Seq(Line)
    BY DEF DigestInv, DigestTypes
  <1>2. _digest_is_fresh(c) /\ ~ json[c].raced => json[c].shape = ShapeOf(SubSeq(stdout[c].lines, 1, Len(stdout[c].lines)))
    BY <1>1 DEF CellTold, Tells, _digest_is_fresh
  <1>3. SubSeq(stdout[c].lines, 1, Len(stdout[c].lines)) = stdout[c].lines
    BY <1>1, WholePrefix
  <1> QED BY <1>1, <1>2, <1>3 DEF CellTold, Tells

(* A digest taken for fresh gives the whole log the class that the table names, *)
(* but for lines written between read and timestamp, and the summary shows no   *)
(* digest of more than the log held: generate_digest, _digest_is_fresh and the  *)
(* aggregate beside a training that writes on.                                  *)
THEOREM DigestsStayTrue == DigestSpec => []FreshTellsAll
  <1>1. DigestInit => DigestInv
    BY DigestStarts
  <1>2. DigestInv /\ [DigestNext]_digestVars => DigestInv'
    BY DigestStep
  <1>3. DigestInv => FreshTellsAll
    BY InvTellsAll
  <1> QED BY <1>1, <1>2, <1>3, PTL DEF DigestSpec
=============================================================================
