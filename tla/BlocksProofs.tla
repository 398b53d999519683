----------------------------- MODULE BlocksProofs -----------------------------
(***************************************************************************)
(* Proofs that, whatever the number of the equations of a model, what they *)
(* hold and the sizes of their derivatives, its normalization is as far    *)
(* from singular as there is (NormalizationIsBest), its prologue and its   *)
(* epilogue are triangular and stay so (EndsAreTriangular), and its blocks *)
(* can be computed one after the other (SolvedInOrder): the feedback       *)
(* vertices of a strong component cut its cycles, so that its other        *)
(* vertices have an order; the components have one too; merging them into  *)
(* blocks keeps both.                                                      *)
(***************************************************************************)
EXTENDS Blocks, DataLemmas

(***************************************************************************)
(* The largest and the smallest of a finite set of numbers                 *)
(***************************************************************************)

\* A finite set of numbers has a largest and a smallest one.
LEMMA HasBounds ==
    ASSUME NEW S \in SUBSET Int, IsFiniteSet(S), S # {}
    PROVE  /\ \E x \in S : \A y \in S : x >= y
           /\ \E x \in S : \A y \in S : x =< y
<1>. DEFINE Bounded(s) == /\ \E x \in s : \A y \in s : x >= y
                          /\ \E x \in s : \A y \in s : x =< y
            Has == {n \in Nat : \A s \in SUBSET S : Cardinality(s) = n + 1 => Bounded(s)}
<1>1. 0 \in Has
  <2>. SUFFICES ASSUME NEW s \in SUBSET S, Cardinality(s) = 0 + 1 PROVE Bounded(s)
    OBVIOUS
  <2>1. Chosen(s) \in s /\ Cardinality(s \ {Chosen(s)}) = 0 /\ s \ {Chosen(s)} \in SUBSET S
    <3>1. s # {}
      BY PartOf
    <3>2. Chosen(s) \in s
      BY <3>1, ChosenOf
    <3>3. /\ Cardinality(s \ {Chosen(s)}) = Cardinality(s) - 1
          /\ s \ {Chosen(s)} \in SUBSET S
      BY <3>2, PartOf
    <3> QED BY <3>2, <3>3
  <2>2. s \ {Chosen(s)} = {}
    BY <2>1, NoPart
  <2>3. Chosen(s) \in Int /\ \A y \in s : y = Chosen(s)
    BY <2>1, <2>2
  <2>4. \A y \in s : Chosen(s) >= y /\ Chosen(s) =< y
    BY <2>3
  <2> QED BY <2>1, <2>4
<1>2. ASSUME NEW n \in Nat, n \in Has PROVE n + 1 \in Has
  <2>. SUFFICES ASSUME NEW s \in SUBSET S, Cardinality(s) = (n + 1) + 1 PROVE Bounded(s)
    OBVIOUS
  <2>. DEFINE c == Chosen(s)
              r == s \ {c}
  <2>1. c \in s /\ Cardinality(r) = n + 1 /\ r \in SUBSET S
    <3>1. s # {}
      BY PartOf
    <3>2. c \in s
      BY <3>1, ChosenOf
    <3>3. Cardinality(r) = Cardinality(s) - 1 /\ r \in SUBSET S
      BY <3>2, PartOf
    <3> QED BY <3>2, <3>3
  <2>2. Bounded(r)
    BY <1>2, <2>1
  <2>3. PICK high \in r : \A y \in r : high >= y
    BY <2>2
  <2>4. PICK low \in r : \A y \in r : low =< y
    BY <2>2
  <2>. HIDE DEF c
  <2>5. \A y \in s : y = c \/ y \in r
    OBVIOUS
  <2>6. {c, high, low} \subseteq s /\ c \in Int /\ high \in Int /\ low \in Int
    BY <2>1
  <2>7. \E x \in {c, high} : \A y \in s : x >= y
    BY <2>3, <2>5, <2>6
  <2>8. \E x \in {c, low} : \A y \in s : x =< y
    BY <2>4, <2>5, <2>6
  <2> QED BY <2>6, <2>7, <2>8
<1> HIDE DEF Has
<1>3. \A n \in Nat : n \in Has
  BY <1>1, <1>2, Induction
<1>4. PICK n \in Nat : Cardinality(S) = n + 1
  <2>1. Cardinality(S) \in Nat /\ Cardinality(S) # 0
    BY PartOf
  <2>2. Cardinality(S) - 1 \in Nat /\ Cardinality(S) = (Cardinality(S) - 1) + 1
    BY <2>1
  <2> QED BY <2>2
<1>5. Bounded(S)
  BY <1>3, <1>4 DEF Has
<1> QED BY <1>5

\* What Max returns.
LEMMA MaxOf ==
    ASSUME NEW S \in SUBSET Int, IsFiniteSet(S), S # {}
    PROVE  Max(S) \in S /\ \A y \in S : Max(S) >= y
BY HasBounds DEF Max

\* What Min returns.
LEMMA MinOf ==
    ASSUME NEW S \in SUBSET Int, IsFiniteSet(S), S # {}
    PROVE  Min(S) \in S /\ \A y \in S : Min(S) =< y
BY HasBounds DEF Min

\* A function takes finitely many values on a finite set.
LEMMA FiniteImage ==
    ASSUME NEW S, IsFiniteSet(S), NEW f, NEW T, \A t \in T : \E x \in S : t = f[x]
    PROVE  IsFiniteSet(T)
<1>. DEFINE R == {x \in S : f[x] \in T}
            g == [x \in R |-> f[x]]
<1>1. g \in Surjection(R, T)
  BY DEF Surjection
<1>2. IsFiniteSet(R)
  BY FS_Subset
<1> QED BY <1>1, <1>2, FS_Surjection

-------------------------------------------------------------------------------
(***************************************************************************)
(* Folds over sequences                                                    *)
(***************************************************************************)

\* g is what a fold from the left computes, on the parts of the places in U: the step with
\* the last place is taken after the others.
IsIteration(g, F, base, U) ==
    g = [s \in U |-> IF s = {} THEN base ELSE F[<<g[s \ {Max(s)}], Max(s)>>]]

\* A set of places has a last one, and is smaller without it.
LEMMA LastPlace ==
    ASSUME NEW n \in Nat, NEW s \in SUBSET (1 .. n)
    PROVE  /\ IsFiniteSet(s)
           /\ s # {} => /\ Max(s) \in s /\ Max(s) \in 1 .. n
                        /\ s \ {Max(s)} \in SUBSET (1 .. n)
                        /\ Cardinality(s \ {Max(s)}) = Cardinality(s) - 1
<1>. DEFINE S == 1 .. n
<1>1. IsFiniteSet(S) /\ S \subseteq Int
  BY FS_Interval
<1>. HIDE DEF S
<1>2. s \in SUBSET S
  BY DEF S
<1>3. IsFiniteSet(s) /\ s \in SUBSET Int
  BY <1>1, <1>2, FS_Subset
<1>4. ASSUME s # {} PROVE Max(s) \in s
  BY <1>3, <1>4, MaxOf
<1>5. \A x \in s : Cardinality(s \ {x}) = Cardinality(s) - 1
  BY <1>1, <1>2, PartOf
<1> QED BY <1>3, <1>4, <1>5

\* The last of the first places.
LEMMA LastOfFirst ==
    ASSUME NEW k \in Nat
    PROVE  Max(1 .. k + 1) = k + 1 /\ (1 .. k + 1) \ {k + 1} = 1 .. k /\ 1 .. k + 1 # {}
<1>1. IsFiniteSet(1 .. k + 1) /\ 1 .. k + 1 \in SUBSET Int /\ k + 1 \in 1 .. k + 1
  BY FS_Interval
<1>2. Max(1 .. k + 1) \in 1 .. k + 1 /\ Max(1 .. k + 1) >= k + 1
  BY <1>1, MaxOf
<1>3. Max(1 .. k + 1) = k + 1
  BY <1>2
<1> QED BY <1>3

\* There is a function that the recursion of a fold describes, with values among the states.
LEMMA IterationExists ==
    ASSUME NEW n \in Nat, NEW States, NEW base \in States, NEW F \in [States \X (1 .. n) -> States]
    PROVE  \E g \in [SUBSET (1 .. n) -> States] : IsIteration(g, F, base, SUBSET (1 .. n))
<1>. DEFINE S == 1 .. n
            Has == {k \in Nat : \E g \in [Parts(S, k) -> States] : IsIteration(g, F, base, Parts(S, k))}
<1>0. IsFiniteSet(S) /\ Cardinality(S) = n
  BY FS_Interval
<1>6. \A s \in SUBSET S : Cardinality(s) \in Nat /\ (Cardinality(s) = 0 <=> s = {})
  <2>. HIDE DEF S
  <2> QED BY <1>0, PartOf
<1>1. 0 \in Has
  <2>. DEFINE g == [s \in Parts(S, 0) |-> base]
  <2>1. \A s \in Parts(S, 0) : s = {}
    BY <1>6 DEF Parts
  <2>2. g = [s \in Parts(S, 0) |-> IF s = {} THEN base ELSE F[<<g[s \ {Max(s)}], Max(s)>>]]
    BY <2>1
  <2>3. g \in [Parts(S, 0) -> States]
    OBVIOUS
  <2>. HIDE DEF g
  <2> QED BY <2>2, <2>3 DEF IsIteration
<1>2. ASSUME NEW k \in Nat, k \in Has PROVE k + 1 \in Has
  <2>1. PICK g \in [Parts(S, k) -> States] : IsIteration(g, F, base, Parts(S, k))
    BY <1>2
  <2>. DEFINE h == [s \in Parts(S, k + 1) |->
                     IF s = {} THEN base ELSE F[<<g[s \ {Max(s)}], Max(s)>>]]
  <2>2. \A s \in Parts(S, k + 1) : s # {} => Max(s) \in S /\ s \ {Max(s)} \in Parts(S, k)
    <3>. SUFFICES ASSUME NEW s \in Parts(S, k + 1), s # {}
                  PROVE  Max(s) \in S /\ s \ {Max(s)} \in Parts(S, k)
      OBVIOUS
    <3>1. s \in SUBSET (1 .. n) /\ Cardinality(s) =< k + 1 /\ Cardinality(s) \in Nat
      BY <1>6 DEF Parts
    <3>2. /\ Max(s) \in S /\ s \ {Max(s)} \in SUBSET S
          /\ Cardinality(s \ {Max(s)}) = Cardinality(s) - 1
      BY <3>1, LastPlace
    <3> QED BY <3>1, <3>2 DEF Parts
  <2>3. Parts(S, k) \subseteq Parts(S, k + 1)
    BY <1>6 DEF Parts
  <2>4. h \in [Parts(S, k + 1) -> States]
    <3>. SUFFICES ASSUME NEW s \in Parts(S, k + 1), s # {}
                  PROVE  F[<<g[s \ {Max(s)}], Max(s)>>] \in States
      OBVIOUS
    <3>1. <<g[s \ {Max(s)}], Max(s)>> \in States \X S
      BY <2>1, <2>2
    <3> QED BY <3>1
  <2>5. \A s \in Parts(S, k) : h[s] = g[s]
    BY <2>1, <2>3 DEF IsIteration
  <2>6. \A s \in Parts(S, k + 1) : s # {} => h[s \ {Max(s)}] = g[s \ {Max(s)}]
    BY <2>2, <2>5
  <2>7. h = [s \in Parts(S, k + 1) |-> IF s = {} THEN base ELSE F[<<h[s \ {Max(s)}], Max(s)>>]]
    BY <2>6
  <2>. HIDE DEF h
  <2>8. IsIteration(h, F, base, Parts(S, k + 1))
    BY <2>7 DEF IsIteration
  <2> QED BY <2>4, <2>8
<1>. HIDE DEF Has
<1>3. n \in Has
  BY <1>1, <1>2, Induction
<1>4. Parts(S, n) = SUBSET S
  <2>1. \A s \in SUBSET S : Cardinality(s) =< Cardinality(S)
    BY <1>0, FS_Subset
  <2> QED BY <1>0, <2>1 DEF Parts
<1> QED BY <1>3, <1>4 DEF Has

\* What is true of the base and kept by the steps, one after the other, is true of the result:
\* the value before the step at place k + 1 is in Good[k].
LEMMA IterationKeeps ==
    ASSUME NEW n \in Nat, NEW g, NEW Good,
           g[{}] \in Good[0],
           \A k \in 0 .. n - 1 : g[1 .. k] \in Good[k] => g[1 .. k + 1] \in Good[k + 1]
    PROVE  g[1 .. n] \in Good[n]
<1>. DEFINE Kept == {k \in Nat : k =< n => g[1 .. k] \in Good[k]}
<1>1. 0 \in Kept
  <2>1. 1 .. 0 = {}
    OBVIOUS
  <2> QED BY <2>1
<1>2. ASSUME NEW k \in Nat, k \in Kept PROVE k + 1 \in Kept
  <2>. SUFFICES ASSUME k + 1 =< n PROVE g[1 .. k + 1] \in Good[k + 1]
    OBVIOUS
  <2>1. k \in 0 .. n - 1
    OBVIOUS
  <2>2. g[1 .. k] \in Good[k]
    BY <1>2
  <2> QED BY <2>1, <2>2
<1>. HIDE DEF Kept
<1>3. n \in Kept
  BY <1>1, <1>2, Induction
<1> QED BY <1>3 DEF Kept

-------------------------------------------------------------------------------
(***************************************************************************)
(* The entries and their distances                                         *)
(***************************************************************************)

\* The entries of the contemporaneous Jacobian, and those that a matching takes.
Today(f) == {d \in KeptEntries(f) : d.lag = 0}
Taken(f, m) == {d \in KeptEntries(f) : d.lag = 0 /\ m[d.var] = d.eq}

\* There are finitely many of them.
LEMMA EntriesFinite ==
    ASSUME NEW f \in Files, NEW S \in SUBSET Today(f)
    PROVE  IsFiniteSet(S) /\ \A e \in S : e.mag \in Int /\ e.eq \in Ids(f) /\ e.var \in Ids(f)
<1>1. S \subseteq f.entries
  BY DEF Today, KeptEntries
<1> QED BY <1>1, FilesAssumption, FS_Subset

\* The distance of an entry to the largest one of its row is a number.
LEMMA DistanceType ==
    ASSUME NEW f \in Files, NEW e \in Today(f) PROVE Distance(f, e) \in Int
<1>. DEFINE row == {c \in KeptEntries(f) : c.lag = 0 /\ c.eq = e.eq}
            mags == {d.mag : d \in row}
            size == [d \in row |-> d.mag]
<1>1. row \in SUBSET Today(f) /\ e \in row
  BY DEF Today
<1>2. IsFiniteSet(row) /\ \A d \in row : d.mag \in Int
  BY <1>1, EntriesFinite
<1>3. mags \in SUBSET Int /\ mags # {} /\ e.mag \in Int
  BY <1>1, <1>2
<1>4. \A k \in mags : \E d \in row : k = size[d]
  OBVIOUS
<1>5. IsFiniteSet(mags)
  <2>. HIDE DEF mags, row, size
  <2> QED BY <1>2, <1>4, FiniteImage
<1>6. Min(mags) \in Int
  BY <1>3, <1>5, MinOf
<1>7. Distance(f, e) = e.mag - Min(mags)
  BY DEF Distance
<1> QED BY <1>3, <1>6, <1>7

\* The distances of some entries are a finite set of numbers.
LEMMA DistancesType ==
    ASSUME NEW f \in Files, NEW S \in SUBSET Today(f)
    PROVE  /\ {Distance(f, e) : e \in S} \in SUBSET Int
           /\ IsFiniteSet({Distance(f, e) : e \in S})
<1>. DEFINE distances == {Distance(f, e) : e \in S}
            far == [e \in S |-> Distance(f, e)]
<1>1. \A e \in S : Distance(f, e) \in Int
  BY DistanceType
<1>2. IsFiniteSet(S)
  BY EntriesFinite
<1>3. \A k \in distances : \E e \in S : k = far[e]
  OBVIOUS
<1>4. IsFiniteSet(distances)
  <2>. HIDE DEF distances, far
  <2> QED BY <1>2, <1>3, FiniteImage
<1> QED BY <1>1, <1>4

\* A matching in a part of the contemporaneous Jacobian takes an entry for every variable.
LEMMA MatchedEntry ==
    ASSUME NEW f \in Files, NEW pattern \in SUBSET Incidence(f).contemporaneous,
           NEW m \in Matchings(f, pattern), NEW v \in Ids(f)
    PROVE  /\ <<m[v], v>> \in pattern
           /\ \E e \in Taken(f, m) : e.var = v /\ e.eq = m[v]
<1>1. <<m[v], v>> \in pattern
  BY DEF Matchings
<1>2. <<m[v], v>> \in {<<e.eq, e.var>> : e \in Today(f)}
  BY <1>1 DEF Incidence, Today
<1>3. PICK e \in Today(f) : m[v] = e.eq /\ v = e.var
  BY <1>2
<1> QED BY <1>1, <1>3 DEF Taken, Today

\* The worst entry of a matching is one that it takes, and no other is worse.
LEMMA WorstOf ==
    ASSUME NEW f \in Files, NEW m \in Matchings(f, Incidence(f).contemporaneous)
    PROVE  /\ Worst(f, m) \in Int
           /\ \E e \in Taken(f, m) : Worst(f, m) = Distance(f, e)
           /\ \A e \in Taken(f, m) : Distance(f, e) =< Worst(f, m)
<1>. DEFINE far == {Distance(f, e) : e \in Taken(f, m)}
<1>1. Taken(f, m) \in SUBSET Today(f)
  BY DEF Taken, Today
<1>2. far \in SUBSET Int /\ IsFiniteSet(far)
  BY <1>1, DistancesType
<1>3. far # {}
  <2>1. 1 \in Ids(f)
    BY FilesAssumption DEF Ids
  <2>2. PICK C : C = Incidence(f).contemporaneous /\ C \in SUBSET Incidence(f).contemporaneous
    OBVIOUS
  <2>3. m \in Matchings(f, C)
    BY <2>2
  <2>4. \E e \in Taken(f, m) : e.var = 1 /\ e.eq = m[1]
    BY <2>1, <2>2, <2>3, MatchedEntry
  <2> QED BY <2>4
<1>4. Worst(f, m) = Max(far)
  BY DEF Worst, Taken
<1>5. Max(far) \in far /\ \A k \in far : Max(far) >= k
  BY <1>2, <1>3, MaxOf
<1>6. \A e \in Taken(f, m) : Distance(f, e) \in far
  OBVIOUS
<1>. HIDE DEF far
<1>7. \A e \in Taken(f, m) : Distance(f, e) =< Max(far)
  BY <1>2, <1>5, <1>6
<1>8. \E e \in Taken(f, m) : Max(far) = Distance(f, e)
  BY <1>5 DEF far
<1>9. Max(far) \in Int
  BY <1>2, <1>5
<1> QED BY <1>4, <1>7, <1>8, <1>9

\* The entries down to some distance are a part of all.
LEMMA AboveOf ==
    ASSUME NEW f, NEW k PROVE Above(f, k) \in SUBSET Incidence(f).contemporaneous
BY DEF Above, Incidence

\* A matching in a part of a pattern is one in the pattern.
LEMMA MatchingsMonotone ==
    ASSUME NEW f, NEW P, NEW Q, P \subseteq Q PROVE Matchings(f, P) \subseteq Matchings(f, Q)
BY DEF Matchings

\* A matching is found among the entries down to its worst one.
LEMMA FoundAtWorst ==
    ASSUME NEW f \in Files, NEW m \in Matchings(f, Incidence(f).contemporaneous)
    PROVE  m \in Matchings(f, Above(f, Worst(f, m)))
<1>. SUFFICES ASSUME NEW v \in Ids(f) PROVE <<m[v], v>> \in Above(f, Worst(f, m))
  BY DEF Matchings
<1>1. PICK e \in Taken(f, m) : e.var = v /\ e.eq = m[v]
  <2>1. PICK C : C = Incidence(f).contemporaneous /\ C \in SUBSET Incidence(f).contemporaneous
    OBVIOUS
  <2>2. m \in Matchings(f, C)
    BY <2>1
  <2>3. \E e \in Taken(f, m) : e.var = v /\ e.eq = m[v]
    BY <2>1, <2>2, MatchedEntry
  <2> QED BY <2>3
<1>2. Distance(f, e) =< Worst(f, m)
  BY WorstOf
<1> QED BY <1>1, <1>2 DEF Above, Taken

\* A matching found among the entries down to some distance has none farther.
LEMMA NoWorse ==
    ASSUME NEW f \in Files, NEW k \in Int, NEW m \in Matchings(f, Above(f, k))
    PROVE  Worst(f, m) =< k
<1>1. m \in Matchings(f, Incidence(f).contemporaneous)
  BY AboveOf, MatchingsMonotone
<1>2. PICK e \in Taken(f, m) : Worst(f, m) = Distance(f, e)
  BY <1>1, WorstOf
<1>3. e \in f.entries /\ e.lag = 0 /\ e.eq = m[e.var] /\ e.var \in Ids(f)
  BY FilesAssumption DEF Taken, KeptEntries
<1>4. <<m[e.var], e.var>> \in Above(f, k)
  BY <1>3 DEF Matchings
<1>5. PICK d \in KeptEntries(f) : /\ d.lag = 0 /\ Distance(f, d) =< k
                                  /\ d.eq = m[e.var] /\ d.var = e.var
  BY <1>4 DEF Above
<1>6. d = e
  BY <1>3, <1>5, FilesAssumption DEF KeptEntries
<1> QED BY <1>2, <1>5, <1>6

\* The distance at which the search for a matching stops.
LEMMA FirstTry ==
    ASSUME NEW f \in Files, NEW k \in Tries(f), Successful(f, k)
    PROVE  LET first == Min({j \in Tries(f) : Successful(f, j)})
           IN  first \in Tries(f) /\ first \in Int /\ Successful(f, first) /\ first =< k
<1>. DEFINE found == {j \in Tries(f) : Successful(f, j)}
<1>1. Distances(f) \in SUBSET Int /\ IsFiniteSet(Distances(f))
  <2>1. Distances(f) = {Distance(f, e) : e \in Today(f)}
    BY DEF Distances, Today
  <2> QED BY <2>1, DistancesType
<1>2. found \in SUBSET Distances(f) /\ k \in found
  BY DEF Tries
<1>3. found \in SUBSET Int /\ IsFiniteSet(found) /\ found # {}
  BY <1>1, <1>2, FS_Subset
<1>4. Min(found) \in found /\ \A j \in found : Min(found) =< j
  BY <1>3, MinOf
<1> QED BY <1>2, <1>3, <1>4

\* When the entries have a matching, one is looked for among them, and those that can be
\* found are as good as any that keeps away from the cutoff.
LEMMA PatternIsBest ==
    ASSUME NEW f \in Files, NEW m \in Matchings(f, Incidence(f).contemporaneous)
    PROVE  LET pattern == MatchedPattern(f, Incidence(f).contemporaneous)
           IN  /\ pattern \subseteq Incidence(f).contemporaneous
               /\ \A q \in Matchings(f, pattern) :
                    Worst(f, m) < Cutoff => Worst(f, q) =< Worst(f, m)
<1>. DEFINE C == Incidence(f).contemporaneous
            pattern == MatchedPattern(f, C)
            first == Min({j \in Tries(f) : Successful(f, j)})
<1>1. CASE \E k \in Tries(f) : Successful(f, k)
  <2>1. pattern = Above(f, first)
    BY <1>1 DEF MatchedPattern
  <2>2. pattern \subseteq C
    BY <2>1, AboveOf
  <2>3. ASSUME NEW q \in Matchings(f, pattern), Worst(f, m) < Cutoff
        PROVE  Worst(f, q) =< Worst(f, m)
    <3>1. Worst(f, m) \in Tries(f)
      <4>1. PICK e \in Taken(f, m) : Worst(f, m) = Distance(f, e)
        BY WorstOf
      <4>2. Worst(f, m) \in Distances(f)
        BY <4>1 DEF Distances, Taken
      <4> QED BY <1>1, <2>3, <4>2 DEF Tries
    <3>2. Successful(f, Worst(f, m))
      BY FoundAtWorst DEF Successful
    <3>3. first \in Int /\ first =< Worst(f, m)
      BY <3>1, <3>2, FirstTry
    <3>4. Worst(f, q) =< first
      BY <2>1, <3>3, NoWorse
    <3>5. Worst(f, q) \in Int /\ Worst(f, m) \in Int
      BY <2>2, MatchingsMonotone, WorstOf
    <3> QED BY <3>3, <3>4, <3>5
  <2> QED BY <2>2, <2>3
<1>2. CASE ~ \E k \in Tries(f) : Successful(f, k)
  <2>1. pattern = C
    BY <1>2 DEF MatchedPattern
  <2>2. ASSUME NEW q \in Matchings(f, pattern), Worst(f, m) < Cutoff
        PROVE  Worst(f, q) =< Worst(f, m)
    <3>1. Worst(f, m) \in Distances(f)
      <4>1. PICK e \in Taken(f, m) : Worst(f, m) = Distance(f, e)
        BY WorstOf
      <4> QED BY <4>1 DEF Distances, Taken
    <3>2. Worst(f, q) \in Distances(f)
      <4>1. PICK e \in Taken(f, q) : Worst(f, q) = Distance(f, e)
        BY <2>1, WorstOf
      <4> QED BY <4>1 DEF Distances, Taken
    <3>3. Distances(f) \subseteq {0}
      <4>1. Successful(f, Worst(f, m))
        BY FoundAtWorst DEF Successful
      <4>2. Worst(f, m) \notin Tries(f)
        BY <1>2, <4>1
      <4> QED BY <2>2, <3>1, <4>2 DEF Tries
    <3> QED BY <3>1, <3>2, <3>3
  <2> QED BY <2>1, <2>2
<1> QED BY <1>1, <1>2

-------------------------------------------------------------------------------
(***************************************************************************)
(* The prologue and the epilogue                                           *)
(***************************************************************************)

\* The equations, or the variables, each at one place.
Arrangement(n, s) ==
    /\ s \in [1 .. n -> 1 .. n]
    /\ \A i, j \in 1 .. n : s[i] = s[j] => i = j
    /\ \A x \in 1 .. n : \E i \in 1 .. n : s[i] = x

\* What the scans work on.
Orders(n) == [eqs : [1 .. n -> 1 .. n], vars : [1 .. n -> 1 .. n], done : 0 .. n]

\* A matching in an incidence matrix of n equations.
MatchedIn(n, static, m) ==
    /\ static \subseteq (1 .. n) \X (1 .. n)
    /\ m \in [1 .. n -> 1 .. n]
    /\ \A v, w \in 1 .. n : m[v] = m[w] => v = w
    /\ \A v \in 1 .. n : <<m[v], v>> \in static

\* An order in which each equation is at the place of its variable.
InPairs(n, m, o) ==
    /\ o \in Orders(n)
    /\ Arrangement(n, o.eqs) /\ Arrangement(n, o.vars)
    /\ \A i \in 1 .. n : m[o.vars[i]] = o.eqs[i]

\* The equations of the first places hold only variables of earlier places.
Leads(static, o, first) ==
    \A i \in 1 .. first : \A p \in static : p[1] = o.eqs[i] => \E j \in 1 .. i : p[2] = o.vars[j]

\* The variables of the last places are only in equations of later places.
Follows(n, static, o, end) ==
    \A i \in end + 1 .. n : \A p \in static : p[2] = o.vars[i] => \E j \in i .. n : p[1] = o.eqs[j]

\* Two elements of an arrangement may be swapped.
LEMMA SwappedOf ==
    ASSUME NEW n \in Nat, NEW s, Arrangement(n, s), NEW i \in 1 .. n, NEW j \in 1 .. n
    PROVE  /\ Arrangement(n, Swapped(s, i, j))
           /\ Swapped(s, i, j)[i] = s[j] /\ Swapped(s, i, j)[j] = s[i]
           /\ \A k \in 1 .. n : k # i /\ k # j => Swapped(s, i, j)[k] = s[k]
<1>. DEFINE t == Swapped(s, i, j)
            P == 1 .. n
<1>. HIDE DEF P
<1>0. i \in P /\ j \in P /\ s \in [P -> P]
  BY DEF P, Arrangement
<1>1. t \in [P -> P] /\ \A k \in P : t[k] = IF k = j THEN s[i] ELSE IF k = i THEN s[j] ELSE s[k]
  BY <1>0 DEF Swapped
<1>. HIDE DEF t
<1>2. \A k, l \in P : t[k] = t[l] => k = l
  <2>1. \A k, l \in P : s[k] = s[l] => k = l
    BY DEF Arrangement, P
  <2> QED BY <1>0, <1>1, <2>1
<1>3. \A x \in P : \E k \in P : t[k] = x
  <2>. SUFFICES ASSUME NEW x \in P PROVE \E k \in P : t[k] = x
    OBVIOUS
  <2>1. PICK k \in P : s[k] = x
    BY DEF Arrangement, P
  <2>2. t[i] = s[j] /\ t[j] = s[i]
    BY <1>0, <1>1
  <2>3. k # i /\ k # j => t[k] = s[k]
    BY <1>1
  <2> QED BY <1>0, <2>1, <2>2, <2>3
<1>4. t[i] = s[j] /\ t[j] = s[i] /\ \A k \in P : k # i /\ k # j => t[k] = s[k]
  BY <1>0, <1>1
<1>5. Arrangement(n, t)
  BY <1>1, <1>2, <1>3 DEF Arrangement, P
<1> QED BY <1>4, <1>5 DEF P, t

\* The only element of a set with one element.
LEMMA OnlyOne ==
    ASSUME NEW s, IsFiniteSet(s), Cardinality(s) = 1, NEW x \in s
    PROVE  (CHOOSE y \in s : TRUE) = x /\ \A y \in s : y = x
<1>1. \E y : s = {y}
  BY FS_Singleton
<1> QED BY <1>1

\* What an order is made of.
LEMMA OrderType ==
    ASSUME NEW n \in Nat, NEW o \in Orders(n)
    PROVE  /\ o.eqs \in [1 .. n -> 1 .. n] /\ o.vars \in [1 .. n -> 1 .. n] /\ o.done \in 0 .. n
           /\ Len(o.eqs) = n /\ DOMAIN o.eqs = 1 .. n
<1>1. o.eqs \in [1 .. n -> 1 .. n] /\ o.vars \in [1 .. n -> 1 .. n] /\ o.done \in 0 .. n
  BY DEF Orders
<1>2. DOMAIN o.eqs = 1 .. n /\ o.eqs \in Seq(1 .. n)
  BY <1>1
<1>3. Len(o.eqs) = n
  BY <1>2
<1> QED BY <1>1, <1>2, <1>3

\* A scan leaves an order of the same equations.
LEMMA TakeEquationType ==
    ASSUME NEW n \in Nat, NEW static, NEW o \in Orders(n), NEW i \in 1 .. n
    PROVE  TakeEquation(static, o, i) \in Orders(n)
<1>. DEFINE held == {j \in (o.done + 1) .. n : <<o.eqs[i], o.vars[j]>> \in static}
            k == CHOOSE j \in held : TRUE
            t == [eqs |-> Swapped(o.eqs, o.done + 1, i), vars |-> Swapped(o.vars, o.done + 1, k),
                  done |-> o.done + 1]
<1>1. Len(o.eqs) = n /\ o.done \in 0 .. n
  BY OrderType
<1>2. TakeEquation(static, o, i) = IF Cardinality(held) # 1 THEN o ELSE t
  BY <1>1 DEF TakeEquation
<1>3. ASSUME Cardinality(held) = 1 PROVE t \in Orders(n)
  <2>1. held # {}
    <3>1. Cardinality({}) = 0
      BY FS_EmptySet
    <3>. HIDE DEF held
    <3> QED BY <1>3, <3>1
  <2>2. k \in held
    BY <2>1
  <2>3. k \in 1 .. n /\ o.done + 1 \in 1 .. n
    BY <1>1, <2>2
  <2>. HIDE DEF k
  <2>4. Swapped(o.eqs, o.done + 1, i) \in [1 .. n -> 1 .. n]
    BY <2>3 DEF Swapped, Orders
  <2>5. Swapped(o.vars, o.done + 1, k) \in [1 .. n -> 1 .. n]
    BY <2>3 DEF Swapped, Orders
  <2>6. o.done + 1 \in 0 .. n
    BY <1>1, <2>3
  <2> QED BY <2>4, <2>5, <2>6 DEF Orders
<1> QED BY <1>2, <1>3

\* An equation that is put in front is at the place of its variable, and the variables it
\* holds are before it.
LEMMA TakeEquationKeeps ==
    ASSUME NEW n \in Nat, NEW static, NEW m, MatchedIn(n, static, m),
           NEW o, InPairs(n, m, o), Leads(static, o, o.done), NEW i \in o.done + 1 .. n
    PROVE  LET t == TakeEquation(static, o, i)
           IN  InPairs(n, m, t) /\ Leads(static, t, t.done) /\ t.done =< o.done + 1
<1>. DEFINE held == {j \in (o.done + 1) .. n : <<o.eqs[i], o.vars[j]>> \in static}
            d == o.done + 1
            k == CHOOSE j \in held : TRUE
            t == [eqs |-> Swapped(o.eqs, d, i), vars |-> Swapped(o.vars, d, k), done |-> d]
<1>1. /\ Len(o.eqs) = n /\ o.done \in 0 .. n /\ o \in Orders(n)
      /\ o.eqs \in [1 .. n -> 1 .. n] /\ o.vars \in [1 .. n -> 1 .. n]
  <2>1. o \in Orders(n)
    BY DEF InPairs
  <2> QED BY <2>1, OrderType
<1>2. TakeEquation(static, o, i) = IF Cardinality(held) # 1 THEN o ELSE t
  BY <1>1 DEF TakeEquation
<1>3. CASE Cardinality(held) # 1
  <2>1. TakeEquation(static, o, i) = o /\ o.done =< o.done + 1
    BY <1>1, <1>2, <1>3
  <2> QED BY <2>1
<1>4. CASE Cardinality(held) = 1
  <2>0. d \in 1 .. n /\ i \in 1 .. n /\ i >= d
    <3>1. PICK x \in 0 .. n : x = o.done
      BY <1>1
    <3>2. i \in x + 1 .. n /\ d = x + 1
      BY <3>1
    <3>. HIDE DEF held, k, t, d
    <3> QED BY <3>2
  <2>1. i \in held
    <3>1. <<m[o.vars[i]], o.vars[i]>> \in static
      BY <1>1, <2>0 DEF MatchedIn
    <3>2. m[o.vars[i]] = o.eqs[i]
      BY <2>0 DEF InPairs
    <3> QED BY <3>1, <3>2
  <2>2. IsFiniteSet(held)
    <3>1. held \subseteq (o.done + 1) .. n
      OBVIOUS
    <3>2. IsFiniteSet((o.done + 1) .. n)
      <4>1. o.done + 1 \in Int /\ n \in Int
        BY <1>1
      <4> QED BY <4>1, FS_Interval
    <3>. HIDE DEF held
    <3> QED BY <3>1, <3>2, FS_Subset
  <2>3. k = i /\ \A j \in held : j = i
    <3>. HIDE DEF held
    <3> QED BY <1>4, <2>1, <2>2, OnlyOne
  <2>. HIDE DEF k
  <2>4. /\ t.eqs = Swapped(o.eqs, d, i) /\ t.vars = Swapped(o.vars, d, i) /\ t.done = d
        /\ TakeEquation(static, o, i) = t
    BY <1>2, <1>4, <2>3
  <2>5. t \in Orders(n)
    BY <1>1, <2>0, <2>4, TakeEquationType
  <2>. HIDE DEF t
  <2>6. /\ Arrangement(n, t.eqs) /\ t.eqs[d] = o.eqs[i] /\ t.eqs[i] = o.eqs[d]
        /\ \A j \in 1 .. n : j # d /\ j # i => t.eqs[j] = o.eqs[j]
    <3>1. PICK s : s = o.eqs
      OBVIOUS
    <3>2. PICK u : u = t.eqs
      OBVIOUS
    <3>3. Arrangement(n, s) /\ u = Swapped(s, d, i)
      BY <2>4, <3>1, <3>2 DEF InPairs
    <3>. HIDE DEF d
    <3>4. /\ Arrangement(n, u) /\ u[d] = s[i] /\ u[i] = s[d]
          /\ \A j \in 1 .. n : j # d /\ j # i => u[j] = s[j]
      BY <2>0, <3>3, SwappedOf
    <3> QED BY <3>1, <3>2, <3>4
  <2>7. /\ Arrangement(n, t.vars) /\ t.vars[d] = o.vars[i] /\ t.vars[i] = o.vars[d]
        /\ \A j \in 1 .. n : j # d /\ j # i => t.vars[j] = o.vars[j]
    <3>1. PICK s : s = o.vars
      OBVIOUS
    <3>2. PICK u : u = t.vars
      OBVIOUS
    <3>3. Arrangement(n, s) /\ u = Swapped(s, d, i)
      BY <2>4, <3>1, <3>2 DEF InPairs
    <3>. HIDE DEF d
    <3>4. /\ Arrangement(n, u) /\ u[d] = s[i] /\ u[i] = s[d]
          /\ \A j \in 1 .. n : j # d /\ j # i => u[j] = s[j]
      BY <2>0, <3>3, SwappedOf
    <3> QED BY <3>1, <3>2, <3>4
  <2>8. \A j \in 1 .. n : m[o.vars[j]] = o.eqs[j]
    BY DEF InPairs
  <2>. HIDE DEF d
  <2>9. \A j \in 1 .. n : m[t.vars[j]] = t.eqs[j]
    BY <2>0, <2>6, <2>7, <2>8
  <2>10. InPairs(n, m, t)
    BY <2>5, <2>6, <2>7, <2>9 DEF InPairs
  <2>11. ASSUME NEW j \in 1 .. d - 1
         PROVE  t.eqs[j] = o.eqs[j] /\ t.vars[j] = o.vars[j]
    <3>1. j \in 1 .. n /\ j # d /\ j # i
      BY <2>0
    <3> QED BY <2>6, <2>7, <3>1
  <2>12. ASSUME NEW e \in 1 .. d - 1, NEW p \in static, p[1] = t.eqs[e]
         PROVE  \E j \in 1 .. e : p[2] = t.vars[j]
    <3>1. e \in 1 .. o.done /\ p[1] = o.eqs[e]
      BY <1>1, <2>11, <2>12 DEF d
    <3>2. PICK j \in 1 .. e : p[2] = o.vars[j]
      BY <3>1 DEF Leads
    <3>3. j \in 1 .. d - 1
      BY <2>0, <3>2
    <3> QED BY <2>11, <3>2, <3>3
  <2>13. ASSUME NEW p \in static, p[1] = t.eqs[d]
         PROVE  \E j \in 1 .. d : p[2] = t.vars[j]
    <3>1. p = <<p[1], p[2]>> /\ p[2] \in 1 .. n
      <4>1. p \in (1 .. n) \X (1 .. n)
        BY DEF MatchedIn
      <4> QED BY <4>1
    <3>2. PICK j \in 1 .. n : o.vars[j] = p[2]
      BY <3>1 DEF InPairs, Arrangement
    <3>3. <<o.eqs[i], o.vars[j]>> \in static
      BY <2>6, <2>13, <3>1, <3>2
    <3>4. CASE j >= d
      <4>1. j \in held
        BY <3>2, <3>3, <3>4 DEF d
      <4>2. p[2] = t.vars[d]
        BY <2>3, <2>7, <3>2, <4>1
      <4> QED BY <2>0, <4>2
    <3>5. CASE j < d
      <4>1. j \in 1 .. d - 1 /\ j \in 1 .. d
        BY <2>0, <3>5
      <4> QED BY <2>11, <3>2, <4>1
    <3> QED BY <2>0, <3>4, <3>5
  <2>14. Leads(static, t, d)
    <3>. SUFFICES ASSUME NEW e \in 1 .. d, NEW p \in static, p[1] = t.eqs[e]
                  PROVE  \E j \in 1 .. e : p[2] = t.vars[j]
      BY DEF Leads
    <3>1. e = d \/ e \in 1 .. d - 1
      BY <2>0
    <3> QED BY <2>12, <2>13, <3>1
  <2> QED BY <1>1, <2>4, <2>10, <2>14 DEF d
<1> QED BY <1>3, <1>4

\* g[1 .. k] is what a scan for the prologue has left after its first k places of c.
PrologueScan(static, o, c, g) ==
    /\ g[{}] = o /\ ScanPrologue(static, o) = g[1 .. c]
    /\ \A s \in SUBSET (1 .. c) : s # {} =>
         g[s] = TakeEquation(static, g[s \ {Max(s)}], o.done + Max(s))

\* A scan for the prologue takes its equations one after the other.
LEMMA ScanPrologueSteps ==
    ASSUME NEW n \in Nat, NEW static, NEW o \in Orders(n), NEW c, c = n - o.done
    PROVE  \E g : PrologueScan(static, o, c, g)
<1>. DEFINE q == [k \in 1 .. c |-> o.done + k]
            D == SUBSET (1 .. c)
            F == [a \in Orders(n) \X (1 .. c) |-> TakeEquation(static, a[1], q[a[2]])]
            h == CHOOSE g : g = [s \in D |-> IF s = {} THEN o
                                             ELSE TakeEquation(static, g[s \ {Max(s)}], q[Max(s)])]
<1>1. Len(o.eqs) = n /\ o.done \in 0 .. n /\ c \in 0 .. n /\ DOMAIN q = 1 .. c
  BY OrderType
<1>2. ScanPrologue(static, o) = h[1 .. c]
  BY <1>1 DEF ScanPrologue, FoldLeft, MapThenFoldSet
<1>3. F \in [Orders(n) \X (1 .. c) -> Orders(n)]
  <2>. SUFFICES ASSUME NEW p \in Orders(n), NEW k \in 1 .. c
                PROVE  TakeEquation(static, p, q[k]) \in Orders(n)
    OBVIOUS
  <2>1. q[k] \in 1 .. n
    BY <1>1
  <2>. HIDE DEF q
  <2> QED BY <2>1, TakeEquationType
<1>4. PICK g \in [D -> Orders(n)] : IsIteration(g, F, o, D)
  <2>. HIDE DEF F
  <2>1. c \in Nat
    BY <1>1
  <2> QED BY <1>3, <2>1, IterationExists
<1>5. g = [s \in D |-> IF s = {} THEN o ELSE TakeEquation(static, g[s \ {Max(s)}], q[Max(s)])]
  <2>1. ASSUME NEW s \in D, s # {}
        PROVE  F[<<g[s \ {Max(s)}], Max(s)>>] = TakeEquation(static, g[s \ {Max(s)}], q[Max(s)])
    <3>1. c \in Nat
      BY <1>1
    <3>2. Max(s) \in 1 .. c /\ s \ {Max(s)} \in D
      BY <2>1, <3>1, LastPlace
    <3>. HIDE DEF q, D
    <3>3. <<g[s \ {Max(s)}], Max(s)>> \in Orders(n) \X (1 .. c)
      BY <3>2
    <3> QED BY <3>3
  <2>2. g = [s \in D |-> IF s = {} THEN o ELSE F[<<g[s \ {Max(s)}], Max(s)>>]]
    BY <1>4 DEF IsIteration
  <2>. HIDE DEF F, q, D
  <2> QED BY <2>1, <2>2
<1>6. h = [s \in D |-> IF s = {} THEN o ELSE TakeEquation(static, h[s \ {Max(s)}], q[Max(s)])]
  <2>. HIDE DEF q, D, F
  <2> QED BY <1>5
<1>. HIDE DEF h
<1>7. ASSUME NEW s \in D, s # {}
      PROVE  h[s] = TakeEquation(static, h[s \ {Max(s)}], o.done + Max(s))
  <2>1. Max(s) \in 1 .. c
    <3>1. c \in Nat
      BY <1>1
    <3> QED BY <1>7, <3>1, LastPlace
  <2>2. q[Max(s)] = o.done + Max(s)
    BY <2>1
  <2>. HIDE DEF q, D
  <2> QED BY <1>6, <1>7, <2>2
<1>8. h[{}] = o
  <2>1. {} \in D
    OBVIOUS
  <2>. HIDE DEF q, D
  <2> QED BY <1>6, <2>1
<1> QED BY <1>2, <1>7, <1>8 DEF PrologueScan

\* What a scan for the prologue keeps: the equations are in pairs with their variables, and the
\* first ones lead.
LEMMA ScanPrologueKeeps ==
    ASSUME NEW n \in Nat, NEW static, NEW m, MatchedIn(n, static, m),
           NEW o, InPairs(n, m, o), Leads(static, o, o.done)
    PROVE  /\ InPairs(n, m, ScanPrologue(static, o))
           /\ Leads(static, ScanPrologue(static, o), ScanPrologue(static, o).done)
<1>0. PICK c : c = n - o.done
  OBVIOUS
<1>. DEFINE Kept(k) == {p \in Orders(n) : InPairs(n, m, p) /\ Leads(static, p, p.done) /\ p.done =< o.done + k}
            Good == [k \in 0 .. c |-> Kept(k)]
<1>1. o \in Orders(n) /\ o.done \in 0 .. n /\ c \in 0 .. n /\ c \in Nat
  <2>1. o \in Orders(n)
    BY DEF InPairs
  <2> QED BY <1>0, <2>1, OrderType
<1>2. PICK g : PrologueScan(static, o, c, g)
  BY <1>0, <1>1, ScanPrologueSteps
<1>3. g[{}] \in Good[0]
  <2>1. g[{}] = o /\ o.done =< o.done + 0
    BY <1>1, <1>2 DEF PrologueScan
  <2> QED BY <1>1, <2>1
<1>5. ASSUME NEW k \in 0 .. c - 1, g[1 .. k] \in Good[k] PROVE g[1 .. k + 1] \in Good[k + 1]
  <2>1. /\ k \in Nat /\ k \in 0 .. c /\ k + 1 \in 0 .. c /\ 1 .. k + 1 \in SUBSET (1 .. c)
        /\ o.done + (k + 1) \in Int
    BY <1>1
  <2>2. Max(1 .. k + 1) = k + 1 /\ (1 .. k + 1) \ {k + 1} = 1 .. k
    BY <2>1, LastOfFirst
  <2>3. g[1 .. k + 1] = TakeEquation(static, g[1 .. k], o.done + (k + 1))
    <3>1. PICK s \in SUBSET (1 .. c) : s = 1 .. k + 1 /\ s # {}
      BY <2>1, LastOfFirst
    <3>2. g[s] = TakeEquation(static, g[s \ {Max(s)}], o.done + Max(s))
      BY <1>2, <3>1 DEF PrologueScan
    <3> QED BY <2>2, <3>1, <3>2
  <2>4. PICK p : p = g[1 .. k]
    OBVIOUS
  <2>5. /\ InPairs(n, m, p) /\ Leads(static, p, p.done) /\ p.done =< o.done + k
        /\ p \in Orders(n) /\ p.done \in 0 .. n
    BY <1>5, <2>1, <2>4, OrderType
  <2>6. PICK t : t = TakeEquation(static, p, o.done + (k + 1))
    OBVIOUS
  <2>7. o.done + (k + 1) \in p.done + 1 .. n /\ o.done + (k + 1) \in 1 .. n
    BY <1>0, <1>1, <2>1, <2>5
  <2>8. InPairs(n, m, t) /\ Leads(static, t, t.done) /\ t.done =< p.done + 1
    BY <2>5, <2>6, <2>7, TakeEquationKeeps
  <2>9. t \in Orders(n) /\ t.done \in 0 .. n
    BY <2>8, OrderType DEF InPairs
  <2>10. t.done =< o.done + (k + 1)
    BY <1>1, <2>1, <2>5, <2>8, <2>9
  <2>11. t \in Kept(k + 1)
    BY <2>8, <2>9, <2>10
  <2> QED BY <2>1, <2>3, <2>4, <2>6, <2>11
<1>6. g[1 .. c] \in Good[c]
  <2>. HIDE DEF Good
  <2> QED BY <1>1, <1>3, <1>5, IterationKeeps
<1> QED BY <1>1, <1>2, <1>6 DEF PrologueScan

\* The prologue keeps what a scan keeps.
LEMMA PrologueKeeps ==
    ASSUME NEW n \in Nat, NEW static, NEW States, NEW o \in States, DOMAIN o.eqs = 1 .. n,
           \A p \in States : ScanPrologue(static, p) \in States
    PROVE  Prologue(static, o) \in States
<1>. DEFINE D == SUBSET (1 .. n)
            F == [a \in States \X (1 .. n) |-> ScanPrologue(static, a[1])]
            h == CHOOSE g : g = [s \in D |-> IF s = {} THEN o ELSE ScanPrologue(static, g[s \ {Max(s)}])]
            Good == [k \in 0 .. n |-> States]
<1>1. Prologue(static, o) = h[1 .. n]
  BY DEF Prologue, FoldLeft, MapThenFoldSet
<1>2. F \in [States \X (1 .. n) -> States]
  OBVIOUS
<1>3. PICK g \in [D -> States] : IsIteration(g, F, o, D)
  <2>. HIDE DEF F
  <2> QED BY <1>2, IterationExists
<1>4. g = [s \in D |-> IF s = {} THEN o ELSE ScanPrologue(static, g[s \ {Max(s)}])]
  <2>1. ASSUME NEW s \in D, s # {}
        PROVE  F[<<g[s \ {Max(s)}], Max(s)>>] = ScanPrologue(static, g[s \ {Max(s)}])
    <3>1. Max(s) \in 1 .. n /\ s \ {Max(s)} \in D
      BY <2>1, LastPlace
    <3>. HIDE DEF D
    <3>2. <<g[s \ {Max(s)}], Max(s)>> \in States \X (1 .. n)
      BY <3>1
    <3> QED BY <3>2
  <2>2. g = [s \in D |-> IF s = {} THEN o ELSE F[<<g[s \ {Max(s)}], Max(s)>>]]
    BY <1>3 DEF IsIteration
  <2>. HIDE DEF F, D
  <2> QED BY <2>1, <2>2
<1>5. h = [s \in D |-> IF s = {} THEN o ELSE ScanPrologue(static, h[s \ {Max(s)}])]
  <2>. HIDE DEF D, F
  <2> QED BY <1>4
<1>. HIDE DEF h
<1>6. h[{}] = o
  <2>1. {} \in D
    OBVIOUS
  <2>. HIDE DEF D
  <2> QED BY <1>5, <2>1
<1>7. ASSUME NEW k \in 0 .. n - 1, h[1 .. k] \in Good[k] PROVE h[1 .. k + 1] \in Good[k + 1]
  <2>1. k \in Nat /\ k \in 0 .. n /\ k + 1 \in 0 .. n /\ 1 .. k + 1 \in D
    OBVIOUS
  <2>2. Max(1 .. k + 1) = k + 1 /\ (1 .. k + 1) \ {k + 1} = 1 .. k
    BY <2>1, LastOfFirst
  <2>3. h[1 .. k + 1] = ScanPrologue(static, h[1 .. k])
    <3>1. PICK s \in D : s = 1 .. k + 1 /\ s # {}
      BY <2>1, LastOfFirst
    <3>. HIDE DEF D
    <3>2. h[s] = ScanPrologue(static, h[s \ {Max(s)}])
      BY <1>5, <3>1
    <3> QED BY <2>2, <3>1, <3>2
  <2>4. h[1 .. k] \in States
    BY <1>7, <2>1
  <2> QED BY <2>1, <2>3, <2>4
<1>8. h[1 .. n] \in Good[n]
  <2>1. h[{}] \in Good[0]
    BY <1>6
  <2>. HIDE DEF Good
  <2> QED BY <1>6, <1>7, <2>1, IterationKeeps
<1> QED BY <1>1, <1>8

\* What the scans for the epilogue work on, after those of the prologue.
InEnds(n, static, m, first, o) ==
    /\ InPairs(n, m, o)
    /\ Leads(static, o, first - 1)
    /\ Follows(n, static, o, n - o.done)
    /\ first + o.done =< n + 1

\* A scan leaves an order of the same equations.
LEMMA TakeVariableType ==
    ASSUME NEW n \in Nat, NEW static, NEW o \in Orders(n), NEW i \in 1 .. n, NEW first \in Nat \ {0}
    PROVE  TakeVariable(static, o, i, first) \in Orders(n)
<1>. DEFINE end == n - o.done
            holding == {j \in first .. end : <<o.eqs[j], o.vars[i]>> \in static}
            k == CHOOSE j \in holding : TRUE
            t == [eqs |-> Swapped(o.eqs, end, k), vars |-> Swapped(o.vars, end, i),
                  done |-> o.done + 1]
<1>1. Len(o.eqs) = n /\ o.done \in 0 .. n
  BY OrderType
<1>2. TakeVariable(static, o, i, first) = IF Cardinality(holding) # 1 THEN o ELSE t
  BY <1>1 DEF TakeVariable
<1>3. ASSUME Cardinality(holding) = 1 PROVE t \in Orders(n)
  <2>1. holding # {}
    <3>1. Cardinality({}) = 0
      BY FS_EmptySet
    <3>. HIDE DEF holding
    <3> QED BY <1>3, <3>1
  <2>2. k \in holding
    BY <2>1
  <2>3. k \in 1 .. n /\ end \in 1 .. n /\ o.done + 1 \in 0 .. n
    BY <1>1, <2>2
  <2>. HIDE DEF k, end
  <2>4. Swapped(o.eqs, end, k) \in [1 .. n -> 1 .. n]
    BY <2>3 DEF Swapped, Orders
  <2>5. Swapped(o.vars, end, i) \in [1 .. n -> 1 .. n]
    BY <2>3 DEF Swapped, Orders
  <2> QED BY <2>3, <2>4, <2>5 DEF Orders
<1> QED BY <1>2, <1>3

\* A variable that is put at the end is at the place of its equation, and the equations that hold
\* it are after it.
LEMMA TakeVariableKeeps ==
    ASSUME NEW n \in Nat, NEW static, NEW m, MatchedIn(n, static, m), NEW first \in Nat \ {0},
           NEW o, InEnds(n, static, m, first, o), NEW i \in first .. n
    PROVE  InEnds(n, static, m, first, TakeVariable(static, o, i, first))
<1>. DEFINE end == n - o.done
            holding == {j \in first .. end : <<o.eqs[j], o.vars[i]>> \in static}
            k == CHOOSE j \in holding : TRUE
            t == [eqs |-> Swapped(o.eqs, end, k), vars |-> Swapped(o.vars, end, i),
                  done |-> o.done + 1]
<1>1. /\ Len(o.eqs) = n /\ o.done \in 0 .. n /\ o \in Orders(n)
      /\ o.eqs \in [1 .. n -> 1 .. n] /\ o.vars \in [1 .. n -> 1 .. n]
  <2>1. o \in Orders(n)
    BY DEF InEnds, InPairs
  <2> QED BY <2>1, OrderType
<1>2. TakeVariable(static, o, i, first) = IF Cardinality(holding) # 1 THEN o ELSE t
  BY <1>1 DEF TakeVariable
<1>3. CASE Cardinality(holding) # 1
  <2>1. TakeVariable(static, o, i, first) = o
    BY <1>2, <1>3
  <2> QED BY <2>1
<1>4. CASE Cardinality(holding) = 1
  <2>0. /\ end \in Int /\ end + o.done = n /\ end =< n /\ i \in 1 .. n
        /\ \A j \in first .. end : j \in 1 .. n
    <3>1. PICK x \in 0 .. n : x = o.done
      BY <1>1
    <3>2. end = n - x
      BY <3>1
    <3>. HIDE DEF end, holding, k, t
    <3>3. end \in Int /\ end + x = n /\ end =< n
      BY <3>2
    <3> QED BY <3>1, <3>3
  <2>. DEFINE y == o.vars[i]
  <2>1. PICK j \in first .. end : <<o.eqs[j], y>> \in static
    <3>1. Cardinality({}) = 0
      BY FS_EmptySet
    <3>2. holding # {}
      <4>. HIDE DEF holding
      <4> QED BY <1>4, <3>1
    <3> QED BY <3>2
  <2>2. i =< end
    <3>. SUFFICES ASSUME i > end PROVE FALSE
      BY <2>0
    <3>1. i \in end + 1 .. n
      BY <2>0
    <3>2. PICK p \in static : p[1] = o.eqs[j] /\ p[2] = o.vars[i]
      BY <2>1
    <3>. HIDE DEF end
    <3>3. PICK l \in i .. n : p[1] = o.eqs[l]
      <4>1. Follows(n, static, o, end)
        BY DEF InEnds, end
      <4> QED BY <3>1, <3>2, <4>1 DEF Follows
    <3>4. l = j
      <4>1. l \in 1 .. n /\ j \in 1 .. n /\ o.eqs[l] = o.eqs[j]
        BY <2>0, <2>1, <3>2, <3>3
      <4> QED BY <4>1 DEF InEnds, InPairs, Arrangement
    <3> QED BY <2>0, <2>1, <3>3, <3>4
  <2>3. end \in 1 .. n /\ end >= i /\ end >= first
    BY <2>0, <2>2
  <2>4. i \in holding
    <3>1. <<m[o.vars[i]], o.vars[i]>> \in static
      BY <1>1, <2>0 DEF MatchedIn
    <3>2. m[o.vars[i]] = o.eqs[i]
      BY <2>0 DEF InEnds, InPairs
    <3>3. i \in first .. end
      BY <2>0, <2>2
    <3> QED BY <3>1, <3>2, <3>3
  <2>5. IsFiniteSet(holding)
    <3>1. holding \subseteq first .. end
      OBVIOUS
    <3>2. IsFiniteSet(first .. end)
      <4>1. first \in Int /\ end \in Int
        BY <2>0
      <4> QED BY <4>1, FS_Interval
    <3>. HIDE DEF holding
    <3> QED BY <3>1, <3>2, FS_Subset
  <2>6. k = i /\ \A l \in holding : l = i
    <3>. HIDE DEF holding
    <3> QED BY <1>4, <2>4, <2>5, OnlyOne
  <2>. HIDE DEF k
  <2>7. /\ t.eqs = Swapped(o.eqs, end, i) /\ t.vars = Swapped(o.vars, end, i) /\ t.done = o.done + 1
        /\ TakeVariable(static, o, i, first) = t
    BY <1>2, <1>4, <2>6
  <2>8. t \in Orders(n)
    BY <1>1, <2>0, <2>7, TakeVariableType
  <2>. HIDE DEF t, y
  <2>9. /\ Arrangement(n, t.eqs) /\ t.eqs[end] = o.eqs[i] /\ t.eqs[i] = o.eqs[end]
        /\ \A l \in 1 .. n : l # end /\ l # i => t.eqs[l] = o.eqs[l]
    <3>1. PICK s : s = o.eqs
      OBVIOUS
    <3>2. PICK u : u = t.eqs
      OBVIOUS
    <3>3. Arrangement(n, s) /\ u = Swapped(s, end, i)
      BY <2>7, <3>1, <3>2 DEF InEnds, InPairs
    <3>. HIDE DEF end
    <3>4. /\ Arrangement(n, u) /\ u[end] = s[i] /\ u[i] = s[end]
          /\ \A l \in 1 .. n : l # end /\ l # i => u[l] = s[l]
      BY <2>0, <2>3, <3>3, SwappedOf
    <3> QED BY <3>1, <3>2, <3>4
  <2>10. /\ Arrangement(n, t.vars) /\ t.vars[end] = o.vars[i] /\ t.vars[i] = o.vars[end]
         /\ \A l \in 1 .. n : l # end /\ l # i => t.vars[l] = o.vars[l]
    <3>1. PICK s : s = o.vars
      OBVIOUS
    <3>2. PICK u : u = t.vars
      OBVIOUS
    <3>3. Arrangement(n, s) /\ u = Swapped(s, end, i)
      BY <2>7, <3>1, <3>2 DEF InEnds, InPairs
    <3>. HIDE DEF end
    <3>4. /\ Arrangement(n, u) /\ u[end] = s[i] /\ u[i] = s[end]
          /\ \A l \in 1 .. n : l # end /\ l # i => u[l] = s[l]
      BY <2>0, <2>3, <3>3, SwappedOf
    <3> QED BY <3>1, <3>2, <3>4
  <2>11. \A l \in 1 .. n : m[o.vars[l]] = o.eqs[l]
    BY DEF InEnds, InPairs
  <2>. HIDE DEF end, holding
  <2>12. \A l \in 1 .. n : m[t.vars[l]] = t.eqs[l]
    BY <2>0, <2>3, <2>9, <2>10, <2>11
  <2>13. InPairs(n, m, t)
    BY <2>8, <2>9, <2>10, <2>12 DEF InPairs
  <2>14. Leads(static, t, first - 1)
    <3>1. ASSUME NEW l \in 1 .. first - 1 PROVE t.eqs[l] = o.eqs[l] /\ t.vars[l] = o.vars[l]
      <4>1. l \in 1 .. n /\ l # end /\ l # i
        BY <2>0, <2>3
      <4> QED BY <2>9, <2>10, <4>1
    <3>2. Leads(static, o, first - 1)
      BY DEF InEnds
    <3>. SUFFICES ASSUME NEW e \in 1 .. first - 1, NEW p \in static, p[1] = t.eqs[e]
                  PROVE  \E l \in 1 .. e : p[2] = t.vars[l]
      BY DEF Leads
    <3>3. PICK l \in 1 .. e : p[2] = o.vars[l]
      BY <3>1, <3>2 DEF Leads
    <3>4. l \in 1 .. first - 1
      OBVIOUS
    <3> QED BY <3>1, <3>3, <3>4
  <2>15. ASSUME NEW l \in end + 1 .. n PROVE t.eqs[l] = o.eqs[l] /\ t.vars[l] = o.vars[l]
    <3>1. l \in 1 .. n /\ l # end /\ l # i
      BY <2>0, <2>2, <2>3
    <3> QED BY <2>9, <2>10, <3>1
  <2>16. ASSUME NEW e \in end + 1 .. n, NEW p \in static, p[2] = t.vars[e]
         PROVE  \E l \in e .. n : p[1] = t.eqs[l]
    <3>1. p[2] = o.vars[e]
      BY <2>15, <2>16
    <3>2. Follows(n, static, o, end)
      BY DEF InEnds, end
    <3>3. PICK l \in e .. n : p[1] = o.eqs[l]
      BY <3>1, <3>2 DEF Follows
    <3>4. l \in end + 1 .. n
      BY <2>0
    <3> QED BY <2>15, <3>3, <3>4
  <2>17. ASSUME NEW p \in static, p[2] = t.vars[end]
         PROVE  \E l \in end .. n : p[1] = t.eqs[l]
    <3>1. p = <<p[1], p[2]>> /\ p[1] \in 1 .. n
      <4>1. p \in (1 .. n) \X (1 .. n)
        BY DEF MatchedIn
      <4> QED BY <4>1
    <3>2. PICK l \in 1 .. n : o.eqs[l] = p[1]
      BY <3>1 DEF InEnds, InPairs, Arrangement
    <3>3. <<o.eqs[l], o.vars[i]>> \in static /\ p[2] = o.vars[i]
      BY <2>10, <2>17, <3>1, <3>2
    <3>4. CASE l > end
      <4>1. l \in end + 1 .. n /\ l \in end .. n
        BY <2>3, <3>4
      <4> QED BY <2>15, <3>2, <4>1
    <3>5. CASE l =< end /\ l >= first
      <4>1. l \in holding
        BY <2>3, <3>3, <3>5 DEF holding, end
      <4>2. l = i
        BY <2>6, <4>1
      <4>3. p[1] = t.eqs[end]
        BY <2>9, <3>2, <4>2
      <4> QED BY <2>3, <4>3
    <3>6. CASE l < first
      <4>1. l \in 1 .. first - 1
        BY <3>6
      <4>2. PICK x \in 1 .. l : p[2] = o.vars[x]
        BY <3>2, <4>1 DEF InEnds, Leads
      <4>3. x = i
        <5>1. x \in 1 .. n /\ i \in 1 .. n /\ o.vars[x] = o.vars[i]
          BY <2>0, <3>3, <4>2
        <5> QED BY <5>1 DEF InEnds, InPairs, Arrangement
      <4> QED BY <4>1, <4>2, <4>3
    <3> QED BY <2>3, <3>4, <3>5, <3>6
  <2>18. Follows(n, static, t, end - 1)
    <3>. SUFFICES ASSUME NEW e \in (end - 1) + 1 .. n, NEW p \in static, p[2] = t.vars[e]
                  PROVE  \E l \in e .. n : p[1] = t.eqs[l]
      BY DEF Follows
    <3>1. e = end \/ e \in end + 1 .. n
      BY <2>3
    <3> QED BY <2>16, <2>17, <3>1
  <2>19. n - t.done = end - 1 /\ first + t.done =< n + 1
    <3>1. PICK x \in 0 .. n : x = o.done
      BY <1>1
    <3>2. t.done = x + 1 /\ end + x = n
      BY <2>0, <2>7, <3>1
    <3>3. n - t.done = end - 1
      BY <2>0, <3>2
    <3> QED BY <2>3, <3>2, <3>3
  <2>20. InEnds(n, static, m, first, t)
    BY <2>13, <2>14, <2>18, <2>19 DEF InEnds
  <2> QED BY <2>7, <2>20
<1> QED BY <1>3, <1>4

\* g[1 .. k] is what a scan for the epilogue has left after its first k places of c.
EpilogueScan(static, o, first, c, g) ==
    /\ g[{}] = o /\ ScanEpilogue(static, o, first) = g[1 .. c]
    /\ \A s \in SUBSET (1 .. c) : s # {} =>
         g[s] = TakeVariable(static, g[s \ {Max(s)}], first + Max(s) - 1, first)

\* A scan for the epilogue takes its variables one after the other.
LEMMA ScanEpilogueSteps ==
    ASSUME NEW n \in Nat, NEW static, NEW o \in Orders(n), NEW first \in Nat \ {0},
           NEW c \in Nat, c = n - o.done - first + 1
    PROVE  \E g : EpilogueScan(static, o, first, c, g)
<1>. DEFINE q == [k \in 1 .. c |-> first + k - 1]
            D == SUBSET (1 .. c)
            F == [a \in Orders(n) \X (1 .. c) |-> TakeVariable(static, a[1], q[a[2]], first)]
            h == CHOOSE g : g = [s \in D |-> IF s = {} THEN o
                                             ELSE TakeVariable(static, g[s \ {Max(s)}], q[Max(s)], first)]
<1>1. Len(o.eqs) = n /\ o.done \in 0 .. n /\ c \in 0 .. n /\ DOMAIN q = 1 .. c
  BY OrderType
<1>2. ScanEpilogue(static, o, first) = h[1 .. c]
  BY <1>1 DEF ScanEpilogue, FoldLeft, MapThenFoldSet
<1>3. F \in [Orders(n) \X (1 .. c) -> Orders(n)]
  <2>. SUFFICES ASSUME NEW p \in Orders(n), NEW k \in 1 .. c
                PROVE  TakeVariable(static, p, q[k], first) \in Orders(n)
    OBVIOUS
  <2>1. q[k] \in 1 .. n
    BY <1>1
  <2>. HIDE DEF q
  <2> QED BY <2>1, TakeVariableType
<1>4. PICK g \in [D -> Orders(n)] : IsIteration(g, F, o, D)
  <2>. HIDE DEF F
  <2>1. c \in Nat
    BY <1>1
  <2> QED BY <1>3, <2>1, IterationExists
<1>5. g = [s \in D |-> IF s = {} THEN o ELSE TakeVariable(static, g[s \ {Max(s)}], q[Max(s)], first)]
  <2>1. ASSUME NEW s \in D, s # {}
        PROVE  F[<<g[s \ {Max(s)}], Max(s)>>] = TakeVariable(static, g[s \ {Max(s)}], q[Max(s)], first)
    <3>1. c \in Nat
      BY <1>1
    <3>2. Max(s) \in 1 .. c /\ s \ {Max(s)} \in D
      BY <2>1, <3>1, LastPlace
    <3>. HIDE DEF q, D
    <3>3. <<g[s \ {Max(s)}], Max(s)>> \in Orders(n) \X (1 .. c)
      BY <3>2
    <3> QED BY <3>3
  <2>2. g = [s \in D |-> IF s = {} THEN o ELSE F[<<g[s \ {Max(s)}], Max(s)>>]]
    BY <1>4 DEF IsIteration
  <2>. HIDE DEF F, q, D
  <2> QED BY <2>1, <2>2
<1>6. h = [s \in D |-> IF s = {} THEN o ELSE TakeVariable(static, h[s \ {Max(s)}], q[Max(s)], first)]
  <2>. HIDE DEF q, D, F
  <2> QED BY <1>5
<1>. HIDE DEF h
<1>7. ASSUME NEW s \in D, s # {}
      PROVE  h[s] = TakeVariable(static, h[s \ {Max(s)}], first + Max(s) - 1, first)
  <2>1. Max(s) \in 1 .. c
    <3>1. c \in Nat
      BY <1>1
    <3> QED BY <1>7, <3>1, LastPlace
  <2>2. q[Max(s)] = first + Max(s) - 1
    BY <2>1
  <2>. HIDE DEF q, D
  <2> QED BY <1>6, <1>7, <2>2
<1>8. h[{}] = o
  <2>1. {} \in D
    OBVIOUS
  <2>. HIDE DEF q, D
  <2> QED BY <1>6, <2>1
<1> QED BY <1>2, <1>7, <1>8 DEF EpilogueScan

\* What a scan for the epilogue keeps.
LEMMA ScanEpilogueKeeps ==
    ASSUME NEW n \in Nat, NEW static, NEW m, MatchedIn(n, static, m), NEW first \in Nat \ {0},
           NEW o, InEnds(n, static, m, first, o)
    PROVE  InEnds(n, static, m, first, ScanEpilogue(static, o, first))
<1>0. PICK c : c = n - o.done - first + 1
  OBVIOUS
<1>. DEFINE Kept == {p \in Orders(n) : InEnds(n, static, m, first, p)}
            Good == [k \in 0 .. c |-> Kept]
<1>1. o \in Orders(n) /\ c \in Nat /\ c =< n - first + 1
  <2>1. o \in Orders(n)
    BY DEF InEnds, InPairs
  <2>2. PICK x \in 0 .. n : x = o.done
    BY <2>1, OrderType
  <2>3. first + x =< n + 1
    BY <2>2 DEF InEnds
  <2> QED BY <1>0, <2>1, <2>2, <2>3
<1>2. PICK g : EpilogueScan(static, o, first, c, g)
  BY <1>0, <1>1, ScanEpilogueSteps
<1>3. g[{}] \in Good[0]
  BY <1>1, <1>2 DEF EpilogueScan
<1>4. ASSUME NEW k \in 0 .. c - 1, g[1 .. k] \in Good[k] PROVE g[1 .. k + 1] \in Good[k + 1]
  <2>1. /\ k \in Nat /\ k \in 0 .. c /\ k + 1 \in 0 .. c /\ 1 .. k + 1 \in SUBSET (1 .. c)
        /\ first + (k + 1) - 1 \in first .. n
    BY <1>1
  <2>2. Max(1 .. k + 1) = k + 1 /\ (1 .. k + 1) \ {k + 1} = 1 .. k
    BY <2>1, LastOfFirst
  <2>3. g[1 .. k + 1] = TakeVariable(static, g[1 .. k], first + (k + 1) - 1, first)
    <3>1. PICK s \in SUBSET (1 .. c) : s = 1 .. k + 1 /\ s # {}
      BY <2>1, LastOfFirst
    <3>2. g[s] = TakeVariable(static, g[s \ {Max(s)}], first + Max(s) - 1, first)
      BY <1>2, <3>1 DEF EpilogueScan
    <3> QED BY <2>2, <3>1, <3>2
  <2>4. InEnds(n, static, m, first, g[1 .. k])
    BY <1>4, <2>1
  <2>5. PICK t : t = TakeVariable(static, g[1 .. k], first + (k + 1) - 1, first)
    OBVIOUS
  <2>6. InEnds(n, static, m, first, t)
    BY <2>1, <2>4, <2>5, TakeVariableKeeps
  <2>7. t \in Kept
    BY <2>6 DEF InEnds, InPairs
  <2> QED BY <2>1, <2>3, <2>5, <2>7
<1>5. g[1 .. c] \in Good[c]
  <2>. HIDE DEF Good
  <2> QED BY <1>1, <1>3, <1>4, IterationKeeps
<1> QED BY <1>1, <1>2, <1>5 DEF EpilogueScan

\* The epilogue keeps what a scan keeps.
LEMMA EpilogueKeeps ==
    ASSUME NEW n \in Nat, NEW static, NEW first, NEW States, NEW o \in States, DOMAIN o.eqs = 1 .. n,
           \A p \in States : ScanEpilogue(static, p, first) \in States
    PROVE  Epilogue(static, o, first) \in States
<1>. DEFINE D == SUBSET (1 .. n)
            F == [a \in States \X (1 .. n) |-> ScanEpilogue(static, a[1], first)]
            h == CHOOSE g : g = [s \in D |-> IF s = {} THEN o ELSE ScanEpilogue(static, g[s \ {Max(s)}], first)]
            Good == [k \in 0 .. n |-> States]
<1>1. Epilogue(static, o, first) = h[1 .. n]
  BY DEF Epilogue, FoldLeft, MapThenFoldSet
<1>2. F \in [States \X (1 .. n) -> States]
  OBVIOUS
<1>3. PICK g \in [D -> States] : IsIteration(g, F, o, D)
  <2>. HIDE DEF F
  <2> QED BY <1>2, IterationExists
<1>4. g = [s \in D |-> IF s = {} THEN o ELSE ScanEpilogue(static, g[s \ {Max(s)}], first)]
  <2>1. ASSUME NEW s \in D, s # {}
        PROVE  F[<<g[s \ {Max(s)}], Max(s)>>] = ScanEpilogue(static, g[s \ {Max(s)}], first)
    <3>1. Max(s) \in 1 .. n /\ s \ {Max(s)} \in D
      BY <2>1, LastPlace
    <3>. HIDE DEF D
    <3>2. <<g[s \ {Max(s)}], Max(s)>> \in States \X (1 .. n)
      BY <3>1
    <3> QED BY <3>2
  <2>2. g = [s \in D |-> IF s = {} THEN o ELSE F[<<g[s \ {Max(s)}], Max(s)>>]]
    BY <1>3 DEF IsIteration
  <2>. HIDE DEF F, D
  <2> QED BY <2>1, <2>2
<1>5. h = [s \in D |-> IF s = {} THEN o ELSE ScanEpilogue(static, h[s \ {Max(s)}], first)]
  <2>. HIDE DEF D, F
  <2> QED BY <1>4
<1>. HIDE DEF h
<1>6. h[{}] = o
  <2>1. {} \in D
    OBVIOUS
  <2>. HIDE DEF D
  <2> QED BY <1>5, <2>1
<1>7. ASSUME NEW k \in 0 .. n - 1, h[1 .. k] \in Good[k] PROVE h[1 .. k + 1] \in Good[k + 1]
  <2>1. k \in Nat /\ k \in 0 .. n /\ k + 1 \in 0 .. n /\ 1 .. k + 1 \in D
    OBVIOUS
  <2>2. Max(1 .. k + 1) = k + 1 /\ (1 .. k + 1) \ {k + 1} = 1 .. k
    BY <2>1, LastOfFirst
  <2>3. h[1 .. k + 1] = ScanEpilogue(static, h[1 .. k], first)
    <3>1. PICK s \in D : s = 1 .. k + 1 /\ s # {}
      BY <2>1, LastOfFirst
    <3>. HIDE DEF D
    <3>2. h[s] = ScanEpilogue(static, h[s \ {Max(s)}], first)
      BY <1>5, <3>1
    <3> QED BY <2>2, <3>1, <3>2
  <2>4. h[1 .. k] \in States
    BY <1>7, <2>1
  <2> QED BY <2>1, <2>3, <2>4
<1>8. h[1 .. n] \in Good[n]
  <2>1. h[{}] \in Good[0]
    BY <1>6
  <2>. HIDE DEF Good
  <2> QED BY <1>6, <1>7, <2>1, IterationKeeps
<1> QED BY <1>1, <1>8

\* The matched order: each equation at its own place, with its variable.
LEMMA MatchedOrderKeeps ==
    ASSUME NEW f \in Files, NEW static, NEW m, MatchedIn(f.n, static, m)
    PROVE  /\ InPairs(f.n, m, MatchedOrder(f, m)) /\ MatchedOrder(f, m).done = 0
           /\ Leads(static, MatchedOrder(f, m), MatchedOrder(f, m).done)
<1>. DEFINE S == 1 .. f.n
            o == MatchedOrder(f, m)
<1>1. f.n \in Nat /\ Ids(f) = S
  BY FilesAssumption DEF Ids
<1>2. IsFiniteSet(S)
  BY <1>1, FS_Interval
<1>3. m \in [S -> S] /\ \A v, w \in S : m[v] = m[w] => v = w
  BY DEF MatchedIn
<1>4. \A e \in S : \E v \in S : m[v] = e
  <2>. HIDE DEF S
  <2>1. m \in Injection(S, S)
    BY <1>3 DEF Injection, IsInjective
  <2>2. m \in Surjection(S, S)
    BY <1>2, <2>1, FS_Injection
  <2> QED BY <2>2 DEF Surjection
<1>5. o.eqs = [i \in S |-> i] /\ o.vars = [i \in S |-> CHOOSE v \in S : m[v] = i] /\ o.done = 0
  BY <1>1 DEF MatchedOrder
<1>6. o = [eqs |-> o.eqs, vars |-> o.vars, done |-> o.done]
  BY DEF MatchedOrder
<1>. HIDE DEF o, S
<1>7. \A i \in S : o.vars[i] \in S /\ m[o.vars[i]] = i /\ o.eqs[i] = i
  BY <1>4, <1>5
<1>8. o.eqs \in [S -> S] /\ o.vars \in [S -> S]
  BY <1>5, <1>7
<1>9. \A x \in S : \E i \in S : o.vars[i] = x
  <2>. SUFFICES ASSUME NEW x \in S PROVE \E i \in S : o.vars[i] = x
    OBVIOUS
  <2>1. m[x] \in S
    BY <1>3
  <2>2. m[o.vars[m[x]]] = m[x] /\ o.vars[m[x]] \in S
    BY <1>7, <2>1
  <2>3. o.vars[m[x]] = x
    BY <1>3, <2>2
  <2> QED BY <2>1, <2>3
<1>10. \A i, j \in S : o.vars[i] = o.vars[j] => i = j
  BY <1>7
<1>11. Arrangement(f.n, o.vars)
  BY <1>8, <1>9, <1>10 DEF Arrangement, S
<1>12. Arrangement(f.n, o.eqs)
  BY <1>7, <1>8 DEF Arrangement, S
<1>13. o \in Orders(f.n)
  BY <1>1, <1>5, <1>6, <1>8 DEF Orders, S
<1>14. InPairs(f.n, m, o)
  BY <1>7, <1>11, <1>12, <1>13 DEF InPairs, S
<1>15. Leads(static, o, o.done)
  BY <1>5 DEF Leads
<1> QED BY <1>5, <1>14, <1>15 DEF o

\* The prologue and the epilogue of a matched model.
LEMMA EndsOf ==
    ASSUME NEW f \in Files, NEW static, NEW m, MatchedIn(f.n, static, m),
           NEW p, p = Prologue(static, MatchedOrder(f, m)),
           NEW o, o = Epilogue(static, [p EXCEPT !.done = 0], p.done + 1)
    PROVE  /\ InEnds(f.n, static, m, p.done + 1, o)
           /\ p.done \in 0 .. f.n /\ o.done \in 0 .. f.n /\ p.done + o.done =< f.n
<1>. DEFINE n == f.n
            Led == {q \in Orders(n) : InPairs(n, m, q) /\ Leads(static, q, q.done)}
<1>1. n \in Nat
  BY FilesAssumption
<1>. HIDE DEF n
<1>2. p \in Led
  <2>1. PICK q : q = MatchedOrder(f, m)
    OBVIOUS
  <2>2. q \in Led
    <3>1. InPairs(n, m, q) /\ Leads(static, q, q.done)
      BY <2>1, MatchedOrderKeeps DEF n
    <3> QED BY <3>1 DEF InPairs
  <2>3. DOMAIN q.eqs = 1 .. n
    BY <1>1, <2>2, OrderType
  <2>4. \A r \in Led : ScanPrologue(static, r) \in Led
    <3>. SUFFICES ASSUME NEW r \in Led PROVE ScanPrologue(static, r) \in Led
      OBVIOUS
    <3>1. PICK t : t = ScanPrologue(static, r)
      OBVIOUS
    <3>2. MatchedIn(n, static, m)
      BY DEF n
    <3>3. InPairs(n, m, t) /\ Leads(static, t, t.done)
      BY <1>1, <3>1, <3>2, ScanPrologueKeeps
    <3> QED BY <3>1, <3>3 DEF InPairs
  <2>. HIDE DEF Led
  <2>5. Prologue(static, q) \in Led
    BY <1>1, <2>2, <2>3, <2>4, PrologueKeeps
  <2> QED BY <2>1, <2>5
<1>3. PICK first : first = p.done + 1
  OBVIOUS
<1>4. PICK r : r = [p EXCEPT !.done = 0]
  OBVIOUS
<1>5. p \in Orders(n) /\ p.done \in 0 .. n /\ first \in Nat \ {0} /\ first =< n + 1
  BY <1>1, <1>2, <1>3, OrderType
<1>. DEFINE Ended == {q \in Orders(n) : InEnds(n, static, m, first, q)}
<1>6. r \in Ended /\ DOMAIN r.eqs = 1 .. n
  <2>1. r.eqs = p.eqs /\ r.vars = p.vars /\ r.done = 0 /\ r \in Orders(n)
    BY <1>1, <1>4, <1>5 DEF Orders
  <2>2. InPairs(n, m, r)
    BY <1>2, <2>1 DEF InPairs
  <2>3. Leads(static, r, first - 1)
    <3>1. first - 1 = p.done
      BY <1>3, <1>5
    <3> QED BY <1>2, <2>1, <3>1 DEF Leads
  <2>4. Follows(n, static, r, n - r.done)
    <3>1. n - r.done = n /\ \A i \in n + 1 .. n : FALSE
      BY <1>1, <2>1
    <3> QED BY <3>1 DEF Follows
  <2>5. first + r.done =< n + 1
    BY <1>5, <2>1
  <2>6. DOMAIN r.eqs = 1 .. n
    BY <1>1, <2>1, OrderType
  <2> QED BY <2>1, <2>2, <2>3, <2>4, <2>5, <2>6 DEF InEnds
<1>7. o \in Ended
  <2>1. \A q \in Ended : ScanEpilogue(static, q, first) \in Ended
    <3>. SUFFICES ASSUME NEW q \in Ended PROVE ScanEpilogue(static, q, first) \in Ended
      OBVIOUS
    <3>1. PICK t : t = ScanEpilogue(static, q, first)
      OBVIOUS
    <3>2. MatchedIn(n, static, m)
      BY DEF n
    <3>3. InEnds(n, static, m, first, t)
      BY <1>1, <1>5, <3>1, <3>2, ScanEpilogueKeeps
    <3> QED BY <3>1, <3>3 DEF InEnds, InPairs
  <2>. HIDE DEF Ended
  <2>2. Epilogue(static, r, first) \in Ended
    BY <1>1, <1>6, <2>1, EpilogueKeeps
  <2> QED BY <1>3, <1>4, <2>2
<1>8. o.done \in 0 .. n /\ first + o.done =< n + 1
  <2>1. o \in Orders(n)
    BY <1>7
  <2> QED BY <1>1, <1>7, <2>1, OrderType DEF InEnds
<1>9. p.done + o.done =< n
  <2>1. PICK x \in 0 .. n : x = p.done
    BY <1>5
  <2>2. PICK y \in 0 .. n : y = o.done
    BY <1>8
  <2> QED BY <1>1, <1>3, <1>8, <2>1, <2>2
<1> QED BY <1>3, <1>5, <1>7, <1>8, <1>9 DEF n

-------------------------------------------------------------------------------
(***************************************************************************)
(* The elements of a list that are in a set, and sequences                 *)
(***************************************************************************)

\* No element of a sequence is repeated.
Distinct(s) == \A i, j \in DOMAIN s : s[i] = s[j] => i = j

\* One more element of the list.
Taking(P, t, x) == IF x \in P THEN Append(t, x) ELSE t

\* What is true of nothing, and kept when one more element is looked at, is true of the elements.
LEMMA ThoseKeeps ==
    ASSUME NEW V, NEW s \in Seq(V), NEW P, NEW Good, << >> \in Good[0],
           \A k \in 0 .. Len(s) - 1 : \A t \in Seq(V) : t \in Good[k] => Taking(P, t, s[k + 1]) \in Good[k + 1]
    PROVE  Those(s, P) \in Seq(V) /\ Those(s, P) \in Good[Len(s)]
<1>. DEFINE n == Len(s)
            D == SUBSET (1 .. n)
            F == [a \in Seq(V) \X (1 .. n) |-> Taking(P, a[1], s[a[2]])]
            h == CHOOSE g : g = [c \in D |-> IF c = {} THEN << >> ELSE Taking(P, g[c \ {Max(c)}], s[Max(c)])]
            Both_(k) == {t \in Seq(V) : t \in Good[k]}
            Kept == [k \in 0 .. n |-> Both_(k)]
<1>1. n \in Nat /\ DOMAIN s = 1 .. n
  OBVIOUS
<1>2. Those(s, P) = h[1 .. n]
  BY <1>1 DEF Those, FoldLeft, MapThenFoldSet, Taking
<1>3. F \in [Seq(V) \X (1 .. n) -> Seq(V)]
  <2>. SUFFICES ASSUME NEW t \in Seq(V), NEW k \in 1 .. n PROVE Taking(P, t, s[k]) \in Seq(V)
    OBVIOUS
  <2> QED BY <1>1 DEF Taking
<1>4. PICK g \in [D -> Seq(V)] : IsIteration(g, F, << >>, D)
  <2>1. << >> \in Seq(V)
    OBVIOUS
  <2>. HIDE DEF F, n
  <2> QED BY <1>1, <1>3, <2>1, IterationExists
<1>5. g = [c \in D |-> IF c = {} THEN << >> ELSE Taking(P, g[c \ {Max(c)}], s[Max(c)])]
  <2>1. ASSUME NEW c \in D, c # {}
        PROVE  F[<<g[c \ {Max(c)}], Max(c)>>] = Taking(P, g[c \ {Max(c)}], s[Max(c)])
    <3>1. Max(c) \in 1 .. n /\ c \ {Max(c)} \in D
      BY <1>1, <2>1, LastPlace
    <3>. HIDE DEF D, n
    <3>2. <<g[c \ {Max(c)}], Max(c)>> \in Seq(V) \X (1 .. n)
      BY <3>1
    <3> QED BY <3>2
  <2>2. g = [c \in D |-> IF c = {} THEN << >> ELSE F[<<g[c \ {Max(c)}], Max(c)>>]]
    BY <1>4 DEF IsIteration
  <2>. HIDE DEF F, D
  <2> QED BY <2>1, <2>2
<1>6. h = [c \in D |-> IF c = {} THEN << >> ELSE Taking(P, h[c \ {Max(c)}], s[Max(c)])]
  <2>. HIDE DEF D, F
  <2> QED BY <1>5
<1>. HIDE DEF h
<1>7. h[{}] = << >>
  <2>1. {} \in D
    OBVIOUS
  <2>. HIDE DEF D
  <2> QED BY <1>6, <2>1
<1>8. ASSUME NEW k \in 0 .. n - 1, h[1 .. k] \in Kept[k] PROVE h[1 .. k + 1] \in Kept[k + 1]
  <2>1. k \in Nat /\ k \in 0 .. n /\ k + 1 \in 0 .. n /\ k + 1 \in 1 .. n /\ 1 .. k + 1 \in D
    BY <1>1
  <2>2. Max(1 .. k + 1) = k + 1 /\ (1 .. k + 1) \ {k + 1} = 1 .. k
    BY <2>1, LastOfFirst
  <2>3. h[1 .. k + 1] = Taking(P, h[1 .. k], s[k + 1])
    <3>1. PICK c \in D : c = 1 .. k + 1 /\ c # {}
      BY <2>1, LastOfFirst
    <3>. HIDE DEF D
    <3>2. h[c] = Taking(P, h[c \ {Max(c)}], s[Max(c)])
      BY <1>6, <3>1
    <3> QED BY <2>2, <3>1, <3>2
  <2>4. h[1 .. k] \in Seq(V) /\ h[1 .. k] \in Good[k]
    BY <1>8, <2>1
  <2>5. Taking(P, h[1 .. k], s[k + 1]) \in Good[k + 1]
    BY <2>4
  <2>6. Taking(P, h[1 .. k], s[k + 1]) \in Seq(V)
    BY <1>1, <2>1, <2>4 DEF Taking
  <2> QED BY <2>1, <2>3, <2>5, <2>6
<1>9. h[1 .. n] \in Kept[n]
  <2>1. h[{}] \in Kept[0]
    BY <1>1, <1>7
  <2>. HIDE DEF Kept, n
  <2> QED BY <1>1, <1>8, <2>1, IterationKeeps
<1>10. h[1 .. n] \in Both_(n)
  BY <1>1, <1>9
<1> QED BY <1>2, <1>10

\* What the elements in P of the first k elements of s are.
Collected(t, s, P, k) ==
    /\ \A j \in 1 .. Len(t) : t[j] \in P /\ \E i \in 1 .. k : s[i] = t[j]
    /\ \A i \in 1 .. k : s[i] \in P => \E j \in 1 .. Len(t) : t[j] = s[i]
    /\ Len(t) =< k
    /\ (\E i \in 1 .. k : s[i] \notin P) => Len(t) < k
    /\ (\A i, j \in 1 .. k : s[i] = s[j] => i = j) => \A i, j \in 1 .. Len(t) : t[i] = t[j] => i = j
    /\ (\A i \in 1 .. k : s[i] \in P) => Len(t) = k /\ \A i \in 1 .. k : t[i] = s[i]

\* The elements of s that are in P.
LEMMA ThoseCollect ==
    ASSUME NEW V, NEW s \in Seq(V), NEW P
    PROVE  Those(s, P) \in Seq(V) /\ Collected(Those(s, P), s, P, Len(s))
<1>. DEFINE Good == [k \in 0 .. Len(s) |-> {t \in Seq(V) : Collected(t, s, P, k)}]
<1>1. << >> \in Good[0]
  BY DEF Collected
<1>2. ASSUME NEW k \in 0 .. Len(s) - 1, NEW t \in Seq(V), t \in Good[k]
      PROVE  Taking(P, t, s[k + 1]) \in Good[k + 1]
  <2>1. k \in Nat /\ k \in 0 .. Len(s) /\ k + 1 \in 0 .. Len(s) /\ k + 1 \in 1 .. Len(s) /\ s[k + 1] \in V
    OBVIOUS
  <2>2. Collected(t, s, P, k) /\ Len(t) \in Nat
    BY <1>2, <2>1
  <2>3. CASE s[k + 1] \in P
    <3>1. PICK q : q = Append(t, s[k + 1])
      OBVIOUS
    <3>2. /\ q \in Seq(V) /\ Len(q) = Len(t) + 1 /\ q[Len(t) + 1] = s[k + 1]
          /\ \A i \in 1 .. Len(t) : q[i] = t[i]
      BY <2>1, <3>1
    <3>3. \A j \in 1 .. Len(q) : q[j] \in P /\ \E i \in 1 .. k + 1 : s[i] = q[j]
      <4>. SUFFICES ASSUME NEW j \in 1 .. Len(q) PROVE q[j] \in P /\ \E i \in 1 .. k + 1 : s[i] = q[j]
        OBVIOUS
      <4>1. CASE j \in 1 .. Len(t)
        <5>1. t[j] \in P /\ \E i \in 1 .. k : s[i] = t[j]
          BY <2>2, <4>1 DEF Collected
        <5>2. \A i \in 1 .. k : i \in 1 .. k + 1
          BY <2>1
        <5> QED BY <3>2, <4>1, <5>1, <5>2
      <4>2. CASE j = Len(t) + 1
        BY <2>1, <2>3, <3>2, <4>2
      <4> QED BY <2>2, <3>2, <4>1, <4>2
    <3>4. \A i \in 1 .. k + 1 : s[i] \in P => \E j \in 1 .. Len(q) : q[j] = s[i]
      <4>. SUFFICES ASSUME NEW i \in 1 .. k + 1, s[i] \in P PROVE \E j \in 1 .. Len(q) : q[j] = s[i]
        OBVIOUS
      <4>1. CASE i \in 1 .. k
        <5>1. PICK j \in 1 .. Len(t) : t[j] = s[i]
          BY <2>2, <4>1 DEF Collected
        <5> QED BY <2>2, <3>2, <5>1
      <4>2. CASE i = k + 1
        BY <2>2, <3>2, <4>2
      <4> QED BY <2>1, <4>1, <4>2
    <3>5. Len(q) =< k + 1 /\ ((\E i \in 1 .. k + 1 : s[i] \notin P) => Len(q) < k + 1)
      <4>1. ASSUME \E i \in 1 .. k + 1 : s[i] \notin P PROVE \E i \in 1 .. k : s[i] \notin P
        BY <2>1, <2>3, <4>1
      <4>2. Len(t) =< k /\ ((\E i \in 1 .. k : s[i] \notin P) => Len(t) < k)
        BY <2>2 DEF Collected
      <4> QED BY <2>1, <2>2, <3>2, <4>1, <4>2
    <3>6. ASSUME \A i, j \in 1 .. k + 1 : s[i] = s[j] => i = j
          PROVE  \A i, j \in 1 .. Len(q) : q[i] = q[j] => i = j
      <4>1. \A i, j \in 1 .. Len(t) : t[i] = t[j] => i = j
        BY <2>1, <2>2, <3>6 DEF Collected
      <4>2. \A j \in 1 .. Len(t) : t[j] # s[k + 1]
        <5>. SUFFICES ASSUME NEW j \in 1 .. Len(t), t[j] = s[k + 1] PROVE FALSE
          OBVIOUS
        <5>1. PICK i \in 1 .. k : s[i] = t[j]
          BY <2>2 DEF Collected
        <5>2. i \in 1 .. k + 1 /\ k + 1 \in 1 .. k + 1 /\ i # k + 1
          BY <2>1
        <5> QED BY <3>6, <5>1, <5>2
      <4>3. \A i \in 1 .. Len(q) : i \in 1 .. Len(t) \/ i = Len(t) + 1
        BY <2>2, <3>2
      <4> QED BY <3>2, <4>1, <4>2, <4>3
    <3>7. ASSUME \A i \in 1 .. k + 1 : s[i] \in P
          PROVE  Len(q) = k + 1 /\ \A i \in 1 .. k + 1 : q[i] = s[i]
      <4>1. Len(t) = k /\ \A i \in 1 .. k : t[i] = s[i]
        BY <2>1, <2>2, <3>7 DEF Collected
      <4> QED BY <2>1, <3>2, <4>1
    <3>8. Collected(q, s, P, k + 1)
      BY <3>3, <3>4, <3>5, <3>6, <3>7 DEF Collected
    <3> QED BY <2>1, <2>3, <3>1, <3>2, <3>8 DEF Taking
  <2>4. CASE s[k + 1] \notin P
    <3>1. Collected(t, s, P, k + 1)
      <4>1. \A i \in 1 .. k : i \in 1 .. k + 1
        BY <2>1
      <4>2. \A i \in 1 .. k + 1 : i \in 1 .. k \/ i = k + 1
        BY <2>1
      <4>3. Len(t) < k + 1 /\ k + 1 \in 1 .. k + 1
        BY <2>1, <2>2 DEF Collected
      <4>4. \A j \in 1 .. Len(t) : t[j] \in P /\ \E i \in 1 .. k + 1 : s[i] = t[j]
        BY <2>2, <4>1 DEF Collected
      <4>5. \A i \in 1 .. k + 1 : s[i] \in P => \E j \in 1 .. Len(t) : t[j] = s[i]
        BY <2>2, <2>4, <4>2 DEF Collected
      <4>6. (\A i, j \in 1 .. k + 1 : s[i] = s[j] => i = j) => \A i, j \in 1 .. Len(t) : t[i] = t[j] => i = j
        BY <2>2, <4>1 DEF Collected
      <4>7. ~ \A i \in 1 .. k + 1 : s[i] \in P
        BY <2>4, <4>3
      <4>8. Len(t) =< k + 1
        BY <2>1, <2>2, <4>3
      <4> QED BY <4>3, <4>4, <4>5, <4>6, <4>7, <4>8, Zenon DEF Collected
    <3> QED BY <2>1, <2>4, <3>1 DEF Taking
  <2> QED BY <2>3, <2>4
<1>3. Those(s, P) \in Seq(V) /\ Those(s, P) \in Good[Len(s)]
  <2>. HIDE DEF Good
  <2> QED BY <1>1, <1>2, ThoseKeeps
<1> QED BY <1>3

\* The same, in terms of the whole list.
LEMMA ThoseOf ==
    ASSUME NEW V, NEW s \in Seq(V), NEW P, NEW q, q = Those(s, P)
    PROVE  /\ q \in Seq(V) /\ Range(q) = Range(s) \cap P /\ Len(q) =< Len(s)
           /\ \A x \in Range(s) : x \notin P => Len(q) < Len(s)
           /\ Distinct(s) => Distinct(q)
           /\ Range(s) \subseteq P => q = s
<1>1. q \in Seq(V) /\ Collected(q, s, P, Len(s))
  BY ThoseCollect
<1>2. /\ DOMAIN q = 1 .. Len(q) /\ DOMAIN s = 1 .. Len(s) /\ Len(q) \in Nat
      /\ \A x : x \in Range(q) <=> \E i \in 1 .. Len(q) : x = q[i]
      /\ \A x : x \in Range(s) <=> \E i \in 1 .. Len(s) : x = s[i]
  BY <1>1 DEF Range
<1>3. Range(q) = Range(s) \cap P
  <2>1. /\ \A j \in 1 .. Len(q) : q[j] \in P /\ \E i \in 1 .. Len(s) : s[i] = q[j]
        /\ \A i \in 1 .. Len(s) : s[i] \in P => \E j \in 1 .. Len(q) : q[j] = s[i]
    BY <1>1, Zenon DEF Collected
  <2>2. ASSUME NEW x \in Range(q) PROVE x \in Range(s) /\ x \in P
    <3>1. PICK j \in 1 .. Len(q) : x = q[j]
      BY <1>2
    <3>2. PICK i \in 1 .. Len(s) : s[i] = x
      BY <2>1, <3>1
    <3> QED BY <1>2, <2>1, <3>1, <3>2
  <2>3. ASSUME NEW x \in Range(s), x \in P PROVE x \in Range(q)
    <3>1. PICK i \in 1 .. Len(s) : x = s[i]
      BY <1>2
    <3>2. PICK j \in 1 .. Len(q) : q[j] = x
      BY <2>1, <2>3, <3>1
    <3> QED BY <1>2, <3>2
  <2> QED BY <2>2, <2>3
<1>4. \A x \in Range(s) : x \notin P => Len(q) < Len(s)
  <2>1. (\E i \in 1 .. Len(s) : s[i] \notin P) => Len(q) < Len(s)
    BY <1>1, Zenon DEF Collected
  <2>2. ASSUME NEW x \in Range(s), x \notin P PROVE \E i \in 1 .. Len(s) : s[i] \notin P
    <3>1. PICK i \in 1 .. Len(s) : x = s[i]
      BY <1>2
    <3> QED BY <2>2, <3>1
  <2> QED BY <2>1, <2>2
<1>5. Distinct(s) => Distinct(q)
  <2>1. (\A i, j \in 1 .. Len(s) : s[i] = s[j] => i = j) => \A i, j \in 1 .. Len(q) : q[i] = q[j] => i = j
    BY <1>1, Zenon DEF Collected
  <2> QED BY <1>2, <2>1, Zenon DEF Distinct
<1>6. ASSUME Range(s) \subseteq P PROVE q = s
  <2>1. \A i \in 1 .. Len(s) : s[i] \in P
    BY <1>2, <1>6
  <2>2. Len(q) = Len(s) /\ \A i \in 1 .. Len(s) : q[i] = s[i]
    BY <1>1, <2>1, Zenon DEF Collected
  <2> QED BY <1>1, <2>2
<1>7. Len(q) =< Len(s)
  BY <1>1, Zenon DEF Collected
<1> QED BY <1>1, <1>3, <1>4, <1>5, <1>6, <1>7, Zenon

\* The places of the pieces in their concatenation s: at[k] of its elements are before the k-th one.
Places(ss, s, at) ==
    /\ at \in [1 .. Len(ss) + 1 -> Nat]
    /\ at[1] = 0 /\ at[Len(ss) + 1] = Len(s)
    /\ \A k \in 1 .. Len(ss) : at[k + 1] = at[k] + Len(ss[k])
    /\ \A k \in 1 .. Len(ss) : \A i \in 1 .. Len(ss[k]) :
         at[k] + i \in 1 .. Len(s) /\ s[at[k] + i] = ss[k][i]
    /\ \A p \in 1 .. Len(s) : \E k \in 1 .. Len(ss) : \E i \in 1 .. Len(ss[k]) : p = at[k] + i

\* Where the pieces are in FlattenSeq.
LEMMA FlattenPlaces ==
    ASSUME NEW X, NEW ss \in Seq(Seq(X))
    PROVE  \E at : Places(ss, FlattenSeq(ss), at)
<1>1. CASE Len(ss) = 0
  <2>1. FlattenSeq(ss) = ss /\ ss = << >> /\ Len(FlattenSeq(ss)) = 0
    BY <1>1 DEF FlattenSeq
  <2>2. PICK at : at = [k \in 1 .. 1 |-> 0]
    OBVIOUS
  <2>3. at \in [1 .. Len(ss) + 1 -> Nat] /\ at[1] = 0 /\ at[Len(ss) + 1] = 0
    BY <1>1, <2>2
  <2>4. Places(ss, FlattenSeq(ss), at)
    BY <1>1, <2>1, <2>3 DEF Places
  <2> QED BY <2>4
<1>2. CASE Len(ss) # 0
  <2>0. PICK n \in Nat : n = Len(ss) /\ n >= 1
    BY <1>2
  <2>1. PICK f : IsConcat(f, ss, n) /\ FlattenSeq(ss) = f[n]
    <3>1. n \in Nat \ {0}
      BY <2>0
    <3> QED BY <2>0, <3>1, FlattenIsConcat
  <2>2. \A i \in 1 .. n : f[i] \in Seq(X) /\ Len(f[i]) \in Nat /\ ss[i] \in Seq(X) /\ Len(ss[i]) \in Nat
    BY <2>0, <2>1, ConcatType
  <2>3. f[1] = ss[1] /\ \A i \in 1 .. n - 1 : f[i + 1] = f[i] \o ss[i + 1]
    BY <2>0, <2>1, ConcatStep
  <2>4. PICK at : at = [k \in 1 .. n + 1 |-> IF k = 1 THEN 0 ELSE Len(f[k - 1])]
    OBVIOUS
  <2>5. at \in [1 .. n + 1 -> Nat] /\ at[1] = 0 /\ \A k \in 1 .. n : at[k + 1] = Len(f[k])
    <3>1. \A k \in 1 .. n + 1 : k # 1 => k - 1 \in 1 .. n
      OBVIOUS
    <3>2. at \in [1 .. n + 1 -> Nat]
      BY <2>2, <2>4, <3>1
    <3>3. at[1] = 0
      BY <2>4
    <3>4. ASSUME NEW k \in 1 .. n PROVE at[k + 1] = Len(f[k])
      <4>1. k + 1 \in 1 .. n + 1 /\ k + 1 # 1 /\ (k + 1) - 1 = k
        OBVIOUS
      <4> QED BY <2>4, <4>1
    <3> QED BY <3>2, <3>3, <3>4
  <2>6. \A k \in 1 .. n : at[k + 1] = at[k] + Len(ss[k])
    <3>. SUFFICES ASSUME NEW k \in 1 .. n PROVE at[k + 1] = at[k] + Len(ss[k])
      OBVIOUS
    <3>1. CASE k = 1
      BY <2>2, <2>3, <2>5, <3>1
    <3>2. CASE k # 1
      <4>1. PICK j \in 1 .. n - 1 : k = j + 1
        <5>1. k - 1 \in 1 .. n - 1 /\ k = (k - 1) + 1
          BY <3>2
        <5> QED BY <5>1
      <4>2. f[k] = f[j] \o ss[k] /\ j \in 1 .. n
        <5>1. f[j + 1] = f[j] \o ss[j + 1]
          BY <2>3
        <5>2. j \in 1 .. n
          OBVIOUS
        <5> QED BY <4>1, <5>1, <5>2, Zenon
      <4>3. Len(f[k]) = Len(f[j]) + Len(ss[k])
        BY <2>2, <4>2
      <4> QED BY <2>5, <4>1, <4>2, <4>3
    <3> QED BY <3>1, <3>2
  <2>. DEFINE Laid(m) ==
         /\ \A k \in 1 .. m : \A i \in 1 .. Len(ss[k]) :
              at[k] + i \in 1 .. Len(f[m]) /\ f[m][at[k] + i] = ss[k][i]
         /\ \A p \in 1 .. Len(f[m]) : \E k \in 1 .. m : \E i \in 1 .. Len(ss[k]) : p = at[k] + i
  <2>. DEFINE Done == {m \in Nat : m + 1 =< n => Laid(m + 1)}
  <2>7. 0 \in Done
    <3>1. \A k : k \in 1 .. 1 <=> k = 1
      OBVIOUS
    <3>2. Laid(1)
      BY <2>0, <2>2, <2>3, <2>5, <3>1
    <3> QED BY <3>2
  <2>8. ASSUME NEW m \in Nat, m \in Done PROVE m + 1 \in Done
    <3>. SUFFICES ASSUME (m + 1) + 1 =< n PROVE Laid((m + 1) + 1)
      OBVIOUS
    <3>1. PICK j \in 1 .. n - 1 : j = m + 1
      OBVIOUS
    <3>2. Laid(j)
      BY <2>8, <3>1
    <3>3. PICK k1 \in 1 .. n : k1 = j + 1
      OBVIOUS
    <3>4. f[k1] = f[j] \o ss[k1] /\ at[k1] = Len(f[j]) /\ j \in 1 .. n
      <4>1. f[j + 1] = f[j] \o ss[j + 1]
        BY <2>3
      <4>2. j \in 1 .. n
        OBVIOUS
      <4>3. at[j + 1] = Len(f[j])
        BY <2>5, <4>2
      <4> QED BY <3>3, <4>1, <4>2, <4>3, Zenon
    <3>5. PICK a : a = f[j]
      OBVIOUS
    <3>6. PICK b : b = ss[k1]
      OBVIOUS
    <3>7. PICK c : c = f[k1]
      OBVIOUS
    <3>8. /\ c = a \o b /\ a \in Seq(X) /\ b \in Seq(X) /\ c \in Seq(X)
          /\ Len(a) \in Nat /\ Len(b) \in Nat /\ Len(c) = Len(a) + Len(b)
          /\ \A i \in 1 .. Len(a) : c[i] = a[i]
          /\ \A i \in 1 .. Len(b) : c[Len(a) + i] = b[i]
      <4>1. c = a \o b /\ a \in Seq(X) /\ b \in Seq(X)
        BY <2>2, <3>4, <3>5, <3>6, <3>7, Zenon
      <4> QED BY <4>1
    <3>9. \A k \in 1 .. k1 : k \in 1 .. j \/ k = k1
      BY <3>3
    <3>10. \A k \in 1 .. k1 : \A i \in 1 .. Len(ss[k]) :
             at[k] + i \in 1 .. Len(c) /\ c[at[k] + i] = ss[k][i]
      <4>. SUFFICES ASSUME NEW k \in 1 .. k1, NEW i \in 1 .. Len(ss[k])
                    PROVE  at[k] + i \in 1 .. Len(c) /\ c[at[k] + i] = ss[k][i]
        OBVIOUS
      <4>1. CASE k \in 1 .. j
        <5>1. at[k] + i \in 1 .. Len(a) /\ a[at[k] + i] = ss[k][i]
          BY <3>2, <3>5, <4>1
        <5> QED BY <3>8, <5>1
      <4>2. CASE k = k1
        <5>1. i \in 1 .. Len(b) /\ at[k] = Len(a)
          BY <3>4, <3>5, <3>6, <4>2
        <5> QED BY <3>6, <3>8, <4>2, <5>1
      <4> QED BY <3>9, <4>1, <4>2
    <3>11. \A p \in 1 .. Len(c) : \E k \in 1 .. k1 : \E i \in 1 .. Len(ss[k]) : p = at[k] + i
      <4>. SUFFICES ASSUME NEW p \in 1 .. Len(c)
                    PROVE  \E k \in 1 .. k1 : \E i \in 1 .. Len(ss[k]) : p = at[k] + i
        OBVIOUS
      <4>1. CASE p \in 1 .. Len(a)
        <5>1. PICK k \in 1 .. j : \E i \in 1 .. Len(ss[k]) : p = at[k] + i
          BY <3>2, <3>5, <4>1
        <5>2. k \in 1 .. k1
          BY <3>3
        <5> QED BY <5>1, <5>2
      <4>2. CASE p \notin 1 .. Len(a)
        <5>1. p - Len(a) \in 1 .. Len(b) /\ p = Len(a) + (p - Len(a)) /\ at[k1] = Len(a)
          BY <3>4, <3>5, <3>8, <4>2
        <5>2. k1 \in 1 .. k1
          BY <3>3
        <5> QED BY <3>6, <5>1, <5>2
      <4> QED BY <4>1, <4>2
    <3>12. Laid(k1)
      BY <3>7, <3>10, <3>11
    <3> QED BY <3>1, <3>3, <3>12
  <2>9. Laid(n)
    <3>. HIDE DEF Done
    <3>1. PICK m \in Nat : m + 1 = n
      <4>1. n - 1 \in Nat /\ (n - 1) + 1 = n
        BY <2>0
      <4> QED BY <4>1
    <3>2. m \in Done
      BY <2>7, <2>8, Induction
    <3>. HIDE DEF Laid
    <3>3. m + 1 =< n
      BY <3>1
    <3>4. Laid(m + 1)
      BY <3>2, <3>3 DEF Done
    <3> QED BY <3>1, <3>4
  <2>10. PICK s : s = FlattenSeq(ss)
    OBVIOUS
  <2>11. at[n + 1] = Len(s) /\ n \in 1 .. n
    BY <2>0, <2>1, <2>5, <2>10
  <2>12. Places(ss, s, at)
    <3>1. s = f[n]
      BY <2>1, <2>10
    <3> QED BY <2>0, <2>5, <2>6, <2>9, <2>11, <3>1 DEF Places
  <2> QED BY <2>10, <2>12
<1> QED BY <1>1, <1>2

\* The elements of a concatenation are those of its pieces.
LEMMA FlattenRange ==
    ASSUME NEW X, NEW ss \in Seq(Seq(X)), NEW x
    PROVE  x \in Range(FlattenSeq(ss)) <=> \E k \in 1 .. Len(ss) : x \in Range(ss[k])
<1>1. PICK s : s = FlattenSeq(ss)
  OBVIOUS
<1>2. PICK at : Places(ss, s, at)
  BY <1>1, FlattenPlaces
<1>3. s \in Seq(X) /\ DOMAIN s = 1 .. Len(s) /\ \A k \in 1 .. Len(ss) : DOMAIN ss[k] = 1 .. Len(ss[k])
  BY <1>1, FlattenType
<1>4. ASSUME x \in Range(s) PROVE \E k \in 1 .. Len(ss) : x \in Range(ss[k])
  <2>1. PICK p \in 1 .. Len(s) : x = s[p]
    BY <1>3, <1>4 DEF Range
  <2>2. PICK k \in 1 .. Len(ss) : \E i \in 1 .. Len(ss[k]) : p = at[k] + i
    BY <1>2 DEF Places
  <2>3. PICK i \in 1 .. Len(ss[k]) : p = at[k] + i
    BY <2>2
  <2>4. x = ss[k][i]
    BY <1>2, <2>1, <2>3 DEF Places
  <2>5. x \in Range(ss[k])
    BY <1>3, <2>4 DEF Range
  <2> QED BY <2>5
<1>5. ASSUME NEW k \in 1 .. Len(ss), x \in Range(ss[k]) PROVE x \in Range(s)
  <2>1. PICK i \in 1 .. Len(ss[k]) : x = ss[k][i]
    BY <1>3, <1>5 DEF Range
  <2>2. at[k] + i \in 1 .. Len(s) /\ s[at[k] + i] = x
    BY <1>2, <2>1 DEF Places
  <2> QED BY <1>3, <2>2 DEF Range
<1> QED BY <1>1, <1>4, <1>5

\* The elements of two sequences one after the other.
LEMMA ConcatRange ==
    ASSUME NEW X, NEW s \in Seq(X), NEW t \in Seq(X)
    PROVE  s \o t \in Seq(X) /\ \A x : x \in Range(s \o t) <=> x \in Range(s) \/ x \in Range(t)
<1>1. PICK q : q = s \o t
  OBVIOUS
<1>2. /\ q \in Seq(X) /\ Len(q) = Len(s) + Len(t) /\ Len(s) \in Nat /\ Len(t) \in Nat
      /\ \A i \in 1 .. Len(s) : q[i] = s[i]
      /\ \A i \in 1 .. Len(t) : q[Len(s) + i] = t[i]
      /\ DOMAIN s = 1 .. Len(s) /\ DOMAIN t = 1 .. Len(t) /\ DOMAIN q = 1 .. Len(q)
  BY <1>1
<1>3. ASSUME NEW x, x \in Range(q) PROVE x \in Range(s) \/ x \in Range(t)
  <2>1. PICK p \in 1 .. Len(q) : x = q[p]
    BY <1>2, <1>3 DEF Range
  <2>2. CASE p =< Len(s)
    BY <1>2, <2>1, <2>2 DEF Range
  <2>3. CASE ~(p =< Len(s))
    <3>1. p - Len(s) \in 1 .. Len(t) /\ p = Len(s) + (p - Len(s))
      BY <1>2, <2>3
    <3>2. PICK i \in 1 .. Len(t) : p = Len(s) + i
      BY <3>1
    <3>3. x = t[i]
      BY <1>2, <2>1, <3>2
    <3> QED BY <1>2, <3>3 DEF Range
  <2> QED BY <2>2, <2>3
<1>4. ASSUME NEW x, x \in Range(s) PROVE x \in Range(q)
  <2>1. PICK p \in 1 .. Len(s) : x = s[p]
    BY <1>2, <1>4 DEF Range
  <2>2. p \in 1 .. Len(q) /\ q[p] = x
    BY <1>2, <2>1
  <2> QED BY <1>2, <2>2 DEF Range
<1>5. ASSUME NEW x, x \in Range(t) PROVE x \in Range(q)
  <2>1. PICK p \in 1 .. Len(t) : x = t[p]
    BY <1>2, <1>5 DEF Range
  <2>2. Len(s) + p \in 1 .. Len(q) /\ q[Len(s) + p] = x
    BY <1>2, <2>1
  <2> QED BY <1>2, <2>2 DEF Range
<1> QED BY <1>1, <1>2, <1>3, <1>4, <1>5

-------------------------------------------------------------------------------
(***************************************************************************)
(* The graphs of the search for feedback variables                         *)
(***************************************************************************)

\* The graphs over V.
Graphs(V) == [vertices : Seq(V), edges : Seq(V \X V), taken : Seq(V)]

\* The fields of a graph.
LEMMA GraphType ==
    ASSUME NEW V, NEW g \in Graphs(V)
    PROVE  /\ g.vertices \in Seq(V) /\ g.edges \in Seq(V \X V) /\ g.taken \in Seq(V)
           /\ DOMAIN g.vertices = 1 .. Len(g.vertices) /\ Len(g.vertices) \in Nat
           /\ Range(g.vertices) \subseteq V /\ Range(g.edges) \subseteq V \X V /\ Range(g.taken) \subseteq V
           /\ \A i \in 1 .. Len(g.vertices) : g.vertices[i] \in Range(g.vertices)
<1>1. g.vertices \in Seq(V) /\ g.edges \in Seq(V \X V) /\ g.taken \in Seq(V)
  BY DEF Graphs
<1>2. /\ DOMAIN g.vertices = 1 .. Len(g.vertices) /\ Len(g.vertices) \in Nat
      /\ DOMAIN g.edges = 1 .. Len(g.edges) /\ DOMAIN g.taken = 1 .. Len(g.taken)
  BY <1>1
<1>3. ASSUME NEW S, NEW s \in Seq(S) PROVE Range(s) \subseteq S
  BY DEF Range
<1>4. \A i \in 1 .. Len(g.vertices) : g.vertices[i] \in Range(g.vertices)
  BY <1>2 DEF Range
<1>5. Range(g.vertices) \subseteq V
  BY <1>1, <1>3
<1>6. Range(g.edges) \subseteq V \X V
  <2>. DEFINE W == V \X V
  <2>1. g.edges \in Seq(W)
    BY <1>1
  <2>. HIDE DEF W
  <2>2. Range(g.edges) \subseteq W
    BY <1>3, <2>1
  <2> QED BY <2>2 DEF W
<1>7. Range(g.taken) \subseteq V
  BY <1>1, <1>3
<1> QED BY <1>1, <1>2, <1>4, <1>5, <1>6, <1>7

\* The edges to a vertex, and from it.
LEMMA EdgesOf ==
    ASSUME NEW V, NEW g \in Graphs(V), NEW v
    PROVE  /\ InEdges(g, v) \in Seq(V \X V) /\ OutEdges(g, v) \in Seq(V \X V)
           /\ \A e : e \in Range(InEdges(g, v)) <=> e \in Range(g.edges) /\ e[2] = v
           /\ \A e : e \in Range(OutEdges(g, v)) <=> e \in Range(g.edges) /\ e[1] = v
<1>. DEFINE W == V \X V
            P == {e \in Range(g.edges): e[2] = v}
            Q == {e \in Range(g.edges): e[1] = v}
<1>1. g.edges \in Seq(W)
  BY GraphType
<1>2. InEdges(g, v) = Those(g.edges, P) /\ OutEdges(g, v) = Those(g.edges, Q)
  BY DEF InEdges, OutEdges
<1>. HIDE DEF W, P, Q
<1>3. InEdges(g, v) \in Seq(W) /\ Range(InEdges(g, v)) = Range(g.edges) \cap P
  BY <1>1, <1>2, ThoseOf
<1>4. OutEdges(g, v) \in Seq(W) /\ Range(OutEdges(g, v)) = Range(g.edges) \cap Q
  BY <1>1, <1>2, ThoseOf
<1> QED BY <1>3, <1>4 DEF W, P, Q

\* A graph without a vertex and its edges.
LEMMA SuppressOf ==
    ASSUME NEW V, NEW g \in Graphs(V), NEW v, NEW h, h = Suppress(g, v)
    PROVE  /\ h \in Graphs(V) /\ h.taken = g.taken
           /\ Range(h.vertices) = Range(g.vertices) \ {v}
           /\ \A e : e \in Range(h.edges) <=> e \in Range(g.edges) /\ e[1] # v /\ e[2] # v
           /\ Len(h.vertices) =< Len(g.vertices)
           /\ v \in Range(g.vertices) => Len(h.vertices) < Len(g.vertices)
           /\ Distinct(g.vertices) => Distinct(h.vertices)
<1>. DEFINE W == V \X V
            P == Range(g.vertices) \ {v}
            Q == {e \in Range(g.edges): v \notin {e[1], e[2]}}
<1>1. g.edges \in Seq(W) /\ g.vertices \in Seq(V) /\ g.taken \in Seq(V)
  BY GraphType
<1>2. /\ h.vertices = Those(g.vertices, P) /\ h.edges = Those(g.edges, Q) /\ h.taken = g.taken
      /\ h = [vertices |-> h.vertices, edges |-> h.edges, taken |-> h.taken]
  BY DEF Suppress, Graphs
<1>. HIDE DEF W, P, Q
<1>3. h.edges \in Seq(W) /\ Range(h.edges) = Range(g.edges) \cap Q
  BY <1>1, <1>2, ThoseOf
<1>4. /\ h.vertices \in Seq(V) /\ Range(h.vertices) = Range(g.vertices) \cap P
      /\ Len(h.vertices) =< Len(g.vertices)
      /\ \A x \in Range(g.vertices) : x \notin P => Len(h.vertices) < Len(g.vertices)
      /\ Distinct(g.vertices) => Distinct(h.vertices)
  BY <1>1, <1>2, ThoseOf
<1>5. h \in Graphs(V)
  BY <1>1, <1>2, <1>3, <1>4 DEF Graphs, W
<1>6. v \notin P
  BY DEF P
<1> QED BY <1>2, <1>3, <1>4, <1>5, <1>6 DEF P, Q

\* A vertex that is bypassed.
LEMMA BypassOf ==
    ASSUME NEW V, NEW g \in Graphs(V), NEW v, NEW h, h = Bypass(g, v)
    PROVE  /\ h \in Graphs(V) /\ h.taken = g.taken /\ h.vertices = g.vertices
           /\ \A e : e \in Range(g.edges) => e \in Range(h.edges)
           /\ \A a, b : <<a, v>> \in Range(g.edges) /\ <<v, b>> \in Range(g.edges) => <<a, b>> \in Range(h.edges)
<1>. DEFINE W == V \X V
<1>0. PICK ins : ins = InEdges(g, v)
  OBVIOUS
<1>1. PICK outs : outs = OutEdges(g, v)
  OBVIOUS
<1>2. /\ ins \in Seq(W) /\ outs \in Seq(W)
      /\ \A e : e \in Range(ins) <=> e \in Range(g.edges) /\ e[2] = v
      /\ \A e : e \in Range(outs) <=> e \in Range(g.edges) /\ e[1] = v
  BY <1>0, <1>1, EdgesOf
<1>. DEFINE pieces == [i \in DOMAIN ins |-> [j \in DOMAIN outs |-> <<ins[i][1], outs[j][2]>>]]
<1>3. PICK through : through = FlattenSeq(pieces)
  OBVIOUS
<1>. DEFINE P == Range(through) \ Range(g.edges)
<1>4. PICK more : more = Those(through, P)
  OBVIOUS
<1>5. g.edges \in Seq(W) /\ g.vertices \in Seq(V) /\ g.taken \in Seq(V)
  BY GraphType
<1>6. h = [g EXCEPT !.edges = @ \o more]
  BY <1>0, <1>1, <1>3, <1>4 DEF Bypass
<1>7. /\ h.vertices = g.vertices /\ h.edges = g.edges \o more /\ h.taken = g.taken
      /\ h = [vertices |-> h.vertices, edges |-> h.edges, taken |-> h.taken]
  BY <1>6 DEF Graphs
<1>8. /\ DOMAIN ins = 1 .. Len(ins) /\ DOMAIN outs = 1 .. Len(outs) /\ Len(ins) \in Nat /\ Len(outs) \in Nat
      /\ \A i \in 1 .. Len(ins) : ins[i] \in W /\ ins[i][1] \in V
      /\ \A j \in 1 .. Len(outs) : outs[j] \in W /\ outs[j][2] \in V
  BY <1>2
<1>9. pieces \in Seq(Seq(W)) /\ Len(pieces) = Len(ins)
  <2>1. ASSUME NEW i \in 1 .. Len(ins) PROVE [j \in DOMAIN outs |-> <<ins[i][1], outs[j][2]>>] \in Seq(W)
    BY <1>8
  <2> QED BY <1>8, <2>1
<1>. HIDE DEF P
<1>10. through \in Seq(W) /\ \A x : x \in Range(through) <=> \E k \in 1 .. Len(pieces) : x \in Range(pieces[k])
  <2>. HIDE DEF pieces, W
  <2> QED BY <1>3, <1>9, FlattenType, FlattenRange
<1>11. more \in Seq(W) /\ Range(more) = Range(through) \cap P
  <2>. HIDE DEF W
  <2> QED BY <1>4, <1>10, ThoseOf
<1>12. h.edges \in Seq(W) /\ \A e : e \in Range(h.edges) <=> e \in Range(g.edges) \/ e \in Range(more)
  <2>. HIDE DEF W
  <2> QED BY <1>5, <1>7, <1>11, ConcatRange
<1>13. h \in Graphs(V)
  BY <1>5, <1>7, <1>12 DEF Graphs
<1>14. ASSUME NEW a, NEW b, <<a, v>> \in Range(g.edges), <<v, b>> \in Range(g.edges)
       PROVE  <<a, b>> \in Range(h.edges)
  <2>1. <<a, v>> \in Range(ins) /\ <<v, b>> \in Range(outs)
    BY <1>2, <1>14
  <2>2. PICK i \in 1 .. Len(ins) : ins[i] = <<a, v>>
    BY <1>8, <2>1 DEF Range
  <2>3. PICK j \in 1 .. Len(outs) : outs[j] = <<v, b>>
    BY <1>8, <2>1 DEF Range
  <2>4. pieces[i] = [k \in DOMAIN outs |-> <<a, outs[k][2]>>]
    BY <1>8, <2>2
  <2>5. <<a, b>> \in Range(pieces[i])
    <3>1. pieces[i][j] = <<a, b>> /\ j \in DOMAIN pieces[i]
      BY <1>8, <2>3, <2>4
    <3>. HIDE DEF pieces
    <3> QED BY <3>1 DEF Range
  <2>6. <<a, b>> \in Range(through)
    <3>. HIDE DEF pieces
    <3> QED BY <1>9, <1>10, <2>5
  <2> QED BY <1>11, <1>12, <2>6 DEF P
<1> QED BY <1>7, <1>12, <1>13, <1>14

-------------------------------------------------------------------------------
(***************************************************************************)
(* Walks over the vertices of a graph                                      *)
(***************************************************************************)

\* What a rule does to a vertex of a graph.
LEMMA AppliedOf ==
    ASSUME NEW V, NEW rule, NEW g \in Graphs(V), NEW v \in Range(g.vertices), NEW h, h = Applied(rule, g, v)
    PROVE  h \in Graphs(V) /\ Len(h.vertices) < Len(g.vertices)
<1>0. v \in V
  BY GraphType
<1>1. CASE rule \in {"loop", "source"}
  <2>1. PICK s : s = Suppress(g, v)
    OBVIOUS
  <2>2. s \in Graphs(V) /\ Len(s.vertices) < Len(g.vertices)
    BY <2>1, SuppressOf
  <2>3. h = [s EXCEPT !.taken = Append(@, v)]
    BY <1>1, <2>1 DEF Applied, SetAside
  <2>4. s.taken \in Seq(V)
    BY <2>2, GraphType
  <2>5. /\ h.vertices = s.vertices /\ h.edges = s.edges /\ h.taken = Append(s.taken, v)
        /\ h = [vertices |-> h.vertices, edges |-> h.edges, taken |-> h.taken]
    BY <2>2, <2>3 DEF Graphs
  <2>6. s.vertices \in Seq(V) /\ s.edges \in Seq(V \X V) /\ Append(s.taken, v) \in Seq(V)
    <3>1. Append(s.taken, v) \in Seq(V)
      BY <1>0, <2>4
    <3>2. s.vertices \in Seq(V) /\ s.edges \in Seq(V \X V)
      BY <2>2, GraphType
    <3> QED BY <3>1, <3>2
  <2>7. h \in Graphs(V)
    <3>1. h.vertices \in Seq(V) /\ h.edges \in Seq(V \X V) /\ h.taken \in Seq(V)
      BY <2>5, <2>6
    <3>. HIDE DEF Applied
    <3> QED BY <2>5, <3>1, Zenon DEF Graphs
  <2> QED BY <2>2, <2>5, <2>7
<1>2. CASE rule \notin {"loop", "source"}
  <2>1. PICK b : b = Bypass(g, v)
    OBVIOUS
  <2>2. b \in Graphs(V) /\ b.vertices = g.vertices
    BY <2>1, BypassOf
  <2>3. h = Suppress(b, v)
    BY <1>2, <2>1 DEF Applied, Eliminate
  <2> QED BY <2>2, <2>3, SuppressOf
<1> QED BY <1>1, <1>2

\* The states of a walk over the vertices.
Walks(V) == [g : Graphs(V), k : Nat \ {0}, first : BOOLEAN]

\* The fields of such a state.
LEMMA WalkType ==
    ASSUME NEW V, NEW w \in Walks(V)
    PROVE  /\ w.g \in Graphs(V) /\ w.k \in Nat /\ w.k >= 1 /\ w.first \in BOOLEAN
           /\ w.k =< Len(w.g.vertices) => w.g.vertices[w.k] \in Range(w.g.vertices)
<1>1. w.g \in Graphs(V) /\ w.k \in Nat /\ w.k >= 1 /\ w.first \in BOOLEAN
  BY DEF Walks
<1>2. PICK k \in Nat : k = w.k
  BY <1>1
<1>3. k =< Len(w.g.vertices) => w.g.vertices[k] \in Range(w.g.vertices)
  <2>1. PICK g \in Graphs(V) : g = w.g
    BY <1>1
  <2>2. \A i \in 1 .. Len(g.vertices) : g.vertices[i] \in Range(g.vertices)
    BY GraphType
  <2>3. Len(g.vertices) \in Nat
    BY GraphType
  <2> QED BY <1>1, <1>2, <2>1, <2>2, <2>3
<1> QED BY <1>1, <1>2, <1>3

\* A step of the walk passes a vertex or applies the rule.
LEMMA WalkStepOf ==
    ASSUME NEW V, NEW rule, NEW w \in Walks(V), NEW t, t = WalkStep(rule, w)
    PROVE  /\ t \in Walks(V)
           /\ w.k > Len(w.g.vertices) => t = w
           /\ w.k =< Len(w.g.vertices) /\ Applies(rule, w.g, w.g.vertices[w.k]) =>
                t.g = Applied(rule, w.g, w.g.vertices[w.k])
           /\ w.k =< Len(w.g.vertices) /\ ~Applies(rule, w.g, w.g.vertices[w.k]) =>
                t.g = w.g /\ t.k = w.k + 1
<1>1. PICK g \in Graphs(V) : g = w.g
  BY WalkType
<1>2. PICK k \in Nat : k = w.k /\ k >= 1
  BY WalkType
<1>3. PICK v : v = g.vertices[k]
  OBVIOUS
<1>4. Len(g.vertices) \in Nat /\ (k =< Len(g.vertices) => v \in Range(g.vertices))
  BY <1>1, <1>2, <1>3, WalkType, GraphType
<1>5. CASE k > Len(g.vertices)
  <2>1. t = w
    BY <1>1, <1>2, <1>5 DEF WalkStep
  <2> QED BY <1>1, <1>2, <1>4, <1>5, <2>1
<1>6. CASE k =< Len(g.vertices) /\ Applies(rule, g, v)
  <2>1. t = [w EXCEPT !.g = Applied(rule, g, v), !.k = IF w.first THEN 2 ELSE w.k]
    BY <1>1, <1>2, <1>3, <1>4, <1>6 DEF WalkStep
  <2>2. Applied(rule, g, v) \in Graphs(V)
    BY <1>4, <1>6, AppliedOf
  <2>3. t \in Walks(V) /\ t.g = Applied(rule, g, v)
    <3>1. PICK a : a = Applied(rule, g, v)
      OBVIOUS
    <3>2. PICK b : b = IF w.first THEN 2 ELSE w.k
      OBVIOUS
    <3>3. b \in Nat \ {0} /\ w.first \in BOOLEAN
      BY <1>2, <3>2, WalkType
    <3>4. t = [g |-> a, k |-> b, first |-> w.first]
      BY <2>1, <3>1, <3>2 DEF Walks
    <3> QED BY <2>2, <3>1, <3>3, <3>4 DEF Walks
  <2> QED BY <1>1, <1>2, <1>3, <1>4, <1>6, <2>3
<1>7. CASE k =< Len(g.vertices) /\ ~Applies(rule, g, v)
  <2>1. t = [w EXCEPT !.k = w.k + 1, !.first = FALSE]
    BY <1>1, <1>2, <1>3, <1>4, <1>7 DEF WalkStep
  <2>2. t.g = w.g /\ t.k = w.k + 1
    BY <2>1 DEF Walks
  <2>3. t \in Walks(V)
    <3>1. PICK b : b = w.k + 1
      OBVIOUS
    <3>2. b \in Nat \ {0}
      BY <1>2, <3>1
    <3>3. t = [g |-> w.g, k |-> b, first |-> FALSE]
      BY <2>1, <3>1 DEF Walks
    <3> QED BY <1>1, <3>2, <3>3 DEF Walks
  <2> QED BY <1>1, <1>2, <1>3, <1>4, <1>7, <2>2, <2>3
<1> QED BY <1>4, <1>5, <1>6, <1>7

\* The first n steps of a walk.
WalkTaken(rule, g, n, it) ==
    /\ it[{}] = [g |-> g, k |-> 1, first |-> TRUE] /\ Walk(rule, g) = it[1 .. n].g
    /\ \A s \in SUBSET (1 .. n) : s # {} => it[s] = WalkStep(rule, it[s \ {Max(s)}])

\* A walk takes its steps one after the other.
LEMMA WalkSteps ==
    ASSUME NEW V, NEW rule, NEW g \in Graphs(V), NEW n, n = Len(g.vertices)
    PROVE  \E it : WalkTaken(rule, g, n, it)
<1>. DEFINE D == SUBSET (1 .. n)
            base == [g |-> g, k |-> 1, first |-> TRUE]
            F == [a \in Walks(V) \X (1 .. n) |-> WalkStep(rule, a[1])]
            h == CHOOSE f : f = [s \in D |-> IF s = {} THEN base ELSE WalkStep(rule, f[s \ {Max(s)}])]
<1>1. n \in Nat /\ DOMAIN g.vertices = 1 .. n
  BY GraphType
<1>2. Walk(rule, g) = h[1 .. n].g
  BY <1>1 DEF Walk, FoldLeft, MapThenFoldSet
<1>3. F \in [Walks(V) \X (1 .. n) -> Walks(V)]
  BY WalkStepOf
<1>4. PICK f \in [D -> Walks(V)] : IsIteration(f, F, base, D)
  <2>1. base \in Walks(V)
    BY DEF Walks
  <2>. HIDE DEF F, base
  <2> QED BY <1>1, <1>3, <2>1, IterationExists
<1>5. f = [s \in D |-> IF s = {} THEN base ELSE WalkStep(rule, f[s \ {Max(s)}])]
  <2>1. ASSUME NEW s \in D, s # {}
        PROVE  F[<<f[s \ {Max(s)}], Max(s)>>] = WalkStep(rule, f[s \ {Max(s)}])
    <3>1. Max(s) \in 1 .. n /\ s \ {Max(s)} \in D
      BY <1>1, <2>1, LastPlace
    <3>. HIDE DEF D
    <3>2. <<f[s \ {Max(s)}], Max(s)>> \in Walks(V) \X (1 .. n)
      BY <3>1
    <3> QED BY <3>2
  <2>2. f = [s \in D |-> IF s = {} THEN base ELSE F[<<f[s \ {Max(s)}], Max(s)>>]]
    BY <1>4 DEF IsIteration
  <2>. HIDE DEF F, D, base
  <2> QED BY <2>1, <2>2
<1>6. h = [s \in D |-> IF s = {} THEN base ELSE WalkStep(rule, h[s \ {Max(s)}])]
  <2>. HIDE DEF D, F, base
  <2> QED BY <1>5
<1>. HIDE DEF h
<1>7. ASSUME NEW s \in D, s # {} PROVE h[s] = WalkStep(rule, h[s \ {Max(s)}])
  <2>. HIDE DEF D, base
  <2> QED BY <1>6, <1>7
<1>8. h[{}] = base
  <2>1. {} \in D
    OBVIOUS
  <2>. HIDE DEF D, base
  <2> QED BY <1>6, <2>1
<1> QED BY <1>2, <1>7, <1>8 DEF WalkTaken

\* A walk keeps what the rule keeps; it removes a vertex unless the rule applies to none.
LEMMA WalkKeeps ==
    ASSUME NEW V, NEW rule, NEW Kept \in SUBSET Graphs(V), NEW g \in Kept, NEW q, q = Walk(rule, g),
           \A h \in Kept : \A v \in Range(h.vertices) : Applies(rule, h, v) => Applied(rule, h, v) \in Kept
    PROVE  /\ q \in Kept /\ Len(q.vertices) =< Len(g.vertices)
           /\ \/ Len(q.vertices) < Len(g.vertices)
              \/ \A v \in Range(g.vertices) : ~Applies(rule, g, v)
<1>0. PICK n : n = Len(g.vertices)
  OBVIOUS
<1>1. n \in Nat /\ g \in Graphs(V) /\ DOMAIN g.vertices = 1 .. n
  BY <1>0, GraphType
<1>2. PICK it : WalkTaken(rule, g, n, it)
  BY <1>0, <1>1, WalkSteps
<1>. DEFINE Passed(k) == \A i \in 1 .. k : ~Applies(rule, g, g.vertices[i])
            State(k) == {w \in Walks(V) : /\ w.g \in Kept /\ Len(w.g.vertices) =< n
                                          /\ \/ Len(w.g.vertices) < n
                                             \/ w.g = g /\ w.k = k + 1 /\ Passed(k)}
            Good == [k \in 0 .. n |-> State(k)]
<1>3. it[{}] \in Good[0]
  <2>1. PICK w : w = it[{}]
    OBVIOUS
  <2>2. w = [g |-> g, k |-> 1, first |-> TRUE]
    BY <1>2, <2>1 DEF WalkTaken
  <2>3. w \in Walks(V) /\ w.g = g /\ w.k = 0 + 1
    BY <1>1, <2>2 DEF Walks
  <2>4. Passed(0)
    OBVIOUS
  <2>5. w \in State(0)
    <3>. HIDE DEF Passed
    <3> QED BY <1>0, <1>1, <2>3, <2>4
  <2> QED BY <1>1, <2>1, <2>5
<1>4. ASSUME NEW k \in 0 .. n - 1, it[1 .. k] \in Good[k] PROVE it[1 .. k + 1] \in Good[k + 1]
  <2>1. k \in Nat /\ k \in 0 .. n /\ k + 1 \in 0 .. n /\ 1 .. k + 1 \in SUBSET (1 .. n) /\ k + 1 \in 1 .. n
    BY <1>1
  <2>2. Max(1 .. k + 1) = k + 1 /\ (1 .. k + 1) \ {k + 1} = 1 .. k /\ 1 .. k + 1 # {}
    BY <2>1, LastOfFirst
  <2>3. PICK w : w = it[1 .. k]
    OBVIOUS
  <2>4. PICK t : t = it[1 .. k + 1]
    OBVIOUS
  <2>5. t = WalkStep(rule, w)
    <3>1. PICK s \in SUBSET (1 .. n) : s = 1 .. k + 1 /\ s # {}
      BY <2>1, <2>2
    <3>2. it[s] = WalkStep(rule, it[s \ {Max(s)}])
      BY <1>2, <3>1 DEF WalkTaken
    <3> QED BY <2>2, <2>3, <2>4, <3>1, <3>2
  <2>6. w \in State(k)
    BY <1>4, <2>1, <2>3
  <2>7. /\ w \in Walks(V) /\ w.g \in Kept /\ w.g \in Graphs(V) /\ Len(w.g.vertices) =< n
        /\ Len(w.g.vertices) < n \/ (w.g = g /\ w.k = k + 1 /\ Passed(k))
    <3>. HIDE DEF Passed
    <3> QED BY <2>6
  <2>8. Len(w.g.vertices) \in Nat /\ w.k \in Nat
    BY <2>7, GraphType, WalkType
  <2>9. PICK v : v = w.g.vertices[w.k]
    OBVIOUS
  <2>10. t \in State(k + 1)
    <3>1. CASE w.k > Len(w.g.vertices)
      <4>1. t = w
        BY <2>5, <2>7, <3>1, WalkStepOf
      <4>2. Len(w.g.vertices) < n
        BY <1>0, <1>1, <2>1, <2>7, <2>8, <3>1
      <4>. HIDE DEF Passed
      <4> QED BY <2>7, <4>1, <4>2
    <3>2. CASE w.k =< Len(w.g.vertices) /\ Applies(rule, w.g, v)
      <4>1. t \in Walks(V) /\ t.g = Applied(rule, w.g, v)
        BY <2>5, <2>7, <2>9, <3>2, WalkStepOf
      <4>2. v \in Range(w.g.vertices)
        BY <2>7, <2>9, <3>2, WalkType
      <4>3. t.g \in Kept
        BY <2>7, <3>2, <4>1, <4>2
      <4>4. Len(t.g.vertices) < Len(w.g.vertices) /\ t.g \in Graphs(V)
        BY <2>7, <4>1, <4>2, AppliedOf
      <4>5. Len(t.g.vertices) \in Nat
        BY <4>4, GraphType
      <4>6. Len(t.g.vertices) < n
        BY <1>1, <2>7, <2>8, <4>4, <4>5
      <4>. HIDE DEF Passed
      <4> QED BY <1>1, <4>1, <4>3, <4>5, <4>6
    <3>3. CASE w.k =< Len(w.g.vertices) /\ ~Applies(rule, w.g, v)
      <4>1. t \in Walks(V) /\ t.g = w.g /\ t.k = w.k + 1
        BY <2>5, <2>7, <2>9, <3>3, WalkStepOf
      <4>2. CASE Len(w.g.vertices) < n
        <5>. HIDE DEF Passed
        <5> QED BY <2>7, <4>1, <4>2
      <4>3. CASE ~(Len(w.g.vertices) < n)
        <5>1. w.g = g /\ w.k = k + 1 /\ Passed(k)
          BY <2>7, <4>3
        <5>2. ~Applies(rule, g, g.vertices[k + 1])
          BY <2>9, <3>3, <5>1
        <5>3. \A i \in 1 .. k + 1 : i \in 1 .. k \/ i = k + 1
          BY <2>1
        <5>4. Passed(k + 1)
          BY <5>1, <5>2, <5>3
        <5>. HIDE DEF Passed
        <5> QED BY <2>7, <4>1, <5>1, <5>4
      <4> QED BY <4>2, <4>3
    <3> QED BY <2>8, <3>1, <3>2, <3>3
  <2> QED BY <2>1, <2>4, <2>10
<1>5. it[1 .. n] \in Good[n]
  <2>. HIDE DEF Good
  <2> QED BY <1>1, <1>3, <1>4, IterationKeeps
<1>6. PICK w : w = it[1 .. n]
  OBVIOUS
<1>7. w \in State(n)
  BY <1>1, <1>5, <1>6
<1>8. q = w.g
  BY <1>2, <1>6 DEF WalkTaken
<1>9. /\ q \in Kept /\ Len(q.vertices) =< n
      /\ Len(q.vertices) < n \/ Passed(n)
  <2>. HIDE DEF Passed
  <2> QED BY <1>7, <1>8
<1>10. ASSUME Passed(n), NEW v \in Range(g.vertices) PROVE ~Applies(rule, g, v)
  <2>1. PICK i \in 1 .. n : v = g.vertices[i]
    BY <1>1 DEF Range
  <2> QED BY <1>10, <2>1
<1> QED BY <1>0, <1>9, <1>10

-------------------------------------------------------------------------------
(***************************************************************************)
(* The cycles that feedback vertices cut                                   *)
(***************************************************************************)

\* A set of vertices each of which leads to another one of them, or to itself: it holds a cycle.
Cyclic(E, S) == S # {} /\ \A v \in S : \E w \in S : <<v, w>> \in E

\* A graph in which each cycle of E is cut by a vertex that has been put aside, or is left on
\* some of its vertices.
Cutting(V, E) ==
    {h \in Graphs(V) :
       \A S \in SUBSET V : Cyclic(E, S) /\ S \cap Range(h.taken) = {} =>
         \E T \in SUBSET (S \cap Range(h.vertices)) : Cyclic(Range(h.edges), T)}

\* h is the graph g after v has been put aside.
Without(g, v, h) ==
    /\ h.taken = Append(g.taken, v)
    /\ Range(g.taken) \subseteq Range(h.taken) /\ v \in Range(h.taken)
    /\ \A x \in Range(h.taken) : x \in Range(g.taken) \/ x = v
    /\ Range(h.vertices) \subseteq Range(g.vertices) /\ v \notin Range(h.vertices)
    /\ \A x \in Range(g.vertices) : x \in Range(h.vertices) \/ x = v
    /\ \A e : e \in Range(h.edges) <=> e \in Range(g.edges) /\ e[1] # v /\ e[2] # v
    /\ v \in Range(g.vertices) => Len(h.vertices) < Len(g.vertices)
    /\ Distinct(g.vertices) => Distinct(h.vertices)

\* A vertex that is put aside.
LEMMA PutAside ==
    ASSUME NEW V, NEW g \in Graphs(V), NEW v \in V, NEW h, h = SetAside(g, v)
    PROVE  h \in Graphs(V) /\ Without(g, v, h)
<1>1. PICK s : s = Suppress(g, v)
  OBVIOUS
<1>2. /\ s \in Graphs(V) /\ s.taken = g.taken
      /\ Range(s.vertices) = Range(g.vertices) \ {v}
      /\ \A e : e \in Range(s.edges) <=> e \in Range(g.edges) /\ e[1] # v /\ e[2] # v
      /\ v \in Range(g.vertices) => Len(s.vertices) < Len(g.vertices)
      /\ Distinct(g.vertices) => Distinct(s.vertices)
  BY <1>1, SuppressOf
<1>3. s.vertices \in Seq(V) /\ s.edges \in Seq(V \X V) /\ g.taken \in Seq(V)
  BY <1>2, GraphType
<1>4. PICK a : a = Append(g.taken, v)
  OBVIOUS
<1>5. a \in Seq(V) /\ Range(a) = Range(g.taken) \cup {v}
  <2>1. /\ a \in Seq(V) /\ Len(a) = Len(g.taken) + 1 /\ Len(g.taken) \in Nat
        /\ DOMAIN a = 1 .. Len(a) /\ DOMAIN g.taken = 1 .. Len(g.taken)
        /\ a[Len(g.taken) + 1] = v /\ \A i \in 1 .. Len(g.taken) : a[i] = g.taken[i]
    BY <1>3, <1>4
  <2>2. \A i : i \in 1 .. Len(a) <=> i \in 1 .. Len(g.taken) \/ i = Len(g.taken) + 1
    BY <2>1
  <2>3. \A x : x \in Range(a) <=> x \in Range(g.taken) \/ x = v
    BY <2>1, <2>2 DEF Range
  <2> QED BY <2>1, <2>3
<1>6. /\ h.vertices = s.vertices /\ h.edges = s.edges /\ h.taken = a
      /\ h = [vertices |-> h.vertices, edges |-> h.edges, taken |-> h.taken]
  <2>1. h = [s EXCEPT !.taken = a]
    BY <1>1, <1>2, <1>4 DEF SetAside
  <2> QED BY <1>2, <2>1 DEF Graphs
<1>7. h \in Graphs(V)
  <2>1. h.vertices \in Seq(V) /\ h.edges \in Seq(V \X V) /\ h.taken \in Seq(V)
    BY <1>3, <1>5, <1>6
  <2> QED BY <1>6, <2>1, Zenon DEF Graphs
<1>8. Without(g, v, h)
  <2>1. Range(g.taken) \subseteq Range(h.taken) /\ v \in Range(h.taken) /\ h.taken = Append(g.taken, v)
    BY <1>4, <1>5, <1>6
  <2>2. \A x \in Range(h.taken) : x \in Range(g.taken) \/ x = v
    BY <1>5, <1>6
  <2>3. Range(h.vertices) \subseteq Range(g.vertices) /\ v \notin Range(h.vertices)
    BY <1>2, <1>6
  <2>4. \A x \in Range(g.vertices) : x \in Range(h.vertices) \/ x = v
    BY <1>2, <1>6
  <2> QED BY <1>2, <1>6, <2>1, <2>2, <2>3, <2>4 DEF Without
<1> QED BY <1>7, <1>8

\* The cycles that are left do not pass through a vertex that is put aside.
LEMMA PutAsideCuts ==
    ASSUME NEW V, NEW E, NEW g \in Cutting(V, E), NEW v \in V
    PROVE  SetAside(g, v) \in Cutting(V, E)
<1>1. PICK h : h = SetAside(g, v)
  OBVIOUS
<1>2. g \in Graphs(V)
  BY DEF Cutting
<1>3. h \in Graphs(V) /\ Without(g, v, h)
  BY <1>1, <1>2, PutAside
<1>4. ASSUME NEW S \in SUBSET V, Cyclic(E, S), S \cap Range(h.taken) = {}
      PROVE  \E T \in SUBSET (S \cap Range(h.vertices)) : Cyclic(Range(h.edges), T)
  <2>1. S \cap Range(g.taken) = {} /\ v \notin S
    BY <1>3, <1>4 DEF Without
  <2>2. PICK T \in SUBSET (S \cap Range(g.vertices)) : Cyclic(Range(g.edges), T)
    BY <1>4, <2>1 DEF Cutting
  <2>3. T \in SUBSET (S \cap Range(h.vertices)) /\ v \notin T
    BY <1>3, <2>1, <2>2 DEF Without
  <2>4. \A x \in T : \E w \in T : <<x, w>> \in Range(h.edges)
    <3>1. ASSUME NEW x \in T, NEW w \in T, <<x, w>> \in Range(g.edges) PROVE <<x, w>> \in Range(h.edges)
      <4>1. PICK e : e = <<x, w>>
        OBVIOUS
      <4>2. e[1] # v /\ e[2] # v
        BY <2>3, <4>1
      <4> QED BY <1>3, <3>1, <4>1, <4>2 DEF Without
    <3> QED BY <2>2, <3>1 DEF Cyclic
  <2>5. Cyclic(Range(h.edges), T)
    BY <2>2, <2>4 DEF Cyclic
  <2> QED BY <2>3, <2>5
<1> QED BY <1>1, <1>3, <1>4 DEF Cutting

\* The cycles through a vertex without a loop stay when it is eliminated.
LEMMA EliminateCuts ==
    ASSUME NEW V, NEW E, NEW g \in Cutting(V, E), NEW v, <<v, v>> \notin Range(g.edges)
    PROVE  Eliminate(g, v) \in Cutting(V, E)
<1>1. PICK b : b = Bypass(g, v)
  OBVIOUS
<1>2. PICK h : h = Suppress(b, v)
  OBVIOUS
<1>3. h = Eliminate(g, v) /\ g \in Graphs(V)
  BY <1>1, <1>2 DEF Eliminate, Cutting
<1>4. /\ b \in Graphs(V) /\ b.taken = g.taken /\ b.vertices = g.vertices
      /\ \A e : e \in Range(g.edges) => e \in Range(b.edges)
      /\ \A x, y : <<x, v>> \in Range(g.edges) /\ <<v, y>> \in Range(g.edges) => <<x, y>> \in Range(b.edges)
  BY <1>1, <1>3, BypassOf
<1>5. /\ h \in Graphs(V) /\ h.taken = g.taken
      /\ Range(h.vertices) = Range(g.vertices) \ {v}
      /\ \A e : e \in Range(h.edges) <=> e \in Range(b.edges) /\ e[1] # v /\ e[2] # v
  <2>1. b \in Graphs(V)
    BY <1>4
  <2>2. Range(h.vertices) = Range(b.vertices) \ {v} /\ h.taken = b.taken /\ h \in Graphs(V)
    BY <1>2, <2>1, SuppressOf
  <2>3. \A e : e \in Range(h.edges) <=> e \in Range(b.edges) /\ e[1] # v /\ e[2] # v
    BY <1>2, <2>1, SuppressOf
  <2>4. b.taken = g.taken /\ b.vertices = g.vertices
    BY <1>4
  <2> QED BY <2>2, <2>3, <2>4
<1>6. ASSUME NEW S \in SUBSET V, Cyclic(E, S), S \cap Range(h.taken) = {}
      PROVE  \E T \in SUBSET (S \cap Range(h.vertices)) : Cyclic(Range(h.edges), T)
  <2>1. PICK T \in SUBSET (S \cap Range(g.vertices)) : Cyclic(Range(g.edges), T)
    BY <1>5, <1>6 DEF Cutting
  <2>2. T \ {v} \in SUBSET (S \cap Range(h.vertices))
    BY <1>5, <2>1
  <2>3. ASSUME NEW x \in T, NEW w \in T, x # v, w # v, <<x, w>> \in Range(b.edges)
        PROVE  <<x, w>> \in Range(h.edges)
    <3>1. PICK e : e = <<x, w>>
      OBVIOUS
    <3>2. e[1] # v /\ e[2] # v
      BY <2>3, <3>1
    <3> QED BY <1>5, <2>3, <3>1, <3>2
  <2>4. ASSUME v \in T PROVE \E y \in T : y # v /\ <<v, y>> \in Range(g.edges)
    BY <2>1, <2>4 DEF Cyclic
  <2>5. \A x \in T \ {v} : \E w \in T \ {v} : <<x, w>> \in Range(h.edges)
    <3>. SUFFICES ASSUME NEW x \in T, x # v PROVE \E w \in T : w # v /\ <<x, w>> \in Range(h.edges)
      OBVIOUS
    <3>1. PICK w \in T : <<x, w>> \in Range(g.edges)
      BY <2>1 DEF Cyclic
    <3>2. CASE w # v
      BY <1>4, <2>3, <3>1, <3>2
    <3>3. CASE w = v
      <4>1. PICK y \in T : y # v /\ <<v, y>> \in Range(g.edges)
        BY <2>4, <3>3
      <4>2. <<x, y>> \in Range(b.edges)
        BY <1>4, <3>1, <3>3, <4>1
      <4> QED BY <2>3, <4>1, <4>2
    <3> QED BY <3>2, <3>3
  <2>6. T \ {v} # {}
    <3>1. T # {}
      BY <2>1 DEF Cyclic
    <3> QED BY <2>4, <3>1
  <2>7. Cyclic(Range(h.edges), T \ {v})
    BY <2>5, <2>6 DEF Cyclic
  <2> QED BY <2>2, <2>7
<1> QED BY <1>3, <1>5, <1>6 DEF Cutting

\* A vertex of a clique has no loop.
LEMMA CliqueHasNoLoop ==
    ASSUME NEW V, NEW g \in Graphs(V), NEW v, BelongsToClique(g, v)
    PROVE  <<v, v>> \notin Range(g.edges)
<1>. SUFFICES ASSUME <<v, v>> \in Range(g.edges) PROVE FALSE
  OBVIOUS
<1>1. PICK ins : ins = InEdges(g, v)
  OBVIOUS
<1>2. ins \in Seq(V \X V) /\ \A e : e \in Range(ins) <=> e \in Range(g.edges) /\ e[2] = v
  BY <1>1, EdgesOf
<1>3. <<v, v>> \in Range(ins)
  BY <1>2
<1>4. PICK i \in DOMAIN ins : ins[i] = <<v, v>>
  BY <1>3 DEF Range
<1>5. ins[i][1] # v
  BY <1>1 DEF BelongsToClique
<1> QED BY <1>4, <1>5

\* The three rules leave a cycle where there was one that is not cut.
LEMMA RulesCut ==
    ASSUME NEW V, NEW E, NEW rule \in {"one or less", "clique", "loop"},
           NEW g \in Cutting(V, E), NEW v \in Range(g.vertices), Applies(rule, g, v)
    PROVE  Applied(rule, g, v) \in Cutting(V, E)
<1>1. g \in Graphs(V) /\ v \in V
  <2>1. g \in Graphs(V)
    BY DEF Cutting
  <2> QED BY <2>1, GraphType
<1>2. CASE rule = "loop"
  BY <1>1, <1>2, PutAsideCuts DEF Applied
<1>3. CASE rule # "loop"
  <2>1. <<v, v>> \notin Range(g.edges)
    <3>1. CASE rule = "clique"
      <4>1. BelongsToClique(g, v)
        BY <3>1 DEF Applies
      <4> QED BY <1>1, <4>1, CliqueHasNoLoop
    <3>2. CASE rule = "one or less"
      BY <3>2 DEF Applies
    <3> QED BY <1>3, <3>1, <3>2
  <2>2. Applied(rule, g, v) = Eliminate(g, v)
    BY <1>3 DEF Applied
  <2> QED BY <2>1, <2>2, EliminateCuts
<1> QED BY <1>2, <1>3

\* So do the walks with them.
LEMMA ReductionCuts ==
    ASSUME NEW V, NEW E, NEW g \in Cutting(V, E), NEW h, h = ReductionRules(g)
    PROVE  h \in Cutting(V, E) /\ Len(h.vertices) =< Len(g.vertices)
<1>0. Cutting(V, E) \in SUBSET Graphs(V)
  BY DEF Cutting
<1>1. ASSUME NEW rule \in {"one or less", "clique", "loop"}, NEW f \in Cutting(V, E)
      PROVE  Walk(rule, f) \in Cutting(V, E) /\ Len(Walk(rule, f).vertices) =< Len(f.vertices)
  <2>1. PICK q : q = Walk(rule, f)
    OBVIOUS
  <2>2. \A p \in Cutting(V, E) : \A v \in Range(p.vertices) : Applies(rule, p, v) => Applied(rule, p, v) \in Cutting(V, E)
    BY RulesCut
  <2>3. q \in Cutting(V, E) /\ Len(q.vertices) =< Len(f.vertices)
    BY <1>0, <2>1, <2>2, WalkKeeps
  <2> QED BY <2>1, <2>3
<1>2. PICK a : a = Walk("one or less", g)
  OBVIOUS
<1>3. PICK b : b = Walk("clique", a)
  OBVIOUS
<1>4. h = Walk("loop", b)
  BY <1>2, <1>3 DEF ReductionRules
<1>5. a \in Cutting(V, E) /\ Len(a.vertices) =< Len(g.vertices)
  BY <1>1, <1>2
<1>6. b \in Cutting(V, E) /\ Len(b.vertices) =< Len(a.vertices)
  BY <1>1, <1>3, <1>5
<1>7. h \in Cutting(V, E) /\ Len(h.vertices) =< Len(b.vertices)
  BY <1>1, <1>4, <1>6
<1>8. \A f \in Cutting(V, E) : Len(f.vertices) \in Nat
  BY <1>0, GraphType
<1> QED BY <1>5, <1>6, <1>7, <1>8

-------------------------------------------------------------------------------
(***************************************************************************)
(* The reduction: in the end each cycle is cut by a feedback vertex        *)
(***************************************************************************)

\* What is left of a graph has a cycle.
LEMMA HasCycleOf ==
    ASSUME NEW g
    PROVE  HasCycle(g) <=> \E S \in SUBSET Range(g.vertices) : Cyclic(Range(g.edges), S)
BY DEF HasCycle, Cyclic

\* The vertex that is cut is one of the graph.
LEMMA CutVertexOf ==
    ASSUME NEW V, NEW g \in Graphs(V), HasCycle(g)
    PROVE  CutVertex(g) \in Range(g.vertices)
<1>. DEFINE n == Len(g.vertices)
            d(k) == Degree(g, g.vertices[k])
<1>1. /\ n \in Nat /\ DOMAIN g.vertices = 1 .. n
      /\ \A i \in 1 .. n : g.vertices[i] \in Range(g.vertices)
  BY GraphType
<1>2. \A k : d(k) \in Nat
  <2>1. \A v : Degree(g, v) \in Nat
    <3>. SUFFICES ASSUME NEW v PROVE Degree(g, v) \in Nat
      OBVIOUS
    <3>1. PICK a : a = InEdges(g, v)
      OBVIOUS
    <3>2. PICK b : b = OutEdges(g, v)
      OBVIOUS
    <3>3. a \in Seq(V \X V) /\ b \in Seq(V \X V)
      BY <3>1, <3>2, EdgesOf
    <3>4. Len(a) \in Nat /\ Len(b) \in Nat
      BY <3>3
    <3>5. Degree(g, v) = Len(a) + Len(b)
      BY <3>1, <3>2 DEF Degree
    <3> QED BY <3>4, <3>5
  <2> QED BY <2>1
<1>3. n # 0
  <2>1. PICK S \in SUBSET Range(g.vertices) : Cyclic(Range(g.edges), S)
    BY HasCycleOf
  <2>2. PICK x \in S : x \in Range(g.vertices)
    BY <2>1 DEF Cyclic
  <2>3. PICK i \in 1 .. n : x = g.vertices[i]
    BY <1>1, <2>2 DEF Range
  <2> QED BY <1>1, <2>3
<1>. HIDE DEF n, d
<1>4. PICK f : f = [k \in 1 .. n |-> d(k)]
  OBVIOUS
<1>5. PICK D : D = {x \in Nat : \E k \in 1 .. n : x = f[k]}
  OBVIOUS
<1>6. D \in SUBSET Int /\ D # {} /\ IsFiniteSet(D)
  <2>1. D # {} /\ D \in SUBSET Int
    <3>1. 1 \in 1 .. n /\ f[1] \in Nat
      BY <1>1, <1>2, <1>3, <1>4
    <3> QED BY <1>5, <3>1
  <2>2. IsFiniteSet(1 .. n)
    BY <1>1, FS_Interval
  <2>3. \A t \in D : \E k \in 1 .. n : t = f[k]
    BY <1>5
  <2>4. IsFiniteSet(D)
    BY <2>2, <2>3, FiniteImage
  <2> QED BY <2>1, <2>4
<1>7. PICK high \in D : \A x \in D : high >= x
  BY <1>6, HasBounds
<1>8. \A k \in 1 .. n : d(k) =< high
  BY <1>2, <1>4, <1>5, <1>7
<1>9. PICK K : K = {k \in Nat : k \in 1 .. n /\ d(k) = high}
  OBVIOUS
<1>10. K # {} /\ K \in SUBSET Nat
  BY <1>1, <1>4, <1>5, <1>9
<1>11. PICK least \in K : \A y \in K : least =< y
  BY <1>10, LeastNumber
<1>12. least \in 1 .. n /\ \A j \in 1 .. n : d(j) =< d(least) /\ (d(j) = d(least) => least =< j)
  BY <1>8, <1>9, <1>11
<1>13. PICK c : c = CHOOSE k \in 1 .. n : \A j \in 1 .. n : d(j) =< d(k) /\ (d(j) = d(k) => k =< j)
  OBVIOUS
<1>14. c \in 1 .. n
  BY <1>12, <1>13
<1>15. CutVertex(g) = g.vertices[c]
  BY <1>1, <1>13 DEF CutVertex, d
<1> QED BY <1>1, <1>14, <1>15

\* A state of the reduction.
Reductions(V, E) == [g : Cutting(V, E), before : Nat]

\* It is smaller after a step.
Potential(r) == 2 * Len(r.g.vertices) + (IF Len(r.g.vertices) < r.before THEN 1 ELSE 0)

\* Nothing is left to reduce.
Still(r) == ~(r.g.vertices # << >> /\ Len(r.g.vertices) < r.before) /\ ~HasCycle(r.g)

\* A step leaves a cycle where there was one that is not cut, and makes the graph smaller unless
\* nothing is left to reduce.
LEMMA ReduceStepOf ==
    ASSUME NEW V, NEW E, NEW r \in Reductions(V, E), NEW t, t = ReduceStep(r)
    PROVE  /\ t \in Reductions(V, E)
           /\ Potential(r) \in Nat /\ Potential(t) \in Nat
           /\ (Still(r) /\ t = r) \/ Potential(t) < Potential(r)
<1>1. r.g \in Cutting(V, E) /\ r.before \in Nat
  BY DEF Reductions
<1>2. PICK g : g = r.g
  OBVIOUS
<1>3. g \in Graphs(V) /\ g \in Cutting(V, E)
  BY <1>1, <1>2 DEF Cutting
<1>4. PICK n \in Nat : n = Len(g.vertices)
  BY <1>3, GraphType
<1>5. g.vertices = << >> <=> n = 0
  <2>1. g.vertices \in Seq(V)
    BY <1>3, GraphType
  <2> QED BY <1>4, <2>1
<1>6. Potential(r) = 2 * n + (IF n < r.before THEN 1 ELSE 0)
  BY <1>2, <1>4 DEF Potential
<1>7. CASE n # 0 /\ n < r.before
  <2>1. PICK h : h = ReductionRules(g)
    OBVIOUS
  <2>2. h \in Cutting(V, E) /\ Len(h.vertices) =< n /\ h \in Graphs(V)
    <3>1. h \in Cutting(V, E) /\ Len(h.vertices) =< n
      BY <1>3, <1>4, <2>1, ReductionCuts
    <3> QED BY <3>1 DEF Cutting
  <2>3. PICK m \in Nat : m = Len(h.vertices)
    BY <2>2, GraphType
  <2>4. t = [g |-> h, before |-> n]
    BY <1>2, <1>4, <1>5, <1>7, <2>1 DEF ReduceStep
  <2>5. t \in Reductions(V, E) /\ t.g = h /\ t.before = n
    BY <2>2, <2>4 DEF Reductions
  <2>6. Potential(t) = 2 * m + (IF m < n THEN 1 ELSE 0)
    BY <2>3, <2>5 DEF Potential
  <2>7. m =< n
    BY <2>2, <2>3
  <2>8. Potential(t) \in Nat /\ Potential(r) \in Nat /\ Potential(t) < Potential(r)
    BY <1>1, <1>6, <1>7, <2>6, <2>7
  <2> QED BY <2>5, <2>8
<1>8. CASE ~(n # 0 /\ n < r.before) /\ HasCycle(g)
  <2>1. PICK v : v = CutVertex(g)
    OBVIOUS
  <2>2. v \in Range(g.vertices) /\ v \in V
    <3>1. v \in Range(g.vertices)
      BY <1>3, <1>8, <2>1, CutVertexOf
    <3> QED BY <1>3, <3>1, GraphType
  <2>3. PICK h : h = SetAside(g, v)
    OBVIOUS
  <2>4. h \in Cutting(V, E)
    BY <1>3, <2>2, <2>3, PutAsideCuts
  <2>5. h \in Graphs(V) /\ Len(h.vertices) < n
    <3>1. Without(g, v, h) /\ h \in Graphs(V)
      BY <1>3, <2>2, <2>3, PutAside
    <3> QED BY <1>4, <2>2, <3>1 DEF Without
  <2>6. PICK m \in Nat : m = Len(h.vertices)
    BY <2>5, GraphType
  <2>7. t = [g |-> h, before |-> n]
    <3>1. ~(g.vertices # << >> /\ Len(g.vertices) < r.before)
      BY <1>4, <1>5, <1>8
    <3>2. h = Cut(g)
      BY <2>1, <2>3 DEF Cut
    <3> QED BY <1>2, <1>4, <1>8, <3>1, <3>2 DEF ReduceStep
  <2>8. t \in Reductions(V, E) /\ t.g = h /\ t.before = n
    BY <2>4, <2>7 DEF Reductions
  <2>9. Potential(t) = 2 * m + (IF m < n THEN 1 ELSE 0)
    BY <2>6, <2>8 DEF Potential
  <2>10. m < n
    BY <2>5, <2>6
  <2>11. Potential(t) \in Nat /\ Potential(r) \in Nat /\ Potential(t) < Potential(r)
    BY <1>1, <1>6, <1>8, <2>9, <2>10
  <2> QED BY <2>8, <2>11
<1>9. CASE ~(n # 0 /\ n < r.before) /\ ~HasCycle(g)
  <2>1. ~(g.vertices # << >> /\ Len(g.vertices) < r.before)
    BY <1>4, <1>5, <1>9
  <2>2. t = r
    BY <1>2, <1>9, <2>1 DEF ReduceStep
  <2>3. Still(r)
    BY <1>2, <1>9, <2>1 DEF Still
  <2>4. Potential(r) \in Nat
    BY <1>1, <1>6
  <2> QED BY <2>2, <2>3, <2>4
<1> QED BY <1>7, <1>8, <1>9

\* The first n steps of the reduction.
ReductionTaken(g, n, it) ==
    /\ it[{}] = [g |-> g, before |-> Len(g.vertices) + 1] /\ Reduced(g) = it[1 .. n].g
    /\ \A s \in SUBSET (1 .. n) : s # {} => it[s] = ReduceStep(it[s \ {Max(s)}])

\* The reduction takes its steps one after the other.
LEMMA ReductionSteps ==
    ASSUME NEW V, NEW E, NEW g \in Cutting(V, E), NEW n, n = 2 * Len(g.vertices) + 1
    PROVE  \E it : ReductionTaken(g, n, it)
<1>. DEFINE D == SUBSET (1 .. n)
            base == [g |-> g, before |-> Len(g.vertices) + 1]
            R == Reductions(V, E)
            F == [a \in R \X (1 .. n) |-> ReduceStep(a[1])]
            h == CHOOSE f : f = [s \in D |-> IF s = {} THEN base ELSE ReduceStep(f[s \ {Max(s)}])]
<1>0. g \in Graphs(V)
  BY DEF Cutting
<1>1. n \in Nat /\ Len(g.vertices) \in Nat
  <2>1. Len(g.vertices) \in Nat
    BY <1>0, GraphType
  <2> QED BY <2>1
<1>2. Reduced(g) = h[1 .. n].g
  <2>1. DOMAIN [k \in 1 .. (2 * Len(g.vertices) + 1) |-> k] = 1 .. n
    OBVIOUS
  <2> QED BY <2>1 DEF Reduced, FoldLeft, MapThenFoldSet
<1>3. F \in [R \X (1 .. n) -> R]
  BY ReduceStepOf
<1>4. PICK f \in [D -> R] : IsIteration(f, F, base, D)
  <2>1. base \in R
    BY <1>1 DEF Reductions
  <2>. HIDE DEF F, base, R
  <2> QED BY <1>1, <1>3, <2>1, IterationExists
<1>5. f = [s \in D |-> IF s = {} THEN base ELSE ReduceStep(f[s \ {Max(s)}])]
  <2>1. ASSUME NEW s \in D, s # {}
        PROVE  F[<<f[s \ {Max(s)}], Max(s)>>] = ReduceStep(f[s \ {Max(s)}])
    <3>1. Max(s) \in 1 .. n /\ s \ {Max(s)} \in D
      BY <1>1, <2>1, LastPlace
    <3>. HIDE DEF D, R
    <3>2. <<f[s \ {Max(s)}], Max(s)>> \in R \X (1 .. n)
      BY <3>1
    <3> QED BY <3>2
  <2>2. f = [s \in D |-> IF s = {} THEN base ELSE F[<<f[s \ {Max(s)}], Max(s)>>]]
    BY <1>4 DEF IsIteration
  <2>. HIDE DEF F, D, base
  <2> QED BY <2>1, <2>2
<1>6. h = [s \in D |-> IF s = {} THEN base ELSE ReduceStep(h[s \ {Max(s)}])]
  <2>. HIDE DEF D, F, base
  <2> QED BY <1>5
<1>. HIDE DEF h
<1>7. ASSUME NEW s \in D, s # {} PROVE h[s] = ReduceStep(h[s \ {Max(s)}])
  <2>. HIDE DEF D, base
  <2> QED BY <1>6, <1>7
<1>8. h[{}] = base
  <2>1. {} \in D
    OBVIOUS
  <2>. HIDE DEF D, base
  <2> QED BY <1>6, <2>1
<1> QED BY <1>2, <1>7, <1>8 DEF ReductionTaken

\* When the reduction ends no cycle is left, and each cycle of E is cut.
LEMMA ReducedOf ==
    ASSUME NEW V, NEW E, NEW g \in Cutting(V, E), NEW q, q = Reduced(g)
    PROVE  q \in Cutting(V, E) /\ ~HasCycle(q)
<1>1. PICK m \in Nat : m = Len(g.vertices)
  <2>1. g \in Graphs(V)
    BY DEF Cutting
  <2> QED BY <2>1, GraphType
<1>2. PICK n \in Nat : n = 2 * m + 1
  OBVIOUS
<1>3. PICK it : ReductionTaken(g, n, it)
  BY <1>1, <1>2, ReductionSteps
<1>. DEFINE State(k) == {r \in Reductions(V, E) : Still(r) \/ Potential(r) =< n - k}
            Good == [k \in 0 .. n |-> State(k)]
<1>4. it[{}] \in Good[0]
  <2>1. PICK r : r = it[{}]
    OBVIOUS
  <2>2. r = [g |-> g, before |-> m + 1]
    BY <1>1, <1>3, <2>1 DEF ReductionTaken
  <2>3. r \in Reductions(V, E) /\ r.g = g /\ r.before = m + 1
    BY <2>2 DEF Reductions
  <2>4. Potential(r) = n
    <3>1. Len(r.g.vertices) = m
      BY <1>1, <2>3
    <3> QED BY <1>2, <2>3, <3>1 DEF Potential
  <2>5. r \in State(0)
    BY <2>3, <2>4
  <2> QED BY <2>1, <2>5
<1>5. ASSUME NEW k \in 0 .. n - 1, it[1 .. k] \in Good[k] PROVE it[1 .. k + 1] \in Good[k + 1]
  <2>1. k \in Nat /\ k \in 0 .. n /\ k + 1 \in 0 .. n /\ 1 .. k + 1 \in SUBSET (1 .. n) /\ k + 1 \in 1 .. n
    OBVIOUS
  <2>2. Max(1 .. k + 1) = k + 1 /\ (1 .. k + 1) \ {k + 1} = 1 .. k /\ 1 .. k + 1 # {}
    BY <2>1, LastOfFirst
  <2>3. PICK r : r = it[1 .. k]
    OBVIOUS
  <2>4. PICK t : t = it[1 .. k + 1]
    OBVIOUS
  <2>5. t = ReduceStep(r)
    <3>1. PICK s \in SUBSET (1 .. n) : s = 1 .. k + 1 /\ s # {}
      BY <2>1, <2>2
    <3>2. it[s] = ReduceStep(it[s \ {Max(s)}])
      BY <1>3, <3>1 DEF ReductionTaken
    <3> QED BY <2>2, <2>3, <2>4, <3>1, <3>2
  <2>6. r \in State(k)
    BY <1>5, <2>1, <2>3
  <2>7. r \in Reductions(V, E) /\ (Still(r) \/ Potential(r) =< n - k)
    BY <2>6
  <2>8. /\ t \in Reductions(V, E) /\ Potential(r) \in Nat /\ Potential(t) \in Nat
        /\ (Still(r) /\ t = r) \/ Potential(t) < Potential(r)
    BY <2>5, <2>7, ReduceStepOf
  <2>9. Still(t) \/ Potential(t) =< n - (k + 1)
    <3>1. CASE Still(r) /\ t = r
      BY <3>1
    <3>2. CASE ~(Still(r) /\ t = r)
      <4>1. Potential(t) < Potential(r)
        BY <2>8, <3>2
      <4>2. CASE Still(r)
        <5>1. t = r
          BY <2>5, <4>2 DEF Still, ReduceStep
        <5> QED BY <3>2, <4>2, <5>1
      <4>3. CASE ~Still(r)
        BY <2>1, <2>7, <2>8, <4>1, <4>3
      <4> QED BY <4>2, <4>3
    <3> QED BY <3>1, <3>2
  <2>10. t \in State(k + 1)
    BY <2>8, <2>9
  <2> QED BY <2>1, <2>4, <2>10
<1>6. it[1 .. n] \in Good[n]
  <2>. HIDE DEF Good
  <2> QED BY <1>4, <1>5, IterationKeeps
<1>7. PICK r : r = it[1 .. n]
  OBVIOUS
<1>8. r \in State(n) /\ n - n = 0
  BY <1>6, <1>7
<1>9. q = r.g
  BY <1>3, <1>7 DEF ReductionTaken
<1>10. r \in Reductions(V, E) /\ (Still(r) \/ Potential(r) =< 0)
  BY <1>8
<1>11. q \in Cutting(V, E) /\ q \in Graphs(V)
  BY <1>9, <1>10 DEF Reductions, Cutting
<1>12. ~HasCycle(q)
  <2>1. CASE Still(r)
    BY <1>9, <2>1 DEF Still
  <2>2. CASE Potential(r) =< 0
    <3>1. PICK l \in Nat : l = Len(q.vertices)
      BY <1>11, GraphType
    <3>2. Potential(r) = 2 * l + (IF l < r.before THEN 1 ELSE 0)
      BY <1>9, <3>1 DEF Potential
    <3>3. l = 0
      BY <2>2, <3>2
    <3>4. Range(q.vertices) = {}
      <4>1. DOMAIN q.vertices = 1 .. Len(q.vertices)
        BY <1>11, GraphType
      <4>2. DOMAIN q.vertices = {}
        BY <3>1, <3>3, <4>1
      <4> QED BY <4>2 DEF Range
    <3> QED BY <3>4, HasCycleOf DEF Cyclic
  <2> QED BY <1>10, <2>1, <2>2
<1> QED BY <1>11, <1>12

\* The feedback vertices of a graph are among its vertices, and no cycle is left without them.
THEOREM FeedbackOf ==
    ASSUME NEW V, NEW g, g.vertices \in Seq(V), g.edges \in Seq(V \X V), V = Range(g.vertices),
           NEW C, C = MinimalSetOfFeedbackVertex(g)
    PROVE  C \subseteq V /\ \A S \in SUBSET V : S \cap C = {} => ~Cyclic(Range(g.edges), S)
<1>0. PICK E : E = Range(g.edges)
  OBVIOUS
<1>1. PICK h : h = [vertices |-> g.vertices, edges |-> g.edges, taken |-> << >>]
  OBVIOUS
<1>2. h.vertices = g.vertices /\ h.edges = g.edges /\ h.taken = << >> /\ h \in Graphs(V)
  BY <1>1 DEF Graphs
<1>3. Range(h.vertices) = V /\ Range(h.edges) = E
  BY <1>0, <1>2
<1>4. h \in Cutting(V, E)
  BY <1>2, <1>3 DEF Cutting
<1>5. PICK q : q = Reduced(h)
  OBVIOUS
<1>6. q \in Cutting(V, E) /\ ~HasCycle(q) /\ q \in Graphs(V)
  <2>1. q \in Cutting(V, E) /\ ~HasCycle(q)
    BY <1>4, <1>5, ReducedOf
  <2> QED BY <2>1 DEF Cutting
<1>7. C = Range(q.taken)
  BY <1>1, <1>5 DEF MinimalSetOfFeedbackVertex
<1>8. ASSUME NEW S \in SUBSET V, S \cap C = {}, Cyclic(E, S) PROVE FALSE
  <2>1. PICK T \in SUBSET (S \cap Range(q.vertices)) : Cyclic(Range(q.edges), T)
    BY <1>6, <1>7, <1>8 DEF Cutting
  <2> QED BY <1>6, <2>1, HasCycleOf
<1>9. C \subseteq V
  BY <1>6, <1>7, GraphType
<1> QED BY <1>0, <1>8, <1>9

-------------------------------------------------------------------------------
(***************************************************************************)
(* The order of a graph without a cycle                                    *)
(***************************************************************************)

\* When each vertex of a finite set comes after another one of the set, there is a cycle in it.
LEMMA NoFirst ==
    ASSUME NEW E, NEW S, IsFiniteSet(S), S # {}, \A v \in S : \E u \in S : <<u, v>> \in E
    PROVE  \E T \in SUBSET S : Cyclic(E, T)
<1>. DEFINE After(R) == R # {} /\ \A v \in R : \E u \in R : <<u, v>> \in E
            Has == {n \in Nat : \A R \in SUBSET S : Cardinality(R) = n /\ After(R) => \E T \in SUBSET R : Cyclic(E, T)}
<1>1. 0 \in Has
  BY NoPart
<1>2. ASSUME NEW n \in Nat, n \in Has PROVE n + 1 \in Has
  <2>. SUFFICES ASSUME NEW R \in SUBSET S, Cardinality(R) = n + 1, After(R)
                PROVE  \E T \in SUBSET R : Cyclic(E, T)
    OBVIOUS
  <2>1. CASE \A v \in R : \E w \in R : <<v, w>> \in E
    <3>1. Cyclic(E, R)
      BY <2>1 DEF Cyclic
    <3> QED BY <3>1
  <2>2. CASE \E v \in R : \A w \in R : <<v, w>> \notin E
    <3>1. PICK v \in R : \A w \in R : <<v, w>> \notin E
      BY <2>2
    <3>2. Cardinality(R \ {v}) = n /\ R \ {v} \in SUBSET S
      <4>1. Cardinality(R \ {v}) = Cardinality(R) - 1 /\ R \ {v} \in SUBSET S
        BY PartOf
      <4> QED BY <4>1
    <3>3. After(R \ {v})
      <4>1. \A x \in R : \E u \in R : u # v /\ <<u, x>> \in E
        BY <3>1
      <4>2. PICK w \in R : w # v
        BY <4>1
      <4>3. R \ {v} # {}
        BY <4>2
      <4>4. ASSUME NEW x \in R \ {v} PROVE \E u \in R \ {v} : <<u, x>> \in E
        BY <4>1
      <4> QED BY <4>3, <4>4
    <3>4. \E T \in SUBSET (R \ {v}) : Cyclic(E, T)
      BY <1>2, <3>2, <3>3
    <3> QED BY <3>4
  <2> QED BY <2>1, <2>2
<1>3. Cardinality(S) \in Nat
  BY PartOf
<1>4. Cardinality(S) \in Has
  <2>. HIDE DEF Has
  <2> QED BY <1>1, <1>2, <1>3, Induction
<1>5. After(S)
  OBVIOUS
<1> QED BY <1>3, <1>4, <1>5

\* The vertices put aside so far come each before those it leads to; the graph holds the others
\* and their edges.
Sorting(V, E) ==
    {h \in Graphs(V) :
       /\ Distinct(h.taken)
       /\ \A x \in V : x \in Range(h.vertices) <=> x \notin Range(h.taken)
       /\ \A e : e \in Range(h.edges) <=> e \in E /\ e[1] \in Range(h.vertices) /\ e[2] \in Range(h.vertices)
       /\ \A j \in DOMAIN h.taken : \A x \in V :
            <<x, h.taken[j]>> \in E => \E i \in DOMAIN h.taken : i < j /\ h.taken[i] = x}

\* A vertex without a predecessor is the next one.
LEMMA SourceSorts ==
    ASSUME NEW V, NEW E \in SUBSET (V \X V), NEW g \in Sorting(V, E), NEW v \in Range(g.vertices),
           Applies("source", g, v)
    PROVE  Applied("source", g, v) \in Sorting(V, E)
<1>1. PICK h : h = Applied("source", g, v)
  OBVIOUS
<1>2. g \in Graphs(V) /\ v \in V /\ h = SetAside(g, v)
  <2>1. g \in Graphs(V)
    BY DEF Sorting
  <2> QED BY <1>1, <2>1, GraphType DEF Applied
<1>3. h \in Graphs(V) /\ Without(g, v, h)
  BY <1>2, PutAside
<1>4. /\ Distinct(g.taken)
      /\ \A x \in V : x \in Range(g.vertices) <=> x \notin Range(g.taken)
      /\ \A e : e \in Range(g.edges) <=> e \in E /\ e[1] \in Range(g.vertices) /\ e[2] \in Range(g.vertices)
      /\ \A j \in DOMAIN g.taken : \A x \in V :
            <<x, g.taken[j]>> \in E => \E i \in DOMAIN g.taken : i < j /\ g.taken[i] = x
  BY DEF Sorting
<1>5. ASSUME NEW x \in V, <<x, v>> \in E PROVE x \in Range(g.taken)
  <2>. SUFFICES ASSUME x \in Range(g.vertices) PROVE FALSE
    BY <1>4
  <2>1. PICK e : e = <<x, v>>
    OBVIOUS
  <2>2. e \in Range(g.edges) /\ e[2] = v
    BY <1>4, <1>5, <2>1
  <2>3. PICK ins : ins = InEdges(g, v)
    OBVIOUS
  <2>4. e \in Range(ins)
    BY <1>2, <2>2, <2>3, EdgesOf
  <2>5. ins = << >>
    BY <2>3 DEF Applies
  <2> QED BY <2>4, <2>5 DEF Range
<1>6. PICK n \in Nat : n = Len(g.taken)
  <2>1. g.taken \in Seq(V)
    BY <1>2, GraphType
  <2> QED BY <2>1
<1>7. /\ DOMAIN g.taken = 1 .. n /\ DOMAIN h.taken = 1 .. n + 1
      /\ h.taken[n + 1] = v /\ \A i \in 1 .. n : h.taken[i] = g.taken[i]
  <2>1. PICK a : a = g.taken
    OBVIOUS
  <2>2. PICK b : b = h.taken
    OBVIOUS
  <2>3. a \in Seq(V) /\ Len(a) = n
    BY <1>2, <1>6, <2>1, GraphType
  <2>4. b = Append(a, v)
    BY <1>3, <2>1, <2>2 DEF Without
  <2>5. /\ DOMAIN a = 1 .. n /\ DOMAIN b = 1 .. n + 1
        /\ b[n + 1] = v /\ \A i \in 1 .. n : b[i] = a[i]
    BY <1>2, <2>3, <2>4
  <2> QED BY <2>1, <2>2, <2>5
<1>8. \A i : i \in 1 .. n + 1 <=> i \in 1 .. n \/ i = n + 1
  OBVIOUS
<1>9. v \notin Range(g.taken)
  BY <1>2, <1>4
<1>10. \A i \in 1 .. n : g.taken[i] \in Range(g.taken)
  BY <1>7 DEF Range
<1>11. Distinct(h.taken)
  <2>. SUFFICES ASSUME NEW i \in 1 .. n + 1, NEW j \in 1 .. n + 1, h.taken[i] = h.taken[j] PROVE i = j
    BY <1>7 DEF Distinct
  <2>1. CASE i \in 1 .. n /\ j \in 1 .. n
    BY <1>4, <1>7, <2>1 DEF Distinct
  <2>2. CASE i \in 1 .. n /\ j = n + 1
    BY <1>7, <1>9, <1>10, <2>2
  <2>3. CASE i = n + 1 /\ j \in 1 .. n
    BY <1>7, <1>9, <1>10, <2>3
  <2> QED BY <1>8, <2>1, <2>2, <2>3
<1>12. ASSUME NEW x \in V PROVE x \in Range(h.vertices) <=> x \notin Range(h.taken)
  BY <1>3, <1>4 DEF Without
<1>13. ASSUME NEW e
       PROVE  e \in Range(h.edges) <=> e \in E /\ e[1] \in Range(h.vertices) /\ e[2] \in Range(h.vertices)
  BY <1>3, <1>4 DEF Without
<1>14. ASSUME NEW j \in DOMAIN h.taken, NEW x \in V, <<x, h.taken[j]>> \in E
       PROVE  \E i \in DOMAIN h.taken : i < j /\ h.taken[i] = x
  <2>1. CASE j \in 1 .. n
    <3>1. PICK i \in 1 .. n : i < j /\ g.taken[i] = x
      BY <1>4, <1>7, <1>14, <2>1
    <3> QED BY <1>7, <1>8, <3>1
  <2>2. CASE j = n + 1
    <3>1. x \in Range(g.taken)
      BY <1>5, <1>7, <1>14, <2>2
    <3>2. PICK i \in 1 .. n : x = g.taken[i]
      BY <1>7, <3>1 DEF Range
    <3>3. i < j /\ i \in DOMAIN h.taken
      BY <1>7, <1>8, <2>2
    <3> QED BY <1>7, <3>2, <3>3
  <2> QED BY <1>7, <1>8, <1>14, <2>1, <2>2
<1>15. h \in Sorting(V, E)
  BY <1>3, <1>11, <1>12, <1>13, <1>14 DEF Sorting
<1> QED BY <1>1, <1>15

\* A walk for the vertices without a predecessor removes one, unless there is a cycle.
LEMMA SourceWalk ==
    ASSUME NEW V, IsFiniteSet(V), NEW E \in SUBSET (V \X V), \A S \in SUBSET V : ~Cyclic(E, S),
           NEW g \in Sorting(V, E), NEW q, q = Walk("source", g)
    PROVE  /\ q \in Sorting(V, E) /\ Len(q.vertices) \in Nat /\ Len(g.vertices) \in Nat
           /\ Len(q.vertices) < Len(g.vertices) \/ (Len(q.vertices) = 0 /\ Len(g.vertices) = 0)
<1>0. Sorting(V, E) \in SUBSET Graphs(V)
  BY DEF Sorting
<1>1. \A h \in Sorting(V, E) : \A v \in Range(h.vertices) : Applies("source", h, v) => Applied("source", h, v) \in Sorting(V, E)
  BY SourceSorts
<1>2. /\ q \in Sorting(V, E) /\ Len(q.vertices) =< Len(g.vertices)
      /\ Len(q.vertices) < Len(g.vertices) \/ \A v \in Range(g.vertices) : ~Applies("source", g, v)
  BY <1>0, <1>1, WalkKeeps
<1>3. g \in Graphs(V) /\ q \in Graphs(V)
  BY <1>0, <1>2
<1>4. Len(q.vertices) \in Nat /\ Len(g.vertices) \in Nat
  BY <1>3, GraphType
<1>5. ASSUME \A v \in Range(g.vertices) : ~Applies("source", g, v) PROVE Len(g.vertices) = 0
  <2>1. PICK S : S = Range(g.vertices)
    OBVIOUS
  <2>2. S \in SUBSET V /\ IsFiniteSet(S)
    <3>1. S \in SUBSET V
      BY <1>3, <2>1, GraphType
    <3> QED BY <3>1, FS_Subset
  <2>3. ASSUME NEW v \in S PROVE \E u \in S : <<u, v>> \in E
    <3>1. PICK ins : ins = InEdges(g, v)
      OBVIOUS
    <3>2. ins # << >>
      BY <1>5, <2>1, <3>1 DEF Applies
    <3>3. ins \in Seq(V \X V) /\ \A e : e \in Range(ins) <=> e \in Range(g.edges) /\ e[2] = v
      BY <1>3, <3>1, EdgesOf
    <3>4. PICK e : e = ins[1]
      OBVIOUS
    <3>5. e \in Range(ins) /\ e \in V \X V
      <4>. DEFINE W == V \X V
      <4>1. ins \in Seq(W)
        BY <3>3
      <4>. HIDE DEF W
      <4>2. 1 \in DOMAIN ins
        BY <3>2, <4>1
      <4>3. e \in W
        BY <3>4, <4>1, <4>2
      <4> QED BY <3>4, <4>2, <4>3 DEF Range, W
    <3>6. e \in Range(g.edges) /\ e[2] = v
      BY <3>3, <3>5
    <3>7. e \in E /\ e[1] \in S
      BY <2>1, <3>6 DEF Sorting
    <3>8. e = <<e[1], v>>
      BY <3>5, <3>6
    <3> QED BY <3>7, <3>8
  <2>4. S = {}
    <3>. SUFFICES ASSUME S # {} PROVE FALSE
      OBVIOUS
    <3>1. PICK T \in SUBSET S : Cyclic(E, T)
      BY <2>2, <2>3, NoFirst
    <3> QED BY <2>2, <3>1
  <2>5. ASSUME Len(g.vertices) # 0 PROVE FALSE
    <3>1. 1 \in 1 .. Len(g.vertices)
      BY <1>4, <2>5
    <3>2. g.vertices[1] \in Range(g.vertices)
      BY <1>3, <3>1, GraphType
    <3> QED BY <2>1, <2>4, <3>2
  <2> QED BY <2>5
<1> QED BY <1>2, <1>4, <1>5

\* The walks for the vertices without a predecessor.
WalksTaken(g, n, it) ==
    /\ it[{}] = g /\ Ordered(g) = it[1 .. n].taken
    /\ \A s \in SUBSET (1 .. n) : s # {} => it[s] = Walk("source", it[s \ {Max(s)}])

\* The walks are taken one after the other.
LEMMA WalksSteps ==
    ASSUME NEW V, IsFiniteSet(V), NEW E \in SUBSET (V \X V), \A S \in SUBSET V : ~Cyclic(E, S),
           NEW g \in Sorting(V, E), NEW n, n = Len(g.vertices)
    PROVE  \E it : WalksTaken(g, n, it)
<1>. DEFINE D == SUBSET (1 .. n)
            R == Sorting(V, E)
            F == [a \in R \X (1 .. n) |-> Walk("source", a[1])]
            h == CHOOSE f : f = [s \in D |-> IF s = {} THEN g ELSE Walk("source", f[s \ {Max(s)}])]
<1>0. g \in Graphs(V)
  BY DEF Sorting
<1>1. n \in Nat /\ DOMAIN g.vertices = 1 .. n
  BY <1>0, GraphType
<1>2. Ordered(g) = h[1 .. n].taken
  BY <1>1 DEF Ordered, FoldLeft, MapThenFoldSet
<1>3. F \in [R \X (1 .. n) -> R]
  BY SourceWalk
<1>4. PICK f \in [D -> R] : IsIteration(f, F, g, D)
  <2>1. g \in R
    OBVIOUS
  <2>. HIDE DEF F, R
  <2> QED BY <1>1, <1>3, <2>1, IterationExists
<1>5. f = [s \in D |-> IF s = {} THEN g ELSE Walk("source", f[s \ {Max(s)}])]
  <2>1. ASSUME NEW s \in D, s # {}
        PROVE  F[<<f[s \ {Max(s)}], Max(s)>>] = Walk("source", f[s \ {Max(s)}])
    <3>1. Max(s) \in 1 .. n /\ s \ {Max(s)} \in D
      BY <1>1, <2>1, LastPlace
    <3>. HIDE DEF D, R
    <3>2. <<f[s \ {Max(s)}], Max(s)>> \in R \X (1 .. n)
      BY <3>1
    <3> QED BY <3>2
  <2>2. f = [s \in D |-> IF s = {} THEN g ELSE F[<<f[s \ {Max(s)}], Max(s)>>]]
    BY <1>4 DEF IsIteration
  <2>. HIDE DEF F, D
  <2> QED BY <2>1, <2>2
<1>6. h = [s \in D |-> IF s = {} THEN g ELSE Walk("source", h[s \ {Max(s)}])]
  <2>. HIDE DEF D, F
  <2> QED BY <1>5
<1>. HIDE DEF h
<1>7. ASSUME NEW s \in D, s # {} PROVE h[s] = Walk("source", h[s \ {Max(s)}])
  <2>. HIDE DEF D
  <2> QED BY <1>6, <1>7
<1>8. h[{}] = g
  <2>1. {} \in D
    OBVIOUS
  <2>. HIDE DEF D
  <2> QED BY <1>6, <2>1
<1> QED BY <1>2, <1>7, <1>8 DEF WalksTaken

\* The vertices each once, before those that they lead to.
InOrder(V, E, q) ==
    /\ q \in Seq(V) /\ Distinct(q) /\ Range(q) = V
    /\ \A i, j \in DOMAIN q : <<q[i], q[j]>> \in E => i < j

\* The vertices of a graph without a cycle are put in such an order.
LEMMA OrderedOf ==
    ASSUME NEW V, IsFiniteSet(V), NEW E \in SUBSET (V \X V), \A S \in SUBSET V : ~Cyclic(E, S),
           NEW vertices \in Seq(V), NEW edges \in Seq(V \X V), Range(vertices) = V, Range(edges) = E,
           NEW q, q = Ordered([vertices |-> vertices, edges |-> edges, taken |-> << >>])
    PROVE  InOrder(V, E, q)
<1>1. PICK g : g = [vertices |-> vertices, edges |-> edges, taken |-> << >>]
  OBVIOUS
<1>2. g \in Graphs(V) /\ g.vertices = vertices /\ g.edges = edges /\ g.taken = << >>
  BY <1>1 DEF Graphs
<1>3. g \in Sorting(V, E)
  <2>1. Range(g.taken) = {} /\ DOMAIN g.taken = {} /\ Distinct(g.taken)
    BY <1>2 DEF Range, Distinct
  <2>2. \A e \in E : e[1] \in V /\ e[2] \in V
    OBVIOUS
  <2> QED BY <1>2, <2>1, <2>2 DEF Sorting
<1>4. PICK n \in Nat : n = Len(g.vertices)
  BY <1>2, GraphType
<1>5. PICK it : WalksTaken(g, n, it)
  BY <1>3, <1>4, WalksSteps
<1>. DEFINE State(k) == {h \in Sorting(V, E) : Len(h.vertices) =< n - k}
            Good == [k \in 0 .. n |-> State(k)]
<1>6. it[{}] \in Good[0]
  BY <1>3, <1>4, <1>5 DEF WalksTaken
<1>7. ASSUME NEW k \in 0 .. n - 1, it[1 .. k] \in Good[k] PROVE it[1 .. k + 1] \in Good[k + 1]
  <2>1. k \in Nat /\ k \in 0 .. n /\ k + 1 \in 0 .. n /\ 1 .. k + 1 \in SUBSET (1 .. n) /\ k + 1 \in 1 .. n
    OBVIOUS
  <2>2. Max(1 .. k + 1) = k + 1 /\ (1 .. k + 1) \ {k + 1} = 1 .. k /\ 1 .. k + 1 # {}
    BY <2>1, LastOfFirst
  <2>3. PICK h : h = it[1 .. k]
    OBVIOUS
  <2>4. PICK t : t = it[1 .. k + 1]
    OBVIOUS
  <2>5. t = Walk("source", h)
    <3>1. PICK s \in SUBSET (1 .. n) : s = 1 .. k + 1 /\ s # {}
      BY <2>1, <2>2
    <3>2. it[s] = Walk("source", it[s \ {Max(s)}])
      BY <1>5, <3>1 DEF WalksTaken
    <3> QED BY <2>2, <2>3, <2>4, <3>1, <3>2
  <2>6. h \in Sorting(V, E) /\ Len(h.vertices) =< n - k
    BY <1>7, <2>1, <2>3
  <2>7. /\ t \in Sorting(V, E) /\ Len(t.vertices) \in Nat /\ Len(h.vertices) \in Nat
        /\ Len(t.vertices) < Len(h.vertices) \/ (Len(t.vertices) = 0 /\ Len(h.vertices) = 0)
    BY <2>5, <2>6, SourceWalk
  <2>8. Len(t.vertices) =< n - (k + 1)
    BY <2>1, <2>6, <2>7
  <2>9. t \in State(k + 1)
    BY <2>7, <2>8
  <2> QED BY <2>1, <2>4, <2>9
<1>8. it[1 .. n] \in Good[n]
  <2>. HIDE DEF Good
  <2> QED BY <1>6, <1>7, IterationKeeps
<1>9. PICK h : h = it[1 .. n]
  OBVIOUS
<1>10. h \in Sorting(V, E) /\ Len(h.vertices) =< n - n
  BY <1>8, <1>9
<1>11. q = h.taken
  BY <1>1, <1>5, <1>9 DEF WalksTaken
<1>12. h \in Graphs(V)
  BY <1>10 DEF Sorting
<1>13. Range(h.vertices) = {}
  <2>1. Len(h.vertices) \in Nat /\ DOMAIN h.vertices = 1 .. Len(h.vertices)
    BY <1>12, GraphType
  <2>2. Len(h.vertices) = 0
    BY <1>10, <2>1
  <2>3. DOMAIN h.vertices = {}
    BY <2>1, <2>2
  <2> QED BY <2>3 DEF Range
<1>14. q \in Seq(V) /\ Distinct(q) /\ Range(q) \subseteq V
  BY <1>10, <1>11, <1>12, GraphType DEF Sorting
<1>15. V \subseteq Range(q)
  BY <1>10, <1>11, <1>13 DEF Sorting
<1>16. ASSUME NEW i \in DOMAIN q, NEW j \in DOMAIN q, <<q[i], q[j]>> \in E PROVE i < j
  <2>1. q[i] \in V
    BY <1>14
  <2>2. PICK k \in DOMAIN q : k < j /\ q[k] = q[i]
    BY <1>10, <1>11, <1>16, <2>1 DEF Sorting
  <2>3. k = i
    BY <1>14, <2>2 DEF Distinct
  <2> QED BY <2>2, <2>3
<1> QED BY <1>14, <1>15, <1>16 DEF InOrder

-------------------------------------------------------------------------------
(***************************************************************************)
(* The order of a component: its recursive vertices, then its feedback vertices *)
(***************************************************************************)

\* A sequence without repetitions is as long as the set of its elements.
LEMMA DistinctLen ==
    ASSUME NEW X, NEW s \in Seq(X), Distinct(s)
    PROVE  IsFiniteSet(Range(s)) /\ Cardinality(Range(s)) = Len(s)
<1>1. PICK n \in Nat : n = Len(s)
  OBVIOUS
<1>2. DOMAIN s = 1 .. n
  BY <1>1
<1>3. PICK T : T = Range(s)
  OBVIOUS
<1>4. PICK f : f = [i \in 1 .. n |-> s[i]]
  OBVIOUS
<1>5. \A x : x \in T <=> \E i \in 1 .. n : x = f[i]
  BY <1>2, <1>3, <1>4 DEF Range
<1>6. f \in [1 .. n -> T] /\ \A i, j \in 1 .. n : f[i] = f[j] => i = j
  BY <1>2, <1>4, <1>5 DEF Distinct
<1>7. f \in Bijection(1 .. n, T)
  <2>1. \A x \in T : \E i \in 1 .. n : f[i] = x
    BY <1>5
  <2>2. f \in Injection(1 .. n, T)
    BY <1>6 DEF Injection, IsInjective
  <2>3. f \in Surjection(1 .. n, T)
    BY <1>6, <2>1 DEF Surjection
  <2> QED BY <2>2, <2>3 DEF Bijection
<1>8. ExistsBijection(1 .. n, T)
  BY <1>7 DEF ExistsBijection
<1>9. IsFiniteSet(1 .. n) /\ Cardinality(1 .. n) = n
  BY FS_Interval
<1>10. IsFiniteSet(T) /\ Cardinality(T) = n
  BY <1>8, <1>9, FS_Bijection
<1> QED BY <1>1, <1>3, <1>10

\* Two sequences without repetitions, and without an element that is in both.
LEMMA ConcatDistinct ==
    ASSUME NEW X, NEW s \in Seq(X), NEW t \in Seq(X), Distinct(s), Distinct(t),
           \A x \in Range(s) : x \notin Range(t)
    PROVE  Distinct(s \o t)
<1>1. PICK q : q = s \o t
  OBVIOUS
<1>2. PICK m \in Nat : m = Len(s)
  OBVIOUS
<1>3. PICK n \in Nat : n = Len(t)
  OBVIOUS
<1>4. /\ DOMAIN s = 1 .. m /\ DOMAIN t = 1 .. n /\ DOMAIN q = 1 .. m + n
      /\ \A i \in 1 .. m : q[i] = s[i]
      /\ \A i \in 1 .. n : q[m + i] = t[i]
  BY <1>1, <1>2, <1>3
<1>5. /\ \A i \in 1 .. m : s[i] \in Range(s)
      /\ \A i \in 1 .. n : t[i] \in Range(t)
  BY <1>4 DEF Range
<1>6. \A i \in 1 .. m + n : i \in 1 .. m \/ \E k \in 1 .. n : i = m + k
  <2>. SUFFICES ASSUME NEW i \in 1 .. m + n, i \notin 1 .. m PROVE \E k \in 1 .. n : i = m + k
    OBVIOUS
  <2>1. i - m \in 1 .. n /\ i = m + (i - m)
    OBVIOUS
  <2> QED BY <2>1
<1>7. ASSUME NEW i \in 1 .. m, NEW k \in 1 .. n PROVE q[i] # q[m + k]
  BY <1>4, <1>5
<1>. SUFFICES ASSUME NEW i \in 1 .. m + n, NEW j \in 1 .. m + n, q[i] = q[j] PROVE i = j
  BY <1>1, <1>4 DEF Distinct
<1>8. CASE i \in 1 .. m /\ j \in 1 .. m
  BY <1>4, <1>8 DEF Distinct
<1>9. CASE i \in 1 .. m /\ j \notin 1 .. m
  BY <1>6, <1>7, <1>9
<1>10. CASE i \notin 1 .. m /\ j \in 1 .. m
  <2>1. PICK k \in 1 .. n : i = m + k
    BY <1>6, <1>10
  <2>2. q[j] # q[m + k]
    BY <1>7, <1>10
  <2> QED BY <2>1, <2>2
<1>11. CASE i \notin 1 .. m /\ j \notin 1 .. m
  <2>1. PICK k \in 1 .. n : i = m + k
    BY <1>6, <1>11
  <2>2. PICK l \in 1 .. n : j = m + l
    BY <1>6, <1>11
  <2>3. t[k] = t[l]
    BY <1>4, <2>1, <2>2
  <2>4. k = l
    BY <1>4, <2>3 DEF Distinct
  <2> QED BY <2>1, <2>2, <2>4
<1> QED BY <1>8, <1>9, <1>10, <1>11

\* The vertices of a component, and the edges between them.
LEMMA ExtractOf ==
    ASSUME NEW V, NEW g, g.vertices \in Seq(V), g.edges \in Seq(V \X V), Distinct(g.vertices),
           NEW C, C \subseteq Range(g.vertices), NEW h, h = ExtractSubgraph(g, C)
    PROVE  /\ h.vertices \in Seq(C) /\ Range(h.vertices) = C /\ Distinct(h.vertices)
           /\ h.edges \in Seq(C \X C)
           /\ \A e : e \in Range(h.edges) <=> e \in Range(g.edges) /\ e[1] \in C /\ e[2] \in C
<1>. DEFINE W == V \X V
<1>1. PICK kept : kept = Those(g.vertices, C)
  OBVIOUS
<1>2. PICK inside : inside = {e \in Range(g.edges) : e[2] \in C}
  OBVIOUS
<1>3. PICK out : out = [i \in DOMAIN kept |-> Those(OutEdges(g, kept[i]), inside)]
  OBVIOUS
<1>4. h.vertices = kept /\ h.edges = FlattenSeq(out)
  BY <1>1, <1>2, <1>3 DEF ExtractSubgraph
<1>5. /\ kept \in Seq(V) /\ Range(kept) = Range(g.vertices) \cap C /\ Distinct(kept)
      /\ DOMAIN kept = 1 .. Len(kept)
  <2>1. kept \in Seq(V) /\ Range(kept) = Range(g.vertices) \cap C /\ Distinct(kept)
    BY <1>1, ThoseOf
  <2> QED BY <2>1
<1>6. Range(kept) = C
  BY <1>5
<1>7. g.edges \in Seq(W)
  OBVIOUS
<1>8. ASSUME NEW v
      PROVE  /\ Those(OutEdges(g, v), inside) \in Seq(W)
             /\ \A e : e \in Range(Those(OutEdges(g, v), inside)) <=> e \in Range(g.edges) /\ e[1] = v /\ e[2] \in C
  <2>. HIDE DEF W
  <2>1. PICK P : P = {e \in Range(g.edges): e[1] = v}
    OBVIOUS
  <2>2. PICK o : o = OutEdges(g, v)
    OBVIOUS
  <2>3. o = Those(g.edges, P)
    BY <2>1, <2>2 DEF OutEdges
  <2>4. o \in Seq(W) /\ Range(o) = Range(g.edges) \cap P
    BY <1>7, <2>3, ThoseOf
  <2>5. PICK q : q = Those(o, inside)
    OBVIOUS
  <2>6. q \in Seq(W) /\ Range(q) = Range(o) \cap inside
    BY <2>4, <2>5, ThoseOf
  <2>7. \A e : e \in Range(q) <=> e \in Range(g.edges) /\ e[1] = v /\ e[2] \in C
    BY <1>2, <2>1, <2>4, <2>6
  <2> QED BY <2>2, <2>5, <2>6, <2>7
<1>9. out \in Seq(Seq(W)) /\ DOMAIN out = DOMAIN kept /\ Len(out) = Len(kept)
  <2>. HIDE DEF W
  <2>1. \A i \in 1 .. Len(kept) : Those(OutEdges(g, kept[i]), inside) \in Seq(W)
    BY <1>8
  <2>2. Len(kept) \in Nat
    BY <1>5
  <2> QED BY <1>3, <1>5, <2>1, <2>2
<1>10. ASSUME NEW e
       PROVE  e \in Range(FlattenSeq(out)) <=> e \in Range(g.edges) /\ e[1] \in C /\ e[2] \in C
  <2>. HIDE DEF W
  <2>1. e \in Range(FlattenSeq(out)) <=> \E k \in 1 .. Len(out) : e \in Range(out[k])
    BY <1>9, FlattenRange
  <2>2. ASSUME NEW k \in 1 .. Len(kept)
        PROVE  e \in Range(out[k]) <=> e \in Range(g.edges) /\ e[1] = kept[k] /\ e[2] \in C
    <3>1. out[k] = Those(OutEdges(g, kept[k]), inside)
      BY <1>3, <1>5
    <3> QED BY <1>8, <3>1
  <2>3. \A x : x \in C <=> \E k \in 1 .. Len(kept) : x = kept[k]
    BY <1>5, <1>6 DEF Range
  <2> QED BY <1>9, <2>1, <2>2, <2>3
<1>11. kept \in Seq(C)
  <2>1. \A i \in 1 .. Len(kept) : kept[i] \in C
    BY <1>5, <1>6 DEF Range
  <2> QED BY <1>5, <2>1
<1>12. FlattenSeq(out) \in Seq(C \X C)
  <2>. HIDE DEF W
  <2>1. PICK s : s = FlattenSeq(out)
    OBVIOUS
  <2>2. s \in Seq(W) /\ DOMAIN s = 1 .. Len(s) /\ Len(s) \in Nat
    BY <1>9, <2>1, FlattenType
  <2>3. ASSUME NEW i \in 1 .. Len(s) PROVE s[i] \in C \X C
    <3>1. s[i] \in Range(s) /\ s[i] \in W
      BY <2>2 DEF Range
    <3>2. PICK e : e = s[i]
      OBVIOUS
    <3>3. e \in W /\ e[1] \in C /\ e[2] \in C
      BY <1>10, <2>1, <3>1, <3>2
    <3> QED BY <3>2, <3>3 DEF W
  <2> QED BY <2>1, <2>2, <2>3
<1> QED BY <1>4, <1>5, <1>6, <1>10, <1>11, <1>12

\* The recursive vertices of a component, in an order in which they can be computed.
THEOREM RecursiveOf ==
    ASSUME NEW C, IsFiniteSet(C), NEW g, g.vertices \in Seq(C), g.edges \in Seq(C \X C), C = Range(g.vertices),
           NEW F, F = MinimalSetOfFeedbackVertex(g),
           NEW q, q = ReorderTheRecursiveVariables(g, F)
    PROVE  /\ F \subseteq C
           /\ q \in Seq(C) /\ Distinct(q) /\ Range(q) = C \ F
           /\ \A i, j \in DOMAIN q : <<q[i], q[j]>> \in Range(g.edges) => i < j
<1>1. F \subseteq C /\ \A S \in SUBSET C : S \cap F = {} => ~Cyclic(Range(g.edges), S)
  BY FeedbackOf
<1>2. PICK left : left = C \ F
  OBVIOUS
<1>3. PICK P : P = {e \in Range(g.edges): {e[1], e[2]} \subseteq left}
  OBVIOUS
<1>4. PICK vertices : vertices = Those(g.vertices, left)
  OBVIOUS
<1>5. PICK edges : edges = Those(g.edges, P)
  OBVIOUS
<1>6. vertices \in Seq(left) /\ Range(vertices) = left
  <2>1. vertices \in Seq(C) /\ Range(vertices) = C \cap left
    BY <1>4, ThoseOf
  <2>2. Range(vertices) = left
    BY <1>2, <2>1
  <2>3. DOMAIN vertices = 1 .. Len(vertices) /\ Len(vertices) \in Nat
    BY <2>1
  <2>4. \A i \in 1 .. Len(vertices) : vertices[i] \in left
    BY <2>2, <2>3 DEF Range
  <2> QED BY <2>1, <2>2, <2>3, <2>4
<1>7. edges \in Seq(left \X left) /\ Range(edges) = P /\ P \in SUBSET (left \X left)
  <2>. DEFINE W == C \X C
  <2>1. g.edges \in Seq(W)
    OBVIOUS
  <2>. HIDE DEF W
  <2>2. edges \in Seq(W) /\ Range(edges) = Range(g.edges) \cap P
    BY <1>5, <2>1, ThoseOf
  <2>3. Range(edges) = P
    BY <1>3, <2>2
  <2>4. DOMAIN edges = 1 .. Len(edges) /\ Len(edges) \in Nat
    BY <2>2
  <2>5. ASSUME NEW i \in 1 .. Len(edges) PROVE edges[i] \in left \X left
    <3>1. PICK e : e = edges[i]
      OBVIOUS
    <3>2. e \in W
      BY <2>2, <2>4, <3>1
    <3>4. e \in Range(edges)
      BY <2>4, <3>1 DEF Range
    <3>5. e \in P
      BY <2>3, <3>4
    <3>3. e[1] \in left /\ e[2] \in left
      BY <1>3, <3>5
    <3> QED BY <3>1, <3>2, <3>3 DEF W
  <2>6. edges \in Seq(left \X left)
    BY <2>2, <2>4, <2>5
  <2>7. P \in SUBSET (left \X left)
    BY <2>3, <2>4, <2>5 DEF Range
  <2> QED BY <2>3, <2>6, <2>7
<1>8. ASSUME NEW S \in SUBSET left, Cyclic(P, S) PROVE FALSE
  <2>1. S \in SUBSET C /\ S \cap F = {}
    BY <1>2
  <2>2. Cyclic(Range(g.edges), S)
    BY <1>3, <1>8 DEF Cyclic
  <2> QED BY <1>1, <2>1, <2>2
<1>9. IsFiniteSet(left)
  BY <1>2, FS_Subset
<1>10. q = Ordered([vertices |-> vertices, edges |-> edges, taken |-> << >>])
  BY <1>2, <1>3, <1>4, <1>5 DEF ReorderTheRecursiveVariables
<1>11. /\ q \in Seq(left) /\ Distinct(q) /\ Range(q) = left
       /\ \A i, j \in DOMAIN q : <<q[i], q[j]>> \in P => i < j
  <2>1. \A S \in SUBSET left : ~Cyclic(P, S)
    BY <1>8
  <2>2. P \in SUBSET (left \X left) /\ vertices \in Seq(left) /\ edges \in Seq(left \X left)
    BY <1>6, <1>7
  <2>3. Range(vertices) = left /\ Range(edges) = P
    BY <1>6, <1>7
  <2>4. InOrder(left, P, q)
    BY <1>9, <1>10, <2>1, <2>2, <2>3, OrderedOf
  <2> QED BY <2>4 DEF InOrder
<1>12. DOMAIN q = 1 .. Len(q) /\ Len(q) \in Nat /\ \A i \in 1 .. Len(q) : q[i] \in left
  BY <1>11
<1>13. q \in Seq(C)
  BY <1>2, <1>11, <1>12
<1>14. ASSUME NEW i \in DOMAIN q, NEW j \in DOMAIN q, <<q[i], q[j]>> \in Range(g.edges) PROVE i < j
  <2>1. PICK e : e = <<q[i], q[j]>>
    OBVIOUS
  <2>2. e[1] \in left /\ e[2] \in left
    BY <1>12, <2>1
  <2>3. e \in P
    BY <1>3, <1>14, <2>1, <2>2
  <2> QED BY <1>11, <2>1, <2>3
<1> QED BY <1>1, <1>2, <1>11, <1>13, <1>14

\* The variables of a component pass after pass: each once.
LEMMA PassesOf ==
    ASSUME NEW C, NEW s \in Seq(C), Distinct(s), NEW variables, NEW q, q = InPasses(s, variables)
    PROVE  /\ q \in Seq(C) /\ Distinct(q) /\ Range(q) = Range(s)
           /\ (\A v \in Range(s) : Pass(variables[vars[v + prologue]]) = 0) => q = s
<1>. DEFINE p(v) == Pass(variables[vars[v + prologue]])
            P(k) == {i \in Range(s) : p(i) = k}
<1>1. \A v : p(v) \in {0, 1, 2, 3}
  BY DEF Pass
<1>2. PICK a : a = InPass(0, s, variables)
  OBVIOUS
<1>3. PICK b : b = InPass(1, s, variables)
  OBVIOUS
<1>4. PICK c : c = InPass(2, s, variables)
  OBVIOUS
<1>5. PICK d : d = InPass(3, s, variables)
  OBVIOUS
<1>6. a = Those(s, P(0)) /\ b = Those(s, P(1)) /\ c = Those(s, P(2)) /\ d = Those(s, P(3))
  BY <1>2, <1>3, <1>4, <1>5 DEF InPass
<1>. HIDE DEF P
<1>7. /\ a \in Seq(C) /\ Distinct(a) /\ Range(a) = Range(s) \cap P(0) /\ (Range(s) \subseteq P(0) => a = s)
      /\ b \in Seq(C) /\ Distinct(b) /\ Range(b) = Range(s) \cap P(1)
      /\ c \in Seq(C) /\ Distinct(c) /\ Range(c) = Range(s) \cap P(2)
      /\ d \in Seq(C) /\ Distinct(d) /\ Range(d) = Range(s) \cap P(3)
  BY <1>6, ThoseOf
<1>. HIDE DEF p
<1>8. /\ \A x : x \in Range(a) <=> x \in Range(s) /\ p(x) = 0
      /\ \A x : x \in Range(b) <=> x \in Range(s) /\ p(x) = 1
      /\ \A x : x \in Range(c) <=> x \in Range(s) /\ p(x) = 2
      /\ \A x : x \in Range(d) <=> x \in Range(s) /\ p(x) = 3
  BY <1>7 DEF P
<1>9. PICK ab : ab = a \o b
  OBVIOUS
<1>10. ab \in Seq(C) /\ Distinct(ab) /\ \A x : x \in Range(ab) <=> x \in Range(a) \/ x \in Range(b)
  <2>1. ab \in Seq(C) /\ \A x : x \in Range(ab) <=> x \in Range(a) \/ x \in Range(b)
    BY <1>7, <1>9, ConcatRange
  <2>2. \A x \in Range(a) : x \notin Range(b)
    BY <1>8
  <2> QED BY <1>7, <1>9, <2>1, <2>2, ConcatDistinct
<1>11. PICK abc : abc = ab \o c
  OBVIOUS
<1>12. abc \in Seq(C) /\ Distinct(abc) /\ \A x : x \in Range(abc) <=> x \in Range(ab) \/ x \in Range(c)
  <2>1. abc \in Seq(C) /\ \A x : x \in Range(abc) <=> x \in Range(ab) \/ x \in Range(c)
    BY <1>7, <1>10, <1>11, ConcatRange
  <2>2. \A x \in Range(ab) : x \notin Range(c)
    BY <1>8, <1>10
  <2> QED BY <1>7, <1>10, <1>11, <2>1, <2>2, ConcatDistinct
<1>13. q = abc \o d
  BY <1>2, <1>3, <1>4, <1>5, <1>7, <1>9, <1>11 DEF InPasses
<1>14. q \in Seq(C) /\ Distinct(q) /\ \A x : x \in Range(q) <=> x \in Range(abc) \/ x \in Range(d)
  <2>1. q \in Seq(C) /\ \A x : x \in Range(q) <=> x \in Range(abc) \/ x \in Range(d)
    BY <1>7, <1>12, <1>13, ConcatRange
  <2>2. \A x \in Range(abc) : x \notin Range(d)
    BY <1>8, <1>10, <1>12
  <2> QED BY <1>7, <1>12, <1>13, <2>1, <2>2, ConcatDistinct
<1>15. Range(q) = Range(s)
  <2>1. \A x : x \in Range(q) <=> x \in Range(s)
    BY <1>1, <1>8, <1>10, <1>12, <1>14 DEF p
  <2> QED BY <2>1
<1>16. ASSUME \A v \in Range(s) : p(v) = 0 PROVE q = s
  <2>1. a = s
    BY <1>7, <1>16 DEF P
  <2>2. Range(b) = {} /\ Range(c) = {} /\ Range(d) = {}
    BY <1>8, <1>16
  <2>3. ASSUME NEW t \in Seq(C), Range(t) = {} PROVE t = << >>
    <3>1. DOMAIN t = 1 .. Len(t) /\ Len(t) \in Nat
      OBVIOUS
    <3>2. ASSUME Len(t) # 0 PROVE FALSE
      <4>1. 1 \in DOMAIN t
        BY <3>1, <3>2
      <4> QED BY <2>3, <4>1 DEF Range
    <3> QED BY <3>1, <3>2
  <2>4. b = << >> /\ c = << >> /\ d = << >>
    BY <1>7, <2>2, <2>3
  <2> QED BY <1>9, <1>11, <1>13, <2>1, <2>4
<1> QED BY <1>14, <1>15, <1>16 DEF p

\* The vertices of a component are put in an order that can be computed: the first ones lead only
\* to later ones, if each vertex that is not forced to be a feedback variable by a loop is static.
Solvable(C, E, c) ==
    /\ c.order \in Seq(C) /\ Distinct(c.order) /\ Range(c.order) = C
    /\ c.size = Len(c.order) /\ c.mfs \in 0 .. c.size
    /\ \A i, j \in 1 .. c.size - c.mfs : <<c.order[i], c.order[j]>> \in E => i < j

\* What is computed for a component.
LEMMA ComponentOf ==
    ASSUME NEW V, NEW g, g.vertices \in Seq(V), g.edges \in Seq(V \X V), Distinct(g.vertices),
           NEW C, C \subseteq Range(g.vertices), NEW variables,
           \A v \in C : <<v, v>> \in Range(g.edges) \/ Pass(variables[vars[v + prologue]]) = 0,
           NEW h, h = ExtractSubgraph(g, C),
           NEW c, c = OrderedComponent(h, MinimalSetOfFeedbackVertex(h), variables)
    PROVE  Solvable(C, Range(g.edges), c)
<1>1. /\ h.vertices \in Seq(C) /\ Range(h.vertices) = C /\ Distinct(h.vertices)
      /\ h.edges \in Seq(C \X C)
      /\ \A e : e \in Range(h.edges) <=> e \in Range(g.edges) /\ e[1] \in C /\ e[2] \in C
  BY ExtractOf
<1>2. IsFiniteSet(C) /\ Cardinality(C) = Len(h.vertices)
  BY <1>1, DistinctLen
<1>3. PICK F : F = MinimalSetOfFeedbackVertex(h)
  OBVIOUS
<1>4. PICK r : r = ReorderTheRecursiveVariables(h, F)
  OBVIOUS
<1>5. /\ F \subseteq C
      /\ r \in Seq(C) /\ Distinct(r) /\ Range(r) = C \ F
      /\ \A i, j \in DOMAIN r : <<r[i], r[j]>> \in Range(h.edges) => i < j
  BY <1>1, <1>2, <1>3, <1>4, RecursiveOf
<1>6. PICK s : s = Those(h.vertices, F)
  OBVIOUS
<1>7. s \in Seq(C) /\ Distinct(s) /\ Range(s) = F
  <2>1. s \in Seq(C) /\ Distinct(s) /\ Range(s) = C \cap F
    BY <1>1, <1>6, ThoseOf
  <2> QED BY <1>5, <2>1
<1>8. /\ DOMAIN r = 1 .. Len(r) /\ Len(r) \in Nat
      /\ \A i \in 1 .. Len(r) : r[i] \in C /\ r[i] \in Range(r)
  BY <1>5 DEF Range
<1>9. ASSUME NEW i \in 1 .. Len(r), NEW j \in 1 .. Len(r), <<r[i], r[j]>> \in Range(g.edges) PROVE i < j
  <2>1. PICK e : e = <<r[i], r[j]>>
    OBVIOUS
  <2>2. e[1] \in C /\ e[2] \in C
    BY <1>8, <2>1
  <2> QED BY <1>1, <1>5, <1>8, <1>9, <2>1, <2>2
<1>10. \A v \in Range(r) : Pass(variables[vars[v + prologue]]) = 0
  <2>. SUFFICES ASSUME NEW v \in Range(r), <<v, v>> \in Range(g.edges) PROVE FALSE
    BY <1>5
  <2>1. PICK i \in 1 .. Len(r) : v = r[i]
    BY <1>8 DEF Range
  <2>2. i < i
    BY <1>9, <2>1
  <2> QED BY <2>2
<1>11. PICK p : p = InPasses(s, variables)
  OBVIOUS
<1>12. p \in Seq(C) /\ Distinct(p) /\ Range(p) = F
  BY <1>7, <1>11, PassesOf
<1>13. InPasses(r, variables) = r
  <2>1. PICK t : t = InPasses(r, variables)
    OBVIOUS
  <2>2. t = r
    BY <1>5, <1>10, <2>1, PassesOf
  <2> QED BY <2>1, <2>2
<1>14. c.order = r \o p /\ c.size = Len(h.vertices) /\ c.mfs = Cardinality(F)
  BY <1>3, <1>4, <1>6, <1>11, <1>13 DEF OrderedComponent
<1>15. PICK o : o = r \o p
  OBVIOUS
<1>16. o \in Seq(C) /\ Distinct(o) /\ Range(o) = C
  <2>1. o \in Seq(C) /\ \A x : x \in Range(o) <=> x \in Range(r) \/ x \in Range(p)
    BY <1>5, <1>12, <1>15, ConcatRange
  <2>2. \A x \in Range(r) : x \notin Range(p)
    BY <1>5, <1>12
  <2>3. Distinct(o)
    BY <1>5, <1>12, <1>15, <2>2, ConcatDistinct
  <2>4. Range(o) = C
    BY <1>5, <1>12, <2>1
  <2> QED BY <2>1, <2>3, <2>4
<1>17. Len(o) = Cardinality(C)
  BY <1>16, DistinctLen
<1>18. Len(p) = Cardinality(F) /\ Len(p) \in Nat
  BY <1>12, DistinctLen
<1>19. Len(o) = Len(r) + Len(p) /\ \A i \in 1 .. Len(r) : o[i] = r[i]
  BY <1>5, <1>12, <1>15
<1>20. c.size = Len(o) /\ c.mfs = Len(p) /\ c.order = o
  BY <1>2, <1>14, <1>15, <1>17, <1>18
<1>21. c.mfs \in 0 .. c.size /\ c.size - c.mfs = Len(r)
  BY <1>8, <1>18, <1>19, <1>20
<1>22. ASSUME NEW i \in 1 .. Len(r), NEW j \in 1 .. Len(r), <<o[i], o[j]>> \in Range(g.edges) PROVE i < j
  <2>1. o[i] = r[i] /\ o[j] = r[j]
    BY <1>19
  <2> QED BY <1>9, <1>22, <2>1
<1> QED BY <1>16, <1>20, <1>21, <1>22 DEF Solvable

-------------------------------------------------------------------------------
(***************************************************************************)
(* The components one after the other                                      *)
(***************************************************************************)

\* What the edges lead to from the vertices of t.
LedTo(edges, t) == t \cup {e[2] : e \in {d \in edges : d[1] \in t}}

\* The vertices that are reached, step by step.
ReachTaken(edges, s, m, it) ==
    /\ it[{}] = s /\ Reached(edges, s) = it[1 .. m]
    /\ \A u \in SUBSET (1 .. m) : u # {} => it[u] = LedTo(edges, it[u \ {Max(u)}])

\* The steps are taken one after the other.
LEMMA ReachSteps ==
    ASSUME NEW m \in Nat, Middle = 1 .. m, NEW edges \in SUBSET (Middle \X Middle), NEW s \in SUBSET Middle
    PROVE  \E it : ReachTaken(edges, s, m, it)
<1>. DEFINE D == SUBSET (1 .. m)
            R == SUBSET (1 .. m)
            F == [a \in R \X (1 .. m) |-> LedTo(edges, a[1])]
            h == CHOOSE f : f = [u \in D |-> IF u = {} THEN s
                                             ELSE f[u \ {Max(u)}] \cup {e[2] : e \in {d \in edges : d[1] \in f[u \ {Max(u)}]}}]
<1>1. Reached(edges, s) = h[1 .. m]
  BY DEF Reached, FoldLeft, MapThenFoldSet
<1>2. F \in [R \X (1 .. m) -> R]
  <2>. SUFFICES ASSUME NEW t \in R PROVE LedTo(edges, t) \in R
    OBVIOUS
  <2>1. \A e \in edges : e[2] \in 1 .. m
    OBVIOUS
  <2> QED BY <2>1 DEF LedTo
<1>3. PICK f \in [D -> R] : IsIteration(f, F, s, D)
  <2>1. s \in R
    OBVIOUS
  <2>. HIDE DEF F, R
  <2> QED BY <1>2, <2>1, IterationExists
<1>4. f = [u \in D |-> IF u = {} THEN s
                       ELSE f[u \ {Max(u)}] \cup {e[2] : e \in {d \in edges : d[1] \in f[u \ {Max(u)}]}}]
  <2>1. ASSUME NEW u \in D, u # {}
        PROVE  F[<<f[u \ {Max(u)}], Max(u)>>]
                 = f[u \ {Max(u)}] \cup {e[2] : e \in {d \in edges : d[1] \in f[u \ {Max(u)}]}}
    <3>1. Max(u) \in 1 .. m /\ u \ {Max(u)} \in D
      BY <2>1, LastPlace
    <3>. HIDE DEF D, R
    <3>2. <<f[u \ {Max(u)}], Max(u)>> \in R \X (1 .. m)
      BY <3>1
    <3> QED BY <3>2 DEF LedTo
  <2>2. f = [u \in D |-> IF u = {} THEN s ELSE F[<<f[u \ {Max(u)}], Max(u)>>]]
    BY <1>3 DEF IsIteration
  <2>. HIDE DEF F, D
  <2> QED BY <2>1, <2>2
<1>5. h = [u \in D |-> IF u = {} THEN s
                       ELSE h[u \ {Max(u)}] \cup {e[2] : e \in {d \in edges : d[1] \in h[u \ {Max(u)}]}}]
  <2>. HIDE DEF D, F
  <2> QED BY <1>4
<1>. HIDE DEF h
<1>6. ASSUME NEW u \in D, u # {} PROVE h[u] = LedTo(edges, h[u \ {Max(u)}])
  <2>. HIDE DEF D
  <2> QED BY <1>5, <1>6 DEF LedTo
<1>7. h[{}] = s
  <2>1. {} \in D
    OBVIOUS
  <2>. HIDE DEF D
  <2> QED BY <1>5, <2>1
<1> QED BY <1>1, <1>6, <1>7 DEF ReachTaken

\* A set that no edge leaves.
Closed(edges, t) == \A e \in edges : e[1] \in t => e[2] \in t

\* q is the least part of the middle with s that no edge leaves.
Reaches(edges, s, q) ==
    /\ q \in SUBSET Middle /\ s \subseteq q /\ Closed(edges, q)
    /\ \A T : s \subseteq T /\ Closed(edges, T) => q \subseteq T

\* What Reached returns.
LEMMA ReachedOf ==
    ASSUME NEW m \in Nat, Middle = 1 .. m, NEW edges \in SUBSET (Middle \X Middle), NEW s \in SUBSET Middle,
           NEW q, q = Reached(edges, s)
    PROVE  Reaches(edges, s, q)
<1>. DEFINE S == 1 .. m
            State(k) == {t \in SUBSET S : /\ s \subseteq t
                                          /\ \A T : s \subseteq T /\ Closed(edges, T) => t \subseteq T
                                          /\ Closed(edges, t) \/ Cardinality(t) >= k}
            Good == [k \in 0 .. m |-> State(k)]
<1>0. IsFiniteSet(S) /\ Cardinality(S) = m
  BY FS_Interval
<1>1. PICK it : ReachTaken(edges, s, m, it)
  BY ReachSteps
<1>2. \A t \in SUBSET S : IsFiniteSet(t) /\ Cardinality(t) \in Nat /\ Cardinality(t) =< m
  <2>. SUFFICES ASSUME NEW t \in SUBSET S PROVE IsFiniteSet(t) /\ Cardinality(t) \in Nat /\ Cardinality(t) =< m
    OBVIOUS
  <2>. HIDE DEF S
  <2>1. IsFiniteSet(t) /\ Cardinality(t) \in Nat
    BY <1>0, PartOf
  <2>2. Cardinality(t) =< m
    BY <1>0, FS_Subset
  <2> QED BY <2>1, <2>2
<1>3. it[{}] \in Good[0]
  <2>1. it[{}] = s
    BY <1>1 DEF ReachTaken
  <2>2. s \in SUBSET S /\ Cardinality(s) >= 0
    BY <1>2
  <2>3. s \in State(0)
    BY <2>2
  <2> QED BY <2>1, <2>3
<1>4. ASSUME NEW k \in 0 .. m - 1, it[1 .. k] \in Good[k] PROVE it[1 .. k + 1] \in Good[k + 1]
  <2>1. k \in Nat /\ k \in 0 .. m /\ k + 1 \in 0 .. m /\ 1 .. k + 1 \in SUBSET (1 .. m)
    OBVIOUS
  <2>2. Max(1 .. k + 1) = k + 1 /\ (1 .. k + 1) \ {k + 1} = 1 .. k /\ 1 .. k + 1 # {}
    BY <2>1, LastOfFirst
  <2>3. PICK t : t = it[1 .. k]
    OBVIOUS
  <2>4. PICK r : r = it[1 .. k + 1]
    OBVIOUS
  <2>5. r = LedTo(edges, t)
    <3>1. PICK u \in SUBSET (1 .. m) : u = 1 .. k + 1 /\ u # {}
      BY <2>1, <2>2
    <3>2. it[u] = LedTo(edges, it[u \ {Max(u)}])
      BY <1>1, <3>1 DEF ReachTaken
    <3> QED BY <2>2, <2>3, <2>4, <3>1, <3>2
  <2>6. /\ t \in SUBSET S /\ s \subseteq t
        /\ \A T : s \subseteq T /\ Closed(edges, T) => t \subseteq T
        /\ Closed(edges, t) \/ Cardinality(t) >= k
    BY <1>4, <2>1, <2>3
  <2>7. \A x : x \in r <=> x \in t \/ \E e \in edges : e[1] \in t /\ x = e[2]
    BY <2>5 DEF LedTo
  <2>8. r \in SUBSET S /\ s \subseteq r /\ t \subseteq r
    <3>1. \A e \in edges : e[2] \in S
      OBVIOUS
    <3>2. t \subseteq S /\ s \subseteq t
      BY <2>6
    <3>. HIDE DEF S
    <3>3. ASSUME NEW x \in r PROVE x \in S
      <4>1. CASE x \in t
        BY <3>2, <4>1
      <4>2. CASE \E e \in edges : e[1] \in t /\ x = e[2]
        <5>1. PICK e \in edges : e[1] \in t /\ x = e[2]
          BY <4>2
        <5>2. e[2] \in S
          BY <3>1
        <5> QED BY <5>1, <5>2
      <4> QED BY <2>7, <4>1, <4>2
    <3>4. \A x : x \in t => x \in r
      BY <2>7, Zenon
    <3> QED BY <3>2, <3>3, <3>4
  <2>9. ASSUME NEW T, s \subseteq T, Closed(edges, T) PROVE r \subseteq T
    <3>1. t \subseteq T
      BY <2>6, <2>9
    <3>2. ASSUME NEW x \in r PROVE x \in T
      <4>1. CASE x \in t
        BY <3>1, <4>1
      <4>2. CASE \E e \in edges : e[1] \in t /\ x = e[2]
        <5>1. PICK e \in edges : e[1] \in t /\ x = e[2]
          BY <4>2
        <5>2. e[1] \in T
          BY <3>1, <5>1
        <5>3. e[2] \in T
          BY <2>9, <5>2 DEF Closed
        <5> QED BY <5>1, <5>3
      <4> QED BY <2>7, <4>1, <4>2
    <3> QED BY <3>2
  <2>10. CASE r = t
    <3>1. Closed(edges, r)
      BY <2>7, <2>10 DEF Closed
    <3>2. r \in State(k + 1)
      BY <2>8, <2>9, <3>1
    <3> QED BY <2>1, <2>4, <3>2
  <2>11. CASE r # t
    <3>1. PICK x \in r : x \notin t
      BY <2>8, <2>11
    <3>2. PICK e \in edges : e[1] \in t /\ x = e[2]
      BY <2>7, <3>1
    <3>3. Cardinality(t) >= k
      BY <2>6, <3>1, <3>2 DEF Closed
    <3>4. t \subseteq r \ {x}
      BY <2>8, <3>1
    <3>5. Cardinality(r \ {x}) = Cardinality(r) - 1 /\ r \ {x} \in SUBSET S
      <4>. HIDE DEF S
      <4> QED BY <1>0, <2>8, <3>1, PartOf
    <3>6. Cardinality(t) =< Cardinality(r \ {x})
      <4>1. IsFiniteSet(r \ {x})
        BY <1>2, <3>5
      <4> QED BY <3>4, <4>1, FS_Subset
    <3>7. Cardinality(r) >= k + 1
      <4>1. Cardinality(r) \in Nat /\ Cardinality(t) \in Nat
        BY <1>2, <2>6, <2>8
      <4> QED BY <2>1, <3>3, <3>5, <3>6, <4>1
    <3>8. r \in State(k + 1)
      BY <2>8, <2>9, <3>7
    <3> QED BY <2>1, <2>4, <3>8
  <2> QED BY <2>10, <2>11
<1>5. it[1 .. m] \in Good[m]
  <2>. HIDE DEF Good
  <2> QED BY <1>3, <1>4, IterationKeeps
<1>6. q = it[1 .. m]
  BY <1>1 DEF ReachTaken
<1>7. q \in State(m)
  BY <1>5, <1>6
<1>8. ASSUME Cardinality(q) >= m PROVE Closed(edges, q)
  <2>1. Cardinality(q) = m
    BY <1>2, <1>7, <1>8
  <2>2. q = S
    <3>1. q \in SUBSET S
      BY <1>7
    <3>. HIDE DEF S
    <3> QED BY <1>0, <2>1, <3>1, FS_Subset
  <2> QED BY <2>2 DEF Closed
<1>9. Closed(edges, q)
  BY <1>7, <1>8
<1> QED BY <1>7, <1>9 DEF Reaches

\* The strong components are parts of the middle, and each vertex is in one of them.
LEMMA ComponentsOf ==
    ASSUME NEW m \in Nat, Middle = 1 .. m, NEW edges \in SUBSET (Middle \X Middle), NEW Cs, Cs = StrongComponents(edges)
    PROVE  /\ IsFiniteSet(Cs) /\ Cs \in SUBSET (SUBSET Middle)
           /\ \A v \in Middle : \E C \in Cs : v \in C
           /\ \A C, D \in Cs : \A v \in C : v \in D => C = D
<1>1. PICK R : R = [v \in Middle |-> Reached(edges, {v})]
  OBVIOUS
<1>2. ASSUME NEW v \in Middle
      PROVE  /\ R[v] \in SUBSET Middle /\ v \in R[v] /\ Closed(edges, R[v])
             /\ \A T : v \in T /\ Closed(edges, T) => R[v] \subseteq T
  <2>1. PICK s : s = {v}
    OBVIOUS
  <2>2. PICK q : q = Reached(edges, s)
    OBVIOUS
  <2>3. s \in SUBSET Middle
    BY <2>1
  <2>4. Reaches(edges, s, q)
    BY <2>2, <2>3, ReachedOf
  <2>5. R[v] = q
    BY <1>1, <2>1, <2>2
  <2> QED BY <2>1, <2>4, <2>5 DEF Reaches
<1>3. ASSUME NEW v \in Middle, NEW w \in R[v] PROVE R[w] \subseteq R[v] /\ w \in Middle
  <2>1. w \in Middle
    BY <1>2
  <2> QED BY <1>2, <1>3, <2>1
<1>4. PICK K : K = [v \in Middle |-> {w \in Middle : w \in R[v] /\ v \in R[w]}]
  OBVIOUS
<1>5. \A C : C \in Cs <=> \E v \in Middle : C = K[v]
  <2>1. ASSUME NEW v \in Middle
        PROVE  K[v] = {w \in Middle : w \in Reached(edges, {v}) /\ v \in Reached(edges, {w})}
    <3>1. K[v] = {w \in Middle : w \in R[v] /\ v \in R[w]}
      BY <1>4
    <3>2. \A w \in Middle : R[w] = Reached(edges, {w})
      BY <1>1
    <3> QED BY <3>1, <3>2, Zenon
  <2> QED BY <2>1, Zenon DEF StrongComponents
<1>6. \A v \in Middle : K[v] \in SUBSET Middle /\ v \in K[v]
  BY <1>2, <1>4
<1>7. ASSUME NEW v \in Middle, NEW w \in K[v] PROVE K[w] = K[v]
  <2>1. w \in Middle /\ w \in R[v] /\ v \in R[w]
    BY <1>4
  <2>2. R[w] = R[v]
    BY <1>3, <2>1
  <2>3. ASSUME NEW x \in Middle PROVE v \in R[x] <=> w \in R[x]
    BY <1>3, <1>2, <2>1, <2>2
  <2> QED BY <1>4, <2>1, <2>2, <2>3
<1>8. IsFiniteSet(Cs)
  <2>1. IsFiniteSet(Middle)
    BY FS_Interval
  <2>2. \A t \in Cs : \E x \in Middle : t = K[x]
    BY <1>5
  <2> QED BY <2>1, <2>2, FiniteImage
<1>9. ASSUME NEW C \in Cs, NEW D \in Cs, NEW v \in C, v \in D PROVE C = D
  <2>1. PICK x \in Middle : C = K[x]
    BY <1>5
  <2>2. PICK y \in Middle : D = K[y]
    BY <1>5
  <2>3. K[v] = K[x] /\ K[v] = K[y]
    BY <1>7, <1>9, <2>1, <2>2
  <2> QED BY <2>1, <2>2, <2>3
<1> QED BY <1>5, <1>6, <1>8, <1>9

\* The components one after the other: each vertex is in one of them, and no edge leads back.
InSequence(m, edges, o) ==
    /\ o \in Seq(SUBSET (1 .. m))
    /\ \A v \in 1 .. m : \E b \in DOMAIN o : v \in o[b]
    /\ \A b, c \in DOMAIN o : \A v \in o[b] : v \in o[c] => b = c
    /\ \A b, c \in DOMAIN o : \A e \in edges : e[1] \in o[b] /\ e[2] \in o[c] => b =< c

\* The orders that topological_sort may give are such.
LEMMA TopologicalOf ==
    ASSUME NEW m \in Nat, Middle = 1 .. m, NEW edges \in SUBSET (Middle \X Middle),
           NEW o \in TopologicalOrders(edges)
    PROVE  InSequence(m, edges, o)
<1>1. PICK Cs : Cs = StrongComponents(edges)
  OBVIOUS
<1>2. /\ IsFiniteSet(Cs) /\ Cs \in SUBSET (SUBSET Middle)
      /\ \A v \in Middle : \E C \in Cs : v \in C
      /\ \A C, D \in Cs : \A v \in C : v \in D => C = D
  BY <1>1, ComponentsOf
<1>3. PICK k \in Nat : k = Cardinality(Cs)
  BY <1>2, FS_CardinalityType
<1>4. o \in [1 .. k -> Cs] /\ \A b, c \in 1 .. k : b # c => o[b] # o[c]
  BY <1>1, <1>3 DEF TopologicalOrders, SetToSeqs
<1>5. \A C \in Cs : \E b \in 1 .. k : o[b] = C
  <2>. DEFINE S == 1 .. k
  <2>1. IsFiniteSet(S) /\ Cardinality(S) = Cardinality(Cs)
    BY <1>3, FS_Interval
  <2>2. o \in [S -> Cs] /\ \A b, c \in S : o[b] = o[c] => b = c
    BY <1>4
  <2>. HIDE DEF S
  <2>3. o \in Injection(S, Cs)
    BY <2>2 DEF Injection, IsInjective
  <2>4. o \in Surjection(S, Cs)
    BY <1>2, <2>1, <2>3, FS_Injection
  <2> QED BY <2>4 DEF Surjection, S
<1>6. DOMAIN o = 1 .. k
  BY <1>4
<1>7. o \in Seq(SUBSET (1 .. m))
  <2>. DEFINE W == SUBSET (1 .. m)
  <2>1. \A b \in 1 .. k : o[b] \in W
    BY <1>2, <1>4
  <2>. HIDE DEF W
  <2>2. o = [b \in 1 .. k |-> o[b]]
    BY <1>4
  <2>3. o \in Seq(W)
    BY <1>3, <2>1, <2>2
  <2> QED BY <2>3 DEF W
<1>8. ASSUME NEW b \in 1 .. k, NEW c \in 1 .. k, NEW v \in o[b], v \in o[c] PROVE b = c
  <2>1. o[b] \in Cs /\ o[c] \in Cs
    BY <1>4
  <2>2. o[b] = o[c]
    <3>1. PICK C : C = o[b]
      OBVIOUS
    <3>2. PICK D : D = o[c]
      OBVIOUS
    <3>3. C \in Cs /\ D \in Cs /\ v \in C /\ v \in D
      BY <1>8, <2>1, <3>1, <3>2
    <3>4. C = D
      BY <1>2, <3>3
    <3> QED BY <3>1, <3>2, <3>4
  <2> QED BY <1>4, <2>2
<1>9. ASSUME NEW b \in 1 .. k, NEW c \in 1 .. k, NEW e \in edges, e[1] \in o[b], e[2] \in o[c], ~ (b =< c) PROVE FALSE
  <2>1. c < b
    BY <1>9
  <2>2. \A i, j \in DOMAIN o : i < j => ~ \E d \in edges : d[1] \in o[j] /\ d[2] \in o[i]
    BY DEF TopologicalOrders
  <2> QED BY <1>6, <1>9, <2>1, <2>2
<1>10. \A v \in 1 .. m : \E b \in 1 .. k : v \in o[b]
  <2>. SUFFICES ASSUME NEW v \in 1 .. m PROVE \E b \in 1 .. k : v \in o[b]
    OBVIOUS
  <2>1. PICK C \in Cs : v \in C
    BY <1>2
  <2> QED BY <1>5, <2>1
<1>11. \A b, c \in 1 .. k : \A v \in o[b] : v \in o[c] => b = c
  BY <1>8
<1>12. \A b, c \in 1 .. k : \A e \in edges : e[1] \in o[b] /\ e[2] \in o[c] => b =< c
  BY <1>9
<1> QED BY <1>6, <1>7, <1>10, <1>11, <1>12, Zenon DEF InSequence

-------------------------------------------------------------------------------
(***************************************************************************)
(* The lags of the variables and of the equations                          *)
(***************************************************************************)

\* The place of an element of an arrangement.
LEMMA PlaceOf ==
    ASSUME NEW n \in Nat, NEW s, Arrangement(n, s)
    PROVE  /\ DOMAIN s = 1 .. n
           /\ \A i \in 1 .. n : s[i] \in 1 .. n /\ Place(s, s[i]) = i
           /\ \A x \in 1 .. n : Place(s, x) \in 1 .. n /\ s[Place(s, x)] = x
<1>1. DOMAIN s = 1 .. n /\ \A i \in 1 .. n : s[i] \in 1 .. n
  BY DEF Arrangement
<1>2. ASSUME NEW x \in 1 .. n PROVE Place(s, x) \in 1 .. n /\ s[Place(s, x)] = x
  <2>1. PICK i \in 1 .. n : s[i] = x
    BY DEF Arrangement
  <2> QED BY <1>1, <2>1 DEF Place
<1>3. ASSUME NEW i \in 1 .. n PROVE Place(s, s[i]) = i
  <2>1. PICK p : p = Place(s, s[i])
    OBVIOUS
  <2>2. p \in 1 .. n /\ s[p] = s[i]
    BY <1>1, <1>2, <2>1
  <2> QED BY <2>1, <2>2 DEF Arrangement
<1> QED BY <1>1, <1>2, <1>3

\* What is written of a model: the lags of its derivatives, and that each is in the static matrix.
Fitting(f, j) ==
    \A d \in j.dynamic :
      /\ d = <<d[1], d[2], d[3]>>
      /\ d[1] \in (IF f.select THEN -1 .. 1 ELSE {0})
      /\ d[2] \in Ids(f) /\ d[3] \in Ids(f)
      /\ <<d[2], d[3]>> \in j.static

\* The largest lag and the largest lead.
LEMMA LagAndLeadOf ==
    ASSUME NEW S \in SUBSET (-1 .. 1), NEW l, l = LagAndLead(S)
    PROVE  /\ l.lag \in Nat /\ l.lead \in Nat
           /\ \A x \in S : -x =< l.lag /\ x =< l.lead
<1>1. ASSUME NEW T \in SUBSET (-1 .. 1), 0 \in T PROVE Max(T) \in Nat /\ \A x \in T : x =< Max(T)
  <2>1. PICK U : U = -1 .. 1
    OBVIOUS
  <2>2. IsFiniteSet(U)
    <3>1. PICK a \in Int : a = -1
      OBVIOUS
    <3>2. IsFiniteSet(a .. 1)
      BY FS_Interval
    <3> QED BY <2>1, <3>1, <3>2
  <2>3. T \in SUBSET U /\ T \in SUBSET Int /\ T # {}
    BY <1>1, <2>1
  <2>4. IsFiniteSet(T)
    BY <2>2, <2>3, FS_Subset
  <2>5. Max(T) \in T /\ \A y \in T : Max(T) >= y
    BY <2>3, <2>4, MaxOf
  <2>6. Max(T) \in Int /\ Max(T) >= 0
    BY <1>1, <2>3, <2>5
  <2> QED BY <2>3, <2>5, <2>6
<1>2. PICK A : A = {0} \cup {-x : x \in S}
  OBVIOUS
<1>3. PICK B : B = {0} \cup S
  OBVIOUS
<1>4. A \in SUBSET (-1 .. 1) /\ 0 \in A /\ \A x \in S : -x \in A
  BY <1>2
<1>5. B \in SUBSET (-1 .. 1) /\ 0 \in B /\ \A x \in S : x \in B
  BY <1>3
<1>6. l.lag = Max(A) /\ l.lead = Max(B)
  BY <1>2, <1>3 DEF LagAndLead
<1>7. Max(A) \in Nat /\ \A x \in A : x =< Max(A)
  BY <1>1, <1>4
<1>8. Max(B) \in Nat /\ \A x \in B : x =< Max(B)
  BY <1>1, <1>5
<1> QED BY <1>4, <1>5, <1>6, <1>7, <1>8

\* A variable, or an equation, does not move when its entries have lag 0, and conversely; it is
\* then in the first pass.
AtRest(entries, k, x, l) ==
    /\ Pass(l) = 0 <=> ~ Moves(l)
    /\ ~ Moves(l) => \A d \in entries : d[k] = x => d[1] = 0
    /\ (\A d \in entries : d[k] = x => d[1] = 0) => ~ Moves(l)

\* This is so whatever the entries are.
LEMMA Unmoved ==
    ASSUME NEW entries, \A d \in entries : d[1] \in -1 .. 1,
           NEW k, NEW x \in Ids(file), NEW l, l = LagLeadOf(entries, k)[x]
    PROVE  AtRest(entries, k, x, l)
<1>1. PICK S : S = {d[1] : d \in {c \in entries : c[k] = x}}
  OBVIOUS
<1>2. l = LagAndLead(S)
  BY <1>1 DEF LagLeadOf
<1>3. S \in SUBSET (-1 .. 1) /\ \A d \in entries : d[k] = x => d[1] \in S
  BY <1>1
<1>4. l.lag \in Nat /\ l.lead \in Nat /\ \A y \in S : -y =< l.lag /\ y =< l.lead
  BY <1>2, <1>3, LagAndLeadOf
<1>5. ~ Moves(l) <=> l.lag = 0 /\ l.lead = 0
  BY <1>4 DEF Moves
<1>6. Pass(l) = 0 <=> l.lag = 0 /\ l.lead = 0
  <2>1. CASE l.lag = 0 /\ l.lead = 0
    BY <2>1 DEF Pass
  <2>2. CASE l.lag = 0 /\ l.lead # 0
    BY <2>2 DEF Pass
  <2>3. CASE l.lag # 0
    BY <2>3 DEF Pass
  <2> QED BY <2>1, <2>2, <2>3
<1>7. ASSUME ~ Moves(l), NEW d \in entries, d[k] = x PROVE d[1] = 0
  <2>1. PICK y : y = d[1]
    OBVIOUS
  <2>2. y \in S /\ y \in Int
    BY <1>3, <1>7, <2>1
  <2>3. -y =< 0 /\ y =< 0
    BY <1>4, <1>5, <1>7, <2>2
  <2> QED BY <2>1, <2>2, <2>3
<1>8. ASSUME \A d \in entries : d[k] = x => d[1] = 0 PROVE l.lag = 0 /\ l.lead = 0
  <2>1. \A y \in S : y = 0
    BY <1>1, <1>8
  <2>2. {0} \cup {-y : y \in S} = {0} /\ {0} \cup S = {0}
    BY <2>1
  <2>3. l.lag = Max({0}) /\ l.lead = Max({0})
    BY <1>2, <2>2 DEF LagAndLead
  <2>4. Max({0}) = 0
    <3>1. IsFiniteSet({0})
      BY FS_Singleton
    <3>2. Max({0}) \in {0}
      BY <3>1, MaxOf
    <3> QED BY <3>2
  <2> QED BY <2>3, <2>4
<1> QED BY <1>5, <1>6, <1>7, <1>8 DEF AtRest

\* The lags of a model.
LEMMA LagsFit ==
    ASSUME NEW f, NEW j, Fitting(f, j), NEW d \in j.dynamic
    PROVE  d[1] \in -1 .. 1 /\ (~ f.select => d[1] = 0)
<1>1. d[1] \in IF f.select THEN -1 .. 1 ELSE {0}
  BY DEF Fitting
<1>2. CASE f.select
  BY <1>1, <1>2
<1>3. CASE ~ f.select
  BY <1>1, <1>3
<1> QED BY <1>2, <1>3

-------------------------------------------------------------------------------
(***************************************************************************)
(* The middle of the model, and the graph of its equations                 *)
(***************************************************************************)

\* What the decomposition into components starts from: m equations are left in the middle, each at
\* the place of its variable.
Decomposing(m) ==
    /\ file \in Files /\ file.n \in Nat
    /\ prologue \in Nat /\ epilogue \in Nat /\ m \in Nat /\ m = file.n - prologue - epilogue
    /\ Arrangement(file.n, eqs) /\ Arrangement(file.n, vars)
    /\ \A i \in 1 .. file.n : endo2eq[vars[i]] = eqs[i]
    /\ jacobian.static \subseteq (1 .. file.n) \X (1 .. file.n)
    /\ Fitting(file, jacobian)

\* The places of the middle.
LEMMA MiddleOf ==
    ASSUME NEW m, Decomposing(m)
    PROVE  /\ Middle = 1 .. m /\ Ids(file) = 1 .. file.n
           /\ \A v \in 1 .. m : prologue + v \in 1 .. file.n /\ InMiddle(prologue + v)
           /\ \A i : InMiddle(i) => /\ i \in 1 .. file.n /\ i - prologue \in 1 .. m
                                    /\ i > prologue /\ i =< file.n - epilogue /\ i = prologue + (i - prologue)
           /\ \A i \in 1 .. file.n : InMiddle(i) \/ i =< prologue \/ i > file.n - epilogue
<1>1. /\ Middle = 1 .. m /\ Ids(file) = 1 .. file.n /\ file.n \in Nat /\ prologue \in Nat
      /\ epilogue \in Nat /\ m \in Nat /\ m = file.n - prologue - epilogue
  BY DEF Decomposing, Middle, Ids
<1>2. \A i : InMiddle(i) <=> \E v \in 1 .. m : i = prologue + v
  BY <1>1 DEF InMiddle
<1>3. ASSUME NEW v \in 1 .. m PROVE prologue + v \in 1 .. file.n /\ InMiddle(prologue + v)
  BY <1>1, <1>2
<1>4. ASSUME NEW i, InMiddle(i)
      PROVE  /\ i \in 1 .. file.n /\ i - prologue \in 1 .. m
             /\ i > prologue /\ i =< file.n - epilogue /\ i = prologue + (i - prologue)
  <2>1. PICK v \in 1 .. m : i = prologue + v
    BY <1>2, <1>4
  <2> QED BY <1>1, <2>1
<1>5. ASSUME NEW i \in 1 .. file.n, i > prologue, i =< file.n - epilogue PROVE InMiddle(i)
  <2>1. i - prologue \in 1 .. m /\ i = prologue + (i - prologue)
    BY <1>1, <1>5
  <2> QED BY <1>2, <2>1
<1>6. \A i \in 1 .. file.n : InMiddle(i) \/ i =< prologue \/ i > file.n - epilogue
  BY <1>1, <1>5
<1> QED BY <1>1, <1>3, <1>4, <1>6

\* The entries of the static Jacobian, in a sequence.
LEMMA SortedStaticOf ==
    ASSUME NEW m, Decomposing(m), NEW q, q = SortedStatic
    PROVE  q \in Seq((1 .. file.n) \X (1 .. file.n)) /\ Range(q) = jacobian.static
<1>. DEFINE W == (1 .. file.n) \X (1 .. file.n)
<1>1. PICK n \in Nat : n = file.n /\ Ids(file) = 1 .. n
  BY MiddleOf DEF Decomposing
<1>2. PICK ss : ss = [eq \in 1 .. n |-> [var \in 1 .. n |-> <<eq, var>>]]
  OBVIOUS
<1>3. q = Those(FlattenSeq(ss), jacobian.static)
  BY <1>1, <1>2 DEF SortedStatic
<1>4. ASSUME NEW e \in 1 .. n PROVE ss[e] \in Seq(W) /\ \A x : x \in Range(ss[e]) <=> \E v \in 1 .. n : x = <<e, v>>
  <2>1. PICK r : r = [var \in 1 .. n |-> <<e, var>>]
    OBVIOUS
  <2>2. ss[e] = r
    BY <1>2, <2>1
  <2>3. \A v \in 1 .. n : <<e, v>> \in W
    BY <1>1
  <2>. HIDE DEF W
  <2>4. r \in Seq(W)
    BY <2>1, <2>3
  <2>5. \A x : x \in Range(r) <=> \E v \in 1 .. n : x = <<e, v>>
    BY <2>1 DEF Range
  <2> QED BY <2>2, <2>4, <2>5
<1>5. ss \in Seq(Seq(W)) /\ Len(ss) = n
  <2>. HIDE DEF W
  <2> QED BY <1>2, <1>4
<1>6. PICK s : s = FlattenSeq(ss)
  OBVIOUS
<1>7. s \in Seq(W)
  <2>. HIDE DEF W
  <2> QED BY <1>5, <1>6, FlattenType
<1>8. ASSUME NEW x \in W PROVE x \in Range(s)
  <2>1. PICK e \in 1 .. n, v \in 1 .. n : x = <<e, v>>
    BY <1>1
  <2>2. x \in Range(ss[e])
    BY <1>4, <2>1
  <2>3. x \in Range(FlattenSeq(ss)) <=> \E k \in 1 .. Len(ss) : x \in Range(ss[k])
    <3>. HIDE DEF W
    <3> QED BY <1>5, FlattenRange
  <2> QED BY <1>5, <1>6, <2>2, <2>3
<1>9. q \in Seq(W) /\ Range(q) = Range(s) \cap jacobian.static
  <2>. HIDE DEF W
  <2> QED BY <1>3, <1>6, <1>7, ThoseOf
<1>10. jacobian.static \subseteq W
  BY DEF Decomposing
<1>11. Range(q) = jacobian.static
  <2>. HIDE DEF W
  <2> QED BY <1>8, <1>9, <1>10
<1> QED BY <1>9, <1>11

\* The vertices are the places of the middle, and an edge leads to an equation from each other
\* variable it holds.
LEMMA MiddleGraphOf ==
    ASSUME NEW m, Decomposing(m), NEW g, g = MiddleGraph
    PROVE  /\ g = [vertices |-> g.vertices, edges |-> g.edges]
           /\ g.vertices \in Seq(1 .. m) /\ Distinct(g.vertices) /\ Range(g.vertices) = 1 .. m
           /\ g.edges \in Seq((1 .. m) \X (1 .. m))
           /\ \A v, w \in 1 .. m : v # w /\ <<eqs[prologue + v], vars[prologue + w]>> \in jacobian.static
                                     => <<w, v>> \in Range(g.edges)
<1>1. /\ Middle = 1 .. m /\ Ids(file) = 1 .. file.n /\ m \in Nat /\ file.n \in Nat /\ prologue \in Nat
      /\ \A v \in 1 .. m : prologue + v \in 1 .. file.n /\ InMiddle(prologue + v)
      /\ \A i : InMiddle(i) => i \in 1 .. file.n /\ i - prologue \in 1 .. m
  BY MiddleOf DEF Decomposing
<1>2. PICK X : X = {p \in jacobian.static : /\ InMiddle(Place(eqs, p[1])) /\ InMiddle(Place(vars, p[2]))
                                            /\ p[1] # endo2eq[p[2]]}
  OBVIOUS
<1>3. PICK q : q = SortedStatic
  OBVIOUS
<1>4. PICK crossing : crossing = Those(q, X)
  OBVIOUS
<1>5. /\ crossing \in Seq((1 .. file.n) \X (1 .. file.n))
      /\ \A p : p \in Range(crossing) <=> p \in X
  <2>. DEFINE W == (1 .. file.n) \X (1 .. file.n)
  <2>1. q \in Seq(W) /\ Range(q) = jacobian.static
    BY <1>3, SortedStaticOf
  <2>. HIDE DEF W
  <2>2. crossing \in Seq(W) /\ Range(crossing) = Range(q) \cap X
    BY <1>4, <2>1, ThoseOf
  <2> QED BY <1>2, <2>1, <2>2 DEF W
<1>6. PICK K : K = [k \in DOMAIN crossing |->
                      <<Place(eqs, endo2eq[crossing[k][2]]) - prologue, Place(eqs, crossing[k][1]) - prologue>>]
  OBVIOUS
<1>7. g = [vertices |-> [i \in 1 .. m |-> i], edges |-> K]
  BY <1>1, <1>2, <1>3, <1>4, <1>6 DEF MiddleGraph
<1>8. /\ \A i \in 1 .. file.n : eqs[i] \in 1 .. file.n /\ Place(eqs, eqs[i]) = i
      /\ \A i \in 1 .. file.n : vars[i] \in 1 .. file.n /\ Place(vars, vars[i]) = i
      /\ \A x \in 1 .. file.n : Place(vars, x) \in 1 .. file.n /\ vars[Place(vars, x)] = x
      /\ \A i \in 1 .. file.n : endo2eq[vars[i]] = eqs[i]
  <2>1. file.n \in Nat /\ Arrangement(file.n, eqs) /\ Arrangement(file.n, vars)
    BY DEF Decomposing
  <2>2. \A i \in 1 .. file.n : eqs[i] \in 1 .. file.n /\ Place(eqs, eqs[i]) = i
    BY <2>1, PlaceOf
  <2>3. /\ \A i \in 1 .. file.n : vars[i] \in 1 .. file.n /\ Place(vars, vars[i]) = i
        /\ \A x \in 1 .. file.n : Place(vars, x) \in 1 .. file.n /\ vars[Place(vars, x)] = x
    BY <2>1, PlaceOf
  <2> QED BY <2>2, <2>3 DEF Decomposing
<1>9. ASSUME NEW p \in X
      PROVE  /\ Place(eqs, endo2eq[p[2]]) = Place(vars, p[2])
             /\ Place(vars, p[2]) - prologue \in 1 .. m /\ Place(eqs, p[1]) - prologue \in 1 .. m
  <2>1. p \in (1 .. file.n) \X (1 .. file.n) /\ InMiddle(Place(eqs, p[1])) /\ InMiddle(Place(vars, p[2]))
    BY <1>2 DEF Decomposing
  <2>2. p[2] \in 1 .. file.n
    BY <2>1
  <2>3. PICK j \in 1 .. file.n : j = Place(vars, p[2]) /\ vars[j] = p[2]
    BY <1>8, <2>2
  <2>4. Place(eqs, endo2eq[p[2]]) = j
    BY <1>8, <2>3
  <2> QED BY <1>1, <2>1, <2>3, <2>4
<1>10. /\ DOMAIN crossing = 1 .. Len(crossing) /\ Len(crossing) \in Nat
       /\ \A k \in 1 .. Len(crossing) : crossing[k] \in X
  <2>1. DOMAIN crossing = 1 .. Len(crossing) /\ Len(crossing) \in Nat
    BY <1>5
  <2>2. \A k \in 1 .. Len(crossing) : crossing[k] \in Range(crossing)
    BY <2>1 DEF Range
  <2> QED BY <1>5, <2>1, <2>2
<1>11. K \in Seq((1 .. m) \X (1 .. m))
  <2>. DEFINE W == (1 .. m) \X (1 .. m)
  <2>1. ASSUME NEW k \in 1 .. Len(crossing) PROVE K[k] \in W
    <3>1. PICK p : p = crossing[k]
      OBVIOUS
    <3>2. p \in X
      BY <1>10, <3>1
    <3>3. K[k] = <<Place(eqs, endo2eq[p[2]]) - prologue, Place(eqs, p[1]) - prologue>>
      BY <1>6, <1>10, <3>1
    <3> QED BY <1>9, <3>2, <3>3
  <2>2. DOMAIN K = 1 .. Len(crossing) /\ K = [k \in 1 .. Len(crossing) |-> K[k]]
    BY <1>6, <1>10
  <2>. HIDE DEF W
  <2>3. K \in Seq(W)
    BY <1>10, <2>1, <2>2
  <2> QED BY <2>3 DEF W
<1>12. ASSUME NEW v \in 1 .. m, NEW w \in 1 .. m, v # w,
              <<eqs[prologue + v], vars[prologue + w]>> \in jacobian.static
       PROVE  <<w, v>> \in Range(K)
  <2>1. PICK i \in 1 .. file.n : i = prologue + v /\ InMiddle(i)
    BY <1>1
  <2>2. PICK j \in 1 .. file.n : j = prologue + w /\ InMiddle(j)
    BY <1>1
  <2>3. i # j /\ i - prologue = v /\ j - prologue = w
    BY <1>1, <1>12, <2>1, <2>2
  <2>4. PICK p : p = <<eqs[i], vars[j]>>
    OBVIOUS
  <2>5. Place(eqs, p[1]) = i /\ Place(vars, p[2]) = j /\ endo2eq[p[2]] = eqs[j] /\ Place(eqs, endo2eq[p[2]]) = j
    BY <1>8, <2>4
  <2>6. p[1] # endo2eq[p[2]]
    BY <2>3, <2>5
  <2>7. p \in X
    BY <1>2, <1>12, <2>1, <2>2, <2>4, <2>5, <2>6
  <2>8. PICK k \in DOMAIN crossing : p = crossing[k]
    BY <1>5, <2>7 DEF Range
  <2>9. K[k] = <<w, v>>
    BY <1>6, <2>3, <2>5, <2>8
  <2>10. k \in DOMAIN K
    BY <1>6
  <2> QED BY <2>9, <2>10 DEF Range
<1>13. PICK a : a = [i \in 1 .. m |-> i]
  OBVIOUS
<1>14. a \in Seq(1 .. m) /\ Distinct(a) /\ Range(a) = 1 .. m
  BY <1>1, <1>13 DEF Distinct, Range
<1>15. g.vertices = a /\ g.edges = K /\ g = [vertices |-> g.vertices, edges |-> g.edges]
  BY <1>7, <1>13
<1> QED BY <1>11, <1>12, <1>14, <1>15

-------------------------------------------------------------------------------
(***************************************************************************)
(* The orders of the components                                            *)
(***************************************************************************)

\* The entries of a block at a vertex that is not forced to be a feedback variable have lag 0.
StaticAt(inBlock, v) ==
    \A d \in inBlock : d[2] = eqs[prologue + v] \/ d[3] = vars[prologue + v] => d[1] = 0

\* A vertex that is forced to be a feedback variable gets a loop; another one has only entries at
\* lag 0 in its block.
LEMMA ForcedLoopsOf ==
    ASSUME NEW m, Decomposing(m), NEW inBlock \in SUBSET jacobian.dynamic,
           NEW variables, variables = LagLeadOf(inBlock, 3), NEW equations, equations = LagLeadOf(inBlock, 2),
           NEW q, q = ForcedLoops(variables, equations)
    PROVE  /\ q \in Seq((1 .. m) \X (1 .. m))
           /\ \A v \in 1 .. m : \/ <<v, v>> \in Range(q)
                                \/ StaticAt(inBlock, v) /\ Pass(variables[vars[v + prologue]]) = 0
<1>. DEFINE W == (1 .. m) \X (1 .. m)
            Forced(v) == \/ type[eqs[v + prologue]] = "E_SOLVE"
                         \/ file.mfs = 0
                         \/ file.select /\ (Moves(variables[vars[v + prologue]]) \/ Moves(equations[eqs[v + prologue]]))
<1>1. /\ Middle = 1 .. m /\ Ids(file) = 1 .. file.n /\ m \in Nat /\ file.n \in Nat /\ prologue \in Nat
      /\ \A v \in 1 .. m : prologue + v \in 1 .. file.n /\ v + prologue = prologue + v
      /\ \A i \in 1 .. file.n : eqs[i] \in 1 .. file.n /\ vars[i] \in 1 .. file.n
  <2>1. file.n \in Nat /\ Arrangement(file.n, eqs) /\ Arrangement(file.n, vars) /\ prologue \in Nat /\ m \in Nat
    BY DEF Decomposing
  <2>2. \A i \in 1 .. file.n : eqs[i] \in 1 .. file.n /\ vars[i] \in 1 .. file.n
    BY <2>1, PlaceOf
  <2>3. /\ Middle = 1 .. m /\ Ids(file) = 1 .. file.n
        /\ \A v \in 1 .. m : prologue + v \in 1 .. file.n
    BY MiddleOf
  <2> QED BY <2>1, <2>2, <2>3
<1>2. PICK F : F = {i \in 1 .. m : Forced(i)}
  OBVIOUS
<1>3. PICK loops : loops = [i \in 1 .. m |-> <<i, i>>]
  OBVIOUS
<1>4. PICK P : P = {<<i, i>> : i \in F}
  OBVIOUS
<1>5. q = Those(loops, P)
  BY <1>1, <1>2, <1>3, <1>4 DEF ForcedLoops
<1>6. loops \in Seq(W) /\ \A v \in 1 .. m : <<v, v>> \in Range(loops)
  BY <1>1, <1>3 DEF Range
<1>7. q \in Seq(W) /\ Range(q) = Range(loops) \cap P
  <2>. HIDE DEF W
  <2> QED BY <1>5, <1>6, ThoseOf
<1>8. ASSUME NEW v \in 1 .. m, <<v, v>> \notin Range(q)
      PROVE  StaticAt(inBlock, v) /\ Pass(variables[vars[v + prologue]]) = 0
  <2>1. ~ Forced(v)
    BY <1>2, <1>4, <1>6, <1>7, <1>8
  <2>2. PICK i \in 1 .. file.n : i = prologue + v /\ i = v + prologue
    BY <1>1
  <2>3. PICK x \in Ids(file) : x = vars[i]
    BY <1>1
  <2>4. PICK y \in Ids(file) : y = eqs[i]
    BY <1>1
  <2>5. PICK k : k = variables[x]
    OBVIOUS
  <2>6. PICK l : l = equations[y]
    OBVIOUS
  <2>7. file.select => ~ Moves(k) /\ ~ Moves(l)
    BY <2>1, <2>2, <2>3, <2>4, <2>5, <2>6
  <2>. HIDE DEF Forced
  <2>8. \A d \in inBlock : d[1] \in -1 .. 1 /\ (~ file.select => d[1] = 0)
    <3>1. Fitting(file, jacobian)
      BY DEF Decomposing
    <3>2. \A d \in jacobian.dynamic : d[1] \in -1 .. 1 /\ (~ file.select => d[1] = 0)
      BY <3>1, LagsFit
    <3> QED BY <3>2
  <2>9. AtRest(inBlock, 3, x, k)
    <3>1. \A d \in inBlock : d[1] \in -1 .. 1
      BY <2>8
    <3>2. k = LagLeadOf(inBlock, 3)[x]
      BY <2>5
    <3> QED BY <3>1, <3>2, Unmoved
  <2>10. AtRest(inBlock, 2, y, l)
    <3>1. \A d \in inBlock : d[1] \in -1 .. 1
      BY <2>8
    <3>2. l = LagLeadOf(inBlock, 2)[y]
      BY <2>6
    <3> QED BY <3>1, <3>2, Unmoved
  <2>11. CASE file.select
    <3>1. ~ Moves(k) /\ ~ Moves(l)
      BY <2>7, <2>11
    <3>2. Pass(k) = 0
      BY <2>9, <3>1 DEF AtRest
    <3>3. \A d \in inBlock : d[2] = y \/ d[3] = x => d[1] = 0
      BY <2>9, <2>10, <3>1 DEF AtRest
    <3> QED BY <2>2, <2>3, <2>4, <2>5, <3>2, <3>3 DEF StaticAt
  <2>12. CASE ~ file.select
    <3>1. \A d \in inBlock : d[1] = 0
      BY <2>8, <2>12
    <3>2. Pass(k) = 0
      BY <2>9, <3>1 DEF AtRest
    <3> QED BY <2>2, <2>3, <2>5, <3>1, <3>2 DEF StaticAt
  <2> QED BY <2>11, <2>12
<1> QED BY <1>7, <1>8

\* What the orders of the components are for: E holds the edges from each variable to the other
\* equations that hold it, and loops at the vertices that are not static.
OrderedBy(m, inBlock, E, components, ordered) ==
    /\ \A v, w \in 1 .. m : v # w /\ <<eqs[prologue + v], vars[prologue + w]>> \in jacobian.static => <<w, v>> \in E
    /\ \A v \in 1 .. m : <<v, v>> \in E \/ StaticAt(inBlock, v)
    /\ DOMAIN ordered = DOMAIN components
    /\ \A b \in DOMAIN components : Solvable(components[b], E, ordered[b])

\* The components are ordered so.
LEMMA ComponentsOrdered ==
    ASSUME NEW m, Decomposing(m), NEW g, g = MiddleGraph,
           NEW components \in TopologicalOrders(Range(g.edges)), NEW inBlock, inBlock = InBlockEntries(components),
           NEW ordered,
           ordered = OrderedComponents(
                       [g EXCEPT !.edges = @ \o ForcedLoops(LagLeadOf(inBlock, 3), LagLeadOf(inBlock, 2))],
                       components, LagLeadOf(inBlock, 3))
    PROVE  /\ InSequence(m, Range(g.edges), components)
           /\ \A v, w \in 1 .. m : v # w /\ <<eqs[prologue + v], vars[prologue + w]>> \in jacobian.static
                                     => <<w, v>> \in Range(g.edges)
           /\ \E E : OrderedBy(m, inBlock, E, components, ordered)
<1>. DEFINE W == (1 .. m) \X (1 .. m)
<1>1. /\ g = [vertices |-> g.vertices, edges |-> g.edges]
      /\ g.vertices \in Seq(1 .. m) /\ Distinct(g.vertices) /\ Range(g.vertices) = 1 .. m
      /\ g.edges \in Seq(W)
      /\ \A v, w \in 1 .. m : v # w /\ <<eqs[prologue + v], vars[prologue + w]>> \in jacobian.static
                                => <<w, v>> \in Range(g.edges)
  BY MiddleGraphOf
<1>2. Middle = 1 .. m /\ m \in Nat
  BY MiddleOf DEF Decomposing
<1>3. InSequence(m, Range(g.edges), components)
  <2>1. PICK E : E = Range(g.edges)
    OBVIOUS
  <2>2. E \in SUBSET W
    <3>. HIDE DEF W
    <3> QED BY <1>1, <2>1 DEF Range
  <2>3. E \in SUBSET (Middle \X Middle)
    BY <1>2, <2>2
  <2>4. InSequence(m, E, components)
    BY <1>2, <2>1, <2>3, TopologicalOf
  <2> QED BY <2>1, <2>4
<1>4. PICK variables : variables = LagLeadOf(inBlock, 3)
  OBVIOUS
<1>5. PICK equations : equations = LagLeadOf(inBlock, 2)
  OBVIOUS
<1>6. PICK loops : loops = ForcedLoops(variables, equations)
  OBVIOUS
<1>7. PICK h : h = [g EXCEPT !.edges = @ \o ForcedLoops(variables, equations)]
  OBVIOUS
<1>8. /\ loops \in Seq(W)
      /\ \A v \in 1 .. m : \/ <<v, v>> \in Range(loops)
                           \/ StaticAt(inBlock, v) /\ Pass(variables[vars[v + prologue]]) = 0
  <2>1. inBlock \in SUBSET jacobian.dynamic
    BY DEF InBlockEntries
  <2> QED BY <1>4, <1>5, <1>6, <2>1, ForcedLoopsOf
<1>9. h.vertices = g.vertices /\ h.edges = g.edges \o loops
  BY <1>1, <1>6, <1>7
<1>10. PICK E : E = Range(h.edges)
  OBVIOUS
<1>11. h.edges \in Seq(W) /\ \A x : x \in E <=> x \in Range(g.edges) \/ x \in Range(loops)
  <2>. HIDE DEF W
  <2>1. g.edges \o loops \in Seq(W) /\ \A x : x \in Range(g.edges \o loops) <=> x \in Range(g.edges) \/ x \in Range(loops)
    BY <1>1, <1>8, ConcatRange
  <2> QED BY <1>9, <1>10, <2>1
<1>12. ordered = OrderedComponents(h, components, variables)
  BY <1>4, <1>5, <1>7
<1>13. ASSUME NEW b \in DOMAIN components PROVE Solvable(components[b], E, ordered[b])
  <2>1. PICK C : C = components[b]
    OBVIOUS
  <2>2. PICK s : s = ExtractSubgraph(h, C)
    OBVIOUS
  <2>3. PICK c : c = OrderedComponent(s, MinimalSetOfFeedbackVertex(s), variables)
    OBVIOUS
  <2>4. ordered[b] = c
    BY <1>12, <2>1, <2>2, <2>3 DEF OrderedComponents
  <2>5. C \subseteq 1 .. m
    BY <1>3, <2>1 DEF InSequence
  <2>6. \A v \in C : <<v, v>> \in Range(h.edges) \/ Pass(variables[vars[v + prologue]]) = 0
    BY <1>8, <1>10, <1>11, <2>5
  <2>7. PICK V : V = 1 .. m
    OBVIOUS
  <2>8. h.vertices \in Seq(V) /\ h.edges \in Seq(V \X V) /\ Distinct(h.vertices) /\ C \subseteq Range(h.vertices)
    BY <1>1, <1>9, <1>11, <2>5, <2>7
  <2>9. Solvable(C, Range(h.edges), c)
    BY <2>2, <2>3, <2>6, <2>8, ComponentOf
  <2> QED BY <1>10, <2>1, <2>4, <2>9
<1>14. DOMAIN ordered = DOMAIN components
  BY <1>12 DEF OrderedComponents
<1>15. OrderedBy(m, inBlock, E, components, ordered)
  <2>1. \A v, w \in 1 .. m : v # w /\ <<eqs[prologue + v], vars[prologue + w]>> \in jacobian.static => <<w, v>> \in E
    BY <1>1, <1>11
  <2>2. \A v \in 1 .. m : <<v, v>> \in E \/ StaticAt(inBlock, v)
    BY <1>8, <1>11
  <2> QED BY <1>13, <1>14, <2>1, <2>2 DEF OrderedBy
<1> QED BY <1>1, <1>3, <1>15

-------------------------------------------------------------------------------
(***************************************************************************)
(* The middle is rearranged                                                *)
(***************************************************************************)

\* The places of the pieces grow.
LEMMA PlacesGrow ==
    ASSUME NEW ss, Len(ss) \in Nat, NEW s, NEW at, Places(ss, s, at), \A k \in 1 .. Len(ss) : Len(ss[k]) \in Nat,
           NEW k \in 1 .. Len(ss) + 1
    PROVE  \A l \in 1 .. Len(ss) + 1 : k =< l => at[k] =< at[l]
<1>1. PICK n \in Nat : n = Len(ss)
  OBVIOUS
<1>2. /\ \A j \in 1 .. n + 1 : at[j] \in Nat
      /\ \A j \in 1 .. n : at[j + 1] >= at[j]
  <2>1. /\ \A j \in 1 .. n + 1 : at[j] \in Nat
        /\ \A j \in 1 .. n : at[j + 1] = at[j] + Len(ss[j])
    BY <1>1 DEF Places
  <2>2. ASSUME NEW j \in 1 .. n PROVE at[j + 1] >= at[j]
    <3>1. j \in 1 .. n + 1 /\ Len(ss[j]) \in Nat
      BY <1>1
    <3>2. at[j] \in Nat /\ at[j + 1] = at[j] + Len(ss[j])
      BY <2>1, <3>1
    <3> QED BY <3>1, <3>2
  <2> QED BY <2>1, <2>2
<1>. DEFINE Has == {j \in Nat : k + j =< n + 1 => at[k] =< at[k + j]}
<1>3. 0 \in Has
  <2>1. k + 0 = k /\ at[k] \in Nat
    BY <1>1, <1>2
  <2> QED BY <2>1
<1>4. ASSUME NEW j \in Nat, j \in Has PROVE j + 1 \in Has
  <2>. SUFFICES ASSUME k + (j + 1) =< n + 1 PROVE at[k] =< at[k + (j + 1)]
    OBVIOUS
  <2>1. at[k] =< at[k + j]
    BY <1>1, <1>4
  <2>2. PICK i \in 1 .. n : i = k + j /\ i + 1 = k + (j + 1)
    BY <1>1
  <2>3. at[i + 1] >= at[i] /\ at[i] \in Nat /\ at[i + 1] \in Nat /\ at[k] \in Nat
    BY <1>1, <1>2, <2>2
  <2> QED BY <2>1, <2>2, <2>3
<1>. HIDE DEF Has
<1>5. \A j \in Nat : j \in Has
  BY <1>3, <1>4, Induction
<1>. SUFFICES ASSUME NEW l \in 1 .. n + 1, k =< l PROVE at[k] =< at[l]
  BY <1>1
<1>6. l - k \in Nat /\ k + (l - k) = l
  BY <1>1
<1> QED BY <1>5, <1>6 DEF Has

\* The pieces ss make the middle up.
Arranged(m, components, ss, middle) ==
    /\ ss \in Seq(Seq(1 .. m)) /\ Len(ss) = Len(components)
    /\ Arrangement(m, middle) /\ Len(middle) = m
    /\ \E at : Places(ss, middle, at)

\* The orders of the components one after the other are an arrangement of the middle.
LEMMA MiddleArranged ==
    ASSUME NEW m \in Nat, NEW edges, NEW components, InSequence(m, edges, components),
           NEW E, NEW ordered, DOMAIN ordered = DOMAIN components,
           \A b \in DOMAIN components : Solvable(components[b], E, ordered[b]),
           NEW ss, ss = [b \in DOMAIN ordered |-> ordered[b].order],
           NEW middle, middle = FlattenSeq(ss)
    PROVE  Arranged(m, components, ss, middle)
<1>1. /\ components \in Seq(SUBSET (1 .. m))
      /\ \A v \in 1 .. m : \E b \in DOMAIN components : v \in components[b]
      /\ \A b, c \in DOMAIN components : \A v \in components[b] : v \in components[c] => b = c
  BY DEF InSequence
<1>2. PICK n \in Nat : n = Len(components)
  BY <1>1
<1>3. DOMAIN components = 1 .. n /\ \A b \in 1 .. n : components[b] \subseteq 1 .. m
  BY <1>1, <1>2
<1>4. ASSUME NEW b \in 1 .. n
      PROVE  /\ ss[b] \in Seq(1 .. m) /\ Distinct(ss[b]) /\ Range(ss[b]) = components[b]
             /\ \A i \in 1 .. Len(ss[b]) : i \in DOMAIN ss[b] /\ ss[b][i] \in components[b]
  <2>1. PICK r : r = ordered[b].order
    OBVIOUS
  <2>2. ss[b] = r
    BY <1>3, <2>1
  <2>3. PICK C : C = components[b]
    OBVIOUS
  <2>4. r \in Seq(C) /\ Distinct(r) /\ Range(r) = C /\ C \subseteq 1 .. m
    BY <1>3, <2>1, <2>3 DEF Solvable
  <2>5. DOMAIN r = 1 .. Len(r) /\ Len(r) \in Nat /\ \A i \in 1 .. Len(r) : r[i] \in C
    BY <2>4
  <2>6. r \in Seq(1 .. m)
    <3>. DEFINE M == 1 .. m
    <3>1. C \subseteq M
      BY <2>4
    <3>. HIDE DEF M
    <3>2. \A i \in 1 .. Len(r) : r[i] \in M
      BY <2>5, <3>1
    <3>3. r \in Seq(M)
      BY <2>4, <2>5, <3>2
    <3> QED BY <3>3 DEF M
  <2> QED BY <2>2, <2>3, <2>4, <2>5, <2>6
<1>5. ss \in Seq(Seq(1 .. m)) /\ Len(ss) = n
  <2>. DEFINE W == Seq(1 .. m)
  <2>1. \A b \in 1 .. n : ss[b] \in W
    BY <1>4
  <2>2. ss = [b \in 1 .. n |-> ss[b]]
    BY <1>3
  <2>. HIDE DEF W
  <2>3. ss \in Seq(W) /\ Len(ss) = n
    BY <2>1, <2>2
  <2> QED BY <2>3 DEF W
<1>6. PICK at : Places(ss, middle, at)
  BY <1>5, FlattenPlaces
<1>7. middle \in Seq(1 .. m)
  BY <1>5, FlattenType
<1>8. Range(middle) = 1 .. m
  <2>1. Range(middle) \subseteq 1 .. m
    BY <1>7 DEF Range
  <2>2. ASSUME NEW v \in 1 .. m PROVE v \in Range(middle)
    <3>1. PICK b \in 1 .. n : v \in components[b]
      BY <1>1, <1>3
    <3>2. v \in Range(ss[b])
      BY <1>4, <3>1
    <3>3. v \in Range(FlattenSeq(ss)) <=> \E k \in 1 .. Len(ss) : v \in Range(ss[k])
      BY <1>5, FlattenRange
    <3> QED BY <1>5, <3>2, <3>3
  <2> QED BY <2>1, <2>2
<1>9. Distinct(middle)
  <2>1. DOMAIN middle = 1 .. Len(middle)
    BY <1>7
  <2>. SUFFICES ASSUME NEW p \in 1 .. Len(middle), NEW q \in 1 .. Len(middle), middle[p] = middle[q] PROVE p = q
    BY <2>1 DEF Distinct
  <2>2. PICK k \in 1 .. n : \E i \in 1 .. Len(ss[k]) : p = at[k] + i
    BY <1>5, <1>6 DEF Places
  <2>3. PICK l \in 1 .. n : \E j \in 1 .. Len(ss[l]) : q = at[l] + j
    BY <1>5, <1>6 DEF Places
  <2>4. PICK i \in 1 .. Len(ss[k]) : p = at[k] + i
    BY <2>2
  <2>5. PICK j \in 1 .. Len(ss[l]) : q = at[l] + j
    BY <2>3
  <2>6. middle[p] = ss[k][i] /\ middle[q] = ss[l][j]
    BY <1>5, <1>6, <2>4, <2>5 DEF Places
  <2>7. i \in DOMAIN ss[k] /\ j \in DOMAIN ss[l]
    BY <1>4
  <2>8. ss[k][i] \in components[k] /\ ss[l][j] \in components[l]
    BY <1>4
  <2>9. k = l
    BY <1>1, <1>3, <2>6, <2>8
  <2>10. i = j
    <3>1. PICK r : r = ss[k]
      OBVIOUS
    <3>2. Distinct(r) /\ i \in DOMAIN r /\ j \in DOMAIN r /\ r[i] = r[j]
      BY <1>4, <2>6, <2>7, <2>9, <3>1
    <3> QED BY <3>2 DEF Distinct
  <2> QED BY <2>4, <2>5, <2>9, <2>10
<1>10. Len(middle) = m
  <2>1. Cardinality(Range(middle)) = Len(middle)
    BY <1>7, <1>9, DistinctLen
  <2>2. Cardinality(1 .. m) = m
    BY FS_Interval
  <2> QED BY <1>8, <2>1, <2>2
<1>11. Arrangement(m, middle)
  <2>1. DOMAIN middle = 1 .. m /\ middle \in [1 .. m -> 1 .. m]
    BY <1>7, <1>10
  <2>2. \A i, j \in 1 .. m : middle[i] = middle[j] => i = j
    BY <1>9, <2>1 DEF Distinct
  <2>3. \A x \in 1 .. m : \E i \in 1 .. m : middle[i] = x
    BY <1>8, <2>1 DEF Range
  <2> QED BY <2>1, <2>2, <2>3 DEF Arrangement
<1> QED BY <1>2, <1>5, <1>6, <1>10, <1>11 DEF Arranged

\* Where the elements of an order come from when its middle is rearranged.
From(middle, i) == IF InMiddle(i) THEN prologue + middle[i - prologue] ELSE i

\* The places are rearranged within the middle.
LEMMA FromOf ==
    ASSUME NEW m, Decomposing(m), NEW middle, Arrangement(m, middle)
    PROVE  /\ \A i \in 1 .. file.n : From(middle, i) \in 1 .. file.n
           /\ \A i \in 1 .. file.n : InMiddle(From(middle, i)) <=> InMiddle(i)
           /\ \A i, j \in 1 .. file.n : From(middle, i) = From(middle, j) => i = j
           /\ \A x \in 1 .. file.n : \E i \in 1 .. file.n : From(middle, i) = x
<1>1. /\ m \in Nat /\ prologue \in Nat
      /\ \A v \in 1 .. m : prologue + v \in 1 .. file.n /\ InMiddle(prologue + v)
      /\ \A i : InMiddle(i) => /\ i \in 1 .. file.n /\ i - prologue \in 1 .. m
                               /\ i = prologue + (i - prologue)
  BY MiddleOf DEF Decomposing
<1>2. /\ \A v \in 1 .. m : middle[v] \in 1 .. m
      /\ \A v, w \in 1 .. m : middle[v] = middle[w] => v = w
      /\ \A v \in 1 .. m : \E w \in 1 .. m : middle[w] = v
  BY DEF Arrangement
<1>3. ASSUME NEW i, InMiddle(i)
      PROVE  /\ InMiddle(From(middle, i)) /\ From(middle, i) \in 1 .. file.n
             /\ From(middle, i) = prologue + middle[i - prologue]
  BY <1>1, <1>2, <1>3 DEF From
<1>4. \A i : ~ InMiddle(i) => From(middle, i) = i
  BY DEF From
<1>5. \A i \in 1 .. file.n : From(middle, i) \in 1 .. file.n /\ (InMiddle(From(middle, i)) <=> InMiddle(i))
  BY <1>3, <1>4
<1>6. ASSUME NEW i \in 1 .. file.n, NEW j \in 1 .. file.n, From(middle, i) = From(middle, j) PROVE i = j
  <2>1. CASE InMiddle(i)
    <3>1. InMiddle(j)
      BY <1>5, <1>6, <2>1
    <3>2. PICK v \in 1 .. m : v = i - prologue /\ i = prologue + v
      BY <1>1, <2>1
    <3>3. PICK w \in 1 .. m : w = j - prologue /\ j = prologue + w
      BY <1>1, <3>1
    <3>4. prologue + middle[v] = prologue + middle[w]
      BY <1>3, <1>6, <2>1, <3>1, <3>2, <3>3
    <3>5. middle[v] = middle[w]
      BY <1>1, <1>2, <3>4
    <3> QED BY <1>2, <3>2, <3>3, <3>5
  <2>2. CASE ~ InMiddle(i)
    <3>1. ~ InMiddle(j)
      BY <1>5, <1>6, <2>2
    <3> QED BY <1>4, <1>6, <2>2, <3>1
  <2> QED BY <2>1, <2>2
<1>7. ASSUME NEW x \in 1 .. file.n PROVE \E i \in 1 .. file.n : From(middle, i) = x
  <2>1. CASE ~ InMiddle(x)
    BY <1>4, <2>1
  <2>2. CASE InMiddle(x)
    <3>1. PICK v \in 1 .. m : v = x - prologue /\ x = prologue + v
      BY <1>1, <2>2
    <3>2. PICK w \in 1 .. m : middle[w] = v
      BY <1>2
    <3>3. PICK i \in 1 .. file.n : i = prologue + w /\ InMiddle(i)
      BY <1>1
    <3>4. i - prologue = w
      BY <1>1, <3>3
    <3>5. From(middle, i) = x
      BY <1>3, <3>1, <3>2, <3>3, <3>4
    <3> QED BY <3>5
  <2> QED BY <2>1, <2>2
<1> QED BY <1>5, <1>6, <1>7

\* An order stays one.
LEMMA RearrangedOf ==
    ASSUME NEW m, Decomposing(m), NEW middle, Arrangement(m, middle),
           NEW s, Arrangement(file.n, s), NEW t, t = Rearranged(s, middle)
    PROVE  Arrangement(file.n, t) /\ \A i \in 1 .. file.n : t[i] = s[From(middle, i)]
<1>1. PICK n \in Nat : n = file.n
  BY DEF Decomposing
<1>2. /\ \A i \in 1 .. n : From(middle, i) \in 1 .. n
      /\ \A i, j \in 1 .. n : From(middle, i) = From(middle, j) => i = j
      /\ \A x \in 1 .. n : \E i \in 1 .. n : From(middle, i) = x
  BY <1>1, FromOf
<1>3. /\ DOMAIN s = 1 .. n /\ \A i \in 1 .. n : s[i] \in 1 .. n
      /\ \A i, j \in 1 .. n : s[i] = s[j] => i = j
      /\ \A x \in 1 .. n : \E i \in 1 .. n : s[i] = x
  BY <1>1 DEF Arrangement
<1>4. t = [i \in 1 .. n |-> t[i]] /\ \A i \in 1 .. n : t[i] = s[From(middle, i)]
  BY <1>3 DEF Rearranged, From
<1>5. t \in [1 .. n -> 1 .. n]
  <2>1. \A i \in 1 .. n : t[i] \in 1 .. n
    BY <1>2, <1>3, <1>4
  <2> QED BY <1>4, <2>1
<1>6. \A i, j \in 1 .. n : t[i] = t[j] => i = j
  BY <1>2, <1>3, <1>4
<1>7. ASSUME NEW x \in 1 .. n PROVE \E i \in 1 .. n : t[i] = x
  <2>1. PICK j \in 1 .. n : s[j] = x
    BY <1>3
  <2>2. PICK i \in 1 .. n : From(middle, i) = j
    BY <1>2
  <2> QED BY <1>4, <2>1, <2>2
<1> QED BY <1>1, <1>4, <1>5, <1>6, <1>7 DEF Arrangement

\* The entries between two vertices of a component are in a block.
LEMMA InBlockOf ==
    ASSUME NEW m, Decomposing(m), NEW edges, NEW components, InSequence(m, edges, components),
           NEW b \in DOMAIN components, NEW v \in components[b], NEW w \in components[b],
           NEW d \in jacobian.dynamic, d[2] = eqs[prologue + v], d[3] = vars[prologue + w]
    PROVE  d \in InBlockEntries(components)
<1>1. /\ components[b] \subseteq 1 .. m
      /\ \A c \in DOMAIN components : \A x \in components[b] : x \in components[c] => b = c
  BY DEF InSequence
<1>2. v \in 1 .. m /\ w \in 1 .. m
  BY <1>1
<1>3. /\ m \in Nat /\ prologue \in Nat /\ file.n \in Nat
      /\ \A x \in 1 .. m : prologue + x \in 1 .. file.n /\ InMiddle(prologue + x)
  BY MiddleOf DEF Decomposing
<1>4. ASSUME NEW x \in components[b] PROVE BlockAt(components, prologue + x) = prologue + b
  <2>1. x \in 1 .. m /\ InMiddle(prologue + x)
    BY <1>1, <1>3
  <2>2. ~ (prologue + x =< prologue) /\ (prologue + x) - prologue = x
    BY <1>3, <2>1
  <2>3. (CHOOSE c \in DOMAIN components : x \in components[c]) = b
    BY <1>1
  <2> QED BY <2>1, <2>2, <2>3 DEF BlockAt
<1>5. Place(eqs, eqs[prologue + v]) = prologue + v
  <2>1. Arrangement(file.n, eqs) /\ file.n \in Nat
    BY DEF Decomposing
  <2> QED BY <1>2, <1>3, <2>1, PlaceOf
<1>6. Place(vars, vars[prologue + w]) = prologue + w
  <2>1. Arrangement(file.n, vars) /\ file.n \in Nat
    BY DEF Decomposing
  <2> QED BY <1>2, <1>3, <2>1, PlaceOf
<1>7. BlockAt(components, Place(vars, d[3])) = BlockAt(components, Place(eqs, d[2]))
  BY <1>4, <1>5, <1>6
<1> QED BY <1>7 DEF InBlockEntries

-------------------------------------------------------------------------------
(***************************************************************************)
(* What can be computed: recursive variables in their order                *)
(***************************************************************************)

\* What is known of the variable at place p, at a lag, to the equation at place i of the same block:
\* the recursive places of the block are those up to last.
KnownIn(last, i, p, lag) ==
    /\ i =< last => lag = 0 /\ (p =< i \/ p > last)
    /\ p =< last => lag = 0

\* The components cs, one after the other, can be computed: component k has the places after at[k].
LaidOut(n, dynamic, es, vs, cs, at) ==
    /\ at \in [1 .. Len(cs) + 1 -> Nat] /\ at[1] = 0 /\ at[Len(cs) + 1] = n
    /\ \A k \in 1 .. Len(cs) : /\ cs[k].size \in Nat /\ cs[k].mfs \in 0 .. cs[k].size
                               /\ at[k + 1] = at[k] + cs[k].size
    /\ \A k \in 1 .. Len(cs) : \A i \in at[k] + 1 .. at[k + 1] : \A p \in 1 .. n : \A lag \in -1 .. 1 :
         <<lag, es[i], vs[p]>> \in dynamic =>
           p =< at[k] \/ (p =< at[k + 1] /\ KnownIn(at[k + 1] - cs[k].mfs, i, p, lag))

\* The places of an order with triangular ends.
EndsApart(n, es, vs) ==
    \A i, p \in 1 .. n : <<es[i], vs[p]>> \in jacobian.static =>
      (i =< prologue => p =< i) /\ (p > n - epilogue => i >= p)

\* The ends stay apart.
LEMMA EndsStayApart ==
    ASSUME NEW m, Decomposing(m), NEW middle, Arrangement(m, middle), EndsApart(file.n, eqs, vars),
           NEW es, es = Rearranged(eqs, middle), NEW vs, vs = Rearranged(vars, middle)
    PROVE  EndsApart(file.n, es, vs)
<1>1. PICK n \in Nat : n = file.n
  BY DEF Decomposing
<1>2. /\ \A i \in 1 .. n : From(middle, i) \in 1 .. n
      /\ \A i \in 1 .. n : InMiddle(From(middle, i)) <=> InMiddle(i)
  BY <1>1, FromOf
<1>3. /\ Arrangement(n, eqs) /\ Arrangement(n, vars) /\ prologue \in Nat /\ epilogue \in Nat
  BY <1>1 DEF Decomposing
<1>4. \A i \in 1 .. n : es[i] = eqs[From(middle, i)]
  BY <1>1, <1>3, RearrangedOf
<1>5. \A i \in 1 .. n : vs[i] = vars[From(middle, i)]
  BY <1>1, <1>3, RearrangedOf
<1>6. /\ \A i : InMiddle(i) => i > prologue /\ i =< n - epilogue
      /\ \A i \in 1 .. n : InMiddle(i) \/ i =< prologue \/ i > n - epilogue
      /\ prologue =< n - epilogue
  <2>1. prologue =< n - epilogue
    BY <1>1, <1>3 DEF Decomposing
  <2> QED BY <1>1, <2>1, MiddleOf
<1>7. \A i : ~ InMiddle(i) => From(middle, i) = i
  BY DEF From
<1>. SUFFICES ASSUME NEW i \in 1 .. n, NEW p \in 1 .. n, <<es[i], vs[p]>> \in jacobian.static
     PROVE  (i =< prologue => p =< i) /\ (p > n - epilogue => i >= p)
  BY <1>1 DEF EndsApart
<1>8. PICK j \in 1 .. n : j = From(middle, i) /\ (InMiddle(j) <=> InMiddle(i)) /\ (~ InMiddle(i) => j = i)
  BY <1>2, <1>7
<1>9. PICK q \in 1 .. n : q = From(middle, p) /\ (InMiddle(q) <=> InMiddle(p)) /\ (~ InMiddle(p) => q = p)
  BY <1>2, <1>7
<1>10. <<eqs[j], vars[q]>> \in jacobian.static
  BY <1>4, <1>5, <1>8, <1>9
<1>11. (j =< prologue => q =< j) /\ (q > n - epilogue => j >= q)
  BY <1>1, <1>10 DEF EndsApart
<1>12. ASSUME i =< prologue PROVE p =< i
  <2>1. ~ InMiddle(i)
    BY <1>3, <1>6, <1>12
  <2>2. j = i /\ q =< i
    BY <1>8, <1>11, <1>12, <2>1
  <2>3. ~ InMiddle(q)
    BY <1>3, <1>6, <1>12, <2>2
  <2> QED BY <1>9, <2>2, <2>3
<1>13. ASSUME p > n - epilogue PROVE i >= p
  <2>1. ~ InMiddle(p)
    BY <1>3, <1>6, <1>13
  <2>2. q = p /\ j >= p
    BY <1>9, <1>11, <1>13, <2>1
  <2>3. ~ InMiddle(j)
    BY <1>3, <1>6, <1>13, <2>2
  <2> QED BY <1>8, <2>2, <2>3
<1> QED BY <1>12, <1>13

\* The components of the middle, one after the other: component b has the places after atm[b] of
\* the middle, and can be computed after the earlier ones.
MiddleLaid(m, middle, ordered, atm) ==
    /\ atm \in [1 .. Len(ordered) + 1 -> Nat] /\ atm[1] = 0 /\ atm[Len(ordered) + 1] = m
    /\ \A b \in 1 .. Len(ordered) : /\ ordered[b].size \in Nat /\ ordered[b].mfs \in 0 .. ordered[b].size
                                    /\ atm[b + 1] = atm[b] + ordered[b].size
    /\ \A b \in 1 .. Len(ordered) : \A i \in atm[b] + 1 .. atm[b + 1] : \A p \in 1 .. m : \A lag \in -1 .. 1 :
         <<lag, eqs[prologue + middle[i]], vars[prologue + middle[p]]>> \in jacobian.dynamic =>
           p =< atm[b] \/ (p =< atm[b + 1] /\ KnownIn(atm[b + 1] - ordered[b].mfs, i, p, lag))

-------------------------------------------------------------------------------
(***************************************************************************)
(* The parts of the middle and of the model                                *)
(***************************************************************************)

\* The parts of the middle: component b has the places after atm[b].
Parted(m, components, E, ordered, middle, atm) ==
    /\ DOMAIN ordered = 1 .. Len(components) /\ Len(ordered) = Len(components)
    /\ atm \in [1 .. Len(ordered) + 1 -> Nat] /\ atm[1] = 0 /\ atm[Len(ordered) + 1] = m
    /\ \A b \in 1 .. Len(ordered) : /\ ordered[b].size \in Nat /\ ordered[b].mfs \in 0 .. ordered[b].size
                                    /\ atm[b + 1] = atm[b] + ordered[b].size
    /\ \A b \in 1 .. Len(ordered) : \A x \in 1 .. ordered[b].size : middle[atm[b] + x] \in components[b]
    /\ \A p \in 1 .. m : \E b \in 1 .. Len(ordered) : \E x \in 1 .. ordered[b].size : p = atm[b] + x
    /\ \A b \in 1 .. Len(ordered) : \A x, y \in 1 .. ordered[b].size - ordered[b].mfs :
         <<middle[atm[b] + x], middle[atm[b] + y]>> \in E => x < y
    /\ \A b \in 1 .. Len(ordered) : \A x, y \in 1 .. ordered[b].size :
         middle[atm[b] + x] = middle[atm[b] + y] => x = y
    /\ \A k, l \in 1 .. Len(ordered) + 1 : k =< l => atm[k] =< atm[l]

\* The orders of the components are such parts.
LEMMA MiddleParted ==
    ASSUME NEW m \in Nat, NEW edges, NEW components, InSequence(m, edges, components),
           NEW E, NEW ordered, DOMAIN ordered = DOMAIN components,
           \A b \in DOMAIN components : Solvable(components[b], E, ordered[b]),
           NEW middle, middle = FlattenSeq([b \in DOMAIN ordered |-> ordered[b].order])
    PROVE  Arrangement(m, middle) /\ \E atm : Parted(m, components, E, ordered, middle, atm)
<1>1. PICK ss : ss = [b \in DOMAIN ordered |-> ordered[b].order]
  OBVIOUS
<1>4. /\ ss \in Seq(Seq(1 .. m)) /\ Len(ss) = Len(components)
      /\ Arrangement(m, middle) /\ Len(middle) = m
      /\ \E at : Places(ss, middle, at)
  <2>1. middle = FlattenSeq(ss)
    BY <1>1
  <2>2. Arranged(m, components, ss, middle)
    BY <1>1, <2>1, MiddleArranged
  <2> QED BY <2>2 DEF Arranged
<1>5. PICK atm : Places(ss, middle, atm)
  BY <1>4
<1>6. PICK n \in Nat : n = Len(components) /\ DOMAIN components = 1 .. n
  BY DEF InSequence
<1>7. Len(ordered) = n /\ DOMAIN ordered = 1 .. n /\ Len(ss) = n /\ DOMAIN ss = 1 .. n
  <2>1. DOMAIN ordered = 1 .. n
    BY <1>6
  <2>2. Len(ordered) = n
    BY <2>1
  <2>3. Len(ss) = n
    BY <1>4, <1>6
  <2>4. DOMAIN ss = 1 .. n
    BY <1>1, <2>1
  <2> QED BY <2>1, <2>2, <2>3, <2>4
<1>8. ASSUME NEW b \in 1 .. n
      PROVE  /\ ss[b] = ordered[b].order /\ Len(ss[b]) = ordered[b].size /\ Len(ss[b]) \in Nat
             /\ ordered[b].mfs \in 0 .. ordered[b].size
             /\ \A x \in 1 .. ordered[b].size : ss[b][x] \in components[b]
             /\ \A x, y \in 1 .. ordered[b].size : ss[b][x] = ss[b][y] => x = y
             /\ \A x, y \in 1 .. ordered[b].size - ordered[b].mfs : <<ss[b][x], ss[b][y]>> \in E => x < y
  <2>1. PICK c : c = ordered[b]
    OBVIOUS
  <2>2. PICK r : r = ss[b]
    OBVIOUS
  <2>3. PICK C : C = components[b]
    OBVIOUS
  <2>4. r = c.order
    BY <1>1, <1>7, <2>1, <2>2
  <2>5. /\ r \in Seq(C) /\ Distinct(r)
        /\ c.size = Len(r) /\ c.mfs \in 0 .. c.size
        /\ \A i, j \in 1 .. c.size - c.mfs : <<r[i], r[j]>> \in E => i < j
    <3>1. Solvable(C, E, c)
      BY <1>6, <2>1, <2>3
    <3> QED BY <2>4, <3>1 DEF Solvable
  <2>6. DOMAIN r = 1 .. c.size /\ Len(r) \in Nat /\ \A x \in 1 .. c.size : r[x] \in C
    BY <2>5
  <2>7. \A x, y \in 1 .. c.size : r[x] = r[y] => x = y
    BY <2>5, <2>6 DEF Distinct
  <2> QED BY <2>1, <2>2, <2>3, <2>4, <2>5, <2>6, <2>7
<1>81. \A b \in 1 .. n : /\ Len(ss[b]) = ordered[b].size /\ ordered[b].size \in Nat
                         /\ ordered[b].mfs \in 0 .. ordered[b].size
  BY <1>8
<1>82. \A b \in 1 .. n : \A x \in 1 .. ordered[b].size : ss[b][x] \in components[b]
  BY <1>8
<1>83. \A b \in 1 .. n : \A x, y \in 1 .. ordered[b].size : ss[b][x] = ss[b][y] => x = y
  BY <1>8
<1>84. \A b \in 1 .. n : \A x, y \in 1 .. ordered[b].size - ordered[b].mfs : <<ss[b][x], ss[b][y]>> \in E => x < y
  BY <1>8
<1>91. atm \in [1 .. n + 1 -> Nat] /\ atm[1] = 0 /\ atm[n + 1] = m
  BY <1>4, <1>5, <1>7 DEF Places
<1>92. \A b \in 1 .. n : atm[b + 1] = atm[b] + Len(ss[b])
  BY <1>5, <1>7 DEF Places
<1>93. \A b \in 1 .. n : \A x \in 1 .. Len(ss[b]) : middle[atm[b] + x] = ss[b][x]
  BY <1>5, <1>7 DEF Places
<1>94. \A p \in 1 .. m : \E b \in 1 .. n : \E x \in 1 .. Len(ss[b]) : p = atm[b] + x
  <2>1. Len(middle) = m
    BY <1>4
  <2>2. \A p \in 1 .. Len(middle) : \E b \in 1 .. Len(ss) : \E x \in 1 .. Len(ss[b]) : p = atm[b] + x
    BY <1>5 DEF Places
  <2>3. Len(ss) = n
    BY <1>7
  <2> QED BY <2>1, <2>2, <2>3
<1>11. \A b \in 1 .. n : /\ ordered[b].size \in Nat /\ ordered[b].mfs \in 0 .. ordered[b].size
                         /\ atm[b + 1] = atm[b] + ordered[b].size
  BY <1>81, <1>92
<1>12. \A b \in 1 .. n : \A x \in 1 .. ordered[b].size : middle[atm[b] + x] = ss[b][x]
  BY <1>81, <1>93
<1>13. \A p \in 1 .. m : \E b \in 1 .. n : \E x \in 1 .. ordered[b].size : p = atm[b] + x
  BY <1>81, <1>94
<1>14. \A b \in 1 .. n : \A x \in 1 .. ordered[b].size : middle[atm[b] + x] \in components[b]
  BY <1>12, <1>82
<1>15. \A b \in 1 .. n : \A x, y \in 1 .. ordered[b].size : middle[atm[b] + x] = middle[atm[b] + y] => x = y
  BY <1>12, <1>83
<1>16. \A b \in 1 .. n : \A x, y \in 1 .. ordered[b].size - ordered[b].mfs :
         <<middle[atm[b] + x], middle[atm[b] + y]>> \in E => x < y
  <2>. TAKE b \in 1 .. n
  <2>. TAKE x, y \in 1 .. ordered[b].size - ordered[b].mfs
  <2>1. x \in 1 .. ordered[b].size /\ y \in 1 .. ordered[b].size
    BY <1>81
  <2>2. middle[atm[b] + x] = ss[b][x] /\ middle[atm[b] + y] = ss[b][y]
    BY <1>12, <2>1
  <2> QED BY <1>84, <2>2
<1>17. \A k, l \in 1 .. n + 1 : k =< l => atm[k] =< atm[l]
  <2>. SUFFICES ASSUME NEW k \in 1 .. n + 1 PROVE \A l \in 1 .. n + 1 : k =< l => atm[k] =< atm[l]
    OBVIOUS
  <2>1. Len(ss) \in Nat /\ \A b \in 1 .. Len(ss) : Len(ss[b]) \in Nat
    BY <1>7, <1>81
  <2>2. k \in 1 .. Len(ss) + 1
    BY <1>7
  <2>3. \A l \in 1 .. Len(ss) + 1 : k =< l => atm[k] =< atm[l]
    BY <1>5, <2>1, <2>2, PlacesGrow
  <2> QED BY <1>7, <2>3
<1>18. Parted(m, components, E, ordered, middle, atm)
  BY <1>6, <1>7, <1>91, <1>11, <1>13, <1>14, <1>15, <1>16, <1>17 DEF Parted
<1> QED BY <1>4, <1>18

\* The order of the middle can be computed.
LEMMA ComponentsLaid ==
    ASSUME NEW m, Decomposing(m), NEW edges, NEW components, InSequence(m, edges, components),
           \A v, w \in 1 .. m : v # w /\ <<eqs[prologue + v], vars[prologue + w]>> \in jacobian.static
                                  => <<w, v>> \in edges,
           NEW inBlock, inBlock = InBlockEntries(components),
           NEW E,
           \A v, w \in 1 .. m : v # w /\ <<eqs[prologue + v], vars[prologue + w]>> \in jacobian.static => <<w, v>> \in E,
           \A v \in 1 .. m : <<v, v>> \in E \/ StaticAt(inBlock, v),
           NEW ordered, NEW middle, NEW atm, Parted(m, components, E, ordered, middle, atm)
    PROVE  MiddleLaid(m, middle, ordered, atm)
<1>2. m \in Nat /\ prologue \in Nat /\ Fitting(file, jacobian)
  BY DEF Decomposing
<1>6. PICK n \in Nat : n = Len(components) /\ DOMAIN components = 1 .. n
  BY DEF InSequence
<1>7. Len(ordered) = n
  BY <1>6 DEF Parted
<1>9. atm \in [1 .. n + 1 -> Nat] /\ atm[1] = 0 /\ atm[n + 1] = m
  BY <1>7 DEF Parted
<1>10. \A k, l \in 1 .. n + 1 : k =< l => atm[k] =< atm[l]
  BY <1>7 DEF Parted
<1>11. \A b \in 1 .. n : /\ ordered[b].size \in Nat /\ ordered[b].mfs \in 0 .. ordered[b].size
                         /\ atm[b + 1] = atm[b] + ordered[b].size
  BY <1>7 DEF Parted
<1>13. \A p \in 1 .. m : \E b \in 1 .. n : \E x \in 1 .. ordered[b].size : p = atm[b] + x
  BY <1>7 DEF Parted
<1>14. \A b \in 1 .. n : \A x \in 1 .. ordered[b].size : middle[atm[b] + x] \in components[b]
  BY <1>7 DEF Parted
<1>15. \A b \in 1 .. n : \A x, y \in 1 .. ordered[b].size : middle[atm[b] + x] = middle[atm[b] + y] => x = y
  BY <1>7 DEF Parted
<1>16. \A b \in 1 .. n : \A x, y \in 1 .. ordered[b].size - ordered[b].mfs :
         <<middle[atm[b] + x], middle[atm[b] + y]>> \in E => x < y
  BY <1>7 DEF Parted
<1>20. ASSUME NEW b \in 1 .. n, NEW i \in atm[b] + 1 .. atm[b + 1], NEW p \in 1 .. m, NEW lag \in -1 .. 1,
              <<lag, eqs[prologue + middle[i]], vars[prologue + middle[p]]>> \in jacobian.dynamic
       PROVE  p =< atm[b] \/ (p =< atm[b + 1] /\ KnownIn(atm[b + 1] - ordered[b].mfs, i, p, lag))
  <2>1. /\ atm[b] \in Nat /\ atm[b + 1] = atm[b] + ordered[b].size /\ ordered[b].size \in Nat
        /\ ordered[b].mfs \in 0 .. ordered[b].size
    <3>1. b \in 1 .. n + 1
      OBVIOUS
    <3>2. atm[b] \in Nat
      BY <1>9, <3>1
    <3> QED BY <1>11, <3>2
  <2>2. PICK x \in 1 .. ordered[b].size : i = atm[b] + x
    <3>1. i - atm[b] \in 1 .. ordered[b].size /\ i = atm[b] + (i - atm[b])
      BY <2>1
    <3> QED BY <3>1
  <2>3. PICK v : v = middle[i]
    OBVIOUS
  <2>4. middle[atm[b] + x] = v /\ v \in components[b]
    BY <1>14, <2>2, <2>3
  <2>5. PICK c \in 1 .. n : \E y \in 1 .. ordered[c].size : p = atm[c] + y
    BY <1>13
  <2>6. PICK y \in 1 .. ordered[c].size : p = atm[c] + y
    BY <2>5
  <2>7. PICK w : w = middle[p]
    OBVIOUS
  <2>8. middle[atm[c] + y] = w /\ w \in components[c]
    BY <1>14, <2>6, <2>7
  <2>9. v \in 1 .. m /\ w \in 1 .. m
    BY <1>6, <2>4, <2>8 DEF InSequence
  <2>10. PICK d : d = <<lag, eqs[prologue + v], vars[prologue + w]>>
    OBVIOUS
  <2>11. /\ d \in jacobian.dynamic /\ d[1] = lag /\ d[2] = eqs[prologue + v] /\ d[3] = vars[prologue + w]
         /\ <<eqs[prologue + v], vars[prologue + w]>> \in jacobian.static
    <3>1. d \in jacobian.dynamic /\ d[1] = lag /\ d[2] = eqs[prologue + v] /\ d[3] = vars[prologue + w]
      BY <1>20, <2>3, <2>7, <2>10
    <3>2. <<d[2], d[3]>> \in jacobian.static
      BY <1>2, <3>1 DEF Fitting
    <3> QED BY <3>1, <3>2
  <2>12. c =< b
    <3>1. CASE v = w
      <4>1. c = b
        BY <1>6, <2>4, <2>8, <3>1 DEF InSequence
      <4> QED BY <4>1
    <3>2. CASE v # w
      <4>1. PICK e : e = <<w, v>>
        OBVIOUS
      <4>2. e \in edges /\ e[1] \in components[c] /\ e[2] \in components[b]
        BY <2>4, <2>8, <2>9, <2>11, <3>2, <4>1
      <4> QED BY <1>6, <4>2 DEF InSequence
    <3> QED BY <3>1, <3>2
  <2>13. CASE c < b
    <3>1. c + 1 \in 1 .. n + 1 /\ b \in 1 .. n + 1 /\ c + 1 =< b /\ c \in 1 .. n + 1
      BY <2>13
    <3>2. atm[c + 1] =< atm[b]
      BY <1>10, <3>1
    <3>3. atm[c + 1] = atm[c] + ordered[c].size /\ atm[c] \in Nat /\ ordered[c].size \in Nat
      BY <1>9, <1>11, <3>1
    <3>4. p =< atm[c + 1]
      BY <2>6, <3>3
    <3> QED BY <2>1, <3>2, <3>3, <3>4
  <2>14. CASE c = b
    <3>1. p = atm[b] + y /\ y \in 1 .. ordered[b].size /\ w = middle[atm[b] + y] /\ w \in components[b]
      BY <2>6, <2>7, <2>8, <2>14
    <3>2. d \in inBlock
      <4>1. b \in DOMAIN components
        BY <1>6
      <4> QED BY <2>4, <2>11, <3>1, <4>1, InBlockOf
    <3>3. PICK k \in Nat : k = ordered[b].size - ordered[b].mfs /\ atm[b + 1] - ordered[b].mfs = atm[b] + k
      BY <2>1
    <3>31. \A z, u \in 1 .. k : <<middle[atm[b] + z], middle[atm[b] + u]>> \in E => z < u
      BY <1>16, <3>3
    <3>4. ASSUME i =< atm[b] + k PROVE lag = 0
      <4>1. x \in 1 .. k
        BY <2>1, <2>2, <3>3, <3>4
      <4>2. <<v, v>> \notin E
        BY <2>4, <3>31, <4>1
      <4>3. StaticAt(inBlock, v)
        BY <2>9, <4>2
      <4> QED BY <2>11, <3>2, <4>3 DEF StaticAt
    <3>5. ASSUME p =< atm[b] + k PROVE lag = 0
      <4>1. y \in 1 .. k
        BY <2>1, <3>1, <3>3, <3>5
      <4>2. <<w, w>> \notin E
        BY <3>1, <3>31, <4>1
      <4>3. StaticAt(inBlock, w)
        BY <2>9, <4>2
      <4> QED BY <2>11, <3>2, <4>3 DEF StaticAt
    <3>6. ASSUME i =< atm[b] + k, p =< atm[b] + k PROVE p =< i
      <4>1. x \in 1 .. k /\ y \in 1 .. k
        BY <2>1, <2>2, <3>1, <3>3, <3>6
      <4>2. CASE v = w
        <5>1. x = y
          BY <1>15, <2>2, <2>4, <3>1, <4>2
        <5> QED BY <2>1, <2>2, <3>1, <5>1
      <4>3. CASE v # w
        <5>1. <<w, v>> \in E
          BY <2>9, <2>11, <4>3
        <5>3. y < x
          BY <2>4, <3>1, <3>31, <4>1, <5>1
        <5> QED BY <2>1, <2>2, <3>1, <5>3
      <4> QED BY <4>2, <4>3
    <3>7. p \in Int /\ i \in Int /\ atm[b] + k \in Int
      BY <2>1
    <3>8. KnownIn(atm[b + 1] - ordered[b].mfs, i, p, lag)
      <4>1. p =< atm[b] + k \/ p > atm[b] + k
        BY <3>7
      <4> QED BY <3>3, <3>4, <3>5, <3>6, <4>1 DEF KnownIn
    <3>9. p =< atm[b + 1]
      BY <2>1, <3>1
    <3> QED BY <3>8, <3>9
  <2>15. c \in Int /\ b \in Int
    OBVIOUS
  <2> QED BY <2>12, <2>13, <2>14, <2>15
<1> QED BY <1>7, <1>9, <1>11, <1>20 DEF MiddleLaid

\* Parts one after the other: they grow.
LEMMA PartsGrow ==
    ASSUME NEW n \in Nat, NEW at \in [1 .. n + 1 -> Nat], NEW cs,
           \A j \in 1 .. n : cs[j].size \in Nat /\ at[j + 1] = at[j] + cs[j].size,
           NEW k \in 1 .. n + 1
    PROVE  \A l \in 1 .. n + 1 : k =< l => at[k] =< at[l]
<1>1. \A j \in 1 .. n + 1 : at[j] \in Nat
  OBVIOUS
<1>2. \A j \in 1 .. n : at[j + 1] >= at[j]
  <2>1. ASSUME NEW j \in 1 .. n PROVE at[j + 1] >= at[j]
    <3>1. at[j] \in Nat /\ cs[j].size \in Nat /\ at[j + 1] = at[j] + cs[j].size
      BY <1>1
    <3> QED BY <3>1
  <2> QED BY <2>1
<1>. DEFINE Has == {j \in Nat : k + j =< n + 1 => at[k] =< at[k + j]}
<1>3. 0 \in Has
  <2>1. k + 0 = k /\ at[k] \in Nat
    BY <1>1
  <2> QED BY <2>1
<1>4. ASSUME NEW j \in Nat, j \in Has PROVE j + 1 \in Has
  <2>. SUFFICES ASSUME k + (j + 1) =< n + 1 PROVE at[k] =< at[k + (j + 1)]
    OBVIOUS
  <2>1. at[k] =< at[k + j]
    BY <1>4
  <2>2. PICK i \in 1 .. n : i = k + j /\ i + 1 = k + (j + 1)
    OBVIOUS
  <2>3. at[i + 1] >= at[i] /\ at[i] \in Nat /\ at[i + 1] \in Nat /\ at[k] \in Nat
    BY <1>1, <1>2, <2>2
  <2> QED BY <2>1, <2>2, <2>3
<1>. HIDE DEF Has
<1>5. \A j \in Nat : j \in Has
  BY <1>3, <1>4, Induction
<1>. SUFFICES ASSUME NEW l \in 1 .. n + 1, k =< l PROVE at[k] =< at[l]
  OBVIOUS
<1>6. PICK j \in Nat : j = l - k /\ k + j = l
  OBVIOUS
<1>7. k + j =< n + 1 => at[k] =< at[k + j]
  BY <1>5 DEF Has
<1> QED BY <1>6, <1>7

\* The components: those of the middle are between the ends.
AllOf(cs, ordered) ==
    /\ Len(ordered) \in Nat
    /\ Len(cs) = prologue + Len(ordered) + epilogue
    /\ \A k \in 1 .. prologue : cs[k].size = 1 /\ cs[k].mfs = 1
    /\ \A b \in 1 .. Len(ordered) : cs[prologue + b].size = ordered[b].size /\ cs[prologue + b].mfs = ordered[b].mfs
    /\ \A k \in 1 .. epilogue : /\ cs[prologue + Len(ordered) + k].size = 1
                                /\ cs[prologue + Len(ordered) + k].mfs = 1

\* Where they are.
AllAt(m, B, atm) ==
    [k \in 1 .. prologue + B + epilogue + 1 |->
       IF k =< prologue THEN k - 1 ELSE IF k =< prologue + B THEN prologue + atm[k - prologue] ELSE m + (k - 1 - B)]

\* The ends have one place each, around the parts of the middle.
AllPlaced(m, B, atm, at) ==
    /\ at \in [1 .. (prologue + B + epilogue) + 1 -> Nat]
    /\ \A k \in 1 .. prologue + 1 : at[k] = k - 1
    /\ \A b \in 1 .. B + 1 : at[prologue + b] = prologue + atm[b]
    /\ \A k \in 1 .. epilogue + 1 : at[prologue + B + k] = prologue + m + (k - 1)

\* The places of all the components are such.
LEMMA AllAtOf ==
    ASSUME NEW m \in Nat, prologue \in Nat, epilogue \in Nat, NEW B \in Nat,
           NEW atm \in [1 .. B + 1 -> Nat], atm[1] = 0, atm[B + 1] = m,
           NEW at, at = AllAt(m, B, atm)
    PROVE  AllPlaced(m, B, atm, at)
<1>. DEFINE P == prologue
            F == epilogue
<1>1. P \in Nat /\ F \in Nat
  OBVIOUS
<1>2. at = [k \in 1 .. P + B + F + 1 |->
              IF k =< P THEN k - 1 ELSE IF k =< P + B THEN P + atm[k - P] ELSE m + (k - 1 - B)]
  BY DEF AllAt
<1>. HIDE DEF P, F
<1>3. \A k \in 1 .. P : at[k] = k - 1
  BY <1>1, <1>2
<1>4. ASSUME NEW b \in 1 .. B PROVE at[P + b] = P + atm[b]
  <2>1. PICK k \in 1 .. P + B + F + 1 : k = P + b
    BY <1>1
  <2>2. ~ (k =< P) /\ k =< P + B /\ k - P = b
    BY <1>1, <2>1
  <2> QED BY <1>2, <2>1, <2>2
<1>5. ASSUME NEW k \in 1 .. F + 1 PROVE at[P + B + k] = P + m + (k - 1)
  <2>1. PICK l \in 1 .. P + B + F + 1 : l = P + B + k
    BY <1>1
  <2>2. ~ (l =< P) /\ ~ (l =< P + B) /\ m + (l - 1 - B) = P + m + (k - 1)
    BY <1>1, <2>1
  <2> QED BY <1>2, <2>1, <2>2
<1>6. ASSUME NEW b \in 1 .. B + 1 PROVE at[P + b] = P + atm[b]
  <2>1. CASE b \in 1 .. B
    BY <1>4, <2>1
  <2>2. CASE b = B + 1
    <3>1. P + b = P + B + 1 /\ 1 \in 1 .. F + 1
      BY <1>1, <2>2
    <3>2. at[P + b] = P + m + (1 - 1)
      BY <1>5, <3>1
    <3> QED BY <1>1, <2>2, <3>2
  <2> QED BY <2>1, <2>2
<1>7. ASSUME NEW k \in 1 .. P + 1 PROVE at[k] = k - 1
  <2>1. CASE k \in 1 .. P
    BY <1>3, <2>1
  <2>2. CASE k = P + 1
    <3>1. at[P + 1] = P + atm[1]
      BY <1>6
    <3> QED BY <1>1, <2>2, <3>1
  <2> QED BY <1>1, <2>1, <2>2
<1>8. at \in [1 .. (P + B + F) + 1 -> Nat]
  <2>1. ASSUME NEW k \in 1 .. P + B + F + 1 PROVE at[k] \in Nat
    <3>1. CASE k =< P
      BY <1>1, <1>3, <3>1
    <3>2. CASE ~ (k =< P) /\ k =< P + B
      <4>1. PICK b \in 1 .. B : b = k - P /\ k = P + b
        BY <1>1, <3>2
      <4>2. at[k] = P + atm[b] /\ atm[b] \in Nat
        BY <1>4, <4>1
      <4> QED BY <1>1, <4>2
    <3>3. CASE ~ (k =< P + B)
      <4>1. PICK l \in 1 .. F + 1 : k = P + B + l
        <5>1. k - P - B \in 1 .. F + 1 /\ k = P + B + (k - P - B)
          BY <1>1, <3>3
        <5> QED BY <5>1
      <4>2. at[k] = P + m + (l - 1)
        BY <1>5, <4>1
      <4> QED BY <1>1, <4>2
    <3> QED BY <1>1, <3>1, <3>2, <3>3
  <2>2. at = [k \in 1 .. P + B + F + 1 |-> at[k]]
    BY <1>2
  <2> QED BY <1>1, <2>1, <2>2
<1> QED BY <1>5, <1>6, <1>7, <1>8 DEF P, F, AllPlaced

\* A pair by itself.
LEMMA KnownAlone == \A i \in Nat : \A lag : KnownIn(i - 1, i, i, lag)
  BY DEF KnownIn

\* What is known stays so when all the places move.
LEMMA KnownShifted ==
    ASSUME NEW P \in Nat, NEW last \in Int, NEW i \in Int, NEW p \in Int, NEW lag, KnownIn(last, i, p, lag)
    PROVE  KnownIn(P + last, P + i, P + p, lag)
<1>1. /\ i =< last => lag = 0 /\ (p =< i \/ p > last)
      /\ p =< last => lag = 0
  BY DEF KnownIn
<1>2. /\ P + i =< P + last <=> i =< last
      /\ P + p =< P + last <=> p =< last
      /\ P + p =< P + i <=> p =< i
      /\ P + p > P + last <=> p > last
  OBVIOUS
<1> QED BY <1>1, <1>2 DEF KnownIn

\* Rearranged, the components can be computed one after the other.
LEMMA AllLaid ==
    ASSUME NEW m, Decomposing(m), NEW middle, Arrangement(m, middle), EndsApart(file.n, eqs, vars),
           NEW ordered, NEW atm, MiddleLaid(m, middle, ordered, atm), NEW cs, AllOf(cs, ordered),
           NEW es, es = Rearranged(eqs, middle), NEW vs, vs = Rearranged(vars, middle)
    PROVE  LaidOut(file.n, jacobian.dynamic, es, vs, cs, AllAt(m, Len(ordered), atm))
<1>1. PICK n \in Nat : n = file.n
  BY DEF Decomposing
<1>2. PICK B \in Nat : B = Len(ordered)
  BY DEF AllOf
<1>3. /\ m \in Nat /\ prologue \in Nat /\ epilogue \in Nat /\ n = prologue + m + epilogue
      /\ Fitting(file, jacobian) /\ Arrangement(n, eqs) /\ Arrangement(n, vars)
  BY <1>1 DEF Decomposing
<1>4. /\ atm \in [1 .. B + 1 -> Nat] /\ atm[1] = 0 /\ atm[B + 1] = m
  BY <1>2 DEF MiddleLaid
<1>5. PICK at : at = AllAt(m, B, atm)
  OBVIOUS
<1>6. /\ at \in [1 .. (prologue + B + epilogue) + 1 -> Nat]
      /\ \A k \in 1 .. prologue + 1 : at[k] = k - 1
      /\ \A b \in 1 .. B + 1 : at[prologue + b] = prologue + atm[b]
      /\ \A k \in 1 .. epilogue + 1 : at[prologue + B + k] = prologue + m + (k - 1)
  <2>1. AllPlaced(m, B, atm, at)
    BY <1>3, <1>4, <1>5, AllAtOf
  <2> QED BY <2>1 DEF AllPlaced
<1>7. PICK L \in Nat : L = prologue + B + epilogue /\ Len(cs) = L
  BY <1>2, <1>3 DEF AllOf
<1>8. at[1] = 0
  <2>1. 1 \in 1 .. prologue + 1
    BY <1>3
  <2> QED BY <1>6, <2>1
<1>9. at[L + 1] = n
  <2>1. epilogue + 1 \in 1 .. epilogue + 1 /\ prologue + B + (epilogue + 1) = L + 1
        /\ prologue + m + ((epilogue + 1) - 1) = n
    BY <1>3, <1>7
  <2> QED BY <1>6, <2>1
<1>10. EndsApart(n, es, vs)
  BY <1>1, EndsStayApart
<1>11. /\ \A i \in 1 .. n : es[i] = eqs[From(middle, i)]
       /\ \A i \in 1 .. n : vs[i] = vars[From(middle, i)]
  <2>1. \A i \in 1 .. n : es[i] = eqs[From(middle, i)]
    BY <1>1, <1>3, RearrangedOf
  <2>2. \A i \in 1 .. n : vs[i] = vars[From(middle, i)]
    BY <1>1, <1>3, RearrangedOf
  <2> QED BY <2>1, <2>2
<1>12. ASSUME NEW v \in 1 .. m
       PROVE  es[prologue + v] = eqs[prologue + middle[v]] /\ vs[prologue + v] = vars[prologue + middle[v]]
  <2>1. InMiddle(prologue + v) /\ prologue + v \in 1 .. n /\ (prologue + v) - prologue = v
    BY <1>1, <1>3, MiddleOf
  <2>2. From(middle, prologue + v) = prologue + middle[v]
    BY <2>1 DEF From
  <2> QED BY <1>11, <2>1, <2>2
<1>13. ASSUME NEW k \in 1 .. L
       PROVE  \/ k \in 1 .. prologue
              \/ \E b \in 1 .. B : k = prologue + b
              \/ \E e \in 1 .. epilogue : k = prologue + B + e
  <2>1. CASE k =< prologue
    BY <2>1
  <2>2. CASE ~ (k =< prologue) /\ k =< prologue + B
    <3>1. k - prologue \in 1 .. B /\ k = prologue + (k - prologue)
      BY <1>3, <2>2
    <3> QED BY <3>1
  <2>3. CASE ~ (k =< prologue + B)
    <3>1. k - prologue - B \in 1 .. epilogue /\ k = prologue + B + (k - prologue - B)
      BY <1>3, <1>7, <2>3
    <3> QED BY <3>1
  <2> QED BY <1>3, <2>1, <2>2, <2>3
<1>14. \A b \in 1 .. B : /\ ordered[b].size \in Nat /\ ordered[b].mfs \in 0 .. ordered[b].size
                         /\ atm[b + 1] = atm[b] + ordered[b].size
  BY <1>2 DEF MiddleLaid
<1>15. /\ \A k \in 1 .. prologue : cs[k].size = 1 /\ cs[k].mfs = 1
       /\ \A b \in 1 .. B : cs[prologue + b].size = ordered[b].size /\ cs[prologue + b].mfs = ordered[b].mfs
       /\ \A k \in 1 .. epilogue : cs[prologue + B + k].size = 1 /\ cs[prologue + B + k].mfs = 1
  BY <1>2 DEF AllOf
<1>16. ASSUME NEW k \in 1 .. L
       PROVE  /\ cs[k].size \in Nat /\ cs[k].mfs \in 0 .. cs[k].size
              /\ at[k + 1] = at[k] + cs[k].size
  <2>1. CASE k \in 1 .. prologue
    <3>1. cs[k].size = 1 /\ cs[k].mfs = 1
      BY <1>15, <2>1
    <3>2. at[k] = k - 1 /\ at[k + 1] = (k + 1) - 1
      BY <1>3, <1>6, <2>1
    <3> QED BY <3>1, <3>2
  <2>2. CASE \E b \in 1 .. B : k = prologue + b
    <3>1. PICK b \in 1 .. B : k = prologue + b /\ k + 1 = prologue + (b + 1)
      BY <1>3, <2>2
    <3>2. cs[k].size = ordered[b].size /\ cs[k].mfs = ordered[b].mfs
      BY <1>15, <3>1
    <3>3. b \in 1 .. B + 1 /\ b + 1 \in 1 .. B + 1
      OBVIOUS
    <3>4. at[k] = prologue + atm[b] /\ at[k + 1] = prologue + atm[b + 1]
      BY <1>6, <3>1, <3>3
    <3>5. /\ ordered[b].size \in Nat /\ ordered[b].mfs \in 0 .. ordered[b].size
          /\ atm[b + 1] = atm[b] + ordered[b].size
      BY <1>14
    <3>6. atm[b] \in Nat
      BY <1>4, <3>3
    <3> QED BY <1>3, <3>2, <3>4, <3>5, <3>6
  <2>3. CASE \E e \in 1 .. epilogue : k = prologue + B + e
    <3>1. PICK e \in 1 .. epilogue : k = prologue + B + e /\ k + 1 = prologue + B + (e + 1)
      BY <1>3, <2>3
    <3>2. cs[k].size = 1 /\ cs[k].mfs = 1
      BY <1>15, <3>1
    <3>3. e \in 1 .. epilogue + 1 /\ e + 1 \in 1 .. epilogue + 1
      BY <1>3
    <3>4. at[k] = prologue + m + (e - 1) /\ at[k + 1] = prologue + m + ((e + 1) - 1)
      BY <1>6, <3>1, <3>3
    <3> QED BY <1>3, <3>2, <3>4
  <2> QED BY <1>13, <2>1, <2>2, <2>3
<1>17. ASSUME NEW k \in 1 .. L, NEW i \in at[k] + 1 .. at[k + 1], NEW p \in 1 .. n, NEW lag \in -1 .. 1,
              <<lag, es[i], vs[p]>> \in jacobian.dynamic
       PROVE  p =< at[k] \/ (p =< at[k + 1] /\ KnownIn(at[k + 1] - cs[k].mfs, i, p, lag))
  <2>1. <<es[i], vs[p]>> \in jacobian.static
    <3>1. PICK d : d = <<lag, es[i], vs[p]>>
      OBVIOUS
    <3>2. d \in jacobian.dynamic /\ d[2] = es[i] /\ d[3] = vs[p]
      BY <1>17, <3>1
    <3>3. <<d[2], d[3]>> \in jacobian.static
      BY <1>3, <3>2 DEF Fitting
    <3> QED BY <3>2, <3>3
  <2>2. ASSUME i \in 1 .. n PROVE (i =< prologue => p =< i) /\ (p > n - epilogue => i >= p)
    BY <1>10, <2>1, <2>2 DEF EndsApart
  <2>3. CASE k \in 1 .. prologue
    <3>1. at[k] = k - 1 /\ at[k + 1] = (k + 1) - 1 /\ cs[k].mfs = 1
      BY <1>3, <1>6, <1>15, <2>3
    <3>2. i = k /\ i \in 1 .. n /\ i =< prologue
      BY <1>3, <2>3, <3>1
    <3>3. p =< k
      BY <2>2, <3>2
    <3>4. p =< at[k] \/ p = k
      BY <3>1, <3>3
    <3>5. at[k + 1] - cs[k].mfs = k - 1 /\ p =< at[k + 1]
      BY <3>1, <3>3
    <3>6. KnownIn(k - 1, k, k, lag)
      BY KnownAlone
    <3> QED BY <3>2, <3>4, <3>5, <3>6
  <2>4. CASE \E b \in 1 .. B : k = prologue + b
    <3>1. PICK b \in 1 .. B : k = prologue + b /\ k + 1 = prologue + (b + 1)
      BY <1>3, <2>4
    <3>2. b \in 1 .. B + 1 /\ b + 1 \in 1 .. B + 1
      OBVIOUS
    <3>3. at[k] = prologue + atm[b] /\ at[k + 1] = prologue + atm[b + 1] /\ cs[k].mfs = ordered[b].mfs
      BY <1>6, <1>15, <3>1, <3>2
    <3>4. atm[b] \in Nat /\ atm[b + 1] \in Nat /\ ordered[b].mfs \in Nat
      BY <1>4, <1>14, <3>2
    <3>5. PICK j \in atm[b] + 1 .. atm[b + 1] : i = prologue + j
      <4>1. i - prologue \in atm[b] + 1 .. atm[b + 1] /\ i = prologue + (i - prologue)
        BY <1>3, <3>3, <3>4
      <4> QED BY <4>1
    <3>6. atm[b + 1] =< m
      <4>1. at[k + 1] =< n - epilogue
        <5>1. \A c \in 1 .. B + 1 : b + 1 =< c => atm[b + 1] =< atm[c]
          BY <1>4, <1>14, <3>2, PartsGrow
        <5>2. atm[b + 1] =< atm[B + 1]
          BY <5>1
        <5> QED BY <1>3, <1>4, <3>3, <3>4, <5>2
      <4> QED BY <1>3, <3>3, <3>4, <4>1
    <3>7. j \in 1 .. m /\ i \in 1 .. n
      BY <1>3, <3>4, <3>5, <3>6
    <3>8. CASE p =< prologue
      BY <1>3, <3>3, <3>4, <3>8
    <3>9. CASE p > n - epilogue
      <4>1. i >= p
        BY <2>2, <3>7, <3>9
      <4> QED BY <1>3, <3>5, <3>7, <3>9, <4>1
    <3>10. CASE p > prologue /\ p =< n - epilogue
      <4>1. PICK q \in 1 .. m : p = prologue + q
        <5>1. p - prologue \in 1 .. m /\ p = prologue + (p - prologue)
          BY <1>3, <3>10
        <5> QED BY <5>1
      <4>2. <<lag, eqs[prologue + middle[j]], vars[prologue + middle[q]]>> \in jacobian.dynamic
        BY <1>12, <1>17, <3>5, <3>7, <4>1
      <4>3. q =< atm[b] \/ (q =< atm[b + 1] /\ KnownIn(atm[b + 1] - ordered[b].mfs, j, q, lag))
        BY <1>2, <4>2 DEF MiddleLaid
      <4>4. CASE q =< atm[b]
        BY <1>3, <3>3, <3>4, <4>1, <4>4
      <4>5. CASE q =< atm[b + 1] /\ KnownIn(atm[b + 1] - ordered[b].mfs, j, q, lag)
        <5>1. p =< at[k + 1]
          BY <1>3, <3>3, <3>4, <4>1, <4>5
        <5>2. PICK last \in Int : last = atm[b + 1] - ordered[b].mfs
          BY <3>4
        <5>3. j \in Int /\ q \in Int
          BY <3>7
        <5>4. KnownIn(prologue + last, prologue + j, prologue + q, lag)
          BY <1>3, <4>5, <5>2, <5>3, KnownShifted
        <5>5. prologue + last = at[k + 1] - cs[k].mfs
          BY <1>3, <3>3, <3>4, <5>2
        <5> QED BY <3>5, <4>1, <5>1, <5>4, <5>5
      <4> QED BY <4>3, <4>4, <4>5
    <3> QED BY <1>3, <3>8, <3>9, <3>10
  <2>5. CASE \E e \in 1 .. epilogue : k = prologue + B + e
    <3>1. PICK e \in 1 .. epilogue : k = prologue + B + e /\ k + 1 = prologue + B + (e + 1)
      BY <1>3, <2>5
    <3>2. e \in 1 .. epilogue + 1 /\ e + 1 \in 1 .. epilogue + 1
      BY <1>3
    <3>3. at[k] = prologue + m + (e - 1) /\ at[k + 1] = prologue + m + ((e + 1) - 1) /\ cs[k].mfs = 1
      BY <1>6, <1>15, <3>1, <3>2
    <3>4. i = prologue + m + e /\ i \in 1 .. n
      BY <1>3, <3>3
    <3>5. p =< i
      BY <1>3, <2>2, <3>4
    <3>6. i \in Nat /\ at[k + 1] = i /\ at[k] = i - 1
      BY <1>3, <3>3, <3>4
    <3>7. p =< at[k] \/ p = i
      BY <3>5, <3>6
    <3>8. KnownIn(i - 1, i, i, lag)
      BY <3>6, KnownAlone
    <3> QED BY <3>3, <3>5, <3>6, <3>7, <3>8
  <2> QED BY <1>13, <2>3, <2>4, <2>5
<1> QED BY <1>1, <1>2, <1>5, <1>6, <1>7, <1>8, <1>9, <1>16, <1>17 DEF LaidOut

-------------------------------------------------------------------------------
(***************************************************************************)
(* The blocks while components are merged                                  *)
(***************************************************************************)

\* The types of a block that has to be solved.
SolverTypes ==
    {"SOLVE_TWO_BOUNDARIES_SIMPLE", "SOLVE_TWO_BOUNDARIES_COMPLETE", "SOLVE_BACKWARD_COMPLETE",
     "SOLVE_FORWARD_COMPLETE", "SOLVE_BACKWARD_SIMPLE", "SOLVE_FORWARD_SIMPLE"}
\* The types of a block.
BlockTypes == SolverTypes \cup {"EVALUATE_FORWARD", "EVALUATE_BACKWARD"}
\* A block.
BlockRecords == [type : BlockTypes, first : Nat, size : Nat, mfs : Nat, lag : Nat, lead : Nat]
\* The blocks so far, and the place of the next one.
ReduceStates == [done : Seq(BlockRecords), first : Nat]
\* No block so far.
ReduceBase == [done |-> << >>, first |-> 1]
\* One more component.
MergeStep(r, c) ==
    [done |-> Joined(r.done, NewBlock(r.first, c, LagAndLead(BlockLags(r.first, c.size)))),
     first |-> r.first + c.size]

\* The lags of a block.
LEMMA BlockLagsOf ==
    ASSUME Fitting(file, jacobian), NEW first, NEW size, NEW l, l = LagAndLead(BlockLags(first, size))
    PROVE  /\ l.lag \in Nat /\ l.lead \in Nat
           /\ \A x \in BlockLags(first, size) : -x =< l.lag /\ x =< l.lead
<1>1. BlockLags(first, size) \in SUBSET (-1 .. 1)
  <2>1. \A d \in jacobian.dynamic : d[1] \in -1 .. 1
    BY LagsFit
  <2> QED BY <2>1 DEF BlockLags
<1> QED BY <1>1, LagAndLeadOf

\* The record of a new block.
LEMMA NewBlockType ==
    ASSUME NEW first \in Nat, NEW c, c.size \in Nat, c.mfs \in Nat, NEW l, l.lag \in Nat, l.lead \in Nat
    PROVE  NewBlock(first, c, l) \in BlockRecords
<1>1. SimulationType(l, c.size, type[eqs[first]]) \in BlockTypes
  <2>1. Solver(l, c.size) \in SolverTypes
    BY DEF Solver, SolverTypes
  <2>2. CASE c.size = 1 /\ type[eqs[first]] # "E_SOLVE" /\ ~ (l.lag > 0 /\ l.lead > 0)
    BY <2>2 DEF SimulationType, BlockTypes
  <2>3. CASE ~ (c.size = 1 /\ type[eqs[first]] # "E_SOLVE" /\ ~ (l.lag > 0 /\ l.lead > 0))
    <3>1. SimulationType(l, c.size, type[eqs[first]]) = Solver(l, c.size)
      BY <2>3 DEF SimulationType
    <3> QED BY <2>1, <3>1 DEF BlockTypes
  <2> QED BY <2>2, <2>3
<1> QED BY <1>1 DEF NewBlock, BlockRecords

\* The larger of two numbers.
LEMMA MaxOfTwo == \A a, b \in Nat : Max({a, b}) \in Nat
<1>. SUFFICES ASSUME NEW a \in Nat, NEW b \in Nat PROVE Max({a, b}) \in Nat
  OBVIOUS
<1>1. IsFiniteSet({a, b})
  <2>1. IsFiniteSet({a}) /\ IsFiniteSet({b})
    BY FS_Singleton
  <2>2. {a, b} = {a} \cup {b}
    OBVIOUS
  <2> QED BY <2>1, <2>2, FS_Union
<1>2. {a, b} \in SUBSET Int /\ {a, b} # {}
  OBVIOUS
<1>3. Max({a, b}) \in {a, b}
  BY <1>1, <1>2, MaxOf
<1> QED BY <1>3

\* The record of merged blocks.
LEMMA MergedType ==
    ASSUME NEW b \in BlockRecords, NEW new \in BlockRecords, NEW h, h = Merged(b, new)
    PROVE  /\ h \in BlockRecords
           /\ h.type = b.type /\ h.first = b.first /\ h.size = b.size + 1 /\ h.mfs = b.size + 1
<1>1. /\ b = [type |-> b.type, first |-> b.first, size |-> b.size, mfs |-> b.mfs, lag |-> b.lag, lead |-> b.lead]
      /\ b.type \in BlockTypes /\ b.first \in Nat /\ b.size \in Nat /\ b.mfs \in Nat /\ b.lag \in Nat /\ b.lead \in Nat
  BY DEF BlockRecords
<1>2. new.lag \in Nat /\ new.lead \in Nat
  BY DEF BlockRecords
<1>3. h = [type |-> b.type, first |-> b.first, size |-> b.size + 1, mfs |-> b.size + 1,
           lag |-> Max({b.lag, new.lag}), lead |-> Max({b.lead, new.lead})]
  BY <1>1 DEF Merged
<1>4. Max({b.lag, new.lag}) \in Nat /\ Max({b.lead, new.lead}) \in Nat
  BY <1>1, <1>2, MaxOfTwo
<1>5. b.size + 1 \in Nat
  BY <1>1
<1>6. h \in BlockRecords
  BY <1>1, <1>3, <1>4, <1>5 DEF BlockRecords
<1> QED BY <1>3, <1>6

\* What Joined returns.
LEMMA JoinedOf ==
    ASSUME NEW done \in Seq(BlockRecords), NEW new \in BlockRecords, NEW q, q = Joined(done, new)
    PROVE  /\ q \in Seq(BlockRecords)
           /\ \/ q = Append(done, new)
              \/ /\ done # << >> /\ new.size = 1
                 /\ Mergeable(done[Len(done)], done[Len(done)].type, new)
                 /\ Len(q) = Len(done)
                 /\ q[Len(done)] = Merged(done[Len(done)], new)
                 /\ \A k \in 1 .. Len(done) - 1 : q[k] = done[k]
<1>1. CASE new.size = 1 /\ done # << >> /\ Mergeable(Last(done), Last(done).type, new)
  <2>1. PICK n \in Nat : n = Len(done) - 1 /\ Len(done) = n + 1 /\ n + 1 \in DOMAIN done
    <3>1. PICK l \in Nat : l = Len(done) /\ l # 0 /\ DOMAIN done = 1 .. l
      BY <1>1
    <3>2. l - 1 \in Nat /\ (l - 1) + 1 = l /\ l \in 1 .. l
      BY <3>1
    <3> QED BY <3>1, <3>2
  <2>2. PICK h : h = Merged(done[n + 1], new)
    OBVIOUS
  <2>3. done[n + 1] \in BlockRecords
    BY <2>1
  <2>4. h \in BlockRecords
    BY <2>2, <2>3, MergedType
  <2>5. PICK f : f = SubSeq(done, 1, n)
    OBVIOUS
  <2>6. f \in Seq(BlockRecords) /\ Len(f) = n /\ \A k \in 1 .. n : f[k] = done[k]
    <3> QED BY <2>1, <2>5
  <2>7. q = f \o <<h>>
    BY <1>1, <2>1, <2>2, <2>5 DEF Joined, Last, Front
  <2>8. q \in Seq(BlockRecords) /\ Len(q) = n + 1 /\ q[n + 1] = h /\ \A k \in 1 .. n : q[k] = f[k]
    <3> QED BY <2>4, <2>6, <2>7
  <2>9. Mergeable(done[Len(done)], done[Len(done)].type, new)
    BY <1>1 DEF Last
  <2> QED BY <1>1, <2>1, <2>2, <2>6, <2>8, <2>9
<1>2. CASE ~ (new.size = 1 /\ done # << >> /\ Mergeable(Last(done), Last(done).type, new))
  <2>1. q = Append(done, new)
    BY <1>2 DEF Joined
  <2>2. q \in Seq(BlockRecords)
    <3> QED BY <2>1
  <2> QED BY <2>1, <2>2
<1> QED BY <1>1, <1>2

\* The step stays in its states.
LEMMA ReduceStepType ==
    ASSUME Fitting(file, jacobian), NEW r \in ReduceStates, NEW c, c.size \in Nat, c.mfs \in Nat
    PROVE  MergeStep(r, c) \in ReduceStates
<1>1. r.done \in Seq(BlockRecords) /\ r.first \in Nat
  BY DEF ReduceStates
<1>2. PICK l : l = LagAndLead(BlockLags(r.first, c.size))
  OBVIOUS
<1>3. l.lag \in Nat /\ l.lead \in Nat
  BY <1>2, BlockLagsOf
<1>4. PICK new : new = NewBlock(r.first, c, l)
  OBVIOUS
<1>5. new \in BlockRecords
  BY <1>1, <1>3, <1>4, NewBlockType
<1>6. PICK q : q = Joined(r.done, new)
  OBVIOUS
<1>7. q \in Seq(BlockRecords)
  BY <1>1, <1>5, <1>6, JoinedOf
<1>8. MergeStep(r, c) = [done |-> q, first |-> r.first + c.size]
  BY <1>2, <1>4, <1>6 DEF MergeStep
<1>9. r.first + c.size \in Nat
  BY <1>1
<1> QED BY <1>7, <1>8, <1>9 DEF ReduceStates

\* The blocks that are made of the components, one after the other.
ReduceTaken(cs, n, it) ==
    /\ it[{}] = ReduceBase /\ Reduce(cs) = it[1 .. n].done
    /\ \A u \in SUBSET (1 .. n) : u # {} => it[u] = MergeStep(it[u \ {Max(u)}], cs[Max(u)])

\* The components are taken one after the other.
LEMMA ReduceSteps ==
    ASSUME Fitting(file, jacobian), NEW n \in Nat, NEW cs, DOMAIN cs = 1 .. n,
           \A k \in 1 .. n : cs[k].size \in Nat /\ cs[k].mfs \in Nat
    PROVE  \E it : ReduceTaken(cs, n, it)
<1>. DEFINE D == SUBSET (1 .. n)
            F == [a \in ReduceStates \X (1 .. n) |-> MergeStep(a[1], cs[a[2]])]
            h == CHOOSE f : f = [u \in D |-> IF u = {} THEN ReduceBase ELSE MergeStep(f[u \ {Max(u)}], cs[Max(u)])]
<1>1. Reduce(cs) = h[1 .. n].done
  BY DEF Reduce, FoldLeft, MapThenFoldSet, MergeStep, ReduceBase
<1>2. F \in [ReduceStates \X (1 .. n) -> ReduceStates]
  <2>1. \A r \in ReduceStates : \A k \in 1 .. n : MergeStep(r, cs[k]) \in ReduceStates
    BY ReduceStepType
  <2> QED BY <2>1
<1>3. PICK f \in [D -> ReduceStates] : IsIteration(f, F, ReduceBase, D)
  <2>1. ReduceBase \in ReduceStates
    BY DEF ReduceBase, ReduceStates
  <2>. HIDE DEF F
  <2> QED BY <1>2, <2>1, IterationExists
<1>4. f = [u \in D |-> IF u = {} THEN ReduceBase ELSE MergeStep(f[u \ {Max(u)}], cs[Max(u)])]
  <2>1. ASSUME NEW u \in D, u # {}
        PROVE  F[<<f[u \ {Max(u)}], Max(u)>>] = MergeStep(f[u \ {Max(u)}], cs[Max(u)])
    <3>1. Max(u) \in 1 .. n /\ u \ {Max(u)} \in D
      BY <2>1, LastPlace
    <3>. HIDE DEF D
    <3>2. <<f[u \ {Max(u)}], Max(u)>> \in ReduceStates \X (1 .. n)
      BY <3>1
    <3> QED BY <3>2
  <2>2. f = [u \in D |-> IF u = {} THEN ReduceBase ELSE F[<<f[u \ {Max(u)}], Max(u)>>]]
    BY <1>3 DEF IsIteration
  <2>. HIDE DEF F, D
  <2> QED BY <2>1, <2>2
<1>5. h = [u \in D |-> IF u = {} THEN ReduceBase ELSE MergeStep(h[u \ {Max(u)}], cs[Max(u)])]
  <2>. HIDE DEF D, F
  <2> QED BY <1>4
<1>. HIDE DEF h
<1>6. ASSUME NEW u \in D, u # {} PROVE h[u] = MergeStep(h[u \ {Max(u)}], cs[Max(u)])
  <2>. HIDE DEF D
  <2> QED BY <1>5, <1>6
<1>7. h[{}] = ReduceBase
  <2>1. {} \in D
    OBVIOUS
  <2>. HIDE DEF D
  <2> QED BY <1>5, <2>1
<1> QED BY <1>1, <1>6, <1>7 DEF ReduceTaken

-------------------------------------------------------------------------------
(***************************************************************************)
(* Merged components can be computed                                       *)
(***************************************************************************)

\* A block can be computed after the earlier ones.
SolvedBlock(n, b) ==
    \A i \in Inside(b) : \A p \in 1 .. n : \A lag \in -1 .. 1 :
      <<lag, eqs[i], vars[p]>> \in jacobian.dynamic =>
        p < b.first \/ (p \in Inside(b) /\ KnownInBlock(b, i, p, lag))

\* Which way a block is run.
LEMMA SimulationTypeOf ==
    ASSUME NEW l, l.lag \in Nat, l.lead \in Nat, NEW size \in Nat, NEW equationType,
           NEW t, t = SimulationType(l, size, equationType)
    PROVE  /\ t = "EVALUATE_FORWARD" => size = 1 /\ l.lead = 0
           /\ t = "EVALUATE_BACKWARD" => size = 1 /\ l.lag = 0
           /\ t \in {"SOLVE_FORWARD_SIMPLE", "SOLVE_FORWARD_COMPLETE"} => l.lead = 0
           /\ t \in {"SOLVE_BACKWARD_SIMPLE", "SOLVE_BACKWARD_COMPLETE"} => l.lag = 0
<1>1. CASE size = 1 /\ equationType # "E_SOLVE" /\ ~ (l.lag > 0 /\ l.lead > 0)
  <2>1. CASE l.lead > 0
    <3>1. t = "EVALUATE_BACKWARD" /\ l.lag = 0
      BY <1>1, <2>1 DEF SimulationType
    <3> QED BY <1>1, <3>1
  <2>2. CASE ~ (l.lead > 0)
    <3>1. t = "EVALUATE_FORWARD" /\ l.lead = 0
      BY <1>1, <2>2 DEF SimulationType
    <3> QED BY <1>1, <3>1
  <2> QED BY <2>1, <2>2
<1>2. CASE ~ (size = 1 /\ equationType # "E_SOLVE" /\ ~ (l.lag > 0 /\ l.lead > 0))
  <2>1. t = Solver(l, size)
    BY <1>2 DEF SimulationType
  <2>2. CASE l.lag > 0 /\ l.lead > 0
    <3>1. t \in {"SOLVE_TWO_BOUNDARIES_SIMPLE", "SOLVE_TWO_BOUNDARIES_COMPLETE"}
      BY <2>1, <2>2 DEF Solver
    <3> QED BY <3>1
  <2>3. CASE ~ (l.lag > 0 /\ l.lead > 0) /\ l.lead > 0
    <3>1. t \in {"SOLVE_BACKWARD_SIMPLE", "SOLVE_BACKWARD_COMPLETE"} /\ l.lag = 0
      BY <2>1, <2>3 DEF Solver
    <3> QED BY <3>1
  <2>4. CASE ~ (l.lead > 0)
    <3>1. t \in {"SOLVE_FORWARD_SIMPLE", "SOLVE_FORWARD_COMPLETE"} /\ l.lead = 0
      BY <2>1, <2>4 DEF Solver
    <3> QED BY <3>1
  <2> QED BY <2>2, <2>3, <2>4
<1> QED BY <1>1, <1>2

\* A component is a block that can be computed.
LEMMA NewSolved ==
    ASSUME NEW n \in Nat, n = file.n, Arrangement(n, eqs), Arrangement(n, vars), Fitting(file, jacobian),
           NEW a \in Nat, NEW c, c.size \in Nat, c.mfs \in 0 .. c.size, a + c.size =< n,
           \A i \in a + 1 .. a + c.size : \A p \in 1 .. n : \A lag \in -1 .. 1 :
             <<lag, eqs[i], vars[p]>> \in jacobian.dynamic =>
               p =< a \/ (p =< a + c.size /\ KnownIn(a + c.size - c.mfs, i, p, lag)),
           NEW l, l = LagAndLead(BlockLags(a + 1, c.size)),
           NEW b, b = NewBlock(a + 1, c, l)
    PROVE  SolvedBlock(n, b)
<1>1. l.lag \in Nat /\ l.lead \in Nat /\ \A x \in BlockLags(a + 1, c.size) : -x =< l.lag /\ x =< l.lead
  BY BlockLagsOf
<1>2. /\ b.first = a + 1 /\ b.size = c.size /\ b.mfs = c.mfs
      /\ b.type = SimulationType(l, c.size, type[eqs[a + 1]])
  BY DEF NewBlock
<1>3. /\ b.type = "EVALUATE_FORWARD" => c.size = 1 /\ l.lead = 0
      /\ b.type = "EVALUATE_BACKWARD" => c.size = 1 /\ l.lag = 0
      /\ b.type \in {"SOLVE_FORWARD_SIMPLE", "SOLVE_FORWARD_COMPLETE"} => l.lead = 0
      /\ b.type \in {"SOLVE_BACKWARD_SIMPLE", "SOLVE_BACKWARD_COMPLETE"} => l.lag = 0
  BY <1>1, <1>2, SimulationTypeOf
<1>4. PICK s \in Nat : s = c.size
  OBVIOUS
<1>5. PICK f \in 0 .. s : f = c.mfs
  BY <1>4
<1>6. /\ \A i : i \in Inside(b) <=> i \in a + 1 .. a + s
      /\ \A i : i \in Recursive(b) <=> i \in a + 1 .. a + s - f
  <2>1. b.first + b.size - 1 = a + s /\ b.first + b.size - b.mfs - 1 = a + s - f
    BY <1>2, <1>4, <1>5
  <2> QED BY <1>2, <2>1 DEF Inside, Recursive
<1>. SUFFICES ASSUME NEW i \in Inside(b), NEW p \in 1 .. n, NEW lag \in -1 .. 1,
                     <<lag, eqs[i], vars[p]>> \in jacobian.dynamic, ~ (p < b.first)
     PROVE  p \in Inside(b) /\ KnownInBlock(b, i, p, lag)
  BY DEF SolvedBlock
<1>7. i \in a + 1 .. a + s /\ p > a
  BY <1>2, <1>6
<1>8. p =< a + s /\ KnownIn(a + s - f, i, p, lag)
  <2>1. i \in a + 1 .. a + c.size
    BY <1>4, <1>7
  <2>2. p =< a \/ (p =< a + c.size /\ KnownIn(a + c.size - c.mfs, i, p, lag))
    BY <2>1
  <2>3. ~ (p =< a)
    BY <1>7
  <2> QED BY <1>4, <1>5, <2>2, <2>3
<1>9. p \in a + 1 .. a + s /\ p \in Inside(b)
  BY <1>6, <1>7, <1>8
<1>10. lag \in BlockLags(a + 1, c.size)
  <2>1. PICK d : d = <<lag, eqs[i], vars[p]>>
    OBVIOUS
  <2>2. d \in jacobian.dynamic /\ d[1] = lag /\ d[2] = eqs[i] /\ d[3] = vars[p]
    BY <2>1
  <2>3. Place(eqs, d[2]) = i
    <3>1. i \in 1 .. n
      BY <1>4, <1>7
    <3> QED BY <2>2, <3>1, PlaceOf
  <2>4. Place(vars, d[3]) = p
    BY <2>2, PlaceOf
  <2>5. (a + 1) + c.size - 1 = a + s
    BY <1>4
  <2>6. {Place(eqs, d[2]), Place(vars, d[3])} \subseteq (a + 1) .. ((a + 1) + c.size - 1)
    BY <1>7, <1>9, <2>3, <2>4, <2>5
  <2> QED BY <2>2, <2>6 DEF BlockLags
<1>11. -lag =< l.lag /\ lag =< l.lead
  BY <1>1, <1>10
<1>12. b.type = "EVALUATE_FORWARD" => lag < 0 \/ (lag = 0 /\ p =< i)
  BY <1>3, <1>4, <1>7, <1>9, <1>11
<1>13. b.type = "EVALUATE_BACKWARD" => lag > 0 \/ (lag = 0 /\ p =< i)
  BY <1>3, <1>4, <1>7, <1>9, <1>11
<1>14. b.type \in {"SOLVE_FORWARD_SIMPLE", "SOLVE_FORWARD_COMPLETE"} => lag =< 0
  BY <1>3, <1>11
<1>15. b.type \in {"SOLVE_BACKWARD_SIMPLE", "SOLVE_BACKWARD_COMPLETE"} => lag >= 0
  BY <1>3, <1>11
<1>16. i \in Recursive(b) => lag = 0 /\ (p =< i \/ p \notin Recursive(b))
  <2>. SUFFICES ASSUME i \in Recursive(b) PROVE lag = 0 /\ (p =< i \/ p \notin Recursive(b))
    OBVIOUS
  <2>1. i =< a + s - f
    BY <1>6
  <2>2. lag = 0 /\ (p =< i \/ p > a + s - f)
    BY <1>8, <2>1 DEF KnownIn
  <2> QED BY <1>6, <2>2
<1>17. p \in Recursive(b) => lag = 0
  <2>. SUFFICES ASSUME p \in Recursive(b) PROVE lag = 0
    OBVIOUS
  <2>1. p =< a + s - f
    BY <1>6
  <2> QED BY <1>8, <2>1 DEF KnownIn
<1> QED BY <1>9, <1>12, <1>13, <1>14, <1>15, <1>16, <1>17 DEF KnownInBlock

\* An evaluated equation that joins the block of the earlier ones can be computed there.
LEMMA MergedSolved ==
    ASSUME NEW n \in Nat, NEW b \in BlockRecords, NEW new \in BlockRecords, SolvedBlock(n, b), SolvedBlock(n, new),
           new.size = 1, new.first = b.first + b.size, Mergeable(b, b.type, new),
           NEW h, h = Merged(b, new)
    PROVE  SolvedBlock(n, h)
<1>1. h.type = b.type /\ h.first = b.first /\ h.size = b.size + 1 /\ h.mfs = b.size + 1
  BY MergedType
<1>2. PICK a \in Nat : a = b.first
  BY DEF BlockRecords
<1>3. PICK s \in Nat : s = b.size
  BY DEF BlockRecords
<1>4. Inside(b) = a .. a + s - 1 /\ Inside(new) = a + s .. a + s /\ Inside(h) = a .. a + s /\ Recursive(h) = {}
  <2>1. h.first + h.size - 1 = a + s /\ new.first + new.size - 1 = a + s
        /\ h.first + h.size - h.mfs - 1 = a - 1 /\ h.first = a /\ new.first = a + s
    BY <1>1, <1>2, <1>3
  <2>2. a .. a - 1 = {}
    OBVIOUS
  <2> QED BY <1>2, <1>3, <2>1, <2>2 DEF Inside, Recursive
<1>5. \/ b.type = "EVALUATE_FORWARD" /\ new.type = "EVALUATE_FORWARD" /\ ~ HoldsAt(1, eqs[a + s], b)
      \/ b.type = "EVALUATE_BACKWARD" /\ new.type = "EVALUATE_BACKWARD" /\ ~ HoldsAt(-1, eqs[a + s], b)
  BY <1>2, <1>3 DEF Mergeable
<1>. SUFFICES ASSUME NEW i \in Inside(h), NEW p \in 1 .. n, NEW lag \in -1 .. 1,
                     <<lag, eqs[i], vars[p]>> \in jacobian.dynamic, ~ (p < h.first)
     PROVE  p \in Inside(h) /\ KnownInBlock(h, i, p, lag)
  BY DEF SolvedBlock
<1>6. p >= a /\ i \in a .. a + s
  BY <1>1, <1>2, <1>4
<1>7. ASSUME p \in Inside(h),
             b.type = "EVALUATE_FORWARD" => lag < 0 \/ (lag = 0 /\ p =< i),
             b.type = "EVALUATE_BACKWARD" => lag > 0 \/ (lag = 0 /\ p =< i)
      PROVE  p \in Inside(h) /\ KnownInBlock(h, i, p, lag)
  <2>1. h.type = "EVALUATE_FORWARD" \/ h.type = "EVALUATE_BACKWARD"
    BY <1>1, <1>5
  <2> QED BY <1>1, <1>4, <1>7, <2>1 DEF KnownInBlock
<1>8. CASE i \in Inside(b)
  <2>1. p \in Inside(b) /\ KnownInBlock(b, i, p, lag)
    <3>1. p < b.first \/ (p \in Inside(b) /\ KnownInBlock(b, i, p, lag))
      BY <1>8 DEF SolvedBlock
    <3>2. ~ (p < b.first)
      BY <1>1
    <3> QED BY <3>1, <3>2
  <2>2. p \in Inside(h)
    BY <1>4, <2>1
  <2> QED BY <1>7, <2>1, <2>2 DEF KnownInBlock
<1>9. CASE i \notin Inside(b)
  <2>1. i = a + s /\ i \in Inside(new)
    BY <1>4, <1>6, <1>9
  <2>2. p < a + s \/ (p \in Inside(new) /\ KnownInBlock(new, i, p, lag))
    BY <1>2, <1>3, <2>1 DEF SolvedBlock
  <2>3. CASE p < a + s
    <3>1. p \in Inside(b) /\ p \in Inside(h) /\ p =< i
      BY <1>4, <1>6, <2>1, <2>3
    <3>2. HoldsAt(lag, eqs[a + s], b)
      BY <2>1, <3>1 DEF HoldsAt, Inside
    <3>3. b.type = "EVALUATE_FORWARD" => lag < 0 \/ (lag = 0 /\ p =< i)
      <4>. SUFFICES ASSUME b.type = "EVALUATE_FORWARD" PROVE lag # 1
        BY <3>1
      <4> QED BY <1>5, <3>2
    <3>4. b.type = "EVALUATE_BACKWARD" => lag > 0 \/ (lag = 0 /\ p =< i)
      <4>. SUFFICES ASSUME b.type = "EVALUATE_BACKWARD" PROVE lag # -1
        BY <3>1
      <4> QED BY <1>5, <3>2
    <3> QED BY <1>7, <3>1, <3>3, <3>4
  <2>4. CASE p \in Inside(new) /\ KnownInBlock(new, i, p, lag)
    <3>1. p \in Inside(h)
      BY <1>4, <2>4
    <3>2. b.type = new.type
      BY <1>5
    <3> QED BY <1>7, <2>4, <3>1, <3>2 DEF KnownInBlock
  <2> QED BY <2>2, <2>3, <2>4
<1> QED BY <1>8, <1>9

\* The m blocks s hold the places up to a, each in one of them.
Covers(a, m, s) ==
    /\ \A j \in 1 .. m : \A i \in Inside(s[j]) : i \in 1 .. a
    /\ \A i \in 1 .. a : \E k \in 1 .. m : \A j \in 1 .. m : i \in Inside(s[j]) <=> j = k

\* One more block holds the next places.
LEMMA AppendCovers ==
    ASSUME NEW a \in Nat, NEW size \in Nat, NEW m \in Nat, NEW s, Covers(a, m, s),
           NEW q, \A k \in 1 .. m : q[k] = s[k],
           \A i : i \in Inside(q[m + 1]) <=> i \in a + 1 .. a + size
    PROVE  Covers(a + size, m + 1, q)
<1>1. \A j \in 1 .. m : \A i \in Inside(s[j]) : i \in 1 .. a
  BY DEF Covers
<1>2. \A i \in 1 .. a : \E k \in 1 .. m : \A j \in 1 .. m : i \in Inside(s[j]) <=> j = k
  BY DEF Covers
<1>3. ASSUME NEW j \in 1 .. m + 1, NEW i \in Inside(q[j]) PROVE i \in 1 .. a + size
  <2>1. CASE j = m + 1
    BY <1>3, <2>1
  <2>2. CASE j \in 1 .. m
    <3>1. i \in 1 .. a
      BY <1>1, <1>3, <2>2
    <3> QED BY <3>1
  <2> QED BY <2>1, <2>2
<1>4. ASSUME NEW i \in 1 .. a + size
      PROVE  \E k \in 1 .. m + 1 : \A j \in 1 .. m + 1 : i \in Inside(q[j]) <=> j = k
  <2>1. CASE i \in 1 .. a
    <3>1. PICK k \in 1 .. m : \A j \in 1 .. m : i \in Inside(s[j]) <=> j = k
      BY <1>2, <2>1
    <3>2. i \notin Inside(q[m + 1])
      BY <2>1
    <3>3. ASSUME NEW j \in 1 .. m + 1 PROVE i \in Inside(q[j]) <=> j = k
      <4>1. CASE j = m + 1
        BY <3>2, <4>1
      <4>2. CASE j \in 1 .. m
        BY <3>1, <4>2
      <4> QED BY <4>1, <4>2
    <3>4. k \in 1 .. m + 1
      OBVIOUS
    <3> QED BY <3>3, <3>4, Zenon
  <2>2. CASE i \in a + 1 .. a + size
    <3>1. ASSUME NEW j \in 1 .. m + 1 PROVE i \in Inside(q[j]) <=> j = m + 1
      <4>1. CASE j = m + 1
        BY <2>2, <4>1
      <4>2. CASE j \in 1 .. m
        BY <1>1, <2>2, <4>2
      <4> QED BY <4>1, <4>2
    <3>2. m + 1 \in 1 .. m + 1
      OBVIOUS
    <3> QED BY <3>1, <3>2, Zenon
  <2> QED BY <2>1, <2>2
<1> QED BY <1>3, <1>4 DEF Covers

\* So does the last block when it takes the next place.
LEMMA MergeCovers ==
    ASSUME NEW a \in Nat, NEW m \in Nat, m # 0, NEW s, Covers(a, m, s),
           NEW q, \A k \in 1 .. m - 1 : q[k] = s[k],
           \A i : i \in Inside(q[m]) <=> i \in Inside(s[m]) \/ i = a + 1
    PROVE  Covers(a + 1, m, q)
<1>1. \A j \in 1 .. m : \A i \in Inside(s[j]) : i \in 1 .. a
  BY DEF Covers
<1>2. \A i \in 1 .. a : \E k \in 1 .. m : \A j \in 1 .. m : i \in Inside(s[j]) <=> j = k
  BY DEF Covers
<1>3. \A j \in 1 .. m : j = m \/ j \in 1 .. m - 1
  OBVIOUS
<1>4. ASSUME NEW j \in 1 .. m, NEW i PROVE i \in Inside(q[j]) <=> i \in Inside(s[j]) \/ (j = m /\ i = a + 1)
  BY <1>3
<1>5. ASSUME NEW j \in 1 .. m, NEW i \in Inside(q[j]) PROVE i \in 1 .. a + 1
  <2>1. i \in 1 .. a \/ i = a + 1
    BY <1>1, <1>4, <1>5
  <2> QED BY <2>1
<1>6. ASSUME NEW i \in 1 .. a + 1
      PROVE  \E k \in 1 .. m : \A j \in 1 .. m : i \in Inside(q[j]) <=> j = k
  <2>1. CASE i \in 1 .. a
    <3>1. PICK k \in 1 .. m : \A j \in 1 .. m : i \in Inside(s[j]) <=> j = k
      BY <1>2, <2>1
    <3>2. i # a + 1
      BY <2>1
    <3> QED BY <1>4, <3>1, <3>2
  <2>2. CASE i = a + 1
    <3>1. \A j \in 1 .. m : i \notin Inside(s[j])
      BY <1>1, <2>2
    <3>2. \A j \in 1 .. m : i \in Inside(q[j]) <=> j = m
      BY <1>4, <2>2, <3>1
    <3>3. m \in 1 .. m
      OBVIOUS
    <3> QED BY <3>2, <3>3
  <2> QED BY <2>1, <2>2
<1> QED BY <1>5, <1>6 DEF Covers

\* The blocks so far hold the places before first and can be computed one after the other.
BlocksSoFar(n, first, r) ==
    /\ r \in ReduceStates /\ r.first = first /\ Covers(first - 1, Len(r.done), r.done)
    /\ \A j \in 1 .. Len(r.done) : SolvedBlock(n, r.done[j])
    /\ r.done # << >> => r.done[Len(r.done)].first + r.done[Len(r.done)].size = first

\* They stay so with the next component.
LEMMA ReduceStepSolved ==
    ASSUME NEW n \in Nat, n = file.n, Arrangement(n, eqs), Arrangement(n, vars), Fitting(file, jacobian),
           NEW a \in Nat, NEW c, c.size \in Nat, c.mfs \in 0 .. c.size, a + c.size =< n,
           \A i \in a + 1 .. a + c.size : \A p \in 1 .. n : \A lag \in -1 .. 1 :
             <<lag, eqs[i], vars[p]>> \in jacobian.dynamic =>
               p =< a \/ (p =< a + c.size /\ KnownIn(a + c.size - c.mfs, i, p, lag)),
           NEW r, BlocksSoFar(n, a + 1, r), NEW t, t = MergeStep(r, c)
    PROVE  BlocksSoFar(n, a + c.size + 1, t)
<1>1. /\ r \in ReduceStates /\ r.first = a + 1 /\ r.done \in Seq(BlockRecords) /\ Covers((a + 1) - 1, Len(r.done), r.done)
      /\ \A j \in 1 .. Len(r.done) : SolvedBlock(n, r.done[j])
      /\ r.done # << >> => r.done[Len(r.done)].first + r.done[Len(r.done)].size = a + 1
  BY DEF BlocksSoFar, ReduceStates
<1>2. PICK l : l = LagAndLead(BlockLags(a + 1, c.size))
  OBVIOUS
<1>3. PICK new : new = NewBlock(a + 1, c, l)
  OBVIOUS
<1>4. SolvedBlock(n, new)
  BY <1>2, <1>3, NewSolved
<1>5. new \in BlockRecords /\ new.first = a + 1 /\ new.size = c.size
  <2>1. l.lag \in Nat /\ l.lead \in Nat
    BY <1>2, BlockLagsOf
  <2>2. new \in BlockRecords
    BY <1>3, <2>1, NewBlockType
  <2> QED BY <1>3, <2>2 DEF NewBlock
<1>6. PICK s : s = r.done
  OBVIOUS
<1>7. PICK q : q = Joined(s, new)
  OBVIOUS
<1>8. t = [done |-> q, first |-> (a + 1) + c.size]
  BY <1>1, <1>2, <1>3, <1>6, <1>7 DEF MergeStep
<1>9. t \in ReduceStates
  BY <1>1, ReduceStepType
<1>10. PICK m \in Nat : m = Len(s) /\ s \in Seq(BlockRecords) /\ DOMAIN s = 1 .. m
  BY <1>1, <1>6
<1>11. /\ q \in Seq(BlockRecords)
       /\ \/ q = Append(s, new)
          \/ /\ s # << >> /\ new.size = 1 /\ Mergeable(s[m], s[m].type, new)
             /\ Len(q) = m /\ q[m] = Merged(s[m], new)
             /\ \A k \in 1 .. m - 1 : q[k] = s[k]
  BY <1>5, <1>7, <1>10, JoinedOf
<1>12. ASSUME \A j \in 1 .. Len(q) : SolvedBlock(n, q[j]), Covers(a + c.size, Len(q), q),
              q[Len(q)].first + q[Len(q)].size = a + c.size + 1
       PROVE  BlocksSoFar(n, a + c.size + 1, t)
  <2>1. t.done = q /\ t.first = a + c.size + 1 /\ (a + c.size + 1) - 1 = a + c.size
    BY <1>8
  <2> QED BY <1>9, <1>12, <2>1 DEF BlocksSoFar
<1>15. Covers(a, m, s)
  <2>1. (a + 1) - 1 = a
    OBVIOUS
  <2> QED BY <1>1, <1>6, <1>10, <2>1
<1>16. Inside(new) = a + 1 .. a + c.size
  <2>1. (a + 1) + c.size - 1 = a + c.size
    OBVIOUS
  <2> QED BY <1>5, <2>1 DEF Inside
<1>13. CASE q = Append(s, new)
  <2>1. Len(q) = m + 1 /\ q[m + 1] = new /\ \A k \in 1 .. m : q[k] = s[k]
    <3>. HIDE DEF BlockRecords
    <3> QED BY <1>10, <1>13
  <2>2. \A j \in 1 .. Len(q) : SolvedBlock(n, q[j])
    <3>. SUFFICES ASSUME NEW j \in 1 .. m + 1 PROVE SolvedBlock(n, q[j])
      BY <2>1
    <3>1. CASE j = m + 1
      BY <1>4, <2>1, <3>1
    <3>2. CASE j \in 1 .. m
      BY <1>1, <1>6, <1>10, <2>1, <3>2
    <3> QED BY <3>1, <3>2
  <2>3. q[Len(q)].first + q[Len(q)].size = a + c.size + 1
    BY <1>5, <2>1
  <2>4. Covers(a + c.size, Len(q), q)
    <3>1. PICK size \in Nat : size = c.size
      OBVIOUS
    <3>2. \A i : i \in Inside(q[m + 1]) <=> i \in a + 1 .. a + size
      BY <1>16, <2>1, <3>1
    <3>3. \A k \in 1 .. m : q[k] = s[k]
      BY <2>1
    <3>4. Covers(a + size, m + 1, q)
      BY <1>15, <3>2, <3>3, AppendCovers
    <3> QED BY <2>1, <3>1, <3>4
  <2> QED BY <1>12, <2>2, <2>3, <2>4
<1>14. CASE /\ s # << >> /\ new.size = 1 /\ Mergeable(s[m], s[m].type, new)
            /\ Len(q) = m /\ q[m] = Merged(s[m], new)
            /\ \A k \in 1 .. m - 1 : q[k] = s[k]
  <2>1. m \in 1 .. m
    BY <1>10, <1>14
  <2>2. PICK b \in BlockRecords : b = s[m]
    <3>. HIDE DEF BlockRecords
    <3> QED BY <1>10, <2>1
  <2>3. SolvedBlock(n, b) /\ b.first + b.size = a + 1
    BY <1>1, <1>6, <1>10, <1>14, <2>1, <2>2
  <2>4. PICK h : h = Merged(b, new)
    OBVIOUS
  <2>5. SolvedBlock(n, h)
    BY <1>4, <1>5, <1>14, <2>2, <2>3, <2>4, MergedSolved
  <2>6. h.first = b.first /\ h.size = b.size + 1 /\ b.first \in Nat /\ b.size \in Nat
    <3>1. h.first = b.first /\ h.size = b.size + 1
      BY <1>5, <2>4, MergedType
    <3> QED BY <3>1 DEF BlockRecords
  <2>7. \A j \in 1 .. Len(q) : SolvedBlock(n, q[j])
    <3>. SUFFICES ASSUME NEW j \in 1 .. m PROVE SolvedBlock(n, q[j])
      BY <1>14
    <3>1. CASE j = m
      BY <1>14, <2>2, <2>4, <2>5, <3>1
    <3>2. CASE j \in 1 .. m - 1
      BY <1>1, <1>6, <1>10, <1>14, <3>2
    <3> QED BY <3>1, <3>2
  <2>8. h.first + h.size = a + c.size + 1
    BY <1>5, <1>14, <2>3, <2>6
  <2>9. q[Len(q)] = h
    BY <1>14, <2>2, <2>4
  <2>10. \A i : i \in Inside(h) <=> i \in Inside(b) \/ i = a + 1
    <3>1. PICK x \in Nat : x = b.first
      BY <2>6
    <3>2. PICK y \in Nat : y = b.size
      BY <2>6
    <3>3. x + y = a + 1 /\ Inside(b) = x .. x + y - 1 /\ Inside(h) = x .. x + (y + 1) - 1
      BY <2>3, <2>6, <3>1, <3>2 DEF Inside
    <3> QED BY <3>3
  <2>11. Covers(a + c.size, Len(q), q)
    <3>1. m # 0 /\ c.size = 1
      BY <1>5, <1>10, <1>14
    <3>2. Inside(q[m]) = Inside(h) /\ Inside(s[m]) = Inside(b)
      BY <1>14, <2>2, <2>4
    <3>3. Covers(a + 1, m, q)
      BY <1>10, <1>14, <1>15, <2>10, <3>1, <3>2, MergeCovers
    <3> QED BY <1>14, <3>1, <3>3
  <2> QED BY <1>12, <2>7, <2>8, <2>9, <2>11
<1> QED BY <1>11, <1>13, <1>14

\* The blocks of components that can be computed can be.
LEMMA ReduceSolved ==
    ASSUME NEW n \in Nat, n = file.n, Arrangement(n, eqs), Arrangement(n, vars), Fitting(file, jacobian),
           NEW cs, Len(cs) \in Nat, DOMAIN cs = 1 .. Len(cs),
           NEW at, LaidOut(n, jacobian.dynamic, eqs, vars, cs, at), NEW q, q = Reduce(cs)
    PROVE  DOMAIN q = 1 .. Len(q) /\ Covers(n, Len(q), q) /\ \A k \in DOMAIN q : SolvedBlock(n, q[k])
<1>1. PICK m \in Nat : m = Len(cs) /\ DOMAIN cs = 1 .. m
  OBVIOUS
<1>2. \A k \in 1 .. m : /\ cs[k].size \in Nat /\ cs[k].mfs \in 0 .. cs[k].size
                        /\ at[k + 1] = at[k] + cs[k].size
  BY <1>1 DEF LaidOut
<1>3. at \in [1 .. m + 1 -> Nat] /\ at[1] = 0 /\ at[m + 1] = n
  BY <1>1 DEF LaidOut
<1>4. PICK it : ReduceTaken(cs, m, it)
  <2>1. \A k \in 1 .. m : cs[k].size \in Nat /\ cs[k].mfs \in Nat
    BY <1>2
  <2> QED BY <1>1, <2>1, ReduceSteps
<1>. DEFINE Good == [k \in 0 .. m |-> {r \in ReduceStates : BlocksSoFar(n, at[k + 1] + 1, r)}]
<1>5. it[{}] \in Good[0]
  <2>1. it[{}] = ReduceBase
    BY <1>4 DEF ReduceTaken
  <2>2. ReduceBase \in ReduceStates
    BY DEF ReduceBase, ReduceStates
  <2>3. BlocksSoFar(n, at[0 + 1] + 1, ReduceBase)
    <3>1. at[0 + 1] + 1 = 1
      BY <1>3
    <3>2. PICK s : s = << >>
      OBVIOUS
    <3>3. Covers(1 - 1, Len(s), s)
      <4>1. 1 .. Len(s) = {} /\ 1 .. 1 - 1 = {}
        BY <3>2
      <4> QED BY <4>1 DEF Covers
    <3> QED BY <2>2, <3>1, <3>2, <3>3 DEF BlocksSoFar, ReduceBase
  <2> QED BY <2>1, <2>2, <2>3
<1>6. ASSUME NEW k \in 0 .. m - 1, it[1 .. k] \in Good[k] PROVE it[1 .. k + 1] \in Good[k + 1]
  <2>1. k \in Nat /\ k \in 0 .. m /\ k + 1 \in 0 .. m /\ 1 .. k + 1 \in SUBSET (1 .. m)
    OBVIOUS
  <2>2. Max(1 .. k + 1) = k + 1 /\ (1 .. k + 1) \ {k + 1} = 1 .. k /\ 1 .. k + 1 # {}
    BY <2>1, LastOfFirst
  <2>3. PICK r : r = it[1 .. k]
    OBVIOUS
  <2>4. PICK t : t = it[1 .. k + 1]
    OBVIOUS
  <2>5. PICK j \in 1 .. m : j = k + 1
    BY <2>1
  <2>6. t = MergeStep(r, cs[j])
    <3>1. PICK u \in SUBSET (1 .. m) : u = 1 .. k + 1 /\ u # {}
      BY <2>1, <2>2
    <3>2. it[u] = MergeStep(it[u \ {Max(u)}], cs[Max(u)])
      BY <1>4, <3>1 DEF ReduceTaken
    <3> QED BY <2>2, <2>3, <2>4, <2>5, <3>1, <3>2
  <2>7. PICK a \in Nat : a = at[j]
    BY <1>3
  <2>8. r \in ReduceStates /\ BlocksSoFar(n, a + 1, r)
    <3>1. r \in Good[k]
      BY <1>6, <2>3
    <3> QED BY <2>1, <2>5, <2>7, <3>1
  <2>9. PICK c : c = cs[j]
    OBVIOUS
  <2>10. c.size \in Nat /\ c.mfs \in 0 .. c.size /\ at[j + 1] = a + c.size
    BY <1>2, <2>7, <2>9
  <2>11. a + c.size =< n
    <3>1. j + 1 \in 1 .. m + 1 /\ m + 1 \in 1 .. m + 1 /\ j + 1 =< m + 1
      OBVIOUS
    <3>2. \A i \in 1 .. m : cs[i].size \in Nat /\ at[i + 1] = at[i] + cs[i].size
      BY <1>2
    <3>3. \A i \in 1 .. m + 1 : j + 1 =< i => at[j + 1] =< at[i]
      BY <1>3, <3>1, <3>2, PartsGrow
    <3>4. at[j + 1] =< at[m + 1]
      BY <3>1, <3>3
    <3> QED BY <1>3, <2>10, <3>4
  <2>12. \A i \in a + 1 .. a + c.size : \A p \in 1 .. n : \A lag \in -1 .. 1 :
           <<lag, eqs[i], vars[p]>> \in jacobian.dynamic =>
             p =< a \/ (p =< a + c.size /\ KnownIn(a + c.size - c.mfs, i, p, lag))
    <3>1. \A i \in at[j] + 1 .. at[j + 1] : \A p \in 1 .. n : \A lag \in -1 .. 1 :
            <<lag, eqs[i], vars[p]>> \in jacobian.dynamic =>
              p =< at[j] \/ (p =< at[j + 1] /\ KnownIn(at[j + 1] - cs[j].mfs, i, p, lag))
      BY <1>1 DEF LaidOut
    <3>2. PICK last : last = at[j + 1] - cs[j].mfs
      OBVIOUS
    <3>3. last = a + c.size - c.mfs
      BY <2>9, <2>10, <3>2
    <3>. SUFFICES ASSUME NEW i \in a + 1 .. a + c.size, NEW p \in 1 .. n, NEW lag \in -1 .. 1,
                         <<lag, eqs[i], vars[p]>> \in jacobian.dynamic
         PROVE  p =< a \/ (p =< a + c.size /\ KnownIn(last, i, p, lag))
      BY <3>3
    <3>4. i \in at[j] + 1 .. at[j + 1]
      BY <2>7, <2>10
    <3>5. p =< at[j] \/ (p =< at[j + 1] /\ KnownIn(last, i, p, lag))
      BY <3>1, <3>2, <3>4
    <3> QED BY <2>7, <2>10, <3>5
  <2>13. BlocksSoFar(n, a + c.size + 1, t)
    BY <2>6, <2>8, <2>9, <2>10, <2>11, <2>12, ReduceStepSolved
  <2>14. t \in ReduceStates /\ BlocksSoFar(n, at[(k + 1) + 1] + 1, t)
    <3>1. (k + 1) + 1 = j + 1
      BY <2>5
    <3>2. at[(k + 1) + 1] + 1 = a + c.size + 1
      BY <2>10, <3>1
    <3> QED BY <2>13, <3>2 DEF BlocksSoFar
  <2> QED BY <2>1, <2>4, <2>14
<1>7. it[1 .. m] \in Good[m]
  <2>. HIDE DEF Good
  <2> QED BY <1>5, <1>6, IterationKeeps
<1>8. PICK r : r = it[1 .. m]
  OBVIOUS
<1>9. r \in ReduceStates /\ \A j \in 1 .. Len(r.done) : SolvedBlock(n, r.done[j])
  BY <1>7, <1>8 DEF BlocksSoFar
<1>10. q = r.done /\ q \in Seq(BlockRecords)
  BY <1>4, <1>8, <1>9 DEF ReduceTaken, ReduceStates
<1>11. DOMAIN q = 1 .. Len(q)
  <2>. HIDE DEF BlockRecords
  <2> QED BY <1>10
<1>12. Covers(n, Len(q), q)
  <2>1. BlocksSoFar(n, at[m + 1] + 1, r)
    BY <1>7, <1>8
  <2>2. (at[m + 1] + 1) - 1 = n
    BY <1>3
  <2> QED BY <1>10, <2>1, <2>2 DEF BlocksSoFar
<1> QED BY <1>9, <1>10, <1>11, <1>12

-------------------------------------------------------------------------------
(***************************************************************************)
(* The whole decomposition                                                 *)
(***************************************************************************)

\* Two lists one after the other.
Joins(u, s, t) ==
    /\ Len(u) = Len(s) + Len(t)
    /\ \A k \in 1 .. Len(s) : u[k] = s[k]
    /\ \A k \in 1 .. Len(t) : u[Len(s) + k] = t[k]

\* The concatenation is.
LEMMA TwoLists ==
    ASSUME NEW R, NEW s \in Seq(R), NEW t \in Seq(R), NEW u, u = s \o t
    PROVE  u \in Seq(R) /\ Joins(u, s, t)
  BY DEF Joins

\* A function on the first places is a list.
LEMMA ListOf ==
    ASSUME NEW n \in Nat, NEW Q, NEW t, t = [b \in 1 .. n |-> t[b]], \A b \in 1 .. n : t[b] \in Q
    PROVE  t \in Seq(Q) /\ Len(t) = n
  OBVIOUS

\* A pair of an end for each place.
Singles(n, s) == \A k \in 1 .. n : s[k].size = 1 /\ s[k].mfs = 1

\* The blocks of an end are.
LEMMA SinglesOf ==
    ASSUME NEW R, Single \in R, NEW n \in Nat, NEW s, s = [i \in 1 .. n |-> Single]
    PROVE  s \in Seq(R) /\ Len(s) = n /\ Singles(n, s)
<1>1. s \in Seq(R) /\ Len(s) = n /\ \A k \in 1 .. n : s[k] = Single
  OBVIOUS
<1>2. Single.size = 1 /\ Single.mfs = 1
  BY DEF Single
<1> QED BY <1>1, <1>2 DEF Singles

\* The sizes of the components of the middle.
MadeOf(bs, ordered) == bs = [b \in DOMAIN ordered |-> [size |-> ordered[b].size, mfs |-> ordered[b].mfs]]
\* The first n of them have the sizes that were found.
Sizes(n, bs, ordered) == \A b \in 1 .. n : bs[b].size = ordered[b].size /\ bs[b].mfs = ordered[b].mfs

\* The blocks that are made of the components have their sizes.
LEMMA SizesOf ==
    ASSUME NEW n \in Nat, NEW ordered, DOMAIN ordered = 1 .. n, NEW bs, MadeOf(bs, ordered)
    PROVE  Sizes(n, bs, ordered) /\ \E R : Single \in R /\ bs \in Seq(R) /\ Len(bs) = n
<1>1. bs = [b \in 1 .. n |-> [size |-> ordered[b].size, mfs |-> ordered[b].mfs]]
  BY DEF MadeOf
<1>2. Sizes(n, bs, ordered)
  BY <1>1 DEF Sizes
<1>3. bs = [b \in 1 .. n |-> bs[b]]
  BY <1>1
<1>4. PICK R : R = {bs[b] : b \in 1 .. n} \cup {Single}
  OBVIOUS
<1>5. Single \in R /\ \A b \in 1 .. n : bs[b] \in R
  BY <1>4
<1>6. bs \in Seq(R) /\ Len(bs) = n
  BY <1>3, <1>5, ListOf
<1> QED BY <1>2, <1>5, <1>6

\* All the components.
Whole(cs, ordered) == AllOf(cs, ordered) /\ Len(cs) \in Nat /\ DOMAIN cs = 1 .. Len(cs)

\* The lists of the components, one after the other.
LEMMA ThreeLists ==
    ASSUME NEW P \in Nat, NEW F \in Nat, P = prologue, F = epilogue, NEW n \in Nat, NEW ordered, Len(ordered) = n,
           NEW R, NEW s \in Seq(R), Len(s) = P, Singles(P, s), NEW t \in Seq(R), Len(t) = F, Singles(F, t),
           NEW bs \in Seq(R), Len(bs) = n, Sizes(n, bs, ordered), NEW cs, cs = s \o bs \o t
    PROVE  Whole(cs, ordered)
<1>1. PICK c : c = s \o bs
  OBVIOUS
<1>2. /\ c \in Seq(R) /\ Len(c) = P + n
      /\ \A k \in 1 .. P : c[k] = s[k]
      /\ \A b \in 1 .. n : c[P + b] = bs[b]
  <2>1. c \in Seq(R) /\ Joins(c, s, bs)
    BY <1>1, TwoLists
  <2> QED BY <2>1 DEF Joins
<1>3. /\ cs \in Seq(R) /\ Len(cs) = (P + n) + F
      /\ \A k \in 1 .. P + n : cs[k] = c[k]
      /\ \A k \in 1 .. F : cs[(P + n) + k] = t[k]
  <2>1. cs = c \o t
    BY <1>1
  <2>2. cs \in Seq(R) /\ Joins(cs, c, t)
    BY <1>2, <2>1, TwoLists
  <2> QED BY <1>2, <2>2 DEF Joins
<1>4. ASSUME NEW k \in 1 .. P PROVE cs[k].size = 1 /\ cs[k].mfs = 1
  <2>1. k \in 1 .. P + n
    OBVIOUS
  <2>2. cs[k] = s[k]
    BY <1>2, <1>3, <2>1
  <2> QED BY <2>2 DEF Singles
<1>5. ASSUME NEW b \in 1 .. n PROVE cs[P + b].size = ordered[b].size /\ cs[P + b].mfs = ordered[b].mfs
  <2>1. P + b \in 1 .. P + n
    OBVIOUS
  <2>2. cs[P + b] = bs[b]
    BY <1>2, <1>3, <2>1
  <2> QED BY <2>2 DEF Sizes
<1>6. ASSUME NEW k \in 1 .. F PROVE cs[P + n + k].size = 1 /\ cs[P + n + k].mfs = 1
  <2>1. cs[P + n + k] = t[k]
    BY <1>3
  <2> QED BY <2>1 DEF Singles
<1>7. DOMAIN cs = 1 .. Len(cs) /\ Len(cs) \in Nat
  BY <1>3
<1>8. AllOf(cs, ordered)
  BY <1>3, <1>4, <1>5, <1>6 DEF AllOf
<1> QED BY <1>7, <1>8 DEF Whole

\* The components are those of the middle between the pairs of the ends.
LEMMA AllBlocksOf ==
    ASSUME prologue \in Nat, epilogue \in Nat, NEW ordered, Len(ordered) \in Nat, DOMAIN ordered = 1 .. Len(ordered),
           NEW bs, MadeOf(bs, ordered),
           NEW cs, cs = [i \in 1 .. prologue |-> Single] \o bs \o [i \in 1 .. epilogue |-> Single]
    PROVE  Whole(cs, ordered)
<1>1. PICK n \in Nat : n = Len(ordered)
  OBVIOUS
<1>2. PICK R : Sizes(n, bs, ordered) /\ Single \in R /\ bs \in Seq(R) /\ Len(bs) = n
  BY <1>1, SizesOf
<1>3. PICK P \in Nat : P = prologue
  OBVIOUS
<1>4. PICK F \in Nat : F = epilogue
  OBVIOUS
<1>5. PICK s : s = [i \in 1 .. P |-> Single]
  OBVIOUS
<1>6. PICK t : t = [i \in 1 .. F |-> Single]
  OBVIOUS
<1>7. cs = s \o bs \o t
  BY <1>3, <1>4, <1>5, <1>6
<1>8. s \in Seq(R) /\ Len(s) = P /\ Singles(P, s)
  BY <1>2, <1>5, SinglesOf
<1>9. t \in Seq(R) /\ Len(t) = F /\ Singles(F, t)
  BY <1>2, <1>6, SinglesOf
<1> QED BY <1>1, <1>2, <1>3, <1>4, <1>7, <1>8, <1>9, ThreeLists

\* The order that is left by the scans has its ends apart.
LEMMA EndsApartOf ==
    ASSUME NEW n \in Nat, n = file.n, Arrangement(n, eqs), Arrangement(n, vars), epilogue \in Nat, prologue \in Nat,
           EndsAreTriangular, stage = "components"
    PROVE  EndsApart(n, eqs, vars)
<1>1. \A i \in 1 .. n :
        /\ i <= prologue => \A q \in jacobian.static : q[1] = eqs[i] => \E j \in 1 .. i : q[2] = vars[j]
        /\ i > n - epilogue => \A q \in jacobian.static : q[2] = vars[i] => \E j \in i .. n : q[1] = eqs[j]
  BY DEF EndsAreTriangular, Ids
<1>2. /\ \A i, j \in 1 .. n : eqs[i] = eqs[j] => i = j
      /\ \A i, j \in 1 .. n : vars[i] = vars[j] => i = j
  BY DEF Arrangement
<1>. SUFFICES ASSUME NEW i \in 1 .. n, NEW p \in 1 .. n, <<eqs[i], vars[p]>> \in jacobian.static
     PROVE  (i =< prologue => p =< i) /\ (p > n - epilogue => i >= p)
  BY DEF EndsApart
<1>3. PICK q \in jacobian.static : q = <<eqs[i], vars[p]>> /\ q[1] = eqs[i] /\ q[2] = vars[p]
  OBVIOUS
<1>4. ASSUME i =< prologue PROVE p =< i
  <2>1. PICK j \in 1 .. i : q[2] = vars[j]
    BY <1>1, <1>3, <1>4
  <2>2. j \in 1 .. n /\ vars[p] = vars[j]
    BY <1>3, <2>1
  <2>3. p = j
    BY <1>2, <2>2
  <2> QED BY <2>3
<1>5. ASSUME p > n - epilogue PROVE i >= p
  <2>1. PICK j \in p .. n : q[1] = eqs[j]
    BY <1>1, <1>3, <1>5
  <2>2. j \in 1 .. n /\ eqs[i] = eqs[j]
    BY <1>3, <2>1
  <2>3. i = j
    BY <1>2, <2>2
  <2> QED BY <2>3
<1> QED BY <1>4, <1>5

\* There are as many orders as components.
LEMMA PartedLength ==
    ASSUME NEW m, NEW edges, NEW components, InSequence(m, edges, components), NEW E, NEW ordered, NEW middle,
           NEW atm, Parted(m, components, E, ordered, middle, atm)
    PROVE  Len(ordered) \in Nat /\ DOMAIN ordered = 1 .. Len(ordered)
<1>1. Len(components) \in Nat
  BY DEF InSequence
<1>2. DOMAIN ordered = 1 .. Len(components) /\ Len(ordered) = Len(components)
  BY DEF Parted
<1> QED BY <1>1, <1>2

\* The middle can be computed component by component.
LEMMA MiddleComputed ==
    ASSUME NEW m, Decomposing(m), NEW g, g = MiddleGraph,
           NEW components \in TopologicalOrders(Range(g.edges)), NEW inBlock, inBlock = InBlockEntries(components),
           NEW ordered,
           ordered = OrderedComponents(
                       [g EXCEPT !.edges = @ \o ForcedLoops(LagLeadOf(inBlock, 3), LagLeadOf(inBlock, 2))],
                       components, LagLeadOf(inBlock, 3)),
           NEW middle, middle = FlattenSeq([b \in DOMAIN ordered |-> ordered[b].order])
    PROVE  /\ Len(ordered) \in Nat /\ DOMAIN ordered = 1 .. Len(ordered)
           /\ Arrangement(m, middle)
           /\ \E atm : MiddleLaid(m, middle, ordered, atm)
<1>1. PICK edges : edges = Range(g.edges)
  OBVIOUS
<1>2. /\ InSequence(m, edges, components)
      /\ \A v, w \in 1 .. m : v # w /\ <<eqs[prologue + v], vars[prologue + w]>> \in jacobian.static
                                => <<w, v>> \in edges
      /\ \E E : OrderedBy(m, inBlock, E, components, ordered)
  BY <1>1, ComponentsOrdered
<1>3. PICK E : OrderedBy(m, inBlock, E, components, ordered)
  BY <1>2
<1>4. /\ \A v, w \in 1 .. m : v # w /\ <<eqs[prologue + v], vars[prologue + w]>> \in jacobian.static => <<w, v>> \in E
      /\ \A v \in 1 .. m : <<v, v>> \in E \/ StaticAt(inBlock, v)
  BY <1>3 DEF OrderedBy
<1>5. /\ DOMAIN ordered = DOMAIN components
      /\ \A b \in DOMAIN components : Solvable(components[b], E, ordered[b])
  BY <1>3 DEF OrderedBy
<1>6. m \in Nat
  BY DEF Decomposing
<1>7. Arrangement(m, middle) /\ \E atm : Parted(m, components, E, ordered, middle, atm)
  BY <1>2, <1>5, <1>6, MiddleParted
<1>8. PICK atm : Parted(m, components, E, ordered, middle, atm)
  BY <1>7
<1>9. MiddleLaid(m, middle, ordered, atm)
  BY <1>2, <1>4, <1>8, ComponentsLaid
<1>10. Len(ordered) \in Nat /\ DOMAIN ordered = 1 .. Len(ordered)
  BY <1>2, <1>8, PartedLength
<1> QED BY <1>7, <1>9, <1>10

-------------------------------------------------------------------------------
(***************************************************************************)
(* The derivatives of a model                                              *)
(***************************************************************************)

\* The derivatives of a model fit.
LEMMA IncidenceFits == ASSUME NEW f \in Files, NEW j, j = Incidence(f) PROVE Fitting(f, j)
<1>. SUFFICES ASSUME NEW d \in j.dynamic
     PROVE  /\ d = <<d[1], d[2], d[3]>>
            /\ d[1] \in (IF f.select THEN -1 .. 1 ELSE {0})
            /\ d[2] \in Ids(f) /\ d[3] \in Ids(f)
            /\ <<d[2], d[3]>> \in j.static
  BY DEF Fitting
<1>1. PICK e \in KeptEntries(f) : d = <<e.lag, e.eq, e.var>>
  BY DEF Incidence
<1>2. e \in f.entries
  BY DEF KeptEntries
<1>3. e.eq \in Ids(f) /\ e.var \in Ids(f) /\ e.lag \in (IF f.select THEN -1 .. 1 ELSE {0})
  BY <1>2, FilesAssumption
<1>4. <<e.eq, e.var>> \in j.static
  BY DEF Incidence
<1> QED BY <1>1, <1>3, <1>4

\* They still do with the null entries of a symbolic normalization.
LEMMA CompletedFits ==
    ASSUME NEW f \in Files, NEW j, Fitting(f, j), NEW P, P \subseteq Ids(f) \X Ids(f), NEW c, c = Completed(f, j, P)
    PROVE  Fitting(f, c)
<1>1. CASE P \subseteq j.contemporaneous
  BY <1>1 DEF Completed
<1>2. CASE ~ (P \subseteq j.contemporaneous)
  <2>1. c.static = j.static \cup P /\ c.dynamic = j.dynamic \cup {<<0, p[1], p[2]>> : p \in P}
    BY <1>2 DEF Completed
  <2>. SUFFICES ASSUME NEW d \in c.dynamic
       PROVE  /\ d = <<d[1], d[2], d[3]>>
              /\ d[1] \in (IF f.select THEN -1 .. 1 ELSE {0})
              /\ d[2] \in Ids(f) /\ d[3] \in Ids(f)
              /\ <<d[2], d[3]>> \in c.static
    BY DEF Fitting
  <2>2. CASE d \in j.dynamic
    <3>1. /\ d = <<d[1], d[2], d[3]>> /\ d[1] \in (IF f.select THEN -1 .. 1 ELSE {0})
          /\ d[2] \in Ids(f) /\ d[3] \in Ids(f) /\ <<d[2], d[3]>> \in j.static
      BY <2>2 DEF Fitting
    <3> QED BY <2>1, <3>1
  <2>3. CASE d \notin j.dynamic
    <3>1. PICK p \in P : d = <<0, p[1], p[2]>>
      BY <2>1, <2>3
    <3>2. p \in Ids(f) \X Ids(f) /\ p = <<p[1], p[2]>> /\ p[1] \in Ids(f) /\ p[2] \in Ids(f)
      OBVIOUS
    <3>3. 0 \in (IF f.select THEN -1 .. 1 ELSE {0})
      OBVIOUS
    <3> QED BY <2>1, <3>1, <3>2, <3>3
  <2> QED BY <2>2, <2>3
<1> QED BY <1>1, <1>2

\* The components can be computed one after the other.
Computable(n, dynamic, es, vs, cs) ==
    /\ Len(cs) \in Nat /\ DOMAIN cs = 1 .. Len(cs)
    /\ \E at : LaidOut(n, dynamic, es, vs, cs, at)

\* They can be when the middle has been arranged.
LEMMA DecompositionComputable ==
    ASSUME NEW m, Decomposing(m), EndsApart(file.n, eqs, vars), ComputeBlockDecomposition
    PROVE  /\ \E middle : Arrangement(m, middle) /\ eqs' = Rearranged(eqs, middle) /\ vars' = Rearranged(vars, middle)
           /\ Computable(file.n, jacobian.dynamic, eqs', vars', AllBlocks')
<1>1. PICK g \in {MiddleGraph} : \E components \in TopologicalOrders(Range(g.edges)):
     \E inBlock \in {InBlockEntries(components)}:
       /\ lagLead' = LagLeadOf(inBlock, 3)
       /\ \E ordered \in {OrderedComponents(
                            [g EXCEPT !.edges = @ \o ForcedLoops(LagLeadOf(inBlock, 3), LagLeadOf(inBlock, 2))],
                            components, LagLeadOf(inBlock, 3))}:
            /\ blocks' = [b \in DOMAIN ordered |-> [size |-> ordered[b].size, mfs |-> ordered[b].mfs]]
            /\ \E middle \in {FlattenSeq([b \in DOMAIN ordered |-> ordered[b].order])}:
                 /\ eqs' = Rearranged(eqs, middle)
                 /\ vars' = Rearranged(vars, middle)
  BY DEF ComputeBlockDecomposition
<1>2. PICK components \in TopologicalOrders(Range(g.edges)) :
     \E inBlock \in {InBlockEntries(components)}:
       /\ lagLead' = LagLeadOf(inBlock, 3)
       /\ \E ordered \in {OrderedComponents(
                            [g EXCEPT !.edges = @ \o ForcedLoops(LagLeadOf(inBlock, 3), LagLeadOf(inBlock, 2))],
                            components, LagLeadOf(inBlock, 3))}:
            /\ blocks' = [b \in DOMAIN ordered |-> [size |-> ordered[b].size, mfs |-> ordered[b].mfs]]
            /\ \E middle \in {FlattenSeq([b \in DOMAIN ordered |-> ordered[b].order])}:
                 /\ eqs' = Rearranged(eqs, middle)
                 /\ vars' = Rearranged(vars, middle)
  BY <1>1
<1>3. PICK inBlock \in {InBlockEntries(components)} :
         \E ordered \in {OrderedComponents(
                            [g EXCEPT !.edges = @ \o ForcedLoops(LagLeadOf(inBlock, 3), LagLeadOf(inBlock, 2))],
                            components, LagLeadOf(inBlock, 3))}:
            /\ blocks' = [b \in DOMAIN ordered |-> [size |-> ordered[b].size, mfs |-> ordered[b].mfs]]
            /\ \E middle \in {FlattenSeq([b \in DOMAIN ordered |-> ordered[b].order])}:
                 /\ eqs' = Rearranged(eqs, middle)
                 /\ vars' = Rearranged(vars, middle)
  BY <1>2
<1>4. PICK ordered \in {OrderedComponents(
                            [g EXCEPT !.edges = @ \o ForcedLoops(LagLeadOf(inBlock, 3), LagLeadOf(inBlock, 2))],
                            components, LagLeadOf(inBlock, 3))} :
            /\ blocks' = [b \in DOMAIN ordered |-> [size |-> ordered[b].size, mfs |-> ordered[b].mfs]]
            /\ \E middle \in {FlattenSeq([b \in DOMAIN ordered |-> ordered[b].order])}:
                 /\ eqs' = Rearranged(eqs, middle)
                 /\ vars' = Rearranged(vars, middle)
  BY <1>3
<1>5. PICK middle \in {FlattenSeq([b \in DOMAIN ordered |-> ordered[b].order])} :
                 /\ eqs' = Rearranged(eqs, middle)
                 /\ vars' = Rearranged(vars, middle)
  BY <1>4
<1>6. /\ Len(ordered) \in Nat /\ DOMAIN ordered = 1 .. Len(ordered)
      /\ Arrangement(m, middle)
      /\ \E atm : MiddleLaid(m, middle, ordered, atm)
  BY <1>1, MiddleComputed
<1>7. PICK atm : MiddleLaid(m, middle, ordered, atm)
  BY <1>6
<1>8. PICK bs : bs = blocks' /\ MadeOf(bs, ordered)
  BY <1>4 DEF MadeOf
<1>9. PICK cs : cs = AllBlocks'
  OBVIOUS
<1>10. cs = [i \in 1 .. prologue |-> Single] \o bs \o [i \in 1 .. epilogue |-> Single]
  <2>1. prologue' = prologue /\ epilogue' = epilogue
    BY DEF ComputeBlockDecomposition
  <2> QED BY <1>8, <1>9, <2>1 DEF AllBlocks, Single
<1>11. prologue \in Nat /\ epilogue \in Nat
  BY DEF Decomposing
<1>12. Whole(cs, ordered)
  BY <1>6, <1>8, <1>10, <1>11, AllBlocksOf
<1>13. AllOf(cs, ordered) /\ Len(cs) \in Nat /\ DOMAIN cs = 1 .. Len(cs)
  BY <1>12 DEF Whole
<1>14. PICK es : es = eqs' /\ es = Rearranged(eqs, middle)
  BY <1>5
<1>15. PICK vs : vs = vars' /\ vs = Rearranged(vars, middle)
  BY <1>5
<1>16. LaidOut(file.n, jacobian.dynamic, es, vs, cs, AllAt(m, Len(ordered), atm))
  BY <1>6, <1>7, <1>13, <1>14, <1>15, AllLaid
<1>17. Computable(file.n, jacobian.dynamic, es, vs, cs)
  BY <1>13, <1>16 DEF Computable
<1> QED BY <1>5, <1>6, <1>9, <1>14, <1>15, <1>17

-------------------------------------------------------------------------------
(***************************************************************************)
(* The invariant                                                           *)
(***************************************************************************)

\* The normalization starts with the incidence of the model.
IncidenceComputed == stage = "normalization" => jacobian = Incidence(file)

\* After it, each variable is in the equation it is matched with.
Matched ==
    stage \notin {"jacobian", "normalization", "aborted"} =>
      MatchedIn(file.n, jacobian.static, endo2eq)

\* The stages after the prologue and the epilogue are set aside.
Apart == {"types", "components", "reduction", "linearity", "done"}

\* The order of the equations has a prologue and an epilogue.
EndsSetAside ==
    stage \in Apart =>
      /\ prologue \in Nat /\ epilogue \in Nat /\ prologue + epilogue =< file.n
      /\ DOMAIN eqs = Ids(file) /\ DOMAIN vars = Ids(file)

\* The derivatives are those of a model with short lags.
DerivativesFit == Fitting(file, jacobian)

\* Each equation is at the place of the variable it is matched with.
InOrderOfPairs ==
    stage \in Apart =>
      /\ Arrangement(file.n, eqs) /\ Arrangement(file.n, vars)
      /\ \A i \in 1 .. file.n : endo2eq[vars[i]] = eqs[i]

\* The components can be computed in their order.
ComponentsComputable ==
    stage = "reduction" => Computable(file.n, jacobian.dynamic, eqs, vars, AllBlocks)

\* So can the blocks, which hold all the places.
BlocksComputable ==
    stage \in {"linearity", "done"} =>
      /\ DOMAIN final = 1 .. Len(final) /\ Covers(file.n, Len(final), final)
      /\ \A k \in DOMAIN final : SolvedBlock(file.n, final[k])

\* The inductive invariant.
IInv ==
    /\ file \in Files
    /\ IncidenceComputed
    /\ Matched
    /\ EndsSetAside
    /\ NormalizationIsBest
    /\ EndsAreTriangular
    /\ DerivativesFit
    /\ InOrderOfPairs
    /\ ComponentsComputable
    /\ BlocksComputable

\* Initially no matrix is looked at.
LEMMA InitInv == BlocksInit => IInv
BY DEF BlocksInit, IInv, IncidenceComputed, Matched, EndsSetAside, Apart, NormalizationIsBest,
       EndsAreTriangular, DerivativesFit, Fitting, InOrderOfPairs, ComponentsComputable, BlocksComputable

\* A matching is looked for among the entries of today, or among all.
LEMMA PatternOf ==
    ASSUME NEW f \in Files, NEW C, C = Incidence(f).contemporaneous
    PROVE  /\ MatchedPattern(f, C) \subseteq C \/ MatchedPattern(f, C) = Symbolic(f)
           /\ C \subseteq Incidence(f).static
           /\ Incidence(f).static \subseteq Ids(f) \X Ids(f)
           /\ Symbolic(f) \subseteq Ids(f) \X Ids(f)
<1>1. \A k : Above(f, k) \subseteq C
  BY DEF Above, Incidence
<1>2. \A e \in f.entries : e.eq \in Ids(f) /\ e.var \in Ids(f)
  BY FilesAssumption
<1>3. MatchedPattern(f, C) \subseteq C \/ MatchedPattern(f, C) = Symbolic(f)
  BY <1>1 DEF MatchedPattern
<1>4. C \subseteq Incidence(f).static
  BY DEF Incidence
<1>5. Incidence(f).static \subseteq Ids(f) \X Ids(f)
  BY <1>2 DEF Incidence, KeptEntries
<1>6. Symbolic(f) \subseteq Ids(f) \X Ids(f)
  BY <1>2 DEF Symbolic
<1> QED BY <1>3, <1>4, <1>5, <1>6

\* The normalization matches each variable with an equation that holds it.
LEMMA NormalizeMatches == ASSUME IInv, Normalize, stage' # "aborted" PROVE Matched'
<1>. DEFINE C == Incidence(file).contemporaneous
            pattern == MatchedPattern(file, C)
<1>1. file \in Files /\ file' = file /\ jacobian = Incidence(file)
  BY DEF IInv, IncidenceComputed, Normalize
<1>2. endo2eq' \in Matchings(file, pattern) /\ jacobian' = Completed(file, jacobian, pattern)
  BY <1>1 DEF Normalize
<1>3. PICK P : P = pattern /\ (P \subseteq C \/ P = Symbolic(file))
  BY <1>1, PatternOf
<1>4. P \subseteq jacobian'.static /\ jacobian'.static \subseteq Ids(file) \X Ids(file)
  <2>1. C \subseteq jacobian.static /\ jacobian.static \subseteq Ids(file) \X Ids(file)
        /\ Symbolic(file) \subseteq Ids(file) \X Ids(file) /\ C = jacobian.contemporaneous
    BY <1>1, PatternOf
  <2>2. P \subseteq Ids(file) \X Ids(file)
    BY <1>3, <2>1
  <2>. HIDE DEF C, pattern
  <2>3. CASE P \subseteq jacobian.contemporaneous
    BY <1>2, <1>3, <2>1, <2>3 DEF Completed
  <2>4. CASE ~ (P \subseteq jacobian.contemporaneous)
    <3>1. jacobian'.static = jacobian.static \cup P
      BY <1>2, <1>3, <2>4 DEF Completed
    <3> QED BY <2>1, <2>2, <3>1
  <2> QED BY <2>3, <2>4
<1>5. endo2eq' \in Matchings(file, P)
  BY <1>2, <1>3
<1>6. MatchedIn(file.n, jacobian'.static, endo2eq')
  <2>1. Ids(file) = 1 .. file.n
    BY DEF Ids
  <2>2. /\ endo2eq' \in [1 .. file.n -> 1 .. file.n] /\ IsInjective(endo2eq')
        /\ \A v \in 1 .. file.n : <<endo2eq'[v], v>> \in P
    BY <1>5, <2>1 DEF Matchings
  <2>3. \A v, w \in 1 .. file.n : endo2eq'[v] = endo2eq'[w] => v = w
    BY <2>2 DEF IsInjective
  <2> QED BY <1>4, <2>1, <2>2, <2>3 DEF MatchedIn
<1> QED BY <1>1, <1>6 DEF Matched

\* The normalization leaves the best matching, and the incidence as it was.
LEMMA NormalizeInv == ASSUME IInv, Normalize PROVE IInv'
<1>. DEFINE C == Incidence(file).contemporaneous
            pattern == MatchedPattern(file, C)
<1>1. file \in Files /\ file' = file /\ jacobian = Incidence(file)
  BY DEF IInv, IncidenceComputed, Normalize
<1>2. IncidenceComputed'
  BY DEF Normalize, IncidenceComputed
<1>3. ASSUME stage' = "prologue", NEW m \in Matchings(file, C)
      PROVE  /\ jacobian' = Incidence(file)
             /\ Worst(file, m) < Cutoff => Worst(file, endo2eq') =< Worst(file, m)
  <2>1. endo2eq' \in Matchings(file, pattern) /\ jacobian' = Completed(file, jacobian, pattern)
    BY <1>1, <1>3 DEF Normalize
  <2>2. /\ pattern \subseteq C
        /\ \A q \in Matchings(file, pattern) : Worst(file, m) < Cutoff => Worst(file, q) =< Worst(file, m)
    BY <1>1, <1>3, PatternIsBest
  <2>3. jacobian' = jacobian
    BY <1>1, <2>1, <2>2 DEF Completed
  <2> QED BY <1>1, <2>1, <2>2, <2>3
<1>4. NormalizationIsBest'
  BY <1>1, <1>3 DEF NormalizationIsBest
<1>5. Matched'
  <2>1. CASE stage' = "aborted"
    BY <2>1 DEF Matched
  <2> QED BY <2>1, NormalizeMatches
<1>6. stage' \in {"prologue", "aborted"}
  BY DEF Normalize
<1>7. EndsSetAside' /\ EndsAreTriangular' /\ InOrderOfPairs' /\ ComponentsComputable' /\ BlocksComputable'
  BY <1>6 DEF EndsSetAside, EndsAreTriangular, Apart, InOrderOfPairs, ComponentsComputable, BlocksComputable
<1>8. DerivativesFit'
  <2>1. PICK P : P = MatchedPattern(file, C) /\ P \subseteq Ids(file) \X Ids(file)
    BY <1>1, PatternOf
  <2>2. PICK j : j = jacobian'
    OBVIOUS
  <2>3. j = jacobian \/ j = Completed(file, jacobian, P)
    BY <1>1, <2>1, <2>2 DEF Normalize
  <2>4. Fitting(file, jacobian)
    BY DEF IInv, DerivativesFit
  <2>5. Fitting(file, j)
    BY <1>1, <2>1, <2>3, <2>4, CompletedFits
  <2> QED BY <1>1, <2>2, <2>5 DEF DerivativesFit
<1> QED BY <1>1, <1>2, <1>4, <1>5, <1>7, <1>8 DEF IInv

\* The prologue and the epilogue are triangular when they are set aside.
LEMMA PrologueInv == ASSUME IInv, ComputePrologueAndEpilogue PROVE IInv'
<1>1. PICK p : /\ p = Prologue(jacobian.static, MatchedOrder(file, endo2eq))
               /\ \E o \in {Epilogue(jacobian.static, [p EXCEPT !.done = 0], p.done + 1)} :
                    prologue' = p.done /\ epilogue' = o.done /\ eqs' = o.eqs /\ vars' = o.vars
  BY DEF ComputePrologueAndEpilogue
<1>2. PICK o : /\ o = Epilogue(jacobian.static, [p EXCEPT !.done = 0], p.done + 1)
               /\ prologue' = p.done /\ epilogue' = o.done /\ eqs' = o.eqs /\ vars' = o.vars
  BY <1>1
<1>3. /\ file \in Files /\ MatchedIn(file.n, jacobian.static, endo2eq)
      /\ file' = file /\ jacobian' = jacobian /\ endo2eq' = endo2eq /\ stage' = "types"
  BY DEF IInv, Matched, ComputePrologueAndEpilogue
<1>4. /\ InEnds(file.n, jacobian.static, endo2eq, p.done + 1, o)
      /\ p.done \in 0 .. file.n /\ o.done \in 0 .. file.n /\ p.done + o.done =< file.n
  BY <1>1, <1>2, <1>3, EndsOf
<1>5. file.n \in Nat /\ Ids(file) = 1 .. file.n
  BY <1>3, FilesAssumption DEF Ids
<1>6. InPairs(file.n, endo2eq, o) /\ o \in Orders(file.n)
  BY <1>4 DEF InEnds, InPairs
<1>7. EndsSetAside'
  <2>1. o.eqs \in [1 .. file.n -> 1 .. file.n] /\ o.vars \in [1 .. file.n -> 1 .. file.n]
    BY <1>5, <1>6, OrderType
  <2>2. DOMAIN eqs' = Ids(file') /\ DOMAIN vars' = Ids(file')
    BY <1>2, <1>3, <1>5, <2>1
  <2>3. prologue' \in Nat /\ epilogue' \in Nat /\ prologue' + epilogue' =< file'.n
    BY <1>2, <1>3, <1>4
  <2> QED BY <2>2, <2>3 DEF EndsSetAside
<1>8. ASSUME NEW i \in 1 .. file.n
      PROVE  /\ i <= prologue' =>
                  \A q \in jacobian.static : q[1] = eqs'[i] => \E j \in 1 .. i : q[2] = vars'[j]
             /\ i > file.n - epilogue' =>
                  \A q \in jacobian.static : q[2] = vars'[i] => \E j \in i .. file.n : q[1] = eqs'[j]
             /\ endo2eq[vars'[i]] = eqs'[i]
  <2>1. Leads(jacobian.static, o, p.done)
    <3>1. (p.done + 1) - 1 = p.done
      BY <1>4
    <3> QED BY <1>4, <3>1 DEF InEnds
  <2>2. Follows(file.n, jacobian.static, o, file.n - o.done)
    BY <1>4 DEF InEnds
  <2>3. ASSUME i <= prologue', NEW q \in jacobian.static, q[1] = eqs'[i]
        PROVE  \E j \in 1 .. i : q[2] = vars'[j]
    <3>1. i \in 1 .. p.done
      BY <1>2, <1>4, <2>3
    <3> QED BY <1>2, <2>1, <2>3, <3>1 DEF Leads
  <2>4. ASSUME i > file.n - epilogue', NEW q \in jacobian.static, q[2] = vars'[i]
        PROVE  \E j \in i .. file.n : q[1] = eqs'[j]
    <3>1. PICK y \in 0 .. file.n : y = o.done
      BY <1>4
    <3>2. i > file.n - y
      BY <1>2, <2>4, <3>1
    <3>3. i \in (file.n - y) + 1 .. file.n
      BY <1>5, <3>2
    <3> QED BY <1>2, <2>2, <2>4, <3>1, <3>3 DEF Follows
  <2>5. endo2eq[vars'[i]] = eqs'[i]
    BY <1>2, <1>6 DEF InPairs
  <2> QED BY <2>3, <2>4, <2>5
<1>9. EndsAreTriangular'
  BY <1>3, <1>5, <1>8 DEF EndsAreTriangular
<1>10. InOrderOfPairs'
  <2>1. Arrangement(file.n, o.eqs) /\ Arrangement(file.n, o.vars)
    BY <1>6 DEF InPairs
  <2> QED BY <1>2, <1>3, <1>8, <2>1 DEF InOrderOfPairs
<1>11. DerivativesFit' /\ ComponentsComputable' /\ BlocksComputable'
  BY <1>3 DEF IInv, DerivativesFit, ComponentsComputable, BlocksComputable
<1> QED BY <1>3, <1>7, <1>9, <1>10, <1>11 DEF IInv, Matched, IncidenceComputed, NormalizationIsBest

\* The ends stay as they are when the middle is rearranged.
LEMMA MiddleInv == ASSUME IInv, ComputeBlockDecomposition PROVE IInv'
<1>1. /\ file' = file /\ jacobian' = jacobian /\ endo2eq' = endo2eq
      /\ prologue' = prologue /\ epilogue' = epilogue /\ stage' = "reduction" /\ stage = "components"
  BY DEF ComputeBlockDecomposition
<1>3. /\ file \in Files /\ MatchedIn(file.n, jacobian.static, endo2eq)
      /\ prologue \in Nat /\ epilogue \in Nat /\ prologue + epilogue =< file.n
      /\ DOMAIN eqs = Ids(file) /\ DOMAIN vars = Ids(file)
  BY <1>1 DEF IInv, Matched, EndsSetAside, Apart
<1>4. file.n \in Nat /\ Ids(file) = 1 .. file.n
  BY <1>3, FilesAssumption DEF Ids
<1>10. /\ Arrangement(file.n, eqs) /\ Arrangement(file.n, vars)
       /\ \A i \in 1 .. file.n : endo2eq[vars[i]] = eqs[i]
       /\ Fitting(file, jacobian)
  BY <1>1 DEF IInv, InOrderOfPairs, Apart, DerivativesFit
<1>11. PICK m \in Nat : m = file.n - prologue - epilogue
  BY <1>3, <1>4
<1>12. Decomposing(m)
  BY <1>3, <1>4, <1>10, <1>11 DEF Decomposing, MatchedIn
<1>13. EndsApart(file.n, eqs, vars)
  BY <1>1, <1>3, <1>4, <1>10, EndsApartOf DEF IInv
<1>14. /\ \E middle : Arrangement(m, middle) /\ eqs' = Rearranged(eqs, middle) /\ vars' = Rearranged(vars, middle)
       /\ Computable(file.n, jacobian.dynamic, eqs', vars', AllBlocks')
  BY <1>12, <1>13, DecompositionComputable
<1>2. PICK middle : Arrangement(m, middle) /\ eqs' = Rearranged(eqs, middle) /\ vars' = Rearranged(vars, middle)
  BY <1>14
<1>5. EndsSetAside'
  BY <1>1, <1>2, <1>3 DEF EndsSetAside, Rearranged
<1>6. ASSUME NEW i \in Ids(file), ~ InMiddle(i) PROVE eqs'[i] = eqs[i] /\ vars'[i] = vars[i]
  BY <1>2, <1>3, <1>6 DEF Rearranged
<1>7. \A i : InMiddle(i) => i > prologue /\ i =< file.n - epilogue
  BY <1>3, <1>4 DEF InMiddle, Middle
<1>8. EndsAreTriangular'
  <2>. SUFFICES ASSUME NEW i \in 1 .. file.n
       PROVE  /\ i <= prologue =>
                   \A q \in jacobian.static : q[1] = eqs'[i] => \E j \in 1 .. i : q[2] = vars'[j]
              /\ i > file.n - epilogue =>
                   \A q \in jacobian.static : q[2] = vars'[i] => \E j \in i .. file.n : q[1] = eqs'[j]
              /\ ~ (i \in {prologue + k : k \in 1 .. (file.n - prologue - epilogue)}) => endo2eq[vars'[i]] = eqs'[i]
    BY <1>1, <1>4 DEF EndsAreTriangular, InMiddle, Middle
  <2>1. /\ i <= prologue =>
             \A q \in jacobian.static : q[1] = eqs[i] => \E j \in 1 .. i : q[2] = vars[j]
        /\ i > file.n - epilogue =>
             \A q \in jacobian.static : q[2] = vars[i] => \E j \in i .. file.n : q[1] = eqs[j]
        /\ ~ InMiddle(i) => endo2eq[vars[i]] = eqs[i]
    BY <1>1, <1>4 DEF IInv, EndsAreTriangular
  <2>2. ASSUME i <= prologue, NEW q \in jacobian.static, q[1] = eqs'[i]
        PROVE  \E j \in 1 .. i : q[2] = vars'[j]
    <3>1. eqs'[i] = eqs[i]
      <4>1. ~ (i > prologue)
        BY <1>3, <2>2
      <4> QED BY <1>4, <1>6, <1>7, <4>1
    <3>2. PICK j \in 1 .. i : q[2] = vars[j]
      BY <2>1, <2>2, <3>1
    <3>3. j \in 1 .. file.n /\ ~ (j > prologue)
      BY <1>3, <1>4, <2>2
    <3>4. vars'[j] = vars[j]
      BY <1>4, <1>6, <1>7, <3>3
    <3> QED BY <3>2, <3>4
  <2>3. ASSUME i > file.n - epilogue, NEW q \in jacobian.static, q[2] = vars'[i]
        PROVE  \E j \in i .. file.n : q[1] = eqs'[j]
    <3>1. ~ (i =< file.n - epilogue)
      BY <1>3, <1>4, <2>3
    <3>2. vars'[i] = vars[i]
      BY <1>4, <1>6, <1>7, <3>1
    <3>3. PICK j \in i .. file.n : q[1] = eqs[j]
      BY <2>1, <2>3, <3>2
    <3>4. j \in 1 .. file.n /\ ~ (j =< file.n - epilogue)
      BY <1>3, <1>4, <3>1
    <3>5. eqs'[j] = eqs[j]
      BY <1>4, <1>6, <1>7, <3>4
    <3> QED BY <3>3, <3>5
  <2>4. ASSUME ~ InMiddle(i) PROVE endo2eq[vars'[i]] = eqs'[i]
    BY <1>4, <1>6, <2>1, <2>4
  <2> QED BY <2>2, <2>3, <2>4 DEF InMiddle, Middle
<1>15. InOrderOfPairs'
  <2>1. PICK es : es = eqs' /\ es = Rearranged(eqs, middle)
    BY <1>2
  <2>2. PICK vs : vs = vars' /\ vs = Rearranged(vars, middle)
    BY <1>2
  <2>3. Arrangement(file.n, es) /\ \A i \in 1 .. file.n : es[i] = eqs[From(middle, i)]
    BY <1>2, <1>10, <1>12, <2>1, RearrangedOf
  <2>4. Arrangement(file.n, vs) /\ \A i \in 1 .. file.n : vs[i] = vars[From(middle, i)]
    BY <1>2, <1>10, <1>12, <2>2, RearrangedOf
  <2>5. \A i \in 1 .. file.n : From(middle, i) \in 1 .. file.n
    BY <1>2, <1>12, FromOf
  <2>6. \A i \in 1 .. file.n : endo2eq[vs[i]] = es[i]
    BY <1>10, <2>3, <2>4, <2>5
  <2> QED BY <1>1, <2>1, <2>2, <2>3, <2>4, <2>6 DEF InOrderOfPairs
<1>16. ComponentsComputable' /\ BlocksComputable' /\ DerivativesFit'
  BY <1>1, <1>10, <1>14 DEF ComponentsComputable, BlocksComputable, DerivativesFit
<1> QED BY <1>1, <1>3, <1>5, <1>8, <1>15, <1>16 DEF IInv, Matched, IncidenceComputed, NormalizationIsBest

\* The blocks are left in an order in which they can be computed.
LEMMA ReductionInv == ASSUME IInv, ReduceBlocksAndTypeDetermination PROVE BlocksComputable'
<1>1. /\ file' = file /\ jacobian' = jacobian /\ eqs' = eqs /\ vars' = vars /\ stage = "reduction"
      /\ final' = Reduce(AllBlocks)
  BY DEF ReduceBlocksAndTypeDetermination
<1>2. /\ file \in Files /\ Arrangement(file.n, eqs) /\ Arrangement(file.n, vars) /\ Fitting(file, jacobian)
      /\ Computable(file.n, jacobian.dynamic, eqs, vars, AllBlocks)
  BY <1>1 DEF IInv, InOrderOfPairs, Apart, DerivativesFit, ComponentsComputable
<1>3. PICK n \in Nat : n = file.n
  BY <1>2, FilesAssumption
<1>4. PICK cs : cs = AllBlocks
  OBVIOUS
<1>5. Len(cs) \in Nat /\ DOMAIN cs = 1 .. Len(cs) /\ \E at : LaidOut(n, jacobian.dynamic, eqs, vars, cs, at)
  BY <1>2, <1>3, <1>4 DEF Computable
<1>6. PICK at : LaidOut(n, jacobian.dynamic, eqs, vars, cs, at)
  BY <1>5
<1>7. PICK q : q = Reduce(cs)
  OBVIOUS
<1>8. DOMAIN q = 1 .. Len(q) /\ Covers(n, Len(q), q) /\ \A k \in DOMAIN q : SolvedBlock(n, q[k])
  BY <1>2, <1>3, <1>5, <1>6, <1>7, ReduceSolved
<1>9. q = final' /\ file'.n = n
  BY <1>1, <1>3, <1>4, <1>7
<1>10. ASSUME NEW k \in DOMAIN q PROVE SolvedBlock(n, q[k])'
  <2>1. SolvedBlock(n, q[k])
    BY <1>8
  <2> QED BY <1>1, <2>1 DEF SolvedBlock
<1> QED BY <1>8, <1>9, <1>10 DEF BlocksComputable

\* Every step of the decomposition keeps the invariant.
LEMMA NextInv == ASSUME IInv, [Decomposition]_bvars PROVE IInv'
<1>1. CASE EvaluateAndReduceJacobian
  <2>1. DerivativesFit'
    BY <1>1, IncidenceFits DEF IInv, EvaluateAndReduceJacobian, DerivativesFit
  <2> QED BY <1>1, <2>1 DEF IInv, EvaluateAndReduceJacobian, IncidenceComputed, NormalizationIsBest, Matched,
                            EndsSetAside, EndsAreTriangular, Apart, InOrderOfPairs, ComponentsComputable,
                            BlocksComputable
<1>2. CASE Normalize
  BY <1>2, NormalizeInv
<1>3. CASE ComputePrologueAndEpilogue
  BY <1>3, PrologueInv
<1>4. CASE ComputeBlockDecomposition
  BY <1>4, MiddleInv
<1>5. ASSUME \/ EquationTypeDetermination
             \/ ReduceBlocksAndTypeDetermination \/ DetermineLinearBlocks
             \/ UNCHANGED bvars
      PROVE  IInv'
  <2>1. /\ file' = file /\ jacobian' = jacobian /\ endo2eq' = endo2eq /\ eqs' = eqs /\ vars' = vars
        /\ prologue' = prologue /\ epilogue' = epilogue
        /\ stage' = stage \/ (stage \in Apart /\ stage' \in Apart)
    BY <1>5 DEF EquationTypeDetermination, ReduceBlocksAndTypeDetermination, DetermineLinearBlocks,
                bvars, Apart
  <2>2. IncidenceComputed' /\ Matched' /\ EndsSetAside' /\ NormalizationIsBest'
    BY <2>1 DEF IInv, IncidenceComputed, Matched, EndsSetAside, NormalizationIsBest, Apart
  <2>3. EndsAreTriangular'
    <3>1. \A i : InMiddle(i) <=> i \in {prologue' + k : k \in 1 .. (file'.n - prologue' - epilogue')}
      BY <2>1 DEF InMiddle, Middle
    <3> QED BY <2>1, <3>1 DEF IInv, EndsAreTriangular, Apart, InMiddle, Middle
  <2>4. DerivativesFit' /\ InOrderOfPairs'
    BY <2>1 DEF IInv, DerivativesFit, InOrderOfPairs, Apart
  <2>5. ComponentsComputable'
    <3>1. ASSUME stage' = "reduction" PROVE stage = "reduction" /\ blocks' = blocks
      BY <1>5, <3>1 DEF EquationTypeDetermination, ReduceBlocksAndTypeDetermination, DetermineLinearBlocks, bvars
    <3>2. ASSUME stage' = "reduction" PROVE AllBlocks' = AllBlocks
      BY <2>1, <3>1, <3>2 DEF AllBlocks, Single
    <3> QED BY <2>1, <3>1, <3>2 DEF IInv, ComponentsComputable
  <2>6. BlocksComputable'
    <3>1. CASE ReduceBlocksAndTypeDetermination
      BY <3>1, ReductionInv
    <3>2. CASE ~ ReduceBlocksAndTypeDetermination
      <4>1. ASSUME stage' \in {"linearity", "done"} PROVE stage \in {"linearity", "done"} /\ final' = final
        BY <1>5, <3>2, <4>1 DEF EquationTypeDetermination, DetermineLinearBlocks, bvars
      <4>2. ASSUME stage' \in {"linearity", "done"}, NEW k \in DOMAIN final PROVE SolvedBlock(file.n, final[k])'
        <5>1. SolvedBlock(file.n, final[k]) /\ final' = final
          BY <4>1, <4>2 DEF IInv, BlocksComputable
        <5> QED BY <2>1, <5>1 DEF SolvedBlock
      <4>3. ASSUME stage' \in {"linearity", "done"}
            PROVE  DOMAIN final' = 1 .. Len(final') /\ Covers(file'.n, Len(final'), final')
        <5>1. DOMAIN final = 1 .. Len(final) /\ Covers(file.n, Len(final), final)
          BY <4>1, <4>3 DEF IInv, BlocksComputable
        <5> QED BY <2>1, <4>1, <4>3, <5>1
      <4> QED BY <4>1, <4>2, <4>3 DEF BlocksComputable
    <3> QED BY <3>1, <3>2
  <2> QED BY <2>1, <2>2, <2>3, <2>4, <2>5, <2>6 DEF IInv
<1> QED BY <1>1, <1>2, <1>3, <1>4, <1>5 DEF Decomposition

\* The invariant holds in every state of the decomposition of any models.
THEOREM Invariance == Spec => []IInv
<1>1. BlocksInit => IInv
  BY InitInv
<1>2. IInv /\ [Decomposition]_bvars => IInv'
  BY NextInv
<1> QED BY <1>1, <1>2, PTL DEF Spec

\* For any models: no matching of the contemporaneous Jacobian keeps its smallest entry, relative
\* to the largest one of its row, larger than the matching that computeNonSingularNormalization
\* leaves, unless that entry is below the cutoff; and when there is a matching no null entries
\* are added to the Jacobian.
THEOREM NormalizationIsBestAlways == Spec => []NormalizationIsBest
<1>1. IInv => NormalizationIsBest
  BY DEF IInv
<1> QED BY <1>1, Invariance, PTL

\* For any models: once they are set aside, no equation of the prologue holds a variable of a later
\* place, no variable of the epilogue is in an equation of an earlier place, and their equations
\* are at the places of their variables, also after the middle has been rearranged into blocks.
THEOREM EndsAreTriangularAlways == Spec => []EndsAreTriangular
<1>1. IInv => EndsAreTriangular
  BY DEF IInv
<1> QED BY <1>1, Invariance, PTL

\* Blocks that can be computed one after the other are solved in order.
LEMMA ComputableInOrder == IInv => SolvedInOrder
<1>. SUFFICES ASSUME IInv, stage = "done"
     PROVE  /\ Range(vars) = Ids(file)
            /\ \A i \in Ids(file): \E k \in DOMAIN final: \A j \in DOMAIN final: i \in Inside(final[j]) <=> j = k
            /\ \A i \in Ids(file): endo2eq[vars[i]] = eqs[i]
            /\ \A k \in DOMAIN final: \A i \in Inside(final[k]): \A d \in jacobian.dynamic:
                 d[2] = eqs[i] =>
                   \/ Place(vars, d[3]) < final[k].first
                   \/ /\ Place(vars, d[3]) \in Inside(final[k])
                      /\ KnownInBlock(final[k], i, Place(vars, d[3]), d[1])
  BY DEF SolvedInOrder
<1>1. /\ file \in Files /\ Arrangement(file.n, vars) /\ Fitting(file, jacobian)
      /\ \A i \in 1 .. file.n : endo2eq[vars[i]] = eqs[i]
      /\ \A k \in DOMAIN final : SolvedBlock(file.n, final[k])
      /\ DOMAIN final = 1 .. Len(final) /\ Covers(file.n, Len(final), final)
  BY DEF IInv, InOrderOfPairs, Apart, DerivativesFit, BlocksComputable
<1>2. PICK n \in Nat : n = file.n /\ Ids(file) = 1 .. n
  BY <1>1, FilesAssumption DEF Ids
<1>3. ASSUME NEW k \in DOMAIN final, NEW i \in Inside(final[k]), NEW d \in jacobian.dynamic, d[2] = eqs[i]
      PROVE  \/ Place(vars, d[3]) < final[k].first
             \/ /\ Place(vars, d[3]) \in Inside(final[k])
                /\ KnownInBlock(final[k], i, Place(vars, d[3]), d[1])
  <2>1. d = <<d[1], d[2], d[3]>> /\ d[3] \in 1 .. n
    BY <1>1, <1>2 DEF Fitting
  <2>2. PICK lag \in -1 .. 1 : lag = d[1]
    BY <1>1, LagsFit
  <2>3. PICK p \in 1 .. n : vars[p] = d[3]
    BY <1>1, <1>2, <2>1 DEF Arrangement
  <2>4. Place(vars, d[3]) = p
    BY <1>1, <1>2, <2>3, PlaceOf
  <2>5. <<lag, eqs[i], vars[p]>> \in jacobian.dynamic
    BY <1>3, <2>1, <2>2, <2>3
  <2>6. SolvedBlock(n, final[k])
    BY <1>1, <1>2
  <2>7. p < final[k].first \/ (p \in Inside(final[k]) /\ KnownInBlock(final[k], i, p, lag))
    BY <2>5, <2>6 DEF SolvedBlock
  <2> QED BY <2>2, <2>4, <2>7
<1>4. Range(vars) = Ids(file)
  <2>1. DOMAIN vars = 1 .. n /\ \A i \in 1 .. n : vars[i] \in 1 .. n
    BY <1>1, <1>2 DEF Arrangement
  <2>2. \A x \in 1 .. n : \E i \in 1 .. n : vars[i] = x
    BY <1>1, <1>2 DEF Arrangement
  <2> QED BY <1>2, <2>1, <2>2, Zenon DEF Range
<1>5. \A i \in Ids(file): \E k \in DOMAIN final: \A j \in DOMAIN final: i \in Inside(final[j]) <=> j = k
  <2>1. \A i \in 1 .. file.n : \E k \in 1 .. Len(final) : \A j \in 1 .. Len(final) : i \in Inside(final[j]) <=> j = k
    BY <1>1, Zenon DEF Covers
  <2>2. Ids(file) = 1 .. file.n
    BY <1>2
  <2>3. DOMAIN final = 1 .. Len(final)
    BY <1>1
  <2> QED
    <3>1. ASSUME NEW i \in Ids(file)
          PROVE  \E k \in DOMAIN final : \A j \in DOMAIN final : i \in Inside(final[j]) <=> j = k
      <4>1. i \in 1 .. file.n
        BY <2>2
      <4>2. PICK k \in 1 .. Len(final) : \A j \in 1 .. Len(final) : i \in Inside(final[j]) <=> j = k
        BY <2>1, <4>1, Zenon
      <4>3. k \in DOMAIN final
        BY <2>3, <4>2
      <4>4. \A j \in DOMAIN final : i \in Inside(final[j]) <=> j = k
        BY <2>3, <4>2
      <4> QED BY <4>3, <4>4, Zenon
    <3> QED BY <3>1, Zenon
<1> QED BY <1>1, <1>2, <1>3, <1>4, <1>5

\* For any models: in the order the blocks are left in, each variable has a place and each place one
\* block; each equation is at the place of the variable it was matched with, and holds only variables of
\* earlier blocks, and of its own block where they are known when it is computed: the feedback set of a
\* component cuts all its cycles, its recursive variables are in an order they can be computed in, and
\* evaluated equations are merged only where their leads and lags allow it.
THEOREM SolvedInOrderAlways == Spec => []SolvedInOrder
<1> QED BY ComputableInOrder, Invariance, PTL

===============================================================================
