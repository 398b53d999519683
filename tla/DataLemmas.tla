------------------------------ MODULE DataLemmas ------------------------------
(***************************************************************************)
(* Facts about the operators of the community modules that the models      *)
(* compute with: sums of the values of a function (SumFunction) and the    *)
(* concatenation of a sequence of sequences (FlattenSeq).  Both are        *)
(* defined by recursion; that the recursion defines what it should, and    *)
(* what it computes, is proved by induction on a set of numbers.           *)
(***************************************************************************)
EXTENDS Integers, SequencesExt, FiniteSetTheorems, SequenceTheorems,
        WellFoundedInduction, TLAPS

(***************************************************************************)
(* Arithmetic                                                              *)
(***************************************************************************)

\* What division by a positive number is.
LEMMA DivMod ==
    ASSUME NEW a \in Int, NEW b \in Nat \ {0}
    PROVE  a \div b \in Int /\ a % b \in 0 .. b - 1 /\ a = b * (a \div b) + (a % b)
BY SMT

\* Division that rounds up.
LEMMA CeilDiv ==
    ASSUME NEW a \in Int, NEW b \in Nat \ {0}
    PROVE  /\ (a + b - 1) \div b \in Int
           /\ a =< b * ((a + b - 1) \div b)
           /\ b * ((a + b - 1) \div b) < a + b
<1>1. /\ a + b - 1 = b * ((a + b - 1) \div b) + ((a + b - 1) % b)
      /\ (a + b - 1) \div b \in Int /\ (a + b - 1) % b \in 0 .. b - 1
  BY DivMod, a + b - 1 \in Int
<1> QED BY <1>1

\* A positive factor can be cancelled.
LEMMA CancelFactor ==
    ASSUME NEW a \in Int, NEW b \in Int, NEW c \in Nat \ {0}, a * c =< b * c
    PROVE  a =< b
<1>. SUFFICES ASSUME a - b >= 1 PROVE FALSE
  OBVIOUS
<1>1. (a - b) * c >= c
  OBVIOUS
<1>2. (a - b) * c = a * c - b * c
  OBVIOUS
<1> QED BY <1>1, <1>2

\* A product with a number that is not negative is monotone.
LEMMA TimesMonotone ==
    ASSUME NEW a \in Int, NEW b \in Int, NEW c \in Nat, a =< b
    PROVE  a * c =< b * c
<1>1. (b - a) * c >= 0
  OBVIOUS
<1>2. (b - a) * c = b * c - a * c
  OBVIOUS
<1> QED BY <1>1, <1>2

-------------------------------------------------------------------------------
(***************************************************************************)
(* Induction and sums                                                      *)
(***************************************************************************)

\* A set of numbers has a least one.
LEMMA LeastNumber ==
    ASSUME NEW T \in SUBSET Nat, T # {} PROVE \E x \in T : \A y \in T : x =< y
<1>1. IsWellFoundedOn(OpToRel(<, Nat), Nat)
  BY NatLessThanWellFounded
<1>2. PICK x \in T : \A y \in T : <<y, x>> \notin OpToRel(<, Nat)
  BY <1>1, WFMin
<1>3. \A y \in T : ~ (y < x)
  BY <1>2 DEF OpToRel
<1> QED BY <1>3

\* Induction on the set of the numbers for which something holds.
LEMMA Induction ==
    ASSUME NEW S, 0 \in S, \A n \in Nat : n \in S => n + 1 \in S
    PROVE  \A n \in Nat : n \in S
<1>. DEFINE T == {n \in Nat : n \notin S}
<1>. SUFFICES ASSUME T # {} PROVE FALSE
  OBVIOUS
<1>1. PICK x \in T : \A y \in T : x =< y
  BY LeastNumber
<1>2. x # 0 /\ x - 1 \in Nat /\ x - 1 \notin T
  BY <1>1
<1> QED BY <1>2

-------------------------------------------------------------------------------

\* The element that a fold takes next.
Chosen(s) == CHOOSE x \in s : TRUE

\* g is the sum of f on each set of U: what the recursion of a fold says.
IsFold(g, f, U) ==
    g = [s \in U |-> IF s = {} THEN 0 ELSE f[Chosen(s)] + g[s \ {Chosen(s)}]]

\* The parts of S with at most n elements.
Parts(S, n) == {s \in SUBSET S : Cardinality(s) =< n}

\* The element that is taken is one of the set.
LEMMA ChosenOf == ASSUME NEW s, s # {} PROVE Chosen(s) \in s
BY DEF Chosen

\* A part of a finite set is finite, and one smaller without an element.
LEMMA PartOf ==
    ASSUME NEW S, IsFiniteSet(S), NEW s \in SUBSET S
    PROVE  /\ IsFiniteSet(s) /\ Cardinality(s) \in Nat
           /\ Cardinality(s) = 0 <=> s = {}
           /\ \A x \in s : /\ Cardinality(s \ {x}) = Cardinality(s) - 1
                           /\ s \ {x} \in SUBSET S
<1>1. IsFiniteSet(s)
  BY FS_Subset
<1> QED BY <1>1, FS_CardinalityType, FS_EmptySet, FS_RemoveElement

\* The only part without elements is the empty one.
LEMMA NoPart ==
    ASSUME NEW S, IsFiniteSet(S) PROVE \A s \in SUBSET S : Cardinality(s) = 0 => s = {}
BY PartOf

\* A part of n + 1 elements has n without the one that is taken.
LEMMA PartNext ==
    ASSUME NEW S, IsFiniteSet(S), NEW n \in Nat, NEW s \in SUBSET S, Cardinality(s) = n + 1
    PROVE  /\ s # {} /\ Chosen(s) \in s /\ IsFiniteSet(s)
           /\ \A x \in s : /\ Cardinality(s \ {x}) = n
                           /\ s \ {x} \in SUBSET S /\ IsFiniteSet(s \ {x})
<1>1. s # {} /\ IsFiniteSet(s)
  BY PartOf
<1>2. Chosen(s) \in s
  BY <1>1, ChosenOf
<1>3. \A x \in s : Cardinality(s \ {x}) = n /\ s \ {x} \in SUBSET S
  BY PartOf
<1>4. \A x \in s : IsFiniteSet(s \ {x})
  BY <1>1, FS_Subset
<1> QED BY <1>1, <1>2, <1>3, <1>4

\* There is a function that the recursion of a sum describes.
LEMMA FoldExists ==
    ASSUME NEW S, IsFiniteSet(S), NEW f
    PROVE  \A n \in Nat : \E g : IsFold(g, f, Parts(S, n))
<1>. DEFINE Has == {n \in Nat : \E g : IsFold(g, f, Parts(S, n))}
<1>1. 0 \in Has
  <2>. DEFINE g == [s \in Parts(S, 0) |-> 0]
  <2>1. \A s \in Parts(S, 0) : s = {}
    BY PartOf DEF Parts
  <2>2. g = [s \in Parts(S, 0) |-> IF s = {} THEN 0 ELSE f[Chosen(s)] + g[s \ {Chosen(s)}]]
    BY <2>1
  <2> QED BY <2>2 DEF IsFold
<1>2. ASSUME NEW n \in Nat, n \in Has PROVE n + 1 \in Has
  <2>1. PICK g : IsFold(g, f, Parts(S, n))
    BY <1>2
  <2>. DEFINE h == [s \in Parts(S, n + 1) |->
                     IF s = {} THEN 0 ELSE f[Chosen(s)] + g[s \ {Chosen(s)}]]
  <2>2. \A s \in Parts(S, n + 1) : s # {} => s \ {Chosen(s)} \in Parts(S, n)
    BY PartOf, ChosenOf DEF Parts
  <2>3. Parts(S, n) \subseteq Parts(S, n + 1)
    BY PartOf DEF Parts
  <2>4. \A s \in Parts(S, n) : h[s] = g[s]
    BY <2>1, <2>3 DEF IsFold
  <2>5. \A s \in Parts(S, n + 1) : s # {} => h[s \ {Chosen(s)}] = g[s \ {Chosen(s)}]
    BY <2>2, <2>4
  <2>6. h = [s \in Parts(S, n + 1) |-> IF s = {} THEN 0 ELSE f[Chosen(s)] + h[s \ {Chosen(s)}]]
    BY <2>5
  <2>. HIDE DEF h
  <2>7. IsFold(h, f, Parts(S, n + 1))
    BY <2>6 DEF IsFold
  <2> QED BY <2>7
<1> HIDE DEF Has
<1>3. \A n \in Nat : n \in Has
  BY <1>1, <1>2, Induction
<1> QED BY <1>3 DEF Has

\* There is no other one.
LEMMA FoldsAgree ==
    ASSUME NEW S, IsFiniteSet(S), NEW f, NEW g, NEW U, NEW h, NEW V,
           IsFold(g, f, U), IsFold(h, f, V), SUBSET S \subseteq U \cap V
    PROVE  \A s \in SUBSET S : g[s] = h[s]
<1>. DEFINE Same == {n \in Nat : \A s \in SUBSET S : Cardinality(s) = n => g[s] = h[s]}
<1>1. 0 \in Same
  BY PartOf DEF IsFold
<1>2. ASSUME NEW n \in Nat, n \in Same PROVE n + 1 \in Same
  <2>. SUFFICES ASSUME NEW s \in SUBSET S, Cardinality(s) = n + 1 PROVE g[s] = h[s]
    OBVIOUS
  <2>1. s # {} /\ Chosen(s) \in s
    BY PartOf, ChosenOf
  <2>2. g[s \ {Chosen(s)}] = h[s \ {Chosen(s)}]
    BY <1>2, <2>1, PartOf
  <2> QED BY <2>1, <2>2 DEF IsFold
<1> HIDE DEF Same
<1>3. \A n \in Nat : n \in Same
  BY <1>1, <1>2, Induction
<1> QED BY <1>3, PartOf DEF Same

\* A sum, which is defined by CHOOSE, is what its recursion says.
LEMMA SumIsFold ==
    ASSUME NEW S, IsFiniteSet(S), NEW f
    PROVE  \E g : IsFold(g, f, SUBSET S) /\ SumFunctionOnSet(f, S) = g[S]
<1>. DEFINE g == CHOOSE g : g = [s \in SUBSET S |-> IF s = {} THEN 0 ELSE f[Chosen(s)] + g[s \ {Chosen(s)}]]
<1>1. SumFunctionOnSet(f, S) = g[S]
  BY DEF SumFunctionOnSet, FoldFunctionOnSet, MapThenFoldSet, Chosen
<1>2. Parts(S, Cardinality(S)) = SUBSET S
  BY PartOf, FS_Subset DEF Parts
<1>3. Cardinality(S) \in Nat
  BY FS_CardinalityType
<1>4. \E h : IsFold(h, f, SUBSET S)
  <2>1. PICK h : IsFold(h, f, Parts(S, Cardinality(S)))
    BY <1>3, FoldExists
  <2> QED BY <2>1, <1>2
<1>5. IsFold(g, f, SUBSET S)
  BY <1>4 DEF IsFold
<1> QED BY <1>1, <1>5

\* The empty sum.
LEMMA SumEmpty == ASSUME NEW f PROVE SumFunctionOnSet(f, {}) = 0
<1>1. PICK g : IsFold(g, f, SUBSET {}) /\ SumFunctionOnSet(f, {}) = g[{}]
  BY SumIsFold, FS_EmptySet
<1> QED BY <1>1 DEF IsFold

\* The element that the fold takes first may be taken out of a sum.
LEMMA SumAny ==
    ASSUME NEW S, IsFiniteSet(S), S # {}, NEW f
    PROVE  SumFunctionOnSet(f, S) = f[Chosen(S)] + SumFunctionOnSet(f, S \ {Chosen(S)})
<1>. DEFINE R == S \ {Chosen(S)}
<1>1. PICK g : IsFold(g, f, SUBSET S) /\ SumFunctionOnSet(f, S) = g[S]
  BY SumIsFold
<1>2. IsFiniteSet(R) /\ R \in SUBSET S /\ SUBSET R \subseteq (SUBSET S) \cap (SUBSET R)
  BY FS_Subset
<1>3. PICK h : IsFold(h, f, SUBSET R) /\ SumFunctionOnSet(f, R) = h[R]
  BY SumIsFold, <1>2
<1>4. g[R] = h[R]
  BY <1>1, <1>2, <1>3, FoldsAgree
<1>5. g[S] = f[Chosen(S)] + g[R]
  BY <1>1 DEF IsFold
<1> QED BY <1>1, <1>3, <1>4, <1>5

\* A sum of integers is one.
LEMMA SumType ==
    ASSUME NEW S, IsFiniteSet(S), NEW f, \A x \in S : f[x] \in Int
    PROVE  SumFunctionOnSet(f, S) \in Int
<1>. DEFINE Typed == {n \in Nat : \A s \in SUBSET S :
                       Cardinality(s) = n => SumFunctionOnSet(f, s) \in Int}
<1>1. 0 \in Typed
  BY NoPart, SumEmpty
<1>2. ASSUME NEW n \in Nat, n \in Typed PROVE n + 1 \in Typed
  <2>. SUFFICES ASSUME NEW s \in SUBSET S, Cardinality(s) = n + 1
                PROVE SumFunctionOnSet(f, s) \in Int
    OBVIOUS
  <2>1. s # {} /\ Chosen(s) \in s /\ IsFiniteSet(s)
    BY PartOf, ChosenOf
  <2>2. SumFunctionOnSet(f, s \ {Chosen(s)}) \in Int
    BY <1>2, <2>1, PartNext
  <2> QED BY <2>1, <2>2, SumAny, SMTT(30)
<1> HIDE DEF Typed
<1>3. \A n \in Nat : n \in Typed
  BY <1>1, <1>2, Induction
<1> QED BY <1>3, PartOf DEF Typed

\* Any element may be taken out of a sum of integers.
LEMMA SumRemove ==
    ASSUME NEW S, IsFiniteSet(S), NEW f, \A x \in S : f[x] \in Int, NEW y \in S
    PROVE  SumFunctionOnSet(f, S) = f[y] + SumFunctionOnSet(f, S \ {y})
<1>. DEFINE Splits == {n \in Nat : \A s \in SUBSET S : Cardinality(s) = n =>
              \A x \in s : SumFunctionOnSet(f, s) = f[x] + SumFunctionOnSet(f, s \ {x})}
<1>1. 0 \in Splits
  BY NoPart
<1>2. ASSUME NEW n \in Nat, n \in Splits PROVE n + 1 \in Splits
  <2>. SUFFICES ASSUME NEW s \in SUBSET S, Cardinality(s) = n + 1, NEW x \in s
                PROVE SumFunctionOnSet(f, s) = f[x] + SumFunctionOnSet(f, s \ {x})
    OBVIOUS
  <2>. DEFINE a == Chosen(s)
              t == s \ {a}
              u == s \ {x}
  <2>1. a \in s /\ IsFiniteSet(s)
    BY PartOf, ChosenOf
  <2>2. SumFunctionOnSet(f, s) = f[a] + SumFunctionOnSet(f, t)
    BY <2>1, SumAny
  <2>3. CASE a = x
    BY <2>2, <2>3
  <2>4. CASE a # x
    <3>1. t \in SUBSET S /\ u \in SUBSET S /\ Cardinality(t) = n /\ Cardinality(u) = n
      BY <2>1, PartNext, SMTT(30)
    <3>2. x \in t /\ a \in u /\ t \ {x} = u \ {a}
      BY <2>1, <2>4
    <3>3. SumFunctionOnSet(f, t) = f[x] + SumFunctionOnSet(f, t \ {x})
      BY <1>2, <3>1, <3>2
    <3>4. SumFunctionOnSet(f, u) = f[a] + SumFunctionOnSet(f, u \ {a})
      BY <1>2, <3>1, <3>2
    <3>5. SumFunctionOnSet(f, u \ {a}) \in Int
      BY <3>1, SumType, FS_Subset
    <3>6. f[x] \in Int /\ f[a] \in Int
      BY <2>1
    <3>7. SumFunctionOnSet(f, s) = f[a] + (f[x] + SumFunctionOnSet(f, u \ {a}))
      BY <2>2, <3>2, <3>3
    <3>8. SumFunctionOnSet(f, s) = f[x] + (f[a] + SumFunctionOnSet(f, u \ {a}))
      BY <3>5, <3>6, <3>7
    <3> QED BY <3>4, <3>8
  <2> QED BY <2>3, <2>4
<1> HIDE DEF Splits
<1>3. \A n \in Nat : n \in Splits
  BY <1>1, <1>2, Induction
<1> QED BY <1>3, PartOf DEF Splits

\* Equal values have equal sums.
LEMMA SumEqual ==
    ASSUME NEW S, IsFiniteSet(S), NEW f, NEW g, \A x \in S : f[x] = g[x]
    PROVE  SumFunctionOnSet(f, S) = SumFunctionOnSet(g, S)
<1>. DEFINE Same == {n \in Nat : \A s \in SUBSET S :
                      Cardinality(s) = n => SumFunctionOnSet(f, s) = SumFunctionOnSet(g, s)}
<1>1. 0 \in Same
  BY NoPart, SumEmpty
<1>2. ASSUME NEW n \in Nat, n \in Same PROVE n + 1 \in Same
  <2>. SUFFICES ASSUME NEW s \in SUBSET S, Cardinality(s) = n + 1
                PROVE SumFunctionOnSet(f, s) = SumFunctionOnSet(g, s)
    OBVIOUS
  <2>1. s # {} /\ Chosen(s) \in s /\ IsFiniteSet(s)
    BY PartOf, ChosenOf
  <2>2. SumFunctionOnSet(f, s \ {Chosen(s)}) = SumFunctionOnSet(g, s \ {Chosen(s)})
    BY <1>2, <2>1, PartNext, SMTT(30)
  <2> QED BY <2>1, <2>2, SumAny
<1> HIDE DEF Same
<1>3. \A n \in Nat : n \in Same
  BY <1>1, <1>2, Induction
<1> QED BY <1>3, PartOf DEF Same

\* A sum of numbers that are at most c each, and what it means that it is c times their
\* number.
LEMMA SumBound ==
    ASSUME NEW S, IsFiniteSet(S), NEW f, NEW c \in Int, \A x \in S : f[x] \in Int /\ f[x] =< c
    PROVE  /\ SumFunctionOnSet(f, S) =< c * Cardinality(S)
           /\ SumFunctionOnSet(f, S) = c * Cardinality(S) => \A x \in S : f[x] = c
<1>. DEFINE Low(s) == SumFunctionOnSet(f, s) =< c * Cardinality(s)
            Bounded == {n \in Nat : \A s \in SUBSET S : Cardinality(s) = n => Low(s)}
<1>1. 0 \in Bounded
  BY NoPart, SumEmpty
<1>2. ASSUME NEW n \in Nat, n \in Bounded PROVE n + 1 \in Bounded
  <2>. SUFFICES ASSUME NEW s \in SUBSET S, Cardinality(s) = n + 1 PROVE Low(s)
    OBVIOUS
  <2>1. s # {} /\ Chosen(s) \in s /\ IsFiniteSet(s)
    BY PartOf, ChosenOf
  <2>. DEFINE t == s \ {Chosen(s)}
  <2>2. Low(t) /\ Cardinality(t) = n
    BY <1>2, <2>1, PartNext
  <2>3. SumFunctionOnSet(f, t) \in Int /\ f[Chosen(s)] \in Int /\ f[Chosen(s)] =< c
    BY <2>1, SumType, FS_Subset
  <2>4. SumFunctionOnSet(f, s) = f[Chosen(s)] + SumFunctionOnSet(f, t)
    BY <2>1, SumAny
  <2>5. c * (n + 1) = c * n + c
    OBVIOUS
  <2> QED BY <2>2, <2>3, <2>4, <2>5
<1>. HIDE DEF Bounded, Low
<1>3. \A n \in Nat : n \in Bounded
  BY <1>1, <1>2, Induction
<1>4. \A s \in SUBSET S : Low(s)
  BY <1>3, PartOf DEF Bounded
<1>5. ASSUME SumFunctionOnSet(f, S) = c * Cardinality(S), NEW x \in S PROVE f[x] = c
  <2>1. SumFunctionOnSet(f, S) = f[x] + SumFunctionOnSet(f, S \ {x})
    BY SumRemove
  <2>2. SumFunctionOnSet(f, S \ {x}) =< c * (Cardinality(S) - 1)
    BY <1>4, PartOf DEF Low
  <2>3. SumFunctionOnSet(f, S \ {x}) \in Int
    BY SumType, FS_Subset
  <2>4. Cardinality(S) \in Nat /\ f[x] \in Int /\ f[x] =< c
    BY FS_CardinalityType
  <2>5. PICK p \in Int : p = c * Cardinality(S) /\ c * (Cardinality(S) - 1) = p - c
    BY <2>4
  <2> QED BY <1>5, <2>1, <2>2, <2>3, <2>4, <2>5
<1> QED BY <1>4, <1>5 DEF Low

\* Smaller values have a smaller sum.
LEMMA SumMonotone ==
    ASSUME NEW S, IsFiniteSet(S), NEW f, NEW g,
           \A x \in S : f[x] \in Int /\ g[x] \in Int /\ f[x] =< g[x]
    PROVE  SumFunctionOnSet(f, S) =< SumFunctionOnSet(g, S)
<1>. DEFINE Low(s) == SumFunctionOnSet(f, s) =< SumFunctionOnSet(g, s)
            Lower == {n \in Nat : \A s \in SUBSET S : Cardinality(s) = n => Low(s)}
<1>1. 0 \in Lower
  BY NoPart, SumEmpty
<1>2. ASSUME NEW n \in Nat, n \in Lower PROVE n + 1 \in Lower
  <2>. SUFFICES ASSUME NEW s \in SUBSET S, Cardinality(s) = n + 1 PROVE Low(s)
    OBVIOUS
  <2>1. s # {} /\ Chosen(s) \in s /\ IsFiniteSet(s)
    BY PartNext
  <2>. DEFINE t == s \ {Chosen(s)}
  <2>2. Low(t) /\ t \in SUBSET S
    BY <1>2, <2>1, PartNext
  <2>3. SumFunctionOnSet(f, t) \in Int /\ SumFunctionOnSet(g, t) \in Int
    BY <2>2, SumType, FS_Subset
  <2>4. /\ SumFunctionOnSet(f, s) = f[Chosen(s)] + SumFunctionOnSet(f, t)
        /\ SumFunctionOnSet(g, s) = g[Chosen(s)] + SumFunctionOnSet(g, t)
    BY <2>1, SumAny
  <2> QED BY <2>1, <2>2, <2>3, <2>4
<1>. HIDE DEF Lower
<1>3. \A n \in Nat : n \in Lower
  BY <1>1, <1>2, Induction
<1> QED BY <1>3, PartOf DEF Lower

\* A factor may be taken out of a sum.
LEMMA SumScale ==
    ASSUME NEW S, IsFiniteSet(S), NEW f, NEW g, NEW c \in Int,
           \A x \in S : f[x] \in Int /\ g[x] = c * f[x]
    PROVE  SumFunctionOnSet(g, S) = c * SumFunctionOnSet(f, S)
<1>. DEFINE Scaled(s) == SumFunctionOnSet(g, s) = c * SumFunctionOnSet(f, s)
            All == {n \in Nat : \A s \in SUBSET S : Cardinality(s) = n => Scaled(s)}
<1>1. 0 \in All
  <2>1. c * 0 = 0
    OBVIOUS
  <2> QED BY <2>1, NoPart, SumEmpty
<1>2. ASSUME NEW n \in Nat, n \in All PROVE n + 1 \in All
  <2>. SUFFICES ASSUME NEW s \in SUBSET S, Cardinality(s) = n + 1 PROVE Scaled(s)
    OBVIOUS
  <2>1. s # {} /\ Chosen(s) \in s /\ IsFiniteSet(s)
    BY PartNext
  <2>. DEFINE t == s \ {Chosen(s)}
              x == f[Chosen(s)]
              y == SumFunctionOnSet(f, t)
  <2>2. Cardinality(t) = n /\ t \in SUBSET S
    BY <2>1, PartNext
  <2>. HIDE DEF Scaled
  <2>6. Scaled(t)
    BY <1>2, <2>2
  <2>. USE DEF Scaled
  <2>3. y \in Int /\ x \in Int
    BY <2>1, <2>2, SumType, FS_Subset
  <2>4. /\ SumFunctionOnSet(f, s) = x + y
        /\ SumFunctionOnSet(g, s) = c * x + c * y
    BY <2>1, <2>6, SumAny
  <2>5. c * (x + y) = c * x + c * y
    BY <2>3
  <2> QED BY <2>4, <2>5
<1>. HIDE DEF All
<1>3. \A n \in Nat : n \in All
  BY <1>1, <1>2, Induction
<1> QED BY <1>3, PartOf DEF All

\* A sum of equal values.
LEMMA SumConstant ==
    ASSUME NEW S, IsFiniteSet(S), NEW f, NEW c \in Int, \A x \in S : f[x] = c
    PROVE  SumFunctionOnSet(f, S) = c * Cardinality(S)
<1>. DEFINE one == [x \in S |-> 1]
            total(s) == SumFunctionOnSet(one, s)
            Counted == {n \in Nat : \A s \in SUBSET S : Cardinality(s) = n => total(s) = n}
<1>1. 0 \in Counted
  BY NoPart, SumEmpty
<1>2. ASSUME NEW n \in Nat, n \in Counted PROVE n + 1 \in Counted
  <2>. SUFFICES ASSUME NEW s \in SUBSET S, Cardinality(s) = n + 1 PROVE total(s) = n + 1
    OBVIOUS
  <2>1. s # {} /\ Chosen(s) \in s /\ IsFiniteSet(s)
    BY PartNext
  <2>2. total(s \ {Chosen(s)}) = n
    BY <1>2, <2>1, PartNext
  <2>3. total(s) = one[Chosen(s)] + total(s \ {Chosen(s)})
    BY <2>1, SumAny
  <2> QED BY <2>1, <2>2, <2>3
<1>. HIDE DEF Counted
<1>3. \A n \in Nat : n \in Counted
  BY <1>1, <1>2, Induction
<1>4. Cardinality(S) \in Nat /\ total(S) = Cardinality(S)
  BY <1>3, FS_CardinalityType DEF Counted
<1>5. \A x \in S : one[x] \in Int /\ f[x] = c * one[x]
  OBVIOUS
<1>6. SumFunctionOnSet(f, S) = c * total(S)
  BY <1>5, SumScale
<1> QED BY <1>4, <1>6

\* A sum of natural numbers is one.
LEMMA SumNat ==
    ASSUME NEW S, IsFiniteSet(S), NEW f, \A x \in S : f[x] \in Nat
    PROVE  SumFunctionOnSet(f, S) \in Nat
<1>. DEFINE z == [x \in S |-> 0]
<1>1. \A x \in S : f[x] \in Int /\ z[x] \in Int /\ z[x] =< f[x]
  OBVIOUS
<1>2. SumFunctionOnSet(z, S) =< SumFunctionOnSet(f, S)
  BY <1>1, SumMonotone
<1>3. \A x \in S : z[x] = 0 * z[x]
  OBVIOUS
<1>4. SumFunctionOnSet(z, S) = 0
  <2>1. SumFunctionOnSet(z, S) = 0 * SumFunctionOnSet(z, S)
    BY <1>1, <1>3, SumScale, 0 \in Int
  <2>2. SumFunctionOnSet(z, S) \in Int
    BY <1>1, SumType
  <2> QED BY <2>1, <2>2
<1>5. SumFunctionOnSet(f, S) \in Int
  BY <1>1, SumType
<1> QED BY <1>2, <1>4, <1>5

\* The sums of the first n + 1 values.
LEMMA SumNext ==
    ASSUME NEW n \in Nat, NEW f, \A i \in 1 .. n + 1 : f[i] \in Int
    PROVE  /\ SumFunctionOnSet(f, 1 .. n) \in Int
           /\ SumFunctionOnSet(f, 1 .. n + 1) = SumFunctionOnSet(f, 1 .. n) + f[n + 1]
<1>1. IsFiniteSet(1 .. n) /\ IsFiniteSet(1 .. n + 1)
  BY FS_Interval
<1>2. (1 .. n + 1) \ {n + 1} = 1 .. n /\ n + 1 \in 1 .. n + 1
  OBVIOUS
<1>3. SumFunctionOnSet(f, 1 .. n) \in Int
  BY <1>1, SumType
<1>4. SumFunctionOnSet(f, 1 .. n + 1) = f[n + 1] + SumFunctionOnSet(f, 1 .. n)
  BY <1>1, <1>2, SumRemove
<1> QED BY <1>2, <1>3, <1>4

-------------------------------------------------------------------------------
(***************************************************************************)
(* The concatenation of a sequence of sequences                            *)
(***************************************************************************)

\* f[i] is the concatenation of the first i elements of ss.
IsConcat(f, ss, n) == f = [i \in 1 .. n |-> IF i = 1 THEN ss[i] ELSE f[i - 1] \o ss[i]]

\* There is a function that the recursion of FlattenSeq describes.
LEMMA ConcatExists == ASSUME NEW ss PROVE \A n \in Nat : \E f : IsConcat(f, ss, n)
<1>. DEFINE Has == {n \in Nat : \E f : IsConcat(f, ss, n)}
<1>1. 0 \in Has
  <2>. DEFINE f == [i \in 1 .. 0 |-> << >>]
  <2>1. \A i \in 1 .. 0 : FALSE
    OBVIOUS
  <2>2. f = [i \in 1 .. 0 |-> IF i = 1 THEN ss[i] ELSE f[i - 1] \o ss[i]]
    BY <2>1
  <2>3. IsConcat(f, ss, 0)
    BY <2>2 DEF IsConcat
  <2> QED BY <2>3
<1>2. ASSUME NEW n \in Nat, n \in Has PROVE n + 1 \in Has
  <2>1. PICK f : IsConcat(f, ss, n)
    BY <1>2
  <2>. DEFINE h == [i \in 1 .. n + 1 |-> IF i = 1 THEN ss[i] ELSE f[i - 1] \o ss[i]]
  <2>2. ASSUME NEW i \in 1 .. n PROVE h[i] = f[i]
    <3>1. f[i] = IF i = 1 THEN ss[i] ELSE f[i - 1] \o ss[i]
      BY <2>1 DEF IsConcat
    <3>2. i \in 1 .. n + 1
      OBVIOUS
    <3> QED BY <3>1, <3>2
  <2>3. ASSUME NEW i \in 1 .. n + 1, i # 1 PROVE h[i - 1] = f[i - 1]
    <3>1. i - 1 \in 1 .. n
      BY <2>3
    <3>. HIDE DEF h
    <3> QED BY <2>2, <3>1
  <2>4. h = [i \in 1 .. n + 1 |-> IF i = 1 THEN ss[i] ELSE h[i - 1] \o ss[i]]
    BY <2>3
  <2>. HIDE DEF h
  <2>5. IsConcat(h, ss, n + 1)
    BY <2>4 DEF IsConcat
  <2> QED BY <2>5
<1>. HIDE DEF Has
<1>3. \A n \in Nat : n \in Has
  BY <1>1, <1>2, Induction
<1> QED BY <1>3 DEF Has

\* FlattenSeq, which is defined by CHOOSE, is what its recursion says.
LEMMA FlattenIsConcat ==
    ASSUME NEW ss, Len(ss) \in Nat \ {0}
    PROVE  \E f : IsConcat(f, ss, Len(ss)) /\ FlattenSeq(ss) = f[Len(ss)]
<1>. DEFINE n == Len(ss)
            f == CHOOSE f : f = [i \in 1 .. n |-> IF i = 1 THEN ss[i] ELSE f[i - 1] \o ss[i]]
<1>1. FlattenSeq(ss) = f[n]
  BY DEF FlattenSeq
<1>2. \E g : IsConcat(g, ss, n)
  BY ConcatExists
<1>3. IsConcat(f, ss, n)
  BY <1>2 DEF IsConcat
<1>. HIDE DEF f
<1> QED BY <1>1, <1>3

\* The concatenation of one element, and of one more.
LEMMA ConcatStep ==
    ASSUME NEW f, NEW ss, NEW n \in Nat, IsConcat(f, ss, n)
    PROVE  /\ n >= 1 => f[1] = ss[1]
           /\ \A i \in 1 .. n - 1 : f[i + 1] = f[i] \o ss[i + 1]
<1>. DEFINE Value(i) == IF i = 1 THEN ss[i] ELSE f[i - 1] \o ss[i]
<1>0. f = [i \in 1 .. n |-> Value(i)]
  BY DEF IsConcat
<1>. HIDE DEF Value
<1>1. ASSUME n >= 1 PROVE f[1] = ss[1]
  <2>1. 1 \in 1 .. n
    BY <1>1
  <2>2. f[1] = Value(1)
    BY <1>0, <2>1
  <2> QED BY <2>2 DEF Value
<1>2. ASSUME NEW i \in 1 .. n - 1 PROVE f[i + 1] = f[i] \o ss[i + 1]
  <2>1. i + 1 \in 1 .. n /\ i + 1 # 1 /\ (i + 1) - 1 = i
    OBVIOUS
  <2>2. f[i + 1] = Value(i + 1)
    BY <1>0, <2>1
  <2> QED BY <2>1, <2>2 DEF Value
<1> QED BY <1>1, <1>2

\* Sequences that begin with the same elements have the same concatenations of these.
LEMMA ConcatsAgree ==
    ASSUME NEW f, NEW ss, NEW n \in Nat, IsConcat(f, ss, n),
           NEW g, NEW tt, NEW m \in Nat, IsConcat(g, tt, m), m =< n,
           \A i \in 1 .. m : ss[i] = tt[i]
    PROVE  \A i \in 1 .. m : f[i] = g[i]
<1>. DEFINE Same == {i \in Nat : i + 1 =< m => f[i + 1] = g[i + 1]}
<1>1. 0 \in Same
  <2>. SUFFICES ASSUME 1 =< m PROVE f[1] = g[1]
    OBVIOUS
  <2>1. f[1] = ss[1]
    BY n >= 1, ConcatStep, ZenonT(30)
  <2>2. g[1] = tt[1]
    BY m >= 1, ConcatStep
  <2> QED BY <2>1, <2>2
<1>2. ASSUME NEW i \in Nat, i \in Same PROVE i + 1 \in Same
  <2>. SUFFICES ASSUME (i + 1) + 1 =< m PROVE f[(i + 1) + 1] = g[(i + 1) + 1]
    OBVIOUS
  <2>1. i + 1 \in 1 .. n - 1 /\ i + 1 \in 1 .. m - 1 /\ (i + 1) + 1 \in 1 .. m
    OBVIOUS
  <2>2. f[(i + 1) + 1] = f[i + 1] \o ss[(i + 1) + 1]
    <3>1. \A k \in 1 .. n - 1 : f[k + 1] = f[k] \o ss[k + 1]
      BY ConcatStep, ZenonT(30)
    <3> QED BY <2>1, <3>1
  <2>3. g[(i + 1) + 1] = g[i + 1] \o tt[(i + 1) + 1]
    <3>1. \A k \in 1 .. m - 1 : g[k + 1] = g[k] \o tt[k + 1]
      BY ConcatStep, ZenonT(30)
    <3> QED BY <2>1, <3>1
  <2>4. f[i + 1] = g[i + 1]
    BY <1>2
  <2> QED BY <2>1, <2>2, <2>3, <2>4
<1>. HIDE DEF Same
<1>3. \A i \in Nat : i \in Same
  BY <1>1, <1>2, Induction
<1>4. ASSUME NEW i \in 1 .. m PROVE f[i] = g[i]
  <2>1. i - 1 \in Same /\ (i - 1) + 1 = i
    BY <1>3
  <2> QED BY <2>1 DEF Same
<1> QED BY <1>4

\* Concatenations of sequences over a set are sequences over it.
LEMMA ConcatType ==
    ASSUME NEW X, NEW ss \in Seq(Seq(X)), NEW f, IsConcat(f, ss, Len(ss))
    PROVE  \A i \in 1 .. Len(ss) : f[i] \in Seq(X)
<1>. DEFINE Typed == {i \in Nat : i + 1 =< Len(ss) => f[i + 1] \in Seq(X)}
<1>0. Len(ss) \in Nat /\ \A i \in 1 .. Len(ss) : ss[i] \in Seq(X)
  OBVIOUS
<1>1. 0 \in Typed
  <2>. SUFFICES ASSUME 1 =< Len(ss) PROVE f[1] \in Seq(X)
    OBVIOUS
  <2>1. f[1] = ss[1]
    BY <1>0, Len(ss) >= 1, ConcatStep
  <2> QED BY <1>0, <2>1
<1>2. ASSUME NEW i \in Nat, i \in Typed PROVE i + 1 \in Typed
  <2>. SUFFICES ASSUME (i + 1) + 1 =< Len(ss) PROVE f[(i + 1) + 1] \in Seq(X)
    OBVIOUS
  <2>1. i + 1 \in 1 .. Len(ss) - 1
    BY <1>0
  <2>2. f[(i + 1) + 1] = f[i + 1] \o ss[(i + 1) + 1]
    BY <1>0, <2>1, ConcatStep
  <2>3. f[i + 1] \in Seq(X) /\ ss[(i + 1) + 1] \in Seq(X)
    BY <1>0, <1>2
  <2> QED BY <2>2, <2>3
<1>. HIDE DEF Typed
<1>3. \A i \in Nat : i \in Typed
  BY <1>1, <1>2, Induction
<1>4. ASSUME NEW i \in 1 .. Len(ss) PROVE f[i] \in Seq(X)
  <2>1. i - 1 \in Typed /\ (i - 1) + 1 = i
    BY <1>3
  <2> QED BY <2>1 DEF Typed
<1> QED BY <1>4

\* FlattenSeq of sequences over a set is a sequence over it.
LEMMA FlattenType ==
    ASSUME NEW X, NEW ss \in Seq(Seq(X)) PROVE FlattenSeq(ss) \in Seq(X)
<1>1. CASE Len(ss) = 0
  <2>1. FlattenSeq(ss) = ss /\ ss = << >>
    BY <1>1 DEF FlattenSeq
  <2> QED BY <2>1
<1>2. CASE Len(ss) # 0
  <2>1. Len(ss) \in Nat \ {0}
    BY <1>2
  <2>2. PICK f : IsConcat(f, ss, Len(ss)) /\ FlattenSeq(ss) = f[Len(ss)]
    BY <2>1, FlattenIsConcat
  <2>3. Len(ss) \in 1 .. Len(ss)
    BY <2>1
  <2> QED BY <2>2, <2>3, ConcatType
<1> QED BY <1>1, <1>2

\* One more element is concatenated with the others.
LEMMA FlattenAppend ==
    ASSUME NEW X, NEW ss \in Seq(Seq(X)), NEW x \in Seq(X)
    PROVE  FlattenSeq(Append(ss, x)) = FlattenSeq(ss) \o x
<1>. DEFINE n == Len(ss)
            tt == Append(ss, x)
<1>1. /\ n \in Nat /\ Len(tt) = n + 1 /\ tt[n + 1] = x /\ \A i \in 1 .. n : tt[i] = ss[i]
      /\ Len(tt) \in Nat \ {0}
  OBVIOUS
<1>2. /\ n # 0 => \E g : IsConcat(g, ss, n) /\ FlattenSeq(ss) = g[n]
      /\ n = 0 => FlattenSeq(ss) = << >>
  <2>1. n # 0 => \E g : IsConcat(g, ss, n) /\ FlattenSeq(ss) = g[n]
    BY <1>1, FlattenIsConcat
  <2>2. n = 0 => FlattenSeq(ss) = << >>
    BY <1>1 DEF FlattenSeq
  <2>. HIDE DEF n
  <2> QED BY <2>1, <2>2
<1>. HIDE DEF n, tt
<1>3. PICK f : IsConcat(f, tt, n + 1) /\ FlattenSeq(tt) = f[n + 1]
  BY <1>1, FlattenIsConcat
<1>4. FlattenSeq(tt) = FlattenSeq(ss) \o x
  <2>1. CASE n = 0
    <3>1. FlattenSeq(ss) = << >>
      BY <1>2, <2>1
    <3>2. f[1] = tt[1]
      <4>1. PICK m \in Nat : m = n + 1 /\ m >= 1
        BY <1>1
      <4>2. IsConcat(f, tt, m)
        BY <1>3, <4>1
      <4> QED BY <4>1, <4>2, ConcatStep
    <3> QED BY <1>1, <1>3, <2>1, <3>1, <3>2
  <2>2. CASE n # 0
    <3>1. PICK g : IsConcat(g, ss, n) /\ FlattenSeq(ss) = g[n]
      BY <1>2, <2>2
    <3>2. n \in 1 .. n /\ n \in 1 .. (n + 1) - 1 /\ n + 1 \in Nat /\ n =< n + 1
      BY <1>1, <2>2
    <3>3. f[n + 1] = f[n] \o tt[n + 1]
      BY <1>3, <3>2, ConcatStep
    <3>4. \A i \in 1 .. n : f[i] = g[i]
      BY <1>1, <1>3, <3>1, <3>2, ConcatsAgree
    <3> QED BY <1>1, <1>3, <3>1, <3>2, <3>3, <3>4
  <2> QED BY <2>1, <2>2
<1> QED BY <1>4 DEF tt

\* A sequence is the concatenation of its pieces; at[k] of its elements are before the
\* k-th piece.
Pieces(ss, D, at) ==
    /\ at[1] = 0
    /\ \A k \in 1 .. Len(ss) - 1 : at[k + 1] = at[k] + Len(ss[k])
    /\ \A k \in 1 .. Len(ss) : \A i \in 1 .. Len(ss[k]) : ss[k][i] = D[at[k] + i]

\* FlattenSeq of the pieces of a sequence is the sequence.
LEMMA FlattenPieces ==
    ASSUME NEW X, NEW ss \in Seq(Seq(X)), Len(ss) # 0, NEW D \in Seq(X), NEW at,
           Pieces(ss, D, at), at[Len(ss)] + Len(ss[Len(ss)]) = Len(D)
    PROVE  FlattenSeq(ss) = D
<1>. DEFINE n == Len(ss)
<1>1. n \in Nat \ {0} /\ \A k \in 1 .. n : ss[k] \in Seq(X) /\ Len(ss[k]) \in Nat
  OBVIOUS
<1>2. PICK f : IsConcat(f, ss, n) /\ FlattenSeq(ss) = f[n]
  BY <1>1, FlattenIsConcat
<1>3. \A k \in 1 .. n : f[k] \in Seq(X)
  BY <1>2, ConcatType
<1>4. at[n] + Len(ss[n]) = Len(D)
  OBVIOUS
<1>. DEFINE Filled(k) == /\ at[k] \in Nat
                         /\ Len(f[k]) = at[k] + Len(ss[k])
                         /\ \A i \in 1 .. Len(f[k]) : f[k][i] = D[i]
            Right == {k \in Nat : k + 1 =< n => Filled(k + 1)}
<1>. HIDE DEF n
<1>5. 0 \in Right
  <2>1. f[1] = ss[1]
    BY <1>1, <1>2, n >= 1, ConcatStep
  <2>2. at[1] = 0 /\ 1 \in 1 .. n /\ \A i \in 1 .. Len(ss[1]) : ss[1][i] = D[at[1] + i]
    BY <1>1, SMTT(30) DEF Pieces, n
  <2>3. Len(ss[1]) \in Nat
    BY <1>1, <2>2
  <2>4. Filled(1)
    BY <2>1, <2>2, <2>3
  <2> QED BY <2>4
<1>6. ASSUME NEW k \in Nat, k \in Right PROVE k + 1 \in Right
  <2>. SUFFICES ASSUME (k + 1) + 1 =< n PROVE Filled((k + 1) + 1)
    OBVIOUS
  <2>1. PICK l \in Nat : l = k + 1
    OBVIOUS
  <2>2. l \in 1 .. n - 1 /\ l \in 1 .. n /\ l + 1 \in 1 .. n
    BY <1>1, <2>1
  <2>3. Filled(l)
    BY <1>1, <1>6, <2>1, <2>2
  <2>4. f[l + 1] = f[l] \o ss[l + 1]
    BY <1>1, <1>2, <2>2, ConcatStep
  <2>5. /\ at[l + 1] = at[l] + Len(ss[l])
        /\ \A i \in 1 .. Len(ss[l + 1]) : ss[l + 1][i] = D[at[l + 1] + i]
    BY <2>2 DEF Pieces, n
  <2>6. f[l] \in Seq(X) /\ ss[l + 1] \in Seq(X) /\ Len(ss[l]) \in Nat /\ Len(ss[l + 1]) \in Nat
    BY <1>1, <1>3, <2>2
  <2>7. PICK y \in Seq(X), z \in Seq(X) : y = f[l] /\ z = ss[l + 1] /\ f[l + 1] = y \o z
    BY <2>4, <2>6
  <2>8. /\ Len(y) \in Nat /\ Len(z) \in Nat /\ Len(y \o z) = Len(y) + Len(z)
        /\ \A i \in 1 .. Len(y) : (y \o z)[i] = y[i]
        /\ \A i \in 1 .. Len(z) : (y \o z)[Len(y) + i] = z[i]
    OBVIOUS
  <2>9. /\ \A i \in 1 .. Len(y) : y[i] = D[i]
        /\ \A i \in 1 .. Len(z) : z[i] = D[Len(y) + i]
        /\ at[l + 1] = Len(y)
    BY <2>3, <2>5, <2>6, <2>7
  <2>10. ASSUME NEW i \in 1 .. Len(y) + Len(z) PROVE (y \o z)[i] = D[i]
    <3>1. CASE i =< Len(y)
      BY <2>8, <2>9, <3>1
    <3>2. CASE i > Len(y)
      <4>1. PICK j \in 1 .. Len(z) : i = Len(y) + j
        <5>1. i - Len(y) \in 1 .. Len(z) /\ i = Len(y) + (i - Len(y))
          BY <2>8, <3>2
        <5> QED BY <5>1
      <4> QED BY <2>8, <2>9, <4>1
    <3> QED BY <2>8, <3>1, <3>2
  <2>11. Filled(l + 1)
    BY <2>7, <2>8, <2>9, <2>10
  <2> QED BY <2>1, <2>11
<1>. HIDE DEF Right
<1>7. \A k \in Nat : k \in Right
  BY <1>5, <1>6, Induction
<1>8. Filled(n)
  <2>1. n - 1 \in Right /\ (n - 1) + 1 = n
    BY <1>1, <1>7
  <2> QED BY <1>1, <2>1 DEF Right
<1>9. f[n] \in Seq(X) /\ Len(f[n]) = Len(D)
  BY <1>1, <1>3, <1>4, <1>8
<1> QED BY <1>2, <1>8, <1>9, SeqEqual

\* A sequence is a prefix of its concatenation with another.
LEMMA ConcatPrefix ==
    ASSUME NEW X, NEW s \in Seq(X), NEW t \in Seq(X) PROVE IsPrefix(s, s \o t)
<1>1. Len(s) =< Len(s \o t)
  OBVIOUS
<1>2. SubSeq(s, 1, Len(s)) = SubSeq(s \o t, 1, Len(s))
  OBVIOUS
<1> QED BY <1>1, <1>2 DEF IsPrefix

\* A sequence that begins with another is a concatenation of it.
LEMMA PrefixIsConcat ==
    ASSUME NEW X, NEW s \in Seq(X), NEW t \in Seq(X), Len(s) =< Len(t),
           \A i \in 1 .. Len(s) : s[i] = t[i]
    PROVE  \E u \in Seq(X) : t = s \o u
<1>. DEFINE u == SubSeq(t, Len(s) + 1, Len(t))
<1>1. u \in Seq(X) /\ Len(u) = Len(t) - Len(s)
  OBVIOUS
<1>2. \A i \in 1 .. Len(u) : u[i] = t[Len(s) + i]
  OBVIOUS
<1>. HIDE DEF u
<1>3. Len(s \o u) = Len(t) /\ s \o u \in Seq(X)
  BY <1>1
<1>4. ASSUME NEW i \in 1 .. Len(t) PROVE (s \o u)[i] = t[i]
  <2>1. CASE i =< Len(s)
    BY <1>1, <2>1
  <2>2. CASE i > Len(s)
    <3>1. (s \o u)[i] = u[i - Len(s)] /\ i - Len(s) \in 1 .. Len(u) /\ Len(s) + (i - Len(s)) = i
      BY <1>1, <2>2
    <3> QED BY <1>2, <3>1
  <2> QED BY i =< Len(s) \/ i > Len(s), <2>1, <2>2
<1>5. s \o u = t
  BY <1>3, <1>4, SeqEqual
<1> QED BY <1>1, <1>5

\* A sequence is a prefix of itself.
LEMMA PrefixReflexive == ASSUME NEW X, NEW s \in Seq(X) PROVE IsPrefix(s, s)
BY Len(s) \in Nat DEF IsPrefix

\* What stays when a piece is added.
LEMMA FlattenAppendPrefix ==
    ASSUME NEW X, NEW ss \in Seq(Seq(X)), NEW x \in Seq(X)
    PROVE  IsPrefix(FlattenSeq(ss), FlattenSeq(Append(ss, x)))
<1>1. FlattenSeq(ss) \in Seq(X)
  BY FlattenType
<1>2. FlattenSeq(Append(ss, x)) = FlattenSeq(ss) \o x
  BY FlattenAppend
<1>3. IsPrefix(FlattenSeq(ss), FlattenSeq(ss) \o x)
  BY <1>1, ConcatPrefix
<1> QED BY <1>2, <1>3

\* What stays when the last piece is extended.
LEMMA FlattenExtendPrefix ==
    ASSUME NEW X, NEW ss \in Seq(Seq(X)), Len(ss) # 0, NEW x \in Seq(X),
           Len(ss[Len(ss)]) =< Len(x), \A i \in 1 .. Len(ss[Len(ss)]) : ss[Len(ss)][i] = x[i]
    PROVE  IsPrefix(FlattenSeq(ss), FlattenSeq([ss EXCEPT ![Len(ss)] = x]))
<1>1. PICK r \in Seq(Seq(X)), y \in Seq(X) : ss = Append(r, y)
  BY SequenceEmptyOrAppend, EmptySeq
<1>2. Len(ss) = Len(r) + 1 /\ ss[Len(ss)] = y /\ Len(r) \in Nat
      /\ \A i \in 1 .. Len(r) : ss[i] = r[i]
  BY <1>1
<1>3. [ss EXCEPT ![Len(ss)] = x] = Append(r, x)
  <2>. DEFINE tt == [ss EXCEPT ![Len(ss)] = x]
              qq == Append(r, x)
  <2>1. Len(ss) \in 1 .. Len(ss)
    BY <1>2
  <2>2. /\ tt \in Seq(Seq(X)) /\ Len(tt) = Len(ss)
        /\ \A j \in 1 .. Len(ss) : tt[j] = IF j = Len(ss) THEN x ELSE ss[j]
    BY <2>1, ExceptSeq
  <2>3. /\ qq \in Seq(Seq(X)) /\ Len(qq) = Len(r) + 1 /\ qq[Len(r) + 1] = x
        /\ \A i \in 1 .. Len(r) : qq[i] = r[i]
    OBVIOUS
  <2>. HIDE DEF tt, qq
  <2>4. ASSUME NEW i \in 1 .. Len(ss) PROVE tt[i] = qq[i]
    <3>1. CASE i = Len(ss)
      BY <1>2, <2>2, <2>3, <3>1
    <3>2. CASE i # Len(ss)
      <4>1. i \in 1 .. Len(r)
        BY <1>2, <3>2
      <4> QED BY <1>2, <2>2, <2>3, <3>2, <4>1
    <3> QED BY <3>1, <3>2
  <2>5. tt = qq
    BY <1>2, <2>2, <2>3, <2>4, SeqEqual
  <2> QED BY <2>5 DEF tt, qq
<1>4. PICK u \in Seq(X) : x = y \o u
  <2>1. Len(y) =< Len(x) /\ \A i \in 1 .. Len(y) : y[i] = x[i]
    BY <1>2
  <2> QED BY <2>1, PrefixIsConcat
<1>5. PICK f \in Seq(X) : f = FlattenSeq(r)
  BY FlattenType
<1>6. FlattenSeq(ss) = f \o y /\ FlattenSeq(Append(r, x)) = f \o x
  BY <1>1, <1>5, FlattenAppend
<1>7. f \o x = (f \o y) \o u
  <2>1. (f \o y) \o u = f \o (y \o u)
    BY SMTT(30)
  <2> QED BY <1>4, <2>1
<1>8. IsPrefix(f \o y, (f \o y) \o u)
  BY f \o y \in Seq(X), ConcatPrefix
<1> QED BY <1>3, <1>6, <1>7, <1>8

===============================================================================
