------------------------------- MODULE MC_Blocks -------------------------------
(* The models whose blocks TLC computes. *)
EXTENDS Blocks

Entry(e, v, l, m) == [eq |-> e, var |-> v, lag |-> l, mag |-> m]
Strong(pairs) == {Entry(p[1], p[2], 0, 0): p \in pairs}
NoVariable(n) == [e \in 1..n |-> 0]
Diagonal(n) == {<<i, i>>: i \in 1..n}
Pairs(n) == (1..n) \X (1..n)
AtMostOne(s) == {{}} \cup {{x}: x \in s}

Model(n, entries, separable, mfs, select) ==
  [n |-> n, entries |-> entries, lhs |-> NoVariable(n), separable |-> separable,
   products |-> {}, mfs |-> mfs, select |-> select]

(* Two equations with entries of four sizes, one below the cutoff; the largest *)
(* makes the next ones of its row smaller than the cutoff, relative to it.     *)
Sizes ==
  {Model(2, {e \in {Entry(p[1], p[2], 0, mags[p]): p \in Pairs(2)}: e.mag < 99} \cup lagged, {}, 0, TRUE):
     mags \in [Pairs(2) -> {-50, 0, 2, 64, 99}],
     lagged \in {{}, {Entry(1, 2, -1, 0)}}}

(* three equations with a lag and a lead; all can be evaluated, or all but one *)
Moving ==
  {Model(3, Strong(Diagonal(3) \cup pairs) \cup lag \cup lead, separable, 3, TRUE):
     pairs \in SUBSET (Pairs(3) \ Diagonal(3)),
     lag \in AtMostOne({Entry(p[1], p[2], -1, 0): p \in Pairs(3)}),
     lead \in AtMostOne({Entry(p[1], p[2], 1, 0): p \in {<<1, 1>>, <<2, 1>>, <<3, 2>>}}),
     separable \in {Pairs(3), Pairs(3) \ {<<2, v>>: v \in 1..3}}}

(* four equations of a static model *)
Still ==
  {Model(4, Strong(Diagonal(4) \cup pairs), Pairs(4), 3, FALSE):
     pairs \in SUBSET (Pairs(4) \ Diagonal(4))}

(* three equations written for their variables, the first one with a square *)
Written ==
  {[Model(3, Strong(Diagonal(3) \cup pairs) \cup moved, {<<1, 1>>, <<2, 3>>}, mfs, TRUE)
      EXCEPT !.lhs = [e \in 1..3 |-> IF e = 1 THEN 0 ELSE e],
             !.products = {<<1, {<<1, 0>>}>>}]:
     pairs \in SUBSET (Pairs(3) \ Diagonal(3)),
     moved \in AtMostOne({Entry(1, v, l, 0): v \in 1..3, l \in {-1, 1}}),
     mfs \in {1, 2}}

MCFiles == Sizes \cup Moving \cup Still \cup Written

(* an equation that multiplies the value of today of a variable by the value   *)
(* of tomorrow of another one, or of the same one                              *)
CrossLagFiles ==
  {[Model(2, Strong(Diagonal(2) \cup {<<1, 2>>}) \cup {Entry(1, 1, -1, 0), Entry(1, v, 1, 0), Entry(2, 1, 0, 0)},
          {}, 0, TRUE)
      EXCEPT !.products = {<<1, {<<w, l>>, <<v, k>>}>>}]:
     v \in 1..2, w \in 1..2, l \in {0, 1}, k \in {0, 1}}
==============================================================================
