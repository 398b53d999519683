--------------------------- MODULE MC_BlockSimulation ---------------------------
(* Models of one to three blocks, in the field of three elements *)
EXTENDS BlockSimulation

Cst(c) == [c |-> c, m |-> << >>, x |-> FALSE]
X(c) == [c |-> c, m |-> << >>, x |-> TRUE]
V(c, v, lag) == [c |-> c, m |-> <<<<v, lag>>>>, x |-> FALSE]
XV(c, v, lag) == [c |-> c, m |-> <<<<v, lag>>>>, x |-> TRUE]
VV(c, v, lag, w, wlag) == [c |-> c, m |-> <<<<v, lag>>, <<w, wlag>>>>, x |-> FALSE]

BlockOf(type, blockVars, rec, eqs, linear) ==
  [type |-> type, vars |-> blockVars, rec |-> rec, eqs |-> eqs, linear |-> linear]

ProblemOf(steady, algo, ysize, kmin, kmax, x, y0, blocks) ==
  [steady |-> steady, algo |-> algo, minimal |-> 1, maxit |-> 5, slowc |-> 1,
   ysize |-> ysize,
   kmin |-> kmin, kmax |-> kmax, periods |-> Len(x), x |-> x,
   y0 |-> [k \in 0..(ysize * (kmin + Len(x) + kmax) - 1) |-> y0[(k % Len(y0)) + 1]],
   blocks |-> blocks]

(* one variable with a lag and a lead, squared or not at its own period. The   *)
(* relaxation leaves the last period of a linear block unsolved.               *)
Stacked1 ==
  {ProblemOf(FALSE, algo, 1, 1, 1, <<1, 0, 2>>, <<2, 0, 1, 0, first>>,
     <<BlockOf("SOLVE_TWO_BOUNDARIES_SIMPLE", <<0>>, 0,
         <<<<V(1, 0, 0), V(a, 0, -1), V(b, 0, 1), X(1)>>
           \o (IF d = 0 THEN << >> ELSE <<VV(d, 0, 0, 0, 0)>>)>>, d = 0)>>):
   algo \in {0, 2, 4, 5}, a \in 0..2, b \in 1..2, d \in 0..1, first \in 0..1}
  \cup
  {ProblemOf(FALSE, 1, 1, 1, 1, <<1, x2, x3>>, <<2, 0, 1, 0, first>>,
     <<BlockOf("SOLVE_TWO_BOUNDARIES_SIMPLE", <<0>>, 0,
         <<<<V(1, 0, 0), V(a, 0, -1), V(1, 0, 1), X(1), VV(1, 0, 0, 0, 0)>>>>, FALSE)>>):
   a \in 0..2, first \in 0..2, x2 \in 0..2, x3 \in 0..2}

(* two variables, of which the first may be recursive: the feedback variables  *)
(* are chosen so that it has neither lag nor lead in its block                 *)
Stacked2 ==
  {ProblemOf(FALSE, algo, 2, 1, 1, <<1, 2, 1>>, <<first, 0, 1>>,
     <<BlockOf("SOLVE_TWO_BOUNDARIES_COMPLETE", <<1, 0>>, rec,
         <<IF rec = 1 THEN <<V(a, 0, 0), X(1)>>
           ELSE <<V(1, 1, -1), V(a, 0, 0), V(1, 1, 0), X(1)>>,
           <<V(1, 0, 1), V(b, 0, 0), V(1, 1, 0)>>
           \o (IF rec = 0 THEN << >> ELSE <<V(1, 0, -1), VV(1, 0, 0, 1, 0)>>)>>, rec = 0)>>):
   algo \in {0, 3, 5}, a \in 1..2, b \in 1..2, rec \in 0..1, first \in 0..1}

(* enough periods for the elimination of one to be repeated for those after    *)
(* it; the coefficient that moves with the exogenous variable keeps the pivots *)
(* from zero                                                                   *)
Long1(a, b, x) ==
  ProblemOf(FALSE, 5, 1, 1, 1, x, <<1, 0, 2>>,
    <<BlockOf("SOLVE_TWO_BOUNDARIES_SIMPLE", <<0>>, 0,
        <<<<V(1, 0, 0), V(a, 0, -1), V(b, 0, 1), XV(1, 0, 0), Cst(2)>>>>, TRUE)>>)

(* an exogenous variable may have a lag of two periods, an endogenous one not  *)
(* any more: the blocks then have two initial periods, and two terminal ones   *)
Long2(a, b, x) ==
  ProblemOf(FALSE, 5, 1, 2, 2, x, <<1, 0, 2, 2>>,
    <<BlockOf("SOLVE_TWO_BOUNDARIES_SIMPLE", <<0>>, 0,
        <<<<V(1, 0, 0), V(a, 0, -1), V(b, 0, 1), XV(1, 0, 0), X(2)>>>>, TRUE)>>)

Long ==
  {Long1(a, 1, <<1, 2, 1, 2, 0, 2, 1, 2, 0, 2, 1, 2>>): a \in 1..2}
  \cup {Long1(1, 1, <<1, 2, 1, 2, 0, 2, 1, 2, 0, 2, 1, x>>): x \in 0..2}
  \cup {Long2(a, 1, <<1, 2, 1, 2, 0, 2, 1, 2, 0, 2, 1, 2, x>>): a \in 1..2, x \in 0..2}
  \cup {Long2(1, 2, <<1, 0, 0, 2, 1, 0, 0, 2, 1, 2, 1, 2, 0, 2, 0, 2, 1, 0, 0, 2>>)}
  \cup
  {ProblemOf(FALSE, 5, 2, 1, 1, [k \in 1..13 |-> (k * k + 1) % 3], <<1, 0, 2>>,
     <<BlockOf("SOLVE_TWO_BOUNDARIES_COMPLETE", <<0, 1>>, 0,
         <<<<V(1, 1, -1), V(a, 0, 0), V(1, 1, 0), X(1)>>,
           <<V(1, 0, 1), V(b, 0, 0), V(1, 1, 0)>>>>, TRUE)>>):
   a \in 1..2, b \in 1..2}

Solve(lag, form) ==
  CASE lag < 0 /\ form = "SIMPLE" -> "SOLVE_FORWARD_SIMPLE"
    [] lag > 0 /\ form = "SIMPLE" -> "SOLVE_BACKWARD_SIMPLE"
    [] lag < 0 /\ form = "COMPLETE" -> "SOLVE_FORWARD_COMPLETE"
    [] lag > 0 /\ form = "COMPLETE" -> "SOLVE_BACKWARD_COMPLETE"

(* blocks that look to one side: what precedes is evaluated, or one equation.  *)
(* A linear complete block has a solver, no recursive variable, and is not a   *)
(* backward one; the elimination gets linear blocks only.                      *)
OneSided ==
  {ProblemOf(FALSE, algo, 4, 1, 1, <<x1, x2>>, <<first, 0, 1, 1, 2>>,
     <<BlockOf("EVALUATE_FORWARD", <<3>>, 1, <<<<V(1, 3, -1), X(2)>>>>, FALSE),
       BlockOf(Solve(lag, "SIMPLE"), <<2>>, 0,
         <<<<V(1, 3, 0), V(2, 2, 0), V(1, 2, lag)>>
           \o (IF b = 1 THEN << >> ELSE <<VV(1, 2, 0, 2, 0)>>)>>, b = 1),
       BlockOf(Solve(lag, "COMPLETE"), <<1, 0>>, rec,
         <<IF rec = 1 THEN <<V(1, 0, 0), V(1, 2, 0)>>
           ELSE <<V(1, 1, lag), V(1, 0, 0), V(1, 1, 0), V(1, 2, 0)>>,
           <<V(2, 0, lag), V(1, 0, 0), V(b, 1, 0)>>
           \o (IF nonlinear THEN <<VV(1, 0, 0, 1, 0)>> ELSE << >>)>>, ~nonlinear)>>):
   <<algo, lag, b, rec, nonlinear, first, x1, x2>> \in
     {f \in {0, 2, 4, 5} \X {-1, 1} \X (1..2) \X (0..1) \X BOOLEAN \X (0..2) \X (1..2) \X (0..1):
        /\ ~f[5] => f[1] # 4 /\ f[2] = -1 /\ f[4] = 0
        /\ f[1] = 5 => ~f[5]}}

(* steady states: one period, without lags. For the elimination the first      *)
(* block starts at its solution.                                               *)
Steady ==
  {ProblemOf(TRUE, algo, 4, 0, 0, <<1>>, <<first, 1, IF algo = 5 THEN 1 ELSE 2>>,
     <<BlockOf("SOLVE_FORWARD_SIMPLE", <<2>>, 0, <<<<V(2, 2, 0), VV(1, 2, 0, 2, 0)>>>>, FALSE),
       BlockOf(type, <<1, 0>>, rec,
         <<IF rec = 1 THEN <<V(1, 0, 0), V(1, 2, 0)>>
           ELSE <<V(1, 0, 0), V(1, 1, 0), V(2, 2, 0)>>,
           <<V(2, 0, 0), V(b, 1, 0), X(e), VV(1, 0, 0, 1, 0)>>>>, FALSE),
       BlockOf("EVALUATE_BACKWARD", <<3>>, 1, <<<<V(1, 0, 0), X(2)>>>>, FALSE)>>):
   algo \in 5..8, rec \in 0..1, b \in 1..2, e \in 1..2, first \in 0..1,
   type \in {"SOLVE_FORWARD_COMPLETE", "SOLVE_BACKWARD_COMPLETE"}}

(* a part of each step: the blocks that are not linear go on until they are    *)
(* solved                                                                      *)
Parts ==
  {[p EXCEPT !.slowc = 2]:
     p \in {q \in Stacked1 \cup Stacked2 \cup Steady: \A k \in DOMAIN q.blocks: ~q.blocks[k].linear}}

Simulations == Stacked1 \cup Stacked2 \cup Long \cup OneSided \cup Steady \cup Parts
================================================================================
