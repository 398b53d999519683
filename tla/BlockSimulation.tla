---------------------------- MODULE BlockSimulation ----------------------------
(* The simulation of a model block by block: the code that                     *)
(* preprocessor/DynamicModel and StaticModel write for each block, and         *)
(* mex/sources/bytecode/Interpreter and SparseMatrix that run it. A block is   *)
(* evaluated, or solved by Newton's method: at each period when it looks to    *)
(* one side only, for all the periods stacked when it has leads and lags.      *)
(*                                                                             *)
(* A problem is [steady, algo, minimal, maxit, slowc, ysize, kmin, kmax,       *)
(* periods, x, y0, blocks]: algo is stack_solve_algo, solve_algo for a steady  *)
(* state; minimal is minimal_solving_periods; slowc is the part of a Newton    *)
(* step that is taken; x gives the exogenous variable of each  *)
(* period; y0 is the path at first, with the initial and terminal periods.     *)
(* A block is [type, vars, rec, eqs, linear]: its variables and equations in   *)
(* their order, of which the first rec are recursive, and the others are       *)
(* feedback variables. An equation is a sequence of terms [c, m, x]: the       *)
(* product of c, of the variables m at their lags and, where x says so, of the *)
(* exogenous variable. It is what the variable of a recursive equation equals, *)
(* and what must be zero for the others.                                       *)
(*                                                                             *)
(* compute_blocks is modelled as it simulates all the blocks; that it can      *)
(* evaluate or print them, or take one block only, is left out. A residual     *)
(* that is no number stands for all the ways in which the code comes to think  *)
(* so.                                                                         *)
EXTENDS SparseMatrix

CONSTANTS Problems,
          MaxDamped         \* how often a diverging step is shortened, at most

VARIABLES problem, phase,
          path,             \* [y, ya, direction]
          blockCount,       \* Block_Count, from 1
          it,               \* it_
          iter,
          r, u,             \* what the block's code left: residuals, derivatives
          ge,               \* the elimination going on
          replay,           \* what it remembers of the periods before
          newton,           \* what the Newton steps keep from one to the next:
                            \*   damped    how often slowc_save was made shorter
                            \*   tried     try_at_iteration is not 0
                            \*   symbolic, alt, altCount, startCompare, restart,
                            \*   tbreakG   alt_symbolic, alt_symbolic_count, tbreak_g ...
          warned            \* MATLAB issued a warning

vars == <<problem, phase, path, blockCount, it, iter, r, u, ge, replay, newton, warned>>

Block == problem.blocks[blockCount]
Mfs(b) == Len(b.vars) - b.rec

TwoBoundaries == {"SOLVE_TWO_BOUNDARIES_SIMPLE", "SOLVE_TWO_BOUNDARIES_COMPLETE"}
Backward == {"EVALUATE_BACKWARD", "SOLVE_BACKWARD_SIMPLE", "SOLVE_BACKWARD_COMPLETE"}
Evaluated == {"EVALUATE_FORWARD", "EVALUATE_BACKWARD"}
Simple == {"SOLVE_FORWARD_SIMPLE", "SOLVE_BACKWARD_SIMPLE"}

FirstPeriod(p) == p.kmin
LastPeriod(p) == p.kmin + p.periods - 1

-------------------------------------------------------------------------------
(* The block's code *)

RECURSIVE ProductOf(_, _, _, _)
ProductOf(p, y, t, m) ==
  IF m = << >> THEN 1
  ELSE Times(y[Head(m)[1] + (t + Head(m)[2]) * p.ysize], ProductOf(p, y, t, Tail(m)))

TermValue(p, y, t, term) ==
  Times(Times(term.c, IF term.x THEN p.x[t - p.kmin + 1] ELSE 1), ProductOf(p, y, t, term.m))

ValueOf(p, y, t, eq) == Total([k \in DOMAIN eq |-> TermValue(p, y, t, eq[k])])

Without(m, j) == SubSeq(m, 1, j - 1) \o SubSeq(m, j + 1, Len(m))

(* the derivative of an equation by a variable at a lag *)
DerivativeTerms(eq, v) ==
  [k \in {<<i, j>> \in (DOMAIN eq) \X (1..2): j <= Len(eq[i].m) /\ eq[i].m[j] = v} |->
     [eq[k[1]] EXCEPT !.m = Without(@, k[2])]]

PartialValue(p, y, t, eq, v) ==
  LET d == DerivativeTerms(eq, v) IN Total([k \in DOMAIN d |-> TermValue(p, y, t, d[k])])

Holds(eq, v) == \E k \in DOMAIN eq: \E j \in DOMAIN eq[k].m: eq[k].m[j] = v

(* the chain rule, through the recursive variables at their own period *)
RECURSIVE ChainRule(_, _, _, _, _, _)
ChainRule(p, b, y, t, i, v) ==
  LET through == {k \in 1..b.rec: k # i /\ Holds(b.eqs[i], <<b.vars[k], 0>>)}
  IN Plus(PartialValue(p, y, t, b.eqs[i], v),
          Total([k \in through |->
                   Times(PartialValue(p, y, t, b.eqs[i], <<b.vars[k], 0>>),
                         ChainRule(p, b, y, t, k, v))]))

(* get_Derivatives: an equation has a derivative by a variable v that it       *)
(* holds, or that the equation of a recursive variable before it has, when it  *)
(* holds that variable at the lag of v                                         *)
RECURSIVE HasDerivative(_, _, _)
Through(b, i, v) ==
  {k \in 1..b.rec: k < i /\ Holds(b.eqs[i], <<b.vars[k], v[2]>>) /\ HasDerivative(b, k, v)}
HasDerivative(b, i, v) == Holds(b.eqs[i], v) \/ Through(b, i, v) # {}

Lags(p) == (-p.kmin)..p.kmax

(* blocks_derivatives of the feedback part, in their order: by lag, equation   *)
(* and variable. A block that looks to one side has only those without a lag   *)
(* in its system.                                                              *)
RECURSIVE EntriesFrom(_, _, _)
EntriesFrom(p, b, k) ==
  LET n == Mfs(b)
      lag == k \div (n * n) - p.kmin
      eq == (k % (n * n)) \div n
      var == k % n
  IN IF lag > p.kmax THEN << >>
     ELSE (IF /\ b.type \notin TwoBoundaries => lag = 0
              /\ HasDerivative(b, b.rec + eq + 1, <<b.vars[b.rec + var + 1], lag>>)
           THEN <<[eq |-> eq, var |-> var, lag |-> lag]>> ELSE << >>)
          \o EntriesFrom(p, b, k + 1)

Entries(p, b) == EntriesFrom(p, b, 0)

(* the places of u that a period takes *)
PerPeriod(p, b) == Mfs(b) + Len(Entries(p, b))

(* the recursive equations, in which a block that has feedback variables holds *)
(* its variables without lags, give their variables, one after the other *)
RECURSIVE Recursion(_, _, _, _, _)
Recursion(p, b, y, t, i) ==
  IF i > b.rec THEN y
  ELSE Recursion(p, b, [y EXCEPT ![b.vars[i] + t * p.ysize] = ValueOf(p, y, t, b.eqs[i])],
                 t, i + 1)

ResidualsAt(p, b, y, t) ==
  [i \in 0..(Mfs(b) - 1) |-> ValueOf(p, y, t, b.eqs[b.rec + i + 1])]

(* a derivative: through the recursive variables where there are some *)
DerivativeAt(p, b, y, t, e) ==
  LET i == b.rec + e.eq + 1
      v == <<b.vars[b.rec + e.var + 1], e.lag>>
  IN IF Through(b, i, v) = {} THEN PartialValue(p, y, t, b.eqs[i], v)
     ELSE ChainRule(p, b, y, t, i, v)

(* what the linear system has on its right, then the derivatives *)

SystemAt(p, b, y, t) ==
  LET n == Mfs(b)
      es == Entries(p, b)
      d == [k \in DOMAIN es |-> DerivativeAt(p, b, y, t, es[k])]
      Sum(eq) == Total([k \in {j \in DOMAIN es: es[j].eq = eq} |->
                   Times(d[k], y[b.vars[b.rec + es[k].var + 1] + (t + es[k].lag) * p.ysize])])
      res == ResidualsAt(p, b, y, t)
  IN [k \in 0..(n + Len(es) - 1) |-> IF k < n THEN Minus(res[k], Sum(k)) ELSE d[k - n + 1]]

-------------------------------------------------------------------------------
(* compute_blocks and the start of simulate_a_block *)

NoReplay == [record |-> FALSE, nop1 |-> 0, opa |-> << >>, opaa |-> << >>, symbolic |-> FALSE,
             tbreak |-> 0, t |-> 0]

Begin ==
  /\ phase = "begin"
  /\ IF blockCount = Len(problem.blocks)
     THEN /\ phase' = "ended"
          /\ UNCHANGED <<blockCount, it, iter, path>>
     ELSE LET b == problem.blocks[blockCount + 1]
          IN /\ blockCount' = blockCount + 1
             /\ phase' = IF b.type \in Evaluated THEN "evaluate"
                         ELSE IF b.type \in Simple THEN "simple" ELSE "residuals"
             /\ it' = IF b.type \in Backward THEN LastPeriod(problem) ELSE FirstPeriod(problem)
             \* only the linear backward blocks of a simulation do not reset it
             /\ iter' = IF b.type = "SOLVE_BACKWARD_COMPLETE" /\ b.linear /\ ~problem.steady
                        THEN iter ELSE 0
             /\ path' = path
  /\ newton' = [newton EXCEPT
                  !.tried = @ /\ (phase' = "residuals" => problem.blocks[blockCount'].linear)]
  /\ UNCHANGED <<problem, r, u, ge, replay, warned>>

Next1(b) == IF b.type \in Backward THEN it - 1 ELSE it + 1
LastOne(b) == Next1(b) \notin FirstPeriod(problem)..LastPeriod(problem)

(* the block's directions are forgotten at its end *)
Forgotten(w) == [w EXCEPT !.direction = [k \in DOMAIN @ |-> 0]]

EvaluateOne ==
  /\ phase = "evaluate"
  /\ path' = [path EXCEPT !.y = Recursion(problem, Block, @, it, 1)]
  /\ it' = Next1(Block)
  /\ phase' = IF LastOne(Block) THEN "begin" ELSE "evaluate"
  /\ UNCHANGED <<problem, blockCount, iter, r, u, ge, replay, newton, warned>>

(* one equation in one variable; a division by zero is reported and leaves the *)
(* variable, or moves it far away                                              *)
SimpleOne ==
  /\ phase = "simple"
  /\ LET b == Block
         place == b.vars[1] + it * problem.ysize
         rr == ValueOf(problem, path.y, it, b.eqs[1])
         g1 == PartialValue(problem, path.y, it, b.eqs[1], <<b.vars[1], 0>>)
     IN IF rr = 0
        THEN /\ it' = Next1(b)
             /\ iter' = IF LastOne(b) THEN iter ELSE 0
             /\ phase' = IF LastOne(b) THEN "begin" ELSE "simple"
             /\ UNCHANGED path
        ELSE /\ \E step \in IF Over(rr, g1) = Nan THEN Scalars ELSE {Over(rr, g1)}:
                  path' = [path EXCEPT !.y[place] = Minus(@, step)]
             /\ iter' = iter + 1
             /\ phase' = IF iter + 1 > problem.maxit THEN "error" ELSE "simple"
             /\ UNCHANGED it
  /\ UNCHANGED <<problem, blockCount, r, u, ge, replay, newton, warned>>

-------------------------------------------------------------------------------
(* The residuals and the system, at one period or at all of them: the code of  *)
(* the block runs at one period after the other, on the path that the          *)
(* recursive equations of the periods before have changed. s = [y, r, u].      *)

Shifted(f, by) == [k \in {j + by: j \in DOMAIN f} |-> f[k - by]]

RECURSIVE Pass(_, _, _, _, _)
Pass(p, b, s, t, last) ==
  LET y == Recursion(p, b, s.y, t, 1)
  IN IF t > last THEN s
     ELSE Pass(p, b, [y |-> y,
                      r |-> s.r @@ Shifted(ResidualsAt(p, b, y, t), Cardinality(DOMAIN s.r)),
                      u |-> s.u @@ Shifted(SystemAt(p, b, y, t), Cardinality(DOMAIN s.u))],
               t + 1, last)

Two == Block.type \in TwoBoundaries

(* what a residual that is no number makes of y does not matter: it is taken   *)
(* back, or the simulation ends                                                *)
ComputeBlock ==
  /\ phase = "residuals"
  /\ IF problem.steady /\ Two
     THEN phase' = "error" /\ UNCHANGED <<path, r, u>>
     ELSE \E s \in {Pass(problem, Block, [y |-> path.y, r |-> << >>, u |-> << >>],
                         IF Two THEN FirstPeriod(problem) ELSE it,
                         IF Two THEN LastPeriod(problem) ELSE it)}:
            /\ path' = [path EXCEPT !.y = s.y]
            /\ r' = s.r /\ u' = s.u
            /\ phase' = "newton"
  /\ UNCHANGED <<problem, blockCount, it, iter, ge, replay, newton, warned>>

Invalid == \E k \in DOMAIN r: r[k] = Nan

(* at one period a residual that is not a number may pass unseen *)
Converged == \A k \in DOMAIN r: r[k] = 0 \/ (r[k] = Nan /\ ~Two)

(* a linear block solved backward keeps iter and the sums of the residuals of  *)
(* the blocks and periods before                                               *)
Stale == Block.type = "SOLVE_BACKWARD_COMPLETE" /\ Block.linear /\ ~problem.steady

(* after a solution: a linear block is left as it is, the others are computed  *)
(* again, until the iterations are used up                                     *)
FinishPeriod(w) ==
  IF Two \/ LastOne(Block)
  THEN phase' = "begin" /\ path' = Forgotten(w) /\ UNCHANGED it
  ELSE phase' = "residuals" /\ path' = w /\ it' = Next1(Block)

Solved(w) ==
  IF Block.linear
  THEN FinishPeriod(w) /\ UNCHANGED iter
  ELSE /\ phase' = IF iter + 1 > problem.maxit THEN "error" ELSE "residuals"
       /\ path' = w /\ iter' = iter + 1 /\ UNCHANGED it

(* what is remembered after a step that was not made shorter: the length of    *)
(* the next is that of the option again where two boundaries are solved        *)
Undamped(n) ==
  IF Block.linear THEN n
  ELSE [n EXCEPT !.tried = FALSE, !.damped = IF Two THEN 0 ELSE @]

-------------------------------------------------------------------------------
(* When the residuals shrink too slowly the pivots are looked for in more      *)
(* periods, then in all of them; once, the shorter way is tried again.         *)
Retried(n) ==
  IF n.alt /\ n.altCount < 1
  THEN [n EXCEPT !.alt = FALSE, !.symbolic = TRUE, !.altCount = @ + 1] ELSE n

Adapted(n, slow) ==
  IF slow /\ n.symbolic
  THEN IF n.restart > 2
       THEN [n EXCEPT !.symbolic = FALSE, !.alt = TRUE]
       ELSE [n EXCEPT !.startCompare = Smaller(n.tbreakG, problem.periods),
                      !.restart = @ + 1]
  ELSE [n EXCEPT !.startCompare = Larger(problem.kmin, problem.minimal), !.restart = 0]

(* whether they do is not known in the first iteration *)
Slow == IF iter > 0 THEN BOOLEAN ELSE {FALSE}

(* the start of Simulate_Newton_Two_Boundaries, for the own elimination *)
Prepared(n, slow) == IF Two /\ problem.algo = 5 THEN Adapted(Retried(n), slow) ELSE n

(* a nonlinear block has converged *)
Accept ==
  /\ phase = "newton" /\ ~Block.linear /\ Converged
  /\ FinishPeriod(path)
  /\ iter' = IF Two THEN iter + 1 ELSE IF LastOne(Block) THEN iter ELSE 0
  /\ \E slow \in Slow:
       newton' = IF Two THEN Undamped(Prepared(newton, slow))
                 ELSE [newton EXCEPT !.tried = @ /\ LastOne(Block)]
  /\ UNCHANGED <<problem, blockCount, r, u, ge, replay, warned>>

(* a linear block at one period that holds already *)
AcceptLinear ==
  /\ phase = "newton" /\ Block.linear /\ ~Two /\ Converged /\ ~Invalid
  /\ FinishPeriod(path)
  /\ UNCHANGED <<problem, blockCount, iter, r, u, ge, replay, newton, warned>>

ToSolve ==
  phase = "newton" /\ (Invalid \/ ~Converged \/ (Block.linear /\ (Two \/ Stale)))

(* the places of the period, and of all the periods but the terminal ones *)
Period == (it * problem.ysize)..((it + 1) * problem.ysize - 1)
Whole == 0..(problem.ysize * (problem.periods + problem.kmin) - 1)

(* a step from the path kept, s being its length *)
Moved(w, s) ==
  LET places == IF Two THEN Whole ELSE Period
  IN [w EXCEPT !.y = [k \in DOMAIN @ |->
                        IF k \in places THEN Plus(w.ya[k], Times(s, w.direction[k])) ELSE @[k]]]

(* the length is found from the residuals of the steps before; otherwise it is *)
(* divided by 1.1                                                              *)
Interpolated == ~Invalid /\ (~Two \/ problem.algo \in {4, 5})

Shortened(n) ==
  IF Interpolated
  THEN [n EXCEPT !.damped = IF n.tried THEN @ + 1 ELSE 1, !.tried = TRUE]
  ELSE [n EXCEPT !.damped = @ + 1]

(* The residuals grew, or are no numbers: the last step is made shorter. One   *)
(* that gets too short where two boundaries are solved is taken in full. A     *)
(* linear block is then left, and one that is not is computed again.           *)
Damp ==
  /\ ToSolve /\ iter > 0 /\ newton.damped < MaxDamped
  /\ \E full \in IF Two /\ Interpolated THEN BOOLEAN ELSE {FALSE}:
       /\ \E s \in IF full THEN {1} ELSE Scalars \ {0}:
            IF Block.linear
            THEN FinishPeriod(Moved(path, s)) /\ iter' = iter - 1
            ELSE path' = Moved(path, s) /\ phase' = "residuals" /\ UNCHANGED <<it, iter>>
       /\ newton' = [Shortened(newton) EXCEPT !.tried = @ /\ ~full]
  /\ UNCHANGED <<problem, blockCount, r, u, ge, replay, warned>>

(* the step is too short, or there was none: a simulation ends, a steady state *)
(* is left as it is until the iterations are used up                           *)
GiveUp ==
  /\ ToSolve
  /\ IF iter = 0 THEN Invalid ELSE newton.damped = MaxDamped
  /\ IF problem.steady
     THEN Solved(path) /\ newton' = Undamped(newton)
     ELSE phase' = "error" /\ UNCHANGED <<path, it, iter, newton>>
  /\ UNCHANGED <<problem, blockCount, r, u, ge, replay, warned>>

-------------------------------------------------------------------------------
(* The solution of the linear system, by the option of the user *)

At(b) ==
  IF Two
  THEN [vars |-> SubSeq(b.vars, b.rec + 1, Len(b.vars)), ysize |-> problem.ysize,
        kmin |-> problem.kmin, periods |-> problem.periods, slowc |-> problem.slowc]
  ELSE [vars |-> SubSeq(b.vars, b.rec + 1, Len(b.vars)), ysize |-> problem.ysize,
        kmin |-> it, periods |-> 1, slowc |-> problem.slowc]

Method ==
  CASE problem.steady ->
         (CASE problem.algo = 5 -> "own" [] problem.algo = 6 -> "lu"
            [] problem.algo \in {7, 8} -> "iterative" [] OTHER -> "none")
    [] ~problem.steady /\ Two ->
         (CASE problem.algo = 5 -> "own" [] problem.algo \in {0, 4} -> "lu"
            [] problem.algo = 1 -> "relaxation" [] problem.algo \in {2, 3} -> "iterative"
            [] OTHER -> "none")
    [] OTHER ->
         (CASE problem.algo = 5 -> "own" [] problem.algo \in {0, 1} -> "lu"
            [] problem.algo \in {2, 3} -> "iterative" [] OTHER -> "none")

Elimination(b) ==
  LET per == PerPeriod(problem, b)
  IN InitGE(At(b), Entries(problem, b), Mfs(b), per, u,
            IF Two
            THEN per * (problem.periods + problem.kmax + problem.kmin + 1) ELSE per,
            path.y)

(* nothing on the right of any equation: the solution is zero *)
ZeroSolution(g) ==
  ~Two /\ \A row \in DOMAIN g.rows: g.u[Rhs(g, row)] = 0

(* the path before the step is kept, for the period only when the own         *)
(* elimination solves one                                                      *)
Kept(w) ==
  LET places == IF Method = "own" /\ ~Two THEN Period ELSE Whole
  IN [w EXCEPT !.ya = [k \in DOMAIN @ |-> IF k \in places THEN w.y[k] ELSE @[k]]]

(* bksub and simple_bksub start from the path kept *)
Restored(w) ==
  [w EXCEPT !.y = [k \in DOMAIN @ |-> IF k \in (IF Two THEN Whole ELSE Period) THEN w.ya[k] ELSE @[k]]]

(* where two boundaries are solved, tbreak_g is set at the first solution *)
Stepped(n) ==
  [Undamped(n) EXCEPT !.tbreakG = IF Two /\ @ = 0 THEN problem.periods ELSE @]

(* the unknowns go towards -z. At one period the direction is kept at the      *)
(* place of the first period, whichever the period is.                         *)
Put(g, w, z) ==
  LET place == [col \in DOMAIN z |-> Vara(g, At(Block), col)]
      kept == [col \in DOMAIN z |->
                 IF Two THEN place[col] ELSE At(Block).vars[col + 1]]
      ColumnAt(f, k) == CHOOSE col \in DOMAIN z: f[col] = k
      yy == [col \in DOMAIN z |-> Minus(Minus(0, z[col]), w.y[place[col]])]
  IN [w EXCEPT
        !.y = [k \in DOMAIN @ |->
                 IF \E col \in DOMAIN z: place[col] = k
                 THEN Plus(@[k], Times(problem.slowc, yy[ColumnAt(place, k)])) ELSE @[k]],
        !.direction = [k \in DOMAIN @ |->
                 IF \E col \in DOMAIN z: kept[col] = k
                 THEN yy[ColumnAt(kept, k)] ELSE @[k]]]

TurnToZero ==
  /\ ToSolve /\ ~Invalid
  /\ \E g \in {Elimination(Block)}:
       /\ ZeroSolution(g)
       /\ Solved(Put(g, IF Method = "own" THEN path ELSE Kept(path), [col \in DOMAIN g.rows |-> 0]))
  /\ newton' = Stepped(newton)
  /\ UNCHANGED <<problem, blockCount, r, u, ge, replay, warned>>

(* LU or the relaxation; GMRES and BiCGStab may find any solution, or none,    *)
(* and say so in a warning                                                     *)
Answers(g) ==
  CASE Method = "lu" -> {Mldivide(Matrix(g), Vector(g))}
    [] Method = "relaxation" -> {Relaxation(Matrix(g), Vector(g), g.size, g.width)}
    [] OTHER -> Solutions(Matrix(g), Vector(g))

CallMatlab ==
  /\ ToSolve /\ ~Invalid
  /\ Method \in {"lu", "relaxation", "iterative"}
  /\ \E g \in {Elimination(Block)}:
       /\ ~ZeroSolution(g)
       /\ \/ \E z \in Answers(g): Solved(Put(g, Kept(path), z)) /\ UNCHANGED warned
          \/ Method = "iterative" /\ warned' = TRUE /\ Solved(Kept(path))
  /\ newton' = Stepped(newton)
  /\ UNCHANGED <<problem, blockCount, r, u, ge, replay>>

(* no solver answers to the option *)
NoSolver ==
  /\ ToSolve /\ ~Invalid /\ Method = "none"
  /\ \E g \in {Elimination(Block)}: ~ZeroSolution(g) /\ Solved(Kept(path))
  /\ newton' = Stepped(newton)
  /\ UNCHANGED <<problem, blockCount, r, u, ge, replay, warned>>

BeginElimination ==
  /\ ToSolve /\ ~Invalid /\ Method = "own"
  /\ \E g \in {Elimination(Block)}: ~ZeroSolution(g) /\ ge' = g
  /\ \E slow \in Slow: newton' = Prepared(newton, slow)
  /\ replay' = [NoReplay EXCEPT !.symbolic = Two /\ newton'.symbolic]
  /\ path' = Kept(path)
  /\ phase' = "pivot"
  /\ UNCHANGED <<problem, blockCount, it, iter, r, u, warned>>

(* the columns are taken in their order *)
Column == Cardinality(DOMAIN ge.pivot)

(* Past the first periods the pivots are those of the period before *)
Copied == replay.symbolic /\ replay.t > newton.startCompare

Pivots(col) ==
  IF Copied
  THEN {row \in {ge.pivot[col - ge.size] + ge.size}: ValueAt(ge, row, col) # 0}
  ELSE IF Singular(ge, col) THEN {} ELSE PivotRows(ge, col)

Pivot ==
  /\ phase = "pivot"
  /\ Cardinality(DOMAIN ge.pivot) < (replay.t + 1) * ge.size
  /\ \/ \E row \in Pivots(Column):
          ge' = Eliminated(ge, Column, row) /\ UNCHANGED phase
     \/ Pivots(Column) = {} /\ phase' = "error" /\ UNCHANGED ge
  /\ UNCHANGED <<problem, path, blockCount, it, iter, r, u, replay, newton, warned>>

(* what is remembered after a period, when it is not the last one treated *)
Remembered(m, ops) ==
  IF m.record /\ Nop(ops) = m.nop1
  THEN [m EXCEPT !.opaa = m.opa, !.opa = ops]
  ELSE IF Nop(ops) = m.nop1 THEN [m EXCEPT !.record = TRUE]
  ELSE [m EXCEPT !.record = FALSE, !.opa = << >>, !.opaa = << >>]

(* beyond the first 35 percent of the periods nothing is recorded any more *)
TooLate == replay.t > (35 * problem.periods) \div 100

Repeating ==
  /\ replay.symbolic /\ ~TooLate /\ replay.record /\ Nop(ge.ops) = replay.nop1
  /\ replay.opa # << >> /\ replay.opaa # << >>
  /\ SameSteps(ge.ops, replay.opa, replay.opaa)

(* from period t on, the pivots of the period before it, moved *)
CopiedPivots(g, t) ==
  [col \in 0..(g.size * g.width - 1) |->
     IF col < t * g.size THEN g.pivot[col]
     ELSE g.pivot[(t - 1) * g.size + (col % g.size)] + g.size * (col \div g.size - t + 1)]

(* the end of a period's elimination *)
EndPeriod ==
  /\ phase = "pivot"
  /\ Cardinality(DOMAIN ge.pivot) = (replay.t + 1) * ge.size
  /\ \/ /\ Repeating
        /\ ge' = [ge EXCEPT !.u = Repeated(ge, ge.ops, Step(ge.ops, replay.opa),
                                           problem.periods - replay.t, problem.kmax, 1),
                            !.pivot = CopiedPivots(ge, replay.t)]
        /\ replay' = [replay EXCEPT !.tbreak = replay.t]
        /\ newton' = [newton EXCEPT !.tbreakG = replay.t]
        /\ phase' = "substitute"
     \/ /\ ~Repeating
        /\ replay' =
             [(IF ~replay.symbolic THEN replay
               ELSE IF TooLate THEN [replay EXCEPT !.symbolic = FALSE]
               ELSE Remembered(replay, ge.ops))
              EXCEPT !.nop1 = Nop(ge.ops), !.t = @ + 1]
        /\ ge' = [ge EXCEPT !.ops = << >>, !.free = << >>]
        /\ phase' = IF replay.t + 1 = ge.width THEN "substitute" ELSE "pivot"
        /\ UNCHANGED newton
  /\ UNCHANGED <<problem, path, blockCount, it, iter, r, u, warned>>

Substitute ==
  /\ phase = "substitute"
  /\ LET beg == replay.tbreak
         from == Restored(path)
         completed == IF beg = 0 THEN from.y
                      ELSE Complete(ge, At(Block), from.y, beg, ge.width - 1)
         last == IF beg = 0 THEN ge.width ELSE beg
         done == BackSubstituted(ge, At(Block), [y |-> completed, direction |-> from.direction],
                                 last * ge.size - 1)
     IN Solved([from EXCEPT !.y = done.y, !.direction = done.direction])
  /\ newton' = [Stepped(newton) EXCEPT !.damped = 0]
  /\ ge' = << >> /\ replay' = NoReplay
  /\ UNCHANGED <<problem, blockCount, r, u, warned>>

-------------------------------------------------------------------------------
Init ==
  /\ problem \in Problems
  /\ phase = "begin"
  /\ path = [y |-> problem.y0, ya |-> problem.y0, direction |-> [k \in DOMAIN problem.y0 |-> 0]]
  /\ blockCount = 0 /\ it = problem.kmin /\ iter = 0
  /\ r = << >> /\ u = << >> /\ ge = << >> /\ replay = NoReplay
  /\ newton = [damped |-> 0, tried |-> FALSE, symbolic |-> TRUE, alt |-> FALSE, altCount |-> 0,
                startCompare |-> 0, restart |-> 0, tbreakG |-> 0]
  /\ warned = FALSE

Next ==
  \/ Begin \/ EvaluateOne \/ SimpleOne \/ ComputeBlock
  \/ Accept \/ AcceptLinear \/ Damp \/ GiveUp
  \/ TurnToZero \/ CallMatlab \/ NoSolver
  \/ BeginElimination \/ Pivot \/ EndPeriod \/ Substitute
  \/ (phase \in {"ended", "error"} /\ UNCHANGED vars)

Spec == Init /\ [][Next]_vars

-------------------------------------------------------------------------------
(* every equation of a block holds in every period *)
Satisfied(p, b, y) ==
  \A t \in FirstPeriod(p)..LastPeriod(p): \A i \in DOMAIN b.eqs:
    LET value == ValueOf(p, y, t, b.eqs[i])
    IN IF i <= b.rec THEN y[b.vars[i] + t * p.ysize] = value ELSE value = 0

Numbers == \A k \in DOMAIN path.y: path.y[k] # Nan

(* When a simulation ends without an error or a warning, with numbers, they    *)
(* solve the model: each equation of each block holds at each period, with the *)
(* initial and terminal values given, which have not moved. (compute_blocks    *)
(* and all that it calls)                                                      *)
SimulationSolves ==
  (phase = "ended" /\ ~warned /\ Numbers) =>
    /\ \A k \in DOMAIN problem.blocks: Satisfied(problem, problem.blocks[k], path.y)
    /\ \A k \in DOMAIN path.y:
         k \div problem.ysize \notin FirstPeriod(problem)..LastPeriod(problem) =>
           path.y[k] = problem.y0[k]
================================================================================
