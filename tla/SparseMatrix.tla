----------------------------- MODULE SparseMatrix -----------------------------
(* The linear systems of the block simulations (mex/sources/bytecode/          *)
(* SparseMatrix.cc): the matrix of a block is read from the vector u that the  *)
(* block's code fills, and is solved by the elimination of the class or by     *)
(* MATLAB.                                                                     *)
(*                                                                             *)
(* Numbers are taken in the prime field of P elements, where the algebra of an *)
(* elimination is exact, with one more value for what a division by zero       *)
(* leaves. A test "less than eps" is a test for zero, and the choice of a      *)
(* pivot by size and by the fill-in it causes is any choice among the pivots   *)
(* that are not zero.                                                          *)
(*                                                                             *)
(* Rows and columns are numbered from 0, size of them in each period. A row is *)
(* a function from its columns to the places of its elements in u.             *)
EXTENDS Integers, Sequences, FiniteSets, Functions, FiniteSetsExt, TLC

CONSTANT P

ASSUME PAssumption == P \in Nat \ {0, 1} /\ \A d \in 2..(P - 1): P % d # 0

Nan == P
Scalars == 0..(P - 1)

Plus(a, b) == IF Nan \in {a, b} THEN Nan ELSE (a + b) % P
Minus(a, b) == IF Nan \in {a, b} THEN Nan ELSE (a - b) % P
Times(a, b) == IF Nan \in {a, b} THEN Nan ELSE (a * b) % P
Over(a, b) ==
  IF Nan \in {a, b} \/ b = 0 THEN Nan ELSE CHOOSE q \in Scalars: (q * b) % P = a

Total(f) == FoldFunction(Plus, 0, f)

Larger(a, b) == IF a >= b THEN a ELSE b
Smaller(a, b) == IF a <= b THEN a ELSE b
Size0(a) == IF a >= 0 THEN a ELSE -a

RECURSIVE Ascending(_)
Ascending(S) ==
  IF S = {} THEN << >>
  ELSE LET least == CHOOSE a \in S: \A c \in S: a <= c IN <<least>> \o Ascending(S \ {least})

(* how far the column's period is from the row's: lag_index *)
Lag(size, row, col) == col \div size - row \div size

Store(u, k, v) == IF k \in DOMAIN u THEN [u EXCEPT ![k] = v] ELSE u @@ (k :> v)

-------------------------------------------------------------------------------
(* The operations of an elimination: IFLD loads an element, IFDIV divides by   *)
(* it, IFSUB subtracts a multiple, IFLESS does so where there was nothing      *)

Op(op, first, second, lag) == [op |-> op, first |-> first, second |-> second, lag |-> lag]

(* the integers an operation takes in save_op *)
Width(o) == IF o.op \in {"IFLD", "IFDIV"} THEN 2 ELSE 3

RECURSIVE Nop(_)
Nop(ops) == IF ops = << >> THEN 0 ELSE Width(Head(ops)) + Nop(Tail(ops))

NoShift(ops) == [k \in DOMAIN ops |-> [first |-> 0, second |-> 0]]

(* s = [u, r]: the operations that reach less than limit periods ahead, done   *)
(* t periods after the one they were recorded for                              *)
RECURSIVE Perform(_, _, _, _, _, _)
Perform(ops, shift, t, limit, k, s) ==
  IF k > Len(ops) THEN s
  ELSE LET o == ops[k]
           place == o.first + t * shift[k].first
           multiple == Times(s.u[o.second + t * shift[k].second], s.r)
       IN Perform(ops, shift, t, limit, k + 1,
            CASE o.lag >= limit -> s
              [] o.op = "IFLD" /\ o.lag < limit -> [s EXCEPT !.r = s.u[place]]
              [] o.op = "IFDIV" /\ o.lag < limit ->
                   [s EXCEPT !.u = Store(s.u, place, Over(s.u[place], s.r))]
              [] o.op = "IFSUB" /\ o.lag < limit ->
                   [s EXCEPT !.u = Store(s.u, place, Minus(s.u[place], multiple))]
              [] o.op = "IFLESS" /\ o.lag < limit ->
                   [s EXCEPT !.u = Store(s.u, place, Minus(0, multiple))])

-------------------------------------------------------------------------------
(* The elimination of one column. g is the state of the elimination:           *)
(*   size, per      unknowns, and places in u, of a period                     *)
(*   rows, u        the matrix, the vector                                     *)
(*   free, count    u_liste and u_count: the places that can be taken          *)
(*   done           line_done                                                  *)
(*   pivot          the row of each column treated                             *)
(*   ops            the operations of this period                              *)

(* the place of the right-hand side of a row: b *)
Rhs(g, row) == (row % g.size) + g.per * (row \div g.size)

(* At_Col(col, 0): the rows of the column's own period that hold it *)
Candidates(g, col) ==
  {row \in DOMAIN g.rows \ g.done:
     col \in DOMAIN g.rows[row] /\ Lag(g.size, row, col) = 0}

Alone(g, col) == {row \in Candidates(g, col): Cardinality(DOMAIN g.rows[row]) = 1}

ValueAt(g, row, col) == g.u[g.rows[row][col]]

(* A row that holds nothing else is taken, the last of them; otherwise one     *)
(* whose element is not zero                                                   *)
PivotRows(g, col) ==
  IF Alone(g, col) # {}
  THEN {CHOOSE row \in Alone(g, col): \A other \in Alone(g, col): other <= row}
  ELSE {row \in Candidates(g, col): ValueAt(g, row, col) \notin {0, Nan}}

(* the largest candidate is below eps *)
Singular(g, col) ==
  IF Alone(g, col) # {}
  THEN \A row \in Alone(g, col): ValueAt(g, row, col) = 0
  ELSE PivotRows(g, col) = {}

(* Get_u *)
NewPlace(e) == IF e.free = << >> THEN e.count ELSE e.free[Len(e.free)]

(* Delete: the place of the element can be taken again *)
Delete(row, free, col) == [cells |-> [c \in DOMAIN row \ {col} |-> row[c]],
                           free |-> Append(free, row[col])]

(* Insert, in a row that does not hold the column, at the place Get_u gives *)
Insert(e, col) ==
  [e EXCEPT !.cells = @ @@ (col :> NewPlace(e)),
            !.free = IF @ = << >> THEN @ ELSE SubSeq(@, 1, Len(@) - 1),
            !.count = IF e.free = << >> THEN @ + 1 ELSE @]

(* the rest of the pivot row is subtracted from the cells of a row *)
RECURSIVE SubtractRow(_, _, _, _, _, _)
SubtractRow(e, size, pivotRow, cells, cols, reach) ==
  IF cols = << >> THEN e
  ELSE LET col == Head(cols)
           lag == Larger(Lag(size, pivotRow, col), reach)
       IN SubtractRow(
            IF col \in DOMAIN e.cells
            THEN [e EXCEPT !.ops = Append(@, Op("IFSUB", e.cells[col], cells[col], lag))]
            ELSE [Insert(e, col) EXCEPT !.ops = Append(@, Op("IFLESS", NewPlace(e), cells[col], lag))],
            size, pivotRow, cells, Tail(cols), reach)

(* the rows below, in their order; the element of the column goes and its      *)
(* place can be taken again                                                    *)
RECURSIVE SubtractFrom(_, _, _, _)
SubtractFrom(g, col, pivotRow, todo) ==
  IF todo = << >> THEN g
  ELSE LET row == Head(todo)
           held == g.rows[row]
           reach == Size0(Lag(g.size, row, CHOOSE c \in DOMAIN held: \A d \in DOMAIN held: c <= d))
           left == Delete(held, g.free, col)
           e == SubtractRow(
                  [cells |-> left.cells, free |-> left.free, count |-> g.count,
                   ops |-> Append(g.ops, Op("IFLD", held[col], held[col],
                                            Size0(Lag(g.size, row, col))))],
                  g.size, pivotRow, g.rows[pivotRow],
                  Ascending(DOMAIN g.rows[pivotRow] \ {col}), reach)
       IN SubtractFrom(
            [g EXCEPT !.rows[row] = e.cells, !.free = e.free, !.count = e.count,
                      !.ops = Append(e.ops, Op("IFSUB", Rhs(g, row), Rhs(g, pivotRow), reach))],
            col, pivotRow, Tail(todo))

(* the pivot row is divided by the pivot *)
Divided(g, col, pivotRow) ==
  LET held == g.rows[pivotRow]
      cols == Ascending(DOMAIN held)
  IN <<Op("IFLD", held[col], held[col], 0)>>
     \o [k \in DOMAIN cols |-> Op("IFDIV", held[cols[k]], held[cols[k]],
                                  Lag(g.size, pivotRow, cols[k]))]
     \o <<Op("IFDIV", Rhs(g, pivotRow), Rhs(g, pivotRow), 0)>>

(* the rows not treated yet that hold the column *)
Below(g, col, pivotRow) ==
  {row \in DOMAIN g.rows \ (g.done \cup {pivotRow}): col \in DOMAIN g.rows[row]}

Eliminated(g, col, pivotRow) ==
  LET before == [g EXCEPT !.ops = Divided(g, col, pivotRow),
                          !.done = @ \cup {pivotRow},
                          !.pivot = Store(@, col, pivotRow)]
      after == SubtractFrom(before, col, pivotRow, Ascending(Below(g, col, pivotRow)))
  IN [after EXCEPT !.u = Perform(after.ops, NoShift(after.ops), 0, g.width, 1,
                                 [u |-> g.u, r |-> 0]).u,
                   !.ops = g.ops \o after.ops]

-------------------------------------------------------------------------------
(* compare: the operations of three periods in a row move by the same steps;   *)
(* the other periods are then treated by repeating the last ones               *)

Step(op, opa) ==
  [k \in DOMAIN op |-> [first |-> op[k].first - opa[k].first,
                        second |-> op[k].second - opa[k].second]]

SameSteps(op, opa, opaa) ==
  /\ Len(op) = Len(opa) /\ Len(opa) = Len(opaa)
  /\ \A k \in DOMAIN op:
       /\ op[k].op = opa[k].op /\ opa[k].op = opaa[k].op
       /\ op[k].first - opa[k].first = opa[k].first - opaa[k].first
       /\ op[k].op \in {"IFLESS", "IFSUB"} =>
            op[k].second - opa[k].second = opa[k].second - opaa[k].second

(* from the end of the periods, what reaches out of them is left out *)
Limit(g, left, t, kmax) == IF t < left - kmax THEN g.width ELSE left - t

RECURSIVE Repeated(_, _, _, _, _, _)
Repeated(g, op, shift, left, kmax, t) ==
  IF t >= left THEN g.u
  ELSE Repeated([g EXCEPT !.u = Perform(op, shift, t, Limit(g, left, t, kmax), 1,
                                        [u |-> g.u, r |-> 0]).u],
                op, shift, left, kmax, t + 1)

-------------------------------------------------------------------------------
(* The unknowns and the path: at is [vars, ysize, kmin, periods, slowc] and y  *)
(* the path, all the variables of a period one after the other. slowc is the   *)
(* part of a step that is taken.                                               *)

(* index_vara, moved by the initial periods *)
Vara(g, at, col) == at.vars[(col % g.size) + 1] + (col \div g.size + at.kmin) * at.ysize

(* the value of a column's unknown, from the row it was the pivot of *)
Backed(g, at, y, col) ==
  LET held == g.rows[g.pivot[col]]
      others == DOMAIN held \ {col}
  IN Minus(0, Plus(Total([c \in others |-> Times(y[Vara(g, at, c)], g.u[held[c]])]),
                   g.u[Rhs(g, g.pivot[col])]))

(* a place of the path goes towards a value *)
Towards(at, y, place, value) ==
  [y EXCEPT ![place] = Plus(@, Times(at.slowc, Minus(value, @)))]

(* bksub and simple_bksub, from the last column; s = [y, direction] *)
RECURSIVE BackSubstituted(_, _, _, _)
BackSubstituted(g, at, s, col) ==
  IF col < 0 THEN s
  ELSE LET place == Vara(g, at, col)
           value == Backed(g, at, s.y, col)
       IN BackSubstituted(g, at,
            [y |-> Towards(at, s.y, place, value),
             direction |-> [s.direction EXCEPT ![place] = Minus(value, s.y[place])]],
            col - 1)

(* complete: the rows of period beg serve for the periods from beg on. Each    *)
(* row is [to, from, u, rhs]: the unknown, the terms and the right-hand side,  *)
(* with the step by which each moves from one period to the next.              *)
SavedRow(g, at, col) ==
  LET held == g.rows[g.pivot[col]]
      before == g.rows[g.pivot[col - g.size]]
      now == Tail(Ascending(DOMAIN held))
      then == Tail(Ascending(DOMAIN before))
  IN [to |-> Vara(g, at, col),
      terms |-> [k \in DOMAIN now |->
                   [y |-> Vara(g, at, now[k]), dy |-> Vara(g, at, now[k]) - Vara(g, at, then[k]),
                    u |-> held[now[k]], du |-> held[now[k]] - before[then[k]]]],
      rhs |-> Rhs(g, g.pivot[col]),
      drhs |-> Rhs(g, g.pivot[col]) - Rhs(g, g.pivot[col - g.size])]

(* the terms outside the simulated periods are in the right-hand side *)
Term(g, at, y, t, ti) ==
  LET k == t.y + ti * t.dy
  IN IF k < (at.periods + at.kmin) * at.ysize /\ k > at.kmin * at.ysize
     THEN Times(y[k], g.u[t.u + ti * t.du]) ELSE 0

RECURSIVE CompletedRows(_, _, _, _, _)
CompletedRows(g, at, y, ti, cols) ==
  IF cols = << >> THEN y
  ELSE LET row == SavedRow(g, at, Head(cols))
           sum == Total([k \in DOMAIN row.terms |-> Term(g, at, y, row.terms[k], ti)])
       IN CompletedRows(g, at,
            Towards(at, y, row.to + ti * at.ysize,
                    Minus(0, Plus(sum, g.u[row.rhs + ti * row.drhs]))),
            ti, Tail(cols))

RECURSIVE Complete(_, _, _, _, _)
Complete(g, at, y, beg, t) ==
  IF t < beg THEN y
  ELSE Complete(g, at,
         CompletedRows(g, at, y, t - beg,
                       [k \in 1..g.size |-> (beg + 1) * g.size - k]),
         beg, t - 1)

-------------------------------------------------------------------------------
(* The entries of a block, in their order: [eq, var, lag], eq and var from 0.  *)
(* Those of period t are in u at per*t, after the right-hand sides.            *)

(* the lags and leads that reach out of the periods *)
Outside(at, t, lag) == t + lag \notin 0..(at.periods - 1)

PlaceOf(size, per, k, t) == size + (k - 1) + per * t

(* MUTANT: the known terms are forgotten *)
Boundary_Forgotten(at, entries, size, per, u, y, eq, t) == 0

Boundary(at, entries, size, per, u, y, eq, t) ==
  Total([k \in {j \in DOMAIN entries: entries[j].eq = eq /\ Outside(at, t, entries[j].lag)} |->
           Times(u[PlaceOf(size, per, k, t)],
                 y[at.vars[entries[k].var + 1] + (at.kmin + t + entries[k].lag) * at.ysize])])

(* Init_GE and Simple_Init: the elements, and the known terms in the           *)
(* right-hand sides                                                            *)
InitGE(at, entries, size, per, u, count, y) ==
  LET Elements(row) == {k \in DOMAIN entries:
        entries[k].eq = row % size /\ ~Outside(at, row \div size, entries[k].lag)}
      ColumnOf(row, k) == entries[k].var + size * (row \div size + entries[k].lag)
      rows == 0..(size * at.periods - 1)
  IN [size |-> size, per |-> per, width |-> at.periods, count |-> count, free |-> << >>,
      rows |-> [row \in rows |->
                  [col \in {ColumnOf(row, k): k \in Elements(row)} |->
                     PlaceOf(size, per, CHOOSE k \in Elements(row): ColumnOf(row, k) = col,
                             row \div size)]],
      u |-> [k \in DOMAIN u |->
               IF k < per * at.periods /\ k % per < size
               THEN Plus(u[k], Boundary(at, entries, size, per, u, y, k % per, k \div per))
               ELSE u[k]],
      done |-> {}, pivot |-> << >>, ops |-> << >>]

-------------------------------------------------------------------------------
(* What MATLAB returns: A z = b for a matrix with an inverse; nothing that is  *)
(* a number otherwise                                                          *)

(* Init_Matlab_Sparse: the same system, as a matrix and a vector *)
Matrix(g) ==
  [row \in DOMAIN g.rows |-> [col \in DOMAIN g.rows |->
     IF col \in DOMAIN g.rows[row] THEN g.u[g.rows[row][col]] ELSE 0]]

Vector(g) == [row \in DOMAIN g.rows |-> g.u[Rhs(g, row)]]

Product(a, z) == [row \in DOMAIN a |-> Total([col \in DOMAIN z |-> Times(a[row][col], z[col])])]

Solutions(a, b) == {z \in [DOMAIN b -> Scalars]: Product(a, z) = b}

Mldivide(a, b) ==
  IF Cardinality(Solutions(a, b)) = 1 THEN CHOOSE z \in Solutions(a, b): TRUE
  ELSE [row \in DOMAIN b |-> Nan]

(* Relaxation: the blocks of the periods next to the diagonal *)
Part(a, size, t, s) ==
  [i \in 0..(size - 1) |-> [j \in 0..(size - 1) |-> a[i + size * t][j + size * s]]]

InverseOf(m) ==
  LET n == DOMAIN m
      unit == [j \in n |-> [i \in n |-> IF i = j THEN 1 ELSE 0]]
      column == [j \in n |-> Mldivide(m, unit[j])]
  IN [i \in n |-> [j \in n |-> column[j][i]]]

MatTimes(a, b) ==
  [i \in DOMAIN a |-> [j \in DOMAIN a |->
     Total([k \in DOMAIN a |-> Times(a[i][k], b[k][j])])]]

MatMinus(a, b) == [i \in DOMAIN a |-> [j \in DOMAIN a |-> Minus(a[i][j], b[i][j])]]

VecMinus(a, b) == [i \in DOMAIN a |-> Minus(a[i], b[i])]

(* the sum of the sizes of the elements, by which a change of the inverse is   *)
(* noticed                                                                     *)
SumOfSizes(m) ==
  FoldFunction(+, 0, [p \in (DOMAIN m) \X (DOMAIN m) |->
                        Smaller(m[p[1]][p[2]], P - m[p[1]][p[2]])])

(* the last element of the right-hand side is not read before the columns end: *)
(* what b2 held stays                                                          *)
RhsRead(b, size, t, periods) ==
  [i \in 0..(size - 1) |->
     IF t < periods - 1 \/ i < size - 1 THEN b[i + size * t]
     ELSE IF t <= 1 THEN 0 ELSE b[i + size * (t - 1)]]

(* the triangular form: r = [b1, d1, inv, sumc, csumc, form], t from 1. The    *)
(* inverse is taken again only while its sum of sizes changes.                 *)
RECURSIVE Triangular(_, _, _, _, _, _)
Triangular(a, b, size, periods, r, t) ==
  LET inv == IF r.sumc # r.csumc THEN InverseOf(r.B1) ELSE r.inv
      S1 == IF t < periods THEN MatTimes(inv, Part(a, size, t - 1, t)) ELSE inv
      d1 == Product(inv, r.b1)
      A2 == Part(a, size, t, t - 1)
  IN IF t = periods THEN [form |-> r.form, d1 |-> d1]
     ELSE Triangular(a, b, size, periods,
            [B1 |-> MatMinus(Part(a, size, t, t), MatTimes(A2, S1)),
             b1 |-> VecMinus(RhsRead(b, size, t, periods), Product(A2, d1)),
             inv |-> inv,
             sumc |-> IF r.sumc # r.csumc THEN SumOfSizes(inv) ELSE r.sumc,
             csumc |-> IF r.sumc # r.csumc THEN r.sumc ELSE r.csumc,
             form |-> Append(r.form, <<S1, d1>>)],
            t + 1)

(* back from the last period; z holds the values of the periods from t on *)
RECURSIVE Relaxed(_, _, _, _, _)
Relaxed(form, size, d1, t, z) ==
  LET values == [k \in {i + size * t: i \in 0..(size - 1)} |-> d1[k - size * t]]
  IN IF t = 0 THEN values @@ z
     ELSE Relaxed(form, size, VecMinus(form[t][2], Product(form[t][1], d1)), t - 1, values @@ z)

(* Solve_Matlab_Relaxation *)
Relaxation(a, b, size, periods) ==
  LET r == Triangular(a, b, size, periods,
             [B1 |-> Part(a, size, 0, 0), b1 |-> RhsRead(b, size, 0, periods),
              inv |-> << >>, sumc |-> 0, csumc |-> -1, form |-> << >>], 1)
  IN Relaxed(r.form, size, r.d1, periods - 1, << >>)
================================================================================
