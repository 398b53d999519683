---------------------------- MODULE Interpreter ----------------------------
(***************************************************************************)
(* The stack machine of the bytecode (Interpreter.cc, compute_block_time). *)
(*                                                                         *)
(* A machine m holds the stack (top last), the temporary terms T, the      *)
(* results of external functions (TEF, and TEFD by index and argument),    *)
(* the residuals r, the vector u of the solver, the Jacobian, the variables *)
(* a store has changed, and the expression the last FNUMEXPR announced.    *)
(* "failed" stands for a FatalExceptionHandling.  Functions are total: a   *)
(* key that was never stored reads as NaN.                                 *)
(***************************************************************************)
EXTENDS Bytecode

Machine == [stack |-> <<>>, T |-> <<>>, TEF |-> <<>>, TEFD |-> <<>>, type |-> "none",
            r |-> <<>>, u |-> <<>>, y |-> <<>>, jacob |-> <<>>, eqn |-> <<"none", 0>>,
            failed |-> FALSE]
Stored(f, k, v) == [x \in DOMAIN f \cup {k} |-> IF x = k THEN v ELSE f[x]]
Read(f, k)      == IF k \in DOMAIN f THEN f[k] ELSE NaN

Push(m, v)  == [m EXCEPT !.stack = Append(@, v)]
Pop(m, n)   == [m EXCEPT !.stack = SubSeq(@, 1, Len(@) - n)]
Top(m, n)   == m.stack[Len(m.stack) + 1 - n]       \* the n-th from the top
Fatal(m)    == [m EXCEPT !.failed = TRUE]
StoreIn(m, f, k) == Pop([m EXCEPT ![f] = Stored(@, k, Top(m, 1))], 1)

(* Arithmetic that flags an undefined result instead of trapping.          *)
Pow1(a, b)   == Pow(a, b)
Divide(a, b) == Div(a, b)
Log1(a)      == Log(a)
Log10_1(a)   == Log(a)

(* Loads.  FLDVS reads steady_y, and x itself for an exogenous variable:   *)
(* in x[var] the subscript counts periods of the first variable, so the    *)
(* value is one the model does not know.                                   *)
LoadDynamic(m, i, env, t) ==
  IF i[3] \in DOMAIN m.y /\ i[4] = 0 THEN Push(m, m.y[i[3]])
  ELSE Push(m, env.val[i[3]][IF i[2] = "eParameter" THEN 0 ELSE t + i[4]])
LoadStatic(m, i, env)  ==
  IF i[3] \in DOMAIN m.y THEN Push(m, m.y[i[3]]) ELSE Push(m, env.val[i[3]][0])
LoadSteady(m, i, env)  ==
  Push(m, IF i[2] \in {"eParameter", "eEndogenous"} THEN env.val[i[3]][0] ELSE NaN)
LoadTables(m, i) ==
  CASE i[1] \in {"FLDT", "FLDST"} -> Push(m, Read(m.T, i[2]))
    [] i[1] \in {"FLDU", "FLDSU"} -> Push(m, Read(m.u, i[2]))
    [] i[1] = "FLDR"              -> Push(m, Read(m.r, i[2]))
    [] i[1] = "FLDZ"              -> Push(m, Num(0))
    [] i[1] = "FLDC"              -> Push(m, i[2])

(* Stores. *)
StoreVariable(m, i) == StoreIn(m, "y", i[3])
StoreTables(m, i) ==
  CASE i[1] \in {"FSTPT", "FSTPST"} -> StoreIn(m, "T", i[2])
    [] i[1] \in {"FSTPU", "FSTPSU"} -> StoreIn(m, "u", i[2])
    [] i[1] = "FSTPR"               -> StoreIn(m, "r", i[2])
(* The Jacobian: endogenous derivatives are stored in the row of the       *)
(* instruction, the others in the row that was announced.  FSTPG2 leaves   *)
(* the value on the stack.                                                 *)
Announce(m, i) == [m EXCEPT !.eqn = <<i[2], i[3]>>]
StoreJacobian(m, i) ==
  LET value == Top(m, 1)
      row   == IF m.eqn[1] = "FirstEndoDerivative" THEN i[2] ELSE m.eqn[2]
      Put(column) == [m EXCEPT !.jacob = Stored(@, <<m.eqn[1], row, column>>, value)]
  IN IF i[1] = "FSTPG2" THEN (IF m.eqn[1] = "FirstEndoDerivative" THEN Put(i[3]) ELSE Fatal(m))
     ELSE Pop(Put(i[5]), 1)

(* Operators.  An equality pushes nothing.                                 *)
PowerDerivRun(m) ==
  LET k == Lift(Top(m, 3)[1])   x == Top(m, 2)   p == Top(m, 1)
  IN Push(Pop(m, 3), PowerDerivEval(x, p, k))
BinaryRun(m, op) ==
  LET v1 == Top(m, 2)   v2 == Top(m, 1)   rest == Pop(m, 2)
  IN CASE op = "oDivide" -> Push(rest, Divide(v1, v2))
       [] op = "oPower"  -> Push(rest, Pow1(v1, v2))
       [] op = "oPowerDeriv" -> PowerDerivRun(m)
       [] op = "oEqual"  -> rest
       [] OTHER -> Push(rest, BinaryEval(op, v1, v2, 0))
UnaryRun(m, op) ==
  LET v == Top(m, 1)   rest == Pop(m, 1)
  IN CASE op = "oLog"   -> Push(rest, Log1(v))
       [] op = "oLog10" -> Push(rest, Log10_1(v))
       [] op \in (Functions1 \ {"oAbs", "oSign"}) \cup {"oUminus"} -> Push(rest, UnaryEval(op, v))
       [] OTHER -> Fatal(rest)
TrinaryRun(m, op) == Push(Pop(m, 3), TrinaryEval(op, Top(m, 3), Top(m, 2), Top(m, 1)))

(* FCALL.  The arguments are popped from the last to the first.            *)
CallResult(fun, kind, index, vs) ==
  IF \E i \in DOMAIN vs : vs[i] = NaN THEN NaN
  ELSE ExternalValue([op |-> kind, index |-> index], vs)
Arguments(m, n) == [i \in 1..n |-> Top(m, n + 1 - i)]
StoreAllFirst(m, c, vs) ==
  [m EXCEPT !.TEFD = FoldSet(LAMBDA i, f : Stored(f, <<c.indx, i>>,
                                CallResult(c.name, "FirstDeriv", <<i>>, vs)), @, DOMAIN vs)]
CallValue(m, c) ==
  LET vs == Arguments(m, c.nin)   rest == Push(Pop(m, c.nin), CallResult(c.name, "ExternalFunction", <<>>, vs))
  IN IF c.type = "ExternalFunctionWithFirstDerivative" THEN StoreAllFirst(rest, c, vs) ELSE rest
CallNumericalFirst(m, c) ==
  LET vs == Arguments(m, c.add)
  IN Push(Pop(m, c.add), CallResult(c.arg, "FirstDeriv", <<c.row>>, vs))
CallFirst(m, c) == StoreAllFirst(Pop(m, c.nin), c, Arguments(m, c.nin))
Call(m, c) ==
  [(CASE c.type = "ExternalFunctionNumericalFirstDerivative" -> CallNumericalFirst(m, c)
      [] c.type = "ExternalFunctionFirstDerivative" -> CallFirst(m, c)
      [] OTHER -> CallValue(m, c)) EXCEPT !.type = c.type]

(* External function terms: a given derivative was stored by the call.     *)
TefRun(m, i) ==
  CASE i[1] = "FSTPTEF"  -> StoreIn(m, "TEF", i[2])
    [] i[1] = "FLDTEF"   -> Push(m, Read(m.TEF, i[2]))
    [] i[1] = "FSTPTEFD" -> IF m.type = "ExternalFunctionNumericalFirstDerivative"
                            THEN StoreIn(m, "TEFD", <<i[2], i[3]>>) ELSE m
    [] i[1] = "FLDTEFD"  -> Push(m, Read(m.TEFD, <<i[2], i[3]>>))
Cumulate(m) == Push(Pop(m, 2), Add(Top(m, 1), Top(m, 2)))

Step(m, i, env, t) ==
  IF m.failed THEN m
  ELSE
  CASE i[1] = "FLDV"  -> LoadDynamic(m, i, env, t)
    [] i[1] = "FLDSV" -> LoadStatic(m, i, env)
    [] i[1] = "FLDVS" -> LoadSteady(m, i, env)
    [] i[1] \in {"FLDT", "FLDST", "FLDU", "FLDSU", "FLDR", "FLDZ", "FLDC"} -> LoadTables(m, i)
    [] i[1] \in {"FSTPV", "FSTPSV"} -> StoreVariable(m, i)
    [] i[1] \in {"FSTPT", "FSTPST", "FSTPU", "FSTPSU", "FSTPR"} -> StoreTables(m, i)
    [] i[1] \in DOMAIN JacobFields -> StoreJacobian(m, i)
    [] i[1] = "FNUMEXPR" -> Announce(m, i)
    [] i[1] = "FBINARY"  -> BinaryRun(m, i[2])
    [] i[1] = "FUNARY"   -> UnaryRun(m, i[2])
    [] i[1] = "FTRINARY" -> TrinaryRun(m, i[2])
    [] i[1] = "FCALL"    -> Call(m, i[2])
    [] i[1] \in DOMAIN TefFields -> TefRun(m, i)
    [] i[1] = "FCUML"    -> Cumulate(m)
    [] i[1] = "FOK"      -> IF m.stack # <<>> THEN Fatal(m) ELSE m
    [] OTHER             -> m

(* Straight code, and code with jumps: a jump is relative to the next      *)
(* instruction; FJMPIFEVAL jumps when the block is only evaluated.         *)
RECURSIVE ComputeBlockTime(_, _, _, _, _, _)
ComputeBlockTime(m, code, k, evaluate, env, t) ==
  IF m.failed \/ k > Len(code) THEN m
  ELSE IF code[k][1] = "FENDBLOCK" THEN m
  ELSE IF code[k][1] = "FJMP" \/ (code[k][1] = "FJMPIFEVAL" /\ evaluate)
       THEN ComputeBlockTime(m, code, k + code[k][2] + 1, evaluate, env, t)
  ELSE ComputeBlockTime(Step(m, code[k], env, t), code, k + 1, evaluate, env, t)
=============================================================================
