------------------------------ MODULE DataTree ------------------------------
(***************************************************************************)
(* The nodes of an expression tree (ExprNode.hh) and the Add functions of  *)
(* DataTree.cc / DataTree.hh that build them.                              *)
(*                                                                         *)
(* A node is a record.  Nodes are shared: two nodes with the same operator *)
(* and arguments are the same pointer, which is equality of records here,  *)
(* and the maps that implement the sharing have no counterpart.  The field *)
(* "op" is the opcode of the source, "args" the arguments.  A variable     *)
(* carries the type of its symbol; a model local variable carries its      *)
(* expression, which local_variables_table never changes once set.         *)
(***************************************************************************)
EXTENDS Numbers, FiniteSets

-----------------------------------------------------------------------------
(* The three eval_opcode functions.  The inverse functions are known by    *)
(* their slope and one value.                                              *)
Trigonometric == {"oSin", "oCos", "oTan", "oSinh", "oCosh", "oTanh"}
TrigPart(op, sc) ==
  CASE op \in {"oSin", "oSinh"} -> sc[1]
    [] op \in {"oCos", "oCosh"} -> sc[2]
    [] OTHER -> Div(sc[1], sc[2])
Inverses == {"oAcos", "oAsin", "oAtan", "oAcosh", "oAsinh", "oAtanh"}
Inner(op, v2) ==                \* v2: the square of the argument
  CASE op \in {"oAcos", "oAsin", "oAtanh"} -> Sub(One, v2)
    [] op \in {"oAtan", "oAsinh"} -> Add(One, v2)
    [] op = "oAcosh" -> Sub(v2, One)
Slope(op, q) == Recip(IF op \in {"oAtan", "oAtanh"} THEN q ELSE Root(q))
KnownPoint(op) == IF op = "oAcosh" THEN <<CoshPoint, CoshArg>>
                  ELSE IF op = "oAcos" THEN <<0, HalfPi>> ELSE <<0, 0>>
InverseEval(op, v) ==
  At(v, KnownPoint(op)[1],
     Mul(IF op = "oAcos" THEN Neg(One) ELSE One, Slope(op, Inner(op, Sqr(v)))), KnownPoint(op)[2])
SignOf(v) == IF v = NaN THEN NaN
             ELSE IF Positive(v) THEN One ELSE IF Positive(Neg(v)) THEN Neg(One) ELSE Num(0)
UnaryEval(op, v) ==
  CASE op = "oUminus" -> Neg(v)        [] op = "oExp"   -> Exp(v)
    [] op = "oLog"    -> Log(v)        [] op = "oLog10" -> Mul(Num(Log10E), Log(v))
    [] op = "oSqrt"   -> Root(v)       [] op = "oSteadyState" -> v
    [] op \in Trigonometric ->
         TrigPart(op, Trig(v, IF op \in {"oSin", "oCos", "oTan"} THEN -1 ELSE 1))
    [] op \in Inverses -> InverseEval(op, v)
    [] op = "oErf"    -> Erf(v)
    [] op = "oAbs"    -> IF v # NaN /\ Positive(Neg(v)) THEN Neg(v) ELSE v
    [] op = "oSign"   -> SignOf(v)

RECURSIVE FallingFactors(_, _, _)
FallingFactors(d, v, n) ==      \* d * v * (v-1) * ... n factors
  IF n = 0 THEN d ELSE FallingFactors(Mul(d, v), Sub(v, One), n - 1)

PowerDerivEval(x, p, order) ==
  IF NaN \in {x, p} THEN NaN
  ELSE IF x = Num(0) /\ Const(p) /\ Lift(p[1]) \in 1..order-1 THEN Num(0)
  ELSE FallingFactors(Pow(x, Sub(p, Num(order))), p, order)

BinaryEval(op, v, w, order) ==
  CASE op = "oPlus"  -> Add(v, w)      [] op = "oMinus"  -> Sub(v, w)
    [] op = "oTimes" -> Mul(v, w)      [] op = "oDivide" -> Div(v, w)
    [] op = "oPower" -> Pow(v, w)
    [] op = "oPowerDeriv" -> PowerDerivEval(v, w, order)
    [] OTHER ->
       IF NaN \in {v, w} THEN NaN
       ELSE CASE op = "oMax" -> IF Less(v, w) THEN w ELSE v
              [] op = "oMin" -> IF Less(w, v) THEN w ELSE v
              [] op = "oLess" -> Bool(Less(v, w))
              [] op = "oGreater" -> Bool(Less(w, v))
              [] op = "oLessEqual" -> Bool(~Less(w, v))
              [] op = "oGreaterEqual" -> Bool(~Less(v, w))
              [] op = "oEqualEqual" -> Bool(v = w)
              [] op = "oDifferent" -> Bool(v # w)

NormalEval(op, y, sigma) ==      \* y: the standardised argument
  IF op = "oNormcdf"
  THEN Mul(Num(InvF[2]), Add(One, Erf(Mul(y, Num(InvF[RootF[2]])))))
  ELSE Recip(Mul(Mul(sigma, Num(RootF[2*Pi])), Exp(Mul(Num(InvF[2]), Sqr(y)))))
TrinaryEval(op, v, mu, sigma) == NormalEval(op, Div(Sub(v, mu), sigma), sigma)

-----------------------------------------------------------------------------
(* Nodes. *)
NumConst(c)     == [op |-> "NumConst", val |-> c]
NaNNode         == NumConst(-1)
Variable(s, ty, lag) == [op |-> "Variable", symb |-> s, type |-> ty, lag |-> lag]
LocalVariable(s, e)  == [op |-> "Variable", symb |-> s, type |-> "eModelLocalVariable",
                         lag |-> 0, def |-> e]
Node(op, args)  == [op |-> op, args |-> args]

Zero == NumConst(0)   OneNode == NumConst(1)   Two == NumConst(2)
PiNode == NumConst(Pi)
MinusOne == Node("oUminus", <<OneNode>>)

Functions1 == {"oExp", "oLog", "oLog10", "oCos", "oSin", "oTan", "oAcos", "oAsin",
               "oAtan", "oCosh", "oSinh", "oTanh", "oAcosh", "oAsinh", "oAtanh",
               "oSqrt", "oAbs", "oSign", "oErf"}
UnaryOps   == Functions1 \cup {"oUminus", "oSteadyState", "oSteadyStateParamDeriv",
               "oSteadyStateParam2ndDeriv", "oExpectation"}
Comparisons == {"oLess", "oGreater", "oLessEqual", "oGreaterEqual", "oEqualEqual",
                "oDifferent"}
BinaryOps  == Comparisons \cup {"oPlus", "oMinus", "oTimes", "oDivide", "oPower",
                "oPowerDeriv", "oMax", "oMin", "oEqual"}
TrinaryOps == {"oNormcdf", "oNormpdf"}
ExternalOps == {"ExternalFunction", "FirstDeriv", "SecondDeriv"}
IsUnary(e) == e.op \in UnaryOps
IsBinary(e) == e.op \in BinaryOps

(* The nodes that are indexed by more than an opcode and arguments. *)
OrderOf(e)  == IF e.op = "oPowerDeriv" THEN e.order ELSE 0

(* eval with an empty context: NoValue is the EvalException. *)
NoValue == <<-1>>        \* an EvalException
Operation(e, vs) ==      \* the value of a node from those of its arguments
  CASE IsUnary(e)  -> UnaryEval(e.op, vs[1])
    [] IsBinary(e) -> BinaryEval(e.op, vs[1], vs[2], OrderOf(e))
    [] OTHER -> TrinaryEval(e.op, vs[1], vs[2], vs[3])
RECURSIVE ConstantValue(_)
ConstantOperation(e, vs) ==
  IF \E i \in DOMAIN vs : vs[i] = NoValue THEN NoValue ELSE Operation(e, vs)
ConstantValue(e) ==
  CASE e.op = "NumConst" -> IF e.val < 0 THEN NaN ELSE Num(e.val)
    [] e.op \in {"Variable", "oEqual", "oSteadyStateParamDeriv",
                 "oSteadyStateParam2ndDeriv", "oExpectation"} \cup ExternalOps -> NoValue
    [] OTHER -> ConstantOperation(e, [i \in DOMAIN e.args |-> ConstantValue(e.args[i])])

AddPossiblyNegativeConstant(v) ==
  IF v = NaN THEN NaNNode
  ELSE IF Lift(v[1]) < 0 THEN Node("oUminus", <<NumConst(-Lift(v[1]))>>)
  ELSE NumConst(v[1])

-----------------------------------------------------------------------------
(* The Add functions.  Their result is a node that exists, or one to be    *)
(* entered: New.                                                           *)
New(n) == [new |-> n]

(* The operands of + and * are sorted by the index of their creation: one  *)
(* fixed order of the two, whichever way round they are given.             *)
Sorted(a, b) == CHOOSE s \in {<<a, b>>, <<b, a>>} : TRUE

AddUMinus(a) ==
  IF a = Zero THEN Zero
  ELSE IF a.op = "oUminus" THEN a.args[1] ELSE New(Node("oUminus", <<a>>))
AddMinus_KeepsSign(a, b) ==
  IF b = Zero THEN a ELSE IF a = Zero THEN b
  ELSE IF a = b THEN Zero ELSE New(Node("oMinus", <<a, b>>))
AddMinus(a, b) ==
  IF b = Zero THEN a ELSE IF a = Zero THEN AddUMinus(b)
  ELSE IF a = b THEN Zero ELSE New(Node("oMinus", <<a, b>>))
AddPlus(a, b) ==
  IF Zero \in {a, b} THEN (IF a = Zero THEN b ELSE a)
  ELSE IF b.op = "oUminus" THEN AddMinus(a, b.args[1])
  ELSE New(Node("oPlus", Sorted(a, b)))
AddTimes(a, b) ==
  IF a = MinusOne THEN AddUMinus(b) ELSE IF b = MinusOne THEN AddUMinus(a)
  ELSE IF Zero \in {a, b} THEN Zero
  ELSE IF a = OneNode THEN b ELSE IF b = OneNode THEN a
  ELSE New(Node("oTimes", Sorted(a, b)))
(* A division by the constant zero, a logarithm of it end the program.     *)
ErrorNode == NumConst(-2)
AddDivide(a, b) ==
  IF b = OneNode THEN a
  ELSE IF b = Zero THEN ErrorNode
  ELSE IF a = Zero THEN Zero
  ELSE IF a = b THEN OneNode ELSE New(Node("oDivide", <<a, b>>))
AddPower(a, b) ==
  IF {a, b} \cap {Zero, OneNode} = {} THEN New(Node("oPower", <<a, b>>))
  ELSE IF a = OneNode THEN OneNode ELSE IF b = OneNode THEN a
  ELSE IF b = Zero THEN OneNode ELSE Zero
AddExpLog(op, a) ==
  IF op = "oExp" THEN (IF a = Zero THEN OneNode ELSE New(Node(op, <<a>>)))
  ELSE IF a = Zero THEN ErrorNode
  ELSE IF a = OneNode THEN Zero ELSE New(Node(op, <<a>>))
OneAtZero  == {"oCos", "oCosh"}
ZeroAtOne  == {"oAcos", "oAcosh"}
OddAtZero  == {"oSin", "oTan", "oAsin", "oAtan", "oSinh", "oTanh", "oAsinh", "oAtanh",
               "oSqrt", "oErf", "oAbs", "oSign"}
AddFunction(op, a) ==
  IF op \in {"oExp", "oLog", "oLog10"} THEN AddExpLog(op, a)
  ELSE IF op \in OneAtZero /\ a = Zero THEN OneNode
  ELSE IF op \in OddAtZero /\ a = Zero THEN Zero
  ELSE IF op \in ZeroAtOne /\ a = OneNode THEN Zero
  ELSE IF op \in {"oAbs", "oSign"} /\ a = OneNode THEN OneNode
  ELSE New(Node(op, <<a>>))
(* The others (AddMax, AddLess, AddEqual, AddNormcdf, AddSteadyState,      *)
(* AddExpectation, AddPowerDeriv, AddExternalFunction ...) simplify nothing. *)
AddOther(n) == New(n)

Added(n) ==
  CASE n.op = "oUminus" -> AddUMinus(n.args[1])
    [] n.op = "oPlus"   -> AddPlus(n.args[1], n.args[2])
    [] n.op = "oMinus"  -> AddMinus(n.args[1], n.args[2])
    [] n.op = "oTimes"  -> AddTimes(n.args[1], n.args[2])
    [] n.op = "oDivide" -> AddDivide(n.args[1], n.args[2])
    [] n.op = "oPower"  -> AddPower(n.args[1], n.args[2])
    [] n.op \in Functions1 -> AddFunction(n.op, n.args[1])
    [] OTHER -> AddOther(n)

(* AddUnaryOp, AddBinaryOp, AddTrinaryOp: an attempt to compute the value, *)
(* then the node.  Constants stay below an unary minus.                    *)
Folded(n, v) == IF v = NoValue THEN n ELSE AddPossiblyNegativeConstant(v)
AddUnaryOp(n) ==
  IF n.op = "oUminus" /\ n.args[1].op = "NumConst" THEN n ELSE Folded(n, ConstantValue(n))
Entered(r) == IF "new" \in DOMAIN r THEN AddUnaryOp(r.new) ELSE r

(* An expression to be built, from the inside out, by the Add functions:   *)
(* what the source writes as nested calls.                                 *)
Make(n) == [make |-> n]
RECURSIVE Built(_)
Built(t) ==
  IF "make" \notin DOMAIN t THEN t
  ELSE Entered(Added([t.make EXCEPT !.args = [i \in DOMAIN @ |-> Built(@[i])]]))

Op1(op, a)         == Make(Node(op, <<a>>))
Op2(op, a, b)      == Make(Node(op, <<a, b>>))
Op3(op, a, b, c)   == Make(Node(op, <<a, b, c>>))
UMinus(a)          == Op1("oUminus", a)
Plus(a, b)         == Op2("oPlus", a, b)
Minus(a, b)        == Op2("oMinus", a, b)
Times(a, b)        == Op2("oTimes", a, b)
Over(a, b)         == Op2("oDivide", a, b)
Power(a, b)        == Op2("oPower", a, b)
PowerDeriv(a, b, k) == Make([op |-> "oPowerDeriv", args |-> <<a, b>>, order |-> k])
Equal(a, b)        == Op2("oEqual", a, b)
SteadyState(a)     == Op1("oSteadyState", a)
SteadyStateParamDeriv(a, p) ==
  Make([op |-> "oSteadyStateParamDeriv", args |-> <<a>>, by |-> <<p>>])
SteadyStateParam2ndDeriv(a, p, q) ==
  Make([op |-> "oSteadyStateParam2ndDeriv", args |-> <<a>>, by |-> <<p, q>>])
Expectation(k, a)  == Make([op |-> "oExpectation", args |-> <<a>>, info |-> k])
External(f, args)  == Make([op |-> "ExternalFunction", fun |-> f, args |-> args])
FirstDerivExternal(f, args, i) ==
  Make([op |-> "FirstDeriv", fun |-> f, args |-> args, index |-> <<i>>])
SecondDerivExternal(f, args, i, j) ==
  Make([op |-> "SecondDeriv", fun |-> f, args |-> args, index |-> <<i, j>>])

-----------------------------------------------------------------------------
(* buildSimilar...OpNode: the node of the same kind with other arguments,  *)
(* built by the Add function of its operator.  A derivative of an external *)
(* function is built as the function itself.                               *)
BuildSimilarUnary(e, a) ==
  IF e.op \in {"oSteadyStateParamDeriv", "oSteadyStateParam2ndDeriv"} THEN ErrorNode
  ELSE Make([e EXCEPT !.args = <<a>>])
BuildSimilarBinary(e, a, b)     == Make([e EXCEPT !.args = <<a, b>>])
BuildSimilarTrinary(e, a, b, c) == Make([e EXCEPT !.args = <<a, b, c>>])
BuildSimilarExternal(e, args)   == External(e.fun, args)
Similar(e, args) ==
  CASE IsUnary(e)  -> BuildSimilarUnary(e, args[1])
    [] IsBinary(e) -> BuildSimilarBinary(e, args[1], args[2])
    [] e.op \in TrinaryOps -> BuildSimilarTrinary(e, args[1], args[2], args[3])
    [] e.op \in ExternalOps -> BuildSimilarExternal(e, args)
BuildSimilar(e, args) == Built(Similar(e, args))
Equation(l, r) == Node("oEqual", <<l, r>>)     \* AddEqual simplifies nothing
IsLeaf(e) == e.op \in {"NumConst", "Variable"}
=============================================================================
