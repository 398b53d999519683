--------------------------- MODULE Normalization ---------------------------
(***************************************************************************)
(* normalizeEquation of ExprNode.cc: an equation is rewritten as x = RHS,  *)
(* x being the endogenous variable it is matched with, by undoing from the *)
(* outside the operators that lead to x.                                   *)
(*                                                                         *)
(* A result has the flag (0: x does not occur, 1: it does, 2: given up),   *)
(* the expression without x (Null when there is none), and the list of the *)
(* operations to apply to the other side, last first, each                 *)
(* <<operator, first operand, second operand>>.                            *)
(***************************************************************************)
EXTENDS ExprNode

Null == [op |-> "NULL"]
Norm(flag, e, ops) == [flag |-> flag, e |-> e, ops |-> ops]
GivenUp(ops)       == Norm(2, Null, ops)

InverseOf == [oUminus |-> "oUminus", oExp |-> "oLog",   oLog  |-> "oExp",
              oCos   |-> "oAcos",   oSin  |-> "oAsin",  oTan  |-> "oAtan",
              oAcos  |-> "oCos",    oAsin |-> "oSin",   oAtan |-> "oTan",
              oCosh  |-> "oAcosh",  oSinh |-> "oAsinh", oTanh |-> "oAtanh",
              oAcosh |-> "oCosh",   oAsinh |-> "oSinh", oAtanh |-> "oTanh"]

(* The case handled by Compute_RHS, or the end of the program.             *)
ComputeRHS(op, operands) ==
  IF Len(operands) = 1
  THEN IF op \in {"oUminus", "oExp", "oLog", "oLog10"} THEN Op1(op, operands[1]) ELSE ErrorNode
  ELSE IF op \in {"oPlus", "oMinus", "oTimes", "oDivide", "oPower"}
       THEN Op2(op, operands[1], operands[2]) ELSE ErrorNode
(* The missing operand of a step is the other side.                        *)
ApplyTo_Left(rhs, step) ==
  ComputeRHS(step[1], <<rhs>> \o SelectSeq(Tail(step), LAMBDA a : a # Null))
ApplyTo(rhs, step) ==
  ComputeRHS(step[1], IF step[2] = Null /\ step[3] = Null THEN <<rhs>>
                      ELSE IF step[2] = Null THEN <<step[3], rhs>>
                      ELSE IF step[3] = Null THEN <<rhs, step[2]>> ELSE Tail(step))
Undone(rhs, ops) == FoldRight(LAMBDA step, acc : ApplyTo(acc, step), ops, rhs)

VariableNormalize(e, x, ops) ==
  IF e = x THEN Norm(1, Null, ops)
  ELSE Norm(0, IF e.type = "eParameter" THEN AddVariable(e, 0) ELSE e, ops)

(* The flag of the argument is kept as a boolean: 2 becomes 1.             *)
UnaryStep(op) ==
  CASE op \in DOMAIN InverseOf -> << <<InverseOf[op], Null, Null>> >>
    [] op = "oLog10"           -> << <<"oPower", Null, NumConst(10)>> >>
    [] op = "oSqrt"            -> << <<"oPower", Null, Two>> >>
    [] OTHER                   -> <<>>
UnaryNormalize(e, arg) ==
  CASE arg.flag = 0 /\ e.op \in {"oUminus", "oSteadyState"} \cup Functions1 ->
         Norm(0, BuildSimilarUnary(e, arg.e), arg.ops)
    [] arg.flag # 0 /\ UnaryStep(e.op) # <<>> -> Norm(1, Null, arg.ops \o UnaryStep(e.op))
    [] OTHER -> GivenUp(arg.ops)

(* x = other side, after the operations listed on x's side.                *)
OtherSide(n1, n2) ==
  IF n1.flag = 0 /\ n2.flag = 0 THEN Minus(n2.e, n1.e)
  ELSE IF n1.flag = 1 THEN Undone(n2.e, n1.ops) ELSE Undone(n1.e, n2.ops)
EqualNormalize(x, n1, n2) == Norm(0, Built(Equal(x, OtherSide(n1, n2))), <<>>)
(* Here in: the position of the operand with x, 0 for none.                *)
StepsFor(op, in, other) ==
  CASE op = "oPlus"                -> << <<"oMinus", other, Null>> >>
    [] op = "oMinus" /\ in = 1     -> << <<"oPlus", other, Null>> >>
    [] op = "oMinus" /\ in = 2     -> << <<"oUminus", Null, Null>>, <<"oMinus", other, Null>> >>
    [] op = "oTimes"               -> << <<"oDivide", other, Null>> >>
    [] op = "oDivide" /\ in = 1    -> << <<"oTimes", other, Null>> >>
    [] op = "oDivide" /\ in = 2    -> << <<"oDivide", Null, other>> >>
    [] op = "oPower" /\ in = 1     -> << <<"oPower", Over(OneNode, other), Null>> >>
    [] op = "oPower" /\ in = 2     -> << <<"oLog", Null, Null>>,
                                         <<"oDivide", Null, Op1("oLog", other)>> >>
    [] OTHER                       -> <<>>
Without(op, whole) ==           \* x is in neither operand
  Norm(0, whole, IF op \in {"oPlus", "oMinus"} THEN << <<"oMinus", whole, Null>> >> ELSE <<>>)
BinaryNormalize(e, n1, n2) ==
  CASE n1.flag = 1 -> Norm(1, Null, n1.ops \o StepsFor(e.op, 1, n2.e))
    [] n2.flag = 1 -> Norm(1, Null, n2.ops \o StepsFor(e.op, 2, n1.e))
    [] OTHER       -> Without(e.op, BuildSimilarBinary(e, n1.e, n2.e))

BinaryNormalized(e, x, n1, n2) ==
  IF 2 \in {n1.flag, n2.flag} \/ n1.flag + n2.flag = 2 \/ e.op = "oPowerDeriv" THEN GivenUp(<<>>)
  ELSE IF e.op = "oEqual" THEN EqualNormalize(x, n1, n2) ELSE BinaryNormalize(e, n1, n2)
RECURSIVE NormalizeEquation(_, _, _)
BinaryNormalizeEquation(e, x, ops) ==
  LET ns == [i \in 1..2 |-> NormalizeEquation(e.args[i], x, <<>>)]
  IN [BinaryNormalized(e, x, ns[1], ns[2]) EXCEPT !.ops = ops \o @]
(* Several arguments share one list; flags are kept as booleans.           *)
ArgumentsNormalize(e, x, ops) ==
  FoldLeft(LAMBDA acc, a : LET n == NormalizeEquation(a, x, acc.ops)
                           IN [ns |-> Append(acc.ns, n), ops |-> n.ops],
           [ns |-> <<>>, ops |-> ops], e.args)
TrinaryNormalize(e, x, ops) ==
  LET r == ArgumentsNormalize(e, x, ops)
  IN IF \A i \in 1..3 : r.ns[i].flag = 0
     THEN Norm(0, Op3("oNormcdf", r.ns[1].e, r.ns[2].e, r.ns[3].e), r.ops)
     ELSE Norm(1, Null, r.ops)
ExternalNormalize(e, x, ops) ==
  LET r == ArgumentsNormalize(e, x, ops)
  IN IF \A i \in DOMAIN r.ns : r.ns[i].flag = 0
     THEN Norm(0, External(e.fun, [i \in DOMAIN r.ns |-> r.ns[i].e]), r.ops)
     ELSE Norm(1, Null, r.ops)
NormalizeEquation(e, x, ops) ==
  CASE e.op = "NumConst" -> Norm(0, e, ops)
    [] IsVariable(e)     -> VariableNormalize(e, x, ops)
    [] IsUnary(e)        -> UnaryNormalize(e, NormalizeEquation(e.args[1], x, ops))
    [] IsBinary(e)       -> BinaryNormalizeEquation(e, x, ops)
    [] e.op \in TrinaryOps -> TrinaryNormalize(e, x, ops)
    [] OTHER               -> ExternalNormalize(e, x, ops)

(* equationTypeDetermination, for an equation matched with x at lag 0 whose *)
(* derivative with respect to x is d and that n normalises.                 *)
EquationType(eq, n, x, d, mfs) ==
  LET linear == <<x.symb, 0>> \notin CollectEndogenous(d)
  IN IF d = Zero THEN "E_SOLVE"
     ELSE IF eq.args[1] = x /\ d = OneNode THEN "E_EVALUATE"
     ELSE IF n.e # Null /\ (mfs = 3 \/ (mfs = 2 /\ linear)) THEN "E_EVALUATE_S" ELSE "E_SOLVE"
=============================================================================
