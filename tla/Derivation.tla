----------------------------- MODULE Derivation -----------------------------
(***************************************************************************)
(* Symbolic derivatives of a tree (getDerivative, composeDerivatives and   *)
(* getChainRuleDerivative of ExprNode.cc).  A derivation ID is the         *)
(* variable node it stands for, and datatree the model of the node: its    *)
(* parameters, and whether it is the dynamic one.  A node keeps its        *)
(* derivatives in a table, `derivatives`, which both kinds of derivative   *)
(* read and fill, the chain rule after all the others: table holds the     *)
(* tables of all nodes, by <<node, variable>>.                             *)
(***************************************************************************)
EXTENDS ExprNode

DynamicTree(params) == [params |-> params, dynamic |-> TRUE]
StaticTree(params)  == [params |-> params, dynamic |-> FALSE]

RECURSIVE NonNullDerivatives(_, _)
NonNullDerivatives(e, datatree) ==
  IF e.op = "NumConst" THEN {}
  ELSE IF IsLocal(e) THEN NonNullDerivatives(e.def, datatree)
  ELSE IF IsVariable(e) THEN {e}
  ELSE UNION {NonNullDerivatives(a, datatree) : a \in ArgSet(e)}
                  \cup (IF e.op \in {"oSteadyState", "oSteadyStateParamDeriv",
                                     "oSteadyStateParam2ndDeriv"} THEN datatree.params ELSE {})

(* STEADY_STATE(y) depends on the parameters only, but in a static model   *)
(* it is y.                                                                *)
SteadyStateDerivative(e, d, v, datatree) ==
  IF ~datatree.dynamic /\ e.op = "oSteadyState" THEN d
  ELSE IF v.type # "eParameter" THEN Zero
  ELSE CASE e.op = "oSteadyState" ->
              IF e.args[1].op # "Variable" THEN ErrorNode
              ELSE IF e.args[1].type = "eEndogenous"
                   THEN SteadyStateParamDeriv(e.args[1], v.symb) ELSE Zero
         [] e.op = "oSteadyStateParamDeriv" ->
              SteadyStateParam2ndDeriv(e.args[1], e.by[1], v.symb)
         [] OTHER -> ErrorNode

(* composeDerivatives, as the expressions to be built.                     *)
UnaryCompose(e, a, d, v, datatree) ==
  CASE e.op = "oUminus" -> UMinus(d)
    [] e.op = "oExp"    -> Times(d, e)
    [] e.op = "oLog"    -> Over(d, a)
    [] e.op = "oLog10"  -> Times(Op1("oLog10", Op1("oExp", OneNode)), Over(d, a))
    [] e.op = "oCos"    -> Times(d, UMinus(Op1("oSin", a)))
    [] e.op = "oSin"    -> Times(d, Op1("oCos", a))
    [] e.op = "oTan"    -> Times(d, Plus(Times(e, e), OneNode))
    [] e.op = "oAcos"   -> UMinus(Over(d, Op1("oSin", e)))
    [] e.op = "oAsin"   -> Over(d, Op1("oCos", e))
    [] e.op = "oAtan"   -> Over(d, Plus(OneNode, Times(a, a)))
    [] e.op = "oCosh"   -> Times(d, Op1("oSinh", a))
    [] e.op = "oSinh"   -> Times(d, Op1("oCosh", a))
    [] e.op = "oTanh"   -> Times(d, Minus(OneNode, Times(e, e)))
    [] e.op = "oAcosh"  -> Over(d, Op1("oSinh", e))
    [] e.op = "oAsinh"  -> Over(d, Op1("oCosh", e))
    [] e.op = "oAtanh"  -> Times(d, Minus(OneNode, Times(a, a)))
    [] e.op = "oSqrt"   -> Over(d, Plus(e, e))
    [] e.op = "oAbs"    -> Times(Op1("oSign", a), d)
    [] e.op = "oSign"   -> Zero
    [] e.op = "oErf"    -> Times(Over(Two, Times(Op1("oSqrt", PiNode),
                                                 Op1("oExp", Power(a, Two)))), d)
    [] e.op = "oExpectation" -> ErrorNode
    [] OTHER -> SteadyStateDerivative(e, d, v, datatree)

(* (k-th derivative of x^p) = p (p-1) ... (p-k+1) x^(p-k)                  *)
UpTo(k) == [i \in 1..k |-> i - 1]
Falling(from, p, ks) == FoldLeft(LAMBDA acc, k : Times(acc, Minus(p, NumConst(k))), from, ks)
PowerSlope(x, p, d1, d2) == Plus(Times(d2, Op1("oLog", x)), Over(Times(d1, p), x))
FallingSlope(p, k) ==
  FoldLeft(LAMBDA acc, i : Plus(acc, Falling(OneNode, p, SelectSeq(UpTo(k), LAMBDA j : j # i))),
           Zero, UpTo(k))
PowerDerivCompose(x, p, k, d1, d2) ==
  IF d2 = Zero THEN Times(d1, PowerDeriv(x, p, k + 1))
  ELSE LET low   == Minus(p, NumConst(k))
           power == Power(x, low)
       IN Plus(Falling(Times(power, PowerSlope(x, low, d1, d2)), p, UpTo(k)),
               Times(power, Times(d2, FallingSlope(p, k))))
PowerCompose(e, x, p, d1, d2) ==
  IF d2 # Zero THEN Times(PowerSlope(x, p, d1, d2), e)
  ELSE IF d1 = Zero THEN Zero
  ELSE IF p.op = "NumConst" THEN Times(d1, Times(p, Power(x, Minus(p, OneNode))))
  ELSE Times(d1, PowerDeriv(x, p, 1))

MaxMinCompose_Swapped(larger, d1, d2) ==
  Plus(Times(larger, d2), Times(Minus(OneNode, larger), d1))
MaxMinCompose(larger, d1, d2) ==      \* larger: 1 when the first counts
  Plus(Times(Minus(OneNode, larger), d2), Times(larger, d1))
BinaryCompose(e, a, b, d1, d2) ==
  CASE e.op = "oPlus"   -> Plus(d1, d2)
    [] e.op \in {"oMinus", "oEqual"} -> Minus(d1, d2)
    [] e.op = "oTimes"  -> Plus(Times(d1, b), Times(d2, a))
    [] e.op = "oDivide" -> IF d2 = Zero THEN Over(d1, b)
                           ELSE Over(Minus(Times(d1, b), Times(d2, a)), Times(b, b))
    [] e.op = "oPower"      -> PowerCompose(e, a, b, d1, d2)
    [] e.op = "oPowerDeriv" -> PowerDerivCompose(a, b, e.order, d1, d2)
    [] e.op \in {"oMax", "oMin"} ->
         MaxMinCompose(IF e.op = "oMax" THEN Op2("oGreater", a, b) ELSE Op2("oGreater", b, a), d1, d2)
    [] e.op \in Comparisons -> Zero

NormalDensity(y) == Over(Op1("oExp", Over(UMinus(Times(y, y)), Two)),
                         Op1("oSqrt", Times(Two, PiNode)))
TrinaryCompose(e, y, s, d) ==    \* y: (first argument - mu) / s
  IF e.op = "oNormcdf"
  THEN Times(Minus(Minus(Over(d[1], s), Over(d[2], s)), Times(Over(y, s), d[3])), NormalDensity(y))
  ELSE Times(Over(e, s), Minus(Times(y, Plus(Minus(d[2], d[1]), Times(d[3], y))), d[3]))

ExternalCompose(e, ds) ==       \* the chain rule, argument by argument
  FoldLeft(LAMBDA acc, i :
             Plus(acc, Times(ds[i], IF e.op = "ExternalFunction"
                                    THEN FirstDerivExternal(e.fun, e.args, i)
                                    ELSE SecondDerivExternal(e.fun, e.args, e.index[1], i))),
           Zero, [i \in DOMAIN ds |-> i])

Compose(e, ds, v, datatree) ==
  Built(CASE IsUnary(e)  -> UnaryCompose(e, e.args[1], ds[1], v, datatree)
          [] IsBinary(e) -> BinaryCompose(e, e.args[1], e.args[2], ds[1], ds[2])
          [] e.op \in TrinaryOps ->
               TrinaryCompose(e, Over(Minus(e.args[1], e.args[2]), e.args[3]), e.args[3], ds)
          [] e.op = "SecondDeriv" -> ErrorNode
          [] OTHER -> ExternalCompose(e, ds))

-----------------------------------------------------------------------------
(* getDerivative: what is looked up is what would be computed again.       *)
RECURSIVE Derivative(_, _, _)
VariableDerivative(e, v, datatree) == IF IsLocal(e) THEN Derivative(e.def, v, datatree) ELSE OneNode
Derivative(e, v, datatree) ==
  IF v \notin NonNullDerivatives(e, datatree) THEN Zero
  ELSE IF IsVariable(e) THEN VariableDerivative(e, v, datatree)
  ELSE Compose(e, [i \in DOMAIN e.args |-> Derivative(e.args[i], v, datatree)], v, datatree)

(* The tables that computeJacobian leaves: a derivative that is not zero   *)
(* beforehand, of every node.                                              *)
RECURSIVE Nodes(_)
Nodes(e) == {e} \cup (IF IsLocal(e) THEN Nodes(e.def) ELSE IF IsLeaf(e) THEN {}
                      ELSE UNION {Nodes(a) : a \in ArgSet(e)})
JacobianTables(eqs, vs, datatree) ==
  [k \in {<<n, v>> \in (UNION {Nodes(eqs[i]) : i \in DOMAIN eqs}) \X vs :
            v \in NonNullDerivatives(n, datatree)} |-> Derivative(k[1], k[2], datatree)]

(* The same through recursive variables: in a block, a variable that is    *)
(* evaluated by its normalized equation x = f is derived as f, and f by    *)
(* the recursive variables that are left.  What is stored does not say by  *)
(* which.  Each call gives the derivative and the tables it leaves.        *)
DerivedTo(d, table) == [d |-> d, table |-> table]
StoredAs(e, v, r)   == DerivedTo(r.d, r.table @@ (<<e, v>> :> r.d))
ArgumentsInTurn(Of(_, _), args, table) ==    \* one after the other
  FoldLeft(LAMBDA acc, a : LET r == Of(a, acc.table)
                           IN [ds |-> Append(acc.ds, r.d), table |-> r.table],
           [ds |-> <<>>, table |-> table], args)
RECURSIVE ChainRuleDerivative(_, _, _, _, _)
NewChainRule(e, v, recursive, datatree, table) ==
  LET others == [x \in DOMAIN recursive \ {e} |-> recursive[x]]
      r      == ChainRuleDerivative(recursive[e], v, others, datatree, table)
  IN StoredAs(e, v, DerivedTo(Built(UMinus(r.d)), r.table))
VariableChainRule_AnyVariable(e, v, recursive, datatree, table) ==
  IF e = v THEN DerivedTo(OneNode, table)
  ELSE IF e \notin DOMAIN recursive THEN DerivedTo(Zero, table)
  ELSE IF \E k \in DOMAIN table : k[1] = e
       THEN DerivedTo(table[CHOOSE k \in DOMAIN table : k[1] = e], table)
  ELSE NewChainRule(e, v, recursive, datatree, table)
VariableChainRule(e, v, recursive, datatree, table) ==
  IF e = v THEN DerivedTo(OneNode, table)
  ELSE IF e \notin DOMAIN recursive THEN DerivedTo(Zero, table)
  ELSE IF <<e, v>> \in DOMAIN table THEN DerivedTo(table[<<e, v>>], table)
  ELSE NewChainRule(e, v, recursive, datatree, table)
ChainRuleDerivative(e, v, recursive, datatree, table) ==
  IF e.op = "NumConst" THEN DerivedTo(Zero, table)
  ELSE IF IsLocal(e) THEN ChainRuleDerivative(e.def, v, recursive, datatree, table)
  ELSE IF IsVariable(e) THEN VariableChainRule(e, v, recursive, datatree, table)
  ELSE LET r == ArgumentsInTurn(LAMBDA a, t : ChainRuleDerivative(a, v, recursive, datatree, t),
                                e.args, table)
       IN DerivedTo(Compose(e, r.ds, v, datatree), r.table)

(* computeChainRuleJacobian: the equations of a block by its variables,    *)
(* from the first lag to the last lead, in the tables that computeJacobian *)
(* left; <<variable, equation, derivative>> in that order.                 *)
ChainRuleJacobian(eqs, vs, recursive, datatree, table) ==
  FoldLeft(LAMBDA a1, v :
             FoldLeft(LAMBDA a2, eq :
                        LET r == ChainRuleDerivative(eq, v, recursive, datatree, a2.table)
                        IN [ds |-> Append(a2.ds, <<v, eq, r.d>>), table |-> r.table], a1, eqs),
           [ds |-> <<>>, table |-> table], vs)
=============================================================================
