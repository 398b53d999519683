------------------------------ MODULE ExprNode ------------------------------
(***************************************************************************)
(* The virtual functions of ExprNode.cc that read or rebuild a tree:       *)
(* evaluation, the variables of an expression, its largest leads and lags, *)
(* shifts in time, the static version, and the removal of trends.          *)
(***************************************************************************)
EXTENDS DataTree, FiniteSetsExt, SequencesExt

IsVariable(e) == e.op = "Variable"
IsLocal(e)    == IsVariable(e) /\ e.type = "eModelLocalVariable"
ArgSet(e)     == {e.args[i] : i \in DOMAIN e.args}
AddVariable(e, lag) == [e EXCEPT !.lag = lag]

-----------------------------------------------------------------------------
(* Evaluation on a path.  An environment holds, for each symbol, its value *)
(* at each date around today, and the definitions of the auxiliary         *)
(* variables, which are evaluated at the date of the variable.  Steady is  *)
(* the date at which leads and lags do not count.  An equation evaluates   *)
(* to its residual.                                                        *)
Steady == 1000

(* What the external function f computes: a*a*b + 3*b, or a*a + 3 with one *)
(* argument (b is then 1), and its derivatives by the arguments in index.  *)
ExternalPart(e, a, b) ==
  IF e.op = "ExternalFunction" THEN Mul(b, Add(Sqr(a), Num(3)))
  ELSE IF e.op = "FirstDeriv" THEN (IF e.index[1] = 1 THEN Mul(Num(2), Mul(a, b)) ELSE Add(Sqr(a), Num(3)))
  ELSE
  CASE e.index = <<1, 1>>  -> Mul(Num(2), b)
    [] e.index = <<2, 2>>  -> Num(0)
    [] OTHER               -> Mul(Num(2), a)
ExternalValue(e, vs) ==
  IF \E i \in DOMAIN vs : vs[i] = NaN THEN NaN
  ELSE ExternalPart(e, vs[1], IF Len(vs) = 2 THEN vs[2] ELSE One)

RECURSIVE Value(_, _, _)
VariableValue(e, env, t) ==
  IF IsLocal(e) THEN Value(e.def, env, t)
  ELSE IF e.symb \in DOMAIN env.defs
       THEN Value(env.defs[e.symb], env, IF t = Steady THEN t ELSE t + e.lag)
  ELSE env.val[e.symb][IF t = Steady \/ e.type = "eParameter" THEN 0 ELSE t + e.lag]
ValueOf(e, vs) ==
  CASE e.op = "oExpectation"  -> vs[1]
    [] e.op = "oEqual"        -> Sub(vs[1], vs[2])
    [] e.op \in ExternalOps   -> ExternalValue(e, vs)
    [] OTHER                  -> Operation(e, vs)
Value(e, env, t) ==
  IF e.op = "NumConst" THEN (IF e.val < 0 THEN NaN ELSE Num(e.val))
  ELSE IF IsVariable(e) THEN VariableValue(e, env, t)
  ELSE ValueOf(e, [i \in DOMAIN e.args |->
                     Value(e.args[i], env, IF e.op = "oSteadyState" THEN Steady ELSE t)])

-----------------------------------------------------------------------------
(* Queries. *)
RECURSIVE CollectVariables(_, _)
CollectVariables(ty, e) ==       \* the <<symbol, lag>> of a type
  IF IsVariable(e)
  THEN (IF e.type = ty THEN {<<e.symb, e.lag>>} ELSE {})
         \cup (IF IsLocal(e) THEN CollectVariables(ty, e.def) ELSE {})
  ELSE IF e.op = "NumConst" THEN {}
  ELSE UNION {CollectVariables(ty, a) : a \in ArgSet(e)}

CollectEndogenous(e) == CollectVariables("eEndogenous", e)
CollectExogenous(e)  == CollectVariables("eExogenous", e)
CollectModelLocalVariables(e) == {v[1] : v \in CollectVariables("eModelLocalVariable", e)}

RECURSIVE ContainsEndogenous(_)
ContainsEndogenous(e) ==         \* does not look into a model local variable
  IF IsVariable(e) THEN e.type = "eEndogenous"
  ELSE e.op # "NumConst" /\ \E a \in ArgSet(e) : ContainsEndogenous(a)

MaxEndoLead(e) == Max({0} \cup {v[2]  : v \in CollectEndogenous(e)})
MaxEndoLag(e)  == Max({0} \cup {-v[2] : v \in CollectEndogenous(e)})
MaxExoLead(e)  == Max({0} \cup {v[2]  : v \in CollectExogenous(e)})
MaxExoLag(e)   == Max({0} \cup {-v[2] : v \in CollectExogenous(e)})
RECURSIVE MaxLead(_)
MaxLead(e) ==                    \* may be negative, unless a constant is there
  IF IsLocal(e) THEN MaxLead(e.def)
  ELSE IF IsVariable(e) /\ e.type \in {"eEndogenous", "eExogenous"} THEN e.lag
  ELSE IF IsLeaf(e) THEN 0
  ELSE IF e.op \in ExternalOps THEN Max({0} \cup {MaxLead(a) : a \in ArgSet(e)})
  ELSE Max({MaxLead(a) : a \in ArgSet(e)})

-----------------------------------------------------------------------------
(* Rebuilding: the inner nodes apply the function to their arguments and   *)
(* go through buildSimilar; the leaves are what differs.                   *)
Dated == {"eEndogenous", "eExogenous", "eExogenousDet", "eTrend"}

RECURSIVE DecreaseLeadsLags(_, _)
DecreaseLeadsLags(e, n) ==
  IF IsLocal(e) THEN DecreaseLeadsLags(e.def, n)
  ELSE IF IsVariable(e) THEN (IF e.type \in Dated THEN AddVariable(e, e.lag - n) ELSE e)
  ELSE IF IsLeaf(e) THEN e
  ELSE BuildSimilar(e, [i \in DOMAIN e.args |-> DecreaseLeadsLags(e.args[i], n)])

RECURSIVE DecreaseLeadsLagsPredeterminedVariables(_, _)
DecreaseLeadsLagsPredeterminedVariables(e, pre) ==
  IF IsVariable(e) THEN (IF e.symb \in pre THEN DecreaseLeadsLags(e, 1) ELSE e)
  ELSE IF IsLeaf(e) THEN e
  ELSE BuildSimilar(e, [i \in DOMAIN e.args |->
                          DecreaseLeadsLagsPredeterminedVariables(e.args[i], pre)])

RECURSIVE ToStatic(_)
VariableToStatic(e) ==          \* a local variable has its own static version
  IF IsLocal(e) THEN LocalVariable(e.symb, ToStatic(e.def)) ELSE AddVariable(e, 0)
ToStatic(e) ==
  IF IsVariable(e) THEN VariableToStatic(e)
  ELSE IF IsLeaf(e) THEN e
  ELSE BuildSimilar(e, [i \in DOMAIN e.args |-> ToStatic(e.args[i])])

RECURSIVE CloneDynamic(_)
CloneDynamic(e) ==
  IF IsLocal(e) THEN LocalVariable(e.symb, CloneDynamic(e.def))
  ELSE IF IsLeaf(e) THEN e
  ELSE BuildSimilar(e, [i \in DOMAIN e.args |-> CloneDynamic(e.args[i])])

(* detrend: a nonstationary variable becomes the variable times its trend  *)
(* at the same date.                                                       *)
RECURSIVE Detrend(_, _, _)
Detrend(e, s, trend) ==
  IF IsVariable(e)
  THEN IF e.symb # s THEN e
       ELSE Built(Times(e, IF e.lag = 0 THEN trend ELSE DecreaseLeadsLags(trend, -e.lag)))
  ELSE IF IsLeaf(e) THEN e
  ELSE BuildSimilar(e, [i \in DOMAIN e.args |-> Detrend(e.args[i], s, trend)])

(* A trend n dates away is the trend today times, or over, its growth      *)
(* factors in between.                                                     *)
GrowthSequence(growth, first, n) ==   \* growth at first, ... n dates, later first
  FoldLeft(LAMBDA acc, g : Times(acc, g), DecreaseLeadsLags(growth, first),
           [k \in 1..n-1 |-> DecreaseLeadsLags(growth, IF first < 0 THEN -k-1 ELSE k)])
TrendAt(e, growth) ==
  IF e.lag > 0 THEN Times(AddVariable(e, 0), GrowthSequence(growth, -1, e.lag))
  ELSE Over(AddVariable(e, 0), GrowthSequence(growth, 0, -e.lag))
RECURSIVE RemoveTrendLeadLag(_, _)
RemoveTrendLeadLag(e, growthOf) ==
  IF IsVariable(e)
  THEN IF e.type # "eTrend" \/ e.lag = 0 THEN e ELSE Built(TrendAt(e, growthOf[e.symb]))
  ELSE IF IsLeaf(e) THEN e
  ELSE BuildSimilar(e, [i \in DOMAIN e.args |-> RemoveTrendLeadLag(e.args[i], growthOf)])

RECURSIVE ReplaceTrendVar(_)
ReplaceTrendVar(e) ==
  IF IsVariable(e) THEN (IF e.type = "eTrend" THEN OneNode ELSE e)
  ELSE IF IsLeaf(e) THEN e
  ELSE BuildSimilar(e, [i \in DOMAIN e.args |-> ReplaceTrendVar(e.args[i])])
=============================================================================
