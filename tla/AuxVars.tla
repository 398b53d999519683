------------------------------ MODULE AuxVars ------------------------------
(***************************************************************************)
(* The substitutions of ExprNode.cc that introduce auxiliary variables:    *)
(* endogenous leads and lags of two and more, leads and lags of exogenous  *)
(* variables, the expectation operator, and logarithms and powers.         *)
(*                                                                         *)
(* They thread a context through the tree: the type of the symbols to be   *)
(* added, whether the model is deterministic, the substitution table (a    *)
(* list of <<expression, variable>>), the equations added so far, a second *)
(* list of definitions for substituteLogPow, and the next free symbol.     *)
(* The symbols they add to the symbol table are endogenous.                *)
(***************************************************************************)
EXTENDS ExprNode

Context(type, det, next) ==
  [type |-> type, det |-> det, tab |-> <<>>, eqs |-> <<>>, defs |-> <<>>, next |-> next]
Result(e, ctx) == [e |-> e, ctx |-> ctx]

InTable(ctx, e) == \E i \in DOMAIN ctx.tab : ctx.tab[i][1] = e
InTableAs(ctx, e) == ctx.tab[CHOOSE i \in DOMAIN ctx.tab : ctx.tab[i][1] = e][2]

AuxName(n)  == "AUX_" \o ToString(n)
Aux(n, lag) == Variable(AuxName(n), "eEndogenous", lag)

(* A new symbol defined by an equation, and its entry in the table.        *)
NewAux(ctx, key, var, eq) ==
  [ctx EXCEPT !.tab = Append(@, <<key, var>>), !.eqs = Append(@, eq), !.next = @ + 1]

RECURSIVE Substitute(_, _)
(* The operands in I are substituted from left to right, and the node is   *)
(* built again.                                                            *)
Rebuilt(e, args) == Result(BuildSimilar(e, args.e), args.ctx)
SubstituteOperands(e, I, ctx) ==
  FoldLeft(LAMBDA acc, i : LET r == IF i \in I THEN Substitute(e.args[i], acc.ctx)
                                    ELSE Result(e.args[i], acc.ctx)
                           IN Result(Append(acc.e, r.e), r.ctx),
           Result(<<>>, ctx), [i \in DOMAIN e.args |-> i])
SubstituteIn(e, I, ctx) ==
  IF I = {} THEN Result(e, ctx) ELSE Rebuilt(e, SubstituteOperands(e, I, ctx))

-----------------------------------------------------------------------------
(* Each round makes an aux such that aux(+1) is the expression lag periods *)
(* earlier, or aux(-1) the variable at that lag.                           *)
RECURSIVE AuxChain(_, _, _, _)
AuxChain(origs, step, ctx, substexpr) ==
  IF origs = <<>> THEN Result(substexpr, ctx)
  ELSE IF InTable(ctx, Head(origs))
       THEN AuxChain(Tail(origs), step, ctx, InTableAs(ctx, Head(origs)))
  ELSE AuxChain(Tail(origs), step,
                NewAux(ctx, Head(origs), Aux(ctx.next, step), Equation(Aux(ctx.next, 0), substexpr)),
                Aux(ctx.next, step))

(* createEndoLead/ExoLeadAuxiliaryVarForMyself.                            *)
Earlier(e, lag) == [i \in 1..lag+1 |-> DecreaseLeadsLags(e, lag + 1 - i)]
CreateEndoLeadAux(e, ctx) ==
  AuxChain(Earlier(e, MaxEndoLead(e) - 2), 1, ctx, DecreaseLeadsLags(e, MaxEndoLead(e) - 1))
CreateExoLeadAux_Later(e, ctx) ==
  AuxChain(Earlier(e, MaxExoLead(e) - 1), 1, ctx, DecreaseLeadsLags(e, MaxExoLead(e) - 1))
CreateExoLeadAux(e, ctx) ==
  AuxChain(Earlier(e, MaxExoLead(e) - 1), 1, ctx, DecreaseLeadsLags(e, MaxExoLead(e)))

(* A product or a quotient distributes over the leads of one factor only   *)
(* when the other has no lead at all.                                      *)
NoLead(e) == MaxEndoLead(e) = 0 /\ MaxExoLead(e) = 0
Additive_Products == {"oPlus", "oMinus", "oEqual", "oTimes"}
Additive == {"oPlus", "oMinus", "oEqual"}
Distributes(e, led, det) ==      \* led: the operands with a lead to be reduced
  \/ det \/ e.op \in Additive
  \/ e.op \in {"oTimes", "oDivide"} /\ 1 \in led /\ NoLead(e.args[2])
  \/ e.op = "oTimes" /\ 2 \in led /\ NoLead(e.args[1])

(* The operands to substitute in.  A node with a lead to be reduced and no *)
(* such operand gets an auxiliary variable of its own.                     *)
UnaryLead(e, led, det)   == IF e.op = "oUminus" \/ det THEN {1} ELSE {}
BinaryEndoLead(e, led, det) == IF Distributes(e, led, det) THEN led ELSE {}
BinaryExoLead(e, led, det)  == IF Distributes(e, led, det) THEN led ELSE {}
TrinaryEndoLead(e, led, det) == IF led # {} /\ det THEN DOMAIN e.args ELSE {}
TrinaryExoLead(e, led, det)  == IF led # {} /\ det THEN DOMAIN e.args ELSE {}
ExternalEndoLead(e) == DOMAIN e.args
ExternalExoLead(e)  == DOMAIN e.args
EndoLed(e) == {i \in DOMAIN e.args : MaxEndoLead(e.args[i]) >= 2}
EndoLeadOperands(e, led, det) ==
  CASE IsUnary(e)  -> UnaryLead(e, led, det)
    [] IsBinary(e) -> BinaryEndoLead(e, led, det)
    [] e.op \in TrinaryOps -> TrinaryEndoLead(e, led, det)
    [] OTHER -> ExternalEndoLead(e)
ExoLed(e) == {i \in DOMAIN e.args : MaxExoLead(e.args[i]) >= 1}
ExoLeadOperands(e, led, det) ==
  CASE IsUnary(e)  -> UnaryLead(e, led, det)
    [] IsBinary(e) -> BinaryExoLead(e, led, det)
    [] e.op \in TrinaryOps -> TrinaryExoLead(e, led, det)
    [] OTHER -> ExternalExoLead(e)

VariableEndoLead(e, ctx) ==
  IF ~IsLocal(e) THEN Result(e, ctx)
  ELSE IF MaxEndoLead(e.def) <= 1 THEN Result(e, ctx) ELSE Substitute(e.def, ctx)
SubstituteEndoLead(e, I, ctx) ==
  IF I = {} /\ ~IsLocal(e) /\ MaxEndoLead(e) >= 2 THEN CreateEndoLeadAux(e, ctx)
  ELSE IF IsVariable(e) THEN VariableEndoLead(e, ctx) ELSE SubstituteIn(e, I, ctx)
VariableExoLead(e, ctx) ==
  IF ~IsLocal(e) THEN Result(e, ctx)
  ELSE IF MaxExoLead(e.def) = 0 THEN Result(e, ctx) ELSE Substitute(e.def, ctx)
SubstituteExoLead(e, I, ctx) ==
  IF I = {} /\ ~IsLocal(e) /\ MaxExoLead(e) >= 1 THEN CreateExoLeadAux(e, ctx)
  ELSE IF IsVariable(e) THEN VariableExoLead(e, ctx) ELSE SubstituteIn(e, I, ctx)

-----------------------------------------------------------------------------
(* Lags: a variable that lags too much is reached from its latest date     *)
(* that need not be reduced.                                               *)
LagAux(v, from, ctx) ==
  AuxChain([i \in 1..from-v.lag |-> AddVariable(v, from - i)], -1, ctx, AddVariable(v, from))
VariableEndoLag(e, ctx) ==
  CASE IsLocal(e) -> IF MaxEndoLag(e.def) <= 1 THEN Result(e, ctx) ELSE Substitute(e.def, ctx)
    [] e.type = "eEndogenous" /\ e.lag < -1 -> LagAux(e, -1, ctx)
    [] OTHER -> Result(e, ctx)
SubstituteEndoLag(e, ctx) ==
  IF IsVariable(e) THEN VariableEndoLag(e, ctx) ELSE SubstituteIn(e, DOMAIN e.args, ctx)
VariableExoLag(e, ctx) ==
  CASE IsLocal(e) -> IF MaxExoLag(e.def) = 0 THEN Result(e, ctx) ELSE Substitute(e.def, ctx)
    [] e.type = "eExogenous" /\ e.lag < 0 -> LagAux(e, 0, ctx)
    [] OTHER -> Result(e, ctx)
SubstituteExoLag(e, ctx) ==
  IF IsVariable(e) THEN VariableExoLag(e, ctx) ELSE SubstituteIn(e, DOMAIN e.args, ctx)

-----------------------------------------------------------------------------
(* EXPECTATION(i)(x) becomes aux(i) with aux = x(-i): the symbol is taken  *)
(* before the argument is substituted in its turn.                         *)
ExpectationAux(e, s, arg) ==
  Result(Aux(s, e.info),
         [arg.ctx EXCEPT !.tab = Append(@, <<e, Aux(s, e.info)>>),
                         !.eqs = Append(@, Equation(Aux(s, 0), DecreaseLeadsLags(arg.e, e.info)))])
SubstituteExpectation(e, ctx) ==
  IF e.op # "oExpectation" THEN SubstituteIn(e, IF IsLeaf(e) THEN {} ELSE DOMAIN e.args, ctx)
  ELSE IF InTable(ctx, e) THEN Result(InTableAs(ctx, e), ctx)
  ELSE ExpectationAux(e, ctx.next, Substitute(e.args[1], [ctx EXCEPT !.next = @ + 1]))

(* log(x), sqrt(x) and x^a, where x has an endogenous variable and a is    *)
(* not an integer, are computed from an aux = log(x), defined by           *)
(* exp(aux) = x, with x at its latest date today.                          *)
Half == 9                       \* 0.5 in the field
IsInteger(e) == e.op = "NumConst" /\ e.val \in Whole

LogAux(today, s, ctx) ==
  [NewAux(ctx, today, Aux(s, 0), Equation(Node("oExp", <<Aux(s, 0)>>), today))
     EXCEPT !.defs = Append(@, Equal(Aux(s, 0), Op1("oLog", today)))]   \* to be built
LogOfToday(today, k, ctx) ==
  IF InTable(ctx, today) THEN Result(DecreaseLeadsLags(InTableAs(ctx, today), -k), ctx)
  ELSE Result(Aux(ctx.next, k), LogAux(today, ctx.next, ctx))
LogOf(x, ctx) ==                \* the aux that stands for log(x), at x's date
  LogOfToday(IF MaxLead(x) = 0 THEN x ELSE DecreaseLeadsLags(x, MaxLead(x)), MaxLead(x), ctx)

(* exp(k * log(x)), and the logarithm alone for k = 1.                     *)
PowerOf(k, log) == Result(Op1("oExp", Times(k, log.e)), log.ctx)
UnaryLogPow(e, args) ==
  IF e.op = "oLog" THEN LogOf(args.e[1], args.ctx)
  ELSE PowerOf(NumConst(Half), LogOf(args.e[1], args.ctx))
BinaryLogPow(e, args) == PowerOf(args.e[2], LogOf(args.e[1], args.ctx))
LogPow(e, args) ==
  CASE e.op \in {"oLog", "oSqrt"} /\ ContainsEndogenous(e) -> UnaryLogPow(e, args)
    [] e.op = "oPower" /\ ContainsEndogenous(e) /\ ~IsInteger(e.args[2]) -> BinaryLogPow(e, args)
    [] OTHER -> Result(Similar(e, args.e), args.ctx)
BuiltResult(r) == Result(Built(r.e), r.ctx)
SubstituteLogPow(e, ctx) ==
  IF IsLeaf(e) THEN Result(e, ctx)
  ELSE BuiltResult(LogPow(e, SubstituteOperands(e, DOMAIN e.args, ctx)))

-----------------------------------------------------------------------------
(* The virtual function that ctx.type stands for.                          *)
Substitute(e, ctx) ==
  IF e.op = "NumConst" THEN Result(e, ctx)
  ELSE CASE ctx.type = "avExpectation" -> SubstituteExpectation(e, ctx)
    [] ctx.type = "avMultiplier"  -> SubstituteLogPow(e, ctx)
    [] ctx.type = "avEndoLead"    ->
         SubstituteEndoLead(e, IF IsLeaf(e) THEN {} ELSE EndoLeadOperands(e, EndoLed(e), ctx.det), ctx)
    [] ctx.type = "avExoLead"     ->
         SubstituteExoLead(e, IF IsLeaf(e) THEN {} ELSE ExoLeadOperands(e, ExoLed(e), ctx.det), ctx)
    [] ctx.type = "avEndoLag"     -> SubstituteEndoLag(e, ctx)
    [] ctx.type = "avExoLag"      -> SubstituteExoLag(e, ctx)
=============================================================================
