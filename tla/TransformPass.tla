--------------------------- MODULE TransformPass ---------------------------
(***************************************************************************)
(* ModFile::transformPass: the passes of DynamicModel.cc that turn the     *)
(* model the user wrote into one with leads and lags of at most one, one   *)
(* action per pass.                                                        *)
(*                                                                         *)
(* given is the model file: its equations (eqs), its model local variables *)
(* in the order of their declaration (locals, a sequence of nodes), the    *)
(* planner's objective, the predetermined variables, the trend with its    *)
(* growth factor, the nonstationary variables with their deflators, and    *)
(* what the commands ask for (stochastic, logpow, ramsey).                 *)
(* eqs, locals and aux are equations, local_variables_table and            *)
(* aux_equations; types lists the auxiliary variables of the symbol table. *)
(* base and kept remember the equations, and the number of auxiliary       *)
(* variables, when the planner's problem was derived: from then on the     *)
(* first order conditions are the model.                                   *)
(***************************************************************************)
EXTENDS AuxVars, Derivation

CONSTANT Inputs      \* the model files

VARIABLES given, pc, eqs, locals, aux, types, base, kept, static
vars == <<given, pc, eqs, locals, aux, types, base, kept, static>>

Beta == Variable("optimal_policy_discount_factor", "eParameter", 0)

Init == /\ given \in Inputs
        /\ pc = "predetermined"
        /\ eqs = given.eqs /\ locals = given.locals
        /\ aux = <<>> /\ types = <<>> /\ base = <<>> /\ kept = 0 /\ static = <<>>

-----------------------------------------------------------------------------
(* Passes over local variables and equations.                              *)
(* A node of a local variable follows local_variables_table.               *)
RECURSIVE Follow(_, _)
Follow(e, table) ==
  IF IsLocal(e) THEN (IF e.symb \in DOMAIN table THEN LocalVariable(e.symb, table[e.symb]) ELSE e)
  ELSE IF IsLeaf(e) THEN e
  ELSE [e EXCEPT !.args = [i \in DOMAIN e.args |-> Follow(e.args[i], table)]]

WithDef(table, s, e) == [x \in DOMAIN table \cup {s} |-> IF x = s THEN e ELSE table[x]]
(* Exogenous leads and lags stay in a deterministic model.                 *)
Deterministic == ~given.stochastic /\ ~given.ramsey

(* One fold over the local variables, in the order of their declaration,   *)
(* and then the equations.  Only the local variables in which are replaced *)
(* by what the substitution made of them.                                  *)
Kept(acc, x, r, which) ==
  IF x.op = "oEqual" THEN [acc EXCEPT !.eqs = Append(@, r.e), !.ctx = r.ctx]
  ELSE IF x.symb \in which
       THEN [acc EXCEPT !.table = WithDef(@, x.symb, r.e), !.ctx = r.ctx] ELSE acc
Passed(type, which) ==
  FoldLeft(LAMBDA acc, x :
             Kept(acc, x, Substitute(Follow(IF x.op = "oEqual" THEN x ELSE x.def, acc.table), acc.ctx), which),
           [table |-> <<>>, eqs |-> <<>>,
            ctx |-> Context(type, type = "avEndoLead" /\ Deterministic, Len(types) + 1)],
           locals \o eqs)

(* The symbols a pass has added, with their type.                          *)
Declared(n, type) == types \o [i \in 1..n |-> type]
Goes(from, to)    == pc = from /\ pc' = to
UsedLocals        == UNION {CollectModelLocalVariables(eqs[i]) : i \in DOMAIN eqs}

(* What a pass leaves: the equations it added follow the others.           *)
Rewritten(p) ==
  /\ eqs' = p.eqs \o p.ctx.eqs
  /\ locals' = [i \in DOMAIN locals |-> Follow(locals[i], p.table)]
  /\ types' = Declared(p.ctx.next - 1 - Len(types), p.ctx.type)
SubstituteLeadLagInternal(type) ==
  /\ \E p \in {Passed(type, UsedLocals)} : Rewritten(p) /\ aux' = aux \o p.ctx.eqs
  /\ UNCHANGED <<given, base, kept, static>>

AllLocals == {locals[i].symb : i \in DOMAIN locals}
TransformPredeterminedVariables ==
  /\ Goes("predetermined", "expectation")
  /\ eqs' = IF given.predetermined = {} THEN eqs
            ELSE [i \in DOMAIN eqs |->
                    DecreaseLeadsLagsPredeterminedVariables(eqs[i], given.predetermined)]
  /\ UNCHANGED <<given, locals, aux, types, base, kept, static>>
ExpectationOrder_Reversed(new) == Reverse(new) \o aux
ExpectationOrder(new) == new \o aux
SubstituteExpectationPass ==
  /\ Goes("expectation", "logpow")
  /\ \E p \in {Passed("avExpectation", AllLocals)} :
       Rewritten(p) /\ aux' = ExpectationOrder(p.ctx.eqs)
  /\ UNCHANGED <<given, base, kept, static>>
SubstituteLogPowPass ==
  /\ Goes("logpow", "trends")
  /\ IF given.logpow
     THEN \E p \in {Passed("avMultiplier", AllLocals)} :
            Rewritten(p) /\ aux' = [i \in DOMAIN p.ctx.defs |-> Built(p.ctx.defs[i])] \o aux
     ELSE UNCHANGED <<eqs, locals, aux, types>>
  /\ UNCHANGED <<given, base, kept, static>>

(* detrendEquations, one nonstationary variable after the other, then the  *)
(* leads and lags of trends; removeTrendVariableFromEquations.             *)
Detrended(e) ==
  RemoveTrendLeadLag(FoldLeft(LAMBDA x, n : Detrend(x, n[1], n[2]), e, given.nonstationary),
                     given.growth)
DetrendEquations ==
  /\ Goes("trends", "ramsey")
  /\ eqs' = IF DOMAIN given.growth = {} THEN eqs
            ELSE [i \in DOMAIN eqs |-> ReplaceTrendVar(Detrended(eqs[i]))]
  /\ UNCHANGED <<given, locals, aux, types, base, kept, static>>

-----------------------------------------------------------------------------
(* computeRamseyPolicyFOCs.                                                *)
AddMultipliersToConstraints(eq, n) ==
  Built(Equal(Times(Aux(n, 0), Minus(eq.args[1], eq.args[2])), Zero))
GetNonZeroPartOfEquation(eq) == IF eq.args[1] = Zero THEN eq.args[2] ELSE eq.args[1]
EndoLags(es) == {v[2] : v \in UNION {CollectEndogenous(es[i]) : i \in DOMAIN es}}
Shifts(lags) == -Max({0} \cup {-k : k \in lags}) .. Max({0} \cup lags)
DiscountPower_Forward(lag) == IF lag >= 0 THEN NumConst(lag) ELSE Minus(Zero, NumConst(-lag))
DiscountPower(lag) == IF lag <= 0 THEN NumConst(-lag) ELSE Minus(Zero, NumConst(lag))
Discounted(e, lag) == Times(Power(Beta, DiscountPower(lag)), DecreaseLeadsLags(e, lag))
Lagrangian(es, shifts) ==
  FoldLeft(LAMBDA acc, eq :
             FoldLeft(LAMBDA a, lag : Plus(Discounted(GetNonZeroPartOfEquation(eq), lag), a), acc, shifts),
           Zero, es)
(* The endogenous variables by their number in the symbol table.           *)
Order0 == given.endogenous \o [i \in 1..Len(types) + Len(eqs) |-> AuxName(i)]
FirstOrderConditions(l, params) ==
  LET vs == SelectSeq(Order0, LAMBDA s : <<s, 0>> \in CollectEndogenous(l))
  IN [i \in DOMAIN vs |-> Equation(Derivative(l, Variable(vs[i], "eEndogenous", 0), DynamicTree(params)),
                               Zero)]
ComputeRamseyPolicyFOCs(es, params) ==
  FirstOrderConditions(Built(Lagrangian(es, SetToSortSeq(Shifts(EndoLags(es)), <))), params)
(* The model is cloned, and the conditions replace the equations.          *)
WithMultipliers ==
  [i \in DOMAIN eqs |-> AddMultipliersToConstraints(CloneDynamic(eqs[i]), Len(types) + i)]
RamseyPolicy ==
  /\ Goes("ramsey", "avEndoLead")
  /\ IF given.ramsey
     THEN /\ base' = Append(WithMultipliers, CloneDynamic(given.objective))
          /\ \E focs \in {ComputeRamseyPolicyFOCs(base', {Beta})} :
               eqs' = [i \in DOMAIN focs |-> CloneDynamic(focs[i])]
          /\ types' = Declared(Len(eqs), "avMultiplier")
          /\ kept' = Len(types) + Len(eqs)
     ELSE UNCHANGED <<eqs, types, base, kept>>
  /\ UNCHANGED <<given, locals, aux, static>>

-----------------------------------------------------------------------------
(* Leads and lags; exogenous variables only in a stochastic model.         *)
LeadLagPasses == IF Deterministic THEN <<"avEndoLead", "avEndoLag">>
                 ELSE <<"avEndoLead", "avExoLead", "avEndoLag", "avExoLag">>
SubstituteLeadLag ==
  \E i \in DOMAIN LeadLagPasses :
    /\ pc = LeadLagPasses[i]
    /\ pc' = (IF i = Len(LeadLagPasses) THEN "freeze" ELSE LeadLagPasses[i + 1])
    /\ SubstituteLeadLagInternal(LeadLagPasses[i])

(* The model must have as many equations as endogenous variables.          *)
EndoNbr == Len(given.endogenous) + Len(types)
Freeze ==
  /\ pc = "freeze"
  /\ pc' = IF ~given.ramsey /\ Len(eqs) # EndoNbr THEN "refused" ELSE "frozen"
  /\ UNCHANGED <<given, eqs, locals, aux, types, base, kept, static>>
DynamicToStatic ==
  /\ Goes("frozen", "done")
  /\ static' = [i \in DOMAIN eqs |-> ToStatic(eqs[i])]
  /\ UNCHANGED <<given, eqs, locals, aux, types, base, kept>>

Next == \/ TransformPredeterminedVariables \/ SubstituteExpectationPass \/ SubstituteLogPowPass
        \/ DetrendEquations \/ RamseyPolicy
        \/ SubstituteLeadLag \/ Freeze \/ DynamicToStatic
Spec == Init /\ [][Next]_vars

-----------------------------------------------------------------------------
RECURSIVE SubNodes(_)
SubNodes(e) == {e} \cup (IF IsLocal(e) THEN SubNodes(e.def) ELSE IF IsLeaf(e) THEN {}
                         ELSE UNION {SubNodes(x) : x \in ArgSet(e)})
RECURSIVE Mentioned(_)
Mentioned(e) == IF IsVariable(e) THEN {e.symb} ELSE IF IsLeaf(e) THEN {}
                ELSE UNION {Mentioned(x) : x \in ArgSet(e)}
(* Paths.  A path gives each variable a value at each date; the auxiliary  *)
(* variables have the values of their definitions, except those that were  *)
(* there when the planner's problem was derived, multipliers included,     *)
(* which are variables like the others.  On the first path every function  *)
(* has a value, on the second the dates are told apart.                    *)
Today == 5
Dates == 0..10
Paths == 1..2
At2(c, k, d) == IF c = 1 THEN [Num(1) EXCEPT ![2] = (d + k) % P, ![3] = (2*d + k) % P]
                ELSE Num(3*d + 2*k + 1)
Numbers2 == [x |-> 1, y |-> 2, u |-> 3, a |-> 4, g |-> 5, optimal_policy_discount_factor |-> 6, d |-> 7]
KeptNames == {AuxName(i) : i \in 1..kept}
RawPath(c) ==
  [s \in DOMAIN Numbers2 \cup KeptNames |->
     [d \in Dates |-> IF s \in KeptNames
                      THEN Num((CHOOSE i \in 1..kept : AuxName(i) = s) + d)
                      ELSE At2(c, Numbers2[s], d)]]
Definitions ==
  [s \in {aux[i].args[1].symb : i \in DOMAIN aux} \ KeptNames |->
     aux[CHOOSE i \in DOMAIN aux : aux[i].args[1].symb = s].args[2]]
Env(val) == [val |-> val, defs |-> Definitions]

(* The path the equations of the file are about: a predetermined variable  *)
(* is dated one period earlier, a nonstationary one is scaled by a trend   *)
(* that is one today.                                                      *)
NoDefinitions(val) == [val |-> val, defs |-> <<>>]
TrendFrom(g) ==                \* g: the growth factor at each date
  LET up[d \in Today..Max(Dates)] == IF d = Today THEN One ELSE Mul(up[d-1], g[d])
      down[k \in 0..Today] == IF k = 0 THEN One ELSE Div(down[k-1], g[Today - k + 1])
  IN [d \in Dates |-> IF d >= Today THEN up[d] ELSE down[Today - d]]
WithTrends(val) ==
  [s \in DOMAIN val \cup DOMAIN given.growth |->
     IF s \in DOMAIN val THEN val[s]
     ELSE TrendFrom([d \in Dates |-> Value(given.growth[s], NoDefinitions(val), d)])]
Scaled(val) ==
  FoldLeft(LAMBDA v, n : [v EXCEPT ![n[1]] =
             [d \in Dates |-> Mul(v[n[1]][d], Value(n[2], NoDefinitions(v), d))]],
           val, given.nonstationary)
Earlier1(val) == [s \in DOMAIN val |-> IF s \in given.predetermined
                                       THEN [d \in Dates |-> val[s][IF d = 0 THEN 0 ELSE d - 1]]
                                       ELSE val[s]]
FilePath(val) ==
  CASE pc = "predetermined"                      -> val
    [] pc \in {"expectation", "logpow", "trends"} -> Earlier1(val)
    [] OTHER                                     -> Earlier1(Scaled(val))

Aborted(e)   == ErrorNode \in SubNodes(e)
AbortedModel == \E i \in DOMAIN eqs : Aborted(eqs[i])
Same(v, w)   == NaN \in {v, w} \/ v = w

(* Every pass leaves the model what it was: on every path the equations of *)
(* the file leave the residuals they left before, and the equations that   *)
(* were added hold.  (The last pass only copies them.)                     *)
SamePaths ==
  (base = <<>> /\ pc # "done" /\ ~AbortedModel) =>
    \A val \in {WithTrends(RawPath(c)) : c \in Paths} :
      \A file \in {NoDefinitions(FilePath(val))}, i \in DOMAIN eqs :
        Same(Value(eqs[i], Env(val), Today),
             IF i > Len(given.eqs) THEN Num(0) ELSE Value(given.eqs[i], file, Today))

(* The first order conditions are what they are called: the residual of    *)
(* each is the derivative of the discounted sum of the planner's           *)
(* Lagrangian, over all dates that matter, with respect to one variable    *)
(* today.  The later passes keep it so.                                    *)
RamseyFOC ==
  (base # <<>> /\ pc # "done" /\ ~AbortedModel) =>
    LET val == RawPath(2)
        names == SelectSeq(given.endogenous \o [i \in 1..kept |-> AuxName(i)], LAMBDA s :
                   \E i \in DOMAIN base : \E v \in CollectEndogenous(base[i]) : v[1] = s)
        Moved(s) == [val EXCEPT ![s][Today] = [@ EXCEPT ![2] = 1]]
        Discount(k) == Pow(val[Beta.symb][0], Num(k))
        Term(s, i, k) == Mul(Discount(k), Value(GetNonZeroPartOfEquation(base[i]),
                                                 [val |-> Moved(s), defs |-> <<>>], Today + k))
        Sum(s) == FoldSet(LAMBDA ik, acc : Add(acc, Term(s, ik[1], ik[2])), Num(0),
                          (DOMAIN base) \X (-2..2))
    IN \A j \in DOMAIN names :
         LET v == Value(eqs[j], Env(val), Today)
             w == Sum(names[j])
         IN NaN \in {v, w} \/ v[1] = w[2]

(* A stochastic equation holds in expectation.  The value of a lead        *)
(* auxiliary tomorrow stands for an expectation formed tomorrow, so that   *)
(* it may only be added and multiplied by what is known then: never occur  *)
(* in a function, a denominator, or a product of two of them.  A lead in a *)
(* local variable is left out: its definition is substituted without       *)
(* regard to where it is used (see the findings).                          *)
LeadAuxiliary(v) == \E i \in DOMAIN types : /\ types[i] \in {"avEndoLead", "avExoLead"}
                                            /\ v[1] = AuxName(i) /\ v[2] > 0
HasLeadAuxiliary(e) == \E v \in CollectEndogenous(e) : LeadAuxiliary(v)
RECURSIVE Affine(_)
Affine(e) ==
  IF ~HasLeadAuxiliary(e) THEN TRUE
  ELSE IF IsLocal(e) THEN Affine(e.def)
  ELSE IF IsLeaf(e) THEN TRUE
  ELSE
  CASE e.op \in {"oPlus", "oMinus", "oEqual", "oUminus"} -> \A x \in ArgSet(e) : Affine(x)
    [] e.op = "oTimes"  -> /\ \E i \in 1..2 : ~HasLeadAuxiliary(e.args[i])
                           /\ \A x \in ArgSet(e) : Affine(x)
    [] e.op = "oDivide" -> ~HasLeadAuxiliary(e.args[2]) /\ Affine(e.args[1])
    [] OTHER -> FALSE
CertaintyKept ==
  (/\ pc = "done" /\ ~Deterministic
   /\ \A i \in DOMAIN given.locals : MaxEndoLead(given.locals[i]) <= 1 /\ MaxExoLead(given.locals[i]) = 0) =>
    \A i \in DOMAIN eqs : Affine(eqs[i])

(* As many equations as endogenous variables, as the file had.             *)
SquareModel ==
  /\ pc # "refused"
  /\ pc = "done" => Len(eqs) = EndoNbr

(* The static model is the dynamic one on a constant path.                 *)
StaticIsConstantPath ==
  pc = "done" =>
    \A c \in Paths :
      LET val == [s \in DOMAIN RawPath(c) |-> [d \in Dates |-> RawPath(c)[s][Today]]]
      IN \A i \in DOMAIN static :
           /\ \A v \in CollectEndogenous(static[i]) \cup CollectExogenous(static[i]) : v[2] = 0
           /\ Aborted(static[i]) \/ Same(Value(static[i], Env(val), Today), Value(eqs[i], Env(val), Today))

(* fillEvalContext: the auxiliary variables are evaluated in the order of  *)
(* aux_equations, and one that needs a variable without value gets none.   *)
FillEvalContext(known) ==
  FoldLeft(LAMBDA ctx, eq :
             IF \A v \in Mentioned(eq.args[2]) : v \in ctx THEN ctx \cup {eq.args[1].symb} ELSE ctx,
           known, aux)
(* Each of them gets its value.  Except for the logarithm of an            *)
(* expectation or of a local variable (see the findings), and where the    *)
(* multipliers have none.                                                  *)
LogOfExpectation == given.logpow /\ \E i \in DOMAIN types : types[i] = "avExpectation"
EvaluatedInOrder ==
  (pc = "done" /\ ~given.ramsey /\ ~LogOfExpectation) =>
    \A i \in DOMAIN types : AuxName(i) \in FillEvalContext(DOMAIN Numbers2)

(* Every auxiliary variable is defined: it has an equation, so that there  *)
(* are as many equations as endogenous variables, and a value.             *)
AuxiliariesDefined == SquareModel /\ EvaluatedInOrder
=============================================================================
