--------------------------- MODULE ComputingPass ---------------------------
(***************************************************************************)
(* ModFile::computingPass: the derivatives of the model transformPass has  *)
(* left (ModelTree.cc, DynamicModel.cc, StaticModel.cc), what the files of *)
(* the static and of the dynamic model hold of them, and how MATLAB reads  *)
(* those files.                                                            *)
(*                                                                         *)
(* given also names the symbols in the order of their declaration (symbols,*)
(* nodes without lag), which derivatives beyond the first are asked for    *)
(* (wanted: "hessian", "third", "params"), and the options "notmpterms"    *)
(* and "use_dll".                                                          *)
(*                                                                         *)
(* id is the numbering of the variables a model is derived by, col the     *)
(* column of the dynamic Jacobian each of them has, from 0.  A table of    *)
(* derivatives gives the nodes that are not zero, by equation and          *)
(* variables: first, second, third, and by parameters rp, rpp, gp, gpp, hp *)
(* as the arguments of the generated functions are called.  maxima counts  *)
(* the leads and lags, temps and ptemps are the temporary terms of the     *)
(* model and of its derivatives by parameters.                             *)
(*                                                                         *)
(* This is the pass of a model without blocks, so that the identity that   *)
(* initializeVariablesAndEquations sets, and the numbers bytecode gives    *)
(* the temporary terms (module ModelCode), are left out.                   *)
(***************************************************************************)
EXTENDS TransformPass

VARIABLES stage,      \* what is computed next
          sta, dyn    \* static_model and dynamic_model
computed == <<stage, sta, dyn>>

Nothing == [id |-> <<>>, col |-> <<>>, first |-> <<>>, second |-> <<>>, third |-> <<>>,
            rp |-> <<>>, rpp |-> <<>>, gp |-> <<>>, gpp |-> <<>>, hp |-> <<>>, nnz |-> <<0, 0, 0>>,
            maxima |-> <<>>, temps |-> {}, ptemps |-> {}]
InitFull == Init /\ stage = "static" /\ sta = Nothing /\ dyn = Nothing

-----------------------------------------------------------------------------
(* The symbol table, frozen: getTypeSpecificID counts from 0.              *)
Symbols     == given.symbols \o [i \in 1..Len(types) |-> Aux(i, 0)]
SymbID(v)   == CHOOSE i \in DOMAIN Symbols : Symbols[i].symb = v.symb
OfType(type) == SelectSeq(Symbols, LAMBDA s : s.type = type)
TypeSpecificID(v) == Cardinality({i \in 1..SymbID(v)-1 : Symbols[i].type = v.type})
NodesOf(type) == {OfType(type)[i] : i \in DOMAIN OfType(type)}
AllParams   == NodesOf("eParameter")

(* Sorted places: how many come before. *)
VariablesOf(type, es) ==
  {Variable(w[1], type, w[2]) : w \in UNION {CollectVariables(type, es[i]) : i \in DOMAIN es}}
Before(v, w)   == SymbID(v) < SymbID(w) \/ (v.symb = w.symb /\ v.lag < w.lag)
ByLag(v, w)    == v.lag < w.lag \/ (v.lag = w.lag /\ TypeSpecificID(v) < TypeSpecificID(w))
Derived        == {"eEndogenous", "eExogenous", "eExogenousDet"}
DynamicVariables == UNION {VariablesOf(type, eqs) : type \in Derived \cup {"eParameter", "eTrend"}}
DynamicIDs     == [v \in DynamicVariables |-> Cardinality({w \in DynamicVariables : Before(w, v)})]
OfTypes(id, S) == {v \in DOMAIN id : v.type \in S}
(* max_lag and max_lead, of each type and of all of them, but not of parameters. *)
LagsOf(vs) == [lag |-> Max({0} \cup {-v.lag : v \in vs}), lead |-> Max({0} \cup {v.lag : v \in vs})]
MaximumLags(id) ==
  [type \in Derived \cup {"all"} |->
     LagsOf(IF type = "all" THEN DOMAIN id \ OfTypes(id, {"eParameter"}) ELSE OfTypes(id, {type}))]
(* Endogenous variables by lag, then the exogenous ones of all types.      *)
DynamicColumns(endo) ==
  [v \in OfTypes(dyn.id, Derived) |->
     CASE v.type = "eEndogenous" -> Cardinality({w \in endo : ByLag(w, v)})
       [] v.type = "eExogenous" -> Cardinality(endo) + TypeSpecificID(v)
       [] OTHER -> Cardinality(endo) + Len(OfType("eExogenous")) + TypeSpecificID(v)]
DynJacobianColsNbr ==
  Cardinality(OfTypes(dyn.id, {"eEndogenous"})) + Len(OfType("eExogenous")) + Len(OfType("eExogenousDet"))
StaticIDs ==
  [v \in NodesOf("eEndogenous") \cup AllParams |->
     IF v.type = "eEndogenous" THEN TypeSpecificID(v)
     ELSE Len(OfType("eEndogenous")) + TypeSpecificID(v)]

-----------------------------------------------------------------------------
(* Tables.  A key is the equation, then the variables in the order the     *)
(* derivatives were taken.                                                 *)
Equations(es)    == [k \in {<<i>> : i \in DOMAIN es} |-> es[k[1]]]
Keys(table, vs)  == {Append(k, v) : k \in DOMAIN table, v \in vs}
NonZero(table)   == Restrict(table, {k \in DOMAIN table : table[k] # Zero})
StaticModel  == StaticTree(AllParams)
DynamicModel == DynamicTree(AllParams)
Derivatives2(table, keys, datatree) ==
  NonZero([k \in keys |-> Derivative(table[Front(k)], Last(k), datatree)])
(* Only derivatives whose last variable does not come after the one before *)
(* are kept, for parameters the other way round.                           *)
NotAfter(k, id)  == id[Last(k)] <= id[k[Len(k) - 1]]
ComputeJacobian(es, vs, datatree) == Derivatives2(Equations(es), Keys(Equations(es), vs), datatree)
ComputeSymmetric(table, vs, id, datatree) ==
  Derivatives2(table, {k \in Keys(table, vs) : NotAfter(k, id)}, datatree)
(* How many elements the symmetric ones make. *)
Copies(k) ==
  CASE Len(k) = 2 -> 1
    [] Len(k) = 3 -> IF k[2] = k[3] THEN 1 ELSE 2
    [] Len(k) = 4 -> IF k[2] = k[3] /\ k[3] = k[4] THEN 1
                     ELSE IF k[2] = k[3] \/ k[3] = k[4] THEN 3 ELSE 6
NNZ(table) == FoldSet(LAMBDA k, n : Copies(k) + n, 0, DOMAIN table)

ComputeParamsDerivatives(es, m, ps, datatree) ==
  LET rp == ComputeJacobian(es, ps, datatree)
      gp == Derivatives2(m.first, Keys(m.first, ps), datatree)
      again(table) == {k \in Keys(table, ps) : m.id[k[Len(k) - 1]] <= m.id[Last(k)]}
  IN [m EXCEPT !.rp = rp, !.rpp = Derivatives2(rp, again(rp), datatree), !.gp = gp,
               !.gpp = Derivatives2(gp, again(gp), datatree),
               !.hp = Derivatives2(m.second, Keys(m.second, ps), datatree)]

(* Temporary terms: of the equations, then of the derivatives in the order *)
(* of their tables.                                                        *)
Terms == INSTANCE TemporaryTerms
KeyBefore(k, l, id) ==
  \/ k[1] < l[1]
  \/ /\ k[1] = l[1]
     /\ \E i \in 2..Len(k) : id[k[i]] < id[l[i]] /\ \A j \in 2..i-1 : k[j] = l[j]
InOrder(table, id) ==
  LET before == [k \in DOMAIN table |-> Cardinality({l \in DOMAIN table : KeyBefore(l, k, id)})]
  IN [i \in 1..Cardinality(DOMAIN table) |-> table[CHOOSE k \in DOMAIN table : before[k] = i - 1]]
WithTemporaryTerms(es, m, matlab) ==
  IF "notmpterms" \in given.wanted THEN m
  ELSE [m EXCEPT !.temps =
          Terms!ModelTemporaryTerms(es \o InOrder(m.first, m.id) \o InOrder(m.second, m.id)
                                      \o InOrder(m.third, m.id), matlab)]
WithParamsTemporaryTerms(m) ==
  IF "notmpterms" \in given.wanted THEN m
  ELSE [m EXCEPT !.ptemps =
          Terms!ModelTemporaryTerms(InOrder(m.rp, m.id) \o InOrder(m.gp, m.id) \o InOrder(m.rpp, m.id)
                                      \o InOrder(m.gpp, m.id) \o InOrder(m.hp, m.id), TRUE)]

-----------------------------------------------------------------------------
(* StaticModel::computingPass: by the endogenous variables.                *)
StaticJacobian(vs) ==
  LET first == ComputeJacobian(static, vs, StaticModel)
  IN [Nothing EXCEPT !.id = StaticIDs, !.first = first, !.nnz[1] = NNZ(first)]
WithHessian(m, vs, datatree) ==
  LET second == ComputeSymmetric(m.first, vs, m.id, datatree)
  IN [m EXCEPT !.second = second, !.nnz[2] = NNZ(second)]
StaticDerivatives(vs) ==
  IF "params" \in given.wanted
  THEN WithParamsTemporaryTerms(
         ComputeParamsDerivatives(static, WithHessian(StaticJacobian(vs), vs, StaticModel), AllParams,
                                  StaticModel))
  ELSE StaticJacobian(vs)

At1(from, to) == pc = "done" /\ stage = from /\ stage' = to /\ UNCHANGED vars
StaticComputingPass ==
  /\ At1("static", "ids")
  /\ sta' = WithTemporaryTerms(static, StaticDerivatives(NodesOf("eEndogenous")), TRUE)
  /\ UNCHANGED dyn
ComputeDerivIDs ==
  /\ At1("ids", "columns")
  /\ \E id \in {DynamicIDs} : dyn' = [dyn EXCEPT !.id = id, !.maxima = MaximumLags(id)]
  /\ UNCHANGED sta
ComputeDynJacobianCols ==
  /\ At1("columns", "first")
  /\ dyn' = [dyn EXCEPT !.col = DynamicColumns(OfTypes(dyn.id, {"eEndogenous"}))]
  /\ UNCHANGED sta
DynamicJacobian ==
  /\ At1("first", "second")
  /\ \E first \in {ComputeJacobian(eqs, DOMAIN dyn.col, DynamicModel)} :
       dyn' = [dyn EXCEPT !.first = first, !.nnz[1] = NNZ(first)]
  /\ UNCHANGED sta
DynamicHessian ==
  /\ At1("second", "params")
  /\ dyn' = IF "hessian" \in given.wanted THEN WithHessian(dyn, DOMAIN dyn.col, DynamicModel) ELSE dyn
  /\ UNCHANGED sta
DynamicParams ==
  /\ At1("params", "third")
  /\ dyn' = IF "params" \in given.wanted
            THEN WithParamsTemporaryTerms(
                   ComputeParamsDerivatives(eqs, dyn, OfTypes(dyn.id, {"eParameter"}), DynamicModel))
            ELSE dyn
  /\ UNCHANGED sta
DynamicThird ==
  /\ At1("third", "temps")
  /\ IF "third" \in given.wanted
     THEN \E third \in {ComputeSymmetric(dyn.second, DOMAIN dyn.col, dyn.id, DynamicModel)} :
            dyn' = [dyn EXCEPT !.third = third, !.nnz[3] = NNZ(third)]
     ELSE UNCHANGED dyn
  /\ UNCHANGED sta
DynamicTemporaryTerms ==
  /\ At1("temps", "written")
  /\ dyn' = WithTemporaryTerms(eqs, dyn, "use_dll" \notin given.wanted)
  /\ UNCHANGED sta
Compute == \/ StaticComputingPass \/ ComputeDerivIDs \/ ComputeDynJacobianCols \/ DynamicJacobian
           \/ DynamicHessian \/ DynamicParams \/ DynamicThird \/ DynamicTemporaryTerms
NextFull == (Next /\ UNCHANGED computed) \/ Compute
FullSpec == InitFull /\ [][NextFull]_<<vars, computed>>

-----------------------------------------------------------------------------
(* writeDynamicModel and writeStaticModel: the columns, counted from 0, in *)
(* which the file puts each derivative.  col gives those of the Jacobian,  *)
(* n is their number.                                                      *)
HessianColumns(k, col, n) == {col[k[2]] * n + col[k[3]], col[k[3]] * n + col[k[2]]}
Orderings == {<<2, 3, 4>>, <<2, 4, 3>>, <<3, 2, 4>>, <<3, 4, 2>>, <<4, 2, 3>>, <<4, 3, 2>>}
ThirdColumns_Cyclic(k, col, n) ==
  {col[k[o[1]]] * n * n + col[k[o[2]]] * n + col[k[o[3]]] : o \in {<<2, 3, 4>>, <<3, 4, 2>>, <<4, 2, 3>>}}
ThirdColumns(k, col, n) ==
  {col[k[o[1]]] * n * n + col[k[o[2]]] * n + col[k[o[3]]] : o \in Orderings}
FileColumns(m, col, n) ==
  [g1 |-> [k \in DOMAIN m.first |-> {col[k[2]]}],
   g2 |-> [k \in DOMAIN m.second |-> HessianColumns(k, col, n)],
   g3 |-> [k \in DOMAIN m.third |-> ThirdColumns(k, col, n)]]
DynamicFile == FileColumns(dyn, dyn.col, DynJacobianColsNbr)
EndoOrder   == OfType("eEndogenous")
StaticCols  == [v \in NodesOf("eEndogenous") |-> TypeSpecificID(v)]
StaticFile  == FileColumns(sta, StaticCols, Len(EndoOrder))

(* writeParamsDerivativesFile: the subscripts of each element after that   *)
(* of its equation, a parameter by its number.                             *)
Subscripts(table, col) ==
  [k \in DOMAIN table |-> [i \in 1..Len(k)-1 |-> IF k[i + 1].type = "eParameter"
                                                 THEN TypeSpecificID(k[i + 1]) ELSE col[k[i + 1]]]]
ParamsFile(m, col) ==
  [rp |-> Subscripts(m.rp, col), gp |-> Subscripts(m.gp, col), rpp |-> Subscripts(m.rpp, col),
   gpp |-> Subscripts(m.gpp, col), hp |-> Subscripts(m.hp, col)]
DynamicParamsFile == ParamsFile(dyn, dyn.col)
StaticParamsFile  == ParamsFile(sta, StaticCols)

(* M_.lead_lag_incidence: for each endogenous variable and period the      *)
(* number of its column, or 0.                                             *)
LeadLags == -dyn.maxima["eEndogenous"].lag .. dyn.maxima["eEndogenous"].lead
LeadLagIncidence ==
  [x \in LeadLags \X NodesOf("eEndogenous") |->
     LET v == AddVariable(x[2], x[1]) IN IF v \in DOMAIN dyn.col THEN dyn.col[v] + 1 ELSE 0]
(* M_.nstatic, M_.nfwrd, M_.npred and M_.nboth count the endogenous        *)
(* variables by the columns one period away they have.                     *)
VariableKind(v) ==
  LET at(lag) == AddVariable(v, lag) \in DOMAIN dyn.id
  IN IF at(-1) THEN IF at(1) THEN "both" ELSE "pred" ELSE IF at(1) THEN "fwrd" ELSE "static"
KindNbr(kinds) == Cardinality({v \in NodesOf("eEndogenous") : VariableKind(v) \in kinds})

-----------------------------------------------------------------------------
(* How the files are read.  Along the straight line on which each variable *)
(* moves at its own speed, a matrix of derivatives, applied to the speeds, *)
(* gives the derivative of the one before it.                              *)
Speed(v) == (2 * SymbID(v) + 3 * (v.lag + 2)) % P
Moved(c, s, d, moves) ==
  [Num(IF c = 1 THEN 1 ELSE 3*d + 2*SymbID(s) + 1) EXCEPT
     ![2] = IF moves /\ (d > 0 \/ s.type = "eParameter") THEN Speed(AddVariable(s, IF d = 0 THEN 0 ELSE d - Today))
            ELSE 0]
Line(c, which) ==
  [val |-> [s \in {Symbols[i].symb : i \in DOMAIN Symbols} |->
              LET v == Symbols[CHOOSE i \in DOMAIN Symbols : Symbols[i].symb = s]
              IN [d \in {0} \cup Today-2..Today+2 |-> Moved(c, v, d, v.type \in which)]],
   defs |-> <<>>]
Agrees(a, b) == NaN \in {a, b} \/ \A i \in 1..Order-1 : a[i] = b[i]

Applied(table, eq, weight, env) ==
  FoldSet(LAMBDA k, acc : Add(acc, Mul(Num(weight[k]), Value(table[k], env, Today))), Num(0),
          {k \in DOMAIN table : k[1] = eq})

(* w gives the speed of the variable MATLAB finds in a column, s that of a *)
(* parameter.                                                              *)
Products2(n, w) == [x \in 0..n*n-1 |-> w[x \div n] * w[x % n]]
Products3(n, w) == [x \in 0..n*n*n-1 |-> w[x \div (n * n)] * w[(x \div n) % n] * w[x % n]]
Weights(columns, w) == [k \in DOMAIN columns |-> FoldSet(LAMBDA c, acc : w[c] + acc, 0, columns[k])]
LinesOf(columns) == FoldSet(LAMBDA k, acc : Cardinality(columns[k]) + acc, 0, DOMAIN columns)

(* The derivatives of a model m with equations es. *)
FileIsModel(es, m, file, w, n, moving) ==
  \A c \in Paths, i \in DOMAIN es :
    \A env \in {Line(c, moving)} : \A g1 \in {Applied(m.first, i, Weights(file.g1, w), env)} :
      /\ Agrees(g1, Diff(Value(es[i], env, Today)))
      /\ m.nnz[2] > 0 =>
           \A g2 \in {Applied(m.second, i, Weights(file.g2, Products2(n, w)), env)} :
             /\ Agrees(g2, Diff(g1))
             /\ m.nnz[3] > 0 => Agrees(Applied(m.third, i, Weights(file.g3, Products3(n, w)), env), Diff(g2))
(* v2 and v3 are allocated with as many rows as derivatives were counted.  *)
RowsCounted(m, file) == m.nnz[2] = LinesOf(file.g2) /\ m.nnz[3] = LinesOf(file.g3)

(* getH.m fills the second derivatives by parameters, and the derivatives  *)
(* of the Hessian, on both sides of the diagonal.                          *)
Both(a, b, f) == IF a = b THEN f[a] * f[b] ELSE 2 * f[a] * f[b]
ParamSpeeds == [c \in 0..Cardinality(AllParams)-1 |-> Speed(OfType("eParameter")[c + 1])]
ParamsFileIsModel(es, m, file, col, w, s) ==
  LET rp  == [k \in DOMAIN m.rp |-> s[file.rp[k][1]]]
      rpp == [k \in DOMAIN m.rpp |-> Both(file.rpp[k][1], file.rpp[k][2], s)]
      gp  == [k \in DOMAIN m.gp |-> w[file.gp[k][1]] * s[file.gp[k][2]]]
      gpp == [k \in DOMAIN m.gpp |-> w[file.gpp[k][1]] * Both(file.gpp[k][2], file.gpp[k][3], s)]
      hp  == [k \in DOMAIN m.hp |-> Both(file.hp[k][1], file.hp[k][2], w) * s[file.hp[k][3]]]
      g1  == [k \in DOMAIN m.first |-> w[col[k[2]]]]
      g2  == [k \in DOMAIN m.second |-> Both(col[k[2]], col[k[3]], w)]
  IN \A c \in Paths, i \in DOMAIN es :
       \A env \in {Line(c, {"eParameter"})} :
         \A r1 \in {Applied(m.rp, i, rp, env)}, s1 \in {Applied(m.gp, i, gp, env)} :
           /\ Agrees(r1, Diff(Value(es[i], env, Today)))
           /\ Agrees(Applied(m.rpp, i, rpp, env), Diff(r1))
           /\ Agrees(s1, Diff(Applied(m.first, i, g1, env)))
           /\ Agrees(Applied(m.gpp, i, gpp, env), Diff(s1))
           /\ Agrees(Applied(m.hp, i, hp, env), Diff(Applied(m.second, i, g2, env)))

(* What M_.lead_lag_incidence says of the columns: the endogenous ones are *)
(* numbered without a gap, and the others follow.                          *)
NamedBy(c) ==
  {AddVariable(x[2], x[1]) : x \in {y \in DOMAIN LeadLagIncidence : LeadLagIncidence[y] = c + 1}}
EndoColumns == Cardinality({x \in DOMAIN LeadLagIncidence : LeadLagIncidence[x] # 0})
Others      == OfType("eExogenous") \o OfType("eExogenousDet")
VariableIn(c) == IF c < EndoColumns THEN CHOOSE v \in NamedBy(c) : TRUE ELSE Others[c - EndoColumns + 1]
ColumnsNamed ==
  /\ \A c \in 0..EndoColumns-1 : Cardinality(NamedBy(c)) = 1
  /\ EndoColumns + Len(Others) = DynJacobianColsNbr

(* What M_ says of leads and lags: no variable is dated outside of         *)
(* M_.maximum_lag and M_.maximum_lead, and in a stochastic model the state *)
(* variables and the forward-looking ones that are counted (M_.nspred,     *)
(* M_.nsfwrd) are all those that have a lag, or a lead, however long.      *)
WithEndo(dated(_)) == Cardinality({v.symb : v \in {w \in OfTypes(dyn.id, {"eEndogenous"}) : dated(w.lag)}})
LeadsAndLagsCounted ==
  /\ \A v \in DOMAIN dyn.col : /\ v.lag \in -dyn.maxima["all"].lag .. dyn.maxima["all"].lead
                             /\ v.lag \in -dyn.maxima[v.type].lag .. dyn.maxima[v.type].lead
  /\ ~Deterministic => /\ KindNbr({"pred", "both"}) = WithEndo(LAMBDA lag : lag < 0)
                       /\ KindNbr({"fwrd", "both"}) = WithEndo(LAMBDA lag : lag > 0)

(* The derivatives that the dynamic file holds are those of the model, to  *)
(* the order asked for, complete and once each, in the columns that        *)
(* M_.lead_lag_incidence names, and fill the rows that were counted; the   *)
(* derivatives by parameters are those getH.m takes them for.  A model     *)
(* that keeps leads or lags of exogenous variables, whose periods share a  *)
(* column, is left out (see the findings).                                 *)
ExogenousToday == \A v \in DOMAIN dyn.col : v.type = "eEndogenous" \/ v.lag = 0
AbortedDynamic == \E t \in {dyn.first, dyn.second, dyn.third} : \E k \in DOMAIN t : Aborted(t[k])
DynamicFileHoldsTheModel ==
  (stage = "written" /\ ExogenousToday /\ ~AbortedDynamic) =>
    /\ ColumnsNamed
    /\ LeadsAndLagsCounted
    /\ \A file \in {DynamicFile}, w \in {[c \in 0..DynJacobianColsNbr-1 |-> Speed(VariableIn(c))]} :
         /\ RowsCounted(dyn, file)
         /\ FileIsModel(eqs, dyn, file, w, DynJacobianColsNbr, Derived)
         /\ "params" \in given.wanted => ParamsFileIsModel(eqs, dyn, DynamicParamsFile, dyn.col, w, ParamSpeeds)

(* The static file: the model on a constant path, its derivatives by the   *)
(* endogenous variables, in the columns of their numbers, and by the       *)
(* parameters.                                                             *)
AbortedStatic == \E k \in DOMAIN sta.first : Aborted(sta.first[k])
StaticFileHoldsTheModel ==
  stage = "ids" =>
    /\ StaticIsConstantPath
    /\ ~AbortedStatic =>
         \A file \in {StaticFile}, w \in {[c \in 0..Len(EndoOrder)-1 |-> Speed(EndoOrder[c + 1])]} :
           /\ RowsCounted(sta, file)
           /\ FileIsModel(static, sta, file, w, Len(EndoOrder), {"eEndogenous"})
           /\ "params" \in given.wanted => ParamsFileIsModel(static, sta, StaticParamsFile, StaticCols, w, ParamSpeeds)

(* Both files, to the order and with the parameters that were asked for,   *)
(* hold the model: the writers of the two number rows and columns apart.   *)
FilesHoldTheModel == DynamicFileHoldsTheModel /\ StaticFileHoldsTheModel
=============================================================================
