----------------------------- MODULE ModelCode -----------------------------
(***************************************************************************)
(* writeModelEquationsCode of DynamicModel.cc and StaticModel.cc: the      *)
(* bytecode of a model that is not decomposed in blocks.                   *)
(*                                                                         *)
(* After the temporary terms and the residuals the code has two branches.  *)
(* When the model is solved, it puts the derivatives after the first n     *)
(* places of u and the constant terms of the linearised equations in the   *)
(* first n; when it is only evaluated, it fills the Jacobian.              *)
(*                                                                         *)
(* first_derivatives is a sequence of [eq, v, d] in the order of the map:  *)
(* equation, then variable.  A variable v is its node.                     *)
(***************************************************************************)
EXTENDS TemporaryTerms

CONSTANT Index        \* the type specific ID of each symbol
ASSUME IndexAssumption == \A s \in DOMAIN Index : Index[s] \in Nat

(* The instructions the two models use for the same purpose. *)
DynamicNames == [u |-> "FLDU", su |-> "FSTPU", v |-> "FLDV"]
StaticNames  == [u |-> "FLDSU", su |-> "FSTPSU", v |-> "FLDSV"]
LoadVariable(v, names) ==
  IF names.v = "FLDV" THEN <<"FLDV", v.type, v.symb, v.lag>> ELSE <<"FLDSV", v.type, v.symb>>

Derivatives(ds, type)  == SelectSeq(ds, LAMBDA x : x.v.type = type)
MarkOf(type) == IF type = "eEndogenous" THEN "FirstEndoDerivative" ELSE "FirstExoDerivative"
DerivativeMark(x)      == <<"FNUMEXPR", MarkOf(x.v.type), x.eq, x.v.symb, x.v.lag, 0, 0, 0, 0>>
StoreDerivatives(ds, n, names, c) ==
  FlattenSeq([i \in DOMAIN ds |-> << DerivativeMark(ds[i]) >> \o Compile(ds[i].d, c)
                                    \o << <<names.su, n + i>> >>])
(* r - sum of derivative times variable, for one equation. *)
ConstantTerm(ds, n, names, eq) ==
  LET at == SelectSeq([i \in DOMAIN ds |-> i], LAMBDA i : ds[i].eq = eq)
      product(k) == << <<names.u, n + at[k]>>, LoadVariable(ds[at[k]].v, names), <<"FBINARY", "oTimes">> >>
                      \o (IF k > 1 THEN << <<"FBINARY", "oPlus">> >> ELSE <<>>)
  IN << <<"FLDR", eq>> >> \o FlattenSeq([k \in DOMAIN at |-> product(k)])
       \o (IF at = <<>> THEN <<>> ELSE << <<"FBINARY", "oMinus">> >>) \o << <<names.su, eq>> >>
SolvePart(ds, n, names, c) ==
  StoreDerivatives(ds, n, names, c)
    \o FlattenSeq([eq \in 1..n |-> ConstantTerm(ds, n, names, eq)])

(* The Jacobian of the dynamic model: sorted by lag and variable, each     *)
(* pair of them a column.  The columns of the exogenous variables are      *)
(* counted apart.                                                          *)
ByColumn(ds) == SortSeq(ds, LAMBDA a, b : \/ a.v.lag < b.v.lag
                                          \/ a.v.lag = b.v.lag /\ Index[a.v.symb] < Index[b.v.symb]
                                          \/ a.v.lag = b.v.lag /\ a.v.symb = b.v.symb /\ a.eq < b.eq)
ColumnOf(ds, i) == Cardinality({<<ds[j].v.lag, ds[j].v.symb>> : j \in 1..i})
JacobianPart(ds, c) ==
  LET s == ByColumn(ds)
  IN FlattenSeq([i \in DOMAIN s |-> << DerivativeMark(s[i]) >> \o Compile(s[i].d, c)
       \o << <<"FSTPG3", s[i].eq, s[i].v.symb, s[i].v.lag, ColumnOf(s, i)>> >>])
StaticJacobianPart(ds, c) ==
  FlattenSeq([i \in DOMAIN ds |-> << DerivativeMark(ds[i]) >> \o Compile(ds[i].d, c)
       \o << <<"FSTPG2", ds[i].eq, ds[i].v.symb>> >>])

(* The lengths of the jumps are filled in when the branch they skip has    *)
(* been written; the first skips the second, too.                          *)
Branches_Short(solve, jacobian) ==
  << <<"FJMPIFEVAL", Len(solve)>> >> \o solve \o << <<"FJMP", Len(jacobian)>> >> \o jacobian
Branches(solve, jacobian) ==
  << <<"FJMPIFEVAL", Len(solve) + 1>> >> \o solve \o << <<"FJMP", Len(jacobian)>> >> \o jacobian

SimulationType(maxLag, maxLead) ==
  CASE maxLag > 0 /\ maxLead > 0 -> "SOLVE_TWO_BOUNDARIES_COMPLETE"
    [] maxLead = 0 -> "SOLVE_FORWARD_COMPLETE"
    [] OTHER -> "SOLVE_BACKWARD_COMPLETE"
ModelBlock(n, type, columns, exogenous) ==
  FBeginBlock([size |-> n, first |-> 0, type |-> type, variable |-> [i \in 1..n |-> i],
    equation |-> [i \in 1..n |-> i], is_linear |-> FALSE, endo_nbr |-> n, Max_Lag |-> 0,
    Max_Lead |-> 0, u_count_int |-> 0, nb_col_jacob |-> columns, det_exogenous |-> <<>>,
    exogenous |-> exogenous, other_endogenous |-> <<>>, nb_col_other_endo_jacob |-> 0])

(* terms: the code of the temporary terms; c: the context after them.      *)
EquationsCode(eqs, c) == FlattenSeq([i \in DOMAIN eqs |-> CompileEquation(eqs[i], i, c)])
DynamicBody(eqs, endo, exo, terms, c, type) ==
  << <<"FDIMT", Len(c.temps)>>,
     <<"FBEGINBLOCK", ModelBlock(Len(eqs), type, ColumnOf(ByColumn(endo), Len(endo)), <<1>>)>> >>
    \o terms \o EquationsCode(eqs, c) \o << <<"FENDEQU">> >>
    \o Branches(SolvePart(endo, Len(eqs), DynamicNames, c), JacobianPart(endo, c) \o JacobianPart(exo, c))
    \o << <<"FENDBLOCK">>, <<"FEND">> >>
DynamicModelCode(eqs, ds, ts, tt, type) ==      \* tt: CompileTemporaryTerms(ts, TRUE)
  DynamicBody(eqs, Derivatives(ds, "eEndogenous"), Derivatives(ds, "eExogenous"), tt.code,
              [tt.c EXCEPT !.temps = ts], type)

StaticBody(eqs, endo, terms, c) ==
  << <<"FDIMST", Len(c.temps)>>,
     <<"FBEGINBLOCK", ModelBlock(Len(eqs), "SOLVE_FORWARD_COMPLETE", Len(eqs), <<>>)>> >>
    \o terms \o EquationsCode(eqs, c) \o << <<"FENDEQU">> >>
    \o Branches(SolvePart(endo, Len(eqs), StaticNames, c), StaticJacobianPart(endo, c))
    \o << <<"FENDBLOCK">>, <<"FEND">> >>
StaticModelCode(eqs, ds, ts, tt) ==
  StaticBody(eqs, Derivatives(ds, "eEndogenous"), tt.code, [tt.c EXCEPT !.temps = ts])
=============================================================================
