---------------------------- MODULE ParsingDriver ----------------------------
(* ParsingDriver.cc: the parser calls one handler for each piece of a model file.
   A handler checks the symbols it is given, and either keeps the piece in a
   buffer of the driver, or adds a statement made of what the buffers hold. The
   grammar (DynareBison.yy) is only the order in which pieces may come. *)
EXTENDS Integers, Sequences, FiniteSetsExt
Ext == INSTANCE SequencesExt

CONSTANT Files    \* the families of model files: their declarations and the pieces of their text

VARIABLES file,        \* the family this file belongs to
          text,        \* ghost: the pieces parsed so far
          open,        \* the grammar: the statements that may end what has been read
          symbols,     \* the symbol table: id i-1 is at position i
          mod_file,    \* the fields of ModFile the driver sets
          scratch,     \* the driver's buffers
          statements,  \* mod_file->statements
          phase        \* parsing, or the pass ModFile is at, or "error"
parsed == <<file, text, open, symbols, mod_file, scratch, statements>>

(* Maps. f @@ g is g but for what f says of it; x :> v says v of x and nothing else.
   (Those of TLC, which the prover does not know.) *)
f @@ g == [x \in DOMAIN f \cup DOMAIN g |-> IF x \in DOMAIN f THEN f[x] ELSE g[x]]
x :> v == [y \in {x} |-> v]

None == <<>>
Empty == [options |-> None, symbol_list |-> <<>>, init_values |-> <<>>, hist_values |-> None,
          homotopy_values |-> <<>>, det_shocks |-> None, var_shocks |-> None, std_shocks |-> None,
          covar_shocks |-> None, corr_shocks |-> None,
          restriction_symbols |-> <<>>, equation_restrictions |-> None, ident_restrictions |-> <<>>,
          Qi_nbr |-> None, Ri_nbr |-> None, cholesky |-> {},
          sigmae_matrix |-> <<>>, estim_params |-> <<>>, subsamples |-> None, declared_subsamples |-> None,
          prior_shape |-> "none", prior_variance |-> 0,
          trend_elements |-> None, var_weights |-> None, covar_weights |-> None,
          filename_list |-> <<>>, external |-> None]

-----------------------------------------------------------------------------
(* The symbol table *)
Known(n)  == \E i \in DOMAIN symbols : symbols[i][1] = n
IdOf(n)   == CHOOSE i \in DOMAIN symbols : symbols[i][1] = n
TypeOf(n) == symbols[IdOf(n)][2]
IsA(n, types) == Known(n) /\ TypeOf(n) \in types
Shockable == {"exo", "exo_det"}
Variables == {"endo"} \cup Shockable
Observed(n) == n \in Range(mod_file.varobs)

(* A piece is an element of the statements t.in, or ends statement t.kind. With t.bare it may
   come first; a statement that has an opening of its own begins with it. *)
Follows(t) == IF t.in # {} THEN (open = {} /\ t.bare) \/ (open \cap t.in # {} /\ t.op # "begin_svar")
                           ELSE t.kind \in open \/ (open = {} /\ t.bare)
(* bound: the ranked elements of one statement come once, in the order of their ranks *)
InTurn(t) == open # {} /\ t.in # {} /\ t.rank > 0 => text[Len(text)].rank < t.rank
(* A handler reads one piece of the text; an error ends the run of the program. *)
Reads(t, op) == /\ phase = "parsing" /\ t.op = op /\ Len(text) < Files[file].longest /\ Follows(t)
                /\ InTurn(t)
                /\ text' = Append(text, t)
                /\ open' = IF open = {} THEN t.in ELSE open \cap t.in
                /\ file' = file
Only(ok, changes) == IF ok THEN changes /\ phase' = phase
                           ELSE phase' = "error" /\ UNCHANGED <<symbols, mod_file, scratch, statements>>
Buffers(f, value) == /\ scratch' = [scratch EXCEPT ![f] = value]
                     /\ UNCHANGED <<symbols, mod_file, statements>>
Keep(ok, f, value) == Only(ok, Buffers(f, value))
With(g, x, v) == (x :> v) @@ g
(* a map entry that must be new *)
Enters(ok, f, x, v) == Keep(ok /\ x \notin DOMAIN scratch[f], f, With(scratch[f], x, v))
Sets(f, value) == /\ mod_file' = [mod_file EXCEPT ![f] = value]
                  /\ UNCHANGED <<symbols, scratch, statements>>
(* addStatement with what the buffers `taken' hold, which are cleared, and the arguments given *)
Adds_KeepsOptions(kind, taken, args) ==
  /\ statements' = Append(statements, [kind |-> kind, of |-> [f \in taken |-> scratch[f]] @@ args])
  /\ scratch' = [f \in DOMAIN scratch |-> IF f \in taken \ {"cholesky", "declared_subsamples", "options"} THEN Empty[f] ELSE scratch[f]]
  /\ UNCHANGED <<symbols, mod_file>>
Adds(kind, taken, args) ==
  /\ statements' = Append(statements, [kind |-> kind, of |-> [f \in taken |-> scratch[f]] @@ args])
  /\ scratch' = [f \in DOMAIN scratch |-> IF f \in taken \ {"cholesky", "declared_subsamples"} THEN Empty[f] ELSE scratch[f]]
  /\ UNCHANGED <<symbols, mod_file>>

(* declare_symbol, declare_endogenous, ..: a second declaration with the same type is only warned of *)
EnterIn(table, n, type) == IF \E i \in DOMAIN table : table[i][1] = n THEN table ELSE Append(table, <<n, type>>)
Enter(n, type) == EnterIn(symbols, n, type)
DeclareSymbol(t) ==
  /\ Reads(t, "declare")
  /\ Only(Known(t.name) => TypeOf(t.name) = t.type,
          symbols' = Enter(t.name, t.type) /\ UNCHANGED <<mod_file, scratch, statements>>)

AddPredeterminedVariable(t) ==
  /\ Reads(t, "predetermined")
  /\ Only(IsA(t.name, {"endo"}), Sets("predetermined", mod_file.predetermined \cup {t.name}))

(* A variable of the model: the node remembers the symbol, not its type *)
Use(n) == Append(mod_file.nodes, <<n, TypeOf(n)>>)
AddModelVariable(t) ==
  /\ Reads(t, "model_variable")
  /\ Only(Known(t.name) /\ TypeOf(t.name) \notin {"modfile_local", "external"}
            /\ (TypeOf(t.name) = "model_local" => t.lag = 0),
          Sets("nodes", Use(t.name)))
(* ... and of an expression outside the model: an unknown name is a local variable of the file *)
AddExpressionVariable(t) ==
  /\ Reads(t, "expression_variable")
  /\ Only(~IsA(t.name, {"model_local"}),
          /\ symbols' = Enter(t.name, "modfile_local")
          /\ mod_file' = [mod_file EXCEPT !.nodes =
               Append(@, <<t.name, IF Known(t.name) THEN TypeOf(t.name) ELSE "modfile_local">>)]
          /\ UNCHANGED <<scratch, statements>>)

ModelLocalVariable(t) ==
  /\ Reads(t, "pound")
  /\ Only((Known(t.name) => TypeOf(t.name) = "model_local") /\ t.name \notin mod_file.locals,
          /\ symbols' = Enter(t.name, "model_local")
          /\ mod_file' = [mod_file EXCEPT !.locals = @ \cup {t.name}]
          /\ UNCHANGED <<scratch, statements>>)

(* change_type looks at the nodes of expressions_tree and dynamic_model only *)
Used(n) == n \in mod_file.locals \/ \E i \in DOMAIN mod_file.nodes : mod_file.nodes[i][1] = n
ChangeType(t) ==
  /\ Reads(t, "change_type")
  /\ Only(Known(t.name) /\ ~Used(t.name),
          symbols' = [symbols EXCEPT ![IdOf(t.name)][2] = t.type] /\ UNCHANGED <<mod_file, scratch, statements>>)

AddSteadyStateModelEqual(t) ==
  /\ Reads(t, "steady_state_equal")
  /\ Only(Known(t.name) => TypeOf(t.name) \in {"endo", "modfile_local", "param"},
          /\ symbols' = Enter(t.name, "modfile_local")
          /\ mod_file' = [mod_file EXCEPT !.steady_state = Append(@, <<t.name, t.uses>>)]
          /\ UNCHANGED <<scratch, statements>>)

(* check_varobs and add_varobs, for each of the names *)
AddVarobs(t) ==
  /\ Reads(t, "varobs")
  /\ Only(mod_file.varobs = <<>> /\ \A i \in DOMAIN t.names : IsA(t.names[i], {"endo"}), Sets("varobs", t.names))

ModelFlag(t) == Reads(t, "flag") /\ Only(TRUE, Sets("flags", mod_file.flags \cup {t.name}))

-----------------------------------------------------------------------------
(* Initial and terminal conditions *)
InitParam(t) == Reads(t, "init_param") /\ Only(IsA(t.name, {"param"}),
                  Adds("init_param", {}, [id |-> IdOf(t.name), value |-> t.value]))
InitVal(t) == /\ Reads(t, "init_val")
              /\ Keep(IsA(t.name, Variables), "init_values", Append(scratch.init_values, <<IdOf(t.name), t.value>>))
(* the model must have the variable at that date: hist_val dates a lag of the model from 0 *)
HistVal(t) == /\ Reads(t, "hist_val")
              /\ Enters(IsA(t.name, Variables) /\ -Files[file].lags[t.name] =< t.lag - 1,
                        "hist_values", <<IdOf(t.name), t.lag>>, t.value)
HomotopyVal(t) == /\ Reads(t, "homotopy_val")
                  /\ Keep(IsA(t.name, {"param"} \cup Shockable), "homotopy_values",
                          Append(scratch.homotopy_values, <<IdOf(t.name), t.value, t.value2>>))
(* end_initval, end_endval, end_histval, end_homotopy *)
EndConditions(t) ==
  /\ Reads(t, "end_conditions")
  /\ Only(TRUE, Adds(t.kind, CASE t.kind \in {"initval", "endval"} -> {"init_values"}
                              [] t.kind = "histval" -> {"hist_values"}
                              [] t.kind = "homotopy" -> {"homotopy_values"}, [all |-> t.all]))

-----------------------------------------------------------------------------
(* Shocks *)
EndShocks(t) ==
  /\ Reads(t, "end_shocks")
  /\ Only(TRUE, Adds(t.kind, IF t.kind = "shocks"
                              THEN {"det_shocks", "var_shocks", "std_shocks", "covar_shocks", "corr_shocks"}
                              ELSE {"det_shocks"}, None))
(* add_period, add_value, add_expectation_pf and add_det_shock: t.elements are <<period1, period2, value>> *)
AddDetShock(t) ==
  /\ Reads(t, "det_shock")
  /\ Enters(/\ IsA(t.name, IF "conditional_forecast_paths" \in t.in THEN {"endo"} ELSE Shockable)
             /\ \A i \in DOMAIN t.elements : t.elements[i][1] =< t.elements[i][2],
            "det_shocks", IdOf(t.name), t.elements)
Calibrated(n) == IsA(n, {"exo"}) \/ (Known(n) /\ Observed(n))
SamePairType(n, m) == \/ IsA(n, {"exo"}) /\ IsA(m, {"exo"})
                      \/ Known(n) /\ Known(m) /\ Observed(n) /\ Observed(m)
NoVariance(n) == IdOf(n) \notin DOMAIN scratch.var_shocks \cup DOMAIN scratch.std_shocks
NoCovariance(n, m) == {<<IdOf(n), IdOf(m)>>, <<IdOf(m), IdOf(n)>>}
                        \cap (DOMAIN scratch.covar_shocks \cup DOMAIN scratch.corr_shocks) = {}
(* add_stderr_shock, add_var_shock *)
AddVarShock(t) ==
  /\ Reads(t, "var_shock")
  /\ Enters(Calibrated(t.name) /\ NoVariance(t.name), t.into, IdOf(t.name), t.value)
(* add_covar_shock, add_correl_shock *)
AddCovarShock(t) ==
  /\ Reads(t, "covar_shock")
  /\ Enters(SamePairType(t.name, t.name2) /\ NoCovariance(t.name, t.name2),
            t.into, <<IdOf(t.name), IdOf(t.name2)>>, t.value)
AddRow(t) == Reads(t, "row") /\ Keep(TRUE, "sigmae_matrix", Append(scratch.sigmae_matrix, t.row))
Lower(m) == \A i \in DOMAIN m : Len(m[i]) = i
Upper(m) == \A i \in DOMAIN m : Len(m[i]) = Len(m) + 1 - i
DoSigmaE(t) == Reads(t, "sigma_e") /\ Only(Lower(scratch.sigmae_matrix) \/ Upper(scratch.sigmae_matrix),
                                          Adds("Sigma_e", {"sigmae_matrix"}, None))

-----------------------------------------------------------------------------
(* Restrictions of a structural VAR *)
BeginSvarIdentification(t) == Reads(t, "begin_svar") /\ Keep(TRUE, "cholesky", {})
EndSvarIdentification(t) ==
  /\ Reads(t, "end_svar")
  /\ Only(TRUE, Adds("svar_identification",
                     {"ident_restrictions", "cholesky", "restriction_symbols", "equation_restrictions", "Qi_nbr", "Ri_nbr"}, None))
Nbr(f, n) == IF n \in DOMAIN f THEN f[n] ELSE 0
SetOrder(S) == CHOOSE q \in [1..Cardinality(S) -> S] : \A i, j \in DOMAIN q : i < j => q[i] < q[j]
(* add_in_svar_restriction_symbols and add_restriction_in_equation *)
AddRestrictionInEquation(t) ==
  /\ Reads(t, "exclusion")
  /\ Enters(t.equation >= 1 /\ (\A k \in DOMAIN t.names : Known(t.names[k])) /\ IsInjective(t.names),
            "equation_restrictions", t.equation, [i \in DOMAIN t.names |-> IdOf(t.names[i])])
(* combine_lag_and_restriction: one restriction for each variable excluded from an equation *)
Excluded_FromOne(lag, eq, from) == [i \in DOMAIN scratch.equation_restrictions[eq] |->
  [equation |-> eq, nbr |-> i, lag |-> lag, variable |-> scratch.equation_restrictions[eq][i], value |-> 1]]
Excluded(lag, eq, from) == [i \in DOMAIN scratch.equation_restrictions[eq] |->
  [equation |-> eq, nbr |-> from + i, lag |-> lag, variable |-> scratch.equation_restrictions[eq][i], value |-> 1]]
CombineLagAndRestriction(t) ==
  LET eqs == DOMAIN scratch.equation_restrictions
      count == IF t.lag > 0 THEN "Ri_nbr" ELSE "Qi_nbr"
      new == Ext!FlattenSeq([k \in 1..Cardinality(eqs) |-> Excluded(t.lag, SetOrder(eqs)[k], Nbr(scratch[count], SetOrder(eqs)[k]))])
  IN /\ Reads(t, "exclusion_lag")
     /\ Only(\A i \in DOMAIN scratch.ident_restrictions : scratch.ident_restrictions[i].lag # t.lag,
             /\ scratch' = [scratch EXCEPT
                  !.ident_restrictions = @ \o new,
                  ![count] = [eq \in eqs |-> Nbr(@, eq) + Len(scratch.equation_restrictions[eq])] @@ @,
                  !.cholesky = @ \ {"upper", "lower"},
                  !.equation_restrictions = None]
             /\ UNCHANGED <<symbols, mod_file, statements>>)
(* add_restriction_equation_nbr, add_restriction_equal, add_restriction_element: a
   restriction is a sum of coefficients, all of them of the period or all of them lagged *)
Element(t, i, nbr) == [equation |-> t.equation, nbr |-> nbr, lag |-> t.terms[i].lag, variable |-> IdOf(t.terms[i].name),
                       value |-> IF t.terms[i].left THEN t.terms[i].value ELSE -t.terms[i].value]
AddRestriction(t) ==
  LET count == IF t.terms[1].lag = 0 THEN "Qi_nbr" ELSE "Ri_nbr"
      nbr == Nbr(scratch[count], t.equation) + 1
  IN /\ Reads(t, "restriction")
     /\ Only(\A k \in DOMAIN t.terms : Known(t.terms[k].name) /\ (t.terms[k].lag = 0) = (t.terms[1].lag = 0),
             /\ scratch' = [scratch EXCEPT
                  !.ident_restrictions = @ \o [i \in DOMAIN t.terms |-> Element(t, i, nbr)],
                  ![count] = With(@, t.equation, nbr)]
             /\ UNCHANGED <<symbols, mod_file, statements>>)
(* upper_cholesky, lower_cholesky, exclusion constants *)
AddCholesky(t) == Reads(t, "cholesky") /\ Keep(TRUE, "cholesky", scratch.cholesky \cup {t.name})

-----------------------------------------------------------------------------
(* Options and lists of symbols, and the commands that take them *)
OptionNum(t) == Reads(t, "option") /\ Enters(t.class = "vec_int" => t.value # <<>>, "options", <<t.class, t.name>>, t.value)
OptionSymbolList(t) ==
  /\ Reads(t, "option_symbol_list")
  /\ Only(/\ <<"symbol_list", t.name>> \notin DOMAIN scratch.options
          /\ t.name = "irf_shocks" => \A i \in DOMAIN scratch.symbol_list : IsA(scratch.symbol_list[i], {"exo"}),
          /\ scratch' = [scratch EXCEPT !.options = With(@, <<"symbol_list", t.name>>, scratch.symbol_list),
                                        !.symbol_list = <<>>]
          /\ UNCHANGED <<symbols, mod_file, statements>>)
AddInSymbolList(t) == Reads(t, "symbol") /\ Keep(Known(t.name), "symbol_list", Append(scratch.symbol_list, t.name))
OptimOptions(t) ==
  LET key == <<"str", "optim_opt">> IN
  /\ Reads(t, "optim_option")
  /\ Keep(TRUE, "options", With(scratch.options, key,
          (IF key \in DOMAIN scratch.options THEN scratch.options[key] ELSE <<>>) \o <<t.name, t.value>>))

Ends(t, kinds, taken) == t.kind \in kinds /\ Adds(t.kind, taken, None)
Both == {"options", "symbol_list"}
(* rplot, stoch_simul, simul, model_info, check *)
EndSimulation(t) == /\ Reads(t, "task") /\ phase' = phase
                    /\ \/ Ends(t, {"simul", "model_info", "check"}, {"options"})
                       \/ Ends(t, {"rplot", "stoch_simul"}, Both)
(* steady *)
EndSteady(t) == Reads(t, "task") /\ Ends(t, {"steady"}, {"options"}) /\ phase' = phase
Forecast(t) == Reads(t, "task") /\ Ends(t, {"forecast"}, Both) /\ phase' = phase
(* add_estimated_params_element *)
AddEstimatedParamsElement(t) ==
  /\ Reads(t, "estimated")
  /\ Keep(t.name # "dsge_prior_weight" => Known(t.name) /\ (t.name2 # "" => Known(t.name2)),
          "estim_params", Append(scratch.estim_params, <<t.type, t.name, t.name2, t.fields>>))
EndEstimatedParams(t) ==
  /\ Reads(t, "end_estimated")
  /\ Ends(t, {"estimated_params", "estimated_params_init", "estimated_params_bounds"}, {"estim_params"}) /\ phase' = phase
(* set_time, estimation_data *)
EstimationData(t) == Reads(t, "task") /\ Ends(t, {"set_time", "data"}, {"options"}) /\ phase' = phase
(* run_estimation, dynare_sensitivity *)
RunEstimation(t) == /\ Reads(t, "task") /\ phase' = phase
                    /\ \/ Ends(t, {"estimation"}, Both)
                       \/ Ends(t, {"dynare_sensitivity"}, {"options"})
SetTrendElement(t) == Reads(t, "trend") /\ Enters(Known(t.name), "trend_elements", t.name, t.value)
SetTrends(t) == Reads(t, "task") /\ Ends(t, {"observation_trends"}, {"trend_elements"}) /\ phase' = phase
(* set_optim_weights of a variance, and of a covariance *)
SetOptimWeight(t) == Reads(t, "weight") /\ Enters(IsA(t.name, {"endo"}), "var_weights", t.name, t.value)
SetOptimCovariance(t) == /\ Reads(t, "weight2")
                         /\ Enters(IsA(t.name, {"endo"}) /\ IsA(t.name2, {"endo"}),
                                   "covar_weights", <<t.name, t.name2>>, t.value)
EndOptimWeights(t) == Reads(t, "task") /\ Ends(t, {"optim_weights"}, {"var_weights", "covar_weights"}) /\ phase' = phase
(* set_osr_params, run_osr, dynatype, dynasave, identification *)
RunOsr(t) == /\ Reads(t, "task") /\ phase' = phase
             /\ \/ Ends(t, {"osr_params", "dynatype", "dynasave"}, {"symbol_list"})
                \/ Ends(t, {"osr"}, Both)
                \/ Ends(t, {"identification"}, {"options"})
AddMcFilename(t) == Reads(t, "filename") /\ Keep(\A i \in DOMAIN scratch.filename_list : scratch.filename_list[i][1] # t.name,
                                               "filename_list", Append(scratch.filename_list, <<t.name, t.value>>))
RunModelComparison(t) == /\ Reads(t, "task") /\ phase' = phase
                         /\ Ends(t, {"model_comparison"}, {"filename_list", "options"})
PlannerObjective(t) == Reads(t, "task") /\ Ends(t, {"planner_objective"}, {}) /\ phase' = phase
(* declare_optimal_policy_discount_factor_parameter: a parameter and its value, by the option
   planner_discount, which no declaration nor another policy may have preceded *)
Discount == "optimal_policy_discount_factor"
InitialDiscount(v) == [kind |-> "init_param", of |-> [id |-> Len(symbols) + 1, value |-> v]]
PlannerDiscount(t) ==
  /\ Reads(t, "planner_discount")
  /\ Only(~Known(Discount),
          /\ symbols' = Enter(Discount, "param")
          /\ statements' = Append(statements, InitialDiscount(t.value))
          /\ UNCHANGED <<mod_file, scratch>>)
(* ramsey_policy, discretionary_policy: the discount factor is 1 when none was given *)
OptimalPolicy(t) ==
  /\ Reads(t, "policy")
  /\ statements' = statements \o (IF Known(Discount) THEN <<>> ELSE <<InitialDiscount(1)>>)
       \o <<[kind |-> t.kind, of |-> [f \in Both |-> scratch[f]]]>>
  /\ symbols' = Enter(Discount, "param")
  /\ scratch' = [scratch EXCEPT !.options = None, !.symbol_list = <<>>]
  /\ UNCHANGED <<mod_file, phase>>
(* bvar_density to ms_variance_decomposition *)
RunBvar(t) == /\ Reads(t, "task") /\ phase' = phase
              /\ \/ Ends(t, {"bvar_density", "bvar_forecast", "sbvar", "ms_estimation", "ms_simulation", "ms_compute_mdd",
                             "ms_compute_probabilities", "ms_forecast", "ms_variance_decomposition"}, {"options"})
                 \/ Ends(t, {"ms_irf"}, Both)
Option(class, name) == <<class, name>> \in DOMAIN scratch.options
Positive(name) == Option("num", name) /\ scratch.options[<<"num", name>>] > 0
Svar(t) == /\ Reads(t, "svar")
           /\ Only(/\ Cardinality({o \in {"ms.coefficients", "ms.variances", "ms.constants"} : Option("str", o)}) = 1
                   /\ Positive("ms.chain")
                   /\ Option("vec_int", "ms.equations") =>
                        \A i \in DOMAIN scratch.options[<<"vec_int", "ms.equations">>] : scratch.options[<<"vec_int", "ms.equations">>][i] > 0,
                   Adds("svar", {"options"}, None))
MarkovSwitching(t) == /\ Reads(t, "markov_switching")
                      /\ Only(Positive("ms.chain") /\ Positive("ms.number_of_regimes") /\ Option("num", "ms.duration"),
                              Adds("markov_switching", {"options"}, None))
(* shock_decomposition to extended_path *)
RunForecasts(t) == /\ Reads(t, "task") /\ phase' = phase
                   /\ \/ Ends(t, {"shock_decomposition", "calib_smoother"}, Both)
                      \/ Ends(t, {"conditional_forecast", "extended_path"}, {"options"})
                      \/ Ends(t, {"plot_conditional_forecast"}, {"symbol_list"})
                      \/ Ends(t, {"conditional_forecast_paths"}, {"det_shocks"})

-----------------------------------------------------------------------------
(* Priors and options of the estimated objects, by subsample: "par", "std" or "corr" of one or two symbols *)
Estimable(type, names) == \A i \in DOMAIN names : IsA(names[i], IF type = "par" THEN {"param"} ELSE Variables)
Reversed(names) == [i \in DOMAIN names |-> names[Len(names) + 1 - i]]
(* set_subsample_name_equal_to_date_range *)
SubsampleRange(t) == Reads(t, "subsample") /\ Enters(TRUE, "subsamples", t.sub, t.dates)
SetSubsamples(t) ==
  /\ Reads(t, "subsamples")
  /\ Only(\A i \in DOMAIN t.names : Known(t.names[i]),
          /\ statements' = Append(statements, [kind |-> "subsamples", of |-> [names |-> t.names, ranges |-> scratch.subsamples]])
          /\ scratch' = [scratch EXCEPT !.declared_subsamples = With(@, t.names, scratch.subsamples), !.subsamples = None]
          /\ UNCHANGED <<symbols, mod_file>>)
CopySubsamples(t) ==
  /\ Reads(t, "copy_subsamples")
  /\ Only(/\ \A i \in DOMAIN t.names : Known(t.names[i])
          /\ t.from \in DOMAIN scratch.declared_subsamples,
          /\ statements' = Append(statements, [kind |-> "copy_subsamples", of |-> [names |-> t.names, from |-> t.from]])
          /\ scratch' = [scratch EXCEPT !.declared_subsamples = With(@, t.names, @[t.from])]
          /\ UNCHANGED <<symbols, mod_file>>)
(* check_subsample_declaration_exists; subsample 0 is the whole sample *)
SubsampleDeclared(names, sub) ==
  LET d == scratch.declared_subsamples IN
  sub # 0 => IF names \in DOMAIN d THEN sub \in DOMAIN d[names]
                                    ELSE Reversed(names) \in DOMAIN d /\ sub \in DOMAIN d[Reversed(names)]
Shape(t) == Reads(t, "shape") /\ Keep(TRUE, "prior_shape", t.name)
Variance(t) == Reads(t, "variance") /\ Keep(TRUE, "prior_variance", t.value)
(* set_prior, set_std_prior, set_corr_prior *)
SetPrior(t) == /\ Reads(t, "prior")
               /\ Only(Estimable(t.type, t.names) /\ SubsampleDeclared(t.names, t.sub),
                       Adds("prior", {"prior_shape", "prior_variance", "options"},
                            [type |-> t.type, names |-> t.names, sub |-> t.sub]))
(* set_options, set_std_options, set_corr_options *)
SetOptions(t) == /\ Reads(t, "set_options")
                 /\ Only(Estimable(t.type, t.names) /\ SubsampleDeclared(t.names, t.sub),
                         Adds("options", {"options"}, [type |-> t.type, names |-> t.names, sub |-> t.sub]))
(* copy_prior, copy_options *)
Copy(t) == /\ Reads(t, "copy")
           /\ Only(Estimable(t.type, t.names) /\ Estimable(t.from_type, t.from),
                   Adds(t.kind, {}, [type |-> t.type, names |-> t.names, sub |-> t.sub,
                                     from_type |-> t.from_type, from |-> t.from, from_sub |-> t.from_sub]))

-----------------------------------------------------------------------------
(* External functions: "self" is a derivative that the function itself provides *)
Resolve(t, d) == IF d = "self" THEN t.name ELSE d
Provided(t) == [nargs |-> t.nargs, first |-> Resolve(t, t.first), second |-> Resolve(t, t.second)]
EnterFunction(table, n) == IF n = "" THEN table ELSE EnterIn(table, n, "external")
EnterFunctions(t) == EnterFunction(EnterFunction(EnterFunction(symbols, t.name), Resolve(t, t.first)), Resolve(t, t.second))
(* addExternalFunction *)
Consistent(t) ==
  LET p == Provided(t) IN
  /\ p.second = t.name => p.first = t.name
  /\ p.first = t.name => p.second \in {"", t.name}
  /\ p.second # "" => p.first # ""
  /\ p.first = p.second => p.first \in {"", t.name}
Compatible(t) == t.name \in DOMAIN mod_file.external =>
                   mod_file.external[t.name].nargs = 0 \/ mod_file.external[t.name] = Provided(t)
AddExternalFunction(t, p) == [mod_file EXCEPT !.external = With(@, t.name, p)]
(* external_function_option, external_function *)
ExternalFunction(t) ==
  /\ Reads(t, "external_function")
  /\ Only(/\ \A n \in {t.name, Provided(t).first, Provided(t).second} \ {""} : Known(n) => TypeOf(n) = "external"
          /\ Consistent(t) /\ Compatible(t),
          symbols' = EnterFunctions(t) /\ mod_file' = AddExternalFunction(t, Provided(t)) /\ UNCHANGED <<scratch, statements>>)
(* add_model_var_or_external_function, of a name that is no variable: the number of
   arguments of a function that was only called outside the model is not recorded (0) *)
CallFunction(t) ==
  /\ Reads(t, "call")
  /\ Only(IF Known(t.name)
          THEN t.name \in DOMAIN mod_file.external /\ (t.in_model => mod_file.external[t.name].nargs = t.nargs)
          ELSE ~t.in_model,
          /\ symbols' = Enter(t.name, "external")
          /\ mod_file' = [(IF Known(t.name) THEN mod_file
                           ELSE AddExternalFunction(t, [nargs |-> 0, first |-> "", second |-> ""]))
                         EXCEPT !.calls = IF t.in_model THEN @ \cup {<<t.name, t.nargs>>} ELSE @]
          /\ UNCHANGED <<scratch, statements>>)

(* run_load_params_and_steady_state: unknown names are only warned of *)
LoadParams(t) == /\ Reads(t, "load") /\ phase' = phase
                 /\ Adds("load_params", {}, [content |-> SelectSeq(t.content, LAMBDA c : Known(c[1]))])
=============================================================================
