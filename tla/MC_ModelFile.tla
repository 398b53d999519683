---------------------------- MODULE MC_ModelFile -----------------------------
(* The families of model files that TLC reads: each has its declarations and a
   few pieces that belong together, in every order the grammar allows. *)
EXTENDS ModFile

Piece(op, in) == [op |-> op, rank |-> 0, in |-> in, kind |-> "", bare |-> TRUE, name |-> ""]
End(op, kind) == [op |-> op, rank |-> 0, in |-> {}, kind |-> kind, bare |-> FALSE, name |-> ""]
Inner(op, in) == [Piece(op, in) EXCEPT !.bare = FALSE]
Ranked(r, t) == [t EXCEPT !.rank = r]
Alone(op) == [op |-> op, rank |-> 0, in |-> {}, kind |-> "", bare |-> TRUE, name |-> ""]
Command(kind) == [End("task", kind) EXCEPT !.bare = TRUE]
And(t, more) == more @@ t
Opt(kinds, class, name, value) == And(Piece("option", kinds), [class |-> class, name |-> name, value |-> value])
Listed(kinds, name) == And(Piece("symbol", kinds), [name |-> name])
Family(declared, pieces, longest, more) ==
  more @@ [declared |-> declared, pieces |-> pieces, longest |-> longest, equations |-> 1,
           varobs |-> <<>>, lags |-> [n \in {d[1] : d \in {declared[i] : i \in DOMAIN declared}} |-> 0]]

(* symbols and the model block *)
Declare(n, type) == And(Alone("declare"), [name |-> n, type |-> type])
Named(op, n) == And(Alone(op), [name |-> n])
Symbols == Family(<<<<"y", "endo">>, <<"p", "param">>>>,
  {Declare("x", "exo"), Declare("y", "exo"), Named("predetermined", "y"), And(Alone("varobs"), [names |-> <<"y">>]), Named("pound", "l"),
   Named("expression_variable", "w"), Named("expression_variable", "l"), Named("flag", "no_static"), Command("steady"),
   And(Alone("model_variable"), [name |-> "l", lag |-> 1]), And(Alone("model_variable"), [name |-> "p", lag |-> 0]),
   And(Alone("change_type"), [name |-> "p", type |-> "exo"]),
   And(Alone("steady_state_equal"), [name |-> "y", uses |-> {}]), And(Alone("steady_state_equal"), [name |-> "w", uses |-> {"y"}]),
   And(Alone("init_param"), [name |-> "p", value |-> 1])}, 3, <<>>)
Function(n, nargs, first, second) ==
  And(Alone("external_function"), [name |-> n, nargs |-> nargs, first |-> first, second |-> second])
Call(n, nargs, in_model) == And(Alone("call"), [name |-> n, nargs |-> nargs, in_model |-> in_model])
Functions_ == Family(<<<<"y", "endo">>>>,
  {Function("f", 1, "self", ""), Function("f", 1, "", ""), Function("f", 2, "g", ""), Function("g", 1, "", "g"),
   Call("f", 1, TRUE), Call("f", 2, TRUE), Call("h", 1, FALSE), Call("h", 1, TRUE)}, 4, <<>>)

(* initial and terminal values, shocks on the paths *)
InitValue(in, n, v) == And(Piece("init_val", in), [name |-> n, value |-> v])
EndOfConditions(kind) == And(End("end_conditions", kind), [all |-> FALSE])
Shock(in, n, elements) == And(Piece("det_shock", in), [name |-> n, elements |-> elements])
EndOfShocks(kind) == And(End("end_shocks", kind), [bare |-> FALSE])
Values == {"initval", "endval"}
Paths_ == Family(<<<<"y", "endo">>, <<"x", "exo">>>>,
  {Ranked(1, InitValue({"initval"}, "y", 1)), Ranked(2, InitValue({"initval"}, "x", 2)), Ranked(2, InitValue({"endval"}, "x", 3)),
   EndOfConditions("initval"), EndOfConditions("endval"), Ranked(1, Shock({"shocks"}, "x", <<<<1, 1, 4>>>>)),
   Ranked(1, Shock({"mshocks"}, "x", <<<<1, 1, 5>>, <<2, 2, 6>>>>)), EndOfShocks("shocks"), EndOfShocks("mshocks"),
   Command("simul")}, 7, <<>>)
Histories == Family(<<<<"y", "endo">>, <<"p", "param">>, <<"x", "exo">>, <<"z", "endo">>>>,
  {InitValue(Values, "y", 1), InitValue(Values, "x", 2), And(EndOfConditions("initval"), [all |-> TRUE]), EndOfConditions("endval"),
   And(Piece("hist_val", {"histval"}), [name |-> "z", lag |-> 0, value |-> 3]),
   And(Piece("hist_val", {"histval"}), [name |-> "y", lag |-> 0, value |-> 4]), EndOfConditions("histval"),
   And(Piece("homotopy_val", {"homotopy"}), [name |-> "x", value |-> 1, value2 |-> 2]), EndOfConditions("homotopy"),
   And(Alone("init_param"), [name |-> "p", value |-> 1]),
   And(Alone("load"), [content |-> <<<<"p", 2>>, <<"y", 3>>, <<"unknown", 4>>>>]), Command("simul")}, 5,
  [equations |-> 2, lags |-> [y |-> 1, z |-> 1, x |-> 0, p |-> 0]])

(* variances and covariances *)
Var(n, into, v) == And(Piece("var_shock", {"shocks"}), [name |-> n, into |-> into, value |-> v])
Cov(n, m, into, v) == And(Piece("covar_shock", {"shocks"}), [name |-> n, name2 |-> m, into |-> into, value |-> v])
Covariances == Family(<<<<"y", "endo">>, <<"e", "exo">>, <<"z", "endo">>, <<"u", "exo">>>>,
  {Ranked(1, Var("e", "var_shocks", 1)), Ranked(2, Var("u", "std_shocks", 2)), Ranked(3, Var("u", "var_shocks", 3)), Ranked(4, Cov("e", "u", "corr_shocks", 4)),
   Ranked(5, Cov("u", "e", "covar_shocks", 5)), Ranked(6, Var("y", "var_shocks", 6)), Ranked(7, Cov("y", "z", "corr_shocks", 7)), EndOfShocks("shocks")}, 6, [equations |-> 2, varobs |-> <<"z", "y">>])
RowPiece(row) == And(Piece("row", {"Sigma_e"}), [row |-> row])
Matrices == Family(<<<<"y", "endo">>, <<"e", "exo">>, <<"u", "exo">>>>,
  {RowPiece(<<1>>), RowPiece(<<2, 3>>), End("sigma_e", "Sigma_e"),
   Var("e", "var_shocks", 5), Cov("e", "u", "corr_shocks", 6), EndOfShocks("shocks"),
   And(Piece("det_shock", {"conditional_forecast_paths"}), [name |-> "y", elements |-> <<<<1, 2, 7>>>>]),
   Command("conditional_forecast_paths")}, 6, <<>>)

(* estimated parameters, priors, options and subsamples *)
Fields(v) == [init |-> v, low |-> 0, up |-> 9, prior |-> "beta", mean |-> v, std |-> 5]
Tables == {"estimated_params", "estimated_params_init", "estimated_params_bounds"}
Estimated_(type, n, m, v) == And(Piece("estimated", Tables), [type |-> type, name |-> n, name2 |-> m, fields |-> Fields(v)])
Estimation == Family(<<<<"y", "endo">>, <<"p", "param">>, <<"e", "exo">>, <<"u", "exo">>>>,
  {Estimated_(2, "p", "", 4), Estimated_(2, "p", "", 5), Estimated_(1, "e", "", 2), Estimated_(1, "y", "", 3), Estimated_(3, "e", "u", 1),
   Estimated_(3, "u", "e", 1), Estimated_(2, "dsge_prior_weight", "", 1),
   End("end_estimated", "estimated_params"), End("end_estimated", "estimated_params_init"), End("end_estimated", "estimated_params_bounds"),
   And(Piece("trend", {"observation_trends"}), [name |-> "y", value |-> 1]), End("task", "observation_trends")}, 4,
  [varobs |-> <<"y">>])
DsgeVar == Family(<<<<"y", "endo">>, <<"p", "param">>, <<"e", "exo">>>>,
  {Estimated_(2, "dsge_prior_weight", "", 1), End("end_estimated", "estimated_params"), Declare("dsge_prior_weight", "param"),
   And(Alone("init_param"), [name |-> "dsge_prior_weight", value |-> 2]),
   Ranked(1, Opt({"estimation"}, "str", "dsge_var", "estimated")), Ranked(2, Opt({"estimation"}, "num", "dsge_var", 3)), Ranked(3, Opt({"estimation"}, "num", "dsge_varlag", 1)),
   Ranked(4, Opt({"estimation"}, "num", "bayesian_irf", 1)), Ranked(5, Opt({"estimation"}, "str", "datafile", "file")), Command("estimation")}, 5,
  [varobs |-> <<"y">>])
Given_(op, name) == And(Piece(op, {"prior"}), [name |-> name])
Then(t) == [t EXCEPT !.bare = FALSE]
Mean == Then(Ranked(2, Opt({"prior"}, "num", "mean", 1)))
Stdev(v) == Then(Ranked(3, Opt({"prior"}, "num", "stdev", v)))
Attach(op, kind, type, names, sub) == And(End(op, kind), [type |-> type, names |-> names, sub |-> sub])
CopyOf(kind, type, names, sub, from_type, from, from_sub) ==
  And(Alone("copy"), [kind |-> kind, type |-> type, names |-> names, sub |-> sub,
                      from_type |-> from_type, from |-> from, from_sub |-> from_sub])
Range_(sub) == And(Piece("subsample", {"subsamples"}), [sub |-> sub, dates |-> <<1, 2>>])
Samples(names) == And(End("subsamples", "subsamples"), [names |-> names])
Priors == Family(<<<<"y", "endo">>, <<"p", "param">>, <<"e", "exo">>, <<"u", "exo">>>>,
  {Ranked(1, Given_("shape", "gamma")), Mean, Stdev(1), Stdev(2),
   Attach("prior", "prior", "corr", <<"e", "u">>, 0), Attach("prior", "prior", "corr", <<"u", "e">>, 0),
   And(Then(Ranked(3, Piece("variance", {"prior"}))), [value |-> 4]), Attach("prior", "prior", "par", <<"p">>, 0),
   CopyOf("copy_prior", "par", <<"p">>, 0, "corr", <<"u", "e">>, 0)}, 8, <<>>)
Subsampled == Family(<<<<"y", "endo">>, <<"p", "param">>, <<"e", "exo">>, <<"u", "exo">>>>,
  {Range_(1), Range_(2), Samples(<<"e", "u">>), Samples(<<"u", "e">>),
   And(Alone("copy_subsamples"), [kind |-> "copy_subsamples", names |-> <<"p">>, from |-> <<"e", "u">>]),
   [Attach("set_options", "options", "corr", <<"u", "e">>, 2) EXCEPT !.bare = TRUE],
   [Attach("set_options", "options", "par", <<"p">>, 2) EXCEPT !.bare = TRUE],
   CopyOf("copy_options", "corr", <<"e", "u">>, 1, "corr", <<"u", "e">>, 2),
   CopyOf("copy_prior", "corr", <<"e", "u">>, 1, "corr", <<"u", "e">>, 2)}, 6, <<>>)

(* structural VAR and Markov switching *)
Term(n, lag, left, v) == [name |-> n, lag |-> lag, left |-> left, value |-> v]
Exclusion(eq, names) == And(Inner("exclusion", {"svar_identification"}), [equation |-> eq, names |-> names])
Equality(eq, terms) == And(Inner("restriction", {"svar_identification"}), [equation |-> eq, terms |-> terms])
Identification_ == Family(<<<<"a", "endo">>, <<"b", "endo">>>>,
  {Piece("begin_svar", {"svar_identification"}), Exclusion(1, <<"a", "b">>), Exclusion(2, <<"b">>),
   And(Inner("exclusion_lag", {"svar_identification"}), [lag |-> 0]), And(Inner("exclusion_lag", {"svar_identification"}), [lag |-> 2]),
   Equality(1, <<Term("a", 0, TRUE, 2), Term("b", 0, FALSE, 3)>>), Equality(1, <<Term("b", 1, TRUE, 4)>>),
   And(Inner("cholesky", {"svar_identification"}), [name |-> "upper"]), End("end_svar", "svar_identification")}, 6,
  [equations |-> 2])
MarkovSwitching_ == Family(<<<<"a", "endo">>>>,
  {Opt({"markov_switching", "svar"}, "num", "ms.chain", 1), Opt({"markov_switching", "svar"}, "num", "ms.chain", 2),
   Opt({"markov_switching"}, "num", "ms.number_of_regimes", 2), Opt({"markov_switching"}, "num", "ms.duration", 1),
   Opt({"markov_switching"}, "seq", "ms.restrictions", <<<<1, 1, 4>>, <<1, 2, 6>>, <<2, 2, 5>>>>),
   Opt({"svar"}, "str", "ms.constants", "all"), Opt({"svar"}, "vec_int", "ms.equations", <<1>>),
   End("svar", "svar"), End("markov_switching", "markov_switching"),
   Opt({"ms_forecast"}, "num", "ms.regime", 1), Opt({"ms_forecast", "ms_irf"}, "num", "ms.regimes", 1),
   Command("ms_forecast"), Command("ms_irf")}, 5, <<>>)

(* the commands, and their orders of approximation *)
Ordered_(kinds, n) == Opt(kinds, "num", "order", n)
Policies == {"ramsey_policy", "discretionary_policy"}
PolicyPiece(kind) == And(End("policy", kind), [bare |-> TRUE])
Commands == Family(<<<<"y", "endo">>, <<"e", "exo">>>>,
  {Ranked(1, Ordered_({"stoch_simul", "estimation"}, 1)), Ranked(1, Ordered_({"stoch_simul", "estimation"}, 2)), Ranked(1, Ordered_({"stoch_simul"}, 3)),
   Ranked(2, Opt({"estimation"}, "str", "datafile", "file")), Ranked(3, Opt({"estimation"}, "num", "analytic_derivation", 1)),
   Command("stoch_simul"), Command("estimation"), Command("identification")}, 5, <<>>)
Rules == Family(<<<<"y", "endo">>, <<"e", "exo">>>>,
  {Ordered_(Policies, 1), Listed({"osr_params", "osr", "stoch_simul"}, "y"), Named("flag", "byte_code"),
   And(Piece("option_symbol_list", {"discretionary_policy"}), [name |-> "instruments"]), Listed({"discretionary_policy"}, "y"),
   And(Piece("planner_discount", Policies), [value |-> 3]), PolicyPiece("ramsey_policy"), PolicyPiece("discretionary_policy"), Command("planner_objective"),
   Command("osr"), Command("osr_params"), Command("stoch_simul"),
   And(Piece("weight", {"optim_weights"}), [name |-> "y", value |-> 1]),
   And(Piece("weight2", {"optim_weights"}), [name |-> "y", name2 |-> "y", value |-> 2]), End("task", "optim_weights")}, 4, <<>>)
Others == Family(<<<<"y", "endo">>, <<"d", "exo_det">>>>,
  {Opt({"data", "bvar_density", "dynare_sensitivity"}, "num", "nobs", 0), Opt({"data"}, "str", "file", "file"), Command("data"),
   Opt({"extended_path"}, "num", "periods", 1), Command("extended_path"), Command("bvar_density"), Command("forecast"), Command("plot_conditional_forecast"), Command("shock_decomposition"),
   Command("dynare_sensitivity"), Command("simul"), Command("model_info"),
   And(Piece("filename", {"model_comparison"}), [name |-> "first", value |-> 1]), Command("model_comparison"),
   And(Piece("optim_option", {"estimation"}), [name |-> "MaxIter", value |-> 2]), Command("estimation"), Command("check"), Command("calib_smoother")}, 3, <<>>)

MCFiles == [symbols |-> Symbols, functions |-> Functions_, paths |-> Paths_, histories |-> Histories,
            covariances |-> Covariances, matrices |-> Matrices, estimation |-> Estimation, dsge |-> DsgeVar,
            priors |-> Priors, subsampled |-> Subsampled, svar |-> Identification_, switching |-> MarkovSwitching_,
            commands |-> Commands, rules |-> Rules, others |-> Others]
EndvalFiles == [paths |-> Paths_]
=============================================================================
