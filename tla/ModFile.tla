------------------------------- MODULE ModFile -------------------------------
(* ModFile.cc: what happens to a model file once it has been read. checkPass goes
   through the statements and then looks at the whole file, transformPass and
   computingPass prepare the model, and writeOutputFiles writes the script, one
   statement after the other. Here a line does to the workspace what it will do
   when MATLAB runs it. *)
EXTENDS Statements

VARIABLES notes,     \* mod_file_struct
          done,      \* the statements written
          computed,  \* the derivatives computed
          ws         \* the workspace of the script
vars == <<parsed, phase, notes, done, computed, ws>>

Init ==
  /\ file \in DOMAIN Files
  /\ symbols = Files[file].declared
  /\ mod_file = [predetermined |-> {}, varobs |-> Files[file].varobs, nodes |-> <<>>, locals |-> {}, steady_state |-> <<>>,
                 flags |-> {}, external |-> None, calls |-> {}]
  /\ text = <<>> /\ open = {} /\ scratch = Empty /\ statements = <<>> /\ phase = "parsing"
  /\ notes = NoNotes /\ done = 0 /\ computed = {} /\ ws = None

(* Kinds of commands, and those that pass the options they are given to the script *)
Stochastic == {"stoch_simul", "estimation", "osr", "ramsey_policy", "discretionary_policy"}
Bvar == {"bvar_density", "bvar_forecast", "sbvar", "ms_estimation", "ms_simulation", "ms_compute_mdd",
         "ms_compute_probabilities", "ms_irf", "ms_forecast", "ms_variance_decomposition"}
Optioned == Stochastic \cup Bvar \cup {"simul", "check", "identification", "calib_smoother", "model_comparison"}

(* What the handlers keep of the pieces of a statement: where an element goes, and what the
   statement of each kind takes. *)
Elements == {"option", "option_symbol_list", "init_val", "hist_val", "homotopy_val", "det_shock", "var_shock", "covar_shock",
             "row", "estimated", "trend", "weight", "weight2", "filename", "symbol"}
Filled(t) ==
  CASE t.op \in {"option", "option_symbol_list", "optim_option"} -> "options"
    [] t.op \in {"var_shock", "covar_shock"} -> t.into
    [] t.op = "symbol" -> "symbol_list"
    [] t.op = "init_val" -> "init_values"
    [] t.op = "hist_val" -> "hist_values"
    [] t.op = "homotopy_val" -> "homotopy_values"
    [] t.op = "det_shock" -> "det_shocks"
    [] t.op = "row" -> "sigmae_matrix"
    [] t.op = "estimated" -> "estim_params"
    [] t.op = "trend" -> "trend_elements"
    [] t.op = "weight" -> "var_weights"
    [] t.op = "weight2" -> "covar_weights"
    [] t.op = "filename" -> "filename_list"
Taken(kind) ==
  CASE kind \in {"rplot", "stoch_simul", "forecast", "estimation", "osr", "ms_irf", "shock_decomposition", "calib_smoother",
                 "ramsey_policy", "discretionary_policy"} -> Both
    [] kind \in (Bvar \ {"ms_irf"}) \cup {"simul", "model_info", "check", "steady", "set_time", "data", "dynare_sensitivity",
                 "identification", "svar", "markov_switching", "conditional_forecast", "extended_path", "prior", "options"} -> {"options"}
    [] kind \in {"osr_params", "dynatype", "dynasave", "plot_conditional_forecast"} -> {"symbol_list"}
    [] kind \in {"initval", "endval"} -> {"init_values"}
    [] kind = "histval" -> {"hist_values"}
    [] kind = "homotopy" -> {"homotopy_values"}
    [] kind = "shocks" -> {"det_shocks", "var_shocks", "std_shocks", "covar_shocks", "corr_shocks"}
    [] kind \in {"mshocks", "conditional_forecast_paths"} -> {"det_shocks"}
    [] kind = "Sigma_e" -> {"sigmae_matrix"}
    [] kind \in {"estimated_params", "estimated_params_init", "estimated_params_bounds"} -> {"estim_params"}
    [] kind = "observation_trends" -> {"trend_elements"}
    [] kind = "optim_weights" -> {"var_weights", "covar_weights"}
    [] kind = "model_comparison" -> {"filename_list", "options"}
    [] OTHER -> {}

(* What the grammar, DynareBison.yy, says of the pieces of a file: an element belongs to
   statements that take what it leaves, and only the commands that approximate the model take
   an order; what ends a statement is no part of one, and a command ends where its list of
   options does. (The lists of symbols that only an option of conditional_forecast, sbvar or
   dynare_sensitivity may hold are left out.) *)
Endings == {"task", "policy", "svar", "markov_switching", "prior", "set_options"}
Closings == Endings \cup {"end_conditions", "end_shocks", "sigma_e", "end_estimated"}
(* what stands before the text declares a name once, and observes endogenous variables *)
DeclaredOnce(f) == /\ f.declared \in Seq(Range(f.declared))
                   /\ \A i, j \in DOMAIN f.declared : f.declared[i][1] = f.declared[j][1] => i = j
                   /\ \A n \in Range(f.varobs) : \E i \in DOMAIN f.declared : f.declared[i] = <<n, "endo">>
ASSUME FilesAssumption ==
  \A f \in DOMAIN Files : Files[f].equations \in Nat /\ DeclaredOnce(Files[f]) /\ \A t \in Files[f].pieces :
    /\ t.op \in Elements \cup {"optim_option"} => t.in # {} /\ \A kind \in t.in : Filled(t) \in Taken(kind)
    /\ t.op = "option" => /\ <<t.class, t.name>> = <<"num", "order">> => t.in \subseteq Stochastic /\ t.value \in Nat
                          /\ <<t.class, t.name>> # <<"str", "optim_opt">>
    /\ t.op = "planner_discount" => t.in # {} /\ t.in \subseteq {"ramsey_policy", "discretionary_policy"}
    /\ t.op \in Closings \cup {"end_svar", "init_param", "load", "copy", "subsamples", "copy_subsamples"} => t.in = {}
    /\ t.kind \in Optioned => t.op \in {"task", "policy"}
    /\ t.in = {} /\ Taken(t.kind) # {} => t.op \in Closings
    /\ t.op = "end_conditions" => t.kind \in {"initval", "endval", "histval", "homotopy"}
    /\ t.op = "end_shocks" => t.kind \in {"shocks", "mshocks"}
    /\ t.op = "policy" => t.kind \in {"ramsey_policy", "discretionary_policy"}
    /\ t.op = "sigma_e" => t.kind = "Sigma_e"
    /\ t.op = "set_options" => t.kind = "options"
    /\ t.op \in {"svar", "markov_switching", "prior"} => t.kind = t.op
    /\ t.op = "var_shock" => t.into \in {"var_shocks", "std_shocks"}
    /\ t.op = "covar_shock" => t.into \in {"covar_shocks", "corr_shocks"}

Handlers(t) ==
  \/ DeclareSymbol(t) \/ AddPredeterminedVariable(t) \/ AddModelVariable(t) \/ AddExpressionVariable(t)
  \/ ModelLocalVariable(t) \/ ChangeType(t) \/ AddSteadyStateModelEqual(t) \/ AddVarobs(t) \/ ModelFlag(t)
  \/ InitParam(t) \/ InitVal(t) \/ HistVal(t) \/ HomotopyVal(t) \/ EndConditions(t)
  \/ EndShocks(t) \/ AddDetShock(t) \/ AddVarShock(t) \/ AddCovarShock(t) \/ AddRow(t) \/ DoSigmaE(t)
  \/ BeginSvarIdentification(t) \/ EndSvarIdentification(t) \/ AddRestrictionInEquation(t)
  \/ CombineLagAndRestriction(t) \/ AddRestriction(t) \/ AddCholesky(t)
  \/ OptionNum(t) \/ OptionSymbolList(t) \/ AddInSymbolList(t) \/ OptimOptions(t)
  \/ EndSimulation(t) \/ EndSteady(t) \/ Forecast(t) \/ AddEstimatedParamsElement(t) \/ EndEstimatedParams(t)
  \/ EstimationData(t) \/ RunEstimation(t) \/ SetTrendElement(t) \/ SetTrends(t)
  \/ SetOptimWeight(t) \/ SetOptimCovariance(t) \/ EndOptimWeights(t) \/ RunOsr(t)
  \/ AddMcFilename(t) \/ RunModelComparison(t) \/ PlannerObjective(t)
  \/ PlannerDiscount(t) \/ OptimalPolicy(t)
  \/ RunBvar(t) \/ Svar(t) \/ MarkovSwitching(t) \/ RunForecasts(t)
  \/ SubsampleRange(t) \/ SetSubsamples(t) \/ CopySubsamples(t) \/ Shape(t) \/ Variance(t)
  \/ SetPrior(t) \/ SetOptions(t) \/ Copy(t) \/ ExternalFunction(t) \/ CallFunction(t) \/ LoadParams(t)
Parse == /\ \E t \in Files[file].pieces : Handlers(t)
         /\ UNCHANGED <<notes, done, computed, ws>>
EndOfFile == /\ phase = "parsing" /\ open = {} /\ phase' = "checking"
             /\ UNCHANGED <<parsed, notes, done, computed, ws>>

-----------------------------------------------------------------------------
(* checkPass of each statement, by the class of the statement *)
CheckPass(s, m) ==
  CASE s.kind \in {"steady", "check", "simul", "model_info"} -> CheckTasks(s, m)
    [] s.kind = "stoch_simul" -> StochSimulCheckPass(s, m)
    [] s.kind = "ramsey_policy" -> RamseyCheckPass(s, m)
    [] s.kind = "discretionary_policy" -> DiscretionaryCheckPass(s, m)
    [] s.kind = "estimation" -> EstimationCheckPass(s, m)
    [] s.kind = "dynare_sensitivity" -> SensitivityCheckPass(s, m)
    [] s.kind = "estimated_params" -> EstimatedParamsCheckPass(s, m)
    [] s.kind \in {"osr_params", "osr"} -> OsrCheckPass(s, m)
    [] s.kind \in Bvar -> BvarCheckPass(s, m)
    [] s.kind = "identification" -> IdentificationCheckPass(s, m)
    [] s.kind = "svar_identification" -> SvarIdentificationCheckPass(s, m)
    [] s.kind = "markov_switching" -> MarkovSwitchingCheckPass(s, m)
    [] s.kind = "data" -> EstimationDataCheckPass(s, m)
    [] s.kind = "prior" -> PriorCheckPass(s, m)
    [] s.kind = "options" -> CorrOptionsCheckPass(s, m)
    [] s.kind \in {"shocks", "mshocks"} -> ShocksCheckPass(s, m)
    [] s.kind = "conditional_forecast_paths" -> ConditionalPathsCheckPass(s, m)
    [] s.kind = "init_param" -> InitParamCheckPass(s, m)
    [] s.kind = "initval" -> InitvalCheckPass(s, m)
    [] s.kind = "endval" -> EndvalCheckPass(s, m)
    [] s.kind = "extended_path" -> Fails(m, ~Given(s, "num", "periods"))
    [] s.kind \in {"optim_weights", "planner_objective", "histval"} -> Notes(m, {s.kind})
    [] OTHER -> m
(* one after the other: a statement sees the notes of those before it *)
NotesAfter(i) ==
  LET after[k \in 0..i] == IF k = 0 THEN NoNotes ELSE CheckPass(statements[k], after[k - 1]) IN after[i]
CheckStatements ==
  /\ phase = "checking"
  /\ notes' = NotesAfter(Len(statements))
  /\ phase' = IF notes'.ok THEN "checked" ELSE "error"
  /\ UNCHANGED <<parsed, done, computed, ws>>

(* SteadyStateModel::checkPass: nothing is defined twice, nor before what it uses *)
Before(i) == {mod_file.steady_state[k][1] : k \in 1..(i - 1)}
DefinedInOrder ==
  \A i \in DOMAIN mod_file.steady_state :
     /\ mod_file.steady_state[i][1] \notin Before(i)
     /\ "ramsey_policy" \in notes.present \/
        {n \in mod_file.steady_state[i][2] : TypeOf(n) \in {"endo", "modfile_local"}} \subseteq Before(i)
(* ModFile::checkPass: the commands and options that do not go together *)
Present(kinds) == notes.present \cap kinds # {}
Flagged(flags) == mod_file.flags \cap flags # {}
Weight == "dsge_prior_weight"
WeightMisused ==
  \/ "dsge_var_estimated" \in notes.present /\ "dsge_weight_estimated" \notin notes.present
  \/ /\ Known(Weight)
     /\ \/ TypeOf(Weight) # "param"
        \/ "dsge_var_estimated" \in notes.present \/ notes.calibrated # 0
        \/ ("dsge_weight_initialized" \in notes.present) = ("dsge_weight_estimated" \in notes.present)
  \/ /\ "dsge_weight_estimated" \in notes.present /\ "dsge_var_estimated" \notin notes.present
     /\ notes.calibrated # 0 \/ ~Known(Weight)
Incompatible ==
  \/ Files[file].equations = 0 /\ Present({"check", "simul"} \cup Stochastic)
  \/ Present({"ramsey_policy", "discretionary_policy"}) # Present({"planner_objective"})
  \/ Cardinality(notes.present \cap {"osr", "osr_params", "optim_weights"}) \in {1, 2}
  \/ Present({"simul"}) /\ Present(Stochastic)
  \/ Present({"k_order_solver"}) /\ Flagged({"byte_code"})
  \/ Flagged({"use_dll"}) /\ Flagged({"block", "byte_code"})
  \/ Flagged({"block", "byte_code"}) /\ mod_file.locals # {}
  \/ Flagged({"no_static"}) /\ Present(Stochastic \cup {"check", "steady"})
CheckFile ==
  /\ phase = "checked"
  /\ notes' = [notes EXCEPT !.order_option = IF @ = 0 THEN 2 ELSE @]
  /\ phase' = IF DefinedInOrder /\ ~Incompatible /\ ~WeightMisused THEN "transforming" ELSE "error"
  /\ UNCHANGED <<parsed, done, computed, ws>>

-----------------------------------------------------------------------------
(* transformPass, but for the equations: the weight of a DSGE-VAR is a parameter of its
   own, set first; then the numbers of equations and of variables are compared *)
WeightWanted == "dsge_var_estimated" \in notes.present \/ notes.calibrated # 0
NumberOf(type, table) == Cardinality({i \in DOMAIN table : table[i][2] = type})
Square(table) == \/ Present({"ramsey_policy", "discretionary_policy"})
                 \/ Present({"bvar"}) /\ Files[file].equations = 0
                 \/ Files[file].equations = NumberOf("endo", table)
EnoughShocks(table) ==
  LET observed == Len(mod_file.varobs) IN
  \/ \A i \in DOMAIN table : table[i][1] # Weight
  \/ IF Present({"bayesian_irf"}) THEN NumberOf("exo", table) = observed ELSE NumberOf("exo", table) >= observed
TransformFile ==
  /\ phase = "transforming"
  /\ symbols' = IF WeightWanted THEN Enter(Weight, "param") ELSE symbols
  /\ statements' = IF notes.calibrated = 0 THEN statements
                   ELSE <<[kind |-> "init_param", of |-> [id |-> Len(symbols'), value |-> notes.calibrated]]>> \o statements
  /\ phase' = IF /\ WeightWanted => ~Known(Weight)
                 /\ Square(symbols') /\ EnoughShocks(symbols')
                 /\ NumberOf("exo_det", symbols') > 0 => ~Present({"simul", "ramsey_policy"})
              THEN "computing" ELSE "error"
  /\ UNCHANGED <<file, text, open, mod_file, scratch, notes, done, computed, ws>>

(* computingPass: the derivatives that the statements need *)
ByParameters == Present({"identification", "analytic_derivation"})
If(condition, what) == IF condition THEN {what} ELSE {}
StaticDerivatives == IF Flagged({"no_static"}) THEN {}
                     ELSE {"static_jacobian"} \cup (IF ByParameters THEN {"static_hessian", "static_params"} ELSE {})
Requested == Present({"simul", "check", "stoch_simul", "estimation", "osr", "ramsey_policy", "identification"})
OrderWrong == /\ Files[file].equations > 0 /\ Requested /\ ~Present({"simul"})
              /\ notes.order_option \notin 1..3
Derivatives ==
  IF Files[file].equations = 0 THEN {}
  ELSE IF ~Requested THEN {"jacobian", "hessian"} \cup StaticDerivatives
  ELSE IF Present({"simul"}) THEN {"jacobian"} \cup StaticDerivatives
  ELSE {"jacobian"} \cup StaticDerivatives \cup If(ByParameters, "params")
         \cup If(notes.order_option >= 2 \/ ByParameters, "hessian")
         \cup If(notes.order_option = 3 \/ Present({"analytic_derivation"}), "third")
ComputeFile ==
  /\ phase = "computing"
  /\ computed' = Derivatives
  /\ phase' = IF OrderWrong THEN "error" ELSE "writing"
  /\ ws' = [k \in {<<"Sigma_e", i, j>> : i, j \in 1..NumberOf("exo", symbols)}
                  \cup {<<"H", i, j>> : i, j \in DOMAIN mod_file.varobs} |-> <<"value", 0>>]
  /\ UNCHANGED <<parsed, notes, done>>

-----------------------------------------------------------------------------
(* writeOutput of each statement *)
Order(n, w) == (<<"options_", "num", "order">> :> n) @@ w
EstimationWrite(s, w) == IF Given(s, "num", "order") THEN WriteOptions(s, w) ELSE Order(1, WriteOptions(s, w))
(* simul.m: the paths are built, or completed; the endogenous variables begin at
   their history, at the steady state there was before endval, or at the one there is *)
SimulWrite(s, w) ==
  LET start == IF <<"ys0_">> \in DOMAIN w THEN w[<<"ys0_">>] ELSE Row(w, "steady_state", "endo")
      History(r) == [c \in 1..Width("endo") |-> At(w, <<"endo_histval", c, r>>)]
      past == IF \E k \in DOMAIN w : k[1] = "endo_histval" THEN [r \in 1..MaxLag |-> History(r)] ELSE Copies(MaxLag, start)
  IN IF (\E k \in DOMAIN w : k[1] = "endo_histval") /\ <<"ys0_">> \in DOMAIN w THEN Stop(w)
     ELSE [k \in {<<p[1]>> : p \in Paths} |-> MakeEx(w, CHOOSE p \in Paths : p[1] = k[1])] @@
          (<<"endo_simul">> :> past \o Copies(Periods + 1, Row(w, "steady_state", "endo"))) @@ WriteOptions(s, w)
EstimatedWrite(s, w) ==
  CASE s.kind = "estimated_params" -> EstimatedParamsWrite(s, w)
    [] s.kind \in {"estimated_params_init", "estimated_params_bounds"} -> EstimatedParamsInitWrite(s, w)
    [] s.kind = "subsamples" -> SubsamplesWrite(s, w, SetOrder(DOMAIN s.of.ranges))
    [] s.kind = "copy_subsamples" -> CopySubsamplesWrite(s, w)
    [] s.kind = "prior" -> PriorWrite(s, w)
    [] s.kind = "options" -> SetOptionsWrite(s, w)
    [] s.kind \in {"copy_prior", "copy_options"} -> CopyWrite(s, w)
    [] s.kind = "estimation" -> EstimationWrite(s, w)
    [] s.kind = "calib_smoother" -> Order(1, WriteOptions(s, w))
    [] s.kind = "data" -> WriteGroup(s, w, "dataset")
ConditionsWrite(s, w) ==
  CASE s.kind = "init_param" -> InitParamWrite(s, w)
    [] s.kind = "initval" -> InitvalWrite(s, w)
    [] s.kind = "endval" -> EndvalWrite(s, w)
    [] s.kind = "histval" -> HistvalWrite(s, w)
    [] s.kind = "homotopy" -> HomotopyWrite(s, w)
    [] s.kind = "load_params" -> LoadParamsWrite(s, w)
    [] s.kind = "shocks" -> ShocksWrite(s, w)
    [] s.kind = "mshocks" -> DetShocksWrite(s, w)
    [] s.kind = "conditional_forecast_paths" -> ConditionalPathsWrite(s, w)
    [] s.kind = "Sigma_e" -> SigmaEWrite(s, w)
    [] s.kind = "simul" -> SimulWrite(s, w)
(* identification and dynare_sensitivity have options of their own, but for how graphs are shown *)
Shown == {<<"num", "nodisplay">>, <<"num", "nograph">>, <<"str", "graph_format">>}
OwnOptionsWrite(s, w, group) ==
  [k \in {<<"options_", o[1], o[2]>> : o \in DOMAIN s.of.options \cap Shown} |-> s.of.options[<<k[2], k[3]>>]] @@ WriteGroup(s, w, group)
(* what extended_path computes is left out, as what the other commands do *)
ExtendedPathWrite(s, w) == IF Given(s, "num", "solver_periods") THEN (<<"options_", "num", "ep.periods">> :> Num(s, "solver_periods")) @@ w ELSE w
CommandsWrite(s, w) ==
  CASE s.kind = "observation_trends" -> TrendsWrite(s, w)
    [] s.kind = "osr_params" -> OsrParamsWrite(s, w)
    [] s.kind = "optim_weights" -> OptimWeightsWrite(s, w)
    [] s.kind = "osr" -> Order(1, WriteOptions(s, w))
    [] s.kind = "model_comparison" -> ModelComparisonWrite(s, w)
    [] s.kind = "svar_identification" -> SvarIdentificationWrite(s, w)
    [] s.kind = "markov_switching" -> MarkovSwitchingWrite(s, w)
    [] s.kind = "svar" -> SvarWrite(s, w)
    [] s.kind \in Bvar -> BvarWrite(s, w)
    [] s.kind = "identification" -> OwnOptionsWrite(s, w, "options_ident")
    [] s.kind = "dynare_sensitivity" -> OwnOptionsWrite(s, w, "options_gsa")
    [] s.kind = "conditional_forecast" -> WriteGroup(s, w, "options_cond_fcst_")
    [] s.kind = "extended_path" -> ExtendedPathWrite(s, w)
    [] OTHER -> IF "options" \in DOMAIN s.of THEN WriteOptions(s, w) ELSE w
Estimated == {"estimated_params", "estimated_params_init", "estimated_params_bounds", "subsamples", "copy_subsamples",
              "prior", "options", "copy_prior", "copy_options", "estimation", "calib_smoother", "data"}
Conditions == {"init_param", "initval", "endval", "histval", "homotopy", "load_params", "shocks", "mshocks",
               "conditional_forecast_paths", "Sigma_e", "simul"}
WriteStatement ==
  /\ phase = "writing" /\ done < Len(statements)
  /\ ws' = LET s == statements[done + 1] IN
           IF s.kind \in Estimated THEN EstimatedWrite(s, ws)
           ELSE IF s.kind \in Conditions THEN ConditionsWrite(s, ws) ELSE CommandsWrite(s, ws)
  /\ done' = IF <<"stopped">> \in DOMAIN ws' THEN Len(statements) ELSE done + 1
  /\ UNCHANGED <<parsed, phase, notes, computed>>

Next == Parse \/ EndOfFile \/ CheckStatements \/ CheckFile \/ TransformFile \/ ComputeFile \/ WriteStatement
Spec == Init /\ [][Next]_vars

-----------------------------------------------------------------------------
(* What a text says. The piece that ends the statement of piece i: *)
Closer(i) == CHOOSE j \in i..Len(text) : text[j].in = {} /\ \A k \in i..(j - 1) : text[k].in # {}
ClosersOf(kinds) == {j \in DOMAIN text : text[j].kind \in kinds}
PiecesOf(j, ops) == {i \in 1..j : text[i].op \in ops /\ Closer(i) = j}
LastOf(P) == CHOOSE i \in P : \A k \in P : k =< i
ValueFrom(P, field, otherwise) == IF P = {} THEN otherwise ELSE text[LastOf(P)][field]
Wrote(kinds) == phase = "writing" /\ done > 0 /\ statements[done].kind \in kinds /\ <<"stopped">> \notin DOMAIN ws

(* Each statement has what was written in its own block or command and nothing that
   was left over from another one: ParsingDriver fills the same buffers for all of
   them, and each handler that adds a statement has to clear the ones it took. *)
Buffered == {"options", "symbol_list", "init_values", "hist_values", "homotopy_values", "det_shocks", "var_shocks", "std_shocks",
             "covar_shocks", "corr_shocks", "sigmae_matrix", "estim_params", "trend_elements", "var_weights",
             "covar_weights", "filename_list"}
Contents(s) == UNION {{f} \X DOMAIN s.of[f] : f \in DOMAIN s.of \cap Buffered}
(* the symbols before an option that takes them are in the option *)
InOption(i, j) == text[i].op = "symbol" /\ \E k \in i..j : text[k].op = "option_symbol_list"
StatementsHoldTheirPieces ==
  LET last == Len(text)  n == Len(statements) IN
  phase = "parsing" /\ open = {} /\ last > 0 /\ n > 0 =>
    (text[last].kind = statements[n].kind =>
       Cardinality(Contents(statements[n])) = Cardinality({i \in PiecesOf(last, Elements) : ~InOption(i, last)})
                                 + (IF PiecesOf(last, {"optim_option"}) = {} THEN 0 ELSE 1))

(* The paths that simul starts from: the exogenous variables have the values of initval
   before the first period and those of endval, or else of initval, from then on, except
   where a shock says otherwise; the endogenous variables begin at their history. Four
   statements each add a part of it, to arrays that the others have to find complete. *)
Mentioned(n, kinds) == {i \in DOMAIN text : text[i].op = "init_val" /\ text[i].name = n /\ Closer(i) \in ClosersOf(kinds)}
StartOf(n) == ValueFrom(Mentioned(n, {"initval"}), "value", 0)
EndOf(n) == ValueFrom(Mentioned(n, {"initval", "endval"}), "value", 0)
Covering(t, r) == {e \in Range(t.elements) : e[1] + MaxLag =< r /\ r =< e[2] + MaxLag}
Shocks(i, n, r) == text[i].op = "det_shock" /\ text[i].name = n /\ Covering(text[i], r) # {}
ExpectedShock(n, r, base) ==
  LET value[i \in 0..Len(text)] ==
        IF i = 0 THEN base ELSE IF ~Shocks(i, n, r) THEN value[i - 1]
        ELSE LET given == (CHOOSE e \in Covering(text[i], r) : TRUE)[3]
             IN IF text[Closer(i)].kind = "mshocks" THEN value[i - 1] * given ELSE given
  IN value[Len(text)]
ExpectedPath(n, r) == ExpectedShock(n, r, IF r =< MaxLag THEN StartOf(n) ELSE EndOf(n))
History(n, r) == {i \in DOMAIN text : text[i].op = "hist_val" /\ text[i].name = n /\ text[i].lag + MaxLag = r}
ExpectedStart(n, r) == IF r > MaxLag THEN EndOf(n) ELSE IF ClosersOf({"histval"}) = {} THEN StartOf(n) ELSE ValueFrom(History(n, r), "value", 0)
Rank(kind) == CASE kind = "initval" -> 1 [] kind = "endval" -> 2 [] kind \in {"shocks", "mshocks"} -> 3 [] kind = "simul" -> 4
InUsualOrder ==
  LET ends == ClosersOf({"initval", "endval", "shocks", "mshocks", "simul"}) IN
  /\ \A i, j \in ends : i < j => Rank(text[i].kind) =< Rank(text[j].kind)
  /\ \A i \in DOMAIN text : text[i].op # "load"
  /\ \A i \in ClosersOf({"histval"}), j \in ClosersOf({"simul"}) : i < j
  /\ Cardinality(ClosersOf({"endval"})) =< 1 /\ Cardinality(ClosersOf({"histval"})) =< 1 /\ Cardinality(ClosersOf({"simul"})) = 1
NameOf(type, c) == symbols[CHOOSE i \in DOMAIN symbols : symbols[i][2] = type /\ Tsid(i) = c][1]
PathsAsDeclared ==
  Wrote({"simul"}) /\ InUsualOrder =>
    /\ ws[<<"exo_simul">>] = [r \in 1..Full |-> [c \in 1..Width("exo") |-> ExpectedPath(NameOf("exo", c), r)]]
    /\ ws[<<"endo_simul">>] = [r \in 1..Full |-> [c \in 1..Width("endo") |-> ExpectedStart(NameOf("endo", c), r)]]

(* The covariances: what a text says of two names is what both halves of M_.Sigma_e, or
   of M_.H, hold in the end, and a correlation is scaled by the variances declared in
   its block or before it, wherever in the block it is written. *)
Pair(t) == IF t.op = "var_shock" THEN {t.name} ELSE {t.name, t.name2}
Calibrations(pair) == {i \in DOMAIN text : text[i].op \in {"var_shock", "covar_shock"} /\ Pair(text[i]) = pair}
(* the pieces of one block are not in an order: those of the last block count *)
LastBlock(P) == {i \in P : \A k \in P : Closer(k) =< Closer(i)}
VarianceIn(t) == <<IF t.into = "std_shocks" THEN "square" ELSE "value", t.value>>
VarianceFrom(P) == IF P = {} THEN <<"value", 0>> ELSE VarianceIn(text[CHOOSE i \in LastBlock(P) : TRUE])
Upto(pair, j) == {i \in Calibrations(pair) : Closer(i) =< j}
VarianceAt(n, j) == VarianceFrom(Upto({n}, j))
ExpectedCell(n, m) ==
  LET P == Calibrations({n, m}) IN
  IF P = {} THEN <<"value", 0>>
  ELSE IF n = m THEN VarianceAt(n, Len(text))
  ELSE LET i == CHOOSE i \in LastBlock(P) : TRUE
       IN IF text[i].into = "covar_shocks" THEN <<"value", text[i].value>>
          ELSE <<"corr", text[i].value, {VarianceAt(n, Closer(i)), VarianceAt(m, Closer(i))}>>
(* a covariance is of two names, and names keep their types and are observed once *)
ProperPairs ==
  /\ \A i \in DOMAIN text : /\ text[i].op # "change_type"
                            /\ text[i].op = "covar_shock" => text[i].name # text[i].name2
  /\ IsInjective(mod_file.varobs)
CovariancesAsDeclared ==
  /\ phase = "writing" /\ done = Len(statements) /\ <<"stopped">> \notin DOMAIN ws
  /\ ClosersOf({"Sigma_e"}) = {} /\ ProperPairs
  => /\ \A c, d \in 1..Width("exo") : ws[<<"Sigma_e", c, d>>] = ExpectedCell(NameOf("exo", c), NameOf("exo", d))
     /\ \A c, d \in DOMAIN mod_file.varobs : ws[<<"H", c, d>>] = ExpectedCell(mod_file.varobs[c], mod_file.varobs[d])

(* The derivatives that a command asks of the model have been computed. The order of
   approximation is an option that stays from one command to the next, estimation and osr
   change it on their own, and ModFile only knows the largest order that was written: a
   stoch_simul that relies on the default is safe when no other command gives an order.
   simul with identification, and identification without the static model or without a
   model at all, are accepted and go without. *)
DefaultOrder(w) == IF <<"options_", "num", "order">> \in DOMAIN w THEN w[<<"options_", "num", "order">>] ELSE 2
UpTo(order) == {"jacobian"} \cup If(order >= 2, "hessian") \cup If(order >= 3, "third")
Analytic(s) == s.kind = "estimation" /\ Num(s, "analytic_derivation") = 1
Needed(s) == (IF s.kind \in {"stoch_simul", "estimation"} THEN UpTo(DefaultOrder(ws)) ELSE {"jacobian"})
               \cup (IF s.kind = "identification" \/ Analytic(s) THEN {"hessian", "params", "static_hessian", "static_params"} ELSE {})
Computing == {"simul", "check", "stoch_simul", "estimation", "osr", "ramsey_policy", "discretionary_policy", "identification"}
GivesOrder(s) == Given(s, "num", "order") \/ s.kind \in {"estimation", "osr"}
ReliesOnDefault(j) == statements[j].kind = "stoch_simul" /\ \A k \in 1..j : statements[k].kind \in Computing => ~GivesOrder(statements[k])
OrderKnown == \/ \A j \in DOMAIN statements : ~ReliesOnDefault(j)
              \/ \A k \in DOMAIN statements : statements[k].kind \in Computing => ~Given(statements[k], "num", "order")
DerivativesSuffice ==
  /\ Wrote(Computing) /\ OrderKnown /\ ~Present({"simul"}) /\ ~Flagged({"no_static"})
  /\ Files[file].equations = 0 => ~Present({"identification"})
  => Needed(statements[done]) \subseteq computed
(* doc/dynare.texi of endval: "If some variables, endogenous or exogenous, are not
   mentionned in the endval block, a zero value is assumed" *)
UnmentionedAreZero ==
  Wrote({"endval"}) =>
    \A type \in {"endo", "exo"} : \A c \in 1..Width(type) :
       Mentioned(NameOf(type, c), {"endval"}) = {} => At(ws, <<IF type = "endo" THEN "steady_state" ELSE "exo_steady_state", c>>) = 0

(* The identifying restrictions of a structural VAR: each exclusion and each equality is a
   row of its own in the matrix of its equation and of its kind, with the coefficients
   that were written. The rows are numbered while the file is read, by three handlers. *)
Written(i, group, eq) ==
  LET t == text[i] IN
  IF t.op = "restriction" /\ t.equation = eq /\ (t.terms[1].lag = 0) = (group = "Qi")
  THEN <<{<<t.terms[k].name, t.terms[k].lag, IF t.terms[k].left THEN t.terms[k].value ELSE -t.terms[k].value>> : k \in DOMAIN t.terms}>>
  ELSE IF t.op = "exclusion_lag" /\ (t.lag = 0) = (group = "Qi")
  THEN LET since == {k \in 1..(i - 1) : text[k].op = "exclusion_lag"}
           mine == {k \in 1..(i - 1) : text[k].op = "exclusion" /\ text[k].equation = eq /\ \A j \in since : j < k}
       IN IF mine = {} THEN <<>>
          ELSE LET names == text[CHOOSE k \in mine : TRUE].names IN [k \in DOMAIN names |-> {<<names[k], t.lag, 1>>}]
  ELSE <<>>
Declared(group, eq) == Ext!FlattenSeq([i \in DOMAIN text |-> Written(i, group, eq)])
InColumn(c) == <<NameOf("endo", ((c - 1) % Width("endo")) + 1), (c - 1) \div Width("endo")>>
RowOf(group, eq, row) ==
  {LET at == InColumn(k[4]) IN <<at[1], IF group = "Qi" THEN 0 ELSE at[2] + 1, ws[k]>> :
     k \in {k \in DOMAIN ws : k[1] = group /\ k[2] = eq /\ k[3] = row}}
RowsOf(group, eq) == {k[3] : k \in {k \in DOMAIN ws : k[1] = group /\ k[2] = eq}}
RestrictionsKept ==
  Wrote({"svar_identification"}) /\ statements[done].of.cholesky \cap {"upper", "lower"} = {} =>
    \A group \in {"Qi", "Ri"}, eq \in 1..Width("endo") :
      \A rows \in {Declared(group, eq)} :
        RowsOf(group, eq) = DOMAIN rows /\ \A row \in DOMAIN rows : RowOf(group, eq, row) = rows[row]

(* What is known of the estimated objects. A prior and its options are attached to a
   parameter, to a standard deviation or to a correlation, for the whole sample or for
   one subsample, and can be copied from one to another. The script finds them by their
   position in indices that grow in the order of the text, where the two names of a
   correlation may come in either order and a subsample is a number: read back by name,
   they are what was last written. New subsamples begin without priors. *)
Object(what, names, sub) == [what |-> what, of |-> Range(names), sub |-> sub]
OptionsOf(i) == LET given == PiecesOf(i, {"option"}) IN
  [k \in {<<text[g].class, text[g].name>> : g \in given} |-> text[CHOOSE g \in given : <<text[g].class, text[g].name>> = k].value]
ContentOf(i) == IF text[i].op = "prior"
                THEN <<ValueFrom(PiecesOf(i, {"shape"}), "name", "none"), ValueFrom(PiecesOf(i, {"variance"}), "value", 0), OptionsOf(i)>>
                ELSE <<"", 0, OptionsOf(i)>>
What(t) == IF t.kind \in {"prior", "copy_prior"} THEN "prior" ELSE "options"
(* a copy of a prior that nobody wrote is blank; of such options the text says nothing,
   since those of a subsample outlive the next declaration of subsamples *)
Said ==
  LET About(known, o) == IF o \in DOMAIN known THEN known[o] ELSE Blank
      known[i \in 0..Len(text)] ==
        IF i = 0 THEN None
        ELSE CASE text[i].op \in {"prior", "set_options"} ->
                    (Object(What(text[i]), text[i].names, text[i].sub) :> ContentOf(i)) @@ known[i - 1]
               [] text[i].op = "copy" ->
                    LET to == Object(What(text[i]), text[i].names, text[i].sub)
                        from == Object(What(text[i]), text[i].from, text[i].from_sub)
                    IN IF from \in DOMAIN known[i - 1] \/ from.what = "prior"
                       THEN (to :> About(known[i - 1], from)) @@ known[i - 1]
                       ELSE [o \in DOMAIN known[i - 1] \ {to} |-> known[i - 1][o]]
               [] text[i].op \in {"subsamples", "copy_subsamples"} ->
                    [o \in {o \in DOMAIN known[i - 1] : ~(o.of = Range(text[i].names) /\ o.sub # 0)} |-> known[i - 1][o]]
               [] OTHER -> known[i - 1]
  IN known[Len(text)]
(* a slot, read back: <<what, base, number of names, position, position of the subsample>> *)
NamesAt(k) == ws[<<"index", k[1], k[2], k[3]>>][k[4]]
SubsampleAt(k) == LET at == PositionOf(ws[<<"subsamples_index">>], NamesAt(k)) IN ws[<<"subsamples", at>>][k[5]]
ObjectAt(k) == Object(k[1], NamesAt(k), IF k[5] = 0 THEN 0 ELSE SubsampleAt(k))
Matches(content, expected) == content = expected \/ (content = <<>> /\ expected = Blank)
Slots == {k \in DOMAIN ws : k[1] \in {"prior", "options"}}
EstimatedAsWritten ==
  Wrote({"prior", "options", "copy_prior", "copy_options", "subsamples", "copy_subsamples"}) /\ done = Len(statements) =>
    \A said \in {Said} :
      /\ \A o \in DOMAIN said : \E k \in Slots : ObjectAt(k) = o /\ Matches(ws[k], said[o])
      /\ \A k \in Slots : k[1] = "prior" => ObjectAt(k) \in DOMAIN said /\ Matches(ws[k], said[ObjectAt(k)])
=============================================================================
