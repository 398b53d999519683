----------------------------- MODULE ModFileProofs -----------------------------
(***************************************************************************)
(* The derivatives that ModFile computes are those that the commands of a  *)
(* file ask for.  What a command asks for is written in the script by its  *)
(* statement (options_.order) and noted in mod_file_struct by its          *)
(* checkPass; the buffer of options joins the two, which belongs to one    *)
(* statement at a time.  And so do the other buffers: each statement has   *)
(* the pieces that were written in it, and no others; and in the end the   *)
(* covariances in the workspace are those that the blocks of shocks say.   *)
(***************************************************************************)
EXTENDS ModFile, FiniteSetTheorems, TLAPS

Data == INSTANCE DataLemmas

OrderOption == <<"num", "order">>
OrderKey == <<"options_", "num", "order">>

(* A buffer of options: only the order matters here, which is a number. *)
GoodOptions(o) ==
    /\ \A k \in DOMAIN o : k = <<k[1], k[2]>>
    /\ OrderOption \in DOMAIN o => o[OrderOption] \in Nat

(* The options of a statement, which has an order if it is of a kind that takes one. *)
GoodStatement(s) ==
    /\ s.kind \in Optioned => "options" \in DOMAIN s.of
    /\ "options" \in DOMAIN s.of =>
         GoodOptions(s.of.options) /\ (OrderOption \in DOMAIN s.of.options => s.kind \in Stochastic)

Listed == \E S : statements \in Seq(S)
StatementsInv == Listed /\ \A j \in DOMAIN statements : GoodStatement(statements[j])

(* While an order is in the buffer, a command that takes one is being read. *)
BufferInv ==
    /\ "options" \in DOMAIN scratch
    /\ GoodOptions(scratch.options)
    /\ OrderOption \in DOMAIN scratch.options => open # {} /\ open \subseteq Stochastic
ParsingInv == StatementsInv /\ (phase = "parsing" => BufferInv)

-------------------------------------------------------------------------------
(***************************************************************************)
(* The file is read                                                        *)
(***************************************************************************)

Pieces == Files[file].pieces

\* A handler that leaves the options and the statements alone.
LEMMA HandlerKeeps ==
    ASSUME ParsingInv, file \in DOMAIN Files, NEW t \in Pieces, NEW op, Reads(t, op),
           op \notin {"task", "policy"},
           "options" \in DOMAIN scratch', scratch'.options = scratch.options
    PROVE  BufferInv'
<1>1. BufferInv
  BY DEF ParsingInv, Reads
<1>2. ASSUME OrderOption \in DOMAIN scratch.options
      PROVE  open' # {} /\ open' \subseteq Stochastic
  <2>1. open # {} /\ open \subseteq Stochastic
    BY <1>1, <1>2 DEF BufferInv
  <2>2. t.in = {} => t.kind \notin Stochastic
    BY FilesAssumption DEF Pieces, Reads, Optioned
  <2>3. t.in # {} /\ open \cap t.in # {}
    BY <2>1, <2>2 DEF Reads, Follows
  <2> QED BY <2>1, <2>3 DEF Reads
<1> QED BY <1>1, <1>2 DEF BufferInv

\* A new statement at the end.
LEMMA StatementAdded ==
    ASSUME StatementsInv, NEW s, GoodStatement(s), statements' = Append(statements, s)
    PROVE  /\ \E S : statements' \in Seq(S)
           /\ \A j \in DOMAIN statements' : GoodStatement(statements'[j])
<1>1. PICK S : statements \in Seq(S)
  BY DEF StatementsInv, Listed
<1>2. statements \in Seq(S \cup {s})
  BY <1>1
<1>3. statements' \in Seq(S \cup {s})
  BY <1>2
<1>4. \A j \in DOMAIN statements' : statements'[j] = s \/ (j \in DOMAIN statements /\ statements'[j] = statements[j])
  BY <1>2
<1> QED BY <1>3, <1>4 DEF StatementsInv

\* The handlers of declarations and of the model.
LEMMA DeclarationsKeep ==
    ASSUME ParsingInv, file \in DOMAIN Files, NEW t \in Pieces,
           \/ DeclareSymbol(t) \/ AddPredeterminedVariable(t) \/ AddModelVariable(t)
           \/ AddExpressionVariable(t) \/ ModelLocalVariable(t) \/ ChangeType(t)
           \/ AddSteadyStateModelEqual(t) \/ AddVarobs(t) \/ ModelFlag(t)
           \/ ExternalFunction(t) \/ CallFunction(t)
    PROVE  ParsingInv'
<1>1. statements' = statements /\ scratch' = scratch
  BY DEF DeclareSymbol, AddPredeterminedVariable, AddModelVariable, AddExpressionVariable,
         ModelLocalVariable, ChangeType, AddSteadyStateModelEqual, AddVarobs, ModelFlag,
         ExternalFunction, CallFunction, Only, Sets
<1>2. \E op : op \notin {"task", "policy"} /\ Reads(t, op)
  BY DEF DeclareSymbol, AddPredeterminedVariable, AddModelVariable, AddExpressionVariable,
         ModelLocalVariable, ChangeType, AddSteadyStateModelEqual, AddVarobs, ModelFlag,
         ExternalFunction, CallFunction
<1>3. BufferInv'
  BY <1>1, <1>2, HandlerKeeps DEF ParsingInv, BufferInv, Reads
<1> QED BY <1>1, <1>3 DEF ParsingInv, StatementsInv, Listed

\* The handlers that fill another buffer.
LEMMA BuffersKeep ==
    ASSUME ParsingInv, file \in DOMAIN Files, NEW t \in Pieces,
           \/ InitVal(t) \/ HistVal(t) \/ HomotopyVal(t) \/ AddDetShock(t) \/ AddVarShock(t)
           \/ AddCovarShock(t) \/ AddRow(t) \/ BeginSvarIdentification(t)
           \/ AddRestrictionInEquation(t) \/ AddCholesky(t) \/ AddInSymbolList(t)
           \/ AddEstimatedParamsElement(t) \/ SetTrendElement(t) \/ SetOptimWeight(t)
           \/ SetOptimCovariance(t) \/ AddMcFilename(t) \/ SubsampleRange(t) \/ Shape(t)
           \/ Variance(t)
    PROVE  ParsingInv'
<1>1. PICK op : op \notin {"task", "policy"} /\ Reads(t, op)
  BY DEF InitVal, HistVal, HomotopyVal, AddDetShock, AddVarShock, AddCovarShock, AddRow,
         BeginSvarIdentification, AddRestrictionInEquation, AddCholesky, AddInSymbolList,
         AddEstimatedParamsElement, SetTrendElement, SetOptimWeight, SetOptimCovariance,
         AddMcFilename, SubsampleRange, Shape, Variance
<1>2. \E ok, f, v : f # "options" /\ Keep(ok, f, v)
  <2>1. CASE AddVarShock(t) \/ AddCovarShock(t)
    <3>1. t.into # "options"
      BY <2>1, FilesAssumption DEF AddVarShock, AddCovarShock, Reads, Pieces
    <3> QED BY <2>1, <3>1 DEF AddVarShock, AddCovarShock, Enters
  <2>2. CASE \/ InitVal(t) \/ HistVal(t) \/ HomotopyVal(t) \/ AddDetShock(t) \/ AddRow(t)
             \/ BeginSvarIdentification(t) \/ AddRestrictionInEquation(t) \/ AddCholesky(t)
             \/ AddInSymbolList(t)
    BY <2>2 DEF InitVal, HistVal, HomotopyVal, AddDetShock, AddRow, BeginSvarIdentification,
         AddRestrictionInEquation, AddCholesky, AddInSymbolList, Enters
  <2>3. CASE \/ AddEstimatedParamsElement(t) \/ SetTrendElement(t) \/ SetOptimWeight(t)
             \/ SetOptimCovariance(t) \/ AddMcFilename(t) \/ SubsampleRange(t) \/ Shape(t)
             \/ Variance(t)
    BY <2>3 DEF AddEstimatedParamsElement, SetTrendElement, SetOptimWeight,
         SetOptimCovariance, AddMcFilename, SubsampleRange, Shape, Variance, Enters
  <2> QED BY <2>1, <2>2, <2>3
<1>3. PICK ok, f, v : f # "options" /\ Keep(ok, f, v)
  BY <1>2
<1>4. BufferInv
  BY <1>1 DEF ParsingInv, Reads
<1>5. /\ statements' = statements
      /\ "options" \in DOMAIN scratch' /\ scratch'.options = scratch.options
  BY <1>3, <1>4 DEF Keep, Only, Buffers, BufferInv
<1>6. BufferInv'
  BY <1>1, <1>5, HandlerKeeps
<1> QED BY <1>5, <1>6 DEF ParsingInv, StatementsInv, Listed

\* The restrictions of a structural VAR.
LEMMA RestrictionsKeep ==
    ASSUME ParsingInv, file \in DOMAIN Files, NEW t \in Pieces,
           CombineLagAndRestriction(t) \/ AddRestriction(t)
    PROVE  ParsingInv'
<1>1. PICK op : op \notin {"task", "policy"} /\ Reads(t, op)
  BY DEF CombineLagAndRestriction, AddRestriction
<1>2. "options" \in DOMAIN scratch
  BY <1>1 DEF ParsingInv, BufferInv, Reads
<1>3. /\ statements' = statements
      /\ "options" \in DOMAIN scratch' /\ scratch'.options = scratch.options
  <2>1. CASE CombineLagAndRestriction(t)
    BY <1>2, <2>1, Zenon DEF CombineLagAndRestriction, Only
  <2>2. CASE AddRestriction(t)
    BY <1>2, <2>2, Zenon DEF AddRestriction, Only
  <2> QED BY <2>1, <2>2
<1>4. BufferInv'
  BY <1>1, <1>3, HandlerKeeps
<1> QED BY <1>3, <1>4 DEF ParsingInv, StatementsInv, Listed

\* The options themselves: an order only where one is taken.
LEMMA OptionsKeep ==
    ASSUME ParsingInv, file \in DOMAIN Files, NEW t \in Pieces,
           OptionNum(t) \/ OptionSymbolList(t) \/ OptimOptions(t)
    PROVE  ParsingInv'
<1>1. BufferInv /\ phase = "parsing"
  BY DEF OptionNum, OptionSymbolList, OptimOptions, ParsingInv, Reads
<1>2. statements' = statements
  BY DEF OptionNum, OptionSymbolList, OptimOptions, Keep, Enters, Only, Buffers
<1>3. CASE OptionNum(t)
  <2>. SUFFICES ASSUME phase' = "parsing" PROVE BufferInv'
    BY <1>2 DEF ParsingInv, StatementsInv, Listed
  <2>1. Reads(t, "option")
    BY <1>3 DEF OptionNum
  <2>2. scratch' = [scratch EXCEPT !["options"] = With(scratch.options, <<t.class, t.name>>, t.value)]
    BY <1>1, <1>3 DEF OptionNum, Enters, Keep, Only, Buffers
  <2>3. /\ DOMAIN scratch'.options = DOMAIN scratch.options \cup {<<t.class, t.name>>}
        /\ scratch'.options[<<t.class, t.name>>] = t.value
        /\ \A k \in DOMAIN scratch.options : k # <<t.class, t.name>> => scratch'.options[k] = scratch.options[k]
    BY <1>1, <2>2 DEF With, :>, @@, BufferInv
  <2>4. <<t.class, t.name>> = <<(<<t.class, t.name>>)[1], (<<t.class, t.name>>)[2]>>
    OBVIOUS
  <2>5. <<t.class, t.name>> = OrderOption => t.in \subseteq Stochastic /\ t.value \in Nat
    BY <2>1, FilesAssumption DEF Reads, OrderOption, Pieces
  <2>6. GoodOptions(scratch'.options)
    BY <1>1, <2>3, <2>4, <2>5 DEF GoodOptions, BufferInv
  <2>7. t.in # {}
    BY <2>1, FilesAssumption DEF Reads, Pieces, Elements
  <2>8. open' # {} /\ (open = {} => open' = t.in) /\ (open # {} => open' = open \cap t.in)
    BY <2>1, <2>7 DEF Reads, Follows
  <2>9. OrderOption \in DOMAIN scratch'.options => open' # {} /\ open' \subseteq Stochastic
    BY <1>1, <2>3, <2>5, <2>8 DEF BufferInv
  <2> QED BY <1>1, <2>2, <2>6, <2>9 DEF BufferInv
<1>4. CASE OptionSymbolList(t) \/ OptimOptions(t)
  <2>. SUFFICES ASSUME phase' = "parsing" PROVE BufferInv'
    BY <1>2 DEF ParsingInv, StatementsInv, Listed
  <2>1. PICK op \in {"option_symbol_list", "optim_option"} : Reads(t, op)
    BY <1>4 DEF OptionSymbolList, OptimOptions
  <2>2. PICK a, b, v : a # "num" /\ "options" \in DOMAIN scratch'
                       /\ scratch'.options = With(scratch.options, <<a, b>>, v)
    <3>1. CASE OptionSymbolList(t)
      <4>1. /\ "options" \in DOMAIN scratch'
            /\ scratch'.options = With(scratch.options, <<"symbol_list", t.name>>, scratch.symbol_list)
        BY <1>1, <3>1, Zenon DEF OptionSymbolList, Only, BufferInv
      <4> QED BY <4>1
    <3>2. CASE OptimOptions(t)
      <4>1. PICK v : /\ "options" \in DOMAIN scratch'
                     /\ scratch'.options = With(scratch.options, <<"str", "optim_opt">>, v)
        BY <1>1, <3>2, Zenon DEF OptimOptions, Keep, Only, Buffers, BufferInv
      <4> QED BY <4>1
    <3> QED BY <1>4, <3>1, <3>2
  <2>3. /\ DOMAIN scratch'.options = DOMAIN scratch.options \cup {<<a, b>>}
        /\ \A k \in DOMAIN scratch.options : k # <<a, b>> => scratch'.options[k] = scratch.options[k]
    BY <2>2 DEF With, :>, @@
  <2>4. <<a, b>> # OrderOption /\ <<a, b>> = <<(<<a, b>>)[1], (<<a, b>>)[2]>>
    BY <2>2 DEF OrderOption
  <2>5. GoodOptions(scratch'.options) /\ (OrderOption \in DOMAIN scratch'.options => OrderOption \in DOMAIN scratch.options)
    BY <1>1, <2>3, <2>4 DEF GoodOptions, BufferInv
  <2>6. OrderOption \in DOMAIN scratch.options => open' # {} /\ open' \subseteq Stochastic
    <3>. SUFFICES ASSUME OrderOption \in DOMAIN scratch.options PROVE open' # {} /\ open' \subseteq Stochastic
      OBVIOUS
    <3>1. open # {} /\ open \subseteq Stochastic
      BY <1>1 DEF BufferInv
    <3>2. t.in = {} => t.kind \notin Stochastic
      BY <2>1, FilesAssumption DEF Pieces, Reads, Optioned
    <3> QED BY <2>1, <3>1, <3>2 DEF Reads, Follows
  <2> QED BY <2>2, <2>5, <2>6 DEF BufferInv
<1> QED BY <1>3, <1>4

\* The buffers of options are empty at first.
LEMMA EmptyOptions == Empty["options"] = << >> /\ "options" \in DOMAIN Empty
BY DEF Empty, None

\* A handler that adds a statement with what the buffers hold.
LEMMA AddsKeeps ==
    ASSUME ParsingInv, file \in DOMAIN Files, NEW t \in Pieces, NEW op, Reads(t, op),
           NEW kind, NEW taken, NEW args, Adds(kind, taken, args), "options" \notin DOMAIN args,
           op \in {"task", "policy"} => kind = t.kind,
           "options" \in taken => op \in Endings,
           kind \in Optioned => "options" \in taken
    PROVE  ParsingInv'
<1>. DEFINE s == [kind |-> kind, of |-> [f \in taken |-> scratch[f]] @@ args]
<1>1. BufferInv /\ StatementsInv
  BY DEF ParsingInv, Reads
<1>2. "options" \in DOMAIN s.of <=> "options" \in taken
  BY DEF @@
<1>3. "options" \in taken => s.of.options = scratch.options
  BY DEF @@
<1>4. ASSUME OrderOption \in DOMAIN scratch.options
      PROVE  /\ open # {} /\ open \subseteq Stochastic
             /\ t.in = {} => t.kind \in Stochastic /\ op \in {"task", "policy"}
  <2>1. open # {} /\ open \subseteq Stochastic
    BY <1>1, <1>4 DEF BufferInv
  <2>2. t.in = {} => t.kind \in Stochastic
    BY <2>1 DEF Reads, Follows
  <2>3. t.kind \in Stochastic => op \in {"task", "policy"}
    BY FilesAssumption DEF Pieces, Reads, Optioned
  <2> QED BY <2>1, <2>2, <2>3
<1>5. op \in Endings => t.in = {}
  BY FilesAssumption DEF Pieces, Reads, Closings
<1>6. GoodStatement(s)
  <2>1. ASSUME "options" \in taken, OrderOption \in DOMAIN scratch.options PROVE kind \in Stochastic
    BY <1>4, <1>5, <2>1
  <2>2. ASSUME "options" \in taken PROVE GoodOptions(scratch.options)
    BY <1>1 DEF BufferInv
  <2> HIDE DEF s
  <2>3. s.kind = kind
    BY DEF s
  <2> QED BY <1>2, <1>3, <2>1, <2>2, <2>3 DEF GoodStatement
<1>7. (StatementsInv)'
  <2>1. statements' = Append(statements, s)
    BY DEF Adds
  <2> HIDE DEF s
  <2> QED BY <1>1, <1>6, <2>1, StatementAdded DEF StatementsInv, Listed
<1>8. BufferInv'
  <2>1. CASE "options" \in taken
    <3>1. "options" \in DOMAIN scratch' /\ scratch'.options = << >>
      BY <1>1, <2>1, EmptyOptions DEF Adds, BufferInv
    <3> QED BY <3>1 DEF BufferInv, GoodOptions
  <2>2. CASE "options" \notin taken
    <3>1. "options" \in DOMAIN scratch' /\ scratch'.options = scratch.options
      BY <1>1, <2>2 DEF Adds, BufferInv
    <3>2. CASE op \notin {"task", "policy"}
      BY <3>1, <3>2, HandlerKeeps
    <3>3. CASE op \in {"task", "policy"}
      <4>1. OrderOption \notin DOMAIN scratch.options
        BY <1>4, <1>5, <2>2, <3>3 DEF Optioned, Endings
      <4> QED BY <1>1, <3>1, <4>1 DEF BufferInv
    <3> QED BY <3>2, <3>3
  <2> QED BY <2>1, <2>2
<1> QED BY <1>7, <1>8 DEF ParsingInv

(* An error ends the parsing. *)
Failed == phase' = "error" /\ statements' = statements

\* After an error nothing is asked of the buffers.
LEMMA ErrorKeeps ==
    ASSUME ParsingInv, Failed PROVE ParsingInv'
BY DEF Failed, ParsingInv, StatementsInv, Listed

\* A command: the order that it was given goes with it.
LEMMA TaskKeeps ==
    ASSUME ParsingInv, file \in DOMAIN Files, NEW t \in Pieces, Reads(t, "task"),
           NEW kinds, NEW taken, Ends(t, kinds, taken),
           kinds \cap Optioned = {} \/ "options" \in taken
    PROVE  ParsingInv'
<1>1. Adds(t.kind, taken, None) /\ "options" \notin DOMAIN None
  BY DEF Ends, None
<1>2. t.kind \in Optioned => "options" \in taken
  BY DEF Ends
<1>3. "task" \in Endings
  BY DEF Endings
<1> QED BY <1>1, <1>2, <1>3, AddsKeeps

\* Commands that are ended by their own rule of the grammar.
LEMMA TasksKeep ==
    ASSUME ParsingInv, file \in DOMAIN Files, NEW t \in Pieces,
           \/ EndSimulation(t) \/ EndSteady(t) \/ Forecast(t) \/ EstimationData(t)
           \/ RunEstimation(t) \/ SetTrends(t) \/ EndOptimWeights(t) \/ RunOsr(t)
           \/ RunModelComparison(t) \/ PlannerObjective(t) \/ RunBvar(t) \/ RunForecasts(t)
    PROVE  ParsingInv'
<1>1. Reads(t, "task")
  BY DEF EndSimulation, EndSteady, Forecast, EstimationData, RunEstimation, SetTrends,
         EndOptimWeights, RunOsr, RunModelComparison, PlannerObjective, RunBvar, RunForecasts
<1>2. \E kinds, taken : Ends(t, kinds, taken) /\ (kinds \cap Optioned = {} \/ "options" \in taken)
  <2>1. CASE EndSimulation(t) \/ EndSteady(t) \/ Forecast(t) \/ EstimationData(t) \/ RunEstimation(t)
    BY <2>1 DEF EndSimulation, EndSteady, Forecast, EstimationData, RunEstimation, Both
  <2>2. CASE SetTrends(t)
    <3>1. {"observation_trends"} \cap Optioned = {}
      BY DEF Optioned, Stochastic, Bvar
    <3> QED BY <2>2, <3>1 DEF SetTrends
  <2>3. CASE EndOptimWeights(t)
    <3>1. {"optim_weights"} \cap Optioned = {}
      BY DEF Optioned, Stochastic, Bvar
    <3> QED BY <2>3, <3>1 DEF EndOptimWeights
  <2>4. CASE RunOsr(t)
    <3>1. {"osr_params", "dynatype", "dynasave"} \cap Optioned = {}
      BY DEF Optioned, Stochastic, Bvar
    <3> QED BY <2>4, <3>1 DEF RunOsr, Both
  <2>5. CASE RunModelComparison(t) \/ RunBvar(t)
    BY <2>5 DEF RunModelComparison, RunBvar, Both
  <2>6. CASE PlannerObjective(t)
    <3>1. {"planner_objective"} \cap Optioned = {}
      BY DEF Optioned, Stochastic, Bvar
    <3> QED BY <2>6, <3>1 DEF PlannerObjective
  <2>7. CASE RunForecasts(t)
    <3>1. {"plot_conditional_forecast"} \cap Optioned = {} /\ {"conditional_forecast_paths"} \cap Optioned = {}
      BY DEF Optioned, Stochastic, Bvar
    <3> QED BY <2>7, <3>1 DEF RunForecasts, Both
  <2> QED BY <2>1, <2>2, <2>3, <2>4, <2>5, <2>6, <2>7
<1> QED BY <1>1, <1>2, TaskKeeps

\* The other handlers that add a statement: what they add is no command.
LEMMA EndingsKeep ==
    ASSUME ParsingInv, file \in DOMAIN Files, NEW t \in Pieces,
           \/ InitParam(t) \/ EndConditions(t) \/ EndShocks(t) \/ DoSigmaE(t)
           \/ EndSvarIdentification(t) \/ EndEstimatedParams(t) \/ Svar(t) \/ MarkovSwitching(t)
           \/ SetPrior(t) \/ SetOptions(t) \/ Copy(t) \/ LoadParams(t)
    PROVE  ParsingInv'
<1>. DEFINE Added(op) ==
              \E kind, taken, args :
                /\ \/ Adds(kind, taken, args)
                   \/ Failed
                /\ "options" \notin DOMAIN args
                /\ "options" \in taken => op \in Endings
                /\ kind \in Optioned => kind = t.kind
<1>1. ASSUME NEW op, Reads(t, op), op \notin {"task", "policy"}, Added(op) PROVE ParsingInv'
  <2>1. PICK kind, taken, args :
                /\ \/ Adds(kind, taken, args)
                   \/ Failed
                /\ "options" \notin DOMAIN args
                /\ "options" \in taken => op \in Endings
                /\ kind \in Optioned => kind = t.kind
    BY <1>1
  <2>2. kind \notin Optioned
    BY <1>1, <2>1, FilesAssumption DEF Pieces, Reads
  <2>3. CASE Adds(kind, taken, args)
    BY <1>1, <2>1, <2>2, <2>3, AddsKeeps
  <2>4. CASE Failed
    BY <2>4, ErrorKeeps
  <2> QED BY <2>1, <2>3, <2>4
<1>. HIDE DEF Added
<1>2. CASE InitParam(t)
  <2>1. Reads(t, "init_param")
    BY <1>2 DEF InitParam
  <2>. DEFINE args == [id |-> IdOf(t.name), value |-> t.value]
  <2>2. Adds("init_param", {}, args) \/ Failed
    BY <1>2 DEF InitParam, Only, Failed
  <2>3. "options" \notin DOMAIN args /\ "init_param" \notin Optioned
    BY DEF Optioned, Stochastic, Bvar
  <2> HIDE DEF args
  <2>4. Added("init_param")
    BY <2>2, <2>3 DEF Added
  <2> QED BY <1>1, <2>1, <2>4
<1>3. CASE EndConditions(t)
  <2>1. Reads(t, "end_conditions")
    BY <1>3 DEF EndConditions
  <2>2. t.kind \in {"initval", "endval", "histval", "homotopy"}
    BY <2>1, FilesAssumption DEF Reads, Pieces
  <2>3. PICK taken : Adds(t.kind, taken, [all |-> t.all]) /\ "options" \notin taken
    BY <1>3, <2>2 DEF EndConditions, Only, Failed
  <2>4. "options" \notin DOMAIN [all |-> t.all]
    OBVIOUS
  <2>5. Added("end_conditions")
    BY <2>3, <2>4 DEF Added
  <2> QED BY <1>1, <2>1, <2>5
<1>4. CASE EndShocks(t)
  <2>1. Reads(t, "end_shocks")
    BY <1>4 DEF EndShocks
  <2>2. PICK taken : Adds(t.kind, taken, None) /\ "options" \notin taken
    BY <1>4 DEF EndShocks, Only, Failed
  <2>3. "options" \notin DOMAIN None
    BY DEF None
  <2>4. Added("end_shocks")
    BY <2>2, <2>3 DEF Added
  <2> QED BY <1>1, <2>1, <2>4
<1>5. CASE DoSigmaE(t)
  <2>1. Reads(t, "sigma_e")
    BY <1>5 DEF DoSigmaE
  <2>2. Adds("Sigma_e", {"sigmae_matrix"}, None) \/ Failed
    BY <1>5 DEF DoSigmaE, Only, Failed
  <2>3. "options" \notin DOMAIN None /\ "Sigma_e" \notin Optioned
    BY DEF None, Optioned, Stochastic, Bvar
  <2>4. Added("sigma_e")
    BY <2>2, <2>3 DEF Added
  <2> QED BY <1>1, <2>1, <2>4
<1>6. CASE EndSvarIdentification(t)
  <2>1. Reads(t, "end_svar")
    BY <1>6 DEF EndSvarIdentification
  <2>2. PICK taken : Adds("svar_identification", taken, None) /\ "options" \notin taken
    BY <1>6 DEF EndSvarIdentification, Only, Failed
  <2>3. "options" \notin DOMAIN None /\ "svar_identification" \notin Optioned
    BY DEF None, Optioned, Stochastic, Bvar
  <2>4. Added("end_svar")
    BY <2>2, <2>3 DEF Added
  <2> QED BY <1>1, <2>1, <2>4
<1>7. CASE EndEstimatedParams(t)
  <2>1. Reads(t, "end_estimated")
    BY <1>7 DEF EndEstimatedParams
  <2>2. Adds(t.kind, {"estim_params"}, None)
    BY <1>7 DEF EndEstimatedParams, Ends
  <2>3. "options" \notin DOMAIN None
    BY DEF None
  <2>4. Added("end_estimated")
    BY <2>2, <2>3 DEF Added
  <2> QED BY <1>1, <2>1, <2>4
<1>8. CASE Svar(t) \/ MarkovSwitching(t)
  <2>1. PICK op \in {"svar", "markov_switching"} : /\ Reads(t, op)
                    /\ (Adds(op, {"options"}, None) \/ Failed)
    BY <1>8 DEF Svar, MarkovSwitching, Only, Failed
  <2>2. "options" \notin DOMAIN None /\ op \notin Optioned /\ op \in Endings
    BY DEF None, Optioned, Stochastic, Bvar, Endings
  <2>3. Added(op)
    BY <2>1, <2>2 DEF Added
  <2> QED BY <1>1, <2>1, <2>3
<1>9. CASE SetPrior(t)
  <2>. DEFINE args == [type |-> t.type, names |-> t.names, sub |-> t.sub]
  <2>1. Reads(t, "prior")
    BY <1>9 DEF SetPrior
  <2>2. PICK taken : Adds("prior", taken, args) \/ Failed
    BY <1>9 DEF SetPrior, Only, Failed
  <2>3. "options" \notin DOMAIN args /\ "prior" \notin Optioned /\ "prior" \in Endings
    BY DEF Optioned, Stochastic, Bvar, Endings
  <2> HIDE DEF args
  <2>4. Added("prior")
    BY <2>2, <2>3 DEF Added
  <2> QED BY <1>1, <2>1, <2>4
<1>10. CASE SetOptions(t)
  <2>. DEFINE args == [type |-> t.type, names |-> t.names, sub |-> t.sub]
  <2>1. Reads(t, "set_options")
    BY <1>10 DEF SetOptions
  <2>2. PICK taken : Adds("options", taken, args) \/ Failed
    BY <1>10 DEF SetOptions, Only, Failed
  <2>3. "options" \notin DOMAIN args /\ "options" \notin Optioned /\ "set_options" \in Endings
    BY DEF Optioned, Stochastic, Bvar, Endings
  <2> HIDE DEF args
  <2>4. Added("set_options")
    BY <2>2, <2>3 DEF Added
  <2> QED BY <1>1, <2>1, <2>4
<1>11. CASE Copy(t)
  <2>. DEFINE args == [type |-> t.type, names |-> t.names, sub |-> t.sub,
                       from_type |-> t.from_type, from |-> t.from, from_sub |-> t.from_sub]
  <2>1. Reads(t, "copy")
    BY <1>11 DEF Copy
  <2>2. Adds(t.kind, {}, args) \/ Failed
    BY <1>11 DEF Copy, Only, Failed
  <2>3. "options" \notin DOMAIN args
    OBVIOUS
  <2> HIDE DEF args
  <2>4. Added("copy")
    BY <2>2, <2>3 DEF Added
  <2> QED BY <1>1, <2>1, <2>4
<1>12. CASE LoadParams(t)
  <2>. DEFINE args == [content |-> SelectSeq(t.content, LAMBDA c : Known(c[1]))]
  <2>1. Reads(t, "load")
    BY <1>12 DEF LoadParams
  <2>2. Adds("load_params", {}, args)
    BY <1>12 DEF LoadParams
  <2>3. "options" \notin DOMAIN args /\ "load_params" \notin Optioned
    BY DEF Optioned, Stochastic, Bvar
  <2> HIDE DEF args
  <2>4. Added("load")
    BY <2>2, <2>3 DEF Added
  <2> QED BY <1>1, <2>1, <2>4
<1> QED BY <1>2, <1>3, <1>4, <1>5, <1>6, <1>7, <1>8, <1>9, <1>10, <1>11, <1>12

\* Subsamples have no options.
LEMMA SubsamplesKeep ==
    ASSUME ParsingInv, file \in DOMAIN Files, NEW t \in Pieces, SetSubsamples(t) \/ CopySubsamples(t)
    PROVE  ParsingInv'
<1>1. PICK op : op \notin {"task", "policy"} /\ Reads(t, op)
  BY DEF SetSubsamples, CopySubsamples
<1>2. BufferInv /\ StatementsInv
  BY <1>1 DEF ParsingInv, Reads
<1>3. CASE Failed
  BY <1>3, ErrorKeeps
<1>4. CASE ~ (Failed)
  <2>1. "options" \in DOMAIN scratch' /\ scratch'.options = scratch.options
    <3>1. CASE SetSubsamples(t)
      BY <1>2, <1>4, <3>1, Zenon DEF SetSubsamples, Only, Failed, BufferInv
    <3>2. CASE CopySubsamples(t)
      BY <1>2, <1>4, <3>2 DEF CopySubsamples, Only, Failed, BufferInv
    <3> QED BY <3>1, <3>2
  <2>2. PICK s : statements' = Append(statements, s) /\ GoodStatement(s)
    <3>1. CASE SetSubsamples(t)
      <4>. DEFINE s == [kind |-> "subsamples", of |-> [names |-> t.names, ranges |-> scratch.subsamples]]
      <4>1. statements' = Append(statements, s)
        BY <1>4, <3>1, Zenon DEF SetSubsamples, Only, Failed
      <4>2. GoodStatement(s)
        BY DEF GoodStatement, Optioned, Stochastic, Bvar
      <4> HIDE DEF s
      <4> QED BY <4>1, <4>2
    <3>2. CASE CopySubsamples(t)
      <4>. DEFINE s == [kind |-> "copy_subsamples", of |-> [names |-> t.names, from |-> t.from]]
      <4>1. statements' = Append(statements, s)
        BY <1>4, <3>2, Zenon DEF CopySubsamples, Only, Failed
      <4>2. GoodStatement(s)
        BY DEF GoodStatement, Optioned, Stochastic, Bvar
      <4> HIDE DEF s
      <4> QED BY <4>1, <4>2
    <3> QED BY <3>1, <3>2
  <2>3. BufferInv'
    BY <1>1, <2>1, HandlerKeeps
  <2> QED BY <1>2, <2>2, <2>3, StatementAdded DEF ParsingInv, StatementsInv, Listed
<1> QED BY <1>3, <1>4

\* The discount factor of a policy: a statement without options.
LEMMA DiscountKeeps ==
    ASSUME ParsingInv, file \in DOMAIN Files, NEW t \in Pieces, PlannerDiscount(t)
    PROVE  ParsingInv'
<1>1. PICK op : op \notin {"task", "policy"} /\ Reads(t, op)
  BY DEF PlannerDiscount
<1>2. BufferInv /\ StatementsInv
  BY <1>1 DEF ParsingInv, Reads
<1>3. CASE Failed
  BY <1>3, ErrorKeeps
<1>4. CASE ~ (Failed)
  <2>1. statements' = Append(statements, InitialDiscount(t.value)) /\ scratch' = scratch
    BY <1>4 DEF PlannerDiscount, Only, Failed
  <2>2. GoodStatement(InitialDiscount(t.value))
    BY DEF GoodStatement, Optioned, Stochastic, Bvar, InitialDiscount
  <2>3. BufferInv'
    BY <1>1, <1>2, <2>1, HandlerKeeps DEF BufferInv
  <2> QED BY <1>2, <2>1, <2>2, <2>3, StatementAdded DEF ParsingInv, StatementsInv, Listed
<1> QED BY <1>3, <1>4

\* A policy: before it, perhaps, the discount factor.
LEMMA PolicyKeeps ==
    ASSUME ParsingInv, file \in DOMAIN Files, NEW t \in Pieces, OptimalPolicy(t)
    PROVE  ParsingInv'
<1>. DEFINE d == InitialDiscount(1)
            s == [kind |-> t.kind, of |-> [f \in Both |-> scratch[f]]]
            before == IF Known(Discount) THEN << >> ELSE <<d>>
<1>1. Reads(t, "policy") /\ BufferInv /\ StatementsInv
  BY DEF OptimalPolicy, ParsingInv, Reads
<1>2. statements' = statements \o before \o <<s>>
  BY DEF OptimalPolicy
<1>3. GoodStatement(d)
  BY DEF GoodStatement, Optioned, Stochastic, Bvar, InitialDiscount
<1>4. GoodStatement(s)
  <2>1. "options" \in DOMAIN s.of /\ s.of.options = scratch.options /\ s.kind = t.kind
    BY DEF Both
  <2>2. t.in = {}
    BY <1>1, FilesAssumption DEF Reads, Pieces, Closings, Endings
  <2>3. OrderOption \in DOMAIN scratch.options => t.kind \in Stochastic
    BY <1>1, <2>2 DEF Reads, Follows, BufferInv
  <2>. HIDE DEF s
  <2> QED BY <1>1, <2>1, <2>3 DEF GoodStatement, BufferInv
<1>5. (StatementsInv)'
  <2>1. PICK S : statements \in Seq(S)
    BY <1>1 DEF StatementsInv, Listed
  <2>. DEFINE T == S \cup {d, s}
  <2>. HIDE DEF d, s
  <2>2. statements \in Seq(T) /\ before \in Seq(T) /\ <<s>> \in Seq(T)
    <3>1. d \in T /\ s \in T /\ S \subseteq T
      OBVIOUS
    <3>. HIDE DEF T
    <3>2. statements \in Seq(T)
      BY <2>1, <3>1
    <3>3. << >> \in Seq(T) /\ <<d>> \in Seq(T) /\ <<s>> \in Seq(T)
      BY <3>1
    <3> QED BY <3>2, <3>3
  <2>3. \A i \in DOMAIN before : before[i] = d
    OBVIOUS
  <2>. HIDE DEF T, before
  <2>4. statements \o before \in Seq(T)
    BY <2>2
  <2>5. statements' \in Seq(T)
    BY <1>2, <2>2, <2>4
  <2>6. \A j \in DOMAIN statements' : GoodStatement(statements'[j])
    <3>. SUFFICES ASSUME NEW j \in DOMAIN statements' PROVE GoodStatement(statements'[j])
      OBVIOUS
    <3>1. \/ j \in DOMAIN statements /\ statements'[j] = statements[j]
          \/ \E i \in DOMAIN before : statements'[j] = before[i]
          \/ statements'[j] = s
      BY <1>2, <2>2, <2>4, SMTT(30)
    <3> QED BY <1>1, <1>3, <1>4, <2>3, <3>1 DEF StatementsInv
  <2> QED BY <2>5, <2>6 DEF StatementsInv, Listed
<1>6. BufferInv'
  <2>1. "options" \in DOMAIN scratch' /\ scratch'.options = << >>
    BY <1>1, Zenon DEF OptimalPolicy, BufferInv, None
  <2> QED BY <2>1 DEF BufferInv, GoodOptions
<1> QED BY <1>5, <1>6 DEF ParsingInv

\* Every handler.
LEMMA ParseKeeps ==
    ASSUME ParsingInv, file \in DOMAIN Files, Parse PROVE ParsingInv'
<1>1. PICK t \in Pieces : Handlers(t)
  BY DEF Parse, Pieces
<1>2. CASE \/ DeclareSymbol(t) \/ AddPredeterminedVariable(t) \/ AddModelVariable(t)
           \/ AddExpressionVariable(t) \/ ModelLocalVariable(t) \/ ChangeType(t)
           \/ AddSteadyStateModelEqual(t) \/ AddVarobs(t) \/ ModelFlag(t)
           \/ ExternalFunction(t) \/ CallFunction(t)
  BY <1>2, DeclarationsKeep
<1>3. CASE \/ InitVal(t) \/ HistVal(t) \/ HomotopyVal(t) \/ AddDetShock(t) \/ AddVarShock(t)
           \/ AddCovarShock(t) \/ AddRow(t) \/ BeginSvarIdentification(t)
           \/ AddRestrictionInEquation(t) \/ AddCholesky(t) \/ AddInSymbolList(t)
           \/ AddEstimatedParamsElement(t) \/ SetTrendElement(t) \/ SetOptimWeight(t)
           \/ SetOptimCovariance(t) \/ AddMcFilename(t) \/ SubsampleRange(t) \/ Shape(t)
           \/ Variance(t)
  BY <1>3, BuffersKeep
<1>4. CASE CombineLagAndRestriction(t) \/ AddRestriction(t)
  BY <1>4, RestrictionsKeep
<1>5. CASE OptionNum(t) \/ OptionSymbolList(t) \/ OptimOptions(t)
  BY <1>5, OptionsKeep
<1>6. CASE \/ EndSimulation(t) \/ EndSteady(t) \/ Forecast(t) \/ EstimationData(t)
           \/ RunEstimation(t) \/ SetTrends(t) \/ EndOptimWeights(t) \/ RunOsr(t)
           \/ RunModelComparison(t) \/ PlannerObjective(t) \/ RunBvar(t) \/ RunForecasts(t)
  BY <1>6, TasksKeep
<1>7. CASE \/ InitParam(t) \/ EndConditions(t) \/ EndShocks(t) \/ DoSigmaE(t)
           \/ EndSvarIdentification(t) \/ EndEstimatedParams(t) \/ Svar(t) \/ MarkovSwitching(t)
           \/ SetPrior(t) \/ SetOptions(t) \/ Copy(t) \/ LoadParams(t)
  BY <1>7, EndingsKeep
<1>8. CASE SetSubsamples(t) \/ CopySubsamples(t)
  BY <1>8, SubsamplesKeep
<1>9. CASE OptimalPolicy(t)
  BY <1>9, PolicyKeeps
<1>10. CASE PlannerDiscount(t)
  BY <1>10, DiscountKeeps
<1> QED BY <1>1, <1>2, <1>3, <1>4, <1>5, <1>6, <1>7, <1>8, <1>9, <1>10 DEF Handlers

-------------------------------------------------------------------------------
(***************************************************************************)
(* The notes that checkPass takes                                          *)
(***************************************************************************)

IsNotes(m) == /\ "present" \in DOMAIN m /\ "order_option" \in DOMAIN m
              /\ m.order_option \in Nat

(* Nothing is forgotten but the shocks before simul. *)
Carried(m, n) == IsNotes(n) /\ \A x \in m.present : x # "shocks_before_simul" => x \in n.present
Plain(m, n) == Carried(m, n) /\ n.order_option = m.order_option

(* The order that a statement gives, and what is noted of it. *)
OrderGiven(s) == s.kind \in Stochastic /\ Given(s, "num", "order")
Noted(m, s) ==
    /\ s.kind \in Computing => s.kind \in m.present
    /\ Analytic(s) => "analytic_derivation" \in m.present
    /\ OrderGiven(s) => Num(s, "order") =< m.order_option

\* Notes that are carried on hold what they held.
LEMMA CarriedOn ==
    ASSUME NEW a, NEW b, NEW c, Carried(a, b), Carried(b, c) PROVE Carried(a, c)
BY DEF Carried

\* Notes to which only words are added keep their order, and keep it twice.
LEMMA PlainOn ==
    ASSUME NEW a, NEW b, NEW c, Plain(a, b), Plain(b, c) PROVE Plain(a, c)
BY CarriedOn DEF Plain

\* Notes adds words and nothing else.
LEMMA NotesOf ==
    ASSUME NEW m, IsNotes(m), NEW flags
    PROVE  Plain(m, Notes(m, flags)) /\ flags \subseteq Notes(m, flags).present
BY DEF Plain, Carried, IsNotes, Notes

\* Fails leaves the words and the order alone.
LEMMA FailsOf ==
    ASSUME NEW m, IsNotes(m), NEW wrong
    PROVE  Plain(m, Fails(m, wrong)) /\ Fails(m, wrong).present = m.present
BY DEF Plain, Carried, IsNotes, Fails

\* Notes and then Fails.
LEMMA FailsNotes ==
    ASSUME NEW m, IsNotes(m), NEW flags, NEW wrong
    PROVE  Plain(m, Fails(Notes(m, flags), wrong)) /\ flags \subseteq Fails(Notes(m, flags), wrong).present
<1>. DEFINE n == Notes(m, flags)
<1>1. Plain(m, n) /\ flags \subseteq n.present
  BY NotesOf
<1>. HIDE DEF n
<1>2. Plain(n, Fails(n, wrong)) /\ Fails(n, wrong).present = n.present
  BY <1>1, FailsOf DEF Plain, Carried
<1>3. Plain(m, Fails(n, wrong)) /\ flags \subseteq Fails(n, wrong).present
  BY <1>1, <1>2, PlainOn
<1> QED BY <1>3 DEF n

\* The order of a statement, and what depends on it.
LEMMA OrderedOf ==
    ASSUME NEW s, NEW m, IsNotes(m), NEW more \in Nat,
           Given(s, "num", "order") => Num(s, "order") \in Nat
    PROVE  /\ Carried(m, Ordered(s, m, more)) /\ m.order_option =< Ordered(s, m, more).order_option
           /\ Given(s, "num", "order") => Num(s, "order") =< Ordered(s, m, more).order_option
           /\ ~Given(s, "num", "order") => Ordered(s, m, more) = m
<1>1. CASE ~Given(s, "num", "order")
  BY <1>1 DEF Ordered, Carried, IsNotes
<1>2. CASE Given(s, "num", "order")
  <2>1. PICK k \in Nat : k = Num(s, "order")
    BY <1>2
  <2>. DEFINE n == Ordered(s, m, more)
  <2>2. n = [m EXCEPT !.order_option = Bigger(m.order_option, k + more)]
    BY <1>2, <2>1 DEF Ordered
  <2>3. n.order_option = Bigger(m.order_option, k + more) /\ DOMAIN n = DOMAIN m /\ n.present = m.present
    BY <2>2 DEF IsNotes
  <2>4. Bigger(m.order_option, k + more) \in Nat /\ m.order_option =< Bigger(m.order_option, k + more)
        /\ k =< Bigger(m.order_option, k + more)
    BY <2>1 DEF Bigger, IsNotes
  <2> HIDE DEF n
  <2>5. Carried(m, n) /\ m.order_option =< n.order_option /\ k =< n.order_option
    BY <2>3, <2>4 DEF Carried, IsNotes
  <2> QED BY <1>2, <2>1, <2>5 DEF n
<1> QED BY <1>1, <1>2

\* The order is noted if it is larger than what was noted, and ends nothing else.
LEMMA OrderPassed ==
    ASSUME NEW s, NEW m, IsNotes(m), NEW more \in Nat,
           Given(s, "num", "order") => Num(s, "order") \in Nat
    PROVE  \A n : n = KOrder(s, Partial(s, Ordered(s, m, more))) =>
             /\ Carried(m, n) /\ m.order_option =< n.order_option
             /\ Given(s, "num", "order") => Num(s, "order") =< n.order_option
             /\ ~Given(s, "num", "order") => n.order_option = m.order_option
<1>1. PICK a : a = Ordered(s, m, more)
  OBVIOUS
<1>2. /\ Carried(m, a) /\ m.order_option =< a.order_option
      /\ Given(s, "num", "order") => Num(s, "order") =< a.order_option
      /\ ~Given(s, "num", "order") => a = m
  BY <1>1, OrderedOf
<1>3. PICK b : b = Partial(s, a)
  OBVIOUS
<1>4. Plain(a, b)
  BY <1>2, <1>3, NotesOf DEF Partial, Carried
<1>5. Plain(b, KOrder(s, b))
  BY <1>4, NotesOf DEF KOrder, Plain, Carried
<1>6. Plain(a, KOrder(s, b))
  BY <1>4, <1>5, PlainOn
<1>7. Carried(m, KOrder(s, b)) /\ KOrder(s, b).order_option = a.order_option
  BY <1>2, <1>6, CarriedOn DEF Plain
<1> QED BY <1>1, <1>2, <1>3, <1>7

(* What the pass of a statement does to the notes. *)
Passed(s, m, n) ==
    /\ Carried(m, n) /\ m.order_option =< n.order_option /\ Noted(n, s)
    /\ ~OrderGiven(s) => n.order_option = m.order_option

\* The order of a good statement is a number.
LEMMA OrderIsNumber ==
    ASSUME NEW s, GoodStatement(s), s.kind \in Stochastic, Given(s, "num", "order")
    PROVE  Num(s, "order") \in Nat
BY DEF GoodStatement, GoodOptions, Optioned, Given, Num, OrderOption

\* The pass of a statement is that of its class.
LEMMA PassOf ==
    ASSUME NEW s, NEW m
    PROVE  /\ s.kind = "stoch_simul" => CheckPass(s, m) = StochSimulCheckPass(s, m)
           /\ s.kind = "ramsey_policy" => CheckPass(s, m) = RamseyCheckPass(s, m)
           /\ s.kind = "discretionary_policy" => CheckPass(s, m) = DiscretionaryCheckPass(s, m)
           /\ s.kind = "estimation" => CheckPass(s, m) = EstimationCheckPass(s, m)
           /\ s.kind = "dynare_sensitivity" => CheckPass(s, m) = SensitivityCheckPass(s, m)
           /\ s.kind = "estimated_params" => CheckPass(s, m) = EstimatedParamsCheckPass(s, m)
           /\ s.kind = "identification" => CheckPass(s, m) = IdentificationCheckPass(s, m)
           /\ s.kind = "svar_identification" => CheckPass(s, m) = SvarIdentificationCheckPass(s, m)
           /\ s.kind = "markov_switching" => CheckPass(s, m) = MarkovSwitchingCheckPass(s, m)
           /\ s.kind = "data" => CheckPass(s, m) = EstimationDataCheckPass(s, m)
           /\ s.kind = "prior" => CheckPass(s, m) = PriorCheckPass(s, m)
           /\ s.kind = "options" => CheckPass(s, m) = CorrOptionsCheckPass(s, m)
           /\ s.kind = "conditional_forecast_paths" => CheckPass(s, m) = ConditionalPathsCheckPass(s, m)
           /\ s.kind = "init_param" => CheckPass(s, m) = InitParamCheckPass(s, m)
           /\ s.kind = "initval" => CheckPass(s, m) = InitvalCheckPass(s, m)
           /\ s.kind = "endval" => CheckPass(s, m) = EndvalCheckPass(s, m)
           /\ s.kind = "extended_path" => CheckPass(s, m) = Fails(m, ~Given(s, "num", "periods"))
           /\ s.kind \in {"steady", "check", "simul", "model_info"} => CheckPass(s, m) = CheckTasks(s, m)
           /\ s.kind \in {"osr_params", "osr"} => CheckPass(s, m) = OsrCheckPass(s, m)
           /\ s.kind \in Bvar => CheckPass(s, m) = BvarCheckPass(s, m)
           /\ s.kind \in {"shocks", "mshocks"} => CheckPass(s, m) = ShocksCheckPass(s, m)
           /\ s.kind \in {"optim_weights", "planner_objective", "histval"} => CheckPass(s, m) = Notes(m, {s.kind})
<1>1. s.kind = "stoch_simul" => CheckPass(s, m) = StochSimulCheckPass(s, m)
  BY DEF CheckPass, Bvar
<1>2. s.kind = "ramsey_policy" => CheckPass(s, m) = RamseyCheckPass(s, m)
  BY DEF CheckPass, Bvar
<1>3. s.kind = "discretionary_policy" => CheckPass(s, m) = DiscretionaryCheckPass(s, m)
  BY DEF CheckPass, Bvar
<1>4. s.kind = "estimation" => CheckPass(s, m) = EstimationCheckPass(s, m)
  BY DEF CheckPass, Bvar
<1>5. s.kind = "dynare_sensitivity" => CheckPass(s, m) = SensitivityCheckPass(s, m)
  BY DEF CheckPass, Bvar
<1>6. s.kind = "estimated_params" => CheckPass(s, m) = EstimatedParamsCheckPass(s, m)
  BY DEF CheckPass, Bvar
<1>7. s.kind = "identification" => CheckPass(s, m) = IdentificationCheckPass(s, m)
  BY DEF CheckPass, Bvar
<1>8. s.kind = "svar_identification" => CheckPass(s, m) = SvarIdentificationCheckPass(s, m)
  BY DEF CheckPass, Bvar
<1>9. s.kind = "markov_switching" => CheckPass(s, m) = MarkovSwitchingCheckPass(s, m)
  BY DEF CheckPass, Bvar
<1>10. s.kind = "data" => CheckPass(s, m) = EstimationDataCheckPass(s, m)
  BY DEF CheckPass, Bvar
<1>11. s.kind = "prior" => CheckPass(s, m) = PriorCheckPass(s, m)
  BY DEF CheckPass, Bvar
<1>12. s.kind = "options" => CheckPass(s, m) = CorrOptionsCheckPass(s, m)
  BY DEF CheckPass, Bvar
<1>13. s.kind = "conditional_forecast_paths" => CheckPass(s, m) = ConditionalPathsCheckPass(s, m)
  BY DEF CheckPass, Bvar
<1>14. s.kind = "init_param" => CheckPass(s, m) = InitParamCheckPass(s, m)
  BY DEF CheckPass, Bvar
<1>15. s.kind = "initval" => CheckPass(s, m) = InitvalCheckPass(s, m)
  BY DEF CheckPass, Bvar
<1>16. s.kind = "endval" => CheckPass(s, m) = EndvalCheckPass(s, m)
  BY DEF CheckPass, Bvar
<1>17. s.kind = "extended_path" => CheckPass(s, m) = Fails(m, ~Given(s, "num", "periods"))
  BY DEF CheckPass, Bvar
<1>18. s.kind \in {"steady", "check", "simul", "model_info"} => CheckPass(s, m) = CheckTasks(s, m)
  BY DEF CheckPass, Bvar
<1>19. s.kind \in {"osr_params", "osr"} => CheckPass(s, m) = OsrCheckPass(s, m)
  BY DEF CheckPass, Bvar
<1>20. s.kind \in Bvar => CheckPass(s, m) = BvarCheckPass(s, m)
  BY DEF CheckPass, Bvar
<1>21. s.kind \in {"shocks", "mshocks"} => CheckPass(s, m) = ShocksCheckPass(s, m)
  BY DEF CheckPass, Bvar
<1>22. s.kind \in {"optim_weights", "planner_objective", "histval"} => CheckPass(s, m) = Notes(m, {s.kind})
  BY DEF CheckPass, Bvar
<1> QED BY <1>1, <1>2, <1>3, <1>4, <1>5, <1>6, <1>7, <1>8, <1>9, <1>10, <1>11, <1>12, <1>13, <1>14, <1>15, <1>16, <1>17, <1>18, <1>19, <1>20, <1>21, <1>22

\* The commands that approximate the model, but for estimation.
LEMMA CommandPassed ==
    ASSUME NEW s, NEW m, IsNotes(m), GoodStatement(s),
           s.kind \in {"stoch_simul", "osr", "ramsey_policy", "discretionary_policy"}
    PROVE  Passed(s, m, CheckPass(s, m))
<1>. DEFINE n == CheckPass(s, m)
<1>1. PICK a, more : /\ more \in Nat /\ Plain(m, a) /\ s.kind \in a.present
                     /\ n = KOrder(s, Partial(s, Ordered(s, a, more)))
  <2>1. CASE s.kind = "stoch_simul"
    <3>1. PICK a : a = Notes(m, {"stoch_simul"})
      OBVIOUS
    <3>2. n = KOrder(s, Partial(s, Ordered(s, a, 0)))
      BY <2>1, <3>1, PassOf DEF StochSimulCheckPass
    <3>3. Plain(m, a) /\ s.kind \in a.present
      BY <2>1, <3>1, NotesOf
    <3>. HIDE DEF n
    <3> QED BY <3>2, <3>3
  <2>2. CASE s.kind = "osr"
    <3>1. PICK a : a = Notes(m, {"osr"})
      OBVIOUS
    <3>2. n = KOrder(s, Partial(s, Ordered(s, a, 0)))
      BY <2>2, <3>1, PassOf DEF OsrCheckPass
    <3>3. Plain(m, a) /\ s.kind \in a.present
      BY <2>2, <3>1, NotesOf
    <3>. HIDE DEF n
    <3> QED BY <3>2, <3>3
  <2>3. CASE s.kind = "ramsey_policy"
    <3>1. PICK a : a = Fails(Notes(m, {"ramsey_policy"}), Num(s, "order") > 1)
      OBVIOUS
    <3>2. n = KOrder(s, Partial(s, Ordered(s, a, 1)))
      BY <2>3, <3>1, PassOf DEF RamseyCheckPass
    <3>3. Plain(m, a) /\ s.kind \in a.present
      BY <2>3, <3>1, FailsNotes
    <3>. HIDE DEF n
    <3> QED BY <3>2, <3>3
  <2>4. CASE s.kind = "discretionary_policy"
    <3>1. PICK a : a = Fails(Notes(m, {"discretionary_policy"}),
                           Num(s, "order") > 1 \/ ~Given(s, "symbol_list", "instruments"))
      OBVIOUS
    <3>2. n = KOrder(s, Partial(s, Ordered(s, a, 1)))
      BY <2>4, <3>1, PassOf DEF DiscretionaryCheckPass
    <3>3. Plain(m, a) /\ s.kind \in a.present
      BY <2>4, <3>1, FailsNotes
    <3>. HIDE DEF n
    <3> QED BY <3>2, <3>3
  <2> QED BY <2>1, <2>2, <2>3, <2>4
<1>2. s.kind \in Stochastic /\ IsNotes(a) /\ a.order_option = m.order_option
  BY <1>1 DEF Stochastic, Plain, Carried
<1>. HIDE DEF n
<1>3. /\ Carried(a, n) /\ a.order_option =< n.order_option
      /\ Given(s, "num", "order") => Num(s, "order") =< n.order_option
      /\ ~Given(s, "num", "order") => n.order_option = a.order_option
  BY <1>1, <1>2, OrderIsNumber, OrderPassed
<1>4. Carried(m, n)
  BY <1>1, <1>3, CarriedOn DEF Plain
<1>5. Noted(n, s)
  BY <1>1, <1>3 DEF Noted, Carried, Analytic, OrderGiven
<1>6. Passed(s, m, n)
  BY <1>2, <1>3, <1>4, <1>5 DEF Passed, OrderGiven
<1> QED BY <1>6 DEF n

\* Estimation, which notes more.
LEMMA EstimationPassed ==
    ASSUME NEW s, NEW m, IsNotes(m), GoodStatement(s), s.kind = "estimation"
    PROVE  Passed(s, m, CheckPass(s, m))
<1>1. s.kind \in Stochastic
  BY DEF Stochastic
<1>2. PICK a : a = Ordered(s, m, 0)
  OBVIOUS
<1>3. /\ Carried(m, a) /\ m.order_option =< a.order_option
      /\ Given(s, "num", "order") => Num(s, "order") =< a.order_option
      /\ ~Given(s, "num", "order") => a = m
  BY <1>1, <1>2, OrderIsNumber, OrderedOf
<1>4. PICK b : b = Partial(s, a)
  OBVIOUS
<1>5. Plain(a, b)
  BY <1>3, <1>4, NotesOf DEF Partial, Carried
<1>. DEFINE flags == {"estimation"}
                 \cup (IF Num(s, "analytic_derivation") = 1 THEN {"analytic_derivation"} ELSE {})
                 \cup (IF Given(s, "str", "dsge_var") THEN {"dsge_var_estimated"} ELSE {})
                 \cup (IF Num(s, "bayesian_irf") = 1 THEN {"bayesian_irf"} ELSE {})
<1>6. PICK c : c = Notes(b, flags)
  OBVIOUS
<1>7. Plain(b, c) /\ flags \subseteq c.present
  BY <1>5, <1>6, NotesOf DEF Plain, Carried
<1>8. PICK d : d = [c EXCEPT !.calibrated = IF Given(s, "num", "dsge_var") THEN Num(s, "dsge_var")
                                                                          ELSE c.calibrated]
  OBVIOUS
<1>9. Plain(c, d) /\ d.present = c.present
  BY <1>7, <1>8 DEF Plain, Carried, IsNotes
<1>. DEFINE n == CheckPass(s, m)
<1>10. n = EstimationCheckPass(s, m)
  BY PassOf
<1>11. Plain(d, n) /\ n.present = d.present
  <2>1. IsNotes(d)
    BY <1>9 DEF Plain, Carried
  <2>. HIDE DEF n, flags
  <2>2. n = Fails(d, \/ Num(s, "order") > 2
                     \/ Given(s, "num", "dsge_var") /\ Given(s, "symbol_list", "irf_shocks")
                     \/ Given(s, "num", "dsge_varlag") /\ d.calibrated = 0 /\ "dsge_var_estimated" \notin d.present
                     \/ d.calibrated # 0 /\ "dsge_var_estimated" \in d.present
                     \/ ~Given(s, "str", "datafile") /\ "data" \notin m.present)
    BY <1>2, <1>4, <1>6, <1>8, <1>10 DEF EstimationCheckPass, flags
  <2> QED BY <2>1, <2>2, FailsOf, Zenon
<1>12. Plain(a, n)
  BY <1>5, <1>7, <1>9, <1>11, PlainOn
<1>13. "estimation" \in n.present /\ (Num(s, "analytic_derivation") = 1 => "analytic_derivation" \in n.present)
  BY <1>7, <1>9, <1>11
<1>. HIDE DEF n
<1>14. Carried(m, n) /\ n.order_option = a.order_option
  BY <1>3, <1>12, CarriedOn DEF Plain
<1>15. Noted(n, s)
  BY <1>3, <1>13, <1>14 DEF Noted, Analytic, OrderGiven
<1>16. Passed(s, m, n)
  BY <1>1, <1>3, <1>14, <1>15 DEF Passed, OrderGiven
<1> QED BY <1>16 DEF n

\* The notes that the statements without an order leave alone.
LEMMA ClassPlain ==
    ASSUME NEW s, NEW m, IsNotes(m)
    PROVE  /\ Plain(m, EstimatedParamsCheckPass(s, m)) /\ Plain(m, SvarIdentificationCheckPass(s, m))
           /\ Plain(m, EstimationDataCheckPass(s, m)) /\ Plain(m, BvarCheckPass(s, m))
           /\ Plain(m, MarkovSwitchingCheckPass(s, m)) /\ Plain(m, PriorCheckPass(s, m))
           /\ Plain(m, CorrOptionsCheckPass(s, m)) /\ Plain(m, ConditionalPathsCheckPass(s, m))
           /\ Plain(m, InitvalCheckPass(s, m)) /\ Plain(m, EndvalCheckPass(s, m))
<1>1. Plain(m, EstimatedParamsCheckPass(s, m))
  BY FailsNotes, Zenon DEF EstimatedParamsCheckPass
<1>2. Plain(m, SvarIdentificationCheckPass(s, m))
  BY FailsNotes, Zenon DEF SvarIdentificationCheckPass
<1>3. Plain(m, EstimationDataCheckPass(s, m))
  BY FailsNotes, Zenon DEF EstimationDataCheckPass
<1>4. Plain(m, BvarCheckPass(s, m))
  BY DEF BvarCheckPass, Fails, Notes, Plain, Carried, IsNotes
<1>5. Plain(m, MarkovSwitchingCheckPass(s, m))
  BY DEF MarkovSwitchingCheckPass, Fails, Plain, Carried, IsNotes
<1>6. Plain(m, PriorCheckPass(s, m))
  BY FailsOf, Zenon DEF PriorCheckPass
<1>7. Plain(m, CorrOptionsCheckPass(s, m))
  BY FailsOf, Zenon DEF CorrOptionsCheckPass
<1>8. Plain(m, ConditionalPathsCheckPass(s, m))
  BY FailsOf, Zenon DEF ConditionalPathsCheckPass
<1>9. Plain(m, InitvalCheckPass(s, m)) /\ Plain(m, EndvalCheckPass(s, m))
  BY FailsOf, Zenon DEF InitvalCheckPass, EndvalCheckPass
<1> QED BY <1>1, <1>2, <1>3, <1>4, <1>5, <1>6, <1>7, <1>8, <1>9

\* The other statements give no order.
LEMMA OthersPlain ==
    ASSUME NEW s, NEW m, IsNotes(m), s.kind \notin Stochastic \cup {"simul"}
    PROVE  /\ Plain(m, CheckPass(s, m))
           /\ s.kind \in {"check", "identification"} => s.kind \in CheckPass(s, m).present
<1>. DEFINE n == CheckPass(s, m)
<1>1. CASE s.kind = "check"
  <2>1. n = Notes(m, {"check"})
    BY <1>1, PassOf DEF CheckTasks
  <2> QED BY <1>1, <2>1, NotesOf
<1>2. CASE s.kind = "identification"
  <2>1. PICK wrong : n = Fails(Notes(m, {"identification"}), wrong)
    BY <1>2, PassOf DEF IdentificationCheckPass
  <2> QED BY <1>2, <2>1, FailsNotes
<1>3. CASE s.kind \in {"estimated_params", "svar_identification", "data", "markov_switching", "prior",
                       "options", "conditional_forecast_paths", "initval", "endval"} \cup Bvar
  <2>1. s.kind \in Bvar => n = BvarCheckPass(s, m)
    BY PassOf
  <2>2. s.kind \in {"estimated_params", "svar_identification", "data", "markov_switching"} =>
          n \in {EstimatedParamsCheckPass(s, m), SvarIdentificationCheckPass(s, m),
                 EstimationDataCheckPass(s, m), MarkovSwitchingCheckPass(s, m)}
    BY PassOf
  <2>3. s.kind \in {"prior", "options", "conditional_forecast_paths", "initval", "endval"} =>
          n \in {PriorCheckPass(s, m), CorrOptionsCheckPass(s, m), ConditionalPathsCheckPass(s, m),
                 InitvalCheckPass(s, m), EndvalCheckPass(s, m)}
    BY PassOf
  <2>. HIDE DEF n
  <2>4. Plain(m, n)
    BY <1>3, <2>1, <2>2, <2>3, ClassPlain
  <2> QED BY <1>3, <2>4 DEF Bvar, n
<1>4. CASE s.kind \in {"steady", "dynare_sensitivity", "osr_params", "shocks", "mshocks",
                       "optim_weights", "planner_objective", "histval", "init_param"}
  <2>1. \E flags : n = Notes(m, flags)
    <3>1. CASE s.kind = "steady"
      BY <3>1, PassOf DEF CheckTasks
    <3>2. CASE s.kind = "dynare_sensitivity"
      BY <3>2, PassOf DEF SensitivityCheckPass
    <3>3. CASE s.kind = "osr_params"
      BY <3>3, PassOf DEF OsrCheckPass
    <3>4. CASE s.kind \in {"shocks", "mshocks"}
      BY <3>4, PassOf DEF ShocksCheckPass
    <3>5. CASE s.kind \in {"optim_weights", "planner_objective", "histval"}
      BY <3>5, PassOf
    <3>6. CASE s.kind = "init_param"
      BY <3>6, PassOf DEF InitParamCheckPass
    <3> QED BY <1>4, <3>1, <3>2, <3>3, <3>4, <3>5, <3>6
  <2> QED BY <1>4, <2>1, NotesOf
<1>5. CASE s.kind = "extended_path"
  BY <1>5, PassOf, FailsOf
<1>6. CASE s.kind \notin {"check", "identification", "markov_switching", "steady",
                          "dynare_sensitivity", "osr_params", "estimated_params",
                          "svar_identification", "data", "prior", "options", "shocks", "mshocks",
                          "conditional_forecast_paths", "init_param", "initval", "endval",
                          "extended_path", "optim_weights", "planner_objective", "histval"} \cup Bvar
  <2>1. s.kind = "model_info" => n = m
    BY PassOf DEF CheckTasks
  <2>2. s.kind # "model_info" => n = m
    BY <1>6 DEF CheckPass, Stochastic
  <2>3. Plain(m, m)
    BY DEF Plain, Carried
  <2> QED BY <1>6, <2>1, <2>2, <2>3
<1> QED BY <1>1, <1>2, <1>3, <1>4, <1>5, <1>6

\* simul takes away the note of the shocks before it, which nothing here needs.
LEMMA SimulPlain ==
    ASSUME NEW s, NEW m, IsNotes(m), s.kind = "simul"
    PROVE  Plain(m, CheckPass(s, m)) /\ "simul" \in CheckPass(s, m).present
<1>. DEFINE n == CheckPass(s, m)
<1>1. PICK a : a = Notes(m, {"simul"})
  OBVIOUS
<1>2. n = [a EXCEPT !.present = a.present \ {"shocks_before_simul"}]
  BY <1>1, PassOf DEF CheckTasks
<1>3. Plain(m, a) /\ "simul" \in a.present
  BY <1>1, NotesOf
<1>. HIDE DEF n
<1>4. Plain(a, n) /\ "simul" \in n.present
  BY <1>2, <1>3 DEF Plain, Carried, IsNotes
<1>5. Plain(m, n) /\ "simul" \in n.present
  BY <1>3, <1>4, PlainOn
<1> QED BY <1>5 DEF n

\* Every statement.
LEMMA StatementPassed ==
    ASSUME NEW s, NEW m, IsNotes(m), GoodStatement(s) PROVE Passed(s, m, CheckPass(s, m))
<1>1. CASE s.kind \in Stochastic
  BY <1>1, CommandPassed, EstimationPassed DEF Stochastic
<1>2. CASE s.kind \notin Stochastic
  <2>. DEFINE n == CheckPass(s, m)
  <2>1. Plain(m, n)
    BY <1>2, OthersPlain, SimulPlain
  <2>2. s.kind \in Computing => s.kind \in n.present
    BY <1>2, OthersPlain, SimulPlain DEF Computing, Stochastic
  <2>. HIDE DEF n
  <2>3. ~OrderGiven(s) /\ ~Analytic(s)
    BY <1>2 DEF OrderGiven, Analytic, Stochastic
  <2>4. Passed(s, m, n)
    BY <2>1, <2>2, <2>3 DEF Passed, Noted, Plain, Carried, IsNotes
  <2> QED BY <2>4 DEF n
<1> QED BY <1>1, <1>2

-------------------------------------------------------------------------------
(***************************************************************************)
(* The statements are passed one after the other                           *)
(***************************************************************************)

IsPass(g, n) == g = [k \in 0..n |-> IF k = 0 THEN NoNotes ELSE CheckPass(statements[k], g[k - 1])]

\* The notes after each of the statements.
LEMMA PassExists ==
    ASSUME NEW n \in Nat PROVE \E g : IsPass(g, n)
<1>. DEFINE S == {i \in Nat : \E g : IsPass(g, i)}
<1>1. 0 \in S
  <2>. DEFINE g == [k \in 0..0 |-> NoNotes]
  <2>1. IsPass(g, 0)
    BY DEF IsPass
  <2> QED BY <2>1
<1>2. ASSUME NEW i \in Nat, i \in S PROVE i + 1 \in S
  <2>1. PICK g : IsPass(g, i)
    BY <1>2
  <2>. DEFINE h == [k \in 0..i + 1 |-> IF k = i + 1 THEN CheckPass(statements[i + 1], g[i]) ELSE g[k]]
  <2>2. ASSUME NEW k \in 0..i + 1
        PROVE  h[k] = IF k = 0 THEN NoNotes ELSE CheckPass(statements[k], h[k - 1])
    <3>1. CASE k = 0
      BY <2>1, <3>1 DEF IsPass
    <3>2. CASE k \in 1..i
      <4>1. g[k] = CheckPass(statements[k], g[k - 1])
        BY <2>1, <3>2 DEF IsPass
      <4>2. h[k] = g[k] /\ h[k - 1] = g[k - 1] /\ k # 0
        BY <3>2
      <4>. HIDE DEF h
      <4> QED BY <4>1, <4>2
    <3>3. CASE k = i + 1
      <4>1. h[k] = CheckPass(statements[k], g[i]) /\ h[k - 1] = g[i] /\ k # 0
        BY <3>3
      <4>. HIDE DEF h
      <4> QED BY <4>1
    <3> QED BY <3>1, <3>2, <3>3
  <2>3. h = [k \in 0..i + 1 |-> h[k]]
    OBVIOUS
  <2>. HIDE DEF h
  <2>4. IsPass(h, i + 1)
    BY <2>2, <2>3, Zenon DEF IsPass
  <2> QED BY <2>4
<1>. HIDE DEF S
<1>3. n \in S
  BY <1>1, <1>2, Data!Induction
<1> QED BY <1>3 DEF S

\* What was noted of a statement is still noted after another one.
LEMMA NotedOn ==
    ASSUME NEW s, GoodStatement(s), NEW m, Noted(m, s), IsNotes(m),
           NEW n, Carried(m, n), m.order_option =< n.order_option
    PROVE  Noted(n, s)
<1>1. s.kind \in Computing => s.kind \in n.present
  BY DEF Noted, Carried, Computing
<1>2. Analytic(s) => "analytic_derivation" \in n.present
  BY DEF Noted, Carried
<1>3. OrderGiven(s) => Num(s, "order") =< n.order_option
  <2>1. OrderGiven(s) => Num(s, "order") \in Nat
    BY OrderIsNumber DEF OrderGiven
  <2> QED BY <2>1 DEF Noted, Carried, IsNotes
<1> QED BY <1>1, <1>2, <1>3 DEF Noted

(* What the notes after i statements know. *)
NotesKnow(m, i) ==
    /\ IsNotes(m)
    /\ \A j \in 1..i : Noted(m, statements[j])
    /\ (\A j \in 1..i : ~OrderGiven(statements[j])) => m.order_option = 0

LEMMA NotesAfterKnow ==
    ASSUME StatementsInv PROVE NotesKnow(NotesAfter(Len(statements)), Len(statements))
<1>. DEFINE N == Len(statements)
<1>1. N \in Nat /\ DOMAIN statements = 1..N
  BY DEF StatementsInv, Listed
<1>. HIDE DEF N
<1>2. PICK g : IsPass(g, N) /\ NotesAfter(N) = g[N]
  <2>. DEFINE after == CHOOSE g : IsPass(g, N)
  <2>1. IsPass(after, N)
    BY <1>1, PassExists
  <2>2. NotesAfter(N) = after[N]
    BY DEF NotesAfter, IsPass
  <2>. HIDE DEF after
  <2> QED BY <2>1, <2>2
<1>. DEFINE S == {i \in Nat : i =< N => NotesKnow(g[i], i)}
<1>3. 0 \in S
  <2>1. g[0] = NoNotes
    BY <1>1, <1>2 DEF IsPass
  <2>2. IsNotes(NoNotes) /\ NoNotes.order_option = 0
    BY DEF IsNotes, NoNotes
  <2> QED BY <2>1, <2>2 DEF NotesKnow
<1>4. ASSUME NEW i \in Nat, i \in S PROVE i + 1 \in S
  <2>. SUFFICES ASSUME i + 1 =< N PROVE NotesKnow(g[i + 1], i + 1)
    OBVIOUS
  <2>1. NotesKnow(g[i], i)
    BY <1>1, <1>4
  <2>. DEFINE s == statements[i + 1]
  <2>2. GoodStatement(s)
    BY <1>1 DEF StatementsInv
  <2>3. g[i + 1] = CheckPass(s, g[i])
    <3>1. i + 1 \in 0..N /\ i + 1 # 0 /\ (i + 1) - 1 = i
      BY <1>1
    <3>2. \A k \in 0..N : g[k] = IF k = 0 THEN NoNotes ELSE CheckPass(statements[k], g[k - 1])
      BY <1>2, Zenon DEF IsPass
    <3> QED BY <3>1, <3>2
  <2>. HIDE DEF s
  <2>4. Passed(s, g[i], g[i + 1])
    BY <2>1, <2>2, <2>3, StatementPassed DEF NotesKnow
  <2>5. ASSUME NEW j \in 1..i + 1 PROVE Noted(g[i + 1], statements[j])
    <3>1. CASE j = i + 1
      BY <2>4, <3>1 DEF Passed, s
    <3>2. CASE j \in 1..i
      <4>1. Noted(g[i], statements[j]) /\ GoodStatement(statements[j])
        BY <1>1, <2>1, <3>2 DEF NotesKnow, StatementsInv
      <4> QED BY <2>1, <2>4, <4>1, NotedOn DEF Passed, NotesKnow
    <3> QED BY <3>1, <3>2
  <2>6. ASSUME \A j \in 1..i + 1 : ~OrderGiven(statements[j]) PROVE g[i + 1].order_option = 0
    <3>1. ~OrderGiven(s) /\ \A j \in 1..i : ~OrderGiven(statements[j])
      BY <2>6 DEF s
    <3> QED BY <2>1, <2>4, <3>1 DEF Passed, NotesKnow
  <2>7. IsNotes(g[i + 1])
    BY <2>4 DEF Passed, Carried
  <2> QED BY <2>5, <2>6, <2>7 DEF NotesKnow
<1>. HIDE DEF S
<1>5. N \in S
  BY <1>1, <1>3, <1>4, Data!Induction
<1> QED BY <1>1, <1>2, <1>5 DEF S, N

-------------------------------------------------------------------------------
(***************************************************************************)
(* What the statements write: the value of one key                         *)
(***************************************************************************)

(* The keys that properties follow: an option, a cell of one of the two matrices. *)
Followed(o) == \E a \in {"options_", "Sigma_e", "H"} : \E b, c : o = <<a, b, c>>

(* What v says of a key is what w does. *)
Untouched(o, w, v) ==
    /\ o \in DOMAIN v <=> o \in DOMAIN w
    /\ o \in DOMAIN w => v[o] = w[o]

(* Other keys. *)
Foreign(o, K) == \A k \in K : k # o

\* A key is not touched twice.
LEMMA UntouchedOn ==
    ASSUME NEW o, NEW w, NEW u, Untouched(o, w, u), NEW v, Untouched(o, u, v) PROVE Untouched(o, w, v)
BY DEF Untouched

\* Other keys, written over the workspace.
LEMMA OverUntouched ==
    ASSUME NEW o, NEW w, NEW v, Untouched(o, w, v), NEW f, Foreign(o, DOMAIN f) PROVE Untouched(o, w, f @@ v)
BY DEF Untouched, Foreign, @@

\* Keys of other arrays, taken away.
LEMMA WithoutUntouched ==
    ASSUME NEW o, NEW w, NEW arrays, o[1] \notin arrays PROVE Untouched(o, w, Without(w, arrays))
BY DEF Untouched, Without

\* The keys of two maps together.
LEMMA BothForeign ==
    ASSUME NEW o, NEW f, NEW g, Foreign(o, DOMAIN f), Foreign(o, DOMAIN g)
    PROVE  Foreign(o, DOMAIN (f @@ g))
BY DEF Foreign, @@

\* One key.
LEMMA OneForeign ==
    ASSUME NEW o, NEW k, k # o, NEW x PROVE Foreign(o, DOMAIN (k :> x))
BY DEF Foreign, :>

\* An array with its latest values.
LEMMA LatestForeign ==
    ASSUME NEW o, NEW q, \A i \in DOMAIN q : q[i][1] # o PROVE Foreign(o, DOMAIN Latest(q))
BY DEF Latest, Foreign

\* Keys of another length, or of another array.
LEMMA ShortForeign ==
    ASSUME NEW o, Followed(o)
    PROVE  /\ \A a : <<a>> # o
           /\ \A a, b : <<a, b>> # o
           /\ \A a, b, c : a # o[1] => <<a, b, c>> # o
           /\ \A a, b, c, d : <<a, b, c, d>> # o
           /\ \A a, b, c, d, e : <<a, b, c, d, e>> # o
           /\ o[1] \in {"options_", "Sigma_e", "H"}
BY DEF Followed

\* The order is such a key.
LEMMA OrderFollowed == Followed(OrderKey) /\ OrderKey[1] = "options_"
BY DEF Followed, OrderKey

\* The options of a statement: its order, when it has one.
LEMMA WriteOptionsOrder ==
    ASSUME NEW s, GoodOptions(s.of.options), NEW w
    PROVE  /\ ~Given(s, "num", "order") => Untouched(OrderKey, w, WriteOptions(s, w))
           /\ Given(s, "num", "order") => /\ OrderKey \in DOMAIN WriteOptions(s, w)
                                          /\ WriteOptions(s, w)[OrderKey] = Num(s, "order")
<1>. DEFINE f == OptionsInto(s, "options_")
            o == s.of.options
<1>1. DOMAIN f = {<<"options_", k[1], k[2]>> : k \in DOMAIN o}
  BY DEF OptionsInto
<1>2. OrderKey \in DOMAIN f <=> OrderOption \in DOMAIN o
  BY <1>1 DEF GoodOptions, OrderKey, OrderOption
<1>3. OrderKey \in DOMAIN f => f[OrderKey] = o[OrderOption]
  BY DEF OptionsInto, OrderKey, OrderOption
<1>. HIDE DEF f
<1>4. ~Given(s, "num", "order") => Untouched(OrderKey, w, WriteOptions(s, w))
  BY <1>2 DEF Given, OrderOption, WriteOptions, Untouched, f, @@
<1>5. ASSUME Given(s, "num", "order")
      PROVE  OrderKey \in DOMAIN WriteOptions(s, w) /\ WriteOptions(s, w)[OrderKey] = Num(s, "order")
  BY <1>2, <1>3, <1>5 DEF Given, Num, OrderOption, WriteOptions, f, @@
<1> QED BY <1>4, <1>5

(* What becomes of the workspace: the script stops, or the key has the value it had. *)
Keeps(o, w, v) == <<"stopped">> \in DOMAIN v \/ Untouched(o, w, v)

\* A script that stops is marked.
LEMMA Stops == ASSUME NEW w PROVE <<"stopped">> \in DOMAIN Stop(w)
BY DEF Stop, @@, :>

\* What is not written is not touched.
LEMMA SelfUntouched == ASSUME NEW o, NEW w PROVE Untouched(o, w, w)
BY DEF Untouched

\* The estimated parameters, their initial values and their bounds.
LEMMA EstimatedParamsKeep ==
    ASSUME NEW o, Followed(o), NEW s, NEW w
    PROVE  Keeps(o, w, EstimatedParamsWrite(s, w)) /\ Keeps(o, w, EstimatedParamsInitWrite(s, w))
<1>0. o[1] \in {"options_", "Sigma_e", "H"}
  BY ShortForeign
<1>1. Untouched(o, w, EstimatedParamsWrite(s, w))
  <2>. DEFINE q == [i \in DOMAIN s.of.estim_params |-> <<RowKey(s.of.estim_params[i]), s.of.estim_params[i][4]>>]
  <2>1. \A e : RowKey(e) # o
    <3>1. \A type, name : Table(type, name) # o[1]
      BY <1>0 DEF Table
    <3> QED BY <3>1, ShortForeign DEF RowKey
  <2>2. \A i \in DOMAIN q : q[i][1] # o
    BY <2>1
  <2>. HIDE DEF q
  <2>3. Foreign(o, DOMAIN Latest(q))
    BY <2>2, LatestForeign
  <2>4. Untouched(o, w, Without(w, Rows))
    BY <1>0, WithoutUntouched DEF Rows
  <2> QED BY <2>3, <2>4, OverUntouched DEF EstimatedParamsWrite, q
<1>2. Keeps(o, w, EstimatedParamsInitWrite(s, w))
  <2>1. \A e : TableOfInit(e) # o[1]
    BY <1>0 DEF TableOfInit
  <2>2. \A e : ~Selected(e, o, w)
    BY <2>1 DEF Selected
  <2> QED BY <2>2, Stops DEF EstimatedParamsInitWrite, Keeps, Untouched
<1> QED BY <1>1, <1>2 DEF Keeps

\* Subsamples.
LEMMA SubsamplesUntouched ==
    ASSUME NEW o, Followed(o), NEW s, NEW w, NEW ranges PROVE Untouched(o, w, SubsamplesWrite(s, w, ranges))
<1>1. o[1] # "prior" /\ \A a, b : Foreign(o, DOMAIN (<<a>> :> b)) /\ \A c : Foreign(o, DOMAIN (<<a, c>> :> b))
  BY ShortForeign, OneForeign
<1>2. \A a, b, c, d : Foreign(o, DOMAIN (IndexKey(a, b, c) :> d))
  BY ShortForeign, OneForeign DEF IndexKey
<1>3. ASSUME NEW slot
      PROVE  Untouched(o, w, [k \in {k \in DOMAIN w : ~(k[1] = "prior" /\ SubSeq(k, 1, 4) = slot /\ k[5] # 0)} |-> w[k]])
  BY <1>1 DEF Untouched
<1> QED BY <1>1, <1>2, <1>3, BothForeign, OverUntouched DEF SubsamplesWrite

\* Priors and options of the estimated objects, and their copies.
LEMMA ObjectsKeep ==
    ASSUME NEW o, Followed(o), NEW s, NEW w
    PROVE  /\ Keeps(o, w, CopySubsamplesWrite(s, w))
           /\ Keeps(o, w, PriorWrite(s, w))
           /\ Keeps(o, w, SetOptionsWrite(s, w))
           /\ Keeps(o, w, CopyWrite(s, w))
<1>1. Keeps(o, w, CopySubsamplesWrite(s, w))
  BY SubsamplesUntouched, Stops DEF CopySubsamplesWrite, Keeps
<1>2. ASSUME NEW key, NEW slot, key # o, slot # o, NEW a, NEW b
      PROVE  Untouched(o, w, (key :> a) @@ (slot :> b) @@ w)
  BY <1>2, OneForeign, BothForeign, OverUntouched, SelfUntouched
<1>3. ASSUME NEW a, NEW b, NEW c PROVE IndexKey(a, b, c) # o
  BY ShortForeign DEF IndexKey
<1>4. ASSUME NEW a, NEW b, NEW c, NEW d, NEW e PROVE Slot(a, b, c, d, e, w) # o
  BY ShortForeign DEF Slot
<1>5. ASSUME NEW content PROVE Keeps(o, w, EstimatedObjectWrite(s, w, content))
  BY <1>2, <1>3, <1>4, Stops DEF EstimatedObjectWrite, Keeps
<1>6. Keeps(o, w, CopyWrite(s, w))
  BY <1>2, <1>3, <1>4, Stops DEF CopyWrite, Keeps
<1> QED BY <1>1, <1>5, <1>6 DEF PriorWrite, SetOptionsWrite

\* Values of variables and parameters.
LEMMA InitialForeign == ASSUME NEW o, Followed(o), NEW s PROVE Foreign(o, DOMAIN WriteInitValues(s))
<1>. DEFINE q == [i \in DOMAIN s.of.init_values |->
            <<<<Array(s.of.init_values[i][1]), Tsid(s.of.init_values[i][1])>>, s.of.init_values[i][2]>>]
<1>1. \A i \in DOMAIN q : q[i][1] # o
  BY ShortForeign
<1>. HIDE DEF q
<1>2. Foreign(o, DOMAIN Latest(q))
  BY <1>1, LatestForeign
<1> QED BY <1>2 DEF WriteInitValues, q

\* Parameters, initial, terminal and historical values, homotopy.
LEMMA ValuesKeep ==
    ASSUME NEW o, Followed(o), NEW s, NEW w
    PROVE  /\ Untouched(o, w, InitParamWrite(s, w)) /\ Untouched(o, w, InitvalWrite(s, w))
           /\ Untouched(o, w, EndvalWrite(s, w)) /\ Untouched(o, w, HistvalWrite(s, w))
           /\ Untouched(o, w, HomotopyWrite(s, w)) /\ Untouched(o, w, LoadParamsWrite(s, w))
<1>. USE InitialForeign, ShortForeign
<1>1. Untouched(o, w, InitParamWrite(s, w))
  BY DEF InitParamWrite, Untouched, @@, :>
<1>2. Untouched(o, w, InitvalWrite(s, w))
  BY DEF InitvalWrite, Untouched, Foreign, @@, :>
<1>3. Untouched(o, w, EndvalWrite(s, w))
  BY DEF EndvalWrite, Untouched, Foreign, @@, :>
<1>4. Untouched(o, w, HistvalWrite(s, w))
  <2>1. Untouched(o, w, Without(w, {"endo_histval"}))
    BY WithoutUntouched
  <2>2. \A x : Foreign(o, DOMAIN (<<"exo_simul">> :> x))
    BY OneForeign
  <2>3. Foreign(o, DOMAIN None)
    BY DEF Foreign, None
  <2>. DEFINE h == s.of.hist_values
              endo == {k \in DOMAIN h : symbols[k[1]][2] = "endo"}
              past == [k \in {<<"endo_histval", Tsid(e[1]), MaxLag + e[2]>> : e \in endo} |->
                         h[CHOOSE e \in endo : Tsid(e[1]) = k[2] /\ MaxLag + e[2] = k[3]]]
  <2>4. Foreign(o, DOMAIN past)
    BY DEF Foreign
  <2>. HIDE DEF past
  <2> QED BY <2>1, <2>2, <2>3, <2>4, BothForeign, OverUntouched DEF HistvalWrite, past
<1>5. Untouched(o, w, HomotopyWrite(s, w))
  BY DEF HomotopyWrite, Untouched, @@, :>
<1>6. Untouched(o, w, LoadParamsWrite(s, w))
  <2>. DEFINE q == [i \in DOMAIN s.of.content |->
    <<<<Array(IdOf(s.of.content[i][1])), Tsid(IdOf(s.of.content[i][1]))>>, s.of.content[i][2]>>]
  <2>1. \A i \in DOMAIN q : q[i][1] # o
    OBVIOUS
  <2>. HIDE DEF q
  <2>2. Foreign(o, DOMAIN Latest(q))
    BY <2>1, LatestForeign
  <2> QED BY <2>2, OverUntouched, SelfUntouched DEF LoadParamsWrite, q
<1> QED BY <1>1, <1>2, <1>3, <1>4, <1>5, <1>6

\* Shocks, and their variances, which are no options.
LEMMA ShocksKeep ==
    ASSUME NEW o, Followed(o), NEW s, NEW w
    PROVE  /\ Untouched(o, w, DetShocksWrite(s, w)) /\ Untouched(o, w, ConditionalPathsWrite(s, w))
           /\ o[1] = "options_" => Keeps(o, w, ShocksWrite(s, w)) /\ Untouched(o, w, SigmaEWrite(s, w))
<1>1. \A v : Untouched(o, w, v) => Untouched(o, w, DetShocksWrite(s, v))
  BY ShortForeign DEF DetShocksWrite, Untouched, @@
<1>5. Untouched(o, w, ConditionalPathsWrite(s, w))
  BY ShortForeign DEF ConditionalPathsWrite, Untouched, @@, :>
<1>. SUFFICES ASSUME o[1] = "options_" PROVE Keeps(o, w, ShocksWrite(s, w)) /\ Untouched(o, w, SigmaEWrite(s, w))
  BY <1>1, <1>5, SelfUntouched
<1>2. \A i, j : Cell(i, j) # o
  BY ShortForeign DEF Cell
<1>3. Foreign(o, DOMAIN WriteVarAndStdShocks(s)) /\ \A v : Foreign(o, DOMAIN WriteCovarAndCorrShocks(s, v))
  BY <1>2 DEF WriteVarAndStdShocks, WriteCovarAndCorrShocks, Foreign
<1>4. Keeps(o, w, ShocksWrite(s, w))
  <2>. DEFINE new == WriteVarAndStdShocks(s) @@ w
  <2>1. Untouched(o, w, DetShocksWrite(s, new))
    BY <1>1, <1>3, SelfUntouched, OverUntouched
  <2>. HIDE DEF new
  <2>2. Foreign(o, DOMAIN (WriteCovarAndCorrShocks(s, new) @@
           (<<"sigma_e_is_diagonal">> :> (s.of.covar_shocks = None /\ s.of.corr_shocks = None))))
    BY <1>3, ShortForeign, OneForeign, BothForeign
  <2> QED BY <2>1, <2>2, OverUntouched, Stops DEF ShocksWrite, Keeps, new
<1>6. Untouched(o, w, SigmaEWrite(s, w))
  <2>1. Untouched(o, w, Without(w, {"Sigma_e"}))
    BY WithoutUntouched
  <2> QED BY <2>1, ShortForeign, OverUntouched DEF SigmaEWrite, Foreign
<1> QED BY <1>4, <1>6

(* The options of s do not say anything of a key. *)
Silent(o, s) == \A v : Untouched(o, v, WriteOptions(s, v))

\* Those of other arrays, and options that hold no order.
LEMMA OptionsSilent ==
    ASSUME NEW o, Followed(o), NEW s,
           o[1] # "options_" \/ (o = OrderKey /\ GoodOptions(s.of.options) /\ ~Given(s, "num", "order"))
    PROVE  Silent(o, s)
<1>1. CASE o[1] # "options_"
  <2>1. Foreign(o, DOMAIN OptionsInto(s, "options_"))
    BY <1>1, ShortForeign DEF OptionsInto, Foreign
  <2> QED BY <2>1, OverUntouched, SelfUntouched DEF WriteOptions, Silent
<1>2. CASE o = OrderKey /\ GoodOptions(s.of.options) /\ ~Given(s, "num", "order")
  BY <1>2, WriteOptionsOrder DEF Silent
<1> QED BY <1>1, <1>2

\* Simulations.
LEMMA SimulKeeps ==
    ASSUME NEW o, Followed(o), NEW s, Silent(o, s), NEW w
    PROVE  Keeps(o, w, SimulWrite(s, w))
<1>1. Untouched(o, w, WriteOptions(s, w))
  BY DEF Silent
<1>2. \A x : Foreign(o, DOMAIN (<<"endo_simul">> :> x))
  BY ShortForeign, OneForeign
<1>. DEFINE paths == [k \in {<<p[1]>> : p \in Paths} |-> MakeEx(w, CHOOSE p \in Paths : p[1] = k[1])]
<1>3. Foreign(o, DOMAIN paths)
  BY ShortForeign DEF Foreign
<1>. HIDE DEF paths
<1> QED BY <1>1, <1>2, <1>3, BothForeign, OverUntouched, Stops DEF SimulWrite, Keeps, paths

(* The groups of options that are not those of options_ itself. *)
Groups == {"dataset", "options_ident", "options_gsa", "options_cond_fcst_"}

\* Tables of trends, of weights and of restrictions.
LEMMA TablesKeep ==
    ASSUME NEW o, Followed(o), NEW s, NEW w
    PROVE  /\ Untouched(o, w, TrendsWrite(s, w)) /\ Untouched(o, w, OsrParamsWrite(s, w))
           /\ Untouched(o, w, OptimWeightsWrite(s, w)) /\ Untouched(o, w, SvarIdentificationWrite(s, w))
           /\ Untouched(o, w, MarkovSwitchingWrite(s, w)) /\ Untouched(o, w, SvarWrite(s, w))
           /\ \A group \in Groups : Untouched(o, w, WriteGroup(s, w, group))
<1>0. o[1] \in {"options_", "Sigma_e", "H"}
  BY ShortForeign
<1>1. Untouched(o, w, TrendsWrite(s, w)) /\ Untouched(o, w, OsrParamsWrite(s, w))
  BY ShortForeign DEF TrendsWrite, OsrParamsWrite, Untouched, @@, :>
<1>2. Untouched(o, w, OptimWeightsWrite(s, w))
  <2>. DEFINE v == s.of.var_weights  c == s.of.covar_weights
              f == [k \in {<<"optim_weights_", IdByName(p[1]), IdByName(p[2])>> : p \in DOMAIN c} |->
                      c[CHOOSE p \in DOMAIN c : IdByName(p[1]) = k[2] /\ IdByName(p[2]) = k[3]]]
              g == [k \in {<<"optim_weights_", IdByName(n), IdByName(n)>> : n \in DOMAIN v} |->
                      v[CHOOSE n \in DOMAIN v : IdByName(n) = k[2]]]
  <2>1. \A a, b : <<"optim_weights_", a, b>> # o
    BY <1>0, ShortForeign
  <2>2. Foreign(o, DOMAIN f) /\ Foreign(o, DOMAIN g)
    BY <2>1 DEF Foreign
  <2>. HIDE DEF f, g
  <2>3. \A x : Foreign(o, DOMAIN (<<"obj_var_">> :> x))
    BY ShortForeign, OneForeign
  <2>4. Untouched(o, w, Without(w, {"optim_weights_"}))
    BY <1>0, WithoutUntouched
  <2> QED BY <2>2, <2>3, <2>4, BothForeign, OverUntouched DEF OptimWeightsWrite, f, g
<1>3. Untouched(o, w, SvarIdentificationWrite(s, w))
  <2>. DEFINE q == s.of.ident_restrictions
              rows == [i \in DOMAIN q |-> <<<<IF q[i].lag = 0 THEN "Qi" ELSE "Ri", q[i].equation, q[i].nbr, Column(q[i])>>, q[i].value>>]
  <2>1. \A i \in DOMAIN rows : rows[i][1] # o
    BY ShortForeign
  <2>. HIDE DEF rows
  <2>2. Foreign(o, DOMAIN Latest(rows))
    BY <2>1, LatestForeign
  <2>3. Untouched(o, w, Without(w, {"Qi", "Ri"})) /\ Untouched(o, w, w)
    BY <1>0, WithoutUntouched, SelfUntouched
  <2>4. Foreign(o, DOMAIN (<<"cholesky">> :> s.of.cholesky))
    BY ShortForeign, OneForeign
  <2>5. Untouched(o, w, Latest(rows) @@ Without(w, {"Qi", "Ri"}))
    BY <2>2, <2>3, OverUntouched
  <2> QED BY <2>3, <2>4, <2>5, OverUntouched DEF SvarIdentificationWrite, rows
<1>4. Untouched(o, w, MarkovSwitchingWrite(s, w)) /\ Untouched(o, w, SvarWrite(s, w))
  BY <1>0, ShortForeign DEF MarkovSwitchingWrite, SvarWrite, Untouched, @@, :>
<1>5. ASSUME NEW group \in Groups PROVE Untouched(o, w, WriteGroup(s, w, group))
  <2>0. group # o[1]
    BY <1>0 DEF Groups
  <2>1. Untouched(o, w, Without(w, {group}))
    BY <2>0, WithoutUntouched
  <2>2. Foreign(o, DOMAIN OptionsInto(s, group))
    BY <2>0, ShortForeign DEF OptionsInto, Foreign
  <2> QED BY <2>1, <2>2, OverUntouched DEF WriteGroup
<1> QED BY <1>1, <1>2, <1>3, <1>4, <1>5

\* Commands that write their options.
LEMMA OptionsKeepOrder ==
    ASSUME NEW o, Followed(o), NEW s, Silent(o, s), NEW w,
           o[1] = "options_" => o = OrderKey
    PROVE  /\ Untouched(o, w, ModelComparisonWrite(s, w)) /\ Untouched(o, w, BvarWrite(s, w))
           /\ Untouched(o, w, WriteOptions(s, w))
<1>1. \A v : Untouched(o, v, WriteOptions(s, v))
  BY DEF Silent
<1>2. Untouched(o, w, ModelComparisonWrite(s, w))
  BY <1>1, ShortForeign, OneForeign, OverUntouched DEF ModelComparisonWrite
<1>3. Untouched(o, w, BvarWrite(s, w))
  <2>. DEFINE v == [k \in {k \in DOMAIN w : ~(k[1] = "options_" /\ k[3] = "ms.drop")} |-> w[k]]
  <2>1. ~(o[1] = "options_" /\ o[3] = "ms.drop")
    BY DEF OrderKey
  <2>2. Untouched(o, w, v)
    BY <2>1 DEF Untouched
  <2>. HIDE DEF v
  <2>3. Untouched(o, w, WriteOptions(s, v))
    BY <1>1, <2>2, UntouchedOn
  <2> QED BY <1>1, <2>3 DEF BvarWrite, v
<1> QED BY <1>1, <1>2, <1>3

\* Commands that have options of their own, and the few that they share.
LEMMA OwnOptionsKeep ==
    ASSUME NEW o, Followed(o), o[1] = "options_" => o = OrderKey, NEW s, NEW w
    PROVE  /\ \A group \in Groups : Untouched(o, w, OwnOptionsWrite(s, w, group))
           /\ Untouched(o, w, ExtendedPathWrite(s, w))
<1>1. ASSUME NEW a, NEW b, b # "order" PROVE <<"options_", a, b>> # o
  <2>1. CASE o[1] = "options_"
    BY <1>1, <2>1 DEF OrderKey
  <2>2. CASE o[1] # "options_"
    BY <2>2, ShortForeign
  <2> QED BY <2>1, <2>2
<1>2. ASSUME NEW group \in Groups PROVE Untouched(o, w, OwnOptionsWrite(s, w, group))
  <2>. DEFINE f == [k \in {<<"options_", c[1], c[2]>> : c \in DOMAIN s.of.options \cap Shown} |-> s.of.options[<<k[2], k[3]>>]]
  <2>1. \A k \in DOMAIN f : \E c \in Shown : k = <<"options_", c[1], c[2]>>
    OBVIOUS
  <2>2. \A c \in Shown : c[2] # "order"
    BY DEF Shown
  <2>. HIDE DEF f
  <2>3. Foreign(o, DOMAIN f)
    BY <1>1, <2>1, <2>2 DEF Foreign
  <2>4. Untouched(o, w, WriteGroup(s, w, group))
    BY TablesKeep
  <2> QED BY <2>3, <2>4, OverUntouched DEF OwnOptionsWrite, f
<1>3. Untouched(o, w, ExtendedPathWrite(s, w))
  <2>1. \A n : Foreign(o, DOMAIN (<<"options_", "num", "ep.periods">> :> n))
    BY <1>1, OneForeign
  <2>2. \A n : Untouched(o, w, (<<"options_", "num", "ep.periods">> :> n) @@ w)
    BY <2>1, SelfUntouched, OverUntouched
  <2> QED BY <2>2, SelfUntouched DEF ExtendedPathWrite
<1> QED BY <1>2, <1>3

(* What WriteStatement makes of the workspace. *)
WrittenBy(s, w) == IF s.kind \in Estimated THEN EstimatedWrite(s, w)
                 ELSE IF s.kind \in Conditions THEN ConditionsWrite(s, w) ELSE CommandsWrite(s, w)

\* Every statement that holds no order leaves the order alone, and the others leave the
\* matrices alone.
LEMMA OthersKeep ==
    ASSUME NEW o, Followed(o), o[1] = "options_" => o = OrderKey, NEW s, s.kind \notin Stochastic \cup {"calib_smoother"},
           s.kind \in Optioned \/ "options" \in DOMAIN s.of => Silent(o, s),
           s.kind \in {"shocks", "Sigma_e"} => o[1] = "options_", NEW w
    PROVE  Keeps(o, w, WrittenBy(s, w))
<1>3. \A v : Untouched(o, w, v) => Keeps(o, w, v)
  BY DEF Keeps
<1>4. CASE s.kind \in Estimated
  <2>1. EstimatedWrite(s, w) \in {EstimatedParamsWrite(s, w), EstimatedParamsInitWrite(s, w),
          SubsamplesWrite(s, w, SetOrder(DOMAIN s.of.ranges)), CopySubsamplesWrite(s, w),
          PriorWrite(s, w), SetOptionsWrite(s, w), CopyWrite(s, w), WriteGroup(s, w, "dataset")}
    BY <1>4 DEF Estimated, Stochastic, EstimatedWrite
  <2>2. Keeps(o, w, EstimatedWrite(s, w))
    BY <1>3, <2>1, EstimatedParamsKeep, SubsamplesUntouched, ObjectsKeep, TablesKeep DEF Groups
  <2> QED BY <1>4, <2>2 DEF WrittenBy
<1>5. CASE s.kind \in Conditions /\ s.kind \notin Estimated
  <2>1. CASE s.kind = "simul"
    <3>1. Keeps(o, w, SimulWrite(s, w))
      BY <2>1, SimulKeeps DEF Optioned
    <3>2. WrittenBy(s, w) = SimulWrite(s, w)
      BY <1>5, <2>1 DEF WrittenBy, ConditionsWrite
    <3> QED BY <3>1, <3>2
  <2>2. CASE s.kind \in {"shocks", "Sigma_e"}
    <3>1. ConditionsWrite(s, w) \in {ShocksWrite(s, w), SigmaEWrite(s, w)}
      BY <2>2 DEF ConditionsWrite
    <3>2. Keeps(o, w, ConditionsWrite(s, w))
      BY <1>3, <2>2, <3>1, ShocksKeep
    <3> QED BY <1>5, <3>2 DEF WrittenBy
  <2>3. CASE s.kind \notin {"simul", "shocks", "Sigma_e"}
    <3>1. ConditionsWrite(s, w) \in {InitParamWrite(s, w), InitvalWrite(s, w), EndvalWrite(s, w),
            HistvalWrite(s, w), HomotopyWrite(s, w), LoadParamsWrite(s, w),
            DetShocksWrite(s, w), ConditionalPathsWrite(s, w)}
      BY <1>5, <2>3 DEF Conditions, ConditionsWrite
    <3>2. Keeps(o, w, ConditionsWrite(s, w))
      BY <1>3, <3>1, ValuesKeep, ShocksKeep
    <3> QED BY <1>5, <3>2 DEF WrittenBy
  <2> QED BY <2>1, <2>2, <2>3
<1>6. CASE s.kind \notin Conditions \cup Estimated
  <2>1. CASE s.kind \in Bvar \cup {"model_comparison"}
    <3>1. /\ s.kind \in Bvar => CommandsWrite(s, w) = BvarWrite(s, w)
          /\ s.kind = "model_comparison" => CommandsWrite(s, w) = ModelComparisonWrite(s, w)
      BY DEF CommandsWrite, Bvar
    <3>2. Silent(o, s)
      BY <2>1 DEF Optioned
    <3>3. Keeps(o, w, CommandsWrite(s, w))
      BY <1>3, <2>1, <3>1, <3>2, OptionsKeepOrder
    <3> QED BY <1>6, <3>3 DEF WrittenBy
  <2>2. CASE s.kind \notin Bvar \cup {"model_comparison"}
    <3>1. \/ CommandsWrite(s, w) \in {TrendsWrite(s, w), OsrParamsWrite(s, w), OptimWeightsWrite(s, w),
               SvarIdentificationWrite(s, w), MarkovSwitchingWrite(s, w), SvarWrite(s, w), w,
               OwnOptionsWrite(s, w, "options_ident"), OwnOptionsWrite(s, w, "options_gsa"),
               WriteGroup(s, w, "options_cond_fcst_"), ExtendedPathWrite(s, w)}
          \/ "options" \in DOMAIN s.of /\ CommandsWrite(s, w) = WriteOptions(s, w)
      BY <2>2 DEF CommandsWrite, Bvar, Stochastic
    <3>2. Keeps(o, w, CommandsWrite(s, w))
      BY <1>3, <3>1, TablesKeep, OwnOptionsKeep, OptionsKeepOrder, SelfUntouched DEF Groups
    <3> QED BY <1>6, <3>2 DEF WrittenBy
  <2> QED BY <2>1, <2>2
<1> QED BY <1>4, <1>5, <1>6

\* What writes neither variances nor covariances leaves the two matrices alone.
LEMMA CellsKept ==
    ASSUME NEW o, Followed(o), o[1] # "options_", NEW s, s.kind \notin {"shocks", "Sigma_e"}, NEW w
    PROVE  Keeps(o, w, WrittenBy(s, w))
<1>1. Silent(o, s)
  BY OptionsSilent
<1>2. CASE s.kind \notin Stochastic \cup {"calib_smoother"}
  BY <1>1, <1>2, OthersKeep
<1>3. CASE s.kind \in Stochastic \cup {"calib_smoother"}
  <2>1. Untouched(o, w, WriteOptions(s, w))
    BY <1>1 DEF Silent
  <2>2. Untouched(o, w, Order(1, WriteOptions(s, w)))
    <3>1. OrderKey # o
      BY OrderFollowed
    <3> QED BY <2>1, <3>1, OneForeign, OverUntouched DEF Order, OrderKey
  <2>3. WrittenBy(s, w) \in {WriteOptions(s, w), Order(1, WriteOptions(s, w)), w}
    BY <1>3 DEF WrittenBy, Stochastic, Estimated, Conditions, EstimatedWrite, EstimationWrite, CommandsWrite, Bvar
  <2> QED BY <2>1, <2>2, <2>3, SelfUntouched DEF Keeps
<1> QED BY <1>2, <1>3

(* What a statement does to the order. *)
SetTo(v, n) == OrderKey \in DOMAIN v /\ v[OrderKey] = n
Effect(s, w, v) ==
    \/ <<"stopped">> \in DOMAIN v
    \/ OrderGiven(s) /\ SetTo(v, Num(s, "order"))
    \/ SetTo(v, 1)
    \/ Untouched(OrderKey, w, v) /\ ~OrderGiven(s) /\ s.kind \notin {"estimation", "osr"}

LEMMA StatementWritten ==
    ASSUME NEW s, GoodStatement(s), NEW w PROVE Effect(s, w, WrittenBy(s, w))
<1>1. \A v : SetTo(Order(1, v), 1)
  BY DEF SetTo, Order, OrderKey, @@, :>
<1>2. s.kind \in Optioned => GoodOptions(s.of.options)
  BY DEF GoodStatement
<1>3. CASE s.kind \in {"osr", "calib_smoother"}
  <2>1. s.kind = "osr" => WrittenBy(s, w) = Order(1, WriteOptions(s, w))
    BY DEF WrittenBy, Estimated, Conditions, CommandsWrite, Bvar
  <2>2. s.kind = "calib_smoother" => WrittenBy(s, w) = Order(1, WriteOptions(s, w))
    BY DEF WrittenBy, Estimated, EstimatedWrite
  <2>3. WrittenBy(s, w) = Order(1, WriteOptions(s, w))
    BY <1>3, <2>1, <2>2
  <2> QED BY <1>1, <2>3 DEF Effect
<1>4. CASE s.kind = "estimation"
  <2>1. WrittenBy(s, w) = EstimationWrite(s, w)
    BY <1>4 DEF WrittenBy, Estimated, EstimatedWrite
  <2>2. GoodOptions(s.of.options)
    BY <1>2, <1>4 DEF Optioned, Stochastic
  <2>3. Given(s, "num", "order") => SetTo(EstimationWrite(s, w), Num(s, "order"))
    BY <2>2, WriteOptionsOrder DEF EstimationWrite, SetTo
  <2>4. ~Given(s, "num", "order") => SetTo(EstimationWrite(s, w), 1)
    BY <1>1 DEF EstimationWrite
  <2> QED BY <1>4, <2>1, <2>3, <2>4 DEF Effect, OrderGiven, Stochastic
<1>5. CASE s.kind \in {"stoch_simul", "ramsey_policy", "discretionary_policy"}
  <2>1. "options" \in DOMAIN s.of /\ GoodOptions(s.of.options)
    BY <1>2, <1>5 DEF GoodStatement, Optioned, Stochastic
  <2>2. WrittenBy(s, w) = WriteOptions(s, w)
    BY <1>5, <2>1 DEF WrittenBy, Estimated, Conditions, CommandsWrite, Bvar
  <2> QED BY <1>5, <2>1, <2>2, WriteOptionsOrder DEF Effect, OrderGiven, Stochastic, SetTo
<1>6. CASE s.kind \notin Stochastic \cup {"calib_smoother"}
  <2>1. "options" \in DOMAIN s.of => GoodOptions(s.of.options) /\ ~Given(s, "num", "order")
    BY <1>6 DEF GoodStatement, Given, OrderOption
  <2>2. s.kind \in Optioned => "options" \in DOMAIN s.of
    BY DEF GoodStatement
  <2>3. s.kind \in Optioned \/ "options" \in DOMAIN s.of => Silent(OrderKey, s)
    BY <2>1, <2>2, OrderFollowed, OptionsSilent
  <2>4. Keeps(OrderKey, w, WrittenBy(s, w))
    BY <1>6, <2>3, OrderFollowed, OthersKeep
  <2> QED BY <1>6, <2>4 DEF Effect, Keeps, OrderGiven, Stochastic
<1> QED BY <1>3, <1>4, <1>5, <1>6 DEF Stochastic

-------------------------------------------------------------------------------
(***************************************************************************)
(* The invariant                                                           *)
(***************************************************************************)

Passes == {"checked", "transforming", "computing", "writing"}

NoOrder == \A j \in DOMAIN statements : ~OrderGiven(statements[j])

(* After checkPass the notes hold what every statement needs, and an order was noted only
   if one was written; the default order is 2. *)
NotesInv ==
    phase \in Passes =>
      /\ IsNotes(notes)
      /\ \A j \in DOMAIN statements : Noted(notes, statements[j])
      /\ NoOrder => notes.order_option = IF phase = "checked" THEN 0 ELSE 2

(* A file without equations has no command that needs a model. *)
FileInv ==
    phase \in {"transforming", "computing", "writing"} =>
      ~(Files[file].equations = 0 /\ Present({"check", "simul"} \cup Stochastic))

(* The order in the workspace is one that a statement has set so far. *)
OrderSet ==
    /\ (\E k \in 1..done : statements[k].kind \in Computing /\ GivesOrder(statements[k])) => OrderKey \in DOMAIN ws
    /\ OrderKey \in DOMAIN ws =>
         \/ ws[OrderKey] = 1
         \/ \E k \in 1..done : OrderGiven(statements[k]) /\ ws[OrderKey] = Num(statements[k], "order")
WritingInv ==
    phase = "writing" =>
      /\ computed = Derivatives /\ ~OrderWrong
      /\ done \in 0..Len(statements)
      /\ IF <<"stopped">> \in DOMAIN ws THEN done = Len(statements) ELSE OrderSet

IInv == file \in DOMAIN Files /\ ParsingInv /\ (phase # "writing" => done = 0) /\ NotesInv /\ FileInv /\ WritingInv

\* Reading a piece goes on or ends in an error.
LEMMA ParsePhase == Parse => phase = "parsing" /\ phase' \in {"parsing", "error"} /\ file' = file
<1>. SUFFICES ASSUME Parse PROVE phase = "parsing" /\ phase' \in {phase, "error"} /\ file' = file
  OBVIOUS
<1>1. PICK t \in Pieces : Handlers(t)
  BY DEF Parse, Pieces
<1>. USE DEF Reads, Only
<1>2. CASE \/ DeclareSymbol(t) \/ AddPredeterminedVariable(t) \/ AddModelVariable(t)
           \/ AddExpressionVariable(t) \/ ModelLocalVariable(t) \/ ChangeType(t)
           \/ AddSteadyStateModelEqual(t) \/ AddVarobs(t) \/ ModelFlag(t)
           \/ ExternalFunction(t) \/ CallFunction(t)
  BY <1>2 DEF DeclareSymbol, AddPredeterminedVariable, AddModelVariable, AddExpressionVariable,
         ModelLocalVariable, ChangeType, AddSteadyStateModelEqual, AddVarobs, ModelFlag,
         ExternalFunction, CallFunction
<1>3. CASE \/ InitVal(t) \/ HistVal(t) \/ HomotopyVal(t) \/ AddDetShock(t) \/ AddVarShock(t)
           \/ AddCovarShock(t) \/ AddRow(t) \/ BeginSvarIdentification(t)
           \/ AddRestrictionInEquation(t) \/ AddCholesky(t) \/ AddInSymbolList(t)
           \/ AddEstimatedParamsElement(t) \/ SetTrendElement(t) \/ SetOptimWeight(t)
           \/ SetOptimCovariance(t) \/ AddMcFilename(t) \/ SubsampleRange(t) \/ Shape(t)
           \/ Variance(t) \/ OptionNum(t) \/ OptionSymbolList(t) \/ OptimOptions(t)
           \/ CombineLagAndRestriction(t) \/ AddRestriction(t)
  BY <1>3 DEF InitVal, HistVal, HomotopyVal, AddDetShock, AddVarShock, AddCovarShock, AddRow,
         BeginSvarIdentification, AddRestrictionInEquation, AddCholesky, AddInSymbolList,
         AddEstimatedParamsElement, SetTrendElement, SetOptimWeight, SetOptimCovariance,
         AddMcFilename, SubsampleRange, Shape, Variance, Keep, Enters, OptionNum, OptionSymbolList, OptimOptions,
         CombineLagAndRestriction, AddRestriction
<1>4. CASE \/ EndSimulation(t) \/ EndSteady(t) \/ Forecast(t) \/ EstimationData(t)
           \/ RunEstimation(t) \/ SetTrends(t) \/ EndOptimWeights(t) \/ RunOsr(t)
           \/ RunModelComparison(t) \/ PlannerObjective(t) \/ RunBvar(t) \/ RunForecasts(t)
           \/ EndEstimatedParams(t) \/ LoadParams(t) \/ PlannerDiscount(t) \/ OptimalPolicy(t)
  BY <1>4 DEF EndSimulation, EndSteady, Forecast, EstimationData, RunEstimation, SetTrends,
         EndOptimWeights, RunOsr, RunModelComparison, PlannerObjective, RunBvar, RunForecasts,
         EndEstimatedParams, LoadParams, PlannerDiscount, OptimalPolicy
<1>5. CASE \/ InitParam(t) \/ EndConditions(t) \/ EndShocks(t) \/ DoSigmaE(t)
           \/ EndSvarIdentification(t) \/ Svar(t) \/ MarkovSwitching(t)
           \/ SetPrior(t) \/ SetOptions(t) \/ Copy(t)
           \/ SetSubsamples(t) \/ CopySubsamples(t)
  BY <1>5 DEF InitParam, EndConditions, EndShocks, DoSigmaE, EndSvarIdentification, Svar,
         MarkovSwitching, SetPrior, SetOptions, Copy, SetSubsamples, CopySubsamples
<1> QED BY <1>1, <1>2, <1>3, <1>4, <1>5 DEF Handlers

\* The invariant holds of the file before it is read.
LEMMA InitInv == Init => IInv
<1>. SUFFICES ASSUME Init PROVE IInv
  OBVIOUS
<1>1. StatementsInv
  <2>1. statements \in Seq({}) /\ DOMAIN statements = {}
    BY DEF Init
  <2> QED BY <2>1 DEF StatementsInv, Listed
<1>2. BufferInv
  <2>1. scratch = Empty
    BY DEF Init
  <2> QED BY <2>1, EmptyOptions DEF BufferInv, GoodOptions
<1>3. phase = "parsing" /\ done = 0 /\ file \in DOMAIN Files
  BY DEF Init
<1> QED BY <1>1, <1>2, <1>3 DEF IInv, ParsingInv, NotesInv, FileInv, WritingInv, Passes

\* The actions that leave the statements alone keep what is known of them.
LEMMA StatementsUnchanged ==
    ASSUME StatementsInv, UNCHANGED statements, phase' # "parsing" PROVE ParsingInv'
BY DEF ParsingInv, StatementsInv, Listed

\* Each action keeps the invariant. Reading: the buffers.
LEMMA ParseInv == ASSUME IInv, Parse PROVE IInv'
<1>1. phase = "parsing" /\ phase' \in {"parsing", "error"} /\ file' = file
  BY ParsePhase
<1>2. ParsingInv'
  BY ParseKeeps DEF IInv
<1>3. done' = done
  BY DEF Parse
<1> QED BY <1>1, <1>2, <1>3 DEF IInv, NotesInv, FileInv, WritingInv, Passes

\* The end of the file: nothing is known of the notes yet.
LEMMA EndOfFileInv == ASSUME IInv, EndOfFile PROVE IInv'
<1>1. /\ phase = "parsing" /\ phase' = "checking" /\ file' = file /\ statements' = statements /\ done' = done
  BY DEF EndOfFile, parsed
<1>2. ParsingInv'
  BY <1>1, StatementsUnchanged DEF IInv, ParsingInv
<1> QED BY <1>1, <1>2 DEF IInv, NotesInv, FileInv, WritingInv, Passes

\* checkPass of the statements: the notes are those of NotesAfterKnow.
LEMMA CheckStatementsInv == ASSUME IInv, CheckStatements PROVE IInv'
<1>1. /\ phase = "checking" /\ phase' \in {"checked", "error"} /\ file' = file
      /\ statements' = statements /\ done' = done /\ notes' = NotesAfter(Len(statements))
  BY DEF CheckStatements, parsed
<1>2. ParsingInv'
  BY <1>1, StatementsUnchanged DEF IInv, ParsingInv
<1>3. NotesKnow(notes', Len(statements))
  BY <1>1, NotesAfterKnow DEF IInv, ParsingInv
<1>4. DOMAIN statements = 1..Len(statements)
  BY DEF IInv, ParsingInv, StatementsInv, Listed
<1>5. NotesInv'
  BY <1>1, <1>3, <1>4 DEF NotesKnow, NotesInv, NoOrder, Passes
<1> QED BY <1>1, <1>2, <1>5 DEF IInv, FileInv, WritingInv

\* checkPass of the file: the default order, and no command without a model.
LEMMA CheckFileInv == ASSUME IInv, CheckFile PROVE IInv'
<1>1. /\ phase = "checked" /\ phase' \in {"transforming", "error"} /\ file' = file
      /\ statements' = statements /\ done' = done
      /\ notes' = [notes EXCEPT !.order_option = IF notes.order_option = 0 THEN 2 ELSE notes.order_option]
      /\ phase' = "transforming" => ~Incompatible
  BY DEF CheckFile, parsed
<1>2. ParsingInv'
  BY <1>1, StatementsUnchanged DEF IInv, ParsingInv
<1>3. /\ IsNotes(notes) /\ \A j \in DOMAIN statements : Noted(notes, statements[j])
      /\ NoOrder => notes.order_option = 0
  BY <1>1 DEF IInv, NotesInv, Passes
<1>4. /\ notes'.present = notes.present /\ Carried(notes, notes')
      /\ notes'.order_option = IF notes.order_option = 0 THEN 2 ELSE notes.order_option
  BY <1>1, <1>3 DEF IsNotes, Carried
<1>5. notes.order_option =< notes'.order_option
  BY <1>3, <1>4 DEF IsNotes
<1>6. NotesInv'
  <2>1. ASSUME NEW j \in DOMAIN statements PROVE Noted(notes', statements[j])
    <3>1. GoodStatement(statements[j])
      BY DEF IInv, ParsingInv, StatementsInv
    <3> QED BY <1>3, <1>4, <1>5, <3>1, NotedOn
  <2>2. IsNotes(notes')
    BY <1>4 DEF Carried
  <2> QED BY <1>1, <1>3, <1>4, <2>1, <2>2 DEF NotesInv, NoOrder, Passes
<1>7. FileInv'
  BY <1>1, <1>4 DEF FileInv, Incompatible, Present
<1> QED BY <1>1, <1>2, <1>6, <1>7 DEF IInv, WritingInv

\* transformPass: a statement in front that gives no order.
LEMMA TransformFileInv == ASSUME IInv, TransformFile PROVE IInv'
<1>1. /\ phase = "transforming" /\ phase' \in {"computing", "error"} /\ file' = file
      /\ done' = done /\ notes' = notes
  BY DEF TransformFile
<1>2. NotesInv /\ StatementsInv /\ FileInv
  BY DEF IInv, ParsingInv
<1>3. CASE statements' = statements
  <2>1. ParsingInv'
    BY <1>1, <1>2, <1>3, StatementsUnchanged
  <2> QED BY <1>1, <1>2, <1>3, <2>1 DEF IInv, NotesInv, NoOrder, FileInv, Present, WritingInv, Passes
<1>4. CASE statements' # statements
  <2>. DEFINE s == [kind |-> "init_param", of |-> [id |-> Len(symbols'), value |-> notes.calibrated]]
  <2>1. statements' = <<s>> \o statements
    BY <1>4 DEF TransformFile
  <2>2. s.kind = "init_param" /\ "options" \notin DOMAIN s.of
    OBVIOUS
  <2>. HIDE DEF s
  <2>3. GoodStatement(s)
    BY <2>2 DEF GoodStatement, Optioned, Stochastic, Bvar
  <2>4. Noted(notes, s)
    BY <2>2 DEF Noted, Computing, Analytic, OrderGiven, Stochastic
  <2>5. PICK S : statements \in Seq(S)
    BY <1>2 DEF StatementsInv, Listed
  <2>6. /\ DOMAIN statements' = 1..Len(statements) + 1 /\ DOMAIN statements = 1..Len(statements)
        /\ statements'[1] = s /\ \A i \in 1..Len(statements) : statements'[i + 1] = statements[i]
    BY <2>1, <2>5
  <2>7. /\ statements' \in Seq(S \cup {s})
        /\ \A j \in DOMAIN statements' : statements'[j] = s \/ \E i \in DOMAIN statements : statements'[j] = statements[i]
        /\ \A i \in DOMAIN statements : \E j \in DOMAIN statements' : statements'[j] = statements[i]
    <3>1. statements' \in Seq(S \cup {s})
      <4>1. <<s>> \in Seq(S \cup {s}) /\ statements \in Seq(S \cup {s})
        BY <2>5
      <4> QED BY <2>1, <4>1
    <3>2. ASSUME NEW j \in DOMAIN statements'
          PROVE  statements'[j] = s \/ \E i \in DOMAIN statements : statements'[j] = statements[i]
      <4>1. Len(statements) \in Nat
        BY <2>5
      <4>2. CASE j # 1
        <5>1. j - 1 \in 1..Len(statements) /\ (j - 1) + 1 = j
          BY <2>6, <4>1, <4>2
        <5>2. statements'[j] = statements[j - 1]
          BY <2>6, <5>1
        <5> QED BY <2>6, <5>1, <5>2
      <4> QED BY <2>6, <4>2
    <3>3. \A i \in DOMAIN statements : \E j \in DOMAIN statements' : statements'[j] = statements[i]
      <4>1. Len(statements) \in Nat
        BY <2>5
      <4>2. \A i \in 1..Len(statements) : i + 1 \in 1..Len(statements) + 1
        BY <4>1
      <4> QED BY <2>6, <4>2
    <3> QED BY <3>1, <3>2, <3>3
  <2>8. StatementsInv'
    BY <1>2, <2>3, <2>7 DEF StatementsInv, Listed
  <2>9. NotesInv'
    <3>1. \A j \in DOMAIN statements' : Noted(notes, statements'[j])
      BY <1>1, <1>2, <2>4, <2>7 DEF NotesInv, Passes
    <3>2. NoOrder' => NoOrder
      BY <2>7 DEF NoOrder
    <3> QED BY <1>1, <1>2, <3>1, <3>2 DEF NotesInv, Passes
  <2>10. ParsingInv'
    BY <1>1, <2>8 DEF ParsingInv
  <2> QED BY <1>1, <1>2, <2>9, <2>10 DEF IInv, FileInv, Present, WritingInv
<1> QED BY <1>3, <1>4

\* computingPass: the derivatives, and an empty workspace.
LEMMA ComputeFileInv == ASSUME IInv, ComputeFile PROVE IInv'
<1>1. /\ phase = "computing" /\ phase' \in {"writing", "error"} /\ UNCHANGED <<parsed, notes, done>>
      /\ computed' = Derivatives /\ (phase' = "writing" => ~OrderWrong)
  BY DEF ComputeFile
<1>2. file' = file /\ statements' = statements /\ mod_file' = mod_file /\ notes' = notes /\ done' = done
  BY <1>1 DEF parsed
<1>3. ParsingInv'
  BY <1>1, <1>2, StatementsUnchanged DEF IInv, ParsingInv
<1>4. NotesInv' /\ FileInv'
  BY <1>1, <1>2 DEF IInv, NotesInv, NoOrder, FileInv, Present, Passes
<1>5. computed' = Derivatives' /\ (phase' = "writing" => ~OrderWrong')
  BY <1>1, <1>2 DEF Derivatives, OrderWrong, Requested, Present, StaticDerivatives, ByParameters, Flagged
<1>6. done = 0 /\ Len(statements) \in Nat
  BY <1>1 DEF IInv, ParsingInv, StatementsInv, Listed
<1>7. <<"stopped">> \notin DOMAIN ws' /\ OrderKey \notin DOMAIN ws'
  BY DEF ComputeFile, OrderKey
<1>8. WritingInv'
  BY <1>2, <1>5, <1>6, <1>7 DEF WritingInv, OrderSet
<1> QED BY <1>1, <1>2, <1>3, <1>4, <1>6, <1>8 DEF IInv

\* A statement is written: the order is the one it gives, 1, or what it was.
LEMMA WriteStatementInv == ASSUME IInv, WriteStatement PROVE IInv'
<1>. DEFINE s == statements[done + 1]
<1>1. /\ phase = "writing" /\ phase' = "writing" /\ file' = file /\ statements' = statements /\ mod_file' = mod_file
      /\ notes' = notes /\ computed' = computed /\ done < Len(statements)
      /\ ws' = WrittenBy(s, ws)
      /\ done' = IF <<"stopped">> \in DOMAIN ws' THEN Len(statements) ELSE done + 1
  BY DEF WriteStatement, parsed, WrittenBy
<1>2. ParsingInv' /\ NotesInv' /\ FileInv'
  <2>1. ParsingInv'
    BY <1>1, StatementsUnchanged DEF IInv, ParsingInv
  <2> QED BY <1>1, <2>1 DEF IInv, NotesInv, NoOrder, FileInv, Present, Passes
<1>3. /\ computed = Derivatives /\ ~OrderWrong /\ done \in 0..Len(statements) /\ Len(statements) \in Nat
      /\ DOMAIN statements = 1..Len(statements)
      /\ <<"stopped">> \notin DOMAIN ws /\ OrderSet
  BY <1>1 DEF IInv, WritingInv, ParsingInv, StatementsInv, Listed
<1>4. computed' = Derivatives' /\ ~OrderWrong'
  BY <1>1, <1>3 DEF Derivatives, OrderWrong, Requested, Present, StaticDerivatives, ByParameters, Flagged
<1>5. done + 1 \in DOMAIN statements /\ GoodStatement(s)
  BY <1>1, <1>3 DEF IInv, ParsingInv, StatementsInv
<1>. HIDE DEF s
<1>6. Effect(s, ws, ws')
  BY <1>1, <1>5, StatementWritten
<1>7. ASSUME <<"stopped">> \notin DOMAIN ws' PROVE OrderSet'
  <2>1. done' = done + 1
    BY <1>1, <1>7
  <2>2. CASE OrderGiven(s) /\ SetTo(ws', Num(s, "order"))
    <3>1. done + 1 \in 1..done' /\ s = statements'[done + 1]
      BY <1>1, <1>3, <2>1 DEF s
    <3>2. OrderGiven(statements'[done + 1])
      BY <2>2, <3>1
    <3>3. OrderKey \in DOMAIN ws' /\ ws'[OrderKey] = Num(statements'[done + 1], "order")
      BY <2>2, <3>1 DEF SetTo
    <3> QED BY <3>1, <3>2, <3>3 DEF OrderSet, OrderGiven, Num, Given
  <2>3. CASE SetTo(ws', 1)
    BY <2>3 DEF OrderSet, SetTo
  <2>4. CASE Untouched(OrderKey, ws, ws') /\ ~OrderGiven(s) /\ s.kind \notin {"estimation", "osr"}
    <3>1. ~(s.kind \in Computing /\ GivesOrder(s))
      <4>1. s.kind \in Computing => "options" \in DOMAIN s.of
        BY <1>5 DEF GoodStatement, Computing, Optioned, Stochastic
      <4>2. s.kind \in Computing /\ Given(s, "num", "order") => s.kind \in Stochastic
        BY <1>5, <4>1 DEF GoodStatement, Given, OrderOption
      <4> QED BY <2>4, <4>2 DEF OrderGiven, GivesOrder
    <3>2. ASSUME NEW k \in 1..done', statements[k].kind \in Computing, GivesOrder(statements[k])
          PROVE  OrderKey \in DOMAIN ws'
      <4>1. k \in 1..done
        BY <1>3, <2>1, <3>1, <3>2 DEF s
      <4> QED BY <1>3, <2>4, <3>2, <4>1 DEF OrderSet, Untouched
    <3>3. ASSUME OrderKey \in DOMAIN ws', ws'[OrderKey] # 1
          PROVE  \E k \in 1..done' : OrderGiven(statements[k]) /\ ws'[OrderKey] = Num(statements[k], "order")
      <4>1. PICK k \in 1..done : OrderGiven(statements[k]) /\ ws[OrderKey] = Num(statements[k], "order")
        BY <1>3, <2>4, <3>3 DEF OrderSet, Untouched
      <4>2. k \in 1..done' /\ ws'[OrderKey] = ws[OrderKey]
        BY <1>3, <2>1, <2>4, <3>3 DEF Untouched
      <4> QED BY <4>1, <4>2
    <3> QED BY <1>1, <3>2, <3>3 DEF OrderSet, OrderGiven, GivesOrder, Given, Num
  <2> QED BY <1>6, <1>7, <2>2, <2>3, <2>4 DEF Effect
<1>8. WritingInv'
  BY <1>1, <1>3, <1>4, <1>7 DEF WritingInv
<1> QED BY <1>1, <1>2, <1>8 DEF IInv

(* IInv, of the buffers, the notes and the workspace, holds in every state of ModFile,
   whatever the files say that the grammar accepts. *)
THEOREM Invariance == Spec => []IInv
<1>1. IInv /\ [Next]_vars => IInv'
  <2>. SUFFICES ASSUME IInv, [Next]_vars PROVE IInv'
    OBVIOUS
  <2>1. CASE Parse
    BY <2>1, ParseInv
  <2>2. CASE EndOfFile
    BY <2>2, EndOfFileInv
  <2>3. CASE CheckStatements
    BY <2>3, CheckStatementsInv
  <2>4. CASE CheckFile
    BY <2>4, CheckFileInv
  <2>5. CASE TransformFile
    BY <2>5, TransformFileInv
  <2>6. CASE ComputeFile
    BY <2>6, ComputeFileInv
  <2>7. CASE WriteStatement
    BY <2>7, WriteStatementInv
  <2>8. CASE UNCHANGED vars
    BY <2>8 DEF vars, parsed, IInv, ParsingInv, StatementsInv, Listed, BufferInv, NotesInv, NoOrder, FileInv,
                Present, WritingInv, OrderSet, Derivatives, OrderWrong, Requested, StaticDerivatives,
                ByParameters, Flagged
  <2> QED BY <2>1, <2>2, <2>3, <2>4, <2>5, <2>6, <2>7, <2>8 DEF Next
<1> QED BY <1>1, InitInv, PTL DEF Spec

\* From the invariant: the order in the workspace was noted, or none was written and it is 2.
LEMMA IInvSuffices == IInv => DerivativesSuffice
<1>. SUFFICES ASSUME IInv, Wrote(Computing), OrderKnown, ~Present({"simul"}), ~Flagged({"no_static"}),
                     Files[file].equations = 0 => ~Present({"identification"})
              PROVE  Needed(statements[done]) \subseteq computed
  BY DEF DerivativesSuffice
<1>. DEFINE s == statements[done]
<1>1. /\ phase = "writing" /\ s.kind \in Computing /\ <<"stopped">> \notin DOMAIN ws
      /\ done > 0 /\ done \in 0..Len(statements) /\ Len(statements) \in Nat
      /\ DOMAIN statements = 1..Len(statements)
  BY DEF Wrote, IInv, WritingInv, ParsingInv, StatementsInv, Listed
<1>2. done \in DOMAIN statements /\ GoodStatement(s)
  BY <1>1 DEF IInv, ParsingInv, StatementsInv
<1>3. computed = Derivatives /\ ~OrderWrong /\ OrderSet
  BY <1>1 DEF IInv, WritingInv
<1>4. /\ IsNotes(notes) /\ \A j \in DOMAIN statements : Noted(notes, statements[j])
      /\ NoOrder => notes.order_option = 2
  BY <1>1 DEF IInv, NotesInv, Passes
<1>5. Noted(notes, s)
  BY <1>2, <1>4
<1>6. Files[file].equations > 0
  <2>1. Files[file].equations \in Nat
    BY FilesAssumption DEF IInv
  <2>2. Files[file].equations # 0
    <3>1. s.kind \in notes.present
      BY <1>1, <1>5 DEF Noted
    <3>2. s.kind \in {"check", "simul"} \cup Stochastic \cup {"identification"}
      BY <1>1 DEF Computing, Stochastic
    <3> QED BY <1>1, <3>1, <3>2 DEF IInv, FileInv, Present
  <2> QED BY <2>1, <2>2
<1>. HIDE DEF s
<1>7. CASE ~Requested
  <2>1. s.kind = "discretionary_policy"
    BY <1>1, <1>5, <1>7 DEF Noted, Requested, Present, Computing
  <2>2. Needed(s) = {"jacobian"}
    BY <2>1 DEF Needed, Analytic
  <2>3. "jacobian" \in Derivatives
    BY <1>6, <1>7 DEF Derivatives
  <2> QED BY <1>3, <2>2, <2>3 DEF s
<1>8. CASE Requested
  <2>1. notes.order_option \in 1..3
    BY <1>3, <1>6, <1>8 DEF OrderWrong
  <2>2. /\ {"jacobian"} \cup StaticDerivatives \subseteq Derivatives
        /\ notes.order_option >= 2 \/ ByParameters => "hessian" \in Derivatives
        /\ ByParameters => "params" \in Derivatives
        /\ notes.order_option = 3 => "third" \in Derivatives
    BY <1>6, <1>8 DEF Derivatives, If
  <2>3. ASSUME s.kind = "identification" \/ Analytic(s)
        PROVE  {"hessian", "params", "static_hessian", "static_params"} \subseteq Derivatives
    <3>1. ByParameters
      BY <1>1, <1>5, <2>3 DEF ByParameters, Present, Noted
    <3> QED BY <2>2, <3>1 DEF StaticDerivatives
  <2>4. ASSUME s.kind \in {"stoch_simul", "estimation"} PROVE UpTo(DefaultOrder(ws)) \subseteq Derivatives
    <3>1. PICK n : n = DefaultOrder(ws)
      OBVIOUS
    <3>2. n \in Nat /\ n =< notes.order_option
      <4>1. ASSUME NEW k \in 1..done, OrderGiven(statements[k])
            PROVE  Num(statements[k], "order") \in Nat /\ Num(statements[k], "order") =< notes.order_option
        <5>1. k \in DOMAIN statements /\ GoodStatement(statements[k])
          BY <1>1 DEF IInv, ParsingInv, StatementsInv
        <5>2. Noted(notes, statements[k])
          BY <1>4, <5>1
        <5> QED BY <4>1, <5>1, <5>2, OrderIsNumber DEF Noted, OrderGiven
      <4>2. CASE OrderKey \in DOMAIN ws
        <5>1. n = ws[OrderKey]
          BY <3>1, <4>2 DEF DefaultOrder, OrderKey
        <5> QED BY <1>3, <2>1, <4>1, <4>2, <5>1 DEF OrderSet
      <4>3. CASE OrderKey \notin DOMAIN ws
        <5>1. n = 2
          BY <3>1, <4>3 DEF DefaultOrder, OrderKey
        <5>2. \A k \in 1..done : statements[k].kind \in Computing => ~GivesOrder(statements[k])
          BY <1>3, <4>3 DEF OrderSet
        <5>3. s.kind = "stoch_simul"
          <6>1. ~GivesOrder(s)
            BY <1>1, <5>2 DEF s
          <6> QED BY <2>4, <6>1 DEF GivesOrder
        <5>4. ReliesOnDefault(done)
          BY <5>2, <5>3 DEF ReliesOnDefault, s
        <5>5. \A k \in DOMAIN statements : statements[k].kind \in Computing => ~Given(statements[k], "num", "order")
          BY <1>2, <5>4 DEF OrderKnown
        <5>6. NoOrder
          BY <5>5 DEF NoOrder, OrderGiven, Stochastic, Computing
        <5> QED BY <1>4, <5>1, <5>6
      <4> QED BY <4>2, <4>3
    <3>3. (n >= 2 => notes.order_option >= 2) /\ (n >= 3 => notes.order_option = 3)
      BY <2>1, <3>2
    <3>4. UpTo(n) \subseteq Derivatives
      BY <2>2, <3>3 DEF UpTo, If
    <3> QED BY <3>1, <3>4
  <2>5. "jacobian" \in Derivatives
    BY <2>2
  <2>6. Needed(s) \subseteq Derivatives
    BY <2>3, <2>4, <2>5 DEF Needed
  <2> QED BY <1>3, <2>6 DEF s
<1> QED BY <1>7, <1>8

(* A command finds the derivatives that it asks for: those of its order, and with
   identification or analytic_derivation those by the parameters, have been computed when
   its line of the script runs (ModFile::computingPass). *)
THEOREM DerivativesSufficeAlways == Spec => []DerivativesSuffice
BY Invariance, IInvSuffices, PTL

-------------------------------------------------------------------------------
(***************************************************************************)
(* The pieces of the statements                                            *)
(***************************************************************************)

(* In a text, the pieces of the statement that is still open; those that its buffers
   hold, the symbols that no option has taken, and the options of the optimizer. *)
CurrentIn(tx) == {i \in DOMAIN tx : \A k \in i..Len(tx) : tx[k].in # {}}
TakenLater(tx, i) == tx[i].op = "symbol" /\ \E k \in i..Len(tx) : tx[k].op = "option_symbol_list"
CountedIn(tx) == {i \in CurrentIn(tx) : tx[i].op \in Elements /\ ~TakenLater(tx, i)}
LooseIn(tx) == {i \in CurrentIn(tx) : tx[i].op = "symbol" /\ ~TakenLater(tx, i)}
OptimsIn(tx) == {i \in CurrentIn(tx) : tx[i].op = "optim_option"}
One(P) == IF P = {} THEN 0 ELSE 1
OptimKey == <<"str", "optim_opt">>

(* What the buffers hold. *)
Held(b) == UNION {{f} \X DOMAIN b[f] : f \in Buffered}
SymbolsHeld(b) == {"symbol_list"} \X DOMAIN b["symbol_list"]
Lists == {"init_values", "homotopy_values", "sigmae_matrix", "estim_params", "filename_list", "symbol_list"}
IsList(q) == \E S : q \in Seq(S)
BuffersOK(b) == /\ DOMAIN b = DOMAIN Empty /\ IsFiniteSet(Held(b))
                /\ \A f \in Lists : IsList(b[f])

(* It belongs to whatever statement the pieces may yet turn out to be. *)
Belong(b, o) == \A f \in Buffered : DOMAIN b[f] # {} => o # {} /\ \A k \in o : f \in Taken(k)
Count(b, tx) == /\ Cardinality(Held(b)) = Cardinality(CountedIn(tx)) + One(OptimsIn(tx))
                /\ Cardinality(SymbolsHeld(b)) = Cardinality(LooseIn(tx))
                /\ OptimKey \in DOMAIN b["options"] <=> OptimsIn(tx) # {}
Own(s) == DOMAIN s.of \cap Buffered \subseteq Taken(s.kind)
LastOwn(sts) == Len(sts) > 0 => Own(sts[Len(sts)])

PiecesInv ==
    phase = "parsing" =>
      /\ text \in Seq(Pieces) /\ BuffersOK(scratch) /\ Belong(scratch, open) /\ Count(scratch, text)
      /\ Listed /\ LastOwn(statements) /\ StatementsHoldTheirPieces

(* The same closer, as a function of the text. *)
CloserIn(tx, i) == CHOOSE j \in i..Len(tx) : tx[j].in = {} /\ \A k \in i..(j - 1) : tx[k].in # {}

\* After a piece that ends a statement, the pieces that end with it are those that were open.
LEMMA CloserLast ==
    ASSUME NEW P, NEW tx \in Seq(P), Len(tx) > 0, tx[Len(tx)].in = {}, NEW i \in 1..Len(tx)
    PROVE  CloserIn(tx, i) = Len(tx) <=> \A k \in i..(Len(tx) - 1) : tx[k].in # {}
<1>. DEFINE T == {j \in i..Len(tx) : tx[j].in = {}}
            Ends_(j) == tx[j].in = {} /\ \A k \in i..(j - 1) : tx[k].in # {}
<1>1. Len(tx) \in T /\ T \in SUBSET Nat
  OBVIOUS
<1>2. PICK m \in T : \A j \in T : m =< j
  BY <1>1, Data!LeastNumber
<1>3. m \in i..Len(tx) /\ Ends_(m)
  BY <1>2
<1>4. CloserIn(tx, i) \in i..Len(tx) /\ Ends_(CloserIn(tx, i))
  <2>. HIDE DEF Ends_
  <2>1. CloserIn(tx, i) = CHOOSE j \in i..Len(tx) : Ends_(j)
    BY DEF CloserIn, Ends_
  <2> QED BY <1>3, <2>1
<1>5. PICK c \in i..Len(tx) : c = CloserIn(tx, i) /\ tx[c].in = {} /\ \A k \in i..(c - 1) : tx[k].in # {}
  BY <1>4
<1>6. Len(tx) \in Nat
  OBVIOUS
<1>7. c # Len(tx) => c \in i..(Len(tx) - 1)
  BY <1>6
<1> QED BY <1>5, <1>7

\* A text goes on with a piece.
LEMMA TextOn ==
    ASSUME NEW P, NEW tx \in Seq(P), NEW t \in P, NEW ty, ty = Append(tx, t)
    PROVE  /\ ty \in Seq(P) /\ Len(tx) \in Nat /\ Len(ty) = Len(tx) + 1 /\ ty[Len(tx) + 1] = t
           /\ DOMAIN tx = 1..Len(tx) /\ DOMAIN ty = 1..(Len(tx) + 1)
           /\ \A i \in 1..Len(tx) : ty[i] = tx[i]
OBVIOUS

\* The pieces that count are finitely many.
LEMMA TextFinite ==
    ASSUME NEW P, NEW tx \in Seq(P)
    PROVE  /\ IsFiniteSet(CountedIn(tx)) /\ IsFiniteSet(LooseIn(tx)) /\ IsFiniteSet(OptimsIn(tx))
           /\ Cardinality(CountedIn(tx)) \in Nat /\ Cardinality(LooseIn(tx)) \in Nat
<1>1. IsFiniteSet(DOMAIN tx)
  <2>1. DOMAIN tx = 1..Len(tx) /\ Len(tx) \in Int
    OBVIOUS
  <2> QED BY <2>1, FS_Interval
<1>2. CountedIn(tx) \in SUBSET DOMAIN tx /\ LooseIn(tx) \in SUBSET DOMAIN tx /\ OptimsIn(tx) \in SUBSET DOMAIN tx
  BY DEF CountedIn, LooseIn, OptimsIn, CurrentIn
<1> QED BY <1>1, <1>2, FS_Subset, FS_CardinalityType

\* An element of a statement is one more of the pieces that are open.
LEMMA CurrentOn ==
    ASSUME NEW P, NEW tx \in Seq(P), NEW t \in P, t.in # {}, NEW ty, ty = Append(tx, t)
    PROVE  CurrentIn(ty) = CurrentIn(tx) \cup {Len(tx) + 1}
<1>1. /\ Len(tx) \in Nat /\ Len(ty) = Len(tx) + 1 /\ ty[Len(tx) + 1] = t
      /\ DOMAIN tx = 1..Len(tx) /\ DOMAIN ty = 1..(Len(tx) + 1)
      /\ \A i \in 1..Len(tx) : ty[i] = tx[i]
  BY TextOn
<1>2. ASSUME NEW i \in CurrentIn(ty) PROVE i \in CurrentIn(tx) \cup {Len(tx) + 1}
  BY <1>1, <1>2 DEF CurrentIn
<1>3. ASSUME NEW i \in CurrentIn(tx) PROVE i \in CurrentIn(ty)
  BY <1>1, <1>3 DEF CurrentIn
<1>4. Len(tx) + 1 \in CurrentIn(ty)
  BY <1>1 DEF CurrentIn
<1> QED BY <1>2, <1>3, <1>4

\* The symbols that are taken when a piece is read.
LEMMA TakenOn ==
    ASSUME NEW P, NEW tx \in Seq(P), NEW t \in P, NEW ty, ty = Append(tx, t)
    PROVE  /\ \A i \in 1..Len(tx) : TakenLater(ty, i) <=>
                 (TakenLater(tx, i) \/ (tx[i].op = "symbol" /\ t.op = "option_symbol_list"))
           /\ ~TakenLater(ty, Len(tx) + 1)
<1>1. /\ Len(tx) \in Nat /\ Len(ty) = Len(tx) + 1 /\ ty[Len(tx) + 1] = t
      /\ \A i \in 1..Len(tx) : ty[i] = tx[i]
  BY TextOn
<1>2. ~TakenLater(ty, Len(tx) + 1)
  BY <1>1 DEF TakenLater
<1>3. ASSUME NEW i \in 1..Len(tx) PROVE i..Len(ty) = i..Len(tx) \cup {Len(tx) + 1}
  BY <1>1
<1>4. ASSUME NEW i \in 1..Len(tx)
      PROVE  TakenLater(ty, i) <=> (TakenLater(tx, i) \/ (tx[i].op = "symbol" /\ t.op = "option_symbol_list"))
  <2>1. ty[i] = tx[i]
    BY <1>1
  <2>2. \A k \in i..Len(tx) : ty[k] = tx[k]
    BY <1>1
  <2> QED BY <1>1, <1>3, <2>1, <2>2, Zenon DEF TakenLater
<1> QED BY <1>2, <1>4

\* What counts after an element has been read.
LEMMA ElementRead ==
    ASSUME NEW P, NEW tx \in Seq(P), NEW t \in P, t.in # {}, NEW ty, ty = Append(tx, t)
    PROVE  LET m == {Len(tx) + 1} IN
           /\ Len(tx) + 1 \notin CurrentIn(tx)
           /\ CountedIn(ty) = IF t.op \notin Elements THEN CountedIn(tx)
                              ELSE IF t.op = "option_symbol_list" THEN (CountedIn(tx) \ LooseIn(tx)) \cup m
                              ELSE CountedIn(tx) \cup m
           /\ LooseIn(ty) = IF t.op = "symbol" THEN LooseIn(tx) \cup m
                            ELSE IF t.op = "option_symbol_list" THEN {} ELSE LooseIn(tx)
           /\ OptimsIn(ty) = IF t.op = "optim_option" THEN OptimsIn(tx) \cup m ELSE OptimsIn(tx)
<1>. DEFINE n == Len(tx) + 1
<1>1. /\ Len(tx) \in Nat /\ ty[n] = t /\ DOMAIN tx = 1..Len(tx)
      /\ \A i \in 1..Len(tx) : ty[i] = tx[i]
  BY TextOn
<1>2. CurrentIn(ty) = CurrentIn(tx) \cup {n}
  BY CurrentOn
<1>3. /\ \A i \in 1..Len(tx) : TakenLater(ty, i) <=>
                 (TakenLater(tx, i) \/ (tx[i].op = "symbol" /\ t.op = "option_symbol_list"))
      /\ ~TakenLater(ty, n)
  BY TakenOn
<1>4. CurrentIn(tx) \subseteq 1..Len(tx)
  BY <1>1 DEF CurrentIn
<1>5. n \notin CurrentIn(tx)
  BY <1>1, <1>4
<1>6. "symbol" \in Elements
  BY DEF Elements
<1>. HIDE DEF n
<1>7. CountedIn(ty) = IF t.op \notin Elements THEN CountedIn(tx)
                      ELSE IF t.op = "option_symbol_list" THEN (CountedIn(tx) \ LooseIn(tx)) \cup {n}
                      ELSE CountedIn(tx) \cup {n}
  <2>1. n \in CountedIn(ty) <=> t.op \in Elements
    BY <1>1, <1>2, <1>3 DEF CountedIn
  <2>2. ASSUME NEW i \in CurrentIn(tx)
        PROVE  i \in CountedIn(ty) <=> (i \in CountedIn(tx) /\ ~(t.op = "option_symbol_list" /\ i \in LooseIn(tx)))
    BY <1>1, <1>2, <1>3, <1>4, <1>6, <2>2 DEF CountedIn, LooseIn
  <2>3. t.op = "option_symbol_list" => t.op \in Elements
    BY DEF Elements
  <2>4. CountedIn(ty) \subseteq CurrentIn(tx) \cup {n} /\ CountedIn(tx) \subseteq CurrentIn(tx)
    BY <1>2 DEF CountedIn
  <2>5. CASE t.op \notin Elements
    <3>1. \A i : i \in CountedIn(ty) <=> i \in CountedIn(tx)
      BY <2>1, <2>2, <2>3, <2>4, <2>5
    <3>2. CountedIn(ty) = CountedIn(tx)
      BY <3>1
    <3> QED BY <2>5, <3>2
  <2>6. CASE t.op = "option_symbol_list"
    <3>1. \A i : i \in CountedIn(ty) <=> (i \in CountedIn(tx) /\ i \notin LooseIn(tx)) \/ i = n
      BY <1>5, <2>1, <2>2, <2>3, <2>4, <2>6
    <3>2. CountedIn(ty) = (CountedIn(tx) \ LooseIn(tx)) \cup {n}
      BY <3>1
    <3> QED BY <2>3, <2>6, <3>2
  <2>7. CASE t.op \in Elements /\ t.op # "option_symbol_list"
    <3>1. \A i : i \in CountedIn(ty) <=> i \in CountedIn(tx) \/ i = n
      BY <2>1, <2>2, <2>4, <2>7
    <3>2. CountedIn(ty) = CountedIn(tx) \cup {n}
      BY <3>1
    <3> QED BY <2>7, <3>2
  <2> QED BY <2>3, <2>5, <2>6, <2>7
<1>8. LooseIn(ty) = IF t.op = "symbol" THEN LooseIn(tx) \cup {n}
                    ELSE IF t.op = "option_symbol_list" THEN {} ELSE LooseIn(tx)
  <2>1. n \in LooseIn(ty) <=> t.op = "symbol"
    BY <1>1, <1>2, <1>3 DEF LooseIn
  <2>2. ASSUME NEW i \in CurrentIn(tx)
        PROVE  i \in LooseIn(ty) <=> (i \in LooseIn(tx) /\ t.op # "option_symbol_list")
    BY <1>1, <1>2, <1>3, <1>4, <2>2 DEF LooseIn
  <2>4. LooseIn(ty) \subseteq CurrentIn(tx) \cup {n} /\ LooseIn(tx) \subseteq CurrentIn(tx)
    BY <1>2 DEF LooseIn
  <2>5. CASE t.op = "symbol"
    BY <2>1, <2>2, <2>4, <2>5
  <2>6. CASE t.op = "option_symbol_list"
    BY <2>1, <2>2, <2>4, <2>6
  <2>7. CASE t.op # "symbol" /\ t.op # "option_symbol_list"
    BY <2>1, <2>2, <2>4, <2>7
  <2> QED BY <2>5, <2>6, <2>7
<1>9. OptimsIn(ty) = IF t.op = "optim_option" THEN OptimsIn(tx) \cup {n} ELSE OptimsIn(tx)
  <2>1. n \in OptimsIn(ty) <=> t.op = "optim_option"
    BY <1>1, <1>2 DEF OptimsIn
  <2>2. ASSUME NEW i \in CurrentIn(tx) PROVE i \in OptimsIn(ty) <=> i \in OptimsIn(tx)
    BY <1>1, <1>2, <1>4, <2>2 DEF OptimsIn
  <2>4. OptimsIn(ty) \subseteq CurrentIn(tx) \cup {n} /\ OptimsIn(tx) \subseteq CurrentIn(tx)
    BY <1>2 DEF OptimsIn
  <2>5. CASE t.op = "optim_option"
    <3>1. \A i : i \in OptimsIn(ty) <=> i \in OptimsIn(tx) \/ i = n
      BY <2>1, <2>2, <2>4, <2>5
    <3>2. OptimsIn(ty) = OptimsIn(tx) \cup {n}
      BY <3>1
    <3> QED BY <2>5, <3>2
  <2>6. CASE t.op # "optim_option"
    <3>1. \A i : i \in OptimsIn(ty) <=> i \in OptimsIn(tx)
      BY <2>1, <2>2, <2>4, <2>6
    <3>2. OptimsIn(ty) = OptimsIn(tx)
      BY <3>1
    <3> QED BY <2>6, <3>2
  <2> QED BY <2>5, <2>6
<1> QED BY <1>5, <1>7, <1>8, <1>9 DEF n

\* Nothing is open after a piece that ends a statement.
LEMMA NothingOpen ==
    ASSUME NEW P, NEW tx \in Seq(P), NEW t \in P, t.in = {}, NEW ty, ty = Append(tx, t)
    PROVE  CountedIn(ty) = {} /\ LooseIn(ty) = {} /\ OptimsIn(ty) = {}
<1>1. /\ Len(tx) \in Nat /\ Len(ty) = Len(tx) + 1 /\ ty[Len(tx) + 1] = t /\ DOMAIN ty = 1..(Len(tx) + 1)
  BY TextOn
<1>2. \A i \in DOMAIN ty : Len(tx) + 1 \in i..Len(ty)
  BY <1>1
<1>3. CurrentIn(ty) = {}
  BY <1>1, <1>2 DEF CurrentIn
<1> QED BY <1>3 DEF CountedIn, LooseIn, OptimsIn

\* The pieces of the statement that ends with a piece are those that were open.
LEMMA EndRead ==
    ASSUME NEW P, NEW tx \in Seq(P), NEW t \in P, t.in = {}, NEW ty, ty = Append(tx, t), NEW ops,
           t.op \notin ops
    PROVE  \A i : i \in 1..Len(ty) /\ ty[i].op \in ops /\ CloserIn(ty, i) = Len(ty)
                 <=> i \in CurrentIn(tx) /\ tx[i].op \in ops
<1>1. /\ ty \in Seq(P) /\ Len(tx) \in Nat /\ Len(ty) = Len(tx) + 1 /\ ty[Len(tx) + 1] = t
      /\ DOMAIN tx = 1..Len(tx) /\ \A i \in 1..Len(tx) : ty[i] = tx[i]
  BY TextOn
<1>2. ASSUME NEW i \in 1..Len(tx)
      PROVE  CloserIn(ty, i) = Len(ty) <=> i \in CurrentIn(tx)
  <2>1. i \in 1..Len(ty) /\ Len(ty) > 0 /\ ty[Len(ty)].in = {} /\ Len(ty) - 1 = Len(tx)
    BY <1>1
  <2>2. CloserIn(ty, i) = Len(ty) <=> \A k \in i..(Len(ty) - 1) : ty[k].in # {}
    BY <1>1, <2>1, CloserLast
  <2>3. \A k \in i..Len(tx) : ty[k] = tx[k]
    BY <1>1
  <2> QED BY <1>1, <2>1, <2>2, <2>3 DEF CurrentIn
<1>3. \A i \in 1..Len(ty) : i = Len(tx) + 1 \/ i \in 1..Len(tx)
  BY <1>1
<1>4. CurrentIn(tx) \subseteq 1..Len(tx) /\ 1..Len(tx) \subseteq 1..Len(ty)
  BY <1>1 DEF CurrentIn
<1> QED BY <1>1, <1>2, <1>3, <1>4

\* The buffers and their kinds.
LEMMA BufferNames ==
    /\ Lists \subseteq Buffered /\ Buffered \subseteq DOMAIN Empty
    /\ "options" \in Buffered /\ "options" \notin Lists /\ "symbol_list" \in Lists
BY DEF Lists, Buffered, Empty

\* c is b with one thing more, x, in buffer f.
Filling(b, c, f, x) ==
    /\ DOMAIN c = DOMAIN b /\ \A g \in DOMAIN b : g # f => c[g] = b[g]
    /\ x \notin DOMAIN b[f] /\ DOMAIN c[f] = DOMAIN b[f] \cup {x}
    /\ f \in Lists => IsList(c[f])

\* What the buffers hold then.
LEMMA HeldFilled ==
    ASSUME NEW b, BuffersOK(b), NEW c, NEW f \in Buffered, NEW x, Filling(b, c, f, x)
    PROVE  /\ BuffersOK(c)
           /\ Cardinality(Held(b)) \in Nat /\ Cardinality(Held(c)) = Cardinality(Held(b)) + 1
<1>1. Held(c) = Held(b) \cup {<<f, x>>}
  <2>1. ASSUME NEW g \in Buffered, NEW y
        PROVE  y \in DOMAIN c[g] <=> (y \in DOMAIN b[g] \/ (g = f /\ y = x))
    BY BufferNames DEF BuffersOK, Filling
  <2>2. \A p : p \in Held(b) <=> \E g \in Buffered : \E y \in DOMAIN b[g] : p = <<g, y>>
    BY DEF Held
  <2>3. \A p : p \in Held(c) <=> \E g \in Buffered : \E y \in DOMAIN c[g] : p = <<g, y>>
    BY DEF Held
  <2>4. \A p : p \in Held(c) <=> p \in Held(b) \/ p = <<f, x>>
    BY <2>1, <2>2, <2>3
  <2> QED BY <2>4
<1>2. <<f, x>> \notin Held(b)
  BY DEF Held, Filling
<1>3. IsFiniteSet(Held(b))
  BY DEF BuffersOK
<1>4. IsFiniteSet(Held(c)) /\ Cardinality(Held(c)) = Cardinality(Held(b)) + 1
  BY <1>1, <1>2, <1>3, FS_AddElement
<1>5. \A g \in Lists : IsList(c[g])
  BY BufferNames DEF BuffersOK, Filling
<1> QED BY <1>3, <1>4, <1>5, FS_CardinalityType DEF BuffersOK, Filling

\* What the buffer of symbols holds is as many things as it is long.
LEMMA SymbolsFinite ==
    ASSUME NEW b, BuffersOK(b)
    PROVE  /\ IsFiniteSet(SymbolsHeld(b)) /\ Cardinality(SymbolsHeld(b)) \in Nat
           /\ SymbolsHeld(b) \subseteq Held(b) /\ IsFiniteSet(Held(b)) /\ Cardinality(Held(b)) \in Nat
<1>1. SymbolsHeld(b) \subseteq Held(b)
  BY BufferNames DEF SymbolsHeld, Held
<1>2. IsFiniteSet(Held(b))
  BY DEF BuffersOK
<1> QED BY <1>1, <1>2, FS_Subset, FS_CardinalityType

\* The statements that a piece belongs to take what it leaves.
LEMMA FilledOf ==
    ASSUME file \in DOMAIN Files, NEW t \in Pieces, t.op \in Elements \cup {"optim_option"}
    PROVE  /\ Filled(t) \in Buffered /\ (Filled(t) = "symbol_list" <=> t.op = "symbol")
           /\ t.in # {} /\ \A k \in t.in : Filled(t) \in Taken(k)
<1>1. t.op = "var_shock" => t.into \in {"var_shocks", "std_shocks"}
  BY FilesAssumption DEF Pieces
<1>2. t.op = "covar_shock" => t.into \in {"covar_shocks", "corr_shocks"}
  BY FilesAssumption DEF Pieces
<1>3. t.in # {} /\ \A k \in t.in : Filled(t) \in Taken(k)
  BY FilesAssumption DEF Pieces
<1>4. Filled(t) \in Buffered
  BY <1>1, <1>2 DEF Filled, Buffered, Elements
<1>5. Filled(t) = "symbol_list" <=> t.op = "symbol"
  BY <1>1, <1>2 DEF Filled, Elements
<1> QED BY <1>3, <1>4, <1>5

\* While a statement is read, fewer and fewer are possible.
LEMMA OpenOn ==
    ASSUME NEW t, NEW op, Reads(t, op), t.in # {}
    PROVE  open' # {} /\ open' \subseteq t.in /\ (open # {} => open' \subseteq open)
BY DEF Reads, Follows

\* Reading an element keeps what the buffers hold of use to the statements that are possible.
LEMMA BelongOn ==
    ASSUME file \in DOMAIN Files, NEW t \in Pieces, NEW op, Reads(t, op), op \in Elements \cup {"optim_option"},
           NEW b, Belong(b, open), NEW c, \A g \in Buffered : g = Filled(t) \/ DOMAIN c[g] \subseteq DOMAIN b[g]
    PROVE  Belong(c, open')
<1>1. /\ Filled(t) \in Buffered /\ t.in # {} /\ \A k \in t.in : Filled(t) \in Taken(k)
  BY FilledOf DEF Reads
<1>2. open' # {} /\ open' \subseteq t.in /\ (open # {} => open' \subseteq open)
  BY <1>1, OpenOn
<1>3. ASSUME NEW g \in Buffered, DOMAIN c[g] # {}, NEW k \in open' PROVE g \in Taken(k)
  <2>1. CASE g = Filled(t)
    BY <1>1, <1>2, <2>1
  <2>2. CASE g # Filled(t)
    <3>1. DOMAIN b[g] # {}
      BY <1>3, <2>2
    <3>2. open # {} /\ \A j \in open : g \in Taken(j)
      BY <3>1 DEF Belong
    <3> QED BY <1>2, <3>2
  <2> QED BY <2>1, <2>2
<1> QED BY <1>2, <1>3 DEF Belong

\* A statement is still being read after an element: the property asks nothing.
LEMMA StillOpen ==
    ASSUME open' # {} PROVE StatementsHoldTheirPieces'
BY DEF StatementsHoldTheirPieces

\* An element goes to its buffer.
LEMMA FillKeeps ==
    ASSUME PiecesInv, file \in DOMAIN Files, NEW t \in Pieces, NEW op, Reads(t, op),
           op \in Elements \ {"option_symbol_list"}, NEW x, Filling(scratch, scratch', Filled(t), x),
           Filled(t) = "options" => x # OptimKey, statements' = statements
    PROVE  PiecesInv'
<1>1. /\ text \in Seq(Pieces) /\ BuffersOK(scratch) /\ Belong(scratch, open) /\ Count(scratch, text)
      /\ Listed /\ LastOwn(statements)
  BY DEF PiecesInv, Reads
<1>2. t.op = op /\ text' = Append(text, t) /\ file' = file
  BY DEF Reads
<1>3. /\ Filled(t) \in Buffered /\ (Filled(t) = "symbol_list" <=> op = "symbol")
      /\ t.in # {}
  BY <1>2, FilledOf
<1>4. text' \in Seq(Pieces')
  BY <1>1, <1>2 DEF Pieces
<1>5. /\ BuffersOK(scratch') /\ Cardinality(Held(scratch)) \in Nat
      /\ Cardinality(Held(scratch')) = Cardinality(Held(scratch)) + 1
  BY <1>1, <1>3, HeldFilled
<1>6. Belong(scratch', open')
  <2>1. \A g \in Buffered : g = Filled(t) \/ DOMAIN scratch'[g] \subseteq DOMAIN scratch[g]
    BY <1>1, BufferNames DEF Filling, BuffersOK
  <2> QED BY <1>1, <2>1, BelongOn
<1>7. Count(scratch', text')
  <2>. DEFINE n == Len(text) + 1
  <2>1. /\ n \notin CurrentIn(text) /\ CountedIn(text') = CountedIn(text) \cup {n}
        /\ LooseIn(text') = IF op = "symbol" THEN LooseIn(text) \cup {n} ELSE LooseIn(text)
        /\ OptimsIn(text') = OptimsIn(text)
    <3>1. "optim_option" \notin Elements
      BY DEF Elements
    <3> QED BY <1>1, <1>2, <1>3, <3>1, ElementRead
  <2>. HIDE DEF n
  <2>2. /\ IsFiniteSet(CountedIn(text)) /\ IsFiniteSet(LooseIn(text))
        /\ Cardinality(CountedIn(text)) \in Nat /\ Cardinality(LooseIn(text)) \in Nat
    BY <1>1, TextFinite
  <2>3. n \notin CountedIn(text) /\ n \notin LooseIn(text)
    BY <2>1 DEF CountedIn, LooseIn
  <2>4. Cardinality(CountedIn(text')) = Cardinality(CountedIn(text)) + 1
    BY <2>1, <2>2, <2>3, FS_AddElement
  <2>5. One(OptimsIn(text)) \in {0, 1} /\ One(OptimsIn(text')) = One(OptimsIn(text))
    BY <2>1 DEF One
  <2>6. Cardinality(Held(scratch')) = Cardinality(CountedIn(text')) + One(OptimsIn(text'))
    BY <1>1, <1>5, <2>2, <2>4, <2>5 DEF Count
  <2>7. Cardinality(SymbolsHeld(scratch')) = Cardinality(LooseIn(text'))
    <3>1. CASE op = "symbol"
      <4>1. SymbolsHeld(scratch') = SymbolsHeld(scratch) \cup {<<"symbol_list", x>>}
            /\ <<"symbol_list", x>> \notin SymbolsHeld(scratch)
        BY <1>3, <3>1 DEF Filling, SymbolsHeld
      <4>2. IsFiniteSet(SymbolsHeld(scratch)) /\ Cardinality(SymbolsHeld(scratch)) \in Nat
        BY <1>1, SymbolsFinite
      <4>3. Cardinality(SymbolsHeld(scratch')) = Cardinality(SymbolsHeld(scratch)) + 1
        BY <4>1, <4>2, FS_AddElement
      <4>4. Cardinality(LooseIn(text')) = Cardinality(LooseIn(text)) + 1
        BY <2>1, <2>2, <2>3, <3>1, FS_AddElement
      <4> QED BY <1>1, <4>3, <4>4 DEF Count
    <3>2. CASE op # "symbol"
      <4>1. scratch'["symbol_list"] = scratch["symbol_list"]
        BY <1>1, <1>3, <3>2, BufferNames DEF Filling, BuffersOK
      <4> QED BY <1>1, <2>1, <3>2, <4>1 DEF Count, SymbolsHeld
    <3> QED BY <3>1, <3>2
  <2>8. OptimKey \in DOMAIN scratch'["options"] <=> OptimsIn(text') # {}
    <3>1. OptimKey \in DOMAIN scratch'["options"] <=> OptimKey \in DOMAIN scratch["options"]
      BY <1>1, BufferNames DEF Filling, BuffersOK
    <3> QED BY <1>1, <2>1, <3>1 DEF Count
  <2> QED BY <2>6, <2>7, <2>8 DEF Count
<1>8. StatementsHoldTheirPieces'
  BY <1>3, OpenOn, StillOpen
<1> QED BY <1>1, <1>4, <1>5, <1>6, <1>7, <1>8 DEF PiecesInv, Listed

\* An option takes the symbols before it.
LEMMA ListOptionKeeps ==
    ASSUME PiecesInv, file \in DOMAIN Files, NEW t \in Pieces, Reads(t, "option_symbol_list"),
           NEW x, x # OptimKey, x \notin DOMAIN scratch["options"], DOMAIN scratch' = DOMAIN scratch,
           DOMAIN scratch'["options"] = DOMAIN scratch["options"] \cup {x}, scratch'["symbol_list"] = << >>,
           \A g \in DOMAIN scratch : g \notin {"options", "symbol_list"} => scratch'[g] = scratch[g],
           statements' = statements
    PROVE  PiecesInv'
<1>1. /\ text \in Seq(Pieces) /\ BuffersOK(scratch) /\ Belong(scratch, open) /\ Count(scratch, text)
      /\ Listed /\ LastOwn(statements)
  BY DEF PiecesInv, Reads
<1>2. t.op = "option_symbol_list" /\ text' = Append(text, t) /\ file' = file
  BY DEF Reads
<1>3. "option_symbol_list" \in Elements
  BY DEF Elements
<1>4. t.in # {}
  BY <1>2, <1>3, FilledOf
<1>5. text' = Append(text, t) /\ text' \in Seq(Pieces')
  BY <1>1, <1>2 DEF Pieces
<1>6. /\ IsFiniteSet(SymbolsHeld(scratch)) /\ Cardinality(SymbolsHeld(scratch)) \in Nat
      /\ SymbolsHeld(scratch) \subseteq Held(scratch) /\ IsFiniteSet(Held(scratch)) /\ Cardinality(Held(scratch)) \in Nat
  BY <1>1, SymbolsFinite
<1>. DEFINE rest == Held(scratch) \ SymbolsHeld(scratch)
<1>7. Held(scratch') = rest \cup {<<"options", x>>} /\ <<"options", x>> \notin rest
  <2>1. ASSUME NEW g \in Buffered, NEW y
        PROVE  y \in DOMAIN scratch'[g] <=> (g # "symbol_list" /\ y \in DOMAIN scratch[g]) \/ (g = "options" /\ y = x)
    <3>1. DOMAIN << >> = {}
      OBVIOUS
    <3>2. CASE g = "symbol_list"
      BY <3>1, <3>2
    <3>3. CASE g = "options"
      BY <3>3
    <3>4. CASE g \notin {"symbol_list", "options"}
      BY <1>1, <3>4, BufferNames DEF BuffersOK
    <3> QED BY <3>2, <3>3, <3>4
  <2>2. \A p : p \in Held(scratch) <=> \E g \in Buffered : \E y \in DOMAIN scratch[g] : p = <<g, y>>
    BY DEF Held
  <2>3. \A p : p \in Held(scratch') <=> \E g \in Buffered : \E y \in DOMAIN scratch'[g] : p = <<g, y>>
    BY DEF Held
  <2>4. \A p : p \in SymbolsHeld(scratch) <=> \E y \in DOMAIN scratch["symbol_list"] : p = <<"symbol_list", y>>
    BY DEF SymbolsHeld
  <2>5. \A g, h, y, z : <<g, y>> = <<h, z>> => g = h /\ y = z
    OBVIOUS
  <2>6. \A p : p \in rest <=> \E g \in Buffered : g # "symbol_list" /\ \E y \in DOMAIN scratch[g] : p = <<g, y>>
    BY <2>2, <2>4, <2>5, BufferNames
  <2>. HIDE DEF rest
  <2>7. \A p : p \in Held(scratch') <=> p \in rest \/ p = <<"options", x>>
    <3>1. ASSUME NEW p, p \in Held(scratch') PROVE p \in rest \/ p = <<"options", x>>
      <4>0. PICK g \in Buffered : \E y \in DOMAIN scratch'[g] : p = <<g, y>>
        BY <2>3, <3>1
      <4>1. PICK y \in DOMAIN scratch'[g] : p = <<g, y>>
        BY <4>0
      <4>2. (g # "symbol_list" /\ y \in DOMAIN scratch[g]) \/ (g = "options" /\ y = x)
        BY <2>1
      <4> QED BY <2>6, <4>1, <4>2
    <3>2. ASSUME NEW p, p \in rest PROVE p \in Held(scratch')
      <4>1. PICK g \in Buffered : g # "symbol_list" /\ \E y \in DOMAIN scratch[g] : p = <<g, y>>
        BY <2>6, <3>2
      <4>2. PICK y \in DOMAIN scratch[g] : p = <<g, y>>
        BY <4>1
      <4>3. y \in DOMAIN scratch'[g]
        BY <2>1, <4>1
      <4> QED BY <2>3, <4>2, <4>3
    <3>3. <<"options", x>> \in Held(scratch')
      BY <2>1, <2>3, BufferNames
    <3> QED BY <3>1, <3>2, <3>3
  <2>8. <<"options", x>> \notin rest
    BY <2>5, <2>6
  <2> QED BY <2>7, <2>8
<1>8. /\ IsFiniteSet(rest)
      /\ Cardinality(rest) = Cardinality(Held(scratch)) - Cardinality(SymbolsHeld(scratch))
  <2>1. Held(scratch) \cap SymbolsHeld(scratch) = SymbolsHeld(scratch)
    BY <1>6
  <2> QED BY <1>6, <2>1, FS_Difference
<1>. HIDE DEF rest
<1>9. /\ IsFiniteSet(Held(scratch'))
      /\ Cardinality(Held(scratch')) = Cardinality(Held(scratch)) - Cardinality(SymbolsHeld(scratch)) + 1
  <2>1. PICK e : Held(scratch') = rest \cup {e} /\ e \notin rest
    BY <1>7
  <2>2. IsFiniteSet(rest \cup {e}) /\ Cardinality(rest \cup {e}) = Cardinality(rest) + 1
    BY <1>8, <2>1, FS_AddElement
  <2> QED BY <1>8, <2>1, <2>2
<1>10. BuffersOK(scratch')
  <2>1. IsList(<< >>)
    <3>1. << >> \in Seq({})
      OBVIOUS
    <3> QED BY <3>1 DEF IsList
  <2>2. \A f \in Lists : IsList(scratch'[f])
    BY <1>1, <2>1, BufferNames DEF BuffersOK
  <2> QED BY <1>1, <1>9, <2>2 DEF BuffersOK
<1>11. Belong(scratch', open')
  <2>1. \A g \in Buffered : g = Filled(t) \/ DOMAIN scratch'[g] \subseteq DOMAIN scratch[g]
    <3>1. DOMAIN << >> = {}
      OBVIOUS
    <3>2. Filled(t) = "options"
      BY <1>2 DEF Filled
    <3> QED BY <1>1, <3>1, <3>2, BufferNames DEF BuffersOK
  <2> QED BY <1>1, <1>3, <2>1, BelongOn
<1>12. Count(scratch', text')
  <2>. DEFINE n == Len(text) + 1
  <2>1. /\ n \notin CurrentIn(text) /\ CountedIn(text') = (CountedIn(text) \ LooseIn(text)) \cup {n}
        /\ LooseIn(text') = {} /\ OptimsIn(text') = OptimsIn(text)
    <3>0. text \in Seq(Pieces) /\ t \in Pieces /\ t.in # {} /\ text' = Append(text, t)
      BY <1>1, <1>4, <1>5
    <3>1. CountedIn(text') = IF t.op \notin Elements THEN CountedIn(text)
                             ELSE IF t.op = "option_symbol_list" THEN (CountedIn(text) \ LooseIn(text)) \cup {Len(text) + 1}
                             ELSE CountedIn(text) \cup {Len(text) + 1}
      BY <3>0, ElementRead
    <3>2. LooseIn(text') = {}
      <4>1. /\ Len(text) \in Nat /\ DOMAIN text' = 1..n /\ Len(text') = n /\ text'[n] = t
        BY <3>0, TextOn
      <4>2. t.op = "option_symbol_list"
        BY <1>2
      <4>3. ASSUME NEW i \in LooseIn(text') PROVE FALSE
        <5>1. i \in DOMAIN text' /\ ~TakenLater(text', i) /\ text'[i].op = "symbol"
          BY <4>3 DEF LooseIn, CurrentIn
        <5>2. n \in i..Len(text')
          BY <4>1, <5>1
        <5> QED BY <4>1, <4>2, <5>1, <5>2 DEF TakenLater
      <4> QED BY <4>3
    <3>3. t.op # "optim_option" => OptimsIn(text') = OptimsIn(text)
      BY <3>0, ElementRead
    <3>4. n \notin CurrentIn(text)
      BY <3>0, ElementRead
    <3> QED BY <1>2, <1>3, <3>1, <3>2, <3>3, <3>4
  <2>. HIDE DEF n
  <2>2. /\ IsFiniteSet(CountedIn(text)) /\ IsFiniteSet(LooseIn(text))
        /\ Cardinality(CountedIn(text)) \in Nat /\ Cardinality(LooseIn(text)) \in Nat
    BY <1>1, TextFinite
  <2>3. LooseIn(text) \subseteq CountedIn(text)
    BY DEF LooseIn, CountedIn, Elements
  <2>4. n \notin CountedIn(text) \ LooseIn(text)
    BY <2>1 DEF CountedIn
  <2>5. CountedIn(text) \cap LooseIn(text) = LooseIn(text)
    BY <2>3
  <2>6. /\ IsFiniteSet(CountedIn(text) \ LooseIn(text))
        /\ Cardinality(CountedIn(text) \ LooseIn(text)) = Cardinality(CountedIn(text)) - Cardinality(LooseIn(text))
    BY <2>2, <2>5, FS_Difference
  <2>7. Cardinality(CountedIn(text')) = Cardinality(CountedIn(text)) - Cardinality(LooseIn(text)) + 1
    BY <2>1, <2>4, <2>6, FS_AddElement
  <2>8. One(OptimsIn(text)) \in {0, 1} /\ One(OptimsIn(text')) = One(OptimsIn(text))
    BY <2>1 DEF One
  <2>9. Cardinality(Held(scratch')) = Cardinality(CountedIn(text')) + One(OptimsIn(text'))
    BY <1>1, <1>6, <1>9, <2>2, <2>7, <2>8 DEF Count
  <2>10. Cardinality(SymbolsHeld(scratch')) = Cardinality(LooseIn(text'))
    <3>1. SymbolsHeld(scratch') = {}
      BY DEF SymbolsHeld
    <3> QED BY <2>1, <3>1
  <2>11. OptimKey \in DOMAIN scratch'["options"] <=> OptimsIn(text') # {}
    BY <1>1, <2>1 DEF Count
  <2> QED BY <2>9, <2>10, <2>11 DEF Count
<1>13. StatementsHoldTheirPieces'
  BY <1>4, OpenOn, StillOpen
<1> QED BY <1>1, <1>5, <1>10, <1>11, <1>12, <1>13 DEF PiecesInv, Listed
\* The options of the optimizer are one option of the statement.
LEMMA OptimKeeps ==
    ASSUME PiecesInv, file \in DOMAIN Files, NEW t \in Pieces, Reads(t, "optim_option"), NEW v,
           scratch' = [scratch EXCEPT !["options"] = With(scratch.options, OptimKey, v)],
           statements' = statements
    PROVE  PiecesInv'
<1>1. /\ text \in Seq(Pieces) /\ BuffersOK(scratch) /\ Belong(scratch, open) /\ Count(scratch, text)
      /\ Listed /\ LastOwn(statements)
  BY DEF PiecesInv, Reads
<1>2. t.op = "optim_option" /\ text' = Append(text, t) /\ file' = file
  BY DEF Reads
<1>3. Filled(t) = "options" /\ t.in # {}
  BY <1>2, FilledOf DEF Filled
<1>4. text' \in Seq(Pieces')
  BY <1>1, <1>2 DEF Pieces
<1>5. /\ DOMAIN scratch' = DOMAIN scratch
      /\ \A g \in DOMAIN scratch : g # "options" => scratch'[g] = scratch[g]
      /\ DOMAIN scratch'["options"] = DOMAIN scratch["options"] \cup {OptimKey}
  BY <1>1, BufferNames DEF BuffersOK, With, :>, @@
<1>6. Belong(scratch', open')
  <2>1. \A g \in Buffered : g = Filled(t) \/ DOMAIN scratch'[g] \subseteq DOMAIN scratch[g]
    BY <1>1, <1>3, <1>5, BufferNames DEF BuffersOK
  <2> QED BY <1>1, <2>1, BelongOn
<1>7. SymbolsHeld(scratch') = SymbolsHeld(scratch)
  BY <1>1, <1>5, BufferNames DEF SymbolsHeld, BuffersOK
<1>8. /\ CountedIn(text') = CountedIn(text) /\ LooseIn(text') = LooseIn(text) /\ OptimsIn(text') # {}
  <2>1. "optim_option" \notin Elements
    BY DEF Elements
  <2>2. CountedIn(text') = CountedIn(text)
    BY <1>1, <1>2, <1>3, <2>1, ElementRead
  <2>3. LooseIn(text') = LooseIn(text)
    BY <1>1, <1>2, <1>3, ElementRead
  <2>4. OptimsIn(text') = OptimsIn(text) \cup {Len(text) + 1}
    BY <1>1, <1>2, <1>3, ElementRead
  <2> QED BY <2>2, <2>3, <2>4
<1>9. CASE OptimKey \in DOMAIN scratch["options"]
  <2>1. \A g \in Buffered : DOMAIN scratch'[g] = DOMAIN scratch[g]
    BY <1>1, <1>5, <1>9, BufferNames DEF BuffersOK
  <2>2. Held(scratch') = Held(scratch)
    BY <2>1 DEF Held
  <2>3. BuffersOK(scratch')
    BY <1>1, <1>5, <2>2, BufferNames DEF BuffersOK
  <2>4. One(OptimsIn(text')) = One(OptimsIn(text))
    BY <1>1, <1>8, <1>9 DEF Count, One
  <2>5. Count(scratch', text')
    BY <1>1, <1>5, <1>7, <1>8, <2>2, <2>4 DEF Count
  <2>6. StatementsHoldTheirPieces'
    BY <1>3, OpenOn, StillOpen
  <2> QED BY <1>1, <1>4, <1>6, <2>3, <2>5, <2>6 DEF PiecesInv, Listed
<1>10. CASE OptimKey \notin DOMAIN scratch["options"]
  <2>1. Filling(scratch, scratch', "options", OptimKey)
    BY <1>5, <1>10, BufferNames DEF Filling
  <2>2. /\ BuffersOK(scratch') /\ Cardinality(Held(scratch)) \in Nat
        /\ Cardinality(Held(scratch')) = Cardinality(Held(scratch)) + 1
    BY <1>1, <2>1, BufferNames, HeldFilled
  <2>3. One(OptimsIn(text)) = 0 /\ One(OptimsIn(text')) = 1
    BY <1>1, <1>8, <1>10 DEF Count, One
  <2>4. Cardinality(CountedIn(text)) \in Nat
    BY <1>1, TextFinite
  <2>5. Cardinality(Held(scratch')) = Cardinality(CountedIn(text')) + One(OptimsIn(text'))
    BY <1>1, <1>8, <2>2, <2>3, <2>4 DEF Count
  <2>6. Count(scratch', text')
    BY <1>1, <1>5, <1>7, <1>8, <2>5 DEF Count
  <2>7. StatementsHoldTheirPieces'
    BY <1>3, OpenOn, StillOpen
  <2> QED BY <1>1, <1>4, <1>6, <2>2, <2>6, <2>7 DEF PiecesInv, Listed
<1> QED BY <1>9, <1>10

(* What is neither an element of a statement nor an option of the optimizer. *)
NoElement(op) == op \notin Elements /\ op # "optim_option"

\* The end of a statement: what the property counts are the pieces that were open.
LEMMA EndCounts ==
    ASSUME NEW t \in Pieces, text \in Seq(Pieces), text' = Append(text, t), t.in = {},
           NoElement(t.op)
    PROVE  /\ {i \in PiecesOf(Len(text), Elements) : ~InOption(i, Len(text))}' = CountedIn(text)
           /\ PiecesOf(Len(text), {"optim_option"})' = OptimsIn(text)
           /\ Len(text') > 0 /\ text'[Len(text')] = t
<1>. DEFINE last == Len(text')
<1>1. /\ Len(text) \in Nat /\ last = Len(text) + 1 /\ text'[last] = t
      /\ \A i \in 1..Len(text) : text'[i] = text[i]
  BY TextOn
<1>2. \A i : Closer(i)' = CloserIn(text', i)
  BY DEF Closer, CloserIn
<1>3. ASSUME NEW ops PROVE PiecesOf(Len(text), ops)' = {i \in 1..last : text'[i].op \in ops /\ CloserIn(text', i) = last}
  BY <1>2 DEF PiecesOf
<1>. HIDE DEF last
<1>4. ASSUME NEW ops, t.op \notin ops
      PROVE  \A i : i \in PiecesOf(Len(text), ops)' <=> i \in CurrentIn(text) /\ text[i].op \in ops
  <2>1. PICK ty : ty = text'
    OBVIOUS
  <2>2. \A i : i \in 1..Len(ty) /\ ty[i].op \in ops /\ CloserIn(ty, i) = Len(ty)
            <=> i \in CurrentIn(text) /\ text[i].op \in ops
    BY <1>4, <2>1, EndRead
  <2> QED BY <1>3, <2>1, <2>2 DEF last
<1>5. /\ \A i : i \in PiecesOf(Len(text), Elements)' <=> i \in CurrentIn(text) /\ text[i].op \in Elements
      /\ PiecesOf(Len(text), {"optim_option"})' = OptimsIn(text)
  <2>1. \A i : i \in PiecesOf(Len(text), {"optim_option"})' <=> i \in CurrentIn(text) /\ text[i].op = "optim_option"
    BY <1>4 DEF NoElement
  <2> QED BY <1>4, <2>1 DEF OptimsIn, NoElement
<1>6. CurrentIn(text) \subseteq 1..Len(text)
  BY <1>1 DEF CurrentIn
<1>7. ASSUME NEW i \in CurrentIn(text) PROVE InOption(i, Len(text))' <=> TakenLater(text, i)
  <2>1. InOption(i, Len(text))' <=> TakenLater(text', i)
    BY DEF InOption, TakenLater
  <2>2. t.op # "option_symbol_list"
    BY DEF Elements, NoElement
  <2> QED BY <1>6, <2>1, <2>2, TakenOn
<1>8. {i \in PiecesOf(Len(text), Elements) : ~InOption(i, Len(text))}' = CountedIn(text)
  <2>1. {i \in PiecesOf(Len(text), Elements) : ~InOption(i, Len(text))}'
          = {i \in PiecesOf(Len(text), Elements)' : ~InOption(i, Len(text))'}
    OBVIOUS
  <2> QED BY <1>5, <1>7, <2>1 DEF CountedIn
<1> QED BY <1>1, <1>5, <1>8 DEF last

\* The end of a statement leaves nothing in the buffers, and the statement has what they held.
LEMMA Closed ==
    ASSUME PiecesInv, file \in DOMAIN Files, NEW t \in Pieces, NEW op, Reads(t, op), t.in = {},
           NoElement(op), DOMAIN scratch' = DOMAIN scratch,
           \A f \in Buffered : scratch'[f] = Empty[f] \/ (f \notin Taken(t.kind) /\ scratch'[f] = scratch[f]),
           Listed', LastOwn(statements'),
           LET s == statements'[Len(statements')] IN
           Len(statements') > 0 /\ s.kind = t.kind => Contents(s) = Held(scratch)
    PROVE  PiecesInv'
<1>1. /\ text \in Seq(Pieces) /\ BuffersOK(scratch) /\ Belong(scratch, open) /\ Count(scratch, text)
  BY DEF PiecesInv, Reads
<1>2. t.op = op /\ text' = Append(text, t) /\ file' = file /\ open' = {}
      /\ (t.kind \in open \/ open = {})
  BY DEF Reads, Follows
<1>3. text' \in Seq(Pieces')
  BY <1>1, <1>2 DEF Pieces
<1>4. ASSUME NEW f \in Buffered PROVE DOMAIN scratch'[f] = {}
  <2>1. CASE scratch'[f] = Empty[f]
    BY <2>1 DEF Empty, Buffered, None
  <2>2. CASE f \notin Taken(t.kind) /\ scratch'[f] = scratch[f]
    BY <1>1, <1>2, <2>2 DEF Belong
  <2> QED BY <2>1, <2>2
<1>5. Held(scratch') = {} /\ SymbolsHeld(scratch') = {} /\ OptimKey \notin DOMAIN scratch'["options"]
  BY <1>4, BufferNames DEF Held, SymbolsHeld
<1>6. BuffersOK(scratch')
  <2>1. IsList(<< >>)
    <3>1. << >> \in Seq({})
      OBVIOUS
    <3> QED BY <3>1 DEF IsList
  <2>2. ASSUME NEW f \in Lists PROVE IsList(scratch'[f])
    <3>1. Empty[f] = << >>
      BY DEF Lists, Empty
    <3> QED BY <1>1, <2>1, <3>1, BufferNames DEF BuffersOK
  <2>3. IsFiniteSet(Held(scratch'))
    BY <1>5, FS_EmptySet
  <2> QED BY <1>1, <2>2, <2>3 DEF BuffersOK
<1>7. Belong(scratch', open')
  BY <1>4 DEF Belong
<1>8. Count(scratch', text')
  <2>1. CountedIn(text') = {} /\ LooseIn(text') = {} /\ OptimsIn(text') = {}
    BY <1>1, <1>2, NothingOpen
  <2> QED BY <1>5, <2>1, FS_EmptySet DEF Count, One
<1>9. StatementsHoldTheirPieces'
  <2>1. /\ {i \in PiecesOf(Len(text), Elements) : ~InOption(i, Len(text))}' = CountedIn(text)
        /\ PiecesOf(Len(text), {"optim_option"})' = OptimsIn(text)
        /\ Len(text') > 0 /\ text'[Len(text')] = t
    BY <1>1, <1>2, EndCounts
  <2>2. PICK s : s = statements'[Len(statements')]
    OBVIOUS
  <2>3. Len(statements') > 0 /\ s.kind = t.kind =>
          Cardinality(Contents(s)) = Cardinality(CountedIn(text)) + (IF OptimsIn(text) = {} THEN 0 ELSE 1)
    BY <1>1, <2>2 DEF Count, One
  <2>4. Contents(statements[Len(statements)])' = Contents(s)
    BY <2>2 DEF Contents, Buffered
  <2> QED BY <2>1, <2>2, <2>3, <2>4 DEF StatementsHoldTheirPieces
<1> QED BY <1>3, <1>6, <1>7, <1>8, <1>9 DEF PiecesInv

\* A statement that has what the buffers held of its own.
LEMMA StatementCloses ==
    ASSUME PiecesInv, file \in DOMAIN Files, NEW t \in Pieces, NEW op, Reads(t, op), t.in = {}, NoElement(op),
           Listed', NEW s, statements'[Len(statements')] = s,
           DOMAIN s.of \cap Buffered = Taken(s.kind), \A f \in Taken(s.kind) : s.of[f] = scratch[f],
           s.kind = t.kind \/ Taken(t.kind) = {}, DOMAIN scratch' = DOMAIN scratch,
           \A f \in Buffered : scratch'[f] = IF f \in Taken(s.kind) THEN Empty[f] ELSE scratch[f]
    PROVE  PiecesInv'
<1>1. Belong(scratch, open) /\ (t.kind \in open \/ open = {})
  BY DEF PiecesInv, Reads, Follows
<1>2. \A f \in Buffered : scratch'[f] = Empty[f] \/ (f \notin Taken(t.kind) /\ scratch'[f] = scratch[f])
  OBVIOUS
<1>3. LastOwn(statements')
  BY DEF LastOwn, Own
<1>4. ASSUME s.kind = t.kind PROVE Contents(s) = Held(scratch)
  <2>1. \A f \in Buffered : DOMAIN scratch[f] # {} => f \in Taken(s.kind)
    BY <1>1, <1>4 DEF Belong
  <2>2. \A p : p \in Held(scratch) <=> \E f \in Buffered : \E y \in DOMAIN scratch[f] : p = <<f, y>>
    BY DEF Held
  <2>3. \A p : p \in Contents(s) <=> \E f \in DOMAIN s.of \cap Buffered : \E y \in DOMAIN s.of[f] : p = <<f, y>>
    BY DEF Contents
  <2>4. \A p : p \in Contents(s) <=> p \in Held(scratch)
    BY <2>1, <2>2, <2>3
  <2> QED BY <2>4
<1> QED BY <1>2, <1>3, <1>4, Closed

\* A handler that adds a statement of what the buffers hold.
LEMMA AddsPieces ==
    ASSUME PiecesInv, file \in DOMAIN Files, NEW t \in Pieces, NEW op, Reads(t, op), t.in = {}, NoElement(op),
           NEW kind, NEW taken, NEW args, Adds(kind, taken, args), taken \cap Buffered = Taken(kind),
           DOMAIN args \cap Buffered = {}, kind = t.kind \/ Taken(t.kind) = {}
    PROVE  PiecesInv'
<1>1. BuffersOK(scratch) /\ Listed
  BY DEF PiecesInv, Reads
<1>2. PICK s : s = [kind |-> kind, of |-> [f \in taken |-> scratch[f]] @@ args]
  OBVIOUS
<1>3. s.kind = kind /\ DOMAIN s.of = taken \cup DOMAIN args /\ \A f \in taken : s.of[f] = scratch[f]
  BY <1>2 DEF @@
<1>4. statements' = Append(statements, s)
  BY <1>2 DEF Adds
<1>5. Listed' /\ statements'[Len(statements')] = s
  <2>1. PICK S : statements \in Seq(S)
    BY <1>1 DEF Listed
  <2>2. statements \in Seq(S \cup {s})
    BY <2>1
  <2>3. statements' \in Seq(S \cup {s}) /\ statements'[Len(statements')] = s
    BY <1>4, <2>2
  <2> QED BY <2>3 DEF Listed
<1>6. DOMAIN s.of \cap Buffered = Taken(s.kind) /\ \A f \in Taken(s.kind) : s.of[f] = scratch[f]
  BY <1>3
<1>7. DOMAIN scratch' = DOMAIN scratch
  BY DEF Adds
<1>8. \A f \in Buffered : scratch'[f] = IF f \in Taken(s.kind) THEN Empty[f] ELSE scratch[f]
  <2>1. ASSUME NEW f \in Buffered PROVE f \notin {"cholesky", "declared_subsamples"} /\ f \in DOMAIN scratch
    BY <1>1, BufferNames DEF Buffered, BuffersOK
  <2>2. ASSUME NEW f \in Buffered PROVE f \in taken <=> f \in Taken(s.kind)
    BY <1>3
  <2> QED BY <2>1, <2>2 DEF Adds
<1> QED BY <1>3, <1>5, <1>6, <1>7, <1>8, StatementCloses

\* A piece of a statement that is still open, which leaves those buffers alone.
LEMMA OpenKeeps ==
    ASSUME PiecesInv, file \in DOMAIN Files, NEW t \in Pieces, NEW op, Reads(t, op), NoElement(op), t.in # {},
           DOMAIN scratch' = DOMAIN scratch, \A f \in Buffered : scratch'[f] = scratch[f],
           Listed', LastOwn(statements')
    PROVE  PiecesInv'
<1>1. /\ text \in Seq(Pieces) /\ BuffersOK(scratch) /\ Belong(scratch, open) /\ Count(scratch, text)
  BY DEF PiecesInv, Reads
<1>2. t.op = op /\ text' = Append(text, t) /\ file' = file
  BY DEF Reads
<1>3. text' \in Seq(Pieces')
  BY <1>1, <1>2 DEF Pieces
<1>4. Held(scratch') = Held(scratch) /\ SymbolsHeld(scratch') = SymbolsHeld(scratch)
  BY BufferNames DEF Held, SymbolsHeld
<1>5. BuffersOK(scratch')
  BY <1>1, <1>4, BufferNames DEF BuffersOK
<1>6. open' # {} /\ (open # {} => open' \subseteq open)
  BY OpenOn
<1>7. Belong(scratch', open')
  BY <1>1, <1>6 DEF Belong
<1>8. CountedIn(text') = CountedIn(text) /\ LooseIn(text') = LooseIn(text) /\ OptimsIn(text') = OptimsIn(text)
  <2>1. t.op \notin Elements => CountedIn(text') = CountedIn(text)
    BY <1>1, <1>2, ElementRead
  <2>2. t.op # "symbol" /\ t.op # "option_symbol_list" => LooseIn(text') = LooseIn(text)
    BY <1>1, <1>2, ElementRead
  <2>3. t.op # "optim_option" => OptimsIn(text') = OptimsIn(text)
    BY <1>1, <1>2, ElementRead
  <2> QED BY <1>2, <2>1, <2>2, <2>3 DEF NoElement, Elements
<1>9. Count(scratch', text')
  BY <1>1, <1>4, <1>8, BufferNames DEF Count
<1>10. StatementsHoldTheirPieces'
  BY <1>6, StillOpen
<1> QED BY <1>1, <1>3, <1>5, <1>7, <1>9, <1>10 DEF PiecesInv, Listed

\* A piece that leaves those buffers and the statements alone.
LEMMA NeutralKeeps ==
    ASSUME PiecesInv, file \in DOMAIN Files, NEW t \in Pieces, NEW op, Reads(t, op), NoElement(op),
           t.in = {} => Taken(t.kind) = {},
           DOMAIN scratch' = DOMAIN scratch, \A f \in Buffered : scratch'[f] = scratch[f],
           statements' = statements
    PROVE  PiecesInv'
<1>1. /\ text \in Seq(Pieces) /\ BuffersOK(scratch) /\ Belong(scratch, open) /\ Count(scratch, text)
      /\ Listed /\ LastOwn(statements)
  BY DEF PiecesInv, Reads
<1>2. t.op = op /\ text' = Append(text, t) /\ file' = file
  BY DEF Reads
<1>3. CASE t.in # {}
  <2>1. Listed' /\ LastOwn(statements')
    BY <1>1 DEF Listed
  <2> QED BY <1>3, <2>1, OpenKeeps
<1>4. CASE t.in = {}
  <2>1. \A f \in Buffered : DOMAIN scratch[f] = {}
    BY <1>1, <1>4 DEF Belong, Reads, Follows
  <2>2. Held(scratch) = {}
    BY <2>1 DEF Held
  <2>3. Len(statements) > 0 /\ statements[Len(statements)].kind = t.kind => Contents(statements[Len(statements)]) = {}
    BY <1>1, <1>4 DEF LastOwn, Own, Contents
  <2>4. Listed' /\ LastOwn(statements')
    BY <1>1 DEF Listed
  <2>5. \A f \in Buffered : scratch'[f] = Empty[f] \/ (f \notin Taken(t.kind) /\ scratch'[f] = scratch[f])
    BY <1>4
  <2> QED BY <1>4, <2>2, <2>3, <2>4, <2>5, Closed
<1> QED BY <1>3, <1>4
\* Most handlers do not end a statement that takes something.
LEMMA NotClosing ==
    ASSUME file \in DOMAIN Files, NEW t \in Pieces, t.op \notin Closings, t.in = {} PROVE Taken(t.kind) = {}
BY FilesAssumption DEF Pieces

\* The handlers of declarations and of the model.
LEMMA DeclarationsHold ==
    ASSUME PiecesInv, file \in DOMAIN Files, NEW t \in Pieces,
           \/ DeclareSymbol(t) \/ AddPredeterminedVariable(t) \/ AddModelVariable(t)
           \/ AddExpressionVariable(t) \/ ModelLocalVariable(t) \/ ChangeType(t)
           \/ AddSteadyStateModelEqual(t) \/ AddVarobs(t) \/ ModelFlag(t)
           \/ ExternalFunction(t) \/ CallFunction(t)
    PROVE  PiecesInv'
<1>. DEFINE ops == {"declare", "predetermined", "model_variable", "expression_variable", "pound", "change_type",
                    "steady_state_equal", "varobs", "flag", "external_function", "call"}
<1>1. statements' = statements /\ scratch' = scratch
  BY DEF DeclareSymbol, AddPredeterminedVariable, AddModelVariable, AddExpressionVariable,
         ModelLocalVariable, ChangeType, AddSteadyStateModelEqual, AddVarobs, ModelFlag,
         ExternalFunction, CallFunction, Only, Sets
<1>2. PICK op \in ops : Reads(t, op)
  BY DEF DeclareSymbol, AddPredeterminedVariable, AddModelVariable, AddExpressionVariable,
         ModelLocalVariable, ChangeType, AddSteadyStateModelEqual, AddVarobs, ModelFlag,
         ExternalFunction, CallFunction
<1>3. NoElement(op) /\ op \notin Closings
  BY DEF NoElement, Elements, Closings, Endings
<1>4. t.in = {} => Taken(t.kind) = {}
  BY <1>2, <1>3, NotClosing DEF Reads
<1> QED BY <1>1, <1>2, <1>3, <1>4, NeutralKeeps

\* The handlers that fill a buffer that no property follows, those of structural VARs among them.
LEMMA OtherBuffersHold ==
    ASSUME PiecesInv, file \in DOMAIN Files, NEW t \in Pieces,
           \/ BeginSvarIdentification(t) \/ AddRestrictionInEquation(t) \/ AddCholesky(t)
           \/ SubsampleRange(t) \/ Shape(t) \/ Variance(t)
           \/ CombineLagAndRestriction(t) \/ AddRestriction(t)
    PROVE  PiecesInv'
<1>. SUFFICES ASSUME phase' = "parsing" PROVE PiecesInv'
  BY DEF PiecesInv
<1>. DEFINE ops == {"begin_svar", "exclusion", "cholesky", "subsample", "shape", "variance", "exclusion_lag", "restriction"}
            others == {"cholesky", "equation_restrictions", "subsamples", "prior_shape", "prior_variance",
                       "ident_restrictions", "Qi_nbr", "Ri_nbr"}
<1>1. PICK op \in ops : Reads(t, op)
  BY DEF BeginSvarIdentification, AddRestrictionInEquation, AddCholesky, SubsampleRange, Shape, Variance,
         CombineLagAndRestriction, AddRestriction
<1>2. NoElement(op) /\ op \notin Closings
  BY DEF NoElement, Elements, Closings, Endings
<1>3. t.in = {} => Taken(t.kind) = {}
  BY <1>1, <1>2, NotClosing DEF Reads
<1>4. /\ statements' = statements /\ DOMAIN scratch' = DOMAIN scratch
      /\ \A f \in DOMAIN scratch \ others : scratch'[f] = scratch[f]
  <2>1. CASE BeginSvarIdentification(t) \/ AddRestrictionInEquation(t) \/ AddCholesky(t) \/ SubsampleRange(t)
             \/ Shape(t) \/ Variance(t)
    <3>1. PICK f \in others : \E v : Buffers(f, v)
      BY <2>1 DEF BeginSvarIdentification, AddRestrictionInEquation, AddCholesky, SubsampleRange, Shape, Variance,
                  Enters, Keep, Only
    <3> QED BY <3>1 DEF Buffers
  <2>2. CASE CombineLagAndRestriction(t)
    <3>1. phase' # "error"
      OBVIOUS
    <3>2. statements' = statements /\ DOMAIN scratch' = DOMAIN scratch
      BY <2>2, <3>1, Zenon DEF CombineLagAndRestriction, Only
    <3>3. ASSUME NEW f \in DOMAIN scratch, f # "ident_restrictions", f # "Qi_nbr", f # "Ri_nbr", f # "cholesky",
                 f # "equation_restrictions"
          PROVE  scratch'[f] = scratch[f]
      BY <2>2, <3>1, <3>3, Zenon DEF CombineLagAndRestriction, Only
    <3> QED BY <3>2, <3>3
  <2>3. CASE AddRestriction(t)
    <3>1. phase' # "error"
      OBVIOUS
    <3>2. statements' = statements /\ DOMAIN scratch' = DOMAIN scratch
      BY <2>3, <3>1, Zenon DEF AddRestriction, Only
    <3>3. ASSUME NEW f \in DOMAIN scratch, f # "ident_restrictions", f # "Qi_nbr", f # "Ri_nbr", f # "cholesky",
                 f # "equation_restrictions"
          PROVE  scratch'[f] = scratch[f]
      BY <2>3, <3>1, <3>3, Zenon DEF AddRestriction, Only
    <3> QED BY <3>2, <3>3
  <2> QED BY <2>1, <2>2, <2>3
<1>5. \A f \in Buffered : scratch'[f] = scratch[f]
  <2>1. BuffersOK(scratch)
    BY <1>1 DEF PiecesInv, Reads
  <2>2. \A f \in Buffered : f \in DOMAIN scratch \ others
    BY <2>1, BufferNames DEF BuffersOK, Buffered
  <2> QED BY <1>4, <2>2
<1> QED BY <1>1, <1>2, <1>3, <1>4, <1>5, NeutralKeeps

\* An element at the end of a list.
LEMMA AppendHolds ==
    ASSUME PiecesInv, file \in DOMAIN Files, NEW t \in Pieces, NEW op, Reads(t, op),
           op \in Elements \ {"option_symbol_list"}, NEW f \in Lists, Filled(t) = f,
           NEW ok, NEW v, Keep(ok, f, Append(scratch[f], v))
    PROVE  PiecesInv'
<1>. SUFFICES ASSUME phase' = "parsing" PROVE PiecesInv'
  BY DEF PiecesInv
<1>1. BuffersOK(scratch) /\ phase = "parsing"
  BY DEF PiecesInv, Reads
<1>2. scratch' = [scratch EXCEPT ![f] = Append(scratch[f], v)] /\ statements' = statements
  BY DEF Keep, Only, Buffers
<1>3. f \in DOMAIN scratch /\ f # "options"
  BY <1>1, BufferNames DEF BuffersOK
<1>4. PICK S : scratch[f] \in Seq(S)
  BY <1>1 DEF BuffersOK, IsList
<1>5. PICK q : q = scratch[f]
  OBVIOUS
<1>6. q \in Seq(S \cup {v})
  BY <1>4, <1>5
<1>7. /\ Append(q, v) \in Seq(S \cup {v}) /\ Len(q) + 1 \notin DOMAIN q
      /\ DOMAIN Append(q, v) = DOMAIN q \cup {Len(q) + 1}
  BY <1>6
<1>8. Filling(scratch, scratch', f, Len(q) + 1)
  BY <1>2, <1>3, <1>5, <1>7 DEF Filling, IsList
<1> QED BY <1>2, <1>3, <1>8, FillKeeps

\* An entry of a map.
LEMMA EntryHolds ==
    ASSUME PiecesInv, file \in DOMAIN Files, NEW t \in Pieces, NEW op, Reads(t, op),
           op \in Elements \ {"option_symbol_list"}, NEW f \in Buffered \ Lists, Filled(t) = f,
           NEW ok, NEW x, NEW v, Enters(ok, f, x, v), f = "options" => x # OptimKey
    PROVE  PiecesInv'
<1>. SUFFICES ASSUME phase' = "parsing" PROVE PiecesInv'
  BY DEF PiecesInv
<1>1. BuffersOK(scratch) /\ phase = "parsing"
  BY DEF PiecesInv, Reads
<1>2. /\ scratch' = [scratch EXCEPT ![f] = With(scratch[f], x, v)] /\ statements' = statements
      /\ x \notin DOMAIN scratch[f]
  BY DEF Enters, Keep, Only, Buffers
<1>3. f \in DOMAIN scratch
  BY <1>1, BufferNames DEF BuffersOK
<1>4. DOMAIN With(scratch[f], x, v) = DOMAIN scratch[f] \cup {x}
  BY DEF With, :>, @@
<1>5. Filling(scratch, scratch', f, x)
  BY <1>2, <1>3, <1>4 DEF Filling
<1> QED BY <1>2, <1>5, FillKeeps
\* The elements of the statements.
LEMMA ElementsHold ==
    ASSUME PiecesInv, file \in DOMAIN Files, NEW t \in Pieces,
           \/ InitVal(t) \/ HistVal(t) \/ HomotopyVal(t) \/ AddDetShock(t) \/ AddVarShock(t)
           \/ AddCovarShock(t) \/ AddRow(t) \/ AddInSymbolList(t) \/ AddEstimatedParamsElement(t)
           \/ SetTrendElement(t) \/ SetOptimWeight(t) \/ SetOptimCovariance(t) \/ AddMcFilename(t)
    PROVE  PiecesInv'
<1>. DEFINE Listing(f) == \E op \in Elements \ {"option_symbol_list"} :
                            Reads(t, op) /\ Filled(t) = f /\ \E ok, v : Keep(ok, f, Append(scratch[f], v))
            Entering(f) == \E op \in Elements \ {"option_symbol_list"} :
                            Reads(t, op) /\ Filled(t) = f /\ \E ok, x, v : Enters(ok, f, x, v)
<1>1. ASSUME NEW f \in Lists, Listing(f) PROVE PiecesInv'
  BY <1>1, AppendHolds
<1>2. ASSUME NEW f \in Buffered \ (Lists \cup {"options"}), Entering(f) PROVE PiecesInv'
  BY <1>2, EntryHolds
<1>3. CASE InitVal(t)
  <2>1. Reads(t, "init_val") /\ Filled(t) = "init_values" /\ "init_val" \in Elements \ {"option_symbol_list"}
    BY <1>3 DEF InitVal, Reads, Filled, Elements
  <2>2. Listing("init_values")
    BY <1>3, <2>1 DEF InitVal
  <2> QED BY <1>1, <2>2 DEF Lists
<1>4. CASE HomotopyVal(t)
  <2>1. Reads(t, "homotopy_val") /\ Filled(t) = "homotopy_values" /\ "homotopy_val" \in Elements \ {"option_symbol_list"}
    BY <1>4 DEF HomotopyVal, Reads, Filled, Elements
  <2>2. Listing("homotopy_values")
    BY <1>4, <2>1 DEF HomotopyVal
  <2> QED BY <1>1, <2>2 DEF Lists
<1>5. CASE AddRow(t)
  <2>1. Reads(t, "row") /\ Filled(t) = "sigmae_matrix" /\ "row" \in Elements \ {"option_symbol_list"}
    BY <1>5 DEF AddRow, Reads, Filled, Elements
  <2>2. Listing("sigmae_matrix")
    BY <1>5, <2>1 DEF AddRow
  <2> QED BY <1>1, <2>2 DEF Lists
<1>6. CASE AddInSymbolList(t)
  <2>1. Reads(t, "symbol") /\ Filled(t) = "symbol_list" /\ "symbol" \in Elements \ {"option_symbol_list"}
    BY <1>6 DEF AddInSymbolList, Reads, Filled, Elements
  <2>2. Listing("symbol_list")
    BY <1>6, <2>1 DEF AddInSymbolList
  <2> QED BY <1>1, <2>2 DEF Lists
<1>7. CASE AddEstimatedParamsElement(t)
  <2>1. Reads(t, "estimated") /\ Filled(t) = "estim_params" /\ "estimated" \in Elements \ {"option_symbol_list"}
    BY <1>7 DEF AddEstimatedParamsElement, Reads, Filled, Elements
  <2>2. Listing("estim_params")
    BY <1>7, <2>1 DEF AddEstimatedParamsElement
  <2> QED BY <1>1, <2>2 DEF Lists
<1>8. CASE AddMcFilename(t)
  <2>1. Reads(t, "filename") /\ Filled(t) = "filename_list" /\ "filename" \in Elements \ {"option_symbol_list"}
    BY <1>8 DEF AddMcFilename, Reads, Filled, Elements
  <2>2. Listing("filename_list")
    BY <1>8, <2>1 DEF AddMcFilename
  <2> QED BY <1>1, <2>2 DEF Lists
<1>9. CASE HistVal(t)
  <2>1. Reads(t, "hist_val") /\ Filled(t) = "hist_values" /\ "hist_val" \in Elements \ {"option_symbol_list"}
    BY <1>9 DEF HistVal, Reads, Filled, Elements
  <2>2. Entering("hist_values")
    BY <1>9, <2>1 DEF HistVal
  <2> QED BY <1>2, <2>2 DEF Lists, Buffered
<1>10. CASE AddDetShock(t)
  <2>1. Reads(t, "det_shock") /\ Filled(t) = "det_shocks" /\ "det_shock" \in Elements \ {"option_symbol_list"}
    BY <1>10 DEF AddDetShock, Reads, Filled, Elements
  <2>2. Entering("det_shocks")
    BY <1>10, <2>1 DEF AddDetShock
  <2> QED BY <1>2, <2>2 DEF Lists, Buffered
<1>11. CASE AddVarShock(t)
  <2>1. Reads(t, "var_shock") /\ Filled(t) = t.into /\ "var_shock" \in Elements \ {"option_symbol_list"}
    BY <1>11 DEF AddVarShock, Reads, Filled, Elements
  <2>2. t.into \in {"var_shocks", "std_shocks"}
    BY <2>1, FilesAssumption DEF Reads, Pieces
  <2>3. Entering(t.into)
    BY <1>11, <2>1 DEF AddVarShock
  <2> QED BY <1>2, <2>2, <2>3 DEF Lists, Buffered
<1>12. CASE AddCovarShock(t)
  <2>1. Reads(t, "covar_shock") /\ Filled(t) = t.into /\ "covar_shock" \in Elements \ {"option_symbol_list"}
    BY <1>12 DEF AddCovarShock, Reads, Filled, Elements
  <2>2. t.into \in {"covar_shocks", "corr_shocks"}
    BY <2>1, FilesAssumption DEF Reads, Pieces
  <2>3. Entering(t.into)
    BY <1>12, <2>1 DEF AddCovarShock
  <2> QED BY <1>2, <2>2, <2>3 DEF Lists, Buffered
<1>13. CASE SetTrendElement(t)
  <2>1. Reads(t, "trend") /\ Filled(t) = "trend_elements" /\ "trend" \in Elements \ {"option_symbol_list"}
    BY <1>13 DEF SetTrendElement, Reads, Filled, Elements
  <2>2. Entering("trend_elements")
    BY <1>13, <2>1 DEF SetTrendElement
  <2> QED BY <1>2, <2>2 DEF Lists, Buffered
<1>14. CASE SetOptimWeight(t)
  <2>1. Reads(t, "weight") /\ Filled(t) = "var_weights" /\ "weight" \in Elements \ {"option_symbol_list"}
    BY <1>14 DEF SetOptimWeight, Reads, Filled, Elements
  <2>2. Entering("var_weights")
    BY <1>14, <2>1 DEF SetOptimWeight
  <2> QED BY <1>2, <2>2 DEF Lists, Buffered
<1>15. CASE SetOptimCovariance(t)
  <2>1. Reads(t, "weight2") /\ Filled(t) = "covar_weights" /\ "weight2" \in Elements \ {"option_symbol_list"}
    BY <1>15 DEF SetOptimCovariance, Reads, Filled, Elements
  <2>2. Entering("covar_weights")
    BY <1>15, <2>1 DEF SetOptimCovariance
  <2> QED BY <1>2, <2>2 DEF Lists, Buffered
<1> QED BY <1>3, <1>4, <1>5, <1>6, <1>7, <1>8, <1>9, <1>10, <1>11, <1>12, <1>13, <1>14, <1>15

\* The options.
LEMMA OptionsHold ==
    ASSUME PiecesInv, file \in DOMAIN Files, NEW t \in Pieces,
           OptionNum(t) \/ OptionSymbolList(t) \/ OptimOptions(t)
    PROVE  PiecesInv'
<1>. SUFFICES ASSUME phase' = "parsing" PROVE PiecesInv'
  BY DEF PiecesInv
<1>1. CASE OptionNum(t)
  <2>1. Reads(t, "option") /\ Filled(t) = "options" /\ "option" \in Elements \ {"option_symbol_list"}
    BY <1>1 DEF OptionNum, Reads, Filled, Elements
  <2>2. <<t.class, t.name>> # OptimKey
    BY <2>1, FilesAssumption DEF Reads, Pieces, OptimKey
  <2>3. \E ok, v : Enters(ok, "options", <<t.class, t.name>>, v)
    BY <1>1 DEF OptionNum
  <2>4. PICK f : f = "options" /\ f \in Buffered \ Lists
    BY BufferNames
  <2> QED BY <2>1, <2>2, <2>3, <2>4, EntryHolds
<1>2. CASE OptionSymbolList(t)
  <2>1. Reads(t, "option_symbol_list")
    BY <1>2 DEF OptionSymbolList
  <2>2. BuffersOK(scratch)
    BY <2>1 DEF PiecesInv, Reads
  <2>3. PICK x : x = <<"symbol_list", t.name>>
    OBVIOUS
  <2>4. x # OptimKey
    BY <2>3 DEF OptimKey
  <2>5. /\ scratch' = [scratch EXCEPT !["options"] = With(scratch["options"], x, scratch["symbol_list"]), !["symbol_list"] = << >>]
        /\ x \notin DOMAIN scratch["options"] /\ statements' = statements
    BY <1>2, <2>3, Zenon DEF OptionSymbolList, Only
  <2>6. /\ DOMAIN scratch' = DOMAIN scratch /\ scratch'["symbol_list"] = << >>
        /\ scratch'["options"] = With(scratch["options"], x, scratch["symbol_list"])
        /\ \A g \in DOMAIN scratch : g \notin {"options", "symbol_list"} => scratch'[g] = scratch[g]
    BY <2>2, <2>5, BufferNames DEF BuffersOK
  <2>7. DOMAIN scratch'["options"] = DOMAIN scratch["options"] \cup {x}
    BY <2>6 DEF With, :>, @@
  <2> QED BY <2>1, <2>4, <2>5, <2>6, <2>7, ListOptionKeeps
<1>3. CASE OptimOptions(t)
  <2>1. Reads(t, "optim_option")
    BY <1>3 DEF OptimOptions
  <2>2. PICK v : /\ scratch' = [scratch EXCEPT !["options"] = With(scratch.options, <<"str", "optim_opt">>, v)]
                 /\ statements' = statements
    BY <1>3, Zenon DEF OptimOptions, Keep, Only, Buffers
  <2> QED BY <2>1, <2>2, OptimKeeps DEF OptimKey
<1> QED BY <1>1, <1>2, <1>3

\* What the statements take are buffers of the driver.
LEMMA TakenBuffered == \A kind : Taken(kind) \subseteq Buffered
BY DEF Taken, Buffered, Both

\* A command takes what belongs to it.
LEMMA TaskHolds ==
    ASSUME PiecesInv, file \in DOMAIN Files, NEW t \in Pieces, Reads(t, "task"),
           NEW kinds, NEW taken, Ends(t, kinds, taken), \A k \in kinds : Taken(k) = taken
    PROVE  PiecesInv'
<1>1. Adds(t.kind, taken, None) /\ Taken(t.kind) = taken
  BY DEF Ends
<1>2. t.in = {}
  BY FilesAssumption DEF Reads, Pieces, Closings, Endings
<1>3. PICK op : op = "task" /\ Reads(t, op) /\ NoElement(op)
  BY DEF NoElement, Elements
<1>4. taken \cap Buffered = Taken(t.kind) /\ DOMAIN None \cap Buffered = {}
  BY <1>1, TakenBuffered DEF None
<1> QED BY <1>1, <1>2, <1>3, <1>4, AddsPieces
\* The commands.
LEMMA TasksHold ==
    ASSUME PiecesInv, file \in DOMAIN Files, NEW t \in Pieces,
           \/ EndSimulation(t) \/ EndSteady(t) \/ Forecast(t) \/ EstimationData(t)
           \/ RunEstimation(t) \/ SetTrends(t) \/ EndOptimWeights(t) \/ RunOsr(t)
           \/ RunModelComparison(t) \/ PlannerObjective(t) \/ RunBvar(t) \/ RunForecasts(t)
    PROVE  PiecesInv'
<1>1. Reads(t, "task")
  BY DEF EndSimulation, EndSteady, Forecast, EstimationData, RunEstimation, SetTrends,
         EndOptimWeights, RunOsr, RunModelComparison, PlannerObjective, RunBvar, RunForecasts
<1>. DEFINE Ended == \E kinds, taken : Ends(t, kinds, taken) /\ \A k \in kinds : Taken(k) = taken
<1>2. CASE EndSimulation(t)
  <2>1. /\ \A k \in {"simul", "model_info", "check"} : Taken(k) = {"options"}
        /\ \A k \in {"rplot", "stoch_simul"} : Taken(k) = Both
    BY DEF Taken, Bvar
  <2>2. Ended
    BY <1>2, <2>1 DEF EndSimulation
  <2> QED BY <1>1, <2>2, TaskHolds
<1>3. CASE EndSteady(t)
  <2>1. \A k \in {"steady"} : Taken(k) = {"options"}
    BY DEF Taken, Bvar
  <2>2. Ended
    BY <1>3, <2>1 DEF EndSteady
  <2> QED BY <1>1, <2>2, TaskHolds
<1>4. CASE Forecast(t)
  <2>1. \A k \in {"forecast"} : Taken(k) = Both
    BY DEF Taken, Bvar
  <2>2. Ended
    BY <1>4, <2>1 DEF Forecast
  <2> QED BY <1>1, <2>2, TaskHolds
<1>5. CASE EstimationData(t)
  <2>1. \A k \in {"set_time", "data"} : Taken(k) = {"options"}
    BY DEF Taken, Bvar
  <2>2. Ended
    BY <1>5, <2>1 DEF EstimationData
  <2> QED BY <1>1, <2>2, TaskHolds
<1>6. CASE RunEstimation(t)
  <2>1. /\ \A k \in {"estimation"} : Taken(k) = Both
        /\ \A k \in {"dynare_sensitivity"} : Taken(k) = {"options"}
    BY DEF Taken, Bvar
  <2>2. Ended
    BY <1>6, <2>1 DEF RunEstimation
  <2> QED BY <1>1, <2>2, TaskHolds
<1>7. CASE SetTrends(t)
  <2>1. \A k \in {"observation_trends"} : Taken(k) = {"trend_elements"}
    BY DEF Taken, Bvar
  <2>2. Ended
    BY <1>7, <2>1 DEF SetTrends
  <2> QED BY <1>1, <2>2, TaskHolds
<1>8. CASE EndOptimWeights(t)
  <2>1. \A k \in {"optim_weights"} : Taken(k) = {"var_weights", "covar_weights"}
    BY DEF Taken, Bvar
  <2>2. Ended
    BY <1>8, <2>1 DEF EndOptimWeights
  <2> QED BY <1>1, <2>2, TaskHolds
<1>9. CASE RunOsr(t)
  <2>1. /\ \A k \in {"osr_params", "dynatype", "dynasave"} : Taken(k) = {"symbol_list"}
        /\ \A k \in {"osr"} : Taken(k) = Both
        /\ \A k \in {"identification"} : Taken(k) = {"options"}
    BY DEF Taken, Bvar
  <2>2. Ended
    BY <1>9, <2>1 DEF RunOsr
  <2> QED BY <1>1, <2>2, TaskHolds
<1>10. CASE RunModelComparison(t)
  <2>1. \A k \in {"model_comparison"} : Taken(k) = {"filename_list", "options"}
    BY DEF Taken, Bvar
  <2>2. Ended
    BY <1>10, <2>1 DEF RunModelComparison
  <2> QED BY <1>1, <2>2, TaskHolds
<1>11. CASE PlannerObjective(t)
  <2>1. \A k \in {"planner_objective"} : Taken(k) = {}
    BY DEF Taken, Bvar
  <2>2. Ended
    BY <1>11, <2>1 DEF PlannerObjective
  <2> QED BY <1>1, <2>2, TaskHolds
<1>12. CASE RunBvar(t)
  <2>1. /\ \A k \in {"bvar_density", "bvar_forecast", "sbvar", "ms_estimation", "ms_simulation", "ms_compute_mdd",
                     "ms_compute_probabilities", "ms_forecast", "ms_variance_decomposition"} : Taken(k) = {"options"}
        /\ \A k \in {"ms_irf"} : Taken(k) = Both
    BY DEF Taken, Bvar
  <2>2. Ended
    BY <1>12, <2>1 DEF RunBvar
  <2> QED BY <1>1, <2>2, TaskHolds
<1>13. CASE RunForecasts(t)
  <2>1. /\ \A k \in {"shock_decomposition", "calib_smoother"} : Taken(k) = Both
        /\ \A k \in {"conditional_forecast", "extended_path"} : Taken(k) = {"options"}
        /\ \A k \in {"plot_conditional_forecast"} : Taken(k) = {"symbol_list"}
        /\ \A k \in {"conditional_forecast_paths"} : Taken(k) = {"det_shocks"}
    BY DEF Taken, Bvar
  <2>2. Ended
    BY <1>13, <2>1 DEF RunForecasts
  <2> QED BY <1>1, <2>2, TaskHolds
<1> QED BY <1>2, <1>3, <1>4, <1>5, <1>6, <1>7, <1>8, <1>9, <1>10, <1>11, <1>12, <1>13

\* The blocks, and the commands that have an end of their own.
LEMMA EndingsHold ==
    ASSUME PiecesInv, file \in DOMAIN Files, NEW t \in Pieces,
           \/ InitParam(t) \/ EndConditions(t) \/ EndShocks(t) \/ DoSigmaE(t)
           \/ EndSvarIdentification(t) \/ EndEstimatedParams(t) \/ Svar(t) \/ MarkovSwitching(t)
           \/ SetPrior(t) \/ SetOptions(t) \/ Copy(t) \/ LoadParams(t)
    PROVE  PiecesInv'
<1>. SUFFICES ASSUME phase' = "parsing" PROVE PiecesInv'
  BY DEF PiecesInv
<1>. DEFINE Added(kind) == \E taken, args : /\ Adds(kind, taken, args) /\ taken \cap Buffered = Taken(kind)
                                            /\ DOMAIN args \cap Buffered = {}
            ops == {"init_param", "end_conditions", "end_shocks", "sigma_e", "end_svar", "end_estimated", "svar",
                    "markov_switching", "prior", "set_options", "copy", "load"}
<1>1. PICK op \in ops : Reads(t, op)
  BY DEF InitParam, EndConditions, EndShocks, DoSigmaE, EndSvarIdentification, EndEstimatedParams, Svar,
         MarkovSwitching, SetPrior, SetOptions, Copy, LoadParams
<1>2. NoElement(op) /\ t.in = {} /\ t.op = op
  BY <1>1, FilesAssumption DEF NoElement, Elements, Reads, Pieces, Closings, Endings
<1>3. op \in {"init_param", "end_svar", "copy", "load"} => Taken(t.kind) = {}
  BY <1>2, NotClosing DEF Closings, Endings
<1>4. ASSUME NEW kind, Added(kind), kind = t.kind \/ Taken(t.kind) = {} PROVE PiecesInv'
  BY <1>1, <1>2, <1>4, AddsPieces
<1>5. CASE InitParam(t)
  <2>1. op = "init_param"
    BY <1>2, <1>5 DEF InitParam, Reads
  <2>2. PICK args : Adds("init_param", {}, args) /\ DOMAIN args = {"id", "value"}
    BY <1>5 DEF InitParam, Only
  <2>3. Taken("init_param") = {} /\ {"id", "value"} \cap Buffered = {}
    BY DEF Taken, Bvar, Buffered
  <2>4. Added("init_param")
    BY <2>2, <2>3
  <2> QED BY <1>3, <1>4, <2>1, <2>4
<1>6. CASE LoadParams(t)
  <2>1. op = "load"
    BY <1>2, <1>6 DEF LoadParams, Reads
  <2>2. PICK args : Adds("load_params", {}, args) /\ DOMAIN args = {"content"}
    BY <1>6 DEF LoadParams
  <2>3. Taken("load_params") = {} /\ {"content"} \cap Buffered = {}
    BY DEF Taken, Bvar, Buffered
  <2>4. Added("load_params")
    BY <2>2, <2>3
  <2> QED BY <1>3, <1>4, <2>1, <2>4
<1>7. CASE Copy(t)
  <2>1. op = "copy"
    BY <1>2, <1>7 DEF Copy, Reads
  <2>2. PICK args : Adds(t.kind, {}, args) /\ DOMAIN args = {"type", "names", "sub", "from_type", "from", "from_sub"}
    BY <1>7 DEF Copy, Only
  <2>3. Taken(t.kind) = {} /\ {"type", "names", "sub", "from_type", "from", "from_sub"} \cap Buffered = {}
    BY <1>3, <2>1 DEF Buffered
  <2>4. Added(t.kind)
    BY <2>2, <2>3
  <2> QED BY <1>4, <2>4
<1>8. CASE EndSvarIdentification(t)
  <2>1. op = "end_svar"
    BY <1>2, <1>8 DEF EndSvarIdentification, Reads
  <2>2. Adds("svar_identification",
             {"ident_restrictions", "cholesky", "restriction_symbols", "equation_restrictions", "Qi_nbr", "Ri_nbr"}, None)
    BY <1>8 DEF EndSvarIdentification, Only
  <2>3. /\ {"ident_restrictions", "cholesky", "restriction_symbols", "equation_restrictions", "Qi_nbr", "Ri_nbr"} \cap Buffered
             = Taken("svar_identification")
        /\ DOMAIN None \cap Buffered = {}
    BY DEF Taken, Bvar, Buffered, None
  <2>4. Added("svar_identification")
    BY <2>2, <2>3
  <2> QED BY <1>3, <1>4, <2>1, <2>4
<1>9. CASE EndConditions(t)
  <2>1. t.kind \in {"initval", "endval", "histval", "homotopy"}
    BY <1>9, FilesAssumption DEF EndConditions, Reads, Pieces
  <2>2. /\ t.kind \in {"initval", "endval"} => Taken(t.kind) = {"init_values"}
        /\ t.kind = "histval" => Taken(t.kind) = {"hist_values"}
        /\ t.kind = "homotopy" => Taken(t.kind) = {"homotopy_values"}
    BY DEF Taken, Bvar
  <2>3. PICK args : Adds(t.kind, Taken(t.kind), args) /\ DOMAIN args = {"all"}
    BY <1>9, <2>1, <2>2 DEF EndConditions, Only
  <2>4. Taken(t.kind) \cap Buffered = Taken(t.kind) /\ {"all"} \cap Buffered = {}
    BY TakenBuffered DEF Buffered
  <2>5. Added(t.kind)
    BY <2>3, <2>4
  <2> QED BY <1>4, <2>5
<1>10. CASE EndShocks(t)
  <2>1. t.kind \in {"shocks", "mshocks"}
    BY <1>10, FilesAssumption DEF EndShocks, Reads, Pieces
  <2>2. /\ t.kind = "shocks" => Taken(t.kind) = {"det_shocks", "var_shocks", "std_shocks", "covar_shocks", "corr_shocks"}
        /\ t.kind = "mshocks" => Taken(t.kind) = {"det_shocks"}
    BY DEF Taken, Bvar
  <2>3. Adds(t.kind, Taken(t.kind), None)
    BY <1>10, <2>1, <2>2 DEF EndShocks, Only
  <2>4. Taken(t.kind) \cap Buffered = Taken(t.kind) /\ DOMAIN None \cap Buffered = {}
    BY TakenBuffered DEF None
  <2>5. Added(t.kind)
    BY <2>3, <2>4
  <2> QED BY <1>4, <2>5
<1>11. CASE DoSigmaE(t)
  <2>1. t.kind = "Sigma_e"
    BY <1>11, FilesAssumption DEF DoSigmaE, Reads, Pieces
  <2>2. Adds("Sigma_e", {"sigmae_matrix"}, None)
    BY <1>11 DEF DoSigmaE, Only
  <2>3. {"sigmae_matrix"} \cap Buffered = Taken("Sigma_e") /\ DOMAIN None \cap Buffered = {}
    BY DEF Taken, Bvar, Buffered, None
  <2>4. Added("Sigma_e")
    BY <2>2, <2>3
  <2> QED BY <1>4, <2>1, <2>4
<1>12. CASE EndEstimatedParams(t)
  <2>1. Adds(t.kind, {"estim_params"}, None) /\ t.kind \in {"estimated_params", "estimated_params_init", "estimated_params_bounds"}
    BY <1>12 DEF EndEstimatedParams, Ends
  <2>2. {"estim_params"} \cap Buffered = Taken(t.kind) /\ DOMAIN None \cap Buffered = {}
    BY <2>1 DEF Taken, Bvar, Buffered, None
  <2>3. Added(t.kind)
    BY <2>1, <2>2
  <2> QED BY <1>4, <2>3
<1>13. CASE Svar(t) \/ MarkovSwitching(t)
  <2>1. t.kind \in {"svar", "markov_switching"}
    BY <1>13, FilesAssumption DEF Svar, MarkovSwitching, Reads, Pieces
  <2>2. Adds(t.kind, {"options"}, None)
    <3>1. CASE Svar(t)
      <4>1. t.kind = "svar"
        BY <3>1, FilesAssumption DEF Svar, Reads, Pieces
      <4> QED BY <3>1, <4>1 DEF Svar, Only
    <3>2. CASE MarkovSwitching(t)
      <4>1. t.kind = "markov_switching"
        BY <3>2, FilesAssumption DEF MarkovSwitching, Reads, Pieces
      <4> QED BY <3>2, <4>1 DEF MarkovSwitching, Only
    <3> QED BY <1>13, <3>1, <3>2
  <2>3. {"options"} \cap Buffered = Taken(t.kind) /\ DOMAIN None \cap Buffered = {}
    BY <2>1 DEF Taken, Bvar, Buffered, None
  <2>4. Added(t.kind)
    BY <2>2, <2>3
  <2> QED BY <1>4, <2>4
<1>14. CASE SetPrior(t)
  <2>1. t.kind = "prior"
    BY <1>14, FilesAssumption DEF SetPrior, Reads, Pieces
  <2>2. PICK args : Adds("prior", {"prior_shape", "prior_variance", "options"}, args) /\ DOMAIN args = {"type", "names", "sub"}
    BY <1>14 DEF SetPrior, Only
  <2>3. {"prior_shape", "prior_variance", "options"} \cap Buffered = Taken("prior") /\ {"type", "names", "sub"} \cap Buffered = {}
    BY DEF Taken, Bvar, Buffered
  <2>4. Added("prior")
    BY <2>2, <2>3
  <2> QED BY <1>4, <2>1, <2>4
<1>15. CASE SetOptions(t)
  <2>1. t.kind = "options"
    BY <1>15, FilesAssumption DEF SetOptions, Reads, Pieces
  <2>2. PICK args : Adds("options", {"options"}, args) /\ DOMAIN args = {"type", "names", "sub"}
    BY <1>15 DEF SetOptions, Only
  <2>3. {"options"} \cap Buffered = Taken("options") /\ {"type", "names", "sub"} \cap Buffered = {}
    BY DEF Taken, Bvar, Buffered
  <2>4. Added("options")
    BY <2>2, <2>3
  <2> QED BY <1>4, <2>1, <2>4
<1> QED BY <1>5, <1>6, <1>7, <1>8, <1>9, <1>10, <1>11, <1>12, <1>13, <1>14, <1>15
\* The subsamples: what they take is no buffer of another statement.
LEMMA SubsamplesHold ==
    ASSUME PiecesInv, file \in DOMAIN Files, NEW t \in Pieces, SetSubsamples(t) \/ CopySubsamples(t)
    PROVE  PiecesInv'
<1>. SUFFICES ASSUME phase' = "parsing" PROVE PiecesInv'
  BY DEF PiecesInv
<1>1. PICK op \in {"subsamples", "copy_subsamples"} : Reads(t, op)
  BY DEF SetSubsamples, CopySubsamples
<1>2. NoElement(op) /\ t.in = {}
  BY <1>1, FilesAssumption DEF NoElement, Elements, Reads, Pieces
<1>3. Taken(t.kind) = {}
  BY <1>1, <1>2, NotClosing DEF Closings, Endings, Reads
<1>4. BuffersOK(scratch) /\ Listed
  BY <1>1 DEF PiecesInv, Reads
<1>5. phase' # "error"
  OBVIOUS
<1>6. PICK s : statements' = Append(statements, s) /\ DOMAIN s.of \cap Buffered = {} /\ Taken(s.kind) = {}
  <2>1. CASE SetSubsamples(t)
    <3>1. PICK s : s = [kind |-> "subsamples", of |-> [names |-> t.names, ranges |-> scratch.subsamples]]
      OBVIOUS
    <3>2. statements' = Append(statements, s)
      BY <1>5, <2>1, <3>1, Zenon DEF SetSubsamples, Only
    <3> QED BY <3>1, <3>2 DEF Taken, Bvar, Buffered
  <2>2. CASE CopySubsamples(t)
    <3>1. PICK s : s = [kind |-> "copy_subsamples", of |-> [names |-> t.names, from |-> t.from]]
      OBVIOUS
    <3>2. statements' = Append(statements, s)
      BY <1>5, <2>2, <3>1, Zenon DEF CopySubsamples, Only
    <3> QED BY <3>1, <3>2 DEF Taken, Bvar, Buffered
  <2> QED BY <1>1, <2>1, <2>2
<1>7. DOMAIN scratch' = DOMAIN scratch /\ \A f \in Buffered : scratch'[f] = scratch[f]
  <2>1. ASSUME NEW f \in DOMAIN scratch, f # "declared_subsamples", f # "subsamples" PROVE scratch'[f] = scratch[f]
    <3>1. CASE SetSubsamples(t)
      BY <1>5, <2>1, <3>1, Zenon DEF SetSubsamples, Only
    <3>2. CASE CopySubsamples(t)
      BY <1>5, <2>1, <3>2, Zenon DEF CopySubsamples, Only
    <3> QED BY <1>1, <3>1, <3>2
  <2>2. DOMAIN scratch' = DOMAIN scratch
    <3>1. CASE SetSubsamples(t)
      BY <1>5, <3>1, Zenon DEF SetSubsamples, Only
    <3>2. CASE CopySubsamples(t)
      BY <1>5, <3>2, Zenon DEF CopySubsamples, Only
    <3> QED BY <1>1, <3>1, <3>2
  <2>3. \A f \in Buffered : f \in DOMAIN scratch /\ f \notin {"declared_subsamples", "subsamples"}
    BY <1>4, BufferNames DEF BuffersOK, Buffered
  <2> QED BY <2>1, <2>2, <2>3
<1>8. Listed' /\ statements'[Len(statements')] = s
  <2>1. PICK S : statements \in Seq(S)
    BY <1>4 DEF Listed
  <2>2. statements \in Seq(S \cup {s})
    BY <2>1
  <2>3. statements' \in Seq(S \cup {s}) /\ statements'[Len(statements')] = s
    BY <1>6, <2>2
  <2> QED BY <2>3 DEF Listed
<1> QED BY <1>1, <1>2, <1>3, <1>6, <1>7, <1>8, StatementCloses

\* The discount factor of a policy that is still open.
LEMMA DiscountHolds ==
    ASSUME PiecesInv, file \in DOMAIN Files, NEW t \in Pieces, PlannerDiscount(t)
    PROVE  PiecesInv'
<1>. SUFFICES ASSUME phase' = "parsing" PROVE PiecesInv'
  BY DEF PiecesInv
<1>1. PICK op : op = "planner_discount" /\ Reads(t, op) /\ NoElement(op)
  BY DEF PlannerDiscount, NoElement, Elements
<1>2. t.in # {}
  BY <1>1, FilesAssumption DEF Reads, Pieces
<1>3. PICK s : s = InitialDiscount(t.value)
  OBVIOUS
<1>4. statements' = Append(statements, s) /\ scratch' = scratch
  BY <1>3 DEF PlannerDiscount, Only
<1>5. PICK S : statements \in Seq(S)
  BY <1>1 DEF PiecesInv, Reads, Listed
<1>6. statements \in Seq(S \cup {s})
  BY <1>5
<1>7. statements' \in Seq(S \cup {s}) /\ statements'[Len(statements')] = s
  BY <1>4, <1>6
<1>8. DOMAIN s.of \cap Buffered = {}
  BY <1>3 DEF InitialDiscount, Buffered
<1>9. Listed' /\ LastOwn(statements')
  BY <1>7, <1>8 DEF Listed, LastOwn, Own
<1> QED BY <1>1, <1>2, <1>4, <1>9, OpenKeeps

\* A policy: the discount factor comes before the command, not after it.
LEMMA PolicyHolds ==
    ASSUME PiecesInv, file \in DOMAIN Files, NEW t \in Pieces, OptimalPolicy(t)
    PROVE  PiecesInv'
<1>. DEFINE d == InitialDiscount(1)
            before == IF Known(Discount) THEN << >> ELSE <<d>>
<1>1. PICK op : op = "policy" /\ Reads(t, op) /\ NoElement(op)
  BY DEF OptimalPolicy, NoElement, Elements
<1>2. t.in = {} /\ t.kind \in {"ramsey_policy", "discretionary_policy"}
  BY <1>1, FilesAssumption DEF Reads, Pieces, Closings, Endings
<1>3. BuffersOK(scratch) /\ Listed
  BY <1>1 DEF PiecesInv, Reads
<1>4. PICK s : s = [kind |-> t.kind, of |-> [f \in Both |-> scratch[f]]]
  OBVIOUS
<1>5. statements' = statements \o before \o <<s>>
  BY <1>4 DEF OptimalPolicy
<1>6. Listed' /\ statements'[Len(statements')] = s
  <2>1. PICK S : statements \in Seq(S)
    BY <1>3 DEF Listed
  <2>. HIDE DEF d
  <2>2. PICK T : T = S \cup {d, s}
    OBVIOUS
  <2>3. statements \in Seq(T) /\ << >> \in Seq(T) /\ <<d>> \in Seq(T) /\ <<s>> \in Seq(T)
    BY <2>1, <2>2
  <2>4. before \in Seq(T)
    BY <2>3
  <2>. HIDE DEF before
  <2>5. PICK q : q = statements \o before
    OBVIOUS
  <2>6. q \in Seq(T)
    BY <2>3, <2>4, <2>5
  <2>7. statements' = q \o <<s>>
    BY <1>5, <2>5
  <2>8. statements' \in Seq(T) /\ statements'[Len(statements')] = s
    BY <2>2, <2>6, <2>7
  <2> QED BY <2>8 DEF Listed
<1>7. Taken(t.kind) = Both
  BY <1>2 DEF Taken, Bvar
<1>8. /\ s.kind = t.kind /\ DOMAIN s.of \cap Buffered = Taken(s.kind)
      /\ \A f \in Taken(s.kind) : s.of[f] = scratch[f]
  BY <1>4, <1>7 DEF Both, Buffered
<1>9. scratch' = [scratch EXCEPT !.options = << >>, !.symbol_list = << >>]
  BY Zenon DEF OptimalPolicy, None
<1>10. DOMAIN scratch' = DOMAIN scratch
  BY <1>9
<1>11. \A f \in Buffered : scratch'[f] = IF f \in Taken(s.kind) THEN Empty[f] ELSE scratch[f]
  <2>1. Empty["options"] = << >> /\ Empty["symbol_list"] = << >>
    BY DEF Empty, None
  <2>2. \A f \in Buffered : f \in DOMAIN scratch
    BY <1>3, BufferNames DEF BuffersOK
  <2> QED BY <1>7, <1>8, <1>9, <2>1, <2>2 DEF Both
<1> QED BY <1>1, <1>2, <1>6, <1>8, <1>10, <1>11, StatementCloses

\* Every handler.
LEMMA ParseHolds ==
    ASSUME PiecesInv, file \in DOMAIN Files, Parse PROVE PiecesInv'
<1>1. PICK t \in Pieces : Handlers(t)
  BY DEF Parse, Pieces
<1>2. CASE \/ DeclareSymbol(t) \/ AddPredeterminedVariable(t) \/ AddModelVariable(t)
           \/ AddExpressionVariable(t) \/ ModelLocalVariable(t) \/ ChangeType(t)
           \/ AddSteadyStateModelEqual(t) \/ AddVarobs(t) \/ ModelFlag(t)
           \/ ExternalFunction(t) \/ CallFunction(t)
  BY <1>2, DeclarationsHold
<1>3. CASE \/ InitVal(t) \/ HistVal(t) \/ HomotopyVal(t) \/ AddDetShock(t) \/ AddVarShock(t)
           \/ AddCovarShock(t) \/ AddRow(t) \/ AddInSymbolList(t) \/ AddEstimatedParamsElement(t)
           \/ SetTrendElement(t) \/ SetOptimWeight(t) \/ SetOptimCovariance(t) \/ AddMcFilename(t)
  BY <1>3, ElementsHold
<1>4. CASE \/ BeginSvarIdentification(t) \/ AddRestrictionInEquation(t) \/ AddCholesky(t)
           \/ SubsampleRange(t) \/ Shape(t) \/ Variance(t)
           \/ CombineLagAndRestriction(t) \/ AddRestriction(t)
  BY <1>4, OtherBuffersHold
<1>5. CASE OptionNum(t) \/ OptionSymbolList(t) \/ OptimOptions(t)
  BY <1>5, OptionsHold
<1>6. CASE \/ EndSimulation(t) \/ EndSteady(t) \/ Forecast(t) \/ EstimationData(t)
           \/ RunEstimation(t) \/ SetTrends(t) \/ EndOptimWeights(t) \/ RunOsr(t)
           \/ RunModelComparison(t) \/ PlannerObjective(t) \/ RunBvar(t) \/ RunForecasts(t)
  BY <1>6, TasksHold
<1>7. CASE \/ InitParam(t) \/ EndConditions(t) \/ EndShocks(t) \/ DoSigmaE(t)
           \/ EndSvarIdentification(t) \/ EndEstimatedParams(t) \/ Svar(t) \/ MarkovSwitching(t)
           \/ SetPrior(t) \/ SetOptions(t) \/ Copy(t) \/ LoadParams(t)
  BY <1>7, EndingsHold
<1>8. CASE SetSubsamples(t) \/ CopySubsamples(t)
  BY <1>8, SubsamplesHold
<1>9. CASE OptimalPolicy(t)
  BY <1>9, PolicyHolds
<1>10. CASE PlannerDiscount(t)
  BY <1>10, DiscountHolds
<1> QED BY <1>1, <1>2, <1>3, <1>4, <1>5, <1>6, <1>7, <1>8, <1>9, <1>10 DEF Handlers

\* Before the first piece.
LEMMA InitPieces == Init => PiecesInv /\ file \in DOMAIN Files
<1>. SUFFICES ASSUME Init PROVE PiecesInv /\ file \in DOMAIN Files
  OBVIOUS
<1>1. text = << >> /\ scratch = Empty /\ statements = << >> /\ open = {} /\ file \in DOMAIN Files
  BY DEF Init
<1>2. \A f \in Buffered : Empty[f] = << >>
  BY DEF Buffered, Empty, None
<1>3. \A f \in Buffered : DOMAIN scratch[f] = {}
  BY <1>1, <1>2
<1>4. Held(scratch) = {} /\ SymbolsHeld(scratch) = {}
  BY <1>3, BufferNames DEF Held, SymbolsHeld
<1>5. BuffersOK(scratch)
  <2>1. IsList(<< >>)
    <3>1. << >> \in Seq({})
      OBVIOUS
    <3> QED BY <3>1 DEF IsList
  <2>2. IsFiniteSet(Held(scratch))
    BY <1>4, FS_EmptySet
  <2> QED BY <1>1, <1>2, <2>1, <2>2, BufferNames DEF BuffersOK
<1>6. CountedIn(text) = {} /\ LooseIn(text) = {} /\ OptimsIn(text) = {}
  BY <1>1 DEF CountedIn, LooseIn, OptimsIn, CurrentIn
<1>7. Count(scratch, text)
  BY <1>3, <1>4, <1>6, BufferNames, FS_EmptySet DEF Count, One
<1>8. Belong(scratch, open)
  BY <1>3 DEF Belong
<1>9. statements \in Seq({}) /\ Len(statements) = 0 /\ text \in Seq(Pieces)
  BY <1>1
<1>10. StatementsHoldTheirPieces
  BY <1>9 DEF StatementsHoldTheirPieces
<1> QED BY <1>1, <1>5, <1>7, <1>8, <1>9, <1>10 DEF PiecesInv, Listed, LastOwn

\* A step that changes nothing.
LEMMA PiecesUnchanged ==
    ASSUME PiecesInv, UNCHANGED vars PROVE PiecesInv'
<1>1. /\ file' = file /\ text' = text /\ open' = open /\ scratch' = scratch /\ statements' = statements
      /\ phase' = phase
  BY DEF vars, parsed
<1>2. ASSUME phase = "parsing" PROVE StatementsHoldTheirPieces'
  <2>1. StatementsHoldTheirPieces
    BY <1>2 DEF PiecesInv
  <2>2. \A i : Closer(i)' = Closer(i)
    BY <1>1 DEF Closer
  <2>3. \A i : InOption(i, Len(text))' <=> InOption(i, Len(text))
    BY <1>1 DEF InOption
  <2>4. PiecesOf(Len(text), Elements)' = PiecesOf(Len(text), Elements)
        /\ PiecesOf(Len(text), {"optim_option"})' = PiecesOf(Len(text), {"optim_option"})
    BY <1>1, <2>2 DEF PiecesOf, Elements
  <2>5. Contents(statements[Len(statements)])' = Contents(statements[Len(statements)])
    BY <1>1 DEF Contents, Buffered
  <2>6. {i \in PiecesOf(Len(text), Elements) : ~InOption(i, Len(text))}'
          = {i \in PiecesOf(Len(text), Elements) : ~InOption(i, Len(text))}
    BY <2>3, <2>4
  <2> QED BY <1>1, <2>1, <2>4, <2>5, <2>6 DEF StatementsHoldTheirPieces
<1> QED BY <1>1, <1>2 DEF PiecesInv, Pieces, Listed

(* Each statement has what was written in its own block or command, all of it and nothing
   that was left over from another one, whatever the file says that the grammar accepts:
   each handler of ParsingDriver that adds a statement clears the buffers that it took. *)
THEOREM StatementsHoldTheirPiecesAlways == Spec => []StatementsHoldTheirPieces
<1>. DEFINE Inv == PiecesInv /\ file \in DOMAIN Files
<1>1. Init => Inv
  BY InitPieces
<1>2. Inv /\ [Next]_vars => Inv'
  <2>. SUFFICES ASSUME Inv, [Next]_vars PROVE Inv'
    OBVIOUS
  <2>1. CASE Parse
    BY <2>1, ParseHolds, ParsePhase
  <2>2. CASE EndOfFile \/ CheckStatements \/ CheckFile \/ TransformFile \/ ComputeFile \/ WriteStatement
    <3>1. file' = file /\ phase' # "parsing"
      BY <2>2 DEF EndOfFile, CheckStatements, CheckFile, TransformFile, ComputeFile, WriteStatement, parsed
    <3> QED BY <3>1 DEF PiecesInv
  <2>3. CASE UNCHANGED vars
    BY <2>3, PiecesUnchanged DEF vars, parsed
  <2> QED BY <2>1, <2>2, <2>3 DEF Next
<1>3. Inv => StatementsHoldTheirPieces
  BY DEF PiecesInv, StatementsHoldTheirPieces
<1> QED BY <1>1, <1>2, <1>3, PTL DEF Spec

-------------------------------------------------------------------------------
(***************************************************************************)
(* The variances and covariances of a text                                 *)
(***************************************************************************)

CalOps == {"var_shock", "covar_shock"}

(* Piece i of a text ends with piece j. *)
ClosedBy(tx, i, j) == j \in i..Len(tx) /\ tx[j].in = {} /\ \A k \in i..(j - 1) : tx[k].in # {}

(* The pieces that calibrate something, those that are still open, the ends of the blocks
   of shocks, and the pieces of such a block. *)
Cal(tx) == {i \in 1..Len(tx) : tx[i].op \in CalOps}
OpenCal(tx) == Cal(tx) \cap CurrentIn(tx)
BlockEnds(tx) == {j \in 1..Len(tx) : tx[j].op = "end_shocks" /\ tx[j].kind = "shocks"}
Block(tx, j) == {i \in Cal(tx) : ClosedBy(tx, i, j)}

(* A text in which no symbol changes its type, and a covariance is of two names. *)
ProperText(tx) == \A i \in 1..Len(tx) : /\ tx[i].op # "change_type"
                                        /\ tx[i].op = "covar_shock" => tx[i].name # tx[i].name2

(* What a symbol table knows of the names of a piece. *)
Id(tb, n) == CHOOSE i \in DOMAIN tb : tb[i][1] = n
Named(tb, n, type) == \E i \in DOMAIN tb : tb[i][1] = n /\ tb[i][2] = type
KeyOf(tb, t) == IF t.op = "var_shock" THEN Id(tb, t.name) ELSE <<Id(tb, t.name), Id(tb, t.name2)>>
PairTyped(tb, ob, t) == \/ \A n \in Pair(t) : Named(tb, n, "exo")
                        \/ \A n \in Pair(t) : Named(tb, n, "endo") /\ n \in Range(ob)
VarFields == {"var_shocks", "std_shocks"}
CovFields == {"covar_shocks", "corr_shocks"}
Fields == VarFields \cup CovFields
InField(t) == t.into \in IF t.op = "var_shock" THEN VarFields ELSE CovFields
IsTable(tb) == /\ IsList(tb)
              /\ \A i, j \in DOMAIN tb : tb[i][1] = tb[j][1] => i = j
Grown(tb, tc) == IsTable(tc) /\ \A i \in DOMAIN tb : i \in DOMAIN tc /\ tc[i] = tb[i]

(* The four buffers hold what the pieces I of a text say, each pair of names once. *)
Says(tb, tx, I, b) ==
    /\ \A f \in Fields : \A x : x \in DOMAIN b[f] <=> \E i \in I : tx[i].into = f /\ x = KeyOf(tb, tx[i])
    /\ \A i \in I : b[tx[i].into][KeyOf(tb, tx[i])] = tx[i].value
    /\ \A i, k \in I : Pair(tx[i]) = Pair(tx[k]) => i = k

(* The statements made of the blocks of shocks, in their order; Sigma_e is only written for
   a piece of the text. *)
Laid(tb, tx, sts, at) ==
    /\ at \in [BlockEnds(tx) -> 1..Len(sts)]
    /\ \A j, k \in BlockEnds(tx) : j < k => at[j] < at[k]
    /\ \A m \in 1..Len(sts) : sts[m].kind = "shocks" => \E j \in BlockEnds(tx) : at[j] = m
    /\ \A j \in BlockEnds(tx) : sts[at[j]].kind = "shocks" /\ Says(tb, tx, Block(tx, j), sts[at[j]].of)
    /\ \A m \in 1..Len(sts) : sts[m].kind = "Sigma_e" => \E j \in 1..Len(tx) : tx[j].kind = "Sigma_e"

(* What is true of a text that has been read, and of the buffers while it is. *)
AllTyped(tb, ob, tx) == /\ \A n \in Range(ob) : Named(tb, n, "endo")
                        /\ \A i \in Cal(tx) : PairTyped(tb, ob, tx[i]) /\ InField(tx[i])
AllClosed(tx) == \A i \in Cal(tx) : i \in CurrentIn(tx) \/ \E j \in BlockEnds(tx) : ClosedBy(tx, i, j)
Reading(tb, ob, tx, sts) ==
    /\ IsTable(tb) /\ AllTyped(tb, ob, tx) /\ AllClosed(tx) /\ IsList(sts)
    /\ \E at : Laid(tb, tx, sts, at)
Buffering(tb, tx, b, o) == Says(tb, tx, OpenCal(tx), b) /\ (OpenCal(tx) # {} => o = {"shocks"})

\* A piece ends with one piece.
LEMMA ClosedOnce ==
    ASSUME NEW P, NEW tx \in Seq(P), NEW i \in 1..Len(tx), NEW j, ClosedBy(tx, i, j), NEW k, ClosedBy(tx, i, k)
    PROVE  j = k
<1>1. Len(tx) \in Nat /\ j \in i..Len(tx) /\ k \in i..Len(tx)
  BY DEF ClosedBy
<1>2. ~(j < k) /\ ~(k < j)
  BY <1>1 DEF ClosedBy
<1> QED BY <1>1, <1>2

\* And so says the property.
LEMMA CloserOf ==
    ASSUME NEW i, i \in 1..Len(text), NEW P, text \in Seq(P), NEW j, ClosedBy(text, i, j)
    PROVE  Closer(i) = j
<1>1. PICK c : c = Closer(i)
  OBVIOUS
<1>2. \E k \in i..Len(text) : text[k].in = {} /\ \A m \in i..(k - 1) : text[m].in # {}
  BY DEF ClosedBy
<1>3. c \in i..Len(text) /\ text[c].in = {} /\ \A m \in i..(c - 1) : text[m].in # {}
  BY <1>1, <1>2 DEF Closer
<1>4. ClosedBy(text, i, c)
  BY <1>3 DEF ClosedBy
<1> QED BY <1>1, <1>4, ClosedOnce

\* A table that grows keeps what it knows of a name.
LEMMA GrownKnows ==
    ASSUME NEW tb, NEW tc, Grown(tb, tc)
    PROVE  /\ \A n, type : Named(tb, n, type) => Named(tc, n, type)
           /\ \A n, type : Named(tb, n, type) => Id(tc, n) = Id(tb, n)
<1>1. ASSUME NEW n, NEW type, Named(tb, n, type) PROVE Named(tc, n, type) /\ Id(tc, n) = Id(tb, n)
  <2>1. PICK i \in DOMAIN tb : tb[i][1] = n /\ tb[i][2] = type
    BY <1>1 DEF Named
  <2>2. i \in DOMAIN tc /\ tc[i] = tb[i]
    BY DEF Grown
  <2>3. Id(tb, n) \in DOMAIN tb /\ tb[Id(tb, n)][1] = n
    BY <2>1 DEF Id
  <2>4. Id(tb, n) \in DOMAIN tc /\ tc[Id(tb, n)][1] = n
    BY <2>3 DEF Grown
  <2>5. Id(tc, n) \in DOMAIN tc /\ tc[Id(tc, n)][1] = n
    BY <2>4 DEF Id
  <2> QED BY <2>1, <2>2, <2>4, <2>5 DEF Grown, IsTable, Named
<1> QED BY <1>1

\* The place of a name in a table.
LEMMA IdOfName ==
    ASSUME NEW tb, IsTable(tb), NEW i \in DOMAIN tb PROVE Id(tb, tb[i][1]) = i
<1>1. Id(tb, tb[i][1]) \in DOMAIN tb /\ tb[Id(tb, tb[i][1])][1] = tb[i][1]
  BY DEF Id
<1> QED BY <1>1 DEF IsTable

\* The keys of pieces whose names are known.
LEMMA GrownKeys ==
    ASSUME NEW tb, NEW tc, Grown(tb, tc), NEW ob, NEW t, t.op \in CalOps, PairTyped(tb, ob, t)
    PROVE  KeyOf(tc, t) = KeyOf(tb, t) /\ PairTyped(tc, ob, t)
<1>1. \A n \in Pair(t) : Id(tc, n) = Id(tb, n)
  BY GrownKnows DEF PairTyped
<1>2. PairTyped(tc, ob, t)
  BY GrownKnows DEF PairTyped
<1>3. t.name \in Pair(t) /\ (t.op = "covar_shock" => t.name2 \in Pair(t))
  BY DEF Pair
<1> QED BY <1>1, <1>2, <1>3 DEF KeyOf, CalOps

(* A text goes on with a piece, the n-th. *)
GoesOn(P, tx, t, ty, n) == tx \in Seq(P) /\ t \in P /\ ty = Append(tx, t) /\ n = Len(tx) + 1

\* The ends and the blocks of a text that goes on.
LEMMA TextGoesOn ==
    ASSUME NEW P, NEW tx, NEW t, NEW ty, NEW n, GoesOn(P, tx, t, ty, n)
    PROVE  /\ \A i \in 1..Len(tx) : \A j \in 1..Len(tx) : ClosedBy(ty, i, j) <=> ClosedBy(tx, i, j)
           /\ \A i \in 1..Len(tx) : ClosedBy(ty, i, n) <=> t.in = {} /\ i \in CurrentIn(tx)
           /\ \A i : i \in Cal(ty) <=> i \in Cal(tx) \/ (i = n /\ t.op \in CalOps)
           /\ \A i : i \in BlockEnds(ty) <=> i \in BlockEnds(tx) \/ (i = n /\ t.op = "end_shocks" /\ t.kind = "shocks")
<1>1. /\ ty \in Seq(P) /\ Len(tx) \in Nat /\ Len(ty) = n /\ ty[n] = t
      /\ DOMAIN tx = 1..Len(tx) /\ 1..Len(ty) = 1..Len(tx) \cup {n} /\ n \notin 1..Len(tx)
      /\ \A i \in 1..Len(tx) : ty[i] = tx[i]
  BY TextOn DEF GoesOn
<1>2. ASSUME NEW i \in 1..Len(tx), NEW j \in 1..Len(tx) PROVE ClosedBy(ty, i, j) <=> ClosedBy(tx, i, j)
  <2>1. j \in i..Len(ty) <=> j \in i..Len(tx)
    BY <1>1
  <2>2. \A k \in i..(j - 1) : k \in 1..Len(tx)
    OBVIOUS
  <2> QED BY <1>1, <2>1, <2>2 DEF ClosedBy
<1>3. ASSUME NEW i \in 1..Len(tx) PROVE ClosedBy(ty, i, n) <=> t.in = {} /\ i \in CurrentIn(tx)
  <2>1. n \in i..Len(ty) /\ i..(n - 1) = i..Len(tx)
    BY <1>1
  <2>2. \A k \in i..Len(tx) : ty[k] = tx[k]
    BY <1>1
  <2> QED BY <1>1, <2>1, <2>2 DEF ClosedBy, CurrentIn
<1>4. \A i : i \in Cal(ty) <=> i \in Cal(tx) \/ (i = n /\ t.op \in CalOps)
  BY <1>1 DEF Cal
<1>5. \A i : i \in BlockEnds(ty) <=> i \in BlockEnds(tx) \/ (i = n /\ t.op = "end_shocks" /\ t.kind = "shocks")
  BY <1>1 DEF BlockEnds
<1> QED BY <1>2, <1>3, <1>4, <1>5

\* The pieces that calibrate and are still open.
LEMMA OpenCalOn ==
    ASSUME NEW P, NEW tx, NEW t, NEW ty, NEW n, GoesOn(P, tx, t, ty, n)
    PROVE  /\ t.in # {} => \A i : i \in OpenCal(ty) <=> i \in OpenCal(tx) \/ (i = n /\ t.op \in CalOps)
           /\ t.in = {} => OpenCal(ty) = {}
           /\ OpenCal(tx) \subseteq 1..Len(tx)
<1>1. \A i : i \in Cal(ty) <=> i \in Cal(tx) \/ (i = n /\ t.op \in CalOps)
  BY TextGoesOn
<1>2. t.in # {} => CurrentIn(ty) = CurrentIn(tx) \cup {n}
  BY CurrentOn DEF GoesOn
<1>3. /\ Len(tx) \in Nat /\ Len(ty) = n /\ ty[n] = t /\ DOMAIN ty = 1..n /\ DOMAIN tx = 1..Len(tx)
  BY TextOn DEF GoesOn
<1>4. t.in = {} => CurrentIn(ty) = {}
  BY <1>3 DEF CurrentIn
<1>5. CurrentIn(tx) \subseteq 1..Len(tx) /\ Cal(tx) \subseteq 1..Len(tx)
  BY <1>3 DEF CurrentIn, Cal
<1>6. n \notin 1..Len(tx)
  BY <1>3 DEF GoesOn
<1> QED BY <1>1, <1>2, <1>4, <1>5, <1>6 DEF OpenCal

\* A block that is closed stays what it is.
LEMMA BlockStays ==
    ASSUME NEW P, NEW tx, NEW t, NEW ty, NEW n, GoesOn(P, tx, t, ty, n), NEW j \in BlockEnds(tx)
    PROVE  Block(ty, j) = Block(tx, j)
<1>2. /\ \A i \in 1..Len(tx) : ClosedBy(ty, i, j) <=> ClosedBy(tx, i, j)
      /\ \A i : i \in Cal(ty) <=> i \in Cal(tx) \/ (i = n /\ t.op \in CalOps)
  <2>1. j \in 1..Len(tx)
    BY DEF BlockEnds
  <2> QED BY <2>1, TextGoesOn
<1>3. Cal(tx) \subseteq 1..Len(tx) /\ j \in 1..Len(tx) /\ Len(tx) \in Nat
  BY DEF Cal, BlockEnds, GoesOn
<1>4. ~ClosedBy(ty, n, j)
  BY <1>3 DEF ClosedBy, GoesOn
<1> QED BY <1>2, <1>3, <1>4 DEF Block

\* What pieces say does not change when the text goes on and the table of symbols grows.
LEMMA SaysOn ==
    ASSUME NEW P, NEW tx, NEW t, NEW ty, NEW n, GoesOn(P, tx, t, ty, n), NEW tb, NEW tc, Grown(tb, tc),
           NEW ob, AllTyped(tb, ob, tx), NEW I, I \subseteq Cal(tx),
           NEW b, Says(tb, tx, I, b), NEW c, \A f \in Fields : c[f] = b[f]
    PROVE  Says(tc, ty, I, c)
<1>1. \A i \in I : i \in 1..Len(tx) /\ ty[i] = tx[i] /\ tx[i].op \in CalOps /\ tx[i].into \in Fields
  BY TextOn DEF GoesOn, Cal, InField, Fields, AllTyped
<1>2. \A i \in I : KeyOf(tc, ty[i]) = KeyOf(tb, tx[i])
  BY <1>1, GrownKeys DEF AllTyped
<1>3. \A f \in Fields : \A x : x \in DOMAIN c[f] <=> \E i \in I : ty[i].into = f /\ x = KeyOf(tc, ty[i])
  <2>1. \A f \in Fields : \A x : x \in DOMAIN b[f] <=> \E i \in I : tx[i].into = f /\ x = KeyOf(tb, tx[i])
    BY DEF Says
  <2> QED BY <1>1, <1>2, <2>1
<1>4. \A i \in I : c[ty[i].into][KeyOf(tc, ty[i])] = ty[i].value
  BY <1>1, <1>2 DEF Says
<1>5. \A i, k \in I : Pair(ty[i]) = Pair(ty[k]) => i = k
  BY <1>1 DEF Says
<1> QED BY <1>3, <1>4, <1>5 DEF Says

(* The statements of a text that goes on with t: a block of shocks adds one of its own, what
   the other pieces add is of other kinds. *)
EndsShocks(t) == t.op = "end_shocks" /\ t.kind = "shocks"
Longer(sts, st) == /\ IsList(st) /\ Len(sts) =< Len(st) /\ \A m \in 1..Len(sts) : st[m] = sts[m]
NoShocks(sts, st, t) == \A m \in (Len(sts) + 1)..Len(st) :
                          st[m].kind # "shocks" /\ (st[m].kind = "Sigma_e" => t.kind = "Sigma_e")
OneShocks(tb, tx, sts, st) == /\ Len(st) = Len(sts) + 1 /\ st[Len(st)].kind = "shocks"
                              /\ Says(tb, tx, Block(tx, Len(tx)), st[Len(st)].of)

(* The list of observed variables is the same, or is given for the first time. *)
Observing(tb, ob, oc) == oc = ob \/ (ob = << >> /\ \A n \in Range(oc) : Named(tb, n, "endo"))

\* What is known of the names of a piece stays known.
LEMMA TypedOn ==
    ASSUME NEW tb, NEW tc, Grown(tb, tc), NEW ob, NEW oc, Observing(tc, ob, oc), NEW t, PairTyped(tb, ob, t)
    PROVE  PairTyped(tc, oc, t)
<1>1. \A n, type : Named(tb, n, type) => Named(tc, n, type)
  BY GrownKnows
<1>2. t.name \in Pair(t)
  BY DEF Pair
<1>3. ob = << >> => Range(ob) = {}
  BY DEF Range
<1> QED BY <1>1, <1>2, <1>3 DEF PairTyped, Observing

\* The names of a text that goes on.
LEMMA TypesOn ==
    ASSUME NEW P, NEW tx, NEW t, NEW ty, NEW n, GoesOn(P, tx, t, ty, n), NEW tb, NEW tc, Grown(tb, tc),
           NEW ob, NEW oc, Observing(tc, ob, oc), AllTyped(tb, ob, tx),
           t.op \in CalOps => PairTyped(tc, oc, t) /\ InField(t)
    PROVE  AllTyped(tc, oc, ty)
<1>1. \A i \in Cal(tx) : ty[i] = tx[i]
  BY TextOn DEF GoesOn, Cal
<1>2. ty[n] = t
  BY TextOn DEF GoesOn
<1>3. \A i : i \in Cal(ty) <=> i \in Cal(tx) \/ (i = n /\ t.op \in CalOps)
  BY TextGoesOn
<1>4. \A i \in Cal(tx) : PairTyped(tc, oc, tx[i]) /\ InField(tx[i])
  BY TypedOn DEF AllTyped
<1>5. \A m \in Range(oc) : Named(tc, m, "endo")
  BY GrownKnows DEF AllTyped, Observing
<1> QED BY <1>1, <1>2, <1>3, <1>4, <1>5 DEF AllTyped

\* Its pieces are open or closed by an end of shocks.
LEMMA ClosingOn ==
    ASSUME NEW P, NEW tx, NEW t, NEW ty, NEW n, GoesOn(P, tx, t, ty, n), AllClosed(tx),
           t.op \in CalOps => t.in # {}, t.in = {} => OpenCal(tx) = {} \/ EndsShocks(t)
    PROVE  AllClosed(ty)
<1>1. \A i : i \in Cal(ty) <=> i \in Cal(tx) \/ (i = n /\ t.op \in CalOps)
  BY TextGoesOn
<1>2. \A i : i \in BlockEnds(ty) <=> i \in BlockEnds(tx) \/ (i = n /\ EndsShocks(t))
  BY TextGoesOn DEF EndsShocks
<1>3. /\ \A i \in 1..Len(tx) : \A j \in 1..Len(tx) : ClosedBy(ty, i, j) <=> ClosedBy(tx, i, j)
      /\ \A i \in 1..Len(tx) : ClosedBy(ty, i, n) <=> t.in = {} /\ i \in CurrentIn(tx)
  BY TextGoesOn
<1>4. t.in # {} => CurrentIn(ty) = CurrentIn(tx) \cup {n}
  BY CurrentOn DEF GoesOn
<1>5. Cal(tx) \subseteq 1..Len(tx) /\ BlockEnds(tx) \subseteq 1..Len(tx)
  BY DEF Cal, BlockEnds
<1>6. ASSUME NEW i \in Cal(ty) PROVE i \in CurrentIn(ty) \/ \E j \in BlockEnds(ty) : ClosedBy(ty, i, j)
  <2>1. CASE i = n /\ t.op \in CalOps
    BY <1>4, <2>1
  <2>2. CASE i \in Cal(tx) /\ \E j \in BlockEnds(tx) : ClosedBy(tx, i, j)
    BY <1>2, <1>3, <1>5, <2>2
  <2>3. CASE i \in Cal(tx) /\ i \in CurrentIn(tx)
    BY <1>2, <1>3, <1>4, <1>5, <2>3 DEF OpenCal
  <2> QED BY <1>1, <1>6, <2>1, <2>2, <2>3 DEF AllClosed
<1> QED BY <1>6 DEF AllClosed

\* The statements of the blocks of shocks.
LEMMA LayingOn ==
    ASSUME NEW P, NEW tx, NEW t, NEW ty, NEW n, GoesOn(P, tx, t, ty, n), NEW tb, NEW tc, Grown(tb, tc),
           NEW ob, AllTyped(tb, ob, tx), NEW sts, NEW st, Longer(sts, st), NEW at, Laid(tb, tx, sts, at),
           IF EndsShocks(t) THEN OneShocks(tc, ty, sts, st) ELSE NoShocks(sts, st, t), Len(sts) \in Nat
    PROVE  \E bt : Laid(tc, ty, st, bt)
<1>1. \A i : i \in BlockEnds(ty) <=> i \in BlockEnds(tx) \/ (i = n /\ EndsShocks(t))
  BY TextGoesOn DEF EndsShocks
<1>2. /\ Len(tx) \in Nat /\ Len(ty) = n /\ ty[n] = t /\ 1..n = 1..Len(tx) \cup {n} /\ n \notin 1..Len(tx)
      /\ \A i \in 1..Len(tx) : ty[i] = tx[i]
  BY TextOn DEF GoesOn
<1>3. BlockEnds(tx) \subseteq 1..Len(tx) /\ \A j \in BlockEnds(tx) : j < n /\ j # n
  BY <1>2 DEF BlockEnds, GoesOn
<1>4. /\ IsList(st) /\ Len(sts) =< Len(st) /\ Len(st) \in Nat
      /\ \A m \in 1..Len(sts) : m \in 1..Len(st) /\ st[m] = sts[m]
  BY DEF Longer, IsList
<1>5. PICK bt : bt = [j \in BlockEnds(ty) |-> IF j = n THEN Len(st) ELSE at[j]]
  OBVIOUS
<1>6. /\ \A j \in BlockEnds(tx) : j \in BlockEnds(ty) /\ bt[j] = at[j] /\ bt[j] \in 1..Len(sts)
      /\ n \in BlockEnds(ty) => EndsShocks(t) /\ bt[n] = Len(st) /\ Len(st) = Len(sts) + 1
  BY <1>1, <1>3, <1>5 DEF Laid, OneShocks
<1>7. bt \in [BlockEnds(ty) -> 1..Len(st)]
  <2>1. \A j \in BlockEnds(ty) : bt[j] \in 1..Len(st)
    BY <1>1, <1>4, <1>6
  <2> QED BY <1>5, <2>1
<1>8. ASSUME NEW j \in BlockEnds(ty), NEW k \in BlockEnds(ty), j < k PROVE bt[j] < bt[k]
  <2>1. j \in BlockEnds(tx)
    BY <1>1, <1>2, <1>3, <1>8
  <2>2. CASE k \in BlockEnds(tx)
    BY <1>6, <1>8, <2>1, <2>2 DEF Laid
  <2>3. CASE k = n
    BY <1>6, <2>1, <2>3
  <2> QED BY <1>1, <2>2, <2>3
<1>9. ASSUME NEW m \in 1..Len(st), st[m].kind = "shocks" PROVE \E j \in BlockEnds(ty) : bt[j] = m
  <2>1. CASE m \in 1..Len(sts)
    BY <1>4, <1>6, <1>9, <2>1 DEF Laid
  <2>2. CASE m \in (Len(sts) + 1)..Len(st)
    <3>1. EndsShocks(t)
      BY <1>9, <2>2 DEF NoShocks
    <3>2. m = Len(st)
      BY <2>2, <3>1, <1>4 DEF OneShocks
    <3> QED BY <1>1, <1>6, <3>1, <3>2
  <2> QED BY <2>1, <2>2
<1>10. ASSUME NEW j \in BlockEnds(ty) PROVE st[bt[j]].kind = "shocks" /\ Says(tc, ty, Block(ty, j), st[bt[j]].of)
  <2>1. CASE j \in BlockEnds(tx)
    <3>1. st[bt[j]] = sts[at[j]] /\ st[bt[j]].kind = "shocks" /\ Says(tb, tx, Block(tx, j), st[bt[j]].of)
      BY <1>4, <1>6, <2>1 DEF Laid
    <3>2. Block(ty, j) = Block(tx, j)
      BY <2>1, BlockStays
    <3>3. PICK I : I = Block(tx, j)
      OBVIOUS
    <3>4. I \subseteq Cal(tx)
      BY <3>3 DEF Block
    <3>5. PICK b : b = st[bt[j]].of
      OBVIOUS
    <3>6. Says(tc, ty, I, b)
      BY <3>1, <3>3, <3>4, <3>5, SaysOn
    <3> QED BY <3>1, <3>2, <3>3, <3>5, <3>6
  <2>2. CASE j = n
    BY <1>2, <1>6, <2>2 DEF OneShocks
  <2> QED BY <1>1, <2>1, <2>2
<1>11. ASSUME NEW m \in 1..Len(st), st[m].kind = "Sigma_e" PROVE \E j \in 1..Len(ty) : ty[j].kind = "Sigma_e"
  <2>1. CASE m \in 1..Len(sts)
    <3>1. PICK j \in 1..Len(tx) : tx[j].kind = "Sigma_e"
      BY <1>4, <1>11, <2>1 DEF Laid
    <3> QED BY <1>2, <3>1
  <2>2. CASE m \in (Len(sts) + 1)..Len(st)
    <3>1. ~EndsShocks(t)
      BY <1>4, <1>11, <2>2 DEF OneShocks
    <3>2. t.kind = "Sigma_e"
      BY <1>11, <2>2, <3>1 DEF NoShocks
    <3> QED BY <1>2, <3>2
  <2> QED BY <2>1, <2>2
<1>12. Laid(tc, ty, st, bt)
  BY <1>7, <1>8, <1>9, <1>10, <1>11 DEF Laid
<1> QED BY <1>12

\* The buffers when a piece that calibrates nothing is read.
LEMMA BuffersOn ==
    ASSUME NEW P, NEW tx, NEW t, NEW ty, NEW n, GoesOn(P, tx, t, ty, n), NEW tb, NEW tc, Grown(tb, tc),
           NEW ob, AllTyped(tb, ob, tx), NEW b, NEW o, Buffering(tb, tx, b, o), t.op \notin CalOps,
           NEW c, \A f \in Fields : c[f] = b[f], t.in = {} => OpenCal(tx) = {},
           NEW p, t.in # {} => p # {} /\ (o # {} => p \subseteq o)
    PROVE  Buffering(tc, ty, c, p)
<1>1. /\ t.in # {} => \A i : i \in OpenCal(ty) <=> i \in OpenCal(tx) \/ (i = n /\ t.op \in CalOps)
      /\ t.in = {} => OpenCal(ty) = {}
  BY OpenCalOn
<1>2. OpenCal(ty) = OpenCal(tx)
  <2>1. \A i : i \in OpenCal(ty) <=> i \in OpenCal(tx)
    BY <1>1
  <2> QED BY <2>1
<1>3. PICK I : I = OpenCal(tx)
  OBVIOUS
<1>4. I \subseteq Cal(tx) /\ Says(tb, tx, I, b)
  BY <1>3 DEF OpenCal, Buffering
<1>5. Says(tc, ty, I, c)
  BY <1>4, SaysOn
<1>6. OpenCal(tx) # {} => p = {"shocks"}
  BY DEF Buffering
<1> QED BY <1>2, <1>3, <1>5, <1>6 DEF Buffering

\* The buffers after the end of a statement, when they are empty.
LEMMA BuffersEmptied ==
    ASSUME NEW P, NEW tx, NEW t, NEW ty, NEW n, GoesOn(P, tx, t, ty, n), t.in = {},
           NEW tc, NEW c, \A f \in Fields : DOMAIN c[f] = {}, NEW p
    PROVE  Buffering(tc, ty, c, p)
<1>1. OpenCal(ty) = {}
  BY OpenCalOn
<1> QED BY <1>1 DEF Buffering, Says

\* One more piece that is kept.
LEMMA BuffersFilled ==
    ASSUME NEW P, NEW tx, NEW t, NEW ty, NEW n, GoesOn(P, tx, t, ty, n), NEW tb, Grown(tb, tb),
           NEW ob, AllTyped(tb, ob, tx), NEW b, NEW o, Buffering(tb, tx, b, o), t.op \in CalOps, InField(t),
           NEW c, \A f \in Fields : c[f] = IF f = t.into THEN With(b[f], KeyOf(tb, t), t.value) ELSE b[f],
           KeyOf(tb, t) \notin DOMAIN b[t.into], \A i \in OpenCal(tx) : Pair(tx[i]) # Pair(t),
           NEW p, t.in # {}, p = {"shocks"}
    PROVE  Buffering(tb, ty, c, p)
<1>1. PICK I : I = OpenCal(tx)
  OBVIOUS
<1>2. PICK J : J = OpenCal(ty)
  OBVIOUS
<1>3. \A i : i \in J <=> i \in I \/ i = n
  BY <1>1, <1>2, OpenCalOn
<1>4. I \subseteq Cal(tx) /\ Says(tb, tx, I, b) /\ I \subseteq 1..Len(tx)
  BY <1>1, OpenCalOn DEF OpenCal, Buffering
<1>5. Says(tb, ty, I, b)
  BY <1>4, SaysOn
<1>6. ty[n] = t /\ n \notin I /\ \A i \in I : ty[i] = tx[i]
  BY <1>4, TextOn DEF GoesOn
<1>7. t.into \in Fields /\ \A i \in I : ty[i].into \in Fields
  BY <1>4, <1>6 DEF AllTyped, InField, Fields
<1>8. ASSUME NEW f \in Fields, NEW x PROVE x \in DOMAIN c[f] <=> \E i \in J : ty[i].into = f /\ x = KeyOf(tb, ty[i])
  <2>1. x \in DOMAIN b[f] <=> \E i \in I : ty[i].into = f /\ x = KeyOf(tb, ty[i])
    BY <1>5 DEF Says
  <2>2. x \in DOMAIN c[f] <=> x \in DOMAIN b[f] \/ (f = t.into /\ x = KeyOf(tb, t))
    BY DEF With, @@, :>
  <2> QED BY <1>3, <1>6, <2>1, <2>2
<1>9. ASSUME NEW i \in J PROVE c[ty[i].into][KeyOf(tb, ty[i])] = ty[i].value
  <2>1. CASE i = n
    BY <1>6, <1>7, <2>1 DEF With, @@, :>
  <2>2. CASE i \in I
    <3>1. KeyOf(tb, ty[i]) \in DOMAIN b[ty[i].into] /\ b[ty[i].into][KeyOf(tb, ty[i])] = ty[i].value
      BY <1>5, <1>7, <2>2 DEF Says
    <3>2. ty[i].into = t.into => KeyOf(tb, ty[i]) # KeyOf(tb, t)
      BY <3>1
    <3> QED BY <1>7, <2>2, <3>1, <3>2 DEF With, @@, :>
  <2> QED BY <1>3, <2>1, <2>2
<1>10. ASSUME NEW i \in J, NEW k \in J, Pair(ty[i]) = Pair(ty[k]) PROVE i = k
  <2>1. \A m \in I : Pair(ty[m]) # Pair(t)
    BY <1>1, <1>6
  <2>2. i \in I /\ k \in I => i = k
    BY <1>5, <1>10 DEF Says
  <2> QED BY <1>3, <1>6, <1>10, <2>1, <2>2
<1>11. Says(tb, ty, J, c)
  BY <1>8, <1>9, <1>10 DEF Says
<1> QED BY <1>2, <1>11 DEF Buffering

-------------------------------------------------------------------------------
(*****************************************************************************)
(* The covariances, while the text is read                                   *)
(*****************************************************************************)

(* While a text is read in which no symbol changes its type. *)
CovRead == /\ "varobs" \in DOMAIN mod_file
           /\ ProperText(text) => /\ Reading(symbols, mod_file.varobs, text, statements)
                                  /\ Buffering(symbols, text, scratch, open)

(* A piece that neither calibrates anything nor ends a block of shocks. *)
QuietStep(t) ==
    /\ Reads(t, t.op) /\ t.op \notin CalOps /\ (t.in = {} => t.kind # "shocks")
    /\ DOMAIN mod_file' = DOMAIN mod_file
    /\ t.op # "change_type" /\ IsTable(symbols) /\ "varobs" \in DOMAIN mod_file =>
         Grown(symbols, symbols') /\ Observing(symbols', mod_file.varobs, mod_file'.varobs)
    /\ \A f \in Fields : scratch'[f] = scratch[f]
    /\ Longer(statements, statements') /\ NoShocks(statements, statements', t)

\* What was true of a text that has gone on was true of it.
LEMMA ProperBefore ==
    ASSUME NEW P, NEW tx, NEW t, NEW ty, NEW n, GoesOn(P, tx, t, ty, n), ProperText(ty)
    PROVE  ProperText(tx) /\ t.op # "change_type" /\ (t.op = "covar_shock" => t.name # t.name2)
BY TextOn DEF GoesOn, ProperText

\* A piece is read.
LEMMA ReadOn ==
    ASSUME PiecesInv, file \in DOMAIN Files, NEW t \in Pieces, NEW op, Reads(t, op)
    PROVE  /\ GoesOn(Pieces, text, t, text', Len(text) + 1) /\ t.op = op
           /\ t.in # {} => open' # {} /\ (open # {} => open' \subseteq open)
           /\ t.in = {} => t.kind \in open \/ open = {}
           /\ Fields \subseteq DOMAIN scratch /\ "det_shocks" \in DOMAIN scratch
<1>1. text \in Seq(Pieces) /\ BuffersOK(scratch)
  BY DEF PiecesInv, Reads
<1>2. t.in # {} => open' # {} /\ (open # {} => open' \subseteq open)
  BY OpenOn
<1>3. Fields \subseteq DOMAIN Empty /\ "det_shocks" \in DOMAIN Empty
  BY DEF Fields, VarFields, CovFields, Empty
<1> QED BY <1>1, <1>2, <1>3 DEF GoesOn, Reads, Follows, BuffersOK

\* Such a piece leaves the rest as it was.
LEMMA QuietKeeps ==
    ASSUME PiecesInv, file \in DOMAIN Files, CovRead, NEW t \in Pieces, QuietStep(t) PROVE CovRead'
<1>1. "varobs" \in DOMAIN mod_file'
  BY DEF CovRead, QuietStep
<1>2. ASSUME ProperText(text')
      PROVE  Reading(symbols', mod_file'.varobs, text', statements') /\ Buffering(symbols', text', scratch', open')
  <2>1. PICK n : n = Len(text) + 1
    OBVIOUS
  <2>2. /\ GoesOn(Pieces, text, t, text', n)
        /\ t.in # {} => open' # {} /\ (open # {} => open' \subseteq open)
        /\ t.in = {} => t.kind \in open \/ open = {}
    BY <2>1, ReadOn DEF QuietStep
  <2>3. ProperText(text) /\ t.op # "change_type"
    BY <1>2, <2>2, ProperBefore
  <2>4. Reading(symbols, mod_file.varobs, text, statements) /\ Buffering(symbols, text, scratch, open)
    BY <2>3 DEF CovRead
  <2>5. Grown(symbols, symbols') /\ Observing(symbols', mod_file.varobs, mod_file'.varobs)
    BY <2>3, <2>4 DEF QuietStep, Reading, CovRead
  <2>6. t.in = {} => OpenCal(text) = {}
    BY <2>2, <2>4 DEF QuietStep, Buffering
  <2>7. t.op \notin CalOps /\ ~EndsShocks(t)
    <3>1. t.op = "end_shocks" => t.in = {}
      BY FilesAssumption DEF Pieces, Closings
    <3> QED BY <3>1 DEF QuietStep, EndsShocks
  <2>8. AllTyped(symbols', mod_file'.varobs, text')
    BY <2>2, <2>4, <2>5, <2>7, TypesOn DEF Reading
  <2>9. AllClosed(text')
    BY <2>2, <2>4, <2>6, <2>7, ClosingOn DEF Reading
  <2>10. \E at : Laid(symbols', text', statements', at)
    <3>1. PICK at : Laid(symbols, text, statements, at)
      BY <2>4 DEF Reading
    <3>2. Len(statements) \in Nat
      BY <2>4 DEF Reading, IsList
    <3>3. PICK ob : ob = mod_file.varobs /\ AllTyped(symbols, ob, text)
      BY <2>4 DEF Reading
    <3> QED BY <2>2, <2>5, <2>7, <3>1, <3>2, <3>3, LayingOn DEF QuietStep
  <2>11. Buffering(symbols', text', scratch', open')
    <3>1. PICK ob : ob = mod_file.varobs /\ AllTyped(symbols, ob, text)
      BY <2>4 DEF Reading
    <3> QED BY <2>2, <2>4, <2>5, <2>6, <2>7, <3>1, BuffersOn DEF QuietStep
  <2> QED BY <2>5, <2>8, <2>9, <2>10, <2>11 DEF Reading, QuietStep, Longer, Grown
<1> QED BY <1>1, <1>2 DEF CovRead

\* The kinds of what is calibrated.
LEMMA CalibratedTyped ==
    ASSUME NEW n, Calibrated(n), \A m \in Range(mod_file.varobs) : Named(symbols, m, "endo")
    PROVE  Named(symbols, n, "exo") \/ (Named(symbols, n, "endo") /\ n \in Range(mod_file.varobs))
<1>1. Known(n) => IdOf(n) \in DOMAIN symbols /\ symbols[IdOf(n)][1] = n
  BY DEF Known, IdOf
<1> QED BY <1>1 DEF Calibrated, IsA, TypeOf, Observed, Named

LEMMA PairCalibrated ==
    ASSUME NEW n, NEW m, SamePairType(n, m), \A k \in Range(mod_file.varobs) : Named(symbols, k, "endo")
    PROVE  \/ Named(symbols, n, "exo") /\ Named(symbols, m, "exo")
           \/ /\ Named(symbols, n, "endo") /\ n \in Range(mod_file.varobs)
              /\ Named(symbols, m, "endo") /\ m \in Range(mod_file.varobs)
<1>1. \A k : Known(k) => IdOf(k) \in DOMAIN symbols /\ symbols[IdOf(k)][1] = k
  BY DEF Known, IdOf
<1> QED BY <1>1 DEF SamePairType, IsA, TypeOf, Observed, Named

\* A variance or a covariance.
LEMMA CalibrationKeeps ==
    ASSUME PiecesInv, file \in DOMAIN Files, CovRead, NEW t \in Pieces, AddVarShock(t) \/ AddCovarShock(t),
           phase' = "parsing"
    PROVE  CovRead'
<1>1. t.op \in CalOps /\ Reads(t, t.op) /\ t.in # {} /\ InField(t)
  <2>1. t.op \in CalOps /\ Reads(t, t.op)
    BY DEF AddVarShock, AddCovarShock, Reads, CalOps
  <2>2. t.op = "var_shock" => t.in # {} /\ t.into \in {"var_shocks", "std_shocks"}
    BY FilesAssumption DEF Pieces, Elements
  <2>3. t.op = "covar_shock" => t.in # {} /\ t.into \in {"covar_shocks", "corr_shocks"}
    BY FilesAssumption DEF Pieces, Elements
  <2> QED BY <2>1, <2>2, <2>3 DEF CalOps, InField, VarFields, CovFields
<1>2. t.in = {"shocks"}
  <2>1. /\ t.op = "var_shock" => t.in # {} /\ t.into \in {"var_shocks", "std_shocks"} /\ \A k \in t.in : Filled(t) \in Taken(k)
        /\ t.op = "covar_shock" => t.in # {} /\ t.into \in {"covar_shocks", "corr_shocks"} /\ \A k \in t.in : Filled(t) \in Taken(k)
    BY FilesAssumption DEF Pieces, Elements
  <2>2. Filled(t) = t.into
    BY <1>1 DEF Filled, CalOps
  <2>3. \A f \in Fields : \A k : f \in Taken(k) => k = "shocks"
    BY DEF Fields, VarFields, CovFields, Taken, Bvar, Both
  <2>4. t.into \in Fields
    BY <1>1 DEF InField, Fields
  <2>5. \A k \in t.in : k = "shocks"
    BY <1>1, <2>1, <2>2, <2>3, <2>4 DEF CalOps
  <2> QED BY <1>1, <2>5
<1>3. PICK ok, x : Enters(ok, t.into, x, t.value)
  BY DEF AddVarShock, AddCovarShock
<1>4. /\ symbols' = symbols /\ mod_file' = mod_file /\ statements' = statements
      /\ scratch' = [scratch EXCEPT ![t.into] = With(scratch[t.into], x, t.value)]
  BY <1>3 DEF Enters, Keep, Only, Buffers
<1>5. PICK n : n = Len(text) + 1
  OBVIOUS
<1>6. /\ GoesOn(Pieces, text, t, text', n) /\ open' # {} /\ open' \subseteq t.in
      /\ Fields \subseteq DOMAIN scratch
  BY <1>1, <1>5, ReadOn, OpenOn
<1>7. t.into \in Fields
  BY <1>1 DEF InField, Fields
<1>8. ASSUME ProperText(text')
      PROVE  Reading(symbols, mod_file.varobs, text', statements) /\ Buffering(symbols, text', scratch', open')
  <2>1. ProperText(text) /\ (t.op = "covar_shock" => t.name # t.name2)
    BY <1>6, <1>8, ProperBefore
  <2>2. Reading(symbols, mod_file.varobs, text, statements) /\ Buffering(symbols, text, scratch, open)
    BY <2>1 DEF CovRead
  <2>3. Grown(symbols, symbols) /\ Observing(symbols, mod_file.varobs, mod_file.varobs)
    BY <2>2 DEF Reading, Grown, Observing
  <2>4. AllTyped(symbols, mod_file.varobs, text) /\ \A m \in Range(mod_file.varobs) : Named(symbols, m, "endo")
    BY <2>2 DEF Reading, AllTyped
  <2>5. PairTyped(symbols, mod_file.varobs, t)
    <3>1. CASE AddVarShock(t)
      <4>1. Calibrated(t.name) /\ Pair(t) = {t.name}
        BY <3>1 DEF AddVarShock, Reads, Enters, Keep, Only, Pair
      <4> QED BY <2>4, <4>1, CalibratedTyped DEF PairTyped
    <3>2. CASE AddCovarShock(t)
      <4>1. SamePairType(t.name, t.name2) /\ Pair(t) = {t.name, t.name2}
        BY <3>2 DEF AddCovarShock, Reads, Enters, Keep, Only, Pair
      <4> QED BY <2>4, <4>1, PairCalibrated DEF PairTyped
    <3> QED BY <3>1, <3>2
  <2>6. /\ KeyOf(symbols, t) \notin DOMAIN scratch[t.into]
        /\ \A f \in Fields : scratch'[f] = IF f = t.into THEN With(scratch[f], KeyOf(symbols, t), t.value) ELSE scratch[f]
    <3>1. Enters(TRUE, t.into, KeyOf(symbols, t), t.value)
      <4>1. CASE AddVarShock(t)
        BY <4>1 DEF AddVarShock, Reads, Enters, Keep, Only, KeyOf, Id, IdOf
      <4>2. CASE AddCovarShock(t)
        BY <4>2 DEF AddCovarShock, Reads, Enters, Keep, Only, KeyOf, Id, IdOf
      <4> QED BY <4>1, <4>2
    <3>2. /\ KeyOf(symbols, t) \notin DOMAIN scratch[t.into]
          /\ scratch' = [scratch EXCEPT ![t.into] = With(scratch[t.into], KeyOf(symbols, t), t.value)]
      BY <3>1 DEF Enters, Keep, Only, Buffers
    <3> QED BY <1>6, <1>7, <3>2
  <2>7. ASSUME NEW i \in OpenCal(text), Pair(text[i]) = Pair(t) PROVE FALSE
    <3>1. /\ i \in Cal(text) /\ i \in 1..Len(text) /\ text[i].op \in CalOps /\ InField(text[i])
          /\ KeyOf(symbols, text[i]) \in DOMAIN scratch[text[i].into]
      BY <2>2, <2>4, <2>7 DEF OpenCal, Cal, Buffering, Says, AllTyped, InField, Fields
    <3>2. text[i].op = "covar_shock" => text[i].name # text[i].name2
      BY <2>1, <3>1 DEF ProperText
    <3>3. CASE AddVarShock(t)
      <4>1. NoVariance(t.name) /\ t.op = "var_shock"
        BY <3>3 DEF AddVarShock, Reads, Enters, Keep, Only
      <4>2. text[i].op = "var_shock" /\ text[i].name = t.name
        BY <2>7, <3>1, <3>2, <4>1 DEF Pair, CalOps
      <4> QED BY <3>1, <4>1, <4>2 DEF NoVariance, KeyOf, Id, IdOf, InField, VarFields
    <3>4. CASE AddCovarShock(t)
      <4>1. NoCovariance(t.name, t.name2) /\ t.op = "covar_shock"
        BY <3>4 DEF AddCovarShock, Reads, Enters, Keep, Only
      <4>2. text[i].op = "covar_shock" /\ <<text[i].name, text[i].name2>> \in {<<t.name, t.name2>>, <<t.name2, t.name>>}
        BY <2>1, <2>7, <3>1, <3>2, <4>1 DEF Pair, CalOps
      <4>3. KeyOf(symbols, text[i]) \in {<<IdOf(t.name), IdOf(t.name2)>>, <<IdOf(t.name2), IdOf(t.name)>>}
        BY <4>2 DEF KeyOf, Id, IdOf
      <4> QED BY <3>1, <4>1, <4>2, <4>3 DEF NoCovariance, InField, CovFields
    <3> QED BY <3>3, <3>4
  <2>8. open' = {"shocks"}
    BY <1>2, <1>6
  <2>9. Buffering(symbols, text', scratch', open')
    <3>1. PICK ob : ob = mod_file.varobs /\ AllTyped(symbols, ob, text)
      BY <2>4
    <3> QED BY <1>1, <1>6, <2>2, <2>3, <2>6, <2>7, <2>8, <3>1, BuffersFilled
  <2>10. AllTyped(symbols, mod_file.varobs, text')
    BY <1>1, <1>6, <2>3, <2>4, <2>5, TypesOn
  <2>11. AllClosed(text')
    BY <1>1, <1>6, <2>2, ClosingOn DEF Reading
  <2>12. \E at : Laid(symbols, text', statements, at)
    <3>1. PICK at : Laid(symbols, text, statements, at)
      BY <2>2 DEF Reading
    <3>2. Len(statements) \in Nat /\ Longer(statements, statements)
      BY <2>2 DEF Reading, IsList, Longer
    <3>3. PICK ob : ob = mod_file.varobs /\ AllTyped(symbols, ob, text)
      BY <2>4
    <3>4. ~EndsShocks(t) /\ NoShocks(statements, statements, t)
      BY <1>1, <3>2 DEF EndsShocks, CalOps, NoShocks
    <3> QED BY <1>6, <2>3, <3>1, <3>2, <3>3, <3>4, LayingOn
  <2> QED BY <2>2, <2>9, <2>10, <2>11, <2>12 DEF Reading
<1> QED BY <1>4, <1>8 DEF CovRead

\* A statement is added at the end.
LEMMA AddedLonger ==
    ASSUME NEW sts, IsList(sts), NEW s, NEW st, st = Append(sts, s)
    PROVE  /\ Longer(sts, st) /\ Len(st) = Len(sts) + 1 /\ st[Len(st)] = s
           /\ (Len(sts) + 1)..Len(st) = {Len(st)}
<1>1. PICK S : sts \in Seq(S)
  BY DEF IsList
<1>2. PICK T : T = S \cup {s}
  OBVIOUS
<1>3. sts \in Seq(T)
  BY <1>1, <1>2
<1>4. st \in Seq(T) /\ Len(st) = Len(sts) + 1 /\ st[Len(st)] = s /\ \A m \in 1..Len(sts) : st[m] = sts[m]
  BY <1>2, <1>3
<1>5. Len(sts) \in Nat
  BY <1>1
<1> QED BY <1>4, <1>5 DEF Longer, IsList

\* The end of a block of shocks makes a statement of the pieces that are open.
LEMMA EndShocksKeeps ==
    ASSUME PiecesInv, file \in DOMAIN Files, CovRead, NEW t \in Pieces, EndShocks(t), t.kind = "shocks",
           phase' = "parsing"
    PROVE  CovRead'
<1>1. Reads(t, "end_shocks") /\ EndsShocks(t) /\ t.op \notin CalOps /\ t.in = {}
  BY FilesAssumption DEF EndShocks, Reads, EndsShocks, CalOps, Pieces, Closings
<1>. DEFINE taken == {"det_shocks", "var_shocks", "std_shocks", "covar_shocks", "corr_shocks"}
<1>2. Adds("shocks", taken, None)
  BY DEF EndShocks, Only
<1>3. PICK s : s = [kind |-> "shocks", of |-> [f \in taken |-> scratch[f]] @@ None]
  OBVIOUS
<1>4. /\ symbols' = symbols /\ mod_file' = mod_file /\ statements' = Append(statements, s)
      /\ scratch' = [f \in DOMAIN scratch |-> IF f \in taken \ {"cholesky", "declared_subsamples"} THEN Empty[f] ELSE scratch[f]]
  BY <1>2, <1>3 DEF Adds
<1>5. s.kind = "shocks" /\ \A f \in Fields : s.of[f] = scratch[f]
  BY <1>3 DEF @@, None, Fields, VarFields, CovFields
<1>6. PICK n : n = Len(text) + 1
  OBVIOUS
<1>7. GoesOn(Pieces, text, t, text', n) /\ Fields \subseteq DOMAIN scratch
  BY <1>1, <1>6, ReadOn
<1>8. \A f \in Fields : DOMAIN scratch'[f] = {}
  <2>1. \A f \in Fields : f \in taken \ {"cholesky", "declared_subsamples"} /\ Empty[f] = << >>
    BY DEF Fields, VarFields, CovFields, Empty, None
  <2> QED BY <1>4, <1>7, <2>1
<1>9. ASSUME ProperText(text')
      PROVE  Reading(symbols, mod_file.varobs, text', statements') /\ Buffering(symbols, text', scratch', open')
  <2>1. ProperText(text)
    BY <1>7, <1>9, ProperBefore
  <2>2. Reading(symbols, mod_file.varobs, text, statements) /\ Buffering(symbols, text, scratch, open)
    BY <2>1 DEF CovRead
  <2>3. PICK ob : ob = mod_file.varobs /\ AllTyped(symbols, ob, text)
    BY <2>2 DEF Reading
  <2>4. Grown(symbols, symbols) /\ Observing(symbols, ob, ob)
    BY <2>2 DEF Reading, Grown, Observing
  <2>5. AllTyped(symbols, ob, text')
    BY <1>1, <1>7, <2>3, <2>4, TypesOn
  <2>6. AllClosed(text')
    BY <1>1, <1>7, <2>2, ClosingOn DEF Reading
  <2>7. /\ Longer(statements, statements') /\ Len(statements') = Len(statements) + 1
        /\ statements'[Len(statements')] = s /\ Len(statements) \in Nat
    <3>1. IsList(statements)
      BY <2>2 DEF Reading
    <3>2. Len(statements) \in Nat
      BY <3>1 DEF IsList
    <3> QED BY <1>4, <3>1, <3>2, AddedLonger
  <2>8. OneShocks(symbols, text', statements, statements')
    <3>1. /\ \A i \in 1..Len(text) : ClosedBy(text', i, n) <=> t.in = {} /\ i \in CurrentIn(text)
          /\ \A i : i \in Cal(text') <=> i \in Cal(text) \/ (i = n /\ t.op \in CalOps)
      BY <1>7, TextGoesOn
    <3>2. Len(text') = n /\ CurrentIn(text) \subseteq 1..Len(text) /\ Cal(text) \subseteq 1..Len(text)
      BY <1>7, TextOn DEF GoesOn, CurrentIn, Cal
    <3>3. \A i : i \in Block(text', n) <=> i \in OpenCal(text)
      BY <1>1, <3>1, <3>2 DEF Block, OpenCal
    <3>4. Block(text', n) = OpenCal(text)
      BY <3>3
    <3>5. PICK I : I = OpenCal(text) /\ I \subseteq Cal(text) /\ Says(symbols, text, I, scratch)
      BY <2>2 DEF Buffering, OpenCal
    <3>6. PICK c : c = s.of
      OBVIOUS
    <3>7. Says(symbols, text', I, c)
      BY <1>5, <1>7, <2>3, <2>4, <3>5, <3>6, SaysOn
    <3> QED BY <1>5, <2>7, <3>2, <3>4, <3>5, <3>6, <3>7 DEF OneShocks
  <2>9. \E at : Laid(symbols, text', statements', at)
    <3>1. PICK at : Laid(symbols, text, statements, at)
      BY <2>2 DEF Reading
    <3> QED BY <1>1, <1>7, <2>3, <2>4, <2>7, <2>8, <3>1, LayingOn
  <2>10. Buffering(symbols, text', scratch', open')
    BY <1>1, <1>7, <1>8, BuffersEmptied
  <2> QED BY <2>2, <2>3, <2>5, <2>6, <2>7, <2>9, <2>10 DEF Reading, Longer
<1> QED BY <1>4, <1>9 DEF CovRead

\* A symbol enters a table.
LEMMA EnterGrows ==
    ASSUME NEW tb, IsTable(tb), NEW n, NEW type
    PROVE  Grown(tb, EnterIn(tb, n, type))
<1>1. CASE \E i \in DOMAIN tb : tb[i][1] = n
  BY <1>1 DEF EnterIn, Grown
<1>2. CASE ~\E i \in DOMAIN tb : tb[i][1] = n
  <2>1. PICK S : tb \in Seq(S)
    BY DEF IsTable, IsList
  <2>2. PICK e : e = <<n, type>>
    OBVIOUS
  <2>3. PICK T : T = S \cup {e}
    OBVIOUS
  <2>4. tb \in Seq(T) /\ e \in T
    BY <2>1, <2>3
  <2>5. EnterIn(tb, n, type) = Append(tb, e)
    BY <1>2, <2>2 DEF EnterIn
  <2>6. /\ Append(tb, e) \in Seq(T) /\ DOMAIN Append(tb, e) = DOMAIN tb \cup {Len(tb) + 1} /\ Append(tb, e)[Len(tb) + 1] = e
        /\ \A i \in DOMAIN tb : Append(tb, e)[i] = tb[i]
    BY <2>4
  <2>7. e[1] = n
    BY <2>2
  <2>8. PICK tc : tc = Append(tb, e)
    OBVIOUS
  <2>9. /\ IsList(tc) /\ DOMAIN tc = DOMAIN tb \cup {Len(tb) + 1} /\ tc[Len(tb) + 1][1] = n
        /\ \A i \in DOMAIN tb : tc[i] = tb[i]
    BY <2>6, <2>7, <2>8 DEF IsList
  <2>10. IsTable(tc)
    BY <1>2, <2>9 DEF IsTable
  <2>11. Grown(tb, tc)
    BY <2>9, <2>10 DEF Grown
  <2> QED BY <2>5, <2>8, <2>11
<1> QED BY <1>1, <1>2

\* A table that grows twice, and one that does not.
LEMMA GrownTwice ==
    ASSUME NEW ta, NEW tb, Grown(ta, tb), NEW tc, Grown(tb, tc) PROVE Grown(ta, tc)
BY DEF Grown

LEMMA GrownSelf ==
    ASSUME NEW tb, IsTable(tb) PROVE Grown(tb, tb)
BY DEF Grown

LEMMA FunctionsGrow ==
    ASSUME NEW t, IsTable(symbols) PROVE Grown(symbols, EnterFunctions(t))
<1>1. ASSUME NEW tb, IsTable(tb), NEW n PROVE Grown(tb, EnterFunction(tb, n)) /\ IsTable(EnterFunction(tb, n))
  <2>1. Grown(tb, EnterFunction(tb, n))
    BY <1>1, EnterGrows, GrownSelf DEF EnterFunction
  <2> QED BY <2>1 DEF Grown
<1>2. PICK ta : ta = EnterFunction(symbols, t.name)
  OBVIOUS
<1>3. PICK tb : tb = EnterFunction(ta, Resolve(t, t.first))
  OBVIOUS
<1>4. PICK tc : tc = EnterFunction(tb, Resolve(t, t.second))
  OBVIOUS
<1>5. Grown(symbols, ta) /\ IsTable(ta)
  BY <1>1, <1>2
<1>6. Grown(ta, tb) /\ IsTable(tb)
  BY <1>1, <1>3, <1>5
<1>7. Grown(tb, tc)
  BY <1>1, <1>4, <1>6
<1>8. Grown(symbols, tc)
  BY <1>5, <1>6, <1>7, GrownTwice
<1>9. EnterFunctions(t) = tc
  BY <1>2, <1>3, <1>4 DEF EnterFunctions
<1> QED BY <1>8, <1>9

\* A text of another kind does not end a block of shocks.
LEMMA NotShocks ==
    ASSUME file \in DOMAIN Files, NEW t \in Pieces, t.op \notin Closings, t.in = {}
    PROVE  t.kind # "shocks" /\ t.kind # "Sigma_e"
BY NotClosing DEF Taken, Bvar, Both

\* A piece that adds no statement.
LEMMA QuietPiece ==
    ASSUME PiecesInv, file \in DOMAIN Files, NEW t \in Pieces, NEW op, Reads(t, op),
           op \notin CalOps, op \notin Closings, statements' = statements,
           \A f \in Fields : scratch'[f] = scratch[f], DOMAIN mod_file' = DOMAIN mod_file,
           t.op # "change_type" /\ IsTable(symbols) /\ "varobs" \in DOMAIN mod_file =>
             Grown(symbols, symbols') /\ Observing(symbols', mod_file.varobs, mod_file'.varobs)
    PROVE  QuietStep(t)
<1>1. t.op = op /\ phase = "parsing"
  BY DEF Reads
<1>2. IsList(statements) /\ Len(statements) \in Nat
  BY <1>1 DEF PiecesInv, Listed, IsList
<1>3. Longer(statements, statements') /\ NoShocks(statements, statements', t)
  BY <1>2 DEF Longer, NoShocks
<1>4. t.in = {} => t.kind # "shocks"
  BY <1>1, NotShocks
<1> QED BY <1>1, <1>3, <1>4 DEF QuietStep

\* A piece that goes to another buffer.
LEMMA QuietBuffer ==
    ASSUME PiecesInv, file \in DOMAIN Files, NEW t \in Pieces, NEW op, Reads(t, op),
           op \notin CalOps, op \notin Closings, symbols' = symbols, mod_file' = mod_file, statements' = statements,
           \A f \in Fields : scratch'[f] = scratch[f]
    PROVE  QuietStep(t)
<1>1. IsTable(symbols) => Grown(symbols, symbols')
  BY GrownSelf
<1>2. Observing(symbols', mod_file.varobs, mod_file'.varobs)
  BY DEF Observing
<1> QED BY <1>1, <1>2, QuietPiece

\* A statement that is no block of shocks.
LEMMA QuietAdds ==
    ASSUME PiecesInv, file \in DOMAIN Files, NEW t \in Pieces, NEW op, Reads(t, op), op \notin CalOps \cup {"change_type"},
           t.kind # "shocks", NEW kind, NEW taken, NEW args, Adds(kind, taken, args),
           kind # "shocks", kind = "Sigma_e" => t.kind = "Sigma_e", \A f \in Fields : f \notin taken
    PROVE  QuietStep(t)
<1>1. t.op = op /\ BuffersOK(scratch) /\ IsList(statements) /\ Fields \subseteq DOMAIN scratch
  <2>1. t.op = op /\ BuffersOK(scratch) /\ IsList(statements)
    BY DEF PiecesInv, Reads, Listed, IsList
  <2>2. Fields \subseteq DOMAIN Empty
    BY DEF Fields, VarFields, CovFields, Empty
  <2> QED BY <2>1, <2>2 DEF BuffersOK
<1>2. PICK s : s = [kind |-> kind, of |-> [f \in taken |-> scratch[f]] @@ args]
  OBVIOUS
<1>3. statements' = Append(statements, s) /\ symbols' = symbols /\ mod_file' = mod_file /\ s.kind = kind
  BY <1>2 DEF Adds
<1>4. \A f \in Fields : scratch'[f] = scratch[f]
  BY <1>1 DEF Adds
<1>5. Longer(statements, statements') /\ NoShocks(statements, statements', t)
  <2>1. /\ Longer(statements, statements') /\ statements'[Len(statements')] = s
        /\ (Len(statements) + 1)..Len(statements') = {Len(statements')}
    BY <1>1, <1>3, AddedLonger
  <2> QED BY <1>3, <2>1 DEF NoShocks
<1>6. IsTable(symbols) => Grown(symbols, symbols')
  BY <1>3, GrownSelf
<1>7. Observing(symbols', mod_file.varobs, mod_file'.varobs)
  BY <1>3 DEF Observing
<1> QED BY <1>1, <1>3, <1>4, <1>5, <1>6, <1>7 DEF QuietStep

\* The handlers of declarations and of the model.
LEMMA DeclarationsQuiet ==
    ASSUME PiecesInv, file \in DOMAIN Files, NEW t \in Pieces, phase' = "parsing",
           \/ DeclareSymbol(t) \/ AddPredeterminedVariable(t) \/ AddModelVariable(t)
           \/ AddExpressionVariable(t) \/ ModelLocalVariable(t) \/ ChangeType(t)
           \/ AddSteadyStateModelEqual(t) \/ AddVarobs(t) \/ ModelFlag(t)
           \/ ExternalFunction(t) \/ CallFunction(t)
    PROVE  QuietStep(t)
<1>. DEFINE ops == {"declare", "predetermined", "model_variable", "expression_variable", "pound", "change_type",
                    "steady_state_equal", "varobs", "flag", "external_function", "call"}
<1>1. statements' = statements /\ scratch' = scratch
  BY DEF DeclareSymbol, AddPredeterminedVariable, AddModelVariable, AddExpressionVariable,
         ModelLocalVariable, ChangeType, AddSteadyStateModelEqual, AddVarobs, ModelFlag,
         ExternalFunction, CallFunction, Only, Sets
<1>2. PICK op \in ops : Reads(t, op)
  BY DEF DeclareSymbol, AddPredeterminedVariable, AddModelVariable, AddExpressionVariable,
         ModelLocalVariable, ChangeType, AddSteadyStateModelEqual, AddVarobs, ModelFlag,
         ExternalFunction, CallFunction
<1>3. op \notin CalOps /\ op \notin Closings /\ t.op = op
  BY <1>2 DEF CalOps, Closings, Endings, Reads
<1>4. phase' # "error"
  OBVIOUS
<1>5. DOMAIN mod_file' = DOMAIN mod_file /\ ("varobs" \in DOMAIN mod_file /\ ~AddVarobs(t) => mod_file'.varobs = mod_file.varobs)
  <2>1. CASE DeclareSymbol(t) \/ ChangeType(t)
    BY <1>4, <2>1 DEF DeclareSymbol, ChangeType, Only
  <2>2. CASE AddPredeterminedVariable(t) \/ AddModelVariable(t) \/ ModelFlag(t)
    <3>1. PICK f, v : Sets(f, v) /\ f # "varobs"
      BY <1>4, <2>2 DEF AddPredeterminedVariable, AddModelVariable, ModelFlag, Only
    <3> QED BY <3>1 DEF Sets
  <2>3. CASE AddExpressionVariable(t)
    BY <1>4, <2>3, Zenon DEF AddExpressionVariable, Only
  <2>4. CASE ModelLocalVariable(t)
    BY <1>4, <2>4, Zenon DEF ModelLocalVariable, Only
  <2>5. CASE AddSteadyStateModelEqual(t)
    BY <1>4, <2>5, Zenon DEF AddSteadyStateModelEqual, Only
  <2>6. CASE AddVarobs(t)
    BY <1>4, <2>6 DEF AddVarobs, Only, Sets
  <2>7. CASE ExternalFunction(t)
    BY <1>4, <2>7, Zenon DEF ExternalFunction, Only, AddExternalFunction
  <2>8. CASE CallFunction(t)
    <3>1. PICK m : m = IF Known(t.name) THEN mod_file
                       ELSE AddExternalFunction(t, [nargs |-> 0, first |-> "", second |-> ""])
      OBVIOUS
    <3>2. DOMAIN m = DOMAIN mod_file /\ ("varobs" \in DOMAIN mod_file => m.varobs = mod_file.varobs)
      BY <3>1, Zenon DEF AddExternalFunction
    <3>3. mod_file' = [m EXCEPT !.calls = IF t.in_model THEN @ \cup {<<t.name, t.nargs>>} ELSE @]
      BY <1>4, <2>8, <3>1, Zenon DEF CallFunction, Only
    <3>4. DOMAIN mod_file' = DOMAIN m /\ ("varobs" \in DOMAIN m => mod_file'.varobs = m.varobs)
      BY <3>3
    <3> QED BY <3>2, <3>4
  <2> QED BY <2>1, <2>2, <2>3, <2>4, <2>5, <2>6, <2>7, <2>8
<1>6. ASSUME IsTable(symbols), t.op # "change_type" PROVE Grown(symbols, symbols')
  <2>1. \A n, type : Grown(symbols, Enter(n, type))
    BY <1>6, EnterGrows DEF Enter
  <2>2. CASE DeclareSymbol(t) \/ AddExpressionVariable(t) \/ ModelLocalVariable(t) \/ AddSteadyStateModelEqual(t)
             \/ CallFunction(t)
    <3>1. \E n, type : symbols' = Enter(n, type)
      BY <1>4, <2>2 DEF DeclareSymbol, AddExpressionVariable, ModelLocalVariable, AddSteadyStateModelEqual, CallFunction, Only
    <3> QED BY <2>1, <3>1
  <2>3. CASE AddPredeterminedVariable(t) \/ AddModelVariable(t) \/ ModelFlag(t) \/ AddVarobs(t)
    <3>1. symbols' = symbols
      BY <1>4, <2>3 DEF AddPredeterminedVariable, AddModelVariable, ModelFlag, AddVarobs, Only, Sets
    <3> QED BY <1>6, <3>1, GrownSelf
  <2>4. CASE ExternalFunction(t)
    <3>1. symbols' = EnterFunctions(t)
      BY <1>4, <2>4 DEF ExternalFunction, Only
    <3> QED BY <1>6, <3>1, FunctionsGrow
  <2>5. CASE ChangeType(t)
    BY <1>6, <2>5 DEF ChangeType, Reads
  <2> QED BY <2>2, <2>3, <2>4, <2>5
<1>7. ASSUME "varobs" \in DOMAIN mod_file PROVE Observing(symbols', mod_file.varobs, mod_file'.varobs)
  <2>1. CASE AddVarobs(t)
    <3>1. /\ mod_file.varobs = << >> /\ \A i \in DOMAIN t.names : IsA(t.names[i], {"endo"})
          /\ symbols' = symbols /\ mod_file' = [mod_file EXCEPT !["varobs"] = t.names]
      BY <1>4, <2>1 DEF AddVarobs, Only, Sets
    <3>2. mod_file'.varobs = t.names
      BY <1>7, <3>1
    <3>3. \A n : IsA(n, {"endo"}) => Named(symbols, n, "endo")
      <4>1. \A n : Known(n) => IdOf(n) \in DOMAIN symbols /\ symbols[IdOf(n)][1] = n
        BY DEF Known, IdOf
      <4> QED BY <4>1 DEF IsA, TypeOf, Named
    <3> QED BY <3>1, <3>2, <3>3 DEF Observing, Range
  <2>2. CASE ~AddVarobs(t)
    BY <1>5, <1>7, <2>2 DEF Observing
  <2> QED BY <2>1, <2>2
<1> QED BY <1>1, <1>2, <1>3, <1>5, <1>6, <1>7, QuietPiece

\* The elements of the other statements.
LEMMA ElementsQuiet ==
    ASSUME PiecesInv, file \in DOMAIN Files, NEW t \in Pieces, phase' = "parsing",
           \/ InitVal(t) \/ HistVal(t) \/ HomotopyVal(t) \/ AddDetShock(t)
           \/ AddRow(t) \/ AddInSymbolList(t) \/ AddEstimatedParamsElement(t)
           \/ SetTrendElement(t) \/ SetOptimWeight(t) \/ SetOptimCovariance(t) \/ AddMcFilename(t)
           \/ BeginSvarIdentification(t) \/ AddRestrictionInEquation(t) \/ AddCholesky(t)
           \/ SubsampleRange(t) \/ Shape(t) \/ Variance(t) \/ OptionNum(t) \/ OptimOptions(t)
    PROVE  QuietStep(t)
<1>. DEFINE ops == {"init_val", "hist_val", "homotopy_val", "det_shock", "row", "symbol", "estimated", "trend",
                    "weight", "weight2", "filename", "begin_svar", "exclusion", "cholesky", "subsample", "shape",
                    "variance", "option", "optim_option"}
            others == {"init_values", "hist_values", "homotopy_values", "det_shocks", "sigmae_matrix", "symbol_list",
                       "estim_params", "trend_elements", "var_weights", "covar_weights", "filename_list", "cholesky",
                       "equation_restrictions", "subsamples", "prior_shape", "prior_variance", "options"}
<1>1. PICK op \in ops : Reads(t, op)
  BY DEF InitVal, HistVal, HomotopyVal, AddDetShock, AddRow, AddInSymbolList, AddEstimatedParamsElement,
         SetTrendElement, SetOptimWeight, SetOptimCovariance, AddMcFilename, BeginSvarIdentification,
         AddRestrictionInEquation, AddCholesky, SubsampleRange, Shape, Variance, OptionNum, OptimOptions
<1>2. op \notin CalOps /\ op \notin Closings
  BY <1>1 DEF CalOps, Closings, Endings
<1>3. PICK f \in others : \E v : Buffers(f, v)
  <2>1. CASE \/ InitVal(t) \/ HistVal(t) \/ HomotopyVal(t) \/ AddDetShock(t)
             \/ AddRow(t) \/ AddInSymbolList(t) \/ AddEstimatedParamsElement(t)
             \/ SetTrendElement(t) \/ SetOptimWeight(t) \/ SetOptimCovariance(t) \/ AddMcFilename(t)
    BY <2>1 DEF InitVal, HistVal, HomotopyVal, AddDetShock, AddRow, AddInSymbolList, AddEstimatedParamsElement,
         SetTrendElement, SetOptimWeight, SetOptimCovariance, AddMcFilename, Enters, Keep, Only
  <2>2. CASE \/ BeginSvarIdentification(t) \/ AddRestrictionInEquation(t) \/ AddCholesky(t)
             \/ SubsampleRange(t) \/ Shape(t) \/ Variance(t) \/ OptionNum(t)
    BY <2>2 DEF BeginSvarIdentification, AddRestrictionInEquation, AddCholesky, SubsampleRange, Shape, Variance,
                OptionNum, Enters, Keep, Only
  <2>3. CASE OptimOptions(t)
    <3>1. \E v : Buffers("options", v)
      BY <2>3, Zenon DEF OptimOptions, Keep, Only
    <3> QED BY <3>1
  <2> QED BY <2>1, <2>2, <2>3
<1>4. /\ symbols' = symbols /\ mod_file' = mod_file /\ statements' = statements
      /\ \A g \in Fields : scratch'[g] = scratch[g]
  <2>1. Fields \subseteq DOMAIN scratch
    BY <1>1, ReadOn
  <2>2. \A g \in Fields : g \notin others
    BY DEF Fields, VarFields, CovFields
  <2> QED BY <1>3, <2>1, <2>2 DEF Buffers
<1> QED BY <1>1, <1>2, <1>4, QuietBuffer

\* The handlers that change several buffers.
LEMMA CombinationsQuiet ==
    ASSUME PiecesInv, file \in DOMAIN Files, NEW t \in Pieces, phase' = "parsing",
           CombineLagAndRestriction(t) \/ AddRestriction(t) \/ OptionSymbolList(t)
    PROVE  QuietStep(t)
<1>1. PICK op \in {"exclusion_lag", "restriction", "option_symbol_list"} : Reads(t, op)
  BY DEF CombineLagAndRestriction, AddRestriction, OptionSymbolList
<1>2. op \notin CalOps /\ op \notin Closings
  BY <1>1 DEF CalOps, Closings, Endings
<1>3. phase' # "error"
  OBVIOUS
<1>4. symbols' = symbols /\ mod_file' = mod_file /\ statements' = statements
  <2>1. CASE CombineLagAndRestriction(t)
    BY <1>3, <2>1, Zenon DEF CombineLagAndRestriction, Only
  <2>2. CASE AddRestriction(t)
    BY <1>3, <2>2, Zenon DEF AddRestriction, Only
  <2>3. CASE OptionSymbolList(t)
    BY <1>3, <2>3, Zenon DEF OptionSymbolList, Only
  <2> QED BY <2>1, <2>2, <2>3
<1>5. ASSUME NEW f \in DOMAIN scratch, f # "ident_restrictions", f # "Qi_nbr", f # "Ri_nbr", f # "cholesky",
             f # "equation_restrictions", f # "options", f # "symbol_list"
      PROVE  scratch'[f] = scratch[f]
  <2>1. CASE CombineLagAndRestriction(t)
    BY <1>3, <1>5, <2>1, Zenon DEF CombineLagAndRestriction, Only
  <2>2. CASE AddRestriction(t)
    BY <1>3, <1>5, <2>2, Zenon DEF AddRestriction, Only
  <2>3. CASE OptionSymbolList(t)
    BY <1>3, <1>5, <2>3, Zenon DEF OptionSymbolList, Only
  <2> QED BY <2>1, <2>2, <2>3
<1>6. \A g \in Fields : scratch'[g] = scratch[g]
  <2>1. Fields \subseteq DOMAIN scratch
    BY <1>1, ReadOn
  <2>2. \A g \in Fields : g \notin {"ident_restrictions", "Qi_nbr", "Ri_nbr", "cholesky", "equation_restrictions",
                                    "options", "symbol_list"}
    BY DEF Fields, VarFields, CovFields
  <2> QED BY <1>5, <2>1, <2>2
<1> QED BY <1>1, <1>2, <1>4, <1>6, QuietBuffer

\* The commands.
LEMMA TasksQuiet ==
    ASSUME PiecesInv, file \in DOMAIN Files, NEW t \in Pieces, phase' = "parsing",
           \/ EndSimulation(t) \/ EndSteady(t) \/ Forecast(t) \/ EstimationData(t)
           \/ RunEstimation(t) \/ SetTrends(t) \/ EndOptimWeights(t) \/ RunOsr(t)
           \/ RunModelComparison(t) \/ PlannerObjective(t) \/ RunBvar(t) \/ RunForecasts(t)
           \/ EndEstimatedParams(t)
    PROVE  QuietStep(t)
<1>. DEFINE sets == {{"options"}, Both, {"trend_elements"}, {"var_weights", "covar_weights"}, {"symbol_list"},
                     {"filename_list", "options"}, {}, {"det_shocks"}, {"estim_params"}}
<1>1. PICK op \in {"task", "end_estimated"} : Reads(t, op)
  BY DEF EndSimulation, EndSteady, Forecast, EstimationData, RunEstimation, SetTrends, EndEstimatedParams,
         EndOptimWeights, RunOsr, RunModelComparison, PlannerObjective, RunBvar, RunForecasts
<1>2. op \notin CalOps \cup {"change_type"}
  BY <1>1 DEF CalOps
<1>3. t.kind # "shocks" /\ t.kind # "Sigma_e"
  BY DEF EndSimulation, EndSteady, Forecast, EstimationData, RunEstimation, SetTrends, EndEstimatedParams,
         EndOptimWeights, RunOsr, RunModelComparison, PlannerObjective, RunBvar, RunForecasts, Ends
<1>4. PICK taken \in sets : Adds(t.kind, taken, None)
  <2>1. CASE \/ EndSimulation(t) \/ EndSteady(t) \/ Forecast(t) \/ EstimationData(t) \/ RunEstimation(t)
             \/ SetTrends(t) \/ EndOptimWeights(t)
    <3>1. \E tk \in sets : Adds(t.kind, tk, None)
      BY <2>1 DEF EndSimulation, EndSteady, Forecast, EstimationData, RunEstimation, SetTrends, EndOptimWeights, Ends
    <3> QED BY <3>1
  <2>2. CASE \/ RunOsr(t) \/ RunModelComparison(t) \/ PlannerObjective(t) \/ RunBvar(t) \/ RunForecasts(t)
             \/ EndEstimatedParams(t)
    <3>1. \E tk \in sets : Adds(t.kind, tk, None)
      BY <2>2 DEF RunOsr, RunModelComparison, PlannerObjective, RunBvar, RunForecasts, EndEstimatedParams, Ends
    <3> QED BY <3>1
  <2> QED BY <2>1, <2>2
<1>5. \A f \in Fields : f \notin taken
  BY <1>4 DEF Fields, VarFields, CovFields, Both
<1> QED BY <1>1, <1>2, <1>3, <1>4, <1>5, QuietAdds

\* The other blocks, and the commands that have an end of their own.
LEMMA EndingsQuiet ==
    ASSUME PiecesInv, file \in DOMAIN Files, NEW t \in Pieces, phase' = "parsing",
           \/ InitParam(t) \/ EndConditions(t) \/ (EndShocks(t) /\ t.kind # "shocks") \/ DoSigmaE(t)
           \/ EndSvarIdentification(t) \/ Svar(t) \/ MarkovSwitching(t)
           \/ SetPrior(t) \/ SetOptions(t) \/ Copy(t) \/ LoadParams(t)
    PROVE  QuietStep(t)
<1>. DEFINE ops == {"init_param", "end_conditions", "end_shocks", "sigma_e", "end_svar", "svar",
                    "markov_switching", "prior", "set_options", "copy", "load"}
<1>1. PICK op \in ops : Reads(t, op)
  BY DEF InitParam, EndConditions, EndShocks, DoSigmaE, EndSvarIdentification, Svar,
         MarkovSwitching, SetPrior, SetOptions, Copy, LoadParams
<1>2. op \notin CalOps \cup {"change_type"} /\ t.op = op
  BY <1>1 DEF CalOps, Reads
<1>3. t.kind # "shocks"
  <2>1. CASE op \in {"init_param", "end_svar", "copy", "load"}
    <3>1. t.in = {} /\ t.op \notin Closings
      BY <1>2, <2>1, FilesAssumption DEF Pieces, Closings, Endings
    <3> QED BY <3>1, NotShocks
  <2>2. CASE op \in {"end_conditions", "sigma_e", "svar", "markov_switching", "prior", "set_options"}
    BY <1>2, <2>2, FilesAssumption DEF Pieces
  <2>3. CASE op = "end_shocks"
    BY <1>2, <2>3 DEF InitParam, EndConditions, DoSigmaE, EndSvarIdentification, Svar,
         MarkovSwitching, SetPrior, SetOptions, Copy, LoadParams, Reads
  <2> QED BY <1>1, <2>1, <2>2, <2>3
<1>. DEFINE Added(kind) == \E taken, args : /\ Adds(kind, taken, args) /\ \A f \in Fields : f \notin taken
<1>4. ASSUME NEW kind, Added(kind), kind # "shocks", kind = "Sigma_e" => t.kind = "Sigma_e" PROVE QuietStep(t)
  BY <1>1, <1>2, <1>3, <1>4, QuietAdds
<1>5. CASE InitParam(t) \/ LoadParams(t)
  <2>1. \E kind \in {"init_param", "load_params"} : \E args : Adds(kind, {}, args)
    BY <1>5 DEF InitParam, LoadParams, Only
  <2> QED BY <1>4, <2>1
<1>6. CASE Copy(t)
  <2>1. \E args : Adds(t.kind, {}, args)
    BY <1>6 DEF Copy, Only
  <2> QED BY <1>3, <1>4, <2>1
<1>7. CASE EndSvarIdentification(t)
  <2>1. Adds("svar_identification",
             {"ident_restrictions", "cholesky", "restriction_symbols", "equation_restrictions", "Qi_nbr", "Ri_nbr"}, None)
    BY <1>7 DEF EndSvarIdentification, Only
  <2>2. \A f \in Fields : f \notin {"ident_restrictions", "cholesky", "restriction_symbols", "equation_restrictions", "Qi_nbr", "Ri_nbr"}
    BY DEF Fields, VarFields, CovFields
  <2>3. Added("svar_identification")
    BY <2>1, <2>2
  <2> QED BY <1>4, <2>3
<1>8. CASE EndConditions(t)
  <2>1. t.kind \in {"initval", "endval", "histval", "homotopy"}
    BY <1>8, FilesAssumption DEF EndConditions, Reads, Pieces
  <2>2. \E taken \in {{"init_values"}, {"hist_values"}, {"homotopy_values"}} : \E args : Adds(t.kind, taken, args)
    BY <1>8, <2>1 DEF EndConditions, Only
  <2>3. \A taken \in {{"init_values"}, {"hist_values"}, {"homotopy_values"}} : \A f \in Fields : f \notin taken
    BY DEF Fields, VarFields, CovFields
  <2>4. Added(t.kind)
    BY <2>2, <2>3
  <2> QED BY <1>4, <2>1, <2>4
<1>9. CASE EndShocks(t) /\ t.kind # "shocks"
  <2>1. Adds(t.kind, {"det_shocks"}, None)
    BY <1>9 DEF EndShocks, Only
  <2>2. \A f \in Fields : f \notin {"det_shocks"}
    BY DEF Fields, VarFields, CovFields
  <2>3. Added(t.kind)
    BY <2>1, <2>2
  <2> QED BY <1>4, <1>9, <2>3
<1>10. CASE DoSigmaE(t)
  <2>1. t.kind = "Sigma_e"
    BY <1>10, FilesAssumption DEF DoSigmaE, Reads, Pieces
  <2>2. Adds("Sigma_e", {"sigmae_matrix"}, None)
    BY <1>10 DEF DoSigmaE, Only
  <2>3. \A f \in Fields : f \notin {"sigmae_matrix"}
    BY DEF Fields, VarFields, CovFields
  <2>4. Added("Sigma_e")
    BY <2>2, <2>3
  <2> QED BY <1>4, <2>1, <2>4
<1>11. CASE Svar(t) \/ MarkovSwitching(t) \/ SetPrior(t) \/ SetOptions(t)
  <2>1. \E kind \in {"svar", "markov_switching", "prior", "options"},
           taken \in {{"options"}, {"prior_shape", "prior_variance", "options"}} : \E args : Adds(kind, taken, args)
    BY <1>11 DEF Svar, MarkovSwitching, SetPrior, SetOptions, Only
  <2>2. \A taken \in {{"options"}, {"prior_shape", "prior_variance", "options"}} : \A f \in Fields : f \notin taken
    BY DEF Fields, VarFields, CovFields
  <2>3. PICK kind \in {"svar", "markov_switching", "prior", "options"} : Added(kind)
    BY <2>1, <2>2
  <2> QED BY <1>4, <2>3
<1> QED BY <1>5, <1>6, <1>7, <1>8, <1>9, <1>10, <1>11

\* The subsamples.
LEMMA SubsamplesQuiet ==
    ASSUME PiecesInv, file \in DOMAIN Files, NEW t \in Pieces, phase' = "parsing", SetSubsamples(t) \/ CopySubsamples(t)
    PROVE  QuietStep(t)
<1>1. PICK op \in {"subsamples", "copy_subsamples"} : Reads(t, op)
  BY DEF SetSubsamples, CopySubsamples
<1>2. t.op = op /\ op \notin CalOps /\ t.op \notin Closings /\ t.in = {}
  BY <1>1, FilesAssumption DEF CalOps, Closings, Endings, Reads, Pieces
<1>3. t.kind # "shocks"
  BY <1>2, NotShocks
<1>4. phase' # "error"
  OBVIOUS
<1>5. PICK s : statements' = Append(statements, s) /\ s.kind # "shocks" /\ s.kind # "Sigma_e"
  <2>1. CASE SetSubsamples(t)
    <3>1. PICK s : s = [kind |-> "subsamples", of |-> [names |-> t.names, ranges |-> scratch.subsamples]]
      OBVIOUS
    <3>2. statements' = Append(statements, s)
      BY <1>4, <2>1, <3>1, Zenon DEF SetSubsamples, Only
    <3> QED BY <3>1, <3>2
  <2>2. CASE CopySubsamples(t)
    <3>1. PICK s : s = [kind |-> "copy_subsamples", of |-> [names |-> t.names, from |-> t.from]]
      OBVIOUS
    <3>2. statements' = Append(statements, s)
      BY <1>4, <2>2, <3>1, Zenon DEF CopySubsamples, Only
    <3> QED BY <3>1, <3>2
  <2> QED BY <1>1, <2>1, <2>2
<1>6. symbols' = symbols /\ mod_file' = mod_file
  BY <1>4, Zenon DEF SetSubsamples, CopySubsamples, Only
<1>7. ASSUME NEW f \in DOMAIN scratch, f # "declared_subsamples", f # "subsamples" PROVE scratch'[f] = scratch[f]
  <2>1. CASE SetSubsamples(t)
    BY <1>4, <1>7, <2>1, Zenon DEF SetSubsamples, Only
  <2>2. CASE CopySubsamples(t)
    BY <1>4, <1>7, <2>2, Zenon DEF CopySubsamples, Only
  <2> QED BY <1>1, <2>1, <2>2
<1>8. \A f \in Fields : scratch'[f] = scratch[f]
  <2>1. Fields \subseteq DOMAIN scratch
    BY <1>1, ReadOn
  <2>2. \A f \in Fields : f \notin {"declared_subsamples", "subsamples"}
    BY DEF Fields, VarFields, CovFields
  <2> QED BY <1>7, <2>1, <2>2
<1>9. IsList(statements)
  BY <1>1 DEF PiecesInv, Reads, Listed, IsList
<1>10. Longer(statements, statements') /\ NoShocks(statements, statements', t)
  <2>1. /\ Longer(statements, statements') /\ statements'[Len(statements')] = s
        /\ (Len(statements) + 1)..Len(statements') = {Len(statements')}
    BY <1>5, <1>9, AddedLonger
  <2> QED BY <1>5, <2>1 DEF NoShocks
<1>11. IsTable(symbols) => Grown(symbols, symbols')
  BY <1>6, GrownSelf
<1>12. Observing(symbols', mod_file.varobs, mod_file'.varobs)
  BY <1>6 DEF Observing
<1> QED BY <1>1, <1>2, <1>3, <1>6, <1>8, <1>10, <1>11, <1>12 DEF QuietStep

\* The discount factor of a policy.
LEMMA DiscountQuiet ==
    ASSUME PiecesInv, file \in DOMAIN Files, NEW t \in Pieces, phase' = "parsing", PlannerDiscount(t)
    PROVE  QuietStep(t)
<1>1. Reads(t, "planner_discount") /\ t.op = "planner_discount"
  BY DEF PlannerDiscount, Reads
<1>2. t.in # {} /\ t.op \notin CalOps
  BY <1>1, FilesAssumption DEF Pieces, CalOps
<1>3. PICK s : s = InitialDiscount(t.value)
  OBVIOUS
<1>4. /\ statements' = Append(statements, s) /\ scratch' = scratch /\ mod_file' = mod_file
      /\ symbols' = Enter(Discount, "param")
  BY <1>3 DEF PlannerDiscount, Only
<1>5. IsList(statements)
  BY <1>1 DEF PiecesInv, Reads, Listed, IsList
<1>6. Longer(statements, statements') /\ NoShocks(statements, statements', t)
  <2>1. /\ Longer(statements, statements') /\ statements'[Len(statements')] = s
        /\ (Len(statements) + 1)..Len(statements') = {Len(statements')}
    BY <1>4, <1>5, AddedLonger
  <2>2. s.kind = "init_param"
    BY <1>3 DEF InitialDiscount
  <2> QED BY <2>1, <2>2 DEF NoShocks
<1>7. ASSUME IsTable(symbols) PROVE Grown(symbols, symbols')
  BY <1>4, <1>7, EnterGrows DEF Enter
<1>8. Observing(symbols', mod_file.varobs, mod_file'.varobs)
  BY <1>4 DEF Observing
<1> QED BY <1>1, <1>2, <1>4, <1>6, <1>7, <1>8 DEF QuietStep

\* A policy.
LEMMA PolicyQuiet ==
    ASSUME PiecesInv, file \in DOMAIN Files, NEW t \in Pieces, phase' = "parsing", OptimalPolicy(t)
    PROVE  QuietStep(t)
<1>. DEFINE d == InitialDiscount(1)
            before == IF Known(Discount) THEN << >> ELSE <<d>>
<1>1. Reads(t, "policy") /\ t.op = "policy"
  BY DEF OptimalPolicy, Reads
<1>2. t.kind \in {"ramsey_policy", "discretionary_policy"} /\ t.op \notin CalOps
  BY <1>1, FilesAssumption DEF Pieces, CalOps
<1>3. PICK s : s = [kind |-> t.kind, of |-> [f \in Both |-> scratch[f]]]
  OBVIOUS
<1>4. statements' = statements \o before \o <<s>>
  BY <1>3 DEF OptimalPolicy
<1>5. Longer(statements, statements') /\ NoShocks(statements, statements', t)
  <2>1. PICK S : statements \in Seq(S)
    BY <1>1 DEF PiecesInv, Reads, Listed
  <2>2. d.kind = "init_param" /\ s.kind \in {"ramsey_policy", "discretionary_policy"}
    BY <1>2, <1>3 DEF InitialDiscount
  <2>. HIDE DEF d
  <2>3. PICK T : T = S \cup {d, s}
    OBVIOUS
  <2>4. statements \in Seq(T) /\ << >> \in Seq(T) /\ <<d>> \in Seq(T) /\ <<s>> \in Seq(T)
    BY <2>1, <2>3
  <2>5. before \in Seq(T) /\ \A i \in 1..Len(before) : before[i] = d
    BY <2>4
  <2>. HIDE DEF before
  <2>6. PICK q : q = statements \o before
    OBVIOUS
  <2>7. /\ q \in Seq(T) /\ Len(q) = Len(statements) + Len(before)
        /\ \A m \in 1..Len(statements) : q[m] = statements[m]
        /\ \A m \in (Len(statements) + 1)..Len(q) : q[m] = d
    BY <2>4, <2>5, <2>6
  <2>8. statements' = Append(q, s)
    BY <1>4, <2>4, <2>6, <2>7
  <2>9. /\ statements' \in Seq(T) /\ Len(statements') = Len(q) + 1 /\ statements'[Len(statements')] = s
        /\ \A m \in 1..Len(q) : statements'[m] = q[m]
    BY <2>3, <2>7, <2>8
  <2>10. IsList(statements')
    BY <2>9 DEF IsList
  <2>11. Len(statements) \in Nat /\ Len(q) \in Nat /\ Len(statements) =< Len(q)
    BY <2>4, <2>5, <2>7
  <2>12. ASSUME NEW m \in (Len(statements) + 1)..Len(statements')
         PROVE  statements'[m].kind # "shocks" /\ statements'[m].kind # "Sigma_e"
    <3>1. CASE m = Len(statements')
      BY <2>2, <2>9, <3>1
    <3>2. CASE m # Len(statements')
      <4>1. m \in 1..Len(q) /\ m \in (Len(statements) + 1)..Len(q)
        BY <2>9, <2>11, <3>2
      <4> QED BY <2>2, <2>7, <2>9, <4>1
    <3> QED BY <3>1, <3>2
  <2>13. \A m \in 1..Len(statements) : statements'[m] = statements[m]
    BY <2>7, <2>9, <2>11
  <2> QED BY <2>9, <2>10, <2>11, <2>12, <2>13 DEF Longer, NoShocks
<1>6. ASSUME IsTable(symbols) PROVE Grown(symbols, symbols')
  BY <1>6, EnterGrows DEF OptimalPolicy, Enter
<1>7. mod_file' = mod_file
  BY DEF OptimalPolicy
<1>8. Observing(symbols', mod_file.varobs, mod_file'.varobs)
  BY <1>7 DEF Observing
<1>9. \A f \in Fields : scratch'[f] = scratch[f]
  <2>1. scratch' = [scratch EXCEPT !.options = << >>, !.symbol_list = << >>]
    BY Zenon DEF OptimalPolicy, None
  <2>2. Fields \subseteq DOMAIN scratch
    BY <1>1, ReadOn
  <2>3. \A f \in Fields : f \notin {"options", "symbol_list"}
    BY DEF Fields, VarFields, CovFields
  <2> QED BY <2>1, <2>2, <2>3
<1> QED BY <1>1, <1>2, <1>5, <1>6, <1>7, <1>8, <1>9 DEF QuietStep

\* Every handler.
LEMMA ParseRead ==
    ASSUME PiecesInv, file \in DOMAIN Files, CovRead, Parse, phase' = "parsing" PROVE CovRead'
<1>1. PICK t \in Pieces : Handlers(t)
  BY DEF Parse, Pieces
<1>2. QuietStep(t) => CovRead'
  BY QuietKeeps
<1>3. CASE AddVarShock(t) \/ AddCovarShock(t)
  BY <1>3, CalibrationKeeps
<1>4. CASE EndShocks(t) /\ t.kind = "shocks"
  BY <1>4, EndShocksKeeps
<1>5. CASE \/ DeclareSymbol(t) \/ AddPredeterminedVariable(t) \/ AddModelVariable(t)
           \/ AddExpressionVariable(t) \/ ModelLocalVariable(t) \/ ChangeType(t)
           \/ AddSteadyStateModelEqual(t) \/ AddVarobs(t) \/ ModelFlag(t)
           \/ ExternalFunction(t) \/ CallFunction(t)
  BY <1>2, <1>5, DeclarationsQuiet
<1>6. CASE \/ InitVal(t) \/ HistVal(t) \/ HomotopyVal(t) \/ AddDetShock(t)
           \/ AddRow(t) \/ AddInSymbolList(t) \/ AddEstimatedParamsElement(t)
           \/ SetTrendElement(t) \/ SetOptimWeight(t) \/ SetOptimCovariance(t) \/ AddMcFilename(t)
           \/ BeginSvarIdentification(t) \/ AddRestrictionInEquation(t) \/ AddCholesky(t)
           \/ SubsampleRange(t) \/ Shape(t) \/ Variance(t) \/ OptionNum(t) \/ OptimOptions(t)
  BY <1>2, <1>6, ElementsQuiet
<1>7. CASE CombineLagAndRestriction(t) \/ AddRestriction(t) \/ OptionSymbolList(t)
  BY <1>2, <1>7, CombinationsQuiet
<1>8. CASE \/ EndSimulation(t) \/ EndSteady(t) \/ Forecast(t) \/ EstimationData(t)
           \/ RunEstimation(t) \/ SetTrends(t) \/ EndOptimWeights(t) \/ RunOsr(t)
           \/ RunModelComparison(t) \/ PlannerObjective(t) \/ RunBvar(t) \/ RunForecasts(t)
           \/ EndEstimatedParams(t)
  BY <1>2, <1>8, TasksQuiet
<1>9. CASE \/ InitParam(t) \/ EndConditions(t) \/ (EndShocks(t) /\ t.kind # "shocks") \/ DoSigmaE(t)
           \/ EndSvarIdentification(t) \/ Svar(t) \/ MarkovSwitching(t)
           \/ SetPrior(t) \/ SetOptions(t) \/ Copy(t) \/ LoadParams(t)
  BY <1>2, <1>9, EndingsQuiet
<1>10. CASE SetSubsamples(t) \/ CopySubsamples(t)
  BY <1>2, <1>10, SubsamplesQuiet
<1>11. CASE OptimalPolicy(t)
  BY <1>2, <1>11, PolicyQuiet
<1>12. CASE PlannerDiscount(t)
  BY <1>2, <1>12, DiscountQuiet
<1> QED BY <1>1, <1>3, <1>4, <1>5, <1>6, <1>7, <1>8, <1>9, <1>10, <1>11, <1>12 DEF Handlers

-------------------------------------------------------------------------------
(*****************************************************************************)
(* The covariances, when the text has been read                              *)
(*****************************************************************************)

(* After the last piece. *)
ReadInv ==
    phase \notin {"parsing", "error"} =>
      /\ "varobs" \in DOMAIN mod_file /\ text \in Seq(Pieces)
      /\ ProperText(text) => Reading(symbols, mod_file.varobs, text, statements) /\ OpenCal(text) = {}
CovInv == file \in DOMAIN Files /\ PiecesInv /\ (phase = "parsing" => CovRead) /\ ReadInv

\* Before the first piece.
LEMMA InitRead == Init => CovInv
<1>. SUFFICES ASSUME Init PROVE CovInv
  OBVIOUS
<1>1. /\ text = << >> /\ scratch = Empty /\ statements = << >> /\ file \in DOMAIN Files /\ phase = "parsing"
      /\ symbols = Files[file].declared
      /\ "varobs" \in DOMAIN mod_file /\ mod_file.varobs = Files[file].varobs
  BY DEF Init
<1>2. DeclaredOnce(Files[file])
  BY <1>1, FilesAssumption
<1>3. IsTable(symbols)
  BY <1>1, <1>2 DEF DeclaredOnce, IsTable, IsList
<1>4. \A n \in Range(mod_file.varobs) : Named(symbols, n, "endo")
  <2>1. ASSUME NEW n \in Range(Files[file].varobs) PROVE Named(symbols, n, "endo")
    <3>1. PICK i \in DOMAIN symbols : symbols[i] = <<n, "endo">>
      BY <1>1, <1>2 DEF DeclaredOnce
    <3> QED BY <3>1 DEF Named
  <2> QED BY <1>1, <2>1
<1>5. Len(text) = 0 /\ 1..0 = {} /\ Len(statements) = 0
  BY <1>1
<1>6. Cal(text) = {} /\ BlockEnds(text) = {} /\ OpenCal(text) = {}
  BY <1>5 DEF Cal, BlockEnds, OpenCal
<1>7. Says(symbols, text, OpenCal(text), scratch)
  <2>1. \A f \in Fields : DOMAIN Empty[f] = {}
    BY DEF Fields, VarFields, CovFields, Empty, None
  <2> QED BY <1>1, <1>6, <2>1 DEF Says
<1>8. Laid(symbols, text, statements, [j \in {} |-> 0])
  BY <1>5, <1>6 DEF Laid
<1>9. IsList(statements)
  <2>1. << >> \in Seq({})
    OBVIOUS
  <2> QED BY <1>1, <2>1 DEF IsList
<1>10. CovRead
  BY <1>1, <1>3, <1>4, <1>6, <1>7, <1>8, <1>9 DEF CovRead, Reading, AllTyped, AllClosed, Buffering
<1> QED BY <1>1, <1>10, InitPieces DEF CovInv, ReadInv

\* What a larger table says of the same text.
LEMMA SaysGrown ==
    ASSUME NEW tb, NEW tc, Grown(tb, tc), NEW ob, NEW tx, AllTyped(tb, ob, tx), NEW I, I \subseteq Cal(tx),
           NEW b, Says(tb, tx, I, b)
    PROVE  Says(tc, tx, I, b)
<1>1. ASSUME NEW i \in I PROVE KeyOf(tc, tx[i]) = KeyOf(tb, tx[i])
  <2>1. i \in Cal(tx) /\ tx[i].op \in CalOps
    BY DEF Cal
  <2>2. PairTyped(tb, ob, tx[i])
    BY <2>1 DEF AllTyped
  <2> QED BY <2>1, <2>2, GrownKeys
<1> QED BY <1>1 DEF Says

\* The table grows when the file is transformed, and a statement may be put before the others.
LEMMA LaidGrown ==
    ASSUME NEW tb, NEW tc, Grown(tb, tc), NEW ob, NEW tx, AllTyped(tb, ob, tx), NEW sts, NEW at, Laid(tb, tx, sts, at)
    PROVE  Laid(tc, tx, sts, at)
<1>1. ASSUME NEW j \in BlockEnds(tx) PROVE Says(tc, tx, Block(tx, j), sts[at[j]].of)
  <2>1. Block(tx, j) \subseteq Cal(tx)
    BY DEF Block
  <2>2. Says(tb, tx, Block(tx, j), sts[at[j]].of)
    BY DEF Laid
  <2> QED BY <2>1, <2>2, SaysGrown
<1> QED BY <1>1 DEF Laid

LEMMA LaidAfter ==
    ASSUME NEW tb, NEW tx, NEW sts, IsList(sts), NEW at, Laid(tb, tx, sts, at),
           NEW s, s.kind \notin {"shocks", "Sigma_e"}, NEW st, st = <<s>> \o sts
    PROVE  IsList(st) /\ \E bt : Laid(tb, tx, st, bt)
<1>1. PICK S : sts \in Seq(S)
  BY DEF IsList
<1>2. /\ st \in Seq(S \cup {s}) /\ Len(st) = Len(sts) + 1 /\ Len(sts) \in Nat /\ st[1] = s
      /\ \A m \in 1..Len(sts) : st[m + 1] = sts[m]
  <2>1. <<s>> \in Seq(S \cup {s}) /\ sts \in Seq(S \cup {s}) /\ Len(<<s>>) = 1 /\ Len(sts) \in Nat
    BY <1>1
  <2> QED BY <2>1
<1>. DEFINE bt == [j \in BlockEnds(tx) |-> at[j] + 1]
<1>3. \A j \in BlockEnds(tx) : at[j] \in 1..Len(sts)
  BY DEF Laid
<1>4. bt \in [BlockEnds(tx) -> 1..Len(st)]
  BY <1>2, <1>3
<1>5. \A j, k \in BlockEnds(tx) : j < k => bt[j] < bt[k]
  BY <1>2, <1>3 DEF Laid
<1>6. \A m \in 1..Len(st) : st[m].kind \in {"shocks", "Sigma_e"} => m - 1 \in 1..Len(sts) /\ st[m] = sts[m - 1]
  <2>1. ASSUME NEW m \in 1..Len(st), st[m].kind \in {"shocks", "Sigma_e"} PROVE m - 1 \in 1..Len(sts) /\ st[m] = sts[m - 1]
    <3>1. m # 1
      BY <1>2, <2>1
    <3>2. m - 1 \in 1..Len(sts) /\ m = (m - 1) + 1
      BY <1>2, <3>1
    <3> QED BY <1>2, <3>2
  <2> QED BY <2>1
<1>7. \A m \in 1..Len(st) : st[m].kind = "shocks" => \E j \in BlockEnds(tx) : bt[j] = m
  <2>1. ASSUME NEW m \in 1..Len(st), st[m].kind = "shocks" PROVE \E j \in BlockEnds(tx) : bt[j] = m
    <3>1. m - 1 \in 1..Len(sts) /\ sts[m - 1].kind = "shocks"
      BY <1>6, <2>1
    <3>2. PICK j \in BlockEnds(tx) : at[j] = m - 1
      BY <3>1 DEF Laid
    <3> QED BY <3>1, <3>2
  <2> QED BY <2>1
<1>8. \A m \in 1..Len(st) : st[m].kind = "Sigma_e" => \E j \in 1..Len(tx) : tx[j].kind = "Sigma_e"
  BY <1>6 DEF Laid
<1>9. \A j \in BlockEnds(tx) : st[bt[j]].kind = "shocks" /\ Says(tb, tx, Block(tx, j), st[bt[j]].of)
  BY <1>2, <1>3 DEF Laid
<1>10. Laid(tb, tx, st, bt)
  <2>. HIDE DEF bt
  <2> QED BY <1>4, <1>5, <1>7, <1>8, <1>9 DEF Laid
<1>11. IsList(st)
  BY <1>2 DEF IsList
<1> QED BY <1>10, <1>11

LEMMA ReadGrown ==
    ASSUME NEW tb, NEW tc, Grown(tb, tc), NEW ob, NEW tx, NEW sts, NEW st, Reading(tb, ob, tx, sts),
           st = sts \/ \E s : s.kind \notin {"shocks", "Sigma_e"} /\ st = <<s>> \o sts
    PROVE  Reading(tc, ob, tx, st)
<1>1. /\ IsTable(tc) /\ AllTyped(tb, ob, tx) /\ AllClosed(tx) /\ IsList(sts)
  BY DEF Reading, Grown
<1>2. AllTyped(tc, ob, tx)
  <2>1. \A n \in Range(ob) : Named(tc, n, "endo")
    BY <1>1, GrownKnows DEF AllTyped
  <2>2. ASSUME NEW i \in Cal(tx) PROVE PairTyped(tc, ob, tx[i]) /\ InField(tx[i])
    <3>1. tx[i].op \in CalOps /\ PairTyped(tb, ob, tx[i]) /\ InField(tx[i])
      BY <1>1 DEF AllTyped, Cal
    <3> QED BY <3>1, GrownKeys
  <2> QED BY <2>1, <2>2 DEF AllTyped
<1>3. PICK at : Laid(tb, tx, sts, at)
  BY DEF Reading
<1>4. Laid(tc, tx, sts, at)
  BY <1>1, <1>3, LaidGrown
<1>5. IsList(st) /\ \E bt : Laid(tc, tx, st, bt)
  <2>1. CASE st = sts
    BY <1>1, <1>4, <2>1
  <2>2. CASE st # sts
    <3>1. PICK s : s.kind \notin {"shocks", "Sigma_e"} /\ st = <<s>> \o sts
      BY <2>2
    <3> QED BY <1>1, <1>4, <3>1, LaidAfter
  <2> QED BY <2>1, <2>2
<1> QED BY <1>1, <1>2, <1>5 DEF Reading

\* The file is transformed.
LEMMA TransformRead ==
    ASSUME ReadInv, TransformFile PROVE ReadInv'
<1>1. /\ phase = "transforming" /\ text' = text /\ mod_file' = mod_file
      /\ symbols' = symbols \/ symbols' = EnterIn(symbols, Weight, "param")
      /\ statements' = statements \/ \E s : s.kind \notin {"shocks", "Sigma_e"} /\ statements' = <<s>> \o statements
  <2>1. PICK s : s = [kind |-> "init_param", of |-> [id |-> Len(symbols'), value |-> notes.calibrated]]
    OBVIOUS
  <2>2. s.kind \notin {"shocks", "Sigma_e"}
    BY <2>1
  <2>3. statements' = statements \/ statements' = <<s>> \o statements
    BY <2>1 DEF TransformFile
  <2> QED BY <2>2, <2>3 DEF TransformFile, Enter
<1>2. ASSUME ProperText(text) PROVE Reading(symbols', mod_file.varobs, text, statements') /\ OpenCal(text) = {}
  <2>1. Reading(symbols, mod_file.varobs, text, statements) /\ OpenCal(text) = {}
    BY <1>1, <1>2 DEF ReadInv
  <2>2. IsTable(symbols)
    BY <2>1 DEF Reading
  <2>3. Grown(symbols, symbols')
    BY <1>1, <2>2, EnterGrows, GrownSelf
  <2>4. PICK ob : ob = mod_file.varobs
    OBVIOUS
  <2> QED BY <1>1, <2>1, <2>3, <2>4, ReadGrown
<1>3. "varobs" \in DOMAIN mod_file /\ text \in Seq(Pieces)
  BY <1>1 DEF ReadInv
<1>4. \A P : (text \in Seq(P))' <=> text \in Seq(P)
  BY <1>1
<1>5. Pieces' = Pieces
  BY DEF TransformFile, Pieces
<1> QED BY <1>1, <1>2, <1>3, <1>5 DEF ReadInv, ProperText

\* The last piece.
LEMMA EndOfFileRead ==
    ASSUME PiecesInv, CovRead, EndOfFile PROVE ReadInv'
<1>1. phase = "parsing" /\ open = {} /\ UNCHANGED parsed
  BY DEF EndOfFile
<1>2. /\ text' = text /\ mod_file' = mod_file /\ symbols' = symbols /\ statements' = statements /\ file' = file
  BY <1>1 DEF parsed
<1>3. text \in Seq(Pieces) /\ Pieces' = Pieces
  BY <1>1, <1>2 DEF PiecesInv, Pieces
<1>4. ProperText(text) => Reading(symbols, mod_file.varobs, text, statements) /\ OpenCal(text) = {}
  BY <1>1 DEF CovRead, Buffering
<1> QED BY <1>2, <1>3, <1>4 DEF ReadInv, CovRead, ProperText

\* Every step.
LEMMA NextRead == ASSUME CovInv, [Next]_vars PROVE CovInv'
<1>1. CASE Parse
  <2>1. phase = "parsing" /\ phase' \in {"parsing", "error"} /\ file' = file
    BY <1>1, ParsePhase
  <2>2. PiecesInv'
    BY <1>1, ParseHolds DEF CovInv
  <2>3. phase' = "parsing" => CovRead'
    BY <1>1, <2>1, ParseRead DEF CovInv
  <2> QED BY <2>1, <2>2, <2>3 DEF CovInv, ReadInv
<1>2. CASE EndOfFile \/ CheckStatements \/ CheckFile \/ TransformFile \/ ComputeFile \/ WriteStatement
  <2>1. file' = file /\ phase' # "parsing"
    BY <1>2 DEF EndOfFile, CheckStatements, CheckFile, TransformFile, ComputeFile, WriteStatement, parsed
  <2>2. ReadInv'
    <3>1. CASE EndOfFile
      BY <3>1, EndOfFileRead DEF CovInv, EndOfFile
    <3>2. CASE TransformFile
      BY <3>2, TransformRead DEF CovInv
    <3>3. CASE CheckStatements \/ CheckFile \/ ComputeFile \/ WriteStatement
      <4>1. UNCHANGED parsed /\ phase \notin {"parsing", "error"}
        BY <3>3 DEF CheckStatements, CheckFile, ComputeFile, WriteStatement
      <4> QED BY <4>1 DEF CovInv, ReadInv, parsed, ProperText, Pieces
    <3> QED BY <1>2, <3>1, <3>2, <3>3
  <2> QED BY <2>1, <2>2 DEF CovInv, PiecesInv
<1>3. CASE UNCHANGED vars
  <2>1. UNCHANGED <<file, symbols, mod_file, text, statements, phase, scratch, open>>
    BY <1>3 DEF vars, parsed
  <2>2. PiecesInv'
    BY <1>3, PiecesUnchanged DEF CovInv
  <2>3. CovRead <=> CovRead'
    BY <2>1 DEF CovRead, ProperText
  <2>4. ReadInv'
    BY <2>1 DEF CovInv, ReadInv, ProperText, Pieces
  <2> QED BY <2>1, <2>2, <2>3, <2>4 DEF CovInv
<1> QED BY <1>1, <1>2, <1>3 DEF Next

-------------------------------------------------------------------------------
(*****************************************************************************)
(* The covariances, when the script is written                               *)
(*****************************************************************************)

(* Symbols whose covariance the workspace has: of shocks, or of observed variables. *)
Sort(i, k) ==
    /\ i \in DOMAIN symbols /\ k \in DOMAIN symbols
    /\ \/ symbols[i][2] = "exo" /\ symbols[k][2] = "exo"
       \/ /\ symbols[i][2] = "endo" /\ symbols[i][1] \in Range(mod_file.varobs)
          /\ symbols[k][2] = "endo" /\ symbols[k][1] \in Range(mod_file.varobs)

\* Symbols of one type are numbered, without gaps.
LEMMA NumbersApart ==
    ASSUME IsList(symbols), NEW i \in DOMAIN symbols
    PROVE  /\ Tsid(i) \in 1..Width(symbols[i][2])
           /\ \A k \in DOMAIN symbols : symbols[i][2] = symbols[k][2] /\ Tsid(i) = Tsid(k) => i = k
<1>. DEFINE Until(k) == {j \in 1..k : symbols[j][2] = symbols[k][2]}
            All == {j \in DOMAIN symbols : symbols[j][2] = symbols[i][2]}
<1>1. Len(symbols) \in Nat /\ DOMAIN symbols = 1..Len(symbols)
  BY DEF IsList
<1>2. IsFiniteSet(1..Len(symbols)) /\ IsFiniteSet(All) /\ Cardinality(All) \in Nat
  <2>1. IsFiniteSet(1..Len(symbols))
    BY <1>1, FS_Interval
  <2>2. All \in SUBSET (1..Len(symbols))
    BY <1>1
  <2>3. IsFiniteSet(All)
    BY <2>1, <2>2, FS_Subset
  <2> QED BY <2>1, <2>3, FS_CardinalityType
<1>3. \A k \in DOMAIN symbols : IsFiniteSet(Until(k)) /\ Cardinality(Until(k)) \in Nat /\ k \in Until(k)
  <2>1. ASSUME NEW k \in DOMAIN symbols PROVE IsFiniteSet(Until(k)) /\ k \in Until(k)
    <3>1. Until(k) \in SUBSET (1..Len(symbols)) /\ k \in Until(k)
      BY <1>1
    <3> QED BY <1>2, <3>1, FS_Subset
  <2> QED BY <2>1, FS_CardinalityType
<1>4. \A k \in DOMAIN symbols : Tsid(k) = Cardinality(Until(k))
  BY DEF Tsid
<1>5. Tsid(i) \in 1..Width(symbols[i][2])
  <2>1. Until(i) \in SUBSET All /\ Until(i) # {}
    BY <1>1, <1>3
  <2>2. Cardinality(Until(i)) =< Cardinality(All) /\ Cardinality(Until(i)) # 0
    BY <1>2, <1>3, <2>1, FS_Subset, FS_EmptySet
  <2>3. Width(symbols[i][2]) = Cardinality(All)
    BY DEF Width
  <2>4. \A x, y \in Nat : x =< y /\ x # 0 => x \in 1..y
    OBVIOUS
  <2> HIDE DEF Until, All
  <2> QED BY <1>2, <1>3, <1>4, <2>2, <2>3, <2>4
<1>6. ASSUME NEW k \in DOMAIN symbols, NEW l \in DOMAIN symbols, symbols[k][2] = symbols[l][2], Tsid(k) = Tsid(l), k < l
      PROVE  FALSE
  <2>1. Until(k) \in SUBSET Until(l) /\ l \notin Until(k)
    BY <1>1, <1>6
  <2>2. Until(k) = Until(l)
    BY <1>3, <1>4, <1>6, <2>1, FS_Subset
  <2> QED BY <1>3, <2>1, <2>2
<1>7. ASSUME NEW k \in DOMAIN symbols, symbols[i][2] = symbols[k][2], Tsid(i) = Tsid(k) PROVE i = k
  <2>1. ~(i < k) /\ ~(k < i)
    BY <1>6, <1>7
  <2> QED BY <1>1, <2>1
<1> QED BY <1>5, <1>7

LEMMA NumbersMet ==
    ASSUME IsList(symbols), NEW type, NEW c \in 1..Width(type)
    PROVE  \E i \in DOMAIN symbols : symbols[i][2] = type /\ Tsid(i) = c
<1>. DEFINE All == {j \in DOMAIN symbols : symbols[j][2] = type}
            f == [i \in All |-> Tsid(i)]
<1>1. Len(symbols) \in Nat /\ DOMAIN symbols = 1..Len(symbols)
  BY DEF IsList
<1>2. IsFiniteSet(All) /\ Cardinality(All) \in Nat /\ Width(type) = Cardinality(All)
  <2>1. IsFiniteSet(1..Len(symbols))
    BY <1>1, FS_Interval
  <2>2. All \in SUBSET (1..Len(symbols))
    BY <1>1
  <2>3. IsFiniteSet(All)
    BY <2>1, <2>2, FS_Subset
  <2> QED BY <2>3, FS_CardinalityType DEF Width
<1>3. f \in [All -> 1..Width(type)]
  BY NumbersApart
<1>4. \A a, b \in All : f[a] = f[b] => a = b
  BY NumbersApart
<1>5. IsFiniteSet(1..Width(type)) /\ Cardinality(1..Width(type)) = Cardinality(All)
  BY <1>2, FS_Interval
<1>6. f \in Injection(All, 1..Width(type))
  <2>. HIDE DEF f
  <2> QED BY <1>3, <1>4 DEF Injection, IsInjective
<1>7. f \in Surjection(All, 1..Width(type))
  <2>. HIDE DEF f
  <2> QED BY <1>5, <1>6, FS_Injection
<1>8. \E i \in All : f[i] = c
  <2>. HIDE DEF f
  <2> QED BY <1>7 DEF Surjection
<1> QED BY <1>8

\* The place of a name among the observed ones.
LEMMA ObservedPlace ==
    ASSUME NEW i, symbols[i][1] \in Range(mod_file.varobs)
    PROVE  ObservedIndex(i) \in DOMAIN mod_file.varobs /\ mod_file.varobs[ObservedIndex(i)] = symbols[i][1]
<1>1. \E k \in DOMAIN mod_file.varobs : mod_file.varobs[k] = symbols[i][1]
  BY DEF Range
<1> QED BY <1>1 DEF ObservedIndex

\* Triples with equal parts.
LEMMA Triples ==
    ASSUME NEW x, NEW y, NEW z, NEW u, NEW v, NEW t, <<x, y, z>> = <<u, v, t>> PROVE x = u /\ y = v /\ z = t
OBVIOUS

\* Two covariances are not in one cell.
LEMMA CellsApart ==
    ASSUME IsTable(symbols), NEW i, NEW k, Sort(i, k), NEW a, NEW b, Sort(a, b), Cell(i, k) = Cell(a, b)
    PROVE  i = a /\ k = b
<1>1. IsList(symbols) /\ i \in DOMAIN symbols /\ k \in DOMAIN symbols /\ a \in DOMAIN symbols /\ b \in DOMAIN symbols
  BY DEF IsTable, Sort
<1>2. PICK x, y, u, v : x = Tsid(i) /\ y = Tsid(k) /\ u = Tsid(a) /\ v = Tsid(b)
  OBVIOUS
<1>3. PICK p, q, r, s : /\ p = ObservedIndex(i) /\ q = ObservedIndex(k)
                        /\ r = ObservedIndex(a) /\ s = ObservedIndex(b)
  OBVIOUS
<1>4. Cell(i, k) = IF symbols[i][2] = "exo" THEN <<"Sigma_e", x, y>> ELSE <<"H", p, q>>
  BY <1>2, <1>3 DEF Cell
<1>5. Cell(a, b) = IF symbols[a][2] = "exo" THEN <<"Sigma_e", u, v>> ELSE <<"H", r, s>>
  BY <1>2, <1>3 DEF Cell
<1>6. CASE symbols[i][2] = "exo"
  <2>1. symbols[a][2] = "exo"
    <3>1. symbols[a][2] # "exo" => <<"Sigma_e", x, y>> = <<"H", r, s>>
      BY <1>4, <1>5, <1>6
    <3> QED BY <3>1, Triples
  <2>2. <<"Sigma_e", x, y>> = <<"Sigma_e", u, v>>
    BY <1>4, <1>5, <1>6, <2>1
  <2>3. x = u /\ y = v
    BY <2>2, Triples
  <2>4. symbols[k][2] = "exo" /\ symbols[b][2] = "exo"
    BY <1>6, <2>1 DEF Sort
  <2> QED BY <1>1, <1>2, <1>6, <2>1, <2>3, <2>4, NumbersApart
<1>7. CASE symbols[i][2] # "exo"
  <2>1. symbols[a][2] # "exo"
    <3>1. symbols[a][2] = "exo" => <<"H", p, q>> = <<"Sigma_e", u, v>>
      BY <1>4, <1>5, <1>7
    <3> QED BY <3>1, Triples
  <2>2. <<"H", p, q>> = <<"H", r, s>>
    BY <1>4, <1>5, <1>7, <2>1
  <2>3. p = r /\ q = s
    BY <2>2, Triples
  <2>4. /\ symbols[i][1] \in Range(mod_file.varobs) /\ symbols[k][1] \in Range(mod_file.varobs)
        /\ symbols[a][1] \in Range(mod_file.varobs) /\ symbols[b][1] \in Range(mod_file.varobs)
    BY <1>7, <2>1 DEF Sort
  <2>5. symbols[i][1] = symbols[a][1] /\ symbols[k][1] = symbols[b][1]
    <3>1. mod_file.varobs[p] = symbols[i][1] /\ mod_file.varobs[r] = symbols[a][1]
      BY <1>3, <2>4, ObservedPlace
    <3>2. mod_file.varobs[q] = symbols[k][1] /\ mod_file.varobs[s] = symbols[b][1]
      BY <1>3, <2>4, ObservedPlace
    <3> QED BY <2>3, <3>1, <3>2
  <2> QED BY <1>1, <2>5 DEF IsTable
<1> QED BY <1>6, <1>7

\* A cell is a key of one of the two matrices.
LEMMA CellFollowed ==
    ASSUME NEW i, NEW k PROVE Followed(Cell(i, k)) /\ Cell(i, k)[1] # "options_"
BY DEF Cell, Followed

(* What the blocks up to piece e of the text say of two names, and what their cell holds then. *)
CovarianceIn(x, n, m) ==
    IF text[x].into = "covar_shocks" THEN <<"value", text[x].value>>
    ELSE <<"corr", text[x].value, {VarianceAt(n, Closer(x)), VarianceAt(m, Closer(x))}>>
CovarianceFrom(P, n, m) == IF P = {} THEN <<"value", 0>> ELSE CovarianceIn(CHOOSE x \in LastBlock(P) : TRUE, n, m)
CellAt(n, m, e) == IF n = m THEN VarianceFrom(Upto({n}, e)) ELSE CovarianceFrom(Upto({n, m}, e), n, m)

(* The block that ends with piece j is the next one after those up to e. *)
NextAfter(e, j) == j \in BlockEnds(text) /\ \A k \in BlockEnds(text) : k =< e <=> k < j

(* A text that has been read: every piece that calibrates something is in a block. *)
Whole == /\ \E P : text \in Seq(P)
         /\ ProperText(text) /\ AllClosed(text) /\ OpenCal(text) = {}
         /\ \A x \in Cal(text) : text[x].into \in IF text[x].op = "var_shock" THEN VarFields ELSE CovFields

\* A piece that calibrates something is one of the block that it ends with.
LEMMA InBlock ==
    ASSUME Whole, NEW x \in Cal(text)
    PROVE  Closer(x) \in BlockEnds(text) /\ \A j : x \in Block(text, j) <=> j = Closer(x)
<1>1. PICK P : text \in Seq(P)
  BY DEF Whole
<1>2. x \in 1..Len(text) /\ x \notin CurrentIn(text)
  BY DEF Cal, Whole, OpenCal
<1>3. PICK j \in BlockEnds(text) : ClosedBy(text, x, j)
  BY <1>2 DEF Whole, AllClosed
<1>4. Closer(x) = j
  BY <1>1, <1>2, <1>3, CloserOf
<1>5. \A k : ClosedBy(text, x, k) => k = j
  BY <1>1, <1>2, <1>3, ClosedOnce
<1> QED BY <1>3, <1>4, <1>5 DEF Block

\* What calibrates a pair of names.
LEMMA PairOf ==
    ASSUME Whole, NEW p, NEW x
    PROVE  x \in Calibrations(p) <=> x \in Cal(text) /\ Pair(text[x]) = p
<1>1. PICK P : text \in Seq(P)
  BY DEF Whole
<1>2. DOMAIN text = 1..Len(text)
  BY <1>1
<1> QED BY <1>2 DEF Calibrations, Cal, CalOps

\* A variance is of one name, a covariance of two.
LEMMA PairNames ==
    ASSUME Whole, NEW n, NEW m, NEW x \in Cal(text), Pair(text[x]) = {n, m}
    PROVE  text[x].op = "var_shock" <=> n = m
<1>1. text[x].op # "var_shock" => text[x].name # text[x].name2
  BY DEF Whole, ProperText, Cal, CalOps
<1> QED BY <1>1 DEF Pair

\* The next block adds its own pieces to those before it.
LEMMA NextBlock ==
    ASSUME Whole, NEW e, NEW j, NextAfter(e, j), NEW p, NEW x
    PROVE  x \in Upto(p, j) <=> x \in Upto(p, e) \/ (x \in Block(text, j) /\ Pair(text[x]) = p)
<1>1. ASSUME NEW y \in Calibrations(p) PROVE Closer(y) \in BlockEnds(text) /\ (Closer(y) = j <=> y \in Block(text, j))
  <2>1. y \in Cal(text)
    BY <1>1, PairOf
  <2> QED BY <2>1, InBlock
<1>2. /\ \A k \in BlockEnds(text) : k \in Nat
      /\ j \in BlockEnds(text) /\ \A k \in BlockEnds(text) : k =< e <=> k < j
  BY DEF BlockEnds, NextAfter
<1>3. x \in Block(text, j) => x \in Cal(text)
  BY DEF Block
<1>4. x \in Block(text, j) /\ Pair(text[x]) = p => x \in Calibrations(p)
  BY <1>3, PairOf
<1>5. x \in Calibrations(p) => Pair(text[x]) = p
  BY PairOf
<1>6. x \in Calibrations(p) => (Closer(x) =< j <=> Closer(x) =< e \/ Closer(x) = j)
  BY <1>1, <1>2
<1> QED BY <1>1, <1>4, <1>5, <1>6 DEF Upto

\* A pair of names that the block does not mention.
LEMMA OldPair ==
    ASSUME Whole, NEW e, NEW j, NextAfter(e, j), NEW p,
           \A x \in Block(text, j) : Pair(text[x]) # p
    PROVE  Upto(p, j) = Upto(p, e)
<1>1. \A x : x \in Upto(p, j) <=> x \in Upto(p, e)
  BY NextBlock
<1> QED BY <1>1

(* Piece x says what is true of the pair p with the block that ends with j. *)
Counts(x, p, j) == LastBlock(Upto(p, j)) = {x} /\ x \in Upto(p, j) /\ Closer(x) = j

\* One that it mentions: it is the piece that counts.
LEMMA NewPair ==
    ASSUME Whole, NEW e, NEW j, NextAfter(e, j), NEW p,
           NEW x \in Block(text, j), Pair(text[x]) = p,
           \A y \in Block(text, j) : Pair(text[y]) = p => y = x
    PROVE  Counts(x, p, j)
<1>1. x \in Cal(text) /\ Closer(x) = j
  <2>1. x \in Cal(text)
    BY DEF Block
  <2> QED BY <2>1, InBlock
<1>2. x \in Upto(p, j)
  BY NextBlock
<1>3. j \in Nat
  BY DEF BlockEnds, NextAfter
<1>4. \A y \in Upto(p, j) : Closer(y) =< j
  BY DEF Upto
<1>5. ASSUME NEW y \in Upto(p, j), Closer(x) =< Closer(y) PROVE y = x
  <2>1. y \in Cal(text) /\ Pair(text[y]) = p
    <3>1. y \in Calibrations(p)
      BY DEF Upto
    <3> QED BY <3>1, PairOf
  <2>2. Closer(y) \in BlockEnds(text)
    BY <2>1, InBlock
  <2>3. Closer(y) \in Nat
    BY <2>2 DEF BlockEnds
  <2>4. Closer(y) = j
    <3>1. Closer(y) =< j /\ j =< Closer(y)
      BY <1>1, <1>4, <1>5
    <3> QED BY <1>3, <2>3, <3>1
  <2>5. y \in Block(text, j)
    BY <2>1, <2>4, InBlock
  <2> QED BY <2>1, <2>5
<1>6. \A k \in Upto(p, j) : Closer(k) =< Closer(x)
  BY <1>1, <1>4
<1>7. \A y : y \in LastBlock(Upto(p, j)) <=> y = x
  <2>1. x \in LastBlock(Upto(p, j))
    BY <1>2, <1>6 DEF LastBlock
  <2>2. ASSUME NEW y \in LastBlock(Upto(p, j)) PROVE y = x
    BY <1>2, <1>5, <2>2 DEF LastBlock
  <2> QED BY <2>1, <2>2
<1> QED BY <1>1, <1>2, <1>7 DEF Counts

\* The variance of a name is that of its latest piece.
LEMMA VarianceOf == ASSUME NEW n, NEW j PROVE VarianceAt(n, j) = VarianceFrom(Upto({n}, j))
BY DEF VarianceAt

LEMMA OneName == ASSUME NEW n PROVE {n, n} = {n}
OBVIOUS

\* What the cell holds when the block does not mention the names, and when it does.
LEMMA OldCell ==
    ASSUME NEW e, NEW j, NEW n, NEW m, Upto({n, m}, j) = Upto({n, m}, e)
    PROVE  CellAt(n, m, j) = CellAt(n, m, e)
<1>1. n = m => Upto({n}, j) = Upto({n}, e)
  BY OneName
<1> QED BY <1>1 DEF CellAt

NewIn(x, n, m, j) == IF n = m THEN VarianceIn(text[x])
                     ELSE IF text[x].into = "covar_shocks" THEN <<"value", text[x].value>>
                     ELSE <<"corr", text[x].value, {VarianceAt(n, j), VarianceAt(m, j)}>>
LEMMA NewCell ==
    ASSUME NEW j, NEW n, NEW m, NEW p, p = {n, m}, NEW x, Counts(x, p, j)
    PROVE  CellAt(n, m, j) = NewIn(x, n, m, j)
<1>1. PICK U : U = Upto({n, m}, j)
  OBVIOUS
<1>2. U # {} /\ (CHOOSE y \in LastBlock(U) : TRUE) = x /\ Closer(x) = j
  BY <1>1 DEF Counts
<1>3. VarianceFrom(U) = VarianceIn(text[x]) /\ CovarianceFrom(U, n, m) = CovarianceIn(x, n, m)
  BY <1>2 DEF VarianceFrom, CovarianceFrom
<1>4. n = m => Upto({n}, j) = U
  BY <1>1, OneName
<1>5. CellAt(n, m, j) = IF n = m THEN VarianceIn(text[x]) ELSE CovarianceIn(x, n, m)
  BY <1>1, <1>3, <1>4 DEF CellAt
<1> QED BY <1>2, <1>5 DEF CovarianceIn, NewIn

\* On the diagonal it is the variance.
LEMMA DiagonalCell ==
    ASSUME NEW n, NEW j PROVE CellAt(n, n, j) = VarianceAt(n, j)
BY VarianceOf DEF CellAt

(* What the pieces B of the text say is what the buffers o hold. *)
Calibrates(B, o) == /\ IsTable(symbols) /\ AllTyped(symbols, mod_file.varobs, text) /\ Whole
                    /\ B \subseteq Cal(text) /\ Says(symbols, text, B, o)
NameAt(i) == symbols[i][1]

\* A name that has a type is at its place.
LEMMA NamedAt ==
    ASSUME IsTable(symbols), NEW n, NEW type, Named(symbols, n, type)
    PROVE  Id(symbols, n) \in DOMAIN symbols /\ NameAt(Id(symbols, n)) = n /\ symbols[Id(symbols, n)][2] = type
<1>1. PICK i \in DOMAIN symbols : symbols[i][1] = n /\ symbols[i][2] = type
  BY DEF Named
<1>2. Id(symbols, n) = i
  BY <1>1, IdOfName
<1> QED BY <1>1, <1>2 DEF NameAt

\* The key of a piece.
LEMMA KeyNames ==
    ASSUME NEW B, NEW o, Calibrates(B, o), NEW x \in B
    PROVE  \/ /\ text[x].op = "var_shock" /\ text[x].into \in VarFields
              /\ \E i : Sort(i, i) /\ KeyOf(symbols, text[x]) = i /\ Pair(text[x]) = {NameAt(i)}
           \/ /\ text[x].op = "covar_shock" /\ text[x].into \in CovFields
              /\ \E i, k : /\ Sort(i, k) /\ i # k /\ KeyOf(symbols, text[x]) = <<i, k>>
                           /\ Pair(text[x]) = {NameAt(i), NameAt(k)}
<1>1. PICK t : t = text[x]
  OBVIOUS
<1>2. x \in Cal(text) /\ t.op \in CalOps /\ PairTyped(symbols, mod_file.varobs, t) /\ InField(t) /\ IsTable(symbols)
  <2>1. x \in Cal(text)
    BY DEF Calibrates
  <2> QED BY <1>1, <2>1 DEF Calibrates, AllTyped, Cal
<1>3. t.op = "covar_shock" => t.name # t.name2
  BY <1>1, <1>2 DEF Calibrates, Whole, ProperText, Cal
<1>4. ASSUME NEW n \in Pair(t)
      PROVE  /\ Id(symbols, n) \in DOMAIN symbols /\ NameAt(Id(symbols, n)) = n
             /\ (\A m \in Pair(t) : Named(symbols, m, "exo")) => symbols[Id(symbols, n)][2] = "exo"
             /\ (\A m \in Pair(t) : Named(symbols, m, "endo")) => symbols[Id(symbols, n)][2] = "endo"
  <2>1. Named(symbols, n, "exo") \/ Named(symbols, n, "endo")
    BY <1>2 DEF PairTyped
  <2> QED BY <1>2, <2>1, NamedAt
<1>5. ASSUME NEW n \in Pair(t), NEW m \in Pair(t) PROVE Sort(Id(symbols, n), Id(symbols, m))
  BY <1>2, <1>4 DEF PairTyped, Sort, NameAt
<1>6. CASE t.op = "var_shock"
  <2>1. t.name \in Pair(t) /\ Pair(t) = {t.name} /\ KeyOf(symbols, t) = Id(symbols, t.name)
    BY <1>6 DEF Pair, KeyOf
  <2> QED BY <1>1, <1>2, <1>4, <1>5, <1>6, <2>1 DEF InField
<1>7. CASE t.op = "covar_shock"
  <2>1. PICK i, k : i = Id(symbols, t.name) /\ k = Id(symbols, t.name2)
    OBVIOUS
  <2>2. /\ t.name \in Pair(t) /\ t.name2 \in Pair(t) /\ Pair(t) = {t.name, t.name2}
        /\ KeyOf(symbols, t) = <<i, k>>
    BY <1>7, <2>1 DEF Pair, KeyOf
  <2>3. NameAt(i) = t.name /\ NameAt(k) = t.name2 /\ Sort(i, k)
    BY <1>4, <1>5, <2>1, <2>2
  <2>4. i # k
    BY <1>3, <1>7, <2>3
  <2> QED BY <1>1, <1>2, <1>7, <2>2, <2>3, <2>4 DEF InField
<1> QED BY <1>2, <1>6, <1>7 DEF CalOps

\* The variances that the buffers hold.
LEMMA VarianceKey ==
    ASSUME NEW B, NEW o, Calibrates(B, o), NEW i, NEW f \in VarFields, i \in DOMAIN o[f]
    PROVE  Sort(i, i) /\ \E x \in B : text[x].into = f /\ Pair(text[x]) = {NameAt(i)} /\ o[f][i] = text[x].value
<1>1. f \in Fields /\ f \notin CovFields
  BY DEF Fields, VarFields, CovFields
<1>2. PICK x \in B : text[x].into = f /\ i = KeyOf(symbols, text[x])
  BY <1>1 DEF Calibrates, Says
<1>3. o[text[x].into][KeyOf(symbols, text[x])] = text[x].value
  BY DEF Calibrates, Says
<1> QED BY <1>1, <1>2, <1>3, KeyNames

LEMMA VarianceHeld ==
    ASSUME NEW B, NEW o, Calibrates(B, o), NEW i \in DOMAIN symbols, NEW x \in B, Pair(text[x]) = {NameAt(i)}
    PROVE  text[x].into \in VarFields /\ i \in DOMAIN o[text[x].into]
<1>1. x \in Cal(text) /\ Whole /\ IsTable(symbols)
  BY DEF Calibrates
<1>2. text[x].op = "var_shock"
  BY <1>1, PairNames, OneName
<1>3. PICK k : Sort(k, k) /\ KeyOf(symbols, text[x]) = k /\ Pair(text[x]) = {NameAt(k)} /\ text[x].into \in VarFields
  BY <1>2, KeyNames
<1>4. k = i
  <2>1. k \in DOMAIN symbols /\ NameAt(k) = NameAt(i)
    BY <1>3 DEF Sort
  <2> QED BY <1>1, <2>1 DEF IsTable, NameAt
<1>5. text[x].into \in Fields
  BY <1>3 DEF Fields
<1> QED BY <1>3, <1>4, <1>5 DEF Calibrates, Says

\* The covariances.
LEMMA CovarianceKey ==
    ASSUME NEW B, NEW o, Calibrates(B, o), NEW p, NEW f \in CovFields, p \in DOMAIN o[f]
    PROVE  \E i, k : /\ p = <<i, k>> /\ Sort(i, k) /\ i # k
                     /\ \E x \in B : /\ text[x].into = f /\ Pair(text[x]) = {NameAt(i), NameAt(k)}
                                     /\ o[f][p] = text[x].value
<1>1. f \in Fields /\ f \notin VarFields
  BY DEF Fields, VarFields, CovFields
<1>2. PICK x \in B : text[x].into = f /\ p = KeyOf(symbols, text[x])
  BY <1>1 DEF Calibrates, Says
<1>3. o[text[x].into][KeyOf(symbols, text[x])] = text[x].value
  BY DEF Calibrates, Says
<1>4. PICK i, k : /\ Sort(i, k) /\ i # k /\ KeyOf(symbols, text[x]) = <<i, k>>
                  /\ Pair(text[x]) = {NameAt(i), NameAt(k)}
  BY <1>1, <1>2, KeyNames
<1> QED BY <1>2, <1>3, <1>4

LEMMA CovarianceHeld ==
    ASSUME NEW B, NEW o, Calibrates(B, o), NEW i, NEW k, Sort(i, k), i # k,
           NEW x \in B, Pair(text[x]) = {NameAt(i), NameAt(k)}
    PROVE  /\ text[x].into \in CovFields
           /\ <<i, k>> \in DOMAIN o[text[x].into] \/ <<k, i>> \in DOMAIN o[text[x].into]
<1>1. x \in Cal(text) /\ Whole /\ IsTable(symbols) /\ i \in DOMAIN symbols /\ k \in DOMAIN symbols
  BY DEF Calibrates, Sort
<1>2. NameAt(i) # NameAt(k)
  BY <1>1 DEF IsTable, NameAt
<1>3. text[x].op # "var_shock"
  BY <1>1, <1>2, PairNames
<1>4. PICK a, b : /\ Sort(a, b) /\ a # b /\ KeyOf(symbols, text[x]) = <<a, b>>
                  /\ Pair(text[x]) = {NameAt(a), NameAt(b)} /\ text[x].into \in CovFields
  BY <1>3, KeyNames
<1>5. (a = i /\ b = k) \/ (a = k /\ b = i)
  <2>1. a \in DOMAIN symbols /\ b \in DOMAIN symbols
    BY <1>4 DEF Sort
  <2>2. (NameAt(a) = NameAt(i) /\ NameAt(b) = NameAt(k)) \/ (NameAt(a) = NameAt(k) /\ NameAt(b) = NameAt(i))
    <3>1. PICK p, q, r, s : p = NameAt(a) /\ q = NameAt(b) /\ r = NameAt(i) /\ s = NameAt(k)
      OBVIOUS
    <3>2. {p, q} = {r, s} /\ r # s
      BY <1>2, <1>4, <3>1
    <3>3. p \in {r, s} /\ q \in {r, s} /\ r \in {p, q} /\ s \in {p, q}
      BY <3>2
    <3> QED BY <3>1, <3>2, <3>3
  <2> QED BY <1>1, <2>1, <2>2 DEF IsTable, NameAt
<1>6. text[x].into \in Fields
  BY <1>4 DEF Fields
<1>7. KeyOf(symbols, text[x]) \in DOMAIN o[text[x].into]
  BY <1>6 DEF Calibrates, Says
<1> QED BY <1>4, <1>5, <1>7

\* A pair of names is said once.
LEMMA SaidOnce ==
    ASSUME NEW B, NEW o, Calibrates(B, o), NEW x \in B, NEW y \in B, Pair(text[x]) = Pair(text[y])
    PROVE  x = y
BY DEF Calibrates, Says

(* What the cells of the workspace hold after the blocks up to e. *)
CellsHold(w, e) == \A i, k : Sort(i, k) => Cell(i, k) \in DOMAIN w /\ w[Cell(i, k)] = CellAt(NameAt(i), NameAt(k), e)

\* The variances that a block writes.
LEMMA VariancesWritten ==
    ASSUME NEW B, NEW s, Calibrates(B, s.of), NEW i, NEW k, Sort(i, k)
    PROVE  /\ Cell(i, k) \in DOMAIN WriteVarAndStdShocks(s) =>
                i = k /\ \E x \in B : Pair(text[x]) = {NameAt(i)}
           /\ \A x \in B : i = k /\ Pair(text[x]) = {NameAt(i)} =>
                /\ Cell(i, k) \in DOMAIN WriteVarAndStdShocks(s)
                /\ WriteVarAndStdShocks(s)[Cell(i, k)] = VarianceIn(text[x])
<1>. DEFINE var == s.of.var_shocks
            std == s.of.std_shocks
            V == WriteVarAndStdShocks(s)
            ids == DOMAIN var \cup DOMAIN std
            Value(j) == IF j \in DOMAIN std THEN <<"square", std[j]>> ELSE <<"value", var[j]>>
<1>0. var = s.of["var_shocks"] /\ std = s.of["std_shocks"] /\ "var_shocks" \in VarFields /\ "std_shocks" \in VarFields
  BY DEF VarFields
<1>1. /\ \A key : key \in DOMAIN V <=> \E j \in ids : key = Cell(j, j)
      /\ \A key \in DOMAIN V : V[key] = Value(CHOOSE j \in ids : Cell(j, j) = key)
  BY DEF WriteVarAndStdShocks
<1>. HIDE DEF V, Value
<1>2. \A j \in ids : Sort(j, j) /\ \E x \in B : Pair(text[x]) = {NameAt(j)}
  <2>1. ASSUME NEW j \in ids PROVE Sort(j, j) /\ \E x \in B : Pair(text[x]) = {NameAt(j)}
    <3>1. PICK f \in VarFields : j \in DOMAIN s.of[f]
      BY <1>0
    <3> QED BY <3>1, VarianceKey
  <2> QED BY <2>1
<1>3. IsTable(symbols)
  BY DEF Calibrates
<1>4. ASSUME NEW j \in ids, Cell(i, k) = Cell(j, j) PROVE i = j /\ k = j
  BY <1>2, <1>3, <1>4, CellsApart
<1>5. Cell(i, k) \in DOMAIN V => i = k /\ \E x \in B : Pair(text[x]) = {NameAt(i)}
  <2>1. SUFFICES ASSUME NEW j \in ids, Cell(i, k) = Cell(j, j)
                 PROVE  i = k /\ \E x \in B : Pair(text[x]) = {NameAt(i)}
    BY <1>1
  <2> QED BY <1>2, <1>4, <2>1
<1>6. ASSUME NEW x \in B, i = k, Pair(text[x]) = {NameAt(i)}
      PROVE  Cell(i, k) \in DOMAIN V /\ V[Cell(i, k)] = VarianceIn(text[x])
  <2>1. i \in DOMAIN symbols
    BY DEF Sort
  <2>2. text[x].into \in VarFields /\ i \in DOMAIN s.of[text[x].into]
    BY <1>6, <2>1, VarianceHeld
  <2>3. i \in ids
    BY <1>0, <2>2 DEF VarFields
  <2>4. Cell(i, k) \in DOMAIN V
    BY <1>1, <1>6, <2>3
  <2>5. (CHOOSE j \in ids : Cell(j, j) = Cell(i, k)) = i
    <3>1. Cell(i, i) = Cell(i, k) /\ \A j \in ids : Cell(j, j) = Cell(i, k) => j = i
      BY <1>4, <1>6
    <3> QED BY <2>3, <3>1
  <2>6. V[Cell(i, k)] = Value(i)
    BY <1>1, <2>4, <2>5
  <2>7. ASSUME NEW f \in VarFields, i \in DOMAIN s.of[f] PROVE text[x].into = f /\ s.of[f][i] = text[x].value
    <3>1. PICK y \in B : text[y].into = f /\ Pair(text[y]) = {NameAt(i)} /\ s.of[f][i] = text[y].value
      BY <2>7, VarianceKey
    <3>2. x = y
      BY <1>6, <3>1, SaidOnce
    <3> QED BY <3>1, <3>2
  <2>8. CASE i \in DOMAIN std
    <3>1. text[x].into = "std_shocks" /\ std[i] = text[x].value
      BY <1>0, <2>7, <2>8
    <3> QED BY <2>4, <2>6, <2>8, <3>1 DEF Value, VarianceIn
  <2>9. CASE i \notin DOMAIN std
    <3>1. text[x].into = "var_shocks" /\ var[i] = text[x].value
      BY <1>0, <2>3, <2>7, <2>9
    <3> QED BY <2>4, <2>6, <2>9, <3>1 DEF Value, VarianceIn
  <2> QED BY <2>8, <2>9
<1> QED BY <1>5, <1>6 DEF V

\* Both halves of a buffer of covariances.
LEMMA BothHalves ==
    ASSUME IsTable(symbols), NEW f, NEW p
    PROVE  p \in Cells(f) <=> \E a, b \in DOMAIN symbols : p = <<a, b>> /\ (p \in DOMAIN f \/ <<b, a>> \in DOMAIN f)
<1>1. DOMAIN symbols = 1..Len(symbols)
  BY DEF IsTable, IsList
<1>2. ASSUME NEW a \in DOMAIN symbols, NEW b \in DOMAIN symbols, p = <<a, b>>
      PROVE  p \in Cells(f) <=> p \in DOMAIN f \/ <<b, a>> \in DOMAIN f
  <2>1. p \in (1..Len(symbols)) \X (1..Len(symbols)) /\ p[1] = a /\ p[2] = b
    BY <1>1, <1>2
  <2>2. p \in Cells(f) <=> p \in DOMAIN f \/ <<p[2], p[1]>> \in DOMAIN f
    BY <2>1 DEF Cells
  <2> QED BY <2>1, <2>2
<1>3. ASSUME p \in Cells(f) PROVE \E a, b \in DOMAIN symbols : p = <<a, b>>
  BY <1>1, <1>3 DEF Cells
<1> QED BY <1>2, <1>3

\* In either order they are those of the text.
LEMMA HalfOf ==
    ASSUME NEW B, NEW o, Calibrates(B, o), NEW f \in CovFields, NEW p \in Cells(o[f])
    PROVE  \E i, k : /\ p = <<i, k>> /\ Sort(i, k) /\ i # k
                     /\ \E x \in B : /\ text[x].into = f /\ Pair(text[x]) = {NameAt(i), NameAt(k)}
                                     /\ OneWay(o[f], p) = text[x].value
<1>1. IsTable(symbols)
  BY DEF Calibrates
<1>2. PICK a, b \in DOMAIN symbols : p = <<a, b>> /\ (p \in DOMAIN o[f] \/ <<b, a>> \in DOMAIN o[f])
  BY <1>1, BothHalves
<1>3. CASE p \in DOMAIN o[f]
  BY <1>3, CovarianceKey DEF OneWay
<1>4. CASE p \notin DOMAIN o[f]
  <2>1. PICK q : q = <<b, a>>
    OBVIOUS
  <2>2. q \in DOMAIN o[f] /\ OneWay(o[f], p) = o[f][q]
    BY <1>2, <1>4, <2>1 DEF OneWay
  <2>3. PICK i, k : /\ q = <<i, k>> /\ Sort(i, k) /\ i # k
                    /\ \E x \in B : /\ text[x].into = f /\ Pair(text[x]) = {NameAt(i), NameAt(k)}
                                    /\ o[f][q] = text[x].value
    BY <2>2, CovarianceKey
  <2>4. i = b /\ k = a
    BY <2>1, <2>3
  <2>5. Sort(k, i) /\ {NameAt(k), NameAt(i)} = {NameAt(i), NameAt(k)} /\ p = <<k, i>>
    BY <1>2, <2>3, <2>4 DEF Sort
  <2> QED BY <2>2, <2>3, <2>5
<1> QED BY <1>3, <1>4

(* Of two symbols, C is what pieces B write over the workspace w. *)
Covaries(C, B, w, i, k) ==
    /\ Cell(i, k) \in DOMAIN C => i # k /\ \E x \in B : Pair(text[x]) = {NameAt(i), NameAt(k)}
    /\ \A x \in B : i # k /\ Pair(text[x]) = {NameAt(i), NameAt(k)} =>
         /\ Cell(i, k) \in DOMAIN C
         /\ C[Cell(i, k)] = IF text[x].into = "covar_shocks" THEN <<"value", text[x].value>>
                            ELSE <<"corr", text[x].value, {At(w, Cell(i, i)), At(w, Cell(k, k))}>>
\* The covariances that a block writes.
LEMMA CovariancesWritten ==
    ASSUME NEW B, NEW s, Calibrates(B, s.of), NEW w, NEW i, NEW k, Sort(i, k)
    PROVE  Covaries(WriteCovarAndCorrShocks(s, w), B, w, i, k)
<1>. DEFINE covar == s.of.covar_shocks
            corr == s.of.corr_shocks
            C == WriteCovarAndCorrShocks(s, w)
            pairs == Cells(covar) \cup Cells(corr)
            Value(p) == IF p \in Cells(corr) THEN <<"corr", OneWay(corr, p), {At(w, Cell(p[1], p[1])), At(w, Cell(p[2], p[2]))}>>
                        ELSE <<"value", OneWay(covar, p)>>
<1>0. /\ covar = s.of["covar_shocks"] /\ corr = s.of["corr_shocks"]
      /\ "covar_shocks" \in CovFields /\ "corr_shocks" \in CovFields
  BY DEF CovFields
<1>1. /\ \A key : key \in DOMAIN C <=> \E p \in pairs : key = Cell(p[1], p[2])
      /\ \A key \in DOMAIN C : C[key] = Value(CHOOSE p \in pairs : Cell(p[1], p[2]) = key)
  BY DEF WriteCovarAndCorrShocks
<1>. HIDE DEF C, Value
<1>2. ASSUME NEW p \in pairs
      PROVE  /\ p = <<p[1], p[2]>> /\ Sort(p[1], p[2]) /\ p[1] # p[2]
             /\ \E x \in B : Pair(text[x]) = {NameAt(p[1]), NameAt(p[2])}
  <2>1. PICK f \in CovFields : p \in Cells(s.of[f])
    BY <1>0
  <2>2. PICK a, b : /\ p = <<a, b>> /\ Sort(a, b) /\ a # b
                    /\ \E x \in B : Pair(text[x]) = {NameAt(a), NameAt(b)}
    BY <2>1, HalfOf
  <2>3. p[1] = a /\ p[2] = b
    BY <2>2
  <2> QED BY <2>2, <2>3
<1>3. IsTable(symbols)
  BY DEF Calibrates
<1>4. ASSUME NEW p \in pairs, Cell(i, k) = Cell(p[1], p[2]) PROVE p[1] = i /\ p[2] = k
  BY <1>2, <1>3, <1>4, CellsApart
<1>5. Cell(i, k) \in DOMAIN C => i # k /\ \E x \in B : Pair(text[x]) = {NameAt(i), NameAt(k)}
  <2>1. SUFFICES ASSUME NEW p \in pairs, Cell(i, k) = Cell(p[1], p[2])
                 PROVE  i # k /\ \E x \in B : Pair(text[x]) = {NameAt(i), NameAt(k)}
    BY <1>1
  <2> QED BY <1>2, <1>4, <2>1
<1>6. ASSUME NEW x \in B, i # k, Pair(text[x]) = {NameAt(i), NameAt(k)}
      PROVE  /\ Cell(i, k) \in DOMAIN C
             /\ C[Cell(i, k)] = IF text[x].into = "covar_shocks" THEN <<"value", text[x].value>>
                                ELSE <<"corr", text[x].value, {At(w, Cell(i, i)), At(w, Cell(k, k))}>>
  <2>. DEFINE p == <<i, k>>
  <2>1. i \in DOMAIN symbols /\ k \in DOMAIN symbols
    BY DEF Sort
  <2>2. /\ text[x].into \in CovFields
        /\ <<i, k>> \in DOMAIN s.of[text[x].into] \/ <<k, i>> \in DOMAIN s.of[text[x].into]
    BY <1>6, CovarianceHeld
  <2>3. p \in Cells(s.of[text[x].into])
    BY <1>3, <2>1, <2>2, BothHalves
  <2>4. p \in pairs /\ p[1] = i /\ p[2] = k
    BY <1>0, <2>2, <2>3 DEF CovFields
  <2>5. Cell(i, k) \in DOMAIN C
    BY <1>1, <2>4
  <2>6. (CHOOSE q \in pairs : Cell(q[1], q[2]) = Cell(i, k)) = p
    <3>1. \A q \in pairs : Cell(q[1], q[2]) = Cell(i, k) => q = p
      BY <1>2, <1>4
    <3> QED BY <2>4, <3>1
  <2>7. C[Cell(i, k)] = Value(p)
    BY <1>1, <2>5, <2>6
  <2>8. ASSUME NEW f \in CovFields, p \in Cells(s.of[f]) PROVE text[x].into = f /\ OneWay(s.of[f], p) = text[x].value
    <3>1. PICK a, b : /\ p = <<a, b>>
                      /\ \E y \in B : /\ text[y].into = f /\ Pair(text[y]) = {NameAt(a), NameAt(b)}
                                      /\ OneWay(s.of[f], p) = text[y].value
      BY <2>8, HalfOf
    <3>2. a = i /\ b = k
      BY <3>1
    <3>3. PICK y \in B : /\ text[y].into = f /\ Pair(text[y]) = {NameAt(i), NameAt(k)}
                         /\ OneWay(s.of[f], p) = text[y].value
      BY <3>1, <3>2
    <3>4. x = y
      BY <1>6, <3>3, SaidOnce
    <3> QED BY <3>3, <3>4
  <2>9. CASE p \in Cells(corr)
    <3>1. text[x].into = "corr_shocks" /\ OneWay(corr, p) = text[x].value
      BY <1>0, <2>8, <2>9
    <3>2. Value(p) = <<"corr", text[x].value, {At(w, Cell(i, i)), At(w, Cell(k, k))}>>
      BY <2>4, <2>9, <3>1 DEF Value
    <3> QED BY <2>5, <2>7, <3>1, <3>2
  <2>10. CASE p \notin Cells(corr)
    <3>1. text[x].into = "covar_shocks" /\ OneWay(covar, p) = text[x].value
      BY <1>0, <2>4, <2>8, <2>10
    <3>2. Value(p) = <<"value", text[x].value>>
      BY <2>10, <3>1 DEF Value
    <3> QED BY <2>5, <2>7, <3>1, <3>2
  <2> QED BY <2>9, <2>10
<1> QED BY <1>5, <1>6 DEF C, Covaries

LEMMA SortBoth == ASSUME NEW i, NEW k, Sort(i, k) PROVE Sort(i, i) /\ Sort(k, k)
BY DEF Sort

\* A block of shocks, written.
LEMMA ShocksWritten ==
    ASSUME NEW e, NEW j, NextAfter(e, j), NEW s, Calibrates(Block(text, j), s.of), NEW w, CellsHold(w, e),
           <<"stopped">> \notin DOMAIN ShocksWrite(s, w)
    PROVE  CellsHold(ShocksWrite(s, w), j)
<1>. DEFINE V == WriteVarAndStdShocks(s)
            B == Block(text, j)
<1>0. PICK new : new = V @@ w
  OBVIOUS
<1>. DEFINE C == WriteCovarAndCorrShocks(s, new)
            diagonal == <<"sigma_e_is_diagonal">> :> (s.of.covar_shocks = None /\ s.of.corr_shocks = None)
            rest == DetShocksWrite(s, new)
<1>1. ShocksWrite(s, w) = (C @@ diagonal) @@ rest
  <2>1. ShocksWrite(s, w) = Stop(w) \/ ShocksWrite(s, w) = (C @@ diagonal) @@ rest
    BY <1>0 DEF ShocksWrite
  <2> QED BY <2>1, Stops
<1>2. Whole /\ IsTable(symbols)
  BY DEF Calibrates
<1>3. ASSUME NEW i, NEW k, Sort(i, k)
      PROVE  \/ /\ \A x \in B : Pair(text[x]) # {NameAt(i), NameAt(k)}
                /\ CellAt(NameAt(i), NameAt(k), j) = CellAt(NameAt(i), NameAt(k), e)
             \/ \E x \in B :
                /\ Pair(text[x]) = {NameAt(i), NameAt(k)}
                /\ CellAt(NameAt(i), NameAt(k), j) = NewIn(x, NameAt(i), NameAt(k), j)
  <2>1. CASE \A x \in B : Pair(text[x]) # {NameAt(i), NameAt(k)}
    <3>1. Upto({NameAt(i), NameAt(k)}, j) = Upto({NameAt(i), NameAt(k)}, e)
      BY <1>2, <2>1, OldPair
    <3> QED BY <2>1, <3>1, OldCell
  <2>2. CASE \E x \in B : Pair(text[x]) = {NameAt(i), NameAt(k)}
    <3>1. PICK x \in B : Pair(text[x]) = {NameAt(i), NameAt(k)}
      BY <2>2
    <3>2. PICK p : p = {NameAt(i), NameAt(k)}
      OBVIOUS
    <3>3. \A y \in B : Pair(text[y]) = p => y = x
      BY <3>1, <3>2, SaidOnce
    <3>4. Counts(x, p, j)
      BY <1>2, <3>1, <3>2, <3>3, NewPair
    <3>5. CellAt(NameAt(i), NameAt(k), j) = NewIn(x, NameAt(i), NameAt(k), j)
      BY <3>2, <3>4, NewCell
    <3> QED BY <3>1, <3>5
  <2> QED BY <2>1, <2>2
<1>4. ASSUME NEW i, NEW k, Sort(i, k)
      PROVE  /\ Cell(i, k) \in DOMAIN new
             /\ new[Cell(i, k)] = IF i = k THEN VarianceAt(NameAt(i), j) ELSE CellAt(NameAt(i), NameAt(k), e)
  <2>1. /\ Cell(i, k) \in DOMAIN V => i = k /\ \E x \in B : Pair(text[x]) = {NameAt(i)}
        /\ \A x \in B : i = k /\ Pair(text[x]) = {NameAt(i)} =>
             Cell(i, k) \in DOMAIN V /\ V[Cell(i, k)] = VarianceIn(text[x])
    BY <1>4, VariancesWritten
  <2>2. Cell(i, k) \in DOMAIN w /\ w[Cell(i, k)] = CellAt(NameAt(i), NameAt(k), e)
    BY <1>4 DEF CellsHold
  <2>3. /\ Cell(i, k) \in DOMAIN new
        /\ new[Cell(i, k)] = IF Cell(i, k) \in DOMAIN V THEN V[Cell(i, k)] ELSE w[Cell(i, k)]
    <3>. HIDE DEF V
    <3> QED BY <1>0, <2>2 DEF @@
  <2>. HIDE DEF V
  <2>4. CASE i # k
    BY <2>1, <2>2, <2>3, <2>4
  <2>5. CASE i = k
    <3>1. {NameAt(i), NameAt(k)} = {NameAt(i)}
      BY <2>5, OneName
    <3>2. CellAt(NameAt(i), NameAt(k), j) = VarianceAt(NameAt(i), j)
      BY <2>5, DiagonalCell
    <3>3. CASE \A x \in B : Pair(text[x]) # {NameAt(i), NameAt(k)}
      <4>1. CellAt(NameAt(i), NameAt(k), j) = CellAt(NameAt(i), NameAt(k), e)
        BY <1>3, <1>4, <3>3
      <4>2. Cell(i, k) \notin DOMAIN V
        BY <2>1, <3>1, <3>3
      <4> QED BY <2>2, <2>3, <2>5, <3>2, <4>1, <4>2
    <3>4. CASE ~\A x \in B : Pair(text[x]) # {NameAt(i), NameAt(k)}
      <4>1. PICK x \in B : /\ Pair(text[x]) = {NameAt(i), NameAt(k)}
                           /\ CellAt(NameAt(i), NameAt(k), j) = NewIn(x, NameAt(i), NameAt(k), j)
        BY <1>3, <1>4, <3>4
      <4>2. CellAt(NameAt(i), NameAt(k), j) = VarianceIn(text[x])
        BY <2>5, <4>1 DEF NewIn
      <4>3. Cell(i, k) \in DOMAIN V /\ V[Cell(i, k)] = VarianceIn(text[x])
        BY <2>1, <2>5, <3>1, <4>1
      <4> QED BY <2>3, <2>5, <3>2, <4>2, <4>3
    <3> QED BY <3>3, <3>4
  <2> QED BY <2>4, <2>5
<1>5. ASSUME NEW i, NEW k, Sort(i, k) PROVE Cell(i, k) \in DOMAIN rest /\ rest[Cell(i, k)] = new[Cell(i, k)]
  <2>1. Followed(Cell(i, k))
    BY CellFollowed
  <2>2. Untouched(Cell(i, k), new, DetShocksWrite(s, new))
    BY <2>1, ShocksKeep
  <2> QED BY <1>4, <1>5, <2>2 DEF Untouched
<1>6. ASSUME NEW i, NEW k, Sort(i, k)
      PROVE  /\ Cell(i, k) \in DOMAIN ShocksWrite(s, w)
             /\ ShocksWrite(s, w)[Cell(i, k)] = CellAt(NameAt(i), NameAt(k), j)
  <2>1. Covaries(C, B, new, i, k)
    BY <1>6, CovariancesWritten
  <2>2. /\ Cell(i, k) \in DOMAIN rest
        /\ rest[Cell(i, k)] = IF i = k THEN VarianceAt(NameAt(i), j) ELSE CellAt(NameAt(i), NameAt(k), e)
    BY <1>4, <1>5, <1>6
  <2>3. At(new, Cell(i, i)) = VarianceAt(NameAt(i), j) /\ At(new, Cell(k, k)) = VarianceAt(NameAt(k), j)
    BY <1>4, <1>6, SortBoth DEF At
  <2>4. NameAt(i) = NameAt(k) => i = k
    BY <1>2, <1>6 DEF Sort, IsTable, NameAt
  <2>5. /\ Cell(i, k) \in DOMAIN ShocksWrite(s, w)
        /\ ShocksWrite(s, w)[Cell(i, k)] = IF Cell(i, k) \in DOMAIN C THEN C[Cell(i, k)] ELSE rest[Cell(i, k)]
    <3>1. DOMAIN diagonal = {<<"sigma_e_is_diagonal">>}
      BY DEF :>
    <3>2. Cell(i, k) \notin DOMAIN diagonal
      BY <3>1, CellFollowed, ShortForeign
    <3>. HIDE DEF C, rest, diagonal
    <3>3. /\ Cell(i, k) \in DOMAIN (C @@ diagonal) <=> Cell(i, k) \in DOMAIN C
          /\ Cell(i, k) \in DOMAIN C => (C @@ diagonal)[Cell(i, k)] = C[Cell(i, k)]
      BY <3>2 DEF @@
    <3>4. PICK over : over = C @@ diagonal
      OBVIOUS
    <3> QED BY <1>1, <2>2, <3>3, <3>4 DEF @@
  <2>. HIDE DEF C, rest, V
  <2>6. CASE i = k
    BY <2>1, <2>2, <2>5, <2>6, DiagonalCell DEF Covaries
  <2>7. CASE i # k
    <3>1. CASE \A x \in B : Pair(text[x]) # {NameAt(i), NameAt(k)}
      <4>1. CellAt(NameAt(i), NameAt(k), j) = CellAt(NameAt(i), NameAt(k), e)
        BY <1>3, <1>6, <3>1
      <4> QED BY <2>1, <2>2, <2>5, <2>7, <3>1, <4>1 DEF Covaries
    <3>2. CASE ~\A x \in B : Pair(text[x]) # {NameAt(i), NameAt(k)}
      <4>1. PICK x \in B : /\ Pair(text[x]) = {NameAt(i), NameAt(k)}
                           /\ CellAt(NameAt(i), NameAt(k), j) = NewIn(x, NameAt(i), NameAt(k), j)
        BY <1>3, <1>6, <3>2
      <4>2. CellAt(NameAt(i), NameAt(k), j) =
              IF text[x].into = "covar_shocks" THEN <<"value", text[x].value>>
              ELSE <<"corr", text[x].value, {VarianceAt(NameAt(i), j), VarianceAt(NameAt(k), j)}>>
        BY <2>4, <2>7, <4>1 DEF NewIn
      <4>3. /\ Cell(i, k) \in DOMAIN C
            /\ C[Cell(i, k)] = IF text[x].into = "covar_shocks" THEN <<"value", text[x].value>>
                               ELSE <<"corr", text[x].value, {At(new, Cell(i, i)), At(new, Cell(k, k))}>>
        BY <2>1, <2>7, <4>1 DEF Covaries
      <4> QED BY <2>3, <2>5, <4>2, <4>3
    <3> QED BY <3>1, <3>2
  <2> QED BY <2>6, <2>7
<1> QED BY <1>6 DEF CellsHold

-------------------------------------------------------------------------------
(*****************************************************************************)
(* The covariances, in the end                                               *)
(*****************************************************************************)

(* The statements up to m are those of the blocks up to e. *)
Upheld(tx, at, m, e) == \A j \in BlockEnds(tx) : at[j] =< m <=> j =< e

(* While the script is written, the cells hold what the blocks written so far say. *)
CellsInv ==
    phase = "writing" /\ <<"stopped">> \notin DOMAIN ws /\ ClosersOf({"Sigma_e"}) = {} /\ ProperText(text) =>
      \E at : \E e \in Nat : Laid(symbols, text, statements, at) /\ Upheld(text, at, done, e) /\ CellsHold(ws, e)

\* What a step leaves alone when it leaves the text and the names alone.
LEMMA CellsSame ==
    ASSUME UNCHANGED <<symbols, text, mod_file>>
    PROVE  /\ \A i, k : (Sort(i, k)' <=> Sort(i, k)) /\ Cell(i, k)' = Cell(i, k) /\ NameAt(i)' = NameAt(i)
           /\ \A n, m, e : CellAt(n, m, e)' = CellAt(n, m, e)
<1>1. \A i : Closer(i)' = Closer(i)
  BY DEF Closer
<1>2. \A p : Calibrations(p)' = Calibrations(p)
  BY DEF Calibrations, Pair
<1>3. \A p, e : Upto(p, e)' = Upto(p, e)
  BY <1>1, <1>2 DEF Upto
<1>4. \A P : LastBlock(P)' = LastBlock(P)
  BY <1>1 DEF LastBlock
<1>5. \A P : (CHOOSE x \in LastBlock(P) : TRUE)' = CHOOSE x \in LastBlock(P) : TRUE
  BY <1>4
<1>6. \A P : VarianceFrom(P)' = VarianceFrom(P)
  <2>1. \A x : VarianceIn(text[x])' = VarianceIn(text[x])
    BY DEF VarianceIn
  <2> QED BY <1>5, <2>1, Zenon DEF VarianceFrom
<1>7. \A n, j : VarianceAt(n, j)' = VarianceAt(n, j)
  BY <1>3, <1>6 DEF VarianceAt
<1>8. \A x, n, m : CovarianceIn(x, n, m)' = CovarianceIn(x, n, m)
  BY <1>1, <1>7 DEF CovarianceIn
<1>12. \A P, n, m : CovarianceFrom(P, n, m)' = CovarianceFrom(P, n, m)
  <2>1. ASSUME NEW P, NEW n, NEW m PROVE CovarianceFrom(P, n, m)' = CovarianceFrom(P, n, m)
    <3>1. PICK x : x = CHOOSE y \in LastBlock(P) : TRUE
      OBVIOUS
    <3>2. (CHOOSE y \in LastBlock(P) : TRUE)' = x
      BY <1>5, <3>1
    <3>3. CovarianceIn(CHOOSE y \in LastBlock(P) : TRUE, n, m)' = CovarianceIn(x, n, m)'
      BY <3>1, <3>2, Zenon
    <3>4. CovarianceIn(CHOOSE y \in LastBlock(P) : TRUE, n, m)' = CovarianceIn(x, n, m)
      BY <1>8, <3>3, Zenon
    <3> QED BY <3>1, <3>4 DEF CovarianceFrom
  <2> QED BY <2>1
<1>13. \A n, m, e : CellAt(n, m, e)' = CellAt(n, m, e)
  BY <1>3, <1>6, <1>12 DEF CellAt
<1>10. \A i : Tsid(i)' = Tsid(i) /\ ObservedIndex(i)' = ObservedIndex(i)
  BY DEF Tsid, ObservedIndex
<1>11. \A i, k : Cell(i, k)' = Cell(i, k)
  BY <1>10 DEF Cell
<1> QED BY <1>11, <1>13 DEF Sort, NameAt

\* A text that has been read.
LEMMA ReadWhole ==
    ASSUME ReadInv, phase \notin {"parsing", "error"}, ProperText(text)
    PROVE  /\ Whole /\ IsTable(symbols) /\ AllTyped(symbols, mod_file.varobs, text)
           /\ Reading(symbols, mod_file.varobs, text, statements)
<1>1. Reading(symbols, mod_file.varobs, text, statements) /\ OpenCal(text) = {} /\ text \in Seq(Pieces)
  BY DEF ReadInv
<1>2. IsTable(symbols) /\ AllTyped(symbols, mod_file.varobs, text) /\ AllClosed(text)
  BY <1>1 DEF Reading
<1>3. \A x \in Cal(text) : text[x].into \in IF text[x].op = "var_shock" THEN VarFields ELSE CovFields
  BY <1>2 DEF AllTyped, InField
<1> QED BY <1>1, <1>2, <1>3 DEF Whole

\* Before the first block, no pair has been given anything.
LEMMA NothingYet == ASSUME Whole, NEW p PROVE Upto(p, 0) = {}
<1>1. ASSUME NEW x \in Upto(p, 0) PROVE FALSE
  <2>1. x \in Calibrations(p) /\ Closer(x) =< 0
    BY DEF Upto
  <2>2. x \in Cal(text)
    BY <2>1, PairOf
  <2>3. Closer(x) \in BlockEnds(text)
    BY <2>2, InBlock
  <2> QED BY <2>1, <2>3 DEF BlockEnds
<1> QED BY <1>1

LEMMA ZeroCells == ASSUME Whole, NEW n, NEW m PROVE CellAt(n, m, 0) = <<"value", 0>>
<1>1. PICK p, q : p = {n} /\ q = {n, m}
  OBVIOUS
<1>2. Upto(p, 0) = {} /\ Upto(q, 0) = {}
  BY NothingYet
<1> QED BY <1>1, <1>2 DEF CellAt, VarianceFrom, CovarianceFrom

\* After the last one, every pair has been given all that is said of it.
LEMMA AllSaid ==
    ASSUME Whole, NEW e, \A j \in BlockEnds(text) : j =< e, NEW n, NEW m PROVE CellAt(n, m, e) = ExpectedCell(n, m)
<1>1. \A p : Upto(p, e) = Calibrations(p) /\ Upto(p, Len(text)) = Calibrations(p)
  <2>1. ASSUME NEW p, NEW x \in Calibrations(p) PROVE Closer(x) =< e /\ Closer(x) =< Len(text)
    <3>1. x \in Cal(text)
      BY <2>1, PairOf
    <3>2. Closer(x) \in BlockEnds(text)
      BY <3>1, InBlock
    <3> QED BY <3>2 DEF BlockEnds
  <2> QED BY <2>1 DEF Upto
<1>2. PICK p, q : p = {n} /\ q = {n, m}
  OBVIOUS
<1>3. Upto(p, e) = Calibrations(p) /\ Upto(q, e) = Calibrations(q) /\ Upto(p, Len(text)) = Calibrations(p)
  BY <1>1
<1>4. CASE n = m
  <2>1. p = q
    BY <1>2, <1>4
  <2>2. CellAt(n, m, e) = VarianceFrom(Calibrations(p))
    BY <1>2, <1>3, <1>4 DEF CellAt
  <2>3. VarianceAt(n, Len(text)) = VarianceFrom(Calibrations(p))
    BY <1>2, <1>3, VarianceOf
  <2>4. Calibrations(q) = {} => VarianceFrom(Calibrations(p)) = <<"value", 0>>
    BY <2>1 DEF VarianceFrom
  <2>5. ExpectedCell(n, m) = IF Calibrations(q) = {} THEN <<"value", 0>> ELSE VarianceAt(n, Len(text))
    BY <1>2, <1>4 DEF ExpectedCell
  <2> QED BY <2>2, <2>3, <2>4, <2>5
<1>5. CASE n # m
  <2>1. CellAt(n, m, e) = CovarianceFrom(Calibrations(q), n, m)
    BY <1>2, <1>3, <1>5 DEF CellAt
  <2>2. ExpectedCell(n, m) = CovarianceFrom(Calibrations(q), n, m)
    BY <1>2, <1>5 DEF ExpectedCell, CovarianceFrom, CovarianceIn
  <2> QED BY <2>1, <2>2
<1> QED BY <1>4, <1>5

\* The workspace begins with zeros.
LEMMA CellsBegin == ASSUME CovInv, ComputeFile, IInv PROVE CellsInv'
<1>1. /\ phase = "computing" /\ text' = text /\ symbols' = symbols /\ mod_file' = mod_file
      /\ statements' = statements /\ done' = done /\ done = 0
  BY DEF ComputeFile, parsed, IInv
<1>. SUFFICES ASSUME ProperText(text)
              PROVE  \E at : \E e \in Nat : Laid(symbols, text, statements, at) /\ Upheld(text, at, 0, e) /\ CellsHold(ws, e)'
  BY <1>1 DEF CellsInv, ProperText
<1>2. /\ Whole /\ IsTable(symbols) /\ AllTyped(symbols, mod_file.varobs, text)
      /\ Reading(symbols, mod_file.varobs, text, statements)
  BY <1>1, ReadWhole DEF CovInv
<1>3. PICK at : Laid(symbols, text, statements, at)
  BY <1>2 DEF Reading
<1>4. Upheld(text, at, 0, 0)
  <2>1. \A j \in BlockEnds(text) : at[j] \in 1..Len(statements) /\ j \in 1..Len(text)
    BY <1>3 DEF Laid, BlockEnds
  <2>2. ASSUME NEW j \in BlockEnds(text) PROVE ~(at[j] =< 0) /\ ~(j =< 0)
    BY <2>1
  <2> QED BY <2>2 DEF Upheld
<1>5. ASSUME NEW i, NEW k, Sort(i, k)
      PROVE  Cell(i, k) \in DOMAIN ws' /\ ws'[Cell(i, k)] = <<"value", 0>>
  <2>1. CASE symbols[i][2] = "exo" /\ symbols[k][2] = "exo"
    <3>1. Tsid(i) \in 1..Width("exo") /\ Tsid(k) \in 1..Width("exo")
      BY <1>2, <1>5, <2>1, NumbersApart DEF Sort, IsTable
    <3>2. Width("exo") = NumberOf("exo", symbols)
      BY DEF Width, NumberOf
    <3> QED BY <2>1, <3>1, <3>2 DEF ComputeFile, Cell
  <2>2. CASE symbols[i][2] = "endo"
    <3>1. ObservedIndex(i) \in DOMAIN mod_file.varobs /\ ObservedIndex(k) \in DOMAIN mod_file.varobs
      BY <1>5, <2>2, ObservedPlace DEF Sort
    <3> QED BY <2>2, <3>1 DEF ComputeFile, Cell
  <2> QED BY <1>5, <2>1, <2>2 DEF Sort
<1>6. CellsHold(ws, 0)'
  <2>1. \A i, k : Sort(i, k) => ws'[Cell(i, k)] = CellAt(NameAt(i), NameAt(k), 0)
    BY <1>2, <1>5, ZeroCells
  <2> QED BY <1>1, <1>5, <2>1, CellsSame DEF CellsHold
<1> QED BY <1>3, <1>4, <1>6

\* A statement is written.
LEMMA CellsOn == ASSUME CovInv, IInv, CellsInv, WriteStatement PROVE CellsInv'
<1>. DEFINE s == statements[done + 1]
<1>1. /\ phase = "writing" /\ text' = text /\ symbols' = symbols /\ mod_file' = mod_file
      /\ statements' = statements /\ done < Len(statements)
      /\ ws' = WrittenBy(s, ws)
      /\ done' = IF <<"stopped">> \in DOMAIN ws' THEN Len(statements) ELSE done + 1
  BY DEF WriteStatement, parsed, WrittenBy
<1>2. done \in 0..Len(statements) /\ Len(statements) \in Nat /\ done + 1 \in 1..Len(statements)
      /\ <<"stopped">> \notin DOMAIN ws
  BY <1>1 DEF IInv, WritingInv, ParsingInv, StatementsInv, Listed
<1>3. CASE ~(<<"stopped">> \notin DOMAIN ws' /\ ClosersOf({"Sigma_e"}) = {} /\ ProperText(text))
  BY <1>1, <1>3 DEF CellsInv, ClosersOf, ProperText
<1>4. CASE <<"stopped">> \notin DOMAIN ws' /\ ClosersOf({"Sigma_e"}) = {} /\ ProperText(text)
  <2>1. done' = done + 1
    BY <1>1, <1>4
  <2>2. PICK at, e : e \in Nat /\ Laid(symbols, text, statements, at) /\ Upheld(text, at, done, e) /\ CellsHold(ws, e)
    BY <1>1, <1>2, <1>4 DEF CellsInv
  <2>3. Whole /\ IsTable(symbols) /\ AllTyped(symbols, mod_file.varobs, text)
    BY <1>1, <1>4, ReadWhole DEF CovInv
  <2>4. s.kind # "Sigma_e"
    <3>1. PICK P : text \in Seq(P)
      BY <2>3 DEF Whole
    <3>2. \A j \in 1..Len(text) : text[j].kind # "Sigma_e"
      BY <1>4, <3>1 DEF ClosersOf
    <3> QED BY <1>2, <2>2, <3>2 DEF Laid
  <2>5. \A j \in BlockEnds(text) : at[j] \in Nat /\ j \in Nat
    BY <2>2 DEF Laid, BlockEnds
  <2>6. CASE s.kind # "shocks"
    <3>1. ASSUME NEW i, NEW k, Sort(i, k)
          PROVE  Cell(i, k) \in DOMAIN ws' /\ ws'[Cell(i, k)] = CellAt(NameAt(i), NameAt(k), e)
      <4>. HIDE DEF s
      <4>1. Keeps(Cell(i, k), ws, WrittenBy(s, ws))
        BY <2>4, <2>6, CellFollowed, CellsKept
      <4> QED BY <1>1, <1>4, <2>2, <3>1, <4>1 DEF Keeps, Untouched, CellsHold
    <3>2. CellsHold(ws, e)'
      BY <1>1, <3>1, CellsSame DEF CellsHold
    <3>3. \A j \in BlockEnds(text) : at[j] # done + 1
      BY <2>2, <2>6 DEF Laid
    <3>4. Upheld(text, at, done + 1, e)
      BY <1>2, <2>2, <2>5, <3>3 DEF Upheld
    <3> QED BY <1>1, <2>1, <2>2, <3>2, <3>4 DEF CellsInv
  <2>7. CASE s.kind = "shocks"
    <3>1. PICK j \in BlockEnds(text) : at[j] = done + 1
      BY <1>2, <2>2, <2>7 DEF Laid
    <3>2. \A k \in BlockEnds(text) : at[k] =< done <=> k < j
      BY <1>2, <2>2, <2>5, <3>1 DEF Laid
    <3>3. NextAfter(e, j)
      BY <2>2, <3>1, <3>2 DEF NextAfter, Upheld
    <3>4. Calibrates(Block(text, j), s.of)
      <4>1. Says(symbols, text, Block(text, j), s.of)
        BY <2>2, <3>1 DEF Laid
      <4> QED BY <2>3, <4>1 DEF Calibrates, Block
    <3>5. WrittenBy(s, ws) = ShocksWrite(s, ws)
      BY <2>7 DEF WrittenBy, Estimated, Conditions, ConditionsWrite
    <3>. HIDE DEF s
    <3>6. CellsHold(ws', j)
      BY <1>1, <1>4, <2>2, <3>3, <3>4, <3>5, ShocksWritten
    <3>7. CellsHold(ws, j)'
      BY <1>1, <3>6, CellsSame DEF CellsHold
    <3>8. Upheld(text, at, done + 1, j)
      <4>1. \A k \in BlockEnds(text) : at[k] =< done + 1 <=> at[k] =< done \/ k = j
        BY <1>2, <2>2, <2>5, <3>1 DEF Laid
      <4> QED BY <2>5, <3>2, <4>1 DEF Upheld
    <3>9. j \in Nat
      BY <2>5
    <3> QED BY <1>1, <2>1, <2>2, <3>7, <3>8, <3>9 DEF CellsInv
  <2> QED BY <2>6, <2>7
<1> QED BY <1>3, <1>4

\* Every step.
LEMMA CellsNext == ASSUME CovInv, IInv, CellsInv, [Next]_vars PROVE CellsInv'
<1>1. CASE Parse
  BY <1>1, ParsePhase DEF CellsInv
<1>2. CASE EndOfFile \/ CheckStatements \/ CheckFile \/ TransformFile
  BY <1>2 DEF EndOfFile, CheckStatements, CheckFile, TransformFile, CellsInv
<1>3. CASE ComputeFile
  BY <1>3, CellsBegin
<1>4. CASE WriteStatement
  BY <1>4, CellsOn
<1>5. CASE UNCHANGED vars
  <2>1. UNCHANGED <<symbols, mod_file, text, statements, phase, ws, done>>
    BY <1>5 DEF vars, parsed
  <2>2. \A e : CellsHold(ws, e)' <=> CellsHold(ws, e)
    BY <2>1, CellsSame DEF CellsHold
  <2> QED BY <2>1, <2>2 DEF CellsInv, ClosersOf, ProperText
<1> QED BY <1>1, <1>2, <1>3, <1>4, <1>5 DEF Next

\* In the end the matrices hold what was declared.
LEMMA CellsSuffice == CovInv /\ IInv /\ CellsInv => CovariancesAsDeclared
<1>. SUFFICES ASSUME CovInv, IInv, CellsInv,
                     phase = "writing", done = Len(statements), <<"stopped">> \notin DOMAIN ws,
                     ClosersOf({"Sigma_e"}) = {}, ProperPairs
              PROVE  /\ \A c, d \in 1..Width("exo") : ws[<<"Sigma_e", c, d>>] = ExpectedCell(NameOf("exo", c), NameOf("exo", d))
                     /\ \A c, d \in DOMAIN mod_file.varobs :
                          ws[<<"H", c, d>>] = ExpectedCell(mod_file.varobs[c], mod_file.varobs[d])
  BY DEF CovariancesAsDeclared
<1>1. PICK P : text \in Seq(P)
  BY DEF CovInv, ReadInv
<1>2. ProperText(text)
  BY <1>1 DEF ProperPairs, ProperText
<1>3. Whole /\ IsTable(symbols) /\ AllTyped(symbols, mod_file.varobs, text)
  BY <1>2, ReadWhole DEF CovInv
<1>4. PICK at, e : e \in Nat /\ Laid(symbols, text, statements, at) /\ Upheld(text, at, done, e) /\ CellsHold(ws, e)
  BY <1>2 DEF CellsInv
<1>5. \A j \in BlockEnds(text) : j =< e
  <2>1. \A j \in BlockEnds(text) : at[j] \in 1..Len(statements)
    BY <1>4 DEF Laid
  <2>2. \A j \in BlockEnds(text) : at[j] =< done
    BY <2>1
  <2> QED BY <1>4, <2>2 DEF Upheld
<1>6. ASSUME NEW i, NEW k, Sort(i, k) PROVE ws[Cell(i, k)] = ExpectedCell(NameAt(i), NameAt(k))
  BY <1>3, <1>4, <1>5, <1>6, AllSaid DEF CellsHold
<1>7. ASSUME NEW c \in 1..Width("exo")
      PROVE  \E i \in DOMAIN symbols : symbols[i][2] = "exo" /\ Tsid(i) = c /\ NameAt(i) = NameOf("exo", c)
  <2>1. IsList(symbols)
    BY <1>3 DEF IsTable
  <2>2. PICK i \in DOMAIN symbols : symbols[i][2] = "exo" /\ Tsid(i) = c
    BY <1>7, <2>1, NumbersMet
  <2>3. PICK k : k = CHOOSE m \in DOMAIN symbols : symbols[m][2] = "exo" /\ Tsid(m) = c
    OBVIOUS
  <2>4. k \in DOMAIN symbols /\ symbols[k][2] = "exo" /\ Tsid(k) = c
    BY <2>2, <2>3
  <2>5. NameOf("exo", c) = NameAt(k)
    BY <2>3 DEF NameOf, NameAt
  <2> QED BY <2>4, <2>5
<1>8. ASSUME NEW c, NEW d, c \in 1..Width("exo"), d \in 1..Width("exo")
      PROVE  ws[<<"Sigma_e", c, d>>] = ExpectedCell(NameOf("exo", c), NameOf("exo", d))
  <2>1. PICK i \in DOMAIN symbols : symbols[i][2] = "exo" /\ Tsid(i) = c /\ NameAt(i) = NameOf("exo", c)
    BY <1>7, <1>8
  <2>2. PICK k \in DOMAIN symbols : symbols[k][2] = "exo" /\ Tsid(k) = d /\ NameAt(k) = NameOf("exo", d)
    BY <1>7, <1>8
  <2>3. Sort(i, k) /\ Cell(i, k) = <<"Sigma_e", c, d>>
    BY <2>1, <2>2 DEF Sort, Cell
  <2> QED BY <1>6, <2>1, <2>2, <2>3
<1>9. ASSUME NEW c \in DOMAIN mod_file.varobs
      PROVE  \E i \in DOMAIN symbols : /\ symbols[i][2] = "endo" /\ NameAt(i) = mod_file.varobs[c]
                                       /\ NameAt(i) \in Range(mod_file.varobs) /\ ObservedIndex(i) = c
  <2>1. mod_file.varobs[c] \in Range(mod_file.varobs)
    BY DEF Range
  <2>2. PICK i \in DOMAIN symbols : symbols[i][2] = "endo" /\ symbols[i][1] = mod_file.varobs[c]
    BY <1>3, <2>1 DEF AllTyped, Named
  <2>3. symbols[i][1] \in Range(mod_file.varobs)
    BY <2>1, <2>2
  <2>4. ObservedIndex(i) \in DOMAIN mod_file.varobs /\ mod_file.varobs[ObservedIndex(i)] = mod_file.varobs[c]
    BY <2>2, <2>3, ObservedPlace
  <2>5. ObservedIndex(i) = c
    BY <2>4 DEF ProperPairs, IsInjective
  <2> QED BY <2>2, <2>3, <2>5 DEF NameAt
<1>10. ASSUME NEW c, NEW d, c \in DOMAIN mod_file.varobs, d \in DOMAIN mod_file.varobs
       PROVE  ws[<<"H", c, d>>] = ExpectedCell(mod_file.varobs[c], mod_file.varobs[d])
  <2>1. PICK i \in DOMAIN symbols : /\ symbols[i][2] = "endo" /\ NameAt(i) = mod_file.varobs[c]
                                    /\ NameAt(i) \in Range(mod_file.varobs) /\ ObservedIndex(i) = c
    BY <1>9, <1>10
  <2>2. PICK k \in DOMAIN symbols : /\ symbols[k][2] = "endo" /\ NameAt(k) = mod_file.varobs[d]
                                    /\ NameAt(k) \in Range(mod_file.varobs) /\ ObservedIndex(k) = d
    BY <1>9, <1>10
  <2>3. Sort(i, k) /\ Cell(i, k) = <<"H", c, d>>
    BY <2>1, <2>2 DEF Sort, Cell, NameAt
  <2> QED BY <1>6, <2>1, <2>2, <2>3
<1> QED BY <1>8, <1>10

(* CovariancesAsDeclared holds in every state of ModFile, for any file that the grammar
   accepts: when the script has been written, both halves of M_.Sigma_e and M_.H hold what
   the text says last of each pair of names, and a correlation is scaled by the variances
   that its block, or one before it, gives (ParsingDriver.cc's buffers of shocks,
   ShocksStatement::writeOutput, Shocks.cc). *)
THEOREM CovariancesAsDeclaredAlways == Spec => []CovariancesAsDeclared
<1>1. Init => CovInv /\ CellsInv
  BY InitRead DEF Init, CellsInv
<1>2. CovInv /\ IInv /\ CellsInv /\ [Next]_vars => (CovInv /\ CellsInv)'
  BY NextRead, CellsNext
<1>3. Spec => []IInv
  BY Invariance
<1> QED BY <1>1, <1>2, <1>3, CellsSuffice, PTL DEF Spec
===============================================================================
