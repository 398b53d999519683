----------------------------- MODULE Statements ------------------------------
(* The statements of a model file: what checkPass finds wrong or notes for the
   passes of ModFile, and what the lines that writeOutput adds to the driver
   script do to the MATLAB workspace when they are run. *)
EXTENDS ParsingDriver

CONSTANTS Periods,   \* options_.periods
          MaxLag     \* M_.maximum_lag; the maximum lead is 1

-----------------------------------------------------------------------------
(* The notes: mod_file_struct *)
NoNotes == [present |-> {}, order_option |-> 0, chain |-> 0, calibrated |-> 0, ok |-> TRUE]
Notes(m, flags) == [m EXCEPT !.present = @ \cup flags]
Fails(m, wrong) == [m EXCEPT !.ok = @ /\ ~wrong]
Given(s, class, name) == <<class, name>> \in DOMAIN s.of.options
Num(s, name) == IF Given(s, "num", name) THEN s.of.options[<<"num", name>>] ELSE 0
Bigger(a, b) == IF a > b THEN a ELSE b

(* what stoch_simul, ramsey_policy, discretionary_policy, osr have in common *)
Partial(s, m) == Notes(m, IF Num(s, "partial_information") = 1 THEN {"partial_information"} ELSE {})
Ordered_Last(s, m, more) ==
  IF Given(s, "num", "order") THEN [m EXCEPT !.order_option = Num(s, "order") + more] ELSE m
Ordered(s, m, more) ==
  IF Given(s, "num", "order") THEN [m EXCEPT !.order_option = Bigger(@, Num(s, "order") + more)] ELSE m
KOrder(s, m) == Notes(m, IF Num(s, "k_order_solver") = 1 \/ m.order_option >= 3 THEN {"k_order_solver"} ELSE {})

(* steady, check, model_info, simul *)
CheckTasks(s, m) ==
  CASE s.kind = "steady" -> Notes(m, {"steady"})
    [] s.kind = "check" -> Notes(m, {"check"})
    [] s.kind = "simul" -> [Notes(m, {"simul"}) EXCEPT !.present = @ \ {"shocks_before_simul"}]
    [] s.kind = "model_info" -> m
StochSimulCheckPass(s, m) == KOrder(s, Partial(s, Ordered(s, Notes(m, {"stoch_simul"}), 0)))
(* one more order of derivation than the order of approximation *)
RamseyCheckPass(s, m) ==
  KOrder(s, Partial(s, Ordered(s, Fails(Notes(m, {"ramsey_policy"}), Num(s, "order") > 1), 1)))
DiscretionaryCheckPass(s, m) ==
  KOrder(s, Partial(s, Ordered(s, Fails(Notes(m, {"discretionary_policy"}),
                                        Num(s, "order") > 1 \/ ~Given(s, "symbol_list", "instruments")), 1)))
EstimationCheckPass(s, m) ==
  LET flags == {"estimation"}
                 \cup (IF Num(s, "analytic_derivation") = 1 THEN {"analytic_derivation"} ELSE {})
                 \cup (IF Given(s, "str", "dsge_var") THEN {"dsge_var_estimated"} ELSE {})
                 \cup (IF Num(s, "bayesian_irf") = 1 THEN {"bayesian_irf"} ELSE {})
      noted == [Notes(Partial(s, Ordered(s, m, 0)), flags)
                  EXCEPT !.calibrated = IF Given(s, "num", "dsge_var") THEN Num(s, "dsge_var") ELSE @]
      estimated == "dsge_var_estimated" \in noted.present
  IN Fails(noted, \/ Num(s, "order") > 2
                  \/ Given(s, "num", "dsge_var") /\ Given(s, "symbol_list", "irf_shocks")
                  \/ Given(s, "num", "dsge_varlag") /\ noted.calibrated = 0 /\ ~estimated
                  \/ noted.calibrated # 0 /\ estimated
                  \/ ~Given(s, "str", "datafile") /\ "data" \notin m.present)
SensitivityCheckPass(s, m) == Notes(m, IF Num(s, "identification") = 1 THEN {"identification"} ELSE {})
(* a correlation and its reverse are the same; a beta density with mean and deviation 0.5 does not exist *)
EstimatedKey(e) == IF e[1] = 3 THEN {e[2], e[3]} ELSE {e[2]}
IsCorr(e) == e[1] = 3
EstimatedParamsCheckPass(s, m) ==
  LET q == s.of.estim_params IN
  Fails(Notes(m, IF \E i \in DOMAIN q : q[i][2] = "dsge_prior_weight" THEN {"dsge_weight_estimated"} ELSE {}),
        \/ \E i \in DOMAIN q : q[i][4].prior = "beta" /\ q[i][4].mean = 5 /\ q[i][4].std = 5
        \/ \E i, j \in DOMAIN q : i < j /\ IsCorr(q[i]) = IsCorr(q[j]) /\ EstimatedKey(q[i]) = EstimatedKey(q[j]))
OsrCheckPass(s, m) ==
  IF s.kind = "osr_params" THEN Notes(m, {"osr_params"})
  ELSE KOrder(s, Partial(s, Ordered(s, Notes(m, {"osr"}), 0)))
(* the numerical options that exclude one another *)
AtMostOne(s, names) == Cardinality({n \in names : Given(s, "num", n)}) =< 1
BvarCheckPass(s, m) ==
  Fails(Notes(m, {"bvar"}),
        CASE s.kind = "ms_estimation" -> ~Given(s, "num", "ms.create_init")
                                         /\ ~(Given(s, "str", "datafile") /\ Given(s, "num", "ms.initial_year"))
          [] s.kind = "ms_compute_probabilities" ->
               ~AtMostOne(s, {"ms.real_time_smoothed_probabilities", "ms.filtered_probabilities"})
          [] s.kind \in {"ms_irf", "ms_variance_decomposition"} ->
               ~AtMostOne(s, {"ms.regime", "ms.regimes", "ms.filtered_probabilities"})
          [] s.kind = "ms_forecast" -> ~AtMostOne(s, {"ms.regime", "ms.regimes"})
          [] OTHER -> FALSE)
IdentificationCheckPass(s, m) ==
  Fails(Notes(m, {"identification"}), Given(s, "num", "max_dim_cova_group") /\ Num(s, "max_dim_cova_group") = 0)
SvarIdentificationCheckPass(s, m) ==
  Fails(Notes(m, {"svar_identification"}),
        "svar_identification" \in m.present \/ {"upper", "lower"} \subseteq s.of.cholesky)
(* ms.restrictions are <<from, to, probability>>, a probability in tenths *)
Restrictions(s) == IF Given(s, "seq", "ms.restrictions") THEN s.of.options[<<"seq", "ms.restrictions">>] ELSE <<>>
MarkovRestrictions(s) == {Restrictions(s)[i] : i \in DOMAIN Restrictions(s)}
WellFormed(s) ==
  /\ \A i, j \in DOMAIN Restrictions(s) :
       i # j => <<Restrictions(s)[i][1], Restrictions(s)[i][2]>> # <<Restrictions(s)[j][1], Restrictions(s)[j][2]>>
  /\ \A r \in MarkovRestrictions(s) : r[1] =< Num(s, "ms.number_of_regimes") /\ r[2] =< Num(s, "ms.number_of_regimes") /\ r[3] =< 10
(* restrictions on every transition from (to) a regime add to one, others to less; all of them 0 when none is given *)
SumsRight(R, n) == LET total == FoldSet(LAMBDA r, sum : sum + r[3], 0, R)
                   IN IF Cardinality(R) = n THEN total = 10 ELSE total < 10
MarkovSwitchingCheckPass(s, m) ==
  LET n == Num(s, "ms.number_of_regimes") IN
  Fails([m EXCEPT !.chain = @ + 1],
        \/ m.chain + 1 # Num(s, "ms.chain") \/ ~WellFormed(s)
        \/ Given(s, "seq", "ms.restrictions") /\ \E i \in 1..n, side \in 1..2 :
             ~SumsRight({r \in MarkovRestrictions(s) : r[side] = i}, n))
EstimationDataCheckPass(s, m) ==
  Fails(Notes(m, {"data"}), (Given(s, "num", "nobs") /\ Num(s, "nobs") =< 0) \/ ~Given(s, "str", "file"))
PriorCheckPass(s, m) ==
  Fails(m, \/ s.of.prior_shape = "none"
           \/ ~Given(s, "num", "mean") /\ ~Given(s, "num", "mode")
           \/ Given(s, "num", "stdev") = (s.of.prior_variance # 0)
           \/ s.of.type = "corr" /\ TypeOf(s.of.names[1]) # TypeOf(s.of.names[2]))
CorrOptionsCheckPass(s, m) == Fails(m, s.of.type = "corr" /\ TypeOf(s.of.names[1]) # TypeOf(s.of.names[2]))
ShocksCheckPass(s, m) ==
  LET ids == IF s.kind = "mshocks" THEN {}
             ELSE DOMAIN s.of.var_shocks \cup DOMAIN s.of.std_shocks
                    \cup UNION {{p[1], p[2]} : p \in DOMAIN s.of.covar_shocks \cup DOMAIN s.of.corr_shocks}
  IN Notes(m, {"shocks_before_simul"} \cup IF \E i \in ids : Observed(symbols[i][1]) THEN {"measurement_errors"} ELSE {})
PathLength(q) == IF q = <<>> THEN 0 ELSE CHOOSE n \in {q[i][2] : i \in DOMAIN q} : \A i \in DOMAIN q : q[i][2] =< n
ConditionalPathsCheckPass(s, m) ==
  Fails(m, Cardinality({PathLength(s.of.det_shocks[i]) : i \in DOMAIN s.of.det_shocks}) > 1)
(* all_values_required *)
Missing(s) == s.of.all /\ \E i \in DOMAIN symbols : symbols[i][2] \in {"endo", "exo"}
                            /\ \A k \in DOMAIN s.of.init_values : s.of.init_values[k][1] # i
InitParamCheckPass(s, m) ==
  Notes(m, IF symbols[s.of.id][1] = "dsge_prior_weight" THEN {"dsge_weight_initialized"} ELSE {})
InitvalCheckPass(s, m) == Fails(m, Missing(s))
EndvalCheckPass(s, m) == Fails(m, Missing(s) \/ "shocks_before_simul" \in m.present)

-----------------------------------------------------------------------------
(* The workspace of the script: keys begin with the name of an array; what was
   never assigned is 0 *)
Stop(ws) == (<<"stopped">> :> 1) @@ ws  \* an error in MATLAB, or an exception that nothing catches
At(ws, k) == IF k \in DOMAIN ws THEN ws[k] ELSE 0
(* the type-specific ids of SymbolTable::freeze are the columns of the arrays *)
Tsid(i) == Cardinality({j \in 1..i : symbols[j][2] = symbols[i][2]})
ObservedIndex(i) == CHOOSE k \in DOMAIN mod_file.varobs : mod_file.varobs[k] = symbols[i][1]
(* what a sequence of assignments leaves: the last one counts *)
Latest(q) == [k \in {q[i][1] : i \in DOMAIN q} |->
                q[CHOOSE i \in DOMAIN q : q[i][1] = k /\ \A j \in DOMAIN q : q[j][1] = k => j =< i][2]]
Without(ws, arrays) == [k \in {k \in DOMAIN ws : k[1] \notin arrays} |-> ws[k]]

(* the options of a statement; those of a group replace the whole group *)
OptionsInto(s, group) == [k \in {<<group, o[1], o[2]>> : o \in DOMAIN s.of.options} |-> s.of.options[<<k[2], k[3]>>]]
WriteOptions(s, ws) == OptionsInto(s, "options_") @@ ws
WriteGroup(s, ws, group) == OptionsInto(s, group) @@ Without(ws, {group})

InitParamWrite(s, ws) == (<<"params", Tsid(s.of.id)>> :> s.of.value) @@ ws
Array(i) == CASE symbols[i][2] = "endo" -> "steady_state" [] symbols[i][2] = "exo" -> "exo_steady_state"
              [] symbols[i][2] = "exo_det" -> "exo_det_steady_state" [] OTHER -> "params"
WriteInitValues(s) == Latest([i \in DOMAIN s.of.init_values |->
                        <<<<Array(s.of.init_values[i][1]), Tsid(s.of.init_values[i][1])>>, s.of.init_values[i][2]>>])
(* the columns of an array, as a row *)
Width(type) == Cardinality({i \in DOMAIN symbols : symbols[i][2] = type})
Row(ws, array, type) == [c \in 1..Width(type) |-> At(ws, <<array, c>>)]
Copies(n, row) == [i \in 1..n |-> row]
(* writeOutput, then writeOutputPostInit after the auxiliary variables *)
InitvalWrite(s, ws) ==
  LET new == WriteInitValues(s) @@ ws IN
  (<<"exo_simul">> :> Copies(MaxLag, Row(new, "exo_steady_state", "exo"))) @@
  (<<"exo_det_simul">> :> Copies(MaxLag, Row(new, "exo_det_steady_state", "exo_det"))) @@ new
EndvalWrite_Late(s, ws) == (<<"ys0_">> :> Row(WriteInitValues(s) @@ ws, "steady_state", "endo")) @@ WriteInitValues(s) @@
                           (<<"ex0_">> :> Row(ws, "exo_steady_state", "exo")) @@ ws
EndvalWrite(s, ws) == WriteInitValues(s) @@
                      (<<"ex0_">> :> Row(ws, "exo_steady_state", "exo")) @@
                      (<<"ys0_">> :> Row(ws, "steady_state", "endo")) @@ ws
(* an exogenous variable at a lag that the model has is in an auxiliary variable, here
   none; nothing is written for a deterministic one: the target is left out *)
HistvalWrite(s, ws) ==
  LET h == s.of.hist_values
      endo == {k \in DOMAIN h : symbols[k[1]][2] = "endo"}
      exo == {k \in DOMAIN h : symbols[k[1]][2] = "exo"}
      rows == IF <<"exo_simul">> \in DOMAIN ws THEN ws[<<"exo_simul">>] ELSE <<>>
      height == CHOOSE n \in {Len(rows)} \cup {MaxLag + k[2] : k \in exo} :
                  \A m \in {Len(rows)} \cup {MaxLag + k[2] : k \in exo} : m =< n
      Cell(r, c) == LET here == {k \in exo : Tsid(k[1]) = c /\ MaxLag + k[2] = r}
                    IN IF here # {} THEN h[CHOOSE k \in here : TRUE]
                       ELSE IF r =< Len(rows) THEN rows[r][c] ELSE 0
  IN [k \in {<<"endo_histval", Tsid(e[1]), MaxLag + e[2]>> : e \in endo} |->
        h[CHOOSE e \in endo : Tsid(e[1]) = k[2] /\ MaxLag + e[2] = k[3]]] @@
     (IF exo = {} THEN None ELSE <<"exo_simul">> :> [r \in 1..height |-> [c \in 1..Width("exo") |-> Cell(r, c)]]) @@
     Without(ws, {"endo_histval"})
TypeCode(type) == CASE type = "exo" -> 1 [] type = "exo_det" -> 2 [] type = "param" -> 4
HomotopyWrite(s, ws) ==
  (<<"homotopy_values">> :> [i \in DOMAIN s.of.homotopy_values |->
     LET e == s.of.homotopy_values[i] IN <<TypeCode(symbols[e[1]][2]), Tsid(e[1]), e[2], e[3]>>]) @@ ws
LoadParamsWrite(s, ws) ==
  Latest([i \in DOMAIN s.of.content |->
    <<<<Array(IdOf(s.of.content[i][1])), Tsid(IdOf(s.of.content[i][1]))>>, s.of.content[i][2]>>]) @@ ws

-----------------------------------------------------------------------------
(* Shocks. make_ex_ builds or completes the paths of the exogenous variables *)
Paths == {<<"exo_simul", "exo_steady_state", "exo">>, <<"exo_det_simul", "exo_det_steady_state", "exo_det">>}
Full == MaxLag + Periods + 1
MakeEx(ws, p) ==
  LET terminal == Row(ws, p[2], p[3])
      first == IF p[3] = "exo" /\ <<"ex0_">> \in DOMAIN ws THEN ws[<<"ex0_">>] ELSE terminal
      now == IF <<p[1]>> \in DOMAIN ws THEN ws[<<p[1]>>] ELSE <<>>
  IN IF now = <<>> THEN Copies(MaxLag, first) \o Copies(Periods + 1, terminal)
                   ELSE now \o Copies(Full - Len(now), terminal)
(* set_shocks: a shock replaces the value of its periods, an mshock multiplies it *)
Hits(q, r) == SelectSeq(q, LAMBDA e : e[1] + MaxLag =< r /\ r =< e[2] + MaxLag)
Product(q, v) == LET times[i \in 0..Len(q)] == IF i = 0 THEN v ELSE times[i - 1] * q[i][3] IN times[Len(q)]
Shocked(kind, q, v) == IF q = <<>> THEN v ELSE IF kind = "mshocks" THEN Product(q, v) ELSE q[Len(q)][3]
DetElements(s, type, c) ==
  LET ids == {i \in DOMAIN s.of.det_shocks : symbols[i][2] = type /\ Tsid(i) = c}
  IN IF ids = {} THEN <<>> ELSE s.of.det_shocks[CHOOSE i \in ids : TRUE]
Longest(s, type) == LET q == {PathLength(s.of.det_shocks[i]) : i \in {i \in DOMAIN s.of.det_shocks : symbols[i][2] = type}}
                    IN IF q = {} THEN 0 ELSE CHOOSE n \in q : \A m \in q : m =< n
DetShocks(s, ws, p) ==
  LET rows == MakeEx(ws, p)
      longer == rows \o Copies(Bigger(MaxLag + Longest(s, p[3]) - Len(rows), 0), Row(ws, p[2], p[3]))
  IN [r \in DOMAIN longer |-> [c \in DOMAIN longer[r] |-> Shocked(s.kind, Hits(DetElements(s, p[3], c), r), longer[r][c])]]
DetShocksWrite(s, ws) == [k \in {<<p[1]>> : p \in Paths} |-> DetShocks(s, ws, CHOOSE p \in Paths : p[1] = k[1])] @@ ws
(* variances in M_.Sigma_e, or in M_.H for the measurement errors of observed variables *)
Cell(i, j) == IF symbols[i][2] = "exo" THEN <<"Sigma_e", Tsid(i), Tsid(j)>> ELSE <<"H", ObservedIndex(i), ObservedIndex(j)>>
Cells(f) == {p \in (1..Len(symbols)) \X (1..Len(symbols)) : p \in DOMAIN f \/ <<p[2], p[1]>> \in DOMAIN f}
WriteVarAndStdShocks(s) ==
  LET var == s.of.var_shocks  std == s.of.std_shocks IN
  [k \in {Cell(i, i) : i \in DOMAIN var \cup DOMAIN std} |->
     LET i == CHOOSE i \in DOMAIN var \cup DOMAIN std : Cell(i, i) = k
     IN IF i \in DOMAIN std THEN <<"square", std[i]>> ELSE <<"value", var[i]>>]
(* both halves of the matrix; a correlation is scaled by the variances that are there *)
OneWay(f, p) == IF p \in DOMAIN f THEN f[p] ELSE f[<<p[2], p[1]>>]
WriteCovarAndCorrShocks(s, ws) ==
  LET covar == s.of.covar_shocks  corr == s.of.corr_shocks  pairs == Cells(covar) \cup Cells(corr) IN
  [k \in {Cell(p[1], p[2]) : p \in pairs} |->
     LET p == CHOOSE p \in pairs : Cell(p[1], p[2]) = k
     IN IF p \in Cells(corr) THEN <<"corr", OneWay(corr, p), {At(ws, Cell(p[1], p[1])), At(ws, Cell(p[2], p[2]))}>>
                             ELSE <<"value", OneWay(covar, p)>>]
ShocksWrite_CorrFirst(s, ws) ==
  IF \E p \in Cells(s.of.corr_shocks) : \E i \in {p[1], p[2]} : Cell(i, i) \notin DOMAIN ws THEN Stop(ws) ELSE
  WriteVarAndStdShocks(s) @@ WriteCovarAndCorrShocks(s, ws) @@ DetShocksWrite(s, ws)
ShocksWrite(s, ws) ==
  LET new == WriteVarAndStdShocks(s) @@ ws IN
  IF \E p \in Cells(s.of.corr_shocks) : Cell(p[1], p[1]) \notin DOMAIN new THEN Stop(ws) ELSE
  WriteCovarAndCorrShocks(s, new) @@
  (<<"sigma_e_is_diagonal">> :> (s.of.covar_shocks = None /\ s.of.corr_shocks = None)) @@
  DetShocksWrite(s, new)
ConditionalPathsWrite(s, ws) ==
  LET ids == DOMAIN s.of.det_shocks IN
  (<<"constrained_vars_">> :> [k \in 1..Cardinality(ids) |-> SetOrder(ids)[k]]) @@ ws
(* Sigma_e: the triangle, whichever it is, and its mirror image *)
SigmaEWrite(s, ws) ==
  LET m == s.of.sigmae_matrix
      Entry(r, c) == IF Len(m[1]) # 1 /\ c >= r THEN m[r][c - r + 1]
                     ELSE IF Len(m[1]) # 1 THEN m[c][r - c + 1]
                     ELSE IF c > r THEN m[c][r] ELSE m[r][c]
  IN [k \in {<<"Sigma_e", r, c>> : r, c \in DOMAIN m} |-> <<"value", Entry(k[2], k[3])>>] @@ Without(ws, {"Sigma_e"})

-----------------------------------------------------------------------------
(* Estimated parameters: a row for each in the table of its kind *)
Rows == {"var_exo", "var_endo", "param_vals", "corrx", "corrn"}
IdByName(n) == Tsid(IdOf(n))
Table(type, name) == CASE type = 3 -> IF TypeOf(name) = "exo" THEN "corrx" ELSE "corrn"
                       [] type = 2 -> "param_vals"
                       [] OTHER -> IF TypeOf(name) = "exo" THEN "var_exo" ELSE "var_endo"
RowKey(e) == <<Table(e[1], e[2]), IdByName(e[2]), IF e[1] = 3 THEN IdByName(e[3]) ELSE 0>>
EstimatedParamsWrite(s, ws) ==
  Latest([i \in DOMAIN s.of.estim_params |-> <<RowKey(s.of.estim_params[i]), s.of.estim_params[i][4]>>]) @@ Without(ws, Rows)
(* the table is the one of the symbol's type: it must have rows, but a row that is not there
   is not set. For a correlation of shocks the search has its parenthesis in the wrong place:
   when some row has the first variable, every row with the second one is set, and the rows
   with the first have to be one or as many as there are. For one of measurement errors a
   parenthesis is missing. *)
TableOfInit(e) == CASE TypeOf(e[2]) = "exo" -> (IF e[1] = 3 THEN "corrx" ELSE "var_exo")
                    [] TypeOf(e[2]) = "endo" -> (IF e[1] = 3 THEN "corrn" ELSE "var_endo")
                    [] TypeOf(e[2]) = "param" /\ e[1] < 3 -> "param_vals"
                    [] OTHER -> "none"
Selected(e, k, ws) ==
  /\ k[1] = TableOfInit(e)
  /\ IF e[1] < 3 THEN k[2] = IdByName(e[2])
     ELSE k[3] = IdByName(e[3]) /\ \E r \in DOMAIN ws : r[1] = k[1] /\ r[2] = IdByName(e[2])
RowsIn(table, ws) == {k \in DOMAIN ws : k[1] = table}
Searchable(e, ws) ==
  LET all == RowsIn(TableOfInit(e), ws)
      first == {k \in all : k[2] = IdByName(e[2])}
  IN TableOfInit(e) # "none" =>
     /\ all # {} /\ TableOfInit(e) # "corrn"
     /\ e[1] = 3 => Cardinality(first) = 1 \/ Cardinality(all) = 1 \/ first = all
Reset(f, by, kind) == IF kind = "estimated_params_init" THEN [f EXCEPT !.init = by.init]
                      ELSE [f EXCEPT !.low = by.low, !.up = by.up]
EstimatedParamsInitWrite(s, ws) ==
  LET q == s.of.estim_params
      Selecting(k) == {i \in DOMAIN q : Selected(q[i], k, ws)}
  IN IF \E i \in DOMAIN q : ~Known(q[i][2]) \/ ~Searchable(q[i], ws) THEN Stop(ws)
     ELSE [k \in DOMAIN ws |-> IF Selecting(k) = {} THEN ws[k] ELSE Reset(ws[k], q[Max(Selecting(k))][4], s.kind)]
TrendsWrite(s, ws) ==
  [k \in {<<"trend_coeffs", ObservedIndex(IdOf(n))>> : n \in {n \in DOMAIN s.of.trend_elements : Observed(n)}} |->
     s.of.trend_elements[mod_file.varobs[k[2]]]] @@ ws
OsrParamsWrite(s, ws) == (<<"osr_params_">> :> s.of.symbol_list) @@ ws
OptimWeightsWrite(s, ws) ==
  LET v == s.of.var_weights  c == s.of.covar_weights
      keys == {<<"optim_weights_", IdByName(n), IdByName(n)>> : n \in DOMAIN v}
      keys2 == {<<"optim_weights_", IdByName(p[1]), IdByName(p[2])>> : p \in DOMAIN c}
  IN (<<"obj_var_">> :> {IdByName(n) : n \in DOMAIN v} \cup UNION {{IdByName(p[1]), IdByName(p[2])} : p \in DOMAIN c}) @@
     [k \in keys2 |-> c[CHOOSE p \in DOMAIN c : IdByName(p[1]) = k[2] /\ IdByName(p[2]) = k[3]]] @@
     [k \in keys |-> v[CHOOSE n \in DOMAIN v : IdByName(n) = k[2]]] @@ Without(ws, {"optim_weights_"})
ModelComparisonWrite(s, ws) == (<<"ModelNames_">> :> s.of.filename_list) @@ WriteOptions(s, ws)

-----------------------------------------------------------------------------
(* Structural VAR and Markov switching *)
Column(r) == IF r.lag = 0 THEN r.variable ELSE (r.lag - 1) * Width("endo") + r.variable
SvarIdentificationWrite(s, ws) ==
  LET q == s.of.ident_restrictions
      new == Latest([i \in DOMAIN q |-> <<<<IF q[i].lag = 0 THEN "Qi" ELSE "Ri", q[i].equation, q[i].nbr, Column(q[i])>>, q[i].value>>])
  IN (<<"cholesky">> :> s.of.cholesky) @@
     (IF {"upper", "lower"} \cap s.of.cholesky = {} THEN new @@ Without(ws, {"Qi", "Ri"}) ELSE ws)
MarkovSwitchingWrite(s, ws) == (<<"ms_chain", Num(s, "ms.chain")>> :> Restrictions(s)) @@ ws
SvarWrite(s, ws) ==
  (<<"ms_equations", Num(s, "ms.chain"), CHOOSE o \in {"ms.coefficients", "ms.variances", "ms.constants"} : Given(s, "str", o)>>
     :> (IF Given(s, "vec_int", "ms.equations") THEN s.of.options[<<"vec_int", "ms.equations">>] ELSE <<>>)) @@ ws
(* each of the ms_ commands begins with options of its own, then sets what it was given *)
BvarWrite(s, ws) == IF s.kind \in {"bvar_density", "bvar_forecast", "sbvar"} THEN WriteOptions(s, ws)
                    ELSE WriteOptions(s, [k \in {k \in DOMAIN ws : ~(k[1] = "options_" /\ k[3] = "ms.drop")} |-> ws[k]])

-----------------------------------------------------------------------------
(* estimation_info: what is known of an estimated object is found by the position of
   its name, or of its two names in either order, in an index *)
Base(type, names) == IF type = "par" THEN "parameter"
                     ELSE IF TypeOf(names[1]) \in Shockable THEN "structural_innovation" ELSE "measurement_error"
Index(ws, key) == IF key \in DOMAIN ws THEN ws[key] ELSE <<>>
PositionOf_OneOrder(q, names) == IF \E i \in DOMAIN q : q[i] = names THEN CHOOSE i \in DOMAIN q : q[i] = names ELSE Len(q) + 1
PositionOf(q, names) == IF \E i \in DOMAIN q : q[i] = names THEN CHOOSE i \in DOMAIN q : q[i] = names
                        ELSE IF \E i \in DOMAIN q : q[i] = Reversed(names) THEN CHOOSE i \in DOMAIN q : q[i] = Reversed(names)
                        ELSE Len(q) + 1
Placed(q, names) == [i \in 1..Bigger(Len(q), PositionOf(q, names)) |-> IF i = PositionOf(q, names) THEN names ELSE q[i]]
(* the slot of a whole sample or of a subsample *)
RangeIndex(ws, names, sub) ==
  LET known == Index(ws, <<"subsamples_index">>)
      at == PositionOf(known, names)
      ranges == IF at \in DOMAIN known THEN ws[<<"subsamples", at>>] ELSE <<>>
  IN IF \E i \in DOMAIN ranges : ranges[i] = sub THEN CHOOSE i \in DOMAIN ranges : ranges[i] = sub ELSE 0
Slot(what, type, names, at, sub, ws) ==
  <<what, Base(type, names), Len(names), at, IF sub = 0 THEN 0 ELSE RangeIndex(ws, names, sub)>>
IndexKey(what, type, names) == <<"index", what, Base(type, names), Len(names)>>
(* subsamples, and the priors of the object begin again *)
SubsamplesWrite(s, ws, ranges) ==
  LET known == Index(ws, <<"subsamples_index">>)
      at == PositionOf(known, s.of.names)
      type == IF TypeOf(s.of.names[1]) = "param" THEN "par" ELSE "other"
      key == IndexKey("prior", type, s.of.names)
      slot == <<"prior", Base(type, s.of.names), Len(s.of.names), PositionOf(Index(ws, key), s.of.names)>>
  IN (<<"subsamples_index">> :> Placed(known, s.of.names)) @@ (<<"subsamples", at>> :> ranges)
       @@ (key :> Placed(Index(ws, key), s.of.names))
       @@ [k \in {k \in DOMAIN ws : ~(k[1] = "prior" /\ SubSeq(k, 1, 4) = slot /\ k[5] # 0)} |-> ws[k]]
CopySubsamplesWrite(s, ws) ==
  LET known == Index(ws, <<"subsamples_index">>)  from == PositionOf(known, s.of.from)
  IN IF from \notin DOMAIN known THEN Stop(ws) ELSE SubsamplesWrite(s, ws, ws[<<"subsamples", from>>])
(* prior and options of one object *)
EstimatedObjectWrite(s, ws, content) ==
  LET key == IndexKey(s.kind, s.of.type, s.of.names)
      at == PositionOf(Index(ws, key), s.of.names)
      slot == Slot(s.kind, s.of.type, s.of.names, at, s.of.sub, ws)
  IN IF s.of.sub # 0 /\ slot[5] = 0 THEN Stop(ws)
     ELSE (key :> Placed(Index(ws, key), s.of.names)) @@ (slot :> content) @@ ws
PriorWrite(s, ws) == EstimatedObjectWrite(s, ws, <<s.of.prior_shape, s.of.prior_variance, s.of.options>>)
SetOptionsWrite(s, ws) == EstimatedObjectWrite(s, ws, <<"", 0, s.of.options>>)
(* a copy. The objects of a base are one array, of its priors and of its options, that begins
   with one blank element; what an array skips when it grows is [] until it is written. To read
   what is not there is an error, and so is a subsample that would be []. *)
Blank == <<"", 0, None>>
There(k, ws) ==
  /\ k[4] = 1 \/ \E what \in {"prior", "options"} : k[4] =< Len(Index(ws, <<"index", what, k[2], k[3]>>))
  /\ k[1] = "options" /\ k[5] # 0 /\ (k[4] # 1 \/ k[5] # 1) =>
       \E l \in DOMAIN ws : l[1] = "options" /\ SubSeq(l, 1, 4) = SubSeq(k, 1, 4) /\ l[5] >= k[5]
Copied(k, ws) == IF k \in DOMAIN ws THEN ws[k] ELSE IF k[4] = 1 \/ k[5] # 0 THEN Blank ELSE <<>>
CopyWrite(s, ws) ==
  LET what == IF s.kind = "copy_prior" THEN "prior" ELSE "options"
      key == IndexKey(what, s.of.type, s.of.names)
      source == IndexKey(what, s.of.from_type, s.of.from)
      to == Slot(what, s.of.type, s.of.names, PositionOf(Index(ws, key), s.of.names), s.of.sub, ws)
      from == Slot(what, s.of.from_type, s.of.from, PositionOf(Index(ws, source), s.of.from), s.of.from_sub, ws)
  IN IF \/ s.of.sub # 0 /\ (to[5] = 0 \/ Copied(from, ws) = <<>>)
        \/ s.of.from_sub # 0 /\ from[5] = 0
        \/ ~There(from, ws)
     THEN Stop(ws)
     ELSE (key :> Placed(Index(ws, key), s.of.names)) @@ (to :> Copied(from, ws)) @@ ws
=============================================================================
