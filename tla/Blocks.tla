-------------------------------- MODULE Blocks --------------------------------
(* The block decomposition of a model (preprocessor/ModelTree, run by the      *)
(* computing passes of DynamicModel and StaticModel under the option "block"). *)
(* The equations are matched with the variables, the triangular ends are put   *)
(* aside, the rest is cut into its strong components, each component gets its  *)
(* feedback variables, and the blocks get the way they will be solved.         *)
(*                                                                             *)
(* What the passes see of a model is which variables an equation holds:        *)
(*   n          the number of equations, and of endogenous variables           *)
(*   entries    [eq, var, lag, mag]: the derivative of an equation by a        *)
(*              variable at a lag, mag being -log2 of its size                 *)
(*   lhs        the variable that is alone on the left of an equation, 0: none *)
(*   separable  <<eq, var>>: normalizeEquation isolates var in eq              *)
(*   products   <<eq, {<<var, lag>>, ...}>>: the derivative by one of the      *)
(*              variables holds the other (itself: a square)                   *)
(*   mfs        the option mfs                                                 *)
(*   select     whether leads and lags make a feedback variable (the dynamic   *)
(*              model; all lags of a static model are 0)                       *)
EXTENDS Integers, Sequences, FiniteSets, Functions, FiniteSetsExt, MinimumFeedbackSet

CONSTANT Files

VARIABLES file,             \* the model
          stage,            \* how far the pass has come
          jacobian,         \* the incidence: first, contemporaneous, static, dynamic
          endo2eq,          \* the equation matched with each variable
          eqs, vars,        \* equation_reordered, variable_reordered
          prologue, epilogue,
          type,             \* Equation_Type
          blocks,           \* [size, mfs] of each strong component
          lagLead,          \* variable_lag_lead: [lag, lead] of a variable in its block
          final,            \* block_type_firstequation_size_mfs, with block_lag_lead
          linear            \* blocks_linear
bvars == <<file, stage, jacobian, endo2eq, eqs, vars, prologue, epilogue, type, blocks,
           lagLead, final, linear>>

Ids(f) == 1..f.n

(* A derivative is kept once for an equation, a variable and a lag; auxiliary  *)
(* variables have taken the place of longer leads and lags (ModFile.cc:286).   *)
ASSUME FilesAssumption ==
  \A f \in Files:
    /\ f.n \in Nat \ {0}
    /\ IsFiniteSet(f.entries)
    /\ \A e \in f.entries: /\ {e.eq, e.var} \subseteq Ids(f) /\ e.mag \in Int
                          /\ e.lag \in IF f.select THEN -1..1 ELSE {0}
    /\ \A d, e \in f.entries: <<d.eq, d.var, d.lag>> = <<e.eq, e.var, e.lag>> => d = e

-------------------------------------------------------------------------------
(* evaluateAndReduceJacobian: what is below the cutoff, 1e-15, is dropped *)

Cutoff == 50
KeptEntries(f) == {e \in f.entries: e.mag < Cutoff}

Incidence(f) ==
  [first |-> {<<e.eq, e.var, e.lag>>: e \in KeptEntries(f)},
   contemporaneous |-> {<<e.eq, e.var>>: e \in {d \in KeptEntries(f): d.lag = 0}},
   static |-> {<<e.eq, e.var>>: e \in KeptEntries(f)},
   dynamic |-> {<<e.lag, e.eq, e.var>>: e \in KeptEntries(f)}]

EvaluateAndReduceJacobian ==
  /\ stage = "jacobian"
  /\ jacobian' = Incidence(file)
  /\ stage' = "normalization"
  /\ UNCHANGED <<file, endo2eq, eqs, vars, prologue, epilogue, type, blocks, lagLead, final, linear>>

-------------------------------------------------------------------------------
(* computeNormalization: a matching of all the variables, each with an         *)
(* equation that holds it. The Boost library finds one of them.                *)
Matchings(f, pattern) ==
  {m \in [Ids(f) -> Ids(f)]:
     IsInjective(m) /\ \A v \in Ids(f): <<m[v], v>> \in pattern}

(* how much smaller an entry is than the largest one of its row *)
Distance(f, e) ==
  e.mag - Min({d.mag: d \in {c \in KeptEntries(f): c.lag = 0 /\ c.eq = e.eq}})

Distances(f) == {Distance(f, e): e \in {d \in KeptEntries(f): d.lag = 0}}

Above(f, k) ==
  {<<e.eq, e.var>>: e \in {d \in KeptEntries(f): d.lag = 0 /\ Distance(f, d) <= k}}

(* The cutoffs at which computeNonSingularNormalization tries: the cutoff is   *)
(* halved from 1, and a try is made when it changed what is suppressed; there  *)
(* is none at first when nothing is. Entries below 1e-15 are never kept.       *)
Tries(f) == IF Distances(f) \subseteq {0} THEN {} ELSE {k \in Distances(f): k < Cutoff}

(* the endogenous of the equations, at any lag *)
Symbolic(f) == {<<e.eq, e.var>>: e \in f.entries}

Successful(f, k) == Matchings(f, Above(f, k)) # {}

(* MUTANT: the matching is looked for among all the entries at once *)
MatchedPattern_AtOnce(f, contemporaneous) ==
  IF Matchings(f, contemporaneous) # {} THEN contemporaneous ELSE Symbolic(f)

(* what the matching is looked for in: the first cutoff that gives one, then   *)
(* all the entries, then the variables of the equations                        *)
MatchedPattern(f, contemporaneous) ==
  IF \E k \in Tries(f): Successful(f, k)
  THEN Above(f, Min({k \in Tries(f): Successful(f, k)}))
  ELSE IF Matchings(f, contemporaneous) # {} THEN contemporaneous ELSE Symbolic(f)

(* a symbolic normalization adds null entries to the incidence matrices *)
Completed(f, j, pattern) ==
  IF pattern \subseteq j.contemporaneous THEN j
  ELSE [first |-> j.first \cup {<<p[1], p[2], 0>>: p \in pattern},
        contemporaneous |-> j.contemporaneous \cup pattern,
        static |-> j.static \cup pattern,
        dynamic |-> j.dynamic \cup {<<0, p[1], p[2]>>: p \in pattern}]

(* computeNonSingularNormalization; without a matching the preprocessor exits *)
Normalize ==
  /\ stage = "normalization"
  /\ \E pattern \in {MatchedPattern(file, jacobian.contemporaneous)}:
       \/ /\ endo2eq' \in Matchings(file, pattern)
          /\ jacobian' = Completed(file, jacobian, pattern)
          /\ stage' = "prologue"
       \/ /\ Matchings(file, pattern) = {}
          /\ stage' = "aborted"
          /\ UNCHANGED <<endo2eq, jacobian>>
  /\ UNCHANGED <<file, eqs, vars, prologue, epilogue, type, blocks, lagLead, final, linear>>

-------------------------------------------------------------------------------
(* computePrologueAndEpilogue: o is the order so far, [eqs, vars, done] *)

Swapped(s, i, j) == [s EXCEPT ![i] = s[j], ![j] = s[i]]

(* MUTANT: the variables left are counted from the next place on *)
TakeEquation_Next(static, o, i) ==
  LET held == {j \in (o.done + 2)..Len(o.eqs): <<o.eqs[i], o.vars[j]>> \in static}
  IN IF Cardinality(held) # 1 THEN o
     ELSE [eqs |-> Swapped(o.eqs, o.done + 1, i),
           vars |-> Swapped(o.vars, o.done + 1, CHOOSE j \in held: TRUE),
           done |-> o.done + 1]

(* the equations that hold a single one of the variables left, one after the   *)
(* other in a scan                                                             *)
TakeEquation(static, o, i) ==
  LET \* the columns of equation i
      held == {j \in (o.done + 1)..Len(o.eqs): <<o.eqs[i], o.vars[j]>> \in static}
  IN IF Cardinality(held) # 1 THEN o
     ELSE [eqs |-> Swapped(o.eqs, o.done + 1, i),
           vars |-> Swapped(o.vars, o.done + 1, CHOOSE j \in held: TRUE),
           done |-> o.done + 1]

ScanPrologue(static, o) ==
  FoldLeft(LAMBDA p, i: TakeEquation(static, p, i), o,
           [k \in 1..(Len(o.eqs) - o.done) |-> o.done + k])

(* Scans until one takes nothing; the next ones would not either, and there    *)
(* are no more than equations.                                                 *)
Prologue(static, o) == FoldLeft(LAMBDA p, eq: ScanPrologue(static, p), o, o.eqs)

(* the variables that a single one of the equations left, from place first on, *)
(* holds: they are put aside from the end                                      *)
TakeVariable(static, o, i, first) ==
  LET end == Len(o.eqs) - o.done
      holding == {j \in first..end: <<o.eqs[j], o.vars[i]>> \in static}
  IN IF Cardinality(holding) # 1 THEN o
     ELSE [eqs |-> Swapped(o.eqs, end, CHOOSE j \in holding: TRUE),
           vars |-> Swapped(o.vars, end, i),
           done |-> o.done + 1]

ScanEpilogue(static, o, first) ==
  FoldLeft(LAMBDA p, i: TakeVariable(static, p, i, first), o,
           [k \in 1..(Len(o.eqs) - o.done - first + 1) |-> first + k - 1])

Epilogue(static, o, first) == FoldLeft(LAMBDA p, eq: ScanEpilogue(static, p, first), o, o.eqs)

MatchedOrder(f, m) ==
  [eqs |-> [i \in Ids(f) |-> i],
   vars |-> [i \in Ids(f) |-> CHOOSE v \in Ids(f): m[v] = i],
   done |-> 0]

ComputePrologueAndEpilogue ==
  /\ stage = "prologue"
  /\ \E p \in {Prologue(jacobian.static, MatchedOrder(file, endo2eq))}:
       \E o \in {Epilogue(jacobian.static, [p EXCEPT !.done = 0], p.done + 1)}:
         /\ prologue' = p.done
         /\ epilogue' = o.done
         /\ eqs' = o.eqs
         /\ vars' = o.vars
  /\ stage' = "types"
  /\ UNCHANGED <<file, jacobian, endo2eq, type, blocks, lagLead, final, linear>>

-------------------------------------------------------------------------------
(* equationTypeDetermination: an equation is evaluated when its variable is    *)
(* alone on its left, or (mfs 2, 3) when it could be isolated                  *)
TypeOf(f, j, eq, var) ==
  IF <<eq, var, 0>> \notin j.first THEN "E_SOLVE"
  ELSE IF f.lhs[eq] = var THEN "E_EVALUATE"
  ELSE IF /\ <<eq, var>> \in f.separable
          /\ \/ f.mfs = 2 /\ <<eq, {<<var, 0>>}>> \notin f.products
             \/ f.mfs = 3
       THEN "E_EVALUATE_S"
  ELSE "E_SOLVE"

EquationTypeDetermination ==
  /\ stage = "types"
  /\ type' = [eq \in Ids(file) |->
                TypeOf(file, jacobian, eq, CHOOSE v \in Ids(file): endo2eq[v] = eq)]
  /\ stage' = "components"
  /\ UNCHANGED <<file, jacobian, endo2eq, eqs, vars, prologue, epilogue, blocks, lagLead, final, linear>>

-------------------------------------------------------------------------------
(* computeBlockDecompositionAndFeedbackVariablesForEachBlock *)

Middle == 1..(file.n - prologue - epilogue)
Place(order, x) == CHOOSE i \in DOMAIN order: order[i] = x
InMiddle(i) == i \in {prologue + k: k \in Middle}

(* the entries of the static Jacobian in the order of its map *)
SortedStatic ==
  Those(FlattenSeq([eq \in Ids(file) |-> [var \in Ids(file) |-> <<eq, var>>]]), jacobian.static)

(* a vertex is a matched pair of the middle part, an edge leads to an equation *)
(* from the variables it holds                                                 *)
MiddleGraph ==
  LET crossing == Those(SortedStatic,
                    {p \in jacobian.static: /\ InMiddle(Place(eqs, p[1])) /\ InMiddle(Place(vars, p[2]))
                                            /\ p[1] # endo2eq[p[2]]})
  IN [vertices |-> [i \in Middle |-> i],
      edges |-> [k \in DOMAIN crossing |->
                   <<Place(eqs, endo2eq[crossing[k][2]]) - prologue,
                     Place(eqs, crossing[k][1]) - prologue>>]]

(* what edges lead to from s, in no more steps than there are vertices *)
Reached(edges, s) ==
  FoldLeft(LAMBDA t, i: t \cup {e[2]: e \in {d \in edges: d[1] \in t}}, s, [i \in Middle |-> i])

StrongComponents(edges) ==
  {{w \in Middle: w \in Reached(edges, {v}) /\ v \in Reached(edges, {w})}: v \in Middle}

(* the orders topological_sort may give *)
TopologicalOrders(edges) ==
  {o \in SetToSeqs(StrongComponents(edges)):
     \A i, j \in DOMAIN o: i < j => ~\E e \in edges: e[1] \in o[j] /\ e[2] \in o[i]}

(* getVariableLeadLagByBlock *)
BlockAt(components, i) ==
  IF i <= prologue THEN i
  ELSE IF InMiddle(i)
  THEN prologue + CHOOSE b \in DOMAIN components: i - prologue \in components[b]
  ELSE i - (file.n - Len(components) - prologue - epilogue)

InBlockEntries(components) ==
  {d \in jacobian.dynamic:
     BlockAt(components, Place(vars, d[3])) = BlockAt(components, Place(eqs, d[2]))}

LagAndLead(lags) == [lag |-> Max({0} \cup {-l: l \in lags}), lead |-> Max({0} \cup lags)]

LagLeadOf(entries, k) ==
  [x \in Ids(file) |-> LagAndLead({d[1]: d \in {c \in entries: c[k] = x}})]

Moves(l) == l.lag > 0 \/ l.lead > 0

(* the vertices that have to be feedback variables get a loop *)
ForcedLoops(variables, equations) ==
  LET forced == {i \in Middle:
                   \/ type[eqs[i + prologue]] = "E_SOLVE"
                   \/ file.mfs = 0
                   \/ file.select /\ (Moves(variables[vars[i + prologue]]) \/ Moves(equations[eqs[i + prologue]]))}
  IN Those([i \in Middle |-> <<i, i>>], {<<i, i>>: i \in forced})

(* static, backward, mixed, forward *)
Pass(l) == IF l.lag = 0 THEN IF l.lead = 0 THEN 0 ELSE 3 ELSE IF l.lead = 0 THEN 1 ELSE 2

InPass(k, s, variables) == Those(s, {i \in Range(s): Pass(variables[vars[i + prologue]]) = k})

InPasses(s, variables) ==
  InPass(0, s, variables) \o InPass(1, s, variables) \o InPass(2, s, variables) \o InPass(3, s, variables)

(* a component: the recursive vertices in the order they can be computed in,   *)
(* then the feedback vertices                                                  *)
OrderedComponent(g, feedback, variables) ==
  [order |-> InPasses(ReorderTheRecursiveVariables(g, feedback), variables)
               \o InPasses(Those(g.vertices, feedback), variables),
   size |-> Len(g.vertices),
   mfs |-> Cardinality(feedback)]

OrderedComponents(g, components, variables) ==
  [b \in DOMAIN components |->
     CHOOSE c \in {OrderedComponent(s, MinimalSetOfFeedbackVertex(s), variables):
                     s \in {ExtractSubgraph(g, components[b])}}: TRUE]

(* the middle of an order of equations or of variables, rearranged *)
Rearranged(order, middle) ==
  [i \in DOMAIN order |-> IF InMiddle(i) THEN order[prologue + middle[i - prologue]] ELSE order[i]]

ComputeBlockDecomposition ==
  /\ stage = "components"
  /\ \E g \in {MiddleGraph}: \E components \in TopologicalOrders(Range(g.edges)):
     \E inBlock \in {InBlockEntries(components)}:
       /\ lagLead' = LagLeadOf(inBlock, 3)
       /\ \E ordered \in {OrderedComponents(
                            [g EXCEPT !.edges = @ \o ForcedLoops(LagLeadOf(inBlock, 3), LagLeadOf(inBlock, 2))],
                            components, LagLeadOf(inBlock, 3))}:
            /\ blocks' = [b \in DOMAIN ordered |-> [size |-> ordered[b].size, mfs |-> ordered[b].mfs]]
            /\ \E middle \in {FlattenSeq([b \in DOMAIN ordered |-> ordered[b].order])}:
                 /\ eqs' = Rearranged(eqs, middle)
                 /\ vars' = Rearranged(vars, middle)
  /\ stage' = "reduction"
  /\ UNCHANGED <<file, jacobian, endo2eq, prologue, epilogue, type, final, linear>>

-------------------------------------------------------------------------------
(* reduceBlocksAndTypeDetermination *)

Single == [size |-> 1, mfs |-> 1]

AllBlocks == [i \in 1..prologue |-> Single] \o blocks \o [i \in 1..epilogue |-> Single]

(* the lags of the variables of a block in its equations *)
BlockLags(first, size) ==
  {d[1]: d \in {c \in jacobian.dynamic:
     {Place(eqs, c[2]), Place(vars, c[3])} \subseteq first..(first + size - 1)}}

Solver(l, size) ==
  IF l.lag > 0 /\ l.lead > 0
  THEN IF size = 1 THEN "SOLVE_TWO_BOUNDARIES_SIMPLE" ELSE "SOLVE_TWO_BOUNDARIES_COMPLETE"
  ELSE IF size > 1
  THEN IF l.lead > 0 THEN "SOLVE_BACKWARD_COMPLETE" ELSE "SOLVE_FORWARD_COMPLETE"
  ELSE IF l.lead > 0 THEN "SOLVE_BACKWARD_SIMPLE" ELSE "SOLVE_FORWARD_SIMPLE"

(* an equation that is a block of its own is evaluated when it can be *)
SimulationType(l, size, equationType) ==
  IF size = 1 /\ equationType # "E_SOLVE" /\ ~(l.lag > 0 /\ l.lead > 0)
  THEN IF l.lead > 0 THEN "EVALUATE_BACKWARD" ELSE "EVALUATE_FORWARD"
  ELSE Solver(l, size)

(* whether equation eq holds, at a lag, a variable of the block *)
HoldsAt(lag, eq, b) ==
  \E j \in b.first..(b.first + b.size - 1): <<lag, eq, vars[j]>> \in jacobian.dynamic

(* MUTANT: evaluated equations are merged whatever their leads and lags *)
Mergeable_Any(b, previousType, new) ==
  /\ previousType = new.type
  /\ new.type \in {"EVALUATE_FORWARD", "EVALUATE_BACKWARD"}

Mergeable(b, previousType, new) ==
  \/ /\ previousType = "EVALUATE_FORWARD" /\ new.type = "EVALUATE_FORWARD"
     /\ ~HoldsAt(1, eqs[new.first], b)
  \/ /\ previousType = "EVALUATE_BACKWARD" /\ new.type = "EVALUATE_BACKWARD"
     /\ ~HoldsAt(-1, eqs[new.first], b)

Merged(b, new) ==
  [b EXCEPT !.size = @ + 1, !.mfs = b.size + 1,
            !.lag = Max({@, new.lag}), !.lead = Max({@, new.lead})]

NewBlock(first, b, l) ==
  [type |-> SimulationType(l, b.size, type[eqs[first]]), first |-> first,
   size |-> b.size, mfs |-> b.mfs, lag |-> l.lag, lead |-> l.lead]

(* the next component is a block, or joins the last block *)
Joined(done, new) ==
  IF new.size = 1 /\ done # <<>> /\ Mergeable(Last(done), Last(done).type, new)
  THEN Front(done) \o <<Merged(Last(done), new)>>
  ELSE Append(done, new)

Reduce(components) ==
  FoldLeft(LAMBDA r, b: [done |-> Joined(r.done, NewBlock(r.first, b, LagAndLead(BlockLags(r.first, b.size)))),
                         first |-> r.first + b.size],
           [done |-> <<>>, first |-> 1], components).done

(* BlockLinear: a derivative holds a variable of the block, looked for at lag  *)
(* 0, or at the lag of the derivative                                          *)
NonlinearEntry(b, p, v, w) ==
  LET inside == b.first..(b.first + b.size - 1)
  IN /\ {Place(eqs, p), Place(vars, v[1]), Place(vars, w[1])} \subseteq inside
     /\ \/ b.type \in {"SOLVE_BACKWARD_COMPLETE", "SOLVE_FORWARD_COMPLETE"} /\ v[2] = 0 /\ w[2] = 0
        \/ b.type \in {"SOLVE_TWO_BOUNDARIES_COMPLETE", "SOLVE_TWO_BOUNDARIES_SIMPLE"} /\ v[2] = w[2]

BlockLinear(b) ==
  ~\E p \in file.products: \E v, w \in p[2]:
     /\ v # w \/ Cardinality(p[2]) = 1
     /\ <<v[2], p[1], v[1]>> \in jacobian.dynamic
     /\ NonlinearEntry(b, p[1], v, w)

ReduceBlocksAndTypeDetermination ==
  /\ stage = "reduction"
  /\ final' = Reduce(AllBlocks)
  /\ stage' = "linearity"
  /\ UNCHANGED <<file, jacobian, endo2eq, eqs, vars, prologue, epilogue, type, blocks, lagLead, linear>>

DetermineLinearBlocks ==
  /\ stage = "linearity"
  /\ linear' = [b \in DOMAIN final |-> BlockLinear(final[b])]
  /\ stage' = "done"
  /\ UNCHANGED <<file, jacobian, endo2eq, eqs, vars, prologue, epilogue, type, blocks, lagLead, final>>

-------------------------------------------------------------------------------
BlocksInit ==
  /\ file \in Files
  /\ stage = "jacobian"
  /\ jacobian = [first |-> {}, contemporaneous |-> {}, static |-> {}, dynamic |-> {}]
  /\ endo2eq = <<>> /\ eqs = <<>> /\ vars = <<>>
  /\ prologue = 0 /\ epilogue = 0
  /\ type = <<>> /\ blocks = <<>> /\ lagLead = <<>> /\ final = <<>> /\ linear = <<>>

Decomposition ==
  \/ EvaluateAndReduceJacobian
  \/ Normalize
  \/ ComputePrologueAndEpilogue
  \/ EquationTypeDetermination
  \/ ComputeBlockDecomposition
  \/ ReduceBlocksAndTypeDetermination
  \/ DetermineLinearBlocks

Spec == BlocksInit /\ [][Decomposition]_bvars

-------------------------------------------------------------------------------
(* PROPERTIES *)

(* how much smaller the smallest entry of a matching is than the largest one of its row *)
Worst(f, m) == Max({Distance(f, e): e \in {d \in KeptEntries(f): d.lag = 0 /\ m[d.var] = d.eq}})

(* The halving of the cutoff (ModelTree.cc:167) finds a normalization as far   *)
(* from singular as there is: no other matching keeps its smallest entry       *)
(* larger, unless that entry is 1e-15 of the largest one of its row or less;   *)
(* and null entries are added only when every matching needs one.              *)
NormalizationIsBest ==
  stage = "prologue" =>
    \A m \in Matchings(file, Incidence(file).contemporaneous):
      /\ jacobian = Incidence(file)
      /\ Worst(file, m) < Cutoff => Worst(file, endo2eq) <= Worst(file, m)

(* The ends that are put aside (ModelTree.cc:345) can be computed by           *)
(* themselves, and stay so whatever is done to the middle: an equation of the  *)
(* prologue holds no variable of a later place, at any lag, a variable of the  *)
(* epilogue is in no equation of an earlier place, and each equation of the    *)
(* ends is at the place of the variable it was matched with.                   *)
EndsAreTriangular ==
  stage \in {"types", "components", "reduction", "linearity", "done"} =>
    \A i \in Ids(file):
      /\ i <= prologue =>
           \A p \in jacobian.static: p[1] = eqs[i] => \E j \in 1..i: p[2] = vars[j]
      /\ i > file.n - epilogue =>
           \A p \in jacobian.static: p[2] = vars[i] => \E j \in i..file.n: p[1] = eqs[j]
      /\ ~InMiddle(i) => endo2eq[vars[i]] = eqs[i]

Inside(b) == b.first..(b.first + b.size - 1)
Recursive(b) == b.first..(b.first + b.size - b.mfs - 1)

(* what is known when the equation at place i of block b is computed at a      *)
(* period, the block being run forward, backward, or for all periods together: *)
(* the place and the lag of a variable it may hold                             *)
KnownInBlock(b, i, p, lag) ==
  /\ b.type = "EVALUATE_FORWARD" => lag < 0 \/ (lag = 0 /\ p <= i)
  /\ b.type = "EVALUATE_BACKWARD" => lag > 0 \/ (lag = 0 /\ p <= i)
  /\ b.type \in {"SOLVE_FORWARD_SIMPLE", "SOLVE_FORWARD_COMPLETE"} => lag <= 0
  /\ b.type \in {"SOLVE_BACKWARD_SIMPLE", "SOLVE_BACKWARD_COMPLETE"} => lag >= 0
  /\ i \in Recursive(b) => lag = 0 /\ (p <= i \/ p \notin Recursive(b))
  /\ p \in Recursive(b) => lag = 0

(* The order the blocks are left in can be computed: each variable has a place *)
(* and each place one block, each equation stays with the variable it was      *)
(* matched with, and holds only variables of earlier blocks, and of its own    *)
(* block where they are known (the merges of ModelTree.cc:850, the passes of   *)
(* :640, the feedback set of MinimumFeedbackSet.cc:341).                       *)
SolvedInOrder ==
  stage = "done" =>
    /\ Range(vars) = Ids(file)
    /\ \A i \in Ids(file): \E k \in DOMAIN final: \A j \in DOMAIN final: i \in Inside(final[j]) <=> j = k
    /\ \A i \in Ids(file): endo2eq[vars[i]] = eqs[i]
    /\ \A k \in DOMAIN final: \A i \in Inside(final[k]): \A d \in jacobian.dynamic:
         d[2] = eqs[i] =>
           \/ Place(vars, d[3]) < final[k].first
           \/ /\ Place(vars, d[3]) \in Inside(final[k])
              /\ KnownInBlock(final[k], i, Place(vars, d[3]), d[1])

(* A block said to be linear (DynamicModel.hh:157) is: no equation of it holds *)
(* the product of two of the values it is solved for.                          *)
LinearBlocksAreLinear ==
  stage = "done" =>
    \A k \in DOMAIN final:
      linear[k] /\ final[k].type \in {"SOLVE_TWO_BOUNDARIES_SIMPLE", "SOLVE_TWO_BOUNDARIES_COMPLETE"} =>
        ~\E p \in file.products:
           /\ Place(eqs, p[1]) \in Inside(final[k])
           /\ \A v \in p[2]: Place(vars, v[1]) \in Inside(final[k])
==============================================================================
