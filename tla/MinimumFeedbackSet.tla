-------------------------- MODULE MinimumFeedbackSet --------------------------
(* The feedback vertices of a directed graph (preprocessor/MinimumFeedbackSet). *)
(* A graph is reduced by three rules until none applies, then its vertex with  *)
(* the most edges is cut, and so on until no cycle is left.                    *)
(*                                                                             *)
(* The graphs of the Boost library keep their vertices and their edges in      *)
(* lists, and the rules walk these lists: a graph is                           *)
(*   [vertices, edges]  two sequences, an edge being <<source, target>>.       *)
(* While it is reduced it also carries "taken", the vertices put aside so far. *)
EXTENDS Naturals, Sequences, FiniteSets, SequencesExt

(* the elements of a list that are in P *)
Those(s, P) == FoldLeft(LAMBDA t, x: IF x \in P THEN Append(t, x) ELSE t, <<>>, s)

InEdges(g, v) == Those(g.edges, {e \in Range(g.edges): e[2] = v})
OutEdges(g, v) == Those(g.edges, {e \in Range(g.edges): e[1] = v})

(* clear_vertex and remove_vertex *)
Suppress(g, v) ==
  [g EXCEPT !.vertices = Those(@, Range(@) \ {v}),
            !.edges = Those(@, {e \in Range(@): v \notin {e[1], e[2]}})]

(* v leaves the graph and is remembered *)
SetAside(g, v) == [Suppress(g, v) EXCEPT !.taken = Append(@, v)]

(* every path through v becomes an edge, unless there is one already *)
Bypass(g, v) ==
  LET ins == InEdges(g, v)
      outs == OutEdges(g, v)
      through == FlattenSeq([i \in DOMAIN ins |->
                   [j \in DOMAIN outs |-> <<ins[i][1], outs[j][2]>>]])
  IN [g EXCEPT !.edges = @ \o Those(through, Range(through) \ Range(g.edges))]

Eliminate(g, v) == Suppress(Bypass(g, v), v)

(* the neighbours of v all lead to it and back; from the second one on they    *)
(* are also checked to be adjacent to one another                              *)
BelongsToClique(g, v) ==
  LET ins == InEdges(g, v)
      outs == OutEdges(g, v)
  IN /\ Len(ins) = Len(outs)
     /\ \A i \in DOMAIN ins: ins[i][1] = outs[i][2] /\ ins[i][1] # v
     /\ \A i, j \in 2..Len(ins):
          i < j => {<<ins[i][1], ins[j][1]>>, <<ins[j][1], ins[i][1]>>} \subseteq Range(g.edges)

Applies(rule, g, v) ==
  \/ /\ rule = "one or less"
     /\ Len(InEdges(g, v)) <= 1 \/ Len(OutEdges(g, v)) <= 1
     /\ <<v, v>> \notin Range(g.edges)
  \/ rule = "clique" /\ BelongsToClique(g, v)
  \/ rule = "loop" /\ <<v, v>> \in Range(g.edges)
  \/ rule = "source" /\ InEdges(g, v) = <<>>

(* the vertices that loop, and those without a predecessor, are put aside *)
Applied(rule, g, v) ==
  IF rule \in {"loop", "source"} THEN SetAside(g, v)
  ELSE Eliminate(g, v)

(* A step of the walk over the vertices, at place k. After the removal of the  *)
(* first vertex the walk starts again, and its increment passes over the new   *)
(* first vertex.                                                               *)
WalkStep(rule, w) ==
  IF w.k > Len(w.g.vertices) THEN w
  ELSE IF Applies(rule, w.g, w.g.vertices[w.k])
       THEN [w EXCEPT !.g = Applied(rule, @, @.vertices[w.k]), !.k = IF w.first THEN 2 ELSE @]
       ELSE [w EXCEPT !.k = @ + 1, !.first = FALSE]

(* a step removes a vertex or passes one, so there are no more than vertices *)
Walk(rule, g) ==
  FoldLeft(LAMBDA w, v: WalkStep(rule, w), [g |-> g, k |-> 1, first |-> TRUE], g.vertices).g

ReductionRules(g) == Walk("loop", Walk("clique", Walk("one or less", g)))

HasCycle(g) ==
  \E s \in (SUBSET Range(g.vertices)) \ {{}}:
    \A v \in s: \E w \in s: <<v, w>> \in Range(g.edges)

Degree(g, v) == Len(InEdges(g, v)) + Len(OutEdges(g, v))

(* the first vertex of the highest degree *)
CutVertex(g) ==
  g.vertices[CHOOSE k \in DOMAIN g.vertices: \A j \in DOMAIN g.vertices:
               /\ Degree(g, g.vertices[j]) <= Degree(g, g.vertices[k])
               /\ Degree(g, g.vertices[j]) = Degree(g, g.vertices[k]) => k <= j]

Cut(g) == SetAside(g, CutVertex(g))

(* the rules for as long as they remove something, else a cut *)
ReduceStep(r) ==
  IF r.g.vertices # <<>> /\ Len(r.g.vertices) < r.before
  THEN [g |-> ReductionRules(r.g), before |-> Len(r.g.vertices)]
  ELSE IF HasCycle(r.g) THEN [g |-> Cut(r.g), before |-> Len(r.g.vertices)] ELSE r

(* two steps remove a vertex, after a first one that may remove none *)
Reduced(g) ==
  FoldLeft(LAMBDA r, k: ReduceStep(r), [g |-> g, before |-> Len(g.vertices) + 1],
           [k \in 1..(2 * Len(g.vertices) + 1) |-> k]).g

MinimalSetOfFeedbackVertex(g) ==
  Range(Reduced([vertices |-> g.vertices, edges |-> g.edges, taken |-> <<>>]).taken)

(* the other vertices, those without a predecessor first *)
Ordered(g) == FoldLeft(LAMBDA h, v: Walk("source", h), g, g.vertices).taken

ReorderTheRecursiveVariables(g, feedback) ==
  LET left == Range(g.vertices) \ feedback
  IN Ordered([vertices |-> Those(g.vertices, left),
              edges |-> Those(g.edges, {e \in Range(g.edges): {e[1], e[2]} \subseteq left}),
              taken |-> <<>>])

(* the vertices selected, in their order, with the edges between them *)
ExtractSubgraph(g, select) ==
  LET kept == Those(g.vertices, select)
      inside == {e \in Range(g.edges): e[2] \in select}
  IN [vertices |-> kept,
      edges |-> FlattenSeq([i \in DOMAIN kept |-> Those(OutEdges(g, kept[i]), inside)])]
==============================================================================
