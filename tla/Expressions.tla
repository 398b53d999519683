---------------------------- MODULE Expressions ----------------------------
(***************************************************************************)
(* Expressions of a model, as the parser builds them, and what the rest of *)
(* the preprocessor and the bytecode evaluator make of them.               *)
(*                                                                         *)
(* tree is the expression built so far.  value is what the user wrote: the *)
(* value of the same operations, applied to values instead of nodes, on    *)
(* each of the paths of Cases.  A value has two parts: at today's date,    *)
(* and in the steady state.  terms holds the term that dynare++ builds     *)
(* from the same text, and nothing when it cannot read it.                 *)
(***************************************************************************)
EXTENDS Derivation, Normalization, ModelCode, OperationTree

CONSTANTS MaxOps,      \* bound on the operators of an expression
          Unary,       \* the functions of one argument that are tried
          Binary,      \* the operators of two arguments
          Outer        \* those of them that are applied to an operation

VARIABLES tree, terms, value, ops
vars == <<tree, terms, value, ops>>

-----------------------------------------------------------------------------
(* The symbols and their paths. *)
X  == Variable("x", "eEndogenous", 0)
XP == Variable("x", "eEndogenous", 1)
Y  == Variable("y", "eEndogenous", 0)
Z  == Variable("z", "eEndogenous", 0)
U  == Variable("u", "eExogenous", 0)
A  == Variable("a", "eParameter", 0)
Dynamic == DynamicTree({A})
Leaves   == {X, XP, A, Zero, OneNode, Two}
Partners == {X, Two}

(* A case is a point and the variable that moves along t from it. *)
Cases == {<<0, X>>, <<1, X>>, <<1, A>>}
Points == {c \in Cases : c[2] = X}
Today == 2
Moving(c, v, n) == IF c[2] = v THEN [Num(n) EXCEPT ![2] = 1] ELSE Num(n)
Env(c) ==
  [defs |-> <<>>,
   val |-> [x |-> [d \in 0..3 |-> IF d = Today THEN Moving(c, X, c[1]) ELSE Num(c[1] + 1)],
            y |-> [d \in 0..3 |-> Num(2)], z |-> [d \in 0..3 |-> Num(1)], u |-> [d \in 0..3 |-> Num(3)],
            a |-> [d \in {0} |-> Moving(c, A, c[1] + 1)]]]
LeafValue(e) == [c \in Cases |-> <<Value(e, Env(c), Today), Value(e, Env(c), Steady)>>]

(* The same operation on values. *)
Lifted1(F1(_), v)       == [c \in Cases |-> [i \in 1..2 |-> F1(v[c][i])]]
Lifted2(F2(_, _), v, w) == [c \in Cases |-> [i \in 1..2 |-> F2(v[c][i], w[c][i])]]

-----------------------------------------------------------------------------
(* The parser's actions.                                                   *)
Init == /\ tree \in Leaves
        /\ terms = {Nulary(tree)}
        /\ value = LeafValue(tree)
        /\ ops = 0

Grown(t, ts, v) ==
  tree' = t /\ terms' = ts /\ value' = v /\ ops' = ops + 1 /\ ops < MaxOps

(* The rules of the parser of dynare++: one for each of its operations.    *)
Codes(op) == {code \in DOMAIN Opcode : Opcode[code] = op}
UnaryTerms(op)  == {add_unary(code, t) : code \in Codes(op), t \in terms}
BinaryTerms(op, leaf, left) ==
  {IF left THEN add_binary(code, t, Nulary(leaf)) ELSE add_binary(code, Nulary(leaf), t) :
     code \in Codes(op), t \in terms}

AddUnary(op) ==
  Grown(Built(Op1(op, tree)), UnaryTerms(op), Lifted1(LAMBDA v : UnaryEval(op, v), value))
AddBinary(op, leaf, left, w) ==      \* left: the expression is the left operand
  LET operands == IF left THEN <<tree, leaf>> ELSE <<leaf, tree>>
      values   == IF left THEN <<value, w>> ELSE <<w, value>>
  IN Grown(Built(Op2(op, operands[1], operands[2])), BinaryTerms(op, leaf, left),
           Lifted2(LAMBDA v, u : BinaryEval(op, v, u, 0), values[1], values[2]))
AddTrinary(op, mu, sigma, m, s) ==
  Grown(Built(Op3(op, tree, mu, sigma)), {},
        [c \in Cases |-> [i \in 1..2 |-> TrinaryEval(op, value[c][i], m[c][i], s[c][i])]])
AddSteadyStateOf ==
  /\ tree.op = "Variable" /\ tree.type \in {"eEndogenous", "eParameter"}
  /\ Grown(Built(SteadyState(tree)), {}, [c \in Cases |-> <<value[c][2], value[c][2]>>])
AddExternalFunction(e) ==
  Grown(e, {}, Lifted2(LAMBDA v, w : ExternalValue(e, <<v, w>>), value, LeafValue(e.args[2])))
DeclareLocalVariable ==
  /\ tree.op # "Variable"
  /\ Grown(LocalVariable("l", tree), {}, value)

Tried(S) == IF ops = 0 THEN S ELSE S \cap Outer
Pool     == IF ops = 0 THEN Leaves ELSE Partners
Next == \/ \E op \in Tried(Unary) : AddUnary(op)
        \/ \E leaf \in Pool : \E w \in {LeafValue(leaf)} :
             \E op \in Tried(Binary), left \in BOOLEAN : AddBinary(op, leaf, left, w)
        \/ \E op \in TrinaryOps, mu \in Pool \cap {X, A}, sigma \in {X, Two} :
             AddTrinary(op, mu, sigma, LeafValue(mu), LeafValue(sigma))
        \/ AddSteadyStateOf
        \/ \E f \in {"f", "g", "h"}, leaf \in {X, Two} :
             AddExternalFunction(Built(External(f, <<tree, leaf>>)))
        \/ DeclareLocalVariable
Spec == Init /\ [][Next]_vars

-----------------------------------------------------------------------------
(* Helpers of the properties. *)
Uses(e, S)  == \E n \in Nodes(e) : n.op \in S
(* A division by zero, a logarithm of zero: the program has ended.         *)
Aborted(e)  == ErrorNode \in Nodes(e)
RECURSIVE Occurrences(_, _)
Occurrences(e, v) ==
  IF e = v THEN 1 ELSE IF IsLocal(e) THEN Occurrences(e.def, v) ELSE IF IsLeaf(e) THEN 0
  ELSE Tot([i \in DOMAIN e.args |-> Occurrences(e.args[i], v)], Len(e.args))
(* Equality as far as a series is known. *)
Agree(a, b, n) == NaN \in {a, b} \/ \A i \in 1..n : a[i] = b[i]

(* The simplifications of DataTree.cc and of tree.cpp change no value: an  *)
(* expression, and a term as EvalTree evaluates it, has the value of what  *)
(* the user wrote, wherever that has one.                                  *)
SimplificationsKeepTheValue ==
  \A c \in Cases : value[c][1] # NaN =>
    /\ Aborted(tree) \/ Value(tree, Env(c), Today) = value[c][1]
    /\ \A t \in terms : eval(t, Env(c), Today) = value[c][1]

(* The first and second symbolic derivatives (composeDerivatives) are the  *)
(* derivatives of the value along the variable.  The derivative of atanh   *)
(* is left out (see the findings), and so is the steady state.             *)
Smooth(e) == ~Aborted(e) /\ ~Uses(e, {"oAtanh", "oSteadyState"})
IsDerivative(d, c, v, n) ==      \* d has the values of the series v, known to n
  Aborted(d) \/ Agree(Value(d, Env(c), Today), v, n)
BothRight(c, d, v) ==
  /\ IsDerivative(d, c, v, Order - 1)
  /\ Aborted(d) \/ \A d2 \in {Derivative(d, c[2], Dynamic)} : IsDerivative(d2, c, Diff(v), Order - 2)
(* The derivatives of a term of dynare++, by its multi-index, are those of *)
(* the value too: the second ones in whichever order, and those of 1 - erf *)
(* as well.  So are the two files it writes for the static model: running  *)
(* the first gives the value, and the derivatives of the second, added up  *)
(* over the periods of a variable, are the derivative of the first.        *)
TermVariables == <<X, XP, A>>
Ordered2(i, j) == IF i <= j THEN <<i, j>> ELSE <<j, i>>
TermDerivatives(fd, t, c) ==
  \A env \in {Env(c)}, j \in {k \in DOMAIN TermVariables : TermVariables[k] = c[2]} :
    /\ Agree(eval(derivative(fd, <<j>>), env, Today), Diff(eval(t, env, Today)), Order - 1)
    /\ \A i \in DOMAIN TermVariables :
         Agree(eval(derivative(fd, Ordered2(i, j)), env, Today),
               Diff(eval(derivative(fd, <<i>>), env, Today)), Order - 2)
StaticEnv(n) == [Env(<<n, A>>) EXCEPT !.val.x = [d \in 0..3 |-> [Num(n) EXCEPT ![2] = 1]],
                                      !.val.a = [d \in {0} |-> Num(n + 1)]]
StaticFiles(fd, t, env) ==
  \A f \in {Run(write_der0(<<t>>), env)}, df \in {Run(write_der1(<<fd>>, 2), env)} :
    LET slope(j) == IF derivative(fd, <<j>>) = zero THEN Num(0) ELSE df[derivative(fd, <<j>>)]
    IN /\ Agree(f[t], eval(t, env, Steady), Order)
       /\ Agree(Add(slope(1), slope(2)), Diff(f[t]), Order - 1)
TermsAreRight ==
  \A s \in terms : \A t \in {s, add_unary("ERFC", s)} :
    \A fd \in {FormulaDerivatives([j \in DOMAIN TermVariables |-> Nulary(TermVariables[j])], t, 2)} :
      /\ \A c \in Cases : TermDerivatives(fd, t, c)
      /\ \A n \in {0, 1} : StaticFiles(fd, t, StaticEnv(n))
(* In a static model STEADY_STATE(x) is x, and is derived as x.            *)
Static == [Dynamic EXCEPT !.dynamic = FALSE]
StaticDerivative(e) ==
  (Uses(e, {"oSteadyState"}) /\ ~Aborted(e) /\ ~Uses(e, {"oAtanh"})) =>
    \A d \in {Derivative(e, X, Static)}, env \in {StaticEnv(0), StaticEnv(1)} :
      Aborted(d) \/ Agree(Value(d, env, Steady), Diff(Value(e, env, Steady)), Order - 1)
DerivativesAreRight ==
  /\ Smooth(tree) =>
       \A c \in Cases : \A d \in {Derivative(tree, c[2], Dynamic)},
                          v \in {Diff(Value(tree, Env(c), Today))} : BothRight(c, d, v)
  /\ StaticDerivative(ToStatic(tree))
  /\ TermsAreRight

(* A block evaluates y = x * x + x(+1), then z = tree * y, and solves two  *)
(* equations in both of them for x.  Its chain-rule derivatives, taken in  *)
(* the order of the code over tables that the ordinary ones have filled    *)
(* and that each leaves to the next, are the total derivatives: y, stored  *)
(* while z was derived or before, by x or by x(+1), is read by all of      *)
(* them.  The recursive equations are derived first when they have been    *)
(* normalized, and not at all otherwise.  The equations of z and of the    *)
(* block put tree into further operations, so that it need not hold more   *)
(* than one itself, or one behind a local variable.                        *)
YRule  == Built(Plus(Times(X, X), XP))
ZRule  == Built(Times(tree, Y))
Recursive == (Y :> Equation(Y, YRule)) @@ (Z :> Equation(Z, ZRule))
Feedback  == << Equation(Built(Plus(Z, tree)), Y), Equation(Built(Times(Y, Z)), U) >>
BlockEquations(normalized) ==
  (IF normalized THEN << Recursive[Y], Recursive[Z] >> ELSE <<>>) \o Feedback
Tables(eqs) == JacobianTables(eqs, {X, Y, Z, XP}, Dynamic)
Along(n, v) ==                   \* the path on which v moves, y and z with it
  LET env == [Env(<<n, U>>) EXCEPT !.val.x[Today + v.lag][2] = 1]
      y   == [env EXCEPT !.val.y[Today] = Value(YRule, env, Today)]
  IN [y EXCEPT !.val.z[Today] = Value(ZRule, y, Today)]
TotalDerivative(e, env, d) ==
  Aborted(d) \/ Agree(Value(d, env, Today), Diff(Value(e, env, Today)), Order - 1)
ChainRuleIsTotal ==
  ((ops < MaxOps \/ IsLocal(tree)) /\ Smooth(tree)) =>
    \A normalized \in BOOLEAN : \A eqs \in {BlockEquations(normalized)} :
      \A jac \in {ChainRuleJacobian(eqs, <<X, XP>>, Recursive, Dynamic, Tables(eqs))},
        env \in {[k \in {0, 1} \X {X, XP} |-> Along(k[1], k[2])]} :
        \A i \in DOMAIN jac.ds, n \in {0, 1} :
          TotalDerivative(jac.ds[i][2], env[<<n, jac.ds[i][1]>>], jac.ds[i][3])

(* An equation that normalizeEquation rewrites as x = RHS holds when x is  *)
(* given the value of RHS, and is evaluated instead of solved when mfs     *)
(* allows it; an equation that is evaluated as it stands, x = RHS, holds   *)
(* once it is.  For the operators whose inverse is right: the others are   *)
(* among the findings, and so is the normal density, which                 *)
(* normalizeEquation makes a distribution function.  A model with local    *)
(* variables is refused before it gets here (ModFile::checkPass).          *)
Invertible == {"oUminus", "oExp", "oLog", "oPlus", "oMinus", "oTimes", "oDivide", "oEqual"}
RECURSIVE PathOps(_, _)
PathOps(e, v) == IF IsLeaf(e) \/ v \notin Nodes(e) THEN {}
                 ELSE {e.op} \cup UNION {PathOps(a, v) : a \in ArgSet(e)}
Normalizable(e) ==
  /\ Occurrences(e, X) = 1 /\ PathOps(e, X) \subseteq Invertible
  /\ \A k \in Nodes(e) : ~IsLocal(k)
  /\ ~Aborted(e) /\ ~Uses(e, {"oNormpdf"})
Solved(env, v)  == [env EXCEPT !.val.x[Today] = v]
HoldsAt(eq, rhs, c) ==               \* once x has the value of rhs
  \A v \in {Value(rhs, Env(c), Today)} :
    v = NaN \/ Value(eq, Solved(Env(c), v), Today) \in {NaN, Num(0)}
(* Signs and comparisons have a derivative of zero (see the findings).     *)
EvaluatedAsItStands ==
  \A d \in {Derivative(Equation(X, tree), X, Dynamic)} :
    (/\ EquationType(Equation(X, tree), [e |-> Null], X, d, 0) = "E_EVALUATE"
     /\ ~Aborted(tree) /\ ~Uses(tree, Comparisons \cup {"oSign"}))
      => \A c \in Cases : HoldsAt(Equation(X, tree), tree, c)
NormalizedEquationsHold ==
  /\ EvaluatedAsItStands
  /\ Normalizable(tree) =>
    \A n \in {NormalizeEquation(Equation(tree, U), X, <<>>)},
       d \in {Derivative(Equation(tree, U), X, Dynamic)} :
      /\ EquationType(Equation(tree, U), n, X, d, 3) # "E_SOLVE"
      /\ n.flag = 0 /\ n.e.args[1] = X /\ X \notin Nodes(n.e.args[2])
      /\ Aborted(n.e) \/ \A c \in Cases : HoldsAt(Equation(tree, U), n.e.args[2], c)

(* What writeOutput writes reads as an expression of the same value, for a *)
(* reader that groups operators as MATLAB or C do: the two sides of an     *)
(* equation, the residual when its right side is empty, and the temporary  *)
(* terms it shares with its derivative.  Comparisons inside the right      *)
(* operand of a comparison, and sums in a density written in C, are left   *)
(* out (see the findings).  The formula that dynare++ dumps reads back as  *)
(* its term, but for a power whose base is a negative (see the findings).  *)
NestedComparison(e) == \E n \in Nodes(e) : n.op \in Comparisons
                          /\ \E a \in ArgSet(n) : a.op \in Comparisons
DensityOfOperation(e) == \E n \in Nodes(e) : n.op = "oNormpdf"
                          /\ \E i \in DOMAIN n.args : ~IsLeaf(n.args[i])
SameEverywhere(a, b) == \A c \in Points : Agree(Value(a, Env(c), Today), Value(b, Env(c), Today), Order)
Readable(e, lang) == ~Aborted(e) /\ ~NestedComparison(e) /\ (lang = "C" => ~DensityOfOperation(e))
ModelText(eq, lang, temps) ==        \* <<what is written, its text>>
  LET sides == WriteEquation(eq, lang, temps)
  IN WriteTemporaryTerms(temps, lang)
       \o [i \in DOMAIN sides |-> <<IF Len(sides) = 1 THEN eq ELSE eq.args[i], sides[i]>>]
RECURSIVE Subterms(_)
Subterms(t) == {t} \cup (IF nary(t) = 0 THEN {} ELSE UNION {Subterms(o) : o \in Range(t.ops)})
NegatedBase(t) == \E s \in Subterms(t) : s.code = "POWER" /\ s.ops[1].code = "UMINUS"
DumpReadsBack ==
  \A t \in {s \in terms : ~NegatedBase(s)} : \A e \in {Parsed(convert(t), "MATLAB")}, c \in Points :
    Agree(Value(e, Env(c), Today), eval(t, Env(c), Today), Order)
OutputReadsBack ==
  /\ Readable(tree, "MATLAB") =>
       \A d \in {Derivative(tree, X, Dynamic)}, lang \in {"MATLAB", "C"} :
         \A temps \in {ModelTemporaryTerms(<<Equation(U, tree), d>>, lang = "MATLAB")} :
           \A w \in Range(ModelText(Equation(U, tree), lang, temps)) :
             Readable(w[1], lang) => SameEverywhere(Parsed(w[2], lang), w[1])
  /\ DumpReadsBack

-----------------------------------------------------------------------------
(* The bytecode of the model  tree = u  in the unknowns x and y, dynamic   *)
(* and static.                                                             *)
Unknowns(dynamic) == IF dynamic THEN <<X, XP, Y>> ELSE <<X, Y>>
FirstDerivatives(eq, vs, dynamic) ==
  SelectSeq([i \in DOMAIN vs |-> [eq |-> 1, v |-> vs[i],
                                  d |-> Derivative(eq, vs[i], IF dynamic THEN Dynamic ELSE Static)]],
            LAMBDA k : k.d # Zero)
Roots(eq, ds) == << eq >> \o [i \in DOMAIN ds |-> ds[i].d]
(* What the evaluator has no right code for (see the findings).            *)
Evaluable(es) == \A i \in DOMAIN es : ~Aborted(es[i]) /\ ~Uses(es[i], {"oLog10", "oAbs", "oSign"})

CodeOf(eq, ds, ts, tt, dynamic) ==
  IF dynamic THEN DynamicModelCode(<<eq>>, ds, ts, tt, "SOLVE_FORWARD_COMPLETE")
  ELSE StaticModelCode(<<eq>>, ds, ts, tt)
Stored1(code) == FlattenSeq([i \in DOMAIN code |-> Write(code[i])])
(* The place of the derivative with respect to v in the Jacobian: a column *)
(* of its own for each lag and variable, the variable in a static model.   *)
Cell(ds, v, dynamic) ==
  <<"FirstEndoDerivative", 1,
    IF ~dynamic THEN v.symb
    ELSE Cardinality({w \in {ds[j].v : j \in DOMAIN ds} :
           w.lag < v.lag \/ (w.lag = v.lag /\ Index[w.symb] <= Index[v.symb])})>>

(* full and lin: the machine after the evaluation and the solution branch; *)
(* dvs, vs: the values of the derivatives and of their variables.  The     *)
(* evaluation branch of a static model leaves its stack (see the findings). *)
Linearised(r, dvs, vs) ==
  FoldLeft(LAMBDA acc, i : Sub(acc, Mul(dvs[i], vs[i])), r, [i \in DOMAIN vs |-> i])
Computed(ds, full, lin, value0, dvs, vs, dynamic) ==
  /\ ~full.failed /\ (dynamic => full.stack = <<>>) /\ lin.stack = <<>>
  /\ Read(full.r, 1) = value0
  /\ \A i \in DOMAIN ds : dvs[i] # NaN =>
       Read(full.jacob, Cell(ds, ds[i].v, dynamic)) = dvs[i] /\ Read(lin.u, 1 + i) = dvs[i]
  /\ (\A i \in DOMAIN ds : dvs[i] # NaN) => Read(lin.u, 1) = Linearised(Read(lin.r, 1), dvs, vs)
Runs(code, env) ==
  [evaluate \in BOOLEAN |-> ComputeBlockTime(Machine, code, 3, evaluate, env, Today)]
RunsRight(code, eq, ds, env, dynamic) ==
  LET date == IF dynamic THEN Today ELSE Steady
  IN \A vs \in {[e \in {eq} \cup {ds[i].d : i \in DOMAIN ds} \cup {ds[i].v : i \in DOMAIN ds} |->
                  Value(e, env, date)]} :
       vs[eq] # NaN => \A runs \in {Runs(code, env)} :
         Computed(ds, runs[TRUE], runs[FALSE], vs[eq], [i \in DOMAIN ds |-> vs[ds[i].d]],
                  [i \in DOMAIN ds |-> vs[ds[i].v]], dynamic)

(* The evaluator reads back the file the preprocessor wrote, and running   *)
(* it gives the residual and, in the evaluation branch, each derivative in *)
(* its place, in the solution branch the linearised equation.              *)
BytecodeComputesTheModel ==
  \A dynamic \in BOOLEAN :
    \A eq \in {IF dynamic THEN Equation(tree, U) ELSE ToStatic(Equation(tree, U))} :
      \A ds \in {FirstDerivatives(eq, Unknowns(dynamic), dynamic)} :
        Evaluable(Roots(eq, ds)) =>
          \A ts \in {Ordered(ModelTemporaryTerms(Roots(eq, ds), FALSE))} :
            \A code \in {CodeOf(eq, ds, ts, CompileTemporaryTerms(ts, dynamic), dynamic)} :
              /\ GetOpCode(Stored1(code), 1) = code
              /\ \A c \in Points : RunsRight(code, eq, ds, Env(c), dynamic)
=============================================================================
