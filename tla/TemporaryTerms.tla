--------------------------- MODULE TemporaryTerms ---------------------------
(***************************************************************************)
(* Temporary terms: which subexpressions of the equations and derivatives  *)
(* of a model are computed once (cost and computeTemporaryTerms of         *)
(* ExprNode.cc), and the code of a model that uses them (ModelTree.cc).    *)
(***************************************************************************)
EXTENDS Output, Interpreter

(* Operators by their cost, in the MATLAB and in the C unit.               *)
UnaryCost(op, matlab) ==
  IF matlab
  THEN CASE op \in {"oUminus", "oSign"} -> 70      [] op = "oExp" -> 160
         [] op \in {"oLog", "oAcos"} -> 300        [] op \in {"oLog10", "oErf"} -> 16000
         [] op \in {"oCos", "oSin", "oCosh"} -> 210 [] op = "oTan" -> 230
         [] op = "oAsin" -> 310    [] op = "oAtan" -> 140   [] op = "oSinh" -> 240
         [] op = "oTanh" -> 190    [] op = "oAcosh" -> 770  [] op = "oAsinh" -> 460
         [] op = "oAtanh" -> 350   [] op \in {"oSqrt", "oAbs"} -> 570  [] OTHER -> 0
  ELSE CASE op \in {"oUminus", "oSign"} -> 3       [] op \in {"oExp", "oAcosh"} -> 210
         [] op = "oLog" -> 137     [] op = "oLog10" -> 139  [] op \in {"oCos", "oSin"} -> 160
         [] op = "oTan" -> 170     [] op \in {"oAcos", "oAtan"} -> 190
         [] op = "oAsin" -> 180    [] op \in {"oCosh", "oSinh", "oTanh", "oErf"} -> 240
         [] op = "oAsinh" -> 220   [] op = "oAtanh" -> 150
         [] op \in {"oSqrt", "oAbs"} -> 90         [] OTHER -> 0
BinaryCost(op, matlab) ==
  CASE op \in Comparisons -> IF matlab THEN 60 ELSE 2
    [] op \in {"oPlus", "oMinus", "oTimes"} -> IF matlab THEN 90 ELSE 4
    [] op \in {"oMax", "oMin"} -> IF matlab THEN 110 ELSE 5
    [] op = "oDivide" -> IF matlab THEN 990 ELSE 15
    [] op \in {"oPower", "oPowerDeriv"} -> IF matlab THEN 1160 ELSE 520
    [] OTHER -> 0
TrinaryCost == 1000
MinCost(matlab) == IF matlab THEN 40*90 ELSE 40*4

(* A temporary term and a leaf cost nothing, the third operand of a        *)
(* trinary operator is not counted.                                        *)
RECURSIVE Cost(_, _, _)
Cost(e, temps, matlab) ==
  IF IsLeaf(e) \/ e \in temps \/ e.op \in ExternalOps THEN 0
  ELSE CASE IsUnary(e)  -> UnaryCost(e.op, matlab) + Cost(e.args[1], temps, matlab)
         [] IsBinary(e) -> BinaryCost(e.op, matlab) + Cost(e.args[1], temps, matlab)
                             + Cost(e.args[2], temps, matlab)
         [] OTHER -> TrinaryCost + Cost(e.args[1], temps, matlab) + Cost(e.args[2], temps, matlab)

(* count: the nodes met so far and how often.  An expression met for the   *)
(* first time is entered, one met again may become a temporary term.       *)
Counting(count, temps) == [count |-> count, temps |-> temps]
RECURSIVE ComputeTemporaryTerms(_, _, _)
Visit(e, st, matlab) ==
  IF e \notin DOMAIN st.count
  THEN FoldLeft(LAMBDA acc, a : ComputeTemporaryTerms(a, acc, matlab),
                Counting(Stored(st.count, e, 1), st.temps), e.args)
  ELSE LET n == st.count[e] + 1
       IN Counting(Stored(st.count, e, n),
                   IF n * Cost(e, st.temps, matlab) > MinCost(matlab) /\ e.op # "oEqual"
                   THEN st.temps \cup {e} ELSE st.temps)
ComputeTemporaryTerms(e, st, matlab) ==
  IF IsLocal(e) THEN ComputeTemporaryTerms(e.def, st, matlab)
  ELSE IF IsLeaf(e) THEN st
  ELSE IF e.op \in ExternalOps THEN [st EXCEPT !.temps = @ \cup {e}] ELSE Visit(e, st, matlab)
ModelTemporaryTerms(roots, matlab) ==
  FoldLeft(LAMBDA acc, e : ComputeTemporaryTerms(e, acc, matlab), Counting(<<>>, {}), roots).temps

(* Temporary terms are ordered by the index of their creation, which is    *)
(* larger than that of their operands, and for a derivative of an external *)
(* function larger than that of all the equations.                         *)
RECURSIVE Age(_)
Age(e) == IF IsLeaf(e) THEN 1
          ELSE (IF e.op \in {"FirstDeriv", "SecondDeriv"} THEN 100 ELSE 1)
                 + Tot([i \in DOMAIN e.args |-> Age(e.args[i])], Len(e.args))
Ordered(temps) == SetToSortSeq(temps, LAMBDA a, b : Age(a) < Age(b))

(* writeTemporaryTerms and writeModelEquations: one assignment for each    *)
(* term, that uses the ones before it, then the residual.                  *)
WriteTemporaryTerms(temps, lang) ==
  LET ts == Ordered(temps)
  IN [i \in DOMAIN ts |-> <<ts[i], WriteOutput(ts[i], lang, {ts[j] : j \in 1..i-1}, FALSE)>>]
EmptyRHS(eq) == ConstantValue(eq.args[2]) = Num(0)
WriteEquation(eq, lang, temps) ==
  IF EmptyRHS(eq) THEN << WriteOutput(eq.args[1], lang, temps, FALSE) >>
  ELSE << WriteOutput(eq.args[1], lang, temps, FALSE), WriteOutput(eq.args[2], lang, temps, FALSE) >>

(* compileTemporaryTerms and compileModelEquations.  External function     *)
(* calls are written before the terms that need them.                      *)
CodeContext(temps, dynamic) ==
  [temps |-> Ordered(temps), tef |-> <<>>, dynamic |-> dynamic, steady |-> FALSE]
NeededCalls(e, c) == IF e.op \in ExternalOps THEN CompileExternalFunctionOutput(e, c) ELSE Calls(<<>>, c)
TermCode(before, i, e, calls, dynamic) ==
  Calls(before \o calls.code \o << <<"FNUMEXPR", "TemporaryTerm", i, 0, 0, 0, 0, 0, 0>> >>
          \o Compile(e, calls.c) \o << <<IF dynamic THEN "FSTPT" ELSE "FSTPST", i>> >>,
        calls.c)
CompileTemporaryTerms(ts, dynamic) ==      \* ts: Ordered(temporary terms)
  FoldLeft(LAMBDA acc, i :
             TermCode(acc.code, i, ts[i],
                      NeededCalls(ts[i], [acc.c EXCEPT !.temps = SubSeq(ts, 1, i-1)]), dynamic),
           Calls(<<>>, CodeContext({}, dynamic)), [i \in DOMAIN ts |-> i])
CompileEquation(eq, number, c) ==
  << <<"FNUMEXPR", "ModelEquation", number, 0, 0, 0, 0, 0, 0>> >> \o
  (IF EmptyRHS(eq) THEN Compile(eq.args[1], c)
   ELSE Compile(eq.args[1], c) \o Compile(eq.args[2], c) \o << <<"FBINARY", "oMinus">> >>)
  \o << <<"FSTPR", number>> >>
=============================================================================
