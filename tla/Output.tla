------------------------------- MODULE Output -------------------------------
(***************************************************************************)
(* writeOutput of ExprNode.cc: an expression as text of a MATLAB or a C    *)
(* file, and how the language that reads the file groups that text.        *)
(*                                                                         *)
(* The text is a sequence of tokens: <<"sym", text>> for operators and     *)
(* parentheses, <<"fun", op>> for the name of a function, <<"val", node>>  *)
(* for a constant or a variable and <<"T", node>> for a temporary term.    *)
(* Inside STEADY_STATE a variable is written as <<"ss", node>>.  LaTeX is  *)
(* left out.                                                               *)
(***************************************************************************)
EXTENDS ExprNode, SequencesExt

Sym(x) == <<"sym", x>>
Symbol == [oPlus |-> "+", oMinus |-> "-", oTimes |-> "*", oDivide |-> "/", oPower |-> "^",
           oLess |-> "<", oGreater |-> ">", oLessEqual |-> "<=", oGreaterEqual |-> ">=",
           oEqualEqual |-> "==", oDifferent |-> "~=", oEqual |-> "="]

BinaryPrecedence(op, lang) ==
  CASE op = "oEqual" -> 0
    [] op \in {"oEqualEqual", "oDifferent"} -> 1
    [] op \in Comparisons \ {"oEqualEqual", "oDifferent"} -> 2
    [] op \in {"oPlus", "oMinus"} -> 3
    [] op \in {"oTimes", "oDivide"} -> 4
    [] op \in {"oPower", "oPowerDeriv"} -> IF lang = "C" THEN 100 ELSE 5
    [] op \in {"oMin", "oMax"} -> 100
Precedence(e, lang, temps) ==
  IF IsBinary(e) /\ e \notin temps THEN BinaryPrecedence(e.op, lang) ELSE 100

Enclosed(yes, text) == IF yes THEN << Sym("(") >> \o text \o << Sym(")") >> ELSE text
CallText(op, texts)  == << <<"fun", op>>, Sym("(") >> \o FoldLeft(LAMBDA acc, x :
                          IF acc = <<>> THEN x ELSE acc \o << Sym(",") >> \o x, <<>>, texts) \o << Sym(")") >>

RECURSIVE WriteOutput(_, _, _, _)
VariableOutput(e, lang, temps, steady) ==
  IF IsLocal(e) THEN Enclosed(TRUE, WriteOutput(e.def, lang, temps, steady))
  ELSE << <<IF steady THEN "ss" ELSE "val", e>> >>
UnaryOutput(e, lang, temps, steady) ==
  LET arg == WriteOutput(e.args[1], lang, temps, steady)
  IN CASE e.op = "oUminus" -> Enclosed(TRUE, << Sym("-") >> \o
            Enclosed(Precedence(e.args[1], lang, temps) < 100, arg))
       [] e.op = "oSteadyState" -> Enclosed(TRUE, WriteOutput(e.args[1], lang, temps, TRUE))
       [] OTHER -> CallText(e.op, << arg >>)
LeftParentheses(e, prec, lang, temps) ==
  \/ Precedence(e.args[1], lang, temps) < prec
  \/ e.op = "oPower" /\ e.args[1].op = "oPower"
RightParentheses_AsLeft(e, prec, lang, temps) ==
  \/ Precedence(e.args[2], lang, temps) < prec
  \/ e.op = "oPower" /\ e.args[2].op = "oPower"
RightParentheses(e, prec, lang, temps) ==
  LET right == Precedence(e.args[2], lang, temps)
  IN \/ right < prec
     \/ e.op = "oPower" /\ e.args[2].op = "oPower"
     \/ e.op \in {"oMinus", "oDivide"} /\ right = prec
BinaryOutput(e, lang, temps, steady) ==
  LET w(i) == WriteOutput(e.args[i], lang, temps, steady)
      prec == BinaryPrecedence(e.op, lang)
  IN CASE e.op = "oPowerDeriv" -> CallText("oPowerDeriv", <<w(1), w(2), << <<"val", NumConst(e.order)>> >> >>)
       [] e.op \in {"oMax", "oMin"} \/ (e.op = "oPower" /\ lang = "C") -> CallText(e.op, <<w(1), w(2)>>)
       [] OTHER -> Enclosed(LeftParentheses(e, prec, lang, temps), w(1)) \o << Sym(Symbol[e.op]) >>
                     \o Enclosed(RightParentheses(e, prec, lang, temps), w(2))
(* In C the two normal functions are spelled out, the density without      *)
(* parentheses around its arguments.                                       *)
Val(n) == << <<"val", NumConst(n)>> >>
TrinaryOutput(e, lang, temps, steady) ==
  LET w(i) == WriteOutput(e.args[i], lang, temps, steady)
  IN IF lang # "C" THEN CallText(e.op, <<w(1), w(2), w(3)>>)
     ELSE IF e.op = "oNormcdf"
       THEN Enclosed(TRUE, Val(9) \o << Sym("*") >> \o Enclosed(TRUE, Val(1) \o << Sym("+") >> \o CallText("oErf", <<
              Enclosed(TRUE, Enclosed(TRUE, w(1)) \o << Sym("-") >> \o Enclosed(TRUE, w(2)))
                \o << Sym("/") >> \o Enclosed(TRUE, w(3)) \o << Sym("/") >> \o CallText("oSqrt", << Val(2) >>) >>)))
       ELSE Enclosed(TRUE, Val(1) \o << Sym("/") >> \o Enclosed(TRUE,
              w(3) \o << Sym("*") >> \o CallText("oSqrt", << Val(2) \o << Sym("*") >> \o Val(Pi) >>) \o << Sym("*") >>
                \o CallText("oExp", << CallText("oPower",
                     << Enclosed(TRUE, w(1) \o << Sym("-") >> \o w(2)) \o << Sym("/") >> \o w(3), Val(2) >>)
                     \o << Sym("/") >> \o Val(2) >>)))
WriteOutput(e, lang, temps, steady) ==
  IF e.op = "NumConst" THEN << <<"val", e>> >>
  ELSE IF IsVariable(e) THEN VariableOutput(e, lang, temps, steady)
  ELSE IF e \in temps THEN << <<"T", e>> >>
  ELSE
  CASE IsUnary(e)    -> UnaryOutput(e, lang, temps, steady)
    [] IsBinary(e)   -> BinaryOutput(e, lang, temps, steady)
    [] e.op \in TrinaryOps -> TrinaryOutput(e, lang, temps, steady)
    [] OTHER -> << <<"val", e>> >>            \* the name of a result computed before

-----------------------------------------------------------------------------
(* The reader: binary operators group to the left; MATLAB has one level    *)
(* for all comparisons, C two.  A minus sign takes in a power.             *)
Level(sym, lang) ==
  CASE sym \in {"==", "~="} -> IF lang = "C" THEN 1 ELSE 2
    [] sym \in {"<", ">", "<=", ">="} -> 2
    [] sym \in {"+", "-"} -> 3
    [] sym \in {"*", "/"} -> 4
    [] sym = "^" -> 5
    [] OTHER -> -1
SymbolOp(sym) == CHOOSE op \in DOMAIN Symbol : Symbol[op] = sym
Token(toks, k) == IF k > Len(toks) THEN Sym("end") ELSE toks[k]
IsOp(tok)      == tok[1] = "sym" /\ \E op \in DOMAIN Symbol : Symbol[op] = tok[2]

RECURSIVE ParseOperand(_, _, _), ParseLevel(_, _, _, _), ParseRest(_, _, _, _), ParseArgs(_, _, _)
ParseArgs(toks, k, lang) ==          \* after "(" or ",": <<nodes, next>>
  LET a == ParseLevel(toks, k, 0, lang)
  IN IF Token(toks, a[2]) = Sym(",") THEN LET r == ParseArgs(toks, a[2] + 1, lang)
                                     IN <<<<a[1]>> \o r[1], r[2]>>
     ELSE << <<a[1]>>, a[2] + 1>>
ParseOperand(toks, k, lang) ==
  LET tok == toks[k]
  IN CASE tok = Sym("(") -> LET a == ParseLevel(toks, k + 1, 0, lang) IN <<a[1], a[2] + 1>>
       [] tok = Sym("-") -> LET a == ParseLevel(toks, k + 1, Level("^", lang), lang)
                       IN <<Node("oUminus", <<a[1]>>), a[2]>>
       [] tok[1] = "fun" -> LET a == ParseArgs(toks, k + 2, lang)
                            IN <<IF tok[2] = "oPowerDeriv"
                                 THEN [op |-> tok[2], args |-> <<a[1][1], a[1][2]>>, order |-> a[1][3].val]
                                 ELSE Node(tok[2], a[1]), a[2]>>
       [] tok[1] = "ss" -> <<Node("oSteadyState", <<tok[2]>>), k + 1>>
       [] OTHER -> <<tok[2], k + 1>>
ParseRest(left, toks, lang, min) ==     \* left: <<node, next>>
  LET tok == Token(toks, left[2])
  IN IF ~IsOp(tok) THEN left
     ELSE IF Level(tok[2], lang) < min THEN left
     ELSE LET right == ParseLevel(toks, left[2] + 1, Level(tok[2], lang) + 1, lang)
          IN ParseRest(<<Node(SymbolOp(tok[2]), <<left[1], right[1]>>), right[2]>>, toks, lang, min)
ParseLevel(toks, k, min, lang) == ParseRest(ParseOperand(toks, k, lang), toks, lang, min)
Parsed(toks, lang) == ParseLevel(toks, 1, 0, lang)[1]
=============================================================================
