--------------------------- MODULE OperationTree ---------------------------
(***************************************************************************)
(* The terms of dynare++: OperationTree and EvalTree (parser/cc/tree.cpp), *)
(* the derivatives of a formula (FormulaDerivatives and FoldMultiIndex in  *)
(* parser/cc/formula_parser.cpp), and a term as text.                      *)
(*                                                                         *)
(* A term is a record: the program stores an operation once and names it   *)
(* by its index, and equality of indices is equality of records here.  The *)
(* maps that find a stored operation or a derivative taken before, and the *)
(* flags of the values computed before, have no counterpart.  A nulary     *)
(* term is one of four special terms, or an atom: a variable, a parameter  *)
(* or a number the user wrote (0 and 1 included, which are not zero and    *)
(* one).  nularify and the substitutions are left out.                     *)
(***************************************************************************)
EXTENDS Output

Nulary(a)   == [code |-> "NONE", atom |-> a]
zero        == Nulary([special |-> 0])
one         == Nulary([special |-> 1])
nan         == Nulary([special |-> 2])
two_over_pi == Nulary([special |-> 3])      \* 2/sqrt(pi)
Oper(code, ops) == [code |-> code, ops |-> ops]
nary(t) == IF t.code = "NONE" THEN 0 ELSE Len(t.ops)

RECURSIVE nul_incidence(_)
nul_incidence(t) == IF nary(t) = 0 THEN {t} ELSE UNION {nul_incidence(o) : o \in Range(t.ops)}

-----------------------------------------------------------------------------
(* add_unary, add_binary. *)
ZeroToZero == {"UMINUS", "SIN", "TAN", "SQRT", "ERF"}
ZeroToOne  == {"EXP", "COS", "ERFC"}
add_unary(code, op) ==
  IF op = zero /\ code \in ZeroToZero THEN zero
  ELSE IF (op = zero /\ code = "LOG") \/ op = nan THEN nan
  ELSE IF op = zero /\ code \in ZeroToOne THEN one
  ELSE Oper(code, <<op>>)

QuickPlus(a, b)   == IF a = zero THEN {b} ELSE IF b = zero THEN {a} ELSE {}
QuickMinus(a, b)  == IF b = zero THEN {a} ELSE IF a = zero THEN {add_unary("UMINUS", b)} ELSE {}
QuickTimes(a, b)  == IF zero \in {a, b} THEN {zero}
                     ELSE IF a = one THEN {b} ELSE IF b = one THEN {a} ELSE {}
QuickDivide(a, b) == IF a = b THEN {one}
                     ELSE IF a = zero THEN {zero} ELSE IF b = zero THEN {nan} ELSE {}
QuickPower(a, b)  == IF a = zero THEN {IF b = zero THEN nan ELSE zero}
                     ELSE IF b = zero \/ a = one THEN {one} ELSE IF b = one THEN {a} ELSE {}
Quick(code, a, b) ==                 \* the answer for special values, if any
  IF nan \in {a, b} THEN {nan}
  ELSE CASE code = "PLUS"   -> QuickPlus(a, b)   [] code = "MINUS" -> QuickMinus(a, b)
         [] code = "TIMES"  -> QuickTimes(a, b)  [] code = "DIVIDE" -> QuickDivide(a, b)
         [] code = "POWER"  -> QuickPower(a, b)
add_binary(code, a, b) ==
  LET quick == Quick(code, a, b)
  IN IF quick # {} THEN CHOOSE t \in quick : TRUE
     ELSE Oper(code, IF code \in {"TIMES", "PLUS"} THEN Sorted(a, b) ELSE <<a, b>>)

(* add_derivative. *)
ErfSlope(a, da) ==                  \* 2/sqrt(pi) * (exp(-(a*a)) * da)
  add_binary("TIMES", two_over_pi, add_binary("TIMES",
    add_unary("EXP", add_unary("UMINUS", add_binary("TIMES", a, a))), da))
UnaryDerivative(t, a, da) ==
  CASE t.code = "UMINUS" -> add_unary("UMINUS", da)
    [] t.code = "LOG"  -> add_binary("DIVIDE", da, a)
    [] t.code = "EXP"  -> add_binary("TIMES", t, da)
    [] t.code = "SIN"  -> add_binary("TIMES", add_unary("COS", a), da)
    [] t.code = "COS"  -> add_unary("UMINUS", add_binary("TIMES", add_unary("SIN", a), da))
    [] t.code = "TAN"  -> LET c == add_unary("COS", a)
                          IN add_binary("DIVIDE", da, add_binary("TIMES", c, c))
    [] t.code = "SQRT" -> add_binary("DIVIDE", da, add_binary("PLUS", t, t))
    [] t.code = "ERF"  -> ErfSlope(a, da)
    [] t.code = "ERFC" -> add_unary("UMINUS", ErfSlope(a, da))
QuotientDerivative(a, b, da, db) ==
  IF db = zero THEN add_binary("DIVIDE", da, b)
  ELSE add_binary("DIVIDE", add_binary("MINUS", add_binary("TIMES", da, b), add_binary("TIMES", db, a)),
                  add_binary("TIMES", b, b))
PowerDerivative(t, a, b, da, db) ==
  add_binary("PLUS",
    add_binary("TIMES", db, add_binary("TIMES", t, add_unary("LOG", a))),
    add_binary("TIMES", da, add_binary("TIMES", b, add_binary("POWER", a, add_binary("MINUS", b, one)))))
BinaryDerivative(t, a, b, da, db) ==
  CASE t.code \in {"PLUS", "MINUS"} -> add_binary(t.code, da, db)
    [] t.code = "TIMES" -> add_binary("PLUS", add_binary("TIMES", a, db), add_binary("TIMES", da, b))
    [] t.code = "DIVIDE" -> QuotientDerivative(a, b, da, db)
    [] t.code = "POWER"  -> PowerDerivative(t, a, b, da, db)
RECURSIVE add_derivative(_, _)
add_derivative(t, v) ==
  IF nary(t) = 0 THEN (IF t = v THEN one ELSE zero)
  ELSE IF v \notin nul_incidence(t) THEN zero
  ELSE IF nary(t) = 1 THEN UnaryDerivative(t, t.ops[1], add_derivative(t.ops[1], v))
  ELSE BinaryDerivative(t, t.ops[1], t.ops[2], add_derivative(t.ops[1], v), add_derivative(t.ops[2], v))

-----------------------------------------------------------------------------
(* EvalTree: the operand that is evaluated first may decide the value.     *)
Opcode == [UMINUS |-> "oUminus", LOG |-> "oLog", EXP |-> "oExp", SIN |-> "oSin", COS |-> "oCos",
           TAN |-> "oTan", SQRT |-> "oSqrt", ERF |-> "oErf", ERFC |-> "oErfc", PLUS |-> "oPlus",
           MINUS |-> "oMinus", TIMES |-> "oTimes", DIVIDE |-> "oDivide", POWER |-> "oPower"]
TwoOverPi == 2 * InvF[RootF[Pi]] % P
Specials  == <<Num(0), One, NaN, Num(TwoOverPi)>>
UnaryTermValue(code, v)     == IF code = "ERFC" THEN Sub(One, Erf(v)) ELSE UnaryEval(Opcode[code], v)
BinaryTermValue(code, v, w) == BinaryEval(Opcode[code], v, w, 0)
Complexity(t) == Cardinality(nul_incidence(t))
Decided(t, v, w) ==                  \* v, w: the values of the operands
  CASE t.code = "TIMES" -> (IF Complexity(t.ops[1]) < Complexity(t.ops[2]) THEN v ELSE w) = Num(0)
    [] t.code = "DIVIDE" -> v = Num(0)
    [] t.code = "POWER"  -> w = Num(0)
    [] OTHER -> FALSE
RECURSIVE eval(_, _, _)
eval(t, env, date) ==
  CASE nary(t) = 0 -> IF "special" \in DOMAIN t.atom THEN Specials[t.atom.special + 1]
                      ELSE Value(t.atom, env, date)
    [] nary(t) = 1 -> UnaryTermValue(t.code, eval(t.ops[1], env, date))
    [] OTHER -> LET v == eval(t.ops[1], env, date)
                    w == eval(t.ops[2], env, date)
                IN IF Decided(t, v, w) THEN (IF t.code = "POWER" THEN One ELSE Num(0))
                   ELSE BinaryTermValue(t.code, v, w)

-----------------------------------------------------------------------------
(* FoldMultiIndex: a monotone sequence of variables, counted from 1.       *)
Shifted(mi)  == Append(mi, IF mi = <<>> THEN 1 ELSE Last(mi))
increment(mi, nvar) ==               \* the next one of the same order
  LET k == Max({1} \cup {i \in DOMAIN mi : mi[i] < nvar})
  IN [i \in DOMAIN mi |-> IF i < k THEN mi[i] ELSE mi[k] + 1]

(* FormulaDerivatives: the derivatives of f that are not zero, order by    *)
(* order, each from the last one with one variable more.                   *)
RECURSIVE DerivedFrom(_, _, _)
DerivedFrom(t, mi, vars) ==          \* mi: the first index of the next order
  LET der  == add_derivative(t, vars[Last(mi)])
      here == IF der = zero THEN <<>> ELSE << [mi |-> mi, t |-> der] >>
  IN IF Last(mi) = Len(vars) THEN here
     ELSE here \o DerivedFrom(t, increment(mi, Len(vars)), vars)
RECURSIVE Orders(_, _, _)
Orders(last, vars, k) ==
  IF k = 0 \/ last = <<>> THEN last
  ELSE last \o Orders(FlattenSeq([r \in DOMAIN last |-> DerivedFrom(last[r].t, Shifted(last[r].mi), vars)]),
                      vars, k - 1)
FormulaDerivatives(vars, f, max_order) == Orders(<< [mi |-> <<>>, t |-> f] >>, vars, max_order)
derivative(fd, mi) ==
  IF \E i \in DOMAIN fd : fd[i].mi = mi THEN fd[CHOOSE i \in DOMAIN fd : fd[i].mi = mi].t ELSE zero

-----------------------------------------------------------------------------
(* OperationStringConvertor: a term as a formula. *)
SpecialText(t) == << <<"val", CASE t = zero -> Zero [] t = one -> OneNode
                                [] t = nan -> NaNNode [] OTHER -> NumConst(TwoOverPi)>> >>
Par1(t) == t.code \notin {"PLUS", "MINUS"} /\ nary(t.ops[1]) = 2
Par2(t) == CASE t.code = "PLUS"  -> FALSE
             [] t.code = "MINUS" -> t.ops[2].code \in {"PLUS", "MINUS"}
             [] OTHER -> nary(t.ops[2]) = 2
RECURSIVE convert(_)
convert(t) ==
  IF nary(t) = 0 THEN (IF "special" \in DOMAIN t.atom THEN SpecialText(t) ELSE << <<"val", t.atom>> >>)
  ELSE IF t.code = "UMINUS" THEN << Sym("-") >> \o Enclosed(TRUE, convert(t.ops[1]))
  ELSE IF nary(t) = 1 THEN CallText(Opcode[t.code], << convert(t.ops[1]) >>)
  ELSE Enclosed(Par1(t), convert(t.ops[1])) \o << Sym(Symbol[Opcode[t.code]]) >>
                  \o Enclosed(Par2(t), convert(t.ops[2]))

(* DefaultOperationFormatter: one assignment per term, its operands first, *)
(* none twice.  lines: the terms assigned so far, in order.                *)
RECURSIVE format(_, _)
format(lines, t) ==
  IF t \in Range(lines) THEN lines
  ELSE Append(IF nary(t) = 0 THEN lines
              ELSE FoldLeft(format, lines, SelectSeq(t.ops, LAMBDA o : nary(o) > 0)), t)

(* MatlabSSWriter: the atoms are assigned from the parameters and from one *)
(* value of each endogenous variable, whatever the period; exogenous       *)
(* variables are 0.  Running the file: each name has one value.            *)
AtomAssignment(t, env) ==
  IF "special" \in DOMAIN t.atom THEN Specials[t.atom.special + 1]
  ELSE IF IsVariable(t.atom) /\ t.atom.type = "eExogenous" THEN Num(0) ELSE Value(t.atom, env, Steady)
Assigned(vals, t, env) ==            \* the right side of the line of t
  LET name(o) == IF nary(o) = 0 THEN AtomAssignment(o, env) ELSE vals[o]
  IN CASE nary(t) = 0 -> name(t)
       [] nary(t) = 1 -> UnaryTermValue(t.code, name(t.ops[1]))
       [] OTHER -> BinaryTermValue(t.code, name(t.ops[1]), name(t.ops[2]))
Run(lines, env) ==
  FoldLeft(LAMBDA vals, t : vals @@ (t :> Assigned(vals, t, env)), <<>>, lines)
write_der0(fs) == FoldLeft(format, <<>>, fs)
write_der1(fds, n) ==                \* n: the number of variables
  FoldLeft(format, <<>>,
    SelectSeq(FlattenSeq([i \in DOMAIN fds |-> [j \in 1..n |-> derivative(fds[i], <<j>>)]]),
              LAMBDA t : t # zero))
=============================================================================
