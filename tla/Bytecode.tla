------------------------------ MODULE Bytecode ------------------------------
(***************************************************************************)
(* compile and compileExternalFunctionOutput of ExprNode.cc: the bytecode  *)
(* of an expression.                                                       *)
(*                                                                         *)
(* The context c has the temporary terms in the order of their index in    *)
(* the T array (temps), the table of external function calls written so    *)
(* far (tef, the position being the index), whether the model is dynamic   *)
(* and whether the code is inside STEADY_STATE.                            *)
(***************************************************************************)
EXTENDS ExprNode, CodeInterpreter

IsTemp(e, c)   == \E i \in DOMAIN c.temps : c.temps[i] = e
TempIndex(e, c) == CHOOSE i \in DOMAIN c.temps : c.temps[i] = e
LoadTemp(e, c) == << <<IF c.dynamic THEN "FLDT" ELSE "FLDST", TempIndex(e, c)>> >>

(* External functions: the derivatives of f are returned by f, those of h  *)
(* by dh, and those of g are computed numerically.                         *)
FirstDerivFunction(fun) == CASE fun = "f" -> "f" [] fun = "h" -> "dh" [] OTHER -> "eExtFunNotSet"
TefIndex(fun, e, c)  == CHOOSE i \in DOMAIN c.tef : c.tef[i] = <<fun, e.args>>
InTef(fun, e, c)     == \E i \in DOMAIN c.tef : c.tef[i] = <<fun, e.args>>
AddTef(fun, e, c)    == [c EXCEPT !.tef = Append(@, <<fun, e.args>>)]

(* Position of a symbol in its array; the fields of FLDV and the others.   *)
VariableCompile(e, c) ==
  CASE c.dynamic /\ c.steady -> << <<"FLDVS", e.type, e.symb>> >>
    [] c.dynamic /\ ~c.steady -> << <<"FLDV", e.type, e.symb,
                                      IF e.type = "eParameter" THEN 0 ELSE e.lag>> >>
    [] OTHER -> << <<"FLDSV", e.type, e.symb>> >>

RECURSIVE Compile(_, _)
CompileArguments(e, c) == FlattenSeq([i \in DOMAIN e.args |-> Compile(e.args[i], c)])
UnaryCompile(e, c) ==
  IF e.op = "oSteadyState" THEN Compile(e.args[1], [c EXCEPT !.steady = TRUE])
  ELSE Compile(e.args[1], c) \o << <<"FUNARY", e.op>> >>
BinaryCompile(e, c) ==
  (IF e.op = "oPowerDeriv" THEN << <<"FLDC", Num(e.order)>> >> ELSE <<>>)
    \o CompileArguments(e, c) \o << <<"FBINARY", e.op>> >>
TrinaryCompile(e, c)   == CompileArguments(e, c) \o << <<"FTRINARY", e.op>> >>
ExternalCompile(e, c)  == << <<"FLDTEF", TefIndex(e.fun, e, c)>> >>
FirstDerivCompile(e, c) == << <<"FLDTEFD", TefIndex(e.fun, e, c), e.index[1]>> >>
Compile(e, c) ==
  IF e.op = "NumConst" THEN << <<"FLDC", IF e.val < 0 THEN NaN ELSE Num(e.val)>> >>
  ELSE IF IsLocal(e) THEN Compile(e.def, c)
  ELSE IF IsVariable(e) THEN VariableCompile(e, c)
  ELSE IF IsTemp(e, c) THEN LoadTemp(e, c)
  ELSE
  CASE IsUnary(e)        -> UnaryCompile(e, c)
    [] IsBinary(e)       -> BinaryCompile(e, c)
    [] e.op \in TrinaryOps    -> TrinaryCompile(e, c)
    [] e.op = "FirstDeriv"    -> FirstDerivCompile(e, c)
    [] OTHER                  -> ExternalCompile(e, c)

(* The calls of external functions, before the expression: inner calls     *)
(* first, one call for the same function and arguments.                    *)
Calls(code, c) == [code |-> code, c |-> c]
RECURSIVE CompileExternalFunctionOutput(_, _)
ArgumentsOutput(e, c) ==
  FoldLeft(LAMBDA acc, a : LET r == CompileExternalFunctionOutput(a, acc.c)
                           IN Calls(acc.code \o r.code, r.c), Calls(<<>>, c), e.args)
ExternalOutput(e, c) ==
  LET inner == ArgumentsOutput(e, c)
      new   == AddTef(e.fun, e, inner.c)
      own   == FirstDerivFunction(e.fun) = e.fun
      call  == [FCall(IF own THEN 2 ELSE 1, Len(e.args), <<e.fun>>, TefIndex(e.fun, e, new))
                  EXCEPT !.type = IF own THEN "ExternalFunctionWithFirstDerivative"
                                  ELSE "ExternalFunctionWithoutDerivative"]
  IN IF InTef(e.fun, e, inner.c) THEN inner
     ELSE Calls(inner.code \o CompileArguments(e, inner.c)
                  \o << <<"FCALL", call>>, <<"FSTPTEF", call.indx>> >>, new)
FirstDerivOutput(e, c) ==
  LET d    == FirstDerivFunction(e.fun)
      n    == Len(e.args)
      indx == TefIndex(e.fun, e, c)
      numerical == [FCall(1, 0, <<"jacob_element">>, indx) EXCEPT
                      !.arg = <<e.fun>>, !.row = e.index[1], !.add = n,
                      !.type = "ExternalFunctionNumericalFirstDerivative"]
      given == [FCall(1, n, <<d>>, indx) EXCEPT !.type = "ExternalFunctionFirstDerivative"]
      call  == IF d = "eExtFunNotSet" THEN numerical ELSE given
  IN IF d = e.fun \/ InTef(d, e, c) THEN Calls(<<>>, c)
     ELSE Calls(CompileArguments(e, c) \o << <<"FCALL", call>>,
                                             <<"FSTPTEFD", indx, e.index[1]>> >>,
                IF d = "eExtFunNotSet" THEN c ELSE AddTef(d, e, c))
CompileExternalFunctionOutput(e, c) ==
  CASE e.op = "NumConst" -> Calls(<<>>, c)
    [] IsVariable(e) -> Calls(<<>>, c)
    [] e.op = "ExternalFunction" -> ExternalOutput(e, c)
    [] e.op = "FirstDeriv" -> FirstDerivOutput(e, c)
    [] OTHER -> ArgumentsOutput(e, c)
=============================================================================
