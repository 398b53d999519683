-------------------------- MODULE CodeInterpreter --------------------------
(***************************************************************************)
(* The instructions of the bytecode (CodeInterpreter.hh): what the         *)
(* preprocessor writes to the .cod file and what CodeLoad reads back.      *)
(*                                                                         *)
(* An instruction is <<tag, field, ...>>.  The file is a sequence of       *)
(* cells, one for each field that is written; a byte array whose length is *)
(* a field of its own takes that many cells.                               *)
(***************************************************************************)
EXTENDS Integers, Sequences, SequencesExt

(* Fields of the classes, in the order of the object that write() dumps.   *)
MarkFields    == [t \in {"FLDZ", "FEND", "FENDBLOCK", "FENDEQU", "FCUML", "FPUSH", "FPOP"} |-> 0]
LoadFields    == [t \in {"FDIMT", "FDIMST", "FLDC", "FLDU", "FLDSU", "FLDR"} |-> 1]
TempFields    == [t \in {"FLDT", "FLDST", "FSTPT", "FSTPST", "FSTPR", "FSTPU", "FSTPSU",
                         "FSTPG"} |-> 1]
JacobFields   == [t \in {"FSTPG2", "FSTPG3"} |-> IF t = "FSTPG2" THEN 2 ELSE 4]
OpFields      == [t \in {"FUNARY", "FBINARY", "FTRINARY", "FOK", "FJMPIFEVAL", "FJMP"} |-> 1]
TefFields     == [t \in {"FLDTEF", "FSTPTEF", "FLDTEFD", "FSTPTEFD", "FLDTEFDD", "FSTPTEFDD"} |->
                    CASE t \in {"FLDTEF", "FSTPTEF"} -> 1
                      [] t \in {"FLDTEFD", "FSTPTEFD"} -> 2 [] OTHER -> 3]
VariableFields == [t \in {"FLDVS", "FLDSV", "FSTPSV", "FLDV", "FSTPV"} |->
                    IF t \in {"FLDV", "FSTPV"} THEN 3 ELSE 2]
NumExprFields == [t \in {"FNUMEXPR"} |-> 8]
Join(f, g)    == [t \in DOMAIN f \cup DOMAIN g |-> IF t \in DOMAIN f THEN f[t] ELSE g[t]]
Fields == Join(MarkFields, Join(LoadFields, Join(TempFields, Join(JacobFields,
          Join(OpFields, Join(TefFields, Join(VariableFields, NumExprFields)))))))

(* FCALL: two of its fields are strings, written with their length.  The   *)
(* third argument of the tag, the name again, stays out of the file.       *)
FCall(outputs, inputs, name, indx) ==
  [nout |-> outputs, nin |-> inputs, name |-> name, indx |-> indx, arg |-> <<>>, add |-> 0,
   row |-> 0, col |-> 0, type |-> "ExternalFunctionWithoutDerivative"]
WriteCall(c) ==
  <<"FCALL", c.nout, c.nin, c.indx, c.add, c.row, c.col, c.type, Len(c.name)>> \o c.name
     \o <<Len(c.arg)>> \o c.arg
LoadCall(f, k) ==
  LET name == SubSeq(f, k+9, k+8+f[k+8])
      j    == k + 9 + f[k+8]
  IN [instr |-> <<"FCALL", [nout |-> f[k+1], nin |-> f[k+2], indx |-> f[k+3], add |-> f[k+4],
                            row |-> f[k+5], col |-> f[k+6], type |-> f[k+7], name |-> name,
                            arg |-> SubSeq(f, j+1, j+f[j])]>>,
      next |-> j + 1 + f[j]]

(* FBEGINBLOCK: the simulation type decides whether the fields that the    *)
(* sparse solvers need are there.                                          *)
Complete == {"SOLVE_TWO_BOUNDARIES_SIMPLE", "SOLVE_TWO_BOUNDARIES_COMPLETE",
             "SOLVE_BACKWARD_COMPLETE", "SOLVE_FORWARD_COMPLETE"}
Solver(b) == <<b.is_linear, b.endo_nbr, b.Max_Lag, b.Max_Lead, b.u_count_int>>
NoSolver  == <<FALSE, 0, 0, 0, 0>>
FBeginBlock(b) ==      \* b with the elements of the block taken out of the model's order
  [k \in DOMAIN b \ {"first"} |-> IF k \in {"variable", "equation"}
                                 THEN SubSeq(b[k], b.first + 1, b.first + b.size) ELSE b[k]]
WriteBlock(b) ==
  <<"FBEGINBLOCK", b.size, b.type>>
    \o FlattenSeq([i \in 1..b.size |-> <<b.variable[i], b.equation[i]>>])
    \o (IF b.type \in Complete THEN Solver(b) ELSE <<>>)
    \o <<b.nb_col_jacob, Len(b.det_exogenous), Len(b.exogenous), Len(b.other_endogenous),
         b.nb_col_other_endo_jacob>>
    \o b.det_exogenous \o b.exogenous \o b.other_endogenous
LoadBlock(f, k) ==
  LET n == f[k+1]   type == f[k+2]
      j == k + 3 + 2*n                       \* after the equations and variables
      s == IF type \in Complete THEN SubSeq(f, j, j+4) ELSE NoSolver
      m == IF type \in Complete THEN j + 5 ELSE j
      det == f[m+1]   exo == f[m+2]   other == f[m+3]
      Part(from, len) == SubSeq(f, m + 5 + from, m + 4 + from + len)
  IN [instr |-> <<"FBEGINBLOCK",
        [size |-> n, type |-> type,
         variable |-> [i \in 1..n |-> f[k+1+2*i]], equation |-> [i \in 1..n |-> f[k+2+2*i]],
         is_linear |-> s[1], endo_nbr |-> s[2], Max_Lag |-> s[3], Max_Lead |-> s[4],
         u_count_int |-> s[5], nb_col_jacob |-> f[m], nb_col_other_endo_jacob |-> f[m+4],
         det_exogenous |-> Part(0, det), exogenous |-> Part(det, exo),
         other_endogenous |-> Part(det + exo, other)]>>,
      next |-> m + 5 + det + exo + other]

Write(instr) ==
  CASE instr[1] = "FCALL" -> WriteCall(instr[2])
    [] instr[1] = "FBEGINBLOCK" -> WriteBlock(instr[2])
    [] OTHER -> instr

(* CodeLoad::get_op_code: the size of the object is known from the tag,    *)
(* until FEND.  An unknown tag ends the list.                              *)
LoadFixed(f, k) == [instr |-> SubSeq(f, k, k + Fields[f[k]]), next |-> k + 1 + Fields[f[k]]]
LoadConstants == DOMAIN MarkFields \cup DOMAIN LoadFields \cup DOMAIN NumExprFields
LoadStores    == DOMAIN TempFields \cup DOMAIN JacobFields
LoadOthers    == DOMAIN OpFields \cup DOMAIN TefFields \cup DOMAIN VariableFields
RECURSIVE GetOpCode(_, _)
GetOpCode(f, k) ==
  LET one == CASE f[k] = "FCALL" -> LoadCall(f, k)
               [] f[k] = "FBEGINBLOCK" -> LoadBlock(f, k)
               [] f[k] \in LoadConstants \cup LoadStores \cup LoadOthers -> LoadFixed(f, k)
  IN IF f[k] \notin {"FCALL", "FBEGINBLOCK"} \cup DOMAIN Fields THEN <<>>
     ELSE IF f[k] = "FEND" THEN << one.instr >>
     ELSE << one.instr >> \o GetOpCode(f, one.next)

=============================================================================
