--------------------------- MODULE MC_Expressions ---------------------------
(* The type specific IDs of the symbols of Expressions.                    *)
EXTENDS Expressions
SymbolIndex == [x |-> 0, y |-> 1, z |-> 2, u |-> 0, a |-> 0]
=============================================================================
