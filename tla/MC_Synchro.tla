------------------------------ MODULE MC_Synchro ------------------------------
(***************************************************************************)
(* The instance of Synchro that TLC checks. A key is the address of the    *)
(* data and the name of the entry point, as in stack_container.cweb, where *)
(* the workers of a product add their part to a result they share.         *)
(***************************************************************************)
EXTENDS Synchro

CONSTANTS result1, result2  \* the addresses of two results

MC_Keys == {result1, result2} \X {"multAndAddStacks"}
===============================================================================
