------------------------------ MODULE Nothing ------------------------------
(* What a variable has while there is nothing for it to have.              *)
CONSTANT None
=============================================================================
