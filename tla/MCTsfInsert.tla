----------------------------- MODULE MCTsfInsert -----------------------------
(* TsfInsert with two texts and two input methods of the user.               *)
EXTENDS TsfInsert
=============================================================================
