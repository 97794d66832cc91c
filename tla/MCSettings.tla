------------------------------ MODULE MCSettings ------------------------------
(* Settings with two values of everything and one save beside the main       *)
(* thread.                                                                    *)
EXTENDS Settings
=============================================================================
