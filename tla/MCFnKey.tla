------------------------------- MODULE MCFnKey -------------------------------
(* FnKey on a few presses; RecordCalls are the presses 1..MaxPress.          *)
EXTENDS FnKey
=============================================================================
