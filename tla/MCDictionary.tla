---------------------------- MODULE MCDictionary ----------------------------
(* Two names and the empty one, one built-in pack, one pack of the user.       *)
EXTENDS Dictionary
NameSymmetry == Permutations(Names)
MCBuiltinPacks == [builtin |-> {"mail", "post"}]
=============================================================================
