------------------------------ MODULE MCHotkeys ------------------------------
(* Hotkeys on Windows: the single key, ESC, a combination, and another       *)
(* spelling of the fallback.                                                 *)
EXTENDS Hotkeys
MCTexts == {<<"capslock">>, <<"control", "shift", "d">>, <<"esc">>}
MCStored == {[record |-> <<"capslock">>, style |-> None, translate |-> <<"esc">>,
              hold |-> TRUE]}
MCTaken == {}
MCPacks == <<"formal">>
=============================================================================
