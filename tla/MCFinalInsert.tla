----------------------------- MODULE MCFinalInsert -----------------------------
(* FinalInsert with every set of backends, one pack of each kind, and finals   *)
(* that repeat, hold fillers, call a role or only name the assistant.          *)
EXTENDS FinalInsert

CONSTANTS a, b, tr, ask, here, there

MCPacks ==
  tr :> [kind |-> "Translate", provider |-> ""] @@
  ask :> [kind |-> "Plain", provider |-> ""] @@
  here :> [kind |-> "Plain", provider |-> "local"] @@
  there :> [kind |-> "Plain", provider |-> "cloud"]

Setting(intent, mode, roles, with_polish, policy, engines, streaming) ==
  [intent |-> intent, mode |-> mode, prefix_roles_enabled |-> roles,
   translate_with_polish |-> with_polish, policy |-> policy, engines |-> engines,
   streaming |-> streaming]

\* The fallback translator is the local model, when it is allowed to translate.
Engines == {E \in SUBSET Engine : "fallback" \in E => "local" \in E}

MCContexts ==
  {Setting("Dictate", mode, roles, FALSE, policy, E, FALSE) :
     mode \in {"Off", "Legacy", "On"}, roles \in BOOLEAN,
     policy \in {"PreferCloud", "PreferLocal"}, E \in Engines}
  \union
  {Setting("Translate", "On", TRUE, with_polish, policy, E, FALSE) :
     with_polish \in BOOLEAN, policy \in {"PreferCloud", "PreferLocal"}, E \in Engines}
  \union
  {Setting("Dictate", "Off", FALSE, FALSE, "PreferCloud", {}, TRUE)}

MCSpoken ==
  {<<>>, <<<<a>>, <<a, a>>, <<a, b>>>>, <<<<a>>, <<a, a, a, a>>, <<a, a>>, <<a>>>>,
   <<<<a, b>>, <<Filler>>, <<a, b>>>>,
   <<<<Filler, a, b>>, <<a, b, a, b>>>>}
  \union {<<<<Wake, alias, a, b>>>> : alias \in {tr, ask, here, there}}
  \union {<<<<Wake, ask, a>>, <<Wake, a>>>>}

=============================================================================
