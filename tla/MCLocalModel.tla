----------------------------- MODULE MCLocalModel -----------------------------
(* LocalModel on a weak and on a middle machine, with a binding that does not *)
(* know the middle polish model; the recommendations on all kinds of machine. *)
EXTENDS LocalModel
Mac(gb, chip) == [mem |-> gb * 1024, disk |-> 100 * 1024, apple |-> TRUE, chip |-> chip]
Pc(gb) == [mem |-> gb * 1024, disk |-> 100 * 1024, apple |-> FALSE, chip |-> "other"]
MCHere == {Pc(8), Mac(16, "m4")}
MCMachines ==
  {Pc(gb) : gb \in {2, 4, 8, 9, 12, 15, 16, 24, 32, 48, 64}}
  \cup {Mac(gb, chip) : gb \in {8, 16, 18, 24, 31, 32, 36, 48, 64},
                        chip \in Chips}
MCBroken == {"qwen2"}
=============================================================================
