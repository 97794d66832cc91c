---------------------------- MODULE SerialSessions ----------------------------
(***************************************************************************)
(* What recording_guard promises, without its flags and threads: sessions  *)
(* are serial.  Each call waits, is live for a while, and is over; it goes *)
(* live only when no other call is, and a call that finds another live is  *)
(* over at once, having asked that one to stop.                            *)
(***************************************************************************)

CONSTANT Calls

VARIABLE phase  \* [Calls -> {"waiting", "live", "over"}]

Live == {c \in Calls : phase[c] = "live"}

TypeOK == phase \in [Calls -> {"waiting", "live", "over"}]

Init == phase = [c \in Calls |-> "waiting"]

Begin(c) ==
  /\ phase[c] = "waiting"
  /\ Live = {}
  /\ phase' = [phase EXCEPT ![c] = "live"]

Refuse(c) ==
  /\ phase[c] = "waiting"
  /\ Live # {}
  /\ phase' = [phase EXCEPT ![c] = "over"]

End(c) ==
  /\ phase[c] = "live"
  /\ phase' = [phase EXCEPT ![c] = "over"]

Next == \E c \in Calls : Begin(c) \/ Refuse(c) \/ End(c)

Spec == Init /\ [][Next]_phase

=============================================================================
