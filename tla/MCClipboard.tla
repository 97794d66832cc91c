----------------------------- MODULE MCClipboard -----------------------------
(* Clipboard on a few pastes, each of a text of its own.                     *)
EXTENDS Clipboard

Distinct == [p \in Pastes |-> p]

\* Two pastes in any circumstances, everything failing; the same two with every
\* thread started; three pastes that no restore falls into.
Rough == [pastes |-> {1, 2}, copies |-> Copies, failures |-> FailureSteps,
          serial |-> TRUE, apart |-> FALSE, prompt |-> FALSE]
Threads == [Rough EXCEPT !.failures = @ \ {"spawn"}]
Quiet == [pastes |-> {1, 2, 3}, copies |-> Copies \ NonText,
          failures |-> {"chord", "release"}, serial |-> TRUE, apart |-> TRUE, prompt |-> TRUE]
All == {Rough, Threads, Quiet}

\* Two pastes, nothing failing, restores at any moment.
Race == {[Quiet EXCEPT !.pastes = {1, 2}, !.copies = {}, !.failures = {}, !.apart = FALSE]}

=============================================================================
