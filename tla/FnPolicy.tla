------------------------------- MODULE FnPolicy -------------------------------
(***************************************************************************)
(* fn_policy.rs: what an edge of the record key means.  Pure functions of  *)
(* the edge, the configuration and what the caller read of the session.    *)
(***************************************************************************)

FnEdgeAction == {"IgnorePress", "IgnoreRelease", "StartRecord", "ToggleStop",
                 "ArmHoldTimer", "RepostOnly", "StopAfterTail"}

\* The fields of FnEdgeContext that the classification reads.
FnEdgeContext ==
  [pressed : BOOLEAN, hold : BOOLEAN, already_recording : BOOLEAN,
   this_press_started_recording : BOOLEAN, is_single_key : BOOLEAN,
   fn_repost_enabled : BOOLEAN]

ClassifyPress(c) ==
  IF c.already_recording
  THEN IF c.hold THEN "IgnorePress" ELSE "ToggleStop"
  ELSE IF c.hold /\ c.is_single_key THEN "ArmHoldTimer" ELSE "StartRecord"

\* Mutant of ClassifyRelease: letting go stops in Toggle mode too, as it did
\* before the two modes were told apart.
ClassifyReleaseInToggle(c) ==
  IF ~c.is_single_key THEN "IgnoreRelease"
  ELSE IF c.this_press_started_recording \/ c.already_recording
       THEN "StopAfterTail"
       ELSE IF c.fn_repost_enabled THEN "RepostOnly" ELSE "IgnoreRelease"

\* Mutant of ClassifyRelease: only the press that started the session ends it.
ClassifyReleaseOwnOnly(c) ==
  IF ~c.hold \/ ~c.is_single_key THEN "IgnoreRelease"
  ELSE IF c.this_press_started_recording THEN "StopAfterTail"
       ELSE IF c.fn_repost_enabled THEN "RepostOnly" ELSE "IgnoreRelease"

ClassifyRelease(c) ==
  IF ~c.hold \/ ~c.is_single_key THEN "IgnoreRelease"
  ELSE IF c.this_press_started_recording \/ c.already_recording
       THEN "StopAfterTail"
       ELSE IF c.fn_repost_enabled THEN "RepostOnly" ELSE "IgnoreRelease"

classify_fn_edge(c) == IF c.pressed THEN ClassifyPress(c) ELSE ClassifyRelease(c)

=============================================================================
