-------------------------- MODULE MCRecordingSession --------------------------
(* RecordingSession on a few calls of each kind.                             *)
EXTENDS RecordingSession

=============================================================================
