-------------------------- MODULE MCRecordAndCollect --------------------------
(* RecordAndCollect over two characters, so that sentences share prefixes.   *)
EXTENDS RecordAndCollect

=============================================================================
