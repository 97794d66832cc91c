--------------------------- MODULE MCModelDownload ---------------------------
(* ModelDownload with one install of each kind, two files and three sources: *)
(* the constants are all in the configurations.                              *)
EXTENDS ModelDownload

=============================================================================
