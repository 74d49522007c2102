--------------------------- MODULE MCStreamRelay ---------------------------
(* StreamRelay with the constants of its configurations. *)
EXTENDS StreamRelay
=============================================================================
