--------------------------- MODULE MCNetworkBuffer ---------------------------
(* Instances of NetworkBuffer for TLC.                                      *)
EXTENDS NetworkBuffer

=============================================================================
