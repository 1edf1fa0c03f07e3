----------------------------- MODULE MCHLSBuffer -----------------------------
(* Instances of HLSBuffer for TLC.                                          *)
EXTENDS HLSBuffer

=============================================================================
