---------------------------- MODULE MCCurlRequest ----------------------------
(* Instances of CurlRequest for TLC.                                        *)
EXTENDS CurlRequest

=============================================================================
