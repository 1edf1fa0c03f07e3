------------------------------ MODULE MCDemuxer ------------------------------
(* Demuxer on the small instances of the MCDemuxer_*.cfg files. *)
EXTENDS Demuxer

=============================================================================
