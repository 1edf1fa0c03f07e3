------------------------------ MODULE MCPlayback ------------------------------
(* Playback for TLC: a video decoder shows its first frame when it has two. *)
EXTENDS Playback

MCReadAhead == [d \in Decoders |-> IF d = "video" THEN 2 ELSE 1]
===============================================================================
