----------------------------- MODULE DecoderFeed -----------------------------
(***************************************************************************)
(* What the container promises to its decoders, without threads, queues or *)
(* events: every decoder is handed the packages of one run in order, and a *)
(* later run only through its flush package.  After a seek nothing of an   *)
(* earlier run is handed out any more; after a discontinuity the rest of   *)
(* the earlier run still is.                                               *)
(***************************************************************************)
EXTENDS Naturals

CONSTANT Decoders

VARIABLES
    epoch,   \* the run being demuxed
    oldest,  \* the oldest run whose packages may still be handed out
    seen     \* the last package each decoder was handed

vars == <<epoch, oldest, seen>>

Init ==
    /\ epoch = 0
    /\ oldest = 0
    /\ seen \in [Decoders -> [index : {0}, epoch : {0}, place : {0}]]

Seek ==
    /\ epoch' = epoch + 1
    /\ oldest' = epoch + 1
    /\ UNCHANGED seen

Discontinuity ==
    /\ epoch' = epoch + 1
    /\ UNCHANGED <<oldest, seen>>

\* Decoder d is handed package p.
Hand(d, p) ==
    /\ p.epoch >= oldest /\ p.epoch <= epoch
    /\ \/ p.epoch = seen[d].epoch /\ p.place = seen[d].place + 1
       \/ p.epoch > seen[d].epoch /\ p.place = 0
    /\ seen' = [seen EXCEPT ![d] = p]
    /\ UNCHANGED <<epoch, oldest>>

Next == Seek \/ Discontinuity \/ \E d \in Decoders : Hand(d, seen'[d])

Spec == Init /\ [][Next]_vars

=============================================================================
