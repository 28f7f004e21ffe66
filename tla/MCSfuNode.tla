----------------------------- MODULE MCSfuNode -----------------------------
(* One room of the SFU node with one track of two layers. *)
EXTENDS SfuNode, TLC

MCSsrc == [t \in SnTracks |-> 1]
MCLayers == [t \in SnTracks |-> <<1, 2>>]
=============================================================================
