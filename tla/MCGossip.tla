------------------------------ MODULE MCGossip ------------------------------
(* The instance of Gossip for TLC: one server of the three-node cluster. *)
EXTENDS Gossip
=============================================================================
