----------------------------- MODULE MCPackets ------------------------------
(* Finite instances of the group's red packets for TLC. *)
EXTENDS GroupPacketProperties, TLC

CONSTANTS u1, u2

=============================================================================
