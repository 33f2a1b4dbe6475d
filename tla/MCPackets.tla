------------------------------ MODULE MCPackets ------------------------------
(* Packets for TLC.                                                        *)
EXTENDS Packets
=============================================================================
