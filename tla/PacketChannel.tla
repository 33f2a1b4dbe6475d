---------------------------- MODULE PacketChannel ----------------------------
(***************************************************************************)
(* What client_send_packet and proto_recv_packet promise together: packets *)
(* arrive each once, in the order in which they were sent, and with as     *)
(* much of the payload as the header's size field can tell.  When the      *)
(* connection is lost, what has been sent may not arrive.                  *)
(***************************************************************************)
EXTENDS Naturals, Sequences

CONSTANTS
  Packets,
  Cut(_)      (* what arrives of a packet                                  *)

VARIABLES
  sent,       (* all packets sent so far                                   *)
  received,   (* all packets received so far                               *)
  alive       (* the connection has not been lost                          *)

vars == <<sent, received, alive>>

Init ==
  /\ sent = <<>>
  /\ received = <<>>
  /\ alive = TRUE

Send(p) ==
  /\ sent' = Append(sent, p)
  /\ UNCHANGED <<received, alive>>

Receive ==
  /\ alive
  /\ Len(received) < Len(sent)
  /\ received' = Append(received, Cut(sent[Len(received) + 1]))
  /\ UNCHANGED <<sent, alive>>

Lose ==
  /\ alive' = FALSE
  /\ UNCHANGED <<sent, received>>

Next ==
  \/ \E p \in Packets : Send(p)
  \/ Receive
  \/ Lose

Spec == Init /\ [][Next]_vars

(* A packet that has been sent is received, unless the connection is lost. *)
Fairness == WF_vars(Receive)
=============================================================================
