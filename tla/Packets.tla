------------------------------- MODULE Packets -------------------------------
(***************************************************************************)
(* Packets on a connection: client_send_packet, client_send_ack and        *)
(* client_send_nack in src/client.c, create_header in src/includeme.c and  *)
(* proto_send_packet and proto_recv_packet in src/protocol.c.              *)
(*                                                                         *)
(* Any service thread may send a packet to any client, so several threads  *)
(* write to one connection, each under the client's lock.  A packet is     *)
(* written in two loops, the header and then the payload, and read         *)
(* likewise; write(2) and read(2) may move fewer bytes than asked for, and *)
(* the socket holds a bounded number of bytes.                             *)
(*                                                                         *)
(* A byte is named by the packet it belongs to and its place there.  What  *)
(* the receiver knows of a packet it takes from the bytes of the header,   *)
(* the payload's size above all, which is sent modulo the width of the     *)
(* size field.                                                             *)
(***************************************************************************)
EXTENDS Integers, Sequences, FiniteSets, SequencesExt

CONSTANTS
  Senders,     (* threads that send packets to the client                  *)
  MaxSends,    (* bound: packets that each of them sends                   *)
  Lengths,     (* the lengths of the payloads                              *)
  HeaderSize,  (* sizeof(JEUX_PACKET_HEADER)                               *)
  SizeMod,     (* 2^16, the range of the header's size field               *)
  Capacity,    (* bytes that the socket holds                              *)
  Nobody

ASSUME PacketsSenders == IsFiniteSet(Senders) /\ Nobody \notin Senders
ASSUME PacketsSizes ==
  /\ MaxSends \in Nat
  /\ Lengths \subseteq Nat
  /\ {HeaderSize, SizeMod, Capacity} \subseteq Nat \ {0}

VARIABLES
  lock,       (* the sender that holds the client's lock, or Nobody        *)
  pc,         (* where each sender is                                      *)
  out,        (* the packet that each sender has in hand                   *)
  bytes_sent, (* how many bytes of it have been written                    *)
  sends,      (* how many packets each sender has begun                    *)
  wire,       (* the bytes in the socket                                   *)
  bytes_read, (* the bytes of the packet that is being received            *)
  conn,       (* "up"; "shut": no more writes; "reset": the bytes are lost *)
  receiving,  (* proto_recv_packet has not returned -1                     *)
  sent,       (* history: the packets of which every byte was written      *)
  received    (* history: what proto_recv_packet has returned              *)

sendVars == <<lock, pc, out, bytes_sent, sends, sent>>
recvVars == <<bytes_read, receiving, received>>
vars     == <<sendVars, recvVars, wire, conn>>

Packet == [from : Senders, num : 1..MaxSends, len : Lengths]

(* Mutant: the size is not cut to the width of the field.                  *)
SizeWide(p) == p.len

(* The size field of the header: htons of the length.                      *)
Size(p) == p.len % SizeMod

(* What a header of p says of its packet, and what is received with it: p  *)
(* itself if the size field holds its length.  A longer payload is cut to  *)
(* the first bytes of it, or dropped.                                      *)
Cut(p) == [p EXCEPT !.len = Size(p)]

(* The bytes of a packet.                                                  *)
Frame(p) == [k \in 1..(HeaderSize + Size(p)) |-> <<p, k>>]

(* What is received if the bytes are not those of one packet.              *)
Garbage == [from |-> Nobody, num |-> 0, len |-> 0]

(* The number of bytes that the loop at hand still has to move when k      *)
(* bytes of p are done.                                                    *)
BytesLeft(p, k) ==
  IF k < HeaderSize THEN HeaderSize - k ELSE HeaderSize + Size(p) - k

MaxFrame == HeaderSize + SizeMod - 1

(* What may be received.                                                   *)
Arrivals ==
  [from : Senders, num : 1..MaxSends, len : 0..(SizeMod - 1)] \cup {Garbage}

Bytes == Packet \X (1..MaxFrame)

TypeOK ==
  /\ lock \in Senders \cup {Nobody}
  /\ pc \in [Senders -> {"idle", "lock", "write", "unlock"}]
  /\ out \in [Senders -> Packet \cup {Nobody}]
  /\ bytes_sent \in [Senders -> 0..MaxFrame]
  /\ sends \in [Senders -> 0..MaxSends]
  /\ wire \in Seq(Bytes) /\ Len(wire) <= Capacity
  /\ bytes_read \in Seq(Bytes)
  /\ conn \in {"up", "shut", "reset"}
  /\ receiving \in BOOLEAN
  /\ sent \in Seq(Packet)
  /\ received \in Seq(Arrivals)

Init ==
  /\ lock = Nobody
  /\ pc = [s \in Senders |-> "idle"]
  /\ out = [s \in Senders |-> Nobody]
  /\ bytes_sent = [s \in Senders |-> 0]
  /\ sends = [s \in Senders |-> 0]
  /\ wire = <<>>
  /\ bytes_read = <<>>
  /\ conn = "up"
  /\ receiving = TRUE
  /\ sent = <<>>
  /\ received = <<>>

-----------------------------------------------------------------------------
(* Sending.                                                                *)

Goto(s, from, to) ==
  /\ pc[s] = from
  /\ pc' = [pc EXCEPT ![s] = to]

(* create_header, and a call of one of the send functions.                 *)
create_header(s) ==
  /\ Goto(s, "idle", "lock")
  /\ sends[s] < MaxSends
  /\ sends' = [sends EXCEPT ![s] = @ + 1]
  /\ \E n \in Lengths :
       out' = [out EXCEPT ![s] = [from |-> s, num |-> sends[s] + 1, len |-> n]]
  /\ UNCHANGED <<lock, bytes_sent, sent, recvVars, wire, conn>>

(* Mutant: the packet is sent without the lock.                            *)
SendUnlocked(s) ==
  /\ Goto(s, "lock", "write")
  /\ UNCHANGED <<lock, out, bytes_sent, sends, sent, recvVars, wire, conn>>

client_send_packet(s) ==
  /\ Goto(s, "lock", "write")
  /\ lock = Nobody
  /\ lock' = s
  /\ UNCHANGED <<out, bytes_sent, sends, sent, recvVars, wire, conn>>

(* One write(2) of one of the two loops of proto_send_packet: it blocks    *)
(* while the socket is full, and may write less than what is left.  After  *)
(* the last byte the function returns: 0, also when the size field has cut *)
(* the payload, or -1 if a payload was given and the size field is 0; the  *)
(* header has been written then, and is received.                          *)
proto_send_packet(s) ==
  LET p    == out[s]
      done == bytes_sent[s]
  IN  /\ pc[s] = "write"
      /\ conn = "up"
      /\ \E n \in 1..BytesLeft(p, done) :
           LET last == done + n = HeaderSize + Size(p)
           IN  /\ Len(wire) + n <= Capacity
               /\ wire' = wire \o SubSeq(Frame(p), done + 1, done + n)
               /\ bytes_sent' = [bytes_sent EXCEPT ![s] = @ + n]
               /\ Goto(s, "write", IF last THEN "unlock" ELSE "write")
               /\ sent' = IF last THEN Append(sent, p) ELSE sent
      /\ UNCHANGED <<lock, out, sends, recvVars, conn>>

(* write(2) fails: the packet is given up where it is, with -1.  (That     *)
(* SIGPIPE may end the process first is in GameSession.)                   *)
WriteFails(s) ==
  /\ Goto(s, "write", "unlock")
  /\ conn # "up"
  /\ UNCHANGED <<lock, out, bytes_sent, sends, sent, recvVars, wire, conn>>

(* Mutant: client_send_packet returns without unlocking.                   *)
ReturnLocked(s) ==
  /\ Goto(s, "unlock", "idle")
  /\ out' = [out EXCEPT ![s] = Nobody]
  /\ bytes_sent' = [bytes_sent EXCEPT ![s] = 0]
  /\ UNCHANGED <<lock, sends, sent, recvVars, wire, conn>>

Unlock(s) ==
  /\ Goto(s, "unlock", "idle")
  /\ lock' = Nobody
  /\ out' = [out EXCEPT ![s] = Nobody]
  /\ bytes_sent' = [bytes_sent EXCEPT ![s] = 0]
  /\ UNCHANGED <<sends, sent, recvVars, wire, conn>>

-----------------------------------------------------------------------------
(* Receiving.                                                              *)

(* The packet that the header among these bytes describes.                 *)
Header(bytes) == bytes[HeaderSize][1]

Missing(bytes) ==
  IF Len(bytes) < HeaderSize
    THEN HeaderSize - Len(bytes)
    ELSE BytesLeft(Header(bytes), Len(bytes))

(* One read(2) of one of the two loops of proto_recv_packet, which takes   *)
(* at most the bytes that are missing.  After the last one the function    *)
(* returns the packet, as its header describes it.                         *)
proto_recv_packet ==
  /\ receiving
  /\ conn # "reset"
  /\ \E n \in 1..Len(wire) :
       LET bytes == bytes_read \o SubSeq(wire, 1, n)
       IN  /\ n <= Missing(bytes_read)
           /\ IF Len(bytes) >= HeaderSize /\ Missing(bytes) = 0
                THEN /\ received' = Append(received,
                          IF bytes = Frame(Header(bytes))
                            THEN Cut(Header(bytes)) ELSE Garbage)
                     /\ bytes_read' = <<>>
                ELSE /\ bytes_read' = bytes
                     /\ UNCHANGED received
           /\ wire' = SubSeq(wire, n + 1, Len(wire))
  /\ UNCHANGED <<receiving, sendVars, conn>>

(* Mutant: a connection that is shut down is left at once.                 *)
RecvFailsEarly ==
  /\ receiving
  /\ conn # "up"
  /\ receiving' = FALSE
  /\ bytes_read' = <<>>
  /\ UNCHANGED <<received, sendVars, wire, conn>>

(* read(2) returns 0 or fails: proto_recv_packet returns -1, and what it   *)
(* has read of a packet is dropped.                                        *)
RecvFails ==
  /\ receiving
  /\ conn = "reset" \/ (conn = "shut" /\ wire = <<>>)
  /\ receiving' = FALSE
  /\ bytes_read' = <<>>
  /\ UNCHANGED <<received, sendVars, wire, conn>>

-----------------------------------------------------------------------------
(* The connection.                                                         *)

(* The sending side closes its end: what is in the socket still arrives.   *)
Shut ==
  /\ conn = "up"
  /\ conn' = "shut"
  /\ UNCHANGED <<sendVars, recvVars, wire>>

(* The connection is reset: what is in the socket is lost.                 *)
Reset ==
  /\ conn # "reset"
  /\ conn' = "reset"
  /\ wire' = <<>>
  /\ UNCHANGED <<sendVars, recvVars>>

-----------------------------------------------------------------------------
Send(s) ==
  \/ client_send_packet(s)
  \/ proto_send_packet(s)
  \/ WriteFails(s)
  \/ Unlock(s)

Receive == proto_recv_packet \/ RecvFails

Ended ==
  /\ \A s \in Senders : pc[s] = "idle" /\ sends[s] = MaxSends
  /\ UNCHANGED vars

Next ==
  \/ \E s \in Senders : create_header(s) \/ Send(s)
  \/ Receive
  \/ Shut \/ Reset
  \/ Ended

Spec == Init /\ [][Next]_vars

(* A thread that can run does; it takes the lock a bounded number of       *)
(* times.  Nothing is assumed of the receiver, which may be a peer.        *)
Fairness == \A s \in Senders : WF_vars(Send(s))

FairSpec == Spec /\ Fairness

-----------------------------------------------------------------------------
(* Properties.                                                             *)

Channel == INSTANCE PacketChannel WITH
  Packets <- Packet,
  alive   <- conn # "reset"

(* Packets written by several threads in pieces arrive each once and in    *)
(* order, whatever the lengths of the pieces, and whole if the size field  *)
(* holds the length of the payload.  A payload that is too long for it     *)
(* arrives cut, and the packets after it still arrive as they were sent; a *)
(* packet that was written in part only is never received.                 *)
ImplementsChannel == Channel!Spec

(* Whatever proto_send_packet has written in full is received, unless the  *)
(* connection is reset, by a receiver that keeps calling proto_recv_packet *)
(* until it returns -1, as jeux_client_service does.                       *)
Delivered == WF_vars(Receive) => Channel!Fairness

(* A thread that sends a packet gets through, and gives the lock back,     *)
(* provided that the socket has room again and again: if the peer stops    *)
(* reading, it blocks with the lock held.                                  *)
SendsReturn ==
  []<>(Len(wire) < Capacity \/ conn # "up") =>
    \A s \in Senders : pc[s] = "lock" ~> pc[s] = "idle"
=============================================================================
