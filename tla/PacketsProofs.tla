---------------------------- MODULE PacketsProofs ----------------------------
(***************************************************************************)
(* Packets implements PacketChannel, for every set of senders, every size  *)
(* of header, size field and socket, and every way in which write(2) and   *)
(* read(2) cut the bytes.                                                  *)
(*                                                                         *)
(* The bytes that have been written and not yet returned in a packet, the  *)
(* ones that proto_recv_packet has at hand followed by the ones in the     *)
(* socket, are the frames of the packets that are sent and not received,   *)
(* followed by the first bytes of the one that is being written.           *)
(***************************************************************************)
EXTENDS Packets, SequenceTheorems, TLAPS

FrameLen(p) == HeaderSize + Size(p)

Stream == bytes_read \o wire

(* Where the frame of each packet that was sent ends, counted from the     *)
(* first byte ever written.                                                *)
IsOffsets(off, snt) ==
  /\ off \in [0..Len(snt) -> Nat]
  /\ \A j \in 1..Len(snt) : off[j] = off[j - 1] + FrameLen(snt[j])
  /\ \A i, j \in 0..Len(snt) : i <= j => off[i] <= off[j]

(* The stream st holds the frames of snt from number n + 1 on and then the *)
(* first k bytes of p.                                                     *)
Holds(st, snt, n, off, p, k) ==
  /\ Len(st) = off[Len(snt)] - off[n] + k
  /\ \A j \in (n + 1)..Len(snt) : \A i \in 1..FrameLen(snt[j]) :
       st[off[j - 1] - off[n] + i] = <<snt[j], i>>
  /\ \A i \in 1..k : st[off[Len(snt)] - off[n] + i] = <<p, i>>

(* These bytes are not the whole of p.                                     *)
Carries(st, snt, n, off, p, k) ==
  /\ Holds(st, snt, n, off, p, k)
  /\ k > 0 => p \in Packet /\ k < FrameLen(p)

(* While the connection takes bytes, the packet that is being written is   *)
(* the one of the thread with the lock.                                    *)
BeingWritten(p, k) ==
  conn = "up" =>
    /\ \A s \in Senders : pc[s] = "write" => p = out[s] /\ k = bytes_sent[s]
    /\ (\A s \in Senders : pc[s] # "write") => k = 0

StreamInv ==
  receiving /\ conn # "reset" =>
    /\ \E off \in [0..Len(sent) -> Nat], p \in Packet \cup {Nobody}, k \in Nat :
         /\ IsOffsets(off, sent)
         /\ Carries(Stream, sent, Len(received), off, p, k)
         /\ BeingWritten(p, k)
    /\ Len(received) < Len(sent) =>
         Len(bytes_read) < FrameLen(sent[Len(received) + 1])

SenderState ==
  \A s \in Senders :
    /\ pc[s] \in {"write", "unlock"} <=> lock = s
    /\ pc[s] # "idle" => out[s] \in Packet
    /\ pc[s] \in {"idle", "lock"} => bytes_sent[s] = 0
    /\ pc[s] = "write" => bytes_sent[s] < FrameLen(out[s])

(* What proto_recv_packet has returned is a prefix of what was sent, each  *)
(* packet as far as the size field carries it.                             *)
PrefixReceived ==
  /\ Len(received) <= Len(sent)
  /\ \A i \in 1..Len(received) : received[i] = Cut(sent[i])

IInv == TypeOK /\ SenderState /\ PrefixReceived /\ StreamInv
-----------------------------------------------------------------------------
(* Packets and their frames.                                               *)

(* The size field has the width of its type, and a frame has its header.   *)
LEMMA SizeFacts ==
  ASSUME NEW p \in Packet
  PROVE  /\ Size(p) \in 0..(SizeMod - 1)
         /\ FrameLen(p) \in 1..MaxFrame
         /\ HeaderSize <= FrameLen(p)
<1>1. HeaderSize \in Nat \ {0} /\ SizeMod \in Nat \ {0}
  BY PacketsSizes
<1>2. p.len \in Nat
  BY PacketsSizes DEF Packet
<1>3. Size(p) \in 0..(SizeMod - 1)
  BY <1>1, <1>2 DEF Size
<1> QED  BY <1>1, <1>3 DEF FrameLen, MaxFrame

(* What is cut fits the size field, and a packet that fits is not cut.     *)
LEMMA CutFacts ==
  ASSUME NEW p \in Packet
  PROVE  /\ Cut(p) \in Arrivals
         /\ p.len < SizeMod => Cut(p) = p
<1>1. SizeMod \in Nat \ {0}
  BY PacketsSizes
<1>2. p.len \in Nat
  BY PacketsSizes DEF Packet
<1>3. Cut(p) \in Arrivals
  BY SizeFacts DEF Cut, Packet, Arrivals
<1>4. ASSUME p.len < SizeMod  PROVE Cut(p) = p
  <2>1. Size(p) = p.len
    BY <1>1, <1>2, <1>4 DEF Size
  <2> QED  BY <2>1 DEF Cut, Packet
<1> QED  BY <1>3, <1>4

(* A frame is the sequence of the packet's bytes.                          *)
LEMMA FrameFacts ==
  ASSUME NEW p \in Packet
  PROVE  /\ Frame(p) \in Seq(Bytes)
         /\ Len(Frame(p)) = FrameLen(p)
         /\ \A i \in 1..FrameLen(p) : Frame(p)[i] = <<p, i>>
<1>1. FrameLen(p) \in Nat /\ FrameLen(p) \in 1..MaxFrame
  BY SizeFacts
<1>2. Frame(p) = [i \in 1..FrameLen(p) |-> <<p, i>>]
  BY DEF Frame, FrameLen
<1>3. MaxFrame \in Int
  BY PacketsSizes DEF MaxFrame
<1>4. ASSUME NEW i \in 1..FrameLen(p)  PROVE <<p, i>> \in Bytes
  BY <1>1, <1>3 DEF Bytes
<1>5. [i \in 1..FrameLen(p) |-> <<p, i>>] \in Seq(Bytes)
  BY <1>1, <1>4, IsASeq
<1> QED  BY <1>1, <1>2, <1>5, LenProperties

(* One write(2) adds a piece of the frame.                                 *)
LEMMA PieceFacts ==
  ASSUME NEW p \in Packet, NEW k \in Nat, NEW n \in Nat \ {0},
         k + n <= FrameLen(p)
  PROVE  /\ SubSeq(Frame(p), k + 1, k + n) \in Seq(Bytes)
         /\ Len(SubSeq(Frame(p), k + 1, k + n)) = n
         /\ \A i \in 1..n : SubSeq(Frame(p), k + 1, k + n)[i] = <<p, k + i>>
<1>1. FrameLen(p) \in Nat
  BY SizeFacts
<1>2. ASSUME NEW i \in (k + 1)..(k + n)  PROVE Frame(p)[i] \in Bytes
  <2>1. i \in 1..FrameLen(p)
    BY <1>1
  <2> QED  BY <2>1, FrameFacts, ElementOfSeq
<1>3. /\ SubSeq(Frame(p), k + 1, k + n) \in Seq(Bytes)
      /\ Len(SubSeq(Frame(p), k + 1, k + n)) = n
      /\ \A i \in 1..n :
           SubSeq(Frame(p), k + 1, k + n)[i] = Frame(p)[(k + 1) + i - 1]
  <2>1. k + 1 \in Int /\ k + n \in Int /\ (k + n) - (k + 1) + 1 = n /\ k + 1 <= k + n
    OBVIOUS
  <2> QED  BY <1>2, <2>1, SubSeqProperties
<1>4. ASSUME NEW i \in 1..n  PROVE Frame(p)[(k + 1) + i - 1] = <<p, k + i>>
  <2>1. (k + 1) + i - 1 = k + i /\ k + i \in 1..FrameLen(p)
    BY <1>1
  <2> QED  BY <2>1, FrameFacts
<1> QED  BY <1>3, <1>4
-----------------------------------------------------------------------------
(* The stream as bytes move through it.                                    *)

(* st2 is st followed by x.                                                *)
Extended(st, st2, x) ==
  /\ Len(st2) = Len(st) + Len(x)
  /\ \A i \in 1..Len(st) : st2[i] = st[i]
  /\ \A i \in 1..Len(x) : st2[Len(st) + i] = x[i]

(* A write adds at the end of the stream.                                  *)
LEMMA StreamWritten ==
  ASSUME NEW S, NEW r \in Seq(S), NEW w \in Seq(S), NEW x \in Seq(S)
  PROVE  Extended(r \o w, r \o (w \o x), x)
<1>1. w \o x \in Seq(S) /\ Len(w \o x) = Len(w) + Len(x)
  BY ConcatProperties
<1>2. Len(r \o w) = Len(r) + Len(w)
  BY ConcatProperties
<1>3. Len(r \o (w \o x)) = Len(r) + (Len(w) + Len(x))
  BY <1>1, ConcatProperties
<1>4. Len(r) \in Nat /\ Len(w) \in Nat /\ Len(x) \in Nat
  BY LenProperties
<1>5. \A i \in 1..(Len(r) + Len(w \o x)) : (r \o (w \o x))[i] =
        IF i <= Len(r) THEN r[i] ELSE (w \o x)[i - Len(r)]
  BY <1>1, ConcatProperties
<1>6. \A i \in 1..(Len(w) + Len(x)) : (w \o x)[i] =
        IF i <= Len(w) THEN w[i] ELSE x[i - Len(w)]
  BY ConcatProperties
<1>7. \A i \in 1..(Len(r) + Len(w)) : (r \o w)[i] =
        IF i <= Len(r) THEN r[i] ELSE w[i - Len(r)]
  BY ConcatProperties
<1>8. ASSUME NEW i \in 1..Len(r \o w)
      PROVE  (r \o (w \o x))[i] = (r \o w)[i]
  <2>1. CASE i <= Len(r)
    BY <1>1, <1>2, <1>4, <1>5, <1>7, <2>1
  <2>2. CASE ~(i <= Len(r))
    <3>1. i - Len(r) \in 1..(Len(w) + Len(x)) /\ i - Len(r) <= Len(w)
      BY <1>2, <1>4, <2>2
    <3>2. (w \o x)[i - Len(r)] = w[i - Len(r)]
      BY <1>6, <3>1
    <3> QED  BY <1>1, <1>2, <1>4, <1>5, <1>7, <2>2, <3>2
  <2> QED  BY <2>1, <2>2
<1>9. ASSUME NEW i \in 1..Len(x)
      PROVE  (r \o (w \o x))[Len(r \o w) + i] = x[i]
  <2> DEFINE a == Len(r) + Len(w) + i
  <2>1. /\ a \in 1..(Len(r) + Len(w \o x)) /\ ~(a <= Len(r))
        /\ a - Len(r) = Len(w) + i
    BY <1>1, <1>4
  <2>2. /\ Len(w) + i \in 1..(Len(w) + Len(x)) /\ ~(Len(w) + i <= Len(w))
        /\ (Len(w) + i) - Len(w) = i
    BY <1>4
  <2>3. (r \o (w \o x))[a] = (w \o x)[Len(w) + i]
    BY <1>5, <2>1
  <2>4. (w \o x)[Len(w) + i] = x[i]
    BY <1>6, <2>2
  <2> QED  BY <1>2, <2>3, <2>4
<1> QED  BY <1>2, <1>3, <1>4, <1>8, <1>9 DEF Extended

(* A read moves bytes from the socket to the reader.                       *)
LEMMA StreamRead ==
  ASSUME NEW S, NEW r \in Seq(S), NEW w \in Seq(S), NEW n \in 1..Len(w)
  PROVE  LET bytes == r \o SubSeq(w, 1, n)
             rest  == SubSeq(w, n + 1, Len(w))
         IN  /\ bytes \in Seq(S) /\ Len(bytes) = Len(r) + n
             /\ rest \in Seq(S) /\ Len(rest) = Len(w) - n
             /\ \A i \in 1..Len(bytes) : bytes[i] = (r \o w)[i]
             /\ \A i \in 1..Len(rest) : rest[i] = (r \o w)[Len(bytes) + i]
<1> DEFINE piece == SubSeq(w, 1, n)
           bytes == r \o piece
           rest  == SubSeq(w, n + 1, Len(w))
<1>1. Len(r) \in Nat /\ Len(w) \in Nat
  BY LenProperties
<1>2. \A i \in 1..Len(w) : w[i] \in S
  BY ElementOfSeq
<1>3. piece \in Seq(S) /\ Len(piece) = n /\ \A i \in 1..n : piece[i] = w[i]
  <2>1. 1 \in Int /\ n \in Int /\ 1 <= n /\ n - 1 + 1 = n /\ \A i \in 1..n : 1 + i - 1 = i
    BY <1>1
  <2>2. \A i \in 1..n : w[i] \in S
    BY <1>1, <1>2
  <2>3. /\ piece \in Seq(S)
        /\ Len(piece) = IF 1 <= n THEN n - 1 + 1 ELSE 0
        /\ \A i \in 1..(n - 1 + 1) : piece[i] = w[1 + i - 1]
    BY <2>1, <2>2, SubSeqProperties
  <2> QED  BY <2>1, <2>3
<1>4. /\ rest \in Seq(S) /\ Len(rest) = Len(w) - n
      /\ \A i \in 1..(Len(w) - n) : rest[i] = w[n + i]
  <2>1. /\ n + 1 \in Int /\ Len(w) \in Int
        /\ Len(w) - (n + 1) + 1 = Len(w) - n
        /\ \A i \in 1..(Len(w) - n) : (n + 1) + i - 1 = n + i
        /\ ~(n + 1 <= Len(w)) => Len(w) - n = 0
    BY <1>1
  <2>2. \A i \in (n + 1)..Len(w) : w[i] \in S
    BY <1>1, <1>2
  <2>3. /\ rest \in Seq(S)
        /\ Len(rest) = IF n + 1 <= Len(w) THEN Len(w) - (n + 1) + 1 ELSE 0
        /\ \A i \in 1..(Len(w) - (n + 1) + 1) : rest[i] = w[(n + 1) + i - 1]
    <3> DEFINE m == n + 1
               e == Len(w)
    <3>1. m \in Int /\ e \in Int /\ \A i \in m..e : w[i] \in S
      BY <2>1, <2>2
    <3> HIDE DEF m, e
    <3>2. /\ SubSeq(w, m, e) \in Seq(S)
          /\ Len(SubSeq(w, m, e)) = IF m <= e THEN e - m + 1 ELSE 0
          /\ \A i \in 1..(e - m + 1) : SubSeq(w, m, e)[i] = w[m + i - 1]
      BY <3>1, SubSeqProperties
    <3> QED  BY <3>2 DEF m, e
  <2> QED  BY <2>1, <2>3
<1> HIDE DEF piece, rest
<1>5. /\ bytes \in Seq(S) /\ Len(bytes) = Len(r) + n
      /\ \A i \in 1..(Len(r) + n) :
           bytes[i] = IF i <= Len(r) THEN r[i] ELSE piece[i - Len(r)]
  BY <1>3, ConcatProperties
<1>6. /\ r \o w \in Seq(S) /\ Len(r \o w) = Len(r) + Len(w)
      /\ \A i \in 1..(Len(r) + Len(w)) :
           (r \o w)[i] = IF i <= Len(r) THEN r[i] ELSE w[i - Len(r)]
  BY ConcatProperties
<1> HIDE DEF bytes
<1>7. ASSUME NEW i \in 1..Len(bytes)  PROVE bytes[i] = (r \o w)[i]
  <2>1. i \in 1..(Len(r) + n) /\ i \in 1..(Len(r) + Len(w))
    BY <1>1, <1>5
  <2>2. CASE i <= Len(r)
    BY <1>5, <1>6, <2>1, <2>2
  <2>3. CASE ~(i <= Len(r))
    <3>1. i - Len(r) \in 1..n
      BY <1>1, <2>1, <2>3
    <3> QED  BY <1>3, <1>5, <1>6, <2>1, <2>3, <3>1
  <2> QED  BY <2>2, <2>3
<1>8. ASSUME NEW i \in 1..Len(rest)  PROVE rest[i] = (r \o w)[Len(bytes) + i]
  <2> DEFINE a == Len(r) + n + i
  <2>1. /\ i \in 1..(Len(w) - n) /\ a \in 1..(Len(r) + Len(w))
        /\ ~(a <= Len(r)) /\ a - Len(r) = n + i
    BY <1>1, <1>4
  <2>2. (r \o w)[a] = w[n + i]
    BY <1>6, <2>1
  <2> QED  BY <1>4, <1>5, <2>1, <2>2
<1> QED  BY <1>4, <1>5, <1>7, <1>8 DEF piece, bytes, rest

(* Those bytes and the rest are the stream as it was.                      *)
LEMMA ReadKeepsStream ==
  ASSUME NEW S, NEW r \in Seq(S), NEW w \in Seq(S), NEW n \in 1..Len(w)
  PROVE  (r \o SubSeq(w, 1, n)) \o SubSeq(w, n + 1, Len(w)) = r \o w
<1> DEFINE bytes == r \o SubSeq(w, 1, n)
           rest  == SubSeq(w, n + 1, Len(w))
<1>1. /\ Len(r) \in Nat /\ Len(w) \in Nat
      /\ r \o w \in Seq(S) /\ Len(r \o w) = Len(r) + Len(w)
  BY LenProperties, ConcatProperties
<1>2. bytes \in Seq(S) /\ Len(bytes) = Len(r) + n
  BY StreamRead
<1>3. rest \in Seq(S) /\ Len(rest) = Len(w) - n
  BY StreamRead
<1>4. \A i \in 1..Len(bytes) : bytes[i] = (r \o w)[i]
  BY StreamRead
<1>5. \A i \in 1..Len(rest) : rest[i] = (r \o w)[Len(bytes) + i]
  BY StreamRead
<1> HIDE DEF bytes, rest
<1>6. /\ bytes \o rest \in Seq(S) /\ Len(bytes \o rest) = Len(bytes) + Len(rest)
      /\ \A i \in 1..(Len(bytes) + Len(rest)) : (bytes \o rest)[i] =
           IF i <= Len(bytes) THEN bytes[i] ELSE rest[i - Len(bytes)]
  BY <1>2, <1>3, ConcatProperties
<1>7. Len(bytes \o rest) = Len(r \o w)
  BY <1>1, <1>2, <1>3, <1>6
<1>8. ASSUME NEW i \in 1..Len(bytes \o rest)
      PROVE  (bytes \o rest)[i] = (r \o w)[i]
  <2>1. CASE i <= Len(bytes)
    <3>1. i \in 1..Len(bytes)
      BY <1>1, <1>2, <1>6, <2>1
    <3> QED  BY <1>4, <1>6, <2>1, <3>1
  <2>2. CASE ~(i <= Len(bytes))
    <3>1. i - Len(bytes) \in 1..Len(rest) /\ Len(bytes) + (i - Len(bytes)) = i
      BY <1>1, <1>2, <1>3, <1>6, <2>2
    <3> QED  BY <1>5, <1>6, <2>2, <3>1
  <2> QED  BY <2>1, <2>2
<1>9. bytes \o rest = r \o w
  BY <1>1, <1>6, <1>7, <1>8, SeqEqual
<1> QED  BY <1>9 DEF bytes, rest
-----------------------------------------------------------------------------
(* What the stream carries as bytes move through it.                       *)

(* The same for the bytes that were read, under a name.                    *)
LEMMA BytesRead ==
  ASSUME NEW S, NEW r \in Seq(S), NEW w \in Seq(S), NEW n \in 1..Len(w),
         NEW bytes, bytes = r \o SubSeq(w, 1, n)
  PROVE  /\ bytes \in Seq(S) /\ Len(bytes) = Len(r) + n
         /\ \A i \in 1..Len(bytes) : bytes[i] = (r \o w)[i]
  BY StreamRead

(* The offsets are numbers, and lie in order.                              *)
LEMMA OffsetFacts ==
  ASSUME NEW snt \in Seq(Packet), NEW off, IsOffsets(off, snt)
  PROVE  /\ Len(snt) \in Nat
         /\ \A j \in 0..Len(snt) : off[j] \in Nat
         /\ \A j \in 1..Len(snt) : /\ snt[j] \in Packet
                                   /\ FrameLen(snt[j]) \in Nat \ {0}
                                   /\ off[j] = off[j - 1] + FrameLen(snt[j])
         /\ \A i, j \in 0..Len(snt) : i <= j => off[i] <= off[j]
<1>1. Len(snt) \in Nat
  BY LenProperties
<1>2. \A j \in 1..Len(snt) : snt[j] \in Packet
  BY ElementOfSeq
<1>3. ASSUME NEW j \in 1..Len(snt)  PROVE FrameLen(snt[j]) \in Nat \ {0}
  BY <1>2, SizeFacts
<1>4. off \in [0..Len(snt) -> Nat]
  BY DEF IsOffsets
<1> QED  BY <1>1, <1>2, <1>3, <1>4 DEF IsOffsets

(* The bytes of a frame, and those of the packet that is being written,    *)
(* lie in the stream.                                                      *)
LEMMA FramePlace ==
  ASSUME NEW snt \in Seq(Packet), NEW off, IsOffsets(off, snt),
         NEW n \in 0..Len(snt), NEW k \in Nat
  PROVE  /\ off[n] \in Nat /\ off[Len(snt)] \in Nat /\ off[n] <= off[Len(snt)]
         /\ \A j \in (n + 1)..Len(snt) : \A i \in 1..FrameLen(snt[j]) :
              off[j - 1] - off[n] + i \in 1..(off[Len(snt)] - off[n] + k)
         /\ \A i \in 1..k :
              off[Len(snt)] - off[n] + i \in 1..(off[Len(snt)] - off[n] + k)
<1> DEFINE N == Len(snt)
<1>1. N \in Nat /\ n \in 0..N /\ N \in 0..N /\ n <= N
  BY OffsetFacts
<1>2. off[n] \in Nat /\ off[N] \in Nat /\ off[n] <= off[N]
  BY <1>1, OffsetFacts
<1>3. ASSUME NEW j \in (n + 1)..N, NEW i \in 1..FrameLen(snt[j])
      PROVE  off[j - 1] - off[n] + i \in 1..(off[N] - off[n] + k)
  <2>1. j \in 1..N /\ j - 1 \in 0..N /\ n <= j - 1 /\ j <= N /\ j \in 0..N
    BY <1>1
  <2>2. /\ off[j - 1] \in Nat /\ off[j] \in Nat /\ FrameLen(snt[j]) \in Nat
        /\ off[j] = off[j - 1] + FrameLen(snt[j])
        /\ off[n] <= off[j - 1] /\ off[j] <= off[N]
    BY <1>1, <2>1, OffsetFacts
  <2> DEFINE l == FrameLen(snt[j])
             a == off[n]
             b == off[j - 1]
             c == off[N]
  <2>3. /\ a \in Nat /\ b \in Nat /\ c \in Nat /\ l \in Nat /\ i \in 1..l
        /\ a <= b /\ b + l <= c
    BY <1>2, <2>2
  <2> HIDE DEF N, l, a, b, c
  <2>4. b - a + i \in 1..(c - a + k)
    BY <2>3
  <2> QED  BY <2>4 DEF a, b, c
<1>4. ASSUME NEW i \in 1..k
      PROVE  off[N] - off[n] + i \in 1..(off[N] - off[n] + k)
  <2> HIDE DEF N
  <2> QED  BY <1>2
<1> QED  BY <1>2, <1>3, <1>4

(* st2 is st and then m bytes of p from number k + 1 on.                   *)
Grown(st, st2, p, k, m) ==
  /\ Len(st2) = Len(st) + m
  /\ \A i \in 1..Len(st) : st2[i] = st[i]
  /\ \A i \in 1..m : st2[Len(st) + i] = <<p, k + i>>

(* st2 is st without its first l bytes.                                    *)
Dropped(st, st2, l) ==
  /\ Len(st2) = Len(st) - l
  /\ \A i \in 1..Len(st2) : st2[i] = st[l + i]

(* A write adds its bytes to those of the packet that is being written,    *)
(* and leaves the others alone.                                            *)
LEMMA GrownStream ==
  ASSUME NEW snt \in Seq(Packet), NEW n \in 0..Len(snt), NEW off,
         NEW p, NEW k \in Nat, NEW m \in Nat, NEW st, NEW st2,
         IsOffsets(off, snt), Holds(st, snt, n, off, p, k),
         Grown(st, st2, p, k, m)
  PROVE  Holds(st2, snt, n, off, p, k + m)
<1> DEFINE N == Len(snt)
<1>1. off[n] \in Nat /\ off[N] \in Nat /\ off[n] <= off[N]
  BY FramePlace
<1>2. Len(st) = off[N] - off[n] + k
  BY DEF Holds
<1>3. Len(st2) = off[N] - off[n] + (k + m)
  <2>1. Len(st2) = Len(st) + m
    BY DEF Grown
  <2> HIDE DEF N
  <2> QED  BY <1>1, <1>2, <2>1
<1>4. ASSUME NEW j \in (n + 1)..N, NEW i \in 1..FrameLen(snt[j])
      PROVE  st2[off[j - 1] - off[n] + i] = <<snt[j], i>>
  <2>1. off[j - 1] - off[n] + i \in 1..Len(st)
    BY <1>2, FramePlace
  <2>2. st[off[j - 1] - off[n] + i] = <<snt[j], i>>
    BY DEF Holds
  <2> QED  BY <2>1, <2>2 DEF Grown
<1>5. ASSUME NEW i \in 1..(k + m)
      PROVE  st2[off[N] - off[n] + i] = <<p, i>>
  <2>1. CASE i <= k
    <3>1. i \in 1..k
      BY <2>1
    <3>2. off[N] - off[n] + i \in 1..Len(st)
      BY <1>2, <3>1, FramePlace
    <3>3. st[off[N] - off[n] + i] = <<p, i>>
      BY <3>1 DEF Holds
    <3> QED  BY <3>2, <3>3 DEF Grown
  <2>2. CASE ~(i <= k)
    <3>1. i - k \in 1..m /\ k + (i - k) = i
      BY <2>2
    <3>2. Len(st) + (i - k) = off[N] - off[n] + i
      <4> HIDE DEF N
      <4> QED  BY <1>1, <1>2
    <3>3. st2[Len(st) + (i - k)] = <<p, k + (i - k)>>
      BY <3>1 DEF Grown
    <3> QED  BY <3>1, <3>2, <3>3
  <2> QED  BY <2>1, <2>2
<1> HIDE DEF N
<1> QED  BY <1>3, <1>4, <1>5 DEF Holds, N

(* A write that is not the last of a packet.                               *)
LEMMA CarriesMore ==
  ASSUME NEW snt \in Seq(Packet), NEW n \in 0..Len(snt), NEW off,
         NEW p \in Packet, NEW k \in Nat, NEW m \in Nat, NEW st, NEW st2,
         IsOffsets(off, snt), Carries(st, snt, n, off, p, k),
         Grown(st, st2, p, k, m), k + m < FrameLen(p)
  PROVE  Carries(st2, snt, n, off, p, k + m)
  BY GrownStream DEF Carries

(* The offset of one more packet.                                          *)
LEMMA OneMoreOffset ==
  ASSUME NEW snt \in Seq(Packet), NEW off, NEW p \in Packet,
         IsOffsets(off, snt)
  PROVE  \E off2 \in [0..Len(Append(snt, p)) -> Nat] :
           /\ IsOffsets(off2, Append(snt, p))
           /\ \A j \in 0..Len(snt) : off2[j] = off[j]
           /\ off2[Len(snt) + 1] = off[Len(snt)] + FrameLen(p)
<1> DEFINE N    == Len(snt)
           snt2 == Append(snt, p)
           off2 == [j \in 0..(N + 1) |->
                      IF j = N + 1 THEN off[N] + FrameLen(p) ELSE off[j]]
<1>1. N \in Nat /\ N \in 0..N /\ off[N] \in Nat /\ FrameLen(p) \in Nat
  BY OffsetFacts, SizeFacts
<1>2. /\ Len(snt2) = N + 1 /\ snt2[N + 1] = p
      /\ \A j \in 1..N : snt2[j] = snt[j]
  BY AppendProperties
<1>3. ASSUME NEW j \in 0..N  PROVE off[j] \in Nat /\ off2[j] = off[j]
  <2>1. j \in 0..(N + 1) /\ j # N + 1
    BY <1>1
  <2> QED  BY <2>1, OffsetFacts
<1>4. off2[N + 1] = off[N] + FrameLen(p)
  BY <1>1
<1>5. off2 \in [0..(N + 1) -> Nat]
  <2>1. ASSUME NEW j \in 0..(N + 1)
        PROVE  (IF j = N + 1 THEN off[N] + FrameLen(p) ELSE off[j]) \in Nat
    <3>1. j # N + 1 => j \in 0..N
      BY <1>1
    <3>2. off[N] + FrameLen(p) \in Nat
      BY <1>1
    <3> HIDE DEF N
    <3> QED  BY <1>3, <3>1, <3>2
  <2> QED  BY <2>1
<1> HIDE DEF snt2, off2
<1>6. ASSUME NEW j \in 1..(N + 1)
      PROVE  off2[j] = off2[j - 1] + FrameLen(snt2[j])
  <2>1. CASE j = N + 1
    <3>1. j - 1 = N
      BY <1>1, <2>1
    <3> QED  BY <1>1, <1>2, <1>3, <1>4, <2>1, <3>1
  <2>2. CASE j # N + 1
    <3>1. j \in 1..N /\ j \in 0..N /\ j - 1 \in 0..N
      BY <1>1, <2>2
    <3>2. off[j] = off[j - 1] + FrameLen(snt[j])
      BY <3>1, OffsetFacts
    <3> QED  BY <1>2, <1>3, <3>1, <3>2
  <2> QED  BY <2>1, <2>2
<1>7. ASSUME NEW i \in 0..(N + 1), NEW j \in 0..(N + 1), i <= j
      PROVE  off2[i] <= off2[j]
  <2>1. CASE j \in 0..N
    <3>1. i \in 0..N
      BY <1>1, <1>7, <2>1
    <3>2. off[i] <= off[j]
      BY <1>7, <2>1, <3>1, OffsetFacts
    <3> QED  BY <1>3, <2>1, <3>1, <3>2
  <2>2. CASE j = N + 1 /\ i \in 0..N
    <3>1. off[i] <= off[N] /\ off[i] \in Nat /\ off2[i] = off[i]
      BY <1>1, <1>3, <2>2, OffsetFacts
    <3> HIDE DEF N
    <3> QED  BY <1>1, <1>4, <2>2, <3>1
  <2>3. CASE j = N + 1 /\ i = N + 1
    BY <1>1, <1>4, <2>3
  <2> QED  BY <1>1, <2>1, <2>2, <2>3
<1>8. IsOffsets(off2, snt2)
  BY <1>2, <1>5, <1>6, <1>7 DEF IsOffsets
<1> QED  BY <1>2, <1>3, <1>4, <1>5, <1>8 DEF snt2

(* With the last byte of a packet it is one of those that were sent.       *)
LEMMA CarriesSent ==
  ASSUME NEW snt \in Seq(Packet), NEW n \in 0..Len(snt), NEW off,
         NEW p \in Packet, NEW k \in Nat, NEW m \in Nat, NEW st, NEW st2, NEW q,
         IsOffsets(off, snt), Carries(st, snt, n, off, p, k),
         Grown(st, st2, p, k, m), k + m = FrameLen(p)
  PROVE  \E off2 \in [0..Len(Append(snt, p)) -> Nat] :
           /\ IsOffsets(off2, Append(snt, p))
           /\ Carries(st2, Append(snt, p), n, off2, q, 0)
<1> DEFINE N    == Len(snt)
           snt2 == Append(snt, p)
<1>1. PICK off2 \in [0..Len(snt2) -> Nat] :
        /\ IsOffsets(off2, snt2)
        /\ \A j \in 0..N : off2[j] = off[j]
        /\ off2[N + 1] = off[N] + FrameLen(p)
  BY OneMoreOffset
<1>2. /\ Len(snt2) = N + 1 /\ snt2[N + 1] = p
      /\ \A j \in 1..N : snt2[j] = snt[j]
  BY AppendProperties
<1>3. N \in Nat /\ N \in 0..N /\ n \in 0..N /\ off[n] \in Nat /\ off[N] \in Nat
  BY OffsetFacts, FramePlace
<1>4. /\ Len(st2) = off[N] - off[n] + (k + m)
      /\ \A j \in (n + 1)..N : \A i \in 1..FrameLen(snt[j]) :
           st2[off[j - 1] - off[n] + i] = <<snt[j], i>>
      /\ \A i \in 1..(k + m) : st2[off[N] - off[n] + i] = <<p, i>>
  <2>1. Holds(st2, snt, n, off, p, k + m)
    BY GrownStream DEF Carries
  <2> QED  BY <2>1 DEF Holds
<1> HIDE DEF snt2
<1>5. off2[n] = off[n] /\ off2[N] = off[N]
  BY <1>1, <1>3
<1>6. Len(st2) = off2[Len(snt2)] - off2[n] + 0
  <2> HIDE DEF N
  <2>1. FrameLen(p) \in Nat
    BY SizeFacts
  <2>2. Len(st2) = off[N] - off[n] + FrameLen(p)
    BY <1>4
  <2>3. off2[Len(snt2)] = off[N] + FrameLen(p)
    BY <1>1, <1>2
  <2> DEFINE a == off[n]
             c == off[N]
             l == FrameLen(p)
  <2>4. a \in Nat /\ c \in Nat /\ l \in Nat
    BY <1>3, <2>1
  <2> HIDE DEF a, c, l
  <2>5. c - a + l = (c + l) - a + 0
    BY <2>4
  <2> QED  BY <1>5, <2>2, <2>3, <2>5 DEF a, c, l
<1>7. ASSUME NEW j \in (n + 1)..Len(snt2), NEW i \in 1..FrameLen(snt2[j])
      PROVE  st2[off2[j - 1] - off2[n] + i] = <<snt2[j], i>>
  <2>1. CASE j = N + 1
    <3>1. j - 1 = N /\ snt2[j] = p /\ i \in 1..(k + m)
      BY <1>2, <1>3, <2>1
    <3> QED  BY <1>4, <1>5, <3>1
  <2>2. CASE j # N + 1
    <3>1. j \in (n + 1)..N /\ j \in 1..N /\ j - 1 \in 0..N
      <4> HIDE DEF N
      <4> QED  BY <1>2, <1>3, <2>2
    <3>2. snt2[j] = snt[j] /\ off2[j - 1] = off[j - 1]
      BY <1>1, <1>2, <3>1
    <3> QED  BY <1>4, <1>5, <3>1, <3>2
  <2> QED  BY <2>1, <2>2
<1>8. /\ \A i \in 1..0 : st2[off2[Len(snt2)] - off2[n] + i] = <<q, i>>
      /\ 0 > 0 => q \in Packet /\ 0 < FrameLen(q)
  OBVIOUS
<1>9. Carries(st2, snt2, n, off2, q, 0)
  BY <1>6, <1>7, <1>8 DEF Carries, Holds
<1> QED  BY <1>1, <1>9 DEF snt2

(* The first l bytes of st are the first ones of q.                        *)
Begins(st, q, l) == \A i \in 1..l : st[i] = <<q, i>>

(* The stream begins with the frame of the packet that is received next.   *)
LEMMA FirstFrame ==
  ASSUME NEW snt \in Seq(Packet), NEW n \in 0..Len(snt), NEW off,
         NEW p, NEW k \in Nat, NEW st,
         IsOffsets(off, snt), Carries(st, snt, n, off, p, k), n < Len(snt)
  PROVE  Begins(st, snt[n + 1], FrameLen(snt[n + 1]))
<1>1. \A j \in (n + 1)..Len(snt) : \A i \in 1..FrameLen(snt[j]) :
            st[off[j - 1] - off[n] + i] = <<snt[j], i>>
  BY DEF Carries, Holds
<1>2. Len(snt) \in Nat /\ off[n] \in Nat
  BY OffsetFacts
<1>3. n + 1 \in (n + 1)..Len(snt) /\ (n + 1) - 1 = n
  BY <1>2
<1>4. ASSUME NEW i \in 1..FrameLen(snt[n + 1])
      PROVE  st[i] = <<snt[n + 1], i>>
  <2>1. st[off[(n + 1) - 1] - off[n] + i] = <<snt[n + 1], i>>
    BY <1>1, <1>3
  <2>2. off[n] - off[n] + i = i
    BY <1>2
  <2> QED  BY <1>3, <2>1, <2>2
<1> QED  BY <1>4 DEF Begins

(* When that frame is taken, the stream begins with the next one.          *)
LEMMA CarriesNext ==
  ASSUME NEW snt \in Seq(Packet), NEW n \in 0..Len(snt), NEW off,
         NEW p, NEW k \in Nat, NEW st, NEW st2,
         IsOffsets(off, snt), Carries(st, snt, n, off, p, k), n < Len(snt),
         Dropped(st, st2, FrameLen(snt[n + 1]))
  PROVE  Carries(st2, snt, n + 1, off, p, k)
<1> DEFINE N == Len(snt)
           L == FrameLen(snt[n + 1])
<1>1. /\ N \in Nat /\ n \in 0..N /\ N \in 0..N
      /\ n + 1 \in 1..N /\ n + 1 \in 0..N /\ (n + 1) - 1 = n
  BY OffsetFacts
<1>2. /\ off[n] \in Nat /\ off[N] \in Nat /\ off[n + 1] \in Nat
      /\ off[n + 1] = off[n] + L /\ L \in Nat
  BY <1>1, OffsetFacts
<1>3. Len(st) = off[N] - off[n] + k
  BY DEF Carries, Holds
<1>4. Len(st2) = Len(st) - L /\ \A i \in 1..Len(st2) : st2[i] = st[L + i]
  BY DEF Dropped
<1> HIDE DEF L
<1>5. Len(st2) = off[N] - off[n + 1] + k
  <2> HIDE DEF N
  <2> QED  BY <1>2, <1>3, <1>4
<1>6. ASSUME NEW b \in Nat, NEW i \in Nat
      PROVE  L + (b - off[n + 1] + i) = b - off[n] + i
  <2> HIDE DEF N
  <2> QED  BY <1>2
<1>7. ASSUME NEW j \in (n + 1 + 1)..N, NEW i \in 1..FrameLen(snt[j])
      PROVE  st2[off[j - 1] - off[n + 1] + i] = <<snt[j], i>>
  <2>1. j \in (n + 1)..N /\ j - 1 \in 0..N
    BY <1>1
  <2>2. off[j - 1] - off[n + 1] + i \in 1..Len(st2)
    BY <1>1, <1>5, FramePlace
  <2>3. off[j - 1] \in Nat /\ i \in Nat
    BY <2>1, OffsetFacts
  <2>4. st[off[j - 1] - off[n] + i] = <<snt[j], i>>
    BY <2>1 DEF Carries, Holds
  <2> QED  BY <1>4, <1>6, <2>2, <2>3, <2>4
<1>8. ASSUME NEW i \in 1..k
      PROVE  st2[off[N] - off[n + 1] + i] = <<p, i>>
  <2>1. off[N] - off[n + 1] + i \in 1..Len(st2)
    BY <1>1, <1>5, FramePlace
  <2>2. st[off[N] - off[n] + i] = <<p, i>>
    BY DEF Carries, Holds
  <2>3. L + (off[N] - off[n + 1] + i) = off[N] - off[n] + i
    <3>1. i \in Nat
      OBVIOUS
    <3> HIDE DEF N
    <3> QED  BY <1>2, <1>6, <3>1
  <2>4. st2[off[N] - off[n + 1] + i] = st[L + (off[N] - off[n + 1] + i)]
    BY <1>4, <2>1
  <2> QED  BY <2>2, <2>3, <2>4
<1>9. k > 0 => p \in Packet /\ k < FrameLen(p)
  BY DEF Carries, Holds
<1> HIDE DEF N
<1> QED  BY <1>5, <1>7, <1>8, <1>9 DEF Carries, Holds, N
-----------------------------------------------------------------------------
(* The inductive invariant.                                                *)

(* What the types say of the sequences.                                    *)
LEMMA SeqTypes ==
  ASSUME TypeOK, PrefixReceived
  PROVE  /\ sent \in Seq(Packet) /\ Len(sent) \in Nat
         /\ bytes_read \in Seq(Bytes) /\ Len(bytes_read) \in Nat
         /\ wire \in Seq(Bytes) /\ Len(wire) \in Nat
         /\ Stream \in Seq(Bytes) /\ Len(Stream) = Len(bytes_read) + Len(wire)
         /\ Len(received) \in 0..Len(sent)
<1>1. /\ sent \in Seq(Packet) /\ bytes_read \in Seq(Bytes) /\ wire \in Seq(Bytes)
      /\ received \in Seq(Arrivals)
  BY DEF TypeOK
<1>2. /\ Len(sent) \in Nat /\ Len(bytes_read) \in Nat /\ Len(wire) \in Nat
      /\ Len(received) \in Nat
  BY <1>1, LenProperties
<1>3. Stream \in Seq(Bytes) /\ Len(Stream) = Len(bytes_read) + Len(wire)
  BY <1>1, ConcatProperties DEF Stream
<1> QED  BY <1>1, <1>2, <1>3 DEF PrefixReceived

(* Nothing has been written at first.                                      *)
LEMMA InitIInv == Init => IInv
<1> SUFFICES ASSUME Init  PROVE IInv
  OBVIOUS
<1> USE DEF Init
<1>1. TypeOK
  <2>1. wire \in Seq(Bytes) /\ bytes_read \in Seq(Bytes) /\ sent \in Seq(Packet)
        /\ received \in Seq(Arrivals) /\ Len(wire) = 0
    BY EmptySeq
  <2>2. Capacity \in Nat /\ 0 \in 0..MaxFrame /\ 0 \in 0..MaxSends
    BY PacketsSizes DEF MaxFrame
  <2> QED  BY <2>1, <2>2 DEF TypeOK
<1>2. SenderState
  BY PacketsSenders DEF SenderState
<1>3. PrefixReceived
  BY DEF PrefixReceived
<1>4. StreamInv
  <2> DEFINE off == [j \in 0..0 |-> 0]
  <2>1. Len(sent) = 0 /\ Len(received) = 0 /\ Len(Stream) = 0
    <3>1. Len(bytes_read) = 0 /\ Len(wire) = 0
      BY EmptySeq
    <3> QED  BY <1>1, <1>3, <3>1, SeqTypes
  <2>2. off \in [0..Len(sent) -> Nat] /\ off[0] = 0
    BY <2>1
  <2> HIDE DEF off
  <2>3. IsOffsets(off, sent)
    BY <2>1, <2>2 DEF IsOffsets
  <2>4. Carries(Stream, sent, Len(received), off, Nobody, 0)
    BY <2>1, <2>2 DEF Carries, Holds
  <2>5. BeingWritten(Nobody, 0)
    BY DEF BeingWritten
  <2>6. 0 \in Nat /\ Nobody \in Packet \cup {Nobody}
    OBVIOUS
  <2> QED  BY <2>1, <2>2, <2>3, <2>4, <2>5, <2>6 DEF StreamInv
<1> QED  BY <1>1, <1>2, <1>3, <1>4 DEF IInv

(* Steps that move no byte keep the stream, if the packet that is being    *)
(* written stays the same or has no byte in it.                            *)
LEMMA StreamKept ==
  ASSUME StreamInv, UNCHANGED <<wire, bytes_read, sent, received, receiving>>,
         conn' # "reset" => conn # "reset",
         \A p \in Packet \cup {Nobody}, k \in Nat : BeingWritten(p, k) =>
           \E p2 \in Packet \cup {Nobody} :
             (p2 = p \/ k = 0) /\ BeingWritten(p2, k)'
  PROVE  StreamInv'
<1> SUFFICES ASSUME receiving', conn' # "reset"
             PROVE  /\ \E off \in [0..Len(sent) -> Nat],
                           p \in Packet \cup {Nobody}, k \in Nat :
                         /\ IsOffsets(off, sent)
                         /\ Carries(Stream, sent, Len(received), off, p, k)
                         /\ BeingWritten(p, k)'
                    /\ Len(received) < Len(sent) =>
                         Len(bytes_read) < FrameLen(sent[Len(received) + 1])
  BY DEF StreamInv, Stream
<1>1. PICK off \in [0..Len(sent) -> Nat], p \in Packet \cup {Nobody}, k \in Nat :
        /\ IsOffsets(off, sent)
        /\ Carries(Stream, sent, Len(received), off, p, k)
        /\ BeingWritten(p, k)
  BY DEF StreamInv
<1>2. PICK p2 \in Packet \cup {Nobody} :
        (p2 = p \/ k = 0) /\ BeingWritten(p2, k)'
  BY <1>1
<1>3. Carries(Stream, sent, Len(received), off, p2, k)
  <2>1. CASE p2 = p
    BY <1>1, <2>1
  <2>2. CASE k = 0
    <3>1. ~(k > 0) /\ \A i \in 1..k : FALSE
      BY <2>2
    <3> QED  BY <1>1, <3>1 DEF Carries, Holds
  <2> QED  BY <1>2, <2>1, <2>2
<1>4. Len(received) < Len(sent) =>
        Len(bytes_read) < FrameLen(sent[Len(received) + 1])
  BY DEF StreamInv
<1> QED  BY <1>1, <1>2, <1>3, <1>4

(* A thread makes a packet; nothing is on the way yet.                     *)
LEMMA CreateStep ==
  ASSUME IInv, NEW s \in Senders, create_header(s)
  PROVE  IInv'
<1> USE DEF IInv
<1>1. PICK n \in Lengths :
        out' = [out EXCEPT ![s] = [from |-> s, num |-> sends[s] + 1, len |-> n]]
  BY DEF create_header
<1>2. /\ pc[s] = "idle" /\ pc' = [pc EXCEPT ![s] = "lock"]
      /\ sends[s] < MaxSends /\ sends' = [sends EXCEPT ![s] = @ + 1]
      /\ UNCHANGED <<lock, bytes_sent, sent, wire, conn,
                     bytes_read, receiving, received>>
  BY DEF create_header, Goto, recvVars
<1>3. sends[s] + 1 \in 1..MaxSends /\ sends[s] + 1 \in 0..MaxSends
  BY <1>2, PacketsSizes DEF TypeOK
<1>4. [from |-> s, num |-> sends[s] + 1, len |-> n] \in Packet
  BY <1>3 DEF Packet
<1>5. TypeOK'
  BY <1>1, <1>2, <1>3, <1>4 DEF TypeOK
<1>6. SenderState'
  BY <1>1, <1>2, <1>4 DEF TypeOK, SenderState
<1>7. PrefixReceived'
  BY <1>2 DEF PrefixReceived
<1>8. ASSUME NEW p \in Packet \cup {Nobody}, NEW k \in Nat, BeingWritten(p, k)
      PROVE  BeingWritten(p, k)'
  BY <1>1, <1>2, <1>8 DEF BeingWritten, TypeOK
<1>9. StreamInv'
  BY <1>2, <1>8, StreamKept
<1> QED  BY <1>5, <1>6, <1>7, <1>9

(* It takes the lock; the packet that is being written is now its own,     *)
(* of which there are no bytes yet.                                        *)
LEMMA LockStep ==
  ASSUME IInv, NEW s \in Senders, client_send_packet(s)
  PROVE  IInv'
<1> USE DEF IInv
<1>1. /\ pc[s] = "lock" /\ pc' = [pc EXCEPT ![s] = "write"]
      /\ lock = Nobody /\ lock' = s
      /\ UNCHANGED <<out, bytes_sent, sends, sent, wire, conn,
                     bytes_read, receiving, received>>
  BY DEF client_send_packet, Goto, recvVars
<1>2. out[s] \in Packet /\ bytes_sent[s] = 0 /\ 0 < FrameLen(out[s])
  <2>1. out[s] \in Packet /\ bytes_sent[s] = 0
    BY <1>1 DEF SenderState
  <2> QED  BY <2>1, SizeFacts
<1>3. TypeOK'
  BY <1>1 DEF TypeOK
<1>4. \A t \in Senders : pc[t] \notin {"write", "unlock"}
  BY <1>1, PacketsSenders DEF SenderState
<1>5. SenderState'
  BY <1>1, <1>2, <1>4 DEF TypeOK, SenderState
<1>6. PrefixReceived'
  BY <1>1 DEF PrefixReceived
<1>7. ASSUME NEW p \in Packet \cup {Nobody}, NEW k \in Nat, BeingWritten(p, k)
      PROVE  \E p2 \in Packet \cup {Nobody} :
               (p2 = p \/ k = 0) /\ BeingWritten(p2, k)'
  <2>1. CASE conn = "up"
    <3>1. k = 0
      BY <1>4, <1>7, <2>1 DEF BeingWritten
    <3>2. PICK p2 \in Packet \cup {Nobody} : p2 = out[s]
      BY <1>2
    <3>3. BeingWritten(p2, k)'
      BY <1>1, <1>2, <1>4, <3>1, <3>2 DEF BeingWritten, TypeOK
    <3> QED  BY <3>1, <3>3
  <2>2. CASE conn # "up"
    <3>1. BeingWritten(p, k)'
      BY <1>1, <2>2 DEF BeingWritten
    <3> QED  BY <3>1
  <2> QED  BY <2>1, <2>2
<1>8. StreamInv'
  BY <1>1, <1>7, StreamKept
<1> QED  BY <1>3, <1>5, <1>6, <1>8

(* write(2) fails: the connection is not up any more, and the bytes that   *)
(* were written stay.                                                      *)
LEMMA GiveUpStep ==
  ASSUME IInv, NEW s \in Senders, WriteFails(s)
  PROVE  IInv'
<1> USE DEF IInv
<1>1. /\ pc[s] = "write" /\ pc' = [pc EXCEPT ![s] = "unlock"]
      /\ conn # "up"
      /\ UNCHANGED <<lock, out, bytes_sent, sends, sent, wire, conn,
                     bytes_read, receiving, received>>
  BY DEF WriteFails, Goto, recvVars
<1>2. TypeOK'
  BY <1>1 DEF TypeOK
<1>3. SenderState'
  BY <1>1 DEF TypeOK, SenderState
<1>4. PrefixReceived'
  BY <1>1 DEF PrefixReceived
<1>5. ASSUME NEW p \in Packet \cup {Nobody}, NEW k \in Nat, BeingWritten(p, k)
      PROVE  BeingWritten(p, k)'
  BY <1>1 DEF BeingWritten
<1>6. StreamInv'
  BY <1>1, <1>5, StreamKept
<1> QED  BY <1>2, <1>3, <1>4, <1>6

(* It gives the lock back; no packet is being written.                     *)
LEMMA UnlockStep ==
  ASSUME IInv, NEW s \in Senders, Unlock(s)
  PROVE  IInv'
<1> USE DEF IInv
<1>1. /\ pc[s] = "unlock" /\ pc' = [pc EXCEPT ![s] = "idle"]
      /\ lock' = Nobody /\ out' = [out EXCEPT ![s] = Nobody]
      /\ bytes_sent' = [bytes_sent EXCEPT ![s] = 0]
      /\ UNCHANGED <<sends, sent, wire, conn, bytes_read, receiving, received>>
  BY DEF Unlock, Goto, recvVars
<1>2. lock = s /\ \A t \in Senders : pc[t] \in {"write", "unlock"} => t = s
  BY <1>1 DEF SenderState
<1>3. TypeOK'
  BY <1>1, PacketsSizes DEF TypeOK, MaxFrame
<1>4. SenderState'
  BY <1>1, <1>2, PacketsSenders DEF TypeOK, SenderState
<1>5. PrefixReceived'
  BY <1>1 DEF PrefixReceived
<1>6. ASSUME NEW p \in Packet \cup {Nobody}, NEW k \in Nat, BeingWritten(p, k)
      PROVE  BeingWritten(p, k)'
  BY <1>1, <1>2, <1>6 DEF BeingWritten, TypeOK
<1>7. StreamInv'
  BY <1>1, <1>6, StreamKept
<1> QED  BY <1>3, <1>4, <1>5, <1>7

(* One write(2) of the thread that has the lock.                           *)
LEMMA WriteStep ==
  ASSUME IInv, NEW s \in Senders, proto_send_packet(s)
  PROVE  /\ IInv'
         /\ received' = received
         /\ conn' = conn
         /\ sent' = sent \/ \E p \in Packet : sent' = Append(sent, p)
<1> USE DEF IInv
<1> DEFINE p    == out[s]
           done == bytes_sent[s]
           st2  == bytes_read \o wire'
<1>1. /\ pc[s] = "write" /\ conn = "up"
      /\ UNCHANGED <<lock, out, sends, conn, bytes_read, receiving, received>>
  BY DEF proto_send_packet, recvVars
<1>2. PICK n \in 1..BytesLeft(p, done) :
        /\ Len(wire) + n <= Capacity
        /\ wire' = wire \o SubSeq(Frame(p), done + 1, done + n)
        /\ bytes_sent' = [bytes_sent EXCEPT ![s] = @ + n]
        /\ pc' = [pc EXCEPT ![s] =
                    IF done + n = HeaderSize + Size(p) THEN "unlock" ELSE "write"]
        /\ sent' = IF done + n = HeaderSize + Size(p) THEN Append(sent, p) ELSE sent
  BY DEF proto_send_packet, Goto
<1>3. p \in Packet /\ done \in Nat /\ done < FrameLen(p)
  BY <1>1, PacketsSizes DEF SenderState, TypeOK
<1>4. FrameLen(p) \in 1..MaxFrame /\ HeaderSize <= FrameLen(p)
      /\ MaxFrame \in Nat /\ HeaderSize \in Nat /\ FrameLen(p) = HeaderSize + Size(p)
  BY <1>3, SizeFacts, PacketsSizes DEF MaxFrame, FrameLen
<1> HIDE DEF p, done
<1>5. n \in Nat \ {0} /\ done + n <= FrameLen(p)
  <2>1. BytesLeft(p, done) =
          IF done < HeaderSize THEN HeaderSize - done ELSE FrameLen(p) - done
    <3>1. Size(p) \in Nat
      BY <1>3, SizeFacts
    <3> QED  BY <1>3, <1>4, <3>1 DEF BytesLeft
  <2>2. BytesLeft(p, done) \in Nat /\ done + BytesLeft(p, done) <= FrameLen(p)
    BY <1>3, <1>4, <2>1
  <2> QED  BY <1>3, <1>4, <2>2
<1>6. /\ wire' \in Seq(Bytes) /\ Len(wire') <= Capacity
      /\ Grown(Stream, st2, p, done, n)
  <2> DEFINE x == SubSeq(Frame(p), done + 1, done + n)
  <2>1. /\ x \in Seq(Bytes) /\ Len(x) = n
        /\ \A i \in 1..n : x[i] = <<p, done + i>>
    BY <1>3, <1>5, PieceFacts
  <2>2. wire' = wire \o x
    BY <1>2
  <2> HIDE DEF x
  <2>3. bytes_read \in Seq(Bytes) /\ wire \in Seq(Bytes)
    BY DEF TypeOK
  <2>4. wire' \in Seq(Bytes) /\ Len(wire') = Len(wire) + n
    BY <2>1, <2>2, <2>3, ConcatProperties
  <2>5. Grown(Stream, st2, p, done, n)
    <3>1. Extended(bytes_read \o wire, bytes_read \o (wire \o x), x)
      BY <2>1, <2>3, StreamWritten
    <3>2. Stream = bytes_read \o wire /\ st2 = bytes_read \o (wire \o x)
      BY <2>2 DEF Stream
    <3> HIDE DEF st2
    <3>3. Extended(Stream, st2, x)
      BY <3>1, <3>2
    <3> QED  BY <2>1, <3>3 DEF Extended, Grown
  <2> QED  BY <1>2, <2>4, <2>5
<1>7. sent' = sent \/ sent' = Append(sent, p)
  BY <1>2
<1>8. TypeOK'
  <2>1. sent' \in Seq(Packet)
    <3>1. sent \in Seq(Packet)
      BY DEF TypeOK
    <3> QED  BY <1>3, <1>7, <3>1, AppendProperties
  <2>2. bytes_sent' \in [Senders -> 0..MaxFrame]
    <3>1. done + n \in 0..MaxFrame
      BY <1>3, <1>4, <1>5
    <3> QED  BY <1>2, <3>1 DEF TypeOK, done
  <2>3. pc' \in [Senders -> {"idle", "lock", "write", "unlock"}]
    BY <1>2 DEF TypeOK
  <2> QED  BY <1>1, <1>6, <2>1, <2>2, <2>3 DEF TypeOK
<1>9. /\ lock = s
      /\ \A t \in Senders \ {s} :
           /\ pc[t] \notin {"write", "unlock"} /\ pc'[t] = pc[t]
           /\ bytes_sent'[t] = bytes_sent[t]
  BY <1>1, <1>2 DEF SenderState, TypeOK
<1>10. /\ bytes_sent'[s] = done + n
       /\ pc'[s] = IF done + n = FrameLen(p) THEN "unlock" ELSE "write"
  BY <1>2, <1>4 DEF TypeOK, done
<1>11. SenderState'
  <2>1. ASSUME NEW t \in Senders, t # s
        PROVE  /\ pc'[t] \in {"write", "unlock"} <=> lock' = t
               /\ pc'[t] # "idle" => out'[t] \in Packet
               /\ pc'[t] \in {"idle", "lock"} => bytes_sent'[t] = 0
               /\ pc'[t] = "write" => bytes_sent'[t] < FrameLen(out'[t])
    BY <1>1, <1>9, <2>1 DEF SenderState
  <2>2. /\ pc'[s] \in {"write", "unlock"} <=> lock' = s
        /\ pc'[s] # "idle" => out'[s] \in Packet
        /\ pc'[s] \in {"idle", "lock"} => bytes_sent'[s] = 0
    BY <1>1, <1>3, <1>9, <1>10 DEF p
  <2>3. pc'[s] = "write" => bytes_sent'[s] < FrameLen(out'[s])
    <3> SUFFICES ASSUME pc'[s] = "write"  PROVE done + n < FrameLen(p)
      BY <1>1, <1>10 DEF p
    <3> QED  BY <1>3, <1>4, <1>5, <1>10
  <2> QED  BY <2>1, <2>2, <2>3 DEF SenderState
<1>12. /\ Len(sent) \in Nat /\ sent \in Seq(Packet)
       /\ Len(received) \in 0..Len(sent) /\ Len(bytes_read) \in Nat
       /\ Len(Stream) = Len(bytes_read) + Len(wire) /\ Len(wire) \in Nat
  BY SeqTypes
<1>13. /\ Len(sent') = Len(sent) \/ Len(sent') = Len(sent) + 1
       /\ \A i \in 1..Len(sent) : sent'[i] = sent[i]
  BY <1>3, <1>7, <1>12, AppendProperties
<1>14. PrefixReceived'
  <2>1. Len(received) <= Len(sent')
    BY <1>12, <1>13
  <2>2. ASSUME NEW i \in 1..Len(received)  PROVE received[i] = Cut(sent'[i])
    <3>1. i \in 1..Len(sent) /\ received[i] = Cut(sent[i])
      BY <1>12 DEF PrefixReceived
    <3> QED  BY <1>13, <3>1
  <2> QED  BY <1>1, <2>1, <2>2 DEF PrefixReceived
<1>15. ASSUME receiving
       PROVE  /\ \E off \in [0..Len(sent') -> Nat],
                     q \in Packet \cup {Nobody}, k \in Nat :
                   /\ IsOffsets(off, sent')
                   /\ Carries(st2, sent', Len(received), off, q, k)
                   /\ BeingWritten(q, k)'
              /\ Len(received) < Len(sent') =>
                   Len(bytes_read) < FrameLen(sent'[Len(received) + 1])
  <2>1. PICK off \in [0..Len(sent) -> Nat], q \in Packet \cup {Nobody}, k \in Nat :
          /\ IsOffsets(off, sent)
          /\ Carries(Stream, sent, Len(received), off, q, k)
          /\ BeingWritten(q, k)
    BY <1>1, <1>15 DEF StreamInv
  <2>2. q = p /\ k = done
    BY <1>1, <2>1 DEF BeingWritten, p, done
  <2>3. Carries(Stream, sent, Len(received), off, p, done)
    BY <2>1, <2>2
  <2>4. CASE done + n = FrameLen(p)
    <3>1. sent' = Append(sent, p)
      BY <1>2, <1>4, <2>4
    <3>2. PICK off2 \in [0..Len(sent') -> Nat] :
            /\ IsOffsets(off2, sent')
            /\ Carries(st2, sent', Len(received), off2, Nobody, 0)
      <4> HIDE DEF st2
      <4>1. n \in Nat
        BY <1>5
      <4> QED  BY <1>3, <1>6, <1>12, <2>1, <2>3, <2>4, <3>1, <4>1, CarriesSent
    <3>3. BeingWritten(Nobody, 0)'
      <4>1. \A t \in Senders : pc'[t] # "write"
        BY <1>9, <1>10, <2>4
      <4> QED  BY <4>1 DEF BeingWritten
    <3>4. Len(received) < Len(sent') =>
            Len(bytes_read) < FrameLen(sent'[Len(received) + 1])
      <4>1. CASE Len(received) < Len(sent)
        <5>1. Len(received) + 1 \in 1..Len(sent)
          BY <1>12, <4>1
        <5>2. Len(bytes_read) < FrameLen(sent[Len(received) + 1])
          BY <1>1, <1>15, <4>1 DEF StreamInv
        <5> QED  BY <1>13, <5>1, <5>2
      <4>2. CASE ~(Len(received) < Len(sent))
        <5>1. Len(received) = Len(sent)
          BY <1>12, <4>2
        <5>2. sent'[Len(received) + 1] = p
          BY <1>3, <1>12, <3>1, <5>1, AppendProperties
        <5>3. off[Len(sent)] \in Nat
          BY <1>12
        <5>4. Len(Stream) = off[Len(sent)] - off[Len(sent)] + done
          BY <2>3, <5>1 DEF Carries, Holds
        <5>5. Len(Stream) = done
          BY <1>3, <5>3, <5>4
        <5>6. Len(bytes_read) < FrameLen(p)
          BY <1>3, <1>4, <1>12, <5>5
        <5> QED  BY <5>2, <5>6
      <4> QED  BY <4>1, <4>2
    <3>5. 0 \in Nat /\ Nobody \in Packet \cup {Nobody}
      OBVIOUS
    <3> QED  BY <3>2, <3>3, <3>4, <3>5
  <2>5. CASE done + n # FrameLen(p)
    <3>1. sent' = sent
      BY <1>2, <1>4, <2>5
    <3>2. Carries(st2, sent, Len(received), off, q, k + n)
      <4> HIDE DEF st2
      <4>1. n \in Nat
        BY <1>5
      <4>3. done + n < FrameLen(p)
        BY <1>3, <1>4, <1>5, <2>5
      <4> QED  BY <1>3, <1>6, <1>12, <2>1, <2>2, <4>1, <4>3, CarriesMore
    <3>3. BeingWritten(q, k + n)'
      <4>1. pc'[s] = "write" /\ out'[s] = p
        BY <1>1, <1>10, <2>5 DEF p
      <4>2. \A r \in Senders :
              pc'[r] = "write" => q = out'[r] /\ k + n = bytes_sent'[r]
        BY <1>9, <1>10, <2>2, <4>1
      <4> QED  BY <4>1, <4>2 DEF BeingWritten
    <3>4. Len(received) < Len(sent) =>
            Len(bytes_read) < FrameLen(sent[Len(received) + 1])
      BY <1>1, <1>15 DEF StreamInv
    <3>5. k + n \in Nat
      BY <1>5
    <3> QED  BY <2>1, <3>1, <3>2, <3>3, <3>4, <3>5
  <2> QED  BY <2>4, <2>5
<1>16. StreamInv'
  <2>1. Stream' = st2
    BY <1>1 DEF Stream
  <2> HIDE DEF st2
  <2> QED  BY <1>1, <1>15, <2>1 DEF StreamInv
<1> QED  BY <1>1, <1>3, <1>7, <1>8, <1>11, <1>14, <1>16

(* What the receiver makes of the first bytes of a packet: it asks for no  *)
(* byte that is not of that packet, and stops with the last of them.       *)
LEMMA ReadFacts ==
  ASSUME NEW q \in Packet, NEW r \in Seq(Bytes),
         Begins(r, q, Len(r)), Len(r) <= FrameLen(q)
  PROVE  /\ Len(r) + Missing(r) <= FrameLen(q) /\ Missing(r) \in Nat
         /\ Len(r) >= HeaderSize => Header(r) = q
         /\ Len(r) >= HeaderSize /\ Missing(r) = 0 <=> Len(r) = FrameLen(q)
<1>1. /\ HeaderSize \in Nat \ {0} /\ Len(r) \in Nat /\ Size(q) \in Nat
      /\ FrameLen(q) \in Nat /\ HeaderSize <= FrameLen(q)
      /\ FrameLen(q) = HeaderSize + Size(q)
  BY PacketsSizes, LenProperties, SizeFacts DEF FrameLen
<1>2. ASSUME Len(r) >= HeaderSize  PROVE Header(r) = q
  <2>1. HeaderSize \in 1..Len(r)
    BY <1>1, <1>2
  <2>2. r[HeaderSize] = <<q, HeaderSize>>
    BY <2>1 DEF Begins
  <2> QED  BY <2>2 DEF Header
<1>3. CASE Len(r) < HeaderSize
  <2>1. Missing(r) = HeaderSize - Len(r)
    BY <1>3 DEF Missing
  <2> HIDE DEF FrameLen
  <2> QED  BY <1>1, <1>3, <2>1
<1>4. CASE ~(Len(r) < HeaderSize)
  <2>1. Len(r) >= HeaderSize
    BY <1>1, <1>4
  <2>2. Missing(r) = HeaderSize + Size(q) - Len(r)
    BY <1>2, <1>4, <2>1 DEF Missing, BytesLeft
  <2>3. Missing(r) = FrameLen(q) - Len(r)
    BY <1>1, <2>2
  <2> QED  BY <1>1, <1>2, <2>1, <2>3
<1> QED  BY <1>3, <1>4

(* What proto_recv_packet has at hand after a read(2) are the first bytes  *)
(* of the next packet that was sent, or of the one that is being written,  *)
(* and not all of the latter.                                              *)
LEMMA ReadsOnePacket ==
  ASSUME IInv, receiving, conn # "reset",
         NEW n \in 1..Len(wire), n <= Missing(bytes_read)
  PROVE  LET bytes == bytes_read \o SubSeq(wire, 1, n)
         IN  \E q \in Packet :
               /\ Begins(bytes, q, Len(bytes))
               /\ Len(bytes) <= FrameLen(q)
               /\ Len(bytes) = FrameLen(q) => Len(received) < Len(sent)
               /\ Len(received) < Len(sent) => q = sent[Len(received) + 1]
<1> USE DEF IInv
<1> DEFINE bytes == bytes_read \o SubSeq(wire, 1, n)
           N     == Len(received)
<1>1. /\ sent \in Seq(Packet) /\ Len(sent) \in Nat /\ N \in 0..Len(sent)
      /\ bytes_read \in Seq(Bytes) /\ Len(bytes_read) \in Nat
      /\ wire \in Seq(Bytes) /\ Len(wire) \in Nat
      /\ Stream \in Seq(Bytes) /\ Len(Stream) = Len(bytes_read) + Len(wire)
  BY SeqTypes
<1>2. /\ bytes \in Seq(Bytes) /\ Len(bytes) = Len(bytes_read) + n
      /\ \A i \in 1..Len(bytes) : bytes[i] = Stream[i]
  <2> HIDE DEF IInv, bytes
  <2>1. bytes = bytes_read \o SubSeq(wire, 1, n)
    BY DEF bytes
  <2> QED  BY <1>1, <2>1, BytesRead DEF Stream
<1>3. \A i \in 1..Len(bytes_read) : bytes_read[i] = Stream[i]
  BY <1>1, ConcatProperties DEF Stream
<1>4. PICK off \in [0..Len(sent) -> Nat], p \in Packet \cup {Nobody}, k \in Nat :
        /\ IsOffsets(off, sent)
        /\ Carries(Stream, sent, N, off, p, k)
        /\ BeingWritten(p, k)
  BY DEF StreamInv
<1> HIDE DEF bytes
<1>5. CASE N < Len(sent)
  <2> DEFINE q == sent[N + 1]
  <2>1. N + 1 \in 1..Len(sent) /\ q \in Packet
    BY <1>1, <1>5, ElementOfSeq
  <2>2. FrameLen(q) \in Nat
    BY <2>1, SizeFacts
  <2>3. Begins(Stream, q, FrameLen(q))
    BY <1>1, <1>4, <1>5, FirstFrame
  <2>4. Len(bytes_read) < FrameLen(q)
    BY <1>5 DEF StreamInv
  <2> HIDE DEF q
  <2>5. Begins(bytes_read, q, Len(bytes_read))
    BY <1>1, <1>3, <2>2, <2>3, <2>4 DEF Begins
  <2>6. /\ Len(bytes_read) + Missing(bytes_read) <= FrameLen(q)
        /\ Missing(bytes_read) \in Nat
    BY <1>1, <2>1, <2>2, <2>4, <2>5, ReadFacts
  <2>7. Len(bytes) <= FrameLen(q)
    BY <1>1, <1>2, <2>2, <2>6
  <2>8. Begins(bytes, q, Len(bytes))
    <3>1. Len(bytes) \in Nat
      BY <1>2, LenProperties
    <3> QED  BY <1>2, <2>2, <2>3, <2>7, <3>1 DEF Begins
  <2> QED  BY <1>5, <2>1, <2>7, <2>8 DEF q, bytes
<1>6. CASE ~(N < Len(sent))
  <2>1. N = Len(sent) /\ off[N] \in Nat
    BY <1>1, <1>6
  <2>2. /\ Len(Stream) = off[Len(sent)] - off[N] + k
        /\ \A i \in 1..k : Stream[off[Len(sent)] - off[N] + i] = <<p, i>>
        /\ k > 0 => p \in Packet /\ k < FrameLen(p)
    BY <1>4 DEF Carries, Holds
  <2>3. Len(Stream) = k /\ \A i \in 1..k : Stream[i] = <<p, i>>
    <3>1. off[Len(sent)] - off[N] + k = k
      BY <2>1
    <3>2. ASSUME NEW i \in 1..k  PROVE off[Len(sent)] - off[N] + i = i
      BY <2>1
    <3> QED  BY <2>2, <3>1, <3>2
  <2>4. Len(bytes) \in Nat /\ Len(bytes) <= k /\ k > 0
    BY <1>1, <1>2, <2>3
  <2>5. p \in Packet /\ k < FrameLen(p) /\ FrameLen(p) \in Nat
    BY <2>2, <2>4, SizeFacts
  <2>6. Begins(bytes, p, Len(bytes))
    BY <1>2, <2>3, <2>4 DEF Begins
  <2>7. Len(bytes) < FrameLen(p)
    BY <2>4, <2>5
  <2>8. Len(bytes) <= FrameLen(p) /\ Len(bytes) # FrameLen(p)
    BY <2>4, <2>5, <2>7
  <2> QED  BY <1>6, <2>5, <2>6, <2>8 DEF bytes
<1> QED  BY <1>5, <1>6

(* One read(2) of proto_recv_packet.                                       *)
LEMMA ReadStep ==
  ASSUME IInv, proto_recv_packet
  PROVE  /\ IInv'
         /\ sent' = sent /\ conn' = conn
         /\ \/ received' = received
            \/ /\ conn # "reset"
               /\ Len(received) < Len(sent)
               /\ received' = Append(received, Cut(sent[Len(received) + 1]))
<1> USE DEF IInv
<1>1. /\ receiving /\ conn # "reset"
      /\ UNCHANGED <<receiving, conn, lock, pc, out, bytes_sent, sends, sent>>
  BY DEF proto_recv_packet, sendVars
<1>2. PICK n \in 1..Len(wire) :
        LET bytes == bytes_read \o SubSeq(wire, 1, n)
        IN  /\ n <= Missing(bytes_read)
            /\ IF Len(bytes) >= HeaderSize /\ Missing(bytes) = 0
                 THEN /\ received' = Append(received,
                           IF bytes = Frame(Header(bytes))
                             THEN Cut(Header(bytes)) ELSE Garbage)
                      /\ bytes_read' = <<>>
                 ELSE /\ bytes_read' = bytes
                      /\ UNCHANGED received
            /\ wire' = SubSeq(wire, n + 1, Len(wire))
  BY DEF proto_recv_packet
<1> DEFINE bytes == bytes_read \o SubSeq(wire, 1, n)
           rest  == SubSeq(wire, n + 1, Len(wire))
           N     == Len(received)
<1>3. /\ sent \in Seq(Packet) /\ Len(sent) \in Nat /\ N \in 0..Len(sent)
      /\ bytes_read \in Seq(Bytes) /\ Len(bytes_read) \in Nat
      /\ wire \in Seq(Bytes) /\ Len(wire) \in Nat
      /\ Stream \in Seq(Bytes) /\ Len(Stream) = Len(bytes_read) + Len(wire)
      /\ received \in Seq(Arrivals)
  BY SeqTypes DEF TypeOK
<1>4. /\ bytes \in Seq(Bytes) /\ Len(bytes) = Len(bytes_read) + n
      /\ rest \in Seq(Bytes) /\ Len(rest) = Len(wire) - n
      /\ \A i \in 1..Len(rest) : rest[i] = Stream[Len(bytes) + i]
      /\ bytes \o rest = Stream
  <2>1. bytes \in Seq(Bytes) /\ Len(bytes) = Len(bytes_read) + n
    BY <1>3, StreamRead
  <2>2. rest \in Seq(Bytes) /\ Len(rest) = Len(wire) - n
    BY <1>3, StreamRead
  <2>3. \A i \in 1..Len(rest) : rest[i] = (bytes_read \o wire)[Len(bytes) + i]
    BY <1>3, StreamRead
  <2>4. bytes \o rest = bytes_read \o wire
    BY <1>3, ReadKeepsStream
  <2> HIDE DEF bytes, rest
  <2> QED  BY <2>1, <2>2, <2>3, <2>4 DEF Stream
<1>5. PICK q \in Packet :
        /\ Begins(bytes, q, Len(bytes))
        /\ Len(bytes) <= FrameLen(q)
        /\ Len(bytes) = FrameLen(q) => N < Len(sent)
        /\ N < Len(sent) => q = sent[N + 1]
  BY <1>1, <1>2, ReadsOnePacket
<1>6. /\ Len(bytes) >= HeaderSize => Header(bytes) = q
      /\ Len(bytes) >= HeaderSize /\ Missing(bytes) = 0
           <=> Len(bytes) = FrameLen(q)
  BY <1>4, <1>5, ReadFacts
<1>7. wire' = rest /\ wire' \in Seq(Bytes) /\ Len(wire') <= Capacity
  <2>1. wire' = rest
    BY <1>2
  <2>2. Len(wire) <= Capacity /\ Capacity \in Nat
    BY PacketsSizes DEF TypeOK
  <2>3. Len(rest) <= Capacity
    BY <1>3, <1>4, <2>2
  <2> HIDE DEF rest
  <2> QED  BY <1>4, <2>1, <2>3
<1>8. PICK off \in [0..Len(sent) -> Nat], p \in Packet \cup {Nobody}, k \in Nat :
        /\ IsOffsets(off, sent)
        /\ Carries(Stream, sent, N, off, p, k)
        /\ BeingWritten(p, k)
  BY <1>1 DEF StreamInv
<1>9. BeingWritten(p, k)'
  BY <1>1, <1>8 DEF BeingWritten
<1>10. SenderState'
  BY <1>1 DEF SenderState
<1>11. FrameLen(q) \in Nat
  BY SizeFacts
<1>12. CASE Len(bytes) = FrameLen(q)
  <2>1. N < Len(sent) /\ q = sent[N + 1]
    BY <1>5, <1>12
  <2>2. bytes = Frame(q)
    <3>1. /\ Frame(q) \in Seq(Bytes) /\ Len(Frame(q)) = FrameLen(q)
          /\ \A i \in 1..FrameLen(q) : Frame(q)[i] = <<q, i>>
      BY FrameFacts
    <3> HIDE DEF bytes
    <3> QED  BY <1>4, <1>5, <1>12, <3>1, SeqEqual DEF Begins
  <2>3. received' = Append(received, Cut(q)) /\ bytes_read' = <<>>
    <3>1. Len(bytes) >= HeaderSize /\ Missing(bytes) = 0 /\ Header(bytes) = q
      BY <1>6, <1>12
    <3> QED  BY <1>2, <2>2, <3>1
  <2>4. /\ received' \in Seq(Arrivals) /\ Len(received') = N + 1
        /\ \A i \in 1..N : received'[i] = received[i]
        /\ received'[N + 1] = Cut(q)
    <3>1. Cut(q) \in Arrivals
      BY CutFacts
    <3> QED  BY <1>3, <2>3, <3>1, AppendProperties
  <2>5. TypeOK'
    <3>1. bytes_read' \in Seq(Bytes)
      BY <2>3, EmptySeq
    <3> QED  BY <1>1, <1>7, <2>4, <3>1 DEF TypeOK
  <2>6. PrefixReceived'
    <3>1. N + 1 <= Len(sent)
      BY <1>3, <2>1
    <3>2. ASSUME NEW i \in 1..(N + 1)  PROVE received'[i] = Cut(sent[i])
      <4>1. i = N + 1 \/ i \in 1..N
        BY <1>3
      <4> QED  BY <2>1, <2>4, <4>1 DEF PrefixReceived
    <3> QED  BY <1>1, <2>4, <3>1, <3>2 DEF PrefixReceived
  <2>7. Stream' = rest
    <3> HIDE DEF rest
    <3>1. Stream' = <<>> \o rest
      BY <1>7, <2>3 DEF Stream
    <3> QED  BY <1>4, <3>1, ConcatEmptySeq
  <2>8. Dropped(Stream, rest, FrameLen(sent[N + 1]))
    <3> HIDE DEF rest, bytes, N
    <3>1. Len(rest) = Len(Stream) - Len(bytes)
      BY <1>3, <1>4
    <3> QED  BY <1>4, <1>12, <2>1, <3>1 DEF Dropped
  <2>9. Carries(rest, sent, N + 1, off, p, k)
    <3> HIDE DEF rest, bytes
    <3> QED  BY <1>3, <1>8, <2>1, <2>8, CarriesNext
  <2>10. N + 1 < Len(sent) => 0 < FrameLen(sent[N + 1 + 1])
    <3> SUFFICES ASSUME N + 1 < Len(sent)  PROVE 0 < FrameLen(sent[N + 1 + 1])
      OBVIOUS
    <3>1. N + 1 + 1 \in 1..Len(sent)
      BY <1>3
    <3>2. sent[N + 1 + 1] \in Packet
      BY <1>3, <3>1, ElementOfSeq
    <3> QED  BY <3>2, SizeFacts
  <2>11. StreamInv'
    <3>1. Len(bytes_read') = 0
      BY <2>3, EmptySeq
    <3>2. /\ IsOffsets(off, sent')
          /\ Carries(Stream', sent', Len(received'), off, p, k)
          /\ off \in [0..Len(sent') -> Nat]
      <4> HIDE DEF rest, N
      <4> QED  BY <1>1, <1>8, <2>4, <2>7, <2>9
    <3>3. Len(received') < Len(sent') =>
            Len(bytes_read') < FrameLen(sent'[Len(received') + 1])
      <4> HIDE DEF N
      <4> QED  BY <1>1, <2>4, <2>10, <3>1
    <3> QED  BY <1>9, <3>2, <3>3 DEF StreamInv
  <2> QED  BY <1>1, <1>10, <2>1, <2>3, <2>5, <2>6, <2>11
<1>13. CASE Len(bytes) # FrameLen(q)
  <2>1. bytes_read' = bytes /\ received' = received
    BY <1>2, <1>6, <1>13
  <2>2. TypeOK'
    BY <1>1, <1>4, <1>7, <2>1 DEF TypeOK
  <2>3. PrefixReceived'
    BY <1>1, <2>1 DEF PrefixReceived
  <2>4. Stream' = Stream
    BY <1>4, <1>7, <2>1 DEF Stream
  <2>5. N < Len(sent) => Len(bytes) < FrameLen(sent[N + 1])
    <3>1. Len(bytes) \in Nat
      BY <1>4, LenProperties
    <3> HIDE DEF bytes
    <3> QED  BY <1>5, <1>11, <1>13, <3>1
  <2>6. StreamInv'
    <3>1. /\ IsOffsets(off, sent')
          /\ Carries(Stream', sent', Len(received'), off, p, k)
          /\ off \in [0..Len(sent') -> Nat]
      BY <1>1, <1>8, <2>1, <2>4
    <3>2. Len(received') < Len(sent') =>
            Len(bytes_read') < FrameLen(sent'[Len(received') + 1])
      BY <1>1, <2>1, <2>5
    <3> QED  BY <1>9, <3>1, <3>2 DEF StreamInv
  <2> QED  BY <1>1, <1>10, <2>1, <2>2, <2>3, <2>6
<1> QED  BY <1>12, <1>13

(* The receiver gives up, or the connection ends.                          *)
LEMMA EndStep ==
  ASSUME IInv, RecvFails \/ Shut \/ Reset
  PROVE  IInv'
<1> USE DEF IInv
<1>1. CASE RecvFails
  <2>1. /\ receiving' = FALSE /\ bytes_read' = <<>>
        /\ UNCHANGED <<received, lock, pc, out, bytes_sent, sends, sent, wire, conn>>
    BY <1>1 DEF RecvFails, sendVars
  <2>2. TypeOK'
    <3>1. bytes_read' \in Seq(Bytes)
      BY <2>1, EmptySeq
    <3> QED  BY <2>1, <3>1 DEF TypeOK
  <2> QED  BY <2>1, <2>2 DEF SenderState, PrefixReceived, StreamInv
<1>2. CASE Shut
  <2>1. /\ conn = "up" /\ conn' = "shut"
        /\ UNCHANGED <<received, receiving, bytes_read, wire,
                       lock, pc, out, bytes_sent, sends, sent>>
    BY <1>2 DEF Shut, sendVars, recvVars
  <2>2. TypeOK' /\ SenderState' /\ PrefixReceived'
    BY <2>1 DEF TypeOK, SenderState, PrefixReceived
  <2>3. ASSUME NEW p \in Packet \cup {Nobody}, NEW k \in Nat, BeingWritten(p, k)
        PROVE  BeingWritten(p, k)'
    BY <2>1 DEF BeingWritten
  <2>4. StreamInv'
    BY <2>1, <2>3, StreamKept
  <2> QED  BY <2>2, <2>4
<1>3. CASE Reset
  <2>1. /\ conn' = "reset" /\ wire' = <<>>
        /\ UNCHANGED <<received, receiving, bytes_read,
                       lock, pc, out, bytes_sent, sends, sent>>
    BY <1>3 DEF Reset, sendVars, recvVars
  <2>2. TypeOK'
    <3>1. wire' \in Seq(Bytes) /\ Len(wire') <= Capacity
      BY <2>1, EmptySeq, PacketsSizes
    <3> QED  BY <2>1, <3>1 DEF TypeOK
  <2> QED  BY <2>1, <2>2 DEF SenderState, PrefixReceived, StreamInv
<1> QED  BY <1>1, <1>2, <1>3

(* A step of other variables changes nothing here.                         *)
LEMMA StutterStep ==
  ASSUME IInv, UNCHANGED vars
  PROVE  IInv'
<1>1. UNCHANGED <<lock, pc, out, bytes_sent, sends, sent, bytes_read,
                  receiving, received, wire, conn>>
  BY DEF vars, sendVars, recvVars
<1>2. StreamInv'
  <2>1. ASSUME NEW p \in Packet \cup {Nobody}, NEW k \in Nat, BeingWritten(p, k)
        PROVE  BeingWritten(p, k)'
    BY <1>1, <2>1 DEF BeingWritten
  <2> QED  BY <1>1, <2>1, StreamKept DEF IInv
<1> QED  BY <1>1, <1>2 DEF IInv, TypeOK, SenderState, PrefixReceived

(* Every step keeps the invariant.                                         *)
LEMMA NextIInv == IInv /\ [Next]_vars => IInv'
<1> SUFFICES ASSUME IInv, [Next]_vars  PROVE IInv'
  OBVIOUS
<1>1. ASSUME NEW s \in Senders, create_header(s)  PROVE IInv'
  BY <1>1, CreateStep
<1>2. ASSUME NEW s \in Senders, Send(s)  PROVE IInv'
  BY <1>2, LockStep, WriteStep, GiveUpStep, UnlockStep DEF Send
<1>3. CASE Receive
  BY <1>3, ReadStep, EndStep DEF Receive
<1>4. CASE Shut \/ Reset
  BY <1>4, EndStep
<1>5. CASE Ended \/ UNCHANGED vars
  BY <1>5, StutterStep DEF Ended
<1> QED  BY <1>1, <1>2, <1>3, <1>4, <1>5 DEF Next

(* What holds in every state of Packets.                                   *)
THEOREM PacketsInvariant == Spec => []IInv
  BY InitIInv, NextIInv, PTL DEF Spec

(* The state of a connection always has its type; among other things the   *)
(* socket never holds more than it can, and bytes_sent and the size field  *)
(* stay within the frame.                                                  *)
THEOREM PacketsTypeCorrect == Spec => []TypeOK
<1>1. IInv => TypeOK
  BY DEF IInv
<1> QED  BY <1>1, PacketsInvariant, PTL

(* The packets received are the first ones sent, and those whose length    *)
(* the size field holds are received as they were sent.                    *)
InOrderAndWhole ==
  /\ PrefixReceived
  /\ \A i \in 1..Len(received) :
       sent[i].len < SizeMod => received[i] = sent[i]

(* proto_recv_packet never returns bytes of two packets as one, a packet   *)
(* twice or a packet out of its turn, and cuts no payload that the size    *)
(* field can tell, whatever other payloads are cut before it.              *)
THEOREM ReceivedInOrder == Spec => []InOrderAndWhole
<1>1. ASSUME IInv  PROVE InOrderAndWhole
  <2>1. ASSUME NEW i \in 1..Len(received), sent[i].len < SizeMod
        PROVE  received[i] = sent[i]
    <3>1. received[i] = Cut(sent[i]) /\ i \in 1..Len(sent)
      BY <1>1, SeqTypes DEF IInv, PrefixReceived
    <3>2. sent[i] \in Packet
      BY <1>1, <3>1, ElementOfSeq DEF IInv, TypeOK
    <3> QED  BY <2>1, <3>1, <3>2, CutFacts
  <2> QED  BY <1>1, <2>1 DEF IInv, InOrderAndWhole
<1> QED  BY <1>1, PacketsInvariant, PTL

(* client_send_packet and proto_recv_packet together are a channel:        *)
(* packets that several threads write in pieces to one connection arrive   *)
(* each once and in order, with the payload that their size field tells.   *)
THEOREM PacketsImplementChannel == Spec => ImplementsChannel
<1>1. Init => Channel!Init
  BY DEF Init, Channel!Init
<1>2. ASSUME IInv, [Next]_vars  PROVE [Channel!Next]_(Channel!vars)
  <2> DEFINE Same == UNCHANGED <<sent, received, conn>>
  <2>1. CASE Same
    BY <2>1 DEF Channel!vars
  <2>2. ASSUME NEW s \in Senders, create_header(s) \/ Send(s)
        PROVE  [Channel!Next]_(Channel!vars)
    <3>1. CASE proto_send_packet(s)
      <4>1. /\ received' = received /\ conn' = conn
            /\ sent' = sent \/ \E p \in Packet : sent' = Append(sent, p)
        BY <1>2, <3>1, WriteStep
      <4> QED  BY <4>1 DEF Channel!Next, Channel!Send, Channel!vars
    <3>2. CASE ~proto_send_packet(s)
      <4>1. Same
        BY <2>2, <3>2 DEF create_header, Send, client_send_packet, WriteFails,
                          Unlock, recvVars
      <4> QED  BY <2>1, <4>1
    <3> QED  BY <3>1, <3>2
  <2>3. CASE proto_recv_packet
    <3>1. /\ sent' = sent /\ conn' = conn
          /\ \/ received' = received
             \/ /\ conn # "reset"
                /\ Len(received) < Len(sent)
                /\ received' = Append(received, Cut(sent[Len(received) + 1]))
      BY <1>2, <2>3, ReadStep
    <3> QED  BY <3>1 DEF Channel!Next, Channel!Receive, Channel!vars
  <2>4. CASE RecvFails \/ Shut
    <3>1. UNCHANGED <<sent, received>> /\ (conn' # "reset" <=> conn # "reset")
      BY <2>4 DEF RecvFails, Shut, sendVars, recvVars
    <3> QED  BY <3>1 DEF Channel!vars
  <2>5. CASE Reset
    BY <2>5 DEF Reset, sendVars, recvVars, Channel!Next, Channel!Lose
  <2>6. CASE Ended \/ UNCHANGED vars
    BY <2>1, <2>6 DEF Ended, vars, sendVars, recvVars
  <2> QED  BY <1>2, <2>2, <2>3, <2>4, <2>5, <2>6 DEF Next, Receive
<1> QED  BY <1>1, <1>2, PacketsInvariant, PTL
         DEF Spec, ImplementsChannel, Channel!Spec
=============================================================================
