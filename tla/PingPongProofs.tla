--------------------------- MODULE PingPongProofs ---------------------------
(***************************************************************************)
(* Proofs about module PingPong, for messages of any length, connections   *)
(* of any capacity and any number of rounds.                               *)
(***************************************************************************)
EXTENDS PingPong, SequenceTheorems, TLAPS

\* Nothing has moved.
LEMMA MovedNothing ==
  ASSUME NEW a \in Seq(Bytes), NEW c \in Seq(Bytes), NEW r, Moved(a, c, r, 0)
  PROVE  Len(a) = 0 /\ Len(c) = 0 /\ c = <<>>
<1>1. Len(a) \in Nat /\ Len(c) \in Nat  BY LenProperties
<1>2. Len(a) = 0 /\ Len(c) = 0  BY <1>1 DEF Moved
<1> QED BY <1>2, EmptySeq

\* A new message, before its first byte: the round does not matter.
LEMMA MovedNew ==
  ASSUME NEW a \in Seq(Bytes), NEW c \in Seq(Bytes), NEW r, Len(a) = 0, Len(c) = 0
  PROVE  Moved(a, c, r, 0)
BY DEF Moved, Stretch

\* read(2) of k bytes takes them from the connection to the buffer.
LEMMA MovedRead ==
  ASSUME NEW a \in Seq(Bytes), NEW c \in Seq(Bytes), NEW r, NEW n, Moved(a, c, r, n),
         NEW k \in Nat, k <= Len(c)
  PROVE  LET a2 == a \o SubSeq(c, 1, k)
             c2 == SubSeq(c, k + 1, Len(c))
         IN  /\ a2 \in Seq(Bytes) /\ c2 \in Seq(Bytes)
             /\ Len(a2) = Len(a) + k /\ Len(c2) = Len(c) - k
             /\ Moved(a2, c2, r, n)
<1> DEFINE b == SubSeq(c, 1, k)
           a2 == a \o b
           c2 == SubSeq(c, k + 1, Len(c))
<1>1. Len(a) \in Nat /\ Len(c) \in Nat  BY LenProperties
<1>2. \A i \in 1 .. Len(c) : c[i] \in Bytes  BY ElementOfSeq
<1>3. b \in Seq(Bytes) /\ Len(b) = k /\ \A i \in 1 .. k : b[i] = c[i]
  <2>1. \A i \in 1 .. k : c[i] \in Bytes  BY <1>1, <1>2
  <2> QED BY <1>1, <2>1, SubSeqProperties
<1>4. /\ c2 \in Seq(Bytes) /\ Len(c2) = Len(c) - k
      /\ \A i \in 1 .. Len(c) - k : c2[i] = c[k + i]
  <2>1. \A i \in k + 1 .. Len(c) : c[i] \in Bytes  BY <1>1, <1>2
  <2>2. /\ c2 \in Seq(Bytes)
        /\ Len(c2) = IF k + 1 <= Len(c) THEN Len(c) - (k + 1) + 1 ELSE 0
        /\ \A i \in 1 .. Len(c) - (k + 1) + 1 : c2[i] = c[(k + 1) + i - 1]
    BY <1>1, <2>1, SubSeqProperties
  <2> QED BY <1>1, <2>2
<1>5. /\ a2 \in Seq(Bytes) /\ Len(a2) = Len(a) + k
      /\ \A i \in 1 .. Len(a) + k : a2[i] = IF i <= Len(a) THEN a[i] ELSE b[i - Len(a)]
  BY <1>3, ConcatProperties
<1> HIDE DEF b, a2, c2
<1>6. Stretch(a2, r, 0)
  <2> SUFFICES ASSUME NEW i \in 1 .. Len(a) + k PROVE  a2[i] = <<r, 0 + i>>
    BY <1>5 DEF Stretch
  <2>1. CASE i <= Len(a)  BY <1>1, <1>5, <2>1 DEF Moved, Stretch
  <2>2. CASE i > Len(a)
    <3>1. i - Len(a) \in 1 .. k /\ i - Len(a) \in 1 .. Len(c)  BY <1>1, <2>2
    <3>2. a2[i] = c[i - Len(a)]  BY <1>1, <1>3, <1>5, <2>2, <3>1
    <3>3. c[i - Len(a)] = <<r, Len(a) + (i - Len(a))>>  BY <3>1 DEF Moved, Stretch
    <3>4. Len(a) + (i - Len(a)) = 0 + i  BY <1>1
    <3> QED BY <3>2, <3>3, <3>4
  <2> QED BY <1>1, <2>1, <2>2
<1>7. Stretch(c2, r, Len(a2))
  <2> SUFFICES ASSUME NEW i \in 1 .. Len(c) - k PROVE  c2[i] = <<r, Len(a) + k + i>>
    BY <1>4, <1>5 DEF Stretch
  <2>1. k + i \in 1 .. Len(c)  BY <1>1
  <2>2. c[k + i] = <<r, Len(a) + (k + i)>>  BY <2>1 DEF Moved, Stretch
  <2>3. Len(a) + (k + i) = Len(a) + k + i  BY <1>1
  <2> QED BY <1>4, <2>2, <2>3
<1>8. Len(a2) + Len(c2) = n  BY <1>1, <1>4, <1>5 DEF Moved
<1>9. a2 \in Seq(Bytes) /\ c2 \in Seq(Bytes) /\ Len(a2) = Len(a) + k
      /\ Len(c2) = Len(c) - k /\ Moved(a2, c2, r, n)
  BY <1>4, <1>5, <1>6, <1>7, <1>8 DEF Moved
<1> QED BY <1>9 DEF a2, c2, b

\* write(2) of the next k bytes of the message.
LEMMA MovedWrite ==
  ASSUME NEW a \in Seq(Bytes), NEW c \in Seq(Bytes), NEW r \in Nat, NEW n \in Nat,
         Moved(a, c, r, n), len \in Nat, NEW k \in Nat, n + k <= len
  PROVE  LET c2 == c \o SubSeq(Message(r), n + 1, n + k)
         IN  c2 \in Seq(Bytes) /\ Moved(a, c2, r, n + k)
<1> DEFINE b == SubSeq(Message(r), n + 1, n + k)
           c2 == c \o b
<1>1. Len(a) \in Nat /\ Len(c) \in Nat  BY LenProperties
<1>2. /\ b \in Seq(Bytes) /\ Len(b) = k
      /\ \A i \in 1 .. k : b[i] = <<r, n + i>>
  <2>1. \A i \in n + 1 .. n + k : Message(r)[i] \in Bytes  BY DEF Message, Bytes
  <2>2. /\ b \in Seq(Bytes)
        /\ Len(b) = IF n + 1 <= n + k THEN (n + k) - (n + 1) + 1 ELSE 0
        /\ \A i \in 1 .. (n + k) - (n + 1) + 1 : b[i] = Message(r)[(n + 1) + i - 1]
    BY <2>1, SubSeqProperties
  <2>3. ASSUME NEW i \in 1 .. k PROVE  b[i] = <<r, n + i>>
    <3>1. (n + 1) + i - 1 = n + i /\ n + i \in 1 .. len  OBVIOUS
    <3> QED BY <2>2, <3>1 DEF Message
  <2>4. Len(b) = k  BY <2>2
  <2> QED BY <2>2, <2>3, <2>4
<1>3. /\ c2 \in Seq(Bytes) /\ Len(c2) = Len(c) + k
      /\ \A i \in 1 .. Len(c) + k : c2[i] = IF i <= Len(c) THEN c[i] ELSE b[i - Len(c)]
  BY <1>2, ConcatProperties
<1> HIDE DEF b, c2
<1>4. Stretch(c2, r, Len(a))
  <2> SUFFICES ASSUME NEW i \in 1 .. Len(c) + k PROVE  c2[i] = <<r, Len(a) + i>>
    BY <1>3 DEF Stretch
  <2>1. CASE i <= Len(c)  BY <1>1, <1>3, <2>1 DEF Moved, Stretch
  <2>2. CASE i > Len(c)
    <3>1. i - Len(c) \in 1 .. k  BY <1>1, <2>2
    <3>2. c2[i] = <<r, n + (i - Len(c))>>  BY <1>1, <1>2, <1>3, <2>2, <3>1
    <3>3. n + (i - Len(c)) = Len(a) + i  BY <1>1 DEF Moved
    <3> QED BY <3>2, <3>3
  <2> QED BY <1>1, <2>1, <2>2
<1>5. Len(a) + Len(c2) = n + k
  <2>1. Len(c2) = Len(c) + k  BY <1>3
  <2>2. Len(a) + Len(c) = n  BY DEF Moved
  <2> QED BY <1>1, <2>1, <2>2
<1>6. c2 \in Seq(Bytes) /\ Moved(a, c2, r, n + k)  BY <1>3, <1>4, <1>5 DEF Moved
<1> QED BY <1>6 DEF c2, b

\* A reader that has all the bytes has the message.
LEMMA MovedAll ==
  ASSUME NEW a \in Seq(Bytes), NEW c \in Seq(Bytes), NEW r \in Nat, len \in Nat,
         Moved(a, c, r, len), Len(a) = len
  PROVE  a = Message(r)
<1>1. Len(a) \in Nat /\ a \in [1 .. Len(a) -> Bytes]  BY LenProperties
<1>2. \A i \in 1 .. len : a[i] = <<r, i>>  BY <1>1 DEF Moved, Stretch
<1> QED BY <1>1, <1>2 DEF Message

-----------------------------------------------------------------------------
LEMMA PeersAre ==
  /\ Peers = {"ping", "pong"} /\ Peer("ping") = "pong" /\ Peer("pong") = "ping"
  /\ First("ping") = "write" /\ First("pong") = "read"
BY DEF Peers, Peer, First

\* A call that returns takes its task to the next call, round or to the end.
LEMMA ReturnGoesOn ==
  ASSUME Types, Ended, NEW p \in Peers, pc[p] \in {"read", "write"}, Return(p)
  PROVE  /\ round' = [round EXCEPT ![p] = IF pc[p] = First(p) THEN @ ELSE @ + 1]
         /\ pc' = [pc EXCEPT ![p] = IF round'[p] = Rounds THEN "done"
                                    ELSE IF pc[p] = "read" THEN "write" ELSE "read"]
         /\ round' \in [Peers -> 0 .. Rounds]
         /\ pc' \in [Peers -> {"connect", "read", "write", "done"}]
         /\ Ended'
<1>1. round[p] \in 0 .. Rounds /\ round[p] # Rounds /\ Rounds \in Nat
  BY BoundsAssumption DEF Types, Ended
<1>2. round' = [round EXCEPT ![p] = IF pc[p] = First(p) THEN @ ELSE @ + 1]
  BY DEF Return
<1>3. pc' = [pc EXCEPT ![p] = IF round'[p] = Rounds THEN "done"
                              ELSE IF pc[p] = "read" THEN "write" ELSE "read"]
  <2>1. CASE round'[p] = Rounds  BY <2>1 DEF Return
  <2>2. CASE round'[p] # Rounds /\ pc[p] = "read"  BY <2>2 DEF Return
  <2>3. CASE round'[p] # Rounds /\ pc[p] = "write"  BY <2>3 DEF Return
  <2> QED BY <2>1, <2>2, <2>3
<1>4. round' \in [Peers -> 0 .. Rounds]  BY <1>1, <1>2 DEF Types
<1>5. pc' \in [Peers -> {"connect", "read", "write", "done"}]  BY <1>3 DEF Types
<1>6. Ended'
  <2> SUFFICES ASSUME NEW q \in Peers PROVE  pc'[q] = "done" <=> round'[q] = Rounds
    BY DEF Ended
  <2>1. CASE q = p  BY <1>3, <2>1 DEF Types
  <2>2. CASE q # p  BY <1>2, <1>3, <2>2 DEF Types, Ended
  <2> QED BY <2>1, <2>2
<1> QED BY <1>2, <1>3, <1>4, <1>5, <1>6

LEMMA TypesStep ==
  ASSUME IInv, [Next]_vars
  PROVE  Types' /\ Ended'
<1> USE BoundsAssumption DEF IInv
<1>1. ASSUME NEW p \in Peers, PeerNext(p) PROVE  Types' /\ Ended'
  <2>1. CASE Connect(p)  BY <2>1 DEF Connect, First, Types, Ended
  <2>2. CASE WouldBlock(p)
    <3>1. <<>> \in Seq(Bytes)  OBVIOUS
    <3>2. torn' \in BOOLEAN  BY <2>2 DEF WouldBlock
    <3>3. waiting' \in [Peers -> BOOLEAN]  BY <2>2 DEF WouldBlock, Types
    <3> QED BY <2>2, <3>1, <3>2, <3>3 DEF WouldBlock, Types, Ended
  <2>3. CASE Retry(p)
    <3>1. waiting' \in [Peers -> BOOLEAN]  BY <2>3 DEF Retry, Types
    <3> QED BY <2>3, <3>1 DEF Retry, Types, Ended
  <2>4. ASSUME NEW k \in 1 .. len, Write(p, k) PROVE  Types' /\ Ended'
    <3>1. chan' \in [Peers -> Seq(Bytes)]
      <4>1. ASSUME NEW i \in pos[p] + 1 .. pos[p] + k
            PROVE  Message(round[p])[i] \in Bytes
        <5>1. len \in Nat /\ pos[p] \in Nat /\ round[p] \in Nat  BY DEF Types
        <5>2. pos[p] + k <= len  BY <2>4 DEF Write
        <5>3. i \in 1 .. len /\ i \in Nat  BY <5>1, <5>2
        <5> QED BY <5>1, <5>3 DEF Message, Bytes
      <4>2. SubSeq(Message(round[p]), pos[p] + 1, pos[p] + k) \in Seq(Bytes)
        BY <4>1, SubSeqProperties DEF Types
      <4>3. chan[p] \o SubSeq(Message(round[p]), pos[p] + 1, pos[p] + k) \in Seq(Bytes)
        BY <4>2, ConcatProperties DEF Types
      <4> QED BY <2>4, <4>3 DEF Write, Types
    <3>2. CASE Filled(pos[p] + k)
      <4>1. Return(p) /\ pos' = [pos EXCEPT ![p] = 0] /\ pc[p] = "write"
        BY <2>4, <3>2 DEF Write
      <4>2. pos' \in [Peers -> 0 .. MaxLen]  BY <4>1 DEF Types
      <4>3. UNCHANGED <<len, waiting, got, torn, exact>>  BY <2>4 DEF Write
      <4>4. /\ round' \in [Peers -> 0 .. Rounds] /\ Ended'
            /\ pc' \in [Peers -> {"connect", "read", "write", "done"}]
        BY <4>1, ReturnGoesOn
      <4> QED BY <3>1, <4>2, <4>3, <4>4 DEF Types
    <3>3. CASE ~Filled(pos[p] + k)
      <4>1. pos' = [pos EXCEPT ![p] = @ + k] /\ UNCHANGED <<pc, round>>
        BY <2>4, <3>3 DEF Write
      <4>2. pos' \in [Peers -> 0 .. MaxLen]  BY <2>4, <4>1 DEF Write, Types
      <4> QED BY <2>4, <3>1, <4>1, <4>2 DEF Write, Types, Ended
    <3> QED BY <3>2, <3>3
  <2>5. ASSUME NEW k \in 1 .. len, Read(p, k) PROVE  Types' /\ Ended'
    <3> DEFINE in == chan[Peer(p)]
               buf == got[p] \o SubSeq(in, 1, k)
    <3>1. in \in Seq(Bytes) /\ Peer(p) \in Peers  BY DEF Types, Peer, Peers
    <3>2. k <= Len(in) /\ Len(in) \in Nat /\ k \in Nat
      BY <2>5, <3>1, LenProperties DEF Read, Types
    <3>3. \A i \in 1 .. Len(in) : in[i] \in Bytes  BY <3>1, ElementOfSeq
    <3>4. SubSeq(in, 1, k) \in Seq(Bytes)
      <4>1. \A i \in 1 .. k : in[i] \in Bytes  BY <3>2, <3>3
      <4> QED BY <3>2, <4>1, SubSeqProperties
    <3>5. SubSeq(in, k + 1, Len(in)) \in Seq(Bytes)
      <4>1. \A i \in k + 1 .. Len(in) : in[i] \in Bytes  BY <3>2, <3>3
      <4> QED BY <3>2, <4>1, SubSeqProperties
    <3>6. buf \in Seq(Bytes)  BY <3>4, ConcatProperties DEF Types
    <3>7. chan' \in [Peers -> Seq(Bytes)]
      BY <2>5, <3>1, <3>5 DEF Read, Types
    <3>8. CASE Filled(Len(buf))
      <4>1. Return(p) /\ got' = [got EXCEPT ![p] = <<>>] /\ pc[p] = "read"
            /\ exact' \in BOOLEAN
        BY <2>5, <3>8 DEF Read
      <4>2. <<>> \in Seq(Bytes)  OBVIOUS
      <4> QED BY <2>5, <3>7, <4>1, <4>2, ReturnGoesOn DEF Read, Types
    <3>9. CASE ~Filled(Len(buf))
      <4>1. got' = [got EXCEPT ![p] = buf] /\ UNCHANGED <<pc, round, exact>>
        BY <2>5, <3>9 DEF Read
      <4>2. got' \in [Peers -> Seq(Bytes)]  BY <3>6, <4>1 DEF Types
      <4> QED BY <2>5, <3>7, <4>1, <4>2 DEF Read, Types, Ended
    <3> QED BY <3>8, <3>9
  <2> QED BY <1>1, <2>1, <2>2, <2>3, <2>4, <2>5 DEF PeerNext
<1>2. CASE UNCHANGED vars  BY <1>2 DEF vars, Types, Ended
<1> QED BY <1>1, <1>2 DEF Next

-----------------------------------------------------------------------------
\* The bytes on their way from each peer to the other.
LEMMA MovingAre ==
  ASSUME NEW n
  PROVE  /\ Moving("ping", n) <=> Moved(got["pong"], chan["ping"], round["pong"], n)
         /\ Moving("pong", n) <=> Moved(got["ping"], chan["pong"], round["ping"], n)
BY PeersAre DEF Moving

\* A write(2) moves the message on by its bytes, and the last one completes it.
LEMMA WriteMoves ==
  ASSUME Types, NEW p \in Peers, NEW k \in 1 .. len, Write(p, k),
         round[Peer(p)] = round[p], Moving(p, pos[p])
  PROVE  /\ UNCHANGED <<len, got, torn, exact>>
         /\ chan'[Peer(p)] = chan[Peer(p)] /\ pos'[Peer(p)] = pos[Peer(p)]
         /\ \/ /\ UNCHANGED <<pc, round>> /\ pos'[p] < len
               /\ Moved(got[Peer(p)], chan'[p], round[p], pos'[p])
            \/ /\ Return(p) /\ pos'[p] = 0
               /\ Moved(got[Peer(p)], chan'[p], round[p], len)
<1>1. /\ Peer(p) \in Peers /\ Peer(p) # p /\ len \in Nat /\ k \in Nat
      /\ pos[p] \in Nat /\ round[p] \in Nat
      /\ chan[p] \in Seq(Bytes) /\ got[Peer(p)] \in Seq(Bytes)
  BY DEF Types, Peer, Peers
<1>2. pos[p] + k <= len  BY DEF Write
<1>3. chan' = [chan EXCEPT ![p] = @ \o SubSeq(Message(round[p]), pos[p] + 1, pos[p] + k)]
  BY DEF Write
<1>4. chan'[p] = chan[p] \o SubSeq(Message(round[p]), pos[p] + 1, pos[p] + k)
  BY <1>3 DEF Types
<1>5. chan'[Peer(p)] = chan[Peer(p)]  BY <1>1, <1>3 DEF Types
<1>6. Moved(got[Peer(p)], chan'[p], round[p], pos[p] + k)
  BY <1>1, <1>2, <1>4, MovedWrite DEF Moving
<1>7. UNCHANGED <<len, got, torn, exact>>  BY DEF Write
<1>8. CASE Filled(pos[p] + k)
  <2>1. Return(p) /\ pos' = [pos EXCEPT ![p] = 0] /\ pos[p] + k = len
    BY <1>8 DEF Write, Filled
  <2>2. pos'[p] = 0 /\ pos'[Peer(p)] = pos[Peer(p)]  BY <1>1, <2>1 DEF Types
  <2> QED BY <1>5, <1>6, <1>7, <2>1, <2>2
<1>9. CASE ~Filled(pos[p] + k)
  <2>1. UNCHANGED <<pc, round>> /\ pos' = [pos EXCEPT ![p] = @ + k] /\ pos[p] + k # len
    BY <1>9 DEF Write, Filled
  <2>2. pos'[p] = pos[p] + k /\ pos'[Peer(p)] = pos[Peer(p)]  BY <1>1, <2>1 DEF Types
  <2>3. pos'[p] < len  BY <1>1, <1>2, <2>1, <2>2
  <2> QED BY <1>5, <1>6, <1>7, <2>1, <2>2, <2>3
<1> QED BY <1>8, <1>9

\* A read(2) takes bytes of the message from the connection; only the reader of a
\* whole message returns, and it has that message.
LEMMA ReadMoves ==
  ASSUME Types, NEW p \in Peers, NEW k \in 1 .. len, Read(p, k),
         NEW n \in 0 .. len, Moving(Peer(p), n)
  PROVE  /\ n > 0 /\ UNCHANGED <<len, pos, torn>>
         /\ chan'[p] = chan[p] /\ got'[Peer(p)] = got[Peer(p)]
         /\ \/ /\ UNCHANGED <<pc, round, exact>>
               /\ Moved(got'[p], chan'[Peer(p)], round[p], n)
            \/ /\ n = len /\ Return(p) /\ exact' = exact
               /\ Len(got'[p]) = 0 /\ Len(chan'[Peer(p)]) = 0
<1> DEFINE in == chan[Peer(p)]
           buf == got[p] \o SubSeq(in, 1, k)
           out == SubSeq(in, k + 1, Len(in))
<1>1. /\ Peer(p) \in Peers /\ Peer(p) # p /\ Peer(Peer(p)) = p /\ len \in Nat
      /\ k \in Nat /\ k > 0 /\ n \in Nat
      /\ round[p] \in Nat /\ in \in Seq(Bytes) /\ got[p] \in Seq(Bytes)
  BY DEF Types, Peer, Peers
<1>2. Moved(got[p], in, round[p], n)  BY <1>1 DEF Moving
<1>3. k <= Len(in) /\ Len(buf) <= len  BY DEF Read
<1>4. /\ buf \in Seq(Bytes) /\ out \in Seq(Bytes)
      /\ Len(buf) = Len(got[p]) + k /\ Len(out) = Len(in) - k
      /\ Moved(buf, out, round[p], n)
  BY <1>1, <1>2, <1>3, MovedRead
<1>5. Len(got[p]) \in Nat /\ Len(in) \in Nat /\ Len(got[p]) + Len(in) = n
  BY <1>1, <1>2, LenProperties DEF Moved
<1>6. n > 0
  <2>1. k <= Len(in)  BY <1>3
  <2> HIDE DEF in, buf
  <2> QED BY <1>1, <1>5, <2>1
<1>7. chan' = [chan EXCEPT ![Peer(p)] = SubSeq(@, k + 1, Len(@))]
      /\ UNCHANGED <<len, pos, torn>>
  BY DEF Read
<1>8. chan'[Peer(p)] = out /\ chan'[p] = chan[p]  BY <1>1, <1>7 DEF Types
<1>9. CASE Filled(Len(buf))
  <2>1. /\ Return(p) /\ got' = [got EXCEPT ![p] = <<>>]
        /\ exact' = (exact /\ buf = Message(round[p])) /\ Len(buf) = len
    BY <1>9 DEF Read, Filled
  <2>2. n = len /\ Len(out) = 0
    <3>1. k <= Len(in) /\ Len(buf) = Len(got[p]) + k /\ Len(out) = Len(in) - k
      BY <1>3, <1>4
    <3>2. Len(buf) = len  BY <2>1
    <3> HIDE DEF in, buf, out
    <3> QED BY <1>1, <1>5, <3>1, <3>2
  <2>3. buf = Message(round[p])  BY <1>1, <1>4, <2>1, <2>2, MovedAll
  <2>4. exact' = exact  BY <2>1, <2>3 DEF Types
  <2>5. got'[p] = <<>> /\ got'[Peer(p)] = got[Peer(p)]  BY <1>1, <2>1 DEF Types
  <2>6. Len(<<>>) = 0  OBVIOUS
  <2> QED BY <1>6, <1>7, <1>8, <2>1, <2>2, <2>4, <2>5, <2>6
<1>10. CASE ~Filled(Len(buf))
  <2>1. got' = [got EXCEPT ![p] = buf] /\ UNCHANGED <<pc, round, exact>>
    BY <1>10 DEF Read
  <2>2. got'[p] = buf /\ got'[Peer(p)] = got[Peer(p)]  BY <1>1, <2>1 DEF Types
  <2> QED BY <1>4, <1>6, <1>7, <1>8, <2>1, <2>2
<1> QED BY <1>9, <1>10

\* An attempt that moves its bytes leads to the same or to the next phase.
LEMMA PingWritesStep ==
  ASSUME IInv, ~torn, NEW k \in 1 .. len, Write("ping", k)
  PROVE  exact' /\ Phase'
<1>1. PingWrites /\ exact /\ pc["ping"] = "write"
  BY DEF IInv, Phase, PingWrites, PongReads, PongWrites, PingReads, BothDone, Write
<1>2. "ping" \in Peers /\ Types /\ Ended  BY PeersAre DEF IInv
<1>3. round["pong"] = round["ping"] /\ Moving("ping", pos["ping"])
  BY <1>1 DEF PingWrites
<1>4. /\ UNCHANGED <<len, got, torn, exact>>
      /\ chan'["pong"] = chan["pong"] /\ pos'["pong"] = pos["pong"]
      /\ \/ /\ UNCHANGED <<pc, round>> /\ pos'["ping"] < len
            /\ Moved(got["pong"], chan'["ping"], round["ping"], pos'["ping"])
         \/ /\ Return("ping") /\ pos'["ping"] = 0
            /\ Moved(got["pong"], chan'["ping"], round["ping"], len)
  BY <1>2, <1>3, PeersAre, WriteMoves
<1>5. CASE UNCHANGED <<pc, round>> /\ pos'["ping"] < len
           /\ Moved(got["pong"], chan'["ping"], round["ping"], pos'["ping"])
  <2>1. Moving("ping", pos["ping"])'  BY <1>3, <1>4, <1>5, PeersAre DEF Moving
  <2>2. Moving("pong", 0)'
    BY <1>1, <1>4, <1>5, PeersAre DEF Moving, PingWrites
  <2>3. PingWrites'
    BY <1>1, <1>4, <1>5, <2>1, <2>2 DEF PingWrites
  <2> QED BY <1>1, <1>4, <2>3 DEF Phase
<1>6. CASE Return("ping") /\ pos'["ping"] = 0
           /\ Moved(got["pong"], chan'["ping"], round["ping"], len)
  <2>1. round' = round /\ pc' = [pc EXCEPT !["ping"] = "read"]
    <3>1. /\ round' = [round EXCEPT !["ping"] = round["ping"]]
          /\ pc' = [pc EXCEPT !["ping"] = IF round'["ping"] = Rounds THEN "done" ELSE "read"]
      BY <1>1, <1>2, <1>6, PeersAre, ReturnGoesOn
    <3>2. round["ping"] # Rounds  BY <1>1, <1>2 DEF Ended
    <3> QED BY <1>2, <3>1, <3>2 DEF Types
  <2>2. pc'["ping"] = "read" /\ pc'["pong"] = "read"
    BY <1>1, <1>2, <2>1, PeersAre DEF Types, PingWrites
  <2>3. Moving("ping", len)'
    BY <1>3, <1>4, <1>6, <2>1, PeersAre DEF Moving
  <2>4. Moving("pong", 0)'
    BY <1>1, <1>4, <2>1, PeersAre DEF Moving, PingWrites
  <2>5. PongReads'  BY <1>1, <1>4, <1>6, <2>1, <2>2, <2>3, <2>4 DEF PingWrites, PongReads
  <2> QED BY <1>1, <1>4, <2>5 DEF Phase
<1> QED BY <1>4, <1>5, <1>6

LEMMA PongWritesStep ==
  ASSUME IInv, ~torn, NEW k \in 1 .. len, Write("pong", k)
  PROVE  exact' /\ Phase'
<1>1. PongWrites /\ exact /\ pc["pong"] = "write"
  BY DEF IInv, Phase, PingWrites, PongReads, PongWrites, PingReads, BothDone, Write
<1>2. "pong" \in Peers /\ Types /\ Ended  BY PeersAre DEF IInv
<1>3. round["pong"] = round["ping"] /\ Moving("pong", pos["pong"])
  BY <1>1 DEF PongWrites
<1>4. /\ UNCHANGED <<len, got, torn, exact>>
      /\ chan'["ping"] = chan["ping"] /\ pos'["ping"] = pos["ping"]
      /\ \/ /\ UNCHANGED <<pc, round>> /\ pos'["pong"] < len
            /\ Moved(got["ping"], chan'["pong"], round["pong"], pos'["pong"])
         \/ /\ Return("pong") /\ pos'["pong"] = 0
            /\ Moved(got["ping"], chan'["pong"], round["pong"], len)
  BY <1>2, <1>3, PeersAre, WriteMoves
<1>5. CASE UNCHANGED <<pc, round>> /\ pos'["pong"] < len
           /\ Moved(got["ping"], chan'["pong"], round["pong"], pos'["pong"])
  <2>1. Moving("pong", pos["pong"])'  BY <1>3, <1>4, <1>5, PeersAre DEF Moving
  <2>2. Moving("ping", 0)'
    BY <1>1, <1>4, <1>5, PeersAre DEF Moving, PongWrites
  <2>3. PongWrites'
    BY <1>1, <1>4, <1>5, <2>1, <2>2 DEF PongWrites
  <2> QED BY <1>1, <1>4, <2>3 DEF Phase
<1>6. CASE Return("pong") /\ pos'["pong"] = 0
           /\ Moved(got["ping"], chan'["pong"], round["pong"], len)
  <2>1. /\ round' = [round EXCEPT !["pong"] = round["pong"] + 1]
        /\ pc' = [pc EXCEPT !["pong"] = IF round'["pong"] = Rounds THEN "done" ELSE "read"]
    BY <1>1, <1>2, <1>6, PeersAre, ReturnGoesOn
  <2>2. /\ pc'["ping"] = "read" /\ pc'["pong"] \in {"read", "done"}
        /\ round'["ping"] = round["ping"] /\ round'["pong"] = round["ping"] + 1
    BY <1>1, <1>2, <1>3, <2>1, PeersAre DEF Types, PongWrites
  <2>3. Moving("pong", len)'
    BY <1>3, <1>4, <1>6, <2>2, PeersAre DEF Moving
  <2>4. Moving("ping", 0)'
    <3>1. got["pong"] \in Seq(Bytes) /\ chan["ping"] \in Seq(Bytes)
      BY <1>2, PeersAre DEF Types
    <3>2. Moved(got["pong"], chan["ping"], round["pong"], 0)
      BY <1>1, MovingAre DEF PongWrites
    <3>3. Moved(got["pong"], chan["ping"], round'["pong"], 0)
      BY <3>1, <3>2, MovedNothing, MovedNew
    <3> QED BY <1>4, <3>3, PeersAre DEF Moving
  <2>5. PingReads'  BY <1>1, <1>4, <1>6, <2>2, <2>3, <2>4 DEF PongWrites, PingReads
  <2> QED BY <1>1, <1>4, <2>5 DEF Phase
<1> QED BY <1>4, <1>5, <1>6

LEMMA PongReadsStep ==
  ASSUME IInv, ~torn, NEW k \in 1 .. len, Read("pong", k)
  PROVE  exact' /\ Phase'
<1>1. (PingWrites \/ PongReads \/ PingReads) /\ exact /\ pc["pong"] = "read"
  BY DEF IInv, Phase, PingWrites, PongReads, PongWrites, PingReads, BothDone, Read
<1>2. "pong" \in Peers /\ Types /\ Ended /\ len \in Nat /\ pos["ping"] \in Nat
  BY PeersAre DEF IInv, Types
<1>3. ASSUME NEW n \in 0 .. len, Moving("ping", n)
      PROVE  /\ n > 0 /\ UNCHANGED <<len, pos, torn>>
             /\ chan'["pong"] = chan["pong"] /\ got'["ping"] = got["ping"]
             /\ \/ /\ UNCHANGED <<pc, round, exact>>
                   /\ Moved(got'["pong"], chan'["ping"], round["pong"], n)
                \/ /\ n = len /\ Return("pong") /\ exact' = exact
                   /\ Len(got'["pong"]) = 0 /\ Len(chan'["ping"]) = 0
  BY <1>2, <1>3, PeersAre, ReadMoves
<1>4. ASSUME UNCHANGED <<round, got["ping"], chan["pong"]>>, Moving("pong", 0)
      PROVE  Moving("pong", 0)'
  BY <1>4, PeersAre DEF Moving
<1>5. ~PingReads
  <2> SUFFICES ASSUME PingReads PROVE  FALSE  OBVIOUS
  <2>1. 0 \in 0 .. len /\ Moving("ping", 0)  BY <1>2 DEF PingReads
  <2> QED BY <1>3, <2>1
<1>6. CASE PingWrites
  <2>1. pos["ping"] \in 0 .. len /\ pos["ping"] # len /\ Moving("ping", pos["ping"])
    BY <1>2, <1>6 DEF PingWrites
  <2>2. /\ UNCHANGED <<len, pos, torn, pc, round, exact>>
        /\ chan'["pong"] = chan["pong"] /\ got'["ping"] = got["ping"]
        /\ Moved(got'["pong"], chan'["ping"], round["pong"], pos["ping"])
    BY <1>3, <2>1
  <2>3. Moving("ping", pos["ping"])'  BY <2>2, PeersAre DEF Moving
  <2>4. Moving("pong", 0)'  BY <1>4, <1>6, <2>2 DEF PingWrites
  <2>5. PingWrites'  BY <1>6, <2>2, <2>3, <2>4 DEF PingWrites
  <2> QED BY <1>1, <2>2, <2>5 DEF Phase
<1>7. CASE PongReads
  <2>1. len \in 0 .. len /\ Moving("ping", len)  BY <1>2, <1>7 DEF PongReads
  <2>2. /\ UNCHANGED <<len, pos, torn>>
        /\ chan'["pong"] = chan["pong"] /\ got'["ping"] = got["ping"]
    BY <1>3, <2>1
  <2>3. CASE UNCHANGED <<pc, round, exact>>
             /\ Moved(got'["pong"], chan'["ping"], round["pong"], len)
    <3>1. Moving("ping", len)'  BY <2>2, <2>3, PeersAre DEF Moving
    <3>2. Moving("pong", 0)'  BY <1>4, <1>7, <2>2, <2>3 DEF PongReads
    <3>3. PongReads'  BY <1>7, <2>2, <2>3, <3>1, <3>2 DEF PongReads
    <3> QED BY <1>1, <2>3, <3>3 DEF Phase
  <2>4. CASE Return("pong") /\ exact' = exact
             /\ Len(got'["pong"]) = 0 /\ Len(chan'["ping"]) = 0
    <3>1. round' = round /\ pc' = [pc EXCEPT !["pong"] = "write"]
      <4>1. /\ round' = [round EXCEPT !["pong"] = round["pong"]]
            /\ pc' = [pc EXCEPT !["pong"] = IF round'["pong"] = Rounds THEN "done" ELSE "write"]
        BY <1>1, <1>2, <2>4, PeersAre, ReturnGoesOn
      <4>2. round["pong"] # Rounds  BY <1>1, <1>2 DEF Ended
      <4> QED BY <1>2, <4>1, <4>2 DEF Types
    <3>2. pc'["ping"] = "read" /\ pc'["pong"] = "write"
      BY <1>2, <1>7, <3>1, PeersAre DEF Types, PongReads
    <3>3. Moving("ping", 0)'
      <4>1. Types'  BY TypesStep, PeersAre DEF Next, PeerNext
      <4>2. got'["pong"] \in Seq(Bytes) /\ chan'["ping"] \in Seq(Bytes)
        BY <4>1, PeersAre DEF Types
      <4>3. Moved(got'["pong"], chan'["ping"], round'["pong"], 0)  BY <2>4, <4>2, MovedNew
      <4> QED BY <4>3, PeersAre DEF Moving
    <3>4. Moving("pong", 0)'  BY <1>4, <1>7, <2>2, <3>1 DEF PongReads
    <3>5. pos["pong"] < len  BY <1>2, <1>7 DEF PongReads, Types
    <3>6. PongWrites'
      <4>1. Moving("pong", pos["pong"])'  BY <1>7, <2>2, <3>4 DEF PongReads
      <4> QED BY <1>7, <2>2, <3>1, <3>2, <3>3, <3>5, <4>1 DEF PongReads, PongWrites
    <3> QED BY <1>1, <2>4, <3>6 DEF Phase
  <2> QED BY <1>3, <2>1, <2>3, <2>4
<1> QED BY <1>1, <1>5, <1>6, <1>7

LEMMA PingReadsStep ==
  ASSUME IInv, ~torn, NEW k \in 1 .. len, Read("ping", k)
  PROVE  exact' /\ Phase'
<1>1. (PongReads \/ PongWrites \/ PingReads) /\ exact /\ pc["ping"] = "read"
  BY DEF IInv, Phase, PingWrites, PongReads, PongWrites, PingReads, BothDone, Read
<1>2. "ping" \in Peers /\ Types /\ Ended /\ len \in Nat /\ pos["pong"] \in Nat /\ len > 0
  BY PeersAre DEF IInv, Types
<1>3. ASSUME NEW n \in 0 .. len, Moving("pong", n)
      PROVE  /\ n > 0 /\ UNCHANGED <<len, pos, torn>>
             /\ chan'["ping"] = chan["ping"] /\ got'["pong"] = got["pong"]
             /\ \/ /\ UNCHANGED <<pc, round, exact>>
                   /\ Moved(got'["ping"], chan'["pong"], round["ping"], n)
                \/ /\ n = len /\ Return("ping") /\ exact' = exact
                   /\ Len(got'["ping"]) = 0 /\ Len(chan'["pong"]) = 0
  BY <1>2, <1>3, PeersAre, ReadMoves
<1>4. ASSUME UNCHANGED <<round["pong"], got["pong"], chan["ping"]>>, Moving("ping", 0)
      PROVE  Moving("ping", 0)'
  BY <1>4, PeersAre DEF Moving
<1>5. ~PongReads
  <2> SUFFICES ASSUME PongReads PROVE  FALSE  OBVIOUS
  <2>1. 0 \in 0 .. len /\ Moving("pong", 0)  BY <1>2 DEF PongReads
  <2> QED BY <1>3, <2>1
<1>6. CASE PongWrites
  <2>1. pos["pong"] \in 0 .. len /\ pos["pong"] # len /\ Moving("pong", pos["pong"])
    BY <1>2, <1>6 DEF PongWrites
  <2>2. /\ UNCHANGED <<len, pos, torn, pc, round, exact>>
        /\ chan'["ping"] = chan["ping"] /\ got'["pong"] = got["pong"]
        /\ Moved(got'["ping"], chan'["pong"], round["ping"], pos["pong"])
    BY <1>3, <2>1
  <2>3. Moving("pong", pos["pong"])'  BY <2>2, PeersAre DEF Moving
  <2>4. Moving("ping", 0)'  BY <1>4, <1>6, <2>2 DEF PongWrites
  <2>5. PongWrites'  BY <1>6, <2>2, <2>3, <2>4 DEF PongWrites
  <2> QED BY <1>1, <2>2, <2>5 DEF Phase
<1>7. CASE PingReads
  <2>1. len \in 0 .. len /\ Moving("pong", len)  BY <1>2, <1>7 DEF PingReads
  <2>2. /\ UNCHANGED <<len, pos, torn>>
        /\ chan'["ping"] = chan["ping"] /\ got'["pong"] = got["pong"]
    BY <1>3, <2>1
  <2>3. CASE UNCHANGED <<pc, round, exact>>
             /\ Moved(got'["ping"], chan'["pong"], round["ping"], len)
    <3>1. Moving("pong", len)'  BY <2>2, <2>3, PeersAre DEF Moving
    <3>2. Moving("ping", 0)'  BY <1>4, <1>7, <2>2, <2>3 DEF PingReads
    <3>3. PingReads'  BY <1>7, <2>2, <2>3, <3>1, <3>2 DEF PingReads
    <3> QED BY <1>1, <2>3, <3>3 DEF Phase
  <2>4. CASE Return("ping") /\ exact' = exact
             /\ Len(got'["ping"]) = 0 /\ Len(chan'["pong"]) = 0
    <3>1. /\ round' = [round EXCEPT !["ping"] = round["ping"] + 1]
          /\ pc' = [pc EXCEPT !["ping"] = IF round'["ping"] = Rounds THEN "done" ELSE "write"]
      BY <1>1, <1>2, <2>4, PeersAre, ReturnGoesOn
    <3>2. /\ pc'["ping"] = (IF round'["ping"] = Rounds THEN "done" ELSE "write")
          /\ pc'["pong"] = pc["pong"] /\ round'["pong"] = round["pong"]
          /\ round'["ping"] = round["pong"]
      BY <1>2, <1>7, <3>1, PeersAre DEF Types, PingReads
    <3>3. Moving("pong", 0)'
      <4>1. Types'  BY TypesStep, PeersAre DEF Next, PeerNext
      <4>2. got'["ping"] \in Seq(Bytes) /\ chan'["pong"] \in Seq(Bytes)
        BY <4>1, PeersAre DEF Types
      <4>3. Moved(got'["ping"], chan'["pong"], round'["ping"], 0)  BY <2>4, <4>2, MovedNew
      <4> QED BY <4>3, PeersAre DEF Moving
    <3>4. Moving("ping", 0)'  BY <1>4, <1>7, <2>2, <3>2 DEF PingReads
    <3>5. CASE round["pong"] = Rounds
      <4>1. pc["pong"] = "done"  BY <1>2, <3>5, PeersAre DEF Ended
      <4>2. BothDone'  BY <3>2, <3>3, <3>4, <3>5, <4>1 DEF BothDone
      <4> QED BY <1>1, <2>4, <4>2 DEF Phase
    <3>6. CASE round["pong"] # Rounds
      <4>1. pc["pong"] = "read"  BY <1>2, <1>7, <3>6, PeersAre DEF Ended, PingReads
      <4>2. pos'["ping"] = 0 /\ pos'["pong"] = 0 /\ 0 < len' /\ Moving("ping", pos["ping"])'
        BY <1>2, <1>7, <2>2, <3>4 DEF PingReads
      <4>3. PingWrites'  BY <3>2, <3>3, <3>6, <4>1, <4>2 DEF PingWrites
      <4> QED BY <1>1, <2>4, <4>3 DEF Phase
    <3> QED BY <3>5, <3>6
  <2> QED BY <1>3, <2>1, <2>3, <2>4
<1> QED BY <1>1, <1>5, <1>6, <1>7

\* WouldBlock before the first byte of an attempt changes no phase.
LEMMA BlockStep ==
  ASSUME IInv, NEW p \in Peers, WouldBlock(p), ~torn'
  PROVE  ~torn /\ UNCHANGED <<len, pc, round, chan, pos, got, exact>>
<1>1. ~torn /\ ~(pos[p] > 0) /\ got[p] = <<>>  BY DEF WouldBlock
<1>2. pos[p] = 0  BY <1>1, BoundsAssumption DEF IInv, Types
<1>3. pos' = pos /\ got' = got  BY <1>1, <1>2 DEF WouldBlock, IInv, Types
<1> QED BY <1>1, <1>3 DEF WouldBlock

LEMMA PhaseStep ==
  ASSUME IInv, [Next]_vars, ~torn'
  PROVE  exact' /\ Phase'
<1>1. ASSUME ~torn, UNCHANGED <<len, pc, round, chan, pos, got, exact>>
      PROVE  exact' /\ Phase'
  BY <1>1 DEF IInv, Phase, PingWrites, PongReads, PongWrites, PingReads, BothDone, Moving
<1>2. ASSUME NEW p \in Peers, PeerNext(p) PROVE  exact' /\ Phase'
  <2>1. CASE Connect(p)
    <3>1. ~torn /\ UNCHANGED <<len, round, chan, pos, got, exact>>  BY <2>1 DEF Connect
    <3>2. PingWrites
      BY <2>1, <3>1, PeersAre
      DEF IInv, Phase, PingWrites, PongReads, PongWrites, PingReads, BothDone, Connect
    <3>3. /\ pc'["ping"] \in {"connect", "write"} /\ pc'["pong"] \in {"connect", "read"}
          /\ pc'["ping"] = "write" => pc'["pong"] = "read"
      BY <2>1, <3>2, PeersAre DEF Connect, PingWrites, IInv, Types
    <3>4. PingWrites'  BY <3>1, <3>2, <3>3 DEF PingWrites, Moving
    <3> QED BY <3>1, <3>4 DEF Phase, IInv
  <2>2. CASE WouldBlock(p)  BY <1>1, <2>2, BlockStep
  <2>3. CASE Retry(p)  BY <1>1, <2>3 DEF Retry
  <2>4. ASSUME NEW k \in 1 .. len, Write(p, k) PROVE  exact' /\ Phase'
    <3>1. ~torn  BY <2>4 DEF Write
    <3> QED BY <2>4, <3>1, PeersAre, PingWritesStep, PongWritesStep
  <2>5. ASSUME NEW k \in 1 .. len, Read(p, k) PROVE  exact' /\ Phase'
    <3>1. ~torn  BY <2>5 DEF Read
    <3> QED BY <2>5, <3>1, PeersAre, PingReadsStep, PongReadsStep
  <2> QED BY <1>2, <2>1, <2>2, <2>3, <2>4, <2>5 DEF PeerNext
<1>3. CASE UNCHANGED vars  BY <1>1, <1>3 DEF vars
<1> QED BY <1>2, <1>3 DEF Next

LEMMA InitInv == Init => IInv
<1> SUFFICES ASSUME Init PROVE  IInv  OBVIOUS
<1>1. <<>> \in Seq(Bytes) /\ Len(<<>>) = 0  OBVIOUS
<1>2. Types /\ Ended
  <2>1. waiting \in [Peers -> BOOLEAN] /\ torn \in BOOLEAN /\ exact \in BOOLEAN  BY DEF Init
  <2>2. /\ pc \in [Peers -> {"connect", "read", "write", "done"}]
        /\ chan \in [Peers -> Seq(Bytes)] /\ got \in [Peers -> Seq(Bytes)]
    BY <1>1 DEF Init
  <2>3. round \in [Peers -> 0 .. Rounds] /\ pos \in [Peers -> 0 .. MaxLen]
    BY BoundsAssumption DEF Init
  <2>4. Ended  BY BoundsAssumption DEF Init, Ended
  <2> QED BY <2>1, <2>2, <2>3, <2>4 DEF Init, Types
<1>3. Moving("ping", 0) /\ Moving("pong", 0)
  <2>1. \A r : Moved(<<>>, <<>>, r, 0)  BY <1>1, MovedNew
  <2> QED BY <2>1, PeersAre DEF Init, Moving
<1>4. PingWrites  BY <1>3, PeersAre, BoundsAssumption DEF Init, PingWrites
<1> QED BY <1>2, <1>4 DEF IInv, Phase, Init

-----------------------------------------------------------------------------
\* The inductive invariant: as long as no attempt has been cut short, the two tasks
\* of mio_ping_pong.rs go through the phases of a round in step, and the bytes of
\* the message on its way are in the reader's buffer and in the connection, in order.
THEOREM Invariance == Spec => []IInv
<1>1. Init => IInv  BY InitInv
<1>2. IInv /\ [Next]_vars => IInv'
  <2> SUFFICES ASSUME IInv, [Next]_vars PROVE  IInv'  OBVIOUS
  <2> QED BY TypesStep, PhaseStep DEF IInv
<1> QED BY <1>1, <1>2, PTL DEF Spec

\* read_exact and write_all hand over whole messages, in order, unless WouldBlock
\* cut an attempt short, whatever the length of the message, the capacity of the
\* connection and the pieces that the reads and writes transfer.
THEOREM WholeMessages == Spec => []ExactUnlessTorn
<1>1. IInv => ExactUnlessTorn
  <2> SUFFICES ASSUME IInv, ~torn
               PROVE  /\ exact
                      /\ Len(chan["ping"]) + Len(chan["pong"]) <= len
                      /\ round["ping"] <= round["pong"]
                      /\ round["pong"] <= round["ping"] + 1
    BY DEF ExactUnlessTorn
  <2>1. exact /\ Phase /\ Types  BY DEF IInv
  <2>2. /\ chan["ping"] \in Seq(Bytes) /\ chan["pong"] \in Seq(Bytes)
        /\ got["ping"] \in Seq(Bytes) /\ got["pong"] \in Seq(Bytes)
    BY <2>1, PeersAre DEF Types
  <2> DEFINE gotPing  == Len(got["ping"])
             gotPong  == Len(got["pong"])
             fromPing == Len(chan["ping"])
             fromPong == Len(chan["pong"])
  <2>3. /\ fromPing \in Nat /\ fromPong \in Nat
        /\ gotPing \in Nat /\ gotPong \in Nat
        /\ round["ping"] \in Nat /\ round["pong"] \in Nat /\ len \in Nat
        /\ pos["ping"] \in Nat /\ pos["pong"] \in Nat
    BY <2>1, <2>2, PeersAre, LenProperties DEF Types
  <2>4. \A n : Moving("ping", n) => gotPong + fromPing = n
    BY PeersAre DEF Moving, Moved
  <2>5. \A n : Moving("pong", n) => gotPing + fromPong = n
    BY PeersAre DEF Moving, Moved
  <2>6. /\ fromPing + fromPong <= len
        /\ round["ping"] <= round["pong"] /\ round["pong"] <= round["ping"] + 1
    <3>1. CASE PingWrites
      <4>1. /\ gotPong + fromPing = pos["ping"]
            /\ gotPing + fromPong = 0
        BY <2>4, <2>5, <3>1 DEF PingWrites
      <4>2. round["ping"] = round["pong"] /\ pos["ping"] < len  BY <3>1 DEF PingWrites
      <4> HIDE DEF gotPing, gotPong, fromPing, fromPong
      <4> QED BY <2>3, <4>1, <4>2
    <3>2. CASE PongReads
      <4>1. /\ gotPong + fromPing = len
            /\ gotPing + fromPong = 0
        BY <2>4, <2>5, <3>2 DEF PongReads
      <4>2. round["ping"] = round["pong"]  BY <3>2 DEF PongReads
      <4> HIDE DEF gotPing, gotPong, fromPing, fromPong
      <4> QED BY <2>3, <4>1, <4>2
    <3>3. CASE PongWrites
      <4>1. /\ gotPong + fromPing = 0
            /\ gotPing + fromPong = pos["pong"]
        BY <2>4, <2>5, <3>3 DEF PongWrites
      <4>2. round["ping"] = round["pong"] /\ pos["pong"] < len  BY <3>3 DEF PongWrites
      <4> HIDE DEF gotPing, gotPong, fromPing, fromPong
      <4> QED BY <2>3, <4>1, <4>2
    <3>4. CASE PingReads
      <4>1. /\ gotPong + fromPing = 0
            /\ gotPing + fromPong = len
        BY <2>4, <2>5, <3>4 DEF PingReads
      <4>2. round["pong"] = round["ping"] + 1  BY <3>4 DEF PingReads
      <4> HIDE DEF gotPing, gotPong, fromPing, fromPong
      <4> QED BY <2>3, <4>1, <4>2
    <3>5. CASE BothDone
      <4>1. /\ gotPong + fromPing = 0
            /\ gotPing + fromPong = 0
        BY <2>4, <2>5, <3>5 DEF BothDone
      <4>2. round["ping"] = round["pong"]  BY <3>5 DEF BothDone
      <4> HIDE DEF gotPing, gotPong, fromPing, fromPong
      <4> QED BY <2>3, <4>1, <4>2
    <3> QED BY <2>1, <3>1, <3>2, <3>3, <3>4, <3>5 DEF Phase
  <2> QED BY <2>1, <2>6
<1> QED BY <1>1, Invariance, PTL

\* A one-byte message moves as a whole or not at all.
NeverTorn == len = 1 => ~torn /\ \A p \in Peers : pos[p] = 0 /\ got[p] = <<>>

\* With the one-byte messages of the test no attempt is ever cut short, and every
\* read_exact returns its round's message.
THEOREM OneByteMessages == Spec => [](len = 1 => exact)
<1>1. Init => NeverTorn  BY DEF Init, NeverTorn
<1>2. IInv /\ NeverTorn /\ [Next]_vars => NeverTorn'
  <2> SUFFICES ASSUME IInv, NeverTorn, [Next]_vars, len' = 1
               PROVE  ~torn' /\ \A p \in Peers : pos'[p] = 0 /\ got'[p] = <<>>
    BY DEF NeverTorn
  <2>1. len = 1
    BY DEF Next, vars, PeerNext, Connect, WouldBlock, Retry, Write, Read
  <2>2. ~torn /\ \A p \in Peers : pos[p] = 0 /\ got[p] = <<>>  BY <2>1 DEF NeverTorn
  <2>3. CASE UNCHANGED vars  BY <2>2, <2>3 DEF vars
  <2>4. ASSUME NEW p \in Peers, PeerNext(p)
        PROVE  ~torn' /\ \A q \in Peers : pos'[q] = 0 /\ got'[q] = <<>>
    <3>1. CASE Connect(p)  BY <2>2, <3>1 DEF Connect
    <3>2. CASE WouldBlock(p)
      <4>1. pos[p] = 0 /\ ~(pos[p] > 0) /\ got[p] = <<>>  BY <2>2
      <4>2. ~torn'  BY <2>2, <3>2, <4>1 DEF WouldBlock
      <4> QED BY <2>2, <3>2, <4>2 DEF WouldBlock, IInv, Types
    <3>3. CASE Retry(p)  BY <2>2, <3>3 DEF Retry
    <3>4. ASSUME NEW k \in 1 .. len, Write(p, k)
          PROVE  ~torn' /\ \A q \in Peers : pos'[q] = 0 /\ got'[q] = <<>>
      <4>1. Filled(pos[p] + k)  BY <2>1, <2>2, <3>4 DEF Filled
      <4> QED BY <2>2, <3>4, <4>1 DEF Write, IInv, Types
    <3>5. ASSUME NEW k \in 1 .. len, Read(p, k)
          PROVE  ~torn' /\ \A q \in Peers : pos'[q] = 0 /\ got'[q] = <<>>
      <4> DEFINE in == chan[Peer(p)]
                 buf == got[p] \o SubSeq(in, 1, k)
      <4>1. k = 1 /\ got[p] = <<>> /\ 1 <= Len(in)  BY <2>1, <2>2, <3>5 DEF Read
      <4>2. in \in Seq(Bytes)  BY DEF IInv, Types, Peer, Peers
      <4>3. SubSeq(in, 1, k) \in Seq(Bytes) /\ Len(SubSeq(in, 1, k)) = 1
        <5>1. \A i \in 1 .. k : in[i] \in Bytes  BY <4>1, <4>2, ElementOfSeq, LenProperties
        <5> QED BY <4>1, <4>2, <5>1, SubSeqProperties
      <4>4. got[p] \in Seq(Bytes) /\ Len(got[p]) = 0  BY <4>1
      <4>5. Len(buf) = Len(got[p]) + Len(SubSeq(in, 1, k))
        BY <4>3, <4>4, ConcatProperties
      <4>6. Filled(Len(buf))
        <5>1. Len(buf) = 1  BY <4>3, <4>4, <4>5
        <5> QED BY <2>1, <5>1 DEF Filled
      <4>7. got' = [got EXCEPT ![p] = <<>>] /\ UNCHANGED <<pos, torn>>
        BY <3>5, <4>6 DEF Read
      <4> QED BY <2>2, <4>7 DEF IInv, Types
    <3> QED BY <2>4, <3>1, <3>2, <3>3, <3>4, <3>5 DEF PeerNext
  <2> QED BY <2>3, <2>4 DEF Next
<1>3. IInv /\ NeverTorn => (len = 1 => exact)  BY DEF IInv, NeverTorn
<1> QED BY <1>1, <1>2, <1>3, Invariance, PTL DEF Spec
=============================================================================
