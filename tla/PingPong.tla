------------------------------ MODULE PingPong ------------------------------
(***************************************************************************)
(* The two ends of a TCP connection in yaay-tests/src/mio_ping_pong.rs, on *)
(* the read_exact and write_all of yaay-mio/src/net/tcp_stream.rs.  Both   *)
(* are std's loops inside io_poll!: when the socket would block in the     *)
(* middle of the buffer, the bytes moved so far are forgotten and the next *)
(* attempt starts from the beginning.                                      *)
(*                                                                         *)
(* The dispatcher between WouldBlock and the next attempt is module Mio;   *)
(* here a call that waits goes on once its socket is ready.                *)
(***************************************************************************)
EXTENDS Naturals, Sequences

CONSTANTS
  Rounds,   \* 10000 in the test
  MaxLen,   \* bound: length of a message (1 in the test)
  Cap       \* bytes that a direction of the connection can hold

ASSUME BoundsAssumption == {Rounds, MaxLen, Cap} \subseteq Nat \ {0}

Peers == {"ping", "pong"}
Peer(p) == IF p = "ping" THEN "pong" ELSE "ping"

VARIABLES
  len,       \* length of `msg` and `buf`
  pc,        \* the call each task is in
  waiting,   \* is it in wait_io()?
  round,     \* `for _ in 0..10000`
  chan,      \* bytes on their way from each peer to the other
  pos,       \* bytes sent by this attempt of write_all
  got,       \* bytes received by this attempt of read_exact
  torn,      \* history: an attempt ended after it had moved some bytes
  exact      \* history: every read_exact so far returned its round's message

vars == <<len, pc, waiting, round, chan, pos, got, torn, exact>>

\* Byte k of the message of round r.
Message(r) == [k \in 1 .. len |-> <<r, k>>]

Init ==
  /\ len \in 1 .. MaxLen
  /\ pc = [p \in Peers |-> "connect"]
  /\ waiting = [p \in Peers |-> FALSE]
  /\ round = [p \in Peers |-> 0]
  /\ chan = [p \in Peers |-> <<>>]
  /\ pos = [p \in Peers |-> 0]
  /\ got = [p \in Peers |-> <<>>]
  /\ torn = FALSE
  /\ exact = TRUE

-----------------------------------------------------------------------------
\* Mutant: both peers read first.
FirstReads(p) == "read"

\* ping writes, then reads; pong the other way round.
First(p) == IF p = "ping" THEN "write" ELSE "read"

\* pong connects; the accept() of async_main then spawns ping.
Connect(p) ==
  /\ pc[p] = "connect"
  /\ p = "ping" => pc["pong"] # "connect"
  /\ pc' = [pc EXCEPT ![p] = First(p)]
  /\ UNCHANGED <<len, waiting, round, chan, pos, got, torn, exact>>

\* The call returns Ok(()), and the task goes on to its next one.
Return(p) ==
  /\ round' = [round EXCEPT ![p] = IF pc[p] = First(p) THEN @ ELSE @ + 1]
  /\ pc' = [pc EXCEPT ![p] = CASE round'[p] = Rounds -> "done"
                               [] round'[p] # Rounds /\ @ = "read" -> "write"
                               [] round'[p] # Rounds /\ @ = "write" -> "read"]

\* Mutant: a short read is taken for the whole.
FilledShort(n) == n > 0

\* The whole buffer has been transferred.
Filled(n) == n = len

\* One write(2) of write_all, of k bytes.
Write(p, k) ==
  /\ pc[p] = "write" /\ ~waiting[p]
  /\ pos[p] + k <= len /\ Len(chan[p]) + k <= Cap
  /\ chan' = [chan EXCEPT ![p] = @ \o SubSeq(Message(round[p]), pos[p] + 1, pos[p] + k)]
  /\ IF Filled(pos[p] + k)
       THEN Return(p) /\ pos' = [pos EXCEPT ![p] = 0]
       ELSE pos' = [pos EXCEPT ![p] = @ + k] /\ UNCHANGED <<pc, round>>
  /\ UNCHANGED <<len, waiting, got, torn, exact>>

\* One read(2) of read_exact.
Read(p, k) ==
  LET in == chan[Peer(p)]
      buf == got[p] \o SubSeq(in, 1, k)
  IN
  /\ pc[p] = "read" /\ ~waiting[p]
  /\ k <= Len(in) /\ Len(buf) <= len
  /\ chan' = [chan EXCEPT ![Peer(p)] = SubSeq(@, k + 1, Len(@))]
  /\ IF Filled(Len(buf))
       THEN /\ Return(p)
            /\ got' = [got EXCEPT ![p] = <<>>]
            /\ exact' = (exact /\ buf = Message(round[p]))
       ELSE got' = [got EXCEPT ![p] = buf] /\ UNCHANGED <<pc, round, exact>>
  /\ UNCHANGED <<len, waiting, pos, torn>>

\* The socket has no room for p's bytes, or none of its peer's.
Blocked(p) == \/ pc[p] = "write" /\ Len(chan[p]) = Cap
              \/ pc[p] = "read" /\ chan[Peer(p)] = <<>>

\* WouldBlock: std gives up the attempt and io_poll! waits.
WouldBlock(p) ==
  /\ Blocked(p) /\ ~waiting[p]
  /\ waiting' = [waiting EXCEPT ![p] = TRUE]
  /\ torn' = (torn \/ pos[p] > 0 \/ got[p] # <<>>)
  /\ pos' = [pos EXCEPT ![p] = 0]
  /\ got' = [got EXCEPT ![p] = <<>>]
  /\ UNCHANGED <<len, pc, round, chan, exact>>

\* wait_io() returns: the next attempt.
Retry(p) ==
  /\ waiting[p] /\ ~Blocked(p)
  /\ waiting' = [waiting EXCEPT ![p] = FALSE]
  /\ UNCHANGED <<len, pc, round, chan, pos, got, torn, exact>>

PeerNext(p) ==
  \/ Connect(p) \/ WouldBlock(p) \/ Retry(p)
  \/ \E k \in 1 .. len : Write(p, k) \/ Read(p, k)

Next == \E p \in Peers : PeerNext(p)

(* Both tasks keep being polled, and the dispatcher loses no readiness      *)
(* (module Mio).                                                            *)
Spec == Init /\ [][Next]_vars /\ \A p \in Peers : WF_vars(PeerNext(p))

-----------------------------------------------------------------------------
(* Properties.                                                              *)

\* read_exact and write_all hand over whole messages, in order, as long as no
\* attempt has been cut short between its first and its last byte; and neither
\* peer is ever more than one message ahead of the other.
ExactUnlessTorn ==
  ~torn => /\ exact
           /\ Len(chan["ping"]) + Len(chan["pong"]) <= len
           /\ round["ping"] <= round["pong"] /\ round["pong"] <= round["ping"] + 1

\* With the one-byte messages of the test nothing can be cut short: both peers
\* complete all their rounds with the right bytes.  (With longer messages they may
\* wait for ever for the bytes that a torn read_exact has thrown away.)
PingPongCompletes == len = 1 => <>(exact /\ \A p \in Peers : pc[p] = "done")

-----------------------------------------------------------------------------
(* The inductive invariant.                                                 *)

Bytes == Nat \X Nat

Types ==
  /\ len \in 1 .. MaxLen
  /\ pc \in [Peers -> {"connect", "read", "write", "done"}]
  /\ waiting \in [Peers -> BOOLEAN]
  /\ round \in [Peers -> 0 .. Rounds]
  /\ chan \in [Peers -> Seq(Bytes)]
  /\ pos \in [Peers -> 0 .. MaxLen]
  /\ got \in [Peers -> Seq(Bytes)]
  /\ torn \in BOOLEAN /\ exact \in BOOLEAN

\* s holds bytes from + 1, from + 2, ... of the message of round r.
Stretch(s, r, from) == \A i \in 1 .. Len(s) : s[i] = <<r, from + i>>

\* The first n bytes of a message have left the writer: the reader has some, in
\* order, in a, and the connection has the others in c.
Moved(a, c, r, n) ==
  /\ Len(a) + Len(c) = n
  /\ Stretch(a, r, 0)
  /\ Stretch(c, r, Len(a))
Moving(p, n) == Moved(got[Peer(p)], chan[p], round[Peer(p)], n)

\* The phases of a round.
PingWrites ==
  /\ pc["ping"] \in {"connect", "write"} /\ pc["pong"] \in {"connect", "read"}
  /\ pc["ping"] = "write" => pc["pong"] = "read"
  /\ round["ping"] = round["pong"]
  /\ pos["ping"] < len /\ pos["pong"] = 0
  /\ Moving("ping", pos["ping"]) /\ Moving("pong", 0)
PongReads ==
  /\ pc["ping"] = "read" /\ pc["pong"] = "read"
  /\ round["ping"] = round["pong"]
  /\ pos["ping"] = 0 /\ pos["pong"] = 0
  /\ Moving("ping", len) /\ Moving("pong", 0)
PongWrites ==
  /\ pc["ping"] = "read" /\ pc["pong"] = "write"
  /\ round["ping"] = round["pong"]
  /\ pos["ping"] = 0 /\ pos["pong"] < len
  /\ Moving("ping", 0) /\ Moving("pong", pos["pong"])
PingReads ==
  /\ pc["ping"] = "read" /\ pc["pong"] \in {"read", "done"}
  /\ round["pong"] = round["ping"] + 1
  /\ pos["ping"] = 0 /\ pos["pong"] = 0
  /\ Moving("ping", 0) /\ Moving("pong", len)
BothDone ==
  /\ pc["ping"] = "done" /\ pc["pong"] = "done"
  /\ round["ping"] = round["pong"]
  /\ Moving("ping", 0) /\ Moving("pong", 0)

Phase == PingWrites \/ PongReads \/ PongWrites \/ PingReads \/ BothDone

Ended == \A p \in Peers : pc[p] = "done" <=> round[p] = Rounds

\* Unless an attempt was cut short, the two peers go through the phases in step.
IInv == Types /\ Ended /\ (~torn => exact /\ Phase)
=============================================================================
