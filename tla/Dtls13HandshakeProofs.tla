----------------------- MODULE Dtls13HandshakeProofs ------------------------
(***************************************************************************)
(* The invariants of Dtls13Handshake and its refinement of HandshakeOrder, *)
(* for every length of the two flights.                                    *)
(*                                                                         *)
(* The inductive invariant is stated of two endpoints c and s and of what  *)
(* each has sent, sc and ss, and not of the variables: it also holds in    *)
(* the middle of a call, between ProcessReply, the scheduled work and the  *)
(* state machine, if what the call has sent so far is counted in.          *)
(***************************************************************************)
EXTENDS Dtls13Handshake, WellFoundedInduction, TLAPS

-----------------------------------------------------------------------------
(* What each function of Dtls13Endpoint does to the endpoint it is given:  *)
(* one lemma for each.                                                     *)

\* Message n of the peer has been processed or is in the buffer.
Has(e, n) == n < e.expected \/ n \in e.stored

\* No request for an ACK or a retransmission is left over from an earlier call.
Idle(e) == ~e.sendAcks /\ ~e.retransmit

\* The fields that sending and dropping leave alone.
SamePlace(e, r) == /\ r.state = e.state /\ r.expected = e.expected
                   /\ r.stored = e.stored /\ r.rtx = e.rtx

\* The endpoint has sent a flight: r is e with the flight in its buffer.
SentFlight(e, r, flight) ==
    /\ r.expected = e.expected /\ r.stored = e.stored /\ r.unified = e.unified
    /\ r.rtx = e.rtx \cup flight /\ r.seen = {}
    /\ r.out = e.out \cup Messages(flight)
    /\ Idle(e) => Idle(r)

\* The server has accepted the ClientHello with the cookie.
Accepted(e, r) ==
    /\ r.state = "accepting" /\ r.expected = 2 /\ r.stored = e.stored /\ r.seen = {}
    /\ r.rtx = e.rtx \cup 1 .. ServerLast
    /\ r.out = e.out \cup Messages(1 .. ServerLast)

\* A nonempty set of numbers has a least element.
LEMMA LeastNumber ==
    ASSUME NEW T \in SUBSET Nat, T # {}
    PROVE  \E x \in T : \A y \in T : x <= y
<1> DEFINE R == {p \in Nat \X Nat : p[1] < p[2]}
<1>1. R = OpToRel(<, Nat)
  BY DEF OpToRel
<1>2. IsWellFoundedOn(R, Nat)
  BY <1>1, NatLessThanWellFounded, Zenon
<1> HIDE DEF R
<1>3. PICK x \in T : \A y \in T : <<y, x>> \notin R
  BY <1>2, WFMin
<1>4. \A y \in T : ~(y < x)
  BY <1>3 DEF R
<1> QED BY <1>4

\* The messages up to the gap are buffered, the gap is not.
LEMMA NextGapFacts ==
    ASSUME NEW last \in Nat, NEW n \in 0 .. last, NEW stored \in SUBSET (0 .. last)
    PROVE  /\ NextGap(stored, n, last) \in n + 1 .. last + 1
           /\ NextGap(stored, n, last) \notin stored
           /\ \A k \in n + 1 .. NextGap(stored, n, last) - 1 : k \in stored
<1> DEFINE Gaps == (n + 1 .. last + 1) \ stored
<1>1. Gaps \in SUBSET Nat /\ last + 1 \in Gaps
  OBVIOUS
<1>2. PICK m \in Gaps : \A y \in Gaps : m <= y
  BY <1>1, LeastNumber
<1>3. \A k \in n + 1 .. m - 1 : k \in stored
  BY <1>2
<1> QED BY <1>2, <1>3 DEF NextGap

-----------------------------------------------------------------------------
(* Messages and records.                                                   *)

LEMMA SideFacts ==
    /\ Sides = {"client", "server"}
    /\ Peer("client") = "server" /\ Peer("server") = "client"
    /\ Last("client") = ClientLast /\ Last("server") = ServerLast
    /\ Numbers("client") = 0 .. ClientLast /\ Numbers("server") = 0 .. ServerLast
    /\ \A side \in Sides : Last(side) \in Nat /\ Last(side) >= 2
  BY FlightAssumption DEF Sides, Peer, Last, Numbers

LEMMA HandshakeFacts ==
    ASSUME NEW n
    PROVE  /\ Handshake(n).type = "handshake" /\ Handshake(n).num = n
           /\ Handshake(n).acked = {}
           /\ Handshake(n).epoch = IF n < 2 THEN 0 ELSE 2
  BY DEF Handshake

LEMMA AckRecordFacts ==
    ASSUME NEW epoch, NEW acked
    PROVE  /\ AckRecord(epoch, acked).type = "ack"
           /\ AckRecord(epoch, acked).epoch = epoch
           /\ AckRecord(epoch, acked).acked = acked
           /\ \A n : AckRecord(epoch, acked) # Handshake(n)
<1>1. /\ AckRecord(epoch, acked).type = "ack"
      /\ AckRecord(epoch, acked).epoch = epoch
      /\ AckRecord(epoch, acked).acked = acked
  BY DEF AckRecord
<1> QED BY <1>1, HandshakeFacts

\* Adding a flight to what was sent adds its messages and no acknowledgement.
LEMMA FlightFacts ==
    ASSUME NEW A, NEW F
    PROVE  /\ \A n : Handshake(n) \in A \cup Messages(F)
                     <=> Handshake(n) \in A \/ n \in F
           /\ \A d \in A \cup Messages(F) : d \in A \/ d.acked = {}
<1>1. \A n, k : Handshake(n) = Handshake(k) => n = k
  <2> SUFFICES ASSUME NEW n, NEW k, Handshake(n) = Handshake(k) PROVE n = k
    OBVIOUS
  <2>1. Handshake(n).num = n /\ Handshake(k).num = k
    BY HandshakeFacts
  <2> QED BY <2>1
<1>2. \A k : Handshake(k).acked = {}
  BY HandshakeFacts
<1> QED BY <1>1, <1>2 DEF Messages

\* A record carries a handshake message or acknowledges some.
LEMMA DatagramCases ==
    ASSUME NEW side \in Sides, NEW d \in Datagrams(side)
    PROVE  /\ \/ /\ d.type = "handshake" /\ d.num \in Numbers(side)
                 /\ d = Handshake(d.num) /\ d.acked = {}
              \/ d.type = "ack" /\ d.acked \subseteq Numbers(Peer(side))
           /\ d.epoch \in Epochs
<1>1. CASE d \in Messages(Numbers(side))
  <2>1. PICK n \in Numbers(side) : d = Handshake(n)
    BY <1>1 DEF Messages
  <2>2. d.epoch \in {0, 2}
    BY <2>1, HandshakeFacts
  <2> QED BY <2>1, <2>2, HandshakeFacts DEF Epochs
<1>2. CASE d \in {AckRecord(epoch, acked) : epoch \in Epochs,
                                            acked \in SUBSET Numbers(Peer(side))}
  <2>1. PICK epoch \in Epochs, acked \in SUBSET Numbers(Peer(side)) :
           d = AckRecord(epoch, acked)
    BY <1>2
  <2> QED BY <2>1, AckRecordFacts
<1> QED BY <1>1, <1>2 DEF Datagrams

LEMMA SentDatagrams ==
    ASSUME NEW side \in Sides
    PROVE  /\ \A n \in Numbers(side) : Handshake(n) \in Datagrams(side)
           /\ \A F \in SUBSET Numbers(side) : Messages(F) \subseteq Datagrams(side)
           /\ \A epoch \in Epochs : \A acked \in SUBSET Numbers(Peer(side)) :
                 AckRecord(epoch, acked) \in Datagrams(side)
  BY DEF Datagrams, Messages

LEMMA WriteEpochType ==
    ASSUME NEW side, NEW e
    PROVE  WriteEpoch(side, e) \in Epochs
  BY DEF WriteEpoch, Epochs

-----------------------------------------------------------------------------
(* Sending.                                                                *)

LEMMA HandshakeSendEffect ==
    ASSUME NEW side \in Sides, NEW e \in Endpoint(side),
           NEW flight \in SUBSET Numbers(side),
           NEW r, r = HandshakeSend(e, flight)
    PROVE  /\ r \in Endpoint(side)
           /\ r.state = e.state /\ r.expected = e.expected /\ r.stored = e.stored
           /\ r.unified = e.unified
           /\ r.rtx = e.rtx \cup flight
           /\ r.seen = {}
           /\ r.out = e.out \cup Messages(flight)
           /\ Idle(e) => Idle(r)
<1>1. Messages(flight) \subseteq Datagrams(side)
  BY SentDatagrams
<1> QED BY <1>1 DEF HandshakeSend, Endpoint, Idle

LEMMA SendAckEffect ==
    ASSUME NEW side \in Sides, NEW e \in Endpoint(side),
           NEW r, r = SendDtls13Ack(side, e)
    PROVE  /\ r \in Endpoint(side)
           /\ SamePlace(e, r)
           /\ r.unified = e.unified /\ r.retransmit = e.retransmit
           /\ r.fast = e.fast /\ r.backoff = e.backoff
           /\ r.seen = {} /\ ~r.sendAcks
           /\ r.out = e.out \cup {AckRecord(WriteEpoch(side, e), e.seen)}
<1>1. AckRecord(WriteEpoch(side, e), e.seen) \in Datagrams(side)
  <2>1. e.seen \in SUBSET Numbers(Peer(side))
    BY DEF Endpoint
  <2> QED BY <2>1, SentDatagrams, WriteEpochType
<1> QED BY <1>1 DEF SendDtls13Ack, Endpoint, SamePlace

LEMMA RtxSendEffect ==
    ASSUME NEW side \in Sides, NEW e \in Endpoint(side), NEW skip \in BOOLEAN,
           NEW r, r = RtxSendBuffered(e, skip)
    PROVE  /\ r \in Endpoint(side)
           /\ SamePlace(e, r)
           /\ r.unified = e.unified /\ r.seen = e.seen
           /\ r.sendAcks = e.sendAcks /\ r.retransmit = e.retransmit
           /\ e.out \subseteq r.out
           /\ r.out \subseteq e.out \cup Messages(e.rtx)
<1>1. Messages(e.rtx) \subseteq Datagrams(side)
  BY SentDatagrams DEF Endpoint
<1>2. CASE skip
  BY <1>2 DEF RtxSendBuffered, SamePlace
<1>3. CASE ~skip
  BY <1>1, <1>3 DEF RtxSendBuffered, Endpoint, SamePlace
<1> QED BY <1>2, <1>3

LEMMA DoScheduledWorkEffect ==
    ASSUME NEW side \in Sides, NEW e \in Endpoint(side), NEW skip \in BOOLEAN,
           NEW r, r = DoScheduledWork(side, e, skip)
    PROVE  /\ r \in Endpoint(side)
           /\ SamePlace(e, r) /\ Idle(r)
           /\ r.unified = e.unified
           /\ r.seen = e.seen \/ r.seen = {}
           /\ e.out \subseteq r.out
           /\ r.out \subseteq e.out \cup {AckRecord(WriteEpoch(side, e), e.seen)}
                                \cup Messages(e.rtx)
           /\ ~e.sendAcks => r.out \subseteq e.out \cup Messages(e.rtx)
<1> DEFINE a == IF e.sendAcks THEN SendDtls13Ack(side, e) ELSE e
           b == [a EXCEPT !.retransmit = FALSE]
           ack == AckRecord(WriteEpoch(side, e), e.seen)
           again == Messages(e.rtx)
<1>1. /\ a \in Endpoint(side) /\ SamePlace(e, a)
      /\ a.unified = e.unified /\ ~a.sendAcks
      /\ a.seen = e.seen \/ a.seen = {}
      /\ a.out = IF e.sendAcks THEN e.out \cup {ack} ELSE e.out
  <2>1. CASE e.sendAcks
    BY <2>1, SendAckEffect
  <2>2. CASE ~e.sendAcks
    BY <2>2 DEF SamePlace
  <2> QED BY <2>1, <2>2
<1>2. /\ b \in Endpoint(side) /\ SamePlace(a, b)
      /\ b.unified = a.unified /\ b.sendAcks = a.sendAcks /\ ~b.retransmit
      /\ b.seen = a.seen /\ b.out = a.out
  <2> HIDE DEF a
  <2> QED BY <1>1 DEF Endpoint, SamePlace
<1>3. r = IF a.retransmit THEN RtxSendBuffered(b, skip) ELSE a
  BY DEF DoScheduledWork
<1> HIDE DEF a, b
<1>4. CASE a.retransmit
  <2>1. /\ r \in Endpoint(side) /\ SamePlace(b, r)
        /\ r.unified = b.unified /\ r.seen = b.seen
        /\ r.sendAcks = b.sendAcks /\ r.retransmit = b.retransmit
        /\ b.out \subseteq r.out
        /\ r.out \subseteq b.out \cup Messages(b.rtx)
    BY <1>2, <1>3, <1>4, RtxSendEffect
  <2>2. SamePlace(e, r) /\ b.rtx = e.rtx
    BY <1>1, <1>2, <2>1 DEF SamePlace
  <2>3. Idle(r) /\ r.unified = e.unified /\ (r.seen = e.seen \/ r.seen = {})
    BY <1>1, <1>2, <2>1 DEF Idle
  <2>4. e.out \subseteq r.out /\ r.out \subseteq b.out \cup again
    BY <1>1, <1>2, <2>1, <2>2
  <2> QED BY <1>1, <1>2, <2>1, <2>2, <2>3, <2>4
<1>5. CASE ~a.retransmit
  BY <1>1, <1>3, <1>5 DEF Idle
<1> QED BY <1>4, <1>5

-----------------------------------------------------------------------------
(* Receiving.                                                              *)

LEMMA DropEffect ==
    ASSUME NEW side \in Sides, NEW e \in Endpoint(side), Idle(e),
           NEW d, d.epoch \in Epochs,
           NEW r, r = Drop(side, e, d)
    PROVE  /\ r \in Endpoint(side)
           /\ SamePlace(e, r)
           /\ r.unified = (e.unified \/ d.epoch > 0)
           /\ r.seen = e.seen /\ r.out = e.out
           /\ r.sendAcks => side = "client"
<1>1. (d.epoch > 0) \in BOOLEAN
  BY DEF Epochs
<1> QED BY <1>1 DEF Drop, Endpoint, SamePlace

LEMMA AckEffect ==
    ASSUME NEW side \in Sides, NEW e \in Endpoint(side), NEW tracked,
           NEW r, r = DoDtls13Ack(side, e, tracked)
    PROVE  /\ r \in Endpoint(side)
           /\ r.expected = e.expected /\ r.stored = e.stored /\ r.seen = e.seen
           /\ r.unified = e.unified /\ r.out = e.out /\ r.sendAcks = e.sendAcks
           /\ r.rtx \subseteq e.rtx
           /\ \A n \in e.rtx : n \in r.rtx \/ n \in tracked
           /\ \/ r.state = e.state
              \/ /\ side = "client" /\ e.state = "wait_ack" /\ r.state = "connected"
                 /\ r.rtx = {}
<1> DEFINE left == e.rtx \ AckedRecords(e, tracked)
           state == IF side = "client" /\ e.state = "wait_ack" /\ FinishedAcked(left)
                      THEN "connected" ELSE e.state
<1>1. left \subseteq e.rtx /\ \A n \in e.rtx : n \in left \/ n \in tracked
  BY DEF AckedRecords
<1>2. state \in States(side)
  BY DEF Endpoint, States
<1>3. state # e.state => side = "client" /\ e.state = "wait_ack"
                           /\ state = "connected" /\ left = {}
  BY DEF FinishedAcked
<1>4. r = [[[e EXCEPT !.rtx = left] EXCEPT !.retransmit = left # {}]
             EXCEPT !.state = state]
  BY DEF DoDtls13Ack, Endpoint
<1> HIDE DEF left, state
<1>5. /\ r.rtx = left /\ r.state = state
      /\ r.expected = e.expected /\ r.stored = e.stored /\ r.seen = e.seen
      /\ r.unified = e.unified /\ r.out = e.out /\ r.sendAcks = e.sendAcks
  BY <1>4 DEF Endpoint
<1>6. r \in Endpoint(side)
  BY <1>1, <1>2, <1>4 DEF Endpoint
<1> QED BY <1>1, <1>3, <1>5, <1>6

\* A message that comes in is processed or buffered, and nothing that was is lost.
\* The buffer for retransmission is kept or, when the message is one still awaited
\* in a handshake that both sides have begun, emptied.
LEMMA HandshakeRecvEffect ==
    ASSUME NEW side \in Sides, NEW e \in Endpoint(side), Idle(e),
           NEW n \in Numbers(Peer(side)),
           NEW r, r = HandshakeRecv(side, e, n)
    PROVE  /\ r \in Endpoint(side)
           /\ r.state = e.state /\ r.unified = e.unified /\ r.out = e.out
           /\ r.seen = e.seen \cup {n}
           /\ Has(r, n) /\ \A k \in Nat : Has(e, k) => Has(r, k)
           /\ e.expected <= r.expected
           /\ r.expected > e.expected => n = e.expected
           /\ r.expected > e.expected + 1 => e.stored # {}
           /\ r.stored \subseteq e.stored \/ n > e.expected
           /\ e.expected \notin e.stored => r.expected \notin r.stored
           /\ \/ r.rtx = e.rtx
              \/ /\ r.rtx = {} /\ n >= e.expected /\ ~HandShakeDone(side, e)
                 /\ ServerHelloDone(side, e) \/ e.unified
<1> DEFINE last == Last(Peer(side))
           f == RecordRecvd(e, n)
           g == RtxMsgRecvd(side, f, n)
           h == [g EXCEPT !.backoff = 0]
           next == NextGap(h.stored, h.expected, last)
<1>1. last \in Nat /\ Numbers(Peer(side)) = 0 .. last /\ n \in 0 .. last
  BY SideFacts DEF Numbers
<1>2. /\ f \in Endpoint(side) /\ SamePlace(e, f) /\ Idle(f)
      /\ f.unified = e.unified /\ f.out = e.out /\ f.seen = e.seen \cup {n}
      /\ HandShakeDone(side, f) = HandShakeDone(side, e)
      /\ ServerHelloDone(side, f) = ServerHelloDone(side, e)
  BY DEF RecordRecvd, Endpoint, SamePlace, Idle, HandShakeDone, ServerHelloDone
<1>3. /\ g \in Endpoint(side)
      /\ g.state = e.state /\ g.expected = e.expected /\ g.stored = e.stored
      /\ g.unified = e.unified /\ g.out = e.out /\ g.seen = e.seen \cup {n}
      /\ \/ g.rtx = e.rtx
         \/ /\ g.rtx = {} /\ n >= e.expected /\ ~HandShakeDone(side, e)
            /\ ServerHelloDone(side, e) \/ e.unified
  <2> HIDE DEF f
  <2>1. f.expected = e.expected /\ e.expected \in Nat
    BY <1>1, <1>2 DEF SamePlace, Endpoint
  <2>2. CASE n < e.expected
    <3>1. g = [[f EXCEPT !.retransmit = TRUE] EXCEPT !.sendAcks = (f.seen # {})]
      BY <2>1, <2>2 DEF RtxMsgRecvd
    <3> HIDE DEF g
    <3> QED BY <1>2, <3>1 DEF Endpoint, SamePlace
  <2>3. CASE ~(n < e.expected)
    <3>1. g = f \/ /\ g = [f EXCEPT !.rtx = {}] /\ ~HandShakeDone(side, e)
                   /\ ServerHelloDone(side, e) \/ e.unified
      BY <1>2, <2>1, <2>3 DEF RtxMsgRecvd
    <3>2. n >= e.expected
      BY <1>1, <2>1, <2>3
    <3> HIDE DEF g
    <3> QED BY <1>2, <3>1, <3>2 DEF Endpoint, SamePlace
  <2> QED BY <2>2, <2>3
<1> HIDE DEF f, g
<1>4. /\ h \in Endpoint(side)
      /\ h.state = e.state /\ h.expected = e.expected /\ h.stored = e.stored
      /\ h.unified = e.unified /\ h.out = e.out /\ h.seen = e.seen \cup {n}
      /\ h.rtx = g.rtx
  BY <1>3, FlightAssumption DEF Endpoint
<1>5. r = IF n < e.expected THEN h
          ELSE IF n > e.expected THEN [h EXCEPT !.stored = @ \cup {n}]
          ELSE MsgWasProcessed(side, h)
  BY DEF HandshakeRecv, f, g
<1> HIDE DEF h
<1>6. /\ e.expected \in 0 .. last + 1 /\ e.stored \in SUBSET (0 .. last)
  BY <1>1 DEF Endpoint
<1>7. CASE n < e.expected
  <2>1. r = h
    BY <1>5, <1>7
  <2> QED BY <1>1, <1>3, <1>4, <1>6, <1>7, <2>1 DEF Has
<1>8. CASE n > e.expected
  <2>1. r = [h EXCEPT !.stored = e.stored \cup {n}]
    BY <1>1, <1>4, <1>5, <1>6, <1>8
  <2>2. /\ r \in Endpoint(side)
        /\ r.stored = e.stored \cup {n}
        /\ r.state = h.state /\ r.expected = h.expected /\ r.rtx = h.rtx
        /\ r.unified = h.unified /\ r.out = h.out /\ r.seen = h.seen
    BY <1>1, <1>4, <2>1 DEF Endpoint
  <2> QED BY <1>1, <1>3, <1>4, <1>6, <1>8, <2>2 DEF Has
<1>9. CASE n = e.expected
  <2>1. /\ next \in n + 1 .. last + 1 /\ next \notin e.stored
        /\ \A k \in n + 1 .. next - 1 : k \in e.stored
    BY <1>1, <1>4, <1>6, <1>9, NextGapFacts
  <2>2. r = MsgWasProcessed(side, h)
    BY <1>1, <1>5, <1>6, <1>9
  <2>3. /\ r = [h EXCEPT !.expected = next, !.stored = {k \in h.stored : k >= next},
                         !.sendAcks = side = "server" /\ next > ClientLast]
    BY <2>2 DEF MsgWasProcessed
  <2> HIDE DEF next
  <2>4. /\ r \in Endpoint(side)
        /\ r.expected = next /\ r.stored = {k \in e.stored : k >= next}
        /\ r.state = h.state /\ r.rtx = h.rtx
        /\ r.unified = h.unified /\ r.out = h.out /\ r.seen = h.seen
    <3> DEFINE later == {k \in h.stored : k >= next}
               finished == side = "server" /\ next > ClientLast
    <3>1. r = [h EXCEPT !.expected = next, !.stored = later, !.sendAcks = finished]
      BY <2>3
    <3>2. next \in 0 .. Last(Peer(side)) + 1
      BY <1>1, <2>1
    <3>3. later \in SUBSET Numbers(Peer(side)) /\ finished \in BOOLEAN
      BY <1>4 DEF Endpoint
    <3>4. later = {k \in e.stored : k >= next}
      BY <1>4
    <3> HIDE DEF later, finished
    <3>5. /\ r.expected = next /\ r.stored = later
          /\ r.state = h.state /\ r.rtx = h.rtx
          /\ r.unified = h.unified /\ r.out = h.out /\ r.seen = h.seen
      BY <1>4, <3>1 DEF Endpoint
    <3>6. r \in Endpoint(side)
      BY <1>4, <3>1, <3>2, <3>3 DEF Endpoint
    <3> QED BY <3>4, <3>5, <3>6
  <2>5. next > e.expected + 1 => e.stored # {}
    <3>1. next > n + 1 => n + 1 \in n + 1 .. next - 1
      BY <1>1, <2>1
    <3> QED BY <1>1, <1>9, <2>1, <3>1
  <2>6. \A k \in Nat : Has(e, k) => Has(r, k)
    BY <1>1, <1>6, <1>9, <2>1, <2>4 DEF Has
  <2> QED BY <1>1, <1>3, <1>4, <1>6, <1>9, <2>1, <2>4, <2>5, <2>6 DEF Has
<1> QED BY <1>1, <1>6, <1>7, <1>8, <1>9

\* A server without state answers the first ClientHello and starts with the second.
LEMMA ServerBeginEffect ==
    ASSUME NEW e \in Endpoint("server"), NEW n \in Nat,
           NEW r, r = ServerBegin(e, n)
    PROVE  /\ r \in Endpoint("server")
           /\ r.unified = e.unified
           /\ Idle(e) => Idle(r)
           /\ n = 0 => /\ SamePlace(e, r) /\ r.seen = e.seen
                       /\ r.out = e.out \cup {Handshake(0)}
           /\ n # 0 => Accepted(e, r)
<1>1. CASE n = 0
  <2>1. Handshake(0) \in Datagrams("server")
    BY SideFacts, SentDatagrams
  <2>2. r = [e EXCEPT !.out = e.out \cup {Handshake(0)}]
    BY <1>1 DEF ServerBegin, Endpoint
  <2> QED BY <1>1, <2>1, <2>2 DEF Endpoint, SamePlace, Idle
<1>2. CASE n # 0
  <2> DEFINE b == [e EXCEPT !.state = "accepting", !.expected = 2, !.fast = TRUE]
  <2>1. /\ b \in Endpoint("server")
        /\ b.state = "accepting" /\ b.expected = 2 /\ b.stored = e.stored
        /\ b.rtx = e.rtx /\ b.seen = e.seen /\ b.unified = e.unified
        /\ b.out = e.out /\ b.sendAcks = e.sendAcks /\ b.retransmit = e.retransmit
    <3>1. "accepting" \in States("server") /\ 2 \in 0 .. Last(Peer("server")) + 1
      BY SideFacts, FlightAssumption DEF States
    <3> QED BY <3>1 DEF Endpoint
  <2> DEFINE F == 1 .. ServerLast
  <2>2. r = HandshakeSend(b, F)
    BY <1>2 DEF ServerBegin
  <2>3. F \in SUBSET Numbers("server") /\ "server" \in Sides
    BY SideFacts
  <2> HIDE DEF b, F
  <2>4. /\ r \in Endpoint("server") /\ r.state = b.state
        /\ r.expected = b.expected /\ r.stored = b.stored
        /\ r.unified = b.unified /\ r.rtx = b.rtx \cup F /\ r.seen = {}
        /\ r.out = b.out \cup Messages(F)
        /\ Idle(b) => Idle(r)
    BY <2>1, <2>2, <2>3, HandshakeSendEffect
  <2> QED BY <1>2, <2>1, <2>4 DEF Idle, F, Accepted
<1> QED BY <1>1, <1>2

-----------------------------------------------------------------------------
(* The client's state machine and the timer.                               *)

LEMMA ClientStartEffect ==
    ASSUME NEW e \in Endpoint("client"), NEW r, r = ClientStart(e)
    PROVE  /\ r \in Endpoint("client")
           /\ r.state = "hello_sent" /\ SentFlight(e, r, {0})
<1> DEFINE b == [e EXCEPT !.state = "hello_sent"]
<1>1. /\ b \in Endpoint("client") /\ b.state = "hello_sent"
      /\ b.expected = e.expected /\ b.stored = e.stored /\ b.unified = e.unified
      /\ b.rtx = e.rtx /\ b.out = e.out
      /\ b.sendAcks = e.sendAcks /\ b.retransmit = e.retransmit
  BY DEF Endpoint, States
<1>2. r = HandshakeSend(b, {0})
  BY DEF ClientStart
<1>3. {0} \in SUBSET Numbers("client") /\ "client" \in Sides
  BY SideFacts
<1> HIDE DEF b
<1> QED BY <1>1, <1>2, <1>3, HandshakeSendEffect DEF Idle, SentFlight

\* The client's next flight: the messages it sends on reaching a state.
Flight(state) == IF state = "hello_again_reply" THEN {1} ELSE 2 .. ClientLast

LEMMA ClientProgressEffect ==
    ASSUME NEW e \in Endpoint("client"), NEW r, r = ClientProgress(e)
    PROVE  \/ r = e
           \/ /\ \/ e.state = "hello_sent" /\ r.state = "hello_again_reply"
                 \/ /\ e.state = "hello_again_reply" /\ r.state = "wait_ack"
                    /\ e.expected > ServerLast
              /\ r \in Endpoint("client")
              /\ SentFlight(e, r, Flight(r.state))
<1> DEFINE b(state) == [e EXCEPT !.state = state]
<1>1. ASSUME NEW state \in {"hello_again_reply", "wait_ack"}
      PROVE  /\ b(state) \in Endpoint("client") /\ b(state).state = state
             /\ b(state).expected = e.expected /\ b(state).stored = e.stored
             /\ b(state).unified = e.unified
             /\ b(state).rtx = e.rtx /\ b(state).out = e.out
             /\ b(state).sendAcks = e.sendAcks
             /\ b(state).retransmit = e.retransmit
  BY DEF Endpoint, States
<1>2. "client" \in Sides /\ \A state : Flight(state) \in SUBSET Numbers("client")
  BY SideFacts DEF Flight
<1> HIDE DEF b
<1>3. ASSUME NEW state \in {"hello_again_reply", "wait_ack"},
             r = HandshakeSend(b(state), Flight(state))
      PROVE  /\ r \in Endpoint("client") /\ r.state = state
             /\ SentFlight(e, r, Flight(r.state))
  <2> DEFINE F == Flight(state)
  <2>1. F \in SUBSET Numbers("client")
    BY <1>2
  <2> HIDE DEF F
  <2>2. /\ r \in Endpoint("client") /\ r.state = b(state).state
        /\ r.expected = b(state).expected /\ r.stored = b(state).stored
        /\ r.unified = b(state).unified
        /\ r.rtx = b(state).rtx \cup F /\ r.seen = {}
        /\ r.out = b(state).out \cup Messages(F)
        /\ Idle(b(state)) => Idle(r)
    BY <1>1, <1>2, <1>3, <2>1, HandshakeSendEffect DEF F
  <2> QED BY <1>1, <2>2 DEF Idle, F, SentFlight
<1>4. CASE e.state = "hello_sent" /\ e.expected = 1
  <2>1. r = HandshakeSend(b("hello_again_reply"), Flight("hello_again_reply"))
    BY <1>4 DEF ClientProgress, Flight, b
  <2> QED BY <1>3, <1>4, <2>1
<1>5. CASE e.state = "hello_again_reply" /\ FlightComplete(e)
  <2>1. r = HandshakeSend(b("wait_ack"), Flight("wait_ack"))
    BY <1>5 DEF ClientProgress, Flight, b
  <2> QED BY <1>3, <1>5, <2>1 DEF FlightComplete
<1>6. CASE /\ ~(e.state = "hello_sent" /\ e.expected = 1)
           /\ ~(e.state = "hello_again_reply" /\ FlightComplete(e))
  BY <1>6 DEF ClientProgress
<1> QED BY <1>4, <1>5, <1>6

LEMMA RtxTimeoutEffect ==
    ASSUME NEW side \in Sides, NEW e \in Endpoint(side),
           NEW r, r = RtxTimeout(side, e)
    PROVE  /\ r \in Endpoint(side)
           /\ SamePlace(e, r)
           /\ Idle(e) => Idle(r)
           /\ r.unified = e.unified
           /\ r.seen = e.seen \/ r.seen = {}
           /\ e.out \subseteq r.out
           /\ r.out \subseteq e.out \cup {AckRecord(WriteEpoch(side, e), e.seen)}
                                \cup Messages(e.rtx)
<1> DEFINE s == SendDtls13Ack(side, e)
           a == IF e.seen # {} /\ (ServerHelloDone(side, e) \/ e.unified)
                  THEN [s EXCEPT !.fast = FALSE] ELSE e
           ack == AckRecord(WriteEpoch(side, e), e.seen)
           again == Messages(e.rtx)
<1>1. /\ s \in Endpoint(side) /\ SamePlace(e, s)
      /\ s.unified = e.unified /\ s.retransmit = e.retransmit
      /\ s.seen = {} /\ ~s.sendAcks /\ s.out = e.out \cup {ack}
  BY SendAckEffect
<1> HIDE DEF s
<1>2. /\ a \in Endpoint(side) /\ SamePlace(e, a)
      /\ a.unified = e.unified /\ (Idle(e) => Idle(a))
      /\ a.seen = e.seen \/ a.seen = {}
      /\ e.out \subseteq a.out /\ a.out \subseteq e.out \cup {ack}
  <2>1. CASE a = [s EXCEPT !.fast = FALSE]
    <3> HIDE DEF a
    <3> QED BY <1>1, <2>1 DEF Endpoint, SamePlace, Idle
  <2>2. CASE a = e
    BY <2>2 DEF SamePlace
  <2> QED BY <2>1, <2>2
<1>3. r = IF a.fast THEN [a EXCEPT !.fast = FALSE]
          ELSE IF a.backoff = MaxBackoff THEN a
          ELSE RtxSendBuffered([a EXCEPT !.backoff = @ + 1], FALSE)
  BY DEF RtxTimeout, s
<1> HIDE DEF a, ack
<1>4. CASE a.fast
  <2>1. r = [a EXCEPT !.fast = FALSE]
    BY <1>3, <1>4
  <2> QED BY <1>2, <2>1 DEF Endpoint, SamePlace, Idle, ack
<1>5. CASE ~a.fast /\ a.backoff = MaxBackoff
  BY <1>2, <1>3, <1>5 DEF ack
<1>6. CASE ~a.fast /\ a.backoff # MaxBackoff
  <2> DEFINE b == [a EXCEPT !.backoff = @ + 1]
  <2>1. /\ b \in Endpoint(side) /\ SamePlace(a, b)
        /\ b.unified = a.unified /\ b.seen = a.seen /\ b.out = a.out
        /\ b.sendAcks = a.sendAcks /\ b.retransmit = a.retransmit
    BY <1>2, <1>6, FlightAssumption DEF Endpoint, SamePlace
  <2>2. r = RtxSendBuffered(b, FALSE)
    BY <1>3, <1>6
  <2> HIDE DEF b
  <2>3. /\ r \in Endpoint(side) /\ SamePlace(b, r)
        /\ r.unified = b.unified /\ r.seen = b.seen
        /\ r.sendAcks = b.sendAcks /\ r.retransmit = b.retransmit
        /\ b.out \subseteq r.out
        /\ r.out \subseteq b.out \cup Messages(b.rtx)
    BY <2>1, <2>2, RtxSendEffect
  <2>4. SamePlace(e, r) /\ b.rtx = e.rtx
    BY <1>2, <2>1, <2>3 DEF SamePlace
  <2>5. e.out \subseteq r.out /\ r.out \subseteq e.out \cup {ack} \cup again
    BY <1>2, <2>1, <2>3, <2>4
  <2> QED BY <1>2, <2>1, <2>3, <2>4, <2>5 DEF Idle, ack
<1> QED BY <1>4, <1>5, <1>6


-----------------------------------------------------------------------------
(* The invariant.                                                          *)

Typed(c, s, sc, ss) ==
    /\ c \in Endpoint("client") /\ s \in Endpoint("server")
    /\ sc \subseteq Datagrams("client") /\ ss \subseteq Datagrams("server")

\* What a side has put on the network is still in its buffer or with the peer.
ClientKept(c, s, sc) ==
    \A n \in 0 .. ClientLast : Handshake(n) \in sc => n \in c.rtx \/ Has(s, n)
ServerKept(c, s, ss) ==
    \A n \in 1 .. ServerLast : Handshake(n) \in ss => n \in s.rtx \/ Has(c, n)

\* Acknowledged and about to be acknowledged: processed or buffered.
Truthful(e, out) == /\ \A k \in e.seen : Has(e, k)
                    /\ \A d \in out : \A k \in d.acked : Has(e, k)

\* The next message is not in the buffer, a buffered one for retransmission was sent.
Orderly(e, out) == /\ e.expected \notin e.stored
                   /\ \A n \in e.rtx : Handshake(n) \in out

\* A server without state has received nothing and sent HelloRetryRequests only; one
\* with state has the two ClientHellos and has sent its whole flight.
ServerBegun(s, ss) ==
    /\ s.state = "begin" => /\ s.expected = 0 /\ s.stored = {} /\ s.seen = {}
                            /\ s.rtx = {} /\ ss \subseteq {Handshake(0)}
    /\ s.state # "begin" => /\ s.expected >= 2
                            /\ \A n \in 1 .. ServerLast : Handshake(n) \in ss

\* More than a HelloRetryRequest has reached the client only if the server has state.
ClientHeard(c, s) ==
    c.expected > 1 \/ c.stored # {} \/ c.unified => s.state # "begin"

\* The client's flights: each goes out in one call, the last after the server's.
ClientFlights(c, sc) ==
    /\ c.state = "start" => sc = {}
    /\ c.state \in {"hello_sent", "hello_again_reply"} => Handshake(0) \in sc
    /\ c.state = "hello_again_reply" => Handshake(1) \in sc
    /\ c.state \in {"wait_ack", "connected"}
          => \A n \in 0 .. ClientLast : Handshake(n) \in sc
    /\ \A n \in 2 .. ClientLast :
          Handshake(n) \in sc => /\ c.state \in {"wait_ack", "connected", "failed"}
                                 /\ c.expected = ServerLast + 1
                                 /\ Handshake(ClientLast) \in sc

Agreed(c, s) ==
    c.state = "connected" => /\ s.expected > ClientLast
                             /\ c.expected = ServerLast + 1
                             /\ c.rtx = {}

Inv(c, s, sc, ss) ==
    /\ Typed(c, s, sc, ss)
    /\ ClientKept(c, s, sc) /\ ServerKept(c, s, ss)
    /\ Truthful(c, sc) /\ Truthful(s, ss)
    /\ Orderly(c, sc) /\ Orderly(s, ss)
    /\ ServerBegun(s, ss) /\ ClientHeard(c, s)
    /\ ClientFlights(c, sc) /\ Agreed(c, s)

IInv == /\ TypeOK
        /\ Inv(ep["client"], ep["server"], sent["client"], sent["server"])

-----------------------------------------------------------------------------
(* Steps that neither receive nor begin anything.                          *)

\* The client has sent, at most, acknowledgements of what it has received.
LEMMA ClientQuiet ==
    ASSUME NEW c, NEW s, NEW sc, NEW ss, Inv(c, s, sc, ss),
           NEW c2 \in Endpoint("client"), NEW sc2 \in SUBSET Datagrams("client"),
           SamePlace(c, c2), c2.seen \subseteq c.seen,
           c2.unified => c.unified \/ s.state # "begin",
           sc \subseteq sc2,
           \A d \in sc2 \ sc : d.acked \subseteq c.seen /\ \A n : d # Handshake(n),
           c.state = "start" => sc2 = sc
    PROVE  Inv(c2, s, sc2, ss)
<1>1. /\ c2.state = c.state /\ c2.expected = c.expected /\ c2.stored = c.stored
      /\ c2.rtx = c.rtx
  BY DEF SamePlace
<1>2. \A n : Handshake(n) \in sc2 <=> Handshake(n) \in sc
  OBVIOUS
<1>3. \A k : Has(c2, k) <=> Has(c, k)
  BY <1>1 DEF Has
<1>4. Typed(c2, s, sc2, ss)
  BY DEF Inv, Typed
<1>5. ClientKept(c2, s, sc2) /\ ServerKept(c2, s, ss)
  BY <1>1, <1>2, <1>3 DEF Inv, ClientKept, ServerKept
<1>6. Truthful(c2, sc2)
  BY <1>3 DEF Inv, Truthful
<1>7. Orderly(c2, sc2)
  BY <1>1, <1>2 DEF Inv, Orderly
<1>8. ClientHeard(c2, s)
  BY <1>1 DEF Inv, ClientHeard
<1>9. ClientFlights(c2, sc2)
  BY <1>1, <1>2 DEF Inv, ClientFlights
<1>10. Agreed(c2, s)
  BY <1>1 DEF Inv, Agreed
<1> QED BY <1>4, <1>5, <1>6, <1>7, <1>8, <1>9, <1>10 DEF Inv

\* The same of the server; without state it has sent nothing.
LEMMA ServerQuiet ==
    ASSUME NEW c, NEW s, NEW sc, NEW ss, Inv(c, s, sc, ss),
           NEW s2 \in Endpoint("server"), NEW ss2 \in SUBSET Datagrams("server"),
           SamePlace(s, s2), s2.seen \subseteq s.seen,
           ss \subseteq ss2,
           \A d \in ss2 \ ss : d.acked \subseteq s.seen /\ \A n : d # Handshake(n),
           s.state = "begin" => ss2 = ss
    PROVE  Inv(c, s2, sc, ss2)
<1>1. /\ s2.state = s.state /\ s2.expected = s.expected /\ s2.stored = s.stored
      /\ s2.rtx = s.rtx
  BY DEF SamePlace
<1>2. \A n : Handshake(n) \in ss2 <=> Handshake(n) \in ss
  OBVIOUS
<1>3. \A k : Has(s2, k) <=> Has(s, k)
  BY <1>1 DEF Has
<1>4. Typed(c, s2, sc, ss2)
  BY DEF Inv, Typed
<1>5. ClientKept(c, s2, sc) /\ ServerKept(c, s2, ss2)
  BY <1>1, <1>2, <1>3 DEF Inv, ClientKept, ServerKept
<1>6. Truthful(s2, ss2)
  BY <1>3 DEF Inv, Truthful
<1>7. Orderly(s2, ss2)
  BY <1>1, <1>2 DEF Inv, Orderly
<1>8. ServerBegun(s2, ss2) /\ ClientHeard(c, s2)
  BY <1>1, <1>2 DEF Inv, ServerBegun, ClientHeard
<1>9. Agreed(c, s2)
  BY <1>1 DEF Inv, Agreed
<1> QED BY <1>4, <1>5, <1>6, <1>7, <1>8, <1>9 DEF Inv

\* Of what a side sends again or acknowledges, the ACK alone can be new.
LEMMA QuietOutput ==
    ASSUME NEW e, NEW old, Orderly(e, old), NEW epoch,
           NEW d \in {AckRecord(epoch, e.seen)} \cup Messages(e.rtx),
           d \notin old
    PROVE  d.acked \subseteq e.seen /\ \A n : d # Handshake(n)
<1>1. d = AckRecord(epoch, e.seen)
  BY DEF Orderly, Messages
<1> QED BY <1>1, AckRecordFacts

\* The scheduled work of the client; sc counts in what the call has sent.
LEMMA ClientWork ==
    ASSUME NEW c, NEW s, NEW sc, NEW ss, Inv(c, s, sc, ss), c.out \subseteq sc,
           c.state # "start", NEW skip \in BOOLEAN,
           NEW r, r = DoScheduledWork("client", c, skip)
    PROVE  /\ Inv(r, s, sc \cup r.out, ss)
           /\ r.state = c.state /\ r.expected = c.expected /\ Idle(r)
           /\ \A n : Handshake(n) \in r.out => Handshake(n) \in sc
<1>1. /\ c \in Endpoint("client") /\ sc \subseteq Datagrams("client")
      /\ "client" \in Sides /\ Orderly(c, sc)
  BY SideFacts DEF Inv, Typed
<1>2. /\ r \in Endpoint("client") /\ SamePlace(c, r) /\ Idle(r)
      /\ r.unified = c.unified /\ (r.seen = c.seen \/ r.seen = {})
      /\ r.out \subseteq c.out \cup {AckRecord(WriteEpoch("client", c), c.seen)}
                           \cup Messages(c.rtx)
  BY <1>1, DoScheduledWorkEffect
<1>3. \A d \in r.out \ sc : d.acked \subseteq c.seen /\ \A n : d # Handshake(n)
  <2> SUFFICES ASSUME NEW d \in r.out \ sc
               PROVE  d.acked \subseteq c.seen /\ \A n : d # Handshake(n)
    OBVIOUS
  <2>1. d \in {AckRecord(WriteEpoch("client", c), c.seen)}
                \cup Messages(c.rtx)
    BY <1>2
  <2> QED BY <1>1, <2>1, QuietOutput
<1>4. sc \cup r.out \in SUBSET Datagrams("client")
  BY <1>1, <1>2 DEF Endpoint
<1>5. Inv(r, s, sc \cup r.out, ss)
  <2> DEFINE sc2 == sc \cup r.out
  <2>1. /\ sc2 \in SUBSET Datagrams("client") /\ sc \subseteq sc2
        /\ \A d \in sc2 \ sc : d.acked \subseteq c.seen /\ \A n : d # Handshake(n)
    BY <1>3, <1>4
  <2> HIDE DEF sc2
  <2>2. Inv(r, s, sc2, ss)
    BY <1>2, <2>1, ClientQuiet
  <2> QED BY <2>2 DEF sc2
<1> QED BY <1>2, <1>3, <1>5 DEF SamePlace

\* The scheduled work of the server.
LEMMA ServerWork ==
    ASSUME NEW c, NEW s, NEW sc, NEW ss, Inv(c, s, sc, ss), s.out \subseteq ss,
           s.state = "begin" => ~s.sendAcks, NEW skip \in BOOLEAN,
           NEW r, r = DoScheduledWork("server", s, skip)
    PROVE  /\ Inv(c, r, sc, ss \cup r.out)
           /\ r.state = s.state /\ r.expected = s.expected /\ Idle(r)
           /\ \A n : Handshake(n) \in r.out => Handshake(n) \in ss
<1>1. /\ s \in Endpoint("server") /\ ss \subseteq Datagrams("server")
      /\ "server" \in Sides /\ Orderly(s, ss)
  BY SideFacts DEF Inv, Typed
<1>2. /\ r \in Endpoint("server") /\ SamePlace(s, r) /\ Idle(r)
      /\ (r.seen = s.seen \/ r.seen = {})
      /\ r.out \subseteq s.out \cup {AckRecord(WriteEpoch("server", s), s.seen)}
                           \cup Messages(s.rtx)
      /\ ~s.sendAcks => r.out \subseteq s.out \cup Messages(s.rtx)
  BY <1>1, DoScheduledWorkEffect
<1>3. \A d \in r.out \ ss : d.acked \subseteq s.seen /\ \A n : d # Handshake(n)
  <2> SUFFICES ASSUME NEW d \in r.out \ ss
               PROVE  d.acked \subseteq s.seen /\ \A n : d # Handshake(n)
    OBVIOUS
  <2>1. d \in {AckRecord(WriteEpoch("server", s), s.seen)}
                \cup Messages(s.rtx)
    BY <1>2
  <2> QED BY <1>1, <2>1, QuietOutput
<1>4. ss \cup r.out \in SUBSET Datagrams("server")
  BY <1>1, <1>2 DEF Endpoint
<1>5. s.state = "begin" => r.out \subseteq ss
  BY <1>1, <1>2 DEF Orderly, Messages
<1>6. Inv(c, r, sc, ss \cup r.out)
  <2> DEFINE ss2 == ss \cup r.out
  <2>1. /\ ss2 \in SUBSET Datagrams("server") /\ ss \subseteq ss2
        /\ \A d \in ss2 \ ss : d.acked \subseteq s.seen /\ \A n : d # Handshake(n)
        /\ s.state = "begin" => ss2 = ss
    BY <1>3, <1>4, <1>5
  <2> HIDE DEF ss2
  <2>2. Inv(c, r, sc, ss2)
    BY <1>2, <2>1, ServerQuiet
  <2> QED BY <2>2 DEF ss2
<1> QED BY <1>2, <1>3, <1>6 DEF SamePlace

-----------------------------------------------------------------------------
(* The client receives.                                                    *)

\* An ACK takes out of the buffer only what the server has; if that is everything,
\* the server has processed the client's Finished.
LEMMA ClientAck ==
    ASSUME NEW c, NEW s, NEW sc, NEW ss, Inv(c, s, sc, ss),
           NEW tracked, \A n \in tracked : Has(s, n),
           NEW r, r = DoDtls13Ack("client", c, tracked)
    PROVE  Inv(r, s, sc, ss)
<1>1. /\ c \in Endpoint("client") /\ s \in Endpoint("server") /\ "client" \in Sides
  BY SideFacts DEF Inv, Typed
<1>2. /\ r \in Endpoint("client")
      /\ r.expected = c.expected /\ r.stored = c.stored /\ r.seen = c.seen
      /\ r.unified = c.unified
      /\ r.rtx \subseteq c.rtx
      /\ \A n \in c.rtx : n \in r.rtx \/ n \in tracked
      /\ \/ r.state = c.state
         \/ c.state = "wait_ack" /\ r.state = "connected" /\ r.rtx = {}
  BY <1>1, AckEffect
<1>3. \A k : Has(r, k) <=> Has(c, k)
  BY <1>2 DEF Has
<1>4. Typed(r, s, sc, ss)
  BY <1>2 DEF Inv, Typed
<1>5. ClientKept(r, s, sc) /\ ServerKept(r, s, ss)
  BY <1>2, <1>3 DEF Inv, ClientKept, ServerKept
<1>6. Truthful(r, sc) /\ Orderly(r, sc) /\ ClientHeard(r, s)
  BY <1>2, <1>3 DEF Inv, Truthful, Orderly, ClientHeard
<1>7. ClientFlights(r, sc)
  BY <1>2 DEF Inv, ClientFlights
<1>8. Agreed(r, s)
  <2>1. CASE r.state = c.state
    BY <1>2, <2>1 DEF Inv, Agreed
  <2>2. CASE c.state = "wait_ack" /\ r.state = "connected" /\ r.rtx = {}
    <3>1. \A n \in 0 .. ClientLast : Handshake(n) \in sc
      BY <2>2 DEF Inv, ClientFlights
    <3>2. \A n \in 0 .. ClientLast : Has(s, n)
      BY <1>5, <2>2, <3>1 DEF ClientKept
    <3>3. s.expected \notin s.stored /\ s.expected \in 0 .. ClientLast + 1
      BY <1>1, SideFacts DEF Inv, Orderly, Endpoint
    <3>4. s.expected > ClientLast
      BY <3>2, <3>3, FlightAssumption DEF Has
    <3>5. ClientLast \in 2 .. ClientLast
      BY FlightAssumption
    <3>6. c.expected = ServerLast + 1
      BY <3>1, <3>5, FlightAssumption DEF Inv, ClientFlights
    <3> QED BY <1>2, <2>2, <3>4, <3>6 DEF Agreed
  <2> QED BY <1>2, <2>1, <2>2
<1> QED BY <1>4, <1>5, <1>6, <1>7, <1>8 DEF Inv

\* A handshake message empties the client's buffer only while the buffer holds
\* nothing but ClientHellos and the server has begun, hence has both.
LEMMA ClientRecv ==
    ASSUME NEW c, NEW s, NEW sc, NEW ss, Inv(c, s, sc, ss), Idle(c),
           c.state \notin {"start", "failed"},
           NEW n \in 0 .. ServerLast, Handshake(n) \in ss,
           NEW r, r = HandshakeRecv("client", c, n)
    PROVE  Inv(r, s, sc, ss)
<1>1. /\ c \in Endpoint("client") /\ s \in Endpoint("server")
      /\ "client" \in Sides /\ n \in Numbers(Peer("client"))
  BY SideFacts DEF Inv, Typed
<1>2. /\ r \in Endpoint("client")
      /\ r.state = c.state /\ r.unified = c.unified /\ r.seen = c.seen \cup {n}
      /\ Has(r, n) /\ \A k \in Nat : Has(c, k) => Has(r, k)
      /\ c.expected <= r.expected
      /\ r.expected > c.expected => n = c.expected
      /\ r.expected > c.expected + 1 => c.stored # {}
      /\ r.stored \subseteq c.stored \/ n > c.expected
      /\ c.expected \notin c.stored => r.expected \notin r.stored
      /\ \/ r.rtx = c.rtx
         \/ /\ r.rtx = {} /\ n >= c.expected /\ ~HandShakeDone("client", c)
            /\ ServerHelloDone("client", c) \/ c.unified
  BY <1>1, HandshakeRecvEffect
<1>3. /\ c.expected \in 0 .. ServerLast + 1 /\ r.expected \in 0 .. ServerLast + 1
      /\ c.seen \subseteq 0 .. ServerLast
  BY <1>1, <1>2, SideFacts DEF Endpoint
<1>4. Typed(r, s, sc, ss)
  BY <1>2 DEF Inv, Typed
<1>5. ClientKept(r, s, sc)
  <2>1. CASE r.rtx = c.rtx
    BY <2>1 DEF Inv, ClientKept
  <2>2. CASE ~HandShakeDone("client", c) /\ (ServerHelloDone("client", c) \/ c.unified)
    <3>1. s.expected >= 2
      BY <2>2 DEF ServerHelloDone, Inv, ClientHeard, ServerBegun
    <3>2. c.state \notin {"wait_ack", "connected", "failed"}
      BY <2>2 DEF HandShakeDone
    <3>3. \A k \in 0 .. ClientLast : Handshake(k) \in sc => k < 2
      BY <3>2 DEF Inv, ClientFlights
    <3>4. s.expected \in Nat
      BY <1>1, SideFacts DEF Endpoint
    <3> QED BY <3>1, <3>3, <3>4 DEF ClientKept, Has
  <2> QED BY <1>2, <2>1, <2>2
<1>6. ServerKept(r, s, ss)
  BY <1>2 DEF Inv, ServerKept
<1>7. Truthful(r, sc)
  <2>1. \A k \in r.seen : Has(r, k)
    BY <1>2, <1>3 DEF Inv, Truthful
  <2>2. \A d \in sc : d.acked \subseteq Nat
    <3>1. \A d \in sc : d.acked \subseteq Numbers("server")
      BY DatagramCases, SideFacts DEF Inv, Typed
    <3> QED BY <3>1, SideFacts
  <2> QED BY <1>2, <2>1, <2>2 DEF Inv, Truthful
<1>8. Orderly(r, sc)
  BY <1>2 DEF Inv, Orderly
<1>9. ClientHeard(r, s)
  <2>1. n > 0 => s.state # "begin"
    <3>1. Handshake(n) = Handshake(0) => n = 0
      BY HandshakeFacts
    <3> QED BY <3>1 DEF Inv, ServerBegun
  <2>2. r.expected > 1 => s.state # "begin"
    BY <1>2, <1>3, <2>1 DEF Inv, ClientHeard
  <2>3. r.stored # {} => s.state # "begin"
    BY <1>2, <1>3, <2>1 DEF Inv, ClientHeard
  <2> QED BY <1>2, <2>2, <2>3 DEF Inv, ClientHeard
<1>10. ClientFlights(r, sc)
  BY <1>2, <1>3 DEF Inv, ClientFlights
<1>11. Agreed(r, s)
  BY <1>2, <1>3 DEF Inv, Agreed
<1> QED BY <1>4, <1>5, <1>6, <1>7, <1>8, <1>9, <1>10, <1>11 DEF Inv

-----------------------------------------------------------------------------
(* The server receives.                                                    *)

LEMMA ServerAck ==
    ASSUME NEW c, NEW s, NEW sc, NEW ss, Inv(c, s, sc, ss),
           NEW tracked, \A n \in tracked : Has(c, n),
           NEW r, r = DoDtls13Ack("server", s, tracked)
    PROVE  Inv(c, r, sc, ss) /\ r.state = s.state
<1>1. s \in Endpoint("server") /\ "server" \in Sides
  BY SideFacts DEF Inv, Typed
<1>2. /\ r \in Endpoint("server")
      /\ r.expected = s.expected /\ r.stored = s.stored /\ r.seen = s.seen
      /\ r.state = s.state
      /\ r.rtx \subseteq s.rtx
      /\ \A n \in s.rtx : n \in r.rtx \/ n \in tracked
  BY <1>1, AckEffect
<1>3. \A k : Has(r, k) <=> Has(s, k)
  BY <1>2 DEF Has
<1>4. Typed(c, r, sc, ss)
  BY <1>2 DEF Inv, Typed
<1>5. ClientKept(c, r, sc) /\ ServerKept(c, r, ss)
  BY <1>2, <1>3 DEF Inv, ClientKept, ServerKept
<1>6. Truthful(r, ss) /\ Orderly(r, ss)
  BY <1>2, <1>3 DEF Inv, Truthful, Orderly
<1>7. ServerBegun(r, ss) /\ ClientHeard(c, r) /\ Agreed(c, r)
  BY <1>2 DEF Inv, ServerBegun, ClientHeard, Agreed
<1> QED BY <1>2, <1>4, <1>5, <1>6, <1>7 DEF Inv

\* A message of the client's last flight empties the server's buffer: the client
\* sends it only when it has the whole flight of the server.
LEMMA ServerRecv ==
    ASSUME NEW c, NEW s, NEW sc, NEW ss, Inv(c, s, sc, ss), Idle(s),
           s.state # "begin",
           NEW n \in 2 .. ClientLast, Handshake(n) \in sc,
           NEW r, r = HandshakeRecv("server", s, n)
    PROVE  Inv(c, r, sc, ss) /\ r.state = s.state
<1>1. /\ c \in Endpoint("client") /\ s \in Endpoint("server")
      /\ "server" \in Sides /\ n \in Numbers(Peer("server"))
  BY SideFacts, FlightAssumption DEF Inv, Typed
<1>2. /\ r \in Endpoint("server")
      /\ r.state = s.state /\ r.seen = s.seen \cup {n}
      /\ Has(r, n) /\ \A k \in Nat : Has(s, k) => Has(r, k)
      /\ s.expected <= r.expected
      /\ s.expected \notin s.stored => r.expected \notin r.stored
      /\ r.rtx = s.rtx \/ r.rtx = {}
  BY <1>1, HandshakeRecvEffect
<1>3. /\ s.expected \in 0 .. ClientLast + 1 /\ r.expected \in 0 .. ClientLast + 1
      /\ s.seen \subseteq 0 .. ClientLast
  BY <1>1, <1>2, SideFacts DEF Endpoint
<1>4. c.expected = ServerLast + 1
  BY DEF Inv, ClientFlights
<1>5. Typed(c, r, sc, ss)
  BY <1>2 DEF Inv, Typed
<1>6. ClientKept(c, r, sc)
  BY <1>2 DEF Inv, ClientKept
<1>7. ServerKept(c, r, ss)
  BY <1>4, FlightAssumption DEF ServerKept, Has
<1>8. Truthful(r, ss)
  <2>1. \A k \in r.seen : Has(r, k)
    BY <1>2, <1>3 DEF Inv, Truthful
  <2>2. \A d \in ss : d.acked \subseteq Nat
    <3>1. \A d \in ss : d.acked \subseteq Numbers("client")
      BY DatagramCases, SideFacts DEF Inv, Typed
    <3> QED BY <3>1, SideFacts
  <2> QED BY <1>2, <2>1, <2>2 DEF Inv, Truthful
<1>9. Orderly(r, ss)
  BY <1>2 DEF Inv, Orderly
<1>10. ServerBegun(r, ss) /\ ClientHeard(c, r)
  BY <1>2, <1>3 DEF Inv, ServerBegun, ClientHeard
<1>11. Agreed(c, r)
  BY <1>2, <1>3, FlightAssumption DEF Inv, Agreed
<1> QED BY <1>2, <1>5, <1>6, <1>7, <1>8, <1>9, <1>10, <1>11 DEF Inv

\* The answer to a ClientHello: a HelloRetryRequest, or the state and the flight.
LEMMA ServerBegins ==
    ASSUME NEW c, NEW s, NEW sc, NEW ss, Inv(c, s, sc, ss),
           s.state = "begin", s.out = {},
           NEW n \in {0, 1},
           NEW r, r = ServerBegin(s, n)
    PROVE  /\ Inv(c, r, sc, ss \cup r.out)
           /\ Idle(s) => Idle(r)
           /\ n = 0 => r.state = "begin" /\ r.expected = s.expected
                       /\ r.out = {Handshake(0)}
           /\ n = 1 => r.state = "accepting" /\ r.expected = 2
<1> DEFINE F == IF n = 0 THEN {0} ELSE 1 .. ServerLast
           out == Messages(F)
<1>1. /\ s \in Endpoint("server") /\ s.expected = 0 /\ s.stored = {} /\ s.seen = {}
      /\ s.rtx = {} /\ ss \subseteq {Handshake(0)}
  BY DEF Inv, Typed, ServerBegun
<1>2. /\ r \in Endpoint("server") /\ (Idle(s) => Idle(r))
      /\ n = 0 => SamePlace(s, r) /\ r.seen = s.seen /\ r.out = {Handshake(0)}
      /\ n = 1 => /\ r.state = "accepting" /\ r.expected = 2 /\ r.stored = {}
                  /\ r.seen = {} /\ r.rtx = 1 .. ServerLast
                  /\ r.out = Messages(1 .. ServerLast)
  <2>1. /\ r \in Endpoint("server") /\ (Idle(s) => Idle(r))
        /\ n = 0 => SamePlace(s, r) /\ r.seen = s.seen
                    /\ r.out = s.out \cup {Handshake(0)}
        /\ n # 0 => Accepted(s, r)
    <3>1. n \in Nat
      OBVIOUS
    <3> QED BY <1>1, <3>1, ServerBeginEffect
  <2> DEFINE flight == 1 .. ServerLast
             messages == Messages(1 .. ServerLast)
  <2>2. n # 0 => /\ r.state = "accepting" /\ r.expected = 2 /\ r.stored = s.stored
                  /\ r.seen = {} /\ r.rtx = s.rtx \cup flight
                  /\ r.out = s.out \cup messages
    BY <2>1 DEF Accepted
  <2> HIDE DEF flight, messages
  <2>3. n # 0 => r.rtx = flight /\ r.out = messages
    BY <1>1, <2>2
  <2>4. n = 0 => r.out = {Handshake(0)}
    BY <2>1
  <2>5. n = 1 => /\ r.state = "accepting" /\ r.expected = 2 /\ r.stored = {}
                 /\ r.seen = {}
    BY <1>1, <2>2
  <2> QED BY <2>1, <2>3, <2>4, <2>5 DEF flight, messages
<1>3. r.out = out
  <2>1. Messages({0}) = {Handshake(0)}
    BY DEF Messages
  <2> QED BY <1>2, <2>1
<1>4. /\ \A k : Handshake(k) \in ss \cup out <=> Handshake(k) \in ss \/ k \in F
      /\ \A d \in ss \cup out : d \in ss \/ d.acked = {}
  <2> HIDE DEF F
  <2> QED BY FlightFacts
<1> HIDE DEF out
<1>5. \A k : Handshake(k) \in ss => k = 0
  <2>1. \A k : Handshake(k) = Handshake(0) => k = 0
    BY HandshakeFacts
  <2> QED BY <1>1, <2>1
<1>6. Typed(c, r, sc, ss \cup out)
  BY <1>2, <1>3 DEF Inv, Typed, Endpoint
<1>7. \A k \in Nat : Has(s, k) => Has(r, k)
  BY <1>1 DEF Has
<1>8. ClientKept(c, r, sc)
  BY <1>7 DEF Inv, ClientKept
<1>9. ServerKept(c, r, ss \cup out)
  <2>1. ASSUME NEW k \in 1 .. ServerLast, Handshake(k) \in ss \cup out
        PROVE  k \in r.rtx
    <3>1. k \in F /\ k # 0
      BY <1>4, <1>5, <2>1
    <3> QED BY <1>2, <3>1
  <2> QED BY <2>1 DEF ServerKept
<1>10. Truthful(r, ss \cup out)
  <2>1. \A d \in ss : d.acked = {}
    BY <1>1, HandshakeFacts
  <2>2. r.seen = {}
    BY <1>1, <1>2
  <2> QED BY <1>4, <2>1, <2>2 DEF Truthful
<1>11. Orderly(r, ss \cup out)
  BY <1>1, <1>2, <1>4 DEF Orderly, SamePlace
<1>12. ServerBegun(r, ss \cup out)
  <2>1. CASE n = 0
    BY <1>1, <1>2, <1>3, <2>1 DEF ServerBegun, SamePlace
  <2>2. CASE n = 1
    BY <1>2, <1>4, <2>2 DEF ServerBegun
  <2> QED BY <2>1, <2>2
<1>13. ClientHeard(c, r)
  BY DEF Inv, ClientHeard
<1>14. Agreed(c, r)
  BY <1>1, FlightAssumption DEF Inv, Agreed
<1>15. Inv(c, r, sc, ss \cup out)
  BY <1>6, <1>8, <1>9, <1>10, <1>11, <1>12, <1>13, <1>14 DEF Inv
<1> QED BY <1>2, <1>3, <1>15 DEF SamePlace

-----------------------------------------------------------------------------
(* The client's state machine.                                             *)

\* A flight goes out and into the buffer.
LEMMA ClientSends ==
    ASSUME NEW c, NEW s, NEW sc, NEW ss, Inv(c, s, sc, ss),
           c.out \subseteq sc,
           NEW F \in SUBSET (0 .. ClientLast),
           NEW r \in Endpoint("client"), SentFlight(c, r, F),
           r.state \notin {"start", "connected"},
           r.state \in {"hello_sent", "hello_again_reply"}
              => F \subseteq {0, 1} /\ c.state \in {"start", "hello_sent"}
                 /\ (0 \in F \/ c.state = "hello_sent"),
           r.state = "hello_again_reply" => 1 \in F,
           r.state = "wait_ack" => /\ F = 2 .. ClientLast /\ c.expected = ServerLast + 1
                                   /\ c.state = "hello_again_reply",
           r.state # "failed"
    PROVE  /\ Inv(r, s, sc \cup r.out, ss)
           /\ \A k : Handshake(k) \in sc \cup r.out <=> Handshake(k) \in sc \/ k \in F
<1> DEFINE sc2 == sc \cup r.out
<1>1. /\ \A k : Handshake(k) \in sc2 <=> Handshake(k) \in sc \/ k \in F
      /\ \A d \in sc2 : d \in sc \/ d.acked = {}
      /\ sc \subseteq sc2
  <2>1. sc2 = sc \cup Messages(F)
    BY DEF SentFlight
  <2> HIDE DEF sc2
  <2> QED BY <2>1, FlightFacts
<1>2. Typed(r, s, sc2, ss)
  BY DEF Inv, Typed, Endpoint
<1> HIDE DEF sc2
<1>3. /\ r.expected = c.expected /\ r.stored = c.stored /\ r.unified = c.unified
      /\ r.rtx = c.rtx \cup F /\ r.seen = {}
      /\ \A k : Has(r, k) <=> Has(c, k)
  BY DEF Has, SentFlight
<1>4. ClientKept(r, s, sc2) /\ ServerKept(r, s, ss)
  BY <1>1, <1>3 DEF Inv, ClientKept, ServerKept
<1>5. Truthful(r, sc2)
  BY <1>1, <1>3 DEF Inv, Truthful
<1>6. Orderly(r, sc2) /\ ClientHeard(r, s)
  BY <1>1, <1>3 DEF Inv, Orderly, ClientHeard
<1>7. ClientFlights(r, sc2)
  <2>1. CASE r.state \in {"hello_sent", "hello_again_reply"}
    <3>1. \A n \in 2 .. ClientLast : Handshake(n) \notin sc
      BY <2>1 DEF Inv, ClientFlights
    <3>2. \A n \in 2 .. ClientLast : Handshake(n) \notin sc2
      BY <1>1, <2>1, <3>1
    <3>3. Handshake(0) \in sc2
      BY <1>1, <2>1 DEF Inv, ClientFlights
    <3> QED BY <1>1, <2>1, <3>2, <3>3 DEF ClientFlights
  <2>2. CASE r.state = "wait_ack"
    <3>1. Handshake(0) \in sc2 /\ Handshake(1) \in sc2
      BY <1>1, <2>2 DEF Inv, ClientFlights
    <3>2. \A n \in 2 .. ClientLast : Handshake(n) \in sc2
      BY <1>1, <2>2
    <3>3. \A n \in 0 .. ClientLast : n = 0 \/ n = 1 \/ n \in 2 .. ClientLast
      OBVIOUS
    <3>4. \A n \in 0 .. ClientLast : Handshake(n) \in sc2
      BY <3>1, <3>2, <3>3
    <3> QED BY <2>2, <3>4, <1>3, FlightAssumption DEF ClientFlights
  <2>3. r.state \in {"hello_sent", "hello_again_reply", "wait_ack"}
    BY DEF Endpoint, States
  <2> QED BY <2>1, <2>2, <2>3
<1>8. Agreed(r, s)
  BY DEF Agreed
<1>9. Inv(r, s, sc2, ss)
  BY <1>2, <1>4, <1>5, <1>6, <1>7, <1>8 DEF Inv
<1> QED BY <1>1, <1>9 DEF sc2

\* The client moves on and sends its next flight, or stays where it is.
LEMMA ClientMovesOn ==
    ASSUME NEW c, NEW s, NEW sc, NEW ss, Inv(c, s, sc, ss), c.out \subseteq sc,
           NEW r, r = ClientProgress(c)
    PROVE  /\ Inv(r, s, sc \cup r.out, ss)
           /\ Idle(c) => Idle(r)
           /\ \A n : Handshake(n) \in r.out => Handshake(n) \in sc \/ n \in {1}
                        \/ /\ n >= 2 /\ c.state = "hello_again_reply"
                           /\ c.expected > ServerLast
           /\ r.state = c.state \/ r.state \in {"hello_again_reply", "wait_ack"}
           /\ r.state # c.state
                 => c.state \in {"hello_sent", "hello_again_reply"}
<1>1. c \in Endpoint("client")
  BY DEF Inv, Typed
<1>2. CASE r = c
  <2>1. sc \cup r.out = sc
    BY <1>2
  <2> QED BY <1>2, <2>1
<1>3. CASE /\ \/ c.state = "hello_sent" /\ r.state = "hello_again_reply"
              \/ /\ c.state = "hello_again_reply" /\ r.state = "wait_ack"
                 /\ c.expected > ServerLast
           /\ r \in Endpoint("client")
           /\ SentFlight(c, r, Flight(r.state))
  <2> DEFINE F == Flight(r.state)
  <2>1. /\ r.state = "hello_again_reply" => F = {1} /\ c.state = "hello_sent"
        /\ r.state = "wait_ack" => /\ F = 2 .. ClientLast
                                   /\ c.state = "hello_again_reply"
                                   /\ c.expected > ServerLast
        /\ r.state \in {"hello_again_reply", "wait_ack"}
    BY <1>3 DEF Flight
  <2>2. c.expected > ServerLast => c.expected = ServerLast + 1
    BY <1>1, SideFacts DEF Endpoint
  <2>3. F \in SUBSET (0 .. ClientLast)
    BY <2>1, FlightAssumption
  <2>4. r \in Endpoint("client") /\ SentFlight(c, r, F)
    BY <1>3
  <2> HIDE DEF F
  <2>5. /\ Inv(r, s, sc \cup r.out, ss)
        /\ \A k : Handshake(k) \in sc \cup r.out <=> Handshake(k) \in sc \/ k \in F
    <3>1. /\ r.state \notin {"start", "connected"} /\ r.state # "failed"
          /\ r.state \in {"hello_sent", "hello_again_reply"}
               => F \subseteq {0, 1} /\ c.state \in {"start", "hello_sent"}
                  /\ (0 \in F \/ c.state = "hello_sent")
          /\ r.state = "hello_again_reply" => 1 \in F
          /\ r.state = "wait_ack" => /\ F = 2 .. ClientLast
                                     /\ c.expected = ServerLast + 1
                                     /\ c.state = "hello_again_reply"
      BY <2>1, <2>2
    <3> QED BY <2>3, <2>4, <3>1, ClientSends
  <2>6. \A n : Handshake(n) \in r.out => Handshake(n) \in sc \/ n \in {1}
                  \/ /\ n >= 2 /\ c.state = "hello_again_reply"
                     /\ c.expected > ServerLast
    <3>1. \A n \in F : n = 1 \/ (n >= 2 /\ r.state = "wait_ack")
      <4>1. \A n \in 2 .. ClientLast : n >= 2
        BY FlightAssumption
      <4> QED BY <2>1, <4>1
    <3>2. \A n : Handshake(n) \in r.out => Handshake(n) \in sc \/ n \in F
      BY <2>5
    <3> QED BY <2>1, <3>1, <3>2
  <2>7. Idle(c) => Idle(r)
    BY <1>3 DEF SentFlight
  <2> QED BY <1>3, <2>1, <2>5, <2>6, <2>7
<1> QED BY <1>1, <1>2, <1>3, ClientProgressEffect

-----------------------------------------------------------------------------
(* Whole calls.                                                            *)

\* The client reads the header of a record; a unified one means the server has state.
LEMMA ClientReads ==
    ASSUME NEW c, NEW s, NEW sc, NEW ss, Inv(c, s, sc, ss), NEW d \in ss,
           NEW r, r = [c EXCEPT !.unified = @ \/ d.epoch > 0]
    PROVE  /\ Inv(r, s, sc, ss) /\ r.unified = (c.unified \/ d.epoch > 0)
           /\ SamePlace(c, r) /\ r.out = c.out /\ (Idle(c) => Idle(r))
           /\ d.epoch > 0 => s.state # "begin"
<1>1. /\ c \in Endpoint("client") /\ sc \in SUBSET Datagrams("client")
  BY DEF Inv, Typed
<1>2. /\ r \in Endpoint("client") /\ SamePlace(c, r) /\ r.seen = c.seen
      /\ r.unified = (c.unified \/ d.epoch > 0)
      /\ r.out = c.out /\ (Idle(c) => Idle(r))
  BY <1>1 DEF Endpoint, SamePlace, Idle
<1>3. d.epoch > 0 => s.state # "begin"
  <2>1. Handshake(0).epoch = 0
    BY HandshakeFacts
  <2> QED BY <2>1 DEF Inv, ServerBegun
<1>4. \A x \in sc \ sc : x.acked \subseteq c.seen /\ \A n : x # Handshake(n)
  OBVIOUS
<1>5. Inv(r, s, sc, ss)
  BY <1>1, <1>2, <1>3, <1>4, ClientQuiet
<1> QED BY <1>2, <1>3, <1>5

LEMMA ServerReads ==
    ASSUME NEW c, NEW s, NEW sc, NEW ss, Inv(c, s, sc, ss), NEW d,
           NEW r, r = [s EXCEPT !.unified = @ \/ d.epoch > 0]
    PROVE  /\ Inv(c, r, sc, ss)
           /\ SamePlace(s, r) /\ r.out = s.out /\ (Idle(s) => Idle(r))
<1>1. /\ s \in Endpoint("server") /\ ss \in SUBSET Datagrams("server")
  BY DEF Inv, Typed
<1>2. /\ r \in Endpoint("server") /\ SamePlace(s, r) /\ r.seen = s.seen
      /\ r.out = s.out /\ (Idle(s) => Idle(r))
  BY <1>1 DEF Endpoint, SamePlace, Idle
<1>3. \A x \in ss \ ss : x.acked \subseteq s.seen /\ \A n : x # Handshake(n)
  OBVIOUS
<1>4. Inv(c, r, sc, ss)
  BY <1>1, <1>2, <1>3, ServerQuiet
<1> QED BY <1>2, <1>4

\* What a call has sent is on the network.
LEMMA ClientSent ==
    ASSUME NEW c, NEW s, NEW sc, NEW ss, Inv(c, s, sc, ss),
           NEW r, r = [c EXCEPT !.out = {}]
    PROVE  /\ Inv(r, s, sc, ss) /\ SamePlace(c, r)
           /\ r.out = {} /\ (Idle(c) => Idle(r))
<1>1. /\ c \in Endpoint("client") /\ sc \in SUBSET Datagrams("client")
  BY DEF Inv, Typed
<1>2. /\ r \in Endpoint("client") /\ SamePlace(c, r) /\ r.seen = c.seen
      /\ r.unified = c.unified /\ r.out = {} /\ (Idle(c) => Idle(r))
  BY <1>1 DEF Endpoint, SamePlace, Idle
<1>3. \A x \in sc \ sc : x.acked \subseteq c.seen /\ \A n : x # Handshake(n)
  OBVIOUS
<1>4. Inv(r, s, sc, ss)
  BY <1>1, <1>2, <1>3, ClientQuiet
<1> QED BY <1>2, <1>4

LEMMA ServerSent ==
    ASSUME NEW c, NEW s, NEW sc, NEW ss, Inv(c, s, sc, ss),
           NEW r, r = [s EXCEPT !.out = {}]
    PROVE  /\ Inv(c, r, sc, ss) /\ SamePlace(s, r)
           /\ r.out = {} /\ (Idle(s) => Idle(r))
<1>1. /\ s \in Endpoint("server") /\ ss \in SUBSET Datagrams("server")
  BY DEF Inv, Typed
<1>2. /\ r \in Endpoint("server") /\ SamePlace(s, r) /\ r.seen = s.seen
      /\ r.out = {} /\ (Idle(s) => Idle(r))
  BY <1>1 DEF Endpoint, SamePlace, Idle
<1>3. \A x \in ss \ ss : x.acked \subseteq s.seen /\ \A n : x # Handshake(n)
  OBVIOUS
<1>4. Inv(c, r, sc, ss)
  BY <1>1, <1>2, <1>3, ServerQuiet
<1> QED BY <1>2, <1>4

\* The client processes one record; it is not yet told to do the scheduled work.
LEMMA ClientReply ==
    ASSUME NEW c, NEW s, NEW sc, NEW ss, Inv(c, s, sc, ss), Idle(c),
           c.state \notin {"start", "failed"},
           NEW d \in ss, NEW tracked \in SUBSET d.acked,
           NEW r, r = ProcessReply("client", c, d, tracked)
    PROVE  /\ Inv(r, s, sc, ss) /\ r.out = c.out
           /\ \/ r.state = c.state
              \/ c.state = "wait_ack" /\ r.state = "connected"
<1> DEFINE read == [c EXCEPT !.unified = @ \/ d.epoch > 0]
<1>1. /\ Inv(read, s, sc, ss) /\ read.state = c.state /\ read.out = c.out
      /\ Idle(read) /\ (d.epoch > 0 => s.state # "begin")
  <2>1. /\ Inv(read, s, sc, ss) /\ SamePlace(c, read) /\ read.out = c.out
        /\ Idle(read) /\ (d.epoch > 0 => s.state # "begin")
    BY ClientReads
  <2> QED BY <2>1 DEF SamePlace
<1>2. /\ c \in Endpoint("client") /\ sc \in SUBSET Datagrams("client")
      /\ "client" \in Sides /\ "server" \in Sides /\ d \in Datagrams("server")
      /\ read \in Endpoint("client")
  BY <1>1, SideFacts DEF Inv, Typed
<1>3. /\ \/ d.type = "handshake" /\ d.num \in 0 .. ServerLast /\ d = Handshake(d.num)
         \/ d.type = "ack"
      /\ d.epoch \in Epochs
  BY <1>2, DatagramCases, SideFacts
<1>4. r = IF Dropped("client", c, d) THEN Drop("client", c, d)
          ELSE IF d.type = "ack" THEN DoDtls13Ack("client", read, tracked)
          ELSE HandshakeRecv("client", read, d.num)
  BY DEF ProcessReply
<1> HIDE DEF read
<1>5. CASE Dropped("client", c, d)
  <2>1. r = Drop("client", c, d)
    BY <1>4, <1>5
  <2>2. /\ r \in Endpoint("client") /\ SamePlace(c, r) /\ r.seen = c.seen
        /\ r.unified = (c.unified \/ d.epoch > 0) /\ r.out = c.out
    BY <1>2, <1>3, <2>1, DropEffect
  <2>3. \A x \in sc \ sc : x.acked \subseteq c.seen /\ \A n : x # Handshake(n)
    OBVIOUS
  <2>4. Inv(r, s, sc, ss)
    BY <1>1, <1>2, <2>2, <2>3, ClientQuiet
  <2> QED BY <2>2, <2>4 DEF SamePlace
<1>6. CASE ~Dropped("client", c, d) /\ d.type = "ack"
  <2>1. r = DoDtls13Ack("client", read, tracked)
    BY <1>4, <1>6
  <2>2. \A n \in tracked : Has(s, n)
    BY DEF Inv, Truthful
  <2>3. Inv(r, s, sc, ss)
    BY <1>1, <2>1, <2>2, ClientAck
  <2>4. /\ r.out = read.out
        /\ \/ r.state = read.state
           \/ read.state = "wait_ack" /\ r.state = "connected"
    BY <1>2, <2>1, AckEffect
  <2> QED BY <1>1, <2>3, <2>4
<1>7. CASE ~Dropped("client", c, d) /\ d.type = "handshake"
  <2>1. r = HandshakeRecv("client", read, d.num) /\ d.num \in 0 .. ServerLast
        /\ Handshake(d.num) \in ss
    BY <1>3, <1>4, <1>7
  <2>2. Inv(r, s, sc, ss)
    BY <1>1, <2>1, ClientRecv
  <2>3. r.out = read.out /\ r.state = read.state
    BY <1>1, <1>2, <2>1, SideFacts, HandshakeRecvEffect
  <2> QED BY <1>1, <2>2, <2>3
<1> QED BY <1>3, <1>5, <1>6, <1>7

\* The server processes one record.
LEMMA ServerReply ==
    ASSUME NEW c, NEW s, NEW sc, NEW ss, Inv(c, s, sc, ss), Idle(s), s.out = {},
           NEW d \in sc, NEW tracked \in SUBSET d.acked,
           NEW r, r = ProcessReply("server", s, d, tracked)
    PROVE  /\ Inv(c, r, sc, ss \cup r.out)
           /\ r.state = "begin" => ~r.sendAcks
           /\ \A n : Handshake(n) \in r.out => s.state = "begin" /\ r.expected <= 2
           /\ s.expected <= r.expected
           /\ r.expected > 2 /\ r.expected # s.expected
                 => Handshake(ClientLast) \in sc
<1> DEFINE read == [s EXCEPT !.unified = @ \/ d.epoch > 0]
<1>1. /\ Inv(c, read, sc, ss) /\ read.state = s.state /\ read.out = {}
      /\ read.expected = s.expected /\ Idle(read)
  <2>1. /\ Inv(c, read, sc, ss) /\ SamePlace(s, read) /\ read.out = s.out
        /\ Idle(read)
    BY ServerReads
  <2> QED BY <2>1 DEF SamePlace
<1>2. /\ s \in Endpoint("server") /\ ss \in SUBSET Datagrams("server")
      /\ "server" \in Sides /\ "client" \in Sides /\ d \in Datagrams("client")
      /\ read \in Endpoint("server") /\ s.expected \in Nat
  BY <1>1, SideFacts DEF Inv, Typed, Endpoint
<1>3. /\ \/ d.type = "handshake" /\ d.num \in 0 .. ClientLast /\ d = Handshake(d.num)
         \/ d.type = "ack"
      /\ d.epoch \in Epochs
  BY <1>2, DatagramCases, SideFacts
<1>4. r = IF Dropped("server", s, d) THEN Drop("server", s, d)
          ELSE IF d.type = "ack" THEN DoDtls13Ack("server", read, tracked)
          ELSE IF s.state = "begin" THEN ServerBegin(read, d.num)
          ELSE HandshakeRecv("server", read, d.num)
  BY DEF ProcessReply
<1> HIDE DEF read
<1>5. CASE Dropped("server", s, d)
  <2>1. r = Drop("server", s, d)
    BY <1>4, <1>5
  <2>2. /\ r \in Endpoint("server") /\ SamePlace(s, r) /\ r.seen = s.seen
        /\ r.out = {} /\ ~r.sendAcks
    BY <1>2, <1>3, <2>1, DropEffect
  <2>3. \A x \in ss \ ss : x.acked \subseteq s.seen /\ \A n : x # Handshake(n)
    OBVIOUS
  <2>4. Inv(c, r, sc, ss)
    BY <1>2, <2>2, <2>3, ServerQuiet
  <2>5. ss \cup r.out = ss
    BY <2>2
  <2> QED BY <1>2, <2>2, <2>4, <2>5 DEF SamePlace
<1>6. CASE ~Dropped("server", s, d) /\ d.type = "ack"
  <2>1. r = DoDtls13Ack("server", read, tracked)
    BY <1>4, <1>6
  <2>2. \A n \in tracked : Has(c, n)
    BY DEF Inv, Truthful
  <2>3. Inv(c, r, sc, ss)
    BY <1>1, <2>1, <2>2, ServerAck
  <2>4. /\ r.out = {} /\ r.expected = s.expected /\ ~r.sendAcks
    BY <1>1, <1>2, <2>1, AckEffect DEF Idle
  <2>5. ss \cup r.out = ss
    BY <2>4
  <2> QED BY <1>2, <2>3, <2>4, <2>5
<1>7. CASE ~Dropped("server", s, d) /\ d.type = "handshake" /\ s.state = "begin"
  <2>1. r = ServerBegin(read, d.num)
    BY <1>4, <1>7
  <2>2. d.num \in {0, 1}
    <3>1. d.epoch # 2
      BY <1>7 DEF Dropped, ServerHelloDone
    <3>2. d.num \in 0 .. ClientLast /\ d = Handshake(d.num)
      BY <1>3, <1>7
    <3>3. d.num < 2
      BY <3>1, <3>2, HandshakeFacts
    <3> QED BY <3>2, <3>3, FlightAssumption
  <2>3. /\ Inv(c, r, sc, ss \cup r.out) /\ Idle(r)
        /\ r.expected = s.expected \/ r.expected = 2
    BY <1>1, <1>7, <2>1, <2>2, ServerBegins
  <2>4. s.expected = 0
    BY <1>7 DEF Inv, ServerBegun
  <2> QED BY <1>7, <2>3, <2>4 DEF Idle
<1>8. CASE ~Dropped("server", s, d) /\ d.type = "handshake" /\ s.state # "begin"
  <2>1. r = HandshakeRecv("server", read, d.num)
    BY <1>4, <1>8
  <2>2. d.num \in 2 .. ClientLast /\ Handshake(d.num) \in sc
    <3>1. d.epoch # 0
      BY <1>8 DEF Dropped, ServerHelloDone
    <3>2. d.num \in 0 .. ClientLast /\ d = Handshake(d.num)
      BY <1>3, <1>8
    <3>3. ~(d.num < 2)
      BY <3>1, <3>2, HandshakeFacts
    <3> QED BY <3>2, <3>3, FlightAssumption
  <2>3. Inv(c, r, sc, ss) /\ r.state # "begin"
    BY <1>1, <1>8, <2>1, <2>2, ServerRecv
  <2>4. r.out = {} /\ s.expected <= r.expected
    BY <1>1, <1>2, <2>1, <2>2, SideFacts, FlightAssumption, HandshakeRecvEffect
  <2>5. ss \cup r.out = ss
    BY <2>4
  <2>6. Handshake(ClientLast) \in sc
    BY <2>2 DEF Inv, ClientFlights
  <2> QED BY <2>3, <2>4, <2>5, <2>6
<1> QED BY <1>3, <1>5, <1>6, <1>7, <1>8

\* A turn of the client's loop.
LEMMA ClientTurn ==
    ASSUME NEW c, NEW s, NEW sc, NEW ss, Inv(c, s, sc, ss), Idle(c), c.out = {},
           c.state \notin {"start", "failed"},
           NEW d \in ss, NEW tracked \in SUBSET d.acked, NEW skip \in BOOLEAN,
           NEW r, r = Turn("client", c, d, tracked, skip)
    PROVE  /\ Inv(r, s, sc \cup r.out, ss) /\ Idle(r)
           /\ \A n : Handshake(n) \in r.out /\ Handshake(n) \notin sc /\ n >= 2
                        => c.state = "hello_again_reply" /\ r.state = "wait_ack"
           /\ \/ r.state = c.state
              \/ c.state = "wait_ack" /\ r.state = "connected"
              \/ /\ c.state \in {"hello_sent", "hello_again_reply"}
                 /\ r.state \in {"hello_again_reply", "wait_ack"}
<1> DEFINE a == ProcessReply("client", c, d, tracked)
           b == DoScheduledWork("client", a, skip)
           sb == sc \cup b.out
<1>1. r = ClientProgress(b)
  BY DEF Turn, Progress
<1>2. /\ Inv(a, s, sc, ss) /\ a.out \subseteq sc
      /\ \/ a.state = c.state
         \/ c.state = "wait_ack" /\ a.state = "connected"
  <2>1. /\ Inv(a, s, sc, ss) /\ a.out = c.out
        /\ \/ a.state = c.state
           \/ c.state = "wait_ack" /\ a.state = "connected"
    BY ClientReply
  <2> QED BY <2>1
<1> HIDE DEF a
<1>3. /\ Inv(b, s, sb, ss) /\ Idle(b) /\ b.state = a.state
      /\ \A n : Handshake(n) \in b.out => Handshake(n) \in sc
  BY <1>2, ClientWork
<1>4. b.out \subseteq sb
  OBVIOUS
<1>5. \A n : Handshake(n) \in sb => Handshake(n) \in sc
  BY <1>3
<1> HIDE DEF sb
<1>6. /\ Inv(r, s, sb \cup r.out, ss) /\ Idle(r)
      /\ \A n : Handshake(n) \in r.out => Handshake(n) \in sb \/ n \in {1}
                  \/ /\ n >= 2 /\ b.state = "hello_again_reply"
                     /\ b.expected > ServerLast
      /\ r.state = b.state \/ r.state \in {"hello_again_reply", "wait_ack"}
      /\ r.state # b.state => b.state \in {"hello_sent", "hello_again_reply"}
  BY <1>1, <1>3, <1>4, ClientMovesOn
<1>7. b.out \subseteq r.out
  <2>1. b \in Endpoint("client")
    BY <1>3 DEF Inv, Typed
  <2> HIDE DEF b
  <2>2. r = b \/ SentFlight(b, r, Flight(r.state))
    BY <1>1, <2>1, ClientProgressEffect
  <2> QED BY <2>2 DEF SentFlight
<1>8. sb \cup r.out = sc \cup r.out
  BY <1>7 DEF sb
<1>9. Inv(r, s, sc \cup r.out, ss)
  BY <1>6, <1>8
<1>10. ASSUME NEW n, Handshake(n) \in r.out, Handshake(n) \notin sc, n >= 2
       PROVE  c.state = "hello_again_reply" /\ r.state = "wait_ack"
  <2>1. Handshake(n) \notin sb
    BY <1>5, <1>10
  <2>2. n # 1
    BY <1>10
  <2>3. b.state = "hello_again_reply"
    BY <1>6, <1>10, <2>1, <2>2
  <2>4. n \in 2 .. ClientLast
    <3>1. Handshake(n) \in Datagrams("client") /\ "client" \in Sides
      BY <1>9, <1>10, SideFacts DEF Inv, Typed
    <3>2. Handshake(n).num \in 0 .. ClientLast
      BY <3>1, DatagramCases, HandshakeFacts, SideFacts
    <3>3. n \in 0 .. ClientLast
      BY <3>2, HandshakeFacts
    <3> QED BY <1>10, <3>3, FlightAssumption
  <2>5. r.state \in {"wait_ack", "connected", "failed"}
    <3> DEFINE s2 == sc \cup r.out
    <3>1. ClientFlights(r, s2) /\ Handshake(n) \in s2
      BY <1>9, <1>10 DEF Inv
    <3> HIDE DEF s2
    <3> QED BY <2>4, <3>1 DEF ClientFlights
  <2> HIDE DEF b
  <2> QED BY <1>2, <1>3, <1>6, <2>3, <2>5
<1> HIDE DEF b
<1>11. \/ r.state = c.state
       \/ c.state = "wait_ack" /\ r.state = "connected"
       \/ /\ c.state \in {"hello_sent", "hello_again_reply"}
          /\ r.state \in {"hello_again_reply", "wait_ack"}
  BY <1>2, <1>3, <1>6
<1> QED BY <1>6, <1>9, <1>10, <1>11

\* A turn of one of the server's loops.
LEMMA ServerTurn ==
    ASSUME NEW c, NEW s, NEW sc, NEW ss, Inv(c, s, sc, ss), Idle(s), s.out = {},
           NEW d \in sc, NEW tracked \in SUBSET d.acked, NEW skip \in BOOLEAN,
           NEW r, r = Turn("server", s, d, tracked, skip)
    PROVE  /\ Inv(c, r, sc, ss \cup r.out) /\ Idle(r)
           /\ \A n : Handshake(n) \in r.out => Handshake(n) \in ss \/ r.expected <= 2
           /\ s.expected <= r.expected
           /\ r.expected > 2 /\ r.expected # s.expected
                 => Handshake(ClientLast) \in sc
<1> DEFINE a == ProcessReply("server", s, d, tracked)
           sa == ss \cup a.out
<1>1. r = DoScheduledWork("server", a, skip)
  BY DEF Turn, Progress
<1>2. a = ProcessReply("server", s, d, tracked)
  OBVIOUS
<1> HIDE DEF a
<1>3. /\ Inv(c, a, sc, ss \cup a.out)
      /\ a.state = "begin" => ~a.sendAcks
      /\ \A n : Handshake(n) \in a.out => s.state = "begin" /\ a.expected <= 2
      /\ s.expected <= a.expected
      /\ a.expected > 2 /\ a.expected # s.expected => Handshake(ClientLast) \in sc
  BY <1>2, ServerReply
<1>4. Inv(c, a, sc, sa) /\ (a.state = "begin" => ~a.sendAcks)
  BY <1>3
<1>5. /\ a.out \subseteq sa
      /\ \A n : Handshake(n) \in sa => Handshake(n) \in ss \/ Handshake(n) \in a.out
  OBVIOUS
<1> HIDE DEF sa
<1>6. /\ Inv(c, r, sc, sa \cup r.out)
      /\ r.expected = a.expected /\ Idle(r)
      /\ \A n : Handshake(n) \in r.out => Handshake(n) \in sa
  BY <1>1, <1>4, <1>5, ServerWork
<1>7. sa \cup r.out = ss \cup r.out
  <2>1. a \in Endpoint("server") /\ "server" \in Sides
    BY <1>3, SideFacts DEF Inv, Typed
  <2>2. a.out \subseteq r.out
    BY <1>1, <2>1, DoScheduledWorkEffect
  <2> QED BY <2>2 DEF sa
<1>8. Inv(c, r, sc, ss \cup r.out)
  BY <1>6, <1>7
<1> QED BY <1>3, <1>5, <1>6, <1>8

\* The client gives up where it is.
LEMMA ClientFails ==
    ASSUME NEW c, NEW s, NEW sc, NEW ss, Inv(c, s, sc, ss), Idle(c), c.out = {},
           NEW r, r = [c EXCEPT !.state = "failed"]
    PROVE  Inv(r, s, sc \cup r.out, ss) /\ Idle(r) /\ r.out = {} /\ r.state = "failed"
<1>1. c \in Endpoint("client")
  BY DEF Inv, Typed
<1>2. /\ r \in Endpoint("client") /\ r.state = "failed"
      /\ r.expected = c.expected /\ r.stored = c.stored /\ r.rtx = c.rtx
      /\ r.seen = c.seen /\ r.unified = c.unified /\ r.out = {} /\ Idle(r)
  BY <1>1, SideFacts DEF Endpoint, States, Idle
<1>3. \A k : Has(r, k) <=> Has(c, k)
  BY <1>2 DEF Has
<1>4. Typed(r, s, sc, ss)
  BY <1>2 DEF Inv, Typed
<1>5. ClientKept(r, s, sc) /\ ServerKept(r, s, ss) /\ Truthful(r, sc) /\ Orderly(r, sc)
  BY <1>2, <1>3 DEF Inv, ClientKept, ServerKept, Truthful, Orderly
<1>6. ClientHeard(r, s) /\ ClientFlights(r, sc) /\ Agreed(r, s)
  BY <1>2 DEF Inv, ClientHeard, ClientFlights, Agreed
<1>7. Inv(r, s, sc, ss)
  BY <1>4, <1>5, <1>6 DEF Inv
<1>8. sc \cup r.out = sc
  BY <1>2
<1> QED BY <1>2, <1>7, <1>8

-----------------------------------------------------------------------------
(* Steps.  An operator on the variables is unfolded here and nowhere else.  *)

OrderStep == [Order!Next]_(Order!orderVars)

\* The four of the invariant's arguments that a step changes.
LEMMA ClientBecomes ==
    ASSUME IInv, NEW r, Becomes("client", r), Idle(r),
           Inv(r, ep["server"], sent["client"] \cup r.out, sent["server"])
    PROVE  /\ IInv' /\ ep'["client"].state = r.state
           /\ ep'["server"] = ep["server"] /\ sent'["server"] = sent["server"]
           /\ sent'["client"] = sent["client"] \cup r.out
<1> DEFINE e == [r EXCEPT !.out = {}]
           sc == sent["client"] \cup r.out
<1>1. /\ Inv(e, ep["server"], sc, sent["server"])
      /\ e.out = {} /\ Idle(e) /\ e.state = r.state
  BY ClientSent DEF SamePlace
<1>2. /\ TypeOK /\ "client" \in Sides /\ "server" \in Sides
      /\ ep' = [ep EXCEPT !["client"] = e] /\ sent' = [sent EXCEPT !["client"] = sc]
  BY SideFacts DEF IInv, Becomes
<1> HIDE DEF e, sc
<1>3. /\ ep'["client"] = e /\ ep'["server"] = ep["server"]
      /\ sent'["client"] = sc /\ sent'["server"] = sent["server"]
  BY <1>2 DEF TypeOK
<1>4. e \in Endpoint("client") /\ sc \subseteq Datagrams("client")
  BY <1>1 DEF Inv, Typed
<1>5. TypeOK'
  BY <1>1, <1>2, <1>3, <1>4, SideFacts DEF TypeOK, Idle
<1>6. Inv(ep'["client"], ep'["server"], sent'["client"], sent'["server"])
  BY <1>1, <1>3
<1>7. IInv'
  BY <1>5, <1>6 DEF IInv
<1> QED BY <1>1, <1>3, <1>7 DEF sc

LEMMA ServerBecomes ==
    ASSUME IInv, NEW r, Becomes("server", r), Idle(r),
           Inv(ep["client"], r, sent["client"], sent["server"] \cup r.out)
    PROVE  /\ IInv' /\ ep'["server"].expected = r.expected
           /\ ep'["client"] = ep["client"] /\ sent'["client"] = sent["client"]
           /\ sent'["server"] = sent["server"] \cup r.out
<1> DEFINE e == [r EXCEPT !.out = {}]
           ss == sent["server"] \cup r.out
<1>1. /\ Inv(ep["client"], e, sent["client"], ss)
      /\ e.out = {} /\ Idle(e) /\ e.expected = r.expected
  BY ServerSent DEF SamePlace
<1>2. /\ TypeOK /\ "client" \in Sides /\ "server" \in Sides
      /\ ep' = [ep EXCEPT !["server"] = e] /\ sent' = [sent EXCEPT !["server"] = ss]
  BY SideFacts DEF IInv, Becomes
<1> HIDE DEF e, ss
<1>3. /\ ep'["server"] = e /\ ep'["client"] = ep["client"]
      /\ sent'["server"] = ss /\ sent'["client"] = sent["client"]
  BY <1>2 DEF TypeOK
<1>4. e \in Endpoint("server") /\ ss \subseteq Datagrams("server")
  BY <1>1 DEF Inv, Typed
<1>5. TypeOK'
  BY <1>1, <1>2, <1>3, <1>4, SideFacts DEF TypeOK, Idle
<1>6. Inv(ep'["client"], ep'["server"], sent'["client"], sent'["server"])
  BY <1>1, <1>3
<1>7. IInv'
  BY <1>5, <1>6 DEF IInv
<1> QED BY <1>1, <1>3, <1>7 DEF ss

\* What the invariant says between two calls.
LEMMA BetweenCalls ==
    ASSUME IInv
    PROVE  /\ Inv(ep["client"], ep["server"], sent["client"], sent["server"])
           /\ Idle(ep["client"]) /\ ep["client"].out = {}
           /\ Idle(ep["server"]) /\ ep["server"].out = {}
           /\ ep["client"].state \in States("client")
           /\ ep["client"].state \in {"hello_sent", "hello_again_reply", "wait_ack",
                                      "connected"} => Handshake(0) \in sent["client"]
<1>1. /\ Inv(ep["client"], ep["server"], sent["client"], sent["server"])
      /\ Idle(ep["client"]) /\ ep["client"].out = {}
      /\ Idle(ep["server"]) /\ ep["server"].out = {}
      /\ ep["client"] \in Endpoint("client")
  BY SideFacts DEF IInv, TypeOK, Idle
<1>2. ep["client"].state \in States("client")
  BY <1>1 DEF Endpoint
<1>3. ep["client"].state \in {"wait_ack", "connected"} => Handshake(0) \in sent["client"]
  BY <1>1, FlightAssumption DEF Inv, ClientFlights
<1>4. ep["client"].state \in {"hello_sent", "hello_again_reply"}
        => Handshake(0) \in sent["client"]
  BY <1>1 DEF Inv, ClientFlights
<1> QED BY <1>1, <1>2, <1>3, <1>4

\* What the order of the handshake says in terms of the invariant: the client has
\* committed only after the server, and connected only after the server was done.
LEMMA OrderFacts ==
    ASSUME NEW c, NEW s, NEW sc, NEW ss, Inv(c, s, sc, ss)
    PROVE  /\ Handshake(ClientLast) \in sc => Handshake(ServerLast) \in ss
           /\ c.state = "connected" => HandShakeDone("server", s)
<1>1. /\ ServerBegun(s, ss) /\ ClientHeard(c, s)
      /\ ClientFlights(c, sc) /\ Agreed(c, s)
  BY DEF Inv
<1>2. ASSUME Handshake(ClientLast) \in sc
      PROVE  Handshake(ServerLast) \in ss
  <2>1. c.expected = ServerLast + 1
    BY <1>1, <1>2, FlightAssumption DEF ClientFlights
  <2>2. s.state # "begin"
    BY <1>1, <2>1, FlightAssumption DEF ClientHeard
  <2> QED BY <1>1, <2>2, FlightAssumption DEF ServerBegun
<1>3. c.state = "connected" => HandShakeDone("server", s)
  BY <1>1 DEF Agreed, HandShakeDone
<1> QED BY <1>2, <1>3

\* A step of the client after its ClientHello.
LEMMA ClientOrder ==
    ASSUME IInv, IInv',
           ep'["server"] = ep["server"], sent'["server"] = sent["server"],
           sent["client"] \subseteq sent'["client"],
           ep["client"].state \in {"hello_sent", "hello_again_reply", "wait_ack",
                                   "connected"},
           \/ ep'["client"].state = ep["client"].state
           \/ /\ ep["client"].state = "wait_ack"
              /\ ep'["client"].state = "connected"
           \/ /\ ep["client"].state \in {"hello_sent", "hello_again_reply", "wait_ack"}
              /\ ep'["client"].state \in {"hello_again_reply", "wait_ack", "failed"},
           Handshake(ClientLast) \in sent'["client"] =>
              \/ Handshake(ClientLast) \in sent["client"]
              \/ /\ ep["client"].state = "hello_again_reply"
                 /\ ep'["client"].state = "wait_ack"
    PROVE  OrderStep
<1>1. sent["client"] # {} /\ sent'["client"] # {}
  BY BetweenCalls
<1>2. HandShakeDone("server", ep'["server"]) = HandShakeDone("server", ep["server"])
  OBVIOUS
<1>3. Handshake(ClientLast) \in sent["client"] => Handshake(ClientLast) \in sent'["client"]
  OBVIOUS
<1>4. /\ Handshake(ClientLast) \in sent'["client"]
           => Handshake(ServerLast) \in sent["server"]
      /\ ep'["client"].state = "connected" => HandShakeDone("server", ep["server"])
  <2>1. Inv(ep'["client"], ep["server"], sent'["client"], sent["server"])
    BY DEF IInv
  <2> QED BY <2>1, OrderFacts
<1>5. CASE /\ Handshake(ClientLast) \in sent'["client"]
           /\ Handshake(ClientLast) \notin sent["client"]
  <2>1. ep["client"].state = "hello_again_reply" /\ ep'["client"].state = "wait_ack"
    BY <1>5
  <2>2. Order!ClientCommit
    BY <1>1, <1>2, <1>4, <1>5, <2>1 DEF Order!ClientCommit
  <2> QED BY <2>2 DEF OrderStep, Order!Next
<1>6. CASE /\ Handshake(ClientLast) \in sent'["client"]
                <=> Handshake(ClientLast) \in sent["client"]
           /\ ep["client"].state = "wait_ack" /\ ep'["client"].state = "connected"
  <2>1. Order!ClientDone
    BY <1>1, <1>2, <1>4, <1>6 DEF Order!ClientDone
  <2> QED BY <2>1 DEF OrderStep, Order!Next
<1>7. CASE /\ Handshake(ClientLast) \in sent'["client"]
                <=> Handshake(ClientLast) \in sent["client"]
           /\ ep["client"].state \in {"hello_sent", "hello_again_reply", "wait_ack"}
           /\ ep'["client"].state = "failed"
  <2>1. Order!ClientFail
    BY <1>1, <1>2, <1>7 DEF Order!ClientFail
  <2> QED BY <2>1 DEF OrderStep, Order!Next
<1>8. CASE /\ Handshake(ClientLast) \in sent'["client"]
                <=> Handshake(ClientLast) \in sent["client"]
           /\ \/ ep'["client"].state = ep["client"].state
              \/ /\ ep["client"].state
                      \in {"hello_sent", "hello_again_reply", "wait_ack"}
                 /\ ep'["client"].state \in {"hello_again_reply", "wait_ack"}
  <2>1. UNCHANGED Order!orderVars
    BY <1>1, <1>2, <1>8 DEF Order!orderVars
  <2> QED BY <2>1 DEF OrderStep
<1> QED BY <1>3, <1>5, <1>6, <1>7, <1>8

LEMMA ConnectStep ==
    ASSUME IInv, Connect
    PROVE  IInv' /\ OrderStep
<1> DEFINE c == ep["client"]
           s == ep["server"]
           sc == sent["client"]
           ss == sent["server"]
           r == ClientStart(c)
<1>1. c.state = "start" /\ Becomes("client", r)
  BY DEF Connect
<1>2. Inv(c, s, sc, ss) /\ Idle(c) /\ c.out = {} /\ c \in Endpoint("client")
  BY BetweenCalls DEF Inv, Typed
<1>3. c.out \subseteq sc /\ sc = {}
  BY <1>1, <1>2 DEF Inv, ClientFlights
<1> HIDE DEF c, s, sc, ss
<1>4. /\ r \in Endpoint("client") /\ r.state = "hello_sent" /\ SentFlight(c, r, {0})
  BY <1>2, ClientStartEffect
<1> HIDE DEF r
<1>5. Idle(r)
  BY <1>2, <1>4 DEF SentFlight
<1>6. /\ Inv(r, s, sc \cup r.out, ss)
      /\ \A k : Handshake(k) \in sc \cup r.out <=> Handshake(k) \in sc \/ k = 0
  <2> DEFINE F == {0}
  <2>1. /\ F \in SUBSET (0 .. ClientLast) /\ F \subseteq {0, 1}
        /\ 0 \in F /\ SentFlight(c, r, F)
    BY <1>4, FlightAssumption
  <2> HIDE DEF F
  <2>2. /\ Inv(r, s, sc \cup r.out, ss)
        /\ \A k : Handshake(k) \in sc \cup r.out <=> Handshake(k) \in sc \/ k \in F
    BY <1>1, <1>2, <1>3, <1>4, <2>1, ClientSends
  <2> QED BY <2>2 DEF F
<1>7. /\ IInv' /\ ep'["client"].state = "hello_sent"
      /\ ep'["server"] = s /\ sent'["server"] = ss
      /\ sent'["client"] = sc \cup r.out
  BY <1>1, <1>4, <1>5, <1>6, ClientBecomes DEF c, s, sc, ss
<1>8. /\ Handshake(0) \in sent'["client"]
      /\ Handshake(ClientLast) \notin sent'["client"]
  BY <1>3, <1>6, <1>7, FlightAssumption
<1>9. Order!Offer
  BY <1>1, <1>3, <1>7, <1>8 DEF Order!Offer, c, s, sc, ss
<1> QED BY <1>7, <1>9 DEF OrderStep, Order!Next

LEMMA GiveUpStep ==
    ASSUME IInv, GiveUp
    PROVE  IInv' /\ OrderStep
<1> DEFINE c == ep["client"]
           s == ep["server"]
           sc == sent["client"]
           ss == sent["server"]
           r == [c EXCEPT !.state = "failed"]
<1>1. /\ c.state \in {"hello_sent", "hello_again_reply", "wait_ack"}
      /\ Becomes("client", r)
  BY DEF GiveUp
<1>2. Inv(c, s, sc, ss) /\ Idle(c) /\ c.out = {}
  BY BetweenCalls
<1> HIDE DEF c, s, sc, ss
<1>3. /\ Inv(r, s, sc \cup r.out, ss) /\ Idle(r)
      /\ r.out = {} /\ r.state = "failed"
  BY <1>2, ClientFails
<1> HIDE DEF r
<1>4. /\ IInv' /\ ep'["client"].state = "failed"
      /\ ep'["server"] = s /\ sent'["server"] = ss
      /\ sent'["client"] = sc \cup r.out
  BY <1>1, <1>3, ClientBecomes DEF c, s, sc, ss
<1>5. sent'["client"] = sc
  BY <1>3, <1>4
<1>6. OrderStep
  BY <1>1, <1>4, <1>5, ClientOrder DEF c, s, sc, ss
<1> QED BY <1>4, <1>6

LEMMA TimeoutStep ==
    ASSUME IInv, Timeout
    PROVE  IInv' /\ OrderStep
<1> DEFINE c == ep["client"]
           s == ep["server"]
           sc == sent["client"]
           ss == sent["server"]
           r == RtxTimeout("client", c)
           ack == AckRecord(WriteEpoch("client", c), c.seen)
           sc2 == sc \cup r.out
<1>1. c.state \notin {"start", "failed"} /\ Becomes("client", r)
  BY DEF Timeout
<1>2. /\ Inv(c, s, sc, ss) /\ Idle(c) /\ c.out = {} /\ c.state \in States("client")
  BY BetweenCalls
<1> HIDE DEF c, s, sc, ss
<1>3. /\ c \in Endpoint("client") /\ sc \subseteq Datagrams("client")
      /\ Orderly(c, sc) /\ "client" \in Sides
  BY <1>2, SideFacts DEF Inv, Typed
<1>4. /\ r \in Endpoint("client") /\ SamePlace(c, r) /\ Idle(r)
      /\ r.unified = c.unified /\ (r.seen = c.seen \/ r.seen = {})
      /\ r.out \subseteq c.out \cup {ack} \cup Messages(c.rtx)
  BY <1>2, <1>3, RtxTimeoutEffect
<1> HIDE DEF r
<1>5. \A d \in sc2 \ sc : d.acked \subseteq c.seen /\ \A n : d # Handshake(n)
  <2> SUFFICES ASSUME NEW d \in sc2 \ sc
               PROVE  d.acked \subseteq c.seen /\ \A n : d # Handshake(n)
    OBVIOUS
  <2>1. d \in {ack} \cup Messages(c.rtx)
    BY <1>2, <1>4
  <2> QED BY <1>3, <2>1, QuietOutput
<1>6. sc2 \in SUBSET Datagrams("client") /\ sc \subseteq sc2
  BY <1>3, <1>4 DEF Endpoint
<1> HIDE DEF sc2
<1>7. Inv(r, s, sc2, ss)
  BY <1>1, <1>2, <1>4, <1>5, <1>6, ClientQuiet
<1>8. /\ IInv' /\ ep'["client"].state = r.state
      /\ ep'["server"] = s /\ sent'["server"] = ss
      /\ sent'["client"] = sc2
  BY <1>1, <1>4, <1>7, ClientBecomes DEF c, s, sc, ss, sc2
<1>9. r.state = c.state
  BY <1>4 DEF SamePlace
<1>10. Handshake(ClientLast) \in sc2 => Handshake(ClientLast) \in sc
  BY <1>5
<1>11. c.state \in {"hello_sent", "hello_again_reply", "wait_ack", "connected"}
  BY <1>1, <1>2 DEF States
<1>12. OrderStep
  BY <1>6, <1>8, <1>9, <1>10, <1>11, ClientOrder DEF c, s, sc, ss
<1> QED BY <1>8, <1>12

LEMMA ClientReceiveStep ==
    ASSUME IInv, NEW d \in sent["server"], Receive("client", d)
    PROVE  IInv' /\ OrderStep
<1> DEFINE c == ep["client"]
           s == ep["server"]
           sc == sent["client"]
           ss == sent["server"]
<1>1. PICK tracked \in SUBSET d.acked, skip \in BOOLEAN :
         Becomes("client", Turn("client", c, d, tracked, skip))
  BY DEF Receive
<1> DEFINE r == Turn("client", c, d, tracked, skip)
<1>2. c.state \notin {"start", "failed"} /\ r = Turn("client", c, d, tracked, skip)
  BY DEF Receive
<1>3. /\ Inv(c, s, sc, ss) /\ Idle(c) /\ c.out = {} /\ c.state \in States("client")
  BY BetweenCalls
<1>4. d \in ss /\ Becomes("client", r)
  BY <1>1
<1> HIDE DEF c, s, sc, ss, r
<1>5. /\ Inv(r, s, sc \cup r.out, ss) /\ Idle(r)
      /\ \A n : Handshake(n) \in r.out /\ Handshake(n) \notin sc /\ n >= 2
                   => c.state = "hello_again_reply" /\ r.state = "wait_ack"
      /\ \/ r.state = c.state
         \/ c.state = "wait_ack" /\ r.state = "connected"
         \/ /\ c.state \in {"hello_sent", "hello_again_reply"}
            /\ r.state \in {"hello_again_reply", "wait_ack"}
  BY <1>2, <1>3, <1>4, ClientTurn
<1>6. /\ IInv' /\ ep'["client"].state = r.state
      /\ ep'["server"] = s /\ sent'["server"] = ss
      /\ sent'["client"] = sc \cup r.out
  BY <1>4, <1>5, ClientBecomes DEF c, s, sc, ss
<1>7. Handshake(ClientLast) \in sc \cup r.out =>
         \/ Handshake(ClientLast) \in sc
         \/ c.state = "hello_again_reply" /\ r.state = "wait_ack"
  BY <1>5, FlightAssumption
<1>8. c.state \in {"hello_sent", "hello_again_reply", "wait_ack", "connected"}
  BY <1>2, <1>3 DEF States
<1>9. OrderStep
  BY <1>5, <1>6, <1>7, <1>8, ClientOrder DEF c, s, sc, ss
<1> QED BY <1>6, <1>9

LEMMA ServerReceiveStep ==
    ASSUME IInv, NEW d \in sent["client"], Receive("server", d)
    PROVE  IInv' /\ OrderStep
<1> DEFINE c == ep["client"]
           s == ep["server"]
           sc == sent["client"]
           ss == sent["server"]
<1>1. PICK tracked \in SUBSET d.acked, skip \in BOOLEAN :
         Becomes("server", Turn("server", s, d, tracked, skip))
  BY DEF Receive
<1> DEFINE r == Turn("server", s, d, tracked, skip)
<1>2. /\ Inv(c, s, sc, ss) /\ Idle(s) /\ s.out = {} /\ s \in Endpoint("server")
  BY BetweenCalls DEF Inv, Typed
<1>3. d \in sc /\ Becomes("server", r) /\ r = Turn("server", s, d, tracked, skip)
  BY <1>1
<1> HIDE DEF c, s, sc, ss, r
<1>4. /\ Inv(c, r, sc, ss \cup r.out) /\ Idle(r)
      /\ \A n : Handshake(n) \in r.out => Handshake(n) \in ss \/ r.expected <= 2
      /\ s.expected <= r.expected
      /\ r.expected > 2 /\ r.expected # s.expected => Handshake(ClientLast) \in sc
  BY <1>2, <1>3, ServerTurn
<1>5. r.expected \in Nat /\ s.expected \in Nat
  BY <1>2, <1>4, SideFacts DEF Inv, Typed, Endpoint
<1>6. /\ IInv' /\ ep'["server"].expected = r.expected
      /\ ep'["client"] = c /\ sent'["client"] = sc
      /\ sent'["server"] = ss \cup r.out
  BY <1>3, <1>4, ServerBecomes DEF c, s, sc, ss
<1>7. /\ HandShakeDone("server", ep["server"]) = (s.expected > ClientLast)
      /\ HandShakeDone("server", ep'["server"]) = (r.expected > ClientLast)
  BY <1>6 DEF HandShakeDone, s
<1>8. CASE /\ Handshake(ServerLast) \in ss \cup r.out
           /\ Handshake(ServerLast) \notin ss
  <2>1. ~(r.expected > ClientLast) /\ ~(s.expected > ClientLast)
    BY <1>4, <1>5, <1>8, FlightAssumption
  <2>2. Order!ServerCommit
    BY <1>3, <1>6, <1>7, <1>8, <2>1 DEF Order!ServerCommit, c, s, sc, ss
  <2> QED BY <1>6, <2>2 DEF OrderStep, Order!Next
<1>9. CASE /\ Handshake(ServerLast) \in ss \cup r.out <=> Handshake(ServerLast) \in ss
           /\ r.expected > ClientLast /\ ~(s.expected > ClientLast)
  <2>1. Handshake(ClientLast) \in sc
    BY <1>4, <1>5, <1>9, FlightAssumption
  <2>2. HandShakeDone("server", ep'["server"]) = TRUE
    BY <1>7, <1>9
  <2>3. (Handshake(ServerLast) \in sent'["server"])
           = (Handshake(ServerLast) \in sent["server"])
    BY <1>6, <1>9 DEF ss
  <2>4. Order!ServerDone
    BY <1>6, <2>1, <2>2, <2>3 DEF Order!ServerDone, c, sc
  <2> QED BY <1>6, <2>4 DEF OrderStep, Order!Next
<1>10. CASE /\ Handshake(ServerLast) \in ss \cup r.out <=> Handshake(ServerLast) \in ss
            /\ r.expected > ClientLast <=> s.expected > ClientLast
  <2>1. UNCHANGED Order!orderVars
    BY <1>6, <1>7, <1>10 DEF Order!orderVars, c, s, sc, ss
  <2> QED BY <1>6, <2>1 DEF OrderStep
<1>11. s.expected > ClientLast => r.expected > ClientLast
  BY <1>4, <1>5, FlightAssumption
<1> QED BY <1>8, <1>9, <1>10, <1>11

LEMMA StutterStep ==
    ASSUME IInv, UNCHANGED vars
    PROVE  IInv' /\ OrderStep
<1>1. ep' = ep /\ sent' = sent
  BY DEF vars
<1>2. TypeOK'
  BY <1>1 DEF IInv, TypeOK
<1>3. IInv'
  BY <1>1, <1>2 DEF IInv
<1>4. UNCHANGED Order!orderVars
  BY <1>1 DEF Order!orderVars
<1> QED BY <1>3, <1>4 DEF OrderStep

-----------------------------------------------------------------------------
(* The theorems.                                                           *)

LEMMA InitInvariant == Init => IInv /\ Order!Init
<1> SUFFICES ASSUME Init PROVE IInv /\ Order!Init
  OBVIOUS
<1>1. /\ ep["client"] = NewEndpoint("start") /\ ep["server"] = NewEndpoint("begin")
      /\ sent["client"] = {} /\ sent["server"] = {}
      /\ ep \in [Sides -> {NewEndpoint("start"), NewEndpoint("begin")}]
      /\ sent \in [Sides -> {{}}]
  BY SideFacts DEF Init
<1>2. /\ NewEndpoint("start") \in Endpoint("client")
      /\ NewEndpoint("begin") \in Endpoint("server")
  BY SideFacts, FlightAssumption DEF NewEndpoint, Endpoint, States
<1>3. TypeOK
  <2>1. \A state : /\ ~NewEndpoint(state).sendAcks /\ ~NewEndpoint(state).retransmit
                   /\ NewEndpoint(state).out = {}
    BY DEF NewEndpoint
  <2>2. \A side \in Sides : ep[side] = NewEndpoint("start") \/ ep[side] = NewEndpoint("begin")
    BY <1>1
  <2>3. ep \in [Sides -> Endpoint("client") \cup Endpoint("server")]
    BY <1>1, <1>2
  <2>4. \A side \in Sides : ep[side] \in Endpoint(side) /\ sent[side] = {}
    BY <1>1, <1>2, SideFacts
  <2>5. sent \in [Sides -> SUBSET (Datagrams("client") \cup Datagrams("server"))]
    BY <1>1
  <2> QED BY <2>1, <2>2, <2>3, <2>4, <2>5 DEF TypeOK
<1>4. Inv(NewEndpoint("start"), NewEndpoint("begin"), {}, {})
  <2> DEFINE c == NewEndpoint("start")
             s == NewEndpoint("begin")
  <2>1. /\ c.state = "start" /\ s.state = "begin" /\ c.expected = 0 /\ s.expected = 0
        /\ c.stored = {} /\ s.stored = {} /\ c.seen = {} /\ s.seen = {}
        /\ c.rtx = {} /\ s.rtx = {} /\ ~c.unified
    BY DEF NewEndpoint
  <2>2. c \in Endpoint("client") /\ s \in Endpoint("server")
    BY <1>2
  <2> HIDE DEF c, s
  <2>3. Inv(c, s, {}, {})
    BY <2>1, <2>2 DEF Inv, Typed, ClientKept, ServerKept, Truthful, Orderly,
                      ServerBegun, ClientHeard, ClientFlights, Agreed
  <2> QED BY <2>3 DEF c, s
<1>5. Order!Init
  BY <1>1, FlightAssumption DEF Order!Init, NewEndpoint, HandShakeDone
<1> QED BY <1>1, <1>3, <1>4, <1>5 DEF IInv

LEMMA NextInvariant == IInv /\ [Next]_vars => IInv' /\ OrderStep
<1> SUFFICES ASSUME IInv, [Next]_vars PROVE IInv' /\ OrderStep
  OBVIOUS
<1>1. CASE Connect
  BY <1>1, ConnectStep
<1>2. CASE Timeout
  BY <1>2, TimeoutStep
<1>3. CASE GiveUp
  BY <1>3, GiveUpStep
<1>4. CASE \E side \in Sides : \E d \in sent[Peer(side)] : Receive(side, d)
  <2>1. PICK side \in Sides : \E d \in sent[Peer(side)] : Receive(side, d)
    BY <1>4
  <2>2. CASE side = "client"
    BY <2>1, <2>2, SideFacts, ClientReceiveStep
  <2>3. CASE side = "server"
    BY <2>1, <2>3, SideFacts, ServerReceiveStep
  <2> QED BY <2>1, <2>2, <2>3, SideFacts
<1>5. CASE UNCHANGED vars
  BY <1>5, StutterStep
<1> QED BY <1>1, <1>2, <1>3, <1>4, <1>5 DEF Next

\* The inductive invariant holds in every state.
THEOREM Invariance == Spec => []IInv
<1>1. Init => IInv
  BY InitInvariant
<1>2. IInv /\ [Next]_vars => IInv'
  BY NextInvariant
<1> QED BY <1>1, <1>2, PTL DEF Spec

\* Every call leaves the endpoints well formed, with the requests of the scheduled
\* work served (DoScheduledWork, Dtls13RtxTimeout), whatever datagram it was given.
THEOREM TypeCorrect == Spec => []TypeOK
<1>1. IInv => TypeOK
  BY DEF IInv
<1> QED BY <1>1, Invariance, PTL

\* No acknowledgement, implicit or explicit, makes a side forget a message the peer
\* does not have (Dtls13RtxMsgRecvd, Dtls13RtxRemoveRecord).
THEOREM NothingIsForgotten == Spec => []NothingForgotten
<1>1. IInv => NothingForgotten
  <2> SUFFICES ASSUME IInv, NEW side \in Sides, NEW n \in MustArrive(side)
               PROVE  n \in ep[side].rtx \cup Received(Peer(side))
    BY DEF NothingForgotten
  <2>1. Inv(ep["client"], ep["server"], sent["client"], sent["server"])
    BY DEF IInv
  <2>2. CASE side = "client"
    <3>1. n \in 0 .. ClientLast /\ Handshake(n) \in sent["client"]
      BY <2>2, SideFacts DEF MustArrive
    <3>2. n \in ep["client"].rtx \/ Has(ep["server"], n)
      BY <2>1, <3>1 DEF Inv, ClientKept
    <3> QED BY <2>2, <3>1, <3>2, SideFacts DEF Has, Received
  <2>3. CASE side = "server"
    <3>1. n \in 1 .. ServerLast /\ Handshake(n) \in sent["server"]
      BY <2>3, SideFacts DEF MustArrive
    <3>2. n \in ep["server"].rtx \/ Has(ep["client"], n)
      BY <2>1, <3>1 DEF Inv, ServerKept
    <3> QED BY <2>3, <3>1, <3>2, SideFacts, FlightAssumption DEF Has, Received
  <2> QED BY <2>2, <2>3, SideFacts
<1> QED BY <1>1, Invariance, PTL

\* An ACK names only messages its sender has processed or buffered
\* (Dtls13RtxAddAck, Dtls13WriteAckMessage).
THEOREM AcksAreTruthful == Spec => []AcksTruthful
<1>1. IInv => AcksTruthful
  <2> SUFFICES ASSUME IInv, NEW side \in Sides
               PROVE  /\ ep[side].seen \subseteq Received(side)
                      /\ \A d \in sent[side] : d.acked \subseteq Received(side)
    BY DEF AcksTruthful
  <2>1. /\ Truthful(ep[side], sent[side]) /\ ep[side] \in Endpoint(side)
        /\ sent[side] \subseteq Datagrams(side)
    BY SideFacts DEF IInv, Inv, Typed
  <2>2. ep[side].seen \subseteq Numbers(Peer(side))
    BY <2>1 DEF Endpoint
  <2>3. \A d \in sent[side] : d.acked \subseteq Numbers(Peer(side))
    BY <2>1, DatagramCases
  <2> QED BY <2>1, <2>2, <2>3 DEF Truthful, Has, Received
<1> QED BY <1>1, Invariance, PTL

\* The message that is next in order is never left in the buffer
\* (Dtls13ProcessBufferedMessages).
THEOREM NoneIsLeftWaiting == Spec => []NoneLeftWaiting
<1>1. IInv => NoneLeftWaiting
  BY SideFacts DEF IInv, Inv, Orderly, NoneLeftWaiting
<1> QED BY <1>1, Invariance, PTL

\* wolfSSL_connect succeeds only when both sides have processed the other's Finished
\* (wolfSSL_connect_TLSv13, DoDtls13Ack).
THEOREM BothAgree == Spec => []Agreement
<1>1. IInv => Agreement
  BY DEF IInv, Inv, Agreed, Agreement, HandShakeDone
<1> QED BY <1>1, Invariance, PTL

\* The handshake implements HandshakeOrder: every call is one of its steps or none.
THEOREM Refinement == Spec => OrderSpec
<1>1. Init => Order!Init
  BY InitInvariant
<1>2. IInv /\ [Next]_vars => [Order!Next]_(Order!orderVars)
  BY NextInvariant DEF OrderStep
<1> QED BY <1>1, <1>2, Invariance, PTL DEF Spec, OrderSpec, Order!Spec

=============================================================================
