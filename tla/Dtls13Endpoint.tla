--------------------------- MODULE Dtls13Endpoint ---------------------------
(***************************************************************************)
(* One endpoint of a wolfSSL DTLS 1.3 handshake, as a record and the       *)
(* functions of dtls13.c, tls13.c and internal.c that change it: which     *)
(* messages are awaited, buffered out of order, kept for retransmission    *)
(* and still to be acknowledged, the flags of the scheduled work, and the  *)
(* retransmission timer.                                                   *)
(*                                                                         *)
(* A handshake message is its handshake number: 0 and 1 are the two        *)
(* ClientHellos, HelloRetryRequest and ServerHello; 2 .. Last(side) are    *)
(* EncryptedExtensions .. Finished of the server and Certificate ..        *)
(* Finished of the client.  A message travels in one record, and a record  *)
(* number stands for the message it carried.                               *)
(***************************************************************************)
EXTENDS Naturals

CONSTANTS
    ClientLast,  \* handshake number of the client's Finished
    ServerLast,  \* handshake number of the server's Finished
    MaxBackoff   \* doublings from DTLS_TIMEOUT_INIT to DTLS_TIMEOUT_MAX

ASSUME FlightAssumption == /\ ClientLast \in Nat /\ ClientLast >= 2
                           /\ ServerLast \in Nat /\ ServerLast >= 2
                           /\ MaxBackoff \in Nat

Sides == {"client", "server"}
Peer(side) == IF side = "client" THEN "server" ELSE "client"
Last(side) == IF side = "client" THEN ClientLast ELSE ServerLast
Numbers(side) == 0 .. Last(side)

\* Epochs: plaintext, DTLS13_EPOCH_HANDSHAKE, DTLS13_EPOCH_TRAFFIC0.
Epochs == {0, 2, 3}

\* Hellos travel in plaintext, everything after them in epoch 2.
Handshake(n) == [type |-> "handshake", epoch |-> IF n < 2 THEN 0 ELSE 2,
                 num |-> n, acked |-> {}]
Messages(flight) == {Handshake(n) : n \in flight}
AckRecord(epoch, acked) == [type |-> "ack", epoch |-> epoch, num |-> 0,
                            acked |-> acked]

Datagrams(side) ==
    Messages(Numbers(side))
      \cup {AckRecord(epoch, acked) : epoch \in Epochs,
                                      acked \in SUBSET Numbers(Peer(side))}

States(side) ==
    IF side = "client"
      THEN {"start", "hello_sent", "hello_again_reply", "wait_ack", "connected",
            "failed"}
      ELSE {"begin", "accepting"}

\* expected: dtls_expected_peer_handshake_number; stored: dtls_rx_msg_list; rtx and
\* seen: dtls13Rtx.rtxRecords and seenRecords; out: what the current call has sent.
Endpoint(side) ==
    [state : States(side), expected : 0 .. Last(Peer(side)) + 1,
     stored : SUBSET Numbers(Peer(side)), rtx : SUBSET Numbers(side),
     seen : SUBSET Numbers(Peer(side)), sendAcks : BOOLEAN, retransmit : BOOLEAN,
     fast : BOOLEAN, backoff : 0 .. MaxBackoff, unified : BOOLEAN,
     out : SUBSET Datagrams(side)]

NewEndpoint(state) ==
    [state |-> state, expected |-> 0, stored |-> {}, rtx |-> {}, seen |-> {},
     sendAcks |-> FALSE, retransmit |-> FALSE, fast |-> FALSE, backoff |-> 0,
     unified |-> FALSE, out |-> {}]

-----------------------------------------------------------------------------
(* What an endpoint knows.  An operator marked "mutant" is a broken form of *)
(* the one after it and is used by nothing.                                 *)

\* serverState >= SERVER_HELLO_COMPLETE, and with it the keys of epoch 2.
ServerHelloDone(side, e) ==
    IF side = "client" THEN e.expected > 1 ELSE e.state # "begin"

\* options.handShakeDone: the client has sent its Finished, the server processed it.
HandShakeDone(side, e) ==
    IF side = "client" THEN e.state \in {"wait_ack", "connected"}
                       ELSE e.expected > ClientLast

\* The epoch an acknowledgement is written in.
WriteEpoch(side, e) ==
    IF HandShakeDone(side, e) THEN 3 ELSE IF ServerHelloDone(side, e) THEN 2 ELSE 0

\* Records dropped before they are looked at: protected ones without keys, plaintext
\* ones on an established connection or, but for ACKs, in an encrypted handshake,
\* and ACKs to a server without state.
Dropped(side, e, d) ==
    \/ d.epoch = 2 /\ ~ServerHelloDone(side, e)
    \/ d.epoch = 3 /\ side = "client" /\ ~HandShakeDone(side, e)
    \/ d.epoch = 3 /\ side = "server" /\ ~ServerHelloDone(side, e)
    \/ d.epoch = 0 /\ HandShakeDone(side, e)
    \/ d.epoch = 0 /\ ServerHelloDone(side, e) /\ d.type # "ack"
    \/ d.type = "ack" /\ side = "server" /\ e.state = "begin"

-----------------------------------------------------------------------------
(* Sending.                                                                *)

\* Dtls13HandshakeSend for the messages of a flight: buffered for retransmission,
\* sent, and the pending acknowledgements forgotten, the flight implies them.
HandshakeSend(e, flight) ==
    [e EXCEPT !.rtx = @ \cup flight, !.seen = {},
              !.out = @ \cup Messages(flight)]

\* mutant: the request for an ACK is not reset.
SendDtls13AckKept(side, e) ==
    [e EXCEPT !.seen = {}, !.out = @ \cup {AckRecord(WriteEpoch(side, e), e.seen)}]

SendDtls13Ack(side, e) ==
    [e EXCEPT !.seen = {}, !.sendAcks = FALSE,
              !.out = @ \cup {AckRecord(WriteEpoch(side, e), e.seen)}]

\* skip: less than DTLS13_MIN_RTX_INTERVAL since the last retransmission.
RtxSendBuffered(e, skip) ==
    IF skip THEN e ELSE [e EXCEPT !.out = @ \cup Messages(e.rtx)]

\* mutant: the request to retransmit is not reset.
DoScheduledWorkUnreset(side, e, skip) ==
    LET acked == IF e.sendAcks THEN SendDtls13Ack(side, e) ELSE e
    IN  IF acked.retransmit THEN RtxSendBuffered(acked, skip) ELSE acked

\* The request to retransmit is gone even if the retransmission is skipped.
DoScheduledWork(side, e, skip) ==
    LET acked == IF e.sendAcks THEN SendDtls13Ack(side, e) ELSE e
    IN  IF acked.retransmit
          THEN RtxSendBuffered([acked EXCEPT !.retransmit = FALSE], skip)
          ELSE acked

-----------------------------------------------------------------------------
(* Receiving.                                                              *)

\* mutant: the undecipherable record is noted as received.
DropNoted(side, e, d) ==
    [e EXCEPT !.unified = @ \/ d.epoch > 0,
              !.seen = @ \cup {d.num},
              !.sendAcks = d.epoch > 0 /\ side = "client" /\ ~ServerHelloDone(side, e)]

\* A protected record tells a client still waiting for the ServerHello that it was
\* lost: it asks for it with an empty ACK.
Drop(side, e, d) ==
    [e EXCEPT !.unified = @ \/ d.epoch > 0,
              !.sendAcks = d.epoch > 0 /\ side = "client" /\ ~ServerHelloDone(side, e)]

RecordRecvd(e, n) == [e EXCEPT !.seen = @ \cup {n}, !.fast = TRUE]

\* mutant: an old message is not answered.
RtxMsgRecvdSilent(side, e, n) ==
    IF n >= e.expected /\ ~HandShakeDone(side, e)
                       /\ (ServerHelloDone(side, e) \/ e.unified)
      THEN [e EXCEPT !.rtx = {}] ELSE e

\* A message of the next flight acknowledges the last one sent, once the version is
\* negotiated; an old message means the peer lost our flight or our ACK.
RtxMsgRecvd(side, e, n) ==
    IF n < e.expected
      THEN [e EXCEPT !.retransmit = TRUE, !.sendAcks = e.seen # {}]
      ELSE IF ~HandShakeDone(side, e) /\ (ServerHelloDone(side, e) \/ e.unified)
             THEN [e EXCEPT !.rtx = {}]
             ELSE e

\* mutant: the messages buffered behind the next one are not looked at.
NextGapUnbuffered(stored, n, last) == n + 1

\* The first number after n that is not buffered.
NextGap(stored, n, last) ==
    CHOOSE m \in n + 1 .. last + 1 :
        m \notin stored /\ \A k \in n + 1 .. m - 1 : k \in stored

\* The next message and those buffered behind it are processed; only the client's
\* Finished asks for an ACK (Dtls13MsgWasProcessed, Dtls13ProcessBufferedMessages).
MsgWasProcessed(side, e) ==
    LET next == NextGap(e.stored, e.expected, Last(Peer(side)))
    IN  [e EXCEPT !.expected = next,
                  !.stored = {k \in @ : k >= next},
                  !.sendAcks = side = "server" /\ next > ClientLast]

HandshakeRecv(side, e, n) ==
    LET seen == RtxMsgRecvd(side, RecordRecvd(e, n), n)
        reset == [seen EXCEPT !.backoff = 0]
    IN  IF n < e.expected THEN reset
        ELSE IF n > e.expected THEN [reset EXCEPT !.stored = @ \cup {n}]
        ELSE MsgWasProcessed(side, reset)

\* mutant: one ACK empties the buffer.
AckedRecordsAll(e, acked) == e.rtx

\* mutant: an ACK removes nothing.
AckedRecordsNone(e, acked) == {}

AckedRecords(e, acked) == e.rtx \cap acked

\* mutant: any ACK completes the handshake.
FinishedAckedByAny(rtx) == TRUE

FinishedAcked(rtx) == rtx = {}

\* What is not acknowledged is retransmitted at once; the client waiting for the ACK
\* of its Finished is done when nothing is left.
DoDtls13Ack(side, e, acked) ==
    LET left == e.rtx \ AckedRecords(e, acked)
    IN  [e EXCEPT !.rtx = left, !.retransmit = left # {},
                  !.state = IF side = "client" /\ @ = "wait_ack" /\ FinishedAcked(left)
                              THEN "connected" ELSE @]

\* A server without state answers the first ClientHello with a HelloRetryRequest it
\* does not keep, and starts with the one that carries the cookie: it sends
\* ServerHello .. Finished.
ServerBegin(e, n) ==
    IF n = 0 THEN [e EXCEPT !.out = @ \cup {Handshake(0)}]
             ELSE HandshakeSend([e EXCEPT !.state = "accepting", !.expected = 2,
                                          !.fast = TRUE],
                                1 .. ServerLast)

\* ProcessReply on one record; tracked are the acknowledged records still tracked.
ProcessReply(side, e, d, tracked) ==
    LET read == [e EXCEPT !.unified = @ \/ d.epoch > 0]
    IN  IF Dropped(side, e, d) THEN Drop(side, e, d)
        ELSE IF d.type = "ack" THEN DoDtls13Ack(side, read, tracked)
        ELSE IF side = "server" /\ e.state = "begin" THEN ServerBegin(read, d.num)
        ELSE HandshakeRecv(side, read, d.num)

-----------------------------------------------------------------------------
(* The state machine of wolfSSL_connect_TLSv13 and the timer.              *)

\* mutant: the client does not wait for the server's last message.
FlightCompleteEarly(e) == e.expected >= ServerLast

FlightComplete(e) == e.expected > ServerLast

ClientStart(e) == HandshakeSend([e EXCEPT !.state = "hello_sent"], {0})

ClientProgress(e) ==
    IF e.state = "hello_sent" /\ e.expected = 1
      THEN HandshakeSend([e EXCEPT !.state = "hello_again_reply"], {1})
    ELSE IF e.state = "hello_again_reply" /\ FlightComplete(e)
      THEN HandshakeSend([e EXCEPT !.state = "wait_ack"], 2 .. ClientLast)
    ELSE e

Progress(side, e) == IF side = "client" THEN ClientProgress(e) ELSE e

\* One turn of a connect, accept or read loop: a record comes in, the scheduled work
\* is done, the state machine moves on.
Turn(side, e, d, tracked, skip) ==
    Progress(side, DoScheduledWork(side, ProcessReply(side, e, d, tracked), skip))

\* wolfSSL_dtls_got_timeout: pending ACKs go out; a short timeout ends there, a long
\* one doubles the timer and retransmits, or does nothing once the timer is at its
\* maximum.
RtxTimeout(side, e) ==
    LET acked == IF e.seen # {} /\ (ServerHelloDone(side, e) \/ e.unified)
                   THEN [SendDtls13Ack(side, e) EXCEPT !.fast = FALSE] ELSE e
    IN  IF acked.fast THEN [acked EXCEPT !.fast = FALSE]
        ELSE IF acked.backoff = MaxBackoff THEN acked
        ELSE RtxSendBuffered([acked EXCEPT !.backoff = @ + 1], FALSE)

=============================================================================
