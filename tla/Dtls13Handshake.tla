-------------------------- MODULE Dtls13Handshake ---------------------------
(***************************************************************************)
(* One handshake between the firmware (client) and a host server over a    *)
(* network that loses, duplicates, delays and reorders: sent[side] is all  *)
(* that side has ever sent, and any of it may arrive at any time, any      *)
(* number of times.  The network is external (the link, the driver's       *)
(* receive slots, the host's socket).                                      *)
(*                                                                         *)
(* The client is a polling loop: a turn of it receives one datagram or     *)
(* times out.  The server's loops turn only when a datagram comes in, they *)
(* have no timer.                                                          *)
(***************************************************************************)
EXTENDS Dtls13Endpoint

VARIABLES ep, sent

vars == <<ep, sent>>

TypeOK ==
    /\ ep \in [Sides -> Endpoint("client") \cup Endpoint("server")]
    /\ \A side \in Sides : /\ ep[side] \in Endpoint(side)
                           /\ ~ep[side].sendAcks /\ ~ep[side].retransmit
                           /\ ep[side].out = {}
    /\ sent \in [Sides -> SUBSET (Datagrams("client") \cup Datagrams("server"))]
    /\ \A side \in Sides : sent[side] \subseteq Datagrams(side)

Init ==
    /\ ep = [side \in Sides |->
               NewEndpoint(IF side = "client" THEN "start" ELSE "begin")]
    /\ sent = [side \in Sides |-> {}]

-----------------------------------------------------------------------------
\* The call on side ends in e; what it sent is on the network.
Becomes(side, e) ==
    /\ sent' = [sent EXCEPT ![side] = @ \cup e.out]
    /\ ep' = [ep EXCEPT ![side] = [e EXCEPT !.out = {}]]

\* wolfSSL_connect for the first time: the ClientHello.
Connect ==
    /\ ep["client"].state = "start"
    /\ Becomes("client", ClientStart(ep["client"]))

\* A datagram arrives.  An ACK may name records that are no longer tracked: three
\* record numbers are kept for a message.  The host skips a retransmission that
\* comes too soon, the firmware is built without the clock for that.
Receive(side, d) ==
    /\ ep[side].state \notin {"start", "failed"}
    /\ \E tracked \in SUBSET d.acked, skip \in {FALSE, side = "server"} :
          Becomes(side, Turn(side, ep[side], d, tracked, skip))

\* The client's receive callback times out, in wolfSSL_connect or in the
\* wolfSSL_read after it.
Timeout ==
    /\ ep["client"].state \notin {"start", "failed"}
    /\ Becomes("client", RtxTimeout("client", ep["client"]))

\* The client's loop ends after kMaxAttempts.
GiveUp ==
    /\ ep["client"].state \in {"hello_sent", "hello_again_reply", "wait_ack"}
    /\ Becomes("client", [ep["client"] EXCEPT !.state = "failed"])

Next ==
    \/ Connect \/ Timeout \/ GiveUp
    \/ \E side \in Sides : \E d \in sent[Peer(side)] : Receive(side, d)

Spec == Init /\ [][Next]_vars

-----------------------------------------------------------------------------
(* Properties.                                                             *)

\* The peer's messages a side has processed or holds in its buffer.
Received(side) == {n \in Numbers(Peer(side)) :
                     n < ep[side].expected \/ n \in ep[side].stored}

\* The messages a side has put on the network and must get across; the
\* HelloRetryRequest is not one of them, the client's retries bring it again.
MustArrive(side) ==
    {n \in Numbers(side) : Handshake(n) \in sent[side]}
      \ (IF side = "server" THEN {0} ELSE {})

\* A side stops retransmitting a message only when the peer has it: neither an
\* implicit acknowledgement (DtlsMsgPoolReset) nor an ACK, however late, partial or
\* repeated, empties the buffer of a message still missing.
NothingForgotten ==
    \A side \in Sides : MustArrive(side) \subseteq ep[side].rtx \cup Received(Peer(side))

\* An ACK names only messages its sender has processed or buffered, never one it
\* could not decrypt; so the ones it is about to name.
AcksTruthful ==
    \A side \in Sides :
       /\ ep[side].seen \subseteq Received(side)
       /\ \A d \in sent[side] : d.acked \subseteq Received(side)

\* No message that is next in order is left waiting in the buffer, where only
\* another datagram could wake it.
NoneLeftWaiting == \A side \in Sides : ep[side].expected \notin ep[side].stored

\* When wolfSSL_connect returns success the server has processed the client's
\* Finished and the client has processed the server's.
Agreement ==
    ep["client"].state = "connected"
        => /\ HandShakeDone("server", ep["server"])
           /\ ep["client"].expected = ServerLast + 1
           /\ ep["client"].rtx = {}

\* The order in which the two sides commit and finish.
Order == INSTANCE HandshakeOrder
           WITH offered <- sent["client"] # {},
                serverCommitted <- Handshake(ServerLast) \in sent["server"],
                clientCommitted <- Handshake(ClientLast) \in sent["client"],
                serverDone <- HandShakeDone("server", ep["server"]),
                outcome <- CASE ep["client"].state = "connected" -> "connected"
                             [] ep["client"].state = "failed" -> "failed"
                             [] OTHER -> "pending"
OrderSpec == Order!Spec

=============================================================================
