----------------------------- MODULE Dtls13Link -----------------------------
(***************************************************************************)
(* The handshake of Dtls13Handshake over one Ethernet link: datagrams      *)
(* arrive in the order sent (the driver is a FIFO, see DatagramPort), some *)
(* of them are lost, and the client's loop counts its attempts.  Time is   *)
(* in two places: the host's clock (recent) and the length of the client's *)
(* poll (patient).                                                         *)
(***************************************************************************)
EXTENDS Dtls13Handshake, Sequences

CONSTANTS
    MaxLosses,    \* datagrams the link may lose
    MaxAttempts   \* kMaxAttempts: calls of wolfSSL_connect that want to read

ASSUME LinkAssumption == MaxLosses \in Nat /\ MaxAttempts \in Nat

VARIABLES
    link,      \* link[side]: for each call of side, what it sent and is still to arrive
    lost,      \* datagrams lost so far
    attempts,  \* of the client
    recent,    \* the host retransmitted within this second (lastRtx)
    patient    \* the client's poll lasts longer than the server's answer takes

linkVars == <<ep, sent, link, lost, attempts, recent, patient>>

LinkTypeOK ==
    /\ TypeOK
    /\ link \in [Sides -> Seq(SUBSET (Datagrams("client") \cup Datagrams("server")))]
    /\ lost \in 0 .. MaxLosses /\ attempts \in 0 .. MaxAttempts
    /\ recent \in BOOLEAN /\ patient \in BOOLEAN

LinkInit ==
    /\ Init
    /\ link = [side \in Sides |-> <<>>]
    /\ lost = 0 /\ attempts = 0 /\ recent = FALSE /\ patient \in BOOLEAN

-----------------------------------------------------------------------------
\* mutant: every record counts as acknowledged.
TrackedAll(side, d) == Numbers(side)

\* The three record numbers kept for a message are enough on a link that does not
\* reorder: every acknowledged record is still tracked.
Tracked(side, d) == d.acked

\* A call sends its ACK first, then messages in the order of their numbers.
Before(d1, d2) == \/ d1.type = "ack" /\ d2.type # "ack"
                  \/ d1.type = d2.type /\ d1.num < d2.num

\* The datagram of side that nothing is in front of.
Arriving(side) ==
    IF link[side] = <<>> THEN {}
    ELSE {d \in Head(link[side]) : \A other \in Head(link[side]) \ {d} : Before(d, other)}

Without(calls, d) ==
    IF Head(calls) = {d} THEN Tail(calls) ELSE <<Head(calls) \ {d}>> \o Tail(calls)

With(calls, out) == IF out = {} THEN calls ELSE Append(calls, out)

\* The call on side ends in e, without taking a datagram, or with d.
Sent(side, e) ==
    /\ Becomes(side, e)
    /\ link' = [link EXCEPT ![side] = With(@, e.out)]

Answered(side, e, d) ==
    /\ Becomes(side, e)
    /\ link' = [link EXCEPT ![side] = With(@, e.out), ![Peer(side)] = Without(@, d)]

\* mutant: the client tries forever.
ConnectingForever ==
    ep["client"].state \in {"hello_sent", "hello_again_reply", "wait_ack"}

\* wolfSSL_connect is called once more: it has not returned success, nor has the
\* client used up its attempts.
Connecting ==
    /\ ep["client"].state \in {"hello_sent", "hello_again_reply", "wait_ack"}
    /\ attempts < MaxAttempts

LinkConnect ==
    /\ ep["client"].state = "start"
    /\ Sent("client", ClientStart(ep["client"]))
    /\ UNCHANGED <<lost, attempts, recent, patient>>

ClientReceive ==
    /\ Connecting \/ ep["client"].state = "connected"
    /\ \E d \in Arriving("server") :
          Answered("client", Turn("client", ep["client"], d, Tracked("client", d), FALSE), d)
    /\ UNCHANGED <<lost, attempts, recent, patient>>

\* The host skips a retransmission within the second of the last one.
ServerReceive ==
    /\ \E d \in Arriving("client"), skip \in {FALSE, recent} :
          LET tracked == Tracked("server", d)
          IN  /\ Answered("server", Turn("server", ep["server"], d, tracked, skip), d)
              /\ recent' = (recent
                              \/ ProcessReply("server", ep["server"], d, tracked).retransmit)
    /\ UNCHANGED <<lost, attempts, patient>>

Lose(side) ==
    /\ lost < MaxLosses
    /\ \E d \in Arriving(side) : link' = [link EXCEPT ![side] = Without(@, d)]
    /\ lost' = lost + 1
    /\ UNCHANGED <<ep, sent, attempts, recent, patient>>

\* The client's poll ends without a datagram: the timer, then one attempt less.  The
\* poll takes longer than a second of the host.
LinkTimeout ==
    /\ Connecting
    /\ patient => \A side \in Sides : link[side] = <<>>
    /\ Sent("client", RtxTimeout("client", ep["client"]))
    /\ attempts' = attempts + 1
    /\ recent' = FALSE
    /\ UNCHANGED <<lost, patient>>

\* mutant: the limit is compared one too late.
LinkGiveUpLate ==
    /\ GiveUp
    /\ attempts > MaxAttempts
    /\ UNCHANGED <<link, lost, attempts, recent, patient>>

LinkGiveUp ==
    /\ GiveUp
    /\ attempts = MaxAttempts
    /\ UNCHANGED <<link, lost, attempts, recent, patient>>

LinkNext == \/ LinkConnect \/ ClientReceive \/ ServerReceive \/ LinkTimeout \/ LinkGiveUp
            \/ \E side \in Sides : Lose(side)

\* The client's loop and the server's never stop, and a poll in which nothing arrives
\* ends; the link need not lose anything.
Fairness == /\ WF_linkVars(LinkConnect) /\ WF_linkVars(ClientReceive)
            /\ WF_linkVars(ServerReceive)
            /\ WF_linkVars(LinkTimeout /\ link["server"] = <<>>) /\ WF_linkVars(LinkGiveUp)

LinkSpec == LinkInit /\ [][LinkNext]_linkVars
FairSpec == LinkSpec /\ Fairness

-----------------------------------------------------------------------------
(* Properties.                                                             *)

\* What the link does is something the network of Dtls13Handshake may do: whatever
\* holds there holds here.
NetworkSpec == Spec

\* The client's loop of wolfSSL_connect calls ends: no exchange of ACKs and
\* retransmissions keeps it from its attempt limit.
ConnectReturns == <>(ep["client"].state \in {"connected", "failed"})

\* A client whose polls last long enough completes the handshake, and so does the
\* server, whatever datagram is lost.
Completes == patient => <>[](/\ ep["client"].state = "connected"
                             /\ HandShakeDone("server", ep["server"]))

\* Once a client is connected the answers to old messages die out.
Settles == <>[](ep["client"].state = "connected" => \A side \in Sides : link[side] = <<>>)

\* A long timeout puts everything unacknowledged on the link again.
TimeoutResends ==
    [][attempts' > attempts /\ ~ep["client"].fast
          => \A n \in ep["client"].rtx :
                \E i \in DOMAIN link'["client"] : Handshake(n) \in link'["client"][i]]_linkVars
=============================================================================
