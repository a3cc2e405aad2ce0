-------------------------- MODULE Dtls13LinkProofs --------------------------
(***************************************************************************)
(* The link of Dtls13Link does only what the network of Dtls13Handshake    *)
(* may do, for every flight length, number of losses and of attempts: what *)
(* is on the link has been sent.  So what was proved of the network holds  *)
(* on the link.                                                            *)
(***************************************************************************)
EXTENDS Dtls13Link, Dtls13HandshakeProofs, SequenceTheorems

(* Everything on the link has been sent, and is still to arrive once.      *)
OnLink == /\ DOMAIN link = Sides /\ link = [side \in Sides |-> link[side]]
          /\ \A side \in Sides : link[side] \in Seq(SUBSET sent[side])

Bounds == /\ lost \in 0 .. MaxLosses /\ attempts \in 0 .. MaxAttempts
          /\ patient \in BOOLEAN

LInv == IInv /\ OnLink /\ Bounds /\ recent \in BOOLEAN

LEMMA SeqGrows ==
    ASSUME NEW S, NEW T, S \subseteq T, NEW q \in Seq(SUBSET S)
    PROVE  q \in Seq(SUBSET T)
<1>1. q \in [1 .. Len(q) -> SUBSET S] /\ Len(q) \in Nat
  BY LenProperties
<1>2. q \in [1 .. Len(q) -> SUBSET T]
  BY <1>1
<1> QED BY <1>1, <1>2, SeqDef

LEMMA WithSeq ==
    ASSUME NEW S, NEW q \in Seq(SUBSET S), NEW out
    PROVE  With(q, out) \in Seq(SUBSET (S \cup out))
<1>1. q \in Seq(SUBSET (S \cup out))
  BY SeqGrows
<1> QED BY <1>1, AppendProperties DEF With

LEMMA WithoutSeq ==
    ASSUME NEW S, NEW q \in Seq(SUBSET S), q # <<>>, NEW d
    PROVE  Without(q, d) \in Seq(SUBSET S)
<1>1. Head(q) \in SUBSET S /\ Tail(q) \in Seq(SUBSET S)
  BY HeadTailProperties
<1>2. <<Head(q) \ {d}>> \in Seq(SUBSET S)
  BY <1>1
<1>3. <<Head(q) \ {d}>> \o Tail(q) \in Seq(SUBSET S)
  BY <1>1, <1>2, ConcatProperties
<1> QED BY <1>1, <1>3 DEF Without

LEMMA ArrivingSent ==
    ASSUME LInv, NEW side \in Sides, NEW d \in Arriving(side)
    PROVE  d \in sent[side] /\ link[side] # <<>>
<1>1. link[side] # <<>> /\ d \in Head(link[side])
  BY DEF Arriving
<1>2. link[side] \in Seq(SUBSET sent[side])
  BY DEF LInv, OnLink
<1>3. Head(link[side]) \in SUBSET sent[side]
  BY <1>1, <1>2, HeadTailProperties
<1> QED BY <1>1, <1>3

(* A call puts on the link what it puts on the network.                    *)
LEMMA SentOnLink ==
    ASSUME LInv, NEW side \in Sides, NEW e, Sent(side, e)
    PROVE  OnLink'
<1>1. /\ sent'[side] = sent[side] \cup e.out
      /\ \A s \in Sides \ {side} : sent'[s] = sent[s]
  BY DEF Sent, Becomes, LInv, IInv, TypeOK
<1>2. /\ DOMAIN link' = Sides /\ link' = [s \in Sides |-> link'[s]]
      /\ link'[side] = With(link[side], e.out)
      /\ \A s \in Sides \ {side} : link'[s] = link[s]
  BY DEF Sent, LInv, OnLink
<1>3. link'[side] \in Seq(SUBSET sent'[side])
  <2>1. link[side] \in Seq(SUBSET sent[side])
    BY DEF LInv, OnLink
  <2>2. With(link[side], e.out) \in Seq(SUBSET (sent[side] \cup e.out))
    BY <2>1, WithSeq
  <2> QED BY <1>1, <1>2, <2>2
<1>4. ASSUME NEW s \in Sides PROVE link'[s] \in Seq(SUBSET sent'[s])
  BY <1>1, <1>2, <1>3 DEF LInv, OnLink
<1> QED BY <1>2, <1>4 DEF OnLink

LEMMA AnsweredOnLink ==
    ASSUME LInv, NEW side \in Sides, NEW e, NEW d \in Arriving(Peer(side)),
           Answered(side, e, d)
    PROVE  OnLink'
<1>1. Peer(side) \in Sides /\ Peer(side) # side /\ \A s \in Sides : s = side \/ s = Peer(side)
  BY DEF Peer, Sides
<1>2. /\ sent'[side] = sent[side] \cup e.out
      /\ \A s \in Sides \ {side} : sent'[s] = sent[s]
  BY DEF Answered, Becomes, LInv, IInv, TypeOK
<1>3. /\ DOMAIN link' = Sides /\ link' = [s \in Sides |-> link'[s]]
      /\ link'[side] = With(link[side], e.out)
      /\ link'[Peer(side)] = Without(link[Peer(side)], d)
  BY <1>1 DEF Answered, LInv, OnLink
<1>4. link[Peer(side)] # <<>>
  BY <1>1, ArrivingSent
<1>5. link'[side] \in Seq(SUBSET sent'[side])
  <2>1. link[side] \in Seq(SUBSET sent[side])
    BY DEF LInv, OnLink
  <2>2. With(link[side], e.out) \in Seq(SUBSET (sent[side] \cup e.out))
    BY <2>1, WithSeq
  <2> QED BY <1>2, <1>3, <2>2
<1>6. link'[Peer(side)] \in Seq(SUBSET sent'[Peer(side)])
  <2>1. link[Peer(side)] \in Seq(SUBSET sent[Peer(side)])
    BY <1>1 DEF LInv, OnLink
  <2>2. Without(link[Peer(side)], d) \in Seq(SUBSET sent[Peer(side)])
    BY <1>4, <2>1, WithoutSeq
  <2> QED BY <1>1, <1>2, <1>3, <2>2
<1>7. ASSUME NEW s \in Sides PROVE link'[s] \in Seq(SUBSET sent'[s])
  BY <1>1, <1>5, <1>6
<1> QED BY <1>3, <1>7 DEF OnLink

-----------------------------------------------------------------------------
(* One step per action: it is a step of the network, and keeps OnLink.     *)

Kept == [Next]_vars /\ OnLink' /\ Bounds' /\ recent' \in BOOLEAN

LEMMA LinkConnectStep ==
    ASSUME LInv, LinkConnect
    PROVE  Kept
<1>1. "client" \in Sides
  BY DEF Sides
<1>2. Connect
  BY DEF LinkConnect, Sent, Connect
<1>3. OnLink'
  BY <1>1, SentOnLink DEF LinkConnect
<1>4. Bounds' /\ recent' \in BOOLEAN
  BY DEF LInv, Bounds, LinkConnect
<1> QED BY <1>2, <1>3, <1>4 DEF Kept, Next

LEMMA ClientReceiveStepOnLink ==
    ASSUME LInv, ClientReceive
    PROVE  Kept
<1>1. "client" \in Sides /\ "server" \in Sides /\ Peer("client") = "server"
  BY DEF Sides, Peer
<1>2. PICK d \in Arriving("server") :
        Answered("client", Turn("client", ep["client"], d, Tracked("client", d), FALSE), d)
  BY DEF ClientReceive
<1>3. d \in sent["server"]
  BY <1>1, ArrivingSent
<1>4. ep["client"].state \notin {"start", "failed"}
  BY DEF ClientReceive, Connecting
<1>5. Becomes("client", Turn("client", ep["client"], d, d.acked, FALSE))
  BY <1>2 DEF Answered, Tracked
<1>6. Receive("client", d)
  BY <1>4, <1>5 DEF Receive
<1>7. OnLink'
  BY <1>1, <1>2, AnsweredOnLink
<1>8. Bounds' /\ recent' \in BOOLEAN
  BY DEF LInv, Bounds, ClientReceive
<1> QED BY <1>1, <1>3, <1>6, <1>7, <1>8 DEF Kept, Next

LEMMA ServerReceiveStepOnLink ==
    ASSUME LInv, ServerReceive
    PROVE  Kept
<1>1. "client" \in Sides /\ "server" \in Sides /\ Peer("server") = "client"
  BY DEF Sides, Peer
<1>2. PICK d \in Arriving("client"), skip \in {FALSE, recent} :
        /\ Answered("server", Turn("server", ep["server"], d, Tracked("server", d), skip), d)
        /\ recent' = (recent \/ ProcessReply("server", ep["server"], d,
                                             Tracked("server", d)).retransmit)
  BY DEF ServerReceive
<1>3. d \in sent["client"]
  BY <1>1, ArrivingSent
<1>4. ep["server"].state \notin {"start", "failed"}
  BY <1>1 DEF LInv, IInv, TypeOK, Endpoint, States
<1>5. Becomes("server", Turn("server", ep["server"], d, d.acked, skip))
  BY <1>2 DEF Answered, Tracked
<1>6. skip \in {FALSE, TRUE}
  BY <1>2 DEF LInv
<1>7. Receive("server", d)
  BY <1>4, <1>5, <1>6 DEF Receive
<1>8. OnLink'
  BY <1>1, <1>2, AnsweredOnLink
<1>9. recent' \in BOOLEAN
  BY <1>2
<1>10. Bounds'
  BY DEF LInv, Bounds, ServerReceive
<1> QED BY <1>1, <1>3, <1>7, <1>8, <1>9, <1>10 DEF Kept, Next

LEMMA LoseStep ==
    ASSUME LInv, NEW side \in Sides, Lose(side)
    PROVE  Kept
<1>1. PICK d \in Arriving(side) : link' = [link EXCEPT ![side] = Without(@, d)]
  BY DEF Lose
<1>2. link[side] # <<>>
  BY ArrivingSent
<1>3. sent' = sent /\ ep' = ep
  BY DEF Lose
<1>4. /\ DOMAIN link' = Sides /\ link' = [s \in Sides |-> link'[s]]
      /\ link'[side] = Without(link[side], d)
      /\ \A s \in Sides \ {side} : link'[s] = link[s]
  BY <1>1 DEF LInv, OnLink
<1>5. link'[side] \in Seq(SUBSET sent[side])
  <2>1. link[side] \in Seq(SUBSET sent[side])
    BY DEF LInv, OnLink
  <2>2. Without(link[side], d) \in Seq(SUBSET sent[side])
    BY <1>2, <2>1, WithoutSeq
  <2> QED BY <1>4, <2>2
<1>6. OnLink'
  BY <1>3, <1>4, <1>5 DEF LInv, OnLink
<1>7. Bounds'
  BY LinkAssumption DEF LInv, Bounds, Lose
<1>8. recent' \in BOOLEAN
  BY DEF LInv, Lose
<1> QED BY <1>3, <1>6, <1>7, <1>8 DEF Kept, vars

LEMMA LinkTimeoutStep ==
    ASSUME LInv, LinkTimeout
    PROVE  Kept
<1>1. "client" \in Sides
  BY DEF Sides
<1>2. Timeout
  BY DEF LinkTimeout, Connecting, Sent, Timeout
<1>3. OnLink'
  BY <1>1, SentOnLink DEF LinkTimeout
<1>4. Bounds'
  BY LinkAssumption DEF LInv, Bounds, LinkTimeout, Connecting
<1>5. recent' \in BOOLEAN
  BY DEF LinkTimeout
<1> QED BY <1>2, <1>3, <1>4, <1>5 DEF Kept, Next

LEMMA LinkGiveUpStep ==
    ASSUME LInv, LinkGiveUp
    PROVE  Kept
<1>1. GiveUp /\ link' = link
  BY DEF LinkGiveUp
<1>2. sent["client"] \subseteq sent'["client"] /\ sent'["server"] = sent["server"]
  BY <1>1 DEF GiveUp, Becomes, LInv, IInv, TypeOK, Sides
<1>3. \A side \in Sides : link[side] \in Seq(SUBSET sent'[side])
  BY <1>2, SeqGrows DEF LInv, OnLink, Sides
<1>4. OnLink'
  BY <1>1, <1>3 DEF LInv, OnLink
<1>5. Bounds' /\ recent' \in BOOLEAN
  BY DEF LInv, Bounds, LinkGiveUp
<1> QED BY <1>1, <1>4, <1>5 DEF Kept, Next

LEMMA LinkStep == LInv /\ [LinkNext]_linkVars => LInv' /\ [Next]_vars
<1> SUFFICES ASSUME LInv, [LinkNext]_linkVars PROVE LInv' /\ [Next]_vars
  OBVIOUS
<1>1. Kept
  <2>1. CASE UNCHANGED linkVars
    BY <2>1 DEF linkVars, vars, Kept, LInv, OnLink, Bounds
  <2>2. CASE LinkNext
    BY <2>2, LinkConnectStep, ClientReceiveStepOnLink, ServerReceiveStepOnLink,
       LinkTimeoutStep, LinkGiveUpStep, LoseStep DEF LinkNext
  <2> QED BY <2>1, <2>2
<1>2. IInv'
  BY <1>1, NextInvariant DEF LInv, Kept
<1> QED BY <1>1, <1>2 DEF LInv, Kept

LEMMA LinkInitInv == LinkInit => LInv /\ Init
<1> SUFFICES ASSUME LinkInit PROVE LInv /\ Init
  OBVIOUS
<1>1. Init /\ IInv
  BY InitInvariant DEF LinkInit
<1>2. <<>> \in Seq(SUBSET sent["client"]) /\ <<>> \in Seq(SUBSET sent["server"])
  BY EmptySeq
<1>3. link["client"] = <<>> /\ link["server"] = <<>> /\ DOMAIN link = Sides
      /\ link = [side \in Sides |-> link[side]]
  BY DEF LinkInit, Sides
<1>4. OnLink
  BY <1>2, <1>3 DEF OnLink, Sides
<1>5. Bounds
  BY LinkAssumption DEF LinkInit, Bounds
<1>6. recent \in BOOLEAN
  BY DEF LinkInit
<1> QED BY <1>1, <1>4, <1>5, <1>6 DEF LInv

THEOREM LinkInvariance == LinkSpec => []LInv
<1> QED BY LinkInitInv, LinkStep, PTL DEF LinkSpec

\* The driver's FIFO, the client's timer and attempt limit and the host's clock do
\* nothing that the network and the loops of Dtls13Handshake may not do.
THEOREM LinkRefinesNetwork == LinkSpec => NetworkSpec
<1> QED BY LinkInitInv, LinkStep, LinkInvariance, PTL DEF LinkSpec, NetworkSpec, Spec

\* Every call leaves both endpoints well formed and the attempts within kMaxAttempts.
THEOREM LinkTypeCorrect == LinkSpec => []LinkTypeOK
<1>1. LInv => LinkTypeOK
  <2> SUFFICES ASSUME LInv PROVE LinkTypeOK
    OBVIOUS
  <2> DEFINE D == Datagrams("client") \cup Datagrams("server")
  <2>1. TypeOK
    BY DEF LInv, IInv
  <2>2. ASSUME NEW side \in Sides PROVE link[side] \in Seq(SUBSET D)
    <3>1. sent[side] \subseteq D
      BY <2>1 DEF TypeOK
    <3> HIDE DEF D
    <3> QED BY <3>1, SeqGrows DEF LInv, OnLink
  <2>3. link \in [Sides -> Seq(SUBSET D)]
    <3> HIDE DEF D
    <3> QED BY <2>2 DEF LInv, OnLink
  <2> QED BY <2>1, <2>3 DEF LInv, Bounds, LinkTypeOK
<1> QED BY <1>1, LinkInvariance, PTL

\* On the link too, success of wolfSSL_connect means that the server has finished, and
\* no acknowledgement makes a side forget what the peer lacks.
THEOREM LinkSafety == LinkSpec => [](Agreement /\ NothingForgotten)
<1> QED BY LinkRefinesNetwork, BothAgree, NothingIsForgotten, PTL DEF NetworkSpec
=============================================================================
