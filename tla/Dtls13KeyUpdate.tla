-------------------------- MODULE Dtls13KeyUpdate --------------------------
(***************************************************************************)
(* Key updates after the handshake.  Each side counts the epoch it sends   *)
(* in and the epoch its peer sends in, and holds the keys of four epochs.  *)
(* A KeyUpdate is one message in flight at a time; its sender changes keys *)
(* when the ACK comes, its receiver at once.  The link loses, repeats and  *)
(* reorders, so that anything sent can still arrive.                       *)
(***************************************************************************)
EXTENDS Integers, FiniteSets

CONSTANTS
    MaxClientUpdates, MaxServerUpdates  \* key updates a side starts by itself

ASSUME UpdateAssumption == MaxClientUpdates \in Nat /\ MaxServerUpdates \in Nat

Sides == {"client", "server"}
Peer(side) == IF side = "client" THEN "server" ELSE "client"

Slots == 0 .. 3                  \* DTLS13_EPOCH_SIZE
HandshakeEpoch == 2              \* DTLS13_EPOCH_HANDSHAKE
Traffic0 == 3                    \* DTLS13_EPOCH_TRAFFIC0

VARIABLES
    ep,        \* ep[side], see Connected
    sent,      \* sent[side]: the records side has sent
    initiated  \* initiated[side]: key updates that side started by itself

vars == <<ep, sent, initiated>>

\* Every update is started by a side or answers one that was: no more epochs.
LastEpoch == Traffic0 + MaxClientUpdates + MaxServerUpdates

SlotStates == [number : 0 .. LastEpoch, side : {"free", "encrypt", "decrypt", "both"}]

Endpoints == [epoch : Traffic0 .. LastEpoch, peerEpoch : Traffic0 .. LastEpoch,
              slots : [Slots -> SlotStates],
              decrypting : Slots,             \* dtls13DecryptEpoch, a pointer
              keys : 0 .. LastEpoch,          \* the epoch of the keys that decrypt
              waiting : BOOLEAN,              \* dtls13WaitKeyUpdateAck
              responseReq : BOOLEAN,          \* updateResponseReq
              invalidate : 0 .. LastEpoch + 1,\* dtls13InvalidateBefore
              finished : BOOLEAN]             \* the client's Finished is acknowledged

Records == [type : {"data"}, epoch : Traffic0 .. LastEpoch]
             \cup [type : {"key_update"}, epoch : Traffic0 .. LastEpoch, request : BOOLEAN]
             \cup [type : {"ack"}, epoch : Traffic0 .. LastEpoch, acked : 0 .. LastEpoch]

TypeOK == /\ ep \in [Sides -> Endpoints]
          /\ sent \in [Sides -> SUBSET Records]
          /\ initiated["client"] \in 0 .. MaxClientUpdates
          /\ initiated["server"] \in 0 .. MaxServerUpdates

\* After the handshake: epochs 0, 2 and 3 have keys both ways.
Connected(finished) ==
    [epoch |-> Traffic0, peerEpoch |-> Traffic0,
     slots |-> [i \in Slots |->
                  CASE i = 0 -> [number |-> 0, side |-> "both"]
                    [] i = 1 -> [number |-> HandshakeEpoch, side |-> "both"]
                    [] i = 2 -> [number |-> Traffic0, side |-> "both"]
                    [] i = 3 -> [number |-> 0, side |-> "free"]],
     decrypting |-> 2, keys |-> Traffic0, waiting |-> FALSE, responseReq |-> FALSE,
     invalidate |-> 0, finished |-> finished]

Ack(e, acked) == [type |-> "ack", epoch |-> e.epoch, acked |-> acked]

\* The server has acknowledged the client's Finished, but the ACK may be lost.
Init == \E finished \in BOOLEAN :
    /\ ep = [side \in Sides |-> Connected(side = "server" \/ finished)]
    /\ sent = [side \in Sides |->
                 IF side = "client" \/ finished THEN {}
                 ELSE {Ack(Connected(TRUE), HandshakeEpoch)}]
    /\ initiated = [side \in Sides |-> 0]

-----------------------------------------------------------------------------
(* The four slots.                                                         *)

Valid(e) == {i \in Slots : e.slots[i].side # "free"}

Dtls13GetEpoch(e, number) == {i \in Valid(e) : e.slots[i].number = number}

Last(S) == CHOOSE i \in S : \A j \in S : j <= i

\* mutant: a slot in use is taken.
Dtls13NewEpochSlotAny(e) == IF Valid(e) # Slots THEN Last(Slots \ Valid(e)) ELSE 3

\* A free slot, or the last one of an epoch that is current for neither side.  (There
\* is never more than one free slot.)
Dtls13NewEpochSlot(e) ==
    IF Valid(e) # Slots THEN Last(Slots \ Valid(e))
    ELSE Last({i \in Slots : e.slots[i].number \notin {e.epoch, e.peerEpoch}})

Dtls13SetOlderEpochSide(slots, number, side) ==
    [i \in Slots |-> IF slots[i].side # "free" /\ slots[i].number < number
                     THEN [slots[i] EXCEPT !.side = side] ELSE slots[i]]

\* The keys of an epoch for one side; those of epochs before the last one no longer
\* decrypt.
Dtls13NewEpoch(e, number, side) ==
    LET known == Dtls13GetEpoch(e, number)
        slot  == IF known # {} THEN Last(known) ELSE Dtls13NewEpochSlot(e)
        both  == known # {} /\ e.slots[slot].side # side
        slots == [e.slots EXCEPT ![slot] =
                    [number |-> number, side |-> IF both THEN "both" ELSE side]]
    IN  [e EXCEPT !.slots = IF slots[slot].side = "encrypt" THEN slots
                            ELSE Dtls13SetOlderEpochSide(slots, number - 1, "encrypt")]

CanSetEpochKeys(e, number, side) ==
    \E i \in Dtls13GetEpoch(e, number) : e.slots[i].side \in {"both", side}

SetDecryptKeys(e, number) ==
    [e EXCEPT !.decrypting = Last(Dtls13GetEpoch(e, number)), !.keys = number]

\* The epoch a record's two bits stand for: the peer's current one or the highest of
\* the others; none is -1.
Dtls13ReconstructEpochNumber(e, bits) ==
    LET others == {e.slots[i].number : i \in {j \in Valid(e) : e.slots[j].number % 4 = bits}}
    IN  IF e.peerEpoch % 4 = bits THEN e.peerEpoch
        ELSE IF others \ {0} = {} THEN -1 ELSE Last(others)

-----------------------------------------------------------------------------
(* Sending and receiving.  An operator returns the endpoint and what it    *)
(* has sent.                                                               *)

\* mutant: an answer asks for an answer.
SendTls13KeyUpdateAsking(e, respond) ==
    LET request == ~e.responseReq
    IN  [ep |-> [e EXCEPT !.responseReq = request, !.waiting = TRUE],
         out |-> {[type |-> "key_update", epoch |-> e.epoch, request |-> request]}]

\* An answer is not requested of an answer, nor a second time.
SendTls13KeyUpdate(e, respond) ==
    LET request == ~e.responseReq /\ ~respond
    IN  [ep |-> [e EXCEPT !.responseReq = request, !.waiting = TRUE],
         out |-> {[type |-> "key_update", epoch |-> e.epoch, request |-> request]}]

\* mutant: the new keys are used before the ACK.
Dtls13KeyUpdateAckReceivedTwice(e) ==
    [Dtls13NewEpoch(e, e.epoch + 2, "encrypt") EXCEPT !.epoch = @ + 2]

Dtls13KeyUpdateAckReceived(e) ==
    [Dtls13NewEpoch(e, e.epoch + 1, "encrypt") EXCEPT !.epoch = @ + 1]

\* The peer's next epoch begins; a request is answered unless an update is in flight.
NextPeerEpoch(e, request) ==
    LET new == [Dtls13NewEpoch(e, e.peerEpoch + 1, "decrypt")
                  EXCEPT !.peerEpoch = @ + 1, !.responseReq = @ /\ request]
        set == SetDecryptKeys(new, new.peerEpoch)
    IN  IF request /\ ~e.waiting THEN SendTls13KeyUpdate(set, TRUE)
        ELSE [ep |-> set, out |-> {}]

\* A repeated KeyUpdate is only acknowledged again.
DoTls13KeyUpdate(e, d) ==
    LET r == IF d.epoch = e.peerEpoch THEN NextPeerEpoch(e, d.request)
             ELSE [ep |-> e, out |-> {}]
    IN  [r EXCEPT !.out = @ \cup {Ack(r.ep, d.epoch)}]

DoDtls13Ack(e, d) ==
    LET done == [e EXCEPT !.finished = @ \/ d.acked = HandshakeEpoch]
    IN  IF e.waiting /\ d.acked = e.epoch
        THEN [ep |-> [Dtls13KeyUpdateAckReceived(done) EXCEPT !.waiting = FALSE], out |-> {}]
        ELSE [ep |-> done, out |-> {}]

\* Data in the epoch that was waited for shows that the peer has new keys.
DoApplicationData(e, number) ==
    IF e.invalidate # 0 /\ e.invalidate = number
    THEN [e EXCEPT !.slots = Dtls13SetOlderEpochSide(@, number, "encrypt"), !.invalidate = 0]
    ELSE e

Process(e, d, number) ==
    CASE d.type = "key_update" -> DoTls13KeyUpdate(e, d)
      [] d.type = "ack"        -> DoDtls13Ack(e, d)
      [] d.type = "data"       -> [ep |-> DoApplicationData(e, number), out |-> {}]

\* Record d arrives: its epoch is rebuilt from two bits and the keys of that epoch are
\* installed; with other keys than its own it does not decrypt and is dropped.
ReceiveRecord(e, d) ==
    LET number == Dtls13ReconstructEpochNumber(e, d.epoch % 4)
        same == e.slots[e.decrypting].number = number
        read == IF same THEN e ELSE SetDecryptKeys(e, number)
    IN  IF number = -1 \/ (~same /\ ~CanSetEpochKeys(e, number, "decrypt"))
        THEN [ep |-> e, out |-> {}]
        ELSE IF read.keys # d.epoch THEN [ep |-> read, out |-> {}]
        ELSE Process(read, d, number)

Becomes(side, r) == /\ ep' = [ep EXCEPT ![side] = r.ep]
                    /\ sent' = [sent EXCEPT ![side] = @ \cup r.out]

Receive(side) ==
    /\ \E d \in sent[Peer(side)] : Becomes(side, ReceiveRecord(ep[side], d))
    /\ UNCHANGED initiated

\* mutant: the keys of the epoch before.
WriteBehind(side) ==
    /\ Becomes(side, [ep |-> ep[side],
                      out |-> {[type |-> "data", epoch |-> ep[side].epoch - 1]}])
    /\ UNCHANGED initiated

\* wolfSSL_write sends in the current epoch, also while an update is in flight.
Write(side) ==
    /\ Becomes(side, [ep |-> ep[side],
                      out |-> {[type |-> "data", epoch |-> ep[side].epoch]}])
    /\ UNCHANGED initiated

MayInitiate(side) ==
    initiated[side] < IF side = "client" THEN MaxClientUpdates ELSE MaxServerUpdates

\* One update at a time.
Tls13UpdateKeys(side) ==
    /\ MayInitiate(side)
    /\ ~ep[side].waiting
    /\ Becomes(side, SendTls13KeyUpdate(ep[side], FALSE))
    /\ initiated' = [initiated EXCEPT ![side] = @ + 1]

\* Too many records did not decrypt: once the peer uses new keys the old ones go.
Dtls13CheckAEADFailLimit(side) ==
    /\ MayInitiate(side)
    /\ ~ep[side].responseReq
    /\ LET e == [ep[side] EXCEPT !.invalidate = ep[side].peerEpoch + 1]
       IN  IF e.waiting
           THEN Becomes(side, [ep |-> e, out |-> {}]) /\ UNCHANGED initiated
           ELSE /\ Becomes(side, SendTls13KeyUpdate(e, FALSE))
                /\ initiated' = [initiated EXCEPT ![side] = @ + 1]

Next == \E side \in Sides : \/ Receive(side) \/ Write(side) \/ Tls13UpdateKeys(side)
                            \/ Dtls13CheckAEADFailLimit(side)

Spec == Init /\ [][Next]_vars

-----------------------------------------------------------------------------
(* Properties.                                                             *)

\* Nobody sends in an epoch its peer has no keys for, and nobody is more than the one
\* update in flight behind.
InStep ==
    \A side \in Sides :
        LET e == ep[side]
            reader == ep[Peer(side)].peerEpoch
        IN  e.epoch <= reader /\ reader <= e.epoch + (IF e.waiting THEN 1 ELSE 0)

\* Making room for a new epoch never takes the keys an endpoint sends or reads with now.
CurrentKeysKept ==
    \A side \in Sides : /\ CanSetEpochKeys(ep[side], ep[side].epoch, "encrypt")
                        /\ CanSetEpochKeys(ep[side], ep[side].peerEpoch, "decrypt")

\* Key updates answer key updates only once: the epochs of both sides together move by
\* at most two for every update that a side started.
NoEcho ==
    ep["client"].epoch + ep["server"].epoch - 2 * Traffic0
        <= 2 * (initiated["client"] + initiated["server"])

\* Record in epoch n of side would be taken for what it is by the peer.
Readable(side, n) ==
    LET e == ep[Peer(side)]
    IN  /\ Dtls13ReconstructEpochNumber(e, n % 4) = n
        /\ CanSetEpochKeys(e, n, "decrypt")

\* What a side sends while its KeyUpdate is in flight, the retransmitted KeyUpdate
\* included, can be read by the peer.
LastEpochReadable == \A side \in Sides : Readable(side, ep[side].epoch)
=============================================================================
