---------------------------- MODULE DatagramPort ----------------------------
(***************************************************************************)
(* What wolfSSL is promised by the receive path of the firmware: a bounded *)
(* FIFO of numbered datagrams.  A datagram the port accepts is delivered   *)
(* once, in order.  Until the first delivery (the client has not started   *)
(* to read) the oldest queued datagram may be discarded; never afterwards. *)
(* Datagrams the port does not accept, a full queue, are lost before they  *)
(* get a number.                                                           *)
(***************************************************************************)
EXTENDS Naturals, Sequences

CONSTANT Capacity

VARIABLES queue, delivered, accepted

portVars == <<queue, delivered, accepted>>

Init == queue = <<>> /\ delivered = <<>> /\ accepted = 0

Accept ==
    /\ Len(queue) < Capacity
    /\ accepted' = accepted + 1
    /\ queue' = Append(queue, accepted')
    /\ UNCHANGED delivered

Discard ==
    /\ delivered = <<>>
    /\ queue # <<>>
    /\ queue' = Tail(queue)
    /\ UNCHANGED <<delivered, accepted>>

Deliver ==
    /\ queue # <<>>
    /\ delivered' = Append(delivered, Head(queue))
    /\ queue' = Tail(queue)
    /\ UNCHANGED accepted

Next == Accept \/ Discard \/ Deliver

Spec == Init /\ [][Next]_portVars

=============================================================================
