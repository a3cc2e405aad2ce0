--------------------------- MODULE HandshakeOrder ---------------------------
(***************************************************************************)
(* What a handshake promises its two users: each side commits to the keys  *)
(* only after the other has, the server finishes only after the client has *)
(* committed, and the client reports success only after the server has     *)
(* finished.  No step is ever taken back.                                  *)
(***************************************************************************)
VARIABLES
    offered,          \* the client has sent a ClientHello
    serverCommitted,  \* the server has sent its Finished
    clientCommitted,  \* the client has sent its Finished
    serverDone,       \* the server has processed the client's Finished
    outcome           \* what wolfSSL_connect's caller learns

orderVars == <<offered, serverCommitted, clientCommitted, serverDone, outcome>>

Init == /\ offered = FALSE /\ serverCommitted = FALSE /\ clientCommitted = FALSE
        /\ serverDone = FALSE
        /\ outcome = "pending"

Offer ==
    /\ outcome = "pending"
    /\ offered' = TRUE
    /\ UNCHANGED <<serverCommitted, clientCommitted, serverDone, outcome>>

ServerCommit ==
    /\ offered
    /\ serverCommitted' = TRUE
    /\ UNCHANGED <<offered, clientCommitted, serverDone, outcome>>

ClientCommit ==
    /\ serverCommitted
    /\ outcome = "pending"
    /\ clientCommitted' = TRUE
    /\ UNCHANGED <<offered, serverCommitted, serverDone, outcome>>

ServerDone ==
    /\ clientCommitted
    /\ serverDone' = TRUE
    /\ UNCHANGED <<offered, serverCommitted, clientCommitted, outcome>>

ClientDone ==
    /\ serverDone
    /\ outcome = "pending"
    /\ outcome' = "connected"
    /\ UNCHANGED <<offered, serverCommitted, clientCommitted, serverDone>>

ClientFail ==
    /\ outcome = "pending"
    /\ outcome' = "failed"
    /\ UNCHANGED <<offered, serverCommitted, clientCommitted, serverDone>>

Next == \/ Offer \/ ServerCommit \/ ClientCommit \/ ServerDone
        \/ ClientDone \/ ClientFail

Spec == Init /\ [][Next]_orderVars

=============================================================================
