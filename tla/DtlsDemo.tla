------------------------------ MODULE DtlsDemo ------------------------------
(***************************************************************************)
(* The two programs of the demo, end to end: run_dtls13_demo on the SoC    *)
(* and one of the host's servers.  The handshake between them is what      *)
(* HandshakeOrder promises; the exchange of one message and its echo runs  *)
(* over a link that loses datagrams, with no one to send them again.       *)
(***************************************************************************)
EXTENDS Naturals, Sequences

CONSTANTS
    MaxAttempts,  \* kMaxAttempts (main.c), 300
    MaxLate,      \* bound: handshake records repeated after the handshake
    MaxStrays     \* bound: datagrams to the server from someone else

ASSUME DemoAssumption == MaxAttempts \in Nat \ {0} /\ MaxLate \in Nat /\ MaxStrays \in Nat

VARIABLES
    offered, serverCommitted, clientCommitted, serverDone, outcome,
    client,    \* where run_dtls13_demo is
    held,      \* what it has acquired and not yet released
    attempts,  \* its calls of wolfSSL_connect that wanted to read
    status,    \* what it returned
    program,   \* which server runs: "loop" (Dilithium), "once" (CA, PSK), "sessions" (PQC)
    server,    \* where that server is
    peer,      \* net.peer, or "none" when peer_set is 0
    toServer, toClient,  \* datagrams of the data phase
    late, strays,        \* counters of the bounds
    echoed,    \* history: the server has read the message and sent it back
    trouble    \* history: since the server has accepted, something went wrong
               \* outside the two programs

handshake == <<offered, serverCommitted, clientCommitted, serverDone, outcome>>
clientVars == <<client, held, attempts, status>>
serverVars == <<program, server, peer, echoed>>
link == <<toServer, toClient, late, strays>>
vars == <<handshake, clientVars, serverVars, link, trouble>>

Order == INSTANCE HandshakeOrder

Resources == {"callback", "library", "context", "session"}

Init ==
    /\ Order!Init
    /\ client = "start" /\ held = {} /\ attempts = 0 /\ status = "running"
    /\ program \in {"loop", "once", "sessions"} /\ server = "setup" /\ peer = "none"
    /\ echoed = FALSE
    /\ toServer = <<>> /\ toClient = <<>> /\ late = 0 /\ strays = 0
    /\ trouble = FALSE

-----------------------------------------------------------------------------
(* run_dtls13_demo. *)

At(from, to) == client = from /\ client' = to
Acquire(r) == held' = held \cup {r}

(* Every way out releases its own list of things. *)
Leave(from, releases, result) ==
    /\ At(from, "returned")
    /\ held' = held \ releases
    /\ status' = result
    /\ UNCHANGED attempts

Start ==
    /\ At("start", "arp") /\ Acquire("callback")
    /\ UNCHANGED <<attempts, status, handshake, serverVars, link, trouble>>

ArpResolved ==
    /\ At("arp", "context") /\ Acquire("library")
    /\ UNCHANGED <<attempts, status, handshake, serverVars, link, trouble>>

NewContext ==
    /\ At("context", "credentials") /\ Acquire("context")
    /\ UNCHANGED <<attempts, status, handshake, serverVars, link, trouble>>

LoadCredentials ==
    /\ At("credentials", "session")
    /\ UNCHANGED <<held, attempts, status, handshake, serverVars, link, trouble>>

NewSession ==
    /\ At("session", "connect") /\ Acquire("session")
    /\ UNCHANGED <<attempts, status, handshake, serverVars, link, trouble>>

ArpFailed == Leave("arp", {"callback"}, "failed")
NoContext == Leave("context", {"callback", "library"}, "failed")
(* Mutant: the context is forgotten when a certificate does not load. *)
BadCredentialsLeak == Leave("credentials", {"callback", "library"}, "failed")

BadCredentials == Leave("credentials", {"context", "callback", "library"}, "failed")
NoSession == Leave("session", {"context", "callback", "library"}, "failed")

SetupFails ==
    /\ ArpFailed \/ NoContext \/ BadCredentials \/ NoSession
    /\ trouble' = TRUE
    /\ UNCHANGED <<handshake, serverVars, link>>

(* wolfSSL_connect at work: the client's part of the handshake.  An answer *)
(* of the server reaches the client only if the client is the server's     *)
(* pinned peer.                                                            *)
ConnectHello ==
    /\ client = "connect" /\ ~offered
    /\ Order!Offer
    /\ UNCHANGED <<clientVars, serverVars, link, trouble>>

ConnectFinished ==
    /\ client = "connect" /\ ~clientCommitted /\ peer = "client"
    /\ Order!ClientCommit
    /\ UNCHANGED <<clientVars, serverVars, link, trouble>>

Connected ==
    /\ At("connect", "write") /\ Order!ClientDone
    /\ UNCHANGED <<held, attempts, status, serverVars, link, trouble>>

(* Mutant: the limit is tested before the attempt is counted. *)
AnotherAttemptLate == attempts < MaxAttempts /\ attempts' = attempts + 1

AnotherAttempt == attempts + 1 < MaxAttempts /\ attempts' = attempts + 1

ConnectWantRead ==
    /\ client = "connect" /\ offered
    /\ AnotherAttempt
    /\ UNCHANGED <<client, held, status, handshake, serverVars, link, trouble>>

(* Stuck after kMaxAttempts, or any other error of wolfSSL_connect, which  *)
(* may come at every call.                                                 *)
ConnectFails ==
    /\ Leave("connect", Resources, "failed")
    /\ Order!ClientFail
    /\ UNCHANGED <<serverVars, link, trouble>>

Write ==
    /\ At("write", "read")
    /\ toServer' = Append(toServer, "data")
    /\ UNCHANGED <<held, attempts, status, handshake, serverVars, toClient, late, strays, trouble>>

WriteFails ==
    /\ Leave("write", Resources, "failed")
    /\ trouble' = TRUE
    /\ UNCHANGED <<handshake, serverVars, link>>

(* Mutant: one record that is not application data ends the read. *)
ReadLateFails ==
    /\ toClient # <<>> /\ Head(toClient) = "late"
    /\ toClient' = Tail(toClient)
    /\ Leave("read", Resources, "failed")
    /\ UNCHANGED <<handshake, serverVars, toServer, late, strays, trouble>>

(* ReceiveData goes on until it has application data. *)
ReadLate ==
    /\ client \in {"connect", "read"} /\ toClient # <<>> /\ Head(toClient) = "late"
    /\ toClient' = Tail(toClient)
    /\ UNCHANGED <<clientVars, handshake, serverVars, toServer, late, strays, trouble>>

ReadEcho ==
    /\ toClient # <<>> /\ Head(toClient) = "echo"
    /\ toClient' = Tail(toClient)
    /\ Leave("read", Resources, "passed")
    /\ UNCHANGED <<handshake, serverVars, toServer, late, strays, trouble>>

Holds(queue, m) == \E i \in DOMAIN queue : queue[i] = m

(* Something that could still bring the echo. *)
UnderWay == server = "read" /\ Holds(toServer, "data")

(* Mutant: the result of wolfSSL_read is not looked at. *)
ReadTimesOutPassed ==
    /\ toClient = <<>>
    /\ Leave("read", Resources, "passed")
    /\ trouble' = (trouble \/ UnderWay)
    /\ UNCHANGED <<handshake, serverVars, link>>

(* Mutant: A read that finds nothing tries again, for ever. *)
ReadTimesOutAgain ==
    /\ client = "read" /\ toClient = <<>>
    /\ UNCHANGED <<clientVars, toClient>>
    /\ trouble' = (trouble \/ UnderWay)
    /\ UNCHANGED <<handshake, serverVars, link>>

(* The poll of dtls_io_recv ends.  That is trouble when the echo was still *)
(* to come: the loop count is the client's only clock.                     *)
ReadTimesOut ==
    /\ toClient = <<>>
    /\ Leave("read", Resources, "failed")
    /\ trouble' = (trouble \/ UnderWay)
    /\ UNCHANGED <<handshake, serverVars, link>>

-----------------------------------------------------------------------------
(* The host's server. *)

ServerReady ==
    /\ server = "setup"
    /\ server' = "accept"
    /\ UNCHANGED <<clientVars, handshake, program, peer, echoed, link, trouble>>

(* Mutant: the last sender becomes the peer. *)
BioRecvLast(s) == s

(* No socket, context, credentials or session: the process ends. *)
ServerSetupFails ==
    /\ server = "setup"
    /\ server' = "closed"
    /\ UNCHANGED <<clientVars, handshake, program, peer, echoed, link, trouble>>

(* The peer bio_recv leaves behind when a datagram comes from s. *)
BioRecv(s) == IF peer = "none" THEN s ELSE peer

(* bio_send: to the pinned peer, whoever asked. *)
BioSend(m) ==
    toClient' = IF peer = "client" THEN Append(toClient, m) ELSE toClient

AnotherStray == strays < MaxStrays /\ strays' = strays + 1

(* A datagram that belongs to no session is read like any other and        *)
(* dropped by wolfSSL.                                                     *)
StrayArrives ==
    /\ server \in {"accept", "read"}
    /\ AnotherStray
    /\ peer' = BioRecv("stranger")
    /\ UNCHANGED <<clientVars, handshake, program, server, echoed, toServer, toClient, late, trouble>>

(* wolfSSL_accept at work, to the client's Finished.  A server whose       *)
(* answers go elsewhere gets no further than its first one.                *)
AcceptHello ==
    /\ server = "accept" /\ offered /\ peer = "none" /\ outcome = "pending"
    /\ peer' = BioRecv("client")
    /\ UNCHANGED <<clientVars, handshake, program, server, echoed, link, trouble>>

AcceptCommits ==
    /\ server = "accept" /\ peer = "client" /\ ~serverCommitted
    /\ Order!ServerCommit
    /\ UNCHANGED <<clientVars, serverVars, link, trouble>>

Accepted ==
    /\ server = "accept" /\ peer = "client" /\ ~serverDone
    /\ Order!ServerDone
    /\ server' = "read"
    /\ trouble' = FALSE
    /\ UNCHANGED <<clientVars, program, peer, echoed, link>>

(* One session is over.  The PQC server takes the next one, which has      *)
(* nothing to do with this client's; the others are done.                  *)
SessionEnds ==
    IF program = "sessions" THEN server' = "next session" /\ peer' = "none"
                            ELSE server' = "closed" /\ UNCHANGED peer

(* The Dilithium server stays up for more messages. *)
AfterData == IF program = "loop" THEN UNCHANGED <<server, peer>> ELSE SessionEnds

(* wolfSSL_accept fails for good; the PQC server starts over, and serves   *)
(* this client still if nothing but hellos were exchanged.  Its socket     *)
(* blocks, so that a signal is enough.                                     *)
AcceptFails ==
    /\ server = "accept"
    /\ IF program = "sessions" /\ ~serverCommitted
         THEN server' = "accept" /\ peer' = "none"
         ELSE SessionEnds
    /\ trouble' = TRUE
    /\ UNCHANGED <<clientVars, handshake, program, echoed, link>>

(* wolfSSL_read on the server goes on until it has application data. *)
ServerReadLate ==
    /\ server = "read" /\ toServer # <<>> /\ Head(toServer) = "late"
    /\ toServer' = Tail(toServer)
    /\ UNCHANGED <<clientVars, handshake, serverVars, toClient, late, strays, trouble>>

ServerEchoes ==
    /\ server = "read" /\ toServer # <<>> /\ Head(toServer) = "data"
    /\ toServer' = Tail(toServer)
    /\ BioSend("echo")
    /\ echoed' = TRUE
    /\ AfterData
    /\ UNCHANGED <<clientVars, handshake, program, late, strays, trouble>>

(* A failed echo is only logged. *)
ServerEchoFails ==
    /\ server = "read" /\ toServer # <<>> /\ Head(toServer) = "data"
    /\ toServer' = Tail(toServer)
    /\ AfterData
    /\ trouble' = TRUE
    /\ UNCHANGED <<clientVars, handshake, program, echoed, toClient, late, strays>>

(* wolfSSL_read fails: on a blocking socket a signal is enough, as the     *)
(* servers with one read do not try again.                                 *)
ServerReadFails ==
    /\ server = "read"
    /\ SessionEnds
    /\ trouble' = TRUE
    /\ UNCHANGED <<clientVars, handshake, program, echoed, link>>

-----------------------------------------------------------------------------
(* The link. *)

AnotherLate == late < MaxLate /\ late' = late + 1

(* A side repeats handshake records the other has already processed. *)
Repeat ==
    /\ serverDone
    /\ AnotherLate
    /\ \/ server = "read" /\ BioSend("late") /\ UNCHANGED toServer
       \/ /\ client = "connect"
          /\ toServer' = Append(toServer, "late")
          /\ UNCHANGED toClient
    /\ UNCHANGED <<clientVars, handshake, serverVars, strays, trouble>>

Lose ==
    /\ \/ toServer # <<>> /\ toServer' = Tail(toServer) /\ UNCHANGED toClient
       \/ toClient # <<>> /\ toClient' = Tail(toClient) /\ UNCHANGED toServer
    /\ trouble' = TRUE
    /\ UNCHANGED <<clientVars, handshake, serverVars, late, strays>>

-----------------------------------------------------------------------------
ClientStep ==
    \/ Start \/ ArpResolved \/ NewContext \/ LoadCredentials \/ NewSession \/ SetupFails
    \/ ConnectHello \/ ConnectFinished \/ Connected \/ ConnectWantRead \/ ConnectFails
    \/ Write \/ WriteFails
    \/ ReadLate \/ ReadEcho \/ ReadTimesOut

ServerStep ==
    \/ ServerReady \/ AcceptHello \/ AcceptCommits \/ Accepted
    \/ ServerReadLate \/ ServerEchoes

ServerTrouble == ServerSetupFails \/ AcceptFails \/ ServerEchoFails \/ ServerReadFails

Next == ClientStep \/ ServerStep \/ ServerTrouble \/ StrayArrives \/ Repeat \/ Lose

Spec == Init /\ [][Next]_vars

(* Both programs run, and a poll that finds nothing ends.  Nothing makes   *)
(* the link deliver or a stranger speak.                                   *)
FairSpec == Spec /\ WF_vars(ClientStep) /\ WF_vars(ServerStep)

-----------------------------------------------------------------------------
(* The attempts of a client still connecting are below the limit.          *)
TypeOK ==
    /\ client \in {"start", "arp", "context", "credentials", "session", "connect",
                   "write", "read", "returned"}
    /\ held \subseteq Resources
    /\ attempts \in 0..MaxAttempts - 1
    /\ status \in {"running", "passed", "failed"}
    /\ program \in {"loop", "once", "sessions"}
    /\ server \in {"setup", "accept", "read", "next session", "closed"}
    /\ peer \in {"none", "client", "stranger"}
    /\ toServer \in Seq({"data", "late"}) /\ toClient \in Seq({"echo", "late"})
    /\ late \in 0..MaxLate /\ strays \in 0..MaxStrays
    /\ echoed \in BOOLEAN /\ trouble \in BOOLEAN

(* Each way out of run_dtls13_demo releases exactly what that way had      *)
(* acquired: the lists are written out at eleven places of main.c.         *)
Released == client = "returned" => held = {}

(* "Demo PASSED" is printed only if the server has read the message and    *)
(* sent it back (main.c 492-517 takes any result of wolfSSL_read that is   *)
(* not negative for the echo).                                             *)
PassedMeansEchoed == status = "passed" => outcome = "connected" /\ serverDone /\ echoed

(* A demo that has connected fails only for a reason outside the two       *)
(* programs, although it writes once and reads once, and two of the three  *)
(* servers read and echo only once: handshake records that come late, on   *)
(* either side, are not such a reason.                                     *)
FailsForCause == status = "failed" /\ outcome = "connected" => trouble

(* A server that has committed to the client's handshake answers the       *)
(* client from then on, whoever else sends to its socket (bio_recv).       *)
ServedPeer == serverCommitted /\ server \in {"accept", "read"} => peer = "client"

(* Each run of the demo ends (kMaxAttempts; one read).                     *)
Returns == <>(client = "returned")

=============================================================================
