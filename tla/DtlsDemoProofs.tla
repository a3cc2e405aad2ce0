--------------------------- MODULE DtlsDemoProofs ---------------------------
(***************************************************************************)
(* The safety of the demo, for every attempt limit and any number of       *)
(* repeated handshake records and strangers.                               *)
(***************************************************************************)
EXTENDS DtlsDemo, TLAPS

-----------------------------------------------------------------------------
(* Queues. *)

LEMMA HoldsAppend ==
    ASSUME NEW S, NEW q \in Seq(S), NEW x \in S, NEW m
    PROVE  /\ Append(q, x) \in Seq(S)
           /\ Holds(Append(q, x), m) <=> (Holds(q, m) \/ x = m)
<1>1. Append(q, x) \in Seq(S)
  OBVIOUS
<1>2. ASSUME Holds(Append(q, x), m) PROVE Holds(q, m) \/ x = m
  <2>1. PICK i \in 1..Len(q) + 1 : Append(q, x)[i] = m
    BY <1>2 DEF Holds
  <2> QED BY <2>1 DEF Holds
<1>3. ASSUME Holds(q, m) PROVE Holds(Append(q, x), m)
  <2>1. PICK i \in 1..Len(q) : q[i] = m
    BY <1>3 DEF Holds
  <2>2. i \in DOMAIN Append(q, x) /\ Append(q, x)[i] = m
    BY <2>1
  <2> QED BY <2>2 DEF Holds
<1>4. ASSUME x = m PROVE Holds(Append(q, x), m)
  <2>1. Len(q) + 1 \in DOMAIN Append(q, x) /\ Append(q, x)[Len(q) + 1] = m
    BY <1>4
  <2> QED BY <2>1 DEF Holds
<1> QED BY <1>1, <1>2, <1>3, <1>4

LEMMA HoldsTail ==
    ASSUME NEW S, NEW q \in Seq(S), q # <<>>, NEW m
    PROVE  /\ Tail(q) \in Seq(S)
           /\ Head(q) \in S
           /\ Holds(Tail(q), m) => Holds(q, m)
           /\ Holds(q, m) => (Holds(Tail(q), m) \/ Head(q) = m)
<1>1. Tail(q) \in Seq(S) /\ Head(q) \in S
  OBVIOUS
<1>2. ASSUME Holds(Tail(q), m) PROVE Holds(q, m)
  <2>1. PICK i \in 1..Len(q) - 1 : Tail(q)[i] = m
    BY <1>2 DEF Holds
  <2>2. i + 1 \in DOMAIN q /\ q[i + 1] = m
    BY <2>1
  <2> QED BY <2>2 DEF Holds
<1>3. ASSUME Holds(q, m), Head(q) # m PROVE Holds(Tail(q), m)
  <2>1. PICK i \in 1..Len(q) : q[i] = m
    BY <1>3 DEF Holds
  <2>2. i # 1
    BY <2>1, <1>3
  <2>3. i - 1 \in DOMAIN Tail(q) /\ Tail(q)[i - 1] = m
    BY <2>1, <2>2
  <2> QED BY <2>3 DEF Holds
<1> QED BY <1>1, <1>2, <1>3

LEMMA HoldsEmpty ==
    ASSUME NEW m
    PROVE  ~Holds(<<>>, m)
BY DEF Holds

-----------------------------------------------------------------------------
(* The invariant. *)

(* What run_dtls13_demo has acquired depends on where it is only. *)
HeldAt ==
    /\ client \in {"start", "returned"} => held = {}
    /\ client = "arp" => held = {"callback"}
    /\ client = "context" => held = {"callback", "library"}
    /\ client \in {"credentials", "session"} => held = {"callback", "library", "context"}
    /\ client \in {"connect", "write", "read"} => held = Resources

(* The handshake's flags against the places of the two programs. *)
Places ==
    /\ serverDone => clientCommitted
    /\ clientCommitted => serverCommitted
    /\ serverCommitted => offered
    /\ outcome = "connected" => serverDone
    /\ client \in {"start", "arp", "context", "credentials", "session"}
         => ~offered /\ ~serverCommitted /\ ~serverDone
    /\ client \in {"write", "read"} => outcome = "connected"
    /\ client \in {"start", "arp", "context", "credentials", "session", "connect"}
         => outcome = "pending"
    /\ (status = "running") <=> (client # "returned")
    /\ server = "read" => serverDone
    /\ server = "setup" => ~serverCommitted

(* Where the message and its echo can be. *)
Exchange ==
    /\ Holds(toServer, "data") => client \in {"read", "returned"}
    /\ Holds(toClient, "echo") => echoed

(* Without trouble the message or its echo is on its way. *)
OnItsWay ==
    ~trouble =>
      /\ serverDone /\ client \in {"connect", "write"} => server = "read"
      /\ client = "read" =>
           (server = "read" /\ Holds(toServer, "data")) \/ Holds(toClient, "echo")

Flags ==
    /\ offered \in BOOLEAN /\ serverCommitted \in BOOLEAN /\ clientCommitted \in BOOLEAN
    /\ serverDone \in BOOLEAN /\ echoed \in BOOLEAN /\ trouble \in BOOLEAN
    /\ outcome \in {"pending", "connected", "failed"}

Names ==
    /\ client \in {"start", "arp", "context", "credentials", "session", "connect",
                   "write", "read", "returned"}
    /\ held \subseteq Resources
    /\ status \in {"running", "passed", "failed"}
    /\ program \in {"loop", "once", "sessions"}
    /\ server \in {"setup", "accept", "read", "next session", "closed"}
    /\ peer \in {"none", "client", "stranger"}

Numbers == attempts \in 0..MaxAttempts - 1 /\ late \in 0..MaxLate /\ strays \in 0..MaxStrays

Queues == toServer \in Seq({"data", "late"}) /\ toClient \in Seq({"echo", "late"})

Safety == PassedMeansEchoed /\ FailsForCause /\ ServedPeer

IInv == Names /\ Numbers /\ Queues /\ Flags /\ HeldAt /\ Places /\ Exchange /\ OnItsWay /\ Safety

LEMMA InitInv == Init => IInv
<1> SUFFICES ASSUME Init PROVE IInv
  OBVIOUS
<1> USE DemoAssumption DEF Init, Order!Init
<1>0. Queues
  BY DEF Queues
<1>1. Names
  BY DEF Names
<1>5. Numbers
  BY DEF Numbers
<1>2. Flags /\ HeldAt /\ Places
  BY DEF Flags, HeldAt, Places
<1>3. Exchange /\ OnItsWay
  BY HoldsEmpty DEF Exchange, OnItsWay
<1>4. Safety
  BY DEF Safety, PassedMeansEchoed, FailsForCause, ServedPeer
<1> QED BY <1>0, <1>1, <1>2, <1>3, <1>4, <1>5 DEF IInv

-----------------------------------------------------------------------------
(* Setting up, or failing to.                                              *)
LEMMA SetupKeepsInv ==
    IInv /\ (\/ Start \/ ArpResolved \/ NewContext
             \/ LoadCredentials \/ NewSession \/ SetupFails) => IInv'
<1> SUFFICES ASSUME IInv,
                    \/ Start \/ ArpResolved \/ NewContext
                    \/ LoadCredentials \/ NewSession \/ SetupFails
             PROVE  IInv'
  OBVIOUS
<1>5. /\ AnotherAttempt \/ UNCHANGED attempts
      /\ AnotherLate \/ UNCHANGED late
      /\ AnotherStray \/ UNCHANGED strays
  BY DEF handshake, clientVars, serverVars, link, Start, ArpResolved, NewContext,
     LoadCredentials, NewSession, SetupFails, At, Acquire, Leave, ArpFailed, NoContext,
     BadCredentials, NoSession
<1>6. Numbers'
  BY <1>5, DemoAssumption DEF IInv, Numbers, AnotherAttempt, AnotherStray, AnotherLate
<1> USE DEF handshake, clientVars, serverVars, link, Start, ArpResolved, NewContext,
      LoadCredentials, NewSession, SetupFails, At, Acquire, Leave, ArpFailed, NoContext,
      BadCredentials, NoSession
<1>0. Queues'
  BY DEF IInv, Queues
<1>1. Names'
  BY DEF IInv, Names, Resources
<1>3. HeldAt'
  BY DEF IInv, Names, HeldAt, Resources
<1>a1. ASSUME Start PROVE (Flags /\ Places /\ Exchange /\ OnItsWay /\ Safety)'
  <2>1. (Flags /\ Places)'
    BY <1>a1 DEF IInv, Names, Flags, Places
  <2>2. (Exchange /\ OnItsWay)'
    BY <1>a1 DEF IInv, Names, Flags, Places, Exchange, OnItsWay
  <2>3. Safety'
    BY <1>a1 DEF IInv, Names, Flags, Places, Exchange, OnItsWay,
       Safety, PassedMeansEchoed, FailsForCause, ServedPeer
  <2> QED BY <2>1, <2>2, <2>3
<1>a2. ASSUME ArpResolved PROVE (Flags /\ Places /\ Exchange /\ OnItsWay /\ Safety)'
  <2>1. (Flags /\ Places)'
    BY <1>a2 DEF IInv, Names, Flags, Places
  <2>2. (Exchange /\ OnItsWay)'
    BY <1>a2 DEF IInv, Names, Flags, Places, Exchange, OnItsWay
  <2>3. Safety'
    BY <1>a2 DEF IInv, Names, Flags, Places, Exchange, OnItsWay,
       Safety, PassedMeansEchoed, FailsForCause, ServedPeer
  <2> QED BY <2>1, <2>2, <2>3
<1>a3. ASSUME NewContext PROVE (Flags /\ Places /\ Exchange /\ OnItsWay /\ Safety)'
  <2>1. (Flags /\ Places)'
    BY <1>a3 DEF IInv, Names, Flags, Places
  <2>2. (Exchange /\ OnItsWay)'
    BY <1>a3 DEF IInv, Names, Flags, Places, Exchange, OnItsWay
  <2>3. Safety'
    BY <1>a3 DEF IInv, Names, Flags, Places, Exchange, OnItsWay,
       Safety, PassedMeansEchoed, FailsForCause, ServedPeer
  <2> QED BY <2>1, <2>2, <2>3
<1>a4. ASSUME LoadCredentials PROVE (Flags /\ Places /\ Exchange /\ OnItsWay /\ Safety)'
  <2>1. (Flags /\ Places)'
    BY <1>a4 DEF IInv, Names, Flags, Places
  <2>2. (Exchange /\ OnItsWay)'
    BY <1>a4 DEF IInv, Names, Flags, Places, Exchange, OnItsWay
  <2>3. Safety'
    BY <1>a4 DEF IInv, Names, Flags, Places, Exchange, OnItsWay,
       Safety, PassedMeansEchoed, FailsForCause, ServedPeer
  <2> QED BY <2>1, <2>2, <2>3
<1>a5. ASSUME NewSession PROVE (Flags /\ Places /\ Exchange /\ OnItsWay /\ Safety)'
  <2>1. (Flags /\ Places)'
    BY <1>a5 DEF IInv, Names, Flags, Places
  <2>2. (Exchange /\ OnItsWay)'
    BY <1>a5 DEF IInv, Names, Flags, Places, Exchange, OnItsWay
  <2>3. Safety'
    BY <1>a5 DEF IInv, Names, Flags, Places, Exchange, OnItsWay,
       Safety, PassedMeansEchoed, FailsForCause, ServedPeer
  <2> QED BY <2>1, <2>2, <2>3
<1>a6. ASSUME SetupFails PROVE (Flags /\ Places /\ Exchange /\ OnItsWay /\ Safety)'
  <2>1. (Flags /\ Places)'
    BY <1>a6 DEF IInv, Names, Flags, Places
  <2>2. (Exchange /\ OnItsWay)'
    BY <1>a6 DEF IInv, Names, Flags, Places, Exchange, OnItsWay
  <2>3. Safety'
    BY <1>a6 DEF IInv, Names, Flags, Places, Exchange, OnItsWay,
       Safety, PassedMeansEchoed, FailsForCause, ServedPeer
  <2> QED BY <2>1, <2>2, <2>3
<1> QED BY <1>0, <1>1, <1>3, <1>6, <1>a1, <1>a2, <1>a3, <1>a4, <1>a5, <1>a6 DEF IInv

(* The client's handshake.                                                 *)
LEMMA ConnectKeepsInv ==
    IInv /\ (\/ ConnectHello \/ ConnectFinished \/ Connected
             \/ ConnectWantRead \/ ConnectFails) => IInv'
<1> SUFFICES ASSUME IInv,
                    \/ ConnectHello \/ ConnectFinished \/ Connected
                    \/ ConnectWantRead \/ ConnectFails
             PROVE  IInv'
  OBVIOUS
<1>5. /\ AnotherAttempt \/ UNCHANGED attempts
      /\ AnotherLate \/ UNCHANGED late
      /\ AnotherStray \/ UNCHANGED strays
  BY DEF handshake, clientVars, serverVars, link, ConnectHello, ConnectFinished, Connected,
     ConnectWantRead, ConnectFails, At, Leave, Order!Offer, Order!ClientCommit,
     Order!ClientDone, Order!ClientFail
<1>6. Numbers'
  BY <1>5, DemoAssumption DEF IInv, Numbers, AnotherAttempt, AnotherStray, AnotherLate
<1> USE DEF handshake, clientVars, serverVars, link, ConnectHello, ConnectFinished,
      Connected, ConnectWantRead, ConnectFails, At, Leave, Order!Offer, Order!ClientCommit,
      Order!ClientDone, Order!ClientFail
<1>0. Queues'
  BY DEF IInv, Queues
<1>1. Names'
  BY DEF IInv, Names, Resources
<1>3. HeldAt'
  BY DEF IInv, Names, HeldAt, Resources
<1>a1. ASSUME ConnectHello PROVE (Flags /\ Places /\ Exchange /\ OnItsWay /\ Safety)'
  <2>1. (Flags /\ Places)'
    BY <1>a1 DEF IInv, Names, Flags, Places
  <2>2. (Exchange /\ OnItsWay)'
    BY <1>a1 DEF IInv, Names, Flags, Places, Exchange, OnItsWay
  <2>3. Safety'
    BY <1>a1 DEF IInv, Names, Flags, Places, Exchange, OnItsWay,
       Safety, PassedMeansEchoed, FailsForCause, ServedPeer
  <2> QED BY <2>1, <2>2, <2>3
<1>a2. ASSUME ConnectFinished PROVE (Flags /\ Places /\ Exchange /\ OnItsWay /\ Safety)'
  <2>1. (Flags /\ Places)'
    BY <1>a2 DEF IInv, Names, Flags, Places
  <2>2. (Exchange /\ OnItsWay)'
    BY <1>a2 DEF IInv, Names, Flags, Places, Exchange, OnItsWay
  <2>3. Safety'
    BY <1>a2 DEF IInv, Names, Flags, Places, Exchange, OnItsWay,
       Safety, PassedMeansEchoed, FailsForCause, ServedPeer
  <2> QED BY <2>1, <2>2, <2>3
<1>a3. ASSUME Connected PROVE (Flags /\ Places /\ Exchange /\ OnItsWay /\ Safety)'
  <2>1. (Flags /\ Places)'
    BY <1>a3 DEF IInv, Names, Flags, Places
  <2>2. (Exchange /\ OnItsWay)'
    BY <1>a3 DEF IInv, Names, Flags, Places, Exchange, OnItsWay
  <2>3. Safety'
    BY <1>a3 DEF IInv, Names, Flags, Places, Exchange, OnItsWay,
       Safety, PassedMeansEchoed, FailsForCause, ServedPeer
  <2> QED BY <2>1, <2>2, <2>3
<1>a4. ASSUME ConnectWantRead PROVE (Flags /\ Places /\ Exchange /\ OnItsWay /\ Safety)'
  <2>1. (Flags /\ Places)'
    BY <1>a4 DEF IInv, Names, Flags, Places
  <2>2. (Exchange /\ OnItsWay)'
    BY <1>a4 DEF IInv, Names, Flags, Places, Exchange, OnItsWay
  <2>3. Safety'
    BY <1>a4 DEF IInv, Names, Flags, Places, Exchange, OnItsWay,
       Safety, PassedMeansEchoed, FailsForCause, ServedPeer
  <2> QED BY <2>1, <2>2, <2>3
<1>a5. ASSUME ConnectFails PROVE (Flags /\ Places /\ Exchange /\ OnItsWay /\ Safety)'
  <2>1. (Flags /\ Places)'
    BY <1>a5 DEF IInv, Names, Flags, Places
  <2>2. (Exchange /\ OnItsWay)'
    BY <1>a5 DEF IInv, Names, Flags, Places, Exchange, OnItsWay
  <2>3. Safety'
    BY <1>a5 DEF IInv, Names, Flags, Places, Exchange, OnItsWay,
       Safety, PassedMeansEchoed, FailsForCause, ServedPeer
  <2> QED BY <2>1, <2>2, <2>3
<1> QED BY <1>0, <1>1, <1>3, <1>6, <1>a1, <1>a2, <1>a3, <1>a4, <1>a5 DEF IInv

(* The message is sent.                                                    *)
LEMMA WriteKeepsInv == IInv /\ (Write \/ WriteFails) => IInv'
<1> SUFFICES ASSUME IInv, Write \/ WriteFails
             PROVE  IInv'
  OBVIOUS
<1>f. Write => /\ toServer' \in Seq({"data", "late"})
               /\ Holds(toServer', "data")
  BY HoldsAppend DEF Write, Queues, IInv
<1>5. /\ AnotherAttempt \/ UNCHANGED attempts
      /\ AnotherLate \/ UNCHANGED late
      /\ AnotherStray \/ UNCHANGED strays
  BY DEF handshake, clientVars, serverVars, link, Write, WriteFails, At, Leave
<1>6. Numbers'
  BY <1>5, DemoAssumption DEF IInv, Numbers, AnotherAttempt, AnotherStray, AnotherLate
<1> USE DEF handshake, clientVars, serverVars, link, Write, WriteFails, At, Leave
<1>0. Queues'
  BY <1>f DEF IInv, Queues
<1>1. Names'
  BY DEF IInv, Names, Resources
<1>3. HeldAt'
  BY DEF IInv, Names, HeldAt, Resources
<1>a1. ASSUME Write PROVE (Flags /\ Places /\ Exchange /\ OnItsWay /\ Safety)'
  <2>1. (Flags /\ Places)'
    BY <1>a1, <1>f DEF IInv, Names, Flags, Places
  <2>2. (Exchange /\ OnItsWay)'
    BY <1>a1, <1>f DEF IInv, Names, Flags, Places, Exchange, OnItsWay
  <2>3. Safety'
    BY <1>a1, <1>f DEF IInv, Names, Flags, Places, Exchange, OnItsWay,
       Safety, PassedMeansEchoed, FailsForCause, ServedPeer
  <2> QED BY <2>1, <2>2, <2>3
<1>a2. ASSUME WriteFails PROVE (Flags /\ Places /\ Exchange /\ OnItsWay /\ Safety)'
  <2>1. (Flags /\ Places)'
    BY <1>a2, <1>f DEF IInv, Names, Flags, Places
  <2>2. (Exchange /\ OnItsWay)'
    BY <1>a2, <1>f DEF IInv, Names, Flags, Places, Exchange, OnItsWay
  <2>3. Safety'
    BY <1>a2, <1>f DEF IInv, Names, Flags, Places, Exchange, OnItsWay,
       Safety, PassedMeansEchoed, FailsForCause, ServedPeer
  <2> QED BY <2>1, <2>2, <2>3
<1> QED BY <1>0, <1>1, <1>3, <1>6, <1>a1, <1>a2 DEF IInv

(* The one read.                                                           *)
LEMMA ReadKeepsInv == IInv /\ (ReadLate \/ ReadEcho \/ ReadTimesOut) => IInv'
<1> SUFFICES ASSUME IInv, ReadLate \/ ReadEcho \/ ReadTimesOut
             PROVE  IInv'
  OBVIOUS
<1>f. toClient # <<>> => /\ Tail(toClient) \in Seq({"echo", "late"})
                         /\ Holds(Tail(toClient), "echo") => Holds(toClient, "echo")
                         /\ Holds(toClient, "echo") =>
                              (Holds(Tail(toClient), "echo") \/ Head(toClient) = "echo")
                         /\ Head(toClient) = "echo" => Holds(toClient, "echo")
  <2>1. toClient # <<>> /\ Head(toClient) = "echo" => Holds(toClient, "echo")
    BY DEF Queues, IInv, Holds
  <2> QED BY <2>1, HoldsTail DEF Queues, IInv
<1>g. toClient = <<>> => ~Holds(toClient, "echo")
  BY HoldsEmpty
<1>5. /\ AnotherAttempt \/ UNCHANGED attempts
      /\ AnotherLate \/ UNCHANGED late
      /\ AnotherStray \/ UNCHANGED strays
  BY DEF handshake, clientVars, serverVars, link, ReadLate, ReadEcho, ReadTimesOut, At,
     Leave, UnderWay
<1>6. Numbers'
  BY <1>5, DemoAssumption DEF IInv, Numbers, AnotherAttempt, AnotherStray, AnotherLate
<1> USE DEF handshake, clientVars, serverVars, link, ReadLate, ReadEcho, ReadTimesOut, At,
      Leave, UnderWay
<1>0. Queues'
  BY <1>f, <1>g DEF IInv, Queues
<1>1. Names'
  BY DEF IInv, Names, Resources
<1>3. HeldAt'
  BY DEF IInv, Names, HeldAt, Resources
<1>a1. ASSUME ReadLate PROVE (Flags /\ Places /\ Exchange /\ OnItsWay /\ Safety)'
  <2>1. (Flags /\ Places)'
    BY <1>a1, <1>f, <1>g DEF IInv, Names, Flags, Places
  <2>2. (Exchange /\ OnItsWay)'
    BY <1>a1, <1>f, <1>g DEF IInv, Names, Flags, Places, Exchange, OnItsWay
  <2>3. Safety'
    BY <1>a1, <1>f, <1>g DEF IInv, Names, Flags, Places, Exchange, OnItsWay,
       Safety, PassedMeansEchoed, FailsForCause, ServedPeer
  <2> QED BY <2>1, <2>2, <2>3
<1>a2. ASSUME ReadEcho PROVE (Flags /\ Places /\ Exchange /\ OnItsWay /\ Safety)'
  <2>1. (Flags /\ Places)'
    BY <1>a2, <1>f, <1>g DEF IInv, Names, Flags, Places
  <2>2. (Exchange /\ OnItsWay)'
    BY <1>a2, <1>f, <1>g DEF IInv, Names, Flags, Places, Exchange, OnItsWay
  <2>3. Safety'
    BY <1>a2, <1>f, <1>g DEF IInv, Names, Flags, Places, Exchange, OnItsWay,
       Safety, PassedMeansEchoed, FailsForCause, ServedPeer
  <2> QED BY <2>1, <2>2, <2>3
<1>a3. ASSUME ReadTimesOut PROVE (Flags /\ Places /\ Exchange /\ OnItsWay /\ Safety)'
  <2>1. (Flags /\ Places)'
    BY <1>a3, <1>f, <1>g DEF IInv, Names, Flags, Places
  <2>2. (Exchange /\ OnItsWay)'
    BY <1>a3, <1>f, <1>g DEF IInv, Names, Flags, Places, Exchange, OnItsWay
  <2>3. Safety'
    BY <1>a3, <1>f, <1>g DEF IInv, Names, Flags, Places, Exchange, OnItsWay,
       Safety, PassedMeansEchoed, FailsForCause, ServedPeer
  <2> QED BY <2>1, <2>2, <2>3
<1> QED BY <1>0, <1>1, <1>3, <1>6, <1>a1, <1>a2, <1>a3 DEF IInv

(* The server's part of the handshake.                                     *)
LEMMA AcceptKeepsInv ==
    IInv /\ (\/ ServerReady \/ ServerSetupFails \/ StrayArrives \/ AcceptHello
             \/ AcceptCommits \/ Accepted \/ AcceptFails) => IInv'
<1> SUFFICES ASSUME IInv,
                    \/ ServerReady \/ ServerSetupFails \/ StrayArrives \/ AcceptHello
                    \/ AcceptCommits \/ Accepted \/ AcceptFails
             PROVE  IInv'
  OBVIOUS
<1>5. /\ AnotherAttempt \/ UNCHANGED attempts
      /\ AnotherLate \/ UNCHANGED late
      /\ AnotherStray \/ UNCHANGED strays
  BY DEF handshake, clientVars, serverVars, link, ServerReady, ServerSetupFails,
     StrayArrives, AcceptHello, AcceptCommits, Accepted, AcceptFails, BioRecv, SessionEnds,
     Order!ServerCommit, Order!ServerDone
<1>6. Numbers'
  BY <1>5, DemoAssumption DEF IInv, Numbers, AnotherAttempt, AnotherStray, AnotherLate
<1> USE DEF handshake, clientVars, serverVars, link, ServerReady, ServerSetupFails,
      StrayArrives, AcceptHello, AcceptCommits, Accepted, AcceptFails, BioRecv, SessionEnds,
      Order!ServerCommit, Order!ServerDone
<1>0. Queues'
  BY DEF IInv, Queues
<1>1. Names'
  BY DEF IInv, Names, Resources
<1>3. HeldAt'
  BY DEF IInv, Names, HeldAt, Resources
<1>a1. ASSUME ServerReady PROVE (Flags /\ Places /\ Exchange /\ OnItsWay /\ Safety)'
  <2>1. (Flags /\ Places)'
    BY <1>a1 DEF IInv, Names, Flags, Places
  <2>2. (Exchange /\ OnItsWay)'
    BY <1>a1 DEF IInv, Names, Flags, Places, Exchange, OnItsWay
  <2>3. Safety'
    BY <1>a1 DEF IInv, Names, Flags, Places, Exchange, OnItsWay,
       Safety, PassedMeansEchoed, FailsForCause, ServedPeer
  <2> QED BY <2>1, <2>2, <2>3
<1>a2. ASSUME ServerSetupFails PROVE (Flags /\ Places /\ Exchange /\ OnItsWay /\ Safety)'
  <2>1. (Flags /\ Places)'
    BY <1>a2 DEF IInv, Names, Flags, Places
  <2>2. (Exchange /\ OnItsWay)'
    BY <1>a2 DEF IInv, Names, Flags, Places, Exchange, OnItsWay
  <2>3. Safety'
    BY <1>a2 DEF IInv, Names, Flags, Places, Exchange, OnItsWay,
       Safety, PassedMeansEchoed, FailsForCause, ServedPeer
  <2> QED BY <2>1, <2>2, <2>3
<1>a3. ASSUME StrayArrives PROVE (Flags /\ Places /\ Exchange /\ OnItsWay /\ Safety)'
  <2>1. (Flags /\ Places)'
    BY <1>a3 DEF IInv, Names, Flags, Places
  <2>2. (Exchange /\ OnItsWay)'
    BY <1>a3 DEF IInv, Names, Flags, Places, Exchange, OnItsWay
  <2>3. Safety'
    BY <1>a3 DEF IInv, Names, Flags, Places, Exchange, OnItsWay,
       Safety, PassedMeansEchoed, FailsForCause, ServedPeer
  <2> QED BY <2>1, <2>2, <2>3
<1>a4. ASSUME AcceptHello PROVE (Flags /\ Places /\ Exchange /\ OnItsWay /\ Safety)'
  <2>1. (Flags /\ Places)'
    BY <1>a4 DEF IInv, Names, Flags, Places
  <2>2. (Exchange /\ OnItsWay)'
    BY <1>a4 DEF IInv, Names, Flags, Places, Exchange, OnItsWay
  <2>3. Safety'
    BY <1>a4 DEF IInv, Names, Flags, Places, Exchange, OnItsWay,
       Safety, PassedMeansEchoed, FailsForCause, ServedPeer
  <2> QED BY <2>1, <2>2, <2>3
<1>a5. ASSUME AcceptCommits PROVE (Flags /\ Places /\ Exchange /\ OnItsWay /\ Safety)'
  <2>1. (Flags /\ Places)'
    BY <1>a5 DEF IInv, Names, Flags, Places
  <2>2. (Exchange /\ OnItsWay)'
    BY <1>a5 DEF IInv, Names, Flags, Places, Exchange, OnItsWay
  <2>3. Safety'
    BY <1>a5 DEF IInv, Names, Flags, Places, Exchange, OnItsWay,
       Safety, PassedMeansEchoed, FailsForCause, ServedPeer
  <2> QED BY <2>1, <2>2, <2>3
<1>a6. ASSUME Accepted PROVE (Flags /\ Places /\ Exchange /\ OnItsWay /\ Safety)'
  <2>1. (Flags /\ Places)'
    BY <1>a6 DEF IInv, Names, Flags, Places
  <2>2. (Exchange /\ OnItsWay)'
    BY <1>a6 DEF IInv, Names, Flags, Places, Exchange, OnItsWay
  <2>3. Safety'
    BY <1>a6 DEF IInv, Names, Flags, Places, Exchange, OnItsWay,
       Safety, PassedMeansEchoed, FailsForCause, ServedPeer
  <2> QED BY <2>1, <2>2, <2>3
<1>a7. ASSUME AcceptFails PROVE (Flags /\ Places /\ Exchange /\ OnItsWay /\ Safety)'
  <2>1. (Flags /\ Places)'
    BY <1>a7 DEF IInv, Names, Flags, Places
  <2>2. (Exchange /\ OnItsWay)'
    BY <1>a7 DEF IInv, Names, Flags, Places, Exchange, OnItsWay
  <2>3. Safety'
    BY <1>a7 DEF IInv, Names, Flags, Places, Exchange, OnItsWay,
       Safety, PassedMeansEchoed, FailsForCause, ServedPeer
  <2> QED BY <2>1, <2>2, <2>3
<1> QED BY <1>0, <1>1, <1>3, <1>6, <1>a1, <1>a2, <1>a3, <1>a4, <1>a5, <1>a6, <1>a7 DEF IInv

(* The server's data phase.                                                *)
LEMMA ServeKeepsInv ==
    IInv /\ (\/ ServerReadLate \/ ServerEchoes
             \/ ServerEchoFails \/ ServerReadFails) => IInv'
<1> SUFFICES ASSUME IInv, ServerReadLate \/ ServerEchoes \/ ServerEchoFails \/ ServerReadFails
             PROVE  IInv'
  OBVIOUS
<1>f. toServer # <<>> => /\ Tail(toServer) \in Seq({"data", "late"})
                         /\ Holds(Tail(toServer), "data") => Holds(toServer, "data")
                         /\ Holds(toServer, "data") =>
                              (Holds(Tail(toServer), "data") \/ Head(toServer) = "data")
                         /\ Head(toServer) = "data" => Holds(toServer, "data")
  <2>1. toServer # <<>> /\ Head(toServer) = "data" => Holds(toServer, "data")
    BY DEF Queues, IInv, Holds
  <2> QED BY <2>1, HoldsTail DEF Queues, IInv
<1>g. /\ Append(toClient, "echo") \in Seq({"echo", "late"})
      /\ Holds(Append(toClient, "echo"), "echo")
  BY HoldsAppend DEF Queues, IInv
<1>5. /\ AnotherAttempt \/ UNCHANGED attempts
      /\ AnotherLate \/ UNCHANGED late
      /\ AnotherStray \/ UNCHANGED strays
  BY DEF handshake, clientVars, serverVars, link, ServerReadLate, ServerEchoes,
     ServerEchoFails, ServerReadFails, BioSend, AfterData, SessionEnds
<1>6. Numbers'
  BY <1>5, DemoAssumption DEF IInv, Numbers, AnotherAttempt, AnotherStray, AnotherLate
<1> USE DEF handshake, clientVars, serverVars, link, ServerReadLate, ServerEchoes,
      ServerEchoFails, ServerReadFails, BioSend, AfterData, SessionEnds
<1>0. Queues'
  BY <1>f, <1>g DEF IInv, Queues
<1>1. Names'
  BY DEF IInv, Names, Resources
<1>3. HeldAt'
  BY DEF IInv, Names, HeldAt, Resources
<1>a1. ASSUME ServerReadLate PROVE (Flags /\ Places /\ Exchange /\ OnItsWay /\ Safety)'
  <2>1. (Flags /\ Places)'
    BY <1>a1, <1>f, <1>g DEF IInv, Names, Flags, Places
  <2>2. (Exchange /\ OnItsWay)'
    BY <1>a1, <1>f, <1>g DEF IInv, Names, Flags, Places, Exchange, OnItsWay
  <2>3. Safety'
    BY <1>a1, <1>f, <1>g DEF IInv, Names, Flags, Places, Exchange, OnItsWay,
       Safety, PassedMeansEchoed, FailsForCause, ServedPeer
  <2> QED BY <2>1, <2>2, <2>3
<1>a2. ASSUME ServerEchoes PROVE (Flags /\ Places /\ Exchange /\ OnItsWay /\ Safety)'
  <2>1. (Flags /\ Places)'
    BY <1>a2, <1>f, <1>g DEF IInv, Names, Flags, Places
  <2>2. (Exchange /\ OnItsWay)'
    BY <1>a2, <1>f, <1>g DEF IInv, Names, Flags, Places, Exchange, OnItsWay, Safety, ServedPeer
  <2>3. Safety'
    BY <1>a2, <1>f, <1>g DEF IInv, Names, Flags, Places, Exchange, OnItsWay,
       Safety, PassedMeansEchoed, FailsForCause, ServedPeer
  <2> QED BY <2>1, <2>2, <2>3
<1>a3. ASSUME ServerEchoFails PROVE (Flags /\ Places /\ Exchange /\ OnItsWay /\ Safety)'
  <2>1. (Flags /\ Places)'
    BY <1>a3, <1>f, <1>g DEF IInv, Names, Flags, Places
  <2>2. (Exchange /\ OnItsWay)'
    BY <1>a3, <1>f, <1>g DEF IInv, Names, Flags, Places, Exchange, OnItsWay
  <2>3. Safety'
    BY <1>a3, <1>f, <1>g DEF IInv, Names, Flags, Places, Exchange, OnItsWay,
       Safety, PassedMeansEchoed, FailsForCause, ServedPeer
  <2> QED BY <2>1, <2>2, <2>3
<1>a4. ASSUME ServerReadFails PROVE (Flags /\ Places /\ Exchange /\ OnItsWay /\ Safety)'
  <2>1. (Flags /\ Places)'
    BY <1>a4, <1>f, <1>g DEF IInv, Names, Flags, Places
  <2>2. (Exchange /\ OnItsWay)'
    BY <1>a4, <1>f, <1>g DEF IInv, Names, Flags, Places, Exchange, OnItsWay
  <2>3. Safety'
    BY <1>a4, <1>f, <1>g DEF IInv, Names, Flags, Places, Exchange, OnItsWay,
       Safety, PassedMeansEchoed, FailsForCause, ServedPeer
  <2> QED BY <2>1, <2>2, <2>3
<1> QED BY <1>0, <1>1, <1>3, <1>6, <1>a1, <1>a2, <1>a3, <1>a4 DEF IInv

(* The link.                                                               *)
LEMMA LinkKeepsInv == IInv /\ (Repeat \/ Lose) => IInv'
<1> SUFFICES ASSUME IInv, Repeat \/ Lose
             PROVE  IInv'
  OBVIOUS
<1>f. toServer # <<>> => /\ Tail(toServer) \in Seq({"data", "late"})
                         /\ Holds(Tail(toServer), "data") => Holds(toServer, "data")
  BY HoldsTail DEF Queues, IInv
<1>g. toClient # <<>> => /\ Tail(toClient) \in Seq({"echo", "late"})
                         /\ Holds(Tail(toClient), "echo") => Holds(toClient, "echo")
  BY HoldsTail DEF Queues, IInv
<1>h. /\ Append(toClient, "late") \in Seq({"echo", "late"})
      /\ Append(toServer, "late") \in Seq({"data", "late"})
      /\ Holds(Append(toClient, "late"), "echo") <=> Holds(toClient, "echo")
      /\ Holds(Append(toServer, "late"), "data") <=> Holds(toServer, "data")
  BY HoldsAppend DEF Queues, IInv
<1>5. /\ AnotherAttempt \/ UNCHANGED attempts
      /\ AnotherLate \/ UNCHANGED late
      /\ AnotherStray \/ UNCHANGED strays
  BY DEF handshake, clientVars, serverVars, link, Repeat, Lose, BioSend
<1>6. Numbers'
  BY <1>5, DemoAssumption DEF IInv, Numbers, AnotherAttempt, AnotherStray, AnotherLate
<1> USE DEF handshake, clientVars, serverVars, link, Repeat, Lose, BioSend
<1>0. Queues'
  BY <1>f, <1>g, <1>h DEF IInv, Queues
<1>1. Names'
  BY DEF IInv, Names, Resources
<1>3. HeldAt'
  BY DEF IInv, Names, HeldAt, Resources
<1>a1. ASSUME Repeat PROVE (Flags /\ Places /\ Exchange /\ OnItsWay /\ Safety)'
  <2>1. (Flags /\ Places)'
    BY <1>a1, <1>f, <1>g, <1>h DEF IInv, Names, Flags, Places
  <2>2. (Exchange /\ OnItsWay)'
    BY <1>a1, <1>f, <1>g, <1>h DEF IInv, Names, Flags, Places, Exchange, OnItsWay
  <2>3. Safety'
    BY <1>a1, <1>f, <1>g, <1>h DEF IInv, Names, Flags, Places, Exchange, OnItsWay,
       Safety, PassedMeansEchoed, FailsForCause, ServedPeer
  <2> QED BY <2>1, <2>2, <2>3
<1>a2. ASSUME Lose PROVE (Flags /\ Places /\ Exchange /\ OnItsWay /\ Safety)'
  <2>1. (Flags /\ Places)'
    BY <1>a2, <1>f, <1>g, <1>h DEF IInv, Names, Flags, Places
  <2>2. (Exchange /\ OnItsWay)'
    BY <1>a2, <1>f, <1>g, <1>h DEF IInv, Names, Flags, Places, Exchange, OnItsWay
  <2>3. Safety'
    BY <1>a2, <1>f, <1>g, <1>h DEF IInv, Names, Flags, Places, Exchange, OnItsWay,
       Safety, PassedMeansEchoed, FailsForCause, ServedPeer
  <2> QED BY <2>1, <2>2, <2>3
<1> QED BY <1>0, <1>1, <1>3, <1>6, <1>a1, <1>a2 DEF IInv

-----------------------------------------------------------------------------
LEMMA StutterKeepsInv == IInv /\ UNCHANGED vars => IInv'
<1> SUFFICES ASSUME IInv, UNCHANGED vars PROVE IInv'
  OBVIOUS
<1> USE DEF vars, handshake, clientVars, serverVars, link
<1>1. (Names /\ Numbers /\ Queues)'
  BY DEF IInv, Names, Numbers, Queues
<1>2. (Flags /\ HeldAt /\ Places)'
  BY DEF IInv, Flags, HeldAt, Places
<1>3. (Exchange /\ OnItsWay)'
  BY DEF IInv, Exchange, OnItsWay, Holds
<1>4. Safety'
  BY DEF IInv, Safety, PassedMeansEchoed, FailsForCause, ServedPeer
<1> QED BY <1>1, <1>2, <1>3, <1>4 DEF IInv

(* The inductive invariant holds in every behaviour of the demo.           *)
THEOREM DemoInv == Spec => []IInv
<1>1. IInv /\ [Next]_vars => IInv'
  BY SetupKeepsInv, ConnectKeepsInv, WriteKeepsInv, ReadKeepsInv, AcceptKeepsInv,
     ServeKeepsInv, LinkKeepsInv, StutterKeepsInv
     DEF Next, ClientStep, ServerStep, ServerTrouble
<1> QED BY <1>1, InitInv, PTL DEF Spec

(* Every variable keeps its range; the attempts stay below the limit.      *)
THEOREM DemoTypeOK == Spec => []TypeOK
<1>1. IInv => TypeOK
  BY DEF IInv, Names, Numbers, Queues, Flags, TypeOK
<1> QED BY <1>1, DemoInv, PTL

(* Whatever way run_dtls13_demo ends, nothing it acquired is left.         *)
THEOREM DemoReleased == Spec => []Released
<1>1. IInv => Released
  BY DEF IInv, HeldAt, Released
<1> QED BY <1>1, DemoInv, PTL

(* A demo that reports success has had its message echoed.                 *)
THEOREM DemoPassedMeansEchoed == Spec => []PassedMeansEchoed
<1>1. IInv => PassedMeansEchoed
  BY DEF IInv, Safety
<1> QED BY <1>1, DemoInv, PTL

(* A demo that has connected and fails does so for an outside reason.      *)
THEOREM DemoFailsForCause == Spec => []FailsForCause
<1>1. IInv => FailsForCause
  BY DEF IInv, Safety
<1> QED BY <1>1, DemoInv, PTL

(* A server in the middle of the client's session answers the client.      *)
THEOREM DemoServedPeer == Spec => []ServedPeer
<1>1. IInv => ServedPeer
  BY DEF IInv, Safety
<1> QED BY <1>1, DemoInv, PTL

=============================================================================
