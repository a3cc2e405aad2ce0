-------------------------- MODULE LiteEthUdpProofs --------------------------
(***************************************************************************)
(* The invariants of LiteEthUdp, for every number of slots, polls, hosts   *)
(* and datagrams.                                                          *)
(***************************************************************************)
EXTENDS LiteEthUdp, FiniteSetTheorems, TLAPS

\* The slot k places behind the current one on the ring of transmit slots.
Back(k) == IF txslot - k >= 0 THEN txslot - k ELSE txslot - k + TxSlots

\* The queued commands hold the slots just behind the current one, oldest first.
TxRing == \A i \in 1 .. Len(cmdq) : cmdq[i].slot = Back(Len(cmdq) - i + 1)

\* While send_packet polls, the current slot holds the caller's frame; the first
\* frame is sent after udp_start.
TxFilled == /\ cpu = "tx_poll" => txmem[txslot] \in TxFrame
            /\ cpu = "boot" => cmdq = <<>>

\* Every slot the MAC has queued for the driver holds a frame.
RxFilled == \A i \in 1 .. Len(rxq) : rxmem[rxq[i]] \in RxFrame

\* The received slots are the ones just behind the MAC's write pointer.
Behind(k) == IF wslot - k >= 0 THEN wslot - k ELSE wslot - k + RxSlots
RxRing == \A i \in 1 .. Len(rxq) : rxq[i] = Behind(Len(rxq) - i + 1)

TypeInv == TypeOK /\ RxSlotOwned /\ RxFilled /\ RxRing /\ TxFilled

\* ARP has resolved the server: the loop is the receive loop, or wolfSSL runs.
Resolved == \/ cpu \in {"app", "recv_poll", "recv_check"}
            \/ cpu = "tx_poll" /\ txret = "app"
            \/ cpu \in {"process", "clear"} /\ svcret = "recv_check"
            \/ cpu = "tx_poll" /\ txret = "clear" /\ svcret = "recv_check"

CacheInv == /\ cpu # "boot" => cached_ip = Remote /\ cached_mac \in {NoHost, Remote}
            /\ Resolved => cached_mac = Remote
            /\ cpu = "tx_poll" /\ txmem[txslot].type = "udp"
                  => txmem[txslot].host = Remote
            /\ \A i \in 1 .. Len(cmdq) :
                  cmdq[i].frame.type = "udp" => cmdq[i].frame.host = Remote
-----------------------------------------------------------------------------
\* Advancing a ring index by one wraps at the number of slots.
LEMMA NextSlot ==
    ASSUME NEW n \in Nat \ {0}, NEW s \in 0 .. n - 1
    PROVE  (s + 1) % n = IF s + 1 = n THEN 0 ELSE s + 1
  OBVIOUS

\* Appending keeps a sequence's elements and adds one; taking the tail shifts them.
LEMMA AppendFacts ==
    ASSUME NEW S, NEW q \in Seq(S), NEW e \in S
    PROVE  /\ Append(q, e) \in Seq(S)
           /\ Len(Append(q, e)) = Len(q) + 1
           /\ \A i \in 1 .. Len(q) : Append(q, e)[i] = q[i]
           /\ Append(q, e)[Len(q) + 1] = e
           /\ Append(q, e) # <<>>
           /\ q # <<>> => Head(Append(q, e)) = Head(q)
<1>1. /\ Append(q, e) \in Seq(S)
      /\ Len(Append(q, e)) = Len(q) + 1
      /\ \A i \in 1 .. Len(q) : Append(q, e)[i] = q[i]
      /\ Append(q, e)[Len(q) + 1] = e
  OBVIOUS
<1>2. Append(q, e) # <<>>
  BY <1>1
<1>3. q # <<>> => Head(Append(q, e)) = Head(q)
  BY <1>1
<1> QED BY <1>1, <1>2, <1>3

LEMMA TailFacts ==
    ASSUME NEW S, NEW q \in Seq(S), q # <<>>
    PROVE  /\ Tail(q) \in Seq(S)
           /\ Len(q) \in Nat \ {0}
           /\ Len(Tail(q)) = Len(q) - 1
           /\ \A i \in 1 .. Len(q) - 1 : Tail(q)[i] = q[i + 1]
           /\ Head(q) = q[1] /\ Head(q) \in S
  OBVIOUS

-----------------------------------------------------------------------------
\* The receive queue: what each step does to it.
LEMMA RxStep == TypeInv /\ [Next]_vars => (RxSlotOwned /\ RxFilled /\ RxRing)'
<1> SUFFICES ASSUME TypeInv, [Next]_vars
             PROVE  (RxSlotOwned /\ RxFilled /\ RxRing)'
    OBVIOUS
<1> USE SlotsAssumption
<1>1. CASE UNCHANGED mac /\ UNCHANGED <<rxslot, cpu, txret>>
  BY <1>1 DEF TypeInv, RxSlotOwned, RxFilled, RxRing, Behind, mac
<1>2. ASSUME NEW a \in Arrivals, Arrive(a[1], a[2])
      PROVE  (RxSlotOwned /\ RxFilled /\ RxRing)'
  <2>0. /\ rxq \in Seq(0 .. RxSlots - 1) /\ wslot \in 0 .. RxSlots - 1
        /\ rxmem \in [0 .. RxSlots - 1 -> RxFrame \cup {NoFrame}]
        /\ Len(rxq) < RxSlots /\ rxq' = Append(rxq, wslot)
        /\ wslot' = IF wslot + 1 = RxSlots THEN 0 ELSE wslot + 1
    BY <1>2, NextSlot DEF Arrive, AfterSlot, TypeInv, TypeOK
  <2>a. /\ Len(rxq') = Len(rxq) + 1
        /\ \A i \in 1 .. Len(rxq) : rxq'[i] = rxq[i]
        /\ rxq'[Len(rxq) + 1] = wslot
        /\ rxq' # <<>> /\ (rxq # <<>> => Head(rxq') = Head(rxq))
    BY <2>0, AppendFacts
  <2>b. cpu' = cpu /\ txret' = txret /\ rxslot' = rxslot
    BY <1>2 DEF Arrive
  <2>1. RxSlotOwned'
    BY <2>a, <2>b DEF TypeInv, RxSlotOwned
  <2>2. rxmem'[wslot] \in RxFrame /\ \A s \in 0 .. RxSlots - 1 :
             rxmem[s] \in RxFrame => rxmem'[s] \in RxFrame
    BY <1>2, <2>0, HostsAssumption
       DEF Arrive, TypeInv, TypeOK, RxFrame, Frame
  <2>3. RxFilled'
    <3> SUFFICES ASSUME NEW i \in 1 .. Len(rxq) + 1 PROVE rxmem'[rxq'[i]] \in RxFrame
      BY <2>a DEF RxFilled
    <3>1. CASE i = Len(rxq) + 1
      BY <2>a, <2>2, <3>1
    <3>2. CASE i \in 1 .. Len(rxq)
      <4>1. rxq[i] \in 0 .. RxSlots - 1 /\ rxmem[rxq[i]] \in RxFrame
        BY <2>0, <3>2 DEF TypeInv, RxFilled
      <4> QED BY <2>a, <2>2, <3>2, <4>1
    <3> QED BY <2>0, <3>1, <3>2
  <2>4. RxRing'
    <3> SUFFICES ASSUME NEW i \in 1 .. Len(rxq) + 1
                 PROVE  rxq'[i] = Behind(Len(rxq) - i + 1)'
      BY <2>0, <2>a DEF RxRing
    <3>1. CASE i = Len(rxq) + 1
      BY <2>0, <2>a, <3>1 DEF Behind
    <3>2. CASE i \in 1 .. Len(rxq)
      <4>1. rxq'[i] = Behind(Len(rxq) - i + 1)
        BY <2>a, <3>2 DEF TypeInv, RxRing
      <4> QED BY <2>0, <3>2, <4>1 DEF Behind
    <3> QED BY <2>0, <3>1, <3>2
  <2> QED BY <2>1, <2>3, <2>4
<1>3. CASE Start
  <2>0. rxq \in Seq(0 .. RxSlots - 1) /\ wslot \in 0 .. RxSlots - 1
    BY DEF TypeInv, TypeOK
  <2>1. /\ rxmem' = rxmem /\ wslot' = wslot /\ cpu' = "arp_send"
        /\ rxq' = IF rxq = <<>> THEN rxq ELSE Tail(rxq)
    BY <1>3 DEF Start
  <2>2. CASE rxq = <<>>
    BY <2>1, <2>2 DEF TypeInv, RxSlotOwned, RxFilled, RxRing, Behind
  <2>3. CASE rxq # <<>>
    <3>1. /\ Len(rxq') = Len(rxq) - 1 /\ Len(rxq) \in Nat \ {0}
          /\ \A i \in 1 .. Len(rxq) - 1 : rxq'[i] = rxq[i + 1]
      BY <2>0, <2>1, <2>3, TailFacts
    <3> QED BY <2>0, <2>1, <3>1 DEF TypeInv, RxSlotOwned, RxFilled, RxRing, Behind
  <2> QED BY <2>2, <2>3
<1>4. CASE UdpServiceBegin
  BY <1>4 DEF UdpServiceBegin, TypeInv, RxSlotOwned, RxFilled, RxRing, Behind, mac
<1>5. CASE UdpServiceEnd
  <2>0. /\ rxq \in Seq(0 .. RxSlots - 1) /\ wslot \in 0 .. RxSlots - 1
        /\ rxmem \in [0 .. RxSlots - 1 -> RxFrame \cup {NoFrame}]
        /\ svcret \in {"arp_check", "recv_check"} /\ Len(rxq) <= RxSlots
        /\ rxq # <<>> /\ Head(rxq) = rxslot
    BY <1>5 DEF TypeInv, TypeOK, RxSlotOwned, UdpServiceEnd
  <2>1. /\ rxmem' = [rxmem EXCEPT ![rxslot] = NoFrame] /\ wslot' = wslot
        /\ cpu' = svcret /\ rxq' = Tail(rxq)
    BY <1>5 DEF UdpServiceEnd
  <2>2. /\ Len(rxq') = Len(rxq) - 1 /\ Len(rxq) \in Nat \ {0}
        /\ \A i \in 1 .. Len(rxq) - 1 : rxq'[i] = rxq[i + 1]
        /\ rxslot = rxq[1]
    BY <2>0, <2>1, TailFacts
  <2>3. RxSlotOwned'
    BY <2>0, <2>1 DEF RxSlotOwned
  <2>4. RxRing'
    BY <2>0, <2>1, <2>2 DEF TypeInv, RxRing, Behind
  <2>5. \A i \in 1 .. Len(rxq) - 1 : rxq[i + 1] # rxslot
    <3> SUFFICES ASSUME NEW i \in 1 .. Len(rxq) - 1 PROVE rxq[i + 1] # rxq[1]
      BY <2>2
    <3>1. i + 1 \in 1 .. Len(rxq) /\ 1 \in 1 .. Len(rxq)
      BY <2>2
    <3>2. rxq[i + 1] = Behind(Len(rxq) - i) /\ rxq[1] = Behind(Len(rxq))
      BY <2>2, <3>1 DEF TypeInv, RxRing
    <3> QED BY <2>0, <2>2, <3>2 DEF Behind
  <2>6. RxFilled'
    <3> SUFFICES ASSUME NEW i \in 1 .. Len(rxq) - 1 PROVE rxmem'[rxq[i + 1]] \in RxFrame
      BY <2>2 DEF RxFilled
    <3>1. i + 1 \in 1 .. Len(rxq)
      BY <2>2
    <3>2. rxq[i + 1] \in 0 .. RxSlots - 1 /\ rxmem[rxq[i + 1]] \in RxFrame
      BY <2>0, <3>1 DEF TypeInv, RxFilled
    <3> QED BY <2>0, <2>1, <2>5, <3>2
  <2> QED BY <2>3, <2>4, <2>6
<1>6. CASE ProcessFrame
  BY <1>6 DEF ProcessFrame, ProcessArpReply, ProcessRequest, ProcessArpRequest,
              ProcessIcmp, Answer, ProcessUdp, udp_rx_cb, ProcessIgnored,
              FillAndSend, TypeInv, RxSlotOwned, RxFilled, RxRing, Behind, mac
<1>7. CASE Transmit \/ UdpServiceIdle \/ ArpSend \/ ArpCheck \/ RecvCheck
           \/ SendPacketStart \/ SendPacketWait \/ DtlsIoSend \/ DtlsIoRecv \/ Finish
  <2>1. UNCHANGED mac /\ UNCHANGED rxslot
    BY <1>7 DEF Transmit, UdpServiceIdle, ArpSend, ArpCheck, RecvCheck, SendPacketStart,
                SendPacketWait, DtlsIoSend, DtlsIoRecv, Finish
  <2>2. (RxFilled /\ RxRing)'
    BY <2>1 DEF TypeInv, RxFilled, RxRing, Behind, mac
  <2>3. RxSlotOwned'
    BY <1>7, <2>1 DEF Transmit, UdpServiceIdle, ArpSend, ArpCheck, RecvCheck, SendPacketStart,
                SendPacketWait, DtlsIoSend, UdpSend, DtlsIoRecv, Finish, FillAndSend, CheckAfter,
                TypeInv, TypeOK, RxSlotOwned, mac
  <2> QED BY <2>2, <2>3
<1>8. CASE UNCHANGED vars
  BY <1>8, <1>1 DEF vars
<1> QED
  BY <1>2, <1>3, <1>4, <1>5, <1>6, <1>7, <1>8 DEF Next, Mac, InCall

-----------------------------------------------------------------------------
\* The frame a handler reads is one that arrived.
LEMMA ProcessedFrame == TypeInv /\ cpu = "process" => rxmem[rxslot] \in RxFrame
<1> SUFFICES ASSUME TypeInv, cpu = "process" PROVE rxmem[rxslot] \in RxFrame
    OBVIOUS
<1>1. rxq \in Seq(0 .. RxSlots - 1) /\ rxq # <<>> /\ Head(rxq) = rxslot
  BY DEF TypeInv, TypeOK, RxSlotOwned
<1>2. rxslot = rxq[1] /\ 1 \in 1 .. Len(rxq)
  BY <1>1, TailFacts
<1> QED BY <1>2 DEF TypeInv, RxFilled

LEMMA TxFilledStep == TypeInv /\ [Next]_vars => TxFilled'
<1> SUFFICES ASSUME TypeInv, [Next]_vars PROVE TxFilled'
    OBVIOUS
<1> USE DEF TypeInv, TxFilled
<1>1. ASSUME NEW a \in Arrivals, Arrive(a[1], a[2]) PROVE TxFilled'
  BY <1>1 DEF Arrive
<1>2. CASE Transmit
  BY <1>2 DEF Transmit
<1>3. CASE ProcessFrame
  <2>1. rxmem[rxslot] \in RxFrame /\ txslot \in 0 .. TxSlots - 1
    BY <1>3, ProcessedFrame DEF ProcessFrame, TypeOK
  <2>2. CASE ProcessRequest(rxmem[rxslot])
    <3>1. \A kind \in {"arp_reply", "icmp_reply"} :
              Frame(kind, rxmem[rxslot].host, 0) \in TxFrame
      BY <2>1 DEF RxFrame, TxFrame, Frame
    <3> QED BY <1>3, <2>1, <2>2, <3>1
            DEF ProcessFrame, ProcessRequest, ProcessArpRequest, ProcessIcmp, Answer,
                FillAndSend, TypeOK
  <2> QED BY <1>3, <2>2 DEF ProcessFrame, ProcessArpReply, ProcessUdp, ProcessIgnored
<1>4. CASE ArpSend
  BY <1>4 DEF ArpSend, FillAndSend, Frame, TxFrame, TypeOK
<1>5. CASE DtlsIoSend
  <2>1. cached_mac # NoHost => Frame("udp", cached_mac, ntx') \in TxFrame
    BY <1>5 DEF DtlsIoSend, Frame, TxFrame, TypeOK
  <2> QED BY <1>5, <2>1 DEF DtlsIoSend, UdpSend, FillAndSend, TypeOK
<1>6. CASE SendPacketStart \/ SendPacketWait
  BY <1>6 DEF SendPacketStart, SendPacketWait, TypeOK
<1>7. CASE \/ Start \/ UdpServiceIdle \/ UdpServiceBegin \/ UdpServiceEnd \/ ArpCheck
           \/ RecvCheck \/ DtlsIoRecv \/ Finish
  BY <1>7 DEF Start, UdpServiceIdle, UdpServiceBegin, UdpServiceEnd, ArpCheck, RecvCheck,
              DtlsIoRecv, Finish, CheckAfter, TypeOK
<1>8. CASE UNCHANGED vars
  BY <1>8 DEF vars
<1> QED
  BY <1>1, <1>2, <1>3, <1>4, <1>5, <1>6, <1>7, <1>8 DEF Next, Mac, InCall

LEMMA MailboxType ==
    ASSUME NEW n \in Nat
    PROVE  /\ [ready |-> TRUE, id |-> n] \in [ready : BOOLEAN, id : Nat]
           /\ [ready |-> FALSE, id |-> 0] \in [ready : BOOLEAN, id : Nat]
<1>1. 0 \in Nat
  OBVIOUS
<1> QED BY <1>1, Zenon

LEMMA TypeStep == TypeInv /\ [Next]_vars => TypeOK'
<1> SUFFICES ASSUME TypeInv, [Next]_vars PROVE TypeOK'
    OBVIOUS
<1> USE SlotsAssumption, HostsAssumption
<1>a. TypeOK
  BY DEF TypeInv
<1>1. ASSUME NEW a \in Arrivals, Arrive(a[1], a[2]) PROVE TypeOK'
  <2>1. /\ rxq' \in Seq(0 .. RxSlots - 1) /\ Len(rxq') <= RxSlots
        /\ wslot' \in 0 .. RxSlots - 1
    <3>1. /\ rxq \in Seq(0 .. RxSlots - 1) /\ wslot \in 0 .. RxSlots - 1
          /\ Len(rxq) < RxSlots /\ rxq' = Append(rxq, wslot)
          /\ wslot' = (wslot + 1) % RxSlots
      BY <1>a, <1>1 DEF Arrive, AfterSlot, TypeOK
    <3>2. wslot' = IF wslot + 1 = RxSlots THEN 0 ELSE wslot + 1
      BY <3>1, NextSlot
    <3> QED BY <3>1, <3>2, AppendFacts
  <2>2. nrx' \in Nat
    BY <1>a, <1>1 DEF Arrive, TypeOK
  <2>3. Frame(a[1], a[2], IF a[1] = "udp" THEN nrx' ELSE 0) \in RxFrame
    BY <2>2 DEF Frame, RxFrame
  <2>4. rxmem' \in [0 .. RxSlots - 1 -> RxFrame \cup {NoFrame}]
    BY <1>a, <1>1, <2>3 DEF Arrive, TypeOK
  <2> QED BY <1>a, <1>1, <2>1, <2>2, <2>4 DEF Arrive, TypeOK, arp, counts, mailbox
<1>2. CASE Transmit
  <2>1. cmdq' \in Seq([slot : 0 .. TxSlots - 1, frame : TxFrame]) /\ Len(cmdq') <= ReaderDepth
    <3> DEFINE C == [slot : 0 .. TxSlots - 1, frame : TxFrame]
    <3>1. cmdq \in Seq(C) /\ cmdq # <<>> /\ Len(cmdq) <= ReaderDepth /\ cmdq' = Tail(cmdq)
      BY <1>a, <1>2 DEF Transmit, TypeOK
    <3> HIDE DEF C
    <3>2. cmdq' \in Seq(C) /\ Len(cmdq') = Len(cmdq) - 1 /\ Len(cmdq) \in Nat
      BY <3>1, TailFacts
    <3> QED BY <3>1, <3>2 DEF C
  <2> QED BY <1>a, <1>2, <2>1 DEF Transmit, TypeOK, mac, arp, counts, mailbox
<1>3. CASE ProcessFrame
  <2>1. rxmem[rxslot] \in RxFrame
    BY <1>3, ProcessedFrame DEF ProcessFrame
  <2>t. /\ cached_mac \in Hosts \cup {NoHost} /\ cached_ip \in Hosts \cup {NoHost}
        /\ wait \in Nat /\ txret \in {"arp_poll", "clear", "app"}
        /\ rxmem[rxslot].host \in Hosts
        /\ txmem \in [0 .. TxSlots - 1 -> TxFrame \cup {NoFrame}]
    BY <1>a, <2>1 DEF TypeOK, RxFrame
  <2>2. txmem' \in [0 .. TxSlots - 1 -> TxFrame \cup {NoFrame}]
    <3>1. CASE ProcessRequest(rxmem[rxslot])
      <4>1. \A kind \in {"arp_reply", "icmp_reply"} :
                Frame(kind, rxmem[rxslot].host, 0) \in TxFrame
        BY <2>t DEF TxFrame, Frame
      <4> QED BY <2>t, <3>1, <4>1
              DEF ProcessRequest, ProcessArpRequest, ProcessIcmp, Answer, FillAndSend
    <3>2. CASE ~ProcessRequest(rxmem[rxslot])
      BY <1>3, <2>t, <3>2 DEF ProcessFrame, ProcessArpReply, ProcessUdp, ProcessIgnored
    <3> QED BY <3>1, <3>2
  <2>3. g_rx' \in [ready : BOOLEAN, id : Nat]
    <3>1. g_rx \in [ready : BOOLEAN, id : Nat] /\ rxmem[rxslot].id \in Nat
      BY <1>a, <2>1 DEF TypeOK, RxFrame
    <3>2. g_rx' = g_rx \/ g_rx' = [ready |-> TRUE, id |-> rxmem[rxslot].id]
      BY <1>3 DEF ProcessFrame, ProcessArpReply, ProcessRequest, ProcessArpRequest,
              ProcessIcmp, Answer, ProcessUdp, udp_rx_cb, ProcessIgnored
    <3> QED BY <3>1, <3>2, MailboxType
  <2>4. /\ cached_ip' \in Hosts \cup {NoHost} /\ cached_mac' \in Hosts \cup {NoHost}
        /\ wait' \in Nat /\ cpu' \in {"clear", "tx_poll"}
        /\ txret' \in {"arp_poll", "clear", "app"}
    BY <1>3, <2>t DEF ProcessFrame, ProcessArpReply, ProcessRequest, ProcessArpRequest,
       ProcessIcmp, Answer, ProcessUdp, udp_rx_cb, ProcessIgnored, FillAndSend, arp
  <2> QED BY <1>a, <1>3, <2>2, <2>3, <2>4 DEF ProcessFrame, TypeOK, CpuStates, mac
<1>4. CASE SendPacketStart
  <2> DEFINE C == [slot : 0 .. TxSlots - 1, frame : TxFrame]
  <2>1. /\ cmdq \in Seq(C) /\ Len(cmdq) < ReaderDepth
        /\ [slot |-> txslot, frame |-> txmem[txslot]] \in C
        /\ cmdq' = Append(cmdq, [slot |-> txslot, frame |-> txmem[txslot]])
    BY <1>a, <1>4 DEF SendPacketStart, TypeOK, TypeInv, TxFilled
  <2> HIDE DEF C
  <2>2. cmdq' \in Seq(C) /\ Len(cmdq') <= ReaderDepth
    BY <2>1, AppendFacts
  <2>3. txslot' \in 0 .. TxSlots - 1
    <3>1. txslot' = IF txslot + 1 = TxSlots THEN 0 ELSE txslot + 1
      BY <1>a, <1>4, NextSlot DEF SendPacketStart, AfterSlot, TypeOK
    <3> QED BY <1>a, <3>1 DEF TypeOK
  <2> QED BY <1>a, <1>4, <2>2, <2>3
          DEF SendPacketStart, TypeOK, C, CpuStates, mac, arp, counts, mailbox
<1>5. CASE UdpServiceBegin
  <2>1. rxslot' \in 0 .. RxSlots - 1
    BY <1>a, <1>5, TailFacts DEF UdpServiceBegin, TypeOK
  <2> QED BY <1>a, <1>5, <2>1
          DEF UdpServiceBegin, CheckAfter, TypeOK, CpuStates, mac, arp, counts, mailbox
<1>6. CASE UdpServiceEnd
  <2>1. rxq' \in Seq(0 .. RxSlots - 1) /\ Len(rxq') <= RxSlots
    <3>1. rxq \in Seq(0 .. RxSlots - 1) /\ rxq # <<>> /\ Len(rxq) <= RxSlots /\ rxq' = Tail(rxq)
      BY <1>a, <1>6 DEF UdpServiceEnd, TypeOK, TypeInv, RxSlotOwned
    <3> QED BY <3>1, TailFacts
  <2> QED BY <1>a, <1>6, <2>1
          DEF UdpServiceEnd, TypeOK, CpuStates, arp, counts, mailbox
<1>7. CASE Start
  <2>1. rxq' \in Seq(0 .. RxSlots - 1) /\ Len(rxq') <= RxSlots
    <3>1. CASE rxq = <<>>
      BY <1>a, <1>7, <3>1 DEF Start, TypeOK
    <3>2. CASE rxq # <<>>
      BY <1>a, <1>7, <3>2, TailFacts DEF Start, TypeOK
    <3> QED BY <3>1, <3>2
  <2> QED BY <1>a, <1>7, <2>1 DEF Start, udp_rx_reset, TypeOK, CpuStates
<1>8. CASE ArpSend
  BY <1>a, <1>8 DEF ArpSend, FillAndSend, Frame, TxFrame, TypeOK, CpuStates, mac, arp, mailbox
<1>9. CASE DtlsIoSend
  <2>1. /\ txmem' \in [0 .. TxSlots - 1 -> TxFrame \cup {NoFrame}]
        /\ wait' \in Nat /\ cpu' \in CpuStates /\ txret' \in {"arp_poll", "clear", "app"}
        /\ ntx' \in Nat
    <3>t. /\ txmem \in [0 .. TxSlots - 1 -> TxFrame \cup {NoFrame}]
          /\ wait \in Nat /\ cpu \in CpuStates /\ txret \in {"arp_poll", "clear", "app"}
          /\ ntx \in Nat /\ cached_mac \in Hosts \cup {NoHost} /\ ntx' = ntx + 1
      BY <1>a, <1>9 DEF DtlsIoSend, TypeOK
    <3>1. CASE cached_mac = NoHost
      <4>1. txmem' = [txmem EXCEPT ![txslot] = NoFrame] /\ UNCHANGED <<wait, cpu, txret>>
        BY <1>9, <3>1 DEF DtlsIoSend, UdpSend
      <4>2. txmem' \in [0 .. TxSlots - 1 -> TxFrame \cup {NoFrame}]
        BY <3>t, <4>1
      <4>3. ntx' \in Nat
        BY <3>t
      <4> QED BY <3>t, <4>1, <4>2, <4>3, Zenon
    <3>2. CASE cached_mac # NoHost
      <4>1. Frame("udp", cached_mac, ntx') \in TxFrame
        BY <3>t, <3>2 DEF Frame, TxFrame
      <4>2. /\ txmem' = [txmem EXCEPT ![txslot] = Frame("udp", cached_mac, ntx')]
            /\ wait' = 0 /\ cpu' = "tx_poll" /\ txret' = "app"
        BY <1>9, <3>2 DEF DtlsIoSend, UdpSend, FillAndSend
      <4>3. txmem' \in [0 .. TxSlots - 1 -> TxFrame \cup {NoFrame}]
        BY <3>t, <4>1, <4>2
      <4>4. ntx' \in Nat /\ wait' \in Nat
        BY <3>t, <4>2
      <4> QED BY <3>t, <4>2, <4>3, <4>4, Zenon DEF CpuStates
    <3> QED BY <3>1, <3>2
  <2> QED BY <1>a, <1>9, <2>1 DEF DtlsIoSend, TypeOK, mac, arp, mailbox
<1>10. CASE RecvCheck
  <2>1. handed' \in Seq(Nat)
    <3>1. handed \in Seq(Nat) /\ g_rx.id \in Nat
      BY <1>a DEF TypeOK
    <3>2. Append(handed, g_rx.id) \in Seq(Nat)
      BY <3>1, AppendFacts
    <3> QED BY <1>10, <3>1, <3>2 DEF RecvCheck, mailbox
  <2>2. g_rx' \in [ready : BOOLEAN, id : Nat]
    <3>1. g_rx' = g_rx \/ g_rx' = [ready |-> FALSE, id |-> 0]
      BY <1>10 DEF RecvCheck, udp_rx_reset, mailbox
    <3> QED BY <1>a, <3>1, MailboxType DEF TypeOK
  <2>3. polls' \in Nat /\ cpu' \in {"app", "recv_poll"}
    BY <1>a, <1>10 DEF RecvCheck, Polled, TypeOK
  <2> QED BY <1>a, <1>10, <2>1, <2>2, <2>3 DEF RecvCheck, TypeOK, CpuStates, mac, arp
<1>11. CASE ArpCheck
  <2>a. polls \in Nat /\ tries \in Nat
    BY <1>a DEF TypeOK
  <2>1. polls' \in Nat /\ tries' \in Nat
    BY <2>a, <1>11 DEF ArpCheck, Polled
  <2>2. rx_callback' \in BOOLEAN /\ cpu' \in {"app", "arp_poll", "arp_send", "failed"}
    BY <1>a, <1>11 DEF ArpCheck, TypeOK
  <2> QED BY <1>a, <1>11, <2>1, <2>2 DEF ArpCheck, TypeOK, CpuStates, mac, arp, mailbox
<1>12. CASE SendPacketWait
  BY <1>a, <1>12 DEF SendPacketWait, Polled, TypeOK, CpuStates, mac, arp, mailbox
<1>13. CASE UdpServiceIdle \/ DtlsIoRecv \/ Finish
  BY <1>a, <1>13 DEF UdpServiceIdle, DtlsIoRecv, Finish, CheckAfter, TypeOK, CpuStates,
                     mac, arp, counts, mailbox
<1>14. CASE UNCHANGED vars
  BY <1>a, <1>14 DEF vars, TypeOK, mac, arp, counts, mailbox
<1> QED
  BY <1>1, <1>2, <1>3, <1>4, <1>5, <1>6, <1>7, <1>8, <1>9, <1>10, <1>11, <1>12, <1>13,
     <1>14 DEF Next, Mac, InCall

LEMMA TypeInvInit == Init => TypeInv
<1> SUFFICES ASSUME Init PROVE TypeInv
    OBVIOUS
<1>1. TypeOK
  <2>1. 0 \in 0 .. RxSlots - 1 /\ 0 \in 0 .. TxSlots - 1 /\ 0 <= RxSlots /\ 0 <= ReaderDepth
    BY SlotsAssumption
  <2>2. /\ rxmem \in [0 .. RxSlots - 1 -> RxFrame \cup {NoFrame}]
        /\ txmem \in [0 .. TxSlots - 1 -> TxFrame \cup {NoFrame}]
    BY DEF Init
  <2>3. /\ rxq \in Seq(0 .. RxSlots - 1) /\ Len(rxq) = 0
        /\ cmdq \in Seq([slot : 0 .. TxSlots - 1, frame : TxFrame]) /\ Len(cmdq) = 0
        /\ handed \in Seq(Nat)
    BY DEF Init
  <2> QED BY <2>1, <2>2, <2>3 DEF Init, TypeOK, CpuStates
<1> QED BY <1>1 DEF Init, TypeInv, RxSlotOwned, RxFilled, RxRing, TxFilled

LEMMA TypeInvariant == Spec => []TypeInv
<1>1. TypeInv /\ [Next]_vars => TypeInv'
  BY RxStep, TxFilledStep, TypeStep DEF TypeInv
<1> QED BY TypeInvInit, <1>1, PTL DEF Spec

\* Type correctness of the driver, the firmware's glue and the MAC.
THEOREM TypeCorrect == Spec => []TypeOK
<1>1. TypeInv => TypeOK
  BY DEF TypeInv
<1> QED BY TypeInvariant, <1>1, PTL

\* From udp_service's read of the slot number to its write of the pending event
\* the frame being processed stays the MAC's oldest, so the MAC never overwrites
\* a frame a handler is reading, whatever arrives in the meantime.
THEOREM ReceiveSlotOwned == Spec => []RxSlotOwned
<1>1. TypeInv => RxSlotOwned
  BY DEF TypeInv
<1> QED BY TypeInvariant, <1>1, PTL

-----------------------------------------------------------------------------
\* With a slot to spare, the current slot is in no queued command.
LEMMA CurrentSlotFree ==
    ASSUME ReaderDepth < TxSlots, TypeOK, TxRing
    PROVE  \A i \in 1 .. Len(cmdq) : cmdq[i].slot # txslot
<1> TAKE i \in 1 .. Len(cmdq)
<1>1. cmdq[i].slot = Back(Len(cmdq) - i + 1)
  BY DEF TxRing
<1>2. /\ txslot \in 0 .. TxSlots - 1 /\ Len(cmdq) <= ReaderDepth
      /\ Len(cmdq) \in Nat /\ ReaderDepth \in Nat /\ TxSlots \in Nat
  BY SlotsAssumption DEF TypeOK
<1> QED BY <1>1, <1>2 DEF Back

\* Building a frame in the current slot leaves the queued frames as they are.
LEMMA FillKeepsQueued ==
    ASSUME ReaderDepth < TxSlots, TypeOK, TxRing, TxIntact,
           NEW frame, txmem' = [txmem EXCEPT ![txslot] = frame], UNCHANGED cmdq
    PROVE  TxIntact'
<1> SUFFICES ASSUME NEW i \in 1 .. Len(cmdq)
             PROVE  txmem'[cmdq[i].slot] = cmdq[i].frame
    BY DEF TxIntact
<1>1. cmdq[i].slot # txslot /\ txmem[cmdq[i].slot] = cmdq[i].frame
  BY CurrentSlotFree DEF TxIntact
<1> DEFINE C == [slot : 0 .. TxSlots - 1, frame : TxFrame]
<1>a. cmdq \in Seq(C)
  BY DEF TypeOK
<1>b. cmdq[i] \in C
  <2> HIDE DEF C
  <2> QED BY <1>a
<1>2. cmdq[i].slot \in 0 .. TxSlots - 1
  BY <1>b
<1> QED BY <1>1, <1>2 DEF TypeOK

LEMMA TxStep ==
    ASSUME ReaderDepth < TxSlots, TypeInv, TxRing, TxIntact, [Next]_vars
    PROVE  (TxRing /\ TxIntact)'
<1> USE SlotsAssumption
<1>a. TypeOK
  BY DEF TypeInv
<1> DEFINE C == [slot : 0 .. TxSlots - 1, frame : TxFrame]
<1>b. cmdq \in Seq(C) /\ txslot \in 0 .. TxSlots - 1 /\ Len(cmdq) \in Nat
  BY <1>a DEF TypeOK
<1>1. ASSUME UNCHANGED <<cmdq, txslot>> PROVE TxRing'
  BY <1>1 DEF TxRing, Back
<1>2. CASE Transmit
  <2>1. cmdq # <<>> /\ cmdq' = Tail(cmdq) /\ txslot' = txslot /\ txmem' = txmem
    BY <1>2 DEF Transmit
  <2> HIDE DEF C
  <2>2. /\ Len(cmdq') = Len(cmdq) - 1 /\ Len(cmdq) \in Nat \ {0}
        /\ \A i \in 1 .. Len(cmdq) - 1 : cmdq'[i] = cmdq[i + 1]
    BY <1>b, <2>1, TailFacts
  <2> QED BY <2>1, <2>2 DEF TxRing, TxIntact, Back
<1>3. CASE SendPacketStart
  <2> DEFINE new == [slot |-> txslot, frame |-> txmem[txslot]]
  <2>1. /\ Len(cmdq) < ReaderDepth /\ cmdq' = Append(cmdq, new) /\ txmem' = txmem
        /\ txslot' = IF txslot + 1 = TxSlots THEN 0 ELSE txslot + 1
    BY <1>3, <1>b, NextSlot DEF SendPacketStart, AfterSlot
  <2>2. new \in C
    BY <1>a, <1>3 DEF SendPacketStart, TypeInv, TxFilled, TypeOK
  <2>3. new.slot = txslot /\ new.frame = txmem[txslot]
    OBVIOUS
  <2> HIDE DEF C, new
  <2>4. /\ Len(cmdq') = Len(cmdq) + 1 /\ cmdq'[Len(cmdq) + 1] = new
        /\ \A i \in 1 .. Len(cmdq) : cmdq'[i] = cmdq[i]
    BY <1>b, <2>1, <2>2, AppendFacts
  <2>5. TxIntact'
    BY <1>b, <2>1, <2>3, <2>4 DEF TxIntact
  <2>6. TxRing'
    <3> SUFFICES ASSUME NEW i \in 1 .. Len(cmdq) + 1
                 PROVE  cmdq'[i].slot = Back(Len(cmdq) - i + 1)'
      BY <1>b, <2>4 DEF TxRing
    <3>1. CASE i = Len(cmdq) + 1
      BY <1>b, <2>1, <2>3, <2>4, <3>1 DEF Back
    <3>2. CASE i \in 1 .. Len(cmdq)
      <4>1. cmdq'[i].slot = Back(Len(cmdq) - i + 1)
        BY <2>4, <3>2 DEF TxRing
      <4> DEFINE k == Len(cmdq) - i + 1
      <4>2. k \in 1 .. TxSlots - 2
        BY <1>b, <2>1, <3>2
      <4>3. Back(Len(cmdq) - i + 1)' = IF txslot' - (k + 1) >= 0
                 THEN txslot' - (k + 1) ELSE txslot' - (k + 1) + TxSlots
        BY <1>b, <2>4, <3>2 DEF Back
      <4> HIDE DEF k
      <4>4. Back(k) = IF txslot - k >= 0 THEN txslot - k ELSE txslot - k + TxSlots
        BY DEF Back
      <4>5. Back(k) = Back(Len(cmdq) - i + 1)'
        BY <1>b, <2>1, <4>2, <4>3, <4>4
      <4> QED BY <4>1, <4>5 DEF k
    <3> QED BY <1>b, <3>1, <3>2
  <2> QED BY <2>5, <2>6
<1>4. CASE ProcessFrame
  <2>1. UNCHANGED <<cmdq, txslot>>
    BY <1>4 DEF ProcessFrame
  <2>2. CASE ProcessRequest(rxmem[rxslot])
    BY <1>a, <1>1, <2>1, <2>2, FillKeepsQueued
       DEF ProcessRequest, ProcessArpRequest, ProcessIcmp, Answer, FillAndSend
  <2>3. CASE ~ProcessRequest(rxmem[rxslot])
    <3>1. txmem' = txmem
      BY <1>4, <2>3 DEF ProcessFrame, ProcessArpReply, ProcessUdp, ProcessIgnored
    <3> QED BY <1>1, <2>1, <3>1 DEF TxIntact
  <2> QED BY <2>2, <2>3
<1>5. CASE ArpSend
  BY <1>a, <1>1, <1>5, FillKeepsQueued DEF ArpSend, FillAndSend
<1>6. CASE DtlsIoSend
  <2>1. UNCHANGED <<cmdq, txslot>>
    BY <1>6 DEF DtlsIoSend
  <2>2. \/ txmem' = [txmem EXCEPT ![txslot] = NoFrame]
        \/ txmem' = [txmem EXCEPT ![txslot] = Frame("udp", cached_mac, ntx')]
    BY <1>6 DEF DtlsIoSend, UdpSend, FillAndSend
  <2> QED BY <1>a, <1>1, <2>1, <2>2, FillKeepsQueued
<1>7. CASE Start
  \* cmdq is empty at boot.
  <2>1. cmdq = <<>> /\ cmdq' = <<>>
    BY <1>7 DEF Start, TypeInv, TxFilled
  <2> QED BY <2>1 DEF TxRing, TxIntact
<1>8. ASSUME UNCHANGED <<cmdq, txslot, txmem>> PROVE (TxRing /\ TxIntact)'
  BY <1>1, <1>8 DEF TxIntact
<1>9. CASE \/ \E a \in Arrivals : Arrive(a[1], a[2])
           \/ SendPacketWait \/ UdpServiceIdle \/ UdpServiceBegin \/ UdpServiceEnd
           \/ ArpCheck \/ RecvCheck \/ DtlsIoRecv \/ Finish \/ UNCHANGED vars
  BY <1>8, <1>9 DEF Arrive, SendPacketWait, UdpServiceIdle, UdpServiceBegin, UdpServiceEnd,
     ArpCheck, RecvCheck, DtlsIoRecv, Finish, vars
<1> QED
  BY <1>2, <1>3, <1>4, <1>5, <1>6, <1>7, <1>9 DEF Next, Mac, InCall

\* The MAC transmits every frame as it was when it was queued, provided its queue
\* takes fewer frames than there are slots: then the slot the callers fill before
\* they wait for the reader is never one the MAC still has to send.
THEOREM TransmitIntact == ReaderDepth < TxSlots => (Spec => []TxIntact)
<1> SUFFICES ASSUME ReaderDepth < TxSlots PROVE Spec => []TxIntact
    OBVIOUS
<1>1. Init => TxRing /\ TxIntact
  BY DEF Init, TxRing, TxIntact
<1>2. TypeInv /\ (TxRing /\ TxIntact) /\ [Next]_vars => (TxRing /\ TxIntact)'
  BY TxStep
<1> QED BY <1>1, <1>2, TypeInvariant, PTL DEF Spec

-----------------------------------------------------------------------------
LEMMA CacheStep ==
    ASSUME TypeInv, CacheInv, [Next]_vars
    PROVE  CacheInv'
<1> USE HostsAssumption
<1>a. TypeOK
  BY DEF TypeInv
<1> DEFINE C == [slot : 0 .. TxSlots - 1, frame : TxFrame]
           Udp(frame) == frame.type = "udp" => frame.host = Remote
           Queued == \A i \in 1 .. Len(cmdq) : Udp(cmdq[i].frame)
<1>b. cmdq \in Seq(C) /\ txslot \in 0 .. TxSlots - 1
  BY <1>a DEF TypeOK
<1>q. ASSUME UNCHANGED cmdq PROVE Queued'
  BY <1>q DEF CacheInv
<1>1. CASE Transmit
  <2>1. cmdq # <<>> /\ cmdq' = Tail(cmdq)
    BY <1>1 DEF Transmit
  <2>2. Queued'
    <3> HIDE DEF C
    <3>1. /\ Len(cmdq') = Len(cmdq) - 1 /\ Len(cmdq) \in Nat \ {0}
          /\ \A i \in 1 .. Len(cmdq) - 1 : cmdq'[i] = cmdq[i + 1]
      BY <1>b, <2>1, TailFacts
    <3> QED BY <2>1, <3>1 DEF CacheInv
  <2> QED BY <1>1, <2>2 DEF Transmit, CacheInv, Resolved, arp
<1>2. CASE SendPacketStart
  <2> DEFINE new == [slot |-> txslot, frame |-> txmem[txslot]]
  <2>1. cmdq' = Append(cmdq, new) /\ new \in C
    BY <1>2, <1>a DEF SendPacketStart, TypeInv, TxFilled, TypeOK
  <2>2. Udp(new.frame)
    BY <1>2 DEF SendPacketStart, CacheInv
  <2>3. Queued'
    <3> HIDE DEF C, new
    <3>1. /\ Len(cmdq') = Len(cmdq) + 1 /\ cmdq'[Len(cmdq) + 1] = new
          /\ \A i \in 1 .. Len(cmdq) : cmdq'[i] = cmdq[i] /\ Len(cmdq) \in Nat
      BY <1>b, <2>1, AppendFacts
    <3> SUFFICES ASSUME NEW i \in 1 .. Len(cmdq) + 1 PROVE Udp(cmdq'[i].frame)
      BY <3>1
    <3>2. CASE i = Len(cmdq) + 1
      BY <2>2, <3>1, <3>2
    <3>3. CASE i \in 1 .. Len(cmdq)
      <4>1. cmdq'[i] = cmdq[i] /\ Udp(cmdq[i].frame)
        BY <3>1, <3>3 DEF CacheInv
      <4> QED BY <4>1
    <3>4. Len(cmdq) \in Nat
      BY <1>b
    <3> QED BY <3>2, <3>3, <3>4
  <2>4. cpu' = txret /\ UNCHANGED <<arp, txret, svcret>>
    BY <1>2 DEF SendPacketStart
  <2>5. cpu' # "tx_poll" /\ cpu' # "boot"
    BY <1>a, <2>4 DEF TypeOK
  <2> QED BY <1>2, <1>a, <2>3, <2>4, <2>5
          DEF SendPacketStart, CacheInv, Resolved, arp, TypeOK
<1>3. CASE ProcessFrame
  <2>1. Queued'
    BY <1>3, <1>q DEF ProcessFrame
  <2>2. cached_ip' = Remote /\ cached_mac' \in {NoHost, Remote}
    BY <1>3 DEF ProcessFrame, ProcessArpReply, ProcessRequest, ProcessArpRequest,
              ProcessIcmp, Answer, ProcessUdp, udp_rx_cb, ProcessIgnored,
                ForCachedIp, CacheInv, arp
  <2>3. Resolved' => cached_mac' = Remote
    BY <1>3, <1>a DEF ProcessFrame, ProcessArpReply, ProcessRequest, ProcessArpRequest,
       ProcessIcmp, Answer, ProcessUdp, udp_rx_cb, ProcessIgnored, FillAndSend, ForCachedIp, CacheInv, Resolved, arp, TypeOK
  <2>4. cpu' = "tx_poll" => txmem'[txslot'].type \in {"arp_reply", "icmp_reply"}
    <3>1. CASE ProcessRequest(rxmem[rxslot])
      <4>1. /\ txslot' = txslot /\ txslot \in 0 .. TxSlots - 1
            /\ txmem \in [0 .. TxSlots - 1 -> TxFrame \cup {NoFrame}]
        BY <1>3, <1>a DEF ProcessFrame, TypeOK
      <4>2. \E kind \in {"arp_reply", "icmp_reply"} :
               txmem' = [txmem EXCEPT ![txslot] = Frame(kind, rxmem[rxslot].host, 0)]
        BY <3>1 DEF ProcessRequest, ProcessArpRequest, ProcessIcmp, Answer, FillAndSend
      <4> QED BY <4>1, <4>2 DEF Frame
    <3>2. CASE ~ProcessRequest(rxmem[rxslot])
      BY <1>3, <3>2 DEF ProcessFrame, ProcessArpReply, ProcessUdp, ProcessIgnored
    <3> QED BY <3>1, <3>2
  <2> QED BY <2>1, <2>2, <2>3, <2>4 DEF CacheInv
<1>4. CASE ArpSend
  <2>1. Queued'
    BY <1>4, <1>q DEF ArpSend
  <2>2. txmem'[txslot'].type = "arp_request"
    BY <1>4, <1>b, <1>a DEF ArpSend, FillAndSend, Frame, TypeOK
  <2> QED BY <1>4, <2>1, <2>2 DEF ArpSend, FillAndSend, CacheInv, Resolved, arp
<1>5. CASE DtlsIoSend
  <2>1. Queued'
    BY <1>5, <1>q DEF DtlsIoSend
  <2>2. cached_mac = Remote
    BY <1>5 DEF DtlsIoSend, CacheInv, Resolved
  <2>3. txmem'[txslot'] = Frame("udp", Remote, ntx')
    BY <1>5, <1>a, <2>2, HostsAssumption DEF DtlsIoSend, UdpSend, FillAndSend, TypeOK
  <2> QED BY <1>5, <2>1, <2>2, <2>3, HostsAssumption
          DEF DtlsIoSend, UdpSend, FillAndSend, Frame, CacheInv, Resolved, arp
<1>6. CASE Start
  <2>1. Queued'
    BY <1>6, <1>q DEF Start
  <2> QED BY <1>6, <2>1 DEF Start, CacheInv, Resolved
<1>7. CASE SendPacketWait
  <2>1. Queued'
    BY <1>7, <1>q DEF SendPacketWait
  <2>2. cpu' \in {txret, "tx_poll"} /\ UNCHANGED <<arp, txret, svcret, txmem, txslot>>
    BY <1>7 DEF SendPacketWait
  <2> QED BY <1>7, <1>a, <2>1, <2>2 DEF SendPacketWait, CacheInv, Resolved, arp, TypeOK
<1>8. CASE \/ \E a \in Arrivals : Arrive(a[1], a[2])
           \/ UdpServiceIdle \/ UdpServiceBegin \/ UdpServiceEnd
           \/ ArpCheck \/ RecvCheck \/ DtlsIoRecv \/ Finish \/ UNCHANGED vars
  <2>1. Queued' /\ UNCHANGED <<arp, txmem, txslot>>
    BY <1>8, <1>q DEF Arrive, UdpServiceIdle, UdpServiceBegin, UdpServiceEnd, ArpCheck,
       RecvCheck, DtlsIoRecv, Finish, vars
  <2>2. \/ cpu' = "boot"
        \/ cpu # "boot" /\ (Resolved' => Resolved \/ cached_mac # NoHost)
    BY <1>8, <1>a DEF Arrive, UdpServiceIdle, UdpServiceBegin, UdpServiceEnd, ArpCheck,
       RecvCheck, DtlsIoRecv, Finish, CheckAfter, vars, Resolved, TypeOK
  <2>3. cpu' = "tx_poll" => cpu = "tx_poll"
    BY <1>8, <1>a DEF Arrive, UdpServiceIdle, UdpServiceBegin, UdpServiceEnd, ArpCheck,
       RecvCheck, DtlsIoRecv, Finish, CheckAfter, vars, TypeOK
  <2>4. cpu = "boot" \/ (cached_ip = Remote /\ cached_mac \in {NoHost, Remote})
    BY DEF CacheInv
  <2> QED BY <2>1, <2>2, <2>3, <2>4 DEF CacheInv, Resolved, arp
<1> QED
  BY <1>1, <1>2, <1>3, <1>4, <1>5, <1>6, <1>7, <1>8 DEF Next, Mac, InCall

\* Whatever ARP replies arrive, and whenever, once the server's address has been
\* resolved the cache keeps it, and every datagram is queued for the server.
THEOREM ServerAddressed == Spec => []AddressedToServer
<1>1. Init => CacheInv
  BY DEF Init, CacheInv, Resolved
<1>2. CacheInv => AddressedToServer
  BY DEF CacheInv, Resolved, AddressedToServer
<1>3. TypeInv /\ CacheInv /\ [Next]_vars => CacheInv'
  BY CacheStep
<1> QED BY <1>1, <1>2, <1>3, TypeInvariant, PTL DEF Spec

-----------------------------------------------------------------------------
(* The port.  Datagrams are numbered as the MAC accepts them and leave from *)
(* the front, so that those in the slots are always the last ones accepted. *)

\* The k numbers up to n, in order.
Run(n, k) == [i \in 1 .. k |-> n - k + i]

\* The datagram in place i has as many behind it as were accepted after it.
Later(S, i) == {j \in S : j > i}
Numbered(slots, mem, n) ==
    \A i \in DatagramsIn(slots, mem) :
        mem[slots[i]].id = n - Cardinality(Later(DatagramsIn(slots, mem), i))

\* Sets of places are finite.
LEMMA PlacesFinite ==
    ASSUME NEW n \in Nat, NEW S \in SUBSET (1 .. n)
    PROVE  IsFiniteSet(S) /\ Cardinality(S) \in Nat /\ Cardinality(S) <= n
<1>1. IsFiniteSet(1 .. n) /\ Cardinality(1 .. n) = n
  BY FS_Interval
<1>2. IsFiniteSet(S) /\ Cardinality(S) <= n
  BY <1>1, FS_Subset
<1> QED BY <1>2, FS_CardinalityType

\* The places up to i and those after it make up the set.
LEMMA UpToAndLater ==
    ASSUME NEW n \in Nat, NEW S \in SUBSET (1 .. n), NEW i \in S
    PROVE  /\ Cardinality({j \in S : j <= i}) \in 1 .. Cardinality(S)
           /\ Cardinality(Later(S, i)) = Cardinality(S) - Cardinality({j \in S : j <= i})
<1> DEFINE U == {j \in S : j <= i}
           L == {j \in S : j > i}
<1>1. U \in SUBSET (1 .. n) /\ L \in SUBSET (1 .. n) /\ U \cap L = {} /\ U \cup L = S
  <2>1. \A j \in S : j \in Int
    OBVIOUS
  <2>2. \A j \in S : ~(j <= i /\ j > i) /\ (j <= i \/ j > i)
    BY <2>1
  <2>3. U \cap L = {}
    BY <2>2
  <2>4. U \cup L = S
    BY <2>2
  <2> QED BY <2>3, <2>4
<1>2. /\ IsFiniteSet(U) /\ Cardinality(U) \in Nat
      /\ IsFiniteSet(L) /\ Cardinality(L) \in Nat
  BY <1>1, PlacesFinite
<1>3. i \in U
  OBVIOUS
<1> HIDE DEF U, L
<1>4. Cardinality(S) = Cardinality(U) + Cardinality(L)
  <2>1. Cardinality(U \cup L) = Cardinality(U) + Cardinality(L) - Cardinality(U \cap L)
    BY <1>2, FS_Union
  <2>2. Cardinality({}) = 0
    BY FS_EmptySet
  <2>3. Cardinality(U \cap L) = 0
    BY <1>1, <2>2
  <2>4. Cardinality(S) = Cardinality(U \cup L)
    BY <1>1
  <2> QED BY <1>2, <2>1, <2>3, <2>4
<1>5. Cardinality(U) # 0
  BY <1>2, <1>3, FS_EmptySet
<1> QED BY <1>2, <1>4, <1>5 DEF Later, U, L

\* Every place has its rank, and every rank its place.
LEMMA PlaceOfRank ==
    ASSUME NEW n \in Nat, NEW S \in SUBSET (1 .. n), NEW k \in 1 .. Cardinality(S)
    PROVE  Place(S, k) \in S /\ Cardinality({j \in S : j <= Place(S, k)}) = k
<1> DEFINE c == Cardinality(S)
           rank == [i \in S |-> Cardinality({j \in S : j <= i})]
<1>1. c \in Nat /\ IsFiniteSet(S)
  BY PlacesFinite
<1>2. IsFiniteSet(1 .. c) /\ Cardinality(1 .. c) = c
  BY <1>1, FS_Interval
<1>3. rank \in [S -> 1 .. c]
  BY UpToAndLater
<1>4. ASSUME NEW a \in S, NEW b \in S, a < b
      PROVE  rank[a] # rank[b]
  <2> DEFINE A == {j \in S : j <= a}
             B == {j \in S : j <= b}
  <2>1. A \in SUBSET B /\ b \in B /\ b \notin A /\ B \in SUBSET (1 .. n)
    <3>1. a \in Int /\ b \in Int /\ \A j \in S : j \in Int
      OBVIOUS
    <3>2. \A j \in S : j <= a => j <= b
      BY <1>4, <3>1
    <3>3. b \in B /\ b \notin A
      BY <1>4, <3>1
    <3>4. A \in SUBSET B
      BY <3>2
    <3> QED BY <3>3, <3>4
  <2> HIDE DEF A, B
  <2>2. IsFiniteSet(B) /\ (Cardinality(B) = Cardinality(A) => B = A)
    BY <2>1, PlacesFinite, FS_Subset
  <2> QED BY <2>1, <2>2 DEF A, B
<1>5. \A a, b \in S : rank[a] = rank[b] => a = b
  <2> SUFFICES ASSUME NEW a \in S, NEW b \in S, a # b PROVE rank[a] # rank[b]
    OBVIOUS
  <2>1. a < b \/ b < a
    OBVIOUS
  <2> HIDE DEF rank
  <2> QED BY <1>4, <2>1
<1>6. rank \in Injection(S, 1 .. c)
  <2> HIDE DEF rank, c
  <2> QED BY <1>3, <1>5 DEF Injection, IsInjective
<1>7. rank \in Surjection(S, 1 .. c)
  <2> HIDE DEF rank
  <2> QED BY <1>2, <1>6, FS_Injection
<1>8. \E i \in S : rank[i] = k
  <2> HIDE DEF rank
  <2> QED BY <1>7 DEF Surjection
<1>9. \E i \in S : Cardinality({j \in S : j <= i}) = k
  BY <1>8
<1> HIDE DEF rank, c
<1> QED BY <1>9 DEF Place

\* Numbered datagrams are, in order, the last numbers given.
LEMMA NumberedRun ==
    ASSUME NEW Q, NEW slots \in Seq(Q), NEW mem, NEW n \in Nat, Numbered(slots, mem, n)
    PROVE  LET S == DatagramsIn(slots, mem) IN
           /\ S \in SUBSET (1 .. Len(slots)) /\ Cardinality(S) \in Nat
           /\ Cardinality(S) <= Len(slots)
           /\ [k \in 1 .. Cardinality(S) |-> mem[slots[Place(S, k)]].id]
                 = Run(n, Cardinality(S))
<1> DEFINE S == DatagramsIn(slots, mem)
           c == Cardinality(S)
<1>1. S \in SUBSET (1 .. Len(slots)) /\ Len(slots) \in Nat
  BY DEF DatagramsIn
<1>2. \A i \in S : mem[slots[i]].id = n - Cardinality(Later(S, i))
  BY DEF Numbered
<1> HIDE DEF S
<1>3. c \in Nat /\ c <= Len(slots)
  BY <1>1, PlacesFinite
<1>4. ASSUME NEW k \in 1 .. c
      PROVE  mem[slots[Place(S, k)]].id = n - c + k
  <2> DEFINE i == Place(S, k)
  <2>1. i \in S /\ Cardinality({j \in S : j <= i}) = k
    BY <1>1, PlaceOfRank
  <2> HIDE DEF i
  <2>2. Cardinality(Later(S, i)) = c - k
    BY <1>1, <2>1, UpToAndLater
  <2>3. mem[slots[i]].id = n - (c - k)
    BY <1>2, <2>1, <2>2
  <2> QED BY <1>3, <2>3 DEF i
<1>5. [k \in 1 .. c |-> mem[slots[Place(S, k)]].id] = Run(n, c)
  <2> HIDE DEF c
  <2> QED BY <1>4 DEF Run
<1> QED BY <1>1, <1>3, <1>5 DEF S

\* A slot is queued: its datagram, if it holds one, gets the next number.
LEMMA SlotQueued ==
    ASSUME NEW Q, NEW slots \in Seq(Q), NEW s \in Q, NEW mem, NEW new, NEW n \in Nat,
           Numbered(slots, mem, n), \A i \in 1 .. Len(slots) : new[slots[i]] = mem[slots[i]]
    PROVE  /\ new[s].type # "udp" =>
                /\ Numbered(Append(slots, s), new, n)
                /\ DatagramsIn(Append(slots, s), new) = DatagramsIn(slots, mem)
           /\ new[s].type = "udp" /\ new[s].id = n + 1 =>
                /\ Numbered(Append(slots, s), new, n + 1)
                /\ Cardinality(DatagramsIn(Append(slots, s), new))
                      = Cardinality(DatagramsIn(slots, mem)) + 1
<1> DEFINE q == Append(slots, s)
           len == Len(slots)
           S == DatagramsIn(slots, mem)
           T == DatagramsIn(q, new)
<1>1. len \in Nat /\ Len(q) = len + 1 /\ q[len + 1] = s /\ \A i \in 1 .. len : q[i] = slots[i]
  BY AppendFacts
<1>2. S \in SUBSET (1 .. len)
  BY DEF DatagramsIn
<1>3. \A i \in S : mem[slots[i]].id = n - Cardinality(Later(S, i))
  BY DEF Numbered
<1> HIDE DEF q, len
<1>4. T = {i \in 1 .. len + 1 : new[q[i]].type = "udp"}
  BY <1>1 DEF DatagramsIn
<1>5. S = {i \in 1 .. len : mem[slots[i]].type = "udp"}
  BY DEF DatagramsIn, len
<1>6. \A i \in 1 .. len : new[q[i]] = mem[slots[i]]
  BY <1>1 DEF len
<1> HIDE DEF S, T
<1>7. CASE new[s].type # "udp"
  <2>1. T = S
    BY <1>1, <1>4, <1>5, <1>6, <1>7
  <2>2. \A i \in T : new[q[i]].id = n - Cardinality(Later(T, i))
    BY <1>2, <1>3, <1>6, <2>1
  <2> QED BY <1>7, <2>1, <2>2 DEF Numbered, S, T, q
<1>8. CASE new[s].type = "udp" /\ new[s].id = n + 1
  <2>1. T = S \cup {len + 1} /\ len + 1 \notin S
    BY <1>1, <1>2, <1>4, <1>5, <1>6, <1>8
  <2>2. Cardinality(T) = Cardinality(S) + 1
    BY <1>1, <1>2, <2>1, PlacesFinite, FS_AddElement
  <2>3. ASSUME NEW i \in T
        PROVE  new[q[i]].id = (n + 1) - Cardinality(Later(T, i))
    <3>1. CASE i = len + 1
      <4>1. Later(T, i) = {}
        <5>1. \A j \in T : j \in Int /\ j <= len + 1
          BY <1>1, <1>2, <2>1
        <5>2. \A j \in T : ~(j > i)
          BY <1>1, <3>1, <5>1
        <5> QED BY <5>2 DEF Later
      <4>2. Cardinality({}) = 0
        BY FS_EmptySet
      <4>3. Cardinality(Later(T, i)) = 0
        BY <4>1, <4>2
      <4> QED BY <1>1, <1>8, <3>1, <4>3
    <3>2. CASE i # len + 1
      <4>1. i \in S /\ i \in 1 .. len
        BY <1>2, <2>1, <3>2
      <4>2. Later(T, i) = Later(S, i) \cup {len + 1} /\ len + 1 \notin Later(S, i)
        BY <1>1, <1>2, <2>1, <4>1 DEF Later
      <4>3. Later(S, i) \in SUBSET (1 .. len)
        BY <1>2 DEF Later
      <4>4. IsFiniteSet(Later(S, i)) /\ Cardinality(Later(S, i)) \in Nat
        BY <1>1, <4>3, PlacesFinite
      <4>5. Cardinality(Later(T, i)) = Cardinality(Later(S, i)) + 1
        BY <4>2, <4>4, FS_AddElement
      <4>6. new[q[i]].id = n - Cardinality(Later(S, i))
        BY <1>3, <1>6, <4>1
      <4> QED BY <4>4, <4>5, <4>6
    <3> QED BY <3>1, <3>2
  <2>4. Numbered(q, new, n + 1)
    BY <2>3 DEF Numbered, T
  <2> QED BY <1>8, <2>2, <2>4 DEF S, T, q
<1> QED BY <1>7, <1>8 DEF S, T, q

\* Moving places down by one keeps their number.
LEMMA ShiftedPlaces ==
    ASSUME NEW n \in Nat, NEW S \in SUBSET (1 .. n), NEW T \in SUBSET (1 .. n),
           \A i \in S : i - 1 \in T, \A j \in T : j + 1 \in S
    PROVE  Cardinality(T) = Cardinality(S)
<1> DEFINE down == [i \in S |-> i - 1]
<1>1. IsFiniteSet(S) /\ IsFiniteSet(T)
  BY PlacesFinite
<1>2. \A i \in S : i \in Int
  OBVIOUS
<1>3. down \in [S -> T]
  OBVIOUS
<1>4. \A i, j \in S : down[i] = down[j] => i = j
  BY <1>2
<1>5. \A j \in T : \E i \in S : down[i] = j
  <2> SUFFICES ASSUME NEW j \in T PROVE \E i \in S : down[i] = j
    OBVIOUS
  <2>1. j + 1 \in S /\ j \in Int
    OBVIOUS
  <2>2. down[j + 1] = j
    BY <2>1
  <2> HIDE DEF down
  <2> QED BY <2>1, <2>2
<1> HIDE DEF down
<1>6. down \in Injection(S, T)
  BY <1>3, <1>4 DEF Injection, IsInjective
<1>7. down \in Surjection(S, T)
  BY <1>3, <1>5 DEF Surjection
<1> QED BY <1>1, <1>6, <1>7, FS_Injection

\* A slot is taken from the front: the datagrams behind it keep their numbers.
LEMMA SlotTaken ==
    ASSUME NEW Q, NEW slots \in Seq(Q), slots # <<>>, NEW mem, NEW new, NEW n \in Nat,
           Numbered(slots, mem, n),
           \A i \in 1 .. Len(slots) - 1 : new[slots[i + 1]] = mem[slots[i + 1]]
    PROVE  LET S == DatagramsIn(slots, mem)
               T == DatagramsIn(Tail(slots), new)
           IN  /\ Numbered(Tail(slots), new, n)
               /\ mem[Head(slots)].type # "udp" => Cardinality(T) = Cardinality(S)
               /\ mem[Head(slots)].type = "udp" =>
                     /\ Cardinality(T) = Cardinality(S) - 1
                     /\ mem[Head(slots)].id = n - Cardinality(T)
<1> DEFINE q == Tail(slots)
           len == Len(slots)
           S == DatagramsIn(slots, mem)
           T == DatagramsIn(q, new)
<1>1. /\ len \in Nat \ {0} /\ Len(q) = len - 1 /\ Head(slots) = slots[1]
      /\ \A i \in 1 .. len - 1 : q[i] = slots[i + 1]
  BY TailFacts
<1>2. \A i \in S : mem[slots[i]].id = n - Cardinality(Later(S, i))
  BY DEF Numbered
<1> HIDE DEF q, len
<1>3. T = {i \in 1 .. len - 1 : new[q[i]].type = "udp"}
  BY <1>1 DEF DatagramsIn
<1>4. S = {i \in 1 .. len : mem[slots[i]].type = "udp"}
  BY DEF DatagramsIn, len
<1>5. \A i \in 1 .. len - 1 : new[q[i]] = mem[slots[i + 1]]
  BY <1>1 DEF len
<1> HIDE DEF S, T
<1>6. ASSUME NEW i \in S, i # 1 PROVE i - 1 \in T
  <2>1. i - 1 \in 1 .. len - 1 /\ mem[slots[i]].type = "udp" /\ i - 1 + 1 = i
    BY <1>1, <1>4, <1>6
  <2>2. new[q[i - 1]] = mem[slots[i - 1 + 1]]
    BY <1>5, <2>1
  <2> QED BY <1>3, <2>1, <2>2
<1>7. ASSUME NEW j \in T PROVE j + 1 \in S /\ j + 1 # 1 /\ new[q[j]] = mem[slots[j + 1]]
  <2>1. j \in 1 .. len - 1 /\ new[q[j]].type = "udp"
    BY <1>3
  <2>2. new[q[j]] = mem[slots[j + 1]]
    BY <1>5, <2>1
  <2>3. j + 1 \in 1 .. len
    BY <1>1, <2>1
  <2> QED BY <1>4, <2>1, <2>2, <2>3
<1>8. S \in SUBSET (1 .. len) /\ T \in SUBSET (1 .. len) /\ len \in Nat
  BY <1>1, <1>3, <1>4
<1>9. Cardinality(T) = Cardinality(S \ {1})
  <2>1. S \ {1} \in SUBSET (1 .. len)
    BY <1>8
  <2>2. /\ \A i \in S \ {1} : i - 1 \in T
        /\ \A j \in T : j + 1 \in S \ {1}
    BY <1>6, <1>7
  <2> QED BY <1>8, <2>1, <2>2, ShiftedPlaces
<1>10. Cardinality(S \ {1}) = IF 1 \in S THEN Cardinality(S) - 1 ELSE Cardinality(S)
  BY <1>8, PlacesFinite, FS_RemoveElement
<1>11. 1 \in S <=> mem[Head(slots)].type = "udp"
  BY <1>1, <1>4
<1>12. ASSUME 1 \in S PROVE mem[Head(slots)].id = n - Cardinality(T)
  <2>1. Later(S, 1) = S \ {1}
    <3>1. \A j \in S : j > 1 <=> j # 1
      BY <1>8
    <3> QED BY <3>1 DEF Later
  <2> QED BY <1>1, <1>2, <1>9, <1>12, <2>1
<1>13. ASSUME NEW j \in T PROVE new[q[j]].id = n - Cardinality(Later(T, j))
  <2>1. j + 1 \in S /\ new[q[j]] = mem[slots[j + 1]] /\ j \in Int
    BY <1>7, <1>8
  <2>2. /\ Later(S, j + 1) \in SUBSET (1 .. len)
        /\ Later(T, j) \in SUBSET (1 .. len)
    BY <1>8 DEF Later
  <2>3. \A i \in Later(S, j + 1) : i - 1 \in Later(T, j)
    <3> SUFFICES ASSUME NEW i \in S, i > j + 1 PROVE i - 1 \in T /\ i - 1 > j
      BY DEF Later
    <3>1. i \in Int /\ j \in 1 .. len
      BY <1>8
    <3>2. i # 1 /\ i - 1 > j
      BY <3>1
    <3> QED BY <1>6, <3>2
  <2>4. \A i \in Later(T, j) : i + 1 \in Later(S, j + 1)
    <3> SUFFICES ASSUME NEW i \in T, i > j PROVE i + 1 \in S /\ i + 1 > j + 1
      BY DEF Later
    <3>1. i \in Int
      BY <1>8
    <3> QED BY <1>7, <2>1, <3>1
  <2>5. Cardinality(Later(T, j)) = Cardinality(Later(S, j + 1))
    BY <1>8, <2>2, <2>3, <2>4, ShiftedPlaces
  <2> QED BY <1>2, <2>1, <2>5
<1>14. Numbered(q, new, n)
  BY <1>13 DEF Numbered, T
<1> QED BY <1>9, <1>10, <1>11, <1>12, <1>14 DEF S, T, q

\* The driver has done with the frame at the head of the queue, or is answering it.
HeadDone == cpu = "clear" \/ (cpu = "tx_poll" /\ txret = "clear")

Waiting == Cardinality(DatagramsIn(UnprocessedSlots, rxmem))

\* The datagrams in the slots and the mailbox are the last ones accepted.
NumberInv ==
    /\ Numbered(UnprocessedSlots, rxmem, nrx)
    /\ g_rx.ready => g_rx.id = nrx - Waiting

\* The callback is set while frames are processed, and once wolfSSL has been given a
\* datagram the mailbox is emptied before the next frame is processed.
MailboxInv ==
    /\ cpu = "boot" => ~g_rx.ready /\ handed = <<>>
    /\ cpu \notin {"boot", "failed", "stopped"} => rx_callback
    /\ handed # <<>> => /\ Resolved \/ cpu = "stopped"
                        /\ g_rx.ready => cpu \in {"clear", "recv_check"}

PortInv == NumberInv /\ MailboxInv

\* What the port holds: the waiting datagrams and the mailbox.
Count == Waiting + (IF g_rx.ready THEN 1 ELSE 0)

LEMMA RunFacts ==
    ASSUME NEW n \in Int, NEW k \in Nat
    PROVE  /\ Run(n, k) \in Seq(Int) /\ Len(Run(n, k)) = k
           /\ Append(Run(n, k), n + 1) = Run(n + 1, k + 1)
           /\ k > 0 => /\ Head(Run(n, k)) = n - (k - 1)
                       /\ Tail(Run(n, k)) = Run(n, k - 1)
                       /\ Run(n, k) # <<>>
           /\ k = 0 => Run(n, k) = <<>>
<1>1. Run(n, k) \in Seq(Int) /\ Len(Run(n, k)) = k /\ \A i \in 1 .. k : Run(n, k)[i] = n - k + i
  BY DEF Run
<1>2. Append(Run(n, k), n + 1) = Run(n + 1, k + 1)
  <2>1. /\ Append(Run(n, k), n + 1) \in Seq(Int)
        /\ Len(Append(Run(n, k), n + 1)) = k + 1
        /\ \A i \in 1 .. k + 1 : Append(Run(n, k), n + 1)[i] = n - k + i
    <3> DEFINE q == Run(n, k)
               m == n + 1
    <3>1. q \in Seq(Int) /\ m \in Int /\ Len(q) = k /\ \A i \in 1 .. k : q[i] = n - k + i
      BY <1>1
    <3>2. n - k + (k + 1) = m
      OBVIOUS
    <3> HIDE DEF q, m
    <3>3. /\ Append(q, m) \in Seq(Int) /\ Len(Append(q, m)) = k + 1
          /\ \A i \in 1 .. k : Append(q, m)[i] = q[i]
          /\ Append(q, m)[k + 1] = m
      BY <3>1, AppendFacts
    <3>4. \A i \in 1 .. k + 1 : Append(q, m)[i] = n - k + i
      BY <3>1, <3>2, <3>3
    <3> QED BY <3>3, <3>4 DEF q, m
  <2>2. /\ Run(n + 1, k + 1) \in Seq(Int) /\ Len(Run(n + 1, k + 1)) = k + 1
        /\ \A i \in 1 .. k + 1 : Run(n + 1, k + 1)[i] = n - k + i
    BY DEF Run
  <2> DEFINE a == Append(Run(n, k), n + 1)
             b == Run(n + 1, k + 1)
  <2> HIDE DEF a, b
  <2>3. a = b
    BY <2>1, <2>2 DEF a, b
  <2> QED BY <2>3 DEF a, b
<1>3. ASSUME k > 0
      PROVE  /\ Head(Run(n, k)) = n - (k - 1)
             /\ Tail(Run(n, k)) = Run(n, k - 1)
             /\ Run(n, k) # <<>>
  <2> DEFINE q == Run(n, k)
             r == Run(n, k - 1)
  <2>1. r \in Seq(Int) /\ Len(r) = k - 1 /\ \A i \in 1 .. k - 1 : r[i] = n - (k - 1) + i
    BY <1>3 DEF Run
  <2> HIDE DEF q, r
  <2>2. q \in Seq(Int) /\ Len(q) = k /\ q # <<>> /\ \A i \in 1 .. k : q[i] = n - k + i
    BY <1>1, <1>3 DEF q
  <2>3. /\ Tail(q) \in Seq(Int) /\ Len(Tail(q)) = k - 1 /\ Head(q) = q[1]
        /\ \A i \in 1 .. k - 1 : Tail(q)[i] = q[i + 1]
    BY <2>2, TailFacts
  <2>4. Head(q) = n - (k - 1)
    BY <1>3, <2>2, <2>3
  <2>5. \A i \in 1 .. k - 1 : Tail(q)[i] = r[i]
    BY <1>3, <2>1, <2>2, <2>3
  <2>6. Tail(q) = r
    <3> DEFINE t == Tail(q)
    <3>1. t \in Seq(Int) /\ Len(t) = Len(r) /\ \A i \in 1 .. Len(r) : t[i] = r[i]
      BY <2>1, <2>3, <2>5
    <3> HIDE DEF t
    <3>2. t = r
      BY <2>1, <3>1
    <3> QED BY <3>2 DEF t
  <2> QED BY <2>2, <2>4, <2>6 DEF q, r
<1>4. k = 0 => Run(n, k) = <<>>
  BY <1>1
<1> QED BY <1>1, <1>2, <1>3, <1>4

LEMMA RunGrows ==
    ASSUME NEW n \in Nat, NEW k \in Nat
    PROVE  Append(Run(n, k), n + 1) = Run(n + 1, k + 1) /\ Len(Run(n, k)) = k
<1>1. n \in Int
  OBVIOUS
<1> QED BY <1>1, RunFacts, Zenon

LEMMA RunShrinks ==
    ASSUME NEW n \in Nat, NEW k \in Nat, k > 0
    PROVE  /\ Run(n, k) # <<>> /\ Tail(Run(n, k)) = Run(n, k - 1)
           /\ Head(Run(n, k)) = n - (k - 1)
<1>1. n \in Int
  OBVIOUS
<1> QED BY <1>1, RunFacts, Zenon

\* The slots still to be processed are the queue, or what is behind its head.
LEMMA Unprocessed ==
    ASSUME TypeInv
    PROVE  /\ rxq \in Seq(0 .. RxSlots - 1) /\ Len(rxq) <= RxSlots
           /\ ~HeadDone => UnprocessedSlots = rxq
           /\ HeadDone => rxq # <<>> /\ UnprocessedSlots = Tail(rxq)
           /\ UnprocessedSlots \in Seq(0 .. RxSlots - 1)
           /\ Len(UnprocessedSlots) <= Len(rxq)
<1>1. rxq \in Seq(0 .. RxSlots - 1) /\ Len(rxq) <= RxSlots
  BY DEF TypeInv, TypeOK
<1>2. CASE HeadDone
  <2>1. rxq # <<>>
    BY <1>2 DEF HeadDone, TypeInv, RxSlotOwned
  <2>2. UnprocessedSlots = SubSeq(rxq, 2, Len(rxq))
    BY <1>2 DEF HeadDone, UnprocessedSlots
  <2>3. SubSeq(rxq, 2, Len(rxq)) = Tail(rxq)
    BY <1>1, <2>1
  <2>4. Tail(rxq) \in Seq(0 .. RxSlots - 1) /\ Len(Tail(rxq)) <= Len(rxq)
    BY <1>1, <2>1, TailFacts
  <2> QED BY <1>1, <1>2, <2>1, <2>2, <2>3, <2>4
<1>3. CASE ~HeadDone
  <2>1. UnprocessedSlots = rxq
    BY <1>3 DEF HeadDone, UnprocessedSlots
  <2> QED BY <1>1, <1>3, <2>1
<1> QED BY <1>2, <1>3

\* What the port holds is the last Count numbers.
LEMMA PendingIs ==
    ASSUME TypeInv, NumberInv
    PROVE  /\ Pending = Run(nrx, Count)
           /\ Waiting \in Nat /\ Count \in Nat /\ Count <= Len(rxq) + 1
           /\ nrx \in Nat
<1>1. /\ UnprocessedSlots \in Seq(0 .. RxSlots - 1) /\ Len(UnprocessedSlots) <= Len(rxq)
      /\ Len(rxq) \in Nat /\ nrx \in Nat /\ Len(UnprocessedSlots) \in Nat
  BY Unprocessed DEF TypeInv, TypeOK
<1>2. /\ Waiting \in Nat /\ Waiting <= Len(UnprocessedSlots)
      /\ QueuedDatagrams = Run(nrx, Waiting)
  BY <1>1, NumberedRun DEF NumberInv, Waiting, QueuedDatagrams
<1>3. CASE g_rx.ready
  <2>1. g_rx.id = nrx - Waiting /\ Count = Waiting + 1
    BY <1>3 DEF NumberInv, Count
  <2>2. Pending = <<g_rx.id>> \o Run(nrx, Waiting)
    BY <1>2, <1>3 DEF Pending
  <2>3. <<g_rx.id>> \o Run(nrx, Waiting) = Run(nrx, Waiting + 1)
    <3> DEFINE q == Run(nrx, Waiting)
               r == Run(nrx, Waiting + 1)
    <3>1. q \in Seq(Int) /\ Len(q) = Waiting /\ \A i \in 1 .. Waiting : q[i] = nrx - Waiting + i
      BY <1>1, <1>2, RunFacts DEF Run
    <3>2. /\ r \in Seq(Int) /\ Len(r) = Waiting + 1
          /\ \A i \in 1 .. Waiting + 1 : r[i] = nrx - (Waiting + 1) + i
      BY <1>1, <1>2, RunFacts DEF Run
    <3>3. PICK x \in Int : x = g_rx.id /\ x = nrx - Waiting
      BY <1>1, <1>2, <2>1
    <3> HIDE DEF q, r
    <3>4. /\ <<x>> \o q \in Seq(Int) /\ Len(<<x>> \o q) = Waiting + 1
          /\ (<<x>> \o q)[1] = x
          /\ \A i \in 2 .. Waiting + 1 : (<<x>> \o q)[i] = q[i - 1]
      BY <1>2, <3>1
    <3>5. \A i \in 1 .. Waiting + 1 : (<<x>> \o q)[i] = r[i]
      BY <1>1, <1>2, <3>1, <3>2, <3>3, <3>4
    <3>6. <<x>> \o q = r
      BY <3>2, <3>4, <3>5
    <3> QED BY <3>3, <3>6 DEF q, r
  <2> QED BY <1>1, <1>2, <2>1, <2>2, <2>3
<1>4. CASE ~g_rx.ready
  <2>1. Count = Waiting
    BY <1>2, <1>4 DEF Count
  <2>2. Pending = Run(nrx, Waiting)
    BY <1>1, <1>2, <1>4, RunFacts DEF Pending
  <2> QED BY <1>1, <1>2, <2>1, <2>2
<1> QED BY <1>3, <1>4


LEMMA PendingBefore ==
    TypeInv /\ NumberInv => /\ Pending = Run(nrx, Count) /\ nrx \in Nat
                           /\ Waiting \in Nat /\ Count \in Nat /\ Count <= Len(rxq) + 1
BY PendingIs

LEMMA PendingAfter ==
    (TypeInv /\ NumberInv => /\ Pending = Run(nrx, Count) /\ nrx \in Nat
                            /\ Waiting \in Nat /\ Count \in Nat /\ Count <= Len(rxq) + 1)'
BY PendingBefore, PTL

LEMMA UnprocessedBefore ==
    TypeInv => /\ ~HeadDone => UnprocessedSlots = rxq
               /\ HeadDone => UnprocessedSlots = Tail(rxq)
BY Unprocessed

LEMMA UnprocessedAfter ==
    (TypeInv => /\ ~HeadDone => UnprocessedSlots = rxq
                /\ HeadDone => UnprocessedSlots = Tail(rxq))'
BY UnprocessedBefore, PTL

-----------------------------------------------------------------------------
\* What each step does to the port.
PortStep == [Port!Next]_(Port!portVars)

Typed == TypeInv /\ TypeInv' /\ NumberInv /\ NumberInv'

\* Nothing is accepted, lost or handed over.
LEMMA PortQuiet ==
    ASSUME Typed, Count' = Count, nrx' = nrx, handed' = handed
    PROVE  PortStep
<1>1. Pending' = Pending
  BY PendingBefore, PendingAfter DEF Typed
<1> QED BY <1>1 DEF PortStep, Port!portVars

LEMMA PortAccepts ==
    ASSUME Typed, Count' = Count + 1, nrx' = nrx + 1, handed' = handed, Len(rxq) < RxSlots
    PROVE  PortStep
<1>1. /\ Pending = Run(nrx, Count) /\ Pending' = Run(nrx + 1, Count + 1)
      /\ nrx \in Nat /\ Count \in Nat /\ Count <= Len(rxq) + 1
  BY PendingBefore, PendingAfter DEF Typed
<1>a. PICK n \in Nat : n = nrx
  BY <1>1
<1>b. PICK k \in Nat : k = Count
  BY <1>1
<1>c. Append(Run(n, k), n + 1) = Run(n + 1, k + 1) /\ Len(Run(n, k)) = k
  BY RunGrows
<1>d. Pending = Run(n, k) /\ Pending' = Run(n + 1, k + 1) /\ nrx' = n + 1
  BY <1>1, <1>a, <1>b
<1>2. Pending' = Append(Pending, nrx') /\ Len(Pending) = Count
  BY <1>b, <1>c, <1>d
<1>3. RxSlots \in Nat /\ Len(rxq) \in Nat
  BY SlotsAssumption DEF Typed, TypeInv, TypeOK
<1>4. Len(Pending) < RxSlots + 1
  BY <1>1, <1>2, <1>3
<1>5. Port!Accept
  BY <1>2, <1>4 DEF Port!Accept
<1> QED BY <1>5 DEF PortStep, Port!Next

LEMMA PortLoses ==
    ASSUME Typed, Count > 0, Count' = Count - 1, nrx' = nrx, handed = <<>>, handed' = handed
    PROVE  PortStep
<1>1. /\ Pending = Run(nrx, Count) /\ Pending' = Run(nrx, Count - 1)
      /\ nrx \in Nat /\ Count \in Nat
  BY PendingBefore, PendingAfter DEF Typed
<1>a. PICK n \in Nat : n = nrx
  BY <1>1
<1>b. PICK k \in Nat : k = Count
  BY <1>1
<1>c. /\ Run(n, k) # <<>> /\ Tail(Run(n, k)) = Run(n, k - 1)
      /\ Head(Run(n, k)) = n - (k - 1)
  <2>1. k > 0
    BY <1>b
  <2> QED BY <2>1, RunShrinks
<1>d. Pending = Run(n, k) /\ Pending' = Run(n, k - 1)
  BY <1>1, <1>a, <1>b
<1>2. Pending # <<>> /\ Pending' = Tail(Pending)
  BY <1>c, <1>d
<1>3. Port!Discard
  BY <1>2 DEF Port!Discard
<1> QED BY <1>3 DEF PortStep, Port!Next

LEMMA PortHandsOver ==
    ASSUME Typed, Count > 0, Count' = Count - 1, nrx' = nrx, NEW id, id = nrx - (Count - 1),
           handed' = Append(handed, id)
    PROVE  PortStep
<1>1. /\ Pending = Run(nrx, Count) /\ Pending' = Run(nrx, Count - 1)
      /\ nrx \in Nat /\ Count \in Nat
  BY PendingBefore, PendingAfter DEF Typed
<1>a. PICK n \in Nat : n = nrx
  BY <1>1
<1>b. PICK k \in Nat : k = Count
  BY <1>1
<1>c. /\ Run(n, k) # <<>> /\ Tail(Run(n, k)) = Run(n, k - 1)
      /\ Head(Run(n, k)) = n - (k - 1)
  <2>1. k > 0
    BY <1>b
  <2> QED BY <2>1, RunShrinks
<1>d. Pending = Run(n, k) /\ Pending' = Run(n, k - 1)
  BY <1>1, <1>a, <1>b
<1>2. Pending # <<>> /\ Pending' = Tail(Pending) /\ Head(Pending) = id
  BY <1>a, <1>b, <1>c, <1>d
<1>3. Port!Deliver
  BY <1>2 DEF Port!Deliver
<1> QED BY <1>3 DEF PortStep, Port!Next

-----------------------------------------------------------------------------
\* The slots of the receive queue differ, and the one the MAC fills next is in none.
LEMMA SlotsDiffer ==
    ASSUME TypeInv
    PROVE  /\ \A i, j \in 1 .. Len(rxq) : i # j => rxq[i] # rxq[j]
           /\ Len(rxq) < RxSlots => \A i \in 1 .. Len(rxq) : rxq[i] # wslot
<1>1. /\ Len(rxq) \in Nat /\ Len(rxq) <= RxSlots /\ wslot \in 0 .. RxSlots - 1
      /\ RxSlots \in Nat \ {0}
  BY SlotsAssumption DEF TypeInv, TypeOK
<1>2. \A i \in 1 .. Len(rxq) : rxq[i] = Behind(Len(rxq) - i + 1)
  BY DEF TypeInv, RxRing
<1>3. ASSUME NEW i \in 1 .. Len(rxq)
      PROVE  rxq[i] = IF wslot - (Len(rxq) - i + 1) >= 0 THEN wslot - (Len(rxq) - i + 1)
                      ELSE wslot - (Len(rxq) - i + 1) + RxSlots
  BY <1>2 DEF Behind
<1>4. ASSUME NEW i \in 1 .. Len(rxq), NEW j \in 1 .. Len(rxq), i # j
      PROVE  rxq[i] # rxq[j]
  BY <1>1, <1>3, <1>4
<1>5. ASSUME Len(rxq) < RxSlots, NEW i \in 1 .. Len(rxq) PROVE rxq[i] # wslot
  BY <1>1, <1>3, <1>5
<1> QED BY <1>4, <1>5

\* The slots still to be processed are not the one being processed, nor the next to fill.
LEMMA UnprocessedDiffer ==
    ASSUME TypeInv
    PROVE  \A i \in 1 .. Len(UnprocessedSlots) :
              /\ HeadDone => UnprocessedSlots[i] # rxq[1]
              /\ Len(rxq) < RxSlots => UnprocessedSlots[i] # wslot
<1>1. rxq \in Seq(0 .. RxSlots - 1) /\ Len(rxq) \in Nat
  BY Unprocessed
<1>2. CASE HeadDone
  <2>1. UnprocessedSlots = Tail(rxq) /\ rxq # <<>>
    BY <1>2, Unprocessed
  <2>2. /\ Len(rxq) \in Nat \ {0} /\ Len(Tail(rxq)) = Len(rxq) - 1
        /\ \A i \in 1 .. Len(rxq) - 1 : Tail(rxq)[i] = rxq[i + 1]
    BY <1>1, <2>1, TailFacts
  <2> SUFFICES ASSUME NEW i \in 1 .. Len(rxq) - 1
               PROVE  /\ rxq[i + 1] # rxq[1]
                      /\ Len(rxq) < RxSlots => rxq[i + 1] # wslot
    BY <2>1, <2>2
  <2>3. i + 1 \in 1 .. Len(rxq) /\ 1 \in 1 .. Len(rxq) /\ i + 1 # 1
    BY <2>2
  <2> QED BY <2>3, SlotsDiffer
<1>3. CASE ~HeadDone
  <2>1. UnprocessedSlots = rxq
    BY <1>3, Unprocessed
  <2> QED BY <1>3, <2>1, SlotsDiffer
<1> QED BY <1>2, <1>3

\* What the slots hold elsewhere does not matter.
LEMMA SlotsKept ==
    ASSUME NEW slots, NEW mem, NEW new, NEW n, Numbered(slots, mem, n),
           \A i \in 1 .. Len(slots) : new[slots[i]] = mem[slots[i]]
    PROVE  /\ Numbered(slots, new, n)
           /\ DatagramsIn(slots, new) = DatagramsIn(slots, mem)
<1>1. DatagramsIn(slots, new) = DatagramsIn(slots, mem)
  BY DEF DatagramsIn
<1>2. \A i \in DatagramsIn(slots, mem) : i \in 1 .. Len(slots)
  BY DEF DatagramsIn
<1> QED BY <1>1, <1>2 DEF Numbered

LEMMA TailAppend ==
    ASSUME NEW Q, NEW q \in Seq(Q), q # <<>>, NEW e \in Q
    PROVE  Tail(Append(q, e)) = Append(Tail(q), e)
<1> DEFINE a == Append(q, e)
           t == Tail(q)
<1>1. /\ a \in Seq(Q) /\ a # <<>> /\ Len(a) = Len(q) + 1 /\ a[Len(q) + 1] = e
      /\ \A i \in 1 .. Len(q) : a[i] = q[i]
  BY AppendFacts
<1>2. /\ t \in Seq(Q) /\ Len(q) \in Nat \ {0} /\ Len(t) = Len(q) - 1
      /\ \A i \in 1 .. Len(q) - 1 : t[i] = q[i + 1]
  BY TailFacts
<1> HIDE DEF a, t
<1> DEFINE b == Tail(a)
           c == Append(t, e)
<1>3. /\ b \in Seq(Q) /\ Len(b) = Len(q) /\ \A i \in 1 .. Len(q) : b[i] = a[i + 1]
  BY <1>1, <1>2, TailFacts
<1>4. /\ c \in Seq(Q) /\ Len(c) = Len(q) /\ c[Len(q)] = e
      /\ \A i \in 1 .. Len(q) - 1 : c[i] = t[i]
  BY <1>2, AppendFacts
<1> HIDE DEF b, c
<1>5. ASSUME NEW i \in 1 .. Len(q) PROVE b[i] = c[i]
  <2>1. CASE i = Len(q)
    <3>1. b[i] = a[Len(q) + 1]
      BY <1>3, <2>1
    <3> QED BY <1>1, <1>4, <2>1, <3>1
  <2>2. CASE i # Len(q)
    <3>1. i \in 1 .. Len(q) - 1 /\ i + 1 \in 1 .. Len(q)
      BY <1>2, <2>2
    <3> QED BY <1>1, <1>2, <1>3, <1>4, <3>1
  <2> QED BY <2>1, <2>2
<1>6. b = c
  BY <1>3, <1>4, <1>5
<1> QED BY <1>6 DEF a, b, c, t

-----------------------------------------------------------------------------
\* Steps that leave the receive side alone.
LEMMA QuietStep ==
    ASSUME TypeInv, TypeInv', NumberInv, UNCHANGED mac, UNCHANGED <<g_rx, handed, nrx>>,
           HeadDone' <=> HeadDone
    PROVE  NumberInv' /\ PortStep
<1>1. rxmem' = rxmem /\ rxq' = rxq /\ g_rx' = g_rx /\ nrx' = nrx /\ handed' = handed
  BY DEF mac
<1>2. UnprocessedSlots' = UnprocessedSlots
  BY <1>1, UnprocessedBefore, UnprocessedAfter
<1>3. Waiting' = Waiting
  BY <1>1, <1>2 DEF Waiting
<1>4. NumberInv'
  BY <1>1, <1>2, <1>3 DEF NumberInv
<1>5. Count' = Count
  BY <1>1, <1>3 DEF Count
<1> QED BY <1>1, <1>4, <1>5, PortQuiet DEF Typed

\* A frame is queued behind the others: a datagram gets the next number.
LEMMA ArriveStep ==
    ASSUME TypeInv, TypeInv', NumberInv, NEW a \in Arrivals, Arrive(a[1], a[2])
    PROVE  NumberInv' /\ PortStep
<1> DEFINE Q == 0 .. RxSlots - 1
           U == UnprocessedSlots
<1>1. /\ Len(rxq) < RxSlots /\ rxq' = Append(rxq, wslot)
      /\ UNCHANGED <<g_rx, handed, cpu, txret>>
      /\ nrx' = IF a[1] = "udp" THEN nrx + 1 ELSE nrx
      /\ rxmem' = [rxmem EXCEPT
                     ![wslot] = Frame(a[1], a[2], IF a[1] = "udp" THEN nrx' ELSE 0)]
  BY DEF Arrive, mailbox
<1>2. /\ rxq \in Seq(Q) /\ U \in Seq(Q) /\ wslot \in Q /\ nrx \in Nat
      /\ rxmem \in [Q -> RxFrame \cup {NoFrame}]
  BY Unprocessed DEF TypeInv, TypeOK
<1>3. HeadDone' <=> HeadDone
  BY <1>1 DEF HeadDone
<1>4. UnprocessedSlots' = Append(U, wslot)
  <2>1. CASE HeadDone
    <3>1. UnprocessedSlots' = Tail(rxq') /\ U = Tail(rxq) /\ rxq # <<>>
      BY <1>3, <2>1, Unprocessed, UnprocessedAfter
    <3> HIDE DEF Q
    <3>2. Tail(Append(rxq, wslot)) = Append(Tail(rxq), wslot)
      BY <1>2, <3>1, TailAppend
    <3> QED BY <1>1, <3>1, <3>2
  <2>2. CASE ~HeadDone
    BY <1>1, <1>3, <2>2, UnprocessedBefore, UnprocessedAfter
  <2> QED BY <2>1, <2>2
<1>5. \A i \in 1 .. Len(U) : rxmem'[U[i]] = rxmem[U[i]]
  <2>1. \A i \in 1 .. Len(UnprocessedSlots) :
           Len(rxq) < RxSlots => UnprocessedSlots[i] # wslot
    BY UnprocessedDiffer
  <2>2. \A i \in 1 .. Len(U) : U[i] # wslot /\ U[i] \in Q
    <3> DEFINE u == UnprocessedSlots
    <3>1. u \in Seq(Q) /\ \A i \in 1 .. Len(u) : u[i] # wslot
      BY <1>1, <1>2, <2>1
    <3> HIDE DEF u, Q
    <3>2. \A i \in 1 .. Len(u) : u[i] # wslot /\ u[i] \in Q
      BY <3>1
    <3> QED BY <3>2 DEF u
  <2> QED BY <1>1, <1>2, <2>2
<1>6. /\ rxmem'[wslot].type = a[1]
      /\ a[1] = "udp" => rxmem'[wslot].id = nrx + 1
  BY <1>1, <1>2 DEF Frame
<1>7. Numbered(U, rxmem, nrx) /\ Waiting \in Nat
  BY PendingBefore DEF NumberInv
<1> HIDE DEF Q, U
<1>8. /\ a[1] # "udp" =>
           /\ Numbered(Append(U, wslot), rxmem', nrx)
           /\ DatagramsIn(Append(U, wslot), rxmem') = DatagramsIn(U, rxmem)
      /\ a[1] = "udp" =>
           /\ Numbered(Append(U, wslot), rxmem', nrx + 1)
           /\ Cardinality(DatagramsIn(Append(U, wslot), rxmem'))
                 = Cardinality(DatagramsIn(U, rxmem)) + 1
  <2>1. PICK new : new = rxmem'
    OBVIOUS
  <2>2. \A i \in 1 .. Len(U) : new[U[i]] = rxmem[U[i]]
    BY <1>5, <2>1
  <2>3. /\ new[wslot].type # "udp" =>
             /\ Numbered(Append(U, wslot), new, nrx)
             /\ DatagramsIn(Append(U, wslot), new) = DatagramsIn(U, rxmem)
        /\ new[wslot].type = "udp" /\ new[wslot].id = nrx + 1 =>
             /\ Numbered(Append(U, wslot), new, nrx + 1)
             /\ Cardinality(DatagramsIn(Append(U, wslot), new))
                   = Cardinality(DatagramsIn(U, rxmem)) + 1
    BY <1>2, <1>7, <2>2, SlotQueued
  <2> QED BY <1>6, <2>1, <2>3
<1>9. CASE a[1] # "udp"
  <2>1. nrx' = nrx /\ Waiting' = Waiting /\ Numbered(UnprocessedSlots', rxmem', nrx')
    BY <1>1, <1>4, <1>8, <1>9 DEF Waiting, U
  <2>2. NumberInv'
    BY <1>1, <2>1 DEF NumberInv
  <2>3. Count' = Count
    BY <1>1, <2>1 DEF Count
  <2> QED BY <1>1, <2>1, <2>2, <2>3, PortQuiet DEF Typed
<1>10. CASE a[1] = "udp"
  <2>1. /\ nrx' = nrx + 1 /\ Waiting' = Waiting + 1
        /\ Numbered(UnprocessedSlots', rxmem', nrx')
    BY <1>1, <1>4, <1>8, <1>10 DEF Waiting, U
  <2>2. NumberInv'
    BY <1>1, <1>2, <1>7, <2>1 DEF NumberInv
  <2>3. Count' = Count + 1
    BY <1>1, <1>7, <2>1 DEF Count
  <2> QED BY <1>1, <2>1, <2>2, <2>3, PortAccepts DEF Typed
<1> QED BY <1>9, <1>10

\* udp_start drops the frame at the head of the queue, before anything is handed over.
LEMMA StartStep ==
    ASSUME TypeInv, TypeInv', NumberInv, MailboxInv, Start
    PROVE  NumberInv' /\ PortStep
<1> DEFINE Q == 0 .. RxSlots - 1
<1>1. /\ cpu = "boot" /\ cpu' = "arp_send" /\ rxmem' = rxmem /\ nrx' = nrx
      /\ handed' = handed /\ ~g_rx'.ready
      /\ rxq' = IF rxq = <<>> THEN rxq ELSE Tail(rxq)
  BY DEF Start, udp_rx_reset
<1>2. ~HeadDone /\ ~HeadDone' /\ ~g_rx.ready /\ handed = <<>>
  BY <1>1 DEF HeadDone, MailboxInv
<1>a. UnprocessedSlots = rxq
  BY <1>2, UnprocessedBefore
<1>b. UnprocessedSlots' = rxq'
  BY <1>2, UnprocessedAfter
<1>3. UnprocessedSlots = rxq /\ UnprocessedSlots' = rxq'
  BY <1>a, <1>b
<1>5. Numbered(rxq, rxmem, nrx) /\ Waiting \in Nat /\ rxq \in Seq(Q) /\ nrx \in Nat
  BY <1>3, PendingBefore, Unprocessed DEF NumberInv
<1>c. Count = Waiting
  BY <1>2, <1>5 DEF Count
<1>d. ASSUME NumberInv' PROVE Waiting' \in Nat /\ Count' = Waiting'
  <2>1. PICK w : w = Waiting'
    OBVIOUS
  <2>2. w \in Nat
    BY <1>d, <2>1, PendingAfter
  <2>3. ~g_rx'.ready
    BY <1>1
  <2>4. Count' = w + (IF g_rx'.ready THEN 1 ELSE 0)
    BY <2>1 DEF Count
  <2>5. Count' = w + 0
    BY <2>3, <2>4, Zenon
  <2>6. Count' = w
    BY <2>2, <2>5
  <2> QED BY <2>1, <2>2, <2>6, Zenon
<1>6. CASE rxq = <<>>
  <2>1. Waiting' = Waiting /\ Numbered(UnprocessedSlots', rxmem', nrx')
    BY <1>1, <1>3, <1>5, <1>6 DEF Waiting
  <2>2. NumberInv'
    BY <1>1, <2>1 DEF NumberInv
  <2> QED BY <1>1, <1>5, <1>c, <1>d, <2>1, <2>2, PortQuiet DEF Typed
<1>7. CASE rxq # <<>>
  <2> HIDE DEF Q
  <2>1. /\ Numbered(Tail(rxq), rxmem, nrx)
        /\ rxmem[Head(rxq)].type # "udp" =>
              Cardinality(DatagramsIn(Tail(rxq), rxmem)) = Cardinality(DatagramsIn(rxq, rxmem))
        /\ rxmem[Head(rxq)].type = "udp" =>
              Cardinality(DatagramsIn(Tail(rxq), rxmem)) = Cardinality(DatagramsIn(rxq, rxmem)) - 1
    BY <1>5, <1>7, SlotTaken
  <2>2. NumberInv'
    BY <1>1, <1>3, <1>7, <2>1 DEF NumberInv
  <2>3. Waiting' = Waiting \/ Waiting' = Waiting - 1
    BY <1>1, <1>3, <1>7, <2>1 DEF Waiting
  <2>4. Waiting' \in Nat
    BY <2>2, PendingAfter
  <2>5. CASE Waiting' = Waiting
    BY <1>1, <1>c, <1>d, <2>2, <2>4, <2>5, PortQuiet DEF Typed
  <2>6. CASE Waiting' = Waiting - 1
    <3>1. Waiting > 0
      BY <1>5, <2>4, <2>6
    <3> QED BY <1>1, <1>2, <1>c, <1>d, <2>2, <2>4, <2>6, <3>1, PortLoses DEF Typed
  <2> QED BY <2>2, <2>3, <2>5, <2>6
<1> QED BY <1>6, <1>7

\* A datagram goes from the slots to the mailbox; the one it replaces there is lost,
\* which can only be before the first is handed over.
LEMMA ProcessStep ==
    ASSUME TypeInv, TypeInv', NumberInv, MailboxInv, ProcessFrame
    PROVE  NumberInv' /\ PortStep
<1> DEFINE Q == 0 .. RxSlots - 1
           frame == rxmem[rxslot]
<1>1. /\ cpu = "process" /\ rxmem' = rxmem /\ rxq' = rxq /\ nrx' = nrx /\ handed' = handed
      /\ cpu' = "clear" \/ (cpu' = "tx_poll" /\ txret' = "clear")
  BY DEF ProcessFrame, ProcessArpReply, ProcessRequest, ProcessArpRequest,
         ProcessIcmp, Answer, ProcessUdp, ProcessIgnored, FillAndSend, mac
<1>2. /\ frame.type # "udp" => g_rx' = g_rx
      /\ frame.type = "udp" /\ rx_callback => g_rx' = udp_rx_cb(frame)
  BY DEF ProcessFrame, ProcessArpReply, ProcessRequest, ProcessArpRequest,
         ProcessIcmp, Answer, ProcessUdp, ProcessIgnored
<1>3. ~HeadDone /\ HeadDone'
  BY <1>1 DEF HeadDone
<1>4. /\ UnprocessedSlots = rxq /\ UnprocessedSlots' = Tail(rxq)
      /\ rxq \in Seq(Q) /\ rxq # <<>> /\ Head(rxq) = rxslot
  <2>1. rxq # <<>> /\ Head(rxq) = rxslot
    BY <1>1 DEF TypeInv, RxSlotOwned
  <2> QED BY <1>1, <1>3, <2>1, Unprocessed, UnprocessedAfter
<1>5. Numbered(rxq, rxmem, nrx) /\ Waiting \in Nat /\ nrx \in Nat
  BY <1>4, PendingBefore DEF NumberInv
<1>6. rx_callback /\ (g_rx.ready => handed = <<>>)
  BY <1>1 DEF MailboxInv
<1> HIDE DEF Q
<1>7. /\ Numbered(Tail(rxq), rxmem, nrx)
      /\ frame.type # "udp" =>
            Cardinality(DatagramsIn(Tail(rxq), rxmem)) = Cardinality(DatagramsIn(rxq, rxmem))
      /\ frame.type = "udp" =>
            /\ Cardinality(DatagramsIn(Tail(rxq), rxmem))
                  = Cardinality(DatagramsIn(rxq, rxmem)) - 1
            /\ frame.id = nrx - Cardinality(DatagramsIn(Tail(rxq), rxmem))
  BY <1>4, <1>5, SlotTaken
<1> HIDE DEF frame
<1>8. CASE frame.type # "udp"
  <2>1. Waiting' = Waiting /\ Numbered(UnprocessedSlots', rxmem', nrx') /\ g_rx' = g_rx
    BY <1>1, <1>2, <1>4, <1>7, <1>8 DEF Waiting
  <2>2. NumberInv'
    BY <1>1, <2>1 DEF NumberInv
  <2>3. Count' = Count
    BY <2>1 DEF Count
  <2> QED BY <1>1, <2>2, <2>3, PortQuiet DEF Typed
<1>9. CASE frame.type = "udp"
  <2>1. g_rx'.ready /\ g_rx'.id = frame.id
    BY <1>2, <1>6, <1>9 DEF udp_rx_cb
  <2>2. /\ Waiting' = Waiting - 1 /\ Numbered(UnprocessedSlots', rxmem', nrx')
        /\ frame.id = nrx - Waiting'
    BY <1>1, <1>4, <1>7, <1>9 DEF Waiting
  <2>3. NumberInv'
    BY <1>1, <2>1, <2>2 DEF NumberInv
  <2>4. Count' = Waiting
    BY <1>5, <2>1, <2>2 DEF Count
  <2>5. CASE g_rx.ready
    <3>1. Count = Waiting + 1
      BY <2>5 DEF Count
    <3>2. Count > 0 /\ Count' = Count - 1
      BY <1>5, <2>4, <3>1
    <3> QED BY <1>1, <1>6, <2>3, <2>5, <3>2, PortLoses DEF Typed
  <2>6. CASE ~g_rx.ready
    <3>1. Count' = Count
      BY <1>5, <2>4, <2>6 DEF Count
    <3> QED BY <1>1, <2>3, <3>1, PortQuiet DEF Typed
  <2> QED BY <2>5, <2>6
<1> QED BY <1>8, <1>9

\* The slot of the processed frame is freed: it was no longer counted.
LEMMA EndStep ==
    ASSUME TypeInv, TypeInv', NumberInv, UdpServiceEnd
    PROVE  NumberInv' /\ PortStep
<1> DEFINE U == UnprocessedSlots
<1>1. /\ cpu = "clear" /\ cpu' = svcret /\ svcret \in {"arp_check", "recv_check"}
      /\ rxmem' = [rxmem EXCEPT ![rxslot] = NoFrame] /\ rxq' = Tail(rxq)
      /\ UNCHANGED <<g_rx, handed, nrx>>
  BY DEF UdpServiceEnd, mailbox, TypeInv, TypeOK
<1>2. HeadDone /\ ~HeadDone'
  BY <1>1 DEF HeadDone
<1>3. /\ U = Tail(rxq) /\ UnprocessedSlots' = U
      /\ rxq \in Seq(0 .. RxSlots - 1) /\ U \in Seq(0 .. RxSlots - 1)
      /\ rxslot = rxq[1]
  <2>1. rxq # <<>> /\ Head(rxq) = rxslot
    BY <1>1 DEF TypeInv, RxSlotOwned
  <2>2. rxq \in Seq(0 .. RxSlots - 1) /\ U \in Seq(0 .. RxSlots - 1) /\ U = Tail(rxq)
    BY <1>2, Unprocessed
  <2>3. Head(rxq) = rxq[1]
    BY <2>1, <2>2, TailFacts
  <2> QED BY <1>1, <1>2, <2>1, <2>2, <2>3, UnprocessedAfter
<1>4. \A i \in 1 .. Len(U) : rxmem'[U[i]] = rxmem[U[i]]
  <2>1. \A i \in 1 .. Len(UnprocessedSlots) : HeadDone => UnprocessedSlots[i] # rxq[1]
    BY UnprocessedDiffer
  <2>2. \A i \in 1 .. Len(U) : U[i] # rxslot /\ U[i] \in 0 .. RxSlots - 1
    <3> DEFINE u == UnprocessedSlots
               Q == 0 .. RxSlots - 1
    <3>1. u \in Seq(Q) /\ \A i \in 1 .. Len(u) : u[i] # rxslot
      BY <1>2, <1>3, <2>1
    <3> HIDE DEF u, Q
    <3>2. \A i \in 1 .. Len(u) : u[i] # rxslot /\ u[i] \in Q
      BY <3>1
    <3> QED BY <3>2 DEF u, Q
  <2>3. rxmem \in [0 .. RxSlots - 1 -> RxFrame \cup {NoFrame}]
    BY DEF TypeInv, TypeOK
  <2> QED BY <1>1, <2>2, <2>3
<1>5. Numbered(U, rxmem, nrx)
  BY DEF NumberInv
<1> HIDE DEF U
<1>6. Numbered(U, rxmem', nrx) /\ DatagramsIn(U, rxmem') = DatagramsIn(U, rxmem)
  BY <1>4, <1>5, SlotsKept
<1>7. Waiting' = Waiting /\ Numbered(UnprocessedSlots', rxmem', nrx')
  BY <1>1, <1>3, <1>6 DEF Waiting, U
<1>8. NumberInv'
  BY <1>1, <1>7 DEF NumberInv
<1>9. Count' = Count
  BY <1>1, <1>7 DEF Count
<1> QED BY <1>1, <1>8, <1>9, PortQuiet DEF Typed

\* dtls_io_recv hands over what is in the mailbox: the oldest the port holds.
LEMMA HandOverStep ==
    ASSUME TypeInv, TypeInv', NumberInv, RecvCheck, g_rx.ready
    PROVE  NumberInv' /\ PortStep
<1>1. /\ cpu = "recv_check" /\ cpu' = "app" /\ UNCHANGED mac /\ nrx' = nrx
      /\ handed' = Append(handed, g_rx.id) /\ ~g_rx'.ready
  BY DEF RecvCheck, udp_rx_reset
<1>2. rxmem' = rxmem /\ rxq' = rxq /\ ~HeadDone /\ ~HeadDone'
  BY <1>1 DEF HeadDone, mac
<1>3. UnprocessedSlots' = UnprocessedSlots
  BY <1>2, UnprocessedBefore, UnprocessedAfter
<1>4. Waiting' = Waiting /\ Waiting \in Nat /\ nrx \in Nat
  BY <1>2, <1>3, PendingBefore DEF Waiting
<1>5. NumberInv'
  BY <1>1, <1>2, <1>3 DEF NumberInv
<1>6. Count = Waiting + 1 /\ Count' = Waiting /\ g_rx.id = nrx - Waiting
  BY <1>1, <1>4 DEF Count, NumberInv
<1>7. Count > 0 /\ Count' = Count - 1 /\ g_rx.id = nrx - (Count - 1)
  BY <1>4, <1>6
<1>8. PICK id : id = g_rx.id
  OBVIOUS
<1> QED BY <1>1, <1>5, <1>7, <1>8, PortHandsOver DEF Typed

\* Nothing else changes what the port holds or has handed over.
LEMMA NumberStep ==
    ASSUME TypeInv, TypeInv', NumberInv, MailboxInv, [Next]_vars
    PROVE  NumberInv' /\ PortStep
<1> DEFINE Quiet == /\ UNCHANGED mac /\ UNCHANGED <<g_rx, handed, nrx>>
                    /\ HeadDone' <=> HeadDone
<1>q. Quiet => NumberInv' /\ PortStep
  BY QuietStep
<1> HIDE DEF Quiet
<1>1. ASSUME NEW a \in Arrivals, Arrive(a[1], a[2]) PROVE NumberInv' /\ PortStep
  BY <1>1, ArriveStep
<1>2. CASE Start
  BY <1>2, StartStep
<1>3. CASE ProcessFrame
  BY <1>3, ProcessStep
<1>4. CASE UdpServiceEnd
  BY <1>4, EndStep
<1>5. CASE RecvCheck
  <2>1. CASE g_rx.ready
    BY <1>5, <2>1, HandOverStep
  <2>2. CASE ~g_rx.ready
    <3>1. Quiet
      BY <1>5, <2>2 DEF RecvCheck, mailbox, HeadDone, Quiet
    <3> QED BY <1>q, <3>1
  <2> QED BY <2>1, <2>2
<1>6. CASE \/ UdpServiceIdle \/ UdpServiceBegin \/ ArpSend \/ ArpCheck \/ Transmit
           \/ SendPacketStart \/ SendPacketWait \/ DtlsIoSend \/ DtlsIoRecv \/ Finish
  <2>1. UNCHANGED mac /\ UNCHANGED <<g_rx, handed, nrx>>
    BY <1>6 DEF UdpServiceIdle, UdpServiceBegin, ArpSend, ArpCheck, Transmit, SendPacketStart,
       SendPacketWait, DtlsIoSend, DtlsIoRecv, Finish, mailbox
  <2>2. HeadDone' <=> HeadDone
    BY <1>6 DEF UdpServiceIdle, UdpServiceBegin, ArpSend, ArpCheck, Transmit, SendPacketStart,
       SendPacketWait, DtlsIoSend, UdpSend, DtlsIoRecv, Finish, FillAndSend, CheckAfter,
       TypeInv, TypeOK, HeadDone
  <2> QED BY <1>q, <2>1, <2>2 DEF Quiet
<1>7. CASE UNCHANGED vars
  <2>1. Quiet
    BY <1>7 DEF vars, mailbox, HeadDone, Quiet
  <2> QED BY <1>q, <2>1
<1> QED BY <1>1, <1>2, <1>3, <1>4, <1>5, <1>6, <1>7 DEF Next, Mac, InCall

LEMMA MailboxStep ==
    ASSUME TypeInv, MailboxInv, [Next]_vars
    PROVE  MailboxInv'
<1> USE DEF MailboxInv, Resolved
<1>a. cpu \in CpuStates /\ txret \in {"arp_poll", "clear", "app"}
      /\ svcret \in {"arp_check", "recv_check"}
  BY DEF TypeInv, TypeOK
<1>1. ASSUME NEW a \in Arrivals, Arrive(a[1], a[2]) PROVE MailboxInv'
  BY <1>1 DEF Arrive, mailbox
<1>2. CASE Transmit \/ UdpServiceIdle \/ UdpServiceBegin \/ UdpServiceEnd
  BY <1>2, <1>a DEF Transmit, UdpServiceIdle, UdpServiceBegin, UdpServiceEnd, CheckAfter,
     mailbox
<1>3. CASE ProcessFrame
  <2>1. /\ cpu = "process" /\ rx_callback' = rx_callback /\ handed' = handed
        /\ svcret' = svcret
        /\ \/ cpu' = "clear"
           \/ cpu' = "tx_poll" /\ txret' = "clear" /\ g_rx' = g_rx
    BY <1>3 DEF ProcessFrame, ProcessArpReply, ProcessRequest, ProcessArpRequest,
       ProcessIcmp, Answer, ProcessUdp, ProcessIgnored, FillAndSend
  <2> QED BY <2>1
<1>4. CASE Start \/ ArpSend \/ ArpCheck
  BY <1>4, <1>a DEF Start, ArpSend, ArpCheck, FillAndSend, udp_rx_reset, mailbox
<1>5. CASE SendPacketStart \/ SendPacketWait
  BY <1>5, <1>a DEF SendPacketStart, SendPacketWait, mailbox
<1>6. CASE DtlsIoSend \/ DtlsIoRecv \/ Finish
  BY <1>6 DEF DtlsIoSend, UdpSend, FillAndSend, DtlsIoRecv, Finish, mailbox
<1>7. CASE RecvCheck
  BY <1>7 DEF RecvCheck, udp_rx_reset, mailbox
<1>8. CASE UNCHANGED vars
  BY <1>8 DEF vars, mailbox
<1> QED BY <1>1, <1>2, <1>3, <1>4, <1>5, <1>6, <1>7, <1>8 DEF Next, Mac, InCall

\* The receive path is a FIFO of at most RxSlots + 1 datagrams: none is handed to
\* wolfSSL twice or out of order and, from the first one handed over on, none the MAC
\* accepted is lost, though udp_rx_cb overwrites the mailbox without a check.  Every
\* step of the MAC, the driver and the glue is a step of the abstract port.
THEOREM PortRefinement == Spec => PortSpec
<1>1. Init => PortInv /\ Port!Init
  <2> SUFFICES ASSUME Init PROVE PortInv /\ Port!Init
    OBVIOUS
  <2>1. /\ rxq = <<>> /\ ~g_rx.ready /\ handed = <<>> /\ nrx = 0 /\ cpu = "boot"
    BY DEF Init
  <2>2. MailboxInv
    BY <2>1 DEF MailboxInv
  <2>3. UnprocessedSlots = <<>>
    BY <2>1 DEF UnprocessedSlots
  <2>4. DatagramsIn(UnprocessedSlots, rxmem) = {}
    BY <2>3 DEF DatagramsIn
  <2>5. NumberInv
    BY <2>1, <2>4 DEF NumberInv, Numbered
  <2>6. Waiting = 0
    BY <2>4, FS_EmptySet DEF Waiting
  <2>7. Count = 0
    BY <2>1, <2>6 DEF Count
  <2>8. Pending = <<>>
    <3>1. TypeInv
      BY TypeInvInit
    <3>2. Pending = Run(nrx, Count)
      BY <2>5, <3>1, PendingBefore
    <3> QED BY <2>7, <3>2 DEF Run
  <2> QED BY <2>1, <2>2, <2>5, <2>8 DEF PortInv, Port!Init
<1>2. TypeInv /\ TypeInv' /\ PortInv /\ [Next]_vars => PortInv' /\ [Port!Next]_(Port!portVars)
  BY NumberStep, MailboxStep DEF PortInv, PortStep
<1> QED BY <1>1, <1>2, TypeInvariant, PTL DEF Spec, PortSpec, Port!Spec

=============================================================================
