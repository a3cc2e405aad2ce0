----------------------------- MODULE LiteEthUdp -----------------------------
(***************************************************************************)
(* The client's datagram path: the polled Ethernet/UDP driver (libliteeth  *)
(* udp.c), the firmware's glue above it (boot/main.c: udp_rx_cb,           *)
(* dtls_io_recv, dtls_io_send) and, as an external component, the LiteEth  *)
(* MAC below it, which runs concurrently with the CPU.                     *)
(*                                                                         *)
(* The CPU is one thread; cpu says where it is, txret and svcret are the   *)
(* return addresses of send_packet and udp_service.  wolfSSL is the caller *)
(* at cpu = "app": it may send, receive or end the demo at any time.       *)
(*                                                                         *)
(* Frames are abstracted to their kind, the neighbour they come from or go *)
(* to, and a serial number that tells UDP payloads apart.  A neighbour     *)
(* stands for its IP and its MAC address alike.                            *)
(***************************************************************************)
EXTENDS Integers, FiniteSets, Sequences

CONSTANTS
    Hosts,        \* neighbours on the link
    Arrivals,     \* <<kind, neighbour>> of the frames the link brings
    Remote,       \* kRemoteIp, the DTLS server
    NoHost,       \* the all-zero address of an empty ARP cache
    Broadcast,    \* the Ethernet broadcast address
    RxSlots,      \* ETHMAC_RX_SLOTS
    TxSlots,      \* ETHMAC_TX_SLOTS
    ReaderDepth,  \* frames the MAC's transmit queue accepts before "not ready"
    TxPolls,      \* send_packet: 1000000 polls of reader_ready
    ArpTries,     \* udp_arp_resolve: 8 requests
    ArpPolls,     \* udp_arp_resolve: 100000 polls per request
    RecvPolls,    \* DTLS_IO_TIMEOUT_LOOPS
    MaxDatagrams, \* bound: datagrams the MAC accepts for the client port
    MaxSends      \* bound: datagrams wolfSSL sends

RxKinds == {"arp_reply", "arp_request", "udp", "icmp_echo", "other"}

ASSUME SlotsAssumption == /\ RxSlots \in Nat \ {0}
                          /\ TxSlots \in Nat \ {0}
                          /\ ReaderDepth \in Nat \ {0}
ASSUME HostsAssumption == /\ Remote \in Hosts
                          /\ NoHost \notin Hosts
                          /\ Broadcast \notin Hosts
                          /\ Arrivals \subseteq RxKinds \X Hosts
ASSUME LoopsAssumption == /\ TxPolls \in Nat /\ RecvPolls \in Nat \ {0}
                          /\ ArpTries \in Nat \ {0} /\ ArpPolls \in Nat \ {0}
ASSUME BoundsAssumption == MaxDatagrams \in Nat /\ MaxSends \in Nat

VARIABLES
    rxmem, wslot, rxq,  \* MAC: receive slots, next slot to fill, filled slots
    cmdq,               \* MAC: transmit commands not finished
    txmem, txslot,      \* driver: transmit slots, slot the next frame is built in
    rxslot,             \* driver: slot being processed
    cached_ip, cached_mac, rx_callback,
    cpu, txret, svcret,
    wait, tries, polls, \* loop counters, zero outside their loop
    g_rx,               \* main.c: the one-datagram mailbox
    handed,             \* datagrams dtls_io_recv gave to wolfSSL, in order
    nrx, ntx            \* datagrams accepted by the MAC, sends so far

mac     == <<rxmem, wslot, rxq>>
arp     == <<cached_ip, cached_mac>>
counts  == <<wait, tries, polls>>
mailbox == <<g_rx, handed>>
vars == <<mac, cmdq, txmem, txslot, rxslot, arp, rx_callback, cpu, txret,
          svcret, counts, mailbox, nrx, ntx>>

RxFrame == [type : RxKinds, host : Hosts, id : Nat]
TxFrame == [type : {"arp_request", "arp_reply", "udp", "icmp_reply"},
            host : Hosts \cup {Broadcast}, id : Nat]
NoFrame == [type |-> "none", host |-> NoHost, id |-> 0]

Frame(type, host, id) == [type |-> type, host |-> host, id |-> id]

CpuStates == {"boot", "arp_send", "arp_poll", "arp_check", "app", "recv_poll",
              "recv_check", "process", "clear", "tx_poll", "failed", "stopped"}

TypeOK ==
    /\ rxmem \in [0 .. RxSlots - 1 -> RxFrame \cup {NoFrame}]
    /\ wslot \in 0 .. RxSlots - 1
    /\ rxq \in Seq(0 .. RxSlots - 1) /\ Len(rxq) <= RxSlots
    /\ cmdq \in Seq([slot : 0 .. TxSlots - 1, frame : TxFrame])
    /\ Len(cmdq) <= ReaderDepth
    /\ txmem \in [0 .. TxSlots - 1 -> TxFrame \cup {NoFrame}]
    /\ txslot \in 0 .. TxSlots - 1
    /\ rxslot \in 0 .. RxSlots - 1
    /\ cached_ip \in Hosts \cup {NoHost}
    /\ cached_mac \in Hosts \cup {NoHost}
    /\ rx_callback \in BOOLEAN
    /\ cpu \in CpuStates
    /\ txret \in {"arp_poll", "clear", "app"}
    /\ svcret \in {"arp_check", "recv_check"}
    /\ wait \in Nat /\ tries \in Nat /\ polls \in Nat
    /\ g_rx \in [ready : BOOLEAN, id : Nat]
    /\ handed \in Seq(Nat)
    /\ nrx \in Nat /\ ntx \in Nat

\* Power-on: the MAC is idle, the driver's globals are zero.
Init ==
    /\ rxmem = [s \in 0 .. RxSlots - 1 |-> NoFrame]
    /\ wslot = 0 /\ rxq = <<>> /\ cmdq = <<>>
    /\ txmem = [s \in 0 .. TxSlots - 1 |-> NoFrame]
    /\ txslot = 0 /\ rxslot = 0
    /\ cached_ip = NoHost /\ cached_mac = NoHost /\ rx_callback = FALSE
    /\ cpu = "boot" /\ txret = "app" /\ svcret = "arp_check"
    /\ wait = 0 /\ tries = 0 /\ polls = 0
    /\ g_rx = [ready |-> FALSE, id |-> 0]
    /\ handed = <<>> /\ nrx = 0 /\ ntx = 0

-----------------------------------------------------------------------------
(* Small steps the actions share.  An operator marked "mutant" is a broken  *)
(* form of the one after it and is used by no action.                       *)

\* mutants: the index runs off the ring; the index is not advanced.
AfterSlotUnwrapped(s, n) == s + 1
AfterSlotStuck(s, n) == s

\* The slot after s on a ring of n.
AfterSlot(s, n) == (s + 1) % n

\* mutant: the loop forgets to count.
PolledStuck(count) == count

\* A poll is counted.
Polled(count) == count + 1

\* mutant: the mailbox keeps its datagram.
udp_rx_reset_kept == g_rx

udp_rx_reset == [ready |-> FALSE, id |-> 0]

-----------------------------------------------------------------------------
(* The LiteEth MAC (external).                                             *)

\* A frame comes in and a receive slot is free: it is stored and queued.  With
\* every slot taken the MAC drops the frame, which changes nothing here.
Arrive(type, host) ==
    /\ Len(rxq) < RxSlots
    /\ type = "udp" => nrx < MaxDatagrams
    /\ nrx' = IF type = "udp" THEN nrx + 1 ELSE nrx
    /\ rxmem' = [rxmem EXCEPT
                   ![wslot] = Frame(type, host, IF type = "udp" THEN nrx' ELSE 0)]
    /\ rxq' = Append(rxq, wslot)
    /\ wslot' = AfterSlot(wslot, RxSlots)
    /\ UNCHANGED <<cmdq, txmem, txslot, rxslot, arp, rx_callback, cpu, txret,
                   svcret, counts, mailbox, ntx>>

\* The frame at the head of the transmit queue is on the wire, its slot free.
Transmit ==
    /\ cmdq # <<>>
    /\ cmdq' = Tail(cmdq)
    /\ UNCHANGED <<mac, txmem, txslot, rxslot, arp, rx_callback, cpu, txret,
                   svcret, counts, mailbox, nrx, ntx>>

-----------------------------------------------------------------------------
(* Sending.                                                                *)

\* A caller builds a frame in the current transmit slot and enters send_packet.
FillAndSend(frame, return) ==
    /\ txmem' = [txmem EXCEPT ![txslot] = frame]
    /\ wait' = 0
    /\ cpu' = "tx_poll"
    /\ txret' = return

\* send_packet: the reader is ready; the slot is queued and the driver moves on.
SendPacketStart ==
    /\ cpu = "tx_poll"
    /\ Len(cmdq) < ReaderDepth
    /\ cmdq' = Append(cmdq, [slot |-> txslot, frame |-> txmem[txslot]])
    /\ txslot' = AfterSlot(txslot, TxSlots)
    /\ cpu' = txret
    /\ wait' = 0
    /\ UNCHANGED <<mac, txmem, rxslot, arp, rx_callback, txret, svcret, tries,
                   polls, mailbox, nrx, ntx>>

\* send_packet: the reader is not ready; poll again, or give up and return with
\* the frame unsent and the slot unchanged.
SendPacketWait ==
    /\ cpu = "tx_poll"
    /\ Len(cmdq) = ReaderDepth
    /\ IF Polled(wait) > TxPolls
         THEN cpu' = txret /\ wait' = 0
         ELSE cpu' = "tx_poll" /\ wait' = Polled(wait)
    /\ UNCHANGED <<mac, cmdq, txmem, txslot, rxslot, arp, rx_callback, txret,
                   svcret, tries, polls, mailbox, nrx, ntx>>

-----------------------------------------------------------------------------
(* Receiving: udp_service and the frame handlers.                          *)

CheckAfter(loop) == IF loop = "arp_poll" THEN "arp_check" ELSE "recv_check"

\* udp_service with no frame pending returns to its loop.
UdpServiceIdle ==
    /\ cpu \in {"arp_poll", "recv_poll"}
    /\ rxq = <<>>
    /\ cpu' = CheckAfter(cpu)
    /\ UNCHANGED <<mac, cmdq, txmem, txslot, rxslot, arp, rx_callback, txret,
                   svcret, counts, mailbox, nrx, ntx>>

\* mutant: the pending event is cleared when the slot is read.
UdpServiceBeginCleared ==
    /\ cpu \in {"arp_poll", "recv_poll"}
    /\ rxq # <<>>
    /\ rxslot' = Head(rxq)
    /\ rxq' = Tail(rxq)
    /\ svcret' = CheckAfter(cpu)
    /\ cpu' = "process"
    /\ UNCHANGED <<rxmem, wslot, cmdq, txmem, txslot, arp, rx_callback, txret,
                   counts, mailbox, nrx, ntx>>

\* udp_service with a frame pending reads its slot and processes it.
UdpServiceBegin ==
    /\ cpu \in {"arp_poll", "recv_poll"}
    /\ rxq # <<>>
    /\ rxslot' = Head(rxq)
    /\ svcret' = CheckAfter(cpu)
    /\ cpu' = "process"
    /\ UNCHANGED <<mac, cmdq, txmem, txslot, arp, rx_callback, txret, counts,
                   mailbox, nrx, ntx>>

\* mutant: any neighbour's reply fills the cache.
ForCachedIpUnchecked(frame) == TRUE

ForCachedIp(frame) == frame.host = cached_ip

\* process_arp, reply: the cache entry is filled only for the address asked for.
ProcessArpReply(frame) ==
    /\ frame.type = "arp_reply"
    /\ cached_mac' = IF ForCachedIp(frame) THEN frame.host ELSE cached_mac
    /\ cpu' = "clear"
    /\ UNCHANGED <<cached_ip, txmem, txret, wait, g_rx>>

\* The sender is answered with a frame built in the current transmit slot.
Answer(frame, question, answer) ==
    /\ frame.type = question
    /\ FillAndSend(Frame(answer, frame.host, 0), "clear")
    /\ UNCHANGED <<arp, g_rx>>

\* process_arp, request for this host.
ProcessArpRequest(frame) == Answer(frame, "arp_request", "arp_reply")

\* process_icmp, echo request (an echo reply is printed and ignored).
ProcessIcmp(frame) == Answer(frame, "icmp_echo", "icmp_reply")

ProcessRequest(frame) == ProcessArpRequest(frame) \/ ProcessIcmp(frame)

\* main.c's callback: the mailbox is overwritten, full or not.
udp_rx_cb(frame) == [ready |-> TRUE, id |-> frame.id]

\* process_udp hands a datagram to the callback, if one is set.
ProcessUdp(frame) ==
    /\ frame.type = "udp"
    /\ g_rx' = IF rx_callback THEN udp_rx_cb(frame) ELSE g_rx
    /\ cpu' = "clear"
    /\ UNCHANGED <<arp, txmem, txret, wait>>

\* Every early return of process_frame and its handlers.
ProcessIgnored(frame) ==
    /\ frame.type = "other"
    /\ cpu' = "clear"
    /\ UNCHANGED <<arp, txmem, txret, wait, g_rx>>

ProcessFrame ==
    /\ cpu = "process"
    /\ \/ ProcessArpReply(rxmem[rxslot])
       \/ ProcessRequest(rxmem[rxslot])
       \/ ProcessUdp(rxmem[rxslot])
       \/ ProcessIgnored(rxmem[rxslot])
    /\ UNCHANGED <<mac, cmdq, txslot, rxslot, rx_callback, svcret, tries, polls,
                   handed, nrx, ntx>>

\* udp_service clears the pending event, which frees the slot (its contents mean
\* nothing from now on), and returns.
UdpServiceEnd ==
    /\ cpu = "clear"
    /\ rxmem' = [rxmem EXCEPT ![rxslot] = NoFrame]
    /\ rxq' = Tail(rxq)
    /\ cpu' = svcret
    /\ UNCHANGED <<wslot, cmdq, txmem, txslot, rxslot, arp, rx_callback,
                   txret, svcret, counts, mailbox, nrx, ntx>>

-----------------------------------------------------------------------------
(* udp_start and udp_arp_resolve, as run_dtls13_demo calls them.           *)

\* eth_init, udp_start (whose write to the pending event drops one queued
\* frame), udp_set_callback, udp_rx_reset, and the head of udp_arp_resolve.
Start ==
    /\ cpu = "boot"
    /\ rxq' = IF rxq = <<>> THEN rxq ELSE Tail(rxq)
    /\ txslot' = 0 /\ rxslot' = 0
    /\ cached_ip' = Remote /\ cached_mac' = NoHost
    /\ rx_callback' = TRUE
    /\ g_rx' = udp_rx_reset
    /\ tries' = 0
    /\ cpu' = "arp_send"
    /\ UNCHANGED <<rxmem, wslot, cmdq, txmem, txret, svcret, wait, polls,
                   handed, nrx, ntx>>

ArpSend ==
    /\ cpu = "arp_send"
    /\ FillAndSend(Frame("arp_request", Broadcast, 0), "arp_poll")
    /\ UNCHANGED <<mac, cmdq, txslot, rxslot, arp, rx_callback, svcret, tries,
                   polls, mailbox, nrx, ntx>>

\* After each poll: resolved, poll again, ask again, or fail the demo.
ArpCheck ==
    /\ cpu = "arp_check"
    /\ \/ /\ cached_mac # NoHost
          /\ cpu' = "app"
          /\ tries' = 0 /\ polls' = 0
          /\ UNCHANGED rx_callback
       \/ /\ cached_mac = NoHost /\ Polled(polls) < ArpPolls
          /\ polls' = Polled(polls)
          /\ cpu' = "arp_poll"
          /\ UNCHANGED <<tries, rx_callback>>
       \/ /\ cached_mac = NoHost /\ Polled(polls) >= ArpPolls /\ tries + 1 < ArpTries
          /\ tries' = tries + 1 /\ polls' = 0
          /\ cpu' = "arp_send"
          /\ UNCHANGED rx_callback
       \/ /\ cached_mac = NoHost /\ Polled(polls) >= ArpPolls /\ tries + 1 >= ArpTries
          /\ rx_callback' = FALSE
          /\ cpu' = "failed"
          /\ tries' = 0 /\ polls' = 0
    /\ UNCHANGED <<mac, cmdq, txmem, txslot, rxslot, arp, txret, svcret, wait,
                   mailbox, nrx, ntx>>

-----------------------------------------------------------------------------
(* The wolfSSL I/O callbacks.                                              *)

\* udp_send: with the peer's address unknown it fails, and the slot the payload was
\* copied into holds no frame.
UdpSend(id) ==
    \/ /\ cached_mac = NoHost
       /\ txmem' = [txmem EXCEPT ![txslot] = NoFrame]
       /\ UNCHANGED <<wait, cpu, txret>>
    \/ /\ cached_mac # NoHost
       /\ FillAndSend(Frame("udp", cached_mac, id), "app")

\* dtls_io_send copies the payload into the transmit slot and calls udp_send.  (A
\* size out of range is refused before anything changes.)
DtlsIoSend ==
    /\ cpu = "app"
    /\ ntx < MaxSends
    /\ ntx' = ntx + 1
    /\ UdpSend(ntx')
    /\ UNCHANGED <<mac, cmdq, txslot, rxslot, arp, rx_callback, svcret, tries,
                   polls, mailbox, nrx>>

DtlsIoRecv ==
    /\ cpu = "app"
    /\ cpu' = "recv_poll"
    /\ UNCHANGED <<mac, cmdq, txmem, txslot, rxslot, arp, rx_callback, txret,
                   svcret, counts, mailbox, nrx, ntx>>

\* After each poll: hand the mailbox over and reset it, poll again, or time out
\* (what wolfSSL retransmits then is a DtlsIoSend).
RecvCheck ==
    /\ cpu = "recv_check"
    /\ \/ /\ g_rx.ready
          /\ handed' = Append(handed, g_rx.id)
          /\ g_rx' = udp_rx_reset
          /\ cpu' = "app"
          /\ polls' = 0
       \/ /\ ~g_rx.ready /\ Polled(polls) < RecvPolls
          /\ polls' = Polled(polls)
          /\ cpu' = "recv_poll"
          /\ UNCHANGED mailbox
       \/ /\ ~g_rx.ready /\ Polled(polls) >= RecvPolls
          /\ cpu' = "app"
          /\ polls' = 0
          /\ UNCHANGED mailbox
    /\ UNCHANGED <<mac, cmdq, txmem, txslot, rxslot, arp, rx_callback, txret,
                   svcret, wait, tries, nrx, ntx>>

\* The demo returns, with success or not: the callback is unregistered.
Finish ==
    /\ cpu = "app"
    /\ rx_callback' = FALSE
    /\ cpu' = "stopped"
    /\ UNCHANGED <<mac, cmdq, txmem, txslot, rxslot, arp, txret, svcret, counts,
                   mailbox, nrx, ntx>>

-----------------------------------------------------------------------------
Mac == \/ \E a \in Arrivals : Arrive(a[1], a[2])
       \/ Transmit

\* What the CPU does inside a call; it never stops in the middle of one.
InCall == \/ Start \/ ArpSend \/ ArpCheck \/ RecvCheck
          \/ SendPacketStart \/ SendPacketWait
          \/ UdpServiceIdle \/ UdpServiceBegin \/ ProcessFrame \/ UdpServiceEnd

Next == Mac \/ InCall \/ DtlsIoSend \/ DtlsIoRecv \/ Finish

Spec == Init /\ [][Next]_vars

\* The CPU keeps executing instructions.  Nothing is assumed of the MAC, of the
\* link or of what wolfSSL chooses to do.
FairSpec == Spec /\ WF_vars(InCall)

-----------------------------------------------------------------------------
(* Properties.                                                             *)

\* A frame given to the MAC is transmitted as it was when send_packet queued it:
\* the driver never builds a new frame in a slot the MAC has not finished with.
\* The callers fill the slot before send_packet's wait for the reader, so this
\* rests on a slot that is in no queued command being the current one.
TxIntact == \A i \in 1 .. Len(cmdq) : txmem[cmdq[i].slot] = cmdq[i].frame

\* "wait buffer to be available" (udp.c:155): by the time a frame stands in the
\* current slot, waiting for the reader, no queued command uses that slot.
BufferAvailable ==
    cpu = "tx_poll" => \A i \in 1 .. Len(cmdq) : cmdq[i].slot # txslot

\* The slot a handler reads, from udp_service's read of the slot number to its
\* write of the pending event, is one the MAC may not fill.
RxSlotOwned ==
    (cpu \in {"process", "clear"} \/ (cpu = "tx_poll" /\ txret = "clear"))
        => rxq # <<>> /\ Head(rxq) = rxslot

\* Datagrams go to the server's own MAC address: while the client runs, the
\* one-entry ARP cache holds the server and a reply of another neighbour, at any
\* time, does not change where queued datagrams go.
AddressedToServer ==
    /\ cpu \in {"app", "recv_poll", "recv_check"} => cached_mac = Remote
    /\ \A i \in 1 .. Len(cmdq) :
          cmdq[i].frame.type = "udp" => cmdq[i].frame.host = Remote

\* The receive slots the driver has still to process, the places of the datagrams
\* among them, and the numbers of those datagrams in order.
UnprocessedSlots ==
    IF cpu = "clear" \/ (cpu = "tx_poll" /\ txret = "clear")
      THEN SubSeq(rxq, 2, Len(rxq)) ELSE rxq
DatagramsIn(slots, mem) == {i \in 1 .. Len(slots) : mem[slots[i]].type = "udp"}
Place(S, n) == CHOOSE i \in S : Cardinality({j \in S : j <= i}) = n
QueuedDatagrams ==
    LET datagrams == DatagramsIn(UnprocessedSlots, rxmem)
    IN  [n \in 1 .. Cardinality(datagrams) |->
            rxmem[UnprocessedSlots[Place(datagrams, n)]].id]
Pending == (IF g_rx.ready THEN <<g_rx.id>> ELSE <<>>) \o QueuedDatagrams

\* The receive path is a FIFO of at most RxSlots + 1 datagrams: none is handed
\* to wolfSSL twice or out of order and, from the first one handed over on, none
\* the MAC accepted is lost, though the mailbox is overwritten without a check.
Port == INSTANCE DatagramPort
          WITH queue <- Pending, delivered <- handed, accepted <- nrx,
               Capacity <- RxSlots + 1
PortSpec == Port!Spec

\* Every call returns, whatever the MAC and the link do: ARP resolution, sends
\* and receives all give up after their bounded number of polls.
CallsReturn ==
    cpu \notin {"app", "failed", "stopped"} ~> cpu \in {"app", "failed", "stopped"}

=============================================================================
