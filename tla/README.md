# DTLS 1.3 on a LiteX SoC: the verification project

The repository runs a DTLS 1.3 client (wolfSSL, Dilithium certificates) as bare-metal
firmware on a simulated LiteX RISC-V SoC, against a server on the host. This directory
holds TLA+ models of the parts that carry its behaviour, TLC runs that check them on small
instances, and TLAPS proofs of their main invariants. Every definition is translated from
the source; `PROJECT.json` names the lines.

## 1. Inventory

    firmware: one thread, interrupts only for the console           host
    ---------------------------------------------------------      ----------------------
    main.c run_dtls13_demo                                          dtls13_*_server.c main
      | wolfSSL_connect / write / read                                | accept / read / write
    wolfSSL DTLS 1.3 (boot/src/dtls13.c, tls13.c, internal.c)       wolfSSL (same sources)
      | dtls_io_send        ^ dtls_io_recv                            | bio_send  ^ bio_recv
    libliteeth udp.c: udp_send, udp_service, ARP, ICMP              non-blocking UDP socket
      | transmit slots      ^ receive slots                           |           ^
    LiteEth MAC  <------------------- link: loss, reordering ---------+-----------+

| Component | State | Operations | What is hard | What makes it correct |
|---|---|---|---|---|
| Datagram driver (`libliteeth/udp.c`) and glue (`main.c` 179-298) | transmit and receive slot numbers and buffers, one-entry ARP cache, callback, one-datagram mailbox | `udp_start`, `udp_arp_resolve`, `udp_send`, `udp_service` and the ARP, ICMP and UDP handlers, `udp_rx_cb`, `dtls_io_recv`, `dtls_io_send` | The MAC runs concurrently with polling loops; handlers transmit while a receive slot is pending; bounded waits give up silently | no slot touched by both sides; datagrams go to the server; a FIFO of datagrams to wolfSSL; every call returns |
| DTLS 1.3 handshake reliability (`boot/src/dtls13.c`, with the state machines of `tls13.c` and the timers of `internal.c`, `ssl.c`) | per side: next message number, out-of-order messages, unacknowledged records, records to acknowledge, flags, epoch, timer | `Dtls13HandshakeRecv`, `Dtls13HandshakeSend`, ACK send and receive, `Dtls13DoScheduledWork`, `Dtls13RtxTimeout`, `connect`, `accept` | loss, duplication, reordering; acknowledgements that overtake data; retransmission across epochs; the stateless first round | in-order exactly-once processing; nothing forgotten before it arrived; the client completes only after the server |
| Record numbers and replay window (`dtls13.c`, `internal.c`, `dtls.c`) | per epoch and direction: next number, window words | number reconstruction, window check and update, the turn to stateful parsing | wrap-around of truncated numbers, shifts over word boundaries, the edges of the window | no record accepted twice; a late one in reach is accepted |
| Key updates and epoch slots (`dtls13.c`, `tls13.c`) | four epoch slots, current epochs, the update in flight | `Tls13UpdateKeys`, `DoTls13KeyUpdate`, `DoDtls13Ack`, `Dtls13NewEpoch`, `Dtls13SetEpochKeys` | both sides start at once; lost and repeated updates and ACKs; a fifth epoch | sides stay in step; keys in use keep their slot; an update is answered once |
| Handshake fragmentation (`dtls13.c`, `internal.c`) | the sender's offset and output buffer; the receiver's list of messages and their buckets | `Dtls13SendFragmented`, `DtlsMsgStore`, `DtlsMsgSet`, `Dtls13ProcessBufferedMessages` | reordered and repeated fragments, a full socket in the middle | each fragment sent once; a message is rebuilt exactly, processed once and in order |
| Demo program (`main.c` 317-575) | wolfSSL context and session, timing and heap counters | `run_dtls13_demo`, `main` | error paths that free, the attempt limit, 64-bit cycle arithmetic | resources released once on each path; "PASSED" only if the echo came back |
| Random generator (`main.c` 130-163) | one 32-bit word | `prng_seed`, `prng_next`, `CustomRngGenerateBlock` | the zero state; the seed marker as a reachable state | never zero |
| Host servers (`host/dtls13_*_server.c`) | socket, pinned peer, session | `bio_recv`, `bio_send`, handshake loop, echo loop | datagrams of a second client after the peer is pinned; no timer | answers go to the pinned peer; the loop makes progress when data comes |
| Console UART (`libbase/uart.c`) | receive and transmit rings | `uart_write`, `uart_read`, `uart_isr` | the interrupt handler runs between any two instructions of a print | not modelled (section 7) |
| UDP echo server (`host/udp_echo_server.py`) | socket | `serve` | none (stateless) | echoes each datagram to its sender |
| Certificate scripts, header converters | files | generation | none | not behaviour of the running system |
| wolfCrypt, rest of wolfSSL, LiteX, boards | | vendored | | out of scope |
| LiteEth MAC | receive and transmit rings | | runs concurrently | external; modelled from how `udp.c` uses its registers |

## 2. Plan

In order of importance. All modules are built.

1. `LiteEthUdp` (refines `DatagramPort`; proofs in `LiteEthUdpProofs`).
2. `Dtls13Endpoint`, `Dtls13Handshake` (refines `HandshakeOrder`; proofs of both in
   `Dtls13HandshakeProofs`): one handshake over a network that loses, duplicates and
   reorders.
3. `Dtls13Link` (extends and refines `Dtls13Handshake`; proofs in `Dtls13LinkProofs`): the
   same endpoints over lossy FIFO links with the client's timer and attempt limit.
4. `Dtls13Window` and `Dtls13KeyUpdate` (each with its proofs): the record layer, one epoch
   in one direction, and the succession of epochs.
5. `DtlsMsg`, `Dtls13Fragments` (proofs in `Dtls13FragmentsProofs`): sending in fragments
   with a full socket, reassembly.
6. `DtlsDemo` (over `HandshakeOrder`; proofs in `DtlsDemoProofs`): `run_dtls13_demo` against
   each of the four servers.
7. `Prng` (proofs in `PrngProofs`).

Still open: the IP checksum of `udp.c`; alerts and failing cryptography in the handshake.

## 3. The datagram driver

`LiteEthUdp` models the CPU as one thread with a program counter (`cpu`) and the LiteEth
MAC as a concurrent external component. The return addresses of `send_packet` and
`udp_service` are variables because both are called from two loops.

| Model | Code |
|---|---|
| `rxmem`, `wslot`, `rxq` | the MAC's receive slots and the SRAM writer's events (external) |
| `txmem`, `txslot`, `cmdq` | `txbuffer`, `txslot`, the SRAM reader's queue |
| `rxslot`, `cached_ip`, `cached_mac`, `rx_callback` | the same names in `udp.c` |
| `g_rx`, `udp_rx_cb`, `udp_rx_reset` | the same names in `main.c` |
| `handed`, `nrx`, `ntx` | history: datagrams given to wolfSSL; counters of the bounds |
| `FillAndSend`, `SendPacketStart`, `SendPacketWait` | `send_packet`: build, start, wait or give up |
| `UdpServiceBegin`, `ProcessFrame`, `UdpServiceEnd`, `UdpServiceIdle` | `udp_service`, `process_frame` and its handlers |
| `Start`, `ArpSend`, `ArpCheck` | `udp_start`, `udp_arp_resolve` |
| `DtlsIoSend`, `UdpSend`, `DtlsIoRecv`, `RecvCheck` | `dtls_io_send`, `udp_send`, `dtls_io_recv` |
| `Arrive`, `Transmit` | external: the MAC stores a frame, finishes one |

Frames are abstracted to kind, neighbour and a serial number of UDP payloads; checksums,
addresses in detail and payload bytes are left out. wolfSSL is the environment: it may call
either callback whenever none runs, or end the demo.

`DatagramPort` is what wolfSSL relies on: a bounded FIFO. The refinement maps its queue to
the mailbox's datagram followed by those in the receive slots.

## 4. The handshake

`Dtls13Endpoint` has no variables: it is the functions of `dtls13.c`, `tls13.c` and
`ssl.c` that decide what is retransmitted, acknowledged and processed, as operators on an
endpoint record.

| Field | Code |
|---|---|
| `expected`, `stored` | `keys.dtls_expected_peer_handshake_number`, `dtls_rx_msg_list` |
| `rtx`, `seen` | `dtls13Rtx.rtxRecords`, `dtls13Rtx.seenRecords` |
| `sendAcks`, `retransmit` | the flags of the same name in `dtls13Rtx` |
| `fast`, `backoff` | `dtls13FastTimeout`, `dtls_timeout` as a number of doublings |
| `unified` | `options.seenUnifiedHdr` |
| `state` | `connectState` on the client; whether the server is past its stateless part |
| `out` | the records the current call has sent |

| Operator | Code |
|---|---|
| `Dropped`, `Drop` | record header and epoch checks of `ProcessReplyEx`, `Dtls13CheckEpoch` and relatives |
| `RecordRecvd`, `RtxMsgRecvd`, `MsgWasProcessed`, `HandshakeRecv` | `Dtls13RecordRecvd`, `Dtls13RtxMsgRecvd`, `Dtls13MsgWasProcessed` with the buffered messages, `Dtls13HandshakeRecv` |
| `DoDtls13Ack` | `DoDtls13Ack`, `Dtls13RtxRemoveRecord` |
| `HandshakeSend`, `SendDtls13Ack`, `RtxSendBuffered`, `DoScheduledWork` | the functions of those names |
| `ServerBegin`, `ClientStart`, `ClientProgress` | the parts of `wolfSSL_accept_TLSv13` and `wolfSSL_connect_TLSv13` that send |
| `RtxTimeout` | `wolfSSL_dtls_got_timeout`, `Dtls13RtxTimeout` |
| `Turn` | one round of a connect, accept or read loop |

A handshake message is its handshake number: 0 and 1 are the hellos, 2 to `Last(side)` are
the encrypted messages of a flight. The endpoints keep answering after the handshake is
done, because wolfSSL frees neither the retransmission nor the acknowledgement lists then.

`Dtls13Handshake` puts two endpoints on a network in which everything ever sent may arrive
at any time, any number of times, or never. That is more than UDP with a replay window
permits (an identical record is dropped by the window, but a retransmission is a new record
with the same message, so repeated messages are real), so safety shown here holds for the
real link. The host may skip a retransmission that comes within a second of the previous
one (`DTLS13_MIN_RTX_INTERVAL`); the firmware is compiled without that clock. An ACK may
name records the receiver no longer tracks, since three record numbers per message are kept.

`HandshakeOrder` is the promise to the two callers: each side commits only after the other,
the server finishes only after the client has committed, `wolfSSL_connect` returns success
only after the server has finished.

`Dtls13Link` extends the module with the link of this system: one FIFO each way, which
is what `DatagramPort` justifies, that loses at most `MaxLosses` datagrams. A call of a side
puts a batch on the link; the records of a batch arrive one by one, the ACK first, then in
the order of their numbers. It adds the client's attempt counter and the host's clock.
`Tracked` says that without reordering the three tracked record numbers are enough.
`patient` is a timing assumption, chosen once at the start: a poll of the client
(`DTLS_IO_TIMEOUT_LOOPS` rounds) lasts longer than the server's answer takes, so that a
timeout happens only when nothing is in flight. Behaviours with and without it are explored.

Left out of the three modules: alerts and failing cryptography, session tickets, application
data. Fragmentation and key updates have modules of their own.

### The record layer

`Dtls13Window` is one epoch in one direction: the counters of both ends, the window as words
of bits (`window[i]` is the set of bits set in word `i`), and the number a receiver rebuilds
from the low bits of a header (`Dtls13ReconstructSeqNumber`, with the additions and
subtractions that would wrap left out as in the code). `Shifted` is the word-wise shift with
its carry. A record taken for another number does not decrypt. `stateful` is the server's
turn from answering hellos without state to a connection (`DoClientHelloStateless`), which
marks everything before the accepted hello as read.

`Dtls13KeyUpdate` takes two endpoints after the handshake. A record carries two bits of its
epoch; the receiver rebuilds the epoch from its slots, installs that epoch's decryption keys
and reads on. `keys` is what really decrypts, `decrypting` the slot `dtls13DecryptEpoch`
points to, which differ when the slot was given to another epoch. `Dtls13CheckAEADFailLimit`
stands for the update started when too many records failed to decrypt. Everything sent may
arrive any number of times, in any order.

### Fragmentation

`DtlsMsg` is the reassembly of one message, functions of a record with its `buckets`;
`Dtls13Fragments` has the sender, which may meet a full socket (`full`) before each record,
and the receiver with its list of stored messages. A fragment's data are the positions it
covers, so that a byte in the wrong place shows. The two I/O callbacks of this firmware never
report a full socket; that the sender survives one is the library's contract towards its
callbacks, and the host's server, on a real socket, relies on it.

### The demo

`DtlsDemo` is the outermost composition: `run_dtls13_demo` from the first callback to its
return, one of the four servers (`program`: the Dilithium server's loop, CA and PSK with
one read, PQC with sessions in succession), and the link between them once application data
flow. The handshake between them is `HandshakeOrder`, instantiated, whose steps are taken
by the calls of `wolfSSL_connect` and `wolfSSL_accept`: that the real handshake implements
it is the theorem `Refinement`. `trouble` is a history of what went wrong outside the
programs: a loss, a failed call, a poll that ended with the echo on its way. It starts anew
when the server has accepted, because what went wrong before that did not keep the two from
connecting. `wolfSSL_read` returning 0 (close_notify), which `main.c` would take for an
echo, is unreachable: no server of this repository calls `wolfSSL_shutdown`. The servers'
own clean-up at exit and the figures the client prints are left out.

### The random generator

`Prng` is `prng_next` and `prng_seed` bit for bit: a word is the set of the numbers of its
one bits. `GenerateBlock` seeds when the state is the marker, also when the marker comes up
in the middle of a session.

## 5. Runs

| Run | Asks | Bounds, and why they are enough |
|---|---|---|
| `udp_safety` | slots have one owner, datagrams go to the server, FIFO to wolfSSL, every call returns | two slots each way (the ring wraps), three datagrams (one more than slots), both ARP attempts and all loops run out, two neighbours so that a wrong ARP reply exists |
| `udp_deep_queue` | violation, see findings | a transmit queue of two with two slots |
| `handshake_safety` | the safety of the handshake and its refinement | flights of four messages a side, the smallest in which one encrypted message can overtake another; two doublings |
| `link_network` | the link implements the network; `wolfSSL_connect`'s loop ends; both sides complete; answers die out | one loss at any point, three timeouts, at any moment or (`patient`) only when nothing is in flight |
| `link_resends` | violation, see findings | four losses in a row with two doublings |
| `window` | nothing read twice, nothing in reach refused, the turn to stateful | two words of two bits (a carry between words), 15 records: three halves of the range of the low bits, so that it wraps both ways |
| `key_update` | sides in step, keys kept, no echo | one update of each side: every crossing of two updates |
| `epoch_slots` | violation, see findings | two updates of one side: the fifth epoch |
| `fragments_flight` | sent once, put together exactly, processed in order, delivered | messages of 1, 4, 1 and 3 fragments, one exactly a fragment long; the pool holds the flight |
| `fragments_long` | violation, see findings | one message of five fragments, the shortest with a gap between two buckets that a fragment fills without touching either |
| `demo` | releases, truth of the result, cause of a failure, service of the right peer, return | four attempts, two late records, two strangers, any loss; each kind of server |
| `prng` | words keep their width, never zero | five readings of the counter, among them the one that seeds zero, the one that seeds the marker and one that comes back to it |

The handshake's `TypeOK` says more than types: the flags of the scheduled work are clear
between calls.

Deadlock checking is off everywhere: the demo ends (`stopped`, `failed`), and the server
waits forever once nothing arrives.

**Fairness.** `LiteEthUdp`'s `FairSpec` gives weak fairness to `InCall`, the
CPU's steps inside a call: it is a single thread that never blocks, and the console's
interrupt handler returns. What wolfSSL calls, and whether, is left open. Nothing is
assumed of the MAC or the link. `Dtls13Link`'s `FairSpec` gives weak fairness to the
client's loop (`LinkConnect`, `ClientReceive`, `LinkGiveUp`), to the server's loop, and to
`LinkTimeout` only while nothing from the server is on its way, which is when `dtls_io_recv`
runs out of polls. Losing is never fair: the link need not lose anything. `Dtls13Fragments`
assumes a caller that goes on after want-write and a socket that takes a record some time,
and that what has been put on the wire arrives in the end (what is not acknowledged is sent
again, which `Dtls13Link` has). `DtlsDemo` gives weak fairness to the two programs, which
never stop by themselves, and none to the link.

**How much loss.** Completion is claimed for one lost datagram and no more. With two
losses a handshake can die, and TLC shows how (4/6/6 messages and doublings, `MaxLosses =
2`): one of the server's encrypted messages is lost, the first of the others has already
emptied the client's buffer as an implicit acknowledgement, the client's timeout sends an
ACK of what it has seen and forgets it, and that ACK is lost too. The client now has nothing
to retransmit and nothing to acknowledge, and the server has no timer. `ConnectReturns`
says that the client notices: its attempts run out. (`link_network` reaches failing
handshakes through its impatient clients.)

**Findings.**

- `udp_deep_queue`: `send_packet` waits for a free transmit buffer only after its callers
  have built the frame in it. With a MAC queue as deep as the number of slots a queued frame
  is overwritten. `TransmitIntact` proves it cannot happen with a shallower queue.
- `link_resends`: after `log2(DTLS_TIMEOUT_MAX / DTLS_TIMEOUT_INIT)` = 6 unanswered long
  timeouts `DtlsMsgPoolTimeout` fails, `Dtls13RtxTimeout` returns before it retransmits and
  `dtls_io_recv` discards the error; the remaining attempts only listen.
- `epoch_slots`: `Dtls13NewEpochSlot` is to take the oldest epoch but never assigns
  `oldestNumber`, so it takes the last slot that is not current. After two updates that is
  the epoch the peer still sends in, and its retransmitted KeyUpdate cannot be read.
- `fragments_long`: `DtlsMsgSet` treats a fragment that lies in a gap between two buckets
  without touching the later one as if it overlapped: the gap behind it is counted as
  received and the later bucket's bytes move into it. Five fragments are needed, which a
  Dilithium certificate has, and a network that reorders, which the simulated link does not.

## 6. Proofs

`LiteEthUdpProofs` proves for every number of slots, polls, hosts and datagrams (the named
assumptions of `LiteEthUdp`): `TypeCorrect`, `ReceiveSlotOwned`, `ServerAddressed`, and
`TransmitIntact` under `ReaderDepth < TxSlots`. The invariants say that the queued slots are
the ones just behind the ring index, on both rings (`RxRing`, `TxRing`); with at most
`ReaderDepth` queued the current slot is not among them. `CacheInv` follows the ARP cache:
after `udp_start` it holds the server or nothing, and once resolved the server.

`PortRefinement` proves, under no hypothesis, that the driver implements `DatagramPort`. The
sequence of datagrams the mapping reads off the slots need not be followed element by element:
`PortInv` says that the datagrams in the slots and the mailbox are the last ones accepted, in
consecutive numbers (`NumberInv`), so the queue is the run of `Count` numbers that ends with
`nrx` and changes only in length or in its last number. `MailboxInv` says why none is
overwritten once wolfSSL reads: before the first hand-over a new datagram replaces the one in
the mailbox (`Discard`), and after it `dtls_io_recv` empties the mailbox before the next frame
is processed. Each action then is a step of the port or a stutter.

`Dtls13HandshakeProofs` begins with one lemma per function of `Dtls13Endpoint` that says what
it does to each field; the other proofs cite these and never expand the functions again. It
proves for every flight length of at least three messages a side and
every number of doublings:

| Theorem | Property |
|---|---|
| `TypeCorrect` | the type invariant, with the flags clear between calls |
| `NothingIsForgotten` | a side stops retransmitting only what the peer has |
| `AcksAreTruthful` | an ACK names only messages its sender has |
| `NoneIsLeftWaiting` | the next message in order is never left in the buffer |
| `BothAgree` | success of `wolfSSL_connect` means the server has finished |
| `Refinement` | the handshake implements `HandshakeOrder` |

None of these is inductive. The invariant `Inv(c, s, sc, ss)` takes the two endpoints and
what each has sent as parameters, so that it can be stated in the middle of a
call, after each function, and not only between calls. Its parts: what each side keeps
(`ClientKept`, `ServerKept`: a message sent is in the buffer or at the peer), truthful
acknowledgements (`Truthful`), buffered messages beyond the next one (`Orderly`), and the
facts that order the two sides: the server's flight exists only if the server has begun
(`ServerBegun`), a client that is past a state has heard of the server (`ClientHeard`), each
client state determines which flights it has sent (`ClientFlights`), and a connected client
has an empty buffer and a server that is done (`Agreed`). `ClientKept` needs `ClientHeard`:
an implicit acknowledgement is safe because a message of the server's next flight exists
only after the server has the client's flight. One lemma shows that each function preserves
`Inv`; `ClientTurn` and `ServerTurn` compose them, and each action of `Next` is one of the
two followed by putting `out` on the network.

`Dtls13LinkProofs` proves for every flight length, number of losses and of attempts that
`LinkSpec` implements the network (`LinkRefinesNetwork`). The invariant `LInv` adds to the
network's that the batches on the link consist of records that were sent (`OnLink`); then
each call on the link is a call on the network, and a loss is no step at all. `LinkSafety`
carries `Agreement` and `NothingForgotten` to the link.

`Dtls13WindowProofs` proves `NoReplay`, `NothingBeforeFirst`, `LateRecordsAccepted` and the
type invariant for every word size, number of words, range of the low bits and number of
records. The inductive part is `MarksRead`, what the window means: bit `p` is set exactly if
the number `next - 1 - p` was read or lies before the accepted hello; with `Progress`, that
no number from `next` on was read. The word-wise shift is shown to move every position by
the same distance, the only place where the division into words matters.

`Dtls13KeyUpdateProofs` proves `InStep`, `CurrentKeysKept`, `NoEcho` and the type invariant for
any number of updates.
`IInv` has the four slots hold what both current epochs need (`SlotsInv`, inside `EndInv`),
the two ends at most the update in flight apart (`Near`), and what is on the link consistent
with its sender (`Justified`): a KeyUpdate in the sender's current epoch only while it waits
for the ACK, and an ACK only for an epoch of the peer that has ended, so that an old ACK
cannot end a new update. `NoEcho` needs a second invariant, `Credit`: a side has begun no more
updates than were started by either, less one while its peer's request is still to be
answered. An answer pays with the request it answers and asks for nothing itself. The type
invariant bounds the epochs, and rests on `Credit` too: it is the two sides' updates together
that are limited.

`Dtls13FragmentsProofs` proves `SentOnceInOrder` for messages of any number and length
(`SendInv`: what has left and what is about to is the flight cut in order up to where the
sender stands). `Assembled`, `KeptIsWhatArrived` and the type invariant are proved for flights
of any number of messages of at most four fragments of any size, in whatever order and however
often they arrive, and a pool of at least two buckets (`FewFragments`). The hypothesis is the
code's limit and not the proof's: with a fifth fragment `Assembled` is false (run
`fragments_long`). The flight of `fragments_flight` meets it. Four fragments leave five places
where a bucket can begin or end, so that a message is kept in one bucket or in two with a gap
between them (`Keeps`), and a fragment that touches no bucket lies before the first or behind
the last, where `DtlsMsgSet` is right. `RxInv` says that of every stored message, for exactly
the positions that have arrived, keeps the list in the order of the message numbers, and has
the next message incomplete. One lemma for every way a fragment can lie to the buckets (in one,
extending one, joining two, apart) shows that `DtlsMsgSet` keeps it.

`DtlsDemoProofs` proves the five invariants of the `demo` run for every attempt limit and
number of late records and strangers. The inductive invariant ties each place of the client
to what it holds (`HeldAt`) and each stage of the handshake to the places of both programs
(`Places`); for `FailsForCause`, the message or its echo is on its way unless there has
been trouble (`OnItsWay`), and for `PassedMeansEchoed`, an echo exists only once the server
has read the message (`Exchange`).

`PrngProofs` proves that the generator never reaches zero whatever the counter reads, that
words keep their width, and that `prng_next` is injective on 32-bit words, from the bits.

Only model-checked is liveness (`CallsReturn`, `Settles`, `ConnectReturns`, `Completes`,
`Delivered`, `Returns`), which is out of the prover's reach. Every invariant and every
refinement that a run checks is a theorem.

## 7. Not modelled

The vendored cryptography, TLS message encoding, the SoC generator and build-time scripts are
out of scope: they are not the protocol logic of this system, and they are nearly all of the
repository's lines. The console UART of LiteX is interrupt-driven, but nothing in the exchange
reads it and it shares no state with the modelled parts; its only effect, the time a print
takes, is left open by the driver's model. The UDP echo server is a stateless loop. Within
modelled components: `send_ping`, the broadcast callback and the software CRC of `udp.c`
(unused or compiled out), the IP checksum's arithmetic, alerts and failing cryptography,
post-handshake authentication, failing allocations, the timing and heap figures `main.c`
prints, and the eleventh bucket of a message, whose fragment is dropped though acknowledged
(it takes a message of more than twenty fragments).
