-------------------------- MODULE Dtls13Fragments --------------------------
(***************************************************************************)
(* A flight of handshake messages in fragments: the sender cuts a message  *)
(* and goes on where a full socket stopped it, the receiver puts it        *)
(* together and processes the messages in order.  Fragments that were sent *)
(* may arrive at any time, any number of times, in any order.              *)
(***************************************************************************)
EXTENDS DtlsMsg, SequencesExt

CONSTANTS
    Flight,       \* the body sizes of the messages; message n is Flight[n]
    MaxFragment,  \* wolfSSL_GetMaxFragSize less the headers
    Pool          \* DTLS_POOL_SZ: messages the receiver stores

ASSUME FlightAssumption ==
    /\ Flight \in Seq(Nat \ {0}) /\ MaxFragment \in Nat \ {0}
    /\ Pool \in Nat /\ Len(Flight) < Pool

VARIABLES
    tx,      \* the sender
    rx,      \* the receiver
    wire,    \* the fragments that have left the sender
    log,     \* the fragments in the order in which they left
    arrived  \* the fragments the receiver has seen

vars == <<tx, rx, wire, log, arrived>>

Messages == 1 .. Len(Flight)

Content(n, from, to) == [i \in 1 .. to - from |-> from + i - 1]

Whole(n) == Content(n, 0, Flight[n])

\* A fragment with the message number of its header.
Fragment(number, n, offset) ==
    [number |-> number, size |-> Flight[n], offset |-> offset,
     data |-> Content(n, offset, Min({offset + MaxFragment, Flight[n]}))]

Fragments(n) == {Fragment(n, n, k * MaxFragment) :
                    k \in {i \in 0 .. Flight[n] - 1 : i * MaxFragment < Flight[n]}}

AllFragments == UNION {Fragments(n) : n \in Messages}

TypeOK ==
    /\ tx \in [state : 1 .. Len(Flight) + 1,   \* acceptState: the message to send
               number : 1 .. Len(Flight) + 1,  \* dtls_handshake_number
               sending : BOOLEAN,              \* dtls13SendingFragments
               offset : Nat,                   \* dtls13FragOffset
               out : AllFragments \cup {<<>>}] \* outputBuffer
    /\ tx.sending => tx.state \in Messages /\ tx.offset <= Flight[tx.state]
    /\ wire \subseteq AllFragments /\ arrived \subseteq wire
    /\ rx.expected \in 1 .. Len(Flight) + 1    \* dtls_expected_peer_handshake_number
    /\ Len(rx.stored) <= Pool                  \* dtls_rx_msg_list
    /\ \A m \in Range(rx.stored) : m.received \in 0 .. m.size
    /\ ~rx.failed                              \* DTLS_TOO_MANY_FRAGMENTS_E

Init == /\ tx = [state |-> 1, number |-> 1, sending |-> FALSE, offset |-> 0, out |-> <<>>]
        /\ rx = [expected |-> 1, stored |-> <<>>, processed |-> <<>>, failed |-> FALSE]
        /\ wire = {} /\ log = <<>> /\ arrived = {}

-----------------------------------------------------------------------------
(* The sender.  Every step but the last two tries to send one record; with *)
(* full the socket does not take it and it stays in the output buffer      *)
(* (WANT_WRITE).                                                           *)

Leaves(f, full) == /\ wire' = IF full THEN wire ELSE wire \cup {f}
                   /\ log' = IF full THEN log ELSE Append(log, f)
                   /\ UNCHANGED <<rx, arrived>>

Buffered(f, full) == IF full THEN f ELSE <<>>

CanSend == tx.out = <<>> /\ tx.state \in Messages

\* A message that fits; its number is used up even when the socket is full.
Dtls13SendOneFragmentRtx(full) ==
    /\ CanSend /\ ~tx.sending
    /\ Flight[tx.state] < MaxFragment
    /\ LET f == Fragment(tx.number, tx.state, 0)
       IN  /\ Leaves(f, full)
           /\ tx' = [tx EXCEPT !.number = @ + 1, !.out = Buffered(f, full),
                               !.state = IF full THEN @ ELSE @ + 1]

Dtls13SendFragmented ==
    /\ CanSend /\ ~tx.sending
    /\ Flight[tx.state] >= MaxFragment
    /\ tx' = [tx EXCEPT !.sending = TRUE, !.offset = 0]
    /\ UNCHANGED <<rx, wire, log, arrived>>

\* mutant: after WANT_WRITE the same fragment is sent again.
Dtls13SendFragmentAgain(full) ==
    /\ CanSend /\ tx.sending
    /\ tx.offset < Flight[tx.state]
    /\ LET f == Fragment(tx.number, tx.state, tx.offset)
       IN  /\ Leaves(f, full)
           /\ tx' = [tx EXCEPT !.offset = IF full THEN @ ELSE @ + Len(f.data),
                               !.out = Buffered(f, full)]

\* One round of the loop of Dtls13SendFragmentedInternal.
Dtls13SendFragmentedInternal(full) ==
    /\ CanSend /\ tx.sending
    /\ tx.offset < Flight[tx.state]
    /\ LET f == Fragment(tx.number, tx.state, tx.offset)
       IN  /\ Leaves(f, full)
           /\ tx' = [tx EXCEPT !.offset = @ + Len(f.data), !.out = Buffered(f, full)]

\* mutant: the fragments are never finished with.
Dtls13FragmentsLeft ==
    /\ CanSend /\ tx.sending
    /\ tx.offset = Flight[tx.state]
    /\ tx' = [tx EXCEPT !.number = @ + 1, !.state = @ + 1]
    /\ UNCHANGED <<rx, wire, log, arrived>>

\* All fragments are sent: also what Dtls13FragmentsContinue finds after the last one
\* was delayed.
Dtls13FragmentsContinue ==
    /\ CanSend /\ tx.sending
    /\ tx.offset = Flight[tx.state]
    /\ tx' = [tx EXCEPT !.sending = FALSE, !.offset = 0, !.number = @ + 1, !.state = @ + 1]
    /\ UNCHANGED <<rx, wire, log, arrived>>

\* The next call sends what is buffered; the state advances unless that was a fragment
\* of a message that is not finished.
SendBuffered ==
    /\ tx.out # <<>>
    /\ Leaves(tx.out, FALSE)
    /\ tx' = [tx EXCEPT !.out = <<>>, !.state = IF tx.sending THEN @ ELSE @ + 1]

-----------------------------------------------------------------------------
(* The receiver.                                                           *)

\* The message of fragment f takes it, or a new one in the order of the numbers.
DtlsMsgStore(stored, f) ==
    LET piece == [offset |-> f.offset, data |-> f.data]
        at    == {i \in DOMAIN stored : stored[i].number = f.number}
        before == {i \in DOMAIN stored : stored[i].number < f.number}
    IN  IF at # {} THEN [stored EXCEPT ![Max(at)] = DtlsMsgSet(@, piece)]
        ELSE InsertAt(stored, Cardinality(before) + 1,
                      DtlsMsgSet(DtlsMsgNew(f.number, f.size), piece))

\* mutant: incomplete messages are processed too.
Dtls13ProcessBufferedIncomplete(r) ==
    LET next == {k \in DOMAIN r.stored : \A i \in 1 .. k : r.stored[i].number = r.expected + i - 1}
        n    == Max(next \cup {0})
    IN  [r EXCEPT !.expected = @ + n, !.stored = From(@, n),
                  !.processed = @ \o [i \in 1 .. n |-> r.stored[i].buckets[1].data]]

\* The ready messages that come next.
Dtls13ProcessBufferedMessages(r) ==
    LET next == {k \in DOMAIN r.stored :
                    \A i \in 1 .. k : r.stored[i].ready /\ r.stored[i].number = r.expected + i - 1}
        n    == Max(next \cup {0})
    IN  [r EXCEPT !.expected = @ + n, !.stored = From(@, n),
                  !.processed = @ \o [i \in 1 .. n |-> r.stored[i].buckets[1].data]]

\* A message already processed is ignored; one that is not complete or not the next is
\* stored.
Dtls13HandshakeRecv(r, f) ==
    LET complete == f.offset = 0 /\ Len(f.data) = f.size
    IN  CASE f.number < r.expected -> r
          [] f.number >= r.expected /\ (~complete \/ f.number > r.expected) ->
               IF Len(r.stored) < Pool
               THEN Dtls13ProcessBufferedMessages([r EXCEPT !.stored = DtlsMsgStore(@, f)])
               ELSE [r EXCEPT !.failed = TRUE]
          [] f.number = r.expected /\ complete ->
               Dtls13ProcessBufferedMessages(
                   [r EXCEPT !.expected = @ + 1, !.processed = Append(@, f.data)])

Receive(f) == /\ f \in wire
              /\ rx' = Dtls13HandshakeRecv(rx, f)
              /\ arrived' = arrived \cup {f}
              /\ UNCHANGED <<tx, wire, log>>

Next == \/ \E full \in BOOLEAN : \/ Dtls13SendOneFragmentRtx(full)
                                 \/ Dtls13SendFragmentedInternal(full)
        \/ Dtls13SendFragmented \/ Dtls13FragmentsContinue \/ SendBuffered
        \/ \E f \in wire : Receive(f)

Spec == Init /\ [][Next]_vars

\* The caller goes on as long as it is told WANT_WRITE and the socket empties some
\* time; what is not acknowledged is sent again until it arrives.
FairSpec == /\ Spec
            /\ WF_vars(\E full \in BOOLEAN : \/ Dtls13SendOneFragmentRtx(full)
                                             \/ Dtls13SendFragmentedInternal(full))
            /\ WF_vars(Dtls13SendFragmented \/ Dtls13FragmentsContinue \/ SendBuffered)
            /\ []<>(wire \subseteq arrived)

-----------------------------------------------------------------------------
(* Properties.                                                             *)

\* The receiver processes the messages of the flight in order, each once and with the
\* bytes it was sent with.
Assembled == rx.processed = [i \in 1 .. rx.expected - 1 |-> Whole(i)]

Positions(piece) == piece.offset .. End(piece) - 1

\* Of a stored message exactly the bytes that arrived are kept and counted, whatever the
\* order in which they came.
KeptIsWhatArrived ==
    \A m \in Range(rx.stored) :
        LET kept == UNION {Positions(b) : b \in Range(m.buckets)}
        IN  /\ kept = UNION {Positions(f) : f \in {g \in arrived : g.number = m.number}}
            /\ m.received = Cardinality(kept)
            /\ m.ready <=> m.received = m.size
            /\ \A b \in Range(m.buckets) : b.data = Content(m.number, b.offset, End(b))

FragmentAfter(f) == IF End(f) < f.size THEN Fragment(f.number, f.number, End(f))
                    ELSE Fragment(f.number + 1, f.number + 1, 0)

\* However often the socket was full, the fragments leave once each, in order, under
\* the number of their message.
SentOnceInOrder ==
    /\ log # <<>> => log[1] = Fragment(1, 1, 0)
    /\ \A i \in 1 .. Len(log) - 1 : log[i + 1] = FragmentAfter(log[i])

\* The whole flight is processed in the end.
Delivered == <>(rx.expected = Len(Flight) + 1)
=============================================================================
