---------------------------- MODULE Dtls13Window ----------------------------
(***************************************************************************)
(* The numbers of the records of one epoch in one direction.  The sender   *)
(* counts; the link loses, repeats and reorders records; a record carries  *)
(* the low bits of its number, and the receiver rebuilds the number around *)
(* the next one it expects, then refuses what its window has seen.         *)
(***************************************************************************)
EXTENDS Integers

CONSTANTS
    WordBits,  \* DTLS_WORD_BITS, 32
    Words,     \* WOLFSSL_DTLS_WINDOW_WORDS, 2
    Shift,     \* 2^16, the range of the bits a record carries
    Limit      \* 2^64, the numbers a counter holds

WindowSize == Words * WordBits  \* DTLS_SEQ_BITS

ASSUME WindowAssumption ==
    /\ WordBits \in Nat \ {0} /\ Words \in Nat \ {0}
    /\ Shift \in Nat /\ Shift % 2 = 0 /\ WindowSize < Shift \div 2
    /\ Limit \in Nat /\ Limit > Shift

VARIABLES
    encrypted,  \* the epoch has keys: the unified header, low bits of the number
    stateful,   \* dtlsStateful: the server has accepted a ClientHello
    sent,       \* nextSeqNumber of the sender
    next,       \* nextPeerSeqNumber of the receiver
    window,     \* window[i] is the set of the bits of word i that are set
    read,       \* history: how often the receiver has processed a number
    first       \* history: the number of the ClientHello that was accepted

vars == <<encrypted, stateful, sent, next, window, read, first>>

Numbers == 0 .. Limit - 1
Bits == 0 .. WordBits - 1

TypeOK ==
    /\ encrypted \in BOOLEAN /\ stateful \in BOOLEAN
    /\ sent \in Numbers /\ next \in Numbers /\ first \in Numbers
    /\ window \in [0 .. Words - 1 -> SUBSET Bits]
    /\ read \in [Numbers -> Nat]

\* A server reads its first epoch, which has no keys, without state.
Init ==
    /\ encrypted \in BOOLEAN /\ stateful \in BOOLEAN
    /\ encrypted => stateful
    /\ sent = 0 /\ next = 0 /\ first = 0
    /\ window = [i \in 0 .. Words - 1 |-> {}]
    /\ read = [n \in Numbers |-> 0]

-----------------------------------------------------------------------------
\* mutant: lower low bits always belong to the range above.
ReconstructForward(expected, low) ==
    LET near == (expected - (expected % Shift)) + low
    IN  IF low < expected % Shift /\ near + Shift < Limit THEN near + Shift ELSE near

\* The number with these low bits nearest to the expected one; an addition or
\* subtraction that wraps is not made.
Dtls13ReconstructSeqNumber(expected, low) ==
    LET near == (expected - (expected % Shift)) + low
    IN  IF low - (expected % Shift) > Shift \div 2
        THEN IF near >= Shift THEN near - Shift ELSE near
        ELSE IF (expected % Shift) - low > Shift \div 2 /\ near + Shift < Limit
             THEN near + Shift ELSE near

\* The number the receiver takes record n for.
CurSeq(n) == IF encrypted THEN Dtls13ReconstructSeqNumber(next, n % Shift) ELSE n

Marked(p) == p % WordBits \in window[p \div WordBits]

\* The window's bit p stands for the number next - 1 - p.
Dtls13CheckWindow(n) == n < next => next - n <= WindowSize /\ ~Marked(next - n - 1)

\* The window moved on by diff numbers, word by word with a carry.
Shifted(diff) ==
    LET skip == diff \div WordBits
        by   == diff % WordBits
    IN  [i \in 0 .. Words - 1 |->
           IF i < skip THEN {}
           ELSE {b \in Bits : \/ b - by \in window[i - skip]
                              \/ i > skip /\ b + WordBits - by \in window[i - skip - 1]}]

\* mutant: the record that moves the window is not marked.
DtlsUpdateWindowGTSeqUnmarked(diff) ==
    IF diff >= WindowSize THEN [i \in 0 .. Words - 1 |-> {}] ELSE Shifted(diff)

_DtlsUpdateWindowGTSeq(diff) ==
    LET moved == IF diff >= WindowSize THEN [i \in 0 .. Words - 1 |-> {}] ELSE Shifted(diff)
    IN  [moved EXCEPT ![0] = @ \cup {0}]

\* The next expected number and the window after record n.
Dtls13UpdateWindow(n) ==
    IF n < next
    THEN [next |-> next,
          window |-> [window EXCEPT ![(next - n - 1) \div WordBits] =
                                       @ \cup {(next - n - 1) % WordBits}]]
    ELSE [next |-> n + 1, window |-> _DtlsUpdateWindowGTSeq(n - next + 1)]

\* mutant: the counter runs to its end.
SendLast ==
    /\ sent < Limit
    /\ sent' = sent + 1
    /\ UNCHANGED <<encrypted, stateful, next, window, read, first>>

\* A counter that would wrap fails instead (Dtls13GetSeq).
Send ==
    /\ sent + 1 < Limit
    /\ sent' = sent + 1
    /\ UNCHANGED <<encrypted, stateful, next, window, read, first>>

\* A record taken for another number does not decrypt: it is dropped.
Receive(n) ==
    /\ stateful
    /\ CurSeq(n) = n
    /\ Dtls13CheckWindow(n)
    /\ LET updated == Dtls13UpdateWindow(n)
       IN  next' = updated.next /\ window' = updated.window
    /\ read' = [read EXCEPT ![n] = @ + 1]
    /\ UNCHANGED <<encrypted, stateful, sent, first>>

\* mutant: the window of the accepted ClientHello stays as it is.
EverythingBeforeKept(updated) == updated

\* Numbers before the accepted ClientHello count as read.
EverythingBefore(updated) == [i \in 0 .. Words - 1 |-> Bits]

\* A ClientHello with a good cookie; one without is answered and forgotten.
AcceptStateful(n) ==
    /\ ~stateful
    /\ Dtls13CheckWindow(n)
    /\ LET updated == Dtls13UpdateWindow(n)
       IN  next' = updated.next /\ window' = EverythingBefore(updated.window)
    /\ read' = [read EXCEPT ![n] = @ + 1]
    /\ stateful' = TRUE
    /\ first' = n
    /\ UNCHANGED <<encrypted, sent>>

Next == Send \/ \E n \in 0 .. sent - 1 : Receive(n) \/ AcceptStateful(n)

Spec == Init /\ [][Next]_vars

-----------------------------------------------------------------------------
(* Properties.                                                             *)

\* No record is processed twice, however often the link repeats it and however far
\* the numbers have moved on between the copies.
NoReplay == \A n \in Numbers : read[n] <= 1

\* Nothing sent before the ClientHello that was accepted is processed after it.
NothingBeforeFirst == \A n \in Numbers : n < first => read[n] = 0

\* Record n is inside the window or less than half the range ahead.
InReach(n) == next - n <= WindowSize /\ n - next < Shift \div 2

\* A record that has not been processed and is in reach would be accepted: late and
\* overtaken records are not refused, at no place of the range.
LateRecordsAccepted ==
    \A n \in 0 .. sent - 1 :
        stateful /\ read[n] = 0 /\ n >= first /\ InReach(n)
            => CurSeq(n) = n /\ Dtls13CheckWindow(n)
=============================================================================
