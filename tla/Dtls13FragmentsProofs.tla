------------------------ MODULE Dtls13FragmentsProofs -----------------------
(***************************************************************************)
(* A flight is sent once and in order whatever the sizes of its messages.  *)
(* One whose messages fit in four fragments each is put together exactly,  *)
(* whatever the order in which the fragments arrive.                       *)
(***************************************************************************)
EXTENDS Dtls13Fragments, FiniteSetTheorems, SequenceTheorems, TLAPS

(* Every message fits in four fragments.  The fifth is where DtlsMsgSet goes wrong: with *)
(* four, a fragment that is neither in a bucket nor touches one has room before the first *)
(* bucket or after the last one.                                                          *)
FewFragments == /\ \A n \in Messages : Flight[n] <= 4 * MaxFragment
                /\ FragPool >= 2

-----------------------------------------------------------------------------
(* The sender.                                                             *)

Number(m) == m.number

\* What has left and what is about to: a delayed record is the next to leave.
Cut(t, sent) == IF t.out = <<>> THEN sent ELSE Append(sent, t.out)

\* The messages before number are cut up completely, number itself up to offset.
CutUpTo(cut, number, offset) ==
    IF offset = 0
    THEN IF cut = <<>> THEN number = 1
         ELSE Number(Last(cut)) = number - 1 /\ End(Last(cut)) = Flight[Number(Last(cut))]
    ELSE cut # <<>> /\ Number(Last(cut)) = number /\ End(Last(cut)) = offset

InOrder(fragments) ==
    /\ fragments # <<>> => fragments[1] = Fragment(1, 1, 0)
    /\ \A i \in 1 .. Len(fragments) - 1 : fragments[i + 1] = FragmentAfter(fragments[i])

\* Where a fragment of message n may begin, and where the sender may stand.
Begins(n) == {k * MaxFragment : k \in {i \in 0 .. Flight[n] - 1 : i * MaxFragment < Flight[n]}}

Stops(n) == Begins(n) \cup {Flight[n]}

TxInv(t, sent) ==
    /\ t \in [state : 1 .. Len(Flight) + 1, number : 1 .. Len(Flight) + 1, sending : BOOLEAN,
              offset : Nat, out : AllFragments \cup {<<>>}]
    /\ sent \in Seq(AllFragments)
    /\ InOrder(Cut(t, sent)) /\ CutUpTo(Cut(t, sent), t.number, t.offset)
    /\ IF t.sending
       THEN /\ t.state \in Messages /\ t.number = t.state
            /\ t.offset \in Stops(t.state)
       ELSE /\ t.offset = 0
            /\ t.number = IF t.out = <<>> THEN t.state ELSE t.state + 1

-----------------------------------------------------------------------------
(* The receiver.                                                           *)

\* With four fragments these are the places where one may begin or end.
Cuts(n) == {c \in {0, MaxFragment, 2 * MaxFragment, 3 * MaxFragment} : c < Flight[n]}

Ends(n) == Cuts(n) \cup {Flight[n]}

Piece(n, from, to) == [offset |-> from, data |-> Content(n, from, to)]

\* Lists of one and of two buckets, and what a bucket says of itself.
One(x) == <<x>>
Two(x, y) == <<x, y>>
Start(b) == b.offset
Bytes(b) == Len(b.data)

\* The message keeps and counts exactly the bytes got, in one bucket or in two with a
\* gap between them.
Keeps(n, buckets, received, got) ==
    \/ \E a, b \in Ends(n) :
         /\ a < b /\ got = a .. b - 1
         /\ buckets = One(Piece(n, a, b)) /\ received = b - a
    \/ \E a, b, c, d \in Ends(n) :
         /\ a < b /\ b < c /\ c < d /\ got = (a .. b - 1) \cup (c .. d - 1)
         /\ buckets = Two(Piece(n, a, b), Piece(n, c, d)) /\ received = (b - a) + (d - c)

Incomplete(n, buckets, received) ==
    [number |-> n, size |-> Flight[n], ready |-> FALSE, buckets |-> buckets,
     received |-> received]

MessageInv(m, got) ==
    /\ m = [number |-> m.number, size |-> Flight[m.number], ready |-> m.ready,
            buckets |-> m.buckets, received |-> m.received]
    /\ Keeps(m.number, m.buckets, m.received, got)
    /\ m.ready = (m.received = m.size)

Got(arr, n) == UNION {Positions(f) : f \in {g \in arr : Number(g) = n}}

Msgs == [number : Messages, size : Nat, ready : BOOLEAN,
         buckets : Seq([offset : Nat, data : Seq(Int)]), received : Nat]

\* The list in the order of the numbers, each message with what has arrived of it.
StoredInv(stored, expected, arr) ==
    /\ stored \in Seq(Msgs)
    /\ \A i, j \in DOMAIN stored : i < j => Number(stored[i]) < Number(stored[j])
    /\ \A i \in DOMAIN stored : /\ Number(stored[i]) \in expected .. Len(Flight)
                                /\ MessageInv(stored[i], Got(arr, Number(stored[i])))
    /\ \A f \in arr : Number(f) >= expected
                        => \E i \in DOMAIN stored : Number(stored[i]) = Number(f)

Ready(m) == m.ready

\* The next message is not complete: it would have been processed.
Waits(stored, expected) == stored = <<>> \/ Number(stored[1]) # expected \/ ~Ready(stored[1])

Wholes(n) == [i \in 1 .. n |-> Whole(i)]

Receiver(expected, stored, processed) ==
    [expected |-> expected, stored |-> stored, processed |-> processed, failed |-> FALSE]

RxInv(r, arr) ==
    \E x \in 1 .. Len(Flight) + 1 : \E stored :
        /\ r = Receiver(x, stored, Wholes(x - 1))
        /\ StoredInv(stored, x, arr) /\ Waits(stored, x)

SendInv == TxInv(tx, log) /\ arrived \subseteq wire /\ wire \subseteq AllFragments

IInv == SendInv /\ RxInv(rx, arrived)

-----------------------------------------------------------------------------
(* Numbers, sets and sequences.                                            *)

LEMMA MinOfTwo ==
    ASSUME NEW a \in Int, NEW b \in Int
    PROVE  Min({a, b}) = IF a <= b THEN a ELSE b
BY DEF Min

LEMMA MaxOfTwo ==
    ASSUME NEW a \in Int, NEW b \in Int
    PROVE  Max({a, b}) = IF a <= b THEN b ELSE a
BY DEF Max

(* A nonempty set of numbers has a least element.                          *)
LEMMA HasLeast ==
    ASSUME NEW T \in SUBSET Nat, T # {}
    PROVE  Min(T) \in T /\ \A y \in T : Min(T) <= y
<1> DEFINE R == {p \in Nat \X Nat : p[1] < p[2]}
<1>1. IsWellFoundedOn(R, Nat)
  <2>1. R = OpToRel(<, Nat)
    BY DEF OpToRel
  <2> QED BY <2>1, NatLessThanWellFounded, Zenon
<1> HIDE DEF R
<1>2. PICK x \in T : \A y \in T : <<y, x>> \notin R
  BY <1>1, WFMin
<1>3. ASSUME NEW y \in T
      PROVE  x <= y
  <2>1. y < x => <<y, x>> \in R
    BY DEF R
  <2> QED BY <1>2, <2>1
<1> QED BY <1>3 DEF Min

(* One that has a bound has a greatest.                                     *)
LEMMA HasGreatest ==
    ASSUME NEW T \in SUBSET Nat, T # {}, NEW bound \in Nat, \A x \in T : x <= bound
    PROVE  Max(T) \in T /\ \A y \in T : y <= Max(T)
<1> DEFINE D == {bound - x : x \in T}
<1>1. D \in SUBSET Nat /\ D # {}
  <2>1. \A x \in T : bound - x \in Nat
    OBVIOUS
  <2> QED BY <2>1
<1>2. PICK d \in D : \A y \in D : d <= y
  BY <1>1, HasLeast
<1>3. PICK x \in T : d = bound - x
  BY <1>2
<1>4. ASSUME NEW y \in T
      PROVE  y <= x
  <2>1. bound - y \in D
    OBVIOUS
  <2>2. d <= bound - y
    BY <1>2, <2>1
  <2> QED BY <1>3, <2>2
<1> QED BY <1>4 DEF Max

(* The elements of s from first to last.                                     *)
LEMMA SubSeqIs ==
    ASSUME NEW S, NEW s \in Seq(S), NEW first \in Nat \ {0}, NEW last \in 0 .. Len(s),
           first <= last + 1
    PROVE  /\ SubSeq(s, first, last) \in Seq(S)
           /\ Len(SubSeq(s, first, last)) = last + 1 - first
           /\ \A i \in 1 .. last + 1 - first : SubSeq(s, first, last)[i] = s[first + i - 1]
<1>1. \A i \in first .. last : s[i] \in S
  BY LenProperties
<1>2. /\ SubSeq(s, first, last) \in Seq(S)
      /\ Len(SubSeq(s, first, last)) = IF first <= last THEN last - first + 1 ELSE 0
      /\ \A i \in 1 .. last - first + 1 : SubSeq(s, first, last)[i] = s[first + i - 1]
  BY <1>1, SubSeqProperties
<1> QED BY <1>2

(* e in the place of the elements of s from i to l.                           *)
\* s with e in the place of its elements from i to l.
Spliced(s, i, e, l) == SubSeq(s, 1, i - 1) \o <<e>> \o SubSeq(s, l + 1, Len(s))

HasSpliced(t, S, s, i, e, l) ==
    /\ t \in Seq(S) /\ Len(t) = Len(s) - l + i
    /\ \A k \in 1 .. i - 1 : t[k] = s[k]
    /\ t[i] = e
    /\ \A k \in i + 1 .. Len(t) : t[k] = s[k - i + l]

LEMMA SpliceIs ==
    ASSUME NEW S, NEW s \in Seq(S), NEW i \in Nat \ {0}, NEW l \in Nat,
           i <= l + 1, l <= Len(s), NEW e \in S, NEW t, t = Spliced(s, i, e, l)
    PROVE  HasSpliced(t, S, s, i, e, l)
<1> DEFINE a == SubSeq(s, 1, i - 1)
           b == a \o <<e>>
           c == SubSeq(s, l + 1, Len(s))
<1>1. Len(s) \in Nat
  BY LenProperties
<1>2. a \in Seq(S) /\ Len(a) = i - 1 /\ \A k \in 1 .. i - 1 : a[k] = s[k]
  <2>1. i - 1 \in 0 .. Len(s) /\ 1 <= (i - 1) + 1 /\ (i - 1) + 1 - 1 = i - 1
    BY <1>1
  <2>2. /\ a \in Seq(S) /\ Len(a) = (i - 1) + 1 - 1
        /\ \A k \in 1 .. (i - 1) + 1 - 1 : a[k] = s[1 + k - 1]
    BY <2>1, SubSeqIs
  <2> HIDE DEF a
  <2> QED BY <2>1, <2>2
<1>3. c \in Seq(S) /\ Len(c) = Len(s) - l /\ \A k \in 1 .. Len(s) - l : c[k] = s[l + k]
  <2>1. l + 1 \in Nat \ {0} /\ Len(s) \in 0 .. Len(s) /\ l + 1 <= Len(s) + 1
    BY <1>1
  <2>2. /\ c \in Seq(S) /\ Len(c) = Len(s) + 1 - (l + 1)
        /\ \A k \in 1 .. Len(s) + 1 - (l + 1) : c[k] = s[(l + 1) + k - 1]
    BY <2>1, SubSeqIs
  <2> HIDE DEF c
  <2> QED BY <1>1, <2>1, <2>2
<1>4. <<e>> \in Seq(S) /\ Len(<<e>>) = 1 /\ <<e>>[1] = e
  OBVIOUS
<1> HIDE DEF a, c
<1>5. /\ b \in Seq(S) /\ Len(b) = i
      /\ \A k \in 1 .. i : b[k] = IF k <= i - 1 THEN a[k] ELSE <<e>>[k - (i - 1)]
  BY <1>2, <1>4, ConcatProperties
<1>6. b[i] = e
  BY <1>4, <1>5
<1> HIDE DEF b
<1>7. PICK r \in Nat : r = Len(s) - l
  BY <1>1
<1>8. /\ b \o c \in Seq(S) /\ Len(b \o c) = Len(b) + Len(c)
      /\ \A k \in 1 .. Len(b) + Len(c) : (b \o c)[k] = IF k <= Len(b) THEN b[k] ELSE c[k - Len(b)]
  BY <1>3, <1>5, ConcatProperties
<1>9. PICK u \in Seq(S) : u = b \o c
  BY <1>8
<1>10. /\ Len(u) = i + r
       /\ \A k \in 1 .. i + r : u[k] = IF k <= i THEN b[k] ELSE c[k - i]
  <2>1. Len(b) = i /\ Len(c) = r
    BY <1>3, <1>5, <1>7
  <2> QED BY <1>8, <1>9, <2>1
<1>11. \A k \in 1 .. i - 1 : u[k] = s[k]
  BY <1>2, <1>5, <1>10
<1>12. u[i] = e
  BY <1>6, <1>10
<1>13. ASSUME NEW k \in i + 1 .. i + r
       PROVE  u[k] = s[k - i + l]
  <2>1. k - i \in 1 .. r /\ l + (k - i) = k - i + l
    OBVIOUS
  <2>2. u[k] = c[k - i]
    BY <1>10
  <2> QED BY <1>3, <1>7, <2>1, <2>2
<1>14. t = u
  BY <1>9 DEF Spliced, a, b, c
<1>15. Len(u) = Len(s) - l + i
  BY <1>1, <1>7, <1>10
<1> QED BY <1>10, <1>11, <1>12, <1>13, <1>14, <1>15 DEF HasSpliced

LEMMA Splice ==
    ASSUME NEW S, NEW s \in Seq(S), NEW i \in Nat \ {0}, NEW l \in Nat,
           i <= l + 1, l <= Len(s), NEW e \in S, NEW t, t = Spliced(s, i, e, l)
    PROVE  /\ t \in Seq(S) /\ Len(t) = Len(s) - l + i
           /\ \A k \in 1 .. i - 1 : t[k] = s[k]
           /\ t[i] = e
           /\ \A k \in i + 1 .. Len(t) : t[k] = s[k - i + l]
<1>1. HasSpliced(t, S, s, i, e, l)
  BY SpliceIs
<1> QED BY <1>1 DEF HasSpliced

LEMMA ContentIs ==
    ASSUME NEW n, NEW a \in Nat, NEW b \in Nat, a <= b
    PROVE  /\ Content(n, a, b) \in Seq(Int) /\ Len(Content(n, a, b)) = b - a
           /\ DOMAIN Content(n, a, b) = 1 .. b - a
           /\ \A i \in 1 .. b - a : Content(n, a, b)[i] = a + i - 1
<1>1. b - a \in Nat /\ Content(n, a, b) = [i \in 1 .. b - a |-> a + i - 1]
  BY DEF Content
<1>2. \A i \in 1 .. b - a : a + i - 1 \in Int
  OBVIOUS
<1> QED BY <1>1, <1>2

LEMMA PieceIs ==
    ASSUME NEW n, NEW a \in Nat, NEW b \in Nat, a <= b
    PROVE  /\ Piece(n, a, b).offset = a /\ End(Piece(n, a, b)) = b
           /\ Piece(n, a, b).data = Content(n, a, b)
           /\ Len(Piece(n, a, b).data) = b - a
           /\ Positions(Piece(n, a, b)) = a .. b - 1
           /\ Piece(n, a, b) \in [offset : Nat, data : Seq(Int)]
BY ContentIs DEF Piece, End, Positions

-----------------------------------------------------------------------------
(* Copying.                                                                *)

LEMMA FromIs ==
    ASSUME NEW n, NEW a \in Nat, NEW b \in Nat, a <= b, NEW k \in 0 .. b - a
    PROVE  From(Content(n, a, b), k) = Content(n, a + k, b)
<1> DEFINE s == Content(n, a, b)
           t == Content(n, a + k, b)
<1>1. s \in Seq(Int) /\ Len(s) = b - a /\ \A i \in 1 .. b - a : s[i] = a + i - 1
  BY ContentIs
<1>2. t \in Seq(Int) /\ Len(t) = b - a - k /\ \A i \in 1 .. b - a - k : t[i] = a + k + i - 1
  BY ContentIs
<1> HIDE DEF s, t
<1>3. /\ SubSeq(s, k + 1, b - a) \in Seq(Int)
      /\ Len(SubSeq(s, k + 1, b - a)) = b - a - k
      /\ \A i \in 1 .. b - a - k : SubSeq(s, k + 1, b - a)[i] = s[k + i]
  <2>1. \A i \in k + 1 .. b - a : s[i] \in Int
    BY <1>1
  <2>2. \A i \in 1 .. b - a - k : (k + 1) + i - 1 = k + i
    OBVIOUS
  <2> QED BY <2>1, <2>2, SubSeqProperties
<1>4. SubSeq(s, k + 1, b - a) = t
  <2>1. \A i \in 1 .. b - a - k : SubSeq(s, k + 1, b - a)[i] = t[i]
    BY <1>1, <1>2, <1>3
  <2> QED BY <1>2, <1>3, <2>1, SeqEqual
<1> QED BY <1>1, <1>4 DEF From, s, t

-----------------------------------------------------------------------------
(* Joining buckets.                                                        *)

LEMMA ReadContent ==
    ASSUME NEW n, NEW a \in Nat, NEW b \in Nat, a <= b, NEW i \in Int
    PROVE  Read(Content(n, a, b), i) = IF 1 <= i /\ i <= b - a THEN a + i - 1 ELSE Junk
BY ContentIs DEF Read

LEMMA CopyDomain ==
    ASSUME NEW buf, NEW at, NEW src, NEW m
    PROVE  DOMAIN Copy(buf, at, src, m) = DOMAIN buf /\ Copy(buf, at, src, m) = [i \in DOMAIN buf |-> Copy(buf, at, src, m)[i]]
BY DEF Copy

LEMMA CopyContent ==
    ASSUME NEW size \in Nat, NEW buf, DOMAIN buf = 1 .. size, NEW at \in Nat,
           NEW n, NEW a \in Nat, NEW b \in Nat, a <= b, NEW m \in 0 .. b - a,
           NEW i \in 1 .. size
    PROVE  Copy(buf, at, Content(n, a, b), m)[i]
             = IF at < i /\ i <= at + m THEN a + (i - at) - 1 ELSE buf[i]
<1>1. CASE i \in at + 1 .. at + m
  <2>1. Read(Content(n, a, b), i - at) = a + (i - at) - 1
    BY <1>1, ReadContent
  <2> QED BY <1>1, <2>1 DEF Copy
<1>2. CASE i \notin at + 1 .. at + m
  BY <1>2 DEF Copy
<1> QED BY <1>1, <1>2

(* The memory of the new bucket holds the old one's bytes first.           *)
LEMMA ReallocDomain ==
    ASSUME NEW s, NEW size
    PROVE  DOMAIN Realloc(s, size) = 1 .. size
BY DEF Realloc

LEMMA ReallocContent ==
    ASSUME NEW n, NEW a \in Nat, NEW b \in Nat, a <= b, NEW size \in Nat,
           NEW i \in 1 .. size, i <= b - a
    PROVE  Realloc(Content(n, a, b), size)[i] = a + i - 1
BY ReadContent DEF Realloc

\* The larger bucket with frag, and with frag and next.
Joined(cur, next, frag) == DtlsMsgCombineFragBuckets(cur, next, FALSE, frag)
Bridged(cur, next, frag) == DtlsMsgCombineFragBuckets(cur, next, TRUE, frag)

(* frag ends where the bucket begins.                                      *)
LEMMA CombineLeft ==
    ASSUME NEW n, NEW a \in Nat, NEW b \in Nat, NEW f \in Nat, f < a, a < b, NEW next
    PROVE  Joined(Piece(n, a, b), next, Piece(n, f, a)) = Piece(n, f, b)
<1>1. PICK size \in Nat, shift \in Nat, rest \in Nat :
         size = b - f /\ shift = a - f /\ rest = b - a
  OBVIOUS
<1> DEFINE mem   == Realloc(Content(n, a, b), size)
           moved == Copy(mem, shift, mem, rest)
           data  == Copy(moved, 0, Content(n, f, a), shift)
<1>2. Joined(Piece(n, a, b), next, Piece(n, f, a)) = [offset |-> f, data |-> data]
  <2>1. Min({a, f}) = f /\ Max({b, a}) = b /\ rest - (a - a) = rest /\ f + size > a
    BY <1>1, MinOfTwo, MaxOfTwo
  <2> DEFINE cur == Piece(n, a, b)
             frag == Piece(n, f, a)
  <2>2. /\ cur.offset = a /\ End(cur) = b /\ cur.data = Content(n, a, b) /\ Len(cur.data) = rest
        /\ frag.offset = f /\ End(frag) = a /\ frag.data = Content(n, f, a)
        /\ Len(frag.data) = shift
    BY <1>1, PieceIs
  <2> HIDE DEF cur, frag
  <2>3. DtlsMsgCombineFragBuckets(cur, next, FALSE, frag) = [offset |-> f, data |-> data]
    BY <1>1, <2>1, <2>2 DEF DtlsMsgCombineFragBuckets
  <2> QED BY <2>3 DEF cur, frag, Joined
<1>3. DOMAIN mem = 1 .. size /\ DOMAIN moved = 1 .. size
  BY ReallocDomain, CopyDomain
<1>4. ASSUME NEW i \in 1 .. size, shift < i
      PROVE  moved[i] = f + i - 1
  <2>1. PICK j \in 1 .. size : j = i - shift /\ j <= b - a /\ a + j - 1 = f + i - 1
    BY <1>1, <1>4
  <2>2. mem[j] = f + i - 1
    BY <2>1, ReallocContent
  <2>3. i \in shift + 1 .. shift + rest
    BY <1>1, <1>4
  <2> HIDE DEF mem
  <2> QED BY <1>3, <2>1, <2>2, <2>3 DEF Copy, Read
<1> HIDE DEF moved
<1>5. DOMAIN data = 1 .. size
  BY <1>3, CopyDomain
<1>6. ASSUME NEW i \in 1 .. size
      PROVE  data[i] = f + i - 1
  BY <1>1, <1>3, <1>4, CopyContent
<1>7. data = Content(n, f, b)
  <2>1. data = [i \in 1 .. size |-> data[i]]
    BY <1>3, CopyDomain
  <2> HIDE DEF data
  <2> QED BY <1>1, <1>6, <2>1 DEF Content
<1> QED BY <1>2, <1>7 DEF Piece

(* frag begins where the bucket ends.                                      *)
LEMMA CombineRight ==
    ASSUME NEW n, NEW a \in Nat, NEW b \in Nat, NEW e \in Nat, a < b, b < e, NEW next
    PROVE  Joined(Piece(n, a, b), next, Piece(n, b, e)) = Piece(n, a, e)
<1>1. PICK size \in Nat, old \in Nat, new \in Nat :
         size = e - a /\ old = b - a /\ new = e - b
  OBVIOUS
<1> DEFINE mem  == Realloc(Content(n, a, b), size)
           data == Copy(mem, old, Content(n, b, e), new)
<1>2. Joined(Piece(n, a, b), next, Piece(n, b, e)) = [offset |-> a, data |-> data]
  <2>1. /\ Min({a, b}) = a /\ Max({b, e}) = e /\ a # b /\ a + size - b = new /\ b - b = 0
        /\ From(Content(n, b, e), 0) = Content(n, b, e)
    BY <1>1, MinOfTwo, MaxOfTwo, FromIs
  <2> DEFINE cur == Piece(n, a, b)
             frag == Piece(n, b, e)
  <2>2. /\ cur.offset = a /\ End(cur) = b /\ cur.data = Content(n, a, b) /\ Len(cur.data) = old
        /\ frag.offset = b /\ End(frag) = e /\ frag.data = Content(n, b, e)
    BY <1>1, PieceIs
  <2> HIDE DEF cur, frag
  <2>3. DtlsMsgCombineFragBuckets(cur, next, FALSE, frag) = [offset |-> a, data |-> data]
    BY <1>1, <2>1, <2>2 DEF DtlsMsgCombineFragBuckets
  <2> QED BY <2>3 DEF cur, frag, Joined
<1>3. DOMAIN mem = 1 .. size
  BY ReallocDomain
<1>4. ASSUME NEW i \in 1 .. size
      PROVE  data[i] = a + i - 1
  BY <1>1, <1>3, CopyContent, ReallocContent
<1>5. data = Content(n, a, e)
  <2>1. data = [i \in 1 .. size |-> data[i]]
    BY <1>3, CopyDomain
  <2> HIDE DEF data
  <2> QED BY <1>1, <1>4, <2>1 DEF Content
<1> QED BY <1>2, <1>5 DEF Piece

(* frag closes the gap between two buckets; the larger one is grown.       *)
LEMMA CombineBoth ==
    ASSUME NEW n, NEW a \in Nat, NEW b \in Nat, NEW c \in Nat, NEW d \in Nat,
           a < b, b < c, c < d
    PROVE  Bridged(Piece(n, a, b), Piece(n, c, d), Piece(n, b, c)) = Piece(n, a, d)
<1>1. PICK size \in Nat, first \in Nat, gap \in Nat, last \in Nat, at \in Nat :
         size = d - a /\ first = b - a /\ gap = c - b /\ last = d - c /\ at = c - a
  OBVIOUS
<1> DEFINE mem == Realloc(IF first >= last THEN Content(n, a, b) ELSE Content(n, c, d), size)
           buf == Copy(mem, at, Content(n, c, d), last)
           both == IF first >= last THEN buf ELSE Copy(buf, 0, Content(n, a, b), first)
           data == Copy(both, first, Content(n, b, c), gap)
<1>2. Bridged(Piece(n, a, b), Piece(n, c, d), Piece(n, b, c)) = [offset |-> a, data |-> data]
  <2>1. /\ Min({a, b}) = a /\ a # b /\ b - b = 0
        /\ From(Content(n, b, c), 0) = Content(n, b, c)
    BY <1>1, MinOfTwo, FromIs
  <2> DEFINE cur  == Piece(n, a, b)
             next == Piece(n, c, d)
             frag == Piece(n, b, c)
  <2>2. /\ cur.offset = a /\ End(cur) = b /\ cur.data = Content(n, a, b) /\ Len(cur.data) = first
        /\ next.offset = c /\ End(next) = d /\ next.data = Content(n, c, d)
        /\ Len(next.data) = last
        /\ frag.offset = b /\ frag.data = Content(n, b, c)
    BY <1>1, PieceIs
  <2> HIDE DEF cur, next, frag
  <2>3. DtlsMsgCombineFragBuckets(cur, next, TRUE, frag) = [offset |-> a, data |-> data]
    BY <1>1, <2>1, <2>2 DEF DtlsMsgCombineFragBuckets
  <2> QED BY <2>3 DEF cur, next, frag, Bridged
<1>3. DOMAIN mem = 1 .. size /\ DOMAIN buf = 1 .. size
  BY ReallocDomain, CopyDomain
<1>4. ASSUME NEW i \in 1 .. size, first >= last, i <= first
      PROVE  mem[i] = a + i - 1
  BY <1>1, <1>4, ReallocContent
<1> HIDE DEF mem
<1>5. ASSUME NEW i \in 1 .. size
      PROVE  /\ at < i => buf[i] = a + i - 1
             /\ i <= first /\ first >= last => buf[i] = a + i - 1
  BY <1>1, <1>3, <1>4, CopyContent
<1> HIDE DEF buf
<1>6. /\ DOMAIN both = 1 .. size
      /\ \A i \in 1 .. size : at < i \/ i <= first => both[i] = a + i - 1
  <2>1. CASE first >= last
    BY <1>3, <1>5, <2>1
  <2>2. CASE ~(first >= last)
    <3>1. both = Copy(buf, 0, Content(n, a, b), first)
      BY <2>2
    <3> HIDE DEF both
    <3>2. ASSUME NEW i \in 1 .. size, at < i \/ i <= first
          PROVE  both[i] = a + i - 1
      BY <1>1, <1>3, <1>5, <3>1, <3>2, CopyContent
    <3> QED BY <1>3, <3>1, <3>2, CopyDomain
  <2> QED BY <2>1, <2>2
<1> HIDE DEF both
<1>7. ASSUME NEW i \in 1 .. size
      PROVE  data[i] = a + i - 1
  BY <1>1, <1>6, CopyContent
<1>8. data = Content(n, a, d)
  <2>1. data = [i \in 1 .. size |-> data[i]]
    BY <1>6, CopyDomain
  <2> HIDE DEF data
  <2> QED BY <1>1, <1>7, <2>1 DEF Content
<1> QED BY <1>2, <1>8 DEF Piece

(* The size of one bucket or two. *)
LEMMA SizeOfIs ==
    ASSUME NEW s, NEW D, D = DOMAIN s, D = {1} \/ D = {1, 2},
           NEW p \in Nat, Len(s[1].data) = p, NEW q \in Nat, 2 \in D => Len(s[2].data) = q
    PROVE  SizeOf(s) = IF 2 \in D THEN p + q ELSE p
<1> DEFINE F == [t \in SUBSET D |-> (IF 1 \in t THEN p ELSE 0) + (IF 2 \in t THEN q ELSE 0)]
           Sums(sum) == sum = [t \in SUBSET D |->
                                 IF t = {} THEN 0 ELSE Len(s[CHOOSE x \in t : TRUE].data)
                                                         + sum[t \ {CHOOSE x \in t : TRUE}]]
           total == CHOOSE sum : Sums(sum)
<1>1. SizeOf(s) = total[D]
  BY DEF SizeOf, MapThenSumSet, MapThenFoldSet
<1>2. ASSUME NEW t \in SUBSET D, t # {}
      PROVE  F[t] = Len(s[CHOOSE x \in t : TRUE].data) + F[t \ {CHOOSE x \in t : TRUE}]
  <2>1. PICK y \in t : y = CHOOSE x \in t : TRUE
    BY <1>2
  <2>2. CASE y = 1
    <3>1. F[t] = p + (IF 2 \in t THEN q ELSE 0)
      BY <2>2
    <3>2. F[t \ {1}] = IF 2 \in t THEN q ELSE 0
      OBVIOUS
    <3> HIDE DEF F
    <3> QED BY <2>1, <2>2, <3>1, <3>2
  <2>3. CASE y = 2
    <3>1. F[t] = q + (IF 1 \in t THEN p ELSE 0) /\ Len(s[2].data) = q
      BY <2>3
    <3>2. F[t \ {2}] = IF 1 \in t THEN p ELSE 0
      OBVIOUS
    <3> HIDE DEF F
    <3> QED BY <2>1, <2>3, <3>1, <3>2
  <2> QED BY <2>2, <2>3
<1>3. Sums(total)
  <2>1. F = [t \in SUBSET D |-> F[t]]
    OBVIOUS
  <2>2. F[{}] = 0
    OBVIOUS
  <2> HIDE DEF F
  <2>3. Sums(F)
    BY <1>2, <2>1, <2>2
  <2> HIDE DEF Sums
  <2> QED BY <2>3, Zenon
<1> HIDE DEF total
<1>4. total[{}] = 0
  BY <1>3
<1>5. total[{1}] = p
  <2>1. (CHOOSE x \in {1} : TRUE) = 1 /\ {1} \ {1} = {}
    OBVIOUS
  <2> QED BY <1>3, <1>4, <2>1
<1>6. 2 \in D => total[{2}] = q
  <2>1. (CHOOSE x \in {2} : TRUE) = 2 /\ {2} \ {2} = {}
    OBVIOUS
  <2> QED BY <1>3, <1>4, <2>1
<1>7. ASSUME 2 \in D
      PROVE  total[{1, 2}] = p + q
  <2>1. PICK y \in {1, 2} : y = CHOOSE x \in {1, 2} : TRUE
    OBVIOUS
  <2>2. total[{1, 2}] = Len(s[y].data) + total[{1, 2} \ {y}]
    BY <1>3, <1>7, <2>1
  <2>3. {1, 2} \ {1} = {2} /\ {1, 2} \ {2} = {1}
    OBVIOUS
  <2>4. total[{1, 2}] = p + total[{2}] \/ total[{1, 2}] = q + total[{1}]
    BY <1>7, <2>2, <2>3
  <2> HIDE DEF Sums
  <2> QED BY <1>5, <1>6, <1>7, <2>4
<1> QED BY <1>1, <1>5, <1>7

-----------------------------------------------------------------------------
(* A fragment joins the buckets of a message.                              *)

LEMMA SpliceOne ==
    ASSUME NEW x, NEW z
    PROVE  /\ SubSeq(<<x>>, 1, 0) \o <<z>> \o From(<<x>>, 1) = <<z>>
           /\ SubSeq(<<x>>, 1, 1) = <<x>>
<1> DEFINE S == {x, z}
<1>1. <<x>> \in Seq(S) /\ Len(<<x>>) = 1 /\ <<z>> \in Seq(S) /\ Len(<<z>>) = 1
  OBVIOUS
<1>2. SubSeq(<<x>>, 1, 0) \o <<z>> \o From(<<x>>, 1) = <<z>>
  <2> DEFINE t == Spliced(<<x>>, 1, z, 1)
  <2>1. t \in Seq(S) /\ Len(t) = 1 /\ t[1] = z
    BY <1>1, Splice DEF Spliced
  <2> HIDE DEF t
  <2>2. t = <<z>>
    BY <2>1
  <2> QED BY <2>2 DEF t, From, Spliced
<1>3. SubSeq(<<x>>, 1, 1) = <<x>>
  BY <1>1, SubSeqFull
<1> QED BY <1>2, <1>3

LEMMA SpliceTwo ==
    ASSUME NEW x, NEW y, NEW z
    PROVE  /\ SubSeq(<<x, y>>, 1, 0) \o <<z>> \o From(<<x, y>>, 1) = <<z, y>>
           /\ SubSeq(<<x, y>>, 1, 0) \o <<z>> \o From(<<x, y>>, 2) = <<z>>
           /\ SubSeq(<<x, y>>, 1, 1) \o <<z>> \o From(<<x, y>>, 2) = <<x, z>>
           /\ SubSeq(<<x, y>>, 1, 1) = <<x>> /\ SubSeq(<<x, y>>, 1, 2) = <<x, y>>
           /\ SubSeq(<<x, y>>, 2, 2) = <<y>>
<1> DEFINE S == {x, y, z}
           s == <<x, y>>
<1>1. s \in Seq(S) /\ Len(s) = 2 /\ s[1] = x /\ s[2] = y
  OBVIOUS
<1>2. SubSeq(s, 1, 0) \o <<z>> \o From(s, 1) = <<z, y>>
  <2> DEFINE t == SubSeq(s, 1, 1 - 1) \o <<z>> \o SubSeq(s, 1 + 1, Len(s))
  <2>1. t \in Seq(S) /\ Len(t) = 2 /\ t[1] = z /\ \A k \in 2 .. Len(t) : t[k] = s[k - 1 + 1]
    <3> HIDE DEF s
    <3> QED BY <1>1, Splice
  <2> HIDE DEF s, t
  <2>2. t = <<z, y>>
    BY <1>1, <2>1
  <2> QED BY <2>2 DEF t, From, Spliced
<1>3. SubSeq(s, 1, 0) \o <<z>> \o From(s, 2) = <<z>>
  <2> DEFINE t == SubSeq(s, 1, 1 - 1) \o <<z>> \o SubSeq(s, 2 + 1, Len(s))
  <2>1. t \in Seq(S) /\ Len(t) = 1 /\ t[1] = z
    <3> HIDE DEF s
    <3> QED BY <1>1, Splice
  <2> HIDE DEF s, t
  <2>2. t = <<z>>
    BY <1>1, <2>1
  <2> QED BY <2>2 DEF t, From, Spliced
<1>4. SubSeq(s, 1, 1) \o <<z>> \o From(s, 2) = <<x, z>>
  <2> DEFINE t == SubSeq(s, 1, 2 - 1) \o <<z>> \o SubSeq(s, 2 + 1, Len(s))
  <2>1. t \in Seq(S) /\ Len(t) = 2 /\ t[2] = z /\ \A k \in 1 .. 2 - 1 : t[k] = s[k]
    <3> HIDE DEF s
    <3> QED BY <1>1, Splice
  <2> HIDE DEF s, t
  <2>2. t = <<x, z>>
    BY <1>1, <2>1
  <2> QED BY <2>2 DEF t, From, Spliced
<1>5. SubSeq(s, 1, 1) = <<x>>
  <2> DEFINE t == SubSeq(s, 1, 1)
  <2>1. t \in Seq(S) /\ Len(t) = 1 /\ t[1] = x
    <3> HIDE DEF s
    <3> QED BY <1>1, SubSeqIs
  <2> HIDE DEF s, t
  <2>2. t = <<x>>
    BY <2>1
  <2> QED BY <2>2 DEF t
<1>6. SubSeq(s, 2, 2) = <<y>>
  <2> DEFINE t == SubSeq(s, 2, 2)
  <2>1. t \in Seq(S) /\ Len(t) = 1 /\ t[1] = y
    <3> HIDE DEF s
    <3> QED BY <1>1, SubSeqIs
  <2> HIDE DEF s, t
  <2>2. t = <<y>>
    BY <2>1
  <2> QED BY <2>2 DEF t
<1>7. SubSeq(s, 1, 2) = s
  <2> HIDE DEF s
  <2> QED BY <1>1, SubSeqFull
<1> QED BY <1>2, <1>3, <1>4, <1>5, <1>6, <1>7

LEMMA IncompleteIs ==
    ASSUME NEW n, NEW buckets, NEW received, NEW m, m = Incomplete(n, buckets, received)
    PROVE  /\ m.number = n /\ m.size = Flight[n] /\ ~m.ready
           /\ m.buckets = buckets /\ m.received = received
BY DEF Incomplete

(* The only bucket takes the fragment. *)
LEMMA CombineOnly ==
    ASSUME NEW n, NEW r, NEW frag, NEW x, NEW z, z = Joined(x, x, frag),
           Bytes(x) \in Nat, NEW c, c = r + Bytes(z) - Bytes(x)
    PROVE  Combine(Incomplete(n, One(x), r), 1, frag) = Incomplete(n, One(z), c)
<1>1. PICK m : m = Incomplete(n, <<x>>, r)
  OBVIOUS
<1> DEFINE bs == m.buckets
           J  == {k \in 1 + 1 .. Len(bs) : End(bs[k]) > End(frag)} \cup {Len(bs) + 1}
           j  == Min(J)
           next == bs[Min({j, Len(bs)})]
           bridges == j <= Len(bs) /\ End(frag) >= next.offset
           last == IF bridges THEN j ELSE j - 1
           new == DtlsMsgCombineFragBuckets(bs[1], next, bridges, frag)
           buckets == SubSeq(bs, 1, 1 - 1) \o <<new>> \o From(bs, last)
           size == SizeOf(SubSeq(bs, 1, last))
<1>2. bs = <<x>> /\ m.received = r
  BY <1>1, IncompleteIs
<1>3. Len(bs) = 1 /\ bs[1] = x
  BY <1>2
<1>4. J = {2}
  <2> HIDE DEF bs
  <2> QED BY <1>3
<1>5. j = 2 /\ Min({2, 1}) = 1
  <2> HIDE DEF J
  <2> QED BY <1>4, MinOfTwo DEF Min
<1>6. next = x /\ ~bridges /\ last = 1
  <2> HIDE DEF j, bs
  <2> QED BY <1>3, <1>5 DEF Start
<1>7. new = z
  <2> HIDE DEF bs, next, bridges
  <2>1. bridges = FALSE
    BY <1>6 DEF bridges
  <2> QED BY <1>3, <1>6, <2>1, Zenon DEF Joined
<1>8. SubSeq(bs, 1, 1 - 1) \o <<z>> \o From(bs, 1) = <<z>> /\ SubSeq(bs, 1, 1) = <<x>>
  BY <1>2, SpliceOne
<1>9. SizeOf(<<x>>) = Bytes(x)
  <2>1. DOMAIN <<x>> = {1} /\ <<x>>[1] = x
    OBVIOUS
  <2> QED BY <2>1, SizeOfIs DEF Bytes
<1>10. buckets = <<z>> /\ size = Bytes(x)
  <2> HIDE DEF bs, new, last
  <2> QED BY <1>6, <1>7, <1>8, <1>9
<1>11. PICK w : w = Combine(m, 1, frag)
  OBVIOUS
<1>12. w = [m EXCEPT !.buckets = <<z>>, !.received = c]
  <2>1. Combine(m, 1, frag) =
          [m EXCEPT !.buckets = buckets, !.received = @ + Bytes(new) - size]
    BY Zenon DEF Combine, Bytes
  <2> HIDE DEF buckets, size, new
  <2> QED BY <1>2, <1>7, <1>10, <1>11, <2>1
<1> HIDE DEF buckets, size, new, bs
<1>13. w = Incomplete(n, <<z>>, c)
  BY <1>1, <1>12 DEF Incomplete
<1>14. One(x) = <<x>> /\ One(z) = <<z>>
  BY DEF One, Two
<1> QED BY <1>1, <1>11, <1>13, <1>14

(* The first of two buckets takes it and does not reach the second. *)
LEMMA CombineFirst ==
    ASSUME NEW n, NEW r, NEW frag, NEW x, NEW y, NEW z, z = Joined(x, y, frag),
           Bytes(x) \in Nat,
           End(y) > End(frag), ~(End(frag) >= Start(y)), NEW c, c = r + Bytes(z) - Bytes(x)
    PROVE  Combine(Incomplete(n, Two(x, y), r), 1, frag) = Incomplete(n, Two(z, y), c)
<1>1. PICK m : m = Incomplete(n, <<x, y>>, r)
  OBVIOUS
<1> DEFINE bs == m.buckets
           J  == {k \in 1 + 1 .. Len(bs) : End(bs[k]) > End(frag)} \cup {Len(bs) + 1}
           j  == Min(J)
           next == bs[Min({j, Len(bs)})]
           bridges == j <= Len(bs) /\ End(frag) >= next.offset
           last == IF bridges THEN j ELSE j - 1
           new == DtlsMsgCombineFragBuckets(bs[1], next, bridges, frag)
           buckets == SubSeq(bs, 1, 1 - 1) \o <<new>> \o From(bs, last)
           size == SizeOf(SubSeq(bs, 1, last))
<1>2. bs = <<x, y>> /\ m.received = r
  BY <1>1, IncompleteIs
<1>3. Len(bs) = 2 /\ bs[1] = x /\ bs[2] = y
  BY <1>2
<1>4. J = {2, 3}
  <2> HIDE DEF bs
  <2> QED BY <1>3
<1>5. j = 2 /\ Min({2, 2}) = 2
  <2> HIDE DEF J
  <2> QED BY <1>4, MinOfTwo
<1>6. next = y /\ ~bridges /\ last = 1
  <2> HIDE DEF j, bs
  <2> QED BY <1>3, <1>5 DEF Start
<1>7. new = z
  <2> HIDE DEF bs, next, bridges
  <2>1. bridges = FALSE
    BY <1>6 DEF bridges
  <2> QED BY <1>3, <1>6, <2>1, Zenon DEF Joined
<1>8. SubSeq(bs, 1, 1 - 1) \o <<z>> \o From(bs, 1) = <<z, y>> /\ SubSeq(bs, 1, 1) = <<x>>
  BY <1>2, SpliceTwo
<1>9. SizeOf(<<x>>) = Bytes(x)
  <2>1. DOMAIN <<x>> = {1} /\ <<x>>[1] = x
    OBVIOUS
  <2> QED BY <2>1, SizeOfIs DEF Bytes
<1>10. buckets = <<z, y>> /\ size = Bytes(x)
  <2> HIDE DEF bs, new, last
  <2> QED BY <1>6, <1>7, <1>8, <1>9
<1>11. PICK w : w = Combine(m, 1, frag)
  OBVIOUS
<1>12. w = [m EXCEPT !.buckets = <<z, y>>, !.received = c]
  <2>1. Combine(m, 1, frag) =
          [m EXCEPT !.buckets = buckets, !.received = @ + Bytes(new) - size]
    BY Zenon DEF Combine, Bytes
  <2> HIDE DEF buckets, size, new
  <2> QED BY <1>2, <1>7, <1>10, <1>11, <2>1
<1> HIDE DEF buckets, size, new, bs
<1>13. w = Incomplete(n, <<z, y>>, c)
  BY <1>1, <1>12 DEF Incomplete
<1>14. Two(x, y) = <<x, y>> /\ Two(z, y) = <<z, y>>
  BY DEF One, Two
<1> QED BY <1>1, <1>11, <1>13, <1>14

(* It reaches the second. *)
LEMMA CombineGap ==
    ASSUME NEW n, NEW r, NEW frag, NEW x, NEW y, NEW z, z = Bridged(x, y, frag),
           Bytes(x) \in Nat,
           Bytes(y) \in Nat,
           End(y) > End(frag), End(frag) >= Start(y), NEW c, c = r + Bytes(z) - (Bytes(x) + Bytes(y))
    PROVE  Combine(Incomplete(n, Two(x, y), r), 1, frag) = Incomplete(n, One(z), c)
<1>1. PICK m : m = Incomplete(n, <<x, y>>, r)
  OBVIOUS
<1> DEFINE bs == m.buckets
           J  == {k \in 1 + 1 .. Len(bs) : End(bs[k]) > End(frag)} \cup {Len(bs) + 1}
           j  == Min(J)
           next == bs[Min({j, Len(bs)})]
           bridges == j <= Len(bs) /\ End(frag) >= next.offset
           last == IF bridges THEN j ELSE j - 1
           new == DtlsMsgCombineFragBuckets(bs[1], next, bridges, frag)
           buckets == SubSeq(bs, 1, 1 - 1) \o <<new>> \o From(bs, last)
           size == SizeOf(SubSeq(bs, 1, last))
<1>2. bs = <<x, y>> /\ m.received = r
  BY <1>1, IncompleteIs
<1>3. Len(bs) = 2 /\ bs[1] = x /\ bs[2] = y
  BY <1>2
<1>4. J = {2, 3}
  <2> HIDE DEF bs
  <2> QED BY <1>3
<1>5. j = 2 /\ Min({2, 2}) = 2
  <2> HIDE DEF J
  <2> QED BY <1>4, MinOfTwo
<1>6. next = y /\ bridges /\ last = 2
  <2> HIDE DEF j, bs
  <2> QED BY <1>3, <1>5 DEF Start
<1>7. new = z
  <2> HIDE DEF bs, next, bridges
  <2>1. bridges = TRUE
    BY <1>6 DEF bridges
  <2> QED BY <1>3, <1>6, <2>1, Zenon DEF Bridged
<1>8. SubSeq(bs, 1, 1 - 1) \o <<z>> \o From(bs, 2) = <<z>> /\ SubSeq(bs, 1, 2) = <<x, y>>
  BY <1>2, SpliceTwo
<1>9. SizeOf(<<x, y>>) = Bytes(x) + Bytes(y)
  <2>1. DOMAIN <<x, y>> = {1, 2} /\ <<x, y>>[1] = x /\ <<x, y>>[2] = y
    OBVIOUS
  <2> QED BY <2>1, SizeOfIs DEF Bytes
<1>10. buckets = <<z>> /\ size = (Bytes(x) + Bytes(y))
  <2> HIDE DEF bs, new, last
  <2> QED BY <1>6, <1>7, <1>8, <1>9
<1>11. PICK w : w = Combine(m, 1, frag)
  OBVIOUS
<1>12. w = [m EXCEPT !.buckets = <<z>>, !.received = c]
  <2>1. Combine(m, 1, frag) =
          [m EXCEPT !.buckets = buckets, !.received = @ + Bytes(new) - size]
    BY Zenon DEF Combine, Bytes
  <2> HIDE DEF buckets, size, new
  <2> QED BY <1>2, <1>7, <1>10, <1>11, <2>1
<1> HIDE DEF buckets, size, new, bs
<1>13. w = Incomplete(n, <<z>>, c)
  BY <1>1, <1>12 DEF Incomplete
<1>14. Two(x, y) = <<x, y>> /\ One(z) = <<z>>
  BY DEF One, Two
<1> QED BY <1>1, <1>11, <1>13, <1>14

(* The second of two buckets takes it. *)
LEMMA CombineSecond ==
    ASSUME NEW n, NEW r, NEW frag, NEW x, NEW y, NEW z, z = Joined(y, y, frag),
           Bytes(y) \in Nat, NEW c, c = r + Bytes(z) - Bytes(y)
    PROVE  Combine(Incomplete(n, Two(x, y), r), 2, frag) = Incomplete(n, Two(x, z), c)
<1>1. PICK m : m = Incomplete(n, <<x, y>>, r)
  OBVIOUS
<1> DEFINE bs == m.buckets
           J  == {k \in 2 + 1 .. Len(bs) : End(bs[k]) > End(frag)} \cup {Len(bs) + 1}
           j  == Min(J)
           next == bs[Min({j, Len(bs)})]
           bridges == j <= Len(bs) /\ End(frag) >= next.offset
           last == IF bridges THEN j ELSE j - 1
           new == DtlsMsgCombineFragBuckets(bs[2], next, bridges, frag)
           buckets == SubSeq(bs, 1, 2 - 1) \o <<new>> \o From(bs, last)
           size == SizeOf(SubSeq(bs, 2, last))
<1>2. bs = <<x, y>> /\ m.received = r
  BY <1>1, IncompleteIs
<1>3. Len(bs) = 2 /\ bs[1] = x /\ bs[2] = y
  BY <1>2
<1>4. J = {3}
  <2> HIDE DEF bs
  <2> QED BY <1>3
<1>5. j = 3 /\ Min({3, 2}) = 2
  <2> HIDE DEF J
  <2> QED BY <1>4, MinOfTwo DEF Min
<1>6. next = y /\ ~bridges /\ last = 2
  <2> HIDE DEF j, bs
  <2> QED BY <1>3, <1>5 DEF Start
<1>7. new = z
  <2> HIDE DEF bs, next, bridges
  <2>1. bridges = FALSE
    BY <1>6 DEF bridges
  <2> QED BY <1>3, <1>6, <2>1, Zenon DEF Joined
<1>8. SubSeq(bs, 1, 2 - 1) \o <<z>> \o From(bs, 2) = <<x, z>> /\ SubSeq(bs, 2, 2) = <<y>>
  BY <1>2, SpliceTwo
<1>9. SizeOf(<<y>>) = Bytes(y)
  <2>1. DOMAIN <<y>> = {1} /\ <<y>>[1] = y
    OBVIOUS
  <2> QED BY <2>1, SizeOfIs DEF Bytes
<1>10. buckets = <<x, z>> /\ size = Bytes(y)
  <2> HIDE DEF bs, new, last
  <2> QED BY <1>6, <1>7, <1>8, <1>9
<1>11. PICK w : w = Combine(m, 2, frag)
  OBVIOUS
<1>12. w = [m EXCEPT !.buckets = <<x, z>>, !.received = c]
  <2>1. Combine(m, 2, frag) =
          [m EXCEPT !.buckets = buckets, !.received = @ + Bytes(new) - size]
    BY Zenon DEF Combine, Bytes
  <2> HIDE DEF buckets, size, new
  <2> QED BY <1>2, <1>7, <1>10, <1>11, <2>1
<1> HIDE DEF buckets, size, new, bs
<1>13. w = Incomplete(n, <<x, z>>, c)
  BY <1>1, <1>12 DEF Incomplete
<1>14. Two(x, y) = <<x, y>> /\ Two(x, z) = <<x, z>>
  BY DEF One, Two
<1> QED BY <1>1, <1>11, <1>13, <1>14

-----------------------------------------------------------------------------
(* A fragment reaches a message that keeps what has come so far.           *)

LEMMA EndsAre ==
    ASSUME FewFragments, NEW n \in Messages, NEW x \in Ends(n)
    PROVE  /\ x \in Nat /\ x <= Flight[n] /\ Flight[n] \in Nat \ {0}
           /\ \/ x = 0 \/ x = MaxFragment \/ x = 2 * MaxFragment \/ x = 3 * MaxFragment
              \/ x = Flight[n]
BY FlightAssumption DEF Ends, Cuts, Messages

LEMMA OneWhole ==
    ASSUME FewFragments, NEW n \in Messages, NEW a \in Ends(n), NEW b \in Ends(n),
           b - a = Flight[n]
    PROVE  a = 0 /\ b = Flight[n]
BY EndsAre

LEMMA TwoNotWhole ==
    ASSUME FewFragments, NEW n \in Messages, NEW a \in Ends(n), NEW b \in Ends(n),
           NEW c \in Ends(n), NEW d \in Ends(n), b < c
    PROVE  (b - a) + (d - c) # Flight[n]
BY EndsAre

(* There are no six ends.                                                  *)
LEMMA FiveEnds ==
    ASSUME FewFragments, NEW n \in Messages,
           NEW a \in Ends(n), NEW b \in Ends(n), NEW c \in Ends(n),
           NEW d \in Ends(n), NEW e \in Ends(n), NEW f \in Ends(n),
           a < b, b < c, c < d, d < e, e < f
    PROVE  FALSE
<1>1. MaxFragment \in Nat \ {0} /\ Flight[n] <= 4 * MaxFragment
  BY FlightAssumption DEF FewFragments
<1> QED BY <1>1, EndsAre

LEMMA SetReached ==
    ASSUME NEW m, NEW frag, Len(m.buckets) \in Nat, DOMAIN m.buckets = 1 .. Len(m.buckets),
           NEW i \in 1 .. Len(m.buckets),
           ~m.ready, frag.offset <= End(m.buckets[i]),
           \A k \in 1 .. i - 1 : ~(frag.offset <= End(m.buckets[k]))
    PROVE  DtlsMsgSet(m, frag) =
             DtlsMsgAssembleCompleteMessage(
               IF frag.offset >= m.buckets[i].offset /\ End(frag) <= End(m.buckets[i]) THEN m
               ELSE IF i = 1 /\ End(frag) < m.buckets[i].offset
               THEN AddBucket(m, <<frag>> \o m.buckets, frag)
               ELSE Combine(m, i, frag))
<1> DEFINE reached == {k \in DOMAIN m.buckets : frag.offset <= End(m.buckets[k])}
<1>1. reached \in SUBSET Nat /\ i \in reached /\ \A k \in reached : i <= k
  OBVIOUS
<1>2. Min(reached) = i
  <2> HIDE DEF reached
  <2>1. Min(reached) \in reached /\ \A y \in reached : Min(reached) <= y
    BY <1>1, HasLeast
  <2>2. Min(reached) <= i /\ i <= Min(reached)
    BY <1>1, <2>1
  <2>3. Min(reached) \in Nat
    BY <1>1, <2>1
  <2> QED BY <2>2, <2>3
<1>3. reached # {}
  BY <1>1
<1> QED BY <1>2, <1>3 DEF DtlsMsgSet

(* A complete message is ready.                                            *)
LEMMA AssembleInv ==
    ASSUME FewFragments, NEW n \in Messages, NEW buckets, NEW received, NEW got,
           Keeps(n, buckets, received, got)
    PROVE  /\ MessageInv(DtlsMsgAssembleCompleteMessage(Incomplete(n, buckets, received)), got)
           /\ Number(DtlsMsgAssembleCompleteMessage(Incomplete(n, buckets, received))) = n
<1>1. PICK m : m = Incomplete(n, buckets, received)
  OBVIOUS
<1>2. /\ m.number = n /\ m.size = Flight[n] /\ ~m.ready
      /\ m.buckets = buckets /\ m.received = received
  BY <1>1, IncompleteIs
<1> DEFINE all == /\ received = Flight[n] /\ Len(buckets) = 1 /\ buckets[1].offset = 0
                  /\ Len(buckets[1].data) = Flight[n]
<1>3. all = (received = Flight[n])
  <2>1. ASSUME NEW a \in Ends(n), NEW b \in Ends(n), a < b,
               buckets = One(Piece(n, a, b)), received = b - a, received = Flight[n]
        PROVE  all
    <3>1. a = 0 /\ b = Flight[n] /\ Flight[n] \in Nat
      BY <2>1, EndsAre
    <3>2. /\ Piece(n, 0, Flight[n]).offset = 0
          /\ Len(Piece(n, 0, Flight[n]).data) = Flight[n] - 0
      BY <3>1, PieceIs
    <3> QED BY <2>1, <3>1, <3>2 DEF One
  <2>2. ASSUME NEW a \in Ends(n), NEW b \in Ends(n), NEW c \in Ends(n), NEW d \in Ends(n),
               a < b, b < c, c < d, received = (b - a) + (d - c)
        PROVE  received # Flight[n]
    BY <2>2, EndsAre
  <2> HIDE DEF all
  <2> QED BY <2>1, <2>2 DEF Keeps, all
<1>4. PICK w, ready : w = DtlsMsgAssembleCompleteMessage(m) /\ ready = all
  OBVIOUS
<1>5. w = [m EXCEPT !.ready = ready]
  BY <1>2, <1>4 DEF DtlsMsgAssembleCompleteMessage
<1> HIDE DEF all
<1>6. w = [number |-> n, size |-> Flight[n], ready |-> ready, buckets |-> buckets,
           received |-> received]
  BY <1>1, <1>5 DEF Incomplete
<1>7. /\ w.number = n /\ w.size = Flight[n] /\ w.ready = ready
      /\ w.buckets = buckets /\ w.received = received
  BY <1>6
<1>8. ready = (w.received = w.size)
  BY <1>3, <1>4, <1>7, Zenon
<1>9. w = [number |-> w.number, size |-> Flight[w.number], ready |-> w.ready,
           buckets |-> w.buckets, received |-> w.received]
  BY <1>6, <1>7, Zenon
<1>10. MessageInv(w, got)
  BY <1>7, <1>8, <1>9, Zenon DEF MessageInv
<1> QED BY <1>1, <1>4, <1>7, <1>10 DEF Number

(* A fragment is cut where messages are cut.                               *)
Cell(n, f, e) == f < e /\ \A x \in Ends(n) : x <= f \/ e <= x

LEMMA ConcatTwo ==
    ASSUME NEW x, NEW y
    PROVE  <<x>> \o <<y>> = <<x, y>> /\ Append(<<x>>, y) = <<x, y>>
<1>1. <<x>> \in Seq({x, y}) /\ <<y>> \in Seq({x, y}) /\ Len(<<x>>) = 1 /\ Len(<<y>>) = 1
      /\ y \in {x, y} /\ <<x>>[1] = x /\ <<y>>[1] = y
  OBVIOUS
<1>2. Append(<<x>>, y) = <<x>> \o <<y>>
  BY <1>1, AppendIsConcat
<1>3. PICK t : t = Append(<<x>>, y)
  OBVIOUS
<1>4. t \in Seq({x, y}) /\ Len(t) = 2 /\ t[1] = x /\ t[2] = y
  BY <1>1, <1>3, AppendProperties
<1>5. t = <<x, y>>
  BY <1>4
<1> QED BY <1>2, <1>3, <1>5

(* There is room for a second bucket.                                      *)
LEMMA AddSecond ==
    ASSUME NEW n, NEW x, NEW r, NEW m, m = Incomplete(n, One(x), r), NEW buckets, NEW frag,
           FragPool >= 2, NEW c, c = r + Bytes(frag)
    PROVE  AddBucket(m, buckets, frag) = Incomplete(n, buckets, c)
<1>1. m.buckets = One(x) /\ m.received = r /\ Len(One(x)) = 1
  BY IncompleteIs DEF One
<1>2. ~(1 >= FragPool)
  BY FragPoolAssumption
<1>3. PICK w : w = AddBucket(m, buckets, frag)
  OBVIOUS
<1>4. w = [m EXCEPT !.buckets = buckets, !.received = c]
  <2>1. ~(Len(m.buckets) >= FragPool)
    BY <1>1, <1>2, Zenon
  <2> QED BY <1>1, <1>3, <2>1 DEF AddBucket, Bytes
<1>5. w = Incomplete(n, buckets, c)
  BY <1>4 DEF Incomplete
<1> QED BY <1>3, <1>5

(* Of one bucket and of two, which one takes the fragment.                  *)
LEMMA SetOneApart ==
    ASSUME NEW n, NEW x, NEW r, NEW m, m = Incomplete(n, One(x), r), NEW frag,
           FragPool >= 2, ~(Start(frag) <= End(x)), NEW c, c = r + Bytes(frag)
    PROVE  DtlsMsgSet(m, frag) = DtlsMsgAssembleCompleteMessage(Incomplete(n, Two(x, frag), c))
<1>1. Append(One(x), frag) = Two(x, frag) /\ Len(One(x)) = 1 /\ One(x)[1] = x
  BY ConcatTwo DEF One, Two
<1>2. m.buckets = One(x) /\ m.received = r /\ ~m.ready
  BY IncompleteIs
<1>3. {k \in DOMAIN m.buckets : frag.offset <= End(m.buckets[k])} = {}
  <2>1. DOMAIN m.buckets = 1 .. 1 /\ m.buckets[1] = x
    BY <1>1, <1>2 DEF One
  <2> QED BY <2>1 DEF Start
<1>4. DtlsMsgSet(m, frag)
        = DtlsMsgAssembleCompleteMessage(AddBucket(m, Append(m.buckets, frag), frag))
  BY <1>2, <1>3 DEF DtlsMsgSet
<1>5. AddBucket(m, Two(x, frag), frag) = Incomplete(n, Two(x, frag), c)
  BY AddSecond
<1> QED BY <1>1, <1>2, <1>4, <1>5

LEMMA SetOneReached ==
    ASSUME NEW n, NEW x, NEW r, NEW m, m = Incomplete(n, One(x), r), NEW frag,
           Start(frag) <= End(x)
    PROVE  DtlsMsgSet(m, frag) = DtlsMsgAssembleCompleteMessage(
             IF Start(frag) >= Start(x) /\ End(frag) <= End(x) THEN m
             ELSE IF End(frag) < Start(x) THEN AddBucket(m, Two(frag, x), frag)
             ELSE Combine(m, 1, frag))
<1>1. m = Incomplete(n, <<x>>, r) /\ <<frag>> \o <<x>> = <<frag, x>>
  BY ConcatTwo DEF One
<1>2. m.buckets = <<x>> /\ ~m.ready /\ Len(m.buckets) = 1 /\ m.buckets[1] = x
      /\ DOMAIN m.buckets = 1 .. 1
  BY <1>1, IncompleteIs
<1>3. DtlsMsgSet(m, frag) =
        DtlsMsgAssembleCompleteMessage(
          IF frag.offset >= m.buckets[1].offset /\ End(frag) <= End(m.buckets[1]) THEN m
          ELSE IF 1 = 1 /\ End(frag) < m.buckets[1].offset
          THEN AddBucket(m, <<frag>> \o m.buckets, frag)
          ELSE Combine(m, 1, frag))
  <2>1. 1 \in 1 .. Len(m.buckets) /\ Len(m.buckets) \in Nat
        /\ DOMAIN m.buckets = 1 .. Len(m.buckets)
        /\ \A k \in 1 .. 1 - 1 : ~(frag.offset <= End(m.buckets[k]))
    BY <1>2
  <2>2. frag.offset <= End(m.buckets[1])
    BY <1>2 DEF Start
  <2> QED BY <1>2, <2>1, <2>2, SetReached
<1> QED BY <1>1, <1>2, <1>3, Zenon DEF Start, Two

LEMMA PieceStart == ASSUME NEW n, NEW a, NEW b PROVE Start(Piece(n, a, b)) = a
BY DEF Piece, Start

LEMMA PieceEnd ==
    ASSUME NEW n, NEW a \in Nat, NEW b \in Nat, a <= b
    PROVE  End(Piece(n, a, b)) = b
BY PieceIs

LEMMA PieceBytes ==
    ASSUME NEW n, NEW a \in Nat, NEW b \in Nat, a <= b
    PROVE  Bytes(Piece(n, a, b)) = b - a
BY PieceIs DEF Bytes

(* A fragment, f to e, for a message that has one piece, a to b.            *)
LEMMA OneAfter ==
    ASSUME FragPool >= 2, NEW n, NEW a \in Nat, NEW b \in Nat, NEW f \in Nat, NEW e \in Nat,
           a < b, b < f, f < e, NEW r \in Nat, NEW c \in Nat, c = r + (e - f)
    PROVE  DtlsMsgSet(Incomplete(n, One(Piece(n, a, b)), r), Piece(n, f, e))
             = DtlsMsgAssembleCompleteMessage(
                 Incomplete(n, Two(Piece(n, a, b), Piece(n, f, e)), c))
<1>1. PICK x, frag : x = Piece(n, a, b) /\ frag = Piece(n, f, e)
  OBVIOUS
<1>2. End(x) = b
  BY <1>1, PieceEnd
<1>3. Start(frag) = f
  BY <1>1, PieceStart
<1>4. Bytes(frag) = e - f
  BY <1>1, PieceBytes
<1>5. ~(Start(frag) <= End(x)) /\ c = r + Bytes(frag)
  BY <1>2, <1>3, <1>4
<1>6. DtlsMsgSet(Incomplete(n, One(x), r), frag)
        = DtlsMsgAssembleCompleteMessage(Incomplete(n, Two(x, frag), c))
  BY <1>5, SetOneApart
<1> QED BY <1>1, <1>6

LEMMA OneWithin ==
    ASSUME NEW n, NEW a \in Nat, NEW b \in Nat, NEW f \in Nat, NEW e \in Nat,
           a <= f, f < e, e <= b, NEW r \in Nat
    PROVE  DtlsMsgSet(Incomplete(n, One(Piece(n, a, b)), r), Piece(n, f, e))
             = DtlsMsgAssembleCompleteMessage(Incomplete(n, One(Piece(n, a, b)), r))
<1>1. PICK x, frag : x = Piece(n, a, b) /\ frag = Piece(n, f, e)
  OBVIOUS
<1>2. End(x) = b
  BY <1>1, PieceEnd
<1>3. Start(frag) = f /\ Start(x) = a
  BY <1>1, PieceStart
<1>4. End(frag) = e
  BY <1>1, PieceEnd
<1>5. Start(frag) <= End(x) /\ Start(frag) >= Start(x) /\ End(frag) <= End(x)
  BY <1>2, <1>3, <1>4
<1>6. DtlsMsgSet(Incomplete(n, One(x), r), frag)
        = DtlsMsgAssembleCompleteMessage(Incomplete(n, One(x), r))
  BY <1>5, SetOneReached
<1> QED BY <1>1, <1>6

LEMMA OneBefore ==
    ASSUME FragPool >= 2, NEW n, NEW a \in Nat, NEW b \in Nat, NEW f \in Nat, NEW e \in Nat,
           a < b, f < e, e < a, NEW r \in Nat, NEW c \in Nat, c = r + (e - f)
    PROVE  DtlsMsgSet(Incomplete(n, One(Piece(n, a, b)), r), Piece(n, f, e))
             = DtlsMsgAssembleCompleteMessage(
                 Incomplete(n, Two(Piece(n, f, e), Piece(n, a, b)), c))
<1>1. PICK x, frag, m : /\ x = Piece(n, a, b) /\ frag = Piece(n, f, e)
                        /\ m = Incomplete(n, One(x), r)
  OBVIOUS
<1>2. End(x) = b
  BY <1>1, PieceEnd
<1>3. Start(frag) = f /\ Start(x) = a
  BY <1>1, PieceStart
<1>4. End(frag) = e
  BY <1>1, PieceEnd
<1>5. Bytes(frag) = e - f
  BY <1>1, PieceBytes
<1>6. Start(frag) <= End(x) /\ ~(Start(frag) >= Start(x)) /\ End(frag) < Start(x)
      /\ c = r + Bytes(frag)
  BY <1>2, <1>3, <1>4, <1>5
<1>7. DtlsMsgSet(m, frag) = DtlsMsgAssembleCompleteMessage(AddBucket(m, Two(frag, x), frag))
  BY <1>1, <1>6, SetOneReached
<1>8. AddBucket(m, Two(frag, x), frag) = Incomplete(n, Two(frag, x), c)
  BY <1>1, <1>6, AddSecond
<1> QED BY <1>1, <1>7, <1>8

LEMMA OneLeft ==
    ASSUME NEW n, NEW a \in Nat, NEW b \in Nat, NEW f \in Nat,
           f < a, a < b, NEW r \in Nat, NEW c \in Nat, c = r + (a - f)
    PROVE  DtlsMsgSet(Incomplete(n, One(Piece(n, a, b)), r), Piece(n, f, a))
             = DtlsMsgAssembleCompleteMessage(Incomplete(n, One(Piece(n, f, b)), c))
<1>1. PICK x, frag, m, z : /\ x = Piece(n, a, b) /\ frag = Piece(n, f, a)
                           /\ m = Incomplete(n, One(x), r) /\ z = Piece(n, f, b)
  OBVIOUS
<1>2. End(x) = b
  BY <1>1, PieceEnd
<1>3. Start(frag) = f /\ Start(x) = a
  BY <1>1, PieceStart
<1>4. End(frag) = a
  BY <1>1, PieceEnd
<1>5. Bytes(x) = b - a
  BY <1>1, PieceBytes
<1>6. Bytes(z) = b - f
  BY <1>1, PieceBytes
<1>7. Start(frag) <= End(x) /\ ~(Start(frag) >= Start(x)) /\ ~(End(frag) < Start(x))
      /\ c = r + Bytes(z) - Bytes(x) /\ Bytes(x) \in Nat
  BY <1>2, <1>3, <1>4, <1>5, <1>6
<1>8. DtlsMsgSet(m, frag) = DtlsMsgAssembleCompleteMessage(Combine(m, 1, frag))
  BY <1>1, <1>7, SetOneReached
<1>9. z = Joined(x, x, frag)
  BY <1>1, CombineLeft
<1>10. Combine(m, 1, frag) = Incomplete(n, One(z), c)
  BY <1>1, <1>7, <1>9, CombineOnly
<1> QED BY <1>1, <1>8, <1>10

LEMMA OneRight ==
    ASSUME NEW n, NEW a \in Nat, NEW b \in Nat, NEW e \in Nat,
           a < b, b < e, NEW r \in Nat, NEW c \in Nat, c = r + (e - b)
    PROVE  DtlsMsgSet(Incomplete(n, One(Piece(n, a, b)), r), Piece(n, b, e))
             = DtlsMsgAssembleCompleteMessage(Incomplete(n, One(Piece(n, a, e)), c))
<1>1. PICK x, frag, m, z : /\ x = Piece(n, a, b) /\ frag = Piece(n, b, e)
                           /\ m = Incomplete(n, One(x), r) /\ z = Piece(n, a, e)
  OBVIOUS
<1>2. End(x) = b
  BY <1>1, PieceEnd
<1>3. Start(frag) = b /\ Start(x) = a
  BY <1>1, PieceStart
<1>4. End(frag) = e
  BY <1>1, PieceEnd
<1>5. Bytes(x) = b - a
  BY <1>1, PieceBytes
<1>6. Bytes(z) = e - a
  BY <1>1, PieceBytes
<1>7. Start(frag) <= End(x) /\ ~(End(frag) <= End(x)) /\ ~(End(frag) < Start(x))
      /\ c = r + Bytes(z) - Bytes(x) /\ Bytes(x) \in Nat
  BY <1>2, <1>3, <1>4, <1>5, <1>6
<1>8. DtlsMsgSet(m, frag) = DtlsMsgAssembleCompleteMessage(Combine(m, 1, frag))
  BY <1>1, <1>7, SetOneReached
<1>9. z = Joined(x, x, frag)
  BY <1>1, CombineRight
<1>10. Combine(m, 1, frag) = Incomplete(n, One(z), c)
  BY <1>1, <1>7, <1>9, CombineOnly
<1> QED BY <1>1, <1>8, <1>10

LEMMA SetTwoFirst ==
    ASSUME NEW n, NEW x, NEW y, NEW r, NEW m, m = Incomplete(n, Two(x, y), r), NEW frag,
           Start(frag) <= End(x), ~(End(frag) < Start(x))
    PROVE  DtlsMsgSet(m, frag) = DtlsMsgAssembleCompleteMessage(
             IF Start(frag) >= Start(x) /\ End(frag) <= End(x) THEN m ELSE Combine(m, 1, frag))
<1>1. m = Incomplete(n, <<x, y>>, r)
  BY DEF Two
<1>2. m.buckets = <<x, y>> /\ ~m.ready /\ Len(m.buckets) = 2 /\ m.buckets[1] = x
      /\ DOMAIN m.buckets = 1 .. 2
  BY <1>1, IncompleteIs
<1>3. DtlsMsgSet(m, frag) =
        DtlsMsgAssembleCompleteMessage(
          IF frag.offset >= m.buckets[1].offset /\ End(frag) <= End(m.buckets[1]) THEN m
          ELSE IF 1 = 1 /\ End(frag) < m.buckets[1].offset
          THEN AddBucket(m, <<frag>> \o m.buckets, frag)
          ELSE Combine(m, 1, frag))
  <2>1. 1 \in 1 .. Len(m.buckets) /\ Len(m.buckets) \in Nat
        /\ DOMAIN m.buckets = 1 .. Len(m.buckets)
        /\ \A k \in 1 .. 1 - 1 : ~(frag.offset <= End(m.buckets[k]))
    BY <1>2
  <2>2. frag.offset <= End(m.buckets[1])
    BY <1>2 DEF Start
  <2> QED BY <1>2, <2>1, <2>2, SetReached
<1> QED BY <1>1, <1>2, <1>3, Zenon DEF Start

LEMMA SetTwoSecond ==
    ASSUME NEW n, NEW x, NEW y, NEW r, NEW m, m = Incomplete(n, Two(x, y), r), NEW frag,
           ~(Start(frag) <= End(x)), Start(frag) <= End(y)
    PROVE  DtlsMsgSet(m, frag) = DtlsMsgAssembleCompleteMessage(
             IF Start(frag) >= Start(y) /\ End(frag) <= End(y) THEN m ELSE Combine(m, 2, frag))
<1>1. m = Incomplete(n, <<x, y>>, r)
  BY DEF Two
<1>2. m.buckets = <<x, y>> /\ ~m.ready /\ Len(m.buckets) = 2 /\ m.buckets[1] = x
      /\ m.buckets[2] = y /\ DOMAIN m.buckets = 1 .. 2
  BY <1>1, IncompleteIs
<1>3. DtlsMsgSet(m, frag) =
        DtlsMsgAssembleCompleteMessage(
          IF frag.offset >= m.buckets[2].offset /\ End(frag) <= End(m.buckets[2]) THEN m
          ELSE IF 2 = 1 /\ End(frag) < m.buckets[2].offset
          THEN AddBucket(m, <<frag>> \o m.buckets, frag)
          ELSE Combine(m, 2, frag))
  <2>1. 2 \in 1 .. Len(m.buckets) /\ Len(m.buckets) \in Nat
        /\ DOMAIN m.buckets = 1 .. Len(m.buckets)
        /\ \A k \in 1 .. 2 - 1 : k = 1
    BY <1>2
  <2>2. frag.offset <= End(m.buckets[2]) /\ ~(frag.offset <= End(m.buckets[1]))
    BY <1>2 DEF Start
  <2>3. \A k \in 1 .. 2 - 1 : ~(frag.offset <= End(m.buckets[k]))
    BY <2>1, <2>2, Zenon
  <2> QED BY <1>2, <2>1, <2>2, <2>3, SetReached
<1>4. ~(2 = 1)
  OBVIOUS
<1> QED BY <1>1, <1>2, <1>3, <1>4, Zenon DEF Start

(* A fragment for a message that has two pieces, a to b and c to d.         *)
LEMMA TwoWithinFirst ==
    ASSUME NEW n, NEW a \in Nat, NEW b \in Nat, NEW c \in Nat, NEW d \in Nat, NEW f \in Nat, NEW e \in Nat,
           a <= f, f < e, e <= b, b < c, c < d, NEW r \in Nat
    PROVE  DtlsMsgSet(Incomplete(n, Two(Piece(n, a, b), Piece(n, c, d)), r), Piece(n, f, e))
             = DtlsMsgAssembleCompleteMessage(
                 Incomplete(n, Two(Piece(n, a, b), Piece(n, c, d)), r))
<1>1. PICK x, y, frag, m : /\ x = Piece(n, a, b) /\ y = Piece(n, c, d) /\ frag = Piece(n, f, e)
                           /\ m = Incomplete(n, Two(x, y), r)
  OBVIOUS
<1>2. Start(x) = a /\ Start(y) = c /\ Start(frag) = f
  BY <1>1, PieceStart
<1>3. End(x) = b
  BY <1>1, PieceEnd
<1>4. End(y) = d
  BY <1>1, PieceEnd
<1>5. End(frag) = e
  BY <1>1, PieceEnd
<1>6. /\ Start(frag) <= End(x) /\ ~(End(frag) < Start(x))
      /\ Start(frag) >= Start(x) /\ End(frag) <= End(x)
  BY <1>2, <1>3, <1>4, <1>5
<1>7. DtlsMsgSet(m, frag) = DtlsMsgAssembleCompleteMessage(m)
  BY <1>1, <1>6, SetTwoFirst
<1> QED BY <1>1, <1>7

LEMMA TwoWithinSecond ==
    ASSUME NEW n, NEW a \in Nat, NEW b \in Nat, NEW c \in Nat, NEW d \in Nat, NEW f \in Nat, NEW e \in Nat,
           a < b, b < c, c <= f, f < e, e <= d, NEW r \in Nat
    PROVE  DtlsMsgSet(Incomplete(n, Two(Piece(n, a, b), Piece(n, c, d)), r), Piece(n, f, e))
             = DtlsMsgAssembleCompleteMessage(
                 Incomplete(n, Two(Piece(n, a, b), Piece(n, c, d)), r))
<1>1. PICK x, y, frag, m : /\ x = Piece(n, a, b) /\ y = Piece(n, c, d) /\ frag = Piece(n, f, e)
                           /\ m = Incomplete(n, Two(x, y), r)
  OBVIOUS
<1>2. Start(x) = a /\ Start(y) = c /\ Start(frag) = f
  BY <1>1, PieceStart
<1>3. End(x) = b
  BY <1>1, PieceEnd
<1>4. End(y) = d
  BY <1>1, PieceEnd
<1>5. End(frag) = e
  BY <1>1, PieceEnd
<1>6. /\ ~(Start(frag) <= End(x)) /\ Start(frag) <= End(y)
      /\ Start(frag) >= Start(y) /\ End(frag) <= End(y)
  BY <1>2, <1>3, <1>4, <1>5
<1>7. DtlsMsgSet(m, frag) = DtlsMsgAssembleCompleteMessage(m)
  BY <1>1, <1>6, SetTwoSecond
<1> QED BY <1>1, <1>7

LEMMA TwoLeftOfFirst ==
    ASSUME NEW n, NEW a \in Nat, NEW b \in Nat, NEW c \in Nat, NEW d \in Nat, NEW f \in Nat,
           f < a, a < b, b < c, c < d, NEW r \in Nat, NEW s \in Nat, s = r + (a - f)
    PROVE  DtlsMsgSet(Incomplete(n, Two(Piece(n, a, b), Piece(n, c, d)), r), Piece(n, f, a))
             = DtlsMsgAssembleCompleteMessage(Incomplete(n, Two(Piece(n, f, b), Piece(n, c, d)), s))
<1>1. PICK x, y, frag, m : /\ x = Piece(n, a, b) /\ y = Piece(n, c, d) /\ frag = Piece(n, f, a)
                           /\ m = Incomplete(n, Two(x, y), r)
  OBVIOUS
<1>2. Start(x) = a /\ Start(y) = c /\ Start(frag) = f
  BY <1>1, PieceStart
<1>3. End(x) = b
  BY <1>1, PieceEnd
<1>4. End(y) = d
  BY <1>1, PieceEnd
<1>5. End(frag) = a
  BY <1>1, PieceEnd
<1>6. /\ Start(frag) <= End(x) /\ ~(End(frag) < Start(x))
      /\ ~(Start(frag) >= Start(x) /\ End(frag) <= End(x))
  BY <1>2, <1>3, <1>4, <1>5
<1>7. DtlsMsgSet(m, frag) = DtlsMsgAssembleCompleteMessage(Combine(m, 1, frag))
  BY <1>1, <1>6, SetTwoFirst
<1>8. PICK z : z = Piece(n, f, b)
  OBVIOUS
<1>9. z = Joined(x, y, frag)
  BY <1>1, <1>8, CombineLeft
<1>10. Bytes(z) = b - f
  BY <1>8, PieceBytes
<1>11. Bytes(x) = b - a
  BY <1>1, PieceBytes
<1>12. Bytes(y) = d - c
  BY <1>1, PieceBytes
<1>13. /\ Bytes(x) \in Nat /\ Bytes(y) \in Nat
       /\ s = r + Bytes(z) - Bytes(x)
       /\ End(y) > End(frag) /\ ~(End(frag) >= Start(y))
  BY <1>2, <1>4, <1>5, <1>10, <1>11, <1>12
<1>14. Combine(m, 1, frag) = Incomplete(n, Two(z, y), s)
  BY <1>1, <1>9, <1>13, CombineFirst
<1> QED BY <1>1, <1>7, <1>8, <1>14

LEMMA TwoRightOfFirst ==
    ASSUME NEW n, NEW a \in Nat, NEW b \in Nat, NEW c \in Nat, NEW d \in Nat, NEW e \in Nat,
           a < b, b < e, e < c, c < d, NEW r \in Nat, NEW s \in Nat, s = r + (e - b)
    PROVE  DtlsMsgSet(Incomplete(n, Two(Piece(n, a, b), Piece(n, c, d)), r), Piece(n, b, e))
             = DtlsMsgAssembleCompleteMessage(Incomplete(n, Two(Piece(n, a, e), Piece(n, c, d)), s))
<1>1. PICK x, y, frag, m : /\ x = Piece(n, a, b) /\ y = Piece(n, c, d) /\ frag = Piece(n, b, e)
                           /\ m = Incomplete(n, Two(x, y), r)
  OBVIOUS
<1>2. Start(x) = a /\ Start(y) = c /\ Start(frag) = b
  BY <1>1, PieceStart
<1>3. End(x) = b
  BY <1>1, PieceEnd
<1>4. End(y) = d
  BY <1>1, PieceEnd
<1>5. End(frag) = e
  BY <1>1, PieceEnd
<1>6. /\ Start(frag) <= End(x) /\ ~(End(frag) < Start(x))
      /\ ~(Start(frag) >= Start(x) /\ End(frag) <= End(x))
  BY <1>2, <1>3, <1>4, <1>5
<1>7. DtlsMsgSet(m, frag) = DtlsMsgAssembleCompleteMessage(Combine(m, 1, frag))
  BY <1>1, <1>6, SetTwoFirst
<1>8. PICK z : z = Piece(n, a, e)
  OBVIOUS
<1>9. z = Joined(x, y, frag)
  BY <1>1, <1>8, CombineRight
<1>10. Bytes(z) = e - a
  BY <1>8, PieceBytes
<1>11. Bytes(x) = b - a
  BY <1>1, PieceBytes
<1>12. Bytes(y) = d - c
  BY <1>1, PieceBytes
<1>13. /\ Bytes(x) \in Nat /\ Bytes(y) \in Nat
       /\ s = r + Bytes(z) - Bytes(x)
       /\ End(y) > End(frag) /\ ~(End(frag) >= Start(y))
  BY <1>2, <1>4, <1>5, <1>10, <1>11, <1>12
<1>14. Combine(m, 1, frag) = Incomplete(n, Two(z, y), s)
  BY <1>1, <1>9, <1>13, CombineFirst
<1> QED BY <1>1, <1>7, <1>8, <1>14

LEMMA TwoClosed ==
    ASSUME NEW n, NEW a \in Nat, NEW b \in Nat, NEW c \in Nat, NEW d \in Nat,
           a < b, b < c, c < d, NEW r \in Nat, NEW s \in Nat, s = r + (c - b)
    PROVE  DtlsMsgSet(Incomplete(n, Two(Piece(n, a, b), Piece(n, c, d)), r), Piece(n, b, c))
             = DtlsMsgAssembleCompleteMessage(Incomplete(n, One(Piece(n, a, d)), s))
<1>1. PICK x, y, frag, m : /\ x = Piece(n, a, b) /\ y = Piece(n, c, d) /\ frag = Piece(n, b, c)
                           /\ m = Incomplete(n, Two(x, y), r)
  OBVIOUS
<1>2. Start(x) = a /\ Start(y) = c /\ Start(frag) = b
  BY <1>1, PieceStart
<1>3. End(x) = b
  BY <1>1, PieceEnd
<1>4. End(y) = d
  BY <1>1, PieceEnd
<1>5. End(frag) = c
  BY <1>1, PieceEnd
<1>6. /\ Start(frag) <= End(x) /\ ~(End(frag) < Start(x))
      /\ ~(Start(frag) >= Start(x) /\ End(frag) <= End(x))
  BY <1>2, <1>3, <1>4, <1>5
<1>7. DtlsMsgSet(m, frag) = DtlsMsgAssembleCompleteMessage(Combine(m, 1, frag))
  BY <1>1, <1>6, SetTwoFirst
<1>8. PICK z : z = Piece(n, a, d)
  OBVIOUS
<1>9. z = Bridged(x, y, frag)
  BY <1>1, <1>8, CombineBoth
<1>10. Bytes(z) = d - a
  BY <1>8, PieceBytes
<1>11. Bytes(x) = b - a
  BY <1>1, PieceBytes
<1>12. Bytes(y) = d - c
  BY <1>1, PieceBytes
<1>13. /\ Bytes(x) \in Nat /\ Bytes(y) \in Nat
       /\ s = r + Bytes(z) - (Bytes(x) + Bytes(y))
       /\ End(y) > End(frag) /\ End(frag) >= Start(y)
  BY <1>2, <1>4, <1>5, <1>10, <1>11, <1>12
<1>14. Combine(m, 1, frag) = Incomplete(n, One(z), s)
  BY <1>1, <1>9, <1>13, CombineGap
<1> QED BY <1>1, <1>7, <1>8, <1>14

LEMMA TwoLeftOfSecond ==
    ASSUME NEW n, NEW a \in Nat, NEW b \in Nat, NEW c \in Nat, NEW d \in Nat, NEW f \in Nat,
           a < b, b < f, f < c, c < d, NEW r \in Nat, NEW s \in Nat, s = r + (c - f)
    PROVE  DtlsMsgSet(Incomplete(n, Two(Piece(n, a, b), Piece(n, c, d)), r), Piece(n, f, c))
             = DtlsMsgAssembleCompleteMessage(Incomplete(n, Two(Piece(n, a, b), Piece(n, f, d)), s))
<1>1. PICK x, y, frag, m : /\ x = Piece(n, a, b) /\ y = Piece(n, c, d) /\ frag = Piece(n, f, c)
                           /\ m = Incomplete(n, Two(x, y), r)
  OBVIOUS
<1>2. Start(x) = a /\ Start(y) = c /\ Start(frag) = f
  BY <1>1, PieceStart
<1>3. End(x) = b
  BY <1>1, PieceEnd
<1>4. End(y) = d
  BY <1>1, PieceEnd
<1>5. End(frag) = c
  BY <1>1, PieceEnd
<1>6. /\ ~(Start(frag) <= End(x)) /\ Start(frag) <= End(y)
      /\ ~(Start(frag) >= Start(y) /\ End(frag) <= End(y))
  BY <1>2, <1>3, <1>4, <1>5
<1>7. DtlsMsgSet(m, frag) = DtlsMsgAssembleCompleteMessage(Combine(m, 2, frag))
  BY <1>1, <1>6, SetTwoSecond
<1>8. PICK z : z = Piece(n, f, d)
  OBVIOUS
<1>9. z = Joined(y, y, frag)
  BY <1>1, <1>8, CombineLeft
<1>10. Bytes(z) = d - f
  BY <1>8, PieceBytes
<1>11. Bytes(x) = b - a
  BY <1>1, PieceBytes
<1>12. Bytes(y) = d - c
  BY <1>1, PieceBytes
<1>13. /\ Bytes(x) \in Nat /\ Bytes(y) \in Nat
       /\ s = r + Bytes(z) - Bytes(y)
  BY <1>2, <1>4, <1>5, <1>10, <1>11, <1>12
<1>14. Combine(m, 2, frag) = Incomplete(n, Two(x, z), s)
  BY <1>1, <1>9, <1>13, CombineSecond
<1> QED BY <1>1, <1>7, <1>8, <1>14

LEMMA TwoRightOfSecond ==
    ASSUME NEW n, NEW a \in Nat, NEW b \in Nat, NEW c \in Nat, NEW d \in Nat, NEW e \in Nat,
           a < b, b < c, c < d, d < e, NEW r \in Nat, NEW s \in Nat, s = r + (e - d)
    PROVE  DtlsMsgSet(Incomplete(n, Two(Piece(n, a, b), Piece(n, c, d)), r), Piece(n, d, e))
             = DtlsMsgAssembleCompleteMessage(Incomplete(n, Two(Piece(n, a, b), Piece(n, c, e)), s))
<1>1. PICK x, y, frag, m : /\ x = Piece(n, a, b) /\ y = Piece(n, c, d) /\ frag = Piece(n, d, e)
                           /\ m = Incomplete(n, Two(x, y), r)
  OBVIOUS
<1>2. Start(x) = a /\ Start(y) = c /\ Start(frag) = d
  BY <1>1, PieceStart
<1>3. End(x) = b
  BY <1>1, PieceEnd
<1>4. End(y) = d
  BY <1>1, PieceEnd
<1>5. End(frag) = e
  BY <1>1, PieceEnd
<1>6. /\ ~(Start(frag) <= End(x)) /\ Start(frag) <= End(y)
      /\ ~(Start(frag) >= Start(y) /\ End(frag) <= End(y))
  BY <1>2, <1>3, <1>4, <1>5
<1>7. DtlsMsgSet(m, frag) = DtlsMsgAssembleCompleteMessage(Combine(m, 2, frag))
  BY <1>1, <1>6, SetTwoSecond
<1>8. PICK z : z = Piece(n, c, e)
  OBVIOUS
<1>9. z = Joined(y, y, frag)
  BY <1>1, <1>8, CombineRight
<1>10. Bytes(z) = e - c
  BY <1>8, PieceBytes
<1>11. Bytes(x) = b - a
  BY <1>1, PieceBytes
<1>12. Bytes(y) = d - c
  BY <1>1, PieceBytes
<1>13. /\ Bytes(x) \in Nat /\ Bytes(y) \in Nat
       /\ s = r + Bytes(z) - Bytes(y)
  BY <1>2, <1>4, <1>5, <1>10, <1>11, <1>12
<1>14. Combine(m, 2, frag) = Incomplete(n, Two(x, z), s)
  BY <1>1, <1>9, <1>13, CombineSecond
<1> QED BY <1>1, <1>7, <1>8, <1>14

LEMMA KeepsOne ==
    ASSUME NEW n, NEW a \in Ends(n), NEW b \in Ends(n), a < b, NEW got, got = a .. b - 1,
           NEW r, r = b - a
    PROVE  Keeps(n, One(Piece(n, a, b)), r, got)
BY DEF Keeps

LEMMA KeepsTwo ==
    ASSUME NEW n, NEW a \in Ends(n), NEW b \in Ends(n), NEW c \in Ends(n), NEW d \in Ends(n),
           a < b, b < c, c < d, NEW got, got = (a .. b - 1) \cup (c .. d - 1),
           NEW r, r = (b - a) + (d - c)
    PROVE  Keeps(n, Two(Piece(n, a, b), Piece(n, c, d)), r, got)
BY DEF Keeps

(* Whatever a message has, with the fragment it has that much more.         *)
Takes(n, buckets, received, f, e, got) ==
    \E bs, s : /\ DtlsMsgSet(Incomplete(n, buckets, received), Piece(n, f, e))
                   = DtlsMsgAssembleCompleteMessage(Incomplete(n, bs, s))
               /\ Keeps(n, bs, s, got)

LEMMA OneTakes ==
    ASSUME FewFragments, NEW n \in Messages, NEW a \in Ends(n), NEW b \in Ends(n), a < b,
           NEW f \in Ends(n), NEW e \in Ends(n), Cell(n, f, e), NEW r, r = b - a
    PROVE  Takes(n, One(Piece(n, a, b)), r, f, e, (a .. b - 1) \cup (f .. e - 1))
<1> DEFINE m    == Incomplete(n, One(Piece(n, a, b)), r)
           frag == Piece(n, f, e)
           got  == (a .. b - 1) \cup (f .. e - 1)
<1> SUFFICES Takes(n, One(Piece(n, a, b)), r, f, e, got)
  OBVIOUS
<1> HIDE DEF m, frag, got
<1>1. a \in Nat /\ b \in Nat /\ f \in Nat /\ e \in Nat /\ r \in Nat /\ FragPool >= 2
  BY EndsAre DEF FewFragments
<1>2. f < e /\ (a <= f \/ e <= a) /\ (b <= f \/ e <= b)
  BY DEF Cell
<1>3. CASE b < f
  <2>1. PICK s \in Nat : s = (b - a) + (e - f)
    BY <1>1, <1>2, <1>3
  <2>2. s = r + (e - f)
    BY <1>1, <1>2, <1>3, <2>1
  <2>3. DtlsMsgSet(m, frag) = DtlsMsgAssembleCompleteMessage(Incomplete(n, Two(Piece(n, a, b), Piece(n, f, e)), s))
    BY <1>1, <1>2, <1>3, <2>2, OneAfter DEF m, frag
  <2>4. got = (a .. b - 1) \cup (f .. e - 1)
    BY <1>1, <1>2, <1>3 DEF got
  <2>5. Keeps(n, Two(Piece(n, a, b), Piece(n, f, e)), s, got)
    BY <1>1, <1>2, <1>3, <2>1, <2>4, KeepsTwo
  <2> QED BY <2>3, <2>5 DEF Takes, m, frag
<1>4. CASE a <= f /\ e <= b
  <2>1. PICK s \in Nat : s = b - a
    BY <1>1, <1>2, <1>4
  <2>2. s = r
    BY <1>1, <1>2, <1>4, <2>1
  <2>3. DtlsMsgSet(m, frag) = DtlsMsgAssembleCompleteMessage(Incomplete(n, One(Piece(n, a, b)), s))
    BY <1>1, <1>2, <1>4, <2>2, OneWithin DEF m, frag
  <2>4. got = a .. b - 1
    BY <1>1, <1>2, <1>4 DEF got
  <2>5. Keeps(n, One(Piece(n, a, b)), s, got)
    BY <1>1, <1>2, <1>4, <2>1, <2>4, KeepsOne
  <2> QED BY <2>3, <2>5 DEF Takes, m, frag
<1>5. CASE e < a
  <2>1. PICK s \in Nat : s = (e - f) + (b - a)
    BY <1>1, <1>2, <1>5
  <2>2. s = r + (e - f)
    BY <1>1, <1>2, <1>5, <2>1
  <2>3. DtlsMsgSet(m, frag) = DtlsMsgAssembleCompleteMessage(Incomplete(n, Two(Piece(n, f, e), Piece(n, a, b)), s))
    BY <1>1, <1>2, <1>5, <2>2, OneBefore DEF m, frag
  <2>4. got = (f .. e - 1) \cup (a .. b - 1)
    BY <1>1, <1>2, <1>5 DEF got
  <2>5. Keeps(n, Two(Piece(n, f, e), Piece(n, a, b)), s, got)
    BY <1>1, <1>2, <1>5, <2>1, <2>4, KeepsTwo
  <2> QED BY <2>3, <2>5 DEF Takes, m, frag
<1>6. CASE e = a
  <2>1. PICK s \in Nat : s = b - f
    BY <1>1, <1>2, <1>6
  <2>2. s = r + (a - f)
    BY <1>1, <1>2, <1>6, <2>1
  <2>3. DtlsMsgSet(m, frag) = DtlsMsgAssembleCompleteMessage(Incomplete(n, One(Piece(n, f, b)), s))
    BY <1>1, <1>2, <1>6, <2>2, OneLeft DEF m, frag
  <2>4. got = f .. b - 1
    BY <1>1, <1>2, <1>6 DEF got
  <2>5. Keeps(n, One(Piece(n, f, b)), s, got)
    BY <1>1, <1>2, <1>6, <2>1, <2>4, KeepsOne
  <2> QED BY <2>3, <2>5 DEF Takes, m, frag
<1>7. CASE f = b
  <2>1. PICK s \in Nat : s = e - a
    BY <1>1, <1>2, <1>7
  <2>2. s = r + (e - b)
    BY <1>1, <1>2, <1>7, <2>1
  <2>3. DtlsMsgSet(m, frag) = DtlsMsgAssembleCompleteMessage(Incomplete(n, One(Piece(n, a, e)), s))
    BY <1>1, <1>2, <1>7, <2>2, OneRight DEF m, frag
  <2>4. got = a .. e - 1
    BY <1>1, <1>2, <1>7 DEF got
  <2>5. Keeps(n, One(Piece(n, a, e)), s, got)
    BY <1>1, <1>2, <1>7, <2>1, <2>4, KeepsOne
  <2> QED BY <2>3, <2>5 DEF Takes, m, frag
<1> QED BY <1>1, <1>2, <1>3, <1>4, <1>5, <1>6, <1>7

LEMMA TwoTakes ==
    ASSUME FewFragments, NEW n \in Messages, NEW a \in Ends(n), NEW b \in Ends(n),
           NEW c \in Ends(n), NEW d \in Ends(n), a < b, b < c, c < d,
           NEW f \in Ends(n), NEW e \in Ends(n), Cell(n, f, e), NEW r, r = (b - a) + (d - c)
    PROVE  Takes(n, Two(Piece(n, a, b), Piece(n, c, d)), r, f, e,
                 (a .. b - 1) \cup (c .. d - 1) \cup (f .. e - 1))
<1> DEFINE m    == Incomplete(n, Two(Piece(n, a, b), Piece(n, c, d)), r)
           frag == Piece(n, f, e)
           got  == (a .. b - 1) \cup (c .. d - 1) \cup (f .. e - 1)
<1> SUFFICES Takes(n, Two(Piece(n, a, b), Piece(n, c, d)), r, f, e, got)
  OBVIOUS
<1> HIDE DEF m, frag, got
<1>1. /\ a \in Nat /\ b \in Nat /\ c \in Nat /\ d \in Nat /\ f \in Nat /\ e \in Nat
      /\ r \in Nat
  BY EndsAre
<1>2. /\ f < e /\ (a <= f \/ e <= a) /\ (b <= f \/ e <= b) /\ (c <= f \/ e <= c)
      /\ (d <= f \/ e <= d)
  BY DEF Cell
<1>3. CASE a <= f /\ e <= b
  <2>1. PICK s \in Nat : s = (b - a) + (d - c)
    BY <1>1, <1>2, <1>3
  <2>2. s = r
    BY <1>1, <1>2, <1>3, <2>1
  <2>3. DtlsMsgSet(m, frag) = DtlsMsgAssembleCompleteMessage(Incomplete(n, Two(Piece(n, a, b), Piece(n, c, d)), s))
    BY <1>1, <1>2, <1>3, <2>2, TwoWithinFirst DEF m, frag
  <2>4. got = (a .. b - 1) \cup (c .. d - 1)
    BY <1>1, <1>2, <1>3 DEF got
  <2>5. Keeps(n, Two(Piece(n, a, b), Piece(n, c, d)), s, got)
    BY <1>1, <1>2, <1>3, <2>1, <2>4, KeepsTwo
  <2> QED BY <2>3, <2>5 DEF Takes, m, frag
<1>4. CASE c <= f /\ e <= d
  <2>1. PICK s \in Nat : s = (b - a) + (d - c)
    BY <1>1, <1>2, <1>4
  <2>2. s = r
    BY <1>1, <1>2, <1>4, <2>1
  <2>3. DtlsMsgSet(m, frag) = DtlsMsgAssembleCompleteMessage(Incomplete(n, Two(Piece(n, a, b), Piece(n, c, d)), s))
    BY <1>1, <1>2, <1>4, <2>2, TwoWithinSecond DEF m, frag
  <2>4. got = (a .. b - 1) \cup (c .. d - 1)
    BY <1>1, <1>2, <1>4 DEF got
  <2>5. Keeps(n, Two(Piece(n, a, b), Piece(n, c, d)), s, got)
    BY <1>1, <1>2, <1>4, <2>1, <2>4, KeepsTwo
  <2> QED BY <2>3, <2>5 DEF Takes, m, frag
<1>5. CASE e = a
  <2>1. PICK s \in Nat : s = (b - f) + (d - c)
    BY <1>1, <1>2, <1>5
  <2>2. s = r + (a - f)
    BY <1>1, <1>2, <1>5, <2>1
  <2>3. DtlsMsgSet(m, frag) = DtlsMsgAssembleCompleteMessage(Incomplete(n, Two(Piece(n, f, b), Piece(n, c, d)), s))
    BY <1>1, <1>2, <1>5, <2>2, TwoLeftOfFirst DEF m, frag
  <2>4. got = (f .. b - 1) \cup (c .. d - 1)
    BY <1>1, <1>2, <1>5 DEF got
  <2>5. Keeps(n, Two(Piece(n, f, b), Piece(n, c, d)), s, got)
    BY <1>1, <1>2, <1>5, <2>1, <2>4, KeepsTwo
  <2> QED BY <2>3, <2>5 DEF Takes, m, frag
<1>6. CASE f = b /\ e < c
  <2>1. PICK s \in Nat : s = (e - a) + (d - c)
    BY <1>1, <1>2, <1>6
  <2>2. s = r + (e - b)
    BY <1>1, <1>2, <1>6, <2>1
  <2>3. DtlsMsgSet(m, frag) = DtlsMsgAssembleCompleteMessage(Incomplete(n, Two(Piece(n, a, e), Piece(n, c, d)), s))
    BY <1>1, <1>2, <1>6, <2>2, TwoRightOfFirst DEF m, frag
  <2>4. got = (a .. e - 1) \cup (c .. d - 1)
    BY <1>1, <1>2, <1>6 DEF got
  <2>5. Keeps(n, Two(Piece(n, a, e), Piece(n, c, d)), s, got)
    BY <1>1, <1>2, <1>6, <2>1, <2>4, KeepsTwo
  <2> QED BY <2>3, <2>5 DEF Takes, m, frag
<1>7. CASE f = b /\ e = c
  <2>1. PICK s \in Nat : s = d - a
    BY <1>1, <1>2, <1>7
  <2>2. s = r + (c - b)
    BY <1>1, <1>2, <1>7, <2>1
  <2>3. DtlsMsgSet(m, frag) = DtlsMsgAssembleCompleteMessage(Incomplete(n, One(Piece(n, a, d)), s))
    BY <1>1, <1>2, <1>7, <2>2, TwoClosed DEF m, frag
  <2>4. got = a .. d - 1
    BY <1>1, <1>2, <1>7 DEF got
  <2>5. Keeps(n, One(Piece(n, a, d)), s, got)
    BY <1>1, <1>2, <1>7, <2>1, <2>4, KeepsOne
  <2> QED BY <2>3, <2>5 DEF Takes, m, frag
<1>8. CASE b < f /\ e = c
  <2>1. PICK s \in Nat : s = (b - a) + (d - f)
    BY <1>1, <1>2, <1>8
  <2>2. s = r + (c - f)
    BY <1>1, <1>2, <1>8, <2>1
  <2>3. DtlsMsgSet(m, frag) = DtlsMsgAssembleCompleteMessage(Incomplete(n, Two(Piece(n, a, b), Piece(n, f, d)), s))
    BY <1>1, <1>2, <1>8, <2>2, TwoLeftOfSecond DEF m, frag
  <2>4. got = (a .. b - 1) \cup (f .. d - 1)
    BY <1>1, <1>2, <1>8 DEF got
  <2>5. Keeps(n, Two(Piece(n, a, b), Piece(n, f, d)), s, got)
    BY <1>1, <1>2, <1>8, <2>1, <2>4, KeepsTwo
  <2> QED BY <2>3, <2>5 DEF Takes, m, frag
<1>9. CASE f = d
  <2>1. PICK s \in Nat : s = (b - a) + (e - c)
    BY <1>1, <1>2, <1>9
  <2>2. s = r + (e - d)
    BY <1>1, <1>2, <1>9, <2>1
  <2>3. DtlsMsgSet(m, frag) = DtlsMsgAssembleCompleteMessage(Incomplete(n, Two(Piece(n, a, b), Piece(n, c, e)), s))
    BY <1>1, <1>2, <1>9, <2>2, TwoRightOfSecond DEF m, frag
  <2>4. got = (a .. b - 1) \cup (c .. e - 1)
    BY <1>1, <1>2, <1>9 DEF got
  <2>5. Keeps(n, Two(Piece(n, a, b), Piece(n, c, e)), s, got)
    BY <1>1, <1>2, <1>9, <2>1, <2>4, KeepsTwo
  <2> QED BY <2>3, <2>5 DEF Takes, m, frag
<1>10. CASE e < a \/ (b < f /\ e < c) \/ d < f
  BY <1>1, <1>2, <1>10, FiveEnds
<1> QED BY <1>1, <1>2, <1>3, <1>4, <1>5, <1>6, <1>7, <1>8, <1>9, <1>10

LEMMA TakesInv ==
    ASSUME FewFragments, NEW n \in Messages, NEW buckets, NEW r, NEW f, NEW e, NEW got,
           Takes(n, buckets, r, f, e, got)
    PROVE  /\ MessageInv(DtlsMsgSet(Incomplete(n, buckets, r), Piece(n, f, e)), got)
           /\ Number(DtlsMsgSet(Incomplete(n, buckets, r), Piece(n, f, e))) = n
<1>1. PICK bs, s : /\ DtlsMsgSet(Incomplete(n, buckets, r), Piece(n, f, e))
                        = DtlsMsgAssembleCompleteMessage(Incomplete(n, bs, s))
                   /\ Keeps(n, bs, s, got)
  BY DEF Takes
<1> QED BY <1>1, AssembleInv

LEMMA SetIncomplete ==
    ASSUME FewFragments, NEW n \in Messages, NEW buckets, NEW r, NEW got,
           Keeps(n, buckets, r, got), NEW f \in Ends(n), NEW e \in Ends(n), Cell(n, f, e)
    PROVE  /\ MessageInv(DtlsMsgSet(Incomplete(n, buckets, r), Piece(n, f, e)), got \cup (f .. e - 1))
           /\ Number(DtlsMsgSet(Incomplete(n, buckets, r), Piece(n, f, e))) = n
<1>1. Takes(n, buckets, r, f, e, got \cup (f .. e - 1))
  <2>1. ASSUME NEW a \in Ends(n), NEW b \in Ends(n), a < b, got = a .. b - 1,
               buckets = One(Piece(n, a, b)), r = b - a
        PROVE  Takes(n, buckets, r, f, e, got \cup (f .. e - 1))
    BY <2>1, OneTakes, Zenon
  <2>2. ASSUME NEW a \in Ends(n), NEW b \in Ends(n), NEW c \in Ends(n), NEW d \in Ends(n),
               a < b, b < c, c < d, got = (a .. b - 1) \cup (c .. d - 1),
               buckets = Two(Piece(n, a, b), Piece(n, c, d)), r = (b - a) + (d - c)
        PROVE  Takes(n, buckets, r, f, e, got \cup (f .. e - 1))
    BY <2>2, TwoTakes, Zenon
  <2> QED BY <2>1, <2>2, Zenon DEF Keeps
<1> QED BY <1>1, TakesInv

(* To a message that keeps what has come so far.                            *)
LEMMA SetInv ==
    ASSUME FewFragments, NEW n \in Messages, NEW m, NEW got, MessageInv(m, got), Number(m) = n,
           NEW f \in Ends(n), NEW e \in Ends(n), Cell(n, f, e)
    PROVE  /\ MessageInv(DtlsMsgSet(m, Piece(n, f, e)), got \cup (f .. e - 1))
           /\ Number(DtlsMsgSet(m, Piece(n, f, e))) = n
<1>1. /\ m = [number |-> n, size |-> Flight[n], ready |-> m.ready, buckets |-> m.buckets,
              received |-> m.received]
      /\ Keeps(n, m.buckets, m.received, got) /\ m.ready = (m.received = m.size)
  BY Zenon DEF MessageInv, Number
<1>2. CASE m.ready
  <2>1. m.received = Flight[n]
    <3>1. m.size = Flight[n]
      BY <1>1
    <3> QED BY <1>1, <1>2, <3>1, Zenon
  <2>2. 0 .. Flight[n] - 1 \subseteq got
    <3>1. ASSUME NEW a \in Ends(n), NEW b \in Ends(n), got = a .. b - 1, Flight[n] = b - a
          PROVE  0 .. Flight[n] - 1 \subseteq got
      BY <3>1, EndsAre
    <3>2. ASSUME NEW a \in Ends(n), NEW b \in Ends(n), NEW c \in Ends(n), NEW d \in Ends(n),
                 a < b, b < c, c < d, Flight[n] = (b - a) + (d - c)
          PROVE  FALSE
      BY <3>2, EndsAre
    <3> QED BY <1>1, <2>1, <3>1, <3>2 DEF Keeps
  <2>3. f .. e - 1 \subseteq 0 .. Flight[n] - 1
    BY EndsAre
  <2>4. got \cup (f .. e - 1) = got
    BY <2>2, <2>3, Zenon
  <2>5. DtlsMsgSet(m, Piece(n, f, e)) = m
    BY <1>2, Zenon DEF DtlsMsgSet
  <2> QED BY <2>4, <2>5, Zenon
<1>3. CASE ~m.ready
  <2>1. PICK bs, r, ready : bs = m.buckets /\ r = m.received /\ ready = m.ready
    OBVIOUS
  <2>2. m = [number |-> n, size |-> Flight[n], ready |-> ready, buckets |-> bs, received |-> r]
    BY <1>1, <2>1, Zenon
  <2>3. ready = FALSE
    BY <1>1, <1>3, <2>1, Zenon
  <2>4. m = Incomplete(n, bs, r)
    BY <2>2, <2>3, Zenon DEF Incomplete
  <2>5. Keeps(n, bs, r, got)
    BY <1>1, <2>1, Zenon
  <2>6. /\ MessageInv(DtlsMsgSet(Incomplete(n, bs, r), Piece(n, f, e)), got \cup (f .. e - 1))
        /\ Number(DtlsMsgSet(Incomplete(n, bs, r), Piece(n, f, e))) = n
    BY <2>5, SetIncomplete
  <2> QED BY <2>4, <2>6, Zenon
<1> QED BY <1>2, <1>3

(* To a new one.                                                            *)
LEMMA SetNew ==
    ASSUME FewFragments, NEW n \in Messages,
           NEW f \in Ends(n), NEW e \in Ends(n), Cell(n, f, e)
    PROVE  /\ MessageInv(DtlsMsgSet(DtlsMsgNew(n, Flight[n]), Piece(n, f, e)), f .. e - 1)
           /\ Number(DtlsMsgSet(DtlsMsgNew(n, Flight[n]), Piece(n, f, e))) = n
<1>1. PICK frag, m : frag = Piece(n, f, e) /\ m = Incomplete(n, <<>>, 0)
  OBVIOUS
<1>2. DtlsMsgNew(n, Flight[n]) = m
  BY <1>1, Zenon DEF DtlsMsgNew, Incomplete
<1>3. m.buckets = <<>> /\ m.received = 0 /\ ~m.ready
  BY <1>1, IncompleteIs
<1>4. f \in Nat /\ e \in Nat /\ f < e
  BY EndsAre DEF Cell
<1>5. Bytes(frag) = e - f
  BY <1>1, <1>4, PieceBytes
<1>6. {k \in DOMAIN m.buckets : frag.offset <= End(m.buckets[k])} = {} /\ Len(m.buckets) = 0
  BY <1>3
<1>7. Append(m.buckets, frag) = One(frag)
  BY <1>3 DEF One
<1>8. DtlsMsgSet(m, frag) = DtlsMsgAssembleCompleteMessage(AddBucket(m, One(frag), frag))
  BY <1>3, <1>6, <1>7 DEF DtlsMsgSet
<1>9. PICK w, bs, s : w = AddBucket(m, One(frag), frag) /\ bs = One(frag) /\ s = e - f
  OBVIOUS
<1>10. w = [m EXCEPT !.buckets = bs, !.received = s]
  <2>1. ~(Len(m.buckets) >= FragPool)
    <3>1. ~(0 >= FragPool)
      BY FragPoolAssumption
    <3> QED BY <1>6, <3>1, Zenon
  <2>2. 0 + Bytes(frag) = s
    BY <1>4, <1>5, <1>9
  <2>3. m.received + Bytes(frag) = s
    BY <1>3, <2>2, Zenon
  <2> QED BY <1>9, <2>1, <2>3 DEF AddBucket, Bytes
<1>11. w = Incomplete(n, bs, s)
  <2>1. PICK none : none = <<>>
    OBVIOUS
  <2>2. m = Incomplete(n, none, 0)
    BY <1>1, <2>1
  <2> QED BY <1>10, <2>2 DEF Incomplete
<1>12. Keeps(n, bs, s, f .. e - 1)
  BY <1>1, <1>4, <1>9, KeepsOne
<1>13. /\ MessageInv(DtlsMsgAssembleCompleteMessage(Incomplete(n, bs, s)), f .. e - 1)
       /\ Number(DtlsMsgAssembleCompleteMessage(Incomplete(n, bs, s))) = n
  BY <1>12, AssembleInv
<1> QED BY <1>1, <1>2, <1>8, <1>9, <1>11, <1>13, Zenon

-----------------------------------------------------------------------------
(* The list of messages.                                                   *)

LEMMA MessageIs ==
    ASSUME NEW m, NEW got, MessageInv(m, got), Number(m) \in Messages, FewFragments
    PROVE  m \in Msgs
<1>0. PICK n \in Messages : n = m.number
  BY DEF Number
<1>1. PICK ready, buckets, r :
         n = m.number /\ ready = m.ready /\ buckets = m.buckets /\ r = m.received
  BY <1>0
<1>2. /\ m = [number |-> n, size |-> Flight[n], ready |-> ready, buckets |-> buckets,
              received |-> r]
      /\ Keeps(n, buckets, r, got) /\ ready = (r = m.size)
  BY <1>1, Zenon DEF MessageInv
<1>3. Flight[n] \in Nat /\ ready \in BOOLEAN
  <2>1. Flight[n] \in Nat
    BY FlightAssumption DEF Messages
  <2>2. ready \in BOOLEAN
    BY <1>2, Zenon
  <2> QED BY <2>1, <2>2
<1> DEFINE B == [offset : Nat, data : Seq(Int)]
<1>4. buckets \in Seq(B) /\ r \in Nat
  <2>1. ASSUME NEW a \in Ends(n), NEW b \in Ends(n), a < b,
               buckets = One(Piece(n, a, b)), r = b - a
        PROVE  buckets \in Seq(B) /\ r \in Nat
    <3>1. a \in Nat /\ b \in Nat
      BY EndsAre
    <3>2. Piece(n, a, b) \in B
      BY <2>1, <3>1, PieceIs
    <3> HIDE DEF B
    <3> QED BY <2>1, <3>1, <3>2 DEF One
  <2>2. ASSUME NEW a \in Ends(n), NEW b \in Ends(n), NEW c \in Ends(n), NEW d \in Ends(n),
               a < b, b < c, c < d, buckets = Two(Piece(n, a, b), Piece(n, c, d)),
               r = (b - a) + (d - c)
        PROVE  buckets \in Seq(B) /\ r \in Nat
    <3>1. a \in Nat /\ b \in Nat /\ c \in Nat /\ d \in Nat
      BY EndsAre
    <3>2. Piece(n, a, b) \in B
      BY <2>2, <3>1, PieceIs
    <3>3. Piece(n, c, d) \in B
      BY <2>2, <3>1, PieceIs
    <3> HIDE DEF B
    <3> QED BY <2>2, <3>1, <3>2, <3>3 DEF Two
  <2> HIDE DEF B
  <2> QED BY <1>2, <2>1, <2>2, Zenon DEF Keeps
<1> HIDE DEF B
<1>5. Msgs = [number : Messages, size : Nat, ready : BOOLEAN, buckets : Seq(B), received : Nat]
  BY DEF Msgs, B
<1> QED BY <1>2, <1>3, <1>4, <1>5

(* A fragment that is sent is a piece between two cuts.                     *)
LEMMA FragmentIs ==
    ASSUME FewFragments, NEW f \in AllFragments
    PROVE  \E n \in Messages : \E o, e \in Ends(n) :
             /\ Number(f) = n /\ f.number = n /\ f.size = Flight[n] /\ f.offset = o
             /\ f.data = Content(n, o, e) /\ Cell(n, o, e) /\ Positions(f) = o .. e - 1
<1>1. PICK n \in Messages : f \in Fragments(n)
  BY DEF AllFragments
<1>2. PICK k \in 0 .. Flight[n] - 1 : k * MaxFragment < Flight[n] /\ f = Fragment(n, n, k * MaxFragment)
  BY <1>1 DEF Fragments
<1>3. Flight[n] \in Nat \ {0} /\ MaxFragment \in Nat \ {0} /\ Flight[n] <= 4 * MaxFragment
  BY FlightAssumption DEF FewFragments, Messages
<1>4. k = 0 \/ k = 1 \/ k = 2 \/ k = 3
  <2>1. k >= 4 => k * MaxFragment >= 4 * MaxFragment
    BY <1>3
  <2> QED BY <1>2, <1>3, <2>1
<1>5. PICK o, e : o = k * MaxFragment /\ e = Min({o + MaxFragment, Flight[n]})
  OBVIOUS
<1>6. /\ o \in Nat /\ o < Flight[n]
      /\ o = 0 \/ o = MaxFragment \/ o = 2 * MaxFragment \/ o = 3 * MaxFragment
  BY <1>2, <1>3, <1>4, <1>5
<1>7. /\ e = (IF o + MaxFragment <= Flight[n] THEN o + MaxFragment ELSE Flight[n])
      /\ e \in Nat /\ o < e
  BY <1>2, <1>3, <1>5, <1>6, MinOfTwo
<1>8. o \in Ends(n) /\ e \in Ends(n)
  <2>1. e = Flight[n] \/ (e = o + MaxFragment /\ e < Flight[n])
    BY <1>3, <1>6, <1>7
  <2>2. e = o + MaxFragment /\ e < Flight[n] => e \in Cuts(n)
    BY <1>3, <1>6 DEF Cuts
  <2>3. o \in Cuts(n)
    BY <1>6 DEF Cuts
  <2> QED BY <2>1, <2>2, <2>3 DEF Ends
<1>9. Cell(n, o, e)
  <2>1. ASSUME NEW x \in Ends(n), o < x
        PROVE  e <= x
    <3>1. /\ x \in Nat /\ x <= Flight[n]
          /\ \/ x = 0 \/ x = MaxFragment \/ x = 2 * MaxFragment \/ x = 3 * MaxFragment
             \/ x = Flight[n]
      BY EndsAre
    <3>2. e <= Flight[n] /\ e <= o + MaxFragment
      BY <1>3, <1>6, <1>7
    <3> QED BY <1>3, <1>6, <1>7, <2>1, <3>1, <3>2
  <2> QED BY <1>6, <1>7, <2>1, EndsAre DEF Cell
<1>10. f = [number |-> n, size |-> Flight[n], offset |-> o, data |-> Content(n, o, e)]
  BY <1>2, <1>5 DEF Fragment
<1>11. Len(Content(n, o, e)) = e - o
  <2>1. o <= e
    BY <1>6, <1>7
  <2> QED BY <1>6, <1>7, <2>1, ContentIs
<1>12. Positions(f) = o .. e - 1
  BY <1>6, <1>7, <1>10, <1>11 DEF Positions, End
<1>13. Number(f) = n
  BY <1>10 DEF Number
<1> QED BY <1>8, <1>9, <1>10, <1>12, <1>13

LEMMA GotMore ==
    ASSUME NEW arr, NEW f, NEW n, Number(f) = n
    PROVE  Got(arr \cup {f}, n) = Got(arr, n) \cup Positions(f)
BY DEF Got

LEMMA GotSame ==
    ASSUME NEW arr, NEW f, NEW n, Number(f) # n
    PROVE  Got(arr \cup {f}, n) = Got(arr, n)
BY DEF Got

(* The message of the fragment is in the list.                              *)
LEMMA StoreAgain ==
    ASSUME FewFragments, NEW x \in Nat \ {0}, NEW stored, NEW arr, StoredInv(stored, x, arr),
           NEW f \in AllFragments, NEW i \in DOMAIN stored, Number(stored[i]) = Number(f)
    PROVE  StoredInv(DtlsMsgStore(stored, f), x, arr \cup {f})
<1> DEFINE at == {j \in DOMAIN stored : stored[j].number = f.number}
<1>1. PICK n \in Messages : \E o, e \in Ends(n) :
             /\ Number(f) = n /\ f.number = n /\ f.size = Flight[n] /\ f.offset = o
             /\ f.data = Content(n, o, e) /\ Cell(n, o, e) /\ Positions(f) = o .. e - 1
  BY FragmentIs
<1>2. PICK o \in Ends(n), e \in Ends(n) :
             /\ Number(f) = n /\ f.number = n /\ f.size = Flight[n] /\ f.offset = o
             /\ f.data = Content(n, o, e) /\ Cell(n, o, e) /\ Positions(f) = o .. e - 1
  BY <1>1
<1>3. /\ stored \in Seq(Msgs) /\ DOMAIN stored \subseteq Nat
      /\ \A j, k \in DOMAIN stored : j < k => Number(stored[j]) < Number(stored[k])
      /\ \A j \in DOMAIN stored : Number(stored[j]) \in x .. Len(Flight)
  BY DEF StoredInv
<1>4. \A j \in DOMAIN stored : Number(stored[j]) = n => j = i
  BY <1>2, <1>3
<1>5. at = {i}
  BY <1>2, <1>4 DEF Number
<1>6. Max(at) = i /\ at # {}
  <2>1. Max({i, i}) = i
    BY <1>3, MaxOfTwo
  <2> QED BY <1>5, <2>1
<1>7. PICK w : w = DtlsMsgSet(stored[i], Piece(n, o, e))
  OBVIOUS
<1>8. DtlsMsgStore(stored, f) = [stored EXCEPT ![i] = w]
  <2>1. [offset |-> f.offset, data |-> f.data] = Piece(n, o, e)
    BY <1>2, Zenon DEF Piece
  <2> HIDE DEF at
  <2> QED BY <1>6, <1>7, <2>1 DEF DtlsMsgStore, at
<1>9. MessageInv(w, Got(arr, n) \cup (o .. e - 1)) /\ Number(w) = n
  <2>1. MessageInv(stored[i], Got(arr, n))
    BY <1>2 DEF StoredInv
  <2>2. Number(stored[i]) = n
    BY <1>2
  <2> QED BY <1>2, <1>7, <2>1, <2>2, SetInv
<1>10. w \in Msgs
  BY <1>9, MessageIs
<1>11. PICK t : t = DtlsMsgStore(stored, f)
  OBVIOUS
<1>12. /\ t \in Seq(Msgs) /\ DOMAIN t = DOMAIN stored
       /\ t[i] = w /\ \A j \in DOMAIN stored : j # i => t[j] = stored[j]
  BY <1>3, <1>8, <1>10, <1>11
<1>13. \A j \in DOMAIN stored : Number(t[j]) = Number(stored[j])
  BY <1>2, <1>9, <1>12
<1>14. ASSUME NEW j \in DOMAIN stored
       PROVE  MessageInv(t[j], Got(arr \cup {f}, Number(stored[j])))
  <2>1. CASE j = i
    <3>1. Got(arr \cup {f}, n) = Got(arr, n) \cup (o .. e - 1)
      <4>1. Got(arr \cup {f}, n) = Got(arr, n) \cup Positions(f)
        BY <1>2, GotMore, Zenon
      <4> QED BY <1>2, <4>1, Zenon
    <3>2. t[j] = w /\ Number(stored[j]) = n
      BY <1>2, <1>12, <2>1
    <3> QED BY <1>9, <3>1, <3>2
  <2>2. CASE j # i
    <3>1. Number(f) # Number(stored[j])
      BY <1>2, <1>4, <2>2
    <3>2. Got(arr \cup {f}, Number(stored[j])) = Got(arr, Number(stored[j]))
      BY <3>1, GotSame, Zenon
    <3>3. MessageInv(stored[j], Got(arr, Number(stored[j])))
      BY DEF StoredInv
    <3>4. t[j] = stored[j]
      BY <1>12, <2>2
    <3> QED BY <3>2, <3>3, <3>4
  <2> QED BY <2>1, <2>2
<1>15. ASSUME NEW g \in arr \cup {f}, Number(g) >= x
       PROVE  \E j \in DOMAIN t : Number(t[j]) = Number(g)
  BY <1>2, <1>12, <1>13, <1>15 DEF StoredInv
<1>16. \A j, k \in DOMAIN t : j < k => Number(t[j]) < Number(t[k])
  BY <1>3, <1>12, <1>13
<1>17. \A j \in DOMAIN t : /\ Number(t[j]) \in x .. Len(Flight)
                           /\ MessageInv(t[j], Got(arr \cup {f}, Number(t[j])))
  BY <1>3, <1>12, <1>13, <1>14
<1>18. StoredInv(t, x, arr \cup {f})
  BY <1>12, <1>15, <1>16, <1>17 DEF StoredInv
<1> QED BY <1>11, <1>18

(* It is not: the message goes between those with smaller numbers and those with larger ones. *)
LEMMA Place ==
    ASSUME NEW stored \in Seq(Msgs), NEW n \in Nat,
           \A i, j \in DOMAIN stored : i < j => Number(stored[i]) < Number(stored[j]),
           \A i \in DOMAIN stored : Number(stored[i]) \in Nat /\ Number(stored[i]) # n
    PROVE  \E p \in 0 .. Len(stored) :
             /\ {i \in DOMAIN stored : Number(stored[i]) < n} = 1 .. p
             /\ \A i \in 1 .. p : Number(stored[i]) < n
             /\ \A i \in p + 1 .. Len(stored) : Number(stored[i]) > n
<1> DEFINE before == {i \in DOMAIN stored : Number(stored[i]) < n}
<1>1. Len(stored) \in Nat /\ DOMAIN stored = 1 .. Len(stored)
  OBVIOUS
<1>2. CASE before = {}
  <2>1. \A i \in 0 + 1 .. Len(stored) : Number(stored[i]) > n
    BY <1>1, <1>2
  <2>2. 1 .. 0 = {} /\ 0 \in 0 .. Len(stored)
    BY <1>1
  <2>3. \A i \in 1 .. 0 : Number(stored[i]) < n
    OBVIOUS
  <2> QED BY <1>2, <2>1, <2>2, <2>3
<1>3. CASE before # {}
  <2>1. before \in SUBSET Nat /\ \A i \in before : i <= Len(stored)
    BY <1>1
  <2>2. PICK p \in before : \A i \in before : i <= p
    <3> HIDE DEF before
    <3> QED BY <1>1, <1>3, <2>1, HasGreatest
  <2>3. p \in 1 .. Len(stored) /\ Number(stored[p]) < n
    BY <1>1, <2>2
  <2>4. ASSUME NEW i \in 1 .. p
        PROVE  i \in DOMAIN stored /\ Number(stored[i]) < n
    <3>1. i \in DOMAIN stored /\ p \in DOMAIN stored
      BY <1>1, <2>3
    <3>2. CASE i = p
      BY <2>3, <3>1, <3>2
    <3>3. CASE i < p
      <4>1. Number(stored[i]) < Number(stored[p])
        BY <3>1, <3>3
      <4> QED BY <2>3, <3>1, <4>1
    <3> QED BY <2>3, <3>2, <3>3
  <2>5. ASSUME NEW i \in p + 1 .. Len(stored)
        PROVE  Number(stored[i]) > n
    <3>1. i \in DOMAIN stored /\ ~(i <= p)
      BY <1>1, <2>3
    <3>2. ~(Number(stored[i]) < n)
      BY <2>2, <3>1
    <3> QED BY <3>1, <3>2
  <2>6. before = 1 .. p
    <3>1. \A i \in before : i \in 1 .. p
      BY <1>1, <2>2, <2>3
    <3> QED BY <2>4, <3>1
  <2>7. p \in 0 .. Len(stored)
    BY <1>1, <2>3
  <2> HIDE DEF before
  <2>8. /\ before = 1 .. p
        /\ \A i \in 1 .. p : Number(stored[i]) < n
        /\ \A i \in p + 1 .. Len(stored) : Number(stored[i]) > n
    BY <2>4, <2>5, <2>6
  <2> QED BY <2>7, <2>8 DEF before
<1> QED BY <1>2, <1>3

\* t is s with e between its elements p and q.
Inserted(t, S, s, p, q, e) ==
    /\ t \in Seq(S) /\ Len(t) = Len(s) + 1
    /\ \A k \in 1 .. p : t[k] = s[k]
    /\ t[q] = e
    /\ \A k \in q + 1 .. Len(t) : t[k] = s[k - 1]

LEMMA InsertIs ==
    ASSUME NEW S, NEW s \in Seq(S), NEW p \in Nat, NEW q \in Nat \ {0}, q = p + 1, p <= Len(s),
           NEW e \in S, NEW t, t = InsertAt(s, q, e)
    PROVE  Inserted(t, S, s, p, q, e)
<1>1. q <= p + 1 /\ Len(s) \in Nat /\ q - 1 = p
  OBVIOUS
<1>2. t = Spliced(s, q, e, p)
  BY DEF InsertAt, Spliced
<1>3. HasSpliced(t, S, s, q, e, p)
  BY <1>1, <1>2, SpliceIs
<1>4. /\ t \in Seq(S) /\ Len(t) = Len(s) - p + q
      /\ \A k \in 1 .. q - 1 : t[k] = s[k]
      /\ t[q] = e
      /\ \A k \in q + 1 .. Len(t) : t[k] = s[k - q + p]
  BY <1>3 DEF HasSpliced
<1>5. \A k \in q + 1 .. Len(t) : k - q + p = k - 1
  OBVIOUS
<1>6. Len(s) - p + q = Len(s) + 1
  BY <1>1
<1> QED BY <1>1, <1>4, <1>5, <1>6 DEF Inserted

LEMMA StoreFirst ==
    ASSUME FewFragments, NEW x \in Nat \ {0}, NEW stored, NEW arr, StoredInv(stored, x, arr),
           NEW f \in AllFragments, Number(f) >= x,
           \A i \in DOMAIN stored : Number(stored[i]) # Number(f)
    PROVE  StoredInv(DtlsMsgStore(stored, f), x, arr \cup {f})
<1> DEFINE at == {j \in DOMAIN stored : stored[j].number = f.number}
           before == {i \in DOMAIN stored : stored[i].number < f.number}
<1>1. PICK n \in Messages : \E o, e \in Ends(n) :
             /\ Number(f) = n /\ f.number = n /\ f.size = Flight[n] /\ f.offset = o
             /\ f.data = Content(n, o, e) /\ Cell(n, o, e) /\ Positions(f) = o .. e - 1
  BY FragmentIs
<1>2. PICK o \in Ends(n), e \in Ends(n) :
             /\ Number(f) = n /\ f.number = n /\ f.size = Flight[n] /\ f.offset = o
             /\ f.data = Content(n, o, e) /\ Cell(n, o, e) /\ Positions(f) = o .. e - 1
  BY <1>1
<1>3. /\ stored \in Seq(Msgs)
      /\ \A j, k \in DOMAIN stored : j < k => Number(stored[j]) < Number(stored[k])
      /\ \A j \in DOMAIN stored : Number(stored[j]) \in x .. Len(Flight)
      /\ \A j \in DOMAIN stored : MessageInv(stored[j], Got(arr, Number(stored[j])))
      /\ \A g \in arr : Number(g) >= x => \E i \in DOMAIN stored : Number(stored[i]) = Number(g)
  BY DEF StoredInv
<1>4. n \in Nat /\ n <= Len(Flight) /\ Len(Flight) \in Nat
  BY FlightAssumption DEF Messages
<1>5. PICK p \in 0 .. Len(stored) :
             /\ {i \in DOMAIN stored : Number(stored[i]) < n} = 1 .. p
             /\ \A i \in 1 .. p : Number(stored[i]) < n
             /\ \A i \in p + 1 .. Len(stored) : Number(stored[i]) > n
  <2>1. \A i \in DOMAIN stored : Number(stored[i]) \in Nat /\ Number(stored[i]) # n
    BY <1>2, <1>3, <1>4
  <2> QED BY <1>3, <1>4, <2>1, Place
<1>6. at = {}
  BY <1>2 DEF Number
<1>7. before = 1 .. p
  BY <1>2, <1>5 DEF Number
<1>8. Cardinality(before) = p
  <2>1. Cardinality(1 .. p) = p
    BY FS_Interval
  <2> QED BY <1>7, <2>1
<1>9. PICK w : w = DtlsMsgSet(DtlsMsgNew(n, Flight[n]), Piece(n, o, e))
  OBVIOUS
<1>10. MessageInv(w, o .. e - 1) /\ Number(w) = n
  BY <1>2, <1>9, SetNew
<1>11. w \in Msgs
  BY <1>10, MessageIs
<1>12. DtlsMsgStore(stored, f) = InsertAt(stored, p + 1, w)
  <2>1. [offset |-> f.offset, data |-> f.data] = Piece(n, o, e)
    BY <1>2, Zenon DEF Piece
  <2> HIDE DEF at, before
  <2> QED BY <1>2, <1>6, <1>8, <1>9, <2>1 DEF DtlsMsgStore, at, before
<1>13. PICK t : t = DtlsMsgStore(stored, f)
  OBVIOUS
<1>14. /\ t \in Seq(Msgs) /\ Len(t) = Len(stored) + 1
       /\ \A k \in 1 .. p : t[k] = stored[k]
       /\ t[p + 1] = w
       /\ \A k \in p + 2 .. Len(t) : t[k] = stored[k - 1]
  <2>1. PICK q \in Nat \ {0} : q = p + 1
    OBVIOUS
  <2>2. t = InsertAt(stored, q, w)
    BY <1>12, <1>13, <2>1
  <2>3. Inserted(t, Msgs, stored, p, q, w)
    <3>1. p \in Nat /\ p <= Len(stored)
      BY <1>3
    <3> QED BY <1>3, <1>11, <2>1, <2>2, <3>1, InsertIs
  <2>4. q + 1 = p + 2
    BY <2>1
  <2> QED BY <2>1, <2>3, <2>4 DEF Inserted
<1>15. Len(stored) \in Nat /\ DOMAIN stored = 1 .. Len(stored) /\ DOMAIN t = 1 .. Len(stored) + 1
  BY <1>3, <1>14
\* Where a message comes from.
<1>16. ASSUME NEW j \in DOMAIN t
       PROVE  \/ j = p + 1 /\ t[j] = w
              \/ j <= p /\ j \in DOMAIN stored /\ t[j] = stored[j] /\ Number(t[j]) < n
              \/ j > p + 1 /\ j - 1 \in DOMAIN stored /\ t[j] = stored[j - 1] /\ Number(t[j]) > n
  <2>1. CASE j = p + 1
    BY <1>14, <2>1
  <2>2. CASE j <= p
    BY <1>5, <1>14, <1>15, <2>2
  <2>3. CASE j > p + 1
    <3>1. j \in p + 2 .. Len(t) /\ j - 1 \in p + 1 .. Len(stored)
      BY <1>14, <1>15, <2>3
    <3>2. t[j] = stored[j - 1]
      BY <1>14, <3>1
    <3>3. Number(stored[j - 1]) > n
      BY <1>5, <3>1
    <3>4. j - 1 \in DOMAIN stored
      BY <1>15, <3>1
    <3> QED BY <2>3, <3>2, <3>3, <3>4
  <2> QED BY <1>15, <2>1, <2>2, <2>3
<1>17. ASSUME NEW j \in DOMAIN t
       PROVE  Number(t[j]) \in x .. Len(Flight)
  <2>1. n \in x .. Len(Flight)
    BY <1>2, <1>4
  <2>2. t[j] = w \/ \E i \in DOMAIN stored : t[j] = stored[i]
    BY <1>16
  <2> QED BY <1>3, <1>10, <2>1, <2>2
<1>18. Got(arr, n) = {}
  <2>1. ASSUME NEW g \in arr, Number(g) = n
        PROVE  FALSE
    BY <1>2, <1>3, <2>1
  <2> QED BY <2>1 DEF Got
<1>19. ASSUME NEW j \in DOMAIN t
       PROVE  MessageInv(t[j], Got(arr \cup {f}, Number(t[j])))
  <2>1. CASE t[j] = w
    <3>1. Got(arr \cup {f}, n) = Got(arr, n) \cup (o .. e - 1)
      <4>1. Got(arr \cup {f}, n) = Got(arr, n) \cup Positions(f)
        BY <1>2, GotMore, Zenon
      <4> QED BY <1>2, <4>1, Zenon
    <3>2. Got(arr \cup {f}, n) = o .. e - 1
      BY <1>18, <3>1
    <3> QED BY <1>10, <2>1, <3>2
  <2>2. ASSUME NEW i \in DOMAIN stored, t[j] = stored[i]
        PROVE  MessageInv(t[j], Got(arr \cup {f}, Number(t[j])))
    <3>1. Got(arr \cup {f}, Number(stored[i])) = Got(arr, Number(stored[i]))
      BY <1>2, GotSame, Zenon
    <3> QED BY <1>3, <2>2, <3>1
  <2> QED BY <1>16, <2>1, <2>2
<1>20. ASSUME NEW i \in DOMAIN t, NEW j \in DOMAIN t, i < j
       PROVE  Number(t[i]) < Number(t[j])
  <2>1. i \in Nat /\ j \in Nat
    BY <1>15
  <2>2. CASE j <= p
    <3>1. i \in DOMAIN stored /\ j \in DOMAIN stored /\ t[i] = stored[i] /\ t[j] = stored[j]
      BY <1>14, <1>15, <1>20, <2>1, <2>2
    <3> QED BY <1>3, <1>20, <3>1
  <2>3. CASE i > p + 1
    <3>1. j > p + 1 /\ ~(j <= p) /\ ~(i <= p) /\ i # p + 1 /\ j # p + 1 /\ i - 1 < j - 1
      BY <1>20, <2>1, <2>3
    <3>2. i - 1 \in DOMAIN stored /\ t[i] = stored[i - 1]
      BY <1>16, <3>1
    <3>3. j - 1 \in DOMAIN stored /\ t[j] = stored[j - 1]
      BY <1>16, <3>1
    <3> QED BY <1>3, <3>1, <3>2, <3>3
  <2>4. CASE i <= p + 1 /\ j > p
    <3>1. (i = p + 1 /\ Number(t[i]) = n) \/ (i <= p /\ Number(t[i]) < n)
      BY <1>10, <1>16, <2>1, <2>4
    <3>2. (j = p + 1 /\ Number(t[j]) = n) \/ (j > p + 1 /\ Number(t[j]) > n)
      BY <1>10, <1>16, <2>1, <2>4
    <3>3. Number(t[i]) \in Nat /\ Number(t[j]) \in Nat
      BY <1>17
    <3> QED BY <1>4, <1>20, <2>1, <3>1, <3>2, <3>3
  <2> QED BY <1>20, <2>1, <2>2, <2>3, <2>4
<1>21. ASSUME NEW g \in arr \cup {f}, Number(g) >= x
       PROVE  \E j \in DOMAIN t : Number(t[j]) = Number(g)
  <2>1. CASE g = f
    <3>1. p + 1 \in DOMAIN t /\ t[p + 1] = w
      BY <1>14, <1>15
    <3> QED BY <1>2, <1>10, <2>1, <3>1
  <2>2. CASE g \in arr
    <3>1. PICK i \in DOMAIN stored : Number(stored[i]) = Number(g)
      BY <1>3, <1>21, <2>2
    <3>2. CASE i <= p
      BY <1>14, <1>15, <3>1, <3>2
    <3>3. CASE i > p
      <4>1. i + 1 \in p + 2 .. Len(t) /\ i + 1 \in DOMAIN t /\ (i + 1) - 1 = i
        BY <1>14, <1>15, <3>3
      <4>2. t[i + 1] = stored[i]
        BY <1>14, <4>1
      <4> QED BY <3>1, <4>1, <4>2
    <3> QED BY <1>15, <3>2, <3>3
  <2> QED BY <2>1, <2>2
<1>22. StoredInv(t, x, arr \cup {f})
  BY <1>14, <1>17, <1>19, <1>20, <1>21 DEF StoredInv
<1> QED BY <1>13, <1>22

LEMMA StoreInv ==
    ASSUME FewFragments, NEW x \in Nat \ {0}, NEW stored, NEW arr, StoredInv(stored, x, arr),
           NEW f \in AllFragments, Number(f) >= x
    PROVE  StoredInv(DtlsMsgStore(stored, f), x, arr \cup {f})
BY StoreAgain, StoreFirst

(* There is room for one message more.                                      *)
LEMMA StoredFew ==
    ASSUME NEW x \in Nat \ {0}, NEW stored, NEW arr, StoredInv(stored, x, arr)
    PROVE  Len(stored) \in Nat /\ Len(stored) <= Len(Flight) /\ Len(stored) < Pool
<1> DEFINE F == [i \in 1 .. Len(stored) |-> Number(stored[i])]
<1>1. /\ Len(stored) \in Nat /\ DOMAIN stored = 1 .. Len(stored)
      /\ \A j, k \in DOMAIN stored : j < k => Number(stored[j]) < Number(stored[k])
      /\ \A j \in DOMAIN stored : Number(stored[j]) \in x .. Len(Flight)
  BY DEF StoredInv
<1>2. Len(Flight) \in Nat /\ Pool \in Nat /\ Len(Flight) < Pool
  BY FlightAssumption
<1>3. F \in [1 .. Len(stored) -> 1 .. Len(Flight)]
  BY <1>1, <1>2
<1>4. ASSUME NEW i \in 1 .. Len(stored), NEW j \in 1 .. Len(stored), F[i] = F[j]
      PROVE  i = j
  <2>1. Number(stored[i]) = Number(stored[j])
    BY <1>4
  <2>2. ~(i < j) /\ ~(j < i)
    BY <1>1, <1>2, <2>1
  <2> QED BY <1>1, <2>2
<1>5. DOMAIN F = 1 .. Len(stored)
  OBVIOUS
<1> HIDE DEF F
<1>6. F \in Injection(1 .. Len(stored), 1 .. Len(Flight))
  BY <1>3, <1>4, <1>5 DEF Injection, IsInjective
<1>7. Cardinality(1 .. Len(stored)) <= Cardinality(1 .. Len(Flight))
  <2>1. IsFiniteSet(1 .. Len(Flight))
    BY <1>2, FS_Interval
  <2> QED BY <1>6, <2>1, FS_Injection
<1>8. \A k \in Nat : Cardinality(1 .. k) = k
  BY FS_Interval
<1>9. Cardinality(1 .. Len(stored)) = Len(stored) /\ Cardinality(1 .. Len(Flight)) = Len(Flight)
  BY <1>1, <1>2, <1>8
<1> QED BY <1>1, <1>2, <1>7, <1>8, <1>9

(* A message that is ready is whole.                                        *)
LEMMA ReadyIsWhole ==
    ASSUME FewFragments, NEW m, NEW got, MessageInv(m, got), Ready(m), NEW n \in Messages,
           Number(m) = n
    PROVE  m.buckets[1].data = Whole(n)
<1>1. PICK buckets, r : buckets = m.buckets /\ r = m.received
  OBVIOUS
<1>2. Keeps(n, buckets, r, got) /\ m.ready = (r = m.size) /\ m.size = Flight[n]
  <2>1. m.number = n
    BY DEF Number
  <2>2. /\ m = [number |-> m.number, size |-> Flight[m.number], ready |-> m.ready,
            buckets |-> m.buckets, received |-> m.received]
        /\ Keeps(m.number, m.buckets, m.received, got)
        /\ m.ready = (m.received = m.size)
    BY Zenon DEF MessageInv
  <2>3. m.size = Flight[m.number]
    BY <2>2
  <2> QED BY <1>1, <2>1, <2>2, <2>3, Zenon
<1>3. r = Flight[n]
  BY <1>2, Zenon DEF Ready
<1>4. ASSUME NEW a \in Ends(n), NEW b \in Ends(n), a < b,
             buckets = One(Piece(n, a, b)), r = b - a
      PROVE  buckets[1].data = Whole(n)
  <2>1. a = 0 /\ b = Flight[n]
    BY <1>3, <1>4, OneWhole
  <2>2. buckets[1] = Piece(n, 0, Flight[n])
    BY <1>4, <2>1 DEF One
  <2> QED BY <2>2 DEF Piece, Whole
<1>5. ASSUME NEW a \in Ends(n), NEW b \in Ends(n), NEW c \in Ends(n), NEW d \in Ends(n),
             a < b, b < c, c < d, r = (b - a) + (d - c)
      PROVE  FALSE
  BY <1>3, <1>5, TwoNotWhole
<1>6. buckets[1].data = Whole(n)
  <2>1. CASE \E a, b \in Ends(n) :
               /\ a < b /\ got = a .. b - 1
               /\ buckets = One(Piece(n, a, b)) /\ r = b - a
    BY <1>4, <2>1, Zenon
  <2>2. CASE \E a, b, c, d \in Ends(n) :
               /\ a < b /\ b < c /\ c < d /\ got = (a .. b - 1) \cup (c .. d - 1)
               /\ buckets = Two(Piece(n, a, b), Piece(n, c, d)) /\ r = (b - a) + (d - c)
    <3>1. PICK a \in Ends(n) : \E b, c, d \in Ends(n) :
               /\ a < b /\ b < c /\ c < d /\ got = (a .. b - 1) \cup (c .. d - 1)
               /\ buckets = Two(Piece(n, a, b), Piece(n, c, d)) /\ r = (b - a) + (d - c)
      BY <2>2, Zenon
    <3>2. PICK b \in Ends(n), c \in Ends(n), d \in Ends(n) :
               /\ a < b /\ b < c /\ c < d /\ got = (a .. b - 1) \cup (c .. d - 1)
               /\ buckets = Two(Piece(n, a, b), Piece(n, c, d)) /\ r = (b - a) + (d - c)
      BY <3>1, Zenon
    <3> QED BY <1>5, <3>2, Zenon
  <2> QED BY <1>2, <2>1, <2>2, Zenon DEF Keeps
<1> QED BY <1>1, <1>6

More(x, n) == [i \in 1 .. n |-> Whole(x + i - 1)]

LEMMA WholesIs ==
    ASSUME NEW x \in Nat \ {0}, NEW n \in Nat, NEW k \in Nat, k = x - 1,
           NEW l \in Nat, l = x + n - 1
    PROVE  Wholes(k) \o More(x, n) = Wholes(l)
<1> DEFINE S == {Whole(i) : i \in Nat}
<1>1. Wholes(k) \in Seq(S) /\ Len(Wholes(k)) = k /\ \A i \in 1 .. k : Wholes(k)[i] = Whole(i)
  BY DEF Wholes
<1>2. PICK more : more = More(x, n)
  OBVIOUS
<1>3. more \in Seq(S) /\ Len(more) = n /\ \A i \in 1 .. n : more[i] = Whole(x + i - 1)
  <2>1. \A i \in 1 .. n : x + i - 1 \in Nat
    OBVIOUS
  <2> QED BY <1>2, <2>1 DEF More
<1>4. Wholes(l) \in Seq(S) /\ Len(Wholes(l)) = l /\ \A i \in 1 .. l : Wholes(l)[i] = Whole(i)
  BY DEF Wholes
<1> HIDE DEF S
<1>5. PICK t : t = Wholes(k) \o more
  OBVIOUS
<1>6. /\ t \in Seq(S) /\ Len(t) = Len(Wholes(k)) + Len(more)
      /\ \A i \in 1 .. Len(Wholes(k)) + Len(more) :
           t[i] = IF i <= Len(Wholes(k)) THEN Wholes(k)[i] ELSE more[i - Len(Wholes(k))]
  BY <1>1, <1>3, <1>5, ConcatProperties
<1>7. /\ t \in Seq(S) /\ Len(t) = l
      /\ \A i \in 1 .. l : t[i] = IF i <= k THEN Wholes(k)[i] ELSE more[i - k]
  <2>1. Len(Wholes(k)) = k /\ Len(more) = n /\ k + n = l
    BY <1>1, <1>3
  <2> QED BY <1>6, <2>1
<1>8. ASSUME NEW i \in 1 .. l
      PROVE  t[i] = Wholes(l)[i]
  <2>1. CASE i <= k
    BY <1>1, <1>4, <1>7, <2>1
  <2>2. CASE i > k
    <3>1. i - k \in 1 .. n /\ x + (i - k) - 1 = i
      BY <2>2
    <3>2. more[i - k] = Whole(x + (i - k) - 1)
      BY <1>3, <3>1
    <3> QED BY <1>4, <1>7, <2>2, <3>1, <3>2
  <2> QED BY <2>1, <2>2
<1>9. t = Wholes(l)
  BY <1>4, <1>7, <1>8, SeqEqual
<1> QED BY <1>2, <1>5, <1>9

Advance(r, expected, stored, processed) ==
    [r EXCEPT !.expected = expected, !.stored = stored, !.processed = processed]

LEMMA AdvanceIs ==
    ASSUME NEW x, NEW stored, NEW processed, NEW r, r = Receiver(x, stored, processed),
           NEW y, NEW t, NEW q, NEW z, z = Advance(r, y, t, q)
    PROVE  z = Receiver(y, t, q)
BY DEF Advance, Receiver

(* The ready messages that come next are processed and leave the list.      *)
LEMMA ProcessInv ==
    ASSUME FewFragments, NEW x \in 1 .. Len(Flight) + 1, NEW stored, NEW arr,
           StoredInv(stored, x, arr), arr \subseteq AllFragments,
           NEW r, r = Receiver(x, stored, Wholes(x - 1))
    PROVE  RxInv(Dtls13ProcessBufferedMessages(r), arr)
<1> DEFINE next == {k \in DOMAIN stored :
                      \A i \in 1 .. k : stored[i].ready /\ stored[i].number = x + i - 1}
<1>1. /\ Len(stored) \in Nat /\ DOMAIN stored = 1 .. Len(stored) /\ stored \in Seq(Msgs)
      /\ \A j, k \in DOMAIN stored : j < k => Number(stored[j]) < Number(stored[k])
      /\ \A j \in DOMAIN stored : Number(stored[j]) \in x .. Len(Flight)
      /\ \A j \in DOMAIN stored : MessageInv(stored[j], Got(arr, Number(stored[j])))
      /\ \A g \in arr : Number(g) >= x => \E i \in DOMAIN stored : Number(stored[i]) = Number(g)
  BY DEF StoredInv
<1>2. Len(Flight) \in Nat /\ x \in Nat \ {0}
  BY FlightAssumption
<1>3. PICK n : n = Max(next \cup {0})
  OBVIOUS
<1>4. next = {k \in DOMAIN stored : \A i \in 1 .. k : Ready(stored[i]) /\ Number(stored[i]) = x + i - 1}
  BY DEF Ready, Number
<1>5. n \in next \cup {0} /\ \A k \in next : k <= n
  <2> DEFINE T == next \cup {0}
  <2>1. T \in SUBSET Nat /\ T # {} /\ \A k \in T : k <= Len(stored)
    BY <1>1
  <2> HIDE DEF T
  <2>2. Max(T) \in T /\ \A k \in T : k <= Max(T)
    BY <1>1, <2>1, HasGreatest
  <2> QED BY <1>3, <2>2 DEF T
<1>6. Dtls13ProcessBufferedMessages(r) =
        [r EXCEPT !.expected = @ + n, !.stored = From(@, n),
                  !.processed = @ \o [i \in 1 .. n |-> r.stored[i].buckets[1].data]]
  <2>1. r.stored = stored /\ r.expected = x
    BY DEF Receiver
  <2> QED BY <1>3, <2>1, Zenon DEF Dtls13ProcessBufferedMessages
<1> HIDE DEF next
<1>7. n \in 0 .. Len(stored) /\ \A i \in 1 .. n : Ready(stored[i]) /\ Number(stored[i]) = x + i - 1
  BY <1>1, <1>4, <1>5
<1>8. ASSUME n + 1 \in DOMAIN stored
      PROVE  ~Ready(stored[n + 1]) \/ Number(stored[n + 1]) # x + n
  <2>1. n + 1 \notin next
    BY <1>1, <1>5, <1>7
  <2>2. SUFFICES ASSUME Ready(stored[n + 1]), Number(stored[n + 1]) = x + n
                 PROVE  FALSE
    OBVIOUS
  <2>3. ASSUME NEW i \in 1 .. n + 1
        PROVE  Ready(stored[i]) /\ Number(stored[i]) = x + i - 1
    <3>1. CASE i = n + 1
      <4>1. x + i - 1 = x + n
        BY <1>7, <3>1
      <4> QED BY <2>2, <3>1, <4>1
    <3>2. CASE i # n + 1
      <4>1. i \in 1 .. n
        BY <1>7, <3>2
      <4> QED BY <1>7, <4>1
    <3> QED BY <3>1, <3>2
  <2> QED BY <1>4, <1>8, <2>1, <2>3
<1>9. PICK t : t = From(stored, n)
  OBVIOUS
<1>10. /\ t \in Seq(Msgs) /\ Len(t) = Len(stored) - n
       /\ \A k \in 1 .. Len(stored) - n : t[k] = stored[n + k]
  <2>1. n + 1 \in Nat \ {0} /\ Len(stored) \in 0 .. Len(stored) /\ n + 1 <= Len(stored) + 1
    BY <1>1, <1>7
  <2>2. /\ SubSeq(stored, n + 1, Len(stored)) \in Seq(Msgs)
        /\ Len(SubSeq(stored, n + 1, Len(stored))) = Len(stored) + 1 - (n + 1)
        /\ \A k \in 1 .. Len(stored) + 1 - (n + 1) :
             SubSeq(stored, n + 1, Len(stored))[k] = stored[(n + 1) + k - 1]
    BY <1>1, <2>1, SubSeqIs
  <2>3. t = SubSeq(stored, n + 1, Len(stored))
    BY <1>9 DEF From
  <2>4. Len(stored) + 1 - (n + 1) = Len(stored) - n
    <3>1. n \in Nat /\ n <= Len(stored) /\ Len(stored) \in Nat
      BY <1>1, <1>7
    <3> QED BY <3>1
  <2>5. \A k \in 1 .. Len(stored) - n : (n + 1) + k - 1 = n + k
    BY <1>7
  <2> QED BY <2>2, <2>3, <2>4, <2>5
<1>11. PICK more : more = More(x, n)
  OBVIOUS
<1>12. [i \in 1 .. n |-> stored[i].buckets[1].data] = more
  <2>1. ASSUME NEW i \in 1 .. n
        PROVE  stored[i].buckets[1].data = Whole(x + i - 1)
    <3>1. i \in DOMAIN stored
      BY <1>1, <1>7
    <3>2. PICK m : m = stored[i]
      OBVIOUS
    <3>3. PICK k \in Messages : k = x + i - 1 /\ Number(m) = k
      BY <1>1, <1>2, <1>7, <3>1, <3>2 DEF Messages
    <3>4. MessageInv(m, Got(arr, Number(m))) /\ Ready(m)
      BY <1>1, <1>7, <3>1, <3>2
    <3>5. m.buckets[1].data = Whole(k)
      BY <3>3, <3>4, ReadyIsWhole
    <3> QED BY <3>2, <3>3, <3>5
  <2> QED BY <1>11, <2>1 DEF More
<1>13. Dtls13ProcessBufferedMessages(r) = Receiver(x + n, t, Wholes(x - 1) \o more)
  <2>1. /\ r.stored = stored /\ r.expected = x /\ r.processed = Wholes(x - 1)
        /\ r = [expected |-> x, stored |-> stored, processed |-> Wholes(x - 1), failed |-> FALSE]
    BY DEF Receiver
  <2>2. PICK y, p, q : y = x + n /\ p = Wholes(x - 1) /\ q = p \o more
    OBVIOUS
  <2>3. Dtls13ProcessBufferedMessages(r) = Advance(r, y, t, q)
    BY <1>6, <1>9, <1>12, <2>1, <2>2 DEF Advance
  <2>5. PICK z : z = Dtls13ProcessBufferedMessages(r)
    OBVIOUS
  <2>6. z = Advance(r, y, t, q)
    BY <2>3, <2>5
  <2>7. z = Receiver(y, t, q)
    BY <2>6, AdvanceIs
  <2> QED BY <2>2, <2>5, <2>7
<1>14. PICK y \in Nat \ {0} : y = x + n
  BY <1>2, <1>7
<1>15. Wholes(x - 1) \o more = Wholes(y - 1)
  <2>1. PICK k \in Nat, l \in Nat : k = x - 1 /\ l = x + n - 1
    BY <1>2, <1>7
  <2>2. n \in Nat /\ l = y - 1
    BY <1>2, <1>7, <1>14, <2>1
  <2>3. Wholes(k) \o More(x, n) = Wholes(l)
    BY <1>2, <2>1, <2>2, WholesIs
  <2> QED BY <1>11, <2>1, <2>2, <2>3
<1>16. y \in 1 .. Len(Flight) + 1
  <2>1. CASE n = 0
    BY <1>14, <2>1
  <2>2. CASE n > 0
    <3>1. n \in 1 .. n /\ n \in DOMAIN stored
      BY <1>1, <1>7, <2>2
    <3>2. Number(stored[n]) = x + n - 1 /\ Number(stored[n]) <= Len(Flight)
      BY <1>1, <1>2, <1>7, <3>1
    <3> QED BY <1>2, <1>7, <1>14, <3>2
  <2> QED BY <1>7, <2>1, <2>2
<1>17. ASSUME NEW k \in DOMAIN t
       PROVE  /\ n + k \in DOMAIN stored /\ k \in Nat /\ t[k] = stored[n + k]
              /\ Number(t[k]) >= y
  <2>1. k \in 1 .. Len(stored) - n
    BY <1>1, <1>7, <1>10
  <2>2. n + k \in DOMAIN stored /\ t[k] = stored[n + k]
    BY <1>1, <1>7, <1>10, <2>1
  <2>3. Number(stored[n + k]) \in x .. Len(Flight)
    BY <1>1, <2>2
  <2>4. CASE n = 0
    <3>1. n + k = k /\ y = x
      BY <1>2, <1>14, <2>1, <2>4
    <3> QED BY <1>2, <2>1, <2>2, <2>3, <3>1
  <2>5. CASE n > 0
    <3>1. n \in 1 .. n /\ n \in DOMAIN stored /\ n < n + k
      BY <1>1, <1>7, <2>1, <2>5
    <3>2. Number(stored[n]) = x + n - 1
      BY <1>7, <3>1
    <3>3. Number(stored[n]) < Number(stored[n + k])
      BY <1>1, <2>2, <3>1
    <3>4. Number(stored[n + k]) >= y
      BY <1>2, <1>7, <1>14, <2>3, <3>2, <3>3
    <3> QED BY <2>1, <2>2, <3>4
  <2> QED BY <1>7, <2>1, <2>2, <2>4, <2>5
<1>18. StoredInv(t, y, arr)
  <2>1. ASSUME NEW i \in DOMAIN t, NEW j \in DOMAIN t, i < j
        PROVE  Number(t[i]) < Number(t[j])
    <3>1. n + i < n + j
      BY <1>7, <1>17, <2>1
    <3> QED BY <1>1, <1>17, <3>1
  <2>2. ASSUME NEW i \in DOMAIN t
        PROVE  /\ Number(t[i]) \in y .. Len(Flight)
               /\ MessageInv(t[i], Got(arr, Number(t[i])))
    <3>1. Number(stored[n + i]) \in x .. Len(Flight)
      BY <1>1, <1>17
    <3>2. MessageInv(stored[n + i], Got(arr, Number(stored[n + i])))
      BY <1>1, <1>17
    <3>3. Number(t[i]) \in y .. Len(Flight)
      BY <1>2, <1>17, <3>1
    <3> QED BY <1>17, <3>2, <3>3
  <2>3. ASSUME NEW g \in arr, Number(g) >= y
        PROVE  \E i \in DOMAIN t : Number(t[i]) = Number(g)
    <3>1. PICK i \in DOMAIN stored : Number(stored[i]) = Number(g)
      <4>1. Number(g) \in Nat
        BY FragmentIs DEF Messages
      <4>2. Number(g) >= x
        BY <1>2, <1>7, <1>14, <2>3, <4>1
      <4> QED BY <1>1, <4>2
    <3>2. ~(i <= n)
      BY <1>1, <1>2, <1>7, <1>14, <2>3, <3>1
    <3>3. i - n \in 1 .. Len(stored) - n /\ n + (i - n) = i
      BY <1>1, <1>7, <3>2
    <3>4. i - n \in DOMAIN t /\ t[i - n] = stored[i]
      BY <1>10, <3>3
    <3> QED BY <3>1, <3>4
  <2> QED BY <1>10, <2>1, <2>2, <2>3 DEF StoredInv
<1>19. Waits(t, y)
  <2>1. ASSUME t # <<>>
        PROVE  Number(t[1]) # y \/ ~Ready(t[1])
    <3>1. 1 \in DOMAIN t
      BY <1>10, <2>1
    <3>2. n + 1 \in DOMAIN stored /\ t[1] = stored[n + 1]
      BY <1>17, <3>1
    <3> QED BY <1>8, <1>14, <3>2
  <2> QED BY <2>1 DEF Waits
<1>20. Dtls13ProcessBufferedMessages(r) = Receiver(y, t, Wholes(y - 1))
  BY <1>13, <1>14, <1>15
<1> QED BY <1>16, <1>18, <1>19, <1>20 DEF RxInv

LEMMA ReceivedLate ==
    ASSUME FewFragments, NEW x \in Nat \ {0}, NEW stored, NEW arr, StoredInv(stored, x, arr),
           NEW f \in AllFragments, ~(Number(f) >= x)
    PROVE  StoredInv(stored, x, arr \cup {f})
<1>1. ASSUME NEW i \in DOMAIN stored
      PROVE  MessageInv(stored[i], Got(arr \cup {f}, Number(stored[i])))
  <2>1. Number(stored[i]) \in x .. Len(Flight)
    BY DEF StoredInv
  <2>2. Number(f) # Number(stored[i])
    BY <2>1
  <2>3. Got(arr \cup {f}, Number(stored[i])) = Got(arr, Number(stored[i]))
    BY <2>2, GotSame, Zenon
  <2>4. MessageInv(stored[i], Got(arr, Number(stored[i])))
    BY DEF StoredInv
  <2> QED BY <2>3, <2>4
<1>2. ASSUME NEW g \in arr \cup {f}, Number(g) >= x
      PROVE  \E i \in DOMAIN stored : Number(stored[i]) = Number(g)
  BY <1>2 DEF StoredInv
<1> QED BY <1>1, <1>2 DEF StoredInv

(* A message that arrives in one fragment.                                  *)
LEMMA CompleteIs ==
    ASSUME FewFragments, NEW n \in Messages, NEW e \in Ends(n), Cell(n, 0, e),
           e = Flight[n]
    PROVE  Ends(n) = {0, Flight[n]}
<1>1. ASSUME NEW x \in Ends(n)
      PROVE  x = 0 \/ x = Flight[n]
  <2>1. x \in Nat /\ x <= Flight[n] /\ Flight[n] \in Nat
    BY EndsAre
  <2>2. ~(0 < x /\ x < e)
    BY <2>1 DEF Cell
  <2> QED BY <2>1, <2>2
<1>2. 0 \in Ends(n) /\ Flight[n] \in Ends(n)
  BY FlightAssumption DEF Ends, Cuts, Messages
<1> QED BY <1>1, <1>2

(* Nothing is kept of a message that fits in one fragment: it is complete as soon as it is *)
(* stored.                                                                                 *)
LEMMA OneFragment ==
    ASSUME FewFragments, NEW n \in Messages, Ends(n) = {0, Flight[n]},
           NEW m, NEW got, MessageInv(m, got), Number(m) = n
    PROVE  Ready(m)
<1>1. PICK buckets, r : buckets = m.buckets /\ r = m.received
  OBVIOUS
<1>2. Keeps(n, buckets, r, got) /\ m.ready = (r = m.size) /\ m.size = Flight[n]
  <2>1. m.number = n
    BY DEF Number
  <2>2. /\ m = [number |-> m.number, size |-> Flight[m.number], ready |-> m.ready,
            buckets |-> m.buckets, received |-> m.received]
        /\ Keeps(m.number, m.buckets, m.received, got)
        /\ m.ready = (m.received = m.size)
    BY Zenon DEF MessageInv
  <2>3. m.size = Flight[m.number]
    BY <2>2
  <2> QED BY <1>1, <2>1, <2>2, <2>3, Zenon
<1>3. Flight[n] \in Nat
  BY FlightAssumption DEF Messages
<1>4. ASSUME NEW a \in Ends(n), NEW b \in Ends(n), a < b, r = b - a
      PROVE  r = Flight[n]
  BY <1>3, <1>4
<1>5. ASSUME NEW a \in Ends(n), NEW b \in Ends(n), NEW c \in Ends(n), a < b, b < c
      PROVE  FALSE
  BY <1>3, <1>5
<1>6. r = Flight[n]
  <2>1. CASE \E a, b \in Ends(n) :
               /\ a < b /\ got = a .. b - 1
               /\ buckets = One(Piece(n, a, b)) /\ r = b - a
    BY <1>4, <2>1, Zenon
  <2>2. CASE \E a, b, c, d \in Ends(n) :
               /\ a < b /\ b < c /\ c < d /\ got = (a .. b - 1) \cup (c .. d - 1)
               /\ buckets = Two(Piece(n, a, b), Piece(n, c, d)) /\ r = (b - a) + (d - c)
    <3>1. PICK a \in Ends(n) : \E b, c, d \in Ends(n) :
               /\ a < b /\ b < c /\ c < d /\ got = (a .. b - 1) \cup (c .. d - 1)
               /\ buckets = Two(Piece(n, a, b), Piece(n, c, d)) /\ r = (b - a) + (d - c)
      BY <2>2, Zenon
    <3>2. PICK b \in Ends(n), c \in Ends(n), d \in Ends(n) :
               /\ a < b /\ b < c /\ c < d /\ got = (a .. b - 1) \cup (c .. d - 1)
               /\ buckets = Two(Piece(n, a, b), Piece(n, c, d)) /\ r = (b - a) + (d - c)
      BY <3>1, Zenon
    <3> QED BY <1>5, <3>2, Zenon
  <2> QED BY <1>2, <2>1, <2>2, Zenon DEF Keeps
<1> QED BY <1>2, <1>6 DEF Ready

LEMMA NextArrives ==
    ASSUME FewFragments, NEW x \in Messages, NEW y \in Nat, y = x + 1, NEW stored, NEW arr,
           StoredInv(stored, x, arr), Waits(stored, x), arr \subseteq AllFragments,
           NEW f \in AllFragments, Number(f) = x, Ends(x) = {0, Flight[x]}
    PROVE  StoredInv(stored, y, arr \cup {f})
<1>1. /\ stored \in Seq(Msgs) /\ DOMAIN stored = 1 .. Len(stored) /\ Len(stored) \in Nat
      /\ \A j, k \in DOMAIN stored : j < k => Number(stored[j]) < Number(stored[k])
      /\ \A j \in DOMAIN stored : Number(stored[j]) \in x .. Len(Flight)
      /\ \A j \in DOMAIN stored : MessageInv(stored[j], Got(arr, Number(stored[j])))
      /\ \A g \in arr : Number(g) >= x => \E i \in DOMAIN stored : Number(stored[i]) = Number(g)
  BY DEF StoredInv
<1>2. x \in Nat
  BY DEF Messages
\* The first message would have been processed.
<1>3. ASSUME NEW i \in DOMAIN stored, Number(stored[i]) = x
      PROVE  FALSE
  <2>1. 1 \in DOMAIN stored /\ (i = 1 \/ 1 < i) /\ stored # <<>>
    BY <1>1
  <2>2. Number(stored[1]) = x
    BY <1>1, <1>2, <1>3, <2>1
  <2>3. PICK m : m = stored[1]
    OBVIOUS
  <2>4. MessageInv(m, Got(arr, Number(m))) /\ Number(m) = x
    BY <1>1, <2>1, <2>2, <2>3
  <2>5. Ready(m)
    BY <2>4, OneFragment
  <2> QED BY <2>1, <2>2, <2>3, <2>5 DEF Waits
<1>4. ASSUME NEW i \in DOMAIN stored
      PROVE  /\ Number(stored[i]) \in y .. Len(Flight)
             /\ MessageInv(stored[i], Got(arr \cup {f}, Number(stored[i])))
  <2>1. Number(stored[i]) # x
    BY <1>3
  <2>2. Got(arr \cup {f}, Number(stored[i])) = Got(arr, Number(stored[i]))
    BY <2>1, GotSame, Zenon
  <2>3. Number(stored[i]) \in x .. Len(Flight)
    BY <1>1
  <2>4. Number(stored[i]) \in y .. Len(Flight)
    BY <1>2, <2>1, <2>3
  <2> QED BY <1>1, <2>2, <2>4
<1>5. ASSUME NEW g \in arr \cup {f}, Number(g) >= y
      PROVE  \E i \in DOMAIN stored : Number(stored[i]) = Number(g)
  <2>1. g \in arr
    BY <1>2, <1>5
  <2>2. Number(g) \in Nat
    BY <2>1, FragmentIs DEF Messages
  <2>3. Number(g) >= x
    BY <1>2, <1>5, <2>2
  <2> QED BY <1>1, <2>1, <2>3
<1> QED BY <1>1, <1>4, <1>5 DEF StoredInv

Stored(r, stored) == [r EXCEPT !.stored = stored]

LEMMA StoredIs ==
    ASSUME NEW x, NEW stored, NEW processed, NEW r, r = Receiver(x, stored, processed),
           NEW t, NEW z, z = Stored(r, t)
    PROVE  z = Receiver(x, t, processed)
BY DEF Stored, Receiver

Passed(r, expected, processed) == [r EXCEPT !.expected = expected, !.processed = processed]

LEMMA PassedIs ==
    ASSUME NEW x, NEW stored, NEW processed, NEW r, r = Receiver(x, stored, processed),
           NEW y, NEW q, NEW z, z = Passed(r, y, q)
    PROVE  z = Receiver(y, stored, q)
BY DEF Passed, Receiver

LEMMA AppendWhole ==
    ASSUME NEW x \in Nat \ {0}
    PROVE  Append(Wholes(x - 1), Whole(x)) = Wholes(x)
<1>1. x - 1 \in Nat
  OBVIOUS
<1>2. PICK k \in Nat : k = x - 1
  BY <1>1
<1> DEFINE S == {Whole(i) : i \in Nat}
<1>3. Wholes(k) \in Seq(S) /\ Len(Wholes(k)) = k /\ \A i \in 1 .. k : Wholes(k)[i] = Whole(i)
  BY DEF Wholes
<1>4. Wholes(x) \in Seq(S) /\ Len(Wholes(x)) = x /\ \A i \in 1 .. x : Wholes(x)[i] = Whole(i)
  BY DEF Wholes
<1>5. Whole(x) \in S
  OBVIOUS
<1> HIDE DEF S
<1>6. PICK t : t = Append(Wholes(k), Whole(x))
  OBVIOUS
<1>7. /\ t \in Seq(S) /\ Len(t) = Len(Wholes(k)) + 1
      /\ \A i \in 1 .. Len(Wholes(k)) : t[i] = Wholes(k)[i]
      /\ t[Len(Wholes(k)) + 1] = Whole(x)
  BY <1>3, <1>5, <1>6, AppendProperties
<1>8. Len(Wholes(k)) = k /\ k + 1 = x
  BY <1>2, <1>3
<1>9. ASSUME NEW i \in 1 .. x
      PROVE  t[i] = Wholes(x)[i]
  <2>1. CASE i = x
    BY <1>4, <1>7, <1>8, <2>1
  <2>2. CASE i # x
    <3>1. i \in 1 .. k
      BY <1>8, <2>2
    <3> QED BY <1>3, <1>4, <1>7, <1>8, <3>1
  <2> QED BY <2>1, <2>2
<1>10. Len(t) = x
  BY <1>7, <1>8
<1>11. t = Wholes(x)
  BY <1>4, <1>7, <1>9, <1>10, SeqEqual
<1> QED BY <1>2, <1>6, <1>11

(* Every fragment that arrives, in whatever order, leaves the receiver as it must be. *)
LEMMA RecvInv ==
    ASSUME FewFragments, NEW r, NEW arr, RxInv(r, arr), arr \subseteq AllFragments,
           NEW f \in AllFragments
    PROVE  RxInv(Dtls13HandshakeRecv(r, f), arr \cup {f})
<1>0. PICK x \in 1 .. Len(Flight) + 1 : \E stored :
        /\ r = Receiver(x, stored, Wholes(x - 1))
        /\ StoredInv(stored, x, arr) /\ Waits(stored, x)
  BY DEF RxInv
<1>1. PICK stored :
        /\ r = Receiver(x, stored, Wholes(x - 1))
        /\ StoredInv(stored, x, arr) /\ Waits(stored, x)
  BY <1>0
<1>2. r.expected = x /\ r.stored = stored /\ r.processed = Wholes(x - 1)
  BY <1>1 DEF Receiver
<1>3. PICK n \in Messages : \E o, e \in Ends(n) :
             /\ Number(f) = n /\ f.number = n /\ f.size = Flight[n] /\ f.offset = o
             /\ f.data = Content(n, o, e) /\ Cell(n, o, e) /\ Positions(f) = o .. e - 1
  BY FragmentIs
<1>4. PICK o \in Ends(n), e \in Ends(n) :
             /\ Number(f) = n /\ f.number = n /\ f.size = Flight[n] /\ f.offset = o
             /\ f.data = Content(n, o, e) /\ Cell(n, o, e) /\ Positions(f) = o .. e - 1
  BY <1>3
<1>5. /\ x \in Nat \ {0} /\ n \in Nat /\ n <= Len(Flight) /\ Len(Flight) \in Nat
      /\ Flight[n] \in Nat
  BY FlightAssumption DEF Messages
<1>6. PICK complete \in BOOLEAN : complete = (f.offset = 0 /\ Len(f.data) = f.size)
  OBVIOUS
<1>7. Len(f.data) = e - o
  <2>1. o \in Nat /\ e \in Nat /\ o <= e
    BY <1>4, EndsAre DEF Cell
  <2> QED BY <1>4, <2>1, ContentIs
<1>8. CASE n < x
  <2>1. Dtls13HandshakeRecv(r, f) = r
    <3>1. n < x /\ ~(n >= x) /\ n # x
      BY <1>5, <1>8
    <3> QED BY <1>2, <1>4, <3>1, Zenon DEF Dtls13HandshakeRecv
  <2>2. ~(Number(f) >= x)
    BY <1>4, <1>5, <1>8
  <2>3. StoredInv(stored, x, arr \cup {f})
    BY <1>1, <1>5, <2>2, ReceivedLate
  <2> QED BY <1>1, <2>1, <2>3 DEF RxInv
<1>9. CASE n >= x /\ (~complete \/ n > x)
  <2>1. Len(stored) < Pool
    BY <1>1, <1>5, StoredFew
  <2>2. PICK t : t = DtlsMsgStore(stored, f)
    OBVIOUS
  <2>3. Dtls13HandshakeRecv(r, f) = Dtls13ProcessBufferedMessages(Stored(r, t))
    <3>1. ~(n < x) /\ n >= x /\ (~complete \/ n > x) /\ ~(n = x /\ complete)
      BY <1>5, <1>9
    <3> QED BY <1>2, <1>4, <1>6, <2>1, <2>2, <3>1, Zenon DEF Dtls13HandshakeRecv, Stored
  <2>4. PICK s : s = Stored(r, t)
    OBVIOUS
  <2>5. s = Receiver(x, t, Wholes(x - 1))
    BY <1>1, <2>4, StoredIs
  <2>6. StoredInv(t, x, arr \cup {f})
    BY <1>1, <1>4, <1>5, <1>9, <2>2, StoreInv
  <2>7. RxInv(Dtls13ProcessBufferedMessages(s), arr \cup {f})
    BY <2>5, <2>6, ProcessInv
  <2> QED BY <2>3, <2>4, <2>7
<1>10. CASE n = x /\ complete
  <2>1. x \in Messages /\ x + 1 \in 1 .. Len(Flight) + 1
    BY <1>5, <1>10
  <2>2. o = 0 /\ e = Flight[n]
    <3>1. o \in Nat /\ e \in Nat
      BY EndsAre
    <3>2. f.offset = 0 /\ Len(f.data) = f.size
      BY <1>6, <1>10, Zenon
    <3>3. o = 0 /\ e - o = Flight[n]
      BY <1>4, <1>7, <3>2, Zenon
    <3> QED BY <3>1, <3>3
  <2>3. Ends(n) = {0, Flight[n]}
    BY <1>4, <2>2, CompleteIs
  <2>4. PICK y \in 1 .. Len(Flight) + 1 : y = x + 1
    BY <2>1
  <2>5. StoredInv(stored, y, arr \cup {f})
    BY <1>1, <1>4, <1>5, <1>10, <2>1, <2>3, <2>4, NextArrives
  <2>6. f.data = Whole(x)
    BY <1>4, <1>10, <2>2 DEF Whole
  <2>7. PICK q : q = Append(Wholes(x - 1), Whole(x))
    OBVIOUS
  <2>8. Dtls13HandshakeRecv(r, f) = Dtls13ProcessBufferedMessages(Passed(r, y, q))
    <3>1. ~(n < x) /\ ~(n > x)
      BY <1>5, <1>10
    <3> QED BY <1>2, <1>4, <1>6, <1>10, <2>4, <2>6, <2>7, <3>1, Zenon DEF Dtls13HandshakeRecv, Passed
  <2>9. PICK s : s = Passed(r, y, q)
    OBVIOUS
  <2>10. s = Receiver(y, stored, q)
    BY <1>1, <2>9, PassedIs
  <2>11. q = Wholes(y - 1)
    <3>1. y - 1 = x
      BY <1>5, <2>4
    <3> QED BY <1>5, <2>7, <3>1, AppendWhole
  <2>12. RxInv(Dtls13ProcessBufferedMessages(s), arr \cup {f})
    BY <2>5, <2>10, <2>11, ProcessInv
  <2> QED BY <2>8, <2>9, <2>12
<1> QED BY <1>5, <1>6, <1>8, <1>9, <1>10

-----------------------------------------------------------------------------
(* The sender.                                                             *)

LEMMA BeginsAre ==
    ASSUME NEW n \in Messages, NEW o \in Begins(n)
    PROVE  /\ o \in Nat /\ o < Flight[n] /\ Flight[n] \in Nat \ {0} /\ n \in Nat
           /\ o + MaxFragment \in Nat /\ MaxFragment \in Nat \ {0}
           /\ o + MaxFragment < Flight[n] => o + MaxFragment \in Begins(n)
<1>1. Flight[n] \in Nat \ {0} /\ MaxFragment \in Nat \ {0} /\ n \in Nat
  BY FlightAssumption DEF Messages
<1>2. PICK k \in 0 .. Flight[n] - 1 : o = k * MaxFragment /\ k * MaxFragment < Flight[n]
  BY DEF Begins
<1>3. k \in Nat /\ k * MaxFragment \in Nat
  BY <1>1, <1>2
<1>4. ASSUME o + MaxFragment < Flight[n] PROVE o + MaxFragment \in Begins(n)
  <2>1. o + MaxFragment = (k + 1) * MaxFragment
    BY <1>1, <1>2, <1>3
  <2>2. k + 1 <= (k + 1) * MaxFragment
    BY <1>1, <1>3
  <2>3. k + 1 \in 0 .. Flight[n] - 1
    BY <1>1, <1>3, <1>4, <2>1, <2>2
  <2> QED BY <1>4, <2>1, <2>3 DEF Begins
<1> QED BY <1>1, <1>2, <1>3, <1>4

LEMMA BeginsAtZero ==
    ASSUME NEW n \in Messages
    PROVE  0 \in Begins(n)
<1>1. Flight[n] \in Nat \ {0} /\ MaxFragment \in Nat \ {0}
  BY FlightAssumption DEF Messages
<1>2. 0 = 0 * MaxFragment /\ 0 \in 0 .. Flight[n] - 1 /\ 0 * MaxFragment < Flight[n]
  BY <1>1
<1> QED BY <1>2 DEF Begins

LEMMA StopsAre ==
    ASSUME NEW n \in Messages, NEW x \in Stops(n)
    PROVE  x \in Nat /\ x <= Flight[n] /\ Flight[n] \in Nat \ {0}
<1>1. Flight[n] \in Nat \ {0}
  BY FlightAssumption DEF Messages
<1>2. CASE x \in Begins(n)
  BY <1>1, <1>2, BeginsAre
<1> QED BY <1>1, <1>2 DEF Stops

(* What is cut off at a cut.                                                *)
LEMMA CutOff ==
    ASSUME NEW n \in Messages, NEW o \in Begins(n), NEW f, f = Fragment(n, n, o)
    PROVE  /\ f \in AllFragments /\ Number(f) = n /\ f.number = n /\ f.size = Flight[n]
           /\ f # <<>> /\ End(f) \in Stops(n) /\ End(f) \in Nat /\ o < End(f)
           /\ End(f) = o + Len(f.data)
           /\ Flight[n] < MaxFragment => End(f) = Flight[n]
<1>1. /\ Flight[n] \in Nat \ {0} /\ MaxFragment \in Nat \ {0} /\ n \in Nat
      /\ o \in Nat /\ o < Flight[n]
      /\ o + MaxFragment < Flight[n] => o + MaxFragment \in Begins(n)
  BY BeginsAre
<1>2. f \in AllFragments
  <2>1. f \in Fragments(n)
    BY DEF Fragments, Begins
  <2> QED BY <2>1 DEF AllFragments
<1>3. PICK e : e = Min({o + MaxFragment, Flight[n]})
  OBVIOUS
<1>4. /\ e = (IF o + MaxFragment <= Flight[n] THEN o + MaxFragment ELSE Flight[n])
      /\ e \in Nat /\ o < e
  BY <1>1, <1>3, MinOfTwo
<1>5. f = [number |-> n, size |-> Flight[n], offset |-> o, data |-> Content(n, o, e)]
  BY <1>3 DEF Fragment
<1>6. Number(f) = n /\ f # <<>> /\ f.number = n /\ f.size = Flight[n]
  BY <1>5 DEF Number
<1>7. Len(Content(n, o, e)) = e - o
  <2>1. o \in Nat /\ e \in Nat /\ o <= e
    BY <1>1, <1>4
  <2> QED BY <2>1, ContentIs
<1>8. End(f) = e /\ Len(f.data) = e - o
  BY <1>1, <1>4, <1>5, <1>7 DEF End
<1>9. e \in Stops(n)
  BY <1>1, <1>4 DEF Stops
<1>10. Flight[n] < MaxFragment => e = Flight[n]
  BY <1>1, <1>4
<1> QED BY <1>1, <1>2, <1>4, <1>6, <1>8, <1>9, <1>10

LEMMA EndIs ==
    ASSUME NEW f \in AllFragments
    PROVE  /\ Number(f) \in Messages /\ End(f) \in Stops(Number(f))
           /\ f.size = Flight[Number(f)] /\ f.number = Number(f)
<1>1. PICK n \in Messages : f \in Fragments(n)
  BY DEF AllFragments
<1>2. PICK o \in Begins(n) : f = Fragment(n, n, o)
  BY <1>1 DEF Fragments, Begins
<1> QED BY <1>2, CutOff

LEMMA AfterIs ==
    ASSUME NEW f \in AllFragments, NEW n \in Messages, Number(f) = n
    PROVE  FragmentAfter(f) = IF End(f) = Flight[n] THEN Fragment(n + 1, n + 1, 0)
                              ELSE Fragment(n, n, End(f))
<1>1. PICK e \in Stops(n) : e = End(f)
  BY EndIs
<1>2. e \in Nat /\ e <= Flight[n] /\ Flight[n] \in Nat
  BY StopsAre
<1>3. (e < Flight[n]) <=> ~(e = Flight[n])
  BY <1>2
<1>4. f.size = Flight[n] /\ f.number = n
  BY EndIs
<1> QED BY <1>1, <1>3, <1>4, Zenon DEF FragmentAfter

(* The next cut goes on where the last one stopped.                         *)
LEMMA CutMore ==
    ASSUME NEW cut \in Seq(AllFragments), InOrder(cut),
           NEW n \in Messages, NEW o \in Begins(n), CutUpTo(cut, n, o),
           NEW f, f = Fragment(n, n, o), NEW t, t = Append(cut, f)
    PROVE  InOrder(t) /\ t \in Seq(AllFragments) /\ t # <<>> /\ Last(t) = f
<1>1. f \in AllFragments
  BY CutOff
<1>2. /\ t \in Seq(AllFragments) /\ Len(t) = Len(cut) + 1 /\ Len(cut) \in Nat
      /\ \A i \in 1 .. Len(cut) : t[i] = cut[i]
      /\ t[Len(cut) + 1] = f
  BY <1>1, AppendProperties
<1>3. t # <<>> /\ Last(t) = f
  BY <1>2 DEF Last
<1>4. /\ o \in Nat /\ o < Flight[n] /\ n \in Nat
  BY BeginsAre
<1>5. CASE cut = <<>>
  <2>1. o = 0 /\ n = 1 /\ Len(cut) = 0
    BY <1>5, Zenon DEF CutUpTo
  <2>2. t[1] = Fragment(1, 1, 0) /\ Len(t) = 1
    BY <1>2, <2>1
  <2> QED BY <1>2, <1>3, <2>2 DEF InOrder
<1>6. CASE cut # <<>>
  <2>1. PICK l \in Nat \ {0} : l = Len(cut)
    BY <1>2, <1>6
  <2>2. cut[1] = Fragment(1, 1, 0) /\ \A i \in 1 .. l - 1 : cut[i + 1] = FragmentAfter(cut[i])
    BY <1>6, <2>1 DEF InOrder
  <2>3. PICK g \in AllFragments : g = cut[l]
    BY <1>2, <2>1
  <2>4. IF o = 0 THEN Number(g) = n - 1 /\ End(g) = Flight[Number(g)]
        ELSE Number(g) = n /\ End(g) = o
    BY <1>6, <2>1, <2>3, Zenon DEF CutUpTo, Last
  <2>5. FragmentAfter(g) = f
    <3>1. CASE o = 0
      <4>1. PICK p \in Messages : p = Number(g)
        BY EndIs
      <4>2. p = n - 1 /\ p + 1 = n /\ End(g) = Flight[p]
        BY <1>4, <2>4, <3>1, <4>1
      <4> QED BY <3>1, <4>1, <4>2, AfterIs
    <3>2. CASE o # 0
      <4>1. Number(g) = n /\ End(g) = o /\ End(g) # Flight[n]
        <5>1. o # Flight[n]
          BY <1>4, FlightAssumption DEF Messages
        <5> QED BY <2>4, <3>2, <5>1
      <4> QED BY <4>1, AfterIs
    <3> QED BY <3>1, <3>2
  <2>6. ASSUME NEW i \in 1 .. Len(t) - 1
        PROVE  t[i + 1] = FragmentAfter(t[i])
    <3>1. CASE i = l
      BY <1>2, <2>1, <2>3, <2>5, <3>1
    <3>2. CASE i # l
      <4>1. i \in 1 .. l - 1 /\ i \in 1 .. Len(cut) /\ i + 1 \in 1 .. Len(cut)
        BY <1>2, <2>1, <3>2
      <4> QED BY <1>2, <2>2, <4>1
    <3> QED BY <3>1, <3>2
  <2>7. t[1] = cut[1]
    BY <1>2, <2>1
  <2> QED BY <1>2, <1>3, <2>2, <2>6, <2>7 DEF InOrder
<1> QED BY <1>5, <1>6

Log(sent, f, full) == IF full THEN sent ELSE Append(sent, f)

\* What is cut when f has left or, with full, is delayed.
CutWith(t, sent, f, full) ==
    /\ InOrder(Cut(t, sent)) /\ sent \in Seq(AllFragments)
    /\ t.out \in AllFragments \cup {<<>>}
    /\ Cut(t, sent) # <<>> /\ Last(Cut(t, sent)) = f
    /\ t.out = <<>> <=> ~full

(* A record that is sent or delayed.                                        *)
LEMMA CutLeaves ==
    ASSUME NEW cut \in Seq(AllFragments), InOrder(cut),
           NEW n \in Messages, NEW o \in Begins(n), CutUpTo(cut, n, o),
           NEW f, f = Fragment(n, n, o), NEW full \in BOOLEAN,
           NEW sent, sent = Log(cut, f, full), NEW t, t.out = Buffered(f, full)
    PROVE  CutWith(t, sent, f, full)
<1>1. f \in AllFragments /\ f # <<>>
  BY CutOff
<1>2. PICK u : u = Append(cut, f)
  OBVIOUS
<1>3. InOrder(u) /\ u \in Seq(AllFragments) /\ u # <<>> /\ Last(u) = f
  BY <1>2, CutMore
<1>4. CASE full
  <2>1. t.out = f /\ sent = cut
    BY <1>4, Zenon DEF Buffered, Log
  <2>2. Cut(t, sent) = u
    BY <1>1, <1>2, <2>1, Zenon DEF Cut
  <2> QED BY <1>1, <1>2, <1>3, <1>4, <2>1, <2>2 DEF CutWith
<1>5. CASE ~full
  <2>1. t.out = <<>> /\ sent = u
    BY <1>2, <1>5, Zenon DEF Buffered, Log
  <2>2. Cut(t, sent) = u
    BY <2>1, Zenon DEF Cut
  <2> QED BY <1>2, <1>3, <1>5, <2>1, <2>2 DEF CutWith
<1> QED BY <1>4, <1>5

(* The last fragment of a message.                                          *)
LEMMA CutUp ==
    ASSUME NEW cut, cut # <<>>, NEW n \in Messages, NEW m \in Nat, m = n + 1,
           Number(Last(cut)) = n, End(Last(cut)) = Flight[n]
    PROVE  CutUpTo(cut, m, 0)
<1>1. m - 1 = n
  BY DEF Messages
<1> QED BY <1>1 DEF CutUpTo

LEMMA CutWithin ==
    ASSUME NEW cut, cut # <<>>, NEW n \in Messages, NEW e \in Nat, 0 < e,
           Number(Last(cut)) = n, End(Last(cut)) = e
    PROVE  CutUpTo(cut, n, e)
BY DEF CutUpTo

LEMMA TxInit ==
    ASSUME NEW t, t = [state |-> 1, number |-> 1, sending |-> FALSE, offset |-> 0, out |-> <<>>]
    PROVE  TxInv(t, <<>>)
<1>1. Cut(t, <<>>) = <<>> /\ t.number = 1 /\ t.offset = 0 /\ t.state = 1 /\ ~t.sending /\ t.out = <<>>
  BY DEF Cut
<1>2. InOrder(<<>>)
  BY DEF InOrder
<1>3. CutUpTo(<<>>, 1, 0)
  BY DEF CutUpTo
<1>4. <<>> \in Seq(AllFragments) /\ 1 \in 1 .. Len(Flight) + 1
  BY FlightAssumption
<1>5. t \in [state : 1 .. Len(Flight) + 1, number : 1 .. Len(Flight) + 1, sending : BOOLEAN,
             offset : Nat, out : AllFragments \cup {<<>>}]
  BY <1>4
<1> QED BY <1>1, <1>2, <1>3, <1>4, <1>5, Zenon DEF TxInv

TxTyped(t) ==
    t \in [state : 1 .. Len(Flight) + 1, number : 1 .. Len(Flight) + 1, sending : BOOLEAN,
           offset : Nat, out : AllFragments \cup {<<>>}]

AfterWhole(t, f, full) ==
    [t EXCEPT !.number = @ + 1, !.out = Buffered(f, full), !.state = IF full THEN @ ELSE @ + 1]

(* A message that fits in one record.                                       *)
LEMMA TxWhole ==
    ASSUME NEW t, NEW sent, TxInv(t, sent), t.out = <<>>, t.state \in Messages,
           ~t.sending, Flight[t.state] < MaxFragment, NEW full \in BOOLEAN,
           NEW f, f = Fragment(t.number, t.state, 0),
           NEW u, u = AfterWhole(t, f, full), NEW s, s = Log(sent, f, full)
    PROVE  TxInv(u, s) /\ f \in AllFragments
<1>1. PICK n \in Messages : n = t.state /\ n = t.number /\ f = Fragment(n, n, 0)
  BY DEF TxInv
<1>2. sent \in Seq(AllFragments) /\ InOrder(sent) /\ CutUpTo(sent, n, 0)
  BY <1>1, Zenon DEF TxInv, Cut
<1>3. 0 \in Begins(n)
  BY BeginsAtZero
<1>4. u.out = Buffered(f, full) /\ u.number = n + 1 /\ u.offset = 0 /\ ~u.sending
  BY <1>1 DEF AfterWhole, TxInv
<1>5. u.state = IF full THEN n ELSE n + 1
  BY <1>1 DEF AfterWhole, TxInv
<1>6. /\ InOrder(Cut(u, s)) /\ s \in Seq(AllFragments)
      /\ u.out \in AllFragments \cup {<<>>}
      /\ Cut(u, s) # <<>> /\ Last(Cut(u, s)) = f
      /\ u.out = <<>> <=> ~full
  <2>1. CutWith(u, s, f, full)
    BY <1>1, <1>2, <1>3, <1>4, CutLeaves
  <2> QED BY <2>1, Zenon DEF CutWith
<1>7. f \in AllFragments /\ Number(f) = n /\ End(f) = Flight[n]
  BY <1>1, <1>3, CutOff
<1>8. CutUpTo(Cut(u, s), n + 1, 0)
  <2>1. n + 1 \in Nat
    BY DEF Messages
  <2> QED BY <1>6, <1>7, <2>1, CutUp
<1>9. u.number = IF u.out = <<>> THEN u.state ELSE u.state + 1
  BY <1>4, <1>5, <1>6
<1>10. TxTyped(u)
  <2>1. TxTyped(t)
    BY Zenon DEF TxInv, TxTyped
  <2>2. n + 1 \in 1 .. Len(Flight) + 1 /\ n \in 1 .. Len(Flight) + 1
    BY FlightAssumption DEF Messages
  <2>3. PICK out \in AllFragments \cup {<<>>} : out = Buffered(f, full)
    BY <1>4, <1>6
  <2>4. PICK st \in 1 .. Len(Flight) + 1 : st = IF full THEN n ELSE n + 1
    BY <2>2
  <2>5. u = [t EXCEPT !.number = n + 1, !.out = out, !.state = st]
    BY <1>1, <2>3, <2>4 DEF AfterWhole
  <2> QED BY <2>1, <2>2, <2>5 DEF TxTyped
<1> QED BY <1>4, <1>6, <1>7, <1>8, <1>9, <1>10, Zenon DEF TxInv, TxTyped

(* A fragment of a longer message.                                          *)
AfterPart(t, f, full) == [t EXCEPT !.offset = @ + Len(f.data), !.out = Buffered(f, full)]

LEMMA TxPart ==
    ASSUME NEW t, NEW sent, TxInv(t, sent), t.out = <<>>, t.state \in Messages,
           t.sending, t.offset < Flight[t.state], NEW full \in BOOLEAN,
           NEW f, f = Fragment(t.number, t.state, t.offset),
           NEW u, u = AfterPart(t, f, full), NEW s, s = Log(sent, f, full)
    PROVE  TxInv(u, s) /\ f \in AllFragments
<1>1. PICK n \in Messages : n = t.state /\ n = t.number /\ t.offset \in Stops(n)
  BY DEF TxInv
<1>2. PICK o \in Begins(n) : o = t.offset /\ f = Fragment(n, n, o) /\ o \in Nat
  <2>1. t.offset \in Nat /\ t.offset # Flight[n]
    BY <1>1, StopsAre
  <2> QED BY <1>1, <2>1 DEF Stops
<1>3. sent \in Seq(AllFragments) /\ InOrder(sent) /\ CutUpTo(sent, n, o)
  BY <1>1, <1>2, Zenon DEF TxInv, Cut
<1>4. /\ f \in AllFragments /\ Number(f) = n
      /\ End(f) \in Stops(n) /\ End(f) \in Nat /\ o < End(f) /\ End(f) = o + Len(f.data)
  BY <1>2, CutOff
<1>5. PICK e \in Nat : e = End(f) /\ e = o + Len(f.data) /\ 0 < e /\ e \in Stops(n)
  BY <1>2, <1>4
<1>6. /\ u.out = Buffered(f, full) /\ u.number = n /\ u.state = n /\ u.offset = e /\ u.sending
  BY <1>1, <1>2, <1>5 DEF AfterPart, TxInv
<1>7. CutWith(u, s, f, full)
  BY <1>2, <1>3, <1>6, CutLeaves
<1>8. /\ InOrder(Cut(u, s)) /\ s \in Seq(AllFragments)
      /\ u.out \in AllFragments \cup {<<>>}
      /\ Cut(u, s) # <<>> /\ Last(Cut(u, s)) = f
  BY <1>7, Zenon DEF CutWith
<1>9. CutUpTo(Cut(u, s), n, e)
  BY <1>4, <1>5, <1>8, CutWithin
<1>10. TxTyped(u)
  <2>1. TxTyped(t)
    BY Zenon DEF TxInv, TxTyped
  <2>2. PICK out \in AllFragments \cup {<<>>} : out = Buffered(f, full)
    BY <1>6, <1>8
  <2>3. u = [t EXCEPT !.offset = e, !.out = out]
    BY <1>2, <1>5, <2>2 DEF AfterPart
  <2> QED BY <2>1, <2>3 DEF TxTyped
<1> QED BY <1>4, <1>5, <1>6, <1>8, <1>9, <1>10, Zenon DEF TxInv, TxTyped

LEMMA TxBegin ==
    ASSUME NEW t, NEW sent, TxInv(t, sent), t.out = <<>>, t.state \in Messages,
           ~t.sending, NEW u, u = [t EXCEPT !.sending = TRUE, !.offset = 0]
    PROVE  TxInv(u, sent)
<1>1. PICK n \in Messages : n = t.state /\ n = t.number
  BY DEF TxInv
<1>2. sent \in Seq(AllFragments) /\ InOrder(sent) /\ CutUpTo(sent, n, 0)
  BY <1>1, Zenon DEF TxInv, Cut
<1>3. u.out = <<>> /\ u.number = n /\ u.state = n /\ u.offset = 0 /\ u.sending
  BY <1>1 DEF TxInv
<1>4. Cut(u, sent) = sent
  BY <1>3, Zenon DEF Cut
<1>5. 0 \in Stops(n)
  BY BeginsAtZero DEF Stops
<1>6. TxTyped(u)
  BY DEF TxInv, TxTyped
<1> QED BY <1>1, <1>2, <1>3, <1>4, <1>5, <1>6, Zenon DEF TxInv, TxTyped

LEMMA TypedAgain ==
    ASSUME NEW t, TxTyped(t), NEW m \in 1 .. Len(Flight) + 1, NEW u,
           u = [t EXCEPT !.sending = FALSE, !.offset = 0, !.number = m, !.state = m]
    PROVE  TxTyped(u)
<1>1. TxTyped([t EXCEPT !.sending = FALSE])
  BY DEF TxTyped
<1>2. PICK v : v = [t EXCEPT !.sending = FALSE]
  OBVIOUS
<1>3. TxTyped(v)
  BY <1>1, <1>2
<1>4. u = [v EXCEPT !.offset = 0, !.number = m, !.state = m]
  BY <1>2 DEF TxTyped
<1>5. PICK w : w = [v EXCEPT !.offset = 0, !.number = m, !.state = m]
  OBVIOUS
<1>6. TxTyped(w)
  BY <1>3, <1>5 DEF TxTyped
<1> QED BY <1>4, <1>5, <1>6

LEMMA TxDone ==
    ASSUME NEW t, NEW sent, TxInv(t, sent), t.out = <<>>, t.state \in Messages,
           t.sending, t.offset = Flight[t.state],
           NEW u, u = [t EXCEPT !.sending = FALSE, !.offset = 0, !.number = @ + 1, !.state = @ + 1]
    PROVE  TxInv(u, sent)
<1>1. PICK n \in Messages : n = t.state /\ n = t.number
  BY DEF TxInv
<1>2. PICK m \in 1 .. Len(Flight) + 1 : m = n + 1 /\ m \in Nat
  BY FlightAssumption DEF Messages
<1>3. sent \in Seq(AllFragments) /\ InOrder(sent) /\ CutUpTo(sent, n, Flight[n])
  BY <1>1, Zenon DEF TxInv, Cut
<1>4. u.out = <<>> /\ u.number = m /\ u.state = m /\ u.offset = 0 /\ ~u.sending
  BY <1>1, <1>2 DEF TxInv
<1>5. Cut(u, sent) = sent
  BY <1>4, Zenon DEF Cut
<1>6. CutUpTo(sent, m, 0)
  <2>1. Flight[n] # 0
    BY FlightAssumption DEF Messages
  <2>2. sent # <<>> /\ Number(Last(sent)) = n /\ End(Last(sent)) = Flight[n]
    BY <1>3, <2>1, Zenon DEF CutUpTo
  <2> QED BY <1>2, <2>2, CutUp
<1>7. TxTyped(u)
  <2>1. TxTyped(t)
    BY Zenon DEF TxInv, TxTyped
  <2>2. u = [t EXCEPT !.sending = FALSE, !.offset = 0, !.number = m, !.state = m]
    BY <1>1, <1>2
  <2> QED BY <1>2, <2>1, <2>2, TypedAgain
<1> QED BY <1>1, <1>2, <1>3, <1>4, <1>5, <1>6, <1>7, Zenon DEF TxInv, TxTyped

LEMMA TxBuffered ==
    ASSUME NEW t, NEW sent, TxInv(t, sent), t.out # <<>>,
           NEW u, u = [t EXCEPT !.out = <<>>, !.state = IF t.sending THEN @ ELSE @ + 1],
           NEW s, s = Append(sent, t.out)
    PROVE  TxInv(u, s) /\ t.out \in AllFragments
<1>1. /\ t.state \in 1 .. Len(Flight) + 1 /\ t.number \in 1 .. Len(Flight) + 1
      /\ t.out \in AllFragments /\ sent \in Seq(AllFragments)
  BY DEF TxInv
<1>2. s \in Seq(AllFragments)
  BY <1>1
<1>3. /\ u.out = <<>> /\ u.number = t.number /\ u.offset = t.offset /\ u.sending = t.sending
  BY DEF TxInv
<1>4. PICK st \in 1 .. Len(Flight) + 1 :
         /\ st = IF t.sending THEN t.state ELSE t.state + 1
         /\ ~t.sending => t.number = st
         /\ t.sending => t.number = t.state
  <2>1. CASE t.sending
    BY <1>1, <2>1 DEF TxInv
  <2>2. CASE ~t.sending
    <3>1. t.number = t.state + 1
      BY <2>2 DEF TxInv
    <3> QED BY <1>1, <2>2, <3>1
  <2> QED BY <2>1, <2>2
<1>5. u.state = st
  BY <1>4 DEF TxInv
<1>6. Cut(u, s) = s /\ Cut(t, sent) = s
  BY <1>3, Zenon DEF Cut
<1>7. TxTyped(u)
  <2>1. TxTyped(t)
    BY Zenon DEF TxInv, TxTyped
  <2>2. u = [t EXCEPT !.out = <<>>, !.state = st]
    BY <1>4
  <2> QED BY <2>1, <2>2 DEF TxTyped
<1>8. /\ InOrder(s) /\ CutUpTo(s, t.number, t.offset)
      /\ t.sending => t.state \in Messages /\ t.offset \in Stops(t.state)
      /\ ~t.sending => t.offset = 0
  BY <1>6, Zenon DEF TxInv
<1>9. CASE t.sending
  <2>1. st = t.state
    BY <1>4, <1>9
  <2> QED BY <1>1, <1>2, <1>3, <1>4, <1>5, <1>6, <1>7, <1>8, <1>9, <2>1, Zenon DEF TxInv, TxTyped
<1>10. CASE ~t.sending
  BY <1>1, <1>2, <1>3, <1>4, <1>5, <1>6, <1>7, <1>8, <1>10, Zenon DEF TxInv, TxTyped
<1> QED BY <1>9, <1>10

-----------------------------------------------------------------------------
(* The invariant.                                                          *)

LEMMA InitInv ==
    ASSUME Init
    PROVE  SendInv /\ RxInv(rx, arrived)
<1>1. TxInv(tx, log)
  <2>1. log = <<>> /\ tx = [state |-> 1, number |-> 1, sending |-> FALSE, offset |-> 0, out |-> <<>>]
    BY DEF Init
  <2>2. TxInv(tx, <<>>)
    BY <2>1, TxInit
  <2> QED BY <2>1, <2>2
<1>2. RxInv(rx, arrived)
  <2>1. Wholes(1 - 1) = <<>>
    BY DEF Wholes
  <2>2. rx = Receiver(1, <<>>, Wholes(1 - 1)) /\ arrived = {}
    BY <2>1 DEF Init, Receiver
  <2>3. StoredInv(<<>>, 1, {}) /\ Waits(<<>>, 1)
    BY DEF StoredInv, Waits
  <2>4. 1 \in 1 .. Len(Flight) + 1
    BY FlightAssumption
  <2> QED BY <2>2, <2>3, <2>4 DEF RxInv
<1> QED BY <1>1, <1>2 DEF Init, SendInv

LEMMA SendOneFragmentInv ==
    ASSUME SendInv, NEW full \in BOOLEAN, Dtls13SendOneFragmentRtx(full)
    PROVE  SendInv'
<1>1. PICK f : /\ f = Fragment(tx.number, tx.state, 0) /\ Leaves(f, full)
               /\ tx' = AfterWhole(tx, f, full)
  BY DEF AfterWhole, Dtls13SendOneFragmentRtx
<1>2. tx.out = <<>> /\ tx.state \in Messages /\ ~tx.sending /\ Flight[tx.state] < MaxFragment
  BY DEF Dtls13SendOneFragmentRtx, CanSend
<1>3. log' = Log(log, f, full)
  BY <1>1 DEF Leaves, Log
<1>4. TxInv(tx, log)
  BY DEF SendInv
<1>5. TxInv(tx', log') /\ f \in AllFragments
  BY <1>1, <1>2, <1>3, <1>4, TxWhole
<1> QED BY <1>1, <1>5 DEF SendInv, Leaves

LEMMA SendFragmentInv ==
    ASSUME SendInv, NEW full \in BOOLEAN, Dtls13SendFragmentedInternal(full)
    PROVE  SendInv'
<1>1. PICK f : /\ f = Fragment(tx.number, tx.state, tx.offset) /\ Leaves(f, full)
               /\ tx' = AfterPart(tx, f, full)
  BY DEF AfterPart, Dtls13SendFragmentedInternal
<1>2. tx.out = <<>> /\ tx.state \in Messages /\ tx.sending /\ tx.offset < Flight[tx.state]
  BY DEF Dtls13SendFragmentedInternal, CanSend
<1>3. log' = Log(log, f, full)
  BY <1>1 DEF Leaves, Log
<1>4. TxInv(tx, log)
  BY DEF SendInv
<1>5. TxInv(tx', log') /\ f \in AllFragments
  BY <1>1, <1>2, <1>3, <1>4, TxPart
<1> QED BY <1>1, <1>5 DEF SendInv, Leaves

LEMMA BufferedInv ==
    ASSUME SendInv, SendBuffered
    PROVE  SendInv'
<1>1. /\ tx.out # <<>>
      /\ tx' = [tx EXCEPT !.out = <<>>, !.state = IF tx.sending THEN @ ELSE @ + 1]
      /\ log' = Append(log, tx.out) /\ wire' = wire \cup {tx.out}
      /\ UNCHANGED <<rx, arrived>>
  BY DEF SendBuffered, Leaves
<1>2. TxInv(tx, log)
  BY DEF SendInv
<1>3. TxInv(tx', log') /\ tx.out \in AllFragments
  BY <1>1, <1>2, TxBuffered
<1> QED BY <1>1, <1>3 DEF SendInv

LEMMA SendNext ==
    ASSUME SendInv, [Next]_vars
    PROVE  SendInv'
<1>1. ASSUME NEW full \in BOOLEAN, Dtls13SendOneFragmentRtx(full)
      PROVE  SendInv'
  BY <1>1, SendOneFragmentInv
<1>2. ASSUME NEW full \in BOOLEAN, Dtls13SendFragmentedInternal(full)
      PROVE  SendInv'
  BY <1>2, SendFragmentInv
<1>3. CASE Dtls13SendFragmented
  <2>1. TxInv(tx, log)
    BY DEF SendInv
  <2>2. TxInv(tx', log)
    BY <1>3, <2>1, TxBegin DEF Dtls13SendFragmented, CanSend
  <2> QED BY <1>3, <2>2 DEF SendInv, Dtls13SendFragmented
<1>4. CASE Dtls13FragmentsContinue
  <2>1. TxInv(tx, log)
    BY DEF SendInv
  <2>2. TxInv(tx', log)
    BY <1>4, <2>1, TxDone DEF Dtls13FragmentsContinue, CanSend
  <2> QED BY <1>4, <2>2 DEF SendInv, Dtls13FragmentsContinue
<1>5. CASE SendBuffered
  BY <1>5, BufferedInv
<1>6. ASSUME NEW f \in wire, Receive(f)
      PROVE  SendInv'
  BY <1>6 DEF SendInv, Receive
<1>7. CASE UNCHANGED vars
  BY <1>7 DEF SendInv, vars
<1> QED BY <1>1, <1>2, <1>3, <1>4, <1>5, <1>6, <1>7 DEF Next

LEMMA ReceiveInv ==
    ASSUME FewFragments, IInv, NEW f \in wire, Receive(f)
    PROVE  RxInv(rx', arrived')
<1>1. /\ RxInv(rx, arrived) /\ arrived \subseteq AllFragments /\ f \in AllFragments
  BY DEF IInv, SendInv
<1>2. RxInv(Dtls13HandshakeRecv(rx, f), arrived \cup {f})
  BY <1>1, RecvInv
<1> QED BY <1>2 DEF Receive

LEMMA NextInv ==
    ASSUME FewFragments, IInv, [Next]_vars
    PROVE  RxInv(rx', arrived')
<1>1. ASSUME NEW f \in wire, Receive(f)
      PROVE  RxInv(rx', arrived')
  BY <1>1, ReceiveInv
<1>2. ASSUME UNCHANGED <<rx, arrived>>
      PROVE  RxInv(rx', arrived')
  BY <1>2 DEF IInv
<1>3. CASE (\E full \in BOOLEAN : \/ Dtls13SendOneFragmentRtx(full)
                                  \/ Dtls13SendFragmentedInternal(full))
           \/ Dtls13SendFragmented \/ Dtls13FragmentsContinue \/ SendBuffered \/ UNCHANGED vars
  BY <1>2, <1>3 DEF Dtls13SendOneFragmentRtx, Dtls13SendFragmentedInternal, Dtls13SendFragmented,
     Dtls13FragmentsContinue, SendBuffered, Leaves, vars
<1> QED BY <1>1, <1>3 DEF Next
(* Messages of any length are cut up in order, wherever the socket is full, and only what was *)
(* sent arrives.                                                                              *)
THEOREM FragmentsSent == Spec => []SendInv
<1>1. Init => SendInv
  BY InitInv
<1>2. SendInv /\ [Next]_vars => SendInv'
  BY SendNext
<1> QED BY <1>1, <1>2, PTL DEF Spec

(* In a flight of messages of at most four fragments the receiver has of every message exactly *)
(* what arrived, in one bucket or two.                                                         *)
THEOREM FragmentsInvariant == FewFragments => (Spec => []IInv)
<1> SUFFICES ASSUME FewFragments
             PROVE  Spec => []IInv
  OBVIOUS
<1>1. Init => IInv
  BY InitInv DEF IInv
<1>2. IInv /\ [Next]_vars => IInv'
  BY NextInv, SendNext DEF IInv
<1> QED BY <1>1, <1>2, PTL DEF Spec

-----------------------------------------------------------------------------
(* What it implies.                                                        *)

LEMMA RxIs ==
    ASSUME IInv
    PROVE  \E x \in 1 .. Len(Flight) + 1 : \E stored :
             /\ rx.expected = x /\ rx.stored = stored /\ rx.processed = Wholes(x - 1) /\ ~rx.failed
             /\ x \in Nat \ {0} /\ StoredInv(stored, x, arrived)
<1>0. PICK x \in 1 .. Len(Flight) + 1 : \E stored :
         rx = Receiver(x, stored, Wholes(x - 1)) /\ StoredInv(stored, x, arrived)
  BY DEF IInv, RxInv
<1>1. PICK stored :
         rx = Receiver(x, stored, Wholes(x - 1)) /\ StoredInv(stored, x, arrived)
  BY <1>0
<1>2. rx.expected = x /\ rx.stored = stored /\ rx.processed = Wholes(x - 1) /\ ~rx.failed
  BY <1>1 DEF Receiver
<1>3. x \in Nat \ {0}
  BY FlightAssumption
<1> QED BY <1>1, <1>2, <1>3

LEMMA CountOne ==
    ASSUME NEW a \in Nat, NEW b \in Nat, a < b
    PROVE  Cardinality(a .. b - 1) = b - a /\ IsFiniteSet(a .. b - 1)
<1>1. b - 1 \in Int /\ (b - 1) - a + 1 = b - a /\ ~(a > b - 1)
  OBVIOUS
<1> QED BY <1>1, FS_Interval

LEMMA CountTwo ==
    ASSUME NEW a \in Nat, NEW b \in Nat, NEW c \in Nat, NEW d \in Nat, a < b, b < c, c < d
    PROVE  Cardinality((a .. b - 1) \cup (c .. d - 1)) = (b - a) + (d - c)
<1> DEFINE S == a .. b - 1
           T == c .. d - 1
<1>1. S \cap T = {}
  OBVIOUS
<1>2. Cardinality(S) = b - a /\ IsFiniteSet(S)
  BY CountOne
<1>3. Cardinality(T) = d - c /\ IsFiniteSet(T)
  BY CountOne
<1> HIDE DEF S, T
<1>4. Cardinality(S \cup T) = Cardinality(S) + Cardinality(T) - Cardinality(S \cap T)
  BY <1>2, <1>3, FS_Union
<1>5. Cardinality({}) = 0
  BY FS_EmptySet
<1>6. Cardinality(S \cup T) = (b - a) + (d - c)
  BY <1>1, <1>2, <1>3, <1>4, <1>5
<1> QED BY <1>6 DEF S, T

LEMMA KeepsCount ==
    ASSUME FewFragments, NEW n \in Messages, NEW buckets, NEW received, NEW got,
           Keeps(n, buckets, received, got)
    PROVE  /\ UNION {Positions(b) : b \in Range(buckets)} = got
           /\ received = Cardinality(got) /\ received \in 0 .. Flight[n]
           /\ \A b \in Range(buckets) : b.data = Content(n, b.offset, End(b))
<1>1. ASSUME NEW a \in Ends(n), NEW b \in Ends(n), a < b, got = a .. b - 1,
             buckets = One(Piece(n, a, b)), received = b - a
      PROVE  /\ UNION {Positions(c) : c \in Range(buckets)} = got
             /\ received = Cardinality(got) /\ received \in 0 .. Flight[n]
             /\ \A c \in Range(buckets) : c.data = Content(n, c.offset, End(c))
  <2>1. a \in Nat /\ b \in Nat /\ b <= Flight[n] /\ Flight[n] \in Nat
    BY EndsAre
  <2>2. Range(buckets) = {Piece(n, a, b)}
    BY <1>1 DEF One, Range
  <2>3. /\ Piece(n, a, b).offset = a /\ End(Piece(n, a, b)) = b
        /\ Piece(n, a, b).data = Content(n, a, b) /\ Positions(Piece(n, a, b)) = a .. b - 1
    BY <1>1, <2>1, PieceIs
  <2>4. Cardinality(a .. b - 1) = b - a
    BY <1>1, <2>1, FS_Interval
  <2> QED BY <1>1, <2>1, <2>2, <2>3, <2>4
<1>2. ASSUME NEW a \in Ends(n), NEW b \in Ends(n), NEW c \in Ends(n), NEW d \in Ends(n),
             a < b, b < c, c < d, got = (a .. b - 1) \cup (c .. d - 1),
             buckets = Two(Piece(n, a, b), Piece(n, c, d)), received = (b - a) + (d - c)
      PROVE  /\ UNION {Positions(p) : p \in Range(buckets)} = got
             /\ received = Cardinality(got) /\ received \in 0 .. Flight[n]
             /\ \A p \in Range(buckets) : p.data = Content(n, p.offset, End(p))
  <2>1. /\ a \in Nat /\ b \in Nat /\ c \in Nat /\ d \in Nat /\ d <= Flight[n] /\ Flight[n] \in Nat
    BY EndsAre
  <2>2. Range(buckets) = {Piece(n, a, b), Piece(n, c, d)}
    BY <1>2 DEF Two, Range
  <2>3. /\ Piece(n, a, b).offset = a /\ End(Piece(n, a, b)) = b
        /\ Piece(n, a, b).data = Content(n, a, b) /\ Positions(Piece(n, a, b)) = a .. b - 1
    BY <1>2, <2>1, PieceIs
  <2>4. /\ Piece(n, c, d).offset = c /\ End(Piece(n, c, d)) = d
        /\ Piece(n, c, d).data = Content(n, c, d) /\ Positions(Piece(n, c, d)) = c .. d - 1
    BY <1>2, <2>1, PieceIs
  <2>5. Cardinality(got) = received
    <3>1. Cardinality((a .. b - 1) \cup (c .. d - 1)) = (b - a) + (d - c)
      BY <1>2, <2>1, CountTwo
    <3> QED BY <1>2, <3>1, Zenon
  <2>6. received \in 0 .. Flight[n]
    BY <1>2, <2>1
  <2>7. UNION {Positions(p) : p \in Range(buckets)} = got
    BY <1>2, <2>2, <2>3, <2>4
  <2> QED BY <2>2, <2>3, <2>4, <2>5, <2>6, <2>7
<1>3. CASE \E a, b \in Ends(n) :
             /\ a < b /\ got = a .. b - 1
             /\ buckets = One(Piece(n, a, b)) /\ received = b - a
  BY <1>1, <1>3, Zenon
<1>4. CASE \E a, b, c, d \in Ends(n) :
             /\ a < b /\ b < c /\ c < d /\ got = (a .. b - 1) \cup (c .. d - 1)
             /\ buckets = Two(Piece(n, a, b), Piece(n, c, d)) /\ received = (b - a) + (d - c)
  <2>1. PICK a \in Ends(n) : \E b, c, d \in Ends(n) :
             /\ a < b /\ b < c /\ c < d /\ got = (a .. b - 1) \cup (c .. d - 1)
             /\ buckets = Two(Piece(n, a, b), Piece(n, c, d)) /\ received = (b - a) + (d - c)
    BY <1>4, Zenon
  <2>2. PICK b \in Ends(n), c \in Ends(n), d \in Ends(n) :
             /\ a < b /\ b < c /\ c < d /\ got = (a .. b - 1) \cup (c .. d - 1)
             /\ buckets = Two(Piece(n, a, b), Piece(n, c, d)) /\ received = (b - a) + (d - c)
    BY <2>1, Zenon
  <2> QED BY <1>2, <2>2, Zenon
<1> QED BY <1>3, <1>4, Zenon DEF Keeps

(* What is stored of a message.                                             *)
LEMMA StoredIsKept ==
    ASSUME FewFragments, NEW x \in Nat \ {0}, NEW stored, NEW arr, StoredInv(stored, x, arr),
           NEW m \in Range(stored)
    PROVE  /\ Number(m) \in Messages /\ m.size = Flight[Number(m)] /\ m.ready = (m.received = m.size)
           /\ Keeps(Number(m), m.buckets, m.received, Got(arr, Number(m)))
<1>1. PICK i \in DOMAIN stored : m = stored[i]
  BY DEF Range
<1>2. Number(m) \in x .. Len(Flight) /\ MessageInv(m, Got(arr, Number(m)))
  BY <1>1 DEF StoredInv
<1>3. Number(m) \in Messages
  BY <1>2, FlightAssumption DEF Messages
<1>4. /\ m = [number |-> m.number, size |-> Flight[m.number], ready |-> m.ready,
              buckets |-> m.buckets, received |-> m.received]
      /\ Keeps(m.number, m.buckets, m.received, Got(arr, m.number))
      /\ m.ready = (m.received = m.size)
  BY <1>2, Zenon DEF MessageInv, Number
<1>5. m.size = Flight[m.number]
  BY <1>4
<1> QED BY <1>3, <1>4, <1>5, Zenon DEF Number

(* The sender and the receiver stay well-typed, and the receiver never has too many messages to *)
(* store (DTLS_POOL_SZ) nor gives up on one.                                                    *)
THEOREM FragmentsTypeOK == FewFragments => (Spec => []TypeOK)
<1> SUFFICES ASSUME FewFragments
             PROVE  Spec => []TypeOK
  OBVIOUS
<1>1. Spec => []IInv
  BY FragmentsInvariant
<1>2. ASSUME IInv
      PROVE  TypeOK
  <2>0. PICK x \in 1 .. Len(Flight) + 1 : \E stored :
             /\ rx.expected = x /\ rx.stored = stored /\ rx.processed = Wholes(x - 1) /\ ~rx.failed
             /\ x \in Nat \ {0} /\ StoredInv(stored, x, arrived)
    BY <1>2, RxIs
  <2>1. PICK stored :
             /\ rx.expected = x /\ rx.stored = stored /\ rx.processed = Wholes(x - 1) /\ ~rx.failed
             /\ x \in Nat \ {0} /\ StoredInv(stored, x, arrived)
    BY <2>0
  <2>2. Len(stored) <= Pool
    BY <2>1, StoredFew, FlightAssumption
  <2>3. ASSUME NEW m \in Range(stored)
        PROVE  m.received \in 0 .. m.size
    <3>1. /\ Number(m) \in Messages /\ m.size = Flight[Number(m)]
          /\ Keeps(Number(m), m.buckets, m.received, Got(arrived, Number(m)))
      BY <2>1, StoredIsKept
    <3>2. m.received \in 0 .. Flight[Number(m)]
      BY <3>1, KeepsCount
    <3> QED BY <3>1, <3>2
  <2>4. TxInv(tx, log)
    BY <1>2 DEF IInv, SendInv
  <2>5. tx.sending => tx.state \in Messages /\ tx.offset <= Flight[tx.state]
    <3>1. tx.sending => tx.state \in Messages /\ tx.offset \in Stops(tx.state)
      BY <2>4, Zenon DEF TxInv
    <3> QED BY <3>1, StopsAre
  <2>6. tx \in [state : 1 .. Len(Flight) + 1, number : 1 .. Len(Flight) + 1, sending : BOOLEAN,
                offset : Nat, out : AllFragments \cup {<<>>}]
    BY <2>4, Zenon DEF TxInv
  <2> QED BY <1>2, <2>1, <2>2, <2>3, <2>5, <2>6, Zenon DEF IInv, SendInv, TypeOK
<1> QED BY <1>1, <1>2, PTL

(* The messages are processed in order, once each, with the bytes they were sent with: what     *)
(* Dtls13HandshakeRecv, DtlsMsgSet and Dtls13ProcessBufferedMessages do together, whatever the  *)
(* order in which fragments arrive and however often.                                           *)
THEOREM FragmentsAssembled == FewFragments => (Spec => []Assembled)
<1> SUFFICES ASSUME FewFragments
             PROVE  Spec => []Assembled
  OBVIOUS
<1>1. Spec => []IInv
  BY FragmentsInvariant
<1>2. ASSUME IInv
      PROVE  Assembled
  <2>1. PICK x : rx.expected = x /\ rx.processed = Wholes(x - 1)
    BY <1>2, RxIs
  <2> QED BY <2>1, Zenon DEF Assembled, Wholes
<1> QED BY <1>1, <1>2, PTL

(* DtlsMsgSet keeps and counts exactly the bytes that arrived, and the message is ready exactly *)
(* when all of them have.                                                                       *)
THEOREM FragmentsKept == FewFragments => (Spec => []KeptIsWhatArrived)
<1> SUFFICES ASSUME FewFragments
             PROVE  Spec => []KeptIsWhatArrived
  OBVIOUS
<1>1. Spec => []IInv
  BY FragmentsInvariant
<1>2. ASSUME IInv
      PROVE  KeptIsWhatArrived
  <2>0. PICK x \in Nat \ {0} : \E stored : rx.stored = stored /\ StoredInv(stored, x, arrived)
    BY <1>2, RxIs
  <2>1. PICK stored : rx.stored = stored /\ StoredInv(stored, x, arrived)
    BY <2>0
  <2>2. ASSUME NEW m \in Range(stored)
        PROVE  LET kept == UNION {Positions(b) : b \in Range(m.buckets)}
               IN  /\ kept = UNION {Positions(f) : f \in {g \in arrived : g.number = m.number}}
                   /\ m.received = Cardinality(kept)
                   /\ m.ready <=> m.received = m.size
                   /\ \A b \in Range(m.buckets) : b.data = Content(m.number, b.offset, End(b))
    <3>1. /\ Number(m) \in Messages /\ m.ready = (m.received = m.size)
          /\ Keeps(Number(m), m.buckets, m.received, Got(arrived, Number(m)))
      BY <2>1, StoredIsKept
    <3>2. /\ UNION {Positions(b) : b \in Range(m.buckets)} = Got(arrived, Number(m))
          /\ m.received = Cardinality(Got(arrived, Number(m)))
          /\ \A b \in Range(m.buckets) : b.data = Content(Number(m), b.offset, End(b))
      BY <3>1, KeepsCount
    <3> QED BY <3>1, <3>2, Zenon DEF Got, Number
  <2> QED BY <2>1, <2>2, Zenon DEF KeptIsWhatArrived
<1> QED BY <1>1, <1>2, PTL

(* The fragments leave in order and once each, however often the socket was full                *)
(* (Dtls13SendFragmentedInternal, Dtls13FragmentsContinue).                                     *)
THEOREM FragmentsSentOnce == Spec => []SentOnceInOrder
<1>1. Spec => []SendInv
  BY FragmentsSent
<1>2. ASSUME SendInv
      PROVE  SentOnceInOrder
  <2>1. log \in Seq(AllFragments) /\ InOrder(Cut(tx, log))
    BY <1>2, Zenon DEF SendInv, TxInv
  <2>2. InOrder(log)
    <3>1. CASE tx.out = <<>>
      BY <2>1, <3>1, Zenon DEF Cut
    <3>2. CASE tx.out # <<>>
      <4>1. tx.out \in AllFragments
        BY <1>2, <3>2 DEF SendInv, TxInv
      <4>2. PICK cut : cut = Append(log, tx.out) /\ InOrder(cut)
        BY <2>1, <3>2, Zenon DEF Cut
      <4>3. /\ Len(log) \in Nat /\ Len(cut) = Len(log) + 1
            /\ \A i \in 1 .. Len(log) : cut[i] = log[i]
        BY <2>1, <4>1, <4>2, AppendProperties
      <4>4. \A i \in 1 .. Len(log) - 1 : /\ i \in 1 .. Len(cut) - 1 /\ i \in 1 .. Len(log)
                                         /\ i + 1 \in 1 .. Len(log)
        BY <4>3
      <4>5. log # <<>> => 1 \in 1 .. Len(log)
        BY <2>1
      <4>6. cut # <<>>
        BY <4>3
      <4> QED BY <4>2, <4>3, <4>4, <4>5, <4>6 DEF InOrder
    <3> QED BY <3>1, <3>2
  <2> QED BY <2>2 DEF InOrder, SentOnceInOrder
<1> QED BY <1>1, <1>2, PTL
=============================================================================
