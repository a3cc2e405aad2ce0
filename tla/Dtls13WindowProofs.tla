------------------------- MODULE Dtls13WindowProofs -------------------------
(***************************************************************************)
(* The replay window is right for every word size, number of words and     *)
(* range of the low bits: the bit of a number that is still in the window  *)
(* is set exactly when the number has been read or lies before the first   *)
(* ClientHello, and that is kept by the word-by-word shift.                *)
(***************************************************************************)
EXTENDS Dtls13Window, TLAPS

Positions == 0 .. WindowSize - 1

\* A position is a word and a bit of it.
LEMMA PositionParts ==
    ASSUME NEW p \in Positions
    PROVE  /\ p \div WordBits \in 0 .. Words - 1
           /\ p % WordBits \in Bits
           /\ p = WordBits * (p \div WordBits) + (p % WordBits)
<1> DEFINE q == p \div WordBits
           r == p % WordBits
<1>1. WordBits \in Nat \ {0} /\ Words \in Nat \ {0} /\ p \in Nat /\ p < Words * WordBits
  BY WindowAssumption DEF Positions, WindowSize
<1>2. q \in Nat /\ r \in 0 .. WordBits - 1 /\ p = WordBits * q + r
  BY <1>1
<1>3. q < Words
  <2> HIDE DEF q, r
  <2>1. CASE q >= Words
    <3>1. WordBits * q >= WordBits * Words
      BY <1>1, <1>2, <2>1
    <3> QED BY <1>1, <1>2, <3>1
  <2> QED BY <1>1, <1>2, <2>1
<1> QED BY <1>1, <1>2, <1>3 DEF Bits

\* Two positions with the same word and the same bit are one.
LEMMA PositionUnique ==
    ASSUME NEW q \in Nat, NEW r \in Bits
    PROVE  (WordBits * q + r) \div WordBits = q /\ (WordBits * q + r) % WordBits = r
BY WindowAssumption DEF Bits

\* Moving the window by diff moves every mark up by diff positions and sets none.
LEMMA ShiftedMarks ==
    ASSUME window \in [0 .. Words - 1 -> SUBSET Bits],
           NEW diff \in Positions, diff > 0, NEW p \in Positions
    PROVE  p % WordBits \in Shifted(diff)[p \div WordBits]
             <=> p >= diff /\ Marked(p - diff)
<1> DEFINE i == p \div WordBits
           b == p % WordBits
           skip == diff \div WordBits
           by == diff % WordBits
<1>1. i \in 0 .. Words - 1 /\ b \in Bits /\ p = WordBits * i + b
  BY PositionParts
<1>2. skip \in 0 .. Words - 1 /\ by \in Bits /\ diff = WordBits * skip + by
  BY PositionParts
<1>3. Shifted(diff)[i] =
        IF i < skip THEN {}
        ELSE {c \in Bits : \/ c - by \in window[i - skip]
                           \/ i > skip /\ c + WordBits - by \in window[i - skip - 1]}
  BY <1>1 DEF Shifted
<1>4. WordBits \in Nat \ {0} /\ Words \in Nat \ {0} /\ p \in Nat /\ diff \in Nat
  BY WindowAssumption DEF Positions
<1>0. i \in Int /\ skip \in Int
  BY <1>1, <1>2, <1>4
<1>8. i >= skip =>
          (b \in Shifted(diff)[i] <=>
             \/ b - by \in window[i - skip]
             \/ i > skip /\ b + WordBits - by \in window[i - skip - 1])
  <2>1. i >= skip => ~(i < skip)
    BY <1>0
  <2> QED BY <1>1, <1>3, <2>1
<1> HIDE DEF i, b, skip, by
<1>5. CASE i < skip
  <2>1. WordBits * i + WordBits <= WordBits * skip
    BY <1>1, <1>2, <1>4, <1>5
  <2>2. p < diff
    BY <1>1, <1>2, <1>4, <2>1 DEF Bits
  <2> QED BY <1>3, <1>4, <1>5, <2>2 DEF i, b
<1>6. CASE i >= skip /\ b >= by
  <2>0. WordBits * (i - skip) = WordBits * i - WordBits * skip
    BY <1>1, <1>2, <1>4
  <2>1. p - diff = WordBits * (i - skip) + (b - by)
    BY <1>1, <1>2, <1>4, <2>0 DEF Bits
  <2>2. i - skip \in Nat /\ b - by \in Bits
    BY <1>1, <1>2, <1>4, <1>6 DEF Bits
  <2>3. (p - diff) \div WordBits = i - skip /\ (p - diff) % WordBits = b - by
    BY <2>1, <2>2, PositionUnique
  <2>4. p >= diff
    BY <1>4, <2>1, <2>2 DEF Bits
  <2>5. b + WordBits - by \notin Bits
    BY <1>1, <1>2, <1>4, <1>6 DEF Bits
  <2>6. i > skip => window[i - skip - 1] \subseteq Bits
    BY <1>1, <1>2, <1>4
  <2>7. b \in Shifted(diff)[i] <=> b - by \in window[i - skip]
    <3>1. i > skip => b + WordBits - by \notin window[i - skip - 1]
      BY <2>5, <2>6, Zenon
    <3>2. i >= skip
      BY <1>6
    <3>3. b \in Shifted(diff)[i] <=>
            \/ b - by \in window[i - skip]
            \/ i > skip /\ b + WordBits - by \in window[i - skip - 1]
      BY <1>8, <3>2, Zenon
    <3> QED BY <3>1, <3>3, Zenon
  <2> QED BY <2>3, <2>4, <2>7 DEF Marked, i, b
<1>7. CASE i > skip /\ b < by
  <2>0. WordBits * (i - skip - 1) = WordBits * i - WordBits * skip - WordBits
    BY <1>1, <1>2, <1>4
  <2>1. p - diff = WordBits * (i - skip - 1) + (b + WordBits - by)
    BY <1>1, <1>2, <1>4, <2>0 DEF Bits
  <2>2. i - skip - 1 \in Nat /\ b + WordBits - by \in Bits
    BY <1>1, <1>2, <1>4, <1>7 DEF Bits
  <2>3. (p - diff) \div WordBits = i - skip - 1 /\ (p - diff) % WordBits = b + WordBits - by
    BY <2>1, <2>2, PositionUnique
  <2>4. p >= diff
    BY <1>4, <2>1, <2>2 DEF Bits
  <2>5. b - by \notin Bits
    BY <1>1, <1>2, <1>4, <1>7 DEF Bits
  <2>6. window[i - skip] \subseteq Bits
    BY <1>1, <1>2, <1>4, <1>7
  <2>7. b \in Shifted(diff)[i] <=> b + WordBits - by \in window[i - skip - 1]
    <3>1. i >= skip
      BY <1>0, <1>7
    <3>2. b - by \notin window[i - skip]
      BY <2>5, <2>6, Zenon
    <3> QED BY <1>7, <1>8, <3>1, <3>2, Zenon
  <2> QED BY <2>3, <2>4, <2>7 DEF Marked, i, b
<1>9. CASE i = skip /\ b < by
  <2>1. p < diff
    BY <1>1, <1>2, <1>4, <1>9 DEF Bits
  <2>2. b - by \notin Bits
    BY <1>1, <1>2, <1>4, <1>9 DEF Bits
  <2>3. window[i - skip] \subseteq Bits
    BY <1>1, <1>2, <1>4, <1>9
  <2>4. b \notin Shifted(diff)[i]
    <3>1. i >= skip /\ ~(i > skip)
      BY <1>1, <1>2, <1>9
    <3>2. b - by \notin window[i - skip]
      BY <2>2, <2>3, Zenon
    <3> QED BY <1>8, <3>1, <3>2, Zenon
  <2> QED BY <1>4, <2>1, <2>4 DEF i, b
<1> QED BY <1>1, <1>2, <1>5, <1>6, <1>7, <1>9 DEF Bits

\* After a record diff - 1 numbers ahead only that record is marked at the place of
\* the newest number, and every older mark has moved up.
LEMMA MovedMarks ==
    ASSUME window \in [0 .. Words - 1 -> SUBSET Bits], NEW diff \in Nat \ {0}
    PROVE  /\ _DtlsUpdateWindowGTSeq(diff) \in [0 .. Words - 1 -> SUBSET Bits]
           /\ \A p \in Positions :
                 p % WordBits \in _DtlsUpdateWindowGTSeq(diff)[p \div WordBits]
                   <=> p = 0 \/ (p >= diff /\ Marked(p - diff))
<1> DEFINE moved == IF diff >= WindowSize THEN [i \in 0 .. Words - 1 |-> {}]
                    ELSE Shifted(diff)
<1>1. WordBits \in Nat \ {0} /\ Words \in Nat \ {0} /\ 0 \in Bits /\ 0 \in 0 .. Words - 1
  BY WindowAssumption DEF Bits
<1>2. moved \in [0 .. Words - 1 -> SUBSET Bits]
  BY DEF Shifted
<1>3. _DtlsUpdateWindowGTSeq(diff) = [moved EXCEPT ![0] = @ \cup {0}]
  BY DEF _DtlsUpdateWindowGTSeq
<1>4. WindowSize \in Nat
  BY <1>1 DEF WindowSize
<1>5. ASSUME NEW p \in Positions
      PROVE  p % WordBits \in moved[p \div WordBits] <=> p >= diff /\ Marked(p - diff)
  <2>1. p \div WordBits \in 0 .. Words - 1
    BY PositionParts
  <2>2. CASE diff >= WindowSize
    <3>1. p < diff
      BY <1>4, <2>2 DEF Positions
    <3>2. ~(p >= diff)
      BY <1>4, <3>1 DEF Positions
    <3> QED BY <2>1, <2>2, <3>2
  <2>3. CASE diff < WindowSize
    <3>1. diff \in Positions /\ diff > 0 /\ ~(diff >= WindowSize)
      BY <1>4, <2>3 DEF Positions
    <3> QED BY <3>1, ShiftedMarks
  <2> QED BY <1>4, <2>2, <2>3
<1> HIDE DEF moved
<1>6. ASSUME NEW p \in Positions
      PROVE  p % WordBits \in _DtlsUpdateWindowGTSeq(diff)[p \div WordBits]
               <=> p = 0 \/ (p >= diff /\ Marked(p - diff))
  <2>1. /\ p \div WordBits \in 0 .. Words - 1 /\ p % WordBits \in Bits
        /\ p = WordBits * (p \div WordBits) + (p % WordBits)
    BY PositionParts
  <2>2. p = 0 <=> p \div WordBits = 0 /\ p % WordBits = 0
    <3>1. p = 0 => p \div WordBits = 0 /\ p % WordBits = 0
      BY <1>1
    <3>2. p \div WordBits = 0 /\ p % WordBits = 0 => p = 0
      BY <1>1, <2>1
    <3> QED BY <3>1, <3>2
  <2>3. p % WordBits \in _DtlsUpdateWindowGTSeq(diff)[p \div WordBits]
          <=> p = 0 \/ p % WordBits \in moved[p \div WordBits]
    BY <1>1, <1>2, <1>3, <2>1, <2>2
  <2> QED BY <1>5, <2>3, Zenon
<1> QED BY <1>1, <1>2, <1>3, <1>6

\* Marking a number of the window changes its own mark and no other.
LEMMA AddedMark ==
    ASSUME window \in [0 .. Words - 1 -> SUBSET Bits], NEW q \in Positions,
           NEW w, w = [window EXCEPT ![q \div WordBits] = @ \cup {q % WordBits}]
    PROVE  /\ w \in [0 .. Words - 1 -> SUBSET Bits]
           /\ \A p \in Positions :
                 p % WordBits \in w[p \div WordBits] <=> p = q \/ Marked(p)
<1>1. q \div WordBits \in 0 .. Words - 1 /\ q % WordBits \in Bits
  BY PositionParts
<1>2. w \in [0 .. Words - 1 -> SUBSET Bits]
  BY <1>1
<1>3. ASSUME NEW p \in Positions
      PROVE  p % WordBits \in w[p \div WordBits] <=> p = q \/ Marked(p)
  <2>1. p \div WordBits \in 0 .. Words - 1 /\ p % WordBits \in Bits
    BY PositionParts
  <2>2. p \div WordBits = q \div WordBits /\ p % WordBits = q % WordBits => p = q
    <3>1. /\ p = WordBits * (p \div WordBits) + (p % WordBits)
          /\ q = WordBits * (q \div WordBits) + (q % WordBits)
      BY PositionParts
    <3> QED BY <3>1
  <2>3. CASE p \div WordBits = q \div WordBits
    BY <1>1, <2>1, <2>2, <2>3 DEF Marked
  <2>4. CASE p \div WordBits # q \div WordBits
    BY <1>1, <2>1, <2>4 DEF Marked
  <2> QED BY <2>3, <2>4
<1> QED BY <1>2, <1>3

\* A number less than half the range away from the expected one is rebuilt exactly
\* from its low bits, near either end of the counter too.
LEMMA ReconstructExact ==
    ASSUME NEW expected \in Numbers, NEW n \in Numbers,
           n - expected < Shift \div 2, expected - n < Shift \div 2
    PROVE  Dtls13ReconstructSeqNumber(expected, n % Shift) = n
<1> DEFINE low == n % Shift
           elow == expected % Shift
           turns == n \div Shift
           eturns == expected \div Shift
<1>1. Shift \in Nat \ {0} /\ Limit \in Nat /\ expected \in Nat /\ n \in Nat /\ n < Limit
  BY WindowAssumption DEF Numbers, WindowSize
<1>2. Shift \div 2 \in Nat /\ 2 * (Shift \div 2) = Shift
  BY WindowAssumption
<1>3. /\ turns \in Nat /\ low \in 0 .. Shift - 1 /\ n = Shift * turns + low
      /\ eturns \in Nat /\ elow \in 0 .. Shift - 1 /\ expected = Shift * eturns + elow
  BY <1>1
<1>4. Dtls13ReconstructSeqNumber(expected, low) =
        LET near == Shift * eturns + low
        IN  IF low - elow > Shift \div 2
            THEN IF near >= Shift THEN near - Shift ELSE near
            ELSE IF elow - low > Shift \div 2 /\ near + Shift < Limit
                 THEN near + Shift ELSE near
  <2>1. expected - elow = Shift * eturns
    BY <1>1, <1>3
  <2> QED BY <2>1 DEF Dtls13ReconstructSeqNumber
<1> HIDE DEF low, elow, turns, eturns
<1>5. CASE turns = eturns
  <2>1. low - elow < Shift \div 2 /\ elow - low < Shift \div 2
    BY <1>1, <1>2, <1>3, <1>5
  <2> QED BY <1>1, <1>2, <1>3, <1>4, <1>5, <2>1 DEF low
<1>6. CASE turns = eturns + 1
  <2>1. Shift * turns = Shift * eturns + Shift
    BY <1>1, <1>3, <1>6
  <2>2. elow - low > Shift \div 2 /\ ~(low - elow > Shift \div 2)
    BY <1>1, <1>2, <1>3, <2>1
  <2> QED BY <1>1, <1>2, <1>3, <1>4, <2>1, <2>2 DEF low
<1>7. CASE turns + 1 = eturns
  <2>1. Shift * eturns = Shift * turns + Shift
    BY <1>1, <1>3, <1>7
  <2>2. low - elow > Shift \div 2
    BY <1>1, <1>2, <1>3, <2>1
  <2> QED BY <1>1, <1>2, <1>3, <1>4, <2>1, <2>2 DEF low
<1>8. turns = eturns \/ turns = eturns + 1 \/ turns + 1 = eturns
  <2>1. CASE turns > eturns + 1
    <3>1. Shift * turns >= Shift * eturns + Shift + Shift
      BY <1>1, <1>3, <2>1
    <3> QED BY <1>1, <1>2, <1>3, <3>1
  <2>2. CASE turns + 1 < eturns
    <3>1. Shift * eturns >= Shift * turns + Shift + Shift
      BY <1>1, <1>3, <2>2
    <3> QED BY <1>1, <1>2, <1>3, <3>1
  <2> QED BY <1>3, <2>1, <2>2
<1> QED BY <1>5, <1>6, <1>7, <1>8

-----------------------------------------------------------------------------
\* The numbers the receiver has gone past, and what it knows before it has state.
Progress ==
    /\ next <= sent /\ first <= next
    /\ encrypted => stateful
    /\ ~stateful => next = 0 /\ first = 0
    /\ \A n \in Numbers : n >= next => read[n] = 0

\* The bit of a number in the window is set exactly when the number has been read or
\* lies before the accepted ClientHello.
MarksRead ==
    stateful => \A n \in Numbers :
        n < next /\ next - n <= WindowSize =>
            (Marked(next - n - 1) <=> read[n] # 0 \/ n < first)

Ind == TypeOK /\ Progress /\ NoReplay /\ NothingBeforeFirst /\ MarksRead

LEMMA InitInd == Init => Ind
<1> SUFFICES ASSUME Init PROVE Ind
  OBVIOUS
<1>1. Shift \in Nat \ {0} /\ Limit \in Nat \ {0}
  BY WindowAssumption, Z3 DEF WindowSize
<1> QED BY <1>1 DEF Init, Ind, TypeOK, Progress, NoReplay, NothingBeforeFirst, MarksRead,
                    Numbers

\* A record that is accepted was not read before, and afterwards exactly its own mark
\* is new.
LEMMA ReceiveInd == ASSUME Ind, NEW n \in 0 .. sent - 1, Receive(n) PROVE Ind'
<1>1. /\ WordBits \in Nat \ {0} /\ Words \in Nat \ {0} /\ Limit \in Nat
      /\ WindowSize \in Nat \ {0}
  BY WindowAssumption DEF WindowSize
<1>2. TypeOK /\ Progress /\ NoReplay /\ NothingBeforeFirst /\ MarksRead
  BY DEF Ind
<1>3. n \in Numbers /\ n < sent /\ sent \in Numbers /\ next \in Numbers /\ first \in Numbers
  BY <1>1, <1>2 DEF TypeOK, Numbers
<1>4. stateful /\ read \in [Numbers -> Nat] /\ window \in [0 .. Words - 1 -> SUBSET Bits]
  BY <1>2 DEF Receive, TypeOK
<1>5. read' = [read EXCEPT ![n] = read[n] + 1] /\ Dtls13CheckWindow(n)
  BY DEF Receive
<1>6. UNCHANGED <<encrypted, stateful, sent, first>>
  BY DEF Receive
<1>7. next' = Dtls13UpdateWindow(n).next /\ window' = Dtls13UpdateWindow(n).window
  BY DEF Receive
<1>8. CASE n < next
  <2> DEFINE q == next - n - 1
  <2>1. q \in Positions /\ ~Marked(q) /\ next - n <= WindowSize
    BY <1>1, <1>3, <1>5, <1>8 DEF Dtls13CheckWindow, Positions, Numbers
  <2>2. read[n] = 0 /\ ~(n < first)
    BY <1>2, <1>3, <1>4, <1>8, <2>1 DEF MarksRead
  <2>3. next' = next /\ window' = [window EXCEPT ![q \div WordBits] = @ \cup {q % WordBits}]
    BY <1>7, <1>8 DEF Dtls13UpdateWindow
  <2>4. /\ window' \in [0 .. Words - 1 -> SUBSET Bits]
        /\ \A p \in Positions : p % WordBits \in window'[p \div WordBits] <=> p = q \/ Marked(p)
    <3> HIDE DEF q
    <3> QED BY <1>4, <2>1, <2>3, AddedMark
  <2>5. TypeOK' /\ Progress' /\ NoReplay' /\ NothingBeforeFirst'
    BY <1>2, <1>3, <1>4, <1>5, <1>6, <1>8, <2>2, <2>3, <2>4
       DEF TypeOK, Progress, NoReplay, NothingBeforeFirst, Numbers
  <2>6. ASSUME NEW m \in Numbers, m < next, next - m <= WindowSize
        PROVE  Marked(next - m - 1)' <=> read'[m] # 0 \/ m < first
    <3>1. next - m - 1 \in Positions
      BY <1>1, <1>3, <2>6 DEF Positions, Numbers
    <3>2. Marked(next - m - 1)' <=> next - m - 1 = q \/ Marked(next - m - 1)
      BY <2>3, <2>4, <3>1 DEF Marked
    <3>3. next - m - 1 = q <=> m = n
      BY <1>3 DEF Numbers
    <3>4. Marked(next - m - 1) <=> read[m] # 0 \/ m < first
      BY <1>2, <1>4, <2>6 DEF MarksRead
    <3>5. read'[m] = IF m = n THEN 1 ELSE read[m]
      BY <1>3, <1>4, <1>5, <2>2
    <3> QED BY <3>2, <3>3, <3>4, <3>5
  <2>7. MarksRead'
    BY <1>6, <2>3, <2>6 DEF MarksRead
  <2> QED BY <2>5, <2>7 DEF Ind
<1>9. CASE n >= next
  <2> DEFINE diff == n - next + 1
  <2>1. diff \in Nat \ {0}
    BY <1>3, <1>9 DEF Numbers
  <2>2. read[n] = 0
    BY <1>2, <1>3, <1>9 DEF Progress
  <2>3. next' = n + 1 /\ window' = _DtlsUpdateWindowGTSeq(diff)
    <3>1. ~(n < next)
      BY <1>3, <1>9 DEF Numbers
    <3> QED BY <1>7, <3>1 DEF Dtls13UpdateWindow
  <2>4. /\ window' \in [0 .. Words - 1 -> SUBSET Bits]
        /\ \A p \in Positions :
              p % WordBits \in window'[p \div WordBits] <=> p = 0 \/ (p >= diff /\ Marked(p - diff))
    <3> HIDE DEF diff
    <3> QED BY <1>4, <2>1, <2>3, MovedMarks
  <2>5. TypeOK' /\ Progress' /\ NoReplay' /\ NothingBeforeFirst'
    <3>1. n + 1 \in Numbers /\ n + 1 <= sent /\ first <= n + 1
      BY <1>1, <1>2, <1>3, <1>9 DEF Progress, Numbers
    <3>2. read' \in [Numbers -> Nat] /\ \A m \in Numbers : m # n => read'[m] = read[m]
      BY <1>3, <1>4, <1>5
    <3>3. read'[n] = 1
      BY <1>3, <1>4, <1>5, <2>2
    <3>4. TypeOK'
      BY <1>2, <1>6, <2>3, <2>4, <3>1, <3>2 DEF TypeOK
    <3>5. \A m \in Numbers : m >= n + 1 => read'[m] = 0
      BY <1>2, <1>3, <1>9, <3>2 DEF Progress, Numbers
    <3>6. Progress'
      BY <1>2, <1>4, <1>6, <2>3, <3>1, <3>5 DEF Progress
    <3>7. NoReplay'
      BY <1>2, <1>3, <3>2, <3>3 DEF NoReplay
    <3>8. ~(n < first)
      BY <1>2, <1>3, <1>9 DEF Progress, Numbers
    <3>9. NothingBeforeFirst'
      BY <1>2, <1>6, <3>2, <3>8 DEF NothingBeforeFirst
    <3> QED BY <3>4, <3>6, <3>7, <3>9
  <2>6. ASSUME NEW m \in Numbers, m < next', next' - m <= WindowSize
        PROVE  Marked(next - m - 1)' <=> read'[m] # 0 \/ m < first
    <3>1. next' - m - 1 \in Positions /\ next' - m - 1 = n - m
      BY <1>1, <1>3, <2>3, <2>6 DEF Positions, Numbers
    <3>2. n - m \in Positions
      BY <3>1
    <3>3. Marked(next - m - 1)' <=> n - m = 0 \/ (n - m >= diff /\ Marked(n - m - diff))
      <4>1. Marked(next - m - 1)' <=> (n - m) % WordBits \in window'[(n - m) \div WordBits]
        BY <2>3, <3>1 DEF Marked
      <4> QED BY <2>4, <3>2, <4>1
    <3>4. n - m = 0 <=> m = n
      BY <1>3 DEF Numbers
    <3>5. read'[m] = IF m = n THEN 1 ELSE read[m]
      BY <1>3, <1>4, <1>5, <2>2
    <3>6. CASE m = n
      BY <3>3, <3>4, <3>5, <3>6
    <3>7. CASE m # n /\ m >= next
      <4>1. ~(n - m >= diff) /\ ~(m < first) /\ read[m] = 0
        BY <1>2, <1>3, <3>7 DEF Progress, Numbers
      <4> QED BY <3>3, <3>4, <3>5, <3>7, <4>1
    <3>8. CASE m # n /\ m < next
      <4>1. n - m >= diff /\ n - m - diff = next - m - 1 /\ next - m <= WindowSize
        BY <1>1, <1>3, <1>9, <2>3, <2>6, <3>8 DEF Numbers
      <4>2. Marked(next - m - 1) <=> read[m] # 0 \/ m < first
        BY <1>2, <1>4, <2>6, <3>8, <4>1 DEF MarksRead
      <4> QED BY <3>3, <3>4, <3>5, <3>8, <4>1, <4>2
    <3> QED BY <1>3, <3>6, <3>7, <3>8 DEF Numbers
  <2>7. MarksRead'
    BY <1>6, <2>6 DEF MarksRead
  <2> QED BY <2>5, <2>7 DEF Ind
<1> QED BY <1>3, <1>8, <1>9 DEF Numbers

\* The first record with state sets every mark below it.
LEMMA AcceptInd == ASSUME Ind, NEW n \in 0 .. sent - 1, AcceptStateful(n) PROVE Ind'
<1>1. /\ WordBits \in Nat \ {0} /\ Words \in Nat \ {0} /\ Limit \in Nat
      /\ WindowSize \in Nat \ {0}
  BY WindowAssumption DEF WindowSize
<1>2. TypeOK /\ Progress /\ next = 0 /\ first = 0 /\ ~stateful
  BY DEF Ind, Progress, AcceptStateful
<1>3. n \in Numbers /\ n < sent /\ sent \in Numbers /\ read \in [Numbers -> Nat]
  BY <1>1, <1>2 DEF TypeOK, Numbers
<1>4. \A m \in Numbers : read[m] = 0
  BY <1>2 DEF Progress, Numbers
<1>5. next' = n + 1
  BY <1>2, <1>3 DEF AcceptStateful, Dtls13UpdateWindow, Numbers
<1>6. window' = [i \in 0 .. Words - 1 |-> Bits]
  BY DEF AcceptStateful, EverythingBefore
<1>7. /\ read' = [read EXCEPT ![n] = read[n] + 1] /\ stateful' = TRUE /\ first' = n
      /\ UNCHANGED <<encrypted, sent>>
  BY DEF AcceptStateful
<1>8. TypeOK' /\ Progress' /\ NoReplay' /\ NothingBeforeFirst'
  BY <1>1, <1>2, <1>3, <1>4, <1>5, <1>6, <1>7
     DEF TypeOK, Progress, NoReplay, NothingBeforeFirst, Numbers
<1>9. ASSUME NEW m \in Numbers, m < next', next' - m <= WindowSize
      PROVE  Marked(next - m - 1)' /\ (read'[m] # 0 \/ m < n)
  <2>1. next' - m - 1 \in Positions
    BY <1>1, <1>3, <1>5, <1>9 DEF Positions, Numbers
  <2>2. Marked(next - m - 1)'
    BY <1>5, <1>6, <2>1, PositionParts DEF Marked
  <2>3. read'[m] # 0 \/ m < n
    BY <1>3, <1>4, <1>5, <1>7, <1>9 DEF Numbers
  <2> QED BY <2>2, <2>3
<1>10. MarksRead'
  BY <1>7, <1>9 DEF MarksRead
<1> QED BY <1>8, <1>10 DEF Ind

LEMMA StepInd == Ind /\ [Next]_vars => Ind'
<1> SUFFICES ASSUME Ind, [Next]_vars PROVE Ind'
  OBVIOUS
<1>1. CASE Send
  <2>1. UNCHANGED <<encrypted, stateful, next, window, read, first>>
    BY <1>1 DEF Send
  <2>2. sent \in Numbers /\ next \in Numbers /\ sent' = sent + 1 /\ sent + 1 < Limit /\ Limit \in Nat
    BY <1>1, WindowAssumption DEF Ind, TypeOK, Send
  <2>3. sent' \in Numbers /\ (next <= sent => next <= sent')
    BY <2>2 DEF Numbers
  <2>4. TypeOK' /\ Progress'
    BY <2>1, <2>3 DEF Ind, TypeOK, Progress
  <2>5. NoReplay' /\ NothingBeforeFirst' /\ MarksRead'
    BY <2>1 DEF Ind, NoReplay, NothingBeforeFirst, MarksRead, Marked
  <2> QED BY <2>4, <2>5 DEF Ind
<1>2. CASE \E n \in 0 .. sent - 1 : Receive(n) \/ AcceptStateful(n)
  BY <1>2, ReceiveInd, AcceptInd
<1>3. CASE UNCHANGED vars
  BY <1>3 DEF vars, Ind, TypeOK, Progress, NoReplay, NothingBeforeFirst, MarksRead, Marked
<1> QED BY <1>1, <1>2, <1>3 DEF Next

\* The marks tell exactly what has been read, in every reachable state.
THEOREM SpecInd == Spec => []Ind
BY InitInd, StepInd, PTL DEF Spec

\* No record is processed twice, for every size of the window and every number of
\* records.
THEOREM WindowNoReplay == Spec => []NoReplay
<1>1. Ind => NoReplay
  BY DEF Ind
<1> QED BY <1>1, SpecInd, PTL

\* The counters stay within their 64 bits and the words within theirs.
THEOREM WindowTypeOK == Spec => []TypeOK
<1>1. Ind => TypeOK
  BY DEF Ind
<1> QED BY <1>1, SpecInd, PTL

\* Nothing sent before the accepted ClientHello is processed.
THEOREM WindowNothingBeforeFirst == Spec => []NothingBeforeFirst
<1>1. Ind => NothingBeforeFirst
  BY DEF Ind
<1> QED BY <1>1, SpecInd, PTL

\* A record in reach that has not been read is never refused, whatever arrived before.
THEOREM WindowLateRecordsAccepted == Spec => []LateRecordsAccepted
<1>1. ASSUME Ind PROVE LateRecordsAccepted
  <2> SUFFICES ASSUME NEW n \in 0 .. sent - 1, stateful, read[n] = 0, n >= first, InReach(n)
               PROVE  CurSeq(n) = n /\ Dtls13CheckWindow(n)
    BY DEF LateRecordsAccepted
  <2>1. TypeOK /\ MarksRead
    BY <1>1 DEF Ind
  <2>2. n \in Numbers /\ next \in Numbers /\ first \in Numbers /\ n \in Nat
    BY <2>1, WindowAssumption DEF TypeOK, Numbers
  <2>3. WindowSize \in Nat /\ WindowSize < Shift \div 2 /\ Shift \div 2 \in Nat
    BY WindowAssumption DEF WindowSize
  <2>4. CurSeq(n) = n
    <3>1. n - next < Shift \div 2 /\ next - n < Shift \div 2
      BY <2>2, <2>3 DEF InReach, Numbers
    <3> QED BY <2>2, <3>1, ReconstructExact DEF CurSeq
  <2>5. Dtls13CheckWindow(n)
    <3> SUFFICES ASSUME n < next PROVE next - n <= WindowSize /\ ~Marked(next - n - 1)
      BY DEF Dtls13CheckWindow
    <3>1. next - n <= WindowSize
      BY DEF InReach
    <3>2. Marked(next - n - 1) <=> read[n] # 0 \/ n < first
      BY <2>1, <2>2, <3>1 DEF MarksRead
    <3>3. ~(n < first)
      BY <2>2 DEF Numbers
    <3> QED BY <3>1, <3>2, <3>3
  <2> QED BY <2>4, <2>5
<1> QED BY <1>1, SpecInd, PTL
=============================================================================
