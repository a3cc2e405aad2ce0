-------------------------------- MODULE Prng --------------------------------
(***************************************************************************)
(* The firmware's random generator: a 32-bit xorshift seeded from the      *)
(* cycle counter when its state is the marker it was linked with.  A word  *)
(* is the set of the numbers of its one bits, so that xor is symmetric     *)
(* difference and a shift moves the numbers, dropping those that leave.    *)
(***************************************************************************)
EXTENDS Integers

CONSTANTS
    CycleReadings,  \* bound: what the folded cycle counter may read, words
    MaxBytes,       \* bound: bytes asked for in one call
    MaxCalls        \* bound: calls of CustomRngGenerateBlock

Bits == 0..31
Word == SUBSET Bits

ASSUME PrngAssumption == CycleReadings \subseteq Word /\ MaxBytes \in Nat /\ MaxCalls \in Nat

VARIABLES
    prng_state,
    left,     \* bytes the current call still has to produce
    calls,    \* counter of the bound
    output    \* the last byte produced, as the numbers of its one bits

vars == <<prng_state, left, calls, output>>

Xor(x, y) == (x \ y) \cup (y \ x)

(* Mutant: a shift in a wider word. *)
ShlWide(x, n) == {i + n : i \in x}

Shl(x, n) == {i \in Bits : i - n \in x}
Shr(x, n) == {i \in Bits : i + n \in x}

(* 0xA5A5A5A5 and 0x3C6EF35F. *)
Marker == {0, 2, 5, 7, 8, 10, 13, 15, 16, 18, 21, 23, 24, 26, 29, 31}
MixIn == {0, 1, 2, 3, 4, 6, 8, 9, 12, 13, 14, 15, 17, 18, 19, 21, 22, 26, 27, 28, 29}

Init == prng_state = Marker /\ left = 0 /\ calls = 0 /\ output = {}

(* The three lines of prng_next. *)
Step1(x) == Xor(x, Shl(x, 13))
Step2(x) == Xor(x, Shr(x, 17))
Step3(x) == Xor(x, Shl(x, 5))
Next32(x) == Step3(Step2(Step1(x)))

(* Mutant: zero is not replaced. *)
SeededUnchecked(x, cycles) == Xor(Xor(x, cycles), MixIn)

(* prng_seed with a reading of the cycle counter, its halves xored. *)
Seeded(x, cycles) ==
    LET mixed == Xor(Xor(x, cycles), MixIn)
    IN  IF mixed = {} THEN {0} ELSE mixed

(* CustomRngGenerateBlock is called for sz bytes. *)
GenerateBlock ==
    /\ left = 0 /\ calls < MaxCalls
    /\ calls' = calls + 1
    /\ left' \in 0..MaxBytes
    /\ IF prng_state = Marker
         THEN \E cycles \in CycleReadings : prng_state' = Seeded(prng_state, cycles)
         ELSE UNCHANGED prng_state
    /\ UNCHANGED output

NextByte ==
    /\ left > 0
    /\ left' = left - 1
    /\ prng_state' = Next32(prng_state)
    /\ output' = Shr(prng_state', 24)
    /\ UNCHANGED calls

Next == GenerateBlock \/ NextByte

Spec == Init /\ [][Next]_vars

-----------------------------------------------------------------------------
(* Words have 32 bits and bytes eight. *)
TypeOK ==
    /\ prng_state \in Word
    /\ left \in 0..MaxBytes /\ calls \in 0..MaxCalls
    /\ output \subseteq 0..7

(* The generator never reaches zero, from which it would go on producing   *)
(* zeros for ever: not by a seeding, whatever the counter reads, and not by *)
(* a step, also when it comes by the marker in the middle of a handshake   *)
(* and seeds itself again.                                                 *)
NeverZero == prng_state # {}

=============================================================================
