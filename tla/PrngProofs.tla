----------------------------- MODULE PrngProofs -----------------------------
(***************************************************************************)
(* xorshift on 32 bits with the shifts 13, 17 and 5 loses nothing: each of *)
(* its three lines is injective, so no two states lead to the same one and *)
(* only zero leads to zero.                                                *)
(***************************************************************************)
EXTENDS Prng, TLAPS

(* A line with a shift of n bits can be undone: the n bits the shift       *)
(* leaves alone come out as they are, and every other bit is xored with    *)
(* one that is known by then.                                              *)
LEMMA Step1Injective ==
    ASSUME NEW x \in Word, NEW y \in Word, Step1(x) = Step1(y)
    PROVE  x = y
<1>1. ASSUME NEW i \in Bits
      PROVE  /\ i < 13 => (i \in x <=> i \in y)
             /\ i >= 13 => ((i - 13 \in x <=> i - 13 \in y) => (i \in x <=> i \in y))
  BY DEF Step1, Xor, Shl, Bits, Word
<1>2. ASSUME NEW i \in Bits, i < 26 PROVE i \in x <=> i \in y
  BY <1>1, <1>2 DEF Bits
<1>3. ASSUME NEW i \in Bits PROVE i \in x <=> i \in y
  BY <1>1, <1>2 DEF Bits
<1> QED BY <1>3 DEF Word, Bits

LEMMA Step2Injective ==
    ASSUME NEW x \in Word, NEW y \in Word, Step2(x) = Step2(y)
    PROVE  x = y
<1>1. ASSUME NEW i \in Bits
      PROVE  /\ i >= 15 => (i \in x <=> i \in y)
             /\ i < 15 => ((i + 17 \in x <=> i + 17 \in y) => (i \in x <=> i \in y))
  BY DEF Step2, Xor, Shr, Bits, Word
<1>2. ASSUME NEW i \in Bits PROVE i \in x <=> i \in y
  BY <1>1 DEF Bits
<1> QED BY <1>2 DEF Word, Bits

LEMMA Step3Injective ==
    ASSUME NEW x \in Word, NEW y \in Word, Step3(x) = Step3(y)
    PROVE  x = y
<1>1. ASSUME NEW i \in Bits
      PROVE  /\ i < 5 => (i \in x <=> i \in y)
             /\ i >= 5 => ((i - 5 \in x <=> i - 5 \in y) => (i \in x <=> i \in y))
  BY DEF Step3, Xor, Shl, Bits, Word
<1>2. ASSUME NEW i \in Bits, i < 10 PROVE i \in x <=> i \in y
  BY <1>1, <1>2 DEF Bits
<1>3. ASSUME NEW i \in Bits, i < 15 PROVE i \in x <=> i \in y
  BY <1>1, <1>2, <1>3 DEF Bits
<1>4. ASSUME NEW i \in Bits, i < 20 PROVE i \in x <=> i \in y
  BY <1>1, <1>3, <1>4 DEF Bits
<1>5. ASSUME NEW i \in Bits, i < 25 PROVE i \in x <=> i \in y
  BY <1>1, <1>4, <1>5 DEF Bits
<1>6. ASSUME NEW i \in Bits, i < 30 PROVE i \in x <=> i \in y
  BY <1>1, <1>5, <1>6 DEF Bits
<1>7. ASSUME NEW i \in Bits PROVE i \in x <=> i \in y
  BY <1>1, <1>6 DEF Bits
<1> QED BY <1>7 DEF Word, Bits

LEMMA StepsAreWords ==
    ASSUME NEW x \in Word
    PROVE  /\ Step1(x) \in Word /\ Step2(x) \in Word /\ Step3(x) \in Word
           /\ Next32(x) \in Word
<1>1. ASSUME NEW z \in Word PROVE Step1(z) \in Word /\ Step2(z) \in Word /\ Step3(z) \in Word
  BY DEF Step1, Step2, Step3, Xor, Shl, Shr, Word
<1>2. Step2(Step1(x)) \in Word
  BY <1>1
<1> QED BY <1>1, <1>2 DEF Next32

(* prng_next: no two states of the generator have the same successor, so   *)
(* no entropy of the seed is ever lost.                                    *)
THEOREM NextInjective ==
    ASSUME NEW x \in Word, NEW y \in Word, Next32(x) = Next32(y)
    PROVE  x = y
<1>1. /\ Step1(x) \in Word /\ Step1(y) \in Word
      /\ Step2(Step1(x)) \in Word /\ Step2(Step1(y)) \in Word
  BY StepsAreWords
<1>2. Step2(Step1(x)) = Step2(Step1(y))
  BY <1>1, Step3Injective DEF Next32
<1>3. Step1(x) = Step1(y)
  BY <1>1, <1>2, Step2Injective
<1> QED BY <1>3, Step1Injective

LEMMA ZeroIsFixed == Next32({}) = {}
BY DEF Next32, Step1, Step2, Step3, Xor, Shl, Shr

-----------------------------------------------------------------------------
(* The generator is never zero, from the marker on and through every       *)
(* seeding, whatever the cycle counter reads.                              *)
THEOREM PrngNeverZero == Spec => []NeverZero
<1> DEFINE Inv == prng_state \in Word /\ NeverZero
<1> USE PrngAssumption
<1>1. Init => Inv
  BY DEF Init, NeverZero, Marker, Word, Bits
<1>2. ASSUME Inv, [Next]_vars PROVE Inv'
  <2>1. CASE GenerateBlock
    <3>1. ASSUME NEW cycles \in Word
          PROVE  Seeded(prng_state, cycles) \in Word \ {{}}
      <4>1. Xor(Xor(prng_state, cycles), MixIn) \in Word
        BY <1>2 DEF Xor, MixIn, Word, Bits
      <4>2. {0} \in Word \ {{}}
        BY DEF Word, Bits
      <4> QED BY <4>1, <4>2 DEF Seeded
    <3> QED BY <2>1, <3>1, <1>2 DEF GenerateBlock, NeverZero
  <2>2. CASE NextByte
    <3>1. prng_state' = Next32(prng_state) /\ Next32(prng_state) \in Word
      BY <2>2, <1>2, StepsAreWords DEF NextByte
    <3>2. Next32(prng_state) # {}
      <4>1. {} \in Word
        BY DEF Word
      <4> QED BY <4>1, <1>2, NextInjective, ZeroIsFixed DEF NeverZero
    <3> QED BY <3>1, <3>2 DEF NeverZero
  <2>3. CASE UNCHANGED vars
    BY <2>3, <1>2 DEF vars, NeverZero
  <2> QED BY <1>2, <2>1, <2>2, <2>3 DEF Next
<1> QED BY <1>1, <1>2, PTL DEF Spec

(* Words and bytes keep their width.                                       *)
THEOREM PrngTypeOK == Spec => []TypeOK
<1> USE PrngAssumption
<1>1. Init => TypeOK
  BY DEF Init, TypeOK, Marker, Word, Bits
<1>2. ASSUME TypeOK, [Next]_vars PROVE TypeOK'
  <2>1. CASE GenerateBlock
    <3>1. ASSUME NEW cycles \in Word PROVE Seeded(prng_state, cycles) \in Word
      BY <1>2 DEF Seeded, Xor, MixIn, Word, Bits, TypeOK
    <3> QED BY <2>1, <3>1, <1>2 DEF GenerateBlock, TypeOK
  <2>2. CASE NextByte
    <3>1. prng_state' \in Word
      BY <2>2, <1>2, StepsAreWords DEF NextByte, TypeOK
    <3>2. Shr(prng_state', 24) \subseteq 0..7
      BY <3>1 DEF Shr, Word, Bits
    <3> QED BY <2>2, <3>1, <3>2, <1>2 DEF NextByte, TypeOK
  <2>3. CASE UNCHANGED vars
    BY <2>3, <1>2 DEF vars, TypeOK
  <2> QED BY <1>2, <2>1, <2>2, <2>3 DEF Next
<1> QED BY <1>1, <1>2, PTL DEF Spec

=============================================================================
