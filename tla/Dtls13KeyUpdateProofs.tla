----------------------- MODULE Dtls13KeyUpdateProofs ------------------------
(***************************************************************************)
(* For any number of key updates: the two sides' epochs stay in step, the  *)
(* four slots never lose the keys an endpoint sends or reads with, and the *)
(* answers to updates never feed each other.                               *)
(***************************************************************************)
EXTENDS Dtls13KeyUpdate, TLAPS

SlotRecords == [number : Nat, side : {"free", "encrypt", "decrypt", "both"}]

Has(slots, number, side) ==
    \E i \in Slots : slots[i].number = number /\ slots[i].side \in {"both", side}

(* No two slots hold the same epoch.                                       *)
Distinct(slots) ==
    \A i, j \in Slots :
        slots[i].side # "free" /\ slots[j].side # "free" /\ slots[i].number = slots[j].number
          => i = j

(* Only the peer's current epoch and the one before decrypt, and those of  *)
(* the handshake until the first update.                                   *)
Decryptable(slots, peerEpoch) ==
    \A i \in Slots :
        slots[i].side \in {"decrypt", "both"}
          => slots[i].number <= 2 \/ slots[i].number \in {peerEpoch - 1, peerEpoch}

SlotsInv(slots, epoch, peerEpoch) ==
    /\ slots \in [Slots -> SlotRecords]
    /\ Distinct(slots) /\ Decryptable(slots, peerEpoch)
    /\ Has(slots, epoch, "encrypt") /\ Has(slots, peerEpoch, "decrypt")

-----------------------------------------------------------------------------
(* The slots.                                                              *)

LEMMA LastIsIn ==
    ASSUME NEW S \in SUBSET Slots, S # {}
    PROVE  Last(S) \in S
<1>1. \E i \in S : \A j \in S : j <= i
  <2>1. CASE 3 \in S
    BY <2>1 DEF Slots
  <2>2. CASE 3 \notin S /\ 2 \in S
    BY <2>2 DEF Slots
  <2>3. CASE 3 \notin S /\ 2 \notin S /\ 1 \in S
    BY <2>3 DEF Slots
  <2>4. CASE 3 \notin S /\ 2 \notin S /\ 1 \notin S
    <3>1. PICK i : i \in S
      OBVIOUS
    <3>2. 0 \in S
      BY <2>4, <3>1 DEF Slots
    <3> QED BY <2>4, <3>2 DEF Slots
  <2> QED BY <2>1, <2>2, <2>3, <2>4
<1> QED BY <1>1 DEF Last

(* Two epochs are current, so that one slot of the four is free or old.    *)
LEMMA NewSlotIsNotCurrent ==
    ASSUME NEW e, e.slots \in [Slots -> SlotRecords], Distinct(e.slots)
    PROVE  /\ Dtls13NewEpochSlot(e) \in Slots
           /\ \/ e.slots[Dtls13NewEpochSlot(e)].side = "free"
              \/ e.slots[Dtls13NewEpochSlot(e)].number \notin {e.epoch, e.peerEpoch}
<1>1. CASE Valid(e) # Slots
  <2>1. Last(Slots \ Valid(e)) \in Slots \ Valid(e)
    BY <1>1, LastIsIn DEF Valid
  <2> QED BY <1>1, <2>1 DEF Dtls13NewEpochSlot, Valid
<1>2. CASE Valid(e) = Slots
  <2> DEFINE Old == {i \in Slots : e.slots[i].number \notin {e.epoch, e.peerEpoch}}
  <2>1. Old # {}
    <3>1. \A i, j \in Slots : e.slots[i].number = e.slots[j].number => i = j
      BY <1>2 DEF Distinct, Valid
    <3> QED BY <3>1 DEF Slots
  <2>2. Last(Old) \in Old
    BY <2>1, LastIsIn
  <2> QED BY <1>2, <2>2 DEF Dtls13NewEpochSlot
<1> QED BY <1>1, <1>2

(* The slots after Dtls13NewEpoch, in terms of the slot it takes.          *)
NewSlots(e, number, side) ==
    LET known == Dtls13GetEpoch(e, number)
        slot  == IF known # {} THEN Last(known) ELSE Dtls13NewEpochSlot(e)
        both  == known # {} /\ e.slots[slot].side # side
        slots == [e.slots EXCEPT ![slot] =
                    [number |-> number, side |-> IF both THEN "both" ELSE side]]
    IN  IF slots[slot].side = "encrypt" THEN slots
        ELSE Dtls13SetOlderEpochSide(slots, number - 1, "encrypt")

(* Dtls13NewEpoch: the slot it uses, what becomes of it, and of the others. *)
Renewed(e, number, side, slot, now) ==
    IF e.slots[slot].side # "free" /\ e.slots[slot].number = number
    THEN now = "both" <=> e.slots[slot].side # side
    ELSE /\ \A i \in Slots : e.slots[i].side # "free" => e.slots[i].number # number
         /\ \/ e.slots[slot].side = "free"
            \/ e.slots[slot].number \notin {e.epoch, e.peerEpoch}
         /\ now = side

Rest(e, new, number, slot, now) ==
    /\ new[slot] = [number |-> number, side |-> now]
    /\ \A i \in Slots \ {slot} :
         /\ new[i].number = e.slots[i].number
         /\ new[i].side = IF now # "encrypt" /\ e.slots[i].side # "free"
                               /\ e.slots[i].number < number - 1
                          THEN "encrypt" ELSE e.slots[i].side

LEMMA NewEpochSlots ==
    ASSUME NEW e, e.slots \in [Slots -> SlotRecords], Distinct(e.slots),
           NEW number \in Nat, number > 0, NEW side \in {"encrypt", "decrypt"}
    PROVE  \E slot \in Slots, now \in {side, "both"} :
             /\ Renewed(e, number, side, slot, now)
             /\ NewSlots(e, number, side) \in [Slots -> SlotRecords]
             /\ Rest(e, NewSlots(e, number, side), number, slot, now)
<1> DEFINE known == Dtls13GetEpoch(e, number)
           slot  == IF known # {} THEN Last(known) ELSE Dtls13NewEpochSlot(e)
           both  == known # {} /\ e.slots[slot].side # side
           now   == IF both THEN "both" ELSE side
           slots == [e.slots EXCEPT ![slot] = [number |-> number, side |-> now]]
           new   == NewSlots(e, number, side)
<1>1. known # {} => slot \in Slots /\ e.slots[slot].side # "free"
                      /\ e.slots[slot].number = number
  <2>1. known \in SUBSET Slots
    BY DEF Dtls13GetEpoch, Valid
  <2>2. known # {} => Last(known) \in known
    BY <2>1, LastIsIn
  <2> QED BY <2>2 DEF Dtls13GetEpoch, Valid
<1>2. known = {} => /\ slot \in Slots
                    /\ \A i \in Slots : e.slots[i].side # "free" => e.slots[i].number # number
                    /\ \/ e.slots[slot].side = "free"
                       \/ e.slots[slot].number \notin {e.epoch, e.peerEpoch}
  BY NewSlotIsNotCurrent DEF Dtls13GetEpoch, Valid
<1>3. slot \in Slots /\ now \in {side, "both"}
  BY <1>1, <1>2
<1>4. new = IF now = "encrypt" THEN slots
            ELSE Dtls13SetOlderEpochSide(slots, number - 1, "encrypt")
  BY <1>3 DEF NewSlots
<1>5. /\ slots \in [Slots -> SlotRecords]
      /\ slots[slot] = [number |-> number, side |-> now]
      /\ \A i \in Slots \ {slot} : slots[i] = e.slots[i]
  BY <1>3 DEF SlotRecords
<1>6. /\ new \in [Slots -> SlotRecords]
      /\ new[slot] = [number |-> number, side |-> now]
      /\ \A i \in Slots \ {slot} :
           /\ new[i].number = e.slots[i].number
           /\ new[i].side = IF now # "encrypt" /\ e.slots[i].side # "free"
                                 /\ e.slots[i].number < number - 1
                            THEN "encrypt" ELSE e.slots[i].side
  <2>1. CASE now = "encrypt"
    BY <1>4, <1>5, <2>1
  <2>2. CASE now # "encrypt"
    <3>1. new = [i \in Slots |-> IF slots[i].side # "free" /\ slots[i].number < number - 1
                                 THEN [slots[i] EXCEPT !.side = "encrypt"] ELSE slots[i]]
      BY <1>4, <2>2 DEF Dtls13SetOlderEpochSide
    <3>2. ASSUME NEW i \in Slots
          PROVE  /\ new[i] \in SlotRecords
                 /\ new[i].number = slots[i].number
                 /\ new[i].side = IF slots[i].side # "free" /\ slots[i].number < number - 1
                                  THEN "encrypt" ELSE slots[i].side
      BY <3>1, <1>5 DEF SlotRecords
    <3>3. new \in [Slots -> SlotRecords]
      BY <3>1, <3>2
    <3>4. new[slot] = [number |-> number, side |-> now]
      BY <3>1, <1>3, <1>5
    <3>5. ASSUME NEW i \in Slots \ {slot}
          PROVE  /\ new[i].number = e.slots[i].number
                 /\ new[i].side = IF now # "encrypt" /\ e.slots[i].side # "free"
                                       /\ e.slots[i].number < number - 1
                                  THEN "encrypt" ELSE e.slots[i].side
      BY <3>2, <1>5, <2>2
    <3> QED BY <3>3, <3>4, <3>5
  <2> QED BY <2>1, <2>2
<1>7. Renewed(e, number, side, slot, now)
  <2>1. CASE known # {}
    BY <1>1, <2>1 DEF Renewed
  <2>2. CASE known = {}
    BY <1>2, <2>2 DEF Renewed
  <2> QED BY <2>1, <2>2
<1>8. Rest(e, new, number, slot, now)
  BY <1>6 DEF Rest
<1> HIDE DEF known, slot, both, now, slots
<1> QED BY <1>3, <1>6, <1>7, <1>8

(* A new epoch to send in leaves room for what is read.                     *)
LEMMA EncryptEpochKeeps ==
    ASSUME NEW e, NEW epoch \in Nat, NEW peerEpoch \in Nat,
           e.epoch = epoch, e.peerEpoch = peerEpoch, epoch >= 3,
           SlotsInv(e.slots, epoch, peerEpoch)
    PROVE  SlotsInv(NewSlots(e, epoch + 1, "encrypt"), epoch + 1, peerEpoch)
<1> DEFINE n == epoch + 1
           new == NewSlots(e, n, "encrypt")
<1>1. n \in Nat /\ n > 0 /\ e.slots \in [Slots -> SlotRecords] /\ Distinct(e.slots)
  BY DEF SlotsInv
<1>2. PICK slot \in Slots, now \in {"encrypt", "both"} :
        /\ Renewed(e, n, "encrypt", slot, now)
        /\ new \in [Slots -> SlotRecords]
        /\ Rest(e, new, n, slot, now)
  BY <1>1, NewEpochSlots
<1> HIDE DEF new
<1>3. Distinct(new)
  <2> SUFFICES ASSUME NEW i \in Slots, NEW j \in Slots,
                      new[i].side # "free", new[j].side # "free",
                      new[i].number = new[j].number
               PROVE  i = j
    BY DEF Distinct
  <2>1. CASE i # slot /\ j # slot
    BY <1>1, <1>2, <2>1 DEF Rest, Distinct
  <2>2. CASE i = slot /\ j # slot
    BY <1>1, <1>2, <2>2 DEF Rest, Renewed, Distinct
  <2>3. CASE i # slot /\ j = slot
    BY <1>1, <1>2, <2>3 DEF Rest, Renewed, Distinct
  <2> QED BY <2>1, <2>2, <2>3
<1>4. now = "both" => /\ e.slots[slot].side \in {"decrypt", "both"}
                      /\ e.slots[slot].number = n
  BY <1>1, <1>2 DEF Renewed, SlotRecords
<1>5. Decryptable(new, peerEpoch)
  <2> SUFFICES ASSUME NEW i \in Slots, new[i].side \in {"decrypt", "both"}
               PROVE  new[i].number <= 2 \/ new[i].number \in {peerEpoch - 1, peerEpoch}
    BY DEF Decryptable
  <2>1. e.slots[i].side \in {"decrypt", "both"} /\ new[i].number = e.slots[i].number
    <3>1. CASE i = slot
      BY <1>2, <1>4, <3>1 DEF Rest
    <3>2. CASE i # slot
      BY <1>2, <3>2 DEF Rest
    <3> QED BY <3>1, <3>2
  <2> QED BY <2>1 DEF SlotsInv, Decryptable
<1>6. Has(new, n, "encrypt")
  BY <1>2 DEF Has, Rest
<1>7. now = "both" => n <= peerEpoch
  BY <1>4 DEF SlotsInv, Decryptable
<1>8. Has(new, peerEpoch, "decrypt")
  <2>1. PICK i \in Slots : /\ e.slots[i].number = peerEpoch
                           /\ e.slots[i].side \in {"both", "decrypt"}
    BY DEF SlotsInv, Has
  <2>2. CASE i # slot
    <3>1. new[i].number = peerEpoch
      BY <1>2, <2>1, <2>2 DEF Rest
    <3>2. new[i].side = e.slots[i].side
      BY <1>1, <1>2, <1>7, <2>1, <2>2 DEF Rest
    <3> QED BY <2>1, <3>1, <3>2 DEF Has
  <2>3. CASE i = slot /\ now = "both"
    BY <1>2, <1>4, <2>1, <2>3 DEF Has, Rest
  <2>4. CASE i = slot /\ now = "encrypt"
    BY <1>2, <2>1, <2>4 DEF Renewed
  <2> QED BY <2>2, <2>3, <2>4
<1> QED BY <1>2, <1>3, <1>5, <1>6, <1>8 DEF SlotsInv, new

(* A new epoch to read leaves room for what is sent, and ends the older ones. *)
LEMMA DecryptEpochKeeps ==
    ASSUME NEW e, NEW epoch \in Nat, NEW peerEpoch \in Nat,
           e.epoch = epoch, e.peerEpoch = peerEpoch, peerEpoch >= 3,
           SlotsInv(e.slots, epoch, peerEpoch)
    PROVE  SlotsInv(NewSlots(e, peerEpoch + 1, "decrypt"), epoch, peerEpoch + 1)
<1> DEFINE n == peerEpoch + 1
           new == NewSlots(e, n, "decrypt")
<1>1. n \in Nat /\ n > 0 /\ e.slots \in [Slots -> SlotRecords] /\ Distinct(e.slots)
  BY DEF SlotsInv
<1>2. PICK slot \in Slots, now \in {"decrypt", "both"} :
        /\ Renewed(e, n, "decrypt", slot, now)
        /\ new \in [Slots -> SlotRecords]
        /\ Rest(e, new, n, slot, now)
  BY <1>1, NewEpochSlots
<1> HIDE DEF new
<1>3. Distinct(new)
  <2> SUFFICES ASSUME NEW i \in Slots, NEW j \in Slots,
                      new[i].side # "free", new[j].side # "free",
                      new[i].number = new[j].number
               PROVE  i = j
    BY DEF Distinct
  <2>1. CASE i # slot /\ j # slot
    BY <1>1, <1>2, <2>1 DEF Rest, Distinct
  <2>2. CASE i = slot /\ j # slot
    BY <1>1, <1>2, <2>2 DEF Rest, Renewed, Distinct
  <2>3. CASE i # slot /\ j = slot
    BY <1>1, <1>2, <2>3 DEF Rest, Renewed, Distinct
  <2> QED BY <2>1, <2>2, <2>3
<1>4. Decryptable(new, n)
  <2> SUFFICES ASSUME NEW i \in Slots, new[i].side \in {"decrypt", "both"}, i # slot
               PROVE  new[i].number <= 2 \/ new[i].number \in {n - 1, n}
    BY <1>1, <1>2 DEF Decryptable, Rest
  <2>1. /\ new[i].number = e.slots[i].number /\ e.slots[i].side \in {"decrypt", "both"}
        /\ ~(e.slots[i].number < n - 1)
    BY <1>2 DEF Rest
  <2>2. e.slots[i].number <= 2 \/ e.slots[i].number \in {peerEpoch - 1, peerEpoch}
    BY <2>1 DEF SlotsInv, Decryptable
  <2>3. e.slots[i].number \in Nat
    BY <1>1 DEF SlotRecords
  <2> QED BY <2>1, <2>2, <2>3
<1>5. Has(new, n, "decrypt")
  BY <1>2 DEF Has, Rest
<1>6. Has(new, epoch, "encrypt")
  <2>1. PICK i \in Slots : /\ e.slots[i].number = epoch
                           /\ e.slots[i].side \in {"both", "encrypt"}
    BY DEF SlotsInv, Has
  <2>2. CASE i # slot
    BY <1>2, <2>1, <2>2 DEF Rest, Has
  <2>3. CASE i = slot
    BY <1>2, <2>1, <2>3 DEF Renewed, Rest, Has
  <2> QED BY <2>2, <2>3
<1> QED BY <1>2, <1>3, <1>4, <1>5, <1>6 DEF SlotsInv, new

(* Ending the epochs before a number up to the peer's current one.         *)
LEMMA SetOlderKeeps ==
    ASSUME NEW slots, NEW epoch \in Nat, NEW peerEpoch \in Nat, NEW number \in Nat,
           number <= peerEpoch, SlotsInv(slots, epoch, peerEpoch)
    PROVE  SlotsInv(Dtls13SetOlderEpochSide(slots, number, "encrypt"), epoch, peerEpoch)
<1> DEFINE new == Dtls13SetOlderEpochSide(slots, number, "encrypt")
<1>1. slots \in [Slots -> SlotRecords]
  BY DEF SlotsInv
<1>2. ASSUME NEW i \in Slots
      PROVE  /\ new[i] \in SlotRecords
             /\ new[i].number = slots[i].number
             /\ new[i].side = IF slots[i].side # "free" /\ slots[i].number < number
                              THEN "encrypt" ELSE slots[i].side
  BY <1>1 DEF Dtls13SetOlderEpochSide, SlotRecords
<1>3. new \in [Slots -> SlotRecords]
  BY <1>2 DEF Dtls13SetOlderEpochSide
<1> HIDE DEF new
<1>4. Distinct(new)
  BY <1>2 DEF Distinct, SlotsInv
<1>5. Decryptable(new, peerEpoch)
  BY <1>2 DEF Decryptable, SlotsInv
<1>6. Has(new, epoch, "encrypt")
  BY <1>2 DEF Has, SlotsInv
<1>7. Has(new, peerEpoch, "decrypt")
  <2>1. PICK i \in Slots : /\ slots[i].number = peerEpoch
                           /\ slots[i].side \in {"both", "decrypt"}
    BY DEF SlotsInv, Has
  <2>2. new[i].number = peerEpoch /\ new[i].side = slots[i].side
    BY <1>2, <2>1
  <2> QED BY <2>1, <2>2 DEF Has
<1> QED BY <1>3, <1>4, <1>5, <1>6, <1>7 DEF SlotsInv, new

(* The epoch rebuilt from two bits is one of a slot, or the peer's current one. *)
LEMMA MaxExists ==
    ASSUME NEW I \in SUBSET Slots, I # {}, NEW f \in [Slots -> Nat]
    PROVE  Last({f[i] : i \in I}) \in {f[i] : i \in I}
<1> DEFINE g == [i \in Slots |-> IF i \in I THEN f[i] ELSE -1]
<1>1. \A i \in Slots : g[i] \in Int
  OBVIOUS
<1>2. \E m \in Slots : \A i \in Slots : g[i] <= g[m]
  <2>1. 0 \in Slots /\ 1 \in Slots /\ 2 \in Slots /\ 3 \in Slots
    BY DEF Slots
  <2>2. \A i \in Slots : i = 0 \/ i = 1 \/ i = 2 \/ i = 3
    BY DEF Slots
  <2> HIDE DEF g
  <2>3. CASE g[1] <= g[0] /\ g[2] <= g[0] /\ g[3] <= g[0]
    BY <1>1, <2>1, <2>2, <2>3
  <2>4. CASE g[0] <= g[1] /\ g[2] <= g[1] /\ g[3] <= g[1]
    BY <1>1, <2>1, <2>2, <2>4
  <2>5. CASE g[0] <= g[2] /\ g[1] <= g[2] /\ g[3] <= g[2]
    BY <1>1, <2>1, <2>2, <2>5
  <2>6. CASE g[0] <= g[3] /\ g[1] <= g[3] /\ g[2] <= g[3]
    BY <1>1, <2>1, <2>2, <2>6
  <2> QED BY <1>1, <2>1, <2>3, <2>4, <2>5, <2>6
<1>3. PICK m \in Slots : \A i \in Slots : g[i] <= g[m]
  BY <1>2
<1>4. PICK k : k \in I
  OBVIOUS
<1>5. m \in I
  BY <1>3, <1>4
<1>6. f[m] \in {f[i] : i \in I} /\ \A j \in {f[i] : i \in I} : j <= f[m]
  BY <1>3, <1>5
<1> QED BY <1>6 DEF Last

LEMMA ReconstructedBits ==
    ASSUME NEW e, e.slots \in [Slots -> SlotRecords], e.peerEpoch \in Nat,
           NEW bits \in 0 .. 3, Dtls13ReconstructEpochNumber(e, bits) # -1
    PROVE  /\ Dtls13ReconstructEpochNumber(e, bits) \in Nat
           /\ Dtls13ReconstructEpochNumber(e, bits) % 4 = bits
<1> DEFINE I == {j \in Valid(e) : e.slots[j].number % 4 = bits}
           f == [i \in Slots |-> e.slots[i].number]
           others == {e.slots[i].number : i \in I}
<1>1. CASE e.peerEpoch % 4 = bits
  BY <1>1 DEF Dtls13ReconstructEpochNumber
<1>2. CASE e.peerEpoch % 4 # bits
  <2>1. /\ Dtls13ReconstructEpochNumber(e, bits) = Last(others)
        /\ others # {}
    BY <1>2 DEF Dtls13ReconstructEpochNumber
  <2>2. I \in SUBSET Slots /\ I # {} /\ f \in [Slots -> Nat]
    BY <2>1 DEF Valid, SlotRecords
  <2>3. others = {f[i] : i \in I}
    BY <2>2
  <2> HIDE DEF f
  <2>4. Last(others) \in others
    BY <2>2, <2>3, MaxExists
  <2>5. PICK j \in I : Last(others) = e.slots[j].number
    BY <2>4
  <2> QED BY <2>1, <2>5 DEF Valid, SlotRecords
<1> QED BY <1>1, <1>2

-----------------------------------------------------------------------------
(* One endpoint.                                                           *)

Fields == {"epoch", "peerEpoch", "slots", "decrypting", "keys", "waiting",
           "responseReq", "invalidate", "finished"}

(* What an endpoint keeps whatever its peer does: the keys it decrypts with are of the *)
(* peer's current epoch, of the one before or of the handshake, and an epoch that is    *)
(* waited for is at most the peer's next.                                              *)
EndInv(e) ==
    /\ DOMAIN e = Fields
    /\ e.epoch \in Nat /\ e.epoch >= 3 /\ e.peerEpoch \in Nat /\ e.peerEpoch >= 3
    /\ SlotsInv(e.slots, e.epoch, e.peerEpoch)
    /\ e.decrypting \in Slots
    /\ e.keys \in Nat /\ (e.keys <= 2 \/ e.keys \in {e.peerEpoch - 1, e.peerEpoch})
    /\ e.invalidate \in Nat /\ e.invalidate <= e.peerEpoch + 1

LEMMA KnownEpoch ==
    ASSUME NEW e, EndInv(e), NEW number \in Nat, CanSetEpochKeys(e, number, "decrypt")
    PROVE  EndInv(SetDecryptKeys(e, number))
<1> DEFINE S == Dtls13GetEpoch(e, number)
<1>1. S \in SUBSET Slots /\ S # {}
  BY DEF CanSetEpochKeys, Dtls13GetEpoch, Valid
<1>2. Last(S) \in Slots
  BY <1>1, LastIsIn
<1>3. number <= 2 \/ number \in {e.peerEpoch - 1, e.peerEpoch}
  BY DEF CanSetEpochKeys, Dtls13GetEpoch, Valid, EndInv, SlotsInv, Decryptable
<1> HIDE DEF S
<1>4. SetDecryptKeys(e, number) = [[e EXCEPT !.decrypting = Last(S)] EXCEPT !.keys = number]
  BY DEF SetDecryptKeys, S
<1> QED BY <1>2, <1>3, <1>4 DEF EndInv, Fields

(* The epochs and the update in flight are not touched by installing keys. *)
Same(e, f) == f.epoch = e.epoch /\ f.peerEpoch = e.peerEpoch /\ f.waiting = e.waiting

LEMMA SetKeysSame ==
    ASSUME NEW e, EndInv(e), NEW number
    PROVE  /\ Same(e, SetDecryptKeys(e, number))
           /\ DOMAIN SetDecryptKeys(e, number) = Fields
           /\ SetDecryptKeys(e, number).keys = number
           /\ SetDecryptKeys(e, number).responseReq = e.responseReq
           /\ SetDecryptKeys(e, number).invalidate = e.invalidate
           /\ SetDecryptKeys(e, number).slots = e.slots
BY DEF SetDecryptKeys, Same, EndInv, Fields

LEMMA CanSetIsHas ==
    ASSUME NEW e, e.slots \in [Slots -> SlotRecords], NEW number, NEW side \in {"encrypt", "decrypt"}
    PROVE  CanSetEpochKeys(e, number, side) <=> Has(e.slots, number, side)
BY DEF CanSetEpochKeys, Dtls13GetEpoch, Valid, Has

LEMMA NewEpochIs ==
    ASSUME NEW e, NEW number, NEW side
    PROVE  Dtls13NewEpoch(e, number, side) = [e EXCEPT !.slots = NewSlots(e, number, side)]
BY DEF Dtls13NewEpoch, NewSlots

(* What receiving record d does to the counters, and what it sends.        *)
Sends(d, r) ==
    \A o \in r.out :
        /\ o.type \in {"key_update", "ack"} /\ o.epoch = r.ep.epoch
        /\ o.type = "key_update" => r.ep.waiting
        /\ o.type = "ack" => o.acked = d.epoch /\ d.type = "key_update"

Moves(e, d, r) ==
    \/ /\ Same(e, r.ep)
       /\ r.out # {} => d.epoch # e.peerEpoch
    \/ /\ d.type = "key_update" /\ d.epoch = e.peerEpoch
       /\ r.ep.epoch = e.epoch /\ r.ep.peerEpoch = e.peerEpoch + 1
       /\ e.waiting => r.ep.waiting
    \/ /\ d.type = "ack" /\ e.waiting /\ d.acked = e.epoch
       /\ r.ep.epoch = e.epoch + 1 /\ r.ep.peerEpoch = e.peerEpoch /\ ~r.ep.waiting

Effect(e, d, r) == EndInv(r.ep) /\ Sends(d, r) /\ Moves(e, d, r)

LEMMA AckEffect ==
    ASSUME NEW e, EndInv(e), NEW d, d.type = "ack"
    PROVE  Effect(e, d, DoDtls13Ack(e, d))
<1> DEFINE done == [e EXCEPT !.finished = @ \/ d.acked = HandshakeEpoch]
           new == Dtls13KeyUpdateAckReceived(done)
           r == DoDtls13Ack(e, d)
<1>1. EndInv(done) /\ Same(e, done)
  BY DEF EndInv, Same, Fields
<1>2. CASE e.waiting /\ d.acked = e.epoch
  <2>1. done.epoch \in Nat /\ done.epoch = e.epoch /\ done.peerEpoch = e.peerEpoch
    BY <1>1 DEF EndInv, Same
  <2>2. SlotsInv(NewSlots(done, done.epoch + 1, "encrypt"), done.epoch + 1, done.peerEpoch)
    BY <1>1, EncryptEpochKeeps DEF EndInv
  <2> HIDE DEF done
  <2>3. new = [[done EXCEPT !.slots = NewSlots(done, done.epoch + 1, "encrypt")]
                EXCEPT !.epoch = done.epoch + 1]
    BY <1>1, NewEpochIs DEF Dtls13KeyUpdateAckReceived, EndInv, Fields
  <2>4. EndInv(new) /\ new.epoch = e.epoch + 1 /\ new.peerEpoch = e.peerEpoch
    BY <1>1, <2>1, <2>2, <2>3 DEF EndInv, Fields
  <2>5. r = [ep |-> [new EXCEPT !.waiting = FALSE], out |-> {}]
    BY <1>2 DEF DoDtls13Ack, done
  <2> HIDE DEF new, r
  <2>6. EndInv(r.ep)
    BY <2>4, <2>5 DEF EndInv, Fields
  <2>7. /\ r.ep.epoch = e.epoch + 1 /\ r.ep.peerEpoch = e.peerEpoch
        /\ ~r.ep.waiting /\ r.out = {}
    BY <2>4, <2>5 DEF EndInv, Fields
  <2> QED BY <1>2, <2>6, <2>7 DEF Effect, Sends, Moves, r
<1>3. CASE ~(e.waiting /\ d.acked = e.epoch)
  <2>1. r.ep = done /\ r.out = {}
    BY <1>3 DEF DoDtls13Ack
  <2> QED BY <1>1, <2>1 DEF Effect, Sends, Moves
<1> QED BY <1>2, <1>3

(* The answer to a KeyUpdate, in the endpoint with the peer's new epoch.   *)
LEMMA AnswerEffect ==
    ASSUME NEW e, EndInv(e), NEW respond
    PROVE  LET r == SendTls13KeyUpdate(e, respond) IN
           /\ EndInv(r.ep) /\ r.ep.epoch = e.epoch /\ r.ep.peerEpoch = e.peerEpoch
           /\ r.ep.waiting
           /\ \A o \in r.out : o.type = "key_update" /\ o.epoch = e.epoch
<1> DEFINE request == ~e.responseReq /\ ~respond
           f == [[e EXCEPT !.responseReq = request] EXCEPT !.waiting = TRUE]
           d == [type |-> "key_update", epoch |-> e.epoch, request |-> request]
           r == SendTls13KeyUpdate(e, respond)
<1>1. r.ep = f /\ r.out = {d}
  BY DEF SendTls13KeyUpdate
<1> HIDE DEF request
<1>2. EndInv(f) /\ f.epoch = e.epoch /\ f.peerEpoch = e.peerEpoch /\ f.waiting
  BY DEF EndInv, Fields
<1>3. d.type = "key_update" /\ d.epoch = e.epoch
  OBVIOUS
<1> HIDE DEF f, d, r
<1> QED BY <1>1, <1>2, <1>3 DEF r

LEMMA NextPeerEpochEffect ==
    ASSUME NEW e, EndInv(e), NEW request
    PROVE  LET r == NextPeerEpoch(e, request) IN
           /\ EndInv(r.ep) /\ r.ep.epoch = e.epoch /\ r.ep.peerEpoch = e.peerEpoch + 1
           /\ e.waiting => r.ep.waiting
           /\ \A o \in r.out : o.type = "key_update" /\ o.epoch = e.epoch /\ r.ep.waiting
<1> DEFINE n == e.peerEpoch + 1
           begun == [e EXCEPT !.slots = NewSlots(e, n, "decrypt")]
           new == [Dtls13NewEpoch(e, n, "decrypt")
                     EXCEPT !.peerEpoch = @ + 1, !.responseReq = @ /\ request]
           set == SetDecryptKeys(new, new.peerEpoch)
           r == NextPeerEpoch(e, request)
<1>1. n \in Nat /\ SlotsInv(NewSlots(e, n, "decrypt"), e.epoch, n)
  BY DecryptEpochKeeps DEF EndInv
<1>2. new = [begun EXCEPT !.peerEpoch = @ + 1, !.responseReq = @ /\ request]
  BY NewEpochIs
<1>3. /\ DOMAIN new = Fields /\ new.peerEpoch = n /\ new.epoch = e.epoch
      /\ new.slots = NewSlots(e, n, "decrypt") /\ new.waiting = e.waiting
      /\ new.keys = e.keys /\ new.invalidate = e.invalidate
      /\ new.decrypting = e.decrypting
  BY <1>2 DEF EndInv, Fields
<1>4. r = IF request /\ ~e.waiting THEN SendTls13KeyUpdate(set, TRUE)
          ELSE [ep |-> set, out |-> {}]
  BY DEF NextPeerEpoch
<1> HIDE DEF new, begun, r
<1>5. Last(Dtls13GetEpoch(new, n)) \in Slots
  <2>1. Has(new.slots, n, "decrypt") /\ new.slots \in [Slots -> SlotRecords]
    BY <1>1, <1>3 DEF SlotsInv
  <2>2. Dtls13GetEpoch(new, n) \in SUBSET Slots /\ Dtls13GetEpoch(new, n) # {}
    BY <2>1 DEF Dtls13GetEpoch, Valid, Has
  <2> QED BY <2>2, LastIsIn
<1>6. set = [[new EXCEPT !.decrypting = Last(Dtls13GetEpoch(new, n))] EXCEPT !.keys = n]
  BY <1>3 DEF SetDecryptKeys
<1> HIDE DEF set
<1>7. /\ set.peerEpoch = n /\ set.epoch = e.epoch /\ set.waiting = e.waiting
      /\ EndInv(set)
  <2>1. /\ DOMAIN set = Fields /\ set.peerEpoch = n /\ set.epoch = e.epoch
        /\ set.waiting = e.waiting /\ set.slots = new.slots /\ set.keys = n
        /\ set.invalidate = e.invalidate
        /\ set.decrypting = Last(Dtls13GetEpoch(new, n))
    BY <1>3, <1>6 DEF Fields
  <2> QED BY <1>1, <1>3, <1>5, <2>1 DEF EndInv
<1>8. CASE request /\ ~e.waiting
  <2>1. r = SendTls13KeyUpdate(set, TRUE)
    BY <1>4, <1>8
  <2>2. /\ EndInv(r.ep) /\ r.ep.epoch = set.epoch /\ r.ep.peerEpoch = set.peerEpoch
        /\ r.ep.waiting
        /\ \A o \in r.out : o.type = "key_update" /\ o.epoch = set.epoch
    BY <1>7, <2>1, AnswerEffect
  <2> QED BY <1>7, <2>2 DEF r
<1>9. CASE ~(request /\ ~e.waiting)
  <2>1. r.ep = set /\ r.out = {}
    BY <1>4, <1>9
  <2> QED BY <1>7, <2>1 DEF r
<1> QED BY <1>8, <1>9

LEMMA KeyUpdateEffect ==
    ASSUME NEW e, EndInv(e), NEW d, d.type = "key_update"
    PROVE  Effect(e, d, DoTls13KeyUpdate(e, d))
<1> DEFINE next == NextPeerEpoch(e, d.request)
           q == IF d.epoch = e.peerEpoch THEN next ELSE [ep |-> e, out |-> {}]
           r == DoTls13KeyUpdate(e, d)
<1>1. CASE d.epoch = e.peerEpoch
  <2>1. next = [ep |-> next.ep, out |-> next.out]
    BY DEF NextPeerEpoch, SendTls13KeyUpdate
  <2>2. /\ EndInv(next.ep) /\ next.ep.epoch = e.epoch /\ next.ep.peerEpoch = e.peerEpoch + 1
        /\ e.waiting => next.ep.waiting
        /\ \A o \in next.out : o.type = "key_update" /\ o.epoch = e.epoch /\ next.ep.waiting
    BY NextPeerEpochEffect
  <2>3. r = [next EXCEPT !.out = @ \cup {Ack(next.ep, d.epoch)}]
    BY <1>1 DEF DoTls13KeyUpdate
  <2> HIDE DEF next, r
  <2>4. r.ep = next.ep /\ r.out = next.out \cup {Ack(next.ep, d.epoch)}
    BY <2>1, <2>3
  <2>5. Sends(d, r)
    BY <2>2, <2>4 DEF Sends, Ack
  <2> QED BY <1>1, <2>2, <2>4, <2>5 DEF Effect, Moves, r
<1>2. CASE d.epoch # e.peerEpoch
  <2>1. r.ep = e /\ r.out = {Ack(e, d.epoch)}
    BY <1>2 DEF DoTls13KeyUpdate
  <2>2. Sends(d, r)
    BY <2>1 DEF Sends, Ack
  <2> QED BY <1>2, <2>1, <2>2 DEF Effect, Moves, Same
<1> QED BY <1>1, <1>2

LEMMA DataEffect ==
    ASSUME NEW e, EndInv(e), NEW number \in Nat,
           number = e.invalidate => number <= e.peerEpoch
    PROVE  EndInv(DoApplicationData(e, number)) /\ Same(e, DoApplicationData(e, number))
<1> DEFINE f == DoApplicationData(e, number)
           old == Dtls13SetOlderEpochSide(e.slots, number, "encrypt")
<1>1. CASE e.invalidate # 0 /\ e.invalidate = number
  <2>1. SlotsInv(old, e.epoch, e.peerEpoch)
    BY <1>1, SetOlderKeeps DEF EndInv
  <2>2. f = [[e EXCEPT !.slots = old] EXCEPT !.invalidate = 0]
    BY <1>1 DEF DoApplicationData, EndInv, Fields
  <2> HIDE DEF old, f
  <2> QED BY <2>1, <2>2 DEF EndInv, Same, Fields, f
<1>2. CASE ~(e.invalidate # 0 /\ e.invalidate = number)
  BY <1>2 DEF DoApplicationData, Same
<1> QED BY <1>1, <1>2

LEMMA ReceiveEffect ==
    ASSUME NEW e, EndInv(e), NEW d, d.epoch \in Nat, d.epoch >= 3,
           d.type \in {"data", "key_update", "ack"}
    PROVE  Effect(e, d, ReceiveRecord(e, d))
<1> DEFINE number == Dtls13ReconstructEpochNumber(e, d.epoch % 4)
           same == e.slots[e.decrypting].number = number
           read == IF same THEN e ELSE SetDecryptKeys(e, number)
           r == ReceiveRecord(e, d)
<1>1. ASSUME NEW f, EndInv(f), Same(e, f), r = [ep |-> f, out |-> {}]
      PROVE  Effect(e, d, r)
  BY <1>1 DEF Effect, Sends, Moves
<1>2. CASE number = -1 \/ (~same /\ ~CanSetEpochKeys(e, number, "decrypt"))
  <2>1. r = [ep |-> e, out |-> {}]
    BY <1>2 DEF ReceiveRecord
  <2> QED BY <1>1, <2>1 DEF Same
<1>3. CASE number # -1 /\ (same \/ CanSetEpochKeys(e, number, "decrypt"))
  <2>1. d.epoch % 4 \in 0 .. 3
    OBVIOUS
  <2>2. number \in Nat /\ number % 4 = d.epoch % 4
    BY <1>3, <2>1, ReconstructedBits DEF EndInv, SlotsInv
  <2> HIDE DEF number
  <2>3. EndInv(read) /\ Same(e, read)
    BY <1>3, <2>2, KnownEpoch, SetKeysSame DEF Same
  <2>4. r = IF read.keys # d.epoch THEN [ep |-> read, out |-> {}] ELSE Process(read, d, number)
    BY <1>3 DEF ReceiveRecord, number
  <2> HIDE DEF same, read, r
  <2>5. CASE read.keys # d.epoch
    BY <1>1, <2>3, <2>4, <2>5 DEF r
  <2>6. CASE read.keys = d.epoch
    <3>1. r = Process(read, d, number)
      BY <2>4, <2>6
    <3>2. ASSUME Effect(read, d, r)
          PROVE  Effect(e, d, r)
      BY <2>3, <3>2 DEF Effect, Moves, Same, r
    <3>3. CASE d.type = "key_update"
      BY <2>3, <3>1, <3>2, <3>3, KeyUpdateEffect DEF Process, r
    <3>4. CASE d.type = "ack"
      BY <2>3, <3>1, <3>2, <3>4, AckEffect DEF Process, r
    <3>5. CASE d.type = "data"
      <4>1. d.epoch \in {read.peerEpoch - 1, read.peerEpoch}
        BY <2>3, <2>6 DEF EndInv
      <4>2. number = read.invalidate => number <= read.peerEpoch
        BY <2>2, <2>3, <4>1 DEF EndInv
      <4>3. EndInv(DoApplicationData(read, number)) /\ Same(read, DoApplicationData(read, number))
        BY <2>2, <2>3, <4>2, DataEffect
      <4>4. r = [ep |-> DoApplicationData(read, number), out |-> {}]
        BY <3>1, <3>5 DEF Process
      <4> QED BY <1>1, <2>3, <4>3, <4>4 DEF Same, r
    <3> QED BY <3>3, <3>4, <3>5
  <2> QED BY <2>5, <2>6
<1> QED BY <1>2, <1>3

-----------------------------------------------------------------------------
(* The two endpoints.  A KeyUpdate that was sent is of an epoch the sender has left, or *)
(* of the one it waits in; only an epoch of the peer that is over was acknowledged (or  *)
(* one of the handshake).                                                              *)
Justified(e, records) ==
    \A d \in records :
        /\ d.type \in {"data", "key_update", "ack"} /\ d.epoch \in Nat /\ d.epoch >= 3
        /\ d.type = "key_update" => d.epoch < e.epoch \/ (d.epoch = e.epoch /\ e.waiting)
        /\ d.type = "ack" => d.acked \in Nat /\ (d.acked <= 2 \/ d.acked < e.peerEpoch)

Near(e, p) ==
    e.epoch <= p.peerEpoch /\ p.peerEpoch <= e.epoch + (IF e.waiting THEN 1 ELSE 0)

IInv ==
    /\ DOMAIN ep = Sides /\ DOMAIN sent = Sides
    /\ \A side \in Sides : /\ EndInv(ep[side])
                           /\ Justified(ep[side], sent[side])
                           /\ Near(ep[side], ep[Peer(side)])

LEMMA InitIInv == Init => IInv
<1> SUFFICES ASSUME Init PROVE IInv
  OBVIOUS
<1>1. PICK finished \in BOOLEAN :
        /\ ep = [side \in Sides |-> Connected(side = "server" \/ finished)]
        /\ sent = [side \in Sides |-> IF side = "client" \/ finished THEN {}
                                     ELSE {Ack(Connected(TRUE), HandshakeEpoch)}]
  BY DEF Init
<1>2. ASSUME NEW f
      PROVE  /\ EndInv(Connected(f)) /\ Connected(f).epoch = 3 /\ Connected(f).peerEpoch = 3
  <2> DEFINE slots == [i \in Slots |->
                  CASE i = 0 -> [number |-> 0, side |-> "both"]
                    [] i = 1 -> [number |-> HandshakeEpoch, side |-> "both"]
                    [] i = 2 -> [number |-> Traffic0, side |-> "both"]
                    [] i = 3 -> [number |-> 0, side |-> "free"]]
  <2>1. /\ slots[0] = [number |-> 0, side |-> "both"]
        /\ slots[1] = [number |-> 2, side |-> "both"]
        /\ slots[2] = [number |-> 3, side |-> "both"]
        /\ slots[3] = [number |-> 0, side |-> "free"]
        /\ slots = [i \in Slots |-> slots[i]]
    BY DEF Slots, HandshakeEpoch, Traffic0
  <2>2. Connected(f).slots = slots
    BY DEF Connected
  <2> HIDE DEF slots
  <2>3. \A i \in Slots : slots[i] \in SlotRecords
    BY <2>1 DEF Slots, SlotRecords
  <2>4. slots \in [Slots -> SlotRecords]
    BY <2>1, <2>3
  <2>5. Distinct(slots)
    BY <2>1 DEF Slots, Distinct
  <2>6. Decryptable(slots, 3)
    BY <2>1 DEF Slots, Decryptable
  <2>7. Has(slots, 3, "encrypt") /\ Has(slots, 3, "decrypt")
    BY <2>1 DEF Slots, Has
  <2>8. SlotsInv(slots, 3, 3)
    BY <2>4, <2>5, <2>6, <2>7 DEF SlotsInv
  <2>9. /\ Connected(f).epoch = 3 /\ Connected(f).peerEpoch = 3
        /\ Connected(f).decrypting = 2 /\ Connected(f).keys = 3
        /\ Connected(f).invalidate = 0
    BY DEF Connected, Traffic0
  <2>10. DOMAIN Connected(f) = Fields
    BY DEF Connected, Fields
  <2> QED BY <2>2, <2>8, <2>9, <2>10 DEF EndInv, Slots
<1>3. \A side \in Sides : EndInv(ep[side]) /\ ep[side].epoch = 3 /\ ep[side].peerEpoch = 3
  BY <1>1, <1>2
<1>4. ASSUME NEW side \in Sides, NEW d \in sent[side]
      PROVE  d.type = "ack" /\ d.epoch = 3 /\ d.acked = 2
  <2>1. d = Ack(Connected(TRUE), HandshakeEpoch)
    BY <1>1
  <2> QED BY <1>2, <2>1 DEF Ack, HandshakeEpoch
<1>5. \A side \in Sides : Justified(ep[side], sent[side])
  BY <1>4 DEF Justified
<1>6. \A side \in Sides : Near(ep[side], ep[Peer(side)])
  BY <1>3 DEF Near, Sides, Peer
<1> QED BY <1>1, <1>3, <1>5, <1>6 DEF IInv

(* One side moves: what has to be shown of it and of its peer.             *)
LEMMA SideMoves ==
    ASSUME IInv, NEW side \in Sides, NEW r, Becomes(side, r),
           EndInv(r.ep), Justified(r.ep, sent[side]), Justified(r.ep, r.out),
           Near(r.ep, ep[Peer(side)]), Near(ep[Peer(side)], r.ep)
    PROVE  IInv'
<1>1. /\ DOMAIN ep' = Sides /\ DOMAIN sent' = Sides
      /\ ep'[side] = r.ep /\ sent'[side] = sent[side] \cup r.out
      /\ \A s \in Sides \ {side} : ep'[s] = ep[s] /\ sent'[s] = sent[s]
  BY DEF Becomes, IInv
<1>2. Peer(side) \in Sides \ {side} /\ Peer(Peer(side)) = side
  BY DEF Peer, Sides
<1>3. \A s \in Sides \ {side} : s = Peer(side)
  BY DEF Peer, Sides
<1>4. Justified(ep'[side], sent'[side])
  BY <1>1 DEF Justified
<1>5. ASSUME NEW s \in Sides
      PROVE  /\ EndInv(ep'[s]) /\ Justified(ep'[s], sent'[s]) /\ Near(ep'[s], ep'[Peer(s)])
  <2>1. CASE s = side
    BY <1>1, <1>2, <1>4, <2>1
  <2>2. CASE s # side
    BY <1>1, <1>2, <1>3, <2>2 DEF IInv
  <2> QED BY <2>1, <2>2
<1> QED BY <1>1, <1>5 DEF IInv

LEMMA ReceiveIInv ==
    ASSUME IInv, NEW side \in Sides, Receive(side)
    PROVE  IInv'
<1>1. PICK d \in sent[Peer(side)] : Becomes(side, ReceiveRecord(ep[side], d))
  BY DEF Receive
<1> DEFINE e == ep[side]
           p == ep[Peer(side)]
           r == ReceiveRecord(e, d)
           f == r.ep
<1>2. Peer(side) \in Sides /\ Peer(Peer(side)) = side
  BY DEF Peer, Sides
<1>3. /\ EndInv(e) /\ EndInv(p) /\ Near(e, p) /\ Near(p, e)
      /\ Justified(e, sent[side]) /\ Justified(p, {d})
  BY <1>2 DEF IInv, Justified
<1>4. d.epoch \in Nat /\ d.epoch >= 3 /\ d.type \in {"data", "key_update", "ack"}
  BY <1>3 DEF Justified
<1>5. Effect(e, d, r)
  BY <1>3, <1>4, ReceiveEffect
<1>6. Becomes(side, r)
  BY <1>1
<1> HIDE DEF e, p, r, f
<1>7. EndInv(f) /\ f = r.ep
  BY <1>5 DEF Effect, f
<1>8. /\ e.epoch \in Nat /\ e.peerEpoch \in Nat /\ p.epoch \in Nat /\ p.peerEpoch \in Nat
      /\ f.epoch \in Nat /\ f.peerEpoch \in Nat /\ f.epoch >= 3
  BY <1>3, <1>7 DEF EndInv
<1>9. d.type = "key_update" => d.epoch <= p.epoch /\ (d.epoch = p.epoch => p.waiting)
  BY <1>3, <1>4, <1>8 DEF Justified
<1>10. d.type = "key_update" => d.epoch <= e.peerEpoch
  BY <1>3, <1>4, <1>8, <1>9 DEF Near
<1>11. CASE /\ Same(e, f)
            /\ r.out # {} => d.epoch # e.peerEpoch
  <2>1. Near(f, p) /\ Near(p, f)
    BY <1>3, <1>11 DEF Near, Same
  <2>2. Justified(f, sent[side])
    BY <1>3, <1>11 DEF Justified, Same
  <2>3. Justified(f, r.out)
    BY <1>4, <1>5, <1>7, <1>8, <1>10, <1>11 DEF Justified, Effect, Sends, Same
  <2> QED BY <1>6, <1>7, <2>1, <2>2, <2>3, SideMoves DEF p
<1>12. CASE /\ d.type = "key_update" /\ d.epoch = e.peerEpoch
            /\ f.epoch = e.epoch /\ f.peerEpoch = e.peerEpoch + 1
            /\ e.waiting => f.waiting
  <2>1. p.epoch = e.peerEpoch /\ p.waiting
    BY <1>3, <1>8, <1>9, <1>12 DEF Near
  <2>2. Near(p, f)
    BY <1>8, <1>12, <2>1 DEF Near
  <2>3. Near(f, p)
    BY <1>3, <1>8, <1>12 DEF Near
  <2>4. Justified(f, sent[side])
    BY <1>3, <1>8, <1>12 DEF Justified
  <2>5. Justified(f, r.out)
    BY <1>4, <1>5, <1>7, <1>8, <1>12 DEF Justified, Effect, Sends
  <2> QED BY <1>6, <1>7, <2>2, <2>3, <2>4, <2>5, SideMoves DEF p
<1>13. CASE /\ d.type = "ack" /\ e.waiting /\ d.acked = e.epoch
            /\ f.epoch = e.epoch + 1 /\ f.peerEpoch = e.peerEpoch /\ ~f.waiting
  <2>1. e.epoch < p.peerEpoch
    BY <1>3, <1>8, <1>13 DEF Justified, EndInv
  <2>2. p.peerEpoch = f.epoch
    BY <1>3, <1>8, <1>13, <2>1 DEF Near
  <2>3. Near(f, p)
    BY <1>8, <1>13, <2>2 DEF Near
  <2>4. Near(p, f)
    BY <1>3, <1>13 DEF Near
  <2>5. Justified(f, sent[side])
    BY <1>3, <1>8, <1>13 DEF Justified
  <2>6. Justified(f, r.out)
    BY <1>4, <1>5, <1>7, <1>8, <1>13 DEF Justified, Effect, Sends
  <2> QED BY <1>6, <1>7, <2>3, <2>4, <2>5, <2>6, SideMoves DEF p
<1> QED BY <1>5, <1>7, <1>11, <1>12, <1>13 DEF Effect, Moves

LEMMA WriteIInv ==
    ASSUME IInv, NEW side \in Sides, Write(side)
    PROVE  IInv'
<1> DEFINE e == ep[side]
           r == [ep |-> e, out |-> {[type |-> "data", epoch |-> e.epoch]}]
<1>1. Becomes(side, r)
  BY DEF Write
<1>2. Peer(side) \in Sides /\ Peer(Peer(side)) = side
  BY DEF Peer, Sides
<1>3. EndInv(r.ep) /\ Justified(r.ep, sent[side])
      /\ Near(r.ep, ep[Peer(side)]) /\ Near(ep[Peer(side)], r.ep)
  BY <1>2 DEF IInv
<1>4. Justified(r.ep, r.out)
  BY <1>3 DEF Justified, EndInv
<1> QED BY <1>1, <1>3, <1>4, SideMoves

(* A side starts an update, perhaps after it has chosen an epoch to wait for. *)
LEMMA InitiateIInv ==
    ASSUME IInv, NEW side \in Sides, NEW e, EndInv(e), Same(ep[side], e), ~e.waiting,
           Becomes(side, SendTls13KeyUpdate(e, FALSE))
    PROVE  IInv'
<1> DEFINE r == SendTls13KeyUpdate(e, FALSE)
           p == ep[Peer(side)]
<1>1. Peer(side) \in Sides /\ Peer(Peer(side)) = side
  BY DEF Peer, Sides
<1>2. /\ EndInv(r.ep) /\ r.ep.epoch = e.epoch /\ r.ep.peerEpoch = e.peerEpoch
      /\ r.ep.waiting
      /\ \A o \in r.out : o.type = "key_update" /\ o.epoch = e.epoch
  BY AnswerEffect
<1>3. Becomes(side, r)
  OBVIOUS
<1> HIDE DEF r
<1>4. /\ Near(ep[side], p) /\ Near(p, ep[side]) /\ Justified(ep[side], sent[side])
  BY <1>1 DEF IInv
<1>5. e.epoch \in Nat /\ e.epoch >= 3 /\ p.peerEpoch \in Nat
  BY <1>1 DEF IInv, EndInv
<1>6. Near(r.ep, p)
  BY <1>2, <1>4, <1>5 DEF Near, Same
<1>7. Near(p, r.ep)
  BY <1>2, <1>4 DEF Near, Same
<1>8. Justified(r.ep, sent[side])
  BY <1>2, <1>4 DEF Justified, Same
<1>9. Justified(r.ep, r.out)
  BY <1>2, <1>5 DEF Justified
<1> QED BY <1>2, <1>3, <1>6, <1>7, <1>8, <1>9, SideMoves

LEMMA UpdateKeysIInv ==
    ASSUME IInv, NEW side \in Sides, Tls13UpdateKeys(side)
    PROVE  IInv'
BY InitiateIInv DEF Tls13UpdateKeys, Same, IInv

LEMMA FailLimitIInv ==
    ASSUME IInv, NEW side \in Sides, Dtls13CheckAEADFailLimit(side)
    PROVE  IInv'
<1> DEFINE e == [ep[side] EXCEPT !.invalidate = ep[side].peerEpoch + 1]
           r == [ep |-> e, out |-> {}]
<1>1. EndInv(ep[side])
  BY DEF IInv
<1>2. EndInv(e) /\ Same(ep[side], e)
  BY <1>1 DEF EndInv, Fields, Same
<1>3. e.waiting => Becomes(side, r)
  BY DEF Dtls13CheckAEADFailLimit
<1>4. ~e.waiting => Becomes(side, SendTls13KeyUpdate(e, FALSE))
  BY DEF Dtls13CheckAEADFailLimit
<1> HIDE DEF e
<1>5. CASE e.waiting
  <2>1. Peer(side) \in Sides /\ Peer(Peer(side)) = side
    BY DEF Peer, Sides
  <2>2. /\ Near(ep[side], ep[Peer(side)]) /\ Near(ep[Peer(side)], ep[side])
        /\ Justified(ep[side], sent[side])
    BY <2>1 DEF IInv
  <2>3. Near(e, ep[Peer(side)]) /\ Near(ep[Peer(side)], e)
    BY <1>2, <2>2 DEF Near, Same
  <2>4. Justified(e, sent[side]) /\ Justified(e, {})
    BY <1>2, <2>2 DEF Justified, Same
  <2> QED BY <1>2, <1>3, <1>5, <2>3, <2>4, SideMoves
<1>6. CASE ~e.waiting
  BY <1>2, <1>4, <1>6, InitiateIInv
<1> QED BY <1>5, <1>6

-----------------------------------------------------------------------------
(* How many updates there can be.  Begun counts the updates an endpoint has sent, and *)
(* Due is one while its last KeyUpdate asks for an answer and the peer has not got it: *)
(* an answer pays with the request it answers, and asks for nothing itself.            *)
Begun(e) == e.epoch + (IF e.waiting THEN 1 ELSE 0)

Asks(e, records) == \E d \in records : d.type = "key_update" /\ d.epoch = e.epoch /\ d.request

Due(e, p, records) == IF p.peerEpoch = e.epoch /\ Asks(e, records) THEN 1 ELSE 0

Started == initiated["client"] + initiated["server"]

Credit ==
    /\ initiated \in [Sides -> Nat]
    /\ \A side \in Sides :
          Begun(ep[side]) + Due(ep[Peer(side)], ep[side], sent[Peer(side)]) <= 3 + Started

(* Of what an endpoint sends on receiving a record, no KeyUpdate asks for an answer, and *)
(* it sends one only when the record was a request.                                      *)
Answers(e, d, r) ==
    /\ \A o \in r.out : o.type = "key_update" => ~o.request
    /\ r.ep.peerEpoch # e.peerEpoch /\ ~e.waiting /\ r.ep.waiting => d.request

LEMMA KeyUpdateAnswers ==
    ASSUME NEW e, EndInv(e), NEW d, d.type = "key_update"
    PROVE  Answers(e, d, DoTls13KeyUpdate(e, d))
<1> DEFINE new == [Dtls13NewEpoch(e, e.peerEpoch + 1, "decrypt")
                     EXCEPT !.peerEpoch = @ + 1, !.responseReq = @ /\ d.request]
           set == SetDecryptKeys(new, new.peerEpoch)
           next == NextPeerEpoch(e, d.request)
           r == DoTls13KeyUpdate(e, d)
<1>1. set.waiting = e.waiting
  BY NewEpochIs DEF SetDecryptKeys, EndInv, Fields
<1>2. next = IF d.request /\ ~e.waiting THEN SendTls13KeyUpdate(set, TRUE)
             ELSE [ep |-> set, out |-> {}]
  BY DEF NextPeerEpoch
<1> HIDE DEF set
<1> HIDE DEF next, r
<1>3. ASSUME d.request, ~e.waiting
      PROVE  next = [ep |-> next.ep, out |-> next.out] /\ \A o \in next.out : ~o.request
  <2> DEFINE request == ~set.responseReq /\ ~TRUE
             o == [type |-> "key_update", epoch |-> set.epoch, request |-> request]
             f == [set EXCEPT !.responseReq = request, !.waiting = TRUE]
  <2>1. next = [ep |-> f, out |-> {o}]
    BY <1>2, <1>3 DEF SendTls13KeyUpdate
  <2>2. o.request = request /\ ~request
    OBVIOUS
  <2> HIDE DEF request, o, f
  <2> QED BY <1>3, <2>1, <2>2
<1>4. /\ next = [ep |-> next.ep, out |-> next.out]
      /\ \A o \in next.out : ~o.request
      /\ ~e.waiting /\ next.ep.waiting => d.request
  <2>1. CASE ~(d.request /\ ~e.waiting)
    <3>1. next = [ep |-> set, out |-> {}]
      BY <1>2, <2>1
    <3> QED BY <1>1, <2>1, <3>1
  <2> QED BY <1>3, <2>1
<1>5. CASE d.epoch = e.peerEpoch
  <2>1. r = [next EXCEPT !.out = @ \cup {Ack(next.ep, d.epoch)}]
    BY <1>5 DEF DoTls13KeyUpdate, next, r
  <2>2. r.ep = next.ep /\ r.out = next.out \cup {Ack(next.ep, d.epoch)}
    BY <1>4, <2>1
  <2> QED BY <1>4, <2>2 DEF Answers, Ack, r
<1>6. CASE d.epoch # e.peerEpoch
  <2>1. r.ep = e /\ r.out = {Ack(e, d.epoch)}
    BY <1>6 DEF DoTls13KeyUpdate, r
  <2> QED BY <2>1 DEF Answers, Ack, r
<1> QED BY <1>5, <1>6

LEMMA ReceiveAnswers ==
    ASSUME NEW e, EndInv(e), NEW d, d.epoch \in Nat, d.epoch >= 3,
           d.type \in {"data", "key_update", "ack"}
    PROVE  Answers(e, d, ReceiveRecord(e, d))
<1> DEFINE number == Dtls13ReconstructEpochNumber(e, d.epoch % 4)
           same == e.slots[e.decrypting].number = number
           read == IF same THEN e ELSE SetDecryptKeys(e, number)
           r == ReceiveRecord(e, d)
<1>1. /\ read.waiting = e.waiting /\ read.peerEpoch = e.peerEpoch
  BY SetKeysSame DEF Same
<1>2. \/ r = [ep |-> e, out |-> {}]
      \/ r = [ep |-> read, out |-> {}]
      \/ r = Process(read, d, number) /\ (same \/ CanSetEpochKeys(e, number, "decrypt"))
                                      /\ number # -1
  BY DEF ReceiveRecord
<1>3. CASE r = [ep |-> e, out |-> {}] \/ r = [ep |-> read, out |-> {}]
  <2>1. r.out = {} /\ r.ep.peerEpoch = e.peerEpoch
    BY <1>1, <1>3
  <2> QED BY <2>1 DEF Answers
<1>4. CASE r = Process(read, d, number) /\ (same \/ CanSetEpochKeys(e, number, "decrypt"))
                                        /\ number # -1
  <2>1. number \in Nat
    <3>1. d.epoch % 4 \in 0 .. 3
      OBVIOUS
    <3> QED BY <1>4, <3>1, ReconstructedBits DEF EndInv, SlotsInv
  <2> HIDE DEF number
  <2>2. EndInv(read)
    BY <1>4, <2>1, KnownEpoch
  <2> HIDE DEF read, r
  <2>3. CASE d.type = "key_update"
    <3>1. Answers(read, d, r)
      BY <1>4, <2>2, <2>3, KeyUpdateAnswers DEF Process
    <3> QED BY <1>1, <3>1 DEF Answers, r
  <2>4. CASE d.type = "ack"
    <3>1. r = DoDtls13Ack(read, d)
      BY <1>4, <2>4 DEF Process
    <3>2. Effect(read, d, r) /\ r.out = {}
      BY <2>2, <2>4, <3>1, AckEffect DEF DoDtls13Ack
    <3> QED BY <1>1, <2>4, <3>2 DEF Effect, Moves, Same, Answers, r
  <2>5. CASE d.type = "data"
    <3>1. r = [ep |-> DoApplicationData(read, number), out |-> {}]
      BY <1>4, <2>5 DEF Process
    <3>2. DoApplicationData(read, number).peerEpoch = read.peerEpoch
      BY <2>2 DEF DoApplicationData, EndInv, Fields
    <3> QED BY <1>1, <3>1, <3>2 DEF Answers, r
  <2> QED BY <2>3, <2>4, <2>5
<1> QED BY <1>2, <1>3, <1>4

(* One side moves: what has to be shown of the counts.                     *)
LEMMA CreditMoves ==
    ASSUME IInv, NEW side \in Sides, NEW r, Becomes(side, r),
           initiated' \in [Sides -> Nat],
           Begun(r.ep) + Due(ep[Peer(side)], r.ep, sent[Peer(side)]) <= 3 + Started',
           Begun(ep[Peer(side)]) + Due(r.ep, ep[Peer(side)], sent[side] \cup r.out)
               <= 3 + Started'
    PROVE  Credit'
<1>1. /\ ep'[side] = r.ep /\ sent'[side] = sent[side] \cup r.out
      /\ \A s \in Sides \ {side} : ep'[s] = ep[s] /\ sent'[s] = sent[s]
  BY DEF Becomes, IInv
<1>2. Peer(side) \in Sides \ {side} /\ Peer(Peer(side)) = side
  BY DEF Peer, Sides
<1>3. \A s \in Sides \ {side} : s = Peer(side)
  BY DEF Peer, Sides
<1>4. ASSUME NEW s \in Sides
      PROVE  Begun(ep'[s]) + Due(ep'[Peer(s)], ep'[s], sent'[Peer(s)]) <= 3 + Started'
  <2>1. CASE s = side
    BY <1>1, <1>2, <2>1
  <2>2. CASE s # side
    BY <1>1, <1>2, <1>3, <2>2
  <2> QED BY <2>1, <2>2
<1> QED BY <1>4 DEF Credit

(* The counts are the same when neither epochs nor requests are new.       *)
LEMMA CreditKept ==
    ASSUME IInv, Credit, NEW side \in Sides, NEW r, Becomes(side, r), Same(ep[side], r.ep),
           \A o \in r.out : o.type = "key_update" => ~o.request, UNCHANGED initiated
    PROVE  Credit'
<1>1. Peer(side) \in Sides /\ Peer(Peer(side)) = side
  BY DEF Peer, Sides
<1>2. Begun(r.ep) = Begun(ep[side])
  BY DEF Begun, Same
<1>3. Due(ep[Peer(side)], r.ep, sent[Peer(side)]) = Due(ep[Peer(side)], ep[side], sent[Peer(side)])
  BY DEF Due, Same
<1>4. Asks(r.ep, sent[side] \cup r.out) <=> Asks(ep[side], sent[side])
  BY DEF Asks, Same
<1>5. Due(r.ep, ep[Peer(side)], sent[side] \cup r.out) = Due(ep[side], ep[Peer(side)], sent[side])
  BY <1>4 DEF Due, Same
<1>6. Started' = Started /\ initiated' \in [Sides -> Nat]
  BY DEF Started, Credit
<1>7. /\ Begun(r.ep) + Due(ep[Peer(side)], r.ep, sent[Peer(side)]) <= 3 + Started'
      /\ Begun(ep[Peer(side)]) + Due(r.ep, ep[Peer(side)], sent[side] \cup r.out) <= 3 + Started'
  BY <1>1, <1>2, <1>3, <1>5, <1>6 DEF Credit
<1> QED BY <1>6, <1>7, CreditMoves

LEMMA ReceiveCredit ==
    ASSUME IInv, Credit, NEW side \in Sides, Receive(side)
    PROVE  Credit'
<1>1. PICK d \in sent[Peer(side)] : Becomes(side, ReceiveRecord(ep[side], d))
  BY DEF Receive
<1> DEFINE e == ep[side]
           p == ep[Peer(side)]
           r == ReceiveRecord(e, d)
           f == r.ep
<1>2. Peer(side) \in Sides /\ Peer(Peer(side)) = side
  BY DEF Peer, Sides
<1>3. /\ EndInv(e) /\ EndInv(p) /\ Near(e, p) /\ Near(p, e)
      /\ Justified(e, sent[side]) /\ Justified(p, {d})
  BY <1>2 DEF IInv, Justified
<1>4. d.epoch \in Nat /\ d.epoch >= 3 /\ d.type \in {"data", "key_update", "ack"}
  BY <1>3 DEF Justified
<1>5. Effect(e, d, r) /\ Answers(e, d, r)
  BY <1>3, <1>4, ReceiveEffect, ReceiveAnswers
<1>6. Becomes(side, r) /\ initiated' = initiated
  BY <1>1 DEF Receive
<1> HIDE DEF e, p, r, f
<1>7. EndInv(f) /\ f = r.ep
  BY <1>5 DEF Effect, f
<1>8. /\ e.epoch \in Nat /\ e.peerEpoch \in Nat /\ p.epoch \in Nat /\ p.peerEpoch \in Nat
      /\ f.epoch \in Nat /\ f.peerEpoch \in Nat
  BY <1>3, <1>7 DEF EndInv
<1>9. /\ Begun(e) + Due(p, e, sent[Peer(side)]) <= 3 + Started
      /\ Begun(p) + Due(e, p, sent[side]) <= 3 + Started
      /\ Started' = Started /\ Started \in Nat /\ initiated' \in [Sides -> Nat]
  BY <1>2, <1>6 DEF Credit, Started, Sides, e, p
<1>10. /\ Begun(e) \in Nat /\ Begun(f) \in Nat /\ Begun(p) \in Nat
       /\ \A x, y, z : Due(x, y, z) \in {0, 1}
  BY <1>8 DEF Begun, Due
<1>11. CASE Same(e, f)
  BY <1>5, <1>6, <1>7, <1>11, CreditKept DEF Answers, e
<1>12. CASE /\ d.type = "key_update" /\ d.epoch = e.peerEpoch
            /\ f.epoch = e.epoch /\ f.peerEpoch = e.peerEpoch + 1
            /\ e.waiting => f.waiting
  <2>1. p.epoch = e.peerEpoch
    BY <1>3, <1>4, <1>8, <1>12 DEF Near, Justified
  <2>2. Due(p, f, sent[Peer(side)]) = 0
    BY <1>8, <1>12, <2>1 DEF Due
  <2>3. Begun(f) <= Begun(e) + Due(p, e, sent[Peer(side)])
    <3>1. CASE e.waiting \/ ~f.waiting
      BY <1>8, <1>10, <1>12, <3>1 DEF Begun
    <3>2. CASE ~e.waiting /\ f.waiting
      <4>1. d.request
        BY <1>5, <1>7, <1>8, <1>12, <3>2 DEF Answers
      <4>2. Asks(p, sent[Peer(side)])
        BY <1>12, <2>1, <4>1 DEF Asks
      <4>3. Due(p, e, sent[Peer(side)]) = 1
        BY <2>1, <4>2 DEF Due
      <4> QED BY <1>8, <1>12, <3>2, <4>3 DEF Begun
    <3> QED BY <3>1, <3>2
  <2>4. Due(f, p, sent[side] \cup r.out) = Due(e, p, sent[side])
    <3>1. Asks(f, sent[side] \cup r.out) <=> Asks(e, sent[side])
      BY <1>5, <1>12 DEF Asks, Answers
    <3> QED BY <1>12, <3>1 DEF Due
  <2>5. /\ Begun(f) + Due(p, f, sent[Peer(side)]) <= 3 + Started'
        /\ Begun(p) + Due(f, p, sent[side] \cup r.out) <= 3 + Started'
    BY <1>9, <1>10, <2>2, <2>3, <2>4
  <2> QED BY <1>6, <1>7, <1>9, <2>5, CreditMoves DEF p
<1>13. CASE /\ d.type = "ack" /\ e.waiting /\ d.acked = e.epoch
            /\ f.epoch = e.epoch + 1 /\ f.peerEpoch = e.peerEpoch /\ ~f.waiting
  <2>1. Begun(f) = Begun(e)
    BY <1>8, <1>13 DEF Begun
  <2>2. Due(p, f, sent[Peer(side)]) = Due(p, e, sent[Peer(side)])
    BY <1>13 DEF Due
  <2>3. ~Asks(f, sent[side] \cup r.out)
    <3>1. \A o \in sent[side] : o.type = "key_update" => o.epoch # f.epoch
      BY <1>3, <1>8, <1>13 DEF Justified
    <3> QED BY <1>5, <3>1 DEF Asks, Answers
  <2>4. Due(f, p, sent[side] \cup r.out) = 0
    BY <2>3 DEF Due
  <2>5. /\ Begun(f) + Due(p, f, sent[Peer(side)]) <= 3 + Started'
        /\ Begun(p) + Due(f, p, sent[side] \cup r.out) <= 3 + Started'
    BY <1>9, <1>10, <2>1, <2>2, <2>4
  <2> QED BY <1>6, <1>7, <1>9, <2>5, CreditMoves DEF p
<1> QED BY <1>5, <1>7, <1>11, <1>12, <1>13 DEF Effect, Moves

LEMMA WriteCredit ==
    ASSUME IInv, Credit, NEW side \in Sides, Write(side)
    PROVE  Credit'
<1> DEFINE r == [ep |-> ep[side], out |-> {[type |-> "data", epoch |-> ep[side].epoch]}]
<1>1. Becomes(side, r) /\ UNCHANGED initiated
  BY DEF Write
<1>2. Same(ep[side], r.ep) /\ \A o \in r.out : o.type # "key_update"
  BY DEF Same
<1> QED BY <1>1, <1>2, CreditKept

LEMMA InitiateCredit ==
    ASSUME IInv, Credit, NEW side \in Sides, NEW e, EndInv(e), Same(ep[side], e), ~e.waiting,
           Becomes(side, SendTls13KeyUpdate(e, FALSE)),
           initiated' = [initiated EXCEPT ![side] = @ + 1]
    PROVE  Credit'
<1> DEFINE r == SendTls13KeyUpdate(e, FALSE)
           p == ep[Peer(side)]
<1>1. Peer(side) \in Sides /\ Peer(Peer(side)) = side
  BY DEF Peer, Sides
<1>2. r.ep.epoch = e.epoch /\ r.ep.peerEpoch = e.peerEpoch /\ r.ep.waiting
  BY AnswerEffect
<1>3. Becomes(side, r)
  OBVIOUS
<1> HIDE DEF r
<1>4. EndInv(ep[side]) /\ EndInv(p)
  BY <1>1 DEF IInv
<1>5. /\ Begun(ep[side]) \in Nat /\ Begun(p) \in Nat /\ Begun(r.ep) = Begun(ep[side]) + 1
      /\ \A x, y, z : Due(x, y, z) \in {0, 1}
  BY <1>2, <1>4 DEF Begun, Due, EndInv, Same
<1>6. Due(p, r.ep, sent[Peer(side)]) = Due(p, ep[side], sent[Peer(side)])
  BY <1>2 DEF Due, Same
<1>7. Started' = Started + 1 /\ Started \in Nat /\ initiated' \in [Sides -> Nat]
  BY DEF Credit, Started, Sides
<1>8. /\ Begun(ep[side]) + Due(p, ep[side], sent[Peer(side)]) <= 3 + Started
      /\ Begun(p) + Due(ep[side], p, sent[side]) <= 3 + Started
  BY <1>1 DEF Credit
<1> HIDE DEF p
<1>9. /\ Begun(r.ep) + Due(p, r.ep, sent[Peer(side)]) <= 3 + Started'
      /\ Begun(p) + Due(r.ep, p, sent[side] \cup r.out) <= 3 + Started'
  BY <1>5, <1>6, <1>7, <1>8
<1> QED BY <1>3, <1>7, <1>9, CreditMoves DEF p

LEMMA FailLimitCredit ==
    ASSUME IInv, Credit, NEW side \in Sides, Dtls13CheckAEADFailLimit(side)
    PROVE  Credit'
<1> DEFINE e == [ep[side] EXCEPT !.invalidate = ep[side].peerEpoch + 1]
           r == [ep |-> e, out |-> {}]
<1>1. EndInv(ep[side])
  BY DEF IInv
<1>2. EndInv(e) /\ Same(ep[side], e)
  BY <1>1 DEF EndInv, Fields, Same
<1>3. e.waiting => Becomes(side, r) /\ UNCHANGED initiated
  BY DEF Dtls13CheckAEADFailLimit
<1>4. ~e.waiting => /\ Becomes(side, SendTls13KeyUpdate(e, FALSE))
                    /\ initiated' = [initiated EXCEPT ![side] = @ + 1]
  BY DEF Dtls13CheckAEADFailLimit
<1> HIDE DEF e
<1>5. CASE e.waiting
  BY <1>2, <1>3, <1>5, CreditKept
<1>6. CASE ~e.waiting
  BY <1>2, <1>4, <1>6, InitiateCredit
<1> QED BY <1>5, <1>6

LEMMA InitCredit == Init => Credit
<1> SUFFICES ASSUME Init PROVE Credit
  OBVIOUS
<1>1. PICK finished \in BOOLEAN :
        /\ ep = [side \in Sides |-> Connected(side = "server" \/ finished)]
        /\ sent = [side \in Sides |-> IF side = "client" \/ finished THEN {}
                                     ELSE {Ack(Connected(TRUE), HandshakeEpoch)}]
        /\ initiated = [side \in Sides |-> 0]
  BY DEF Init
<1>2. Started = 0 /\ initiated \in [Sides -> Nat]
  BY <1>1 DEF Started, Sides
<1>3. ASSUME NEW side \in Sides PROVE Begun(ep[side]) = 3 /\ ~Asks(ep[side], sent[side])
  <2>1. ep[side].epoch = 3 /\ ~ep[side].waiting
    BY <1>1 DEF Connected, Traffic0
  <2>2. ASSUME NEW d \in sent[side] PROVE d.type = "ack"
    <3>1. d = Ack(Connected(TRUE), HandshakeEpoch)
      BY <1>1
    <3> QED BY <3>1 DEF Ack
  <2> QED BY <2>1, <2>2 DEF Begun, Asks
<1>4. \A side \in Sides : Peer(side) \in Sides
  BY DEF Peer, Sides
<1> QED BY <1>2, <1>3, <1>4 DEF Credit, Due

(* The inductive invariant, for any number of updates on either side.      *)
THEOREM KeyUpdateInvariant == Spec => []IInv
<1>1. IInv /\ [Next]_vars => IInv'
  <2> SUFFICES ASSUME IInv, [Next]_vars PROVE IInv'
    OBVIOUS
  <2>1. CASE UNCHANGED vars
    BY <2>1 DEF IInv, vars
  <2>2. CASE Next
    <3>1. PICK side \in Sides : \/ Receive(side) \/ Write(side) \/ Tls13UpdateKeys(side)
                               \/ Dtls13CheckAEADFailLimit(side)
      BY <2>2 DEF Next
    <3> QED BY <3>1, ReceiveIInv, WriteIInv, UpdateKeysIInv, FailLimitIInv
  <2> QED BY <2>1, <2>2
<1> QED BY InitIInv, <1>1, PTL DEF Spec

(* Nobody sends in an epoch its peer has no keys for yet, and the peer's keys are at most *)
(* the one update in flight ahead: dtls13KeyUpdateAckReceived and DoTls13KeyUpdate change *)
(* the two counters in step, whatever is lost, repeated or reordered.                     *)
THEOREM KeyUpdateInStep == Spec => []InStep
<1>1. IInv => InStep
  BY DEF IInv, Near, InStep
<1> QED BY <1>1, KeyUpdateInvariant, PTL

(* Dtls13NewEpochSlot and Dtls13SetOlderEpochSide leave an endpoint the keys it sends and *)
(* reads with now, after any number of updates in any order.                              *)
THEOREM KeyUpdateCurrentKeysKept == Spec => []CurrentKeysKept
<1>1. IInv => CurrentKeysKept
  BY CanSetIsHas DEF IInv, EndInv, SlotsInv, CurrentKeysKept
<1> QED BY <1>1, KeyUpdateInvariant, PTL

(* SendTls13KeyUpdate and DoTls13KeyUpdate: the updates a side has sent, the one it owes  *)
(* and the requests still to be answered never exceed what the two sides started.        *)
THEOREM KeyUpdateCredit == Spec => []Credit
<1>1. IInv /\ Credit /\ [Next]_vars => Credit'
  <2> SUFFICES ASSUME IInv, Credit, [Next]_vars PROVE Credit'
    OBVIOUS
  <2>1. CASE UNCHANGED vars
    BY <2>1 DEF Credit, Started, vars
  <2>2. CASE Next
    <3>1. PICK side \in Sides : \/ Receive(side) \/ Write(side) \/ Tls13UpdateKeys(side)
                               \/ Dtls13CheckAEADFailLimit(side)
      BY <2>2 DEF Next
    <3>2. CASE Tls13UpdateKeys(side)
      BY <3>2, InitiateCredit DEF Tls13UpdateKeys, Same, IInv
    <3> QED BY <3>1, <3>2, ReceiveCredit, WriteCredit, FailLimitCredit
  <2> QED BY <2>1, <2>2
<1> QED BY InitCredit, <1>1, KeyUpdateInvariant, PTL DEF Spec

(* SendTls13KeyUpdate and DoTls13KeyUpdate do not feed each other: for every update that *)
(* a side starts, whatever crosses or is repeated on the way, at most two are sent.      *)
THEOREM KeyUpdateNoEcho == Spec => []NoEcho
<1>1. IInv /\ Credit => NoEcho
  <2> SUFFICES ASSUME IInv, Credit PROVE NoEcho
    OBVIOUS
  <2>1. "client" \in Sides /\ "server" \in Sides
    BY DEF Sides
  <2>2. ASSUME NEW side \in Sides PROVE ep[side].epoch \in Nat /\ ep[side].epoch <= 3 + Started
    <3>1. ep[side].epoch \in Nat
      BY DEF IInv, EndInv
    <3>2. Begun(ep[side]) >= ep[side].epoch /\ Begun(ep[side]) \in Nat
      BY <3>1 DEF Begun
    <3>3. Due(ep[Peer(side)], ep[side], sent[Peer(side)]) \in {0, 1} /\ Started \in Nat
      BY DEF Due, Started, Credit, Sides
    <3> QED BY <3>1, <3>2, <3>3 DEF Credit
  <2>3. initiated["client"] \in Nat /\ initiated["server"] \in Nat
    BY <2>1 DEF Credit
  <2> QED BY <2>1, <2>2, <2>3 DEF NoEcho, Started, Traffic0
<1> QED BY <1>1, KeyUpdateInvariant, KeyUpdateCredit, PTL

-----------------------------------------------------------------------------
(* Types.  An endpoint's fields without their bounds, and a slot never of an epoch that *)
(* is current for neither side yet; the bounds follow from the credit of the two sides. *)
WideEndpoints ==
    [epoch : Nat, peerEpoch : Nat, slots : [Slots -> SlotRecords], decrypting : Slots,
     keys : Nat, waiting : BOOLEAN, responseReq : BOOLEAN, invalidate : Nat,
     finished : BOOLEAN]

WideRecords ==
    [type : {"data"}, epoch : Nat]
      \cup [type : {"key_update"}, epoch : Nat, request : BOOLEAN]
      \cup [type : {"ack"}, epoch : Nat, acked : Nat]

SlotsKnown(slots, epoch, peerEpoch) ==
    \A i \in Slots : slots[i].number <= epoch \/ slots[i].number <= peerEpoch

Known(e) == e \in WideEndpoints /\ SlotsKnown(e.slots, e.epoch, e.peerEpoch)

Sendable(e, records) == records \subseteq WideRecords /\ \A d \in records : d.epoch <= e.epoch

Typed(r) == Known(r.ep) /\ Sendable(r.ep, r.out)

TypeInv ==
    /\ ep \in [Sides -> WideEndpoints]
    /\ sent \in [Sides -> SUBSET WideRecords]
    /\ \A side \in Sides : Known(ep[side]) /\ Sendable(ep[side], sent[side])
    /\ initiated["client"] \in 0 .. MaxClientUpdates
    /\ initiated["server"] \in 0 .. MaxServerUpdates
    /\ DOMAIN initiated = Sides

(* Fields that are set one at a time.                                      *)
LEMMA NumbersSet ==
    ASSUME NEW e \in WideEndpoints, NEW n \in Nat
    PROVE  /\ [e EXCEPT !.epoch = n] \in WideEndpoints
           /\ [e EXCEPT !.peerEpoch = n] \in WideEndpoints
           /\ [e EXCEPT !.keys = n] \in WideEndpoints
           /\ [e EXCEPT !.invalidate = n] \in WideEndpoints
BY DEF WideEndpoints

LEMMA SlotsSet ==
    ASSUME NEW e \in WideEndpoints, NEW slots \in [Slots -> SlotRecords]
    PROVE  [e EXCEPT !.slots = slots] \in WideEndpoints
BY DEF WideEndpoints

LEMMA DecryptingSet ==
    ASSUME NEW e \in WideEndpoints, NEW i \in Slots
    PROVE  [e EXCEPT !.decrypting = i] \in WideEndpoints
BY DEF WideEndpoints

LEMMA FlagsSet ==
    ASSUME NEW e \in WideEndpoints, NEW b \in BOOLEAN
    PROVE  /\ [e EXCEPT !.waiting = b] \in WideEndpoints
           /\ [e EXCEPT !.responseReq = b] \in WideEndpoints
           /\ [e EXCEPT !.finished = b] \in WideEndpoints
BY DEF WideEndpoints

LEMMA NewSlotsKnown ==
    ASSUME NEW e, e.slots \in [Slots -> SlotRecords], Distinct(e.slots),
           NEW epoch \in Nat, NEW peerEpoch \in Nat, NEW number \in Nat, number > 0,
           NEW side \in {"encrypt", "decrypt"}, SlotsKnown(e.slots, epoch, peerEpoch)
    PROVE  /\ NewSlots(e, number, side) \in [Slots -> SlotRecords]
           /\ \A i \in Slots : \/ NewSlots(e, number, side)[i].number = number
                               \/ NewSlots(e, number, side)[i].number <= epoch
                               \/ NewSlots(e, number, side)[i].number <= peerEpoch
<1> DEFINE new == NewSlots(e, number, side)
<1>1. PICK slot \in Slots, now \in {side, "both"} :
        new \in [Slots -> SlotRecords] /\ Rest(e, new, number, slot, now)
  BY NewEpochSlots
<1> HIDE DEF new
<1>2. ASSUME NEW i \in Slots
      PROVE  new[i].number = number \/ new[i].number <= epoch \/ new[i].number <= peerEpoch
  <2>1. CASE i = slot
    BY <1>1, <2>1 DEF Rest
  <2>2. CASE i # slot
    BY <1>1, <2>2 DEF Rest, SlotsKnown
  <2> QED BY <2>1, <2>2
<1> QED BY <1>1, <1>2 DEF new

(* Installing the keys of an epoch that a slot has.                        *)
LEMMA SetKeysTyped ==
    ASSUME NEW e, Known(e), NEW number \in Nat, CanSetEpochKeys(e, number, "decrypt")
    PROVE  Known(SetDecryptKeys(e, number))
<1> DEFINE S == Dtls13GetEpoch(e, number)
           f == [e EXCEPT !.decrypting = Last(S)]
<1>1. S \in SUBSET Slots /\ S # {}
  BY DEF CanSetEpochKeys, Dtls13GetEpoch, Valid
<1>2. Last(S) \in Slots
  BY <1>1, LastIsIn
<1>3. SetDecryptKeys(e, number) = [f EXCEPT !.keys = number]
  BY DEF SetDecryptKeys
<1> HIDE DEF S
<1>4. f \in WideEndpoints
  BY <1>2, DecryptingSet DEF Known
<1>5. /\ f.slots = e.slots /\ f.epoch = e.epoch /\ f.peerEpoch = e.peerEpoch
  BY DEF Known, WideEndpoints
<1> HIDE DEF f
<1>6. [f EXCEPT !.keys = number] \in WideEndpoints
  BY <1>4, NumbersSet
<1>7. /\ [f EXCEPT !.keys = number].slots = f.slots
      /\ [f EXCEPT !.keys = number].epoch = f.epoch
      /\ [f EXCEPT !.keys = number].peerEpoch = f.peerEpoch
  BY <1>4 DEF WideEndpoints
<1> QED BY <1>3, <1>5, <1>6, <1>7 DEF Known

LEMMA SendTyped ==
    ASSUME NEW e, Known(e), NEW respond \in BOOLEAN
    PROVE  Typed(SendTls13KeyUpdate(e, respond))
<1> DEFINE request == ~e.responseReq /\ ~respond
           f == [e EXCEPT !.responseReq = request]
           g == [f EXCEPT !.waiting = TRUE]
           d == [type |-> "key_update", epoch |-> e.epoch, request |-> request]
           r == SendTls13KeyUpdate(e, respond)
<1>1. r.ep = g /\ r.out = {d}
  BY DEF SendTls13KeyUpdate
<1>2. request \in BOOLEAN
  OBVIOUS
<1> HIDE DEF request
<1>3. f \in WideEndpoints
  BY <1>2, FlagsSet DEF Known
<1>4. f.slots = e.slots /\ f.epoch = e.epoch /\ f.peerEpoch = e.peerEpoch
  BY DEF Known, WideEndpoints
<1> HIDE DEF f
<1>5. g \in WideEndpoints
  BY <1>3, FlagsSet
<1>6. g.slots = f.slots /\ g.epoch = f.epoch /\ g.peerEpoch = f.peerEpoch
  BY <1>3 DEF WideEndpoints
<1>7. d \in WideRecords /\ d.epoch = e.epoch /\ e.epoch \in Nat
  BY <1>2 DEF WideRecords, Known, WideEndpoints
<1> HIDE DEF g, d, r
<1>8. Known(r.ep)
  BY <1>1, <1>4, <1>5, <1>6 DEF Known
<1>9. Sendable(r.ep, r.out)
  BY <1>1, <1>4, <1>6, <1>7 DEF Sendable
<1> QED BY <1>8, <1>9 DEF Typed, r

LEMMA AckReceivedTyped ==
    ASSUME NEW e, Known(e), EndInv(e)
    PROVE  Known(Dtls13KeyUpdateAckReceived(e))
<1> DEFINE n == e.epoch + 1
           slots == NewSlots(e, n, "encrypt")
           f == [e EXCEPT !.slots = slots]
           g == [f EXCEPT !.epoch = n]
<1>1. /\ e.slots \in [Slots -> SlotRecords] /\ Distinct(e.slots)
      /\ e.epoch \in Nat /\ e.peerEpoch \in Nat /\ n \in Nat /\ n > 0
  BY DEF EndInv, SlotsInv
<1>2. Dtls13KeyUpdateAckReceived(e) = g
  BY NewEpochIs DEF Dtls13KeyUpdateAckReceived, EndInv, Fields
<1>3. /\ slots \in [Slots -> SlotRecords]
      /\ \A i \in Slots : \/ slots[i].number = n \/ slots[i].number <= e.epoch
                          \/ slots[i].number <= e.peerEpoch
  BY <1>1, NewSlotsKnown DEF Known
<1> HIDE DEF slots
<1>4. SlotsKnown(slots, n, e.peerEpoch)
  <2> SUFFICES ASSUME NEW i \in Slots
               PROVE  slots[i].number <= n \/ slots[i].number <= e.peerEpoch
    BY DEF SlotsKnown
  <2>1. slots[i].number \in Nat
    BY <1>3 DEF SlotRecords
  <2> QED BY <1>1, <1>3, <2>1
<1>5. f \in WideEndpoints
  BY <1>3, SlotsSet DEF Known
<1>6. f.slots = slots /\ f.peerEpoch = e.peerEpoch
  BY DEF Known, WideEndpoints
<1> HIDE DEF f, n
<1>7. g \in WideEndpoints
  BY <1>1, <1>5, NumbersSet
<1>8. g.slots = f.slots /\ g.epoch = n /\ g.peerEpoch = f.peerEpoch
  BY <1>5 DEF WideEndpoints
<1> HIDE DEF g
<1> QED BY <1>2, <1>4, <1>6, <1>7, <1>8 DEF Known

LEMMA AckTyped ==
    ASSUME NEW e, Known(e), EndInv(e), NEW d, d.type = "ack"
    PROVE  Typed(DoDtls13Ack(e, d))
<1> DEFINE finished == e.finished \/ d.acked = HandshakeEpoch
           done == [e EXCEPT !.finished = finished]
           new == Dtls13KeyUpdateAckReceived(done)
           r == DoDtls13Ack(e, d)
<1>1. finished \in BOOLEAN
  OBVIOUS
<1>2. done = [e EXCEPT !.finished = @ \/ d.acked = HandshakeEpoch]
  BY DEF Known, WideEndpoints
<1>3. r = IF e.waiting /\ d.acked = e.epoch
          THEN [ep |-> [new EXCEPT !.waiting = FALSE], out |-> {}]
          ELSE [ep |-> done, out |-> {}]
  BY <1>2 DEF DoDtls13Ack
<1> HIDE DEF finished
<1>4. done \in WideEndpoints /\ EndInv(done)
  BY <1>1, FlagsSet DEF Known, EndInv, Fields
<1>5. done.slots = e.slots /\ done.epoch = e.epoch /\ done.peerEpoch = e.peerEpoch
  BY DEF Known, WideEndpoints
<1> HIDE DEF done, r
<1>6. Known(done)
  BY <1>4, <1>5 DEF Known
<1>7. Known(new)
  BY <1>4, <1>6, AckReceivedTyped
<1> HIDE DEF new
<1>8. Known([new EXCEPT !.waiting = FALSE])
  <2> DEFINE f == [new EXCEPT !.waiting = FALSE]
  <2>1. f \in WideEndpoints
    BY <1>7, FlagsSet DEF Known
  <2>2. f.slots = new.slots /\ f.epoch = new.epoch /\ f.peerEpoch = new.peerEpoch
    BY <1>7 DEF Known, WideEndpoints
  <2> HIDE DEF f
  <2>3. Known(f)
    BY <1>7, <2>1, <2>2 DEF Known
  <2> QED BY <2>3 DEF f
<1>9. Known(r.ep) /\ r.out = {}
  BY <1>3, <1>6, <1>8
<1> QED BY <1>9 DEF Typed, Sendable, r

LEMMA NextPeerEpochTyped ==
    ASSUME NEW e, Known(e), EndInv(e), NEW request \in BOOLEAN
    PROVE  Typed(NextPeerEpoch(e, request))
<1> DEFINE n == e.peerEpoch + 1
           slots == NewSlots(e, n, "decrypt")
           asked == e.responseReq /\ request
           begun == [e EXCEPT !.slots = slots]
           moved == [begun EXCEPT !.peerEpoch = n]
           new == [moved EXCEPT !.responseReq = asked]
           set == SetDecryptKeys(new, n)
           r == NextPeerEpoch(e, request)
<1>1. /\ e.slots \in [Slots -> SlotRecords] /\ Distinct(e.slots)
      /\ e.epoch \in Nat /\ e.peerEpoch \in Nat /\ n \in Nat /\ n > 0
  BY DEF EndInv, SlotsInv
<1>2. new = [Dtls13NewEpoch(e, n, "decrypt")
               EXCEPT !.peerEpoch = @ + 1, !.responseReq = @ /\ request]
  BY NewEpochIs DEF Known, WideEndpoints
<1>3. new.peerEpoch = n
  BY DEF Known, WideEndpoints
<1>4. r = IF request /\ ~e.waiting THEN SendTls13KeyUpdate(set, TRUE)
          ELSE [ep |-> set, out |-> {}]
  <2> DEFINE next == [Dtls13NewEpoch(e, n, "decrypt")
                        EXCEPT !.peerEpoch = @ + 1, !.responseReq = @ /\ request]
             read == SetDecryptKeys(next, next.peerEpoch)
  <2>1. r = IF request /\ ~e.waiting THEN SendTls13KeyUpdate(read, TRUE)
            ELSE [ep |-> read, out |-> {}]
    BY DEF NextPeerEpoch
  <2>2. new = next
    BY <1>2
  <2> HIDE DEF new, next, r, n
  <2> QED BY <1>3, <2>1, <2>2
<1>5. /\ slots \in [Slots -> SlotRecords]
      /\ \A i \in Slots : \/ slots[i].number = n \/ slots[i].number <= e.epoch
                          \/ slots[i].number <= e.peerEpoch
  BY <1>1, NewSlotsKnown DEF Known
<1>6. SlotsInv(slots, e.epoch, n)
  BY DecryptEpochKeeps DEF EndInv
<1>7. asked \in BOOLEAN
  OBVIOUS
<1> HIDE DEF slots, asked, r
<1>8. SlotsKnown(slots, e.epoch, n)
  <2> SUFFICES ASSUME NEW i \in Slots
               PROVE  slots[i].number <= e.epoch \/ slots[i].number <= n
    BY DEF SlotsKnown
  <2>1. slots[i].number \in Nat
    BY <1>5 DEF SlotRecords
  <2> QED BY <1>1, <1>5, <2>1
<1>9. begun \in WideEndpoints
  BY <1>5, SlotsSet DEF Known
<1>10. begun.slots = slots /\ begun.epoch = e.epoch
  BY DEF Known, WideEndpoints
<1> HIDE DEF begun, n
<1>11. moved \in WideEndpoints
  BY <1>1, <1>9, NumbersSet
<1>12. moved.slots = begun.slots /\ moved.epoch = begun.epoch /\ moved.peerEpoch = n
  BY <1>9 DEF WideEndpoints
<1> HIDE DEF moved
<1>13. new \in WideEndpoints
  BY <1>7, <1>11, FlagsSet
<1>14. new.slots = moved.slots /\ new.epoch = moved.epoch
  BY <1>11 DEF WideEndpoints
<1> HIDE DEF new
<1>15. Known(new)
  BY <1>3, <1>8, <1>10, <1>12, <1>13, <1>14 DEF Known
<1>16. CanSetEpochKeys(new, n, "decrypt")
  BY <1>5, <1>6, <1>10, <1>12, <1>14, CanSetIsHas DEF SlotsInv
<1>17. Known(set)
  BY <1>1, <1>15, <1>16, SetKeysTyped
<1> HIDE DEF set
<1>18. CASE request /\ ~e.waiting
  <2>1. r = SendTls13KeyUpdate(set, TRUE)
    BY <1>4, <1>18
  <2> QED BY <1>17, <2>1, SendTyped DEF r
<1>19. CASE ~(request /\ ~e.waiting)
  <2>1. r.ep = set /\ r.out = {}
    BY <1>4, <1>19
  <2> QED BY <1>17, <2>1 DEF Typed, Sendable, r
<1> QED BY <1>18, <1>19

LEMMA AckRecord ==
    ASSUME NEW e, Known(e), NEW n \in Nat
    PROVE  Ack(e, n) \in WideRecords /\ Ack(e, n).epoch = e.epoch /\ e.epoch \in Nat
BY DEF Ack, Known, WideEndpoints, WideRecords

LEMMA KeyUpdateTyped ==
    ASSUME NEW e, Known(e), EndInv(e), NEW d \in WideRecords, d.type = "key_update"
    PROVE  Typed(DoTls13KeyUpdate(e, d))
<1> DEFINE next == NextPeerEpoch(e, d.request)
           q == IF d.epoch = e.peerEpoch THEN next ELSE [ep |-> e, out |-> {}]
           r == DoTls13KeyUpdate(e, d)
<1>1. d.epoch \in Nat /\ d.request \in BOOLEAN
  BY DEF WideRecords
<1>2. q = [ep |-> q.ep, out |-> q.out]
  BY DEF NextPeerEpoch, SendTls13KeyUpdate
<1>3. Typed(q)
  <2>1. Typed(next)
    BY <1>1, NextPeerEpochTyped
  <2> HIDE DEF next
  <2> QED BY <2>1 DEF Typed, Sendable
<1>4. r = [q EXCEPT !.out = @ \cup {Ack(q.ep, d.epoch)}]
  BY DEF DoTls13KeyUpdate
<1> HIDE DEF q, r
<1>5. r.ep = q.ep /\ r.out = q.out \cup {Ack(q.ep, d.epoch)}
  BY <1>2, <1>4
<1>6. /\ Ack(q.ep, d.epoch) \in WideRecords /\ Ack(q.ep, d.epoch).epoch = q.ep.epoch
      /\ q.ep.epoch \in Nat
  BY <1>1, <1>3, AckRecord DEF Typed
<1> QED BY <1>3, <1>5, <1>6 DEF Typed, Sendable, r

LEMMA DataTyped ==
    ASSUME NEW e, Known(e), NEW number \in Nat
    PROVE  Known(DoApplicationData(e, number))
<1> DEFINE slots == Dtls13SetOlderEpochSide(e.slots, number, "encrypt")
           f == [e EXCEPT !.slots = slots]
           g == [f EXCEPT !.invalidate = 0]
<1>1. e.slots \in [Slots -> SlotRecords] /\ e.epoch \in Nat /\ e.peerEpoch \in Nat
  BY DEF Known, WideEndpoints
<1>2. DoApplicationData(e, number) = e \/ DoApplicationData(e, number) = g
  BY DEF DoApplicationData, Known, WideEndpoints
<1>3. ASSUME NEW i \in Slots
      PROVE  slots[i] \in SlotRecords /\ slots[i].number = e.slots[i].number
  BY <1>1 DEF Dtls13SetOlderEpochSide, SlotRecords
<1>4. slots \in [Slots -> SlotRecords]
  BY <1>3 DEF Dtls13SetOlderEpochSide
<1> HIDE DEF slots
<1>5. SlotsKnown(slots, e.epoch, e.peerEpoch)
  BY <1>3 DEF SlotsKnown, Known
<1>6. f \in WideEndpoints
  BY <1>4, SlotsSet DEF Known
<1>7. f.slots = slots /\ f.epoch = e.epoch /\ f.peerEpoch = e.peerEpoch
  BY DEF Known, WideEndpoints
<1> HIDE DEF f
<1>8. g \in WideEndpoints
  BY <1>6, NumbersSet
<1>9. g.slots = f.slots /\ g.epoch = f.epoch /\ g.peerEpoch = f.peerEpoch
  BY <1>6 DEF WideEndpoints
<1> HIDE DEF g
<1> QED BY <1>2, <1>5, <1>7, <1>8, <1>9 DEF Known

LEMMA ReceiveTyped ==
    ASSUME NEW e, Known(e), EndInv(e), NEW d \in WideRecords, d.epoch >= 3
    PROVE  Typed(ReceiveRecord(e, d))
<1> DEFINE number == Dtls13ReconstructEpochNumber(e, d.epoch % 4)
           same == e.slots[e.decrypting].number = number
           read == IF same THEN e ELSE SetDecryptKeys(e, number)
           r == ReceiveRecord(e, d)
<1>1. d.epoch \in Nat /\ d.type \in {"data", "key_update", "ack"}
  BY DEF WideRecords
<1>2. ASSUME NEW f, Known(f), r = [ep |-> f, out |-> {}]
      PROVE  Typed(r)
  BY <1>2 DEF Typed, Sendable
<1>3. CASE number = -1 \/ (~same /\ ~CanSetEpochKeys(e, number, "decrypt"))
  <2>1. r = [ep |-> e, out |-> {}]
    BY <1>3 DEF ReceiveRecord
  <2> QED BY <1>2, <2>1
<1>4. CASE number # -1 /\ (same \/ CanSetEpochKeys(e, number, "decrypt"))
  <2>1. d.epoch % 4 \in 0 .. 3
    BY <1>1
  <2>2. number \in Nat
    BY <1>4, <2>1, ReconstructedBits DEF EndInv, SlotsInv
  <2> HIDE DEF number
  <2>3. EndInv(read) /\ Known(read)
    BY <1>4, <2>2, KnownEpoch, SetKeysTyped
  <2>4. r = IF read.keys # d.epoch THEN [ep |-> read, out |-> {}] ELSE Process(read, d, number)
    BY <1>4 DEF ReceiveRecord, number
  <2> HIDE DEF same, read, r
  <2>5. CASE read.keys # d.epoch
    BY <1>2, <2>3, <2>4, <2>5 DEF r
  <2>6. CASE read.keys = d.epoch
    <3>1. r = Process(read, d, number)
      BY <2>4, <2>6
    <3>2. CASE d.type = "key_update"
      BY <2>3, <3>1, <3>2, KeyUpdateTyped DEF Process, r
    <3>3. CASE d.type = "ack"
      BY <2>3, <3>1, <3>3, AckTyped DEF Process, r
    <3>4. CASE d.type = "data"
      <4>1. r = [ep |-> DoApplicationData(read, number), out |-> {}]
        BY <3>1, <3>4 DEF Process
      <4> QED BY <1>2, <2>2, <2>3, <4>1, DataTyped DEF r
    <3> QED BY <1>1, <3>2, <3>3, <3>4
  <2> QED BY <2>5, <2>6
<1> QED BY <1>3, <1>4

(* The bounds: an endpoint's own epoch, its peer's, and what refers to one of them. *)
LEMMA Bounded ==
    ASSUME NEW e, Known(e), EndInv(e), NEW last \in Nat,
           e.epoch <= last, e.peerEpoch <= last
    PROVE  e \in [epoch : 3 .. last, peerEpoch : 3 .. last,
                  slots : [Slots -> [number : 0 .. last,
                                     side : {"free", "encrypt", "decrypt", "both"}]],
                  decrypting : Slots, keys : 0 .. last, waiting : BOOLEAN,
                  responseReq : BOOLEAN, invalidate : 0 .. last + 1, finished : BOOLEAN]
<1> DEFINE SlotsUpTo == [number : 0 .. last, side : {"free", "encrypt", "decrypt", "both"}]
<1>1. ASSUME NEW i \in Slots PROVE e.slots[i] \in SlotsUpTo
  <2>1. e.slots[i] \in SlotRecords /\ e.epoch \in Nat /\ e.peerEpoch \in Nat
    BY DEF Known, WideEndpoints
  <2>2. e.slots[i].number <= last
    BY <2>1 DEF Known, SlotsKnown, SlotRecords
  <2> QED BY <2>1, <2>2 DEF SlotRecords
<1>2. e.slots \in [Slots -> SlotRecords]
  BY DEF Known, WideEndpoints
<1>3. e.slots \in [Slots -> SlotsUpTo]
  BY <1>1, <1>2
<1>4. /\ e.epoch \in 3 .. last /\ e.peerEpoch \in 3 .. last
      /\ e.keys \in 0 .. last /\ e.invalidate \in 0 .. last + 1
  BY DEF EndInv
<1> HIDE DEF SlotsUpTo
<1>5. e \in [epoch : 3 .. last, peerEpoch : 3 .. last, slots : [Slots -> SlotsUpTo],
             decrypting : Slots, keys : 0 .. last, waiting : BOOLEAN,
             responseReq : BOOLEAN, invalidate : 0 .. last + 1, finished : BOOLEAN]
  BY <1>3, <1>4 DEF Known, WideEndpoints
<1> QED BY <1>5 DEF SlotsUpTo

LEMMA InitTypeInv == Init => TypeInv
<1> SUFFICES ASSUME Init PROVE TypeInv
  OBVIOUS
<1>1. PICK finished \in BOOLEAN :
        /\ ep = [side \in Sides |-> Connected(side = "server" \/ finished)]
        /\ sent = [side \in Sides |-> IF side = "client" \/ finished THEN {}
                                     ELSE {Ack(Connected(TRUE), HandshakeEpoch)}]
        /\ initiated = [side \in Sides |-> 0]
  BY DEF Init
<1>2. ASSUME NEW f \in BOOLEAN PROVE Known(Connected(f))
  <2> DEFINE slots == [i \in Slots |->
                  CASE i = 0 -> [number |-> 0, side |-> "both"]
                    [] i = 1 -> [number |-> HandshakeEpoch, side |-> "both"]
                    [] i = 2 -> [number |-> Traffic0, side |-> "both"]
                    [] i = 3 -> [number |-> 0, side |-> "free"]]
  <2>1. /\ slots[0] = [number |-> 0, side |-> "both"]
        /\ slots[1] = [number |-> 2, side |-> "both"]
        /\ slots[2] = [number |-> 3, side |-> "both"]
        /\ slots[3] = [number |-> 0, side |-> "free"]
        /\ slots = [i \in Slots |-> slots[i]]
    BY DEF Slots, HandshakeEpoch, Traffic0
  <2>2. Connected(f) = [epoch |-> 3, peerEpoch |-> 3, slots |-> slots, decrypting |-> 2,
                        keys |-> 3, waiting |-> FALSE, responseReq |-> FALSE,
                        invalidate |-> 0, finished |-> f]
    BY DEF Connected, Traffic0
  <2> HIDE DEF slots
  <2>3. \A i \in Slots : slots[i] \in SlotRecords /\ slots[i].number <= 3
    BY <2>1 DEF Slots, SlotRecords
  <2>4. slots \in [Slots -> SlotRecords]
    BY <2>1, <2>3
  <2>5. Connected(f) \in WideEndpoints
    BY <2>2, <2>4 DEF WideEndpoints, Slots
  <2>6. /\ Connected(f).slots = slots /\ Connected(f).epoch = 3
        /\ Connected(f).peerEpoch = 3
    BY <2>2
  <2> QED BY <2>3, <2>5, <2>6 DEF Known, SlotsKnown
<1>3. \A side \in Sides : Known(ep[side])
  BY <1>1, <1>2
<1>4. /\ ep \in [Sides -> WideEndpoints]
  BY <1>1, <1>2 DEF Known
<1>5. ASSUME NEW side \in Sides PROVE Sendable(ep[side], sent[side])
  <2>1. CASE side = "client" \/ finished
    BY <1>1, <2>1 DEF Sendable
  <2>2. CASE ~(side = "client" \/ finished)
    <3>1. sent[side] = {Ack(Connected(TRUE), HandshakeEpoch)}
      BY <1>1, <2>2
    <3>2. ep[side] = Connected(TRUE)
      BY <1>1, <2>2 DEF Sides
    <3>3. /\ Ack(Connected(TRUE), HandshakeEpoch) \in WideRecords
          /\ Ack(Connected(TRUE), HandshakeEpoch).epoch = Connected(TRUE).epoch
          /\ Connected(TRUE).epoch \in Nat
      BY <1>2, AckRecord DEF HandshakeEpoch
    <3>4. PICK a : a = Ack(Connected(TRUE), HandshakeEpoch)
      OBVIOUS
    <3>5. /\ sent[side] = {a} /\ a \in WideRecords
          /\ a.epoch = ep[side].epoch /\ ep[side].epoch \in Nat
      BY <3>1, <3>2, <3>3, <3>4
    <3>6. a.epoch <= ep[side].epoch
      BY <3>5
    <3> QED BY <3>5, <3>6 DEF Sendable
  <2> QED BY <2>1, <2>2
<1>6. sent \in [Sides -> SUBSET WideRecords]
  BY <1>1, <1>5 DEF Sendable
<1>7. /\ initiated["client"] = 0 /\ initiated["server"] = 0 /\ DOMAIN initiated = Sides
  BY <1>1 DEF Sides
<1> QED BY <1>3, <1>4, <1>5, <1>6, <1>7, UpdateAssumption DEF TypeInv

(* One side moves, and perhaps counts an update that it starts.            *)
LEMMA TypedMoves ==
    ASSUME TypeInv, NEW side \in Sides, NEW r, Becomes(side, r), Typed(r),
           ep[side].epoch <= r.ep.epoch,
           \/ UNCHANGED initiated
           \/ MayInitiate(side) /\ initiated' = [initiated EXCEPT ![side] = @ + 1]
    PROVE  TypeInv'
<1>1. /\ ep' = [ep EXCEPT ![side] = r.ep]
      /\ sent' = [sent EXCEPT ![side] = sent[side] \cup r.out]
  BY DEF Becomes
<1>2. /\ r.ep \in WideEndpoints /\ r.out \subseteq WideRecords
  BY DEF Typed, Known, Sendable
<1>3. ep' \in [Sides -> WideEndpoints]
  BY <1>1, <1>2 DEF TypeInv
<1>4. sent' \in [Sides -> SUBSET WideRecords]
  BY <1>1, <1>2 DEF TypeInv
<1>5. ep[side].epoch \in Nat /\ r.ep.epoch \in Nat
  BY <1>2 DEF TypeInv, WideEndpoints
<1>6. Sendable(r.ep, sent[side] \cup r.out)
  <2> SUFFICES ASSUME NEW d \in sent[side] \cup r.out
               PROVE  d \in WideRecords /\ d.epoch <= r.ep.epoch
    BY DEF Sendable
  <2>1. CASE d \in sent[side]
    <3>1. d \in WideRecords /\ d.epoch <= ep[side].epoch
      BY <2>1 DEF TypeInv, Sendable
    <3>2. d.epoch \in Nat
      BY <3>1 DEF WideRecords
    <3> QED BY <1>5, <3>1, <3>2
  <2>2. CASE d \in r.out
    BY <2>2 DEF Typed, Sendable
  <2> QED BY <2>1, <2>2
<1>7. ASSUME NEW s \in Sides PROVE Known(ep'[s]) /\ Sendable(ep'[s], sent'[s])
  <2>1. CASE s = side
    <3>1. ep'[s] = r.ep /\ sent'[s] = sent[side] \cup r.out
      BY <1>1, <2>1 DEF TypeInv
    <3> QED BY <1>6, <3>1 DEF Typed
  <2>2. CASE s # side
    <3>1. ep'[s] = ep[s] /\ sent'[s] = sent[s]
      BY <1>1, <2>2 DEF TypeInv
    <3> QED BY <3>1 DEF TypeInv
  <2> QED BY <2>1, <2>2
<1>8. /\ initiated'["client"] \in 0 .. MaxClientUpdates
      /\ initiated'["server"] \in 0 .. MaxServerUpdates
      /\ DOMAIN initiated' = Sides
  <2>1. CASE UNCHANGED initiated
    BY <2>1 DEF TypeInv
  <2>2. CASE MayInitiate(side) /\ initiated' = [initiated EXCEPT ![side] = @ + 1]
    <3>1. CASE side = "client"
      BY <2>2, <3>1, UpdateAssumption DEF TypeInv, MayInitiate, Sides
    <3>2. CASE side = "server"
      BY <2>2, <3>2, UpdateAssumption DEF TypeInv, MayInitiate, Sides
    <3> QED BY <3>1, <3>2 DEF Sides
  <2> QED BY <2>1, <2>2
<1> QED BY <1>3, <1>4, <1>7, <1>8 DEF TypeInv

LEMMA ReceiveTypeInv ==
    ASSUME IInv, TypeInv, NEW side \in Sides, Receive(side)
    PROVE  TypeInv'
<1>1. PICK d \in sent[Peer(side)] : Becomes(side, ReceiveRecord(ep[side], d))
  BY DEF Receive
<1> DEFINE e == ep[side]
           r == ReceiveRecord(e, d)
<1>2. Peer(side) \in Sides
  BY DEF Peer, Sides
<1>3. /\ EndInv(e) /\ Known(e) /\ d \in WideRecords /\ d.epoch \in Nat /\ d.epoch >= 3
      /\ d.type \in {"data", "key_update", "ack"}
  BY <1>2 DEF IInv, TypeInv, Justified
<1>4. Typed(r) /\ Effect(e, d, r)
  BY <1>3, ReceiveTyped, ReceiveEffect
<1>5. Becomes(side, r) /\ UNCHANGED initiated
  BY <1>1 DEF Receive
<1> HIDE DEF r
<1>6. e.epoch <= r.ep.epoch
  BY <1>3, <1>4 DEF Effect, Moves, Same, EndInv
<1> QED BY <1>4, <1>5, <1>6, TypedMoves

LEMMA WriteTypeInv ==
    ASSUME TypeInv, NEW side \in Sides, Write(side)
    PROVE  TypeInv'
<1> DEFINE d == [type |-> "data", epoch |-> ep[side].epoch]
           r == [ep |-> ep[side], out |-> {d}]
<1>1. Becomes(side, r) /\ UNCHANGED initiated
  BY DEF Write
<1>2. Known(ep[side]) /\ ep[side].epoch \in Nat
  BY DEF TypeInv, Known, WideEndpoints
<1>3. d \in WideRecords /\ d.epoch = ep[side].epoch
  BY <1>2 DEF WideRecords
<1> HIDE DEF d
<1>4. r.ep = ep[side] /\ r.out = {d}
  OBVIOUS
<1> HIDE DEF r
<1>5. Typed(r)
  BY <1>2, <1>3, <1>4 DEF Typed, Sendable
<1>6. ep[side].epoch <= r.ep.epoch
  BY <1>2, <1>4
<1> QED BY <1>1, <1>5, <1>6, TypedMoves

LEMMA InitiateTypeInv ==
    ASSUME TypeInv, NEW side \in Sides, NEW e, Known(e), EndInv(e), e.epoch = ep[side].epoch,
           MayInitiate(side), Becomes(side, SendTls13KeyUpdate(e, FALSE)),
           initiated' = [initiated EXCEPT ![side] = @ + 1]
    PROVE  TypeInv'
<1> DEFINE r == SendTls13KeyUpdate(e, FALSE)
<1>1. Typed(r)
  BY SendTyped
<1>2. r.ep.epoch = e.epoch /\ e.epoch \in Nat
  BY AnswerEffect DEF EndInv
<1>3. Becomes(side, r)
  OBVIOUS
<1> HIDE DEF r
<1>4. ep[side].epoch <= r.ep.epoch
  BY <1>2
<1> QED BY <1>1, <1>3, <1>4, TypedMoves

LEMMA FailLimitTypeInv ==
    ASSUME IInv, TypeInv, NEW side \in Sides, Dtls13CheckAEADFailLimit(side)
    PROVE  TypeInv'
<1> DEFINE n == ep[side].peerEpoch + 1
           e == [ep[side] EXCEPT !.invalidate = n]
           r == [ep |-> e, out |-> {}]
<1>1. Known(ep[side]) /\ EndInv(ep[side]) /\ n \in Nat /\ ep[side].epoch \in Nat
  BY DEF IInv, TypeInv, EndInv
<1>2. e \in WideEndpoints
  BY <1>1, NumbersSet DEF Known
<1>3. /\ e.slots = ep[side].slots /\ e.epoch = ep[side].epoch
      /\ e.peerEpoch = ep[side].peerEpoch
  BY <1>1 DEF Known, WideEndpoints
<1>4. EndInv(e)
  BY <1>1 DEF EndInv, Fields
<1>5. MayInitiate(side)
  BY DEF Dtls13CheckAEADFailLimit
<1>6. e.waiting => Becomes(side, r) /\ UNCHANGED initiated
  BY DEF Dtls13CheckAEADFailLimit
<1>7. ~e.waiting => /\ Becomes(side, SendTls13KeyUpdate(e, FALSE))
                    /\ initiated' = [initiated EXCEPT ![side] = @ + 1]
  BY DEF Dtls13CheckAEADFailLimit
<1> HIDE DEF e
<1>8. Known(e)
  BY <1>1, <1>2, <1>3 DEF Known
<1>9. CASE e.waiting
  <2>1. r.ep = e /\ r.out = {}
    OBVIOUS
  <2>2. Becomes(side, r) /\ UNCHANGED initiated
    BY <1>6, <1>9
  <2> HIDE DEF r
  <2>3. Typed(r) /\ ep[side].epoch <= r.ep.epoch
    BY <1>1, <1>3, <1>8, <2>1 DEF Typed, Sendable
  <2> QED BY <2>2, <2>3, TypedMoves
<1>10. CASE ~e.waiting
  BY <1>3, <1>4, <1>5, <1>7, <1>8, <1>10, InitiateTypeInv
<1> QED BY <1>9, <1>10

(* The bounds of an endpoint and of what it has sent, from the credit of the two sides. *)
LEMMA CreditBounds ==
    ASSUME IInv, Credit, TypeInv, NEW side \in Sides
    PROVE  /\ ep[side].epoch \in Nat /\ ep[side].epoch <= LastEpoch
           /\ ep[side].peerEpoch \in Nat /\ ep[side].peerEpoch <= LastEpoch
<1>1. ASSUME NEW s \in Sides PROVE Begun(ep[s]) \in Nat /\ Begun(ep[s]) <= LastEpoch
  <2>1. ep[s].epoch \in Nat
    BY DEF IInv, EndInv
  <2>2. Begun(ep[s]) \in Nat
    BY <2>1 DEF Begun
  <2>3. Due(ep[Peer(s)], ep[s], sent[Peer(s)]) \in {0, 1}
    BY DEF Due
  <2>4. Started \in Nat /\ 3 + Started <= LastEpoch /\ LastEpoch \in Nat
    BY UpdateAssumption DEF Started, TypeInv, LastEpoch, Traffic0
  <2>5. Begun(ep[s]) + Due(ep[Peer(s)], ep[s], sent[Peer(s)]) <= 3 + Started
    BY DEF Credit
  <2> QED BY <2>2, <2>3, <2>4, <2>5
<1>2. Peer(side) \in Sides /\ Peer(Peer(side)) = side
  BY DEF Peer, Sides
<1>3. Near(ep[Peer(side)], ep[side])
  BY <1>2 DEF IInv
<1>4. /\ ep[side].epoch \in Nat /\ ep[side].peerEpoch \in Nat
      /\ ep[Peer(side)].epoch \in Nat
  BY <1>2 DEF IInv, EndInv
<1>5. ep[side].epoch <= Begun(ep[side]) /\ ep[side].peerEpoch <= Begun(ep[Peer(side)])
  BY <1>3, <1>4 DEF Begun, Near
<1>6. LastEpoch \in Nat
  BY UpdateAssumption DEF LastEpoch, Traffic0
<1>7. /\ Begun(ep[side]) \in Nat /\ Begun(ep[side]) <= LastEpoch
      /\ Begun(ep[Peer(side)]) \in Nat /\ Begun(ep[Peer(side)]) <= LastEpoch
  BY <1>1, <1>2
<1> QED BY <1>4, <1>5, <1>6, <1>7

LEMMA TypesHold ==
    ASSUME IInv, Credit, TypeInv
    PROVE  TypeOK
<1>1. LastEpoch \in Nat /\ LastEpoch >= 3
  BY UpdateAssumption DEF LastEpoch, Traffic0
<1>2. ASSUME NEW side \in Sides PROVE ep[side] \in Endpoints
  <2>1. Known(ep[side]) /\ EndInv(ep[side])
    BY DEF IInv, TypeInv
  <2>2. ep[side].epoch <= LastEpoch /\ ep[side].peerEpoch <= LastEpoch
    BY CreditBounds
  <2> QED BY <1>1, <2>1, <2>2, Bounded DEF Endpoints, SlotStates, Traffic0
<1>3. ASSUME NEW side \in Sides, NEW d \in sent[side] PROVE d \in Records
  <2>1. /\ d \in WideRecords /\ d.epoch <= ep[side].epoch /\ d.epoch >= 3
        /\ d.type = "ack" => d.acked <= 2 \/ d.acked < ep[side].peerEpoch
    BY DEF IInv, TypeInv, Sendable, Justified
  <2>2. /\ ep[side].epoch \in Nat /\ ep[side].epoch <= LastEpoch
        /\ ep[side].peerEpoch \in Nat /\ ep[side].peerEpoch <= LastEpoch
    BY CreditBounds
  <2>3. CASE d \in [type : {"data"}, epoch : Nat]
    <3>1. d \in [type : {"data"}, epoch : 3 .. LastEpoch]
      BY <1>1, <2>1, <2>2, <2>3
    <3> QED BY <3>1 DEF Records, Traffic0
  <2>4. CASE d \in [type : {"key_update"}, epoch : Nat, request : BOOLEAN]
    <3>1. d \in [type : {"key_update"}, epoch : 3 .. LastEpoch, request : BOOLEAN]
      BY <1>1, <2>1, <2>2, <2>4
    <3> QED BY <3>1 DEF Records, Traffic0
  <2>5. CASE d \in [type : {"ack"}, epoch : Nat, acked : Nat]
    <3>1. d \in [type : {"ack"}, epoch : 3 .. LastEpoch, acked : 0 .. LastEpoch]
      BY <1>1, <2>1, <2>2, <2>5
    <3> QED BY <3>1 DEF Records, Traffic0
  <2> QED BY <2>1, <2>3, <2>4, <2>5 DEF WideRecords
<1>4. ep \in [Sides -> Endpoints]
  BY <1>2 DEF TypeInv
<1>5. sent \in [Sides -> SUBSET Records]
  BY <1>3 DEF TypeInv
<1> QED BY <1>4, <1>5 DEF TypeOK, TypeInv

(* What the endpoints and the records consist of: no update is in flight, waited for or  *)
(* acknowledged whose epoch would be beyond the last one the updates started can reach,  *)
(* and no slot holds the keys of an epoch that neither side has begun.                   *)
THEOREM KeyUpdateTypeOK == Spec => []TypeOK
<1>1. IInv /\ TypeInv /\ [Next]_vars => TypeInv'
  <2> SUFFICES ASSUME IInv, TypeInv, [Next]_vars PROVE TypeInv'
    OBVIOUS
  <2>1. CASE UNCHANGED vars
    BY <2>1 DEF TypeInv, vars
  <2>2. CASE Next
    <3>1. PICK side \in Sides : \/ Receive(side) \/ Write(side) \/ Tls13UpdateKeys(side)
                               \/ Dtls13CheckAEADFailLimit(side)
      BY <2>2 DEF Next
    <3>2. CASE Tls13UpdateKeys(side)
      BY <3>2, InitiateTypeInv DEF Tls13UpdateKeys, IInv, TypeInv
    <3> QED BY <3>1, <3>2, ReceiveTypeInv, WriteTypeInv, FailLimitTypeInv
  <2> QED BY <2>1, <2>2
<1>2. IInv /\ Credit /\ TypeInv => TypeOK
  BY TypesHold
<1> QED BY InitTypeInv, <1>1, <1>2, KeyUpdateInvariant, KeyUpdateCredit, PTL DEF Spec

=============================================================================
