----------------------------- MODULE NfcvPoller -----------------------------
(* NFC-V: presence check, the inventory with its list of collisions still   *)
(* to be resolved, and the variant that puts the cards found to sleep and   *)
(* searches again (rfal_nfcv.cpp).  A UID is a sequence of bits; a slot of  *)
(* an inventory is named by the SlotBits bits that follow the mask.         *)
EXTENDS PollerField, SequencesExt

CONSTANTS
  VUid,       \* the UID of each card, a sequence of bits
  SlotBits,   \* 4 for sixteen slots
  MaxColl     \* RFAL_NFCV_MAX_COLL_SUPPORTED

ASSUME NfcvAssumption ==
  /\ SlotBits \in Nat \ {0} /\ MaxColl \in Nat \ {0}
  /\ \A c, d \in Cards : /\ VUid[c] \in Seq({0, 1})
                         /\ Len(VUid[c]) = Len(VUid[d])
                         /\ Len(VUid[c]) % SlotBits = 0
                         /\ VUid[c] = VUid[d] => c = d

Slots == 2 ^ SlotBits
MaxMask == (CHOOSE n \in {Len(VUid[c]) : c \in Cards} : TRUE) - SlotBits

\* The bits of a slot number, the least significant one first.
SlotMask(k) == [i \in 1 .. SlotBits |-> (k \div (2 ^ (i - 1))) % 2]

\* colFound[it] is the mask in use; base is where this call's part of the list begins.
VLocals == [colFound |-> << <<>> >>, it |-> 1, slot |-> 0, base |-> 0]

VInit == \E t \in {"V", "VS"} : FieldInit(t, "v.detect") /\ loc = VLocals

Listening == In("idle")

\* The mask that is sent is cut at the longest one that leaves a slot number.
MaskOf(m) == SubSeq(m, 1, IF Len(m) <= MaxMask THEN Len(m) ELSE MaxMask)
InSlotV(m, k) == {c \in Listening : IsPrefix(MaskOf(m) \o SlotMask(k), VUid[c])}

\* The limit that the inventory under way was called with.
CallLimit == setup.limit - loc.base

\* rfalNfcvPollerCheckPresence: an inventory with one slot.
VDetect ==
  /\ pc = "v.detect"
  /\ \E a \in Answers(Listening) : /\ Reply(a)
                        /\ pc' = IF a.got = None THEN "done"
                                 ELSE IF setup.mode = "NFC" THEN "v.one" ELSE "v.slot"
  /\ UNCHANGED <<setup, card, dev, loc>>

\* In NFC mode the resolution starts with one slot, too, and ends if there is one card.
VOneSlot ==
  /\ pc = "v.one"
  /\ \E a \in Answers(Listening) :
       /\ Reply(a)
       /\ dev' = IF a.got \in Cards THEN <<Found(a.got)>> ELSE dev
       /\ pc' = IF a.got # Many THEN "done" ELSE IF setup.limit = 0 THEN "failed" ELSE "v.slot"
  /\ UNCHANGED <<setup, card, loc>>

\* "Ensure that this collision still fits on the container".
FitsOneTooMany(n) == n <= MaxColl
Fits(n) == n < MaxColl

\* A slot: a card enters the list, a collision the container if it still fits.  Masks are
\* shorter than the UIDs (bound): the code writes the byte after the one it extends, which
\* from a mask of 56 bits on is the one behind maskVal.
VSlot ==
  /\ pc = "v.slot"
  /\ LET mask == loc.colFound[loc.it] IN
     \E a \in Answers(InSlotV(mask, loc.slot)) :
       /\ Reply(a)
       /\ dev' = IF a.got \in Cards THEN Append(dev, Found(a.got)) ELSE dev
       /\ LET found == IF a.got = Many /\ Fits(Len(loc.colFound))
                       THEN Append(loc.colFound, mask \o SlotMask(loc.slot))
                       ELSE loc.colFound
              last == loc.slot + 1 = Slots IN
          /\ loc' = [loc EXCEPT !.colFound = found,
                                !.slot = IF last THEN 0 ELSE @ + 1,
                                !.it = IF last THEN @ + 1 ELSE @]
          /\ pc' = IF Len(dev') - loc.base >= CallLimit \/ (last /\ loc.it = Len(found))
                   THEN IF setup.tech = "VS" THEN "v.sleep" ELSE "done"
                   ELSE "v.slot"
  /\ UNCHANGED <<setup, card>>

\* rfalNfcvPollerSleepCollisionResolution: the cards this call found go to sleep one by
\* one; if there were some and the limit is not reached, it searches again.
NotYetAsleep == {i \in loc.base + 1 .. Len(dev) : ~dev[i].asleep}

VSleep ==
  /\ pc = "v.sleep" /\ NotYetAsleep # {}
  /\ LET i == CHOOSE k \in NotYetAsleep : \A j \in NotYetAsleep : k <= j IN
     /\ Command(Moved({c \in Listening : c = dev[i].id}, "quiet"))
     /\ dev' = [dev EXCEPT ![i].asleep = TRUE]
  /\ UNCHANGED <<setup, pc, loc>>

AgainUpToLimit == Len(dev) < setup.limit
SearchAgain == Len(dev) > loc.base /\ Len(dev) < setup.limit

VAgain ==
  /\ pc = "v.sleep" /\ NotYetAsleep = {}
  /\ loc' = [VLocals EXCEPT !.base = Len(dev)]
  /\ pc' = IF SearchAgain THEN "v.slot" ELSE "done"
  /\ UNCHANGED <<setup, card, dev, lost>>

VNextStep == VDetect \/ VOneSlot \/ VSlot \/ VSleep \/ VAgain

\* The masks at which two cards of C collide: what the container must hold.
Collisions(C) == {SubSeq(VUid[c], 1, n * SlotBits) : c \in C, n \in 0 .. MaxMask \div SlotBits}
CollisionsFit(C) ==
  Cardinality({m \in Collisions(C) : Cardinality({c \in C : IsPrefix(m, VUid[c])}) > 1})
    <= MaxColl
=============================================================================
