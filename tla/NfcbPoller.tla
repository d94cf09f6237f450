----------------------------- MODULE NfcbPoller -----------------------------
(* NFC-B: technology detection and the slotted collision resolution         *)
(* (rfal_nfcb.cpp).  Each card draws one of the slots of a SENSB_REQ; the   *)
(* number of slots doubles while a round ends with collisions only.         *)
EXTENDS PollerField

CONSTANT
  EndSlots    \* endSlots: RFAL_NFCB_SLOT_NUM_1 = 0, up to RFAL_NFCB_SLOT_NUM_16 = 4

ASSUME NfcbAssumption == EndSlots \in 0 .. 4

NI2NumberOfSlots(ni) == 2 ^ ni

\* ni codes the number of slots, got the pending answer, cur counts the cards of the round.
BLocals == [ni |-> 0, slot |-> 0, got |-> None, cur |-> 0, col |-> FALSE]

BInit == FieldInit("B", "b.detect") /\ loc = BLocals

\* Slots drawn by the cards that are awake, or by all of them for an ALLB_REQ.
Drawn(C, draw) == [c \in Cards |-> IF c \in C THEN [st |-> "ready", at |-> draw[c]] ELSE card[c]]

Awake == In("idle") \cup In("ready")
InSlot(k) == {c \in In("ready") : card[c].at = k}

\* SENSB_REQ or ALLB_REQ: the answer is that of slot 0.
CheckPresence(C, ni) ==
  \E draw \in [C -> 0 .. NI2NumberOfSlots(ni) - 1] : \E a \in Answers({c \in C : draw[c] = 0}) :
    /\ Reply(a)
    /\ card' = Drawn(C, draw)
    /\ loc' = [loc EXCEPT !.got = a.got, !.slot = 0, !.cur = 0, !.col = FALSE, !.ni = ni]

\* rfalNfcbPollerTechnologyDetection, a SENSB_REQ with one slot.
BDetect ==
  /\ pc = "b.detect"
  /\ CheckPresence(Awake, 0)
  /\ pc' = IF loc'.got = None THEN "done"
           ELSE IF setup.mode = "ISO" THEN "b.answer" ELSE "b.wake"
  /\ UNCHANGED <<setup, dev>>

\* The ALLB_REQ that opens the resolution, except in ISO mode, which uses the answer of
\* the detection.
BWake ==
  /\ pc = "b.wake"
  /\ CheckPresence(Awake \cup In("halt"), 0)
  /\ pc' = IF loc'.got = None \/ (loc'.got = Many /\ setup.mode = "EMV") THEN "failed"
           ELSE "b.answer"
  /\ UNCHANGED <<setup, dev>>

\* SLPB_REQ to the last device of the list, whose answer nobody looks at.
SleepAnswering ==
  LET C == {c \in In("ready") : c = loc.got} IN Command(Moved(C, "halt"))
SleepLast ==
  LET C == {c \in In("ready") : c = dev[Len(dev)].id} IN Command(Moved(C, "halt"))

\* The answer of a slot is evaluated.
BValid ==
  /\ pc = "b.answer" /\ loc.got \in Cards
  /\ LET found == Append(dev, Found(loc.got))
         ends == Len(found) >= setup.limit \/ loc.ni = 0 IN
     CASE setup.mode = "EMV" ->
            /\ dev' = found /\ pc' = "done"
            /\ UNCHANGED <<card, loc, lost>>
       [] setup.mode = "ISO" ->
            /\ dev' = found
            /\ loc' = [loc EXCEPT !.cur = @ + 1]
            /\ pc' = IF ends THEN "done" ELSE "b.sleep"
            /\ UNCHANGED <<card, lost>>
       [] setup.mode = "NFC" ->
            /\ IF loc.cur # 0
               THEN SleepLast /\ dev' = Append(LastAsleep, Found(loc.got))
               ELSE dev' = found /\ UNCHANGED <<card, lost>>
            /\ loc' = [loc EXCEPT !.cur = @ + 1]
            /\ pc' = IF ends THEN "done" ELSE "b.slot"
  /\ UNCHANGED setup

\* In ISO mode each card is put to sleep as soon as it is found.
BSleepFound ==
  /\ pc = "b.sleep"
  /\ SleepLast
  /\ dev' = LastAsleep
  /\ pc' = "b.slot"
  /\ UNCHANGED <<setup, loc>>

BCollision ==
  /\ pc = "b.answer" /\ loc.got = Many
  /\ IF setup.limit = 0 /\ loc.ni = 0
     THEN pc' = "failed" /\ UNCHANGED loc
     ELSE pc' = "b.slot" /\ loc' = [loc EXCEPT !.col = TRUE]
  /\ UNCHANGED <<setup, card, dev, lost>>

BEmpty ==
  /\ pc = "b.answer" /\ loc.got = None
  /\ pc' = "b.slot"
  /\ UNCHANGED <<setup, card, dev, loc, lost>>

\* The slot marker of the next slot.
BSlotMarker ==
  /\ pc = "b.slot" /\ loc.slot + 1 < NI2NumberOfSlots(loc.ni)
  /\ \E a \in Answers(InSlot(loc.slot + 1)) :
       /\ Reply(a)
       /\ loc' = [loc EXCEPT !.slot = @ + 1, !.got = a.got]
  /\ pc' = "b.answer"
  /\ UNCHANGED <<setup, card, dev>>

\* The end of a round.  Without a collision the search ends; with one, it goes on with
\* the same number of slots if a card was found, with twice as many otherwise.
BRoundEnds ==
  /\ pc = "b.slot" /\ loc.slot + 1 = NI2NumberOfSlots(loc.ni)
  /\ pc' = IF ~loc.col \/ (loc.cur = 0 /\ loc.ni = EndSlots) THEN "done"
           ELSE IF setup.mode = "NFC" /\ loc.cur # 0 THEN "b.before" ELSE "b.round"
  /\ loc' = [loc EXCEPT !.ni = IF loc.col /\ loc.cur = 0 /\ @ < EndSlots THEN @ + 1 ELSE @]
  /\ UNCHANGED <<setup, card, dev, lost>>

\* In NFC mode the last card found sleeps before the next round.
BSleepBefore ==
  /\ pc = "b.before"
  /\ SleepLast
  /\ dev' = LastAsleep
  /\ pc' = "b.round"
  /\ UNCHANGED <<setup, loc>>

BRound ==
  /\ pc = "b.round"
  /\ CheckPresence(Awake, loc.ni)
  /\ pc' = "b.answer"
  /\ UNCHANGED <<setup, dev>>

BNextStep == BDetect \/ BWake \/ BValid \/ BSleepFound \/ BCollision \/ BEmpty
             \/ BSlotMarker \/ BRoundEnds \/ BSleepBefore \/ BRound
=============================================================================
