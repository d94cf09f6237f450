---------------------------- MODULE St25tbPoller ----------------------------
(* ST25TB: Initiate, the slotted anticollision with Pcall16 and slot        *)
(* markers, Select and Get UID (rfal_st25tb.cpp).  Each Pcall16 makes the   *)
(* cards draw a slot again; selecting a card deselects the one before.      *)
EXTENDS PollerField

CONSTANT TbSlots    \* RFAL_ST25TB_SLOTS

ASSUME St25tbAssumption == TbSlots \in Nat \ {0}

\* slot is the slot under way, chip the card that answered it, col whether one collided.
TLocals == [slot |-> 0, chip |-> None, col |-> FALSE]

TInit == FieldInit("TB", "t.initiate") /\ setup.limit > 0 /\ loc = TLocals

\* rfalSt25tbPollerInitiate: the cards that were just powered enter the inventory.
TInitiate ==
  /\ pc = "t.initiate"
  /\ LET C == In("idle") IN
     \E a \in Answers(C) :
       /\ Reply(a)
       /\ card' = Moved(C, "inventory")
       /\ loc' = [loc EXCEPT !.chip = a.got]
       /\ pc' = IF a.got \in Cards THEN "t.first" ELSE "t.pcall"
  /\ UNCHANGED <<setup, dev>>

\* The cards after a Select: the one it names is selected, the one before deselected.
Selected(c) == [d \in Cards |->
  CASE d = c /\ card[d].st \in {"inventory", "selected", "deselected"} ->
         [st |-> "selected", at |-> 0]
    [] d # c /\ card[d].st = "selected" -> [st |-> "deselected", at |-> 0]
    [] OTHER -> card[d]]

\* rfalSt25tbPollerSelect: its answer may be lost, or it may not be heard at all.
Select(c, ok) ==
  \/ ok /\ card' = Selected(c) /\ UNCHANGED lost
  \/ ~ok /\ lost < MaxLost /\ lost' = lost + 1 /\ card' \in {card, Selected(c)}

\* The only answer to Initiate: its card is selected and its UID read.
TFirst ==
  /\ pc = "t.first"
  /\ \E ok \in BOOLEAN :
       /\ Select(loc.chip, ok)
       /\ pc' = IF ok THEN "t.uid" ELSE "t.pcall"
  /\ UNCHANGED <<setup, dev, loc>>

\* rfalSt25tbPollerGetUID of that card; it counts only if the UID was read.
TFirstUid ==
  /\ pc = "t.uid"
  /\ \/ dev' = Append(dev, Found(loc.chip)) /\ UNCHANGED lost
     \/ lost < MaxLost /\ lost' = lost + 1 /\ UNCHANGED dev
  /\ pc' = IF Len(dev') < setup.limit THEN "t.pcall" ELSE "done"
  /\ UNCHANGED <<setup, card, loc>>

Inventory == In("inventory")

\* Pcall16 with the slots that the cards draw.
PcallWith(draw) ==
  /\ pc = "t.pcall"
  /\ card' = [c \in Cards |-> IF c \in Inventory THEN [st |-> "inventory", at |-> draw[c]]
                              ELSE card[c]]
  /\ \E a \in Answers({c \in Inventory : draw[c] = 0}) :
       /\ Reply(a)
       /\ loc' = [slot |-> 0, chip |-> a.got, col |-> a.got = Many]
       /\ pc' = IF a.got \in Cards THEN "t.select" ELSE "t.slot"
  /\ UNCHANGED <<setup, dev>>

TPcall == \E draw \in [Inventory -> 0 .. TbSlots - 1] : PcallWith(draw)

\* A draw in which some card is alone in its slot.
TPcallSpread ==
  \E draw \in [Inventory -> 0 .. TbSlots - 1] :
    /\ \E c \in Inventory : \A d \in Inventory \ {c} : draw[d] # draw[c]
    /\ PcallWith(draw)

\* The card that answered alone is selected; the one before counts as deselected even if
\* that failed.  The result of Get UID is not looked at.
TSelect ==
  /\ pc = "t.select"
  /\ \E ok \in BOOLEAN :
       /\ Select(loc.chip, ok)
       /\ LET before == IF dev # <<>> THEN LastAsleep ELSE dev IN
          dev' = IF ok THEN Append(before, Found(loc.chip)) ELSE before
  /\ pc' = IF Len(dev') >= setup.limit THEN "done" ELSE "t.slot"
  /\ UNCHANGED <<setup, loc>>

\* The slot marker of the next slot.
TSlotMarker ==
  /\ pc = "t.slot" /\ loc.slot + 1 < TbSlots
  /\ \E a \in Answers({c \in Inventory : card[c].at = loc.slot + 1}) :
       /\ Reply(a)
       /\ loc' = [slot |-> loc.slot + 1, chip |-> a.got, col |-> loc.col \/ a.got = Many]
       /\ pc' = IF a.got \in Cards THEN "t.select" ELSE "t.slot"
  /\ UNCHANGED <<setup, card, dev>>

\* The end of the slots: another Pcall16 as long as something collided.
TSlotsEnd ==
  /\ pc = "t.slot" /\ loc.slot + 1 = TbSlots
  /\ pc' = IF loc.col THEN "t.pcall" ELSE "done"
  /\ UNCHANGED <<setup, card, dev, loc, lost>>

TNextStep == TInitiate \/ TFirst \/ TFirstUid \/ TPcall \/ TSelect \/ TSlotMarker \/ TSlotsEnd
=============================================================================
