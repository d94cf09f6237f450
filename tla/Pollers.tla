------------------------------ MODULE Pollers ------------------------------
(* The search for cards in each of the technologies, and what the device    *)
(* list it leaves promises to the activation that follows: rfalNfcActivate  *)
(* selects the devices marked asleep and talks at once to the one that is   *)
(* not.                                                                     *)
EXTENDS NfcaPoller, NfcbPoller, NfcfPoller, NfcvPoller, St25tbPoller

Init == AInit \/ BInit \/ FInit \/ VInit \/ TInit

Stop == Ended /\ UNCHANGED vars

Next == ANextStep \/ BNextStep \/ FNextStep \/ VNextStep \/ TNextStep \/ Stop

\* The blocking procedures run on.  The cards of the ST25TB draw their slots at random:
\* some draw leaves one of them alone in its slot.
Spec == Init /\ [][Next]_vars /\ WF_vars(Next) /\ SF_vars(TPcallSpread)

-----------------------------------------------------------------------------
(* Properties *)

\* The bounds of the arrays and counters of the procedures.
LocalsOK ==
  CASE setup.tech = "A" -> /\ loc.lvl \in 1 .. 3 /\ loc.cnt \in 0 .. BacktrackMax
                           /\ Len(loc.sel) <= UidBits + ByteBits
    [] setup.tech = "B" -> /\ loc.ni \in 0 .. EndSlots
                           /\ loc.slot \in 0 .. NI2NumberOfSlots(loc.ni) - 1
    [] setup.tech = "F" -> Len(loc.pollF) <= 16
    [] setup.tech \in {"V", "VS"} -> /\ Len(loc.colFound) <= MaxColl
                                     /\ pc = "v.slot" => loc.it \in DOMAIN loc.colFound
                                     /\ loc.slot \in 0 .. Slots - 1
    [] setup.tech = "TB" -> loc.slot \in 0 .. TbSlots - 1

\* Types, and the bounds of what the procedures index.
TypeOK ==
  /\ setup.tech \in Techs /\ setup.limit \in Nat
  /\ card \in [Cards -> [st : States, at : Nat]]
  /\ lost \in 0 .. MaxLost
  /\ \A i \in DOMAIN dev : dev[i].asleep \in BOOLEAN
  /\ LocalsOK

\* The identifier by which a card enters the list.
IdOf(c) == IF setup.tech = "A" THEN Uid[c] ELSE c

\* A device of the list is a card that is in the field, whatever was lost or unnoticed;
\* and unless a command was lost, no card is listed twice.  The list never outgrows the
\* array of the caller: a limit of zero still finds one card, or those of the four slots.
ListIsTrue ==
  /\ Len(dev) <= CASE setup.limit # 0 -> setup.limit
                   [] setup.tech = "F" -> 4
                   [] OTHER -> 1
  /\ \A i \in DOMAIN dev : \E c \in setup.present : dev[i].id = IdOf(c)
  /\ lost = 0 => IsInjective(dev)

\* The mark of a device says what its card does: a card marked asleep does not answer
\* the activation of another one, the one not marked is ready for it.
MarksAreTrue ==
  lost = 0 => \A i \in DOMAIN dev : \A c \in setup.present :
                dev[i].id = IdOf(c) => (dev[i].asleep <=> card[c].st \in Asleep)

\* The caller can rely on what it is given: the list and the marks in it.
DevicesAreTrue == ListIsTrue /\ MarksAreTrue

\* A search that ends below the limit without a lost exchange has found every card.
\* NFC-A finds the cards that went unnoticed when it asks again for others, and so does
\* the NFC-V search with sleep; the others need every collision to be noticed.  NFC-F
\* polls once and has no claim; neither has the NFC-B search for EMV, nor a number of slots
\* that ran out; a Type 1 tag has no anticollision.
MayMissNobody ==
  /\ setup.limit > 0
  /\ CASE setup.tech = "A" -> setup.present \cap T1T = {} /\ setup.mode # "ISO"
       [] setup.tech = "B" -> setup.weak = {} /\ setup.mode # "EMV" /\ ~loc.col
       [] setup.tech = "V" -> setup.weak = {} /\ CollisionsFit(setup.present)
       [] setup.tech = "VS" -> CollisionsFit(setup.present)
       [] setup.tech = "TB" -> setup.weak = {}
       [] OTHER -> FALSE

NobodyMissed ==
  pc = "done" /\ lost = 0 /\ MayMissNobody /\ Len(dev) < setup.limit
    => \A c \in setup.present : \E i \in DOMAIN dev : dev[i].id = IdOf(c)

\* Every search ends, whatever goes unnoticed: the backtracking of NFC-A, the rounds of
\* NFC-B and the repeated searches of NFC-V are bounded, and the rounds of the ST25TB go on
\* only while cards collide.
SearchEnds == <>Ended
=============================================================================
