----------------------------- MODULE NfcfPoller -----------------------------
(* NFC-F: the poll with time slots, and the collision resolution that polls *)
(* again and keeps the valid answers once each (rfal_nfcf.cpp, and          *)
(* rfalFeliCaPoll of rfal_rfst25r3916.cpp).                                 *)
EXTENDS PollerField, SequencesExt

CONSTANT DepCards     \* the cards whose NFCID2 announces NFC-DEP

\* POLL_F, the answers of the last poll, and nfcDepFound.
FLocals == [pollF |-> <<>>, dep |-> FALSE]

FInit == FieldInit("F", "f.detect") /\ loc = FLocals

\* rfalFeliCaPoll: the cards heard are those that drew a slot of their own and were not
\* lost, in the order of the slots; two or more in one slot count as a collision.
Polled(slots, cards, collided) ==
  LET missing == Cardinality(In("idle")) - Len(cards) IN
  /\ Len(cards) <= slots
  /\ collided = (missing > 1)
  /\ lost' = lost + (IF missing = 1 THEN 1 ELSE 0) /\ lost' <= MaxLost

InOrder == UNION {SetToSeqs(H) : H \in SUBSET In("idle")}

\* rfalNfcfComputeValidSENF: the answers are taken from the last to the first while the
\* list has room; a device already listed is skipped, or overwritten in place.
ComputeValid(polled, list, limit, dep) ==
  FoldLeft(LAMBDA acc, c :
             IF Len(acc.list) >= limit THEN acc
             ELSE IF \E i \in DOMAIN acc.list : acc.list[i].id = c
                  THEN [acc EXCEPT !.left = Front(@)]
                  ELSE [list |-> Append(acc.list, Found(c)), dep |-> c \in DepCards,
                        left |-> Front(acc.left)],
           [list |-> list, dep |-> dep, left |-> polled], Reverse(polled))

\* rfalNfcfPollerCheckPresence: four slots.
FDetect ==
  /\ pc = "f.detect"
  /\ \E cards \in InOrder, collided \in BOOLEAN :
       /\ Polled(4, cards, collided)
       /\ loc' = [loc EXCEPT !.pollF = cards]
       /\ pc' = IF cards # <<>> \/ collided THEN "f.detected" ELSE "done"
  /\ UNCHANGED <<setup, card, dev>>

\* The answers of the detection; with room left the list is emptied and polled for anew.
FDetected ==
  /\ pc = "f.detected"
  /\ LET got == ComputeValid(loc.pollF, <<>>, IF setup.limit = 0 THEN 4 ELSE setup.limit, FALSE) IN
     /\ dev' = IF Len(got.list) < setup.limit THEN <<>> ELSE got.list
     /\ loc' = [pollF |-> got.left, dep |-> got.dep]
     /\ pc' = IF Len(got.list) < setup.limit THEN "f.poll" ELSE "done"
  /\ UNCHANGED <<setup, card, lost>>

\* Sixteen slots; then, if a device has NFC-DEP, once more for its system code.
FPoll ==
  /\ pc = "f.poll"
  /\ \E cards \in InOrder, collided \in BOOLEAN :
       /\ Polled(16, cards, collided)
       /\ LET got == IF cards # <<>> \/ collided
                     THEN ComputeValid(cards, dev, setup.limit, loc.dep)
                     ELSE [list |-> dev, dep |-> loc.dep, left |-> <<>>] IN
          /\ dev' = got.list
          /\ loc' = [pollF |-> got.left, dep |-> got.dep]
          /\ pc' = IF got.dep /\ setup.mode = "NFC" THEN "f.again" ELSE "done"
  /\ UNCHANGED <<setup, card>>

FPollAgain ==
  /\ pc = "f.again"
  /\ \E cards \in InOrder, collided \in BOOLEAN :
       /\ Polled(16, cards, collided)
       /\ LET got == ComputeValid(cards, dev, setup.limit, loc.dep) IN
          dev' = got.list /\ loc' = [pollF |-> got.left, dep |-> got.dep]
  /\ pc' = "done"
  /\ UNCHANGED <<setup, card>>

FNextStep == FDetect \/ FDetected \/ FPoll \/ FPollAgain
=============================================================================
