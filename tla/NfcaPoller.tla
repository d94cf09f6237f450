----------------------------- MODULE NfcaPoller -----------------------------
(* NFC-A: technology detection and the full collision resolution, with the  *)
(* bit-wise anticollision of up to three cascade levels, its backtracking   *)
(* when a collision went unnoticed, and the search for further cards        *)
(* (rfal_nfca.cpp).  A UID is a sequence of cascade levels; a level is a    *)
(* sequence of UidBytes bytes of ByteBits bits, and is sent with its check  *)
(* byte.                                                                    *)
EXTENDS PollerField, SequencesExt

CONSTANTS
  Uid,        \* the UID of each card: its cascade levels, each a sequence of bits
  T1T,        \* the Type 1 tags: they answer RID instead of the anticollision
  UidBytes,   \* RFAL_NFCA_CASCADE_1_UID_LEN
  ByteBits    \* bits in a byte

UidBits == UidBytes * ByteBits

ASSUME NfcaAssumption ==
  /\ UidBytes \in Nat \ {0} /\ ByteBits \in Nat \ {0}
  /\ \A c \in Cards : \A i \in DOMAIN Uid[c] : Uid[c][i] \in [1 .. UidBits -> {0, 1}]
  /\ \A c, d \in Cards : c # d => ~IsPrefix(Uid[c], Uid[d])

BacktrackMax == 3
Retrans == 2                  \* RFAL_NFCA_N_RETRANS

\* The check byte: the bytes of the level, added bit by bit.
CalculateBcc(bits) ==
  [k \in 1 .. ByteBits |->
     FoldLeft(LAMBDA x, j : (x + bits[(j - 1) * ByteBits + k]) % 2, 0,
              [j \in 1 .. UidBytes |-> j])]

SddRes(c, lvl) == Uid[c][lvl] \o CalculateBcc(Uid[c][lvl])

ALocals == [lvl |-> 1, sel |-> <<>>, uid |-> <<>>, back |-> FALSE, cnt |-> BacktrackMax,
            coll |-> FALSE, tries |-> Retrans]

Again == IF setup.limit = 0 THEN Retrans ELSE 0

AInit == FieldInit("A", "a.detect") /\ loc = [ALocals EXCEPT !.tries = Again]

Ready(lvl) == {c \in In("ready") : card[c].at = lvl}

\* The cards that a REQA or a WUPA makes ready, at the first cascade level.
Woken(C) == [c \in Cards |-> IF c \in C THEN [st |-> "ready", at |-> 1]
                             ELSE IF card[c].st = "ready" THEN [st |-> "idle", at |-> 0]
                             ELSE card[c]]

\* A card that is selected sleeps; one in the middle of the anticollision leaves it.
Slept == [c \in Cards |-> CASE card[c].st = "active" -> [st |-> "halt", at |-> 0]
                            [] card[c].st = "ready" -> [st |-> "idle", at |-> 0]
                            [] OTHER -> card[c]]

\* rfalNfcaPollerTechnologyDetection: any answer, even a collision, is a presence.
ADetect ==
  /\ pc = "a.detect"
  /\ LET C == In("idle") \cup (IF setup.mode = "EMV" THEN In("halt") ELSE {}) IN
     \E a \in Answers(C) :
       /\ Reply(a)
       /\ card' = Woken(C)
       /\ pc' = CASE a.got = None -> "done"
                  [] setup.mode # "ISO" -> "a.sleep"
                  [] a.got \in T1T /\ setup.limit # 0 /\ setup.mode = "ISO" -> "a.rid"
                  [] OTHER -> "a.sdd"
  /\ UNCHANGED <<setup, dev, loc>>

ADetectSleep ==
  /\ pc = "a.sleep"
  /\ Command(Slept)
  /\ pc' = "a.wake"
  /\ UNCHANGED <<setup, dev, loc>>

\* The WUPA that opens the resolution when the detection put the cards to sleep.  A
\* clean answer of a Type 1 tag ends the search with its RID.
AWake ==
  /\ pc = "a.wake"
  /\ LET C == In("idle") \cup In("halt") IN
     \E a \in Answers(C) :
       /\ Reply(a)
       /\ card' = Woken(C)
       /\ pc' = CASE a.got = None -> "failed"
                  [] a.got = Many /\ setup.mode = "EMV" -> "failed"
                  [] a.got \in T1T /\ setup.limit # 0 /\ setup.mode # "EMV" -> "a.rid"
                  [] OTHER -> "a.sdd"
  /\ UNCHANGED <<setup, dev, loc>>

ARid ==
  /\ pc = "a.rid"
  /\ LET C == In("ready") \cap T1T IN
     \E a \in Answers(C) :
       /\ Reply(a)
       /\ card' = Moved(C, "active")
       /\ IF a.got \in Cards THEN dev' = <<Found(Uid[a.got])>> /\ pc' = "done"
                         ELSE pc' = "failed" /\ UNCHANGED dev
  /\ UNCHANGED <<setup, loc>>

-----------------------------------------------------------------------------
(* rfalNfcaPollerSingleCollisionResolution *)

Matching == {c \in Ready(loc.lvl) \ T1T : IsPrefix(loc.sel, SddRes(c, loc.lvl))}

\* What may be received of the answers of C: the bits of the strongest card up to a place
\* where another one differs.  A difference of a weak card may go unnoticed, that of a
\* strong one does not.
Received(C) ==
  LET bits(c) == SddRes(c, loc.lvl)
      differs(c, d) == {n \in 1 .. UidBits + ByteBits : bits(c)[n] # bits(d)[n]}
      strong == C \ setup.weak
      heard(c) == {n \in UNION {differs(c, d) : d \in C} :
                     \A d \in strong : \A m \in differs(c, d) : n <= m}
      whole(c) == IF \A d \in strong : differs(c, d) = {} THEN {bits(c)} ELSE {}
  IN UNION {{SubSeq(bits(c), 1, n - 1) : n \in heard(c)} \cup whole(c) :
              c \in IF strong = {} THEN C ELSE strong}

BytesOf(n) == (n + ByteBits - 1) \div ByteBits

\* A collision after the bits known: the next one is sent as bit, unless the check byte
\* collided, which sends only the UID part once more.
AfterCollision(known, bit, cnt) ==
  IF BytesOf(Len(known)) > UidBytes /\ cnt # 0
  THEN [sel |-> SubSeq(known, 1, UidBits), cnt |-> cnt - 1]
  ELSE [sel |-> Append(known, bit), cnt |-> cnt]

Collide(known, bit, back, cnt) ==
  LET next == AfterCollision(known, bit, cnt) IN
  /\ loc' = [loc EXCEPT !.sel = next.sel, !.cnt = next.cnt, !.back = back, !.coll = TRUE,
                        !.tries = Again]
  /\ pc' = IF setup.limit = 0 /\ ~loc.coll THEN "failed" ELSE "a.sdd"

\* SDD_REQ.  Without an answer where there must have been a collision, the last bit is
\* inverted, once, after a REQA.
ASdd ==
  /\ pc = "a.sdd"
  /\ \E H \in {{}, Matching} :
       /\ Hears(Matching, H)
       /\ LET after == [c \in Cards |-> IF card[c].st = "ready" /\ c \notin Matching
                                        THEN [st |-> "idle", at |-> 0] ELSE card[c]]
              n == Len(loc.sel) IN
          \/ /\ H = {} /\ loc.tries > 0
             /\ card' = after
             /\ loc' = [loc EXCEPT !.tries = @ - 1]
             /\ UNCHANGED pc
          \/ /\ H = {} /\ loc.tries = 0
             /\ loc.cnt # 0 /\ ~loc.back /\ n # 0
             /\ card' = [c \in Cards |-> IF after[c].st = "idle" THEN [st |-> "ready", at |-> 1]
                                         ELSE IF after[c].st = "ready" THEN [st |-> "idle", at |-> 0]
                                         ELSE after[c]]
             /\ Collide(SubSeq(loc.sel, 1, n - 1), 1 - loc.sel[n], TRUE, loc.cnt - 1)
          \/ /\ H = {} /\ loc.tries = 0
             /\ loc.cnt = 0 \/ loc.back \/ n = 0
             /\ card' = after
             /\ pc' = "failed"
             /\ UNCHANGED loc
          \/ /\ H # {}
             /\ card' = after
             /\ \E bits \in Received(H) :
                  IF Len(bits) = UidBits + ByteBits
                  THEN /\ loc' = [loc EXCEPT !.sel = bits, !.back = FALSE, !.tries = Again]
                       /\ pc' = "a.select"
                  ELSE Collide(bits, 1, FALSE, loc.cnt)
  /\ UNCHANGED <<setup, dev>>

\* A damaged SDD_RES, or one whose check byte does not match, ends the search.
ASddDamaged ==
  /\ pc = "a.sdd" /\ Matching # {} /\ lost < MaxLost
  /\ lost' = lost + 1
  /\ pc' = "failed"
  /\ UNCHANGED <<setup, card, dev, loc>>

\* SEL_REQ with the whole level.  A cascade tag goes on to the next one.
ASelect ==
  /\ pc = "a.select"
  /\ LET level == SubSeq(loc.sel, 1, UidBits)
         C == {c \in Ready(loc.lvl) \ T1T : Uid[c][loc.lvl] = level}
         last(c) == Len(Uid[c]) = loc.lvl IN
     \E H \in {{}, C} :
       /\ Hears(C, H)
       /\ \/ card' = [c \in Cards |->
                        CASE c \in C /\ last(c) -> [st |-> "active", at |-> 0]
                          [] c \in C -> [st |-> "ready", at |-> loc.lvl + 1]
                          [] card[c].st = "ready" -> [st |-> "idle", at |-> 0]
                          [] OTHER -> card[c]]
          \/ H = {} /\ C # {} /\ UNCHANGED card
       /\ \/ /\ H = {} /\ loc.tries > 0
             /\ loc' = [loc EXCEPT !.tries = @ - 1]
             /\ UNCHANGED <<pc, dev>>
          \/ /\ H = {} /\ loc.tries = 0
             /\ pc' = "failed"
             /\ UNCHANGED <<loc, dev>>
          \/ /\ H # {} /\ \A c \in H : ~last(c)
             /\ loc' = [loc EXCEPT !.lvl = @ + 1, !.sel = <<>>, !.uid = Append(@, level),
                                   !.tries = Again]
             /\ pc' = "a.sdd"
             /\ UNCHANGED dev
          \/ /\ H # {} /\ \A c \in H : last(c)
             /\ dev' = Append(dev, Found(Append(loc.uid, level)))
             /\ pc' = IF Len(dev') < setup.limit /\ (loc.coll \/ setup.mode # "ISO")
                      THEN "a.next" ELSE "done"
             /\ UNCHANGED loc
  /\ UNCHANGED setup

\* The card found is put to sleep and the others are asked for (9.3.4.22 and 9.3.4.23).
ANext ==
  /\ pc = "a.next"
  /\ Command(Slept)
  /\ dev' = LastAsleep
  /\ pc' = "a.others"
  /\ UNCHANGED <<setup, loc>>

\* Whatever is received, another card is there.
OtherIfClean(got) == got \in Cards
OtherFound(got) == got # None

AOthers ==
  /\ pc = "a.others"
  /\ \E a \in Answers(In("idle")) :
       /\ Reply(a)
       /\ card' = Woken(In("idle"))
       /\ pc' = IF OtherFound(a.got) THEN "a.sdd" ELSE "done"
       /\ loc' = [ALocals EXCEPT !.tries = Again]
  /\ UNCHANGED <<setup, dev>>

ANextStep == ADetect \/ ADetectSleep \/ AWake \/ ARid \/ ASdd \/ ASddDamaged \/ ASelect
             \/ ANext \/ AOthers
=============================================================================
