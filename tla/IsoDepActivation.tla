-------------------------- MODULE IsoDepActivation --------------------------
(***************************************************************************)
(* How reader and card agree on the parameters of ISO-DEP: the activation  *)
(* with RATS and PPS or ATTRIB, the change of the bit rate with            *)
(* S(PARAMETERS), and the first APDU, cut into the blocks agreed upon.     *)
(* Reader and card are rfal_isoDep.cpp, or the card is another make        *)
(* (external).  Frames get lost and damaged until the reader is active;    *)
(* what IsoDep does about them afterwards is its subject.                  *)
(*                                                                         *)
(* Bit rates are 0 (106 kbit/s) to 3 (848 kbit/s).                         *)
(***************************************************************************)
EXTENDS Integers, FiniteSets, FiniteSetsExt

CONSTANTS
  Cards,      \* what a card announces, and whether it is this library
  CompModes,  \* rfalIsoDepInitializeWithParams
  FSDIs, DIDs, MaxBRs,  \* arguments of the activation
  MaxRetriesRATS,
  ApduLens    \* lengths of the APDU the application sends first (bound)

\* What cards announce in ATS or SENSB_RES: bit rates, the size they receive and the time
\* they take; and, in answer to S(PARAMETERS), more bit rates.
BitRates == 0..3
Announced ==
  [rfu : BOOLEAN, same : BOOLEAN, ds : SUBSET BitRates, dr : SUBSET BitRates]
CardKind ==
  [make : {"library", "other"}, tech : {"A", "B"}, t0 : BOOLEAN, ta : BOOLEAN, tb : BOOLEAN,
   tc : BOOLEAN, br : Announced, fsci : 0..15, fwi : 0..15, didSupport : BOOLEAN,
   sp : [tx : SUBSET BitRates, rx : SUBSET BitRates]]

\* The library as a card is NFC-A; as either side, its buffer for a block
\* (RFAL_FEATURE_ISO_DEP_IBLOCK_MAX_LEN) holds no more than it may announce.
MaxFSxI == 8
ASSUME CardsAssumption ==
  /\ Cards \subseteq CardKind
  /\ \A c \in Cards : c.make = "library" => c.tech = "A" /\ c.fsci <= MaxFSxI
ASSUME ArgumentsAssumption ==
  /\ CompModes \subseteq {"NFC", "EMV", "ISO"} /\ MaxRetriesRATS \in Nat
  /\ FSDIs \subseteq 0..MaxFSxI /\ DIDs \subseteq 0..14 /\ MaxBRs \subseteq BitRates
  /\ ApduLens \subseteq Nat \ {0}

VARIABLES
  pcd,   \* gIsoDep of the reader, its call that runs and its RF bit rates
  dev,   \* isoDepDev->info, which outlives an activation
  card,  \* the card and, of the library as a card, gIsoDep
  air    \* the frame on its way, to whom, and how fast

vars == <<pcd, dev, card, air>>
-----------------------------------------------------------------------------
(* What the parameters stand for. *)

MaxFWT == 2^26
FWI2FWT(fwi) == Min({2^(IF fwi > 14 THEN 16 ELSE fwi + 12), MaxFWT})
FwiListenMax(mode) == IF mode = "EMV" THEN 7 ELSE 8

Sizes == <<16, 24, 32, 40, 48, 64, 96, 128, 256, 512, 1024, 2048, 4096>>
FSxI2FSx(mode, fsxi) == Sizes[Min({fsxi, IF mode = "EMV" THEN 12 ELSE 8}) + 1]

\* Mutant: the common rate need not be one the card has in both directions.
CalcBitRateAnyCommon(maxBR, br) ==
  LET Highest(rates, m) == Max({0} \cup {r \in rates : r <= m})
      dsi == Highest(br.ds, maxBR)
      dri == Highest(br.dr, maxBR)
  IN IF br.rfu THEN <<0, 0>>
     ELSE IF br.same THEN <<Min({dsi, dri}), Min({dsi, dri})>> ELSE <<dsi, dri>>

\* <<DSI, DRI>>: card to reader, reader to card.
CalcBitRate(maxBR, br) ==
  LET Highest(rates, m) == Max({0} \cup {r \in rates : r <= m})
      Common[m \in 0..3] ==
        LET low == Min({Highest(br.ds, m), Highest(br.dr, m)})
        IN IF low = 0 \/ low \in br.ds \cap br.dr THEN <<low, low>> ELSE Common[low]
  IN IF br.rfu \/ maxBR > 3 THEN <<0, 0>>
     ELSE IF br.same THEN Common[maxBR]
     ELSE <<Highest(br.ds, maxBR), Highest(br.dr, maxBR)>>
-----------------------------------------------------------------------------
(* The link. *)

Silence == [to |-> "none", rate |-> 0, msg |-> [type |-> "damaged"]]
Frame(to, rate, msg) == [to |-> to, rate |-> rate, msg |-> msg]
Sent(to, rate, msg) ==
  {Frame(to, rate, msg), Frame(to, rate, [type |-> "damaged"]), Silence}

ToCard(msg) == air' \in Sent("card", pcd.tx, msg)

\* The card answers in its frame waiting time what it understands.
Waits(pc) == pcd.pc = pc
Answered(pc, type) == Waits(pc) /\ air.to = "pcd" /\ air.rate = pcd.rx /\ air.msg.type = type
Unanswered(pc) == Waits(pc) /\ air.to = "none"
BadAnswer(pc) == Waits(pc) /\ air.to = "pcd"
                 /\ (air.msg.type = "damaged" \/ air.rate # pcd.rx)

InitPcd ==
  [pc |-> "idle", mode |-> "NFC", fsdi |-> 8, did |-> 0, maxBR |-> 0, retries |-> 0,
   tx |-> 0, rx |-> 0, fsx |-> 16, ourFsx |-> 16, hdrLen |-> 1, sfgt |-> FALSE,
   apdu |-> 0, pos |-> 0, inf |-> 0]
InitDev == [DSI |-> 0, DRI |-> 0, FSx |-> 0, FWT |-> 0, DID |-> 0, supDID |-> FALSE]
InitCard(c) ==
  [is |-> c, st |-> "selected", did |-> 0, tx |-> 0, rx |-> 0, next |-> <<0, 0>>,
   fsx |-> 16, ourFsx |-> 16, fwt |-> 0, guard |-> FALSE, got |-> 0]

Init ==
  /\ pcd = InitPcd
  /\ \E sup \in BOOLEAN : dev = [InitDev EXCEPT !.supDID = sup]
  /\ \E c \in Cards : card = InitCard(c)
  /\ air = Silence
-----------------------------------------------------------------------------
(* The reader: NFC-A. *)

Rats(p) == [type |-> "RATS", fsdi |-> p.fsdi, did |-> p.did]

rfalIsoDepPollAHandleActivation(mode, fsdi, did, maxBR) ==
  LET p == [InitPcd EXCEPT !.pc = "RATS", !.mode = mode, !.fsdi = fsdi, !.did = did,
                           !.maxBR = maxBR, !.retries = MaxRetriesRATS] IN
  /\ Waits("idle") /\ card.is.tech = "A"
  /\ pcd' = p
  /\ ToCard(Rats(p))
  /\ UNCHANGED <<dev, card>>

\* RATS is repeated after an error, in EMV mode only after a timeout.
RatsFails(timeout) ==
  /\ IF pcd.retries > 0 /\ (pcd.mode = "EMV" => timeout)
       THEN pcd' = [pcd EXCEPT !.retries = @ - 1] /\ ToCard(Rats(pcd))
       ELSE IF pcd.mode = "ISO"
       THEN pcd' = [pcd EXCEPT !.pc = "DSL"] /\ ToCard([type |-> "DSL"])
       ELSE pcd' = [pcd EXCEPT !.pc = "failed"] /\ air' = Silence
  /\ UNCHANGED <<dev, card>>
RatsTimeout == Unanswered("RATS") /\ RatsFails(TRUE)
RatsError == BadAnswer("RATS") /\ RatsFails(FALSE)

\* rfalIsoDepDeselect initialises the layer: the next activation is in NFC mode.
Deselected ==
  /\ Waits("DSL") /\ air.to # "card"
  /\ pcd' = [InitPcd EXCEPT !.pc = "failed"]
  /\ air' = Silence
  /\ UNCHANGED <<dev, card>>

\* Mutant: every card is taken to receive the default frame size.
ProcessAtsIgnoresFsci ==
  LET ats == air.msg
      br == IF ats.t0 /\ ats.ta THEN CalcBitRate(pcd.maxBR, ats.br) ELSE <<0, 0>>
      supDID == IF ats.t0 /\ ats.tc THEN ats.didSupport ELSE dev.supDID
      fsx == FSxI2FSx(pcd.mode, 8)
  IN
  /\ Answered("RATS", "ATS")
  /\ dev' = [DSI |-> br[1], DRI |-> br[2], FSx |-> fsx,
             FWT |-> FWI2FWT(IF ats.t0 /\ ats.tb THEN ats.fwi ELSE 4),
             DID |-> IF supDID THEN pcd.did ELSE 0, supDID |-> supDID]
  /\ pcd' = [pcd EXCEPT !.pc = IF br = <<0, 0>> THEN "active" ELSE "PPS",
                        !.sfgt = TRUE, !.fsx = fsx,
                        !.ourFsx = FSxI2FSx(pcd.mode, pcd.fsdi)]
  /\ air' = Silence
  /\ UNCHANGED card

\* TC, which tells if DIDs are supported, may be missing, and is not defaulted.
ProcessAts ==
  LET ats == air.msg
      br == IF ats.t0 /\ ats.ta THEN CalcBitRate(pcd.maxBR, ats.br) ELSE <<0, 0>>
      supDID == IF ats.t0 /\ ats.tc THEN ats.didSupport ELSE dev.supDID
      fsx == FSxI2FSx(pcd.mode, IF ats.t0 THEN ats.fsci ELSE 2)
  IN
  /\ Answered("RATS", "ATS")
  /\ dev' = [DSI |-> br[1], DRI |-> br[2], FSx |-> fsx,
             FWT |-> FWI2FWT(IF ats.t0 /\ ats.tb THEN ats.fwi ELSE 4),
             DID |-> IF supDID THEN pcd.did ELSE 0, supDID |-> supDID]
  /\ pcd' = [pcd EXCEPT !.pc = IF br = <<0, 0>> THEN "active" ELSE "PPS",
                        !.sfgt = TRUE, !.fsx = fsx,
                        !.ourFsx = FSxI2FSx(pcd.mode, pcd.fsdi)]
  /\ air' = Silence
  /\ UNCHANGED card

\* SFGTTimer, started with the ATS, runs longer than the card's guard time.
SfgtExpires ==
  /\ pcd.sfgt /\ ~card.guard
  /\ pcd' = [pcd EXCEPT !.sfgt = FALSE]
  /\ UNCHANGED <<dev, card, air>>

\* Mutant: the request does not wait for the guard time.
PPSTooEarly ==
  /\ Waits("PPS")
  /\ pcd' = [pcd EXCEPT !.pc = "PPSRES"]
  /\ ToCard([type |-> "PPS", did |-> dev.DID, dsi |-> dev.DSI, dri |-> dev.DRI])
  /\ UNCHANGED <<dev, card>>

rfalIsoDepPPS ==
  /\ Waits("PPS") /\ ~pcd.sfgt
  /\ pcd' = [pcd EXCEPT !.pc = "PPSRES"]
  /\ ToCard([type |-> "PPS", did |-> dev.DID, dsi |-> dev.DSI, dri |-> dev.DRI])
  /\ UNCHANGED <<dev, card>>

PpsAnswered ==
  /\ Answered("PPSRES", "PPSRES")
  /\ pcd' = [pcd EXCEPT !.pc = "active", !.tx = dev.DRI, !.rx = dev.DSI]
  /\ air' = Silence
  /\ UNCHANGED <<dev, card>>

\* The request is not repeated; the reader stays at 106 kbit/s.
PpsFails ==
  /\ Unanswered("PPSRES") \/ BadAnswer("PPSRES")
  /\ pcd' = [pcd EXCEPT !.pc = "active"]
  /\ dev' = [dev EXCEPT !.DSI = 0, !.DRI = 0]
  /\ air' = Silence
  /\ UNCHANGED card
-----------------------------------------------------------------------------
(* The reader: NFC-B.  What the ATS tells is in SENSB_RES. *)

Attrib(p, br) ==
  [type |-> "ATTRIB", did |-> p.did, dsi |-> br[1], dri |-> br[2], fsdi |-> p.fsdi]

rfalIsoDepPollBHandleActivation(mode, fsdi, did, maxBR) ==
  LET c == card.is
      br == CalcBitRate(maxBR, c.br)
      fsx == FSxI2FSx(mode, c.fsci)
      p == [InitPcd EXCEPT !.pc = "ATTRIB", !.mode = mode, !.fsdi = fsdi, !.did = did,
                           !.maxBR = maxBR, !.fsx = fsx]
  IN
  /\ Waits("idle") /\ c.tech = "B"
  /\ did # 0 => c.didSupport
  /\ pcd' = p
  /\ dev' = [DSI |-> br[1], DRI |-> br[2], FSx |-> fsx, FWT |-> FWI2FWT(c.fwi),
             DID |-> did, supDID |-> c.didSupport]
  /\ ToCard(Attrib(p, br))
  /\ UNCHANGED card

AttribAnswered ==
  /\ Answered("ATTRIB", "ATTRIBRES")
  /\ pcd' = [pcd EXCEPT !.pc = "active", !.tx = dev.DRI, !.rx = dev.DSI, !.sfgt = TRUE,
                        !.ourFsx = FSxI2FSx(pcd.mode, pcd.fsdi)]
  /\ air' = Silence
  /\ UNCHANGED <<dev, card>>

AttribFails ==
  /\ Unanswered("ATTRIB") \/ BadAnswer("ATTRIB")
  /\ pcd' = [pcd EXCEPT !.pc = "failed", !.ourFsx = FSxI2FSx(pcd.mode, pcd.fsdi)]
  /\ dev' = [dev EXCEPT !.DSI = 0, !.DRI = 0]
  /\ air' = Silence
  /\ UNCHANGED card
-----------------------------------------------------------------------------
(* The reader: S(PARAMETERS) *)

rfalIsoDepPollHandleSParameters(maxBR) ==
  /\ Waits("active") /\ pcd.apdu = 0
  /\ pcd' = [pcd EXCEPT !.pc = "BRIND", !.maxBR = maxBR]
  /\ ToCard([type |-> "BRREQ"])
  /\ UNCHANGED <<dev, card>>

BrIndAnswered ==
  LET Highest(rates) == Max({0} \cup {r \in rates : r <= pcd.maxBR})
      tx == Highest(air.msg.tx)
      rx == Highest(air.msg.rx)
  IN
  /\ Answered("BRIND", "BRIND") /\ {} \notin {air.msg.tx, air.msg.rx}
  /\ pcd' = [pcd EXCEPT !.pc = "BRACK", !.inf = <<tx, rx>>]
  /\ ToCard([type |-> "BRACT", tx |-> tx, rx |-> rx])
  /\ UNCHANGED <<dev, card>>

BrAckAnswered ==
  /\ Answered("BRACK", "BRACK")
  /\ pcd' = [pcd EXCEPT !.pc = "tuned", !.tx = pcd.inf[1], !.rx = pcd.inf[2], !.inf = 0]
  /\ dev' = [dev EXCEPT !.DRI = pcd.inf[1], !.DSI = pcd.inf[2]]
  /\ air' = Silence
  /\ UNCHANGED card

\* The application goes on at the rates it has, though after a lost BRACK the
\* card has changed its own.  Nothing is sent to a card without a rate in a direction.
SParametersFail ==
  /\ \/ \E pc \in {"BRIND", "BRACK"} : Unanswered(pc) \/ BadAnswer(pc)
     \/ Answered("BRIND", "BRIND") /\ {} \in {air.msg.tx, air.msg.rx}
  /\ pcd' = [pcd EXCEPT !.pc = "tuned", !.inf = 0]
  /\ air' = Silence
  /\ UNCHANGED <<dev, card>>
-----------------------------------------------------------------------------
(* The reader: an APDU *)

PcbLen == 1
CrcLen == 2
rfalIsoDepGetMaxInfLen(p) ==
  IF p.fsx < 16 \/ p.fsx > 4096 \/ p.hdrLen > 3 THEN 16 - PcbLen - CrcLen
  ELSE p.fsx - p.hdrLen - CrcLen

\* rfalIsoDepApdu2IBLockParam
NextBlock(p, pos) == [p EXCEPT !.pc = "PCD_TX", !.pos = pos,
                               !.inf = Min({p.apdu - pos, rfalIsoDepGetMaxInfLen(p)})]

\* The size the reader receives is overwritten, by the flag to keep it as well.
KeepFSx == 255
rfalIsoDepStartApduTransceive(len) ==
  /\ pcd.pc \in {"active", "tuned"} /\ pcd.apdu = 0
  /\ \E ourFsx \in {KeepFSx, pcd.ourFsx} :
       pcd' = NextBlock([pcd EXCEPT !.apdu = len, !.fsx = dev.FSx, !.ourFsx = ourFsx], 0)
  /\ UNCHANGED <<dev, card, air>>

HdrLen == PcbLen + (IF dev.DID # 0 THEN 1 ELSE 0)

\* isoDepTx refuses a block that is too long.
PcdTx ==
  LET len == HdrLen + pcd.inf + CrcLen IN
  /\ Waits("PCD_TX") /\ ~pcd.sfgt
  /\ IF len > pcd.fsx
       THEN pcd' = [pcd EXCEPT !.pc = "refused", !.hdrLen = HdrLen] /\ UNCHANGED air
       ELSE /\ pcd' = [pcd EXCEPT !.pc = "PCD_RX", !.hdrLen = HdrLen]
            /\ air' = Frame("card", pcd.tx, [type |-> "I", did |-> dev.DID, len |-> len,
                                             inf |-> pcd.inf])
  /\ UNCHANGED <<dev, card>>

\* rfalIsoDepGetApduTransceiveStatus: the block is acknowledged, or the APDU
\* answered.
BlockDone ==
  /\ Answered("PCD_RX", "ACK")
  /\ pcd' = IF pcd.pos + pcd.inf < pcd.apdu THEN NextBlock(pcd, pcd.pos + pcd.inf)
            ELSE [pcd EXCEPT !.pc = "sent"]
  /\ air' = Silence
  /\ UNCHANGED <<dev, card>>

\* Nothing, or at the wrong rate, answers, however often the block is repeated.
BlockFails ==
  /\ Unanswered("PCD_RX") \/ BadAnswer("PCD_RX")
  /\ pcd' = [pcd EXCEPT !.pc = "failed"]
  /\ air' = Silence
  /\ UNCHANGED <<dev, card>>

\* The reader deactivates; the next card comes.
Deactivate ==
  /\ pcd.pc \in {"active", "tuned", "sent", "refused", "failed"}
  /\ pcd' = [InitPcd EXCEPT !.sfgt = pcd.sfgt]
  /\ card' \in {InitCard(c) : c \in Cards}
  /\ air' = Silence
  /\ UNCHANGED dev
-----------------------------------------------------------------------------
(* The card. *)

Receives(type) == air.to = "card" /\ air.rate = card.rx /\ air.msg.type = type
Library == card.is.make = "library"
ToPcd(msg) == air' \in Sent("pcd", card.tx, msg)

\* The library is a card in NFC mode; another make takes a size for what it is.
CardFSx(fsxi) == FSxI2FSx(IF Library THEN "NFC" ELSE "EMV", fsxi)

\* rfalIsoDepListenStartActivation: the waiting time is bounded before it is
\* announced.  The library announces every parameter.
ListenStartActivation ==
  LET c == card.is
      fwi == IF Library THEN Min({c.fwi, FwiListenMax("NFC")}) ELSE c.fwi
  IN
  /\ Receives("RATS")
  /\ card.st = "selected" \/ (card.st = "ACT_ATS" /\ ~Library)
  /\ card' = [card EXCEPT !.st = "ACT_ATS", !.guard = TRUE,
                          !.did = IF c.didSupport THEN air.msg.did ELSE 0,
                          !.fsx = CardFSx(air.msg.fsdi),
                          !.ourFsx = CardFSx(IF c.t0 THEN c.fsci ELSE 2),
                          !.fwt = FWI2FWT(IF c.t0 /\ c.tb THEN fwi ELSE 4)]
  /\ ToPcd([type |-> "ATS", t0 |-> c.t0, ta |-> c.ta, tb |-> c.tb, tc |-> c.tc, br |-> c.br,
            fsci |-> c.fsci, fwi |-> fwi, didSupport |-> c.didSupport])
  /\ UNCHANGED <<pcd, dev>>

\* rfalIsoDepListenGetActivationStatus: the request is answered and then the
\* rates are changed.
ReceivePps ==
  /\ Receives("PPS") /\ card.st = "ACT_ATS"
  /\ IF air.msg.did = card.did
       THEN /\ card' = [card EXCEPT !.st = "switching", !.next = <<air.msg.dsi, air.msg.dri>>]
            /\ ToPcd([type |-> "PPSRES"])
       ELSE air' = Silence /\ UNCHANGED card
  /\ UNCHANGED <<pcd, dev>>

\* Mutant: the directions are swapped.
SwitchSwapped ==
  /\ card.st = "switching"
  /\ card' = [card EXCEPT !.st = "PICC_RX", !.tx = card.next[2], !.rx = card.next[1]]
  /\ UNCHANGED <<pcd, dev, air>>

Switch ==
  /\ card.st = "switching"
  /\ card' = [card EXCEPT !.st = "PICC_RX", !.tx = card.next[1], !.rx = card.next[2]]
  /\ UNCHANGED <<pcd, dev, air>>

\* Any other frame ends the activation, in the library even a damaged one: a
\* repeated RATS is not answered.
ReceiveOther ==
  /\ air.to = "card" /\ card.st = "ACT_ATS"
  /\ \/ Receives("RATS") /\ Library
     \/ Receives("I") \/ Receives("BRREQ") \/ Receives("DSL")
     \/ Receives("damaged")
  /\ card' = IF Receives("damaged") /\ ~Library THEN card ELSE [card EXCEPT !.st = "PICC_RX"]
  /\ air' = IF Receives("I") \/ Receives("BRREQ") THEN air ELSE Silence
  /\ UNCHANGED <<pcd, dev>>

\* What the card does not expect, or does not understand at its rate.  What
\* arrives while it changes its rates is repeated.
Ignores ==
  /\ air.to = "card" /\ card.st # "switching"
  /\ \/ air.rate # card.rx
     \/ card.st = "selected" /\ ~(\E type \in {"RATS", "ATTRIB"} : Receives(type))
     \/ card.st = "PICC_RX" /\ ~Receives("I") /\ ~(Receives("BRREQ") /\ ~Library)
        /\ ~(Receives("BRACT") /\ ~Library)
  /\ air' = Silence
  /\ UNCHANGED <<pcd, dev, card>>

ReceiveAttrib ==
  LET c == card.is IN
  /\ Receives("ATTRIB") /\ card.st = "selected"
  /\ card' = [card EXCEPT !.st = "switching", !.next = <<air.msg.dsi, air.msg.dri>>,
                          !.did = air.msg.did, !.guard = TRUE,
                          !.fsx = CardFSx(air.msg.fsdi), !.ourFsx = CardFSx(c.fsci),
                          !.fwt = FWI2FWT(c.fwi)]
  /\ ToPcd([type |-> "ATTRIBRES"])
  /\ UNCHANGED <<pcd, dev>>

\* External: the library as a card does not answer S(PARAMETERS).
ReceiveSParameters ==
  /\ ~Library /\ card.st = "PICC_RX"
  /\ \/ /\ Receives("BRREQ")
        /\ ToPcd([type |-> "BRIND", tx |-> card.is.sp.tx, rx |-> card.is.sp.rx])
        /\ UNCHANGED card
     \/ /\ Receives("BRACT")
        /\ ToPcd([type |-> "BRACK"])
        /\ card' = [card EXCEPT !.st = "switching", !.next = <<air.msg.rx, air.msg.tx>>]
  /\ UNCHANGED <<pcd, dev>>

ReceiveBlock ==
  /\ Receives("I") /\ card.st = "PICC_RX"
  /\ IF air.msg.did = card.did /\ air.msg.len <= card.ourFsx
       THEN /\ card' = [card EXCEPT !.got = @ + air.msg.inf]
            /\ air' = Frame("pcd", card.tx, [type |-> "ACK"])
       ELSE air' = Silence /\ UNCHANGED card
  /\ UNCHANGED <<pcd, dev>>

GuardTimeEnds ==
  /\ card.guard
  /\ card' = [card EXCEPT !.guard = FALSE]
  /\ UNCHANGED <<pcd, dev, air>>
-----------------------------------------------------------------------------
Reader ==
  \/ \E mode \in CompModes, fsdi \in FSDIs, did \in DIDs, maxBR \in MaxBRs :
       \/ rfalIsoDepPollAHandleActivation(mode, fsdi, did, maxBR)
       \/ rfalIsoDepPollBHandleActivation(mode, fsdi, did, maxBR)
  \/ RatsTimeout \/ RatsError \/ Deselected \/ ProcessAts
  \/ SfgtExpires \/ rfalIsoDepPPS \/ PpsAnswered \/ PpsFails
  \/ AttribAnswered \/ AttribFails
  \/ \E maxBR \in MaxBRs : rfalIsoDepPollHandleSParameters(maxBR)
  \/ BrIndAnswered \/ BrAckAnswered \/ SParametersFail
  \/ \E len \in ApduLens : rfalIsoDepStartApduTransceive(len)
  \/ PcdTx \/ BlockDone \/ BlockFails
  \/ Deactivate

Card ==
  \/ ListenStartActivation \/ ReceivePps \/ Switch \/ ReceiveOther \/ Ignores
  \/ ReceiveAttrib \/ ReceiveSParameters \/ ReceiveBlock \/ GuardTimeEnds

Next == Reader \/ Card
Spec == Init /\ [][Next]_vars
-----------------------------------------------------------------------------
\* Once active, each side sends no longer frames than the other receives, the
\* reader waits as long as the card may take, and both use the same DID.
ParametersAgree ==
  pcd.pc \in {"PCD_TX", "PCD_RX", "sent"} =>
    /\ pcd.fsx <= card.ourFsx /\ card.fsx - CrcLen < pcd.ourFsx
    /\ dev.FWT >= card.fwt
    /\ dev.DID = card.did

\* The reader changes its bit rates only to those the card has changed to, or
\* does after its answer, each in its direction.
RatesFollowCard ==
  [][pcd'.pc \in {"active", "tuned"} /\ <<pcd'.rx, pcd'.tx>> # <<pcd.rx, pcd.tx>> =>
       <<pcd'.rx, pcd'.tx>> =
         (IF card.st = "switching" THEN card.next ELSE <<card.tx, card.rx>>)]_vars

\* The reader asks for the highest rates, up to its limit, that the card has in
\* either direction, or in both if it can only do the same (rfalIsoDepCalcBitRate).
Possible(c, maxBR) ==
  LET dsis == {0} \cup {r \in c.br.ds : r <= maxBR}
      dris == {0} \cup {r \in c.br.dr : r <= maxBR}
  IN IF c.br.rfu \/ (c.tech = "A" /\ ~(c.t0 /\ c.ta)) THEN {<<0, 0>>}
     ELSE {pair \in dsis \X dris : c.br.same => pair[1] = pair[2]}
BestRates ==
  (pcd.pc \in {"PPS", "PPSRES", "ATTRIB"} \/ (pcd.pc = "active" /\ pcd.sfgt)) =>
    LET possible == Possible(card.is, pcd.maxBR) IN
    /\ <<dev.DSI, dev.DRI>> \in possible
    /\ \A pair \in possible : pair[1] <= dev.DSI /\ pair[2] <= dev.DRI

\* After its ATS or the response to ATTRIB a card is left alone for the guard time
\* it announced, by PPS as by the first block (SFGTTimer).
GuardTimeKept ==
  air.to = "card" /\ air.msg.type \in {"PPS", "I"} => ~card.guard
=============================================================================
