------------------------------- MODULE NfcDep -------------------------------
(***************************************************************************)
(* NFC-DEP of rfal_nfcDep.cpp, with the library as initiator               *)
(* (nfcipInitiatorHandleDEP) and as target (nfcipTargetHandleRX), from the *)
(* ATR to the release, over a link with faults.  Messages may be chained   *)
(* (MI) by either side, one call of rfalNfcDepStartTransceive per part.    *)
(*                                                                         *)
(* A PDU carries <<n, i>>, the i-th part of the n-th command or of its     *)
(* answer.  Lengths, DID, NAD and the values of the times are left out.    *)
(***************************************************************************)
EXTENDS Integers, Sequences

CONSTANTS
  MaxRetries,    \* NFCIP_MAX_TX, _TO, _RTOX, _NACK and _ATN_RETRYS
  AtrRetries,    \* NFCIP_ATR_RETRY_MAX
  MaxCommands,   \* commands of the initiator's application (bound)
  Setups         \* see Setup

\* parts: of the longest message.  extends: the target's application asks for the
\* status while it works on an answer.  faults: what may happen to which PDUs.
Setup == [parts : Nat, extends : BOOLEAN, faults : SUBSET (STRING \X STRING \X STRING)]

ASSUME RetriesAssumption == MaxRetries \in Nat /\ AtrRetries \in Nat
ASSUME CommandsAssumption == MaxCommands \in Nat
ASSUME SetupAssumption ==
  \A s \in Setups : s.parts \in Nat \ {0} /\ s.extends \in BOOLEAN

VARIABLES
  ini,        \* gNfcip of the initiator and its application's message
  call,       \* the call of the initiator's application that runs, or how it ended
  tgt,        \* gNfcip of the target and its application's message
  air,        \* the frame on its way, and to whom
  setup,
  \* History.
  asked, executed, answered,   \* see ApduService
  errors, extensions           \* since a block last got through

history == <<asked, executed, answered, errors, extensions>>
vars == <<ini, call, tgt, air, setup, history>>

Part == Nat \X Nat
DepTypes == {"I", "ACK", "NACK", "ATN", "TO"}
Pdu == [type : {"I"}, pni : 0..3, mi : BOOLEAN, inf : Part]
       \cup [type : {"ACK", "NACK"}, pni : 0..3]
       \cup [type : {"ATN", "TO", "ATR", "PSL", "DSL", "RLS", "damaged"}]
I(pni, mi, n, i) == [type |-> "I", pni |-> pni, mi |-> mi, inf |-> <<n, i>>]
ACK(pni) == [type |-> "ACK", pni |-> pni]
NACK(pni) == [type |-> "NACK", pni |-> pni]
Frame(type) == [type |-> type]

\* A frame that is sent arrives, arrives damaged, or is lost.
Silence == [to |-> "none", pdu |-> Frame("damaged")]
Sent(to, b) ==
  {[to |-> to, pdu |-> b]}
  \cup {f \in {[to |-> to, pdu |-> Frame("damaged")]} : <<"damage", to, b.type>> \in setup.faults}
  \cup {f \in {Silence} : <<"loss", to, b.type>> \in setup.faults}

\* nfcip_PNIInc, nfcip_PNIDec
PNIDec(pni) == (pni + 3) % 4
PNIInc(pni) == (pni + 1) % 4

\* rfalNfcDepInitialize; lastPFB and lastPFBnATN keep what they were.
ClearCounters(p) ==
  [p EXCEPT !.cntTO = 0, !.cntNACK = 0, !.cntATN = 0, !.cntTx = 0, !.cntRTOX = 0]
InitIni(lastN) ==
  [state |-> "IDLE", pni |-> 0, last |-> "INVALID", lastN |-> lastN, mi |-> FALSE,
   cntTO |-> 0, cntNACK |-> 0, cntATN |-> 0, cntTx |-> 0, cntRTOX |-> 0,
   br |-> "low", atr |-> 0, parts |-> 0, pos |-> 0, got |-> <<>>]
InitTgt(lastN) ==
  [state |-> "LISTEN", pni |-> 0, last |-> "INVALID", lastN |-> lastN, mi |-> FALSE,
   cntRTOX |-> 0, wait |-> FALSE, pending |-> FALSE, br |-> "low",
   owes |-> "none", todo |-> 0, reply |-> 0, parts |-> 0, pos |-> 0, got |-> <<>>]

Init ==
  /\ ini = InitIni("INVALID") /\ tgt = InitTgt("INVALID")
  /\ call = "off" /\ air = Silence
  /\ setup \in Setups
  /\ asked = 0 /\ executed = <<>> /\ answered = 0 /\ errors = 0 /\ extensions = 0

Least(m, n) == IF m <= n THEN m ELSE n
Error == errors' = Least(errors + 1, MaxRetries + 1)
Extension == extensions' = Least(extensions + 1, MaxRetries + 2)
Progress == errors' = 0 /\ extensions' = 0

\* A message of the given number of parts has been received.
Whole(got, n, parts) == got = [i \in 1..parts |-> <<n, i>>]

\* nfcipTx: lastPFB, and lastPFBnATN but for an ATN.
Sends(p, b) ==
  [p EXCEPT !.last = IF b.type \in DepTypes THEN b.type ELSE "INVALID",
            !.lastN = IF b.type \in DepTypes \ {"ATN"} THEN b.type ELSE @]
-----------------------------------------------------------------------------
(* Activation and release by the initiator. *)

rfalNfcDepATR ==
  /\ call = "off"
  /\ call' = "atr"
  /\ ini' = Sends([InitIni(ini.lastN) EXCEPT !.atr = 1], Frame("ATR"))
  /\ air' \in Sent("tgt", Frame("ATR"))
  /\ UNCHANGED <<tgt, setup, history>>

\* The target is known; a PSL changes the bit rate if another one is wanted.
AtrAnswered(psl) ==
  /\ call = "atr" /\ air.to = "ini" /\ air.pdu.type = "ATR"
  /\ IF psl THEN call' = "psl" /\ air' \in Sent("tgt", Frame("PSL"))
            ELSE call' = "idle" /\ air' = Silence
  /\ UNCHANGED <<ini, tgt, setup, history>>

PslAnswered ==
  /\ call = "psl" /\ air.to = "ini" /\ air.pdu.type = "PSL"
  /\ call' = "idle" /\ air' = Silence
  /\ ini' = [ini EXCEPT !.br = "high"]
  /\ UNCHANGED <<tgt, setup, history>>

\* The target hears what is sent at its bit rate.
Hears == tgt.state \in {"LISTEN", "WAIT_ACTV", "RX"}
\* The response waiting time ends when no answer is on its way.  A target that
\* asks for extensions does so in time.
Expires ==
  /\ air.to # "ini" /\ ~(air.to = "tgt" /\ Hears)
  /\ tgt.state \in {"RTOX", "TX"} => ~setup.extends
Damaged == air.to = "ini" /\ air.pdu.type = "damaged"

\* A damaged answer repeats the ATR; anything else ends the activation.
AtrRetry ==
  /\ call = "atr" /\ Damaged /\ ini.atr <= AtrRetries
  /\ ini' = [ini EXCEPT !.atr = @ + 1]
  /\ air' \in Sent("tgt", Frame("ATR"))
  /\ UNCHANGED <<call, tgt, setup, history>>

ActivationFails ==
  /\ \/ call = "atr" /\ (Expires \/ (Damaged /\ ini.atr > AtrRetries))
     \/ call = "psl" /\ (Expires \/ Damaged)
  /\ call' = "ended" /\ air' = Silence
  /\ UNCHANGED <<ini, tgt, setup, history>>

\* rfalNfcDepRLS and rfalNfcDepDSL, not repeated.
Release(type) ==
  /\ call \in {"idle", "failed"}
  /\ call' = "release"
  /\ ini' = Sends(ini, Frame(type))
  /\ air' \in Sent("tgt", Frame(type))
  /\ UNCHANGED <<tgt, setup, history>>

\* Whatever comes, or nothing, the session is over.
Released ==
  /\ call = "release" /\ (air.to = "ini" \/ Expires)
  /\ call' = "ended" /\ air' = Silence
  /\ UNCHANGED <<ini, tgt, setup, history>>

\* The field goes off.
FieldOff ==
  /\ call = "ended"
  /\ call' = "off" /\ air' = Silence
  /\ tgt' = InitTgt(tgt.lastN)
  /\ UNCHANGED <<ini, setup, history>>
-----------------------------------------------------------------------------
(* The initiator's data exchange. *)

\* Mutant: the counters go on.
StartPartCountersGoOn(p, pos) ==
  [p EXCEPT !.state = "TX", !.pos = pos, !.mi = (pos + 1 < p.parts)]
\* nfcipSetDEPParams
StartPart(p, pos) ==
  [ClearCounters(p) EXCEPT !.state = "TX", !.pos = pos, !.mi = (pos + 1 < p.parts)]

rfalNfcDepStartTransceive(parts) ==
  /\ call = "idle" /\ asked < MaxCommands
  /\ call' = "transceive"
  /\ asked' = asked + 1
  /\ ini' = StartPart([ini EXCEPT !.parts = parts, !.got = <<>>], 0)
  /\ Progress
  /\ UNCHANGED <<tgt, air, setup, executed, answered>>

\* nfcipRun, NFCIP_ST_INIT_DEP_TX
IniTx ==
  LET b == I(ini.pni, ini.mi, asked, ini.pos + 1) IN
  /\ call = "transceive" /\ ini.state = "TX"
  /\ ini' = [Sends(ini, b) EXCEPT !.state = "RX"]
  /\ air' \in Sent("tgt", b)
  /\ UNCHANGED <<call, tgt, setup, history>>

Waiting == call = "transceive" /\ ini.state = "RX"
Fails(p) == call' = "failed" /\ air' = Silence /\ ini' = p
Control(p, b) == ini' = Sends(p, b) /\ air' \in Sent("tgt", b) /\ UNCHANGED call
Recovered == Error /\ UNCHANGED extensions

\* Mutant: an endless attention.
TimeoutUncounted ==
  /\ Waiting /\ Expires /\ Recovered
  /\ UNCHANGED <<tgt, setup, asked, executed, answered>>
  /\ Control(ini, IF ini.last = "NACK" THEN NACK(ini.pni) ELSE Frame("ATN"))

\* ST_ERR_TIMEOUT: the NACK again, or an ATN.
Timeout ==
  LET p == [ini EXCEPT !.cntTO = @ + 1]
      n == [p EXCEPT !.cntNACK = @ + 1]
      a == [p EXCEPT !.cntATN = @ + 1]
  IN
  /\ Waiting /\ Expires /\ Recovered
  /\ UNCHANGED <<tgt, setup, asked, executed, answered>>
  /\ IF ini.cntTO >= MaxRetries THEN Fails(p)
     ELSE IF ini.last = "NACK"
       THEN IF ini.cntNACK >= MaxRetries THEN Fails(n) ELSE Control(n, NACK(ini.pni))
     ELSE IF ini.cntATN >= MaxRetries THEN Fails(a) ELSE Control(a, Frame("ATN"))

\* ST_ERR_CRC, _PAR, _FRAMING, _RF_COLLISION
ReceiveError ==
  LET n == [ini EXCEPT !.cntNACK = @ + 1] IN
  /\ Recovered
  /\ IF ini.cntNACK >= MaxRetries THEN Fails(n) ELSE Control(n, NACK(ini.pni))

\* The part is acknowledged and the application starts the next one.
Acknowledged ==
  LET next == [ini EXCEPT !.pni = PNIInc(@)] IN
  IF ini.mi
    THEN ini' = StartPart(next, ini.pos + 1) /\ air' = Silence /\ Progress /\ UNCHANGED call
    ELSE Fails(next) /\ UNCHANGED <<errors, extensions>>

Retransmits(p) ==
  IF ini.cntTx >= MaxRetries THEN Fails(p)
  ELSE ini' = [p EXCEPT !.state = "TX"] /\ air' = Silence /\ UNCHANGED call

\* Another acknowledgement: of the previous block it asks for this one again.
AcknowledgedOther(pni) ==
  LET p == [ini EXCEPT !.cntTx = @ + 1] IN
  IF pni = PNIDec(ini.pni) THEN Retransmits(p) ELSE Fails(p)

\* The answer to an ATN.  What is sent again is the confirmed extension or the
\* I-PDU of txBuf, also when the last PDU was an ACK.
Attended ==
  LET p == [ini EXCEPT !.cntATN = 0] IN
  IF ini.last # "ATN" THEN Fails(ini)
  ELSE IF ini.lastN = "TO" THEN Control(p, Frame("TO"))
  ELSE Retransmits([p EXCEPT !.cntTx = @ + 1])

\* A request for more time, confirmed.
Extended ==
  LET p == [ini EXCEPT !.cntRTOX = @ + 1] IN
  /\ Extension /\ UNCHANGED errors
  /\ IF ini.cntRTOX > MaxRetries \/ ini.last = "ATN" THEN Fails(p) ELSE Control(p, Frame("TO"))

\* An I-PDU with the right number: a part, which is acknowledged, or the end of
\* the answer.  After the answer to a part the application starts the next one.
ReceiveI ==
  LET b == air.pdu
      fresh == ClearCounters([ini EXCEPT !.pni = PNIInc(@), !.got = Append(@, b.inf)])
  IN
  IF b.pni # ini.pni THEN Fails(ini) /\ UNCHANGED <<answered, errors, extensions>>
  ELSE IF b.mi THEN Control(fresh, ACK(fresh.pni)) /\ Progress /\ UNCHANGED answered
  ELSE /\ air' = Silence /\ Progress
       /\ IF ini.mi THEN ini' = StartPart(fresh, ini.pos + 1) /\ UNCHANGED <<call, answered>>
          ELSE /\ ini' = [fresh EXCEPT !.state = "IDLE"]
               /\ call' = "idle"
               /\ answered' = IF Whole(fresh.got, tgt.reply, tgt.parts) THEN tgt.reply ELSE 0

\* nfcipInitiatorHandleDEP.  A target sends no NACK, and answers to other requests
\* are errors.
InitiatorReceive ==
  LET b == air.pdu IN
  /\ Waiting /\ air.to = "ini"
  /\ UNCHANGED <<tgt, setup, asked, executed>>
  /\ IF b.type = "I" THEN ReceiveI
     ELSE /\ UNCHANGED answered
          /\ CASE b.type = "damaged" -> ReceiveError
               [] b.type = "ACK" /\ b.pni = ini.pni -> Acknowledged
               [] b.type = "TO" -> Extended
               [] OTHER -> /\ UNCHANGED <<errors, extensions>>
                           /\ CASE b.type = "ACK" -> AcknowledgedOther(b.pni)
                                [] b.type = "ATN" -> Attended
                                [] OTHER -> Fails(ini)
-----------------------------------------------------------------------------
(* The target. *)

Replies(p, b) == tgt' = Sends(p, b) /\ air' \in Sent("ini", b)
\* nfcDepReEnableRx
Ignore == air' = Silence /\ UNCHANGED tgt
\* An error of the layer is reported to the application, which stops.
Reports(p) == air' = Silence /\ tgt' = [p EXCEPT !.state = "IDLE"]

\* rfalNfcDepListenStartActivation
TargetATR ==
  IF air.pdu.type = "ATR" THEN Replies([tgt EXCEPT !.state = "WAIT_ACTV"], Frame("ATR"))
  ELSE Ignore

\* nfcipTargetHandleActivation: a PSL, or the first request, which is kept for the
\* data exchange (isReqPending).
TargetActivation ==
  IF air.pdu.type = "damaged" \/ (air.pdu.type = "I" /\ air.pdu.pni # 0) THEN Ignore
  ELSE IF air.pdu.type = "PSL"
    THEN Replies([tgt EXCEPT !.state = "RX", !.br = "high"], Frame("PSL"))
  ELSE tgt' = [tgt EXCEPT !.state = "RX"] /\ UNCHANGED air

\* nfcipSetDEPParams of a target with data: at once, or when the extension that is
\* being asked for is confirmed.
StartAnswer(p, pos) ==
  [p EXCEPT !.pos = pos, !.mi = (pos + 1 < p.parts), !.owes = "none",
            !.state = IF p.wait THEN "RX" ELSE "TX",
            !.pending = (p.wait \/ @)]
AppWorks == tgt.state \in {"RX", "RTOX"}
Answer(parts) ==
  /\ tgt.owes = "answer" /\ AppWorks
  /\ tgt' = StartAnswer([tgt EXCEPT !.reply = tgt.todo, !.parts = parts, !.got = <<>>], 0)
  /\ UNCHANGED <<ini, call, air, setup, history>>
AnswerGoesOn ==
  /\ tgt.owes = "part" /\ AppWorks
  /\ tgt' = StartAnswer(tgt, tgt.pos + 1)
  /\ UNCHANGED <<ini, call, air, setup, history>>

\* nfcipRun, NFCIP_ST_TARG_DEP_TX: the number is incremented after it was sent.
\* Mutant: the number stays.
TargetTxKeepsNumber ==
  LET b == I(tgt.pni, tgt.mi, tgt.reply, tgt.pos + 1) IN
  /\ tgt.state = "TX"
  /\ Replies([tgt EXCEPT !.state = "RX", !.pending = FALSE, !.wait = FALSE], b)
  /\ UNCHANGED <<ini, call, setup, history>>
TargetTx ==
  LET b == I(tgt.pni, tgt.mi, tgt.reply, tgt.pos + 1) IN
  /\ tgt.state = "TX"
  /\ Replies([tgt EXCEPT !.state = "RX", !.pending = FALSE, !.wait = FALSE,
                         !.pni = PNIInc(@)], b)
  /\ UNCHANGED <<ini, call, setup, history>>

\* NFCIP_ST_TARG_DEP_RTOX, when the timer has run out.
TargetRTOX ==
  /\ tgt.state = "RTOX" /\ setup.extends
  /\ IF tgt.cntRTOX > MaxRetries THEN Reports([tgt EXCEPT !.cntRTOX = @ + 1])
     ELSE Replies([tgt EXCEPT !.cntRTOX = @ + 1, !.wait = TRUE, !.state = "RX"], Frame("TO"))
  /\ UNCHANGED <<ini, call, setup, history>>

\* The last PDU again, with its number.
TargetRepeats == air' = Silence /\ tgt' = [tgt EXCEPT !.pni = PNIDec(@), !.state = "TX"]

\* An acknowledgement of a part; or of the one before if an ATN came between.
TargetACK(pni) ==
  IF pni = tgt.pni
    THEN IF tgt.mi THEN air' = Silence /\ tgt' = [tgt EXCEPT !.state = "RTOX", !.owes = "part"]
                   ELSE Ignore
  ELSE IF tgt.last = "ATN" /\ pni = PNIDec(tgt.pni) THEN TargetRepeats
  ELSE Reports(tgt)

TargetNACK(pni) == IF pni = PNIDec(tgt.pni) THEN TargetRepeats ELSE Ignore

\* Mutant: an answer that waits is forgotten.
TargetTOForgets ==
  IF tgt.lastN # "TO" THEN Reports(tgt)
  ELSE air' = Silence /\ tgt' = [tgt EXCEPT !.wait = FALSE, !.state = "RTOX"]
\* The extension is confirmed.
TargetTO ==
  IF tgt.lastN # "TO" THEN Reports(tgt)
  ELSE /\ air' = Silence
       /\ tgt' = [tgt EXCEPT !.wait = FALSE, !.state = IF tgt.pending THEN "TX" ELSE "RTOX"]

\* A block that was handled before the ATN is answered as it was; one with the
\* current number is new.
\* Mutant: whatever its number.
TargetIAnyNumber(b) ==
  LET got == Append(tgt.got, b.inf)
      p == [tgt EXCEPT !.cntRTOX = 0, !.got = got]
  IN
  IF b.mi THEN /\ Replies([p EXCEPT !.pni = PNIInc(@)], ACK(tgt.pni))
               /\ UNCHANGED executed
  ELSE /\ air' = Silence
       /\ tgt' = [p EXCEPT !.state = "RTOX", !.owes = "answer", !.todo = b.inf[1]]
       /\ executed' = Append(executed, IF Whole(got, asked, ini.parts) THEN asked ELSE 0)
TargetI(b) ==
  LET got == Append(tgt.got, b.inf)
      p == [tgt EXCEPT !.cntRTOX = 0, !.got = got]
  IN
  IF b.pni # tgt.pni
    THEN /\ IF tgt.last = "ATN" /\ b.pni = PNIDec(tgt.pni)
              THEN IF b.mi THEN Replies(tgt, ACK(b.pni)) ELSE TargetRepeats
              ELSE Ignore
         /\ UNCHANGED executed
  ELSE IF b.mi THEN /\ Replies([p EXCEPT !.pni = PNIInc(@)], ACK(tgt.pni))
                    /\ UNCHANGED executed
  ELSE /\ air' = Silence
       /\ tgt' = [p EXCEPT !.state = "RTOX", !.owes = "answer", !.todo = b.inf[1]]
       /\ executed' = Append(executed, IF Whole(got, asked, ini.parts) THEN asked ELSE 0)

\* nfcipTargetHandleRX of everything but an I-PDU.
TargetControl(b) ==
  CASE b.type = "ACK" -> TargetACK(b.pni)
    [] b.type = "NACK" -> TargetNACK(b.pni)
    [] b.type = "ATN" -> Replies(tgt, Frame("ATN"))
    [] b.type = "TO" -> TargetTO
    [] b.type = "DSL" -> Replies([tgt EXCEPT !.state = "SLEEP"], b)
    [] b.type = "RLS" -> Replies([tgt EXCEPT !.state = "IDLE"], b)
    [] OTHER -> Ignore

TargetReceive ==
  LET b == air.pdu IN
  /\ air.to = "tgt" /\ Hears
  /\ IF tgt.state = "RX" /\ b.type = "I" THEN TargetI(b)
     ELSE /\ UNCHANGED executed
          /\ CASE tgt.state = "LISTEN" -> TargetATR
               [] tgt.state = "WAIT_ACTV" -> TargetActivation
               [] tgt.state = "RX" -> TargetControl(b)
  /\ UNCHANGED <<ini, call, setup, asked, answered, errors, extensions>>
-----------------------------------------------------------------------------
App == \/ \E parts \in 1..setup.parts : rfalNfcDepStartTransceive(parts)
       \/ \E type \in {"RLS", "DSL"} : Release(type)
       \/ rfalNfcDepATR \/ FieldOff
Initiator ==
  \/ \E psl \in BOOLEAN : AtrAnswered(psl)
  \/ PslAnswered \/ AtrRetry \/ ActivationFails \/ Released
  \/ IniTx \/ Timeout \/ InitiatorReceive
Target == \/ \E parts \in 1..setup.parts : Answer(parts)
          \/ AnswerGoesOn \/ TargetTx \/ TargetRTOX \/ TargetReceive

Next == App \/ Initiator \/ Target
Spec == Init /\ [][Next]_vars

\* Both devices run their loop(); a target that extends asks for the status there.
FairSpec == Spec /\ WF_vars(Initiator) /\ WF_vars(TargetTx \/ TargetReceive \/ TargetRTOX)
-----------------------------------------------------------------------------
IniState ==
  [state : {"IDLE", "TX", "RX"}, pni : 0..3, last : DepTypes \cup {"INVALID"},
   lastN : DepTypes \cup {"INVALID"}, mi : BOOLEAN, cntTO : Nat, cntNACK : Nat,
   cntATN : Nat, cntTx : Nat, cntRTOX : Nat, br : {"low", "high"}, atr : Nat,
   parts : Nat, pos : Nat, got : Seq(Part)]
TgtState ==
  [state : {"LISTEN", "WAIT_ACTV", "IDLE", "SLEEP", "RX", "TX", "RTOX"}, pni : 0..3,
   last : DepTypes \cup {"INVALID"}, lastN : DepTypes \cup {"INVALID"}, mi : BOOLEAN,
   cntRTOX : Nat, wait : BOOLEAN, pending : BOOLEAN, br : {"low", "high"},
   owes : {"none", "answer", "part"}, todo : Nat, reply : Nat, parts : Nat, pos : Nat,
   got : Seq(Part)]

TypeOK ==
  /\ ini \in IniState /\ tgt \in TgtState
  /\ call \in {"off", "atr", "psl", "idle", "transceive", "failed", "release", "ended"}
  /\ air \in [to : {"none", "ini", "tgt"}, pdu : Pdu]
  /\ asked \in Nat /\ executed \in Seq(Nat) /\ answered \in Nat
  /\ errors \in Nat /\ extensions \in Nat

\* The promise of ApduService, kept by NFC-DEP: a command is executed at most once,
\* whole and in order, and an answer is the whole answer to it.
Service ==
  INSTANCE ApduService WITH
    phase <- IF call \in {"off", "atr", "psl", "idle"} THEN "idle"
             ELSE IF call = "transceive" THEN "asked" ELSE "closed",
    asked <- asked, executed <- executed, answered <- answered
ImplementsService == Service!Spec

\* Between two commands both sides agree on the number of the next PDU and on the
\* bit rate, and the target listens for it.
SessionsAgree ==
  call = "idle" =>
    /\ ini.pni = tgt.pni /\ ini.br = tgt.br
    /\ tgt.state \in {"WAIT_ACTV", "RX"}
    /\ tgt.owes = "none" /\ ~tgt.pending /\ ~tgt.wait

\* An answer that waits for the confirmation of an extension is still to be sent.
AnswerNotForgotten == tgt.pending => tgt.wait \/ tgt.state \in {"TX", "IDLE", "SLEEP"}

\* What each side believes of the other is so, between the commands and in them.
InStep == SessionsAgree /\ AnswerNotForgotten

\* A command fails only when one PDU of it has used up its retries.
RetriesAreUsed ==
  [][call = "transceive" /\ call' = "failed" =>
       errors' > MaxRetries \/ extensions' > MaxRetries + 1]_vars

\* Every call ends, whatever the link and the target do.
EveryCallEnds == call \in {"atr", "psl", "transceive", "release"} ~>
                   call \notin {"atr", "psl", "transceive", "release"}
=============================================================================
