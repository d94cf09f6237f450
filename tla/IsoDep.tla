------------------------------- MODULE IsoDep -------------------------------
(***************************************************************************)
(* The ISO-DEP block protocol of rfal_isoDep.cpp, with the library as the  *)
(* reader (isoDepDataExchangePCD) and as the card (isoDepDataExchangePICC) *)
(* over a link that loses and damages frames.  Both sides exchange APDUs   *)
(* (rfalIsoDepStartApduTransceive and its status), which are chained if    *)
(* they do not fit in a block.                                             *)
(*                                                                         *)
(* A block carries <<n, i>>, the i-th part of the n-th command or of its   *)
(* answer.  Lengths, DID, NAD and the values of the times are left out.    *)
(***************************************************************************)
EXTENDS Integers, Sequences

CONSTANTS
  MaxRetriesI, MaxRetriesR, MaxRetriesS, \* rfalIsoDepInitializeWithParams
  MaxParts,      \* blocks in an APDU (bound)
  MaxCommands    \* commands of the reader's application (bound)

ASSUME RetriesAssumption == {MaxRetriesI, MaxRetriesR, MaxRetriesS} \subseteq Nat
ASSUME BoundsAssumption == MaxParts \in Nat /\ MaxCommands \in Nat

VARIABLES
  pcd,        \* gIsoDep of the reader and its APDU transfer
  call,       \* the call of the reader's application that runs, or how it ended
  picc,       \* gIsoDep of the card and its APDU transfer
  air,        \* the frame on its way, and to whom
  \* History.
  asked, executed, answered,   \* see ApduService
  errors,     \* receptions failed or timed out since a block last got through
  extensions  \* waiting time extensions asked for since then

history == <<asked, executed, answered, errors, extensions>>
vars == <<pcd, call, picc, air, history>>

Part == Nat \X Nat
Block == [type : {"I"}, bn : {0, 1}, more : BOOLEAN, inf : Part]
         \cup [type : {"ACK", "NAK"}, bn : {0, 1}]
         \cup [type : {"WTX", "DSL", "damaged"}]
I(bn, more, n, i) == [type |-> "I", bn |-> bn, more |-> more, inf |-> <<n, i>>]
ACK(bn) == [type |-> "ACK", bn |-> bn]
NAK(bn) == [type |-> "NAK", bn |-> bn]
WTX == [type |-> "WTX"]
DSL == [type |-> "DSL"]
Damaged == [type |-> "damaged"]

\* A frame that is sent arrives, arrives damaged, or is lost.
Silence == [to |-> "none", block |-> Damaged]
Sent(to, b) == {[to |-> to, block |-> b], [to |-> to, block |-> Damaged], Silence}


\* isoDep_PCBNextBN
Other(bn) == 1 - bn

\* pos: parts that are acknowledged; more: isTxChaining.
InitPcd ==
  [state |-> "IDLE", bn |-> 0, more |-> FALSE, rxChaining |-> FALSE,
   cntI |-> 0, cntR |-> 0, cntS |-> 0, parts |-> 0, pos |-> 0, got |-> <<>>]

\* After RATS.  last: lastPCB; wtx: isWait4WTX; pending: isTxPending; todo: the
\* command its application works on; reply: the command it last answered.
InitPicc ==
  [state |-> "PICC_RX", bn |-> 1, more |-> FALSE, last |-> "INVALID", wtx |-> FALSE,
   pending |-> FALSE, todo |-> 0, reply |-> 0, parts |-> 0, pos |-> 0, got |-> <<>>]

Init ==
  /\ pcd = InitPcd /\ call = "none"
  /\ picc = InitPicc
  /\ air = Silence
  /\ asked = 0 /\ executed = <<>> /\ answered = 0 /\ errors = 0 /\ extensions = 0

\* What a reader with these retries tolerates for one block: it repeats the block
\* MaxRetriesI times, after at least one error each, and asks for the answer
\* MaxRetriesR + 1 times without repeating it.  History counts up to one more.
Least(m, n) == IF m <= n THEN m ELSE n
ToleratedErrors == Least(MaxRetriesI, MaxRetriesR + 1)
ToleratedExtensions == MaxRetriesS + 1
Error == errors' = Least(errors + 1, ToleratedErrors + 1)
Extension == extensions' = Least(extensions + 1, ToleratedExtensions + 1)
Progress == errors' = 0 /\ extensions' = 0

\* An APDU of the given number of parts has been received.
Whole(got, n, parts) == got = [i \in 1..parts |-> <<n, i>>]
-----------------------------------------------------------------------------
(* The reader's application. *)

\* rfalIsoDepStartTransceive of the part after pos; the counters are cleared.
ClearCounters(p) == [p EXCEPT !.cntI = 0, !.cntR = 0, !.cntS = 0]
\* Mutant: the counters go on.
StartPartCountersGoOn(p, pos) ==
  [p EXCEPT !.state = "PCD_TX", !.pos = pos, !.more = (pos + 1 < p.parts),
            !.rxChaining = FALSE, !.cntR = 0, !.cntS = 0]

StartPart(p, pos) ==
  [ClearCounters(p) EXCEPT !.state = "PCD_TX", !.pos = pos, !.more = (pos + 1 < p.parts),
                           !.rxChaining = FALSE]

rfalIsoDepStartApduTransceive(parts) ==
  /\ call = "none" /\ asked < MaxCommands
  /\ call' = "transceive"
  /\ asked' = asked + 1
  /\ pcd' = StartPart([pcd EXCEPT !.parts = parts, !.got = <<>>], 0)
  /\ Progress
  /\ UNCHANGED <<picc, air, executed, answered>>

\* A call ends with an error; rfalIsoDepDeselect ends with any result but
\* ST_ERR_BUSY and initialises the layer.
Ends(p) ==
  /\ call' = IF call = "deselect" THEN "ended" ELSE "failed"
  /\ pcd' = IF call = "deselect" THEN InitPcd ELSE p

\* Mutant: acknowledgements are not counted.
CountedWithoutR(p, b) == IF b.type \in {"ACK", "NAK"} THEN p ELSE [p EXCEPT !.cntS = @ + 1]

\* isoDepHandleControlMsg: a counter past its limit ends the call.
Counted(p, b) == IF b.type \in {"ACK", "NAK"} THEN [p EXCEPT !.cntR = @ + 1]
                 ELSE [p EXCEPT !.cntS = @ + 1]
Exhausted(p, b) == IF b.type \in {"ACK", "NAK"} THEN p.cntR > MaxRetriesR
                   ELSE p.cntS > MaxRetriesS
Control(p, b) ==
  IF Exhausted(p, b)
    THEN Ends(Counted(p, b)) /\ air' = Silence
    ELSE /\ pcd' = Counted(p, b)
         /\ air' \in Sent("picc", b)
         /\ UNCHANGED call

\* After an error the application deselects the card.  The first request is
\* outside the loop: if it fails nothing is sent and nothing initialised.
rfalIsoDepDeselect ==
  /\ call \in {"none", "failed"}
  /\ IF Exhausted(pcd, DSL)
       THEN call' = "ended" /\ pcd' = Counted(pcd, DSL) /\ UNCHANGED air
       ELSE /\ call' = "deselect"
            /\ pcd' = [Counted(pcd, DSL) EXCEPT !.state = "PCD_WAIT_DSL"]
            /\ air' \in Sent("picc", DSL)
  /\ UNCHANGED <<picc, history>>

\* The field goes off; both sides activate anew.
Reactivate ==
  /\ call = "ended"
  /\ call' = "none"
  /\ pcd' = InitPcd /\ picc' = InitPicc /\ air' = Silence
  /\ UNCHANGED history
-----------------------------------------------------------------------------
(* isoDepDataExchangePCD *)

Running == call \in {"transceive", "deselect"}

PcdTx ==
  /\ Running /\ pcd.state = "PCD_TX"
  /\ pcd' = [pcd EXCEPT !.state = "PCD_RX"]
  /\ air' \in Sent("picc", I(pcd.bn, pcd.more, asked, pcd.pos + 1))
  /\ UNCHANGED <<call, picc, history>>

Waiting == Running /\ pcd.state \in {"PCD_RX", "PCD_WAIT_DSL"}
Receives(type) == Waiting /\ air.to = "pcd" /\ air.block.type = type

\* Rules 4, 5 and 8.
Recover ==
  /\ Control(pcd, IF pcd.rxChaining THEN ACK(pcd.bn)
                  ELSE IF pcd.state = "PCD_WAIT_DSL" THEN DSL
                  ELSE NAK(pcd.bn))
  /\ Error
  /\ UNCHANGED <<picc, asked, executed, answered, extensions>>

\* The frame waiting time is over.  A card that receives has processed what it
\* received by then; one that works on a command may be late.
PcdTimeout ==
  /\ Waiting /\ air.to # "pcd"
  /\ ~(air.to = "picc" /\ picc.state = "PICC_RX")
  /\ Recover

PcdReceiveError == Receives("damaged") /\ Recover

\* Rule 3
TimeExtension ==
  /\ Receives("WTX")
  /\ Control(pcd, WTX)
  /\ Extension
  /\ UNCHANGED <<picc, asked, executed, answered, errors>>

\* The response to a deselect request ends the session; one that was not asked
\* for is an error, and so is an R(NAK).
Deselected ==
  /\ Receives("DSL") \/ Receives("NAK")
  /\ Ends(pcd)
  /\ air' = Silence
  /\ UNCHANGED <<picc, history>>

\* Mutant: any acknowledgement counts for the last part.
AcknowledgedAnyNumber ==
  LET next == [pcd EXCEPT !.bn = Other(@)] IN
  /\ Receives("ACK")
  /\ air' = Silence
  /\ IF pcd.more /\ call = "transceive"
       THEN pcd' = StartPart(next, pcd.pos + 1) /\ Progress /\ UNCHANGED call
       ELSE Ends(next) /\ UNCHANGED <<errors, extensions>>
  /\ UNCHANGED <<picc, asked, executed, answered>>

\* Rule 7: the part is acknowledged.  Without chaining it is an error.
Acknowledged ==
  LET next == [pcd EXCEPT !.bn = Other(@)] IN
  /\ Receives("ACK") /\ air.block.bn = pcd.bn
  /\ air' = Silence
  /\ IF pcd.more /\ call = "transceive"
       THEN pcd' = StartPart(next, pcd.pos + 1) /\ Progress /\ UNCHANGED call
       ELSE Ends(next) /\ UNCHANGED <<errors, extensions>>
  /\ UNCHANGED <<picc, asked, executed, answered>>

\* Rule 6: the part did not arrive.
Retransmit ==
  /\ Receives("ACK") /\ air.block.bn # pcd.bn
  /\ air' = Silence
  /\ IF pcd.cntI < MaxRetriesI
       THEN /\ pcd' = [pcd EXCEPT !.cntI = @ + 1, !.cntR = 0, !.state = "PCD_TX"]
            /\ UNCHANGED call
       ELSE Ends([pcd EXCEPT !.cntI = @ + 1])
  /\ UNCHANGED <<picc, history>>

\* Rules 2 and 5: a part of a chained answer, or a repeated one.  ST_ERR_AGAIN
\* ends rfalIsoDepDeselect.
ReceivePart ==
  LET b == air.block
      p == [pcd EXCEPT !.rxChaining = TRUE]
      fresh == ClearCounters([p EXCEPT !.bn = Other(@), !.got = Append(@, b.inf)])
  IN
  /\ Receives("I") /\ b.more
  /\ IF b.bn # pcd.bn
       THEN Control(p, ACK(pcd.bn)) /\ UNCHANGED <<errors, extensions>>
       ELSE /\ air' \in Sent("picc", ACK(fresh.bn))
            /\ IF call = "deselect" THEN Ends(fresh) ELSE pcd' = fresh /\ UNCHANGED call
            /\ Progress
  /\ UNCHANGED <<picc, asked, executed, answered>>

\* Mutant: the block number stays.
ReceiveLastKeepsNumber ==
  LET b == air.block
      p == [pcd EXCEPT !.rxChaining = FALSE]
      fresh == ClearCounters([p EXCEPT !.state = "IDLE"])
      got == Append(pcd.got, b.inf)
  IN
  /\ Receives("I") /\ ~b.more
  /\ air' = Silence
  /\ IF b.bn # pcd.bn \/ call = "deselect"
       THEN Ends(p) /\ UNCHANGED <<answered, errors, extensions>>
     ELSE IF pcd.more
       THEN pcd' = StartPart(fresh, pcd.pos + 1) /\ Progress /\ UNCHANGED <<call, answered>>
     ELSE /\ pcd' = [fresh EXCEPT !.got = got]
          /\ call' = "none" /\ Progress
          /\ answered' = IF Whole(got, picc.reply, picc.parts) THEN picc.reply ELSE 0
  /\ UNCHANGED <<picc, asked, executed>>

\* The answer is complete.  A block with the wrong number is an error, but in
\* compliance mode ISO, which is not the default.
ReceiveLast ==
  LET b == air.block
      p == [pcd EXCEPT !.rxChaining = FALSE]
      fresh == ClearCounters([p EXCEPT !.bn = Other(@), !.state = "IDLE"])
      got == Append(pcd.got, b.inf)
  IN
  /\ Receives("I") /\ ~b.more
  /\ air' = Silence
  /\ IF b.bn # pcd.bn \/ call = "deselect"
       THEN Ends(p) /\ UNCHANGED <<answered, errors, extensions>>
     ELSE IF pcd.more
       THEN pcd' = StartPart(fresh, pcd.pos + 1) /\ Progress /\ UNCHANGED <<call, answered>>
     ELSE /\ pcd' = [fresh EXCEPT !.got = got]
          /\ call' = "none" /\ Progress
          /\ answered' = IF Whole(got, picc.reply, picc.parts) THEN picc.reply ELSE 0
  /\ UNCHANGED <<picc, asked, executed>>
-----------------------------------------------------------------------------
(* isoDepDataExchangePICC and the card's application. *)

\* Its counters are cleared with every block received, so that none of them
\* reaches its limit.
Replies(p, b) ==
  /\ picc' = [p EXCEPT !.last = b.type]
  /\ air' \in Sent("pcd", b)

\* rfalIsoDepStartTransceive: the part waits if an extension is being asked for.
StartAnswer(p, pos) ==
  [p EXCEPT !.pos = pos, !.more = (pos + 1 < p.parts),
            !.state = IF p.wtx THEN "PICC_RX" ELSE "PICC_TX",
            !.pending = (p.wtx \/ @)]

\* The card's application answers, at once or after extensions.
AnswerCommand(parts) ==
  /\ picc.todo # 0
  /\ picc.state \in {"PICC_RX", "PICC_SWTX"}
  /\ picc' = StartAnswer([picc EXCEPT !.reply = picc.todo, !.todo = 0, !.parts = parts,
                                      !.got = <<>>], 0)
  /\ UNCHANGED <<pcd, call, air, history>>

PiccTx ==
  /\ picc.state = "PICC_TX"
  /\ Replies([picc EXCEPT !.pending = FALSE, !.state = "PICC_RX"],
             I(picc.bn, picc.more, picc.reply, picc.pos + 1))
  /\ UNCHANGED <<pcd, call, history>>

PiccSwtx ==
  /\ picc.state = "PICC_SWTX"
  /\ Replies([picc EXCEPT !.wtx = TRUE, !.state = "PICC_RX"], WTX)
  /\ UNCHANGED <<pcd, call, history>>

\* After the response to a deselect request.
PiccSleeps ==
  /\ picc.state = "PICC_SDSL"
  /\ picc' = [InitPicc EXCEPT !.state = "IDLE", !.bn = 0]
  /\ UNCHANGED <<pcd, call, air, history>>

\* The receiver is enabled again for anything the card does not expect.
Ignore == air' = Silence /\ UNCHANGED picc

\* Mutant: an answer that waits is forgotten.
ReceiveWtxForgets ==
  IF picc.last = "WTX"
    THEN air' = Silence /\ picc' = [picc EXCEPT !.wtx = FALSE, !.state = "PICC_SWTX"]
    ELSE Ignore

ReceiveWtx ==
  IF picc.last = "WTX"
    THEN /\ air' = Silence
         /\ picc' = [picc EXCEPT !.wtx = FALSE,
                       !.state = IF picc.pending THEN "PICC_TX" ELSE "PICC_SWTX"]
    ELSE Ignore

\* isoDepReSendControlMsg, or the last I-block again.
Repeat ==
  CASE picc.last = "I" -> picc' = [picc EXCEPT !.state = "PICC_TX"] /\ air' = Silence
    [] picc.last = "ACK" -> Replies(picc, ACK(picc.bn))
    [] picc.last = "WTX" -> Replies(picc, WTX)
    [] OTHER -> UNCHANGED <<picc, air>>

\* An acknowledged part makes the APDU layer start the next one.
ReceiveAck(bn) ==
  IF bn = picc.bn THEN Repeat
  ELSE IF ~picc.more THEN Ignore
  ELSE /\ picc' = StartAnswer([picc EXCEPT !.bn = Other(@)], picc.pos + 1)
       /\ air' = Silence

ReceiveNak(bn) == IF bn = picc.bn THEN Repeat ELSE Replies(picc, ACK(picc.bn))

\* A new block has the other number; while the card is chaining there is none.
ReceiveI(b) ==
  LET got == Append(picc.got, b.inf)
      p == [picc EXCEPT !.bn = Other(@), !.got = got]
      n == b.inf[1]
  IN
  IF b.bn = picc.bn \/ picc.more THEN Ignore /\ UNCHANGED executed
  ELSE IF b.more THEN Replies(p, ACK(p.bn)) /\ UNCHANGED executed
  ELSE /\ picc' = [p EXCEPT !.state = "PICC_SWTX", !.todo = n]
       /\ air' = Silence
       /\ executed' = Append(executed, IF Whole(got, asked, pcd.parts) THEN asked ELSE 0)

PiccReceive ==
  LET b == air.block IN
  /\ picc.state = "PICC_RX" /\ air.to = "picc"
  /\ IF b.type = "I" THEN ReceiveI(b)
     ELSE /\ UNCHANGED executed
          /\ CASE b.type = "damaged" -> Ignore
               [] b.type = "WTX" -> ReceiveWtx
               [] b.type = "DSL" -> Replies([picc EXCEPT !.state = "PICC_SDSL"], DSL)
               [] b.type = "ACK" -> ReceiveAck(b.bn)
               [] b.type = "NAK" -> ReceiveNak(b.bn)
  /\ UNCHANGED <<pcd, call, asked, answered, errors, extensions>>
-----------------------------------------------------------------------------
App == \/ \E parts \in 1..MaxParts : rfalIsoDepStartApduTransceive(parts)
       \/ rfalIsoDepDeselect \/ Reactivate
Pcd == \/ PcdTx \/ PcdTimeout \/ PcdReceiveError \/ TimeExtension \/ Deselected
       \/ Acknowledged \/ Retransmit \/ ReceivePart \/ ReceiveLast
Picc == \/ \E parts \in 1..MaxParts : AnswerCommand(parts)
        \/ PiccTx \/ PiccSwtx \/ PiccSleeps \/ PiccReceive

Next == App \/ Pcd \/ Picc
Spec == Init /\ [][Next]_vars

\* Both devices run rfalWorker in their loop(); applications and link owe nothing.
FairSpec == Spec /\ WF_vars(Pcd) /\ WF_vars(PiccReceive)
-----------------------------------------------------------------------------
PcdState ==
  [state : {"IDLE", "PCD_TX", "PCD_RX", "PCD_WAIT_DSL"}, bn : {0, 1}, more : BOOLEAN,
   rxChaining : BOOLEAN, cntI : Nat, cntR : Nat, cntS : Nat, parts : Nat, pos : Nat,
   got : Seq(Part)]
PiccState ==
  [state : {"IDLE", "PICC_RX", "PICC_SWTX", "PICC_SDSL", "PICC_TX"}, bn : {0, 1},
   more : BOOLEAN, last : {"INVALID", "I", "ACK", "WTX", "DSL"}, wtx : BOOLEAN,
   pending : BOOLEAN, todo : Nat, reply : Nat, parts : Nat, pos : Nat, got : Seq(Part)]

TypeOK ==
  /\ pcd \in PcdState
  /\ call \in {"none", "transceive", "failed", "deselect", "ended"}
  /\ picc \in PiccState
  /\ air \in [to : {"none", "pcd", "picc"}, block : Block]
  /\ asked \in Nat /\ executed \in Seq(Nat) /\ answered \in Nat
  /\ errors \in Nat /\ extensions \in Nat

\* ISO-DEP keeps the promise to the applications: a command is executed at most
\* once, whole and in order, whatever is lost, damaged or repeated, and an
\* answer is the whole answer to this command.
phase == IF call = "none" THEN "idle" ELSE IF call = "transceive" THEN "asked" ELSE "closed"
Service == INSTANCE ApduService
ImplementsService == Service!Spec

\* The card asks for extensions only while its application owes an answer, and
\* an answer that waits is waiting for an acknowledgement that is still due.
ExtendsForAnswer ==
  /\ picc.state = "PICC_SWTX" => picc.todo # 0
  /\ picc.pending => picc.state = "PICC_TX" \/ picc.wtx

\* The reader gives a command up only when one block of it failed more often than
\* the retries tolerate, or after more extensions than they grant: what recovery
\* has spent on one block never counts against the next.
GivesUp == call = "transceive" /\ call' \in {"failed", "ended"}
RetriesAreUsed ==
  [][GivesUp => errors' > ToleratedErrors \/ extensions' > ToleratedExtensions]_vars

\* Between two commands the block numbers are in step: the card will take the
\* reader's next block for a new one, however many blocks were repeated before.
BlockNumbersInStep == call = "none" => pcd.bn # picc.bn

\* What a command leaves behind is in step on both sides, and so is what they wait for.
InStep == BlockNumbersInStep /\ ExtendsForAnswer

\* Every call ends, whatever the link and the card do.
EveryCallEnds == Running ~> ~Running
=============================================================================
