---------------------------- MODULE IsoDep_proof ----------------------------
(***************************************************************************)
(* Proofs about IsoDep, for any retries, any number of commands and APDUs  *)
(* of any number of parts: whatever is lost or damaged, the block numbers  *)
(* are in step between two commands, every command is executed at most     *)
(* once and every answer is the whole answer to it (the refinement of      *)
(* ApduService), and a command fails only after the retries are used up.   *)
(*                                                                         *)
(* The invariant IInv says how far a transfer can be: which part both      *)
(* sides have, whose block number is ahead, and which frames can be on     *)
(* the air there.                                                          *)
(***************************************************************************)
EXTENDS IsoDep, TLAPS

\* The first k parts of the n-th APDU.
Parts(n, k) == [i \in 1..k |-> <<n, i>>]

\* A frame to this side is one of these blocks, or damaged.
Carries(to, blocks) == air.to = to => air.block \in blocks \cup {Damaged}

\* The state of the card's application and its answers agree: it is working, or its
\* answer waits for an acknowledgement, is being sent, or was sent.
CardOwes ==
  /\ picc.todo # 0 => ~picc.more
  /\ picc.state = "PICC_SWTX" => picc.todo # 0 /\ ~picc.pending /\ ~picc.wtx
  /\ picc.state = "PICC_TX" => picc.todo = 0 /\ ~picc.wtx
  /\ picc.state = "PICC_RX" /\ picc.wtx =>
       picc.last = "WTX" /\ (picc.pending <=> picc.todo = 0)
  /\ picc.state = "PICC_RX" /\ ~picc.wtx =>
       picc.todo = 0 /\ ~picc.pending /\ picc.last # "WTX"
  /\ picc.state = "PICC_SDSL" /\ picc.pending => picc.wtx
  /\ picc.state = "IDLE" => ~picc.pending

CardQuiet == picc.state = "PICC_RX" /\ ~picc.wtx /\ ~picc.more

NotExecuted == asked # 0 /\ \A i \in 1..Len(executed) : executed[i] < asked
Executed == \E i \in 1..Len(executed) : executed[i] = asked

-----------------------------------------------------------------------------
(* The stages of a transfer.                                               *)

\* The card has the parts before the reader's, whose block is a new one for it.
Offered ==
  /\ pcd.bn # picc.bn /\ ~pcd.rxChaining /\ pcd.got = <<>>
  /\ pcd.more = (pcd.pos + 1 < pcd.parts) /\ pcd.pos < pcd.parts
  /\ pcd.state \in {"PCD_TX", "PCD_RX"}
  /\ CardQuiet /\ picc.got = Parts(asked, pcd.pos) /\ NotExecuted
  /\ Carries("picc", {I(pcd.bn, pcd.more, asked, pcd.pos + 1), NAK(pcd.bn)})
  /\ Carries("pcd", {ACK(picc.bn)})
  /\ pcd.state = "PCD_TX" => air.to = "none"

\* The card has this part, too, and the reader does not know yet.
Taken ==
  /\ pcd.bn = picc.bn /\ ~pcd.rxChaining /\ pcd.got = <<>>
  /\ pcd.more /\ pcd.pos + 1 < pcd.parts /\ pcd.state = "PCD_RX"
  /\ CardQuiet /\ picc.got = Parts(asked, pcd.pos + 1) /\ NotExecuted
  /\ picc.last = "ACK"
  /\ Carries("picc", {NAK(pcd.bn)}) /\ Carries("pcd", {ACK(picc.bn)})

\* The card has the whole command and works on it.
Working ==
  /\ pcd.bn = picc.bn /\ ~pcd.rxChaining /\ pcd.got = <<>>
  /\ ~pcd.more /\ pcd.state = "PCD_RX"
  /\ picc.todo = asked /\ picc.todo # 0 /\ Executed
  /\ picc.state \in {"PICC_SWTX", "PICC_RX"}
  /\ picc.state = "PICC_SWTX" => air.to # "pcd"
  /\ Carries("picc", {NAK(pcd.bn)} \cup IF picc.wtx THEN {WTX} ELSE {})
  /\ Carries("pcd", {WTX})

\* The answer of the card to this command, up to the part it sends.
Answer ==
  /\ ~pcd.more /\ pcd.state = "PCD_RX"
  /\ picc.todo = 0 /\ picc.reply = asked /\ Executed
  /\ picc.pos < picc.parts /\ picc.more = (picc.pos + 1 < picc.parts)
  /\ picc.got = <<>>

\* The reader has the parts before it.
Answering ==
  /\ Answer
  /\ pcd.bn = picc.bn /\ pcd.rxChaining = (picc.pos > 0)
  /\ pcd.got = Parts(asked, picc.pos)
  /\ picc.state \in {"PICC_TX", "PICC_RX"}
  /\ picc.state = "PICC_TX" => air.to # "pcd"
  /\ picc.wtx => picc.pos = 0
  /\ picc.pos > 0 => picc.last = "I"
  /\ picc.state = "PICC_RX" /\ ~picc.wtx => picc.last = "I"
  /\ Carries("picc", {NAK(pcd.bn), ACK(pcd.bn)} \cup IF picc.wtx THEN {WTX} ELSE {})
  /\ Carries("pcd", IF picc.wtx THEN {WTX}
                    ELSE {I(picc.bn, picc.more, asked, picc.pos + 1)})

\* The reader has this part, too, and the card does not know yet.
PartRead ==
  /\ Answer
  /\ pcd.bn # picc.bn /\ pcd.rxChaining /\ picc.more
  /\ pcd.got = Parts(asked, picc.pos + 1)
  /\ picc.state = "PICC_RX" /\ ~picc.wtx /\ picc.last = "I"
  /\ air.to # "pcd" /\ Carries("picc", {ACK(pcd.bn)})

Transfer == Offered \/ Taken \/ Working \/ Answering \/ PartRead

-----------------------------------------------------------------------------
\* Between two commands nothing is on its way.
AtRest ==
  /\ pcd.bn # picc.bn /\ ~pcd.rxChaining /\ air.to = "none"
  /\ CardQuiet /\ picc.got = <<>>

\* After a failure, until the card is activated anew, the reader sends no I-block; so the card
\* has nothing to acknowledge, and the reader is not asked to repeat one.
Closing ==
  /\ call = "deselect" => pcd.state = "PCD_WAIT_DSL"
  /\ air.to = "picc" => air.block.type \in {"DSL", "WTX", "ACK", "damaged"}
  /\ air.to = "pcd" => air.block.type # "ACK"
  /\ \/ pcd.rxChaining /\ call # "ended"
     \/ air.to = "picc" /\ air.block.type = "ACK"
     \/ air.to = "pcd" /\ air.block.type = "I"
     => picc.last # "ACK"

\* What the counters of the reader have counted since the last progress.
Counts ==
  /\ Least(pcd.cntR, ToleratedErrors + 1) <= errors
  /\ Least(pcd.cntI, ToleratedErrors + 1) <= errors
  /\ \/ air.to = "picc" /\ air.block.type = "NAK"
     \/ air.to = "pcd" /\ air.block.type = "ACK" /\ air.block.bn # pcd.bn
     => Least(pcd.cntI + 1, ToleratedErrors + 1) <= errors
  /\ Least(pcd.cntS, ToleratedExtensions + 1) <= extensions

IInv ==
  /\ TypeOK /\ CardOwes
  /\ \A i \in 1..Len(executed) : executed[i] <= asked
  /\ call = "none" => AtRest
  /\ call = "transceive" => Transfer /\ Counts
  /\ call \in {"failed", "deselect", "ended"} => Closing

-----------------------------------------------------------------------------
(* Frames and blocks.                                                      *)

AirState == [to : {"none", "pcd", "picc"}, block : Block]

\* What a block made by the protocol says; from here on blocks are opaque.
LEMMA BlockFields ==
  /\ \A bn, more, n, i : /\ I(bn, more, n, i).type = "I" /\ I(bn, more, n, i).bn = bn
                         /\ I(bn, more, n, i).more = more
                         /\ I(bn, more, n, i).inf = <<n, i>>
  /\ \A bn : /\ ACK(bn).type = "ACK" /\ ACK(bn).bn = bn
             /\ NAK(bn).type = "NAK" /\ NAK(bn).bn = bn
  /\ WTX.type = "WTX" /\ DSL.type = "DSL" /\ Damaged.type = "damaged"
  BY DEF I, ACK, NAK, WTX, DSL, Damaged

LEMMA BlockTypes ==
  /\ \A bn \in {0, 1}, more \in BOOLEAN, n, i \in Nat : I(bn, more, n, i) \in Block
  /\ \A bn \in {0, 1} : ACK(bn) \in Block /\ NAK(bn) \in Block
  /\ WTX \in Block /\ DSL \in Block /\ Damaged \in Block
  BY DEF I, ACK, NAK, WTX, DSL, Damaged, Block, Part

\* What a received block says.
LEMMA ReceivedBlock ==
  ASSUME NEW b \in Block
  PROVE  /\ b.type \in {"I", "ACK", "NAK", "WTX", "DSL", "damaged"}
         /\ b.type = "I" => /\ b.bn \in {0, 1} /\ b.more \in BOOLEAN /\ b.inf \in Part
         /\ b.type \in {"ACK", "NAK"} => b.bn \in {0, 1}
  BY DEF Block

\* A frame arrives, arrives damaged, or is lost.
LEMMA SentFacts ==
  ASSUME NEW to, NEW b, NEW f \in Sent(to, b)
  PROVE  \/ f.to = to /\ f.block \in {b, Damaged}
         \/ f.to = "none" /\ f.block = Damaged
  BY DEF Sent, Silence

LEMMA SentType ==
  ASSUME NEW to \in {"pcd", "picc"}, NEW b \in Block
  PROVE  Sent(to, b) \subseteq AirState
  BY BlockTypes DEF Sent, Silence, AirState

LEMMA SilenceFacts ==
  Silence \in AirState /\ Silence.to = "none" /\ Silence.block = Damaged
  BY BlockTypes DEF Silence, AirState

-----------------------------------------------------------------------------
(* Type correctness.                                                       *)

THEOREM TypeCorrectInit == Init => TypeOK
  BY SilenceFacts DEF Init, TypeOK, InitPcd, InitPicc, PcdState, PiccState, AirState

\* A part received, or one more command executed, leaves a sequence.
LEMMA AppendType ==
  ASSUME NEW S, NEW s \in Seq(S), NEW e \in S
  PROVE  Append(s, e) \in Seq(S) /\ Len(Append(s, e)) = Len(s) + 1
  OBVIOUS

LEMMA PcdOps ==
  ASSUME NEW p \in PcdState, NEW pos \in Nat, NEW b
  PROVE  /\ StartPart(p, pos) \in PcdState /\ ClearCounters(p) \in PcdState
         /\ Counted(p, b) \in PcdState /\ InitPcd \in PcdState
<1>1. ClearCounters(p) \in PcdState
  BY DEF ClearCounters, PcdState
<1>2. \A q \in PcdState, more \in BOOLEAN :
        [q EXCEPT !.state = "PCD_TX", !.pos = pos, !.more = more, !.rxChaining = FALSE] \in PcdState
  BY DEF PcdState
<1>3. StartPart(p, pos) \in PcdState
  <2>1. (pos + 1 < p.parts) \in BOOLEAN
    OBVIOUS
  <2> QED BY <1>1, <1>2, <2>1 DEF StartPart
<1>4. [p EXCEPT !.cntR = @ + 1] \in PcdState /\ [p EXCEPT !.cntS = @ + 1] \in PcdState
  <2>1. \A k \in Nat : [p EXCEPT !.cntR = k] \in PcdState /\ [p EXCEPT !.cntS = k] \in PcdState
    BY DEF PcdState
  <2>2. p.cntR + 1 \in Nat /\ p.cntS + 1 \in Nat
    BY DEF PcdState
  <2> QED BY <2>1, <2>2
<1>5. Counted(p, b) \in PcdState
  BY <1>4 DEF Counted
<1>6. InitPcd \in PcdState
  BY DEF InitPcd, PcdState
<1> QED BY <1>1, <1>3, <1>5, <1>6


LEMMA OtherFacts ==
  \A bn \in {0, 1} : Other(bn) \in {0, 1} /\ Other(bn) # bn /\ Other(Other(bn)) = bn
  BY DEF Other

LEMMA PcdUpdates ==
  ASSUME NEW p \in PcdState, NEW bn \in {0, 1}, NEW g \in Seq(Part), NEW n \in Nat
  PROVE  /\ [p EXCEPT !.bn = bn] \in PcdState
         /\ [p EXCEPT !.got = g] \in PcdState
         /\ [p EXCEPT !.bn = bn, !.got = g] \in PcdState
         /\ [p EXCEPT !.bn = bn, !.state = "IDLE"] \in PcdState
         /\ [p EXCEPT !.parts = n, !.got = g] \in PcdState
         /\ [p EXCEPT !.cntI = n] \in PcdState
         /\ [p EXCEPT !.cntI = n, !.cntR = 0, !.state = "PCD_TX"] \in PcdState
  BY DEF PcdState

LEMMA PiccOps ==
  ASSUME NEW p \in PiccState, NEW pos \in Nat
  PROVE  StartAnswer(p, pos) \in PiccState /\ InitPicc \in PiccState
<1>1. (p.wtx \/ p.pending) \in BOOLEAN /\ (pos + 1 < p.parts) \in BOOLEAN
  OBVIOUS
<1>2. StartAnswer(p, pos) \in PiccState
  BY ZenonT(60), <1>1 DEF StartAnswer, PiccState
<1>3. InitPicc \in PiccState
  BY DEF InitPicc, PiccState
<1> QED BY <1>2, <1>3

CallState == {"none", "transceive", "failed", "deselect", "ended"}
\* The operations of the reader leave states of their types.
LEMMA EndsType ==
  ASSUME NEW p \in PcdState, Ends(p)
  PROVE  pcd' \in PcdState /\ call' \in CallState
  BY PcdOps DEF Ends, CallState

LEMMA ControlType ==
  ASSUME NEW p \in PcdState, NEW b \in Block, call \in CallState, Control(p, b)
  PROVE  pcd' \in PcdState /\ call' \in CallState /\ air' \in AirState
  BY PcdOps, EndsType, SentType, SilenceFacts DEF Control

LEMMA HistorySteps ==
  ASSUME errors \in Nat, extensions \in Nat
  PROVE  /\ Error => errors' \in Nat
         /\ Extension => extensions' \in Nat
         /\ Progress => errors' \in Nat /\ extensions' \in Nat
  BY RetriesAssumption
     DEF Error, Extension, Progress, Least, ToleratedErrors, ToleratedExtensions

\* Type correctness by components, before and after a step.
LEMMA TypeFacts ==
  ASSUME TypeOK
  PROVE  /\ pcd \in PcdState /\ call \in CallState /\ picc \in PiccState /\ air \in AirState
         /\ asked \in Nat /\ executed \in Seq(Nat) /\ answered \in Nat
         /\ errors \in Nat /\ extensions \in Nat
  BY DEF TypeOK, CallState, AirState

LEMMA TypeKept ==
  ASSUME pcd' \in PcdState, call' \in CallState, picc' \in PiccState, air' \in AirState,
         asked' \in Nat, executed' \in Seq(Nat), answered' \in Nat,
         errors' \in Nat, extensions' \in Nat
  PROVE  TypeOK'
  BY DEF TypeOK, CallState, AirState

LEMMA Fields ==
  ASSUME TypeOK
  PROVE  /\ pcd.bn \in {0, 1} /\ pcd.more \in BOOLEAN /\ pcd.rxChaining \in BOOLEAN
         /\ pcd.cntI \in Nat /\ pcd.cntR \in Nat /\ pcd.cntS \in Nat
         /\ pcd.parts \in Nat /\ pcd.pos \in Nat /\ pcd.got \in Seq(Part)
         /\ pcd.state \in {"IDLE", "PCD_TX", "PCD_RX", "PCD_WAIT_DSL"}
         /\ picc.bn \in {0, 1} /\ picc.more \in BOOLEAN /\ picc.wtx \in BOOLEAN
         /\ picc.pending \in BOOLEAN /\ picc.todo \in Nat /\ picc.reply \in Nat
         /\ picc.parts \in Nat /\ picc.pos \in Nat /\ picc.got \in Seq(Part)
         /\ picc.state \in {"IDLE", "PICC_RX", "PICC_SWTX", "PICC_SDSL", "PICC_TX"}
         /\ picc.last \in {"INVALID", "I", "ACK", "WTX", "DSL"}
         /\ air.to \in {"none", "pcd", "picc"} /\ air.block \in Block
<1>1. pcd \in PcdState /\ picc \in PiccState /\ air \in AirState
  BY TypeFacts
<1> QED BY <1>1 DEF PcdState, PiccState, AirState

LEMMA AppTypes ==
  ASSUME TypeOK, App PROVE TypeOK'
<1> USE TypeFacts, Fields, TypeKept
<1>1. ASSUME NEW parts \in 1..MaxParts, rfalIsoDepStartApduTransceive(parts) PROVE TypeOK'
  <2>1. parts \in Nat /\ <<>> \in Seq(Part)
    BY BoundsAssumption
  <2>2. [pcd EXCEPT !.parts = parts, !.got = <<>>] \in PcdState
    BY <2>1, PcdUpdates
  <2>3. pcd' \in PcdState
    <3>1. pcd' = StartPart([pcd EXCEPT !.parts = parts, !.got = <<>>], 0) /\ 0 \in Nat
      BY <1>1 DEF rfalIsoDepStartApduTransceive
    <3> QED BY ONLY <2>2, <3>1, PcdOps
  <2> QED BY <1>1, <2>3, HistorySteps DEF rfalIsoDepStartApduTransceive, CallState
<1>2. CASE rfalIsoDepDeselect
  <2>1. Counted(pcd, DSL) \in PcdState
    BY PcdOps
  <2>2. \A p \in PcdState : [p EXCEPT !.state = "PCD_WAIT_DSL"] \in PcdState
    BY DEF PcdState
  <2> QED BY <1>2, <2>1, <2>2, SentType, BlockTypes DEF rfalIsoDepDeselect, history, CallState
<1>3. CASE Reactivate
  BY <1>3, PcdOps, PiccOps, SilenceFacts DEF Reactivate, history, CallState
<1> QED BY <1>1, <1>2, <1>3 DEF App

LEMMA PcdTypes ==
  ASSUME TypeOK, Pcd PROVE TypeOK'
<1>00. /\ pcd.pos \in Nat /\ pcd.cntI \in Nat /\ pcd.bn \in {0, 1} /\ pcd.more \in BOOLEAN
       /\ asked \in Nat
  BY Fields, TypeFacts
<1>0. pcd.pos + 1 \in Nat /\ pcd.cntI + 1 \in Nat /\ pcd.bn \in {0, 1}
  BY ONLY <1>00
<1> USE TypeFacts, Fields, TypeKept
<1>1. CASE PcdTx
  <2>1. [pcd EXCEPT !.state = "PCD_RX"] \in PcdState
    BY DEF PcdState
  <2>2. I(pcd.bn, pcd.more, asked, pcd.pos + 1) \in Block
    BY ONLY <1>00, <1>0, BlockTypes
  <2> QED BY <1>1, <2>1, <2>2, SentType DEF PcdTx, history
<1>2. Recover => TypeOK'
  <2>1. ACK(pcd.bn) \in Block /\ NAK(pcd.bn) \in Block /\ DSL \in Block
    BY ONLY <1>0, BlockTypes
  <2> SUFFICES ASSUME Recover PROVE TypeOK'
    OBVIOUS
  <2> DEFINE b == IF pcd.rxChaining THEN ACK(pcd.bn)
                  ELSE IF pcd.state = "PCD_WAIT_DSL" THEN DSL ELSE NAK(pcd.bn)
  <2>2. b \in Block
    BY ONLY <2>1
  <2>3. Control(pcd, b) /\ Error /\ UNCHANGED <<picc, asked, executed, answered, extensions>>
    BY ONLY Recover DEF Recover
  <2> HIDE DEF b
  <2>4. pcd' \in PcdState /\ call' \in CallState /\ air' \in AirState
    BY <2>2, <2>3, ControlType
  <2> QED BY <2>3, <2>4, HistorySteps
<1>3. CASE TimeExtension
  BY <1>3, ControlType, HistorySteps, BlockTypes DEF TimeExtension
<1>4. CASE Deselected
  BY <1>4, EndsType, SilenceFacts DEF Deselected, history
<1>5. CASE Acknowledged
  <2> DEFINE next == [pcd EXCEPT !.bn = Other(@)]
  <2>1. next \in PcdState
    BY OtherFacts, PcdUpdates
  <2>3. pcd.pos + 1 \in Nat
    BY ONLY <1>0
  <2> HIDE DEF next
  <2>2. StartPart(next, pcd.pos + 1) \in PcdState
    BY <2>1, <2>3, PcdOps
  <2>4. CASE pcd.more /\ call = "transceive"
    <3>1. /\ pcd' = StartPart(next, pcd.pos + 1) /\ Progress /\ call' = call /\ air' = Silence
          /\ UNCHANGED <<picc, asked, executed, answered>>
      BY ONLY <1>5, <2>4 DEF Acknowledged, next
    <3>2. errors' \in Nat /\ extensions' \in Nat
      BY <3>1, HistorySteps
    <3> QED BY <2>2, <3>1, <3>2, SilenceFacts
  <2>5. CASE ~(pcd.more /\ call = "transceive")
    <3>1. /\ Ends(next) /\ air' = Silence
          /\ UNCHANGED <<picc, asked, executed, answered, errors, extensions>>
      BY ONLY <1>5, <2>5 DEF Acknowledged, next
    <3>2. pcd' \in PcdState /\ call' \in CallState
      BY ONLY <2>1, <3>1, EndsType
    <3> QED BY <3>1, <3>2, SilenceFacts
  <2> QED BY <2>4, <2>5
<1>6. CASE Retransmit
  <2>1. pcd.cntI + 1 \in Nat
    BY ONLY <1>0
  <2>2. /\ [pcd EXCEPT !.cntI = @ + 1] \in PcdState
        /\ [pcd EXCEPT !.cntI = @ + 1, !.cntR = 0, !.state = "PCD_TX"] \in PcdState
    BY <2>1, PcdUpdates
  <2> QED BY <1>6, <2>2, EndsType, SilenceFacts DEF Retransmit, history
<1>7. CASE ReceivePart
  <2> DEFINE p == [pcd EXCEPT !.rxChaining = TRUE]
             fresh == ClearCounters([p EXCEPT !.bn = Other(@), !.got = Append(@, air.block.inf)])
  <2>1. air.block.inf \in Part /\ air.block.bn \in {0, 1}
    BY <1>7, ReceivedBlock DEF ReceivePart, Receives
  <2>2. p \in PcdState
    BY DEF PcdState
  <2>3. [p EXCEPT !.bn = Other(@), !.got = Append(@, air.block.inf)] \in PcdState
    <3>1. p.bn \in {0, 1} /\ p.got \in Seq(Part)
      BY <2>2 DEF PcdState
    <3>2. Append(p.got, air.block.inf) \in Seq(Part)
      BY <2>1, <3>1, AppendType
    <3> QED BY <2>2, <3>1, <3>2, OtherFacts, PcdUpdates
  <2>4. fresh \in PcdState
    BY <2>3, PcdOps
  <2>5. ACK(fresh.bn) \in Block /\ ACK(pcd.bn) \in Block
    <3>1. fresh.bn \in {0, 1}
      BY <2>4 DEF PcdState
    <3> QED BY <3>1, BlockTypes
  <2> HIDE DEF p, fresh
  <2>6. CASE air.block.bn # pcd.bn
    BY <1>7, <2>6, <2>2, <2>5, ControlType DEF ReceivePart, p
  <2>7. CASE air.block.bn = pcd.bn
    BY <1>7, <2>7, <2>4, <2>5, EndsType, SentType, HistorySteps DEF ReceivePart, p, fresh
  <2> QED BY <2>6, <2>7
<1>8. CASE ReceiveLast
  <2> DEFINE p == [pcd EXCEPT !.rxChaining = FALSE]
             fresh == ClearCounters([p EXCEPT !.bn = Other(@), !.state = "IDLE"])
  <2>1. air.block.inf \in Part /\ air.block.bn \in {0, 1}
    BY <1>8, ReceivedBlock DEF ReceiveLast, Receives
  <2>2. p \in PcdState
    BY DEF PcdState
  <2>6. [p EXCEPT !.bn = Other(@), !.state = "IDLE"] \in PcdState
    <3>1. p.bn \in {0, 1}
      BY <2>2 DEF PcdState
    <3> QED BY <2>2, <3>1, OtherFacts, PcdUpdates
  <2>3. fresh \in PcdState
    BY <2>6, PcdOps
  <2>4. Append(pcd.got, air.block.inf) \in Seq(Part)
    BY <2>1, AppendType
  <2> HIDE DEF p, fresh
  <2>5. /\ [fresh EXCEPT !.got = Append(pcd.got, air.block.inf)] \in PcdState
        /\ StartPart(fresh, pcd.pos + 1) \in PcdState
    <3>1. pcd.pos + 1 \in Nat
      BY ONLY <1>0
    <3> QED BY <2>3, <2>4, <3>1, PcdUpdates, PcdOps
  <2>7. pcd' \in PcdState /\ call' \in CallState
    BY <1>8, <2>2, <2>5, EndsType DEF ReceiveLast, p, fresh, CallState
  <2>8. air' \in AirState /\ answered' \in Nat /\ errors' \in Nat /\ extensions' \in Nat
    BY <1>8, SilenceFacts, HistorySteps DEF ReceiveLast
  <2> QED BY <1>8, <2>7, <2>8 DEF ReceiveLast
<1> QED
  BY <1>1, <1>2, <1>3, <1>4, <1>5, <1>6, <1>7, <1>8
     DEF Pcd, PcdTimeout, PcdReceiveError

LEMMA PiccUpdates ==
  ASSUME NEW p \in PiccState, NEW bn \in {0, 1}, NEW g \in Seq(Part), NEW n \in Nat
  PROVE  /\ [p EXCEPT !.bn = bn] \in PiccState
         /\ [p EXCEPT !.bn = bn, !.got = g] \in PiccState
         /\ [p EXCEPT !.state = "PICC_SWTX", !.todo = n] \in PiccState
         /\ [p EXCEPT !.reply = p.todo, !.todo = 0, !.parts = n, !.got = g] \in PiccState
         /\ [p EXCEPT !.pending = FALSE, !.state = "PICC_RX"] \in PiccState
         /\ [p EXCEPT !.wtx = TRUE, !.state = "PICC_RX"] \in PiccState
         /\ [p EXCEPT !.wtx = FALSE, !.state = "PICC_TX"] \in PiccState
         /\ [p EXCEPT !.wtx = FALSE, !.state = "PICC_SWTX"] \in PiccState
         /\ [p EXCEPT !.state = "PICC_SDSL"] \in PiccState
         /\ [p EXCEPT !.state = "PICC_TX"] \in PiccState
         /\ [InitPicc EXCEPT !.state = "IDLE", !.bn = 0] \in PiccState
<1>1. \A q \in PiccState : \A st \in {"PICC_SWTX", "PICC_RX", "PICC_TX", "PICC_SDSL", "IDLE"} :
        /\ [q EXCEPT !.state = st] \in PiccState
        /\ [q EXCEPT !.state = st, !.bn = 0] \in PiccState
  BY ZenonT(60) DEF PiccState
<1>2. [p EXCEPT !.bn = bn] \in PiccState /\ [p EXCEPT !.bn = bn, !.got = g] \in PiccState
  BY DEF PiccState
<1>3. [p EXCEPT !.state = "PICC_SWTX", !.todo = n] \in PiccState
  BY DEF PiccState
<1>4. [p EXCEPT !.reply = p.todo, !.todo = 0, !.parts = n, !.got = g] \in PiccState
  BY DEF PiccState
<1>5. /\ [p EXCEPT !.pending = FALSE, !.state = "PICC_RX"] \in PiccState
      /\ [p EXCEPT !.wtx = TRUE, !.state = "PICC_RX"] \in PiccState
      /\ [p EXCEPT !.wtx = FALSE, !.state = "PICC_TX"] \in PiccState
      /\ [p EXCEPT !.wtx = FALSE, !.state = "PICC_SWTX"] \in PiccState
  BY DEF PiccState
<1>6. InitPicc \in PiccState
  BY PiccOps
<1> QED BY ONLY <1>1, <1>2, <1>3, <1>4, <1>5, <1>6

LEMMA RepliesType ==
  ASSUME NEW p \in PiccState, NEW b \in Block, b.type \in {"I", "ACK", "WTX", "DSL"},
         Replies(p, b)
  PROVE  picc' \in PiccState /\ air' \in AirState
<1>1. \A l \in {"I", "ACK", "WTX", "DSL"} : [p EXCEPT !.last = l] \in PiccState
  BY DEF PiccState
<1> QED BY <1>1, SentType DEF Replies

LEMMA RepeatType ==
  ASSUME TypeOK, Repeat PROVE picc' \in PiccState /\ air' \in AirState
<1> USE TypeFacts, Fields
<1>1. CASE picc.last = "I"
  BY <1>1, PiccUpdates, SilenceFacts DEF Repeat
<1>2. CASE picc.last = "ACK"
  BY <1>2, RepliesType, BlockTypes, BlockFields DEF Repeat
<1>3. CASE picc.last = "WTX"
  BY <1>3, RepliesType, BlockTypes, BlockFields DEF Repeat
<1>4. CASE picc.last \notin {"I", "ACK", "WTX"}
  BY <1>4 DEF Repeat
<1> QED BY <1>1, <1>2, <1>3, <1>4

LEMMA ReceiveIType ==
  ASSUME TypeOK, air.block.type = "I", ReceiveI(air.block)
  PROVE  picc' \in PiccState /\ air' \in AirState /\ executed' \in Seq(Nat)
<1> USE TypeFacts, Fields
<1> DEFINE b == air.block
           got == Append(picc.got, b.inf)
           p == [picc EXCEPT !.bn = Other(@), !.got = got]
<1>1. b.inf \in Part /\ b.inf[1] \in Nat
  BY ReceivedBlock DEF Part
<1>2. got \in Seq(Part)
  BY <1>1, AppendType
<1>3. p \in PiccState /\ p.bn = Other(picc.bn) /\ p.bn \in {0, 1}
  <2>1. p \in PiccState
    BY <1>2, OtherFacts, PiccUpdates
  <2> QED BY <2>1, OtherFacts DEF PiccState
<1>4. [p EXCEPT !.state = "PICC_SWTX", !.todo = b.inf[1]] \in PiccState
  <2> HIDE DEF p, got
  <2> QED BY <1>1, <1>3, PiccUpdates
<1>5. ACK(p.bn) \in Block /\ ACK(p.bn).type = "ACK"
  BY <1>3, BlockTypes, BlockFields
<1>6. \A e \in Nat : Append(executed, e) \in Seq(Nat)
  BY AppendType
<1> HIDE DEF p, got
<1>7. Replies(p, ACK(p.bn)) => picc' \in PiccState /\ air' \in AirState
  BY <1>3, <1>5, RepliesType
<1>8. CASE b.bn = picc.bn \/ picc.more
  BY <1>8, SilenceFacts DEF ReceiveI, Ignore
<1>9. CASE ~(b.bn = picc.bn \/ picc.more) /\ b.more
  BY <1>9, <1>7 DEF ReceiveI, p, got
<1>10. CASE ~(b.bn = picc.bn \/ picc.more) /\ ~b.more
  <2> DEFINE whole == Whole(got, asked, pcd.parts)
  <2>1. (IF whole THEN asked ELSE 0) \in Nat
    OBVIOUS
  <2>2. /\ picc' = [p EXCEPT !.state = "PICC_SWTX", !.todo = b.inf[1]] /\ air' = Silence
        /\ executed' = Append(executed, IF whole THEN asked ELSE 0)
    BY <1>10 DEF ReceiveI, p, got
  <2> HIDE DEF whole
  <2> QED BY <2>1, <2>2, <1>4, <1>6, SilenceFacts
<1> QED BY <1>8, <1>9, <1>10

LEMMA PiccReceiveTypes ==
  ASSUME TypeOK, PiccReceive PROVE TypeOK'
<1> USE TypeFacts, Fields, TypeKept DEF PiccReceive
<1> DEFINE Kept == picc' \in PiccState /\ air' \in AirState
<1>1. CASE air.block.type = "I"
  BY <1>1, ReceiveIType
<1>2. Ignore => Kept
  BY SilenceFacts DEF Ignore
<1>3. ReceiveWtx => Kept
  BY <1>2, PiccUpdates, SilenceFacts DEF ReceiveWtx
<1>4. Replies([picc EXCEPT !.state = "PICC_SDSL"], DSL) => Kept
  BY RepliesType, PiccUpdates, BlockTypes, BlockFields
<1>5. ASSUME NEW bn, ReceiveAck(bn) PROVE Kept
  <2> DEFINE p == [picc EXCEPT !.bn = Other(@)]
  <2>1. p \in PiccState
    BY OtherFacts, PiccUpdates
  <2>3. picc.pos + 1 \in Nat
    <3>1. picc.pos \in Nat
      OBVIOUS
    <3> QED BY ONLY <3>1
  <2> HIDE DEF p
  <2>2. StartAnswer(p, picc.pos + 1) \in PiccState
    BY <2>1, <2>3, PiccOps
  <2> QED BY <1>5, <1>2, <2>2, RepeatType, SilenceFacts DEF ReceiveAck, p
<1>6. ASSUME NEW bn, ReceiveNak(bn) PROVE Kept
  BY ZenonT(60), <1>6, RepeatType, RepliesType, BlockTypes, BlockFields DEF ReceiveNak
<1>7. CASE air.block.type # "I"
  <2>1. air.block.type \in {"ACK", "NAK", "WTX", "DSL", "damaged"}
    BY <1>7, ReceivedBlock
  <2>2. Kept
    BY <1>2, <1>3, <1>4, <1>5, <1>6, <1>7, <2>1
  <2> QED BY <1>7, <2>2
<1> QED BY <1>1, <1>7

LEMMA PiccTypes ==
  ASSUME TypeOK, Picc PROVE TypeOK'
<1> USE TypeFacts, Fields, TypeKept
<1>1. ASSUME NEW parts \in 1..MaxParts, AnswerCommand(parts) PROVE TypeOK'
  <2> DEFINE p == [picc EXCEPT !.reply = picc.todo, !.todo = 0, !.parts = parts, !.got = <<>>]
  <2>1. parts \in Nat /\ <<>> \in Seq(Part)
    BY BoundsAssumption
  <2>2. p \in PiccState
    BY <2>1, PiccUpdates
  <2> HIDE DEF p
  <2>3. StartAnswer(p, 0) \in PiccState
    BY <2>2, PiccOps
  <2> QED BY <1>1, <2>3 DEF AnswerCommand, history, p
<1>2. CASE PiccTx
  <2> DEFINE pos == picc.pos + 1
  <2>0. pos \in Nat
    <3>1. picc.pos \in Nat
      OBVIOUS
    <3> QED BY ONLY <3>1
  <2> HIDE DEF pos
  <2>1. I(picc.bn, picc.more, picc.reply, pos) \in Block
    BY <2>0, BlockTypes
  <2>2. I(picc.bn, picc.more, picc.reply, pos).type = "I"
    BY BlockFields
  <2> QED BY <1>2, <2>1, <2>2, PiccUpdates, RepliesType DEF PiccTx, history, pos
<1>3. CASE PiccSwtx
  BY <1>3, PiccUpdates, RepliesType, BlockTypes, BlockFields DEF PiccSwtx, history
<1>4. CASE PiccSleeps
  BY <1>4, PiccUpdates DEF PiccSleeps, history
<1>5. CASE PiccReceive
  BY <1>5, PiccReceiveTypes
<1> QED BY <1>1, <1>2, <1>3, <1>4, <1>5 DEF Picc

LEMMA TypeStep == TypeOK /\ [Next]_vars => TypeOK'
<1>1. UNCHANGED vars /\ TypeOK => TypeOK'
  BY DEF vars, history, TypeOK
<1> QED BY <1>1, AppTypes, PcdTypes, PiccTypes DEF Next

\* Type correctness of reader, card and link, for any retries and bounds.
THEOREM TypeCorrect == Spec => []TypeOK
  BY TypeCorrectInit, TypeStep, PTL DEF Spec

-----------------------------------------------------------------------------
(* APDUs cut into parts, and the counters.                                 *)

LEMMA PartsFacts ==
  ASSUME NEW n \in Nat, NEW k \in Nat
  PROVE  /\ Parts(n, 0) = <<>>
         /\ Append(Parts(n, k), <<n, k + 1>>) = Parts(n, k + 1)
         /\ Whole(Parts(n, k), n, k)
<1>1. Parts(n, 0) = <<>>
  BY DEF Parts
<1>2. Append(Parts(n, k), <<n, k + 1>>) = Parts(n, k + 1)
  BY DEF Parts
<1>3. Whole(Parts(n, k), n, k)
  BY DEF Parts, Whole
<1> QED BY <1>1, <1>2, <1>3

LEMMA Tolerated == ToleratedErrors \in Nat /\ ToleratedExtensions \in Nat
  BY RetriesAssumption DEF ToleratedErrors, ToleratedExtensions, Least

\* What the operations of the reader change.
LEMMA StartPartFields ==
  ASSUME NEW p \in PcdState, NEW pos \in Nat
  PROVE  LET q == StartPart(p, pos)
         IN  /\ q.state = "PCD_TX" /\ q.pos = pos /\ q.more = (pos + 1 < p.parts) /\ ~q.rxChaining
             /\ q.cntI = 0 /\ q.cntR = 0 /\ q.cntS = 0
             /\ q.bn = p.bn /\ q.parts = p.parts /\ q.got = p.got
  BY DEF StartPart, ClearCounters, PcdState

LEMMA ClearFields ==
  ASSUME NEW p \in PcdState
  PROVE  LET z == ClearCounters(p)
         IN  /\ z.state = p.state /\ z.pos = p.pos /\ z.more = p.more /\ z.rxChaining = p.rxChaining
             /\ z.cntI = 0 /\ z.cntR = 0 /\ z.cntS = 0
             /\ z.bn = p.bn /\ z.parts = p.parts /\ z.got = p.got
  BY DEF ClearCounters, PcdState

\* The block number turned.
LEMMA TurnedFields ==
  ASSUME NEW p \in PcdState, NEW bn \in {0, 1}
  PROVE  LET q == [p EXCEPT !.bn = bn]
         IN  q \in PcdState /\ q.bn = bn /\ q.parts = p.parts /\ q.got = p.got
  BY DEF PcdState

LEMMA CountedFields ==
  ASSUME NEW p \in PcdState, NEW b
  PROVE  LET c == Counted(p, b)
         IN  /\ c.state = p.state /\ c.pos = p.pos /\ c.more = p.more /\ c.rxChaining = p.rxChaining
             /\ c.bn = p.bn /\ c.parts = p.parts /\ c.got = p.got /\ c.cntI = p.cntI
             /\ b.type \in {"ACK", "NAK"} => c.cntR = p.cntR + 1 /\ c.cntS = p.cntS
             /\ b.type \notin {"ACK", "NAK"} => c.cntR = p.cntR /\ c.cntS = p.cntS + 1
  BY DEF Counted, PcdState

\* What the operations of the card change.
LEMMA PiccFields ==
  ASSUME NEW p \in PiccState, NEW pos \in Nat
  PROVE  LET q == StartAnswer(p, pos)
         IN  /\ q.bn = p.bn /\ q.more = (pos + 1 < p.parts) /\ q.last = p.last /\ q.wtx = p.wtx
             /\ q.pending = (p.wtx \/ p.pending) /\ q.todo = p.todo /\ q.reply = p.reply
             /\ q.parts = p.parts /\ q.pos = pos /\ q.got = p.got
             /\ q.state = IF p.wtx THEN "PICC_RX" ELSE "PICC_TX"
  BY DEF StartAnswer, PiccState

LEMMA RepliesFields ==
  ASSUME NEW p \in PiccState, NEW b, Replies(p, b)
  PROVE  /\ picc'.last = b.type
         /\ picc'.state = p.state /\ picc'.bn = p.bn /\ picc'.more = p.more /\ picc'.wtx = p.wtx
         /\ picc'.pending = p.pending /\ picc'.todo = p.todo /\ picc'.reply = p.reply
         /\ picc'.parts = p.parts /\ picc'.pos = p.pos /\ picc'.got = p.got
         /\ \/ air'.to = "pcd" /\ air'.block \in {b, Damaged}
            \/ air'.to = "none"
<1>1. picc' = [p EXCEPT !.last = b.type] /\ air' \in Sent("pcd", b)
  BY DEF Replies
<1> QED BY <1>1, SentFacts DEF PiccState

-----------------------------------------------------------------------------
(* The invariant holds at the start and is kept by the calls of the        *)
(* reader's application.                                                   *)

LEMMA InvInit == Init => IInv
<1> SUFFICES ASSUME Init PROVE IInv
  OBVIOUS
<1>1. TypeOK
  BY TypeCorrectInit
<1>2. CardOwes
  BY DEF Init, InitPicc, CardOwes
<1>3. AtRest
  BY SilenceFacts DEF Init, AtRest, InitPcd, InitPicc, CardQuiet
<1> QED BY <1>1, <1>2, <1>3 DEF IInv, Init

\* Least is monotonic, and counts on up to its bound.
LEMMA LeastFacts ==
  ASSUME NEW m \in Nat, NEW n \in Nat, NEW e \in Nat
  PROVE  /\ Least(m, n) \in Nat /\ Least(0, n) = 0
         /\ Least(m, n) <= n /\ (m >= n => Least(m, n) = n)
         /\ Least(m, n) <= e => /\ Least(m, n) <= Least(e + 1, n)
                                /\ Least(m + 1, n) <= Least(e + 1, n)
  BY DEF Least

\* No command was executed that was not asked for.
LEMMA ExecutedFacts ==
  ASSUME IInv
  PROVE  /\ Len(executed) \in Nat /\ asked \in Nat /\ TypeOK /\ CardOwes
         /\ \A i \in 1..Len(executed) : executed[i] \in Nat /\ executed[i] <= asked
<1>1. executed \in Seq(Nat) /\ asked \in Nat /\ TypeOK /\ CardOwes
  BY TypeFacts DEF IInv
<1>2. \A i \in 1..Len(executed) : executed[i] <= asked
  BY DEF IInv
<1>3. Len(executed) \in Nat /\ \A i \in 1..Len(executed) : executed[i] \in Nat
  BY <1>1
<1> QED BY <1>1, <1>2, <1>3

\* IInv by its parts, after a step.
LEMMA InvKept ==
  ASSUME TypeOK', CardOwes', (\A i \in 1..Len(executed) : executed[i] <= asked)',
         call' = "none" => AtRest',
         call' = "transceive" => Transfer' /\ Counts',
         call' \in {"failed", "deselect", "ended"} => Closing'
  PROVE  IInv'
  BY DEF IInv

LEMMA CardOwesKept == CardOwes /\ picc' = picc => CardOwes'
  BY DEF CardOwes

LEMMA StartInv ==
  ASSUME IInv, TypeOK', NEW parts \in 1..MaxParts, rfalIsoDepStartApduTransceive(parts)
  PROVE  IInv'
<1> DEFINE p == [pcd EXCEPT !.parts = parts, !.got = <<>>]
<1>1. /\ call = "none" /\ call' = "transceive" /\ asked' = asked + 1 /\ pcd' = StartPart(p, 0)
      /\ errors' = 0 /\ extensions' = 0
      /\ picc' = picc /\ air' = air /\ executed' = executed
  BY DEF rfalIsoDepStartApduTransceive, Progress
<1>2. /\ pcd.bn # picc.bn /\ air.to = "none" /\ picc.got = <<>>
      /\ picc.state = "PICC_RX" /\ ~picc.wtx /\ ~picc.more
  BY <1>1 DEF IInv, AtRest, CardQuiet
<1>3. p \in PcdState /\ p.bn = pcd.bn /\ p.parts = parts /\ p.got = <<>> /\ parts > 0 /\ parts \in Nat
  <2>1. parts \in Nat /\ parts > 0 /\ <<>> \in Seq(Part)
    BY ONLY parts \in 1..MaxParts, BoundsAssumption
  <2>2. p \in PcdState
    BY ExecutedFacts, TypeFacts, Fields, <2>1, PcdUpdates
  <2>3. pcd \in PcdState
    BY ExecutedFacts, TypeFacts
  <2>4. p.bn = pcd.bn /\ p.parts = parts /\ p.got = <<>>
    BY ONLY <2>3 DEF PcdState
  <2> HIDE DEF p
  <2> QED BY ONLY <2>1, <2>2, <2>4
<1> HIDE DEF p
<1>4. /\ pcd'.state = "PCD_TX" /\ pcd'.pos = 0 /\ pcd'.more = (0 + 1 < parts) /\ ~pcd'.rxChaining
      /\ pcd'.cntI = 0 /\ pcd'.cntR = 0 /\ pcd'.cntS = 0
      /\ pcd'.bn = pcd.bn /\ pcd'.parts = parts /\ pcd'.got = <<>>
  <2>1. pcd' = StartPart(p, 0) /\ 0 \in Nat
    BY <1>1
  <2> QED BY ONLY <1>3, <2>1, StartPartFields
<1>5. NotExecuted'
  BY <1>1, ExecutedFacts DEF NotExecuted
<1>6. Parts(asked', 0) = <<>>
  BY <1>1, ExecutedFacts, PartsFacts
<1>7. Offered'
  BY <1>1, <1>2, <1>3, <1>4, <1>5, <1>6 DEF Offered, CardQuiet, Carries
<1>8. Counts'
  <2>1. ToleratedErrors + 1 \in Nat /\ ToleratedExtensions + 1 \in Nat
    BY Tolerated
  <2>2. Least(0, ToleratedErrors + 1) = 0 /\ Least(0, ToleratedExtensions + 1) = 0
    BY <2>1, LeastFacts
  <2> QED BY <1>1, <1>2, <1>4, <2>2 DEF Counts
<1>9. (\A i \in 1..Len(executed) : executed[i] <= asked)'
  BY <1>1, ExecutedFacts
<1> QED BY <1>1, <1>7, <1>8, <1>9, CardOwesKept, ExecutedFacts, InvKept DEF Transfer

\* The card's application keeps what it got.
LEMMA BoundKept ==
  ASSUME IInv, executed' = executed, asked' = asked
  PROVE  (\A i \in 1..Len(executed) : executed[i] <= asked)'
  BY ExecutedFacts

\* A frame to the card that a closing reader may send.
LEMMA SentClosing ==
  ASSUME picc' = picc,
         NEW b, b.type \in {"DSL", "WTX", "ACK"}, b.type = "ACK" => picc.last # "ACK",
         air' \in Sent("picc", b),
         call' = "deselect" => pcd'.state = "PCD_WAIT_DSL",
         pcd'.rxChaining /\ call' # "ended" => picc.last # "ACK"
  PROVE  Closing'
<1>1. air'.to = "picc" => air'.block.type \in {"DSL", "WTX", "ACK", "damaged"}
  BY SentFacts, BlockFields
<1>2. air'.to # "pcd" /\ (air'.to = "picc" /\ air'.block.type = "ACK" => b.type = "ACK")
  BY SentFacts, BlockFields
<1> QED BY <1>1, <1>2 DEF Closing

\* The reader gives up.
LEMMA EndsClosing ==
  ASSUME picc' = picc, NEW p, Ends(p), call \in {"transceive", "deselect"}, air'.to = "none",
         call = "transceive" /\ p.rxChaining => picc.last # "ACK"
  PROVE  Closing' /\ call' \in {"failed", "ended"}
<1>1. /\ call' = IF call = "deselect" THEN "ended" ELSE "failed"
      /\ pcd' = IF call = "deselect" THEN InitPcd ELSE p
  BY DEF Ends
<1> QED BY <1>1 DEF Closing

LEMMA AppInv ==
  ASSUME IInv, TypeOK', App PROVE IInv'
<1> USE ExecutedFacts, TypeFacts, Fields, InvKept
<1>1. ASSUME NEW parts \in 1..MaxParts, rfalIsoDepStartApduTransceive(parts) PROVE IInv'
  BY <1>1, StartInv
<1>2. CASE rfalIsoDepDeselect
  <2> DEFINE p == Counted(pcd, DSL)
  <2>1. p \in PcdState /\ p.rxChaining = pcd.rxChaining
    <3>1. pcd \in PcdState
      OBVIOUS
    <3> QED BY <3>1, PcdOps, CountedFields
  <2>2. pcd.rxChaining => picc.last # "ACK"
    BY <1>2 DEF rfalIsoDepDeselect, IInv, AtRest, Closing
  <2>3. picc' = picc /\ executed' = executed /\ asked' = asked
    BY <1>2 DEF rfalIsoDepDeselect, history
  <2> HIDE DEF p
  <2>4. CASE Exhausted(pcd, DSL)
    <3>1. call' = "ended" /\ air' = air
      BY <1>2, <2>4 DEF rfalIsoDepDeselect
    <3>2. call = "none" \/ Closing
      BY <1>2 DEF rfalIsoDepDeselect, IInv
    <3>3. Closing'
      BY <2>2, <2>3, <3>1, <3>2 DEF Closing, IInv, AtRest
    <3> QED BY <2>3, <3>1, <3>3, CardOwesKept, BoundKept
  <2>5. CASE ~Exhausted(pcd, DSL)
    <3>1. call' = "deselect" /\ air' \in Sent("picc", DSL)
          /\ pcd' = [p EXCEPT !.state = "PCD_WAIT_DSL"]
      BY <1>2, <2>5 DEF rfalIsoDepDeselect, p
    <3>2. pcd'.state = "PCD_WAIT_DSL" /\ pcd'.rxChaining = pcd.rxChaining
      BY <2>1, <3>1 DEF PcdState
    <3>3. Closing'
      <4>1. DSL.type = "DSL"
        BY BlockFields
      <4> QED BY ONLY <2>2, <2>3, <3>1, <3>2, <4>1, SentClosing
    <3> QED BY <2>3, <3>1, <3>3, CardOwesKept, BoundKept
  <2> QED BY <2>4, <2>5
<1>3. CASE Reactivate
  <2>1. /\ call' = "none" /\ pcd' = InitPcd /\ picc' = InitPicc /\ air' = Silence
        /\ executed' = executed /\ asked' = asked
    BY <1>3 DEF Reactivate, history
  <2>2. AtRest' /\ CardOwes'
    BY <2>1, SilenceFacts DEF AtRest, CardQuiet, CardOwes, InitPcd, InitPicc
  <2> QED BY <2>1, <2>2, BoundKept
<1> QED BY <1>1, <1>2, <1>3 DEF App

-----------------------------------------------------------------------------
(* The invariant is kept by the reader.                                    *)

\* The reader, having heard nothing or what it cannot use, sends again what it may
\* send at this stage, or grants the card an extension.
LEMMA WaitsAgain ==
  ASSUME Transfer, pcd.state = "PCD_RX", NEW b,
         \/ b = NAK(pcd.bn) /\ ~pcd.rxChaining
         \/ b = ACK(pcd.bn) /\ pcd.rxChaining
         \/ b = WTX /\ picc.wtx,
         (air'.to = "picc" /\ air'.block \in {b, Damaged}) \/ air'.to = "none",
         picc' = picc, executed' = executed, asked' = asked,
         pcd'.state = pcd.state, pcd'.bn = pcd.bn, pcd'.more = pcd.more,
         pcd'.rxChaining = pcd.rxChaining, pcd'.parts = pcd.parts, pcd'.pos = pcd.pos,
         pcd'.got = pcd.got
  PROVE  Transfer'
<1>1. CASE Offered
  BY <1>1 DEF Transfer, Offered, CardQuiet, Carries, NotExecuted
<1>2. CASE Taken
  BY <1>2 DEF Transfer, Taken, CardQuiet, Carries, NotExecuted
<1>3. CASE Working
  BY <1>3 DEF Transfer, Working, Carries, Executed
<1>4. CASE Answering
  BY <1>4 DEF Transfer, Answering, Answer, Carries, Executed
<1>5. CASE PartRead
  BY <1>5 DEF Transfer, PartRead, Answer, Carries, Executed
<1> QED BY <1>1, <1>2, <1>3, <1>4, <1>5 DEF Transfer

\* A frame with an R-block or a request of the reader is not an acknowledgement to it.
LEMMA ControlSent ==
  ASSUME NEW p, NEW b, Control(p, b), ~Exhausted(p, b)
  PROVE  /\ pcd' = Counted(p, b) /\ call' = call
         /\ (air'.to = "picc" /\ air'.block \in {b, Damaged}) \/ air'.to = "none"
  BY SentFacts DEF Control

LEMMA TransferFacts ==
  ASSUME Transfer
  PROVE  pcd.state \in {"PCD_TX", "PCD_RX"} /\ (pcd.rxChaining => picc.last = "I")
  BY DEF Transfer, Offered, Taken, Working, Answering, PartRead, Answer

\* One more error, or one more extension, is enough for one more count.
LEMMA CountedOnce ==
  ASSUME NEW c \in Nat, errors \in Nat, extensions \in Nat
  PROVE  /\ Error /\ Least(c, ToleratedErrors + 1) <= errors =>
              /\ Least(c, ToleratedErrors + 1) <= errors'
              /\ Least(c + 1, ToleratedErrors + 1) <= errors'
         /\ Extension /\ Least(c, ToleratedExtensions + 1) <= extensions =>
              Least(c + 1, ToleratedExtensions + 1) <= extensions'
  BY Tolerated DEF Error, Extension, Least

LEMMA RecoverInv ==
  ASSUME IInv, TypeOK', Waiting, Recover PROVE IInv'
<1> USE ExecutedFacts, TypeFacts, Fields, InvKept
<1> DEFINE b == IF pcd.rxChaining THEN ACK(pcd.bn)
                ELSE IF pcd.state = "PCD_WAIT_DSL" THEN DSL ELSE NAK(pcd.bn)
           p == Counted(pcd, b)
<1>0. Error
  BY DEF Recover
<1>1. /\ Control(pcd, b) /\ picc' = picc /\ asked' = asked /\ executed' = executed
      /\ extensions' = extensions
  BY DEF Recover
<1>2. /\ b.type \in {"ACK", "NAK", "DSL"} /\ (b.type = "ACK" => pcd.rxChaining)
      /\ (b.type = "NAK" => ~pcd.rxChaining)
  BY ZenonT(60), BlockFields
<1> HIDE DEF b
<1>3. /\ p.state = pcd.state /\ p.pos = pcd.pos /\ p.more = pcd.more /\ p.rxChaining = pcd.rxChaining
      /\ p.bn = pcd.bn /\ p.parts = pcd.parts /\ p.got = pcd.got /\ p.cntI = pcd.cntI
      /\ b.type \in {"ACK", "NAK"} => p.cntR = pcd.cntR + 1 /\ p.cntS = pcd.cntS
  BY ZenonT(60), CountedFields
<1>4. CASE call = "transceive"
  <2>1. Transfer /\ Counts /\ pcd.state = "PCD_RX" /\ (pcd.rxChaining => picc.last = "I")
    BY <1>4, TransferFacts DEF IInv, Waiting
  <2>2. b.type \in {"ACK", "NAK"} /\ b = IF pcd.rxChaining THEN ACK(pcd.bn) ELSE NAK(pcd.bn)
    BY <2>1, BlockFields DEF b
  <2> HIDE DEF p
  <2>3. CASE Exhausted(pcd, b)
    <3>1. Ends(p) /\ air'.to = "none"
      BY <1>1, <2>3, SilenceFacts DEF Control, p
    <3>2. Closing' /\ call' \in {"failed", "ended"}
      BY <1>1, <1>3, <1>4, <2>1, <3>1, EndsClosing
    <3> QED BY <1>1, <3>2, CardOwesKept, BoundKept
  <2>4. CASE ~Exhausted(pcd, b)
    <3>1. /\ pcd' = p /\ call' = call
          /\ (air'.to = "picc" /\ air'.block \in {b, Damaged}) \/ air'.to = "none"
      BY <1>1, <2>4, ControlSent DEF p
    <3>2. Transfer'
      BY <1>1, <1>3, <2>1, <2>2, <3>1, WaitsAgain
    <3>3. Counts'
      <4>1. /\ Least(pcd.cntR, ToleratedErrors + 1) <= errors
            /\ Least(pcd.cntI, ToleratedErrors + 1) <= errors
            /\ Least(pcd.cntS, ToleratedExtensions + 1) <= extensions
        BY <2>1 DEF Counts
      <4>2. /\ Least(pcd.cntR + 1, ToleratedErrors + 1) <= errors'
            /\ Least(pcd.cntI, ToleratedErrors + 1) <= errors'
            /\ Least(pcd.cntI + 1, ToleratedErrors + 1) <= errors'
        BY <1>0, <4>1, CountedOnce
      <4>3. pcd'.cntR = pcd.cntR + 1 /\ pcd'.cntI = pcd.cntI /\ pcd'.cntS = pcd.cntS
        BY <1>3, <2>2, <3>1
      <4> QED BY <1>1, <3>1, <4>1, <4>2, <4>3 DEF Counts
    <3> QED BY <1>1, <1>4, <3>1, <3>2, <3>3, CardOwesKept, BoundKept
  <2> QED BY <2>3, <2>4
<1>5. CASE call = "deselect"
  <2>1. Closing /\ pcd.state = "PCD_WAIT_DSL" /\ (pcd.rxChaining => picc.last # "ACK")
    BY <1>5 DEF IInv, Closing
  <2>2. b.type \in {"DSL", "ACK"} /\ (b.type = "ACK" => picc.last # "ACK")
    BY <1>2, <2>1, BlockFields DEF b
  <2> HIDE DEF p
  <2>3. CASE Exhausted(pcd, b)
    <3>1. Ends(p) /\ air'.to = "none"
      BY <1>1, <2>3, SilenceFacts DEF Control, p
    <3>2. Closing' /\ call' \in {"failed", "ended"}
      BY <1>1, <1>5, <3>1, EndsClosing
    <3> QED BY <1>1, <3>2, CardOwesKept, BoundKept
  <2>4. CASE ~Exhausted(pcd, b)
    <3>1. pcd' = p /\ call' = call /\ air' \in Sent("picc", b)
      BY <1>1, <2>4 DEF p, Control
    <3>2. Closing'
      <4>1. pcd'.state = "PCD_WAIT_DSL" /\ (pcd'.rxChaining => picc.last # "ACK")
        BY ONLY <1>3, <2>1, <3>1
      <4>2. picc' = picc
        BY <1>1
      <4> QED BY ONLY <2>2, <3>1, <4>1, <4>2, SentClosing
    <3> QED BY <1>1, <1>5, <3>1, <3>2, CardOwesKept, BoundKept
  <2> QED BY <2>3, <2>4
<1> QED BY <1>4, <1>5 DEF Waiting, Running

\* The stage at which the reader of a transfer receives a block, and the block.
LEMMA ReaderReceives ==
  ASSUME IInv, call = "transceive", air.to = "pcd"
  PROVE  /\ air.block.type \notin {"DSL", "NAK"}
         /\ air.block.type = "WTX" => picc.wtx
         /\ air.block.type = "ACK" => air.block.bn = picc.bn /\ (Offered \/ Taken)
         /\ air.block.type = "I" => /\ Answering /\ ~picc.wtx
                                    /\ air.block = I(picc.bn, picc.more, asked, picc.pos + 1)
<1> USE BlockFields
<1>1. CardOwes /\ Transfer
  BY DEF IInv
<1>2. CASE Offered \/ Taken
  <2>1. air.block \in {ACK(picc.bn), Damaged}
    BY <1>2 DEF Offered, Taken, Carries
  <2> QED BY <1>2, <2>1
<1>3. CASE Working
  <2>1. air.block \in {WTX, Damaged} /\ picc.state = "PICC_RX" /\ picc.todo # 0
    BY <1>3 DEF Working, Carries
  <2> QED BY <1>1, <2>1 DEF CardOwes
<1>4. CASE Answering
  <2>1. air.block \in (IF picc.wtx THEN {WTX} ELSE {I(picc.bn, picc.more, asked, picc.pos + 1)})
                      \cup {Damaged}
    BY <1>4 DEF Answering, Carries
  <2> QED BY <1>4, <2>1
<1>5. CASE PartRead
  BY <1>5 DEF PartRead
<1> QED BY <1>1, <1>2, <1>3, <1>4, <1>5 DEF Transfer

LEMMA PcdTxInv ==
  ASSUME IInv, TypeOK', PcdTx PROVE IInv'
<1> USE ExecutedFacts, TypeFacts, Fields, InvKept
<1> DEFINE b == I(pcd.bn, pcd.more, asked, pcd.pos + 1)
<1>1. /\ pcd' = [pcd EXCEPT !.state = "PCD_RX"] /\ air' \in Sent("picc", b)
      /\ pcd.state = "PCD_TX" /\ Running
      /\ call' = call /\ picc' = picc /\ asked' = asked /\ executed' = executed
      /\ errors' = errors /\ extensions' = extensions
  BY DEF PcdTx, history
<1>2. call = "transceive" /\ Offered /\ Counts
  BY <1>1 DEF Running, IInv, Closing, Transfer, Taken, Working, Answering, PartRead, Answer
<1>3. /\ pcd'.state = "PCD_RX" /\ pcd'.bn = pcd.bn /\ pcd'.more = pcd.more
      /\ pcd'.rxChaining = pcd.rxChaining /\ pcd'.parts = pcd.parts /\ pcd'.pos = pcd.pos
      /\ pcd'.got = pcd.got
      /\ pcd'.cntI = pcd.cntI /\ pcd'.cntR = pcd.cntR /\ pcd'.cntS = pcd.cntS
  BY <1>1 DEF PcdState
<1>4. b.type = "I"
  BY BlockFields
<1> HIDE DEF b
<1>5. (air'.to = "picc" /\ air'.block \in {b, Damaged}) \/ air'.to = "none"
  BY <1>1, SentFacts
<1>6. Offered'
  BY <1>1, <1>2, <1>3, <1>5 DEF Offered, CardQuiet, Carries, NotExecuted, b
<1>7. Counts'
  BY <1>1, <1>2, <1>3, <1>4, <1>5, BlockFields DEF Counts
<1> QED BY <1>1, <1>2, <1>6, <1>7, CardOwesKept, BoundKept DEF Transfer

LEMMA TimeExtensionInv ==
  ASSUME IInv, TypeOK', TimeExtension PROVE IInv'
<1> USE ExecutedFacts, TypeFacts, Fields, InvKept
<1> DEFINE p == Counted(pcd, WTX)
<1>0. Extension /\ Waiting
  BY DEF TimeExtension, Receives
<1>1. /\ Control(pcd, WTX) /\ air.to = "pcd" /\ air.block.type = "WTX"
      /\ picc' = picc /\ asked' = asked /\ executed' = executed /\ errors' = errors
  BY DEF TimeExtension, Receives
<1>2. WTX.type = "WTX"
  BY BlockFields
<1>3. /\ p.state = pcd.state /\ p.pos = pcd.pos /\ p.more = pcd.more /\ p.rxChaining = pcd.rxChaining
      /\ p.bn = pcd.bn /\ p.parts = pcd.parts /\ p.got = pcd.got /\ p.cntI = pcd.cntI
      /\ p.cntR = pcd.cntR /\ p.cntS = pcd.cntS + 1
  BY ZenonT(60), <1>2, CountedFields
<1> HIDE DEF p
<1>4. CASE call = "transceive"
  <2>1. Transfer /\ Counts /\ pcd.state = "PCD_RX" /\ (pcd.rxChaining => picc.last = "I")
    BY <1>0, <1>4, TransferFacts DEF IInv, Waiting
  <2>2. picc.wtx
    BY <1>1, <1>4, ReaderReceives
  <2>3. CASE Exhausted(pcd, WTX)
    <3>1. Ends(p) /\ air'.to = "none"
      BY <1>1, <2>3, SilenceFacts DEF Control, p
    <3>2. Closing' /\ call' \in {"failed", "ended"}
      BY <1>1, <1>3, <1>4, <2>1, <3>1, EndsClosing
    <3> QED BY <1>1, <3>2, CardOwesKept, BoundKept
  <2>4. CASE ~Exhausted(pcd, WTX)
    <3>1. /\ pcd' = p /\ call' = call
          /\ (air'.to = "picc" /\ air'.block \in {WTX, Damaged}) \/ air'.to = "none"
      BY <1>1, <2>4, ControlSent DEF p
    <3>2. Transfer'
      BY <1>1, <1>3, <2>1, <2>2, <3>1, WaitsAgain
    <3>3. Counts'
      <4>1. /\ Least(pcd.cntR, ToleratedErrors + 1) <= errors
            /\ Least(pcd.cntI, ToleratedErrors + 1) <= errors
            /\ Least(pcd.cntS, ToleratedExtensions + 1) <= extensions
        BY <2>1 DEF Counts
      <4>2. Least(pcd.cntS + 1, ToleratedExtensions + 1) <= extensions'
        BY <1>0, <4>1, CountedOnce
      <4> QED BY <1>1, <1>2, <1>3, <3>1, <4>1, <4>2, BlockFields DEF Counts
    <3> QED BY <1>1, <1>4, <3>1, <3>2, <3>3, CardOwesKept, BoundKept
  <2> QED BY <2>3, <2>4
<1>5. CASE call = "deselect"
  <2>1. Closing /\ pcd.state = "PCD_WAIT_DSL" /\ (pcd.rxChaining => picc.last # "ACK")
    BY <1>5 DEF IInv, Closing
  <2>3. CASE Exhausted(pcd, WTX)
    <3>1. Ends(p) /\ air'.to = "none"
      BY <1>1, <2>3, SilenceFacts DEF Control, p
    <3>2. Closing' /\ call' \in {"failed", "ended"}
      BY <1>1, <1>5, <3>1, EndsClosing
    <3> QED BY <1>1, <3>2, CardOwesKept, BoundKept
  <2>4. CASE ~Exhausted(pcd, WTX)
    <3>1. pcd' = p /\ call' = call /\ air' \in Sent("picc", WTX)
      BY <1>1, <2>4 DEF p, Control
    <3>2. pcd'.state = "PCD_WAIT_DSL" /\ (pcd'.rxChaining => picc.last # "ACK")
      BY <1>3, <2>1, <3>1
    <3>3. Closing'
      BY <1>1, <1>2, <3>1, <3>2, SentClosing
    <3> QED BY <1>1, <1>5, <3>1, <3>3, CardOwesKept, BoundKept
  <2> QED BY <2>3, <2>4
<1> QED BY <1>0, <1>4, <1>5 DEF Waiting, Running

\* A reader whose application waits for the end of a deselection is not acknowledged.
LEMMA DeselectReceives ==
  ASSUME IInv, call = "deselect", air.to = "pcd"
  PROVE  /\ air.block.type # "ACK" /\ pcd.state = "PCD_WAIT_DSL"
         /\ air.block.type = "I" => picc.last # "ACK"
  BY DEF IInv, Closing

LEMMA DeselectedInv ==
  ASSUME IInv, TypeOK', Deselected PROVE IInv'
<1> USE ExecutedFacts, InvKept
<1>1. /\ Ends(pcd) /\ air' = Silence /\ air.to = "pcd" /\ air.block.type \in {"DSL", "NAK"}
      /\ Waiting /\ picc' = picc /\ asked' = asked /\ executed' = executed
  BY DEF Deselected, Receives, history
<1>2. call = "deselect"
  BY <1>1, ReaderReceives DEF Waiting, Running
<1>3. Closing' /\ call' \in {"failed", "ended"}
  BY <1>1, <1>2, SilenceFacts, EndsClosing
<1> QED BY <1>1, <1>3, CardOwesKept, BoundKept

\* Counting starts anew with a block that got through.
LEMMA CountsRestart ==
  ASSUME pcd'.cntI = 0, pcd'.cntR = 0, pcd'.cntS = 0, errors' = 0, extensions' = 0,
         air'.to # "pcd", air'.to = "picc" => air'.block.type # "NAK"
  PROVE  Counts'
<1>1. ToleratedErrors + 1 \in Nat /\ ToleratedExtensions + 1 \in Nat
  BY Tolerated
<1>2. Least(0, ToleratedErrors + 1) = 0 /\ Least(0, ToleratedExtensions + 1) = 0
  BY <1>1, LeastFacts
<1> QED BY <1>2 DEF Counts

LEMMA AcknowledgedInv ==
  ASSUME IInv, TypeOK', Acknowledged PROVE IInv'
<1> USE ExecutedFacts, TypeFacts, Fields, InvKept
<1> DEFINE next == [pcd EXCEPT !.bn = Other(@)]
<1>1. /\ Waiting /\ air.to = "pcd" /\ air.block.type = "ACK" /\ air.block.bn = pcd.bn
      /\ air' = Silence /\ picc' = picc /\ asked' = asked /\ executed' = executed
  BY DEF Acknowledged, Receives
<1>2. call = "transceive"
  BY <1>1, DeselectReceives DEF Waiting, Running
<1>3. Taken
  BY <1>1, <1>2, ReaderReceives DEF Offered
<1>4. /\ pcd.bn = picc.bn /\ pcd.got = <<>> /\ pcd.more /\ pcd.pos + 1 < pcd.parts
      /\ CardQuiet /\ picc.got = Parts(asked, pcd.pos + 1) /\ NotExecuted
  BY <1>3 DEF Taken
<1>5. next \in PcdState /\ next.bn = Other(pcd.bn) /\ next.parts = pcd.parts /\ next.got = <<>>
  <2>1. pcd \in PcdState /\ Other(pcd.bn) \in {0, 1}
    BY OtherFacts
  <2>2. next.bn = Other(pcd.bn) /\ next.parts = pcd.parts /\ next.got = pcd.got
    BY ONLY <2>1, TurnedFields
  <2>3. next \in PcdState
    BY ONLY <2>1, TurnedFields
  <2> HIDE DEF next
  <2> QED BY <1>4, <2>2, <2>3
<1>6. pcd' = StartPart(next, pcd.pos + 1) /\ errors' = 0 /\ extensions' = 0 /\ call' = call
  BY <1>1, <1>2, <1>4 DEF Acknowledged, Progress
<1> HIDE DEF next
<1> DEFINE pos == pcd.pos + 1
<1>7. pos \in Nat /\ pos < pcd.parts
  <2>1. pcd.pos \in Nat /\ pcd.pos + 1 < pcd.parts
    BY <1>4
  <2> QED BY ONLY <2>1
<1>8. /\ pcd'.state = "PCD_TX" /\ pcd'.pos = pos /\ pcd'.parts = pcd.parts
      /\ pcd'.more = (pcd'.pos + 1 < pcd'.parts)
      /\ ~pcd'.rxChaining /\ pcd'.cntI = 0 /\ pcd'.cntR = 0 /\ pcd'.cntS = 0
      /\ pcd'.bn = Other(pcd.bn) /\ pcd'.got = <<>>
  <2> HIDE DEF pos
  <2>1. pcd' = StartPart(next, pos)
    BY <1>6 DEF pos
  <2>2. /\ pcd'.state = "PCD_TX" /\ pcd'.pos = pos /\ pcd'.parts = next.parts
        /\ pcd'.more = (pos + 1 < next.parts)
        /\ ~pcd'.rxChaining /\ pcd'.cntI = 0 /\ pcd'.cntR = 0 /\ pcd'.cntS = 0
        /\ pcd'.bn = next.bn /\ pcd'.got = next.got
    BY ONLY <1>5, <1>7, <2>1, StartPartFields
  <2> QED BY <1>5, <2>2
<1>9. Offered'
  <2>1. picc'.got = Parts(asked', pcd'.pos) /\ pcd'.bn # picc'.bn /\ pcd'.pos < pcd'.parts
    BY ZenonT(60), <1>1, <1>4, <1>7, <1>8, OtherFacts
  <2>2. NotExecuted' /\ CardQuiet' /\ air'.to = "none"
    BY <1>1, <1>4, SilenceFacts DEF NotExecuted, CardQuiet
  <2> HIDE DEF pos
  <2> QED BY <1>8, <2>1, <2>2 DEF Offered, Carries
<1>10. Counts'
  BY <1>1, <1>6, <1>8, SilenceFacts, CountsRestart
<1> QED BY <1>1, <1>2, <1>6, <1>9, <1>10, CardOwesKept, BoundKept DEF Transfer

LEMMA RetransmitInv ==
  ASSUME IInv, TypeOK', Retransmit PROVE IInv'
<1> USE ExecutedFacts, TypeFacts, Fields, InvKept
<1>1. /\ Waiting /\ air.to = "pcd" /\ air.block.type = "ACK" /\ air.block.bn # pcd.bn
      /\ air' = Silence /\ picc' = picc /\ asked' = asked /\ executed' = executed
      /\ errors' = errors /\ extensions' = extensions
  BY DEF Retransmit, Receives, history
<1>2. call = "transceive"
  BY <1>1, DeselectReceives DEF Waiting, Running
<1>3. Offered /\ Counts
  BY <1>1, <1>2, ReaderReceives DEF Taken, IInv
<1>4. CASE pcd.cntI < MaxRetriesI
  <2>1. /\ pcd' = [pcd EXCEPT !.cntI = @ + 1, !.cntR = 0, !.state = "PCD_TX"] /\ call' = call
    BY <1>1, <1>4 DEF Retransmit
  <2>2. /\ pcd'.state = "PCD_TX" /\ pcd'.bn = pcd.bn /\ pcd'.more = pcd.more
        /\ pcd'.rxChaining = pcd.rxChaining /\ pcd'.parts = pcd.parts /\ pcd'.pos = pcd.pos
        /\ pcd'.got = pcd.got
        /\ pcd'.cntI = pcd.cntI + 1 /\ pcd'.cntR = 0 /\ pcd'.cntS = pcd.cntS
    BY <2>1 DEF PcdState
  <2>3. Offered'
    BY <1>1, <1>3, <2>2, SilenceFacts DEF Offered, CardQuiet, Carries, NotExecuted
  <2>4. Counts'
    <3>1. ToleratedErrors + 1 \in Nat
      BY Tolerated
    <3>2. Least(0, ToleratedErrors + 1) = 0 /\ Least(0, ToleratedErrors + 1) <= errors
      BY <3>1, LeastFacts
    <3>3. /\ Least(pcd.cntI + 1, ToleratedErrors + 1) <= errors
          /\ Least(pcd.cntS, ToleratedExtensions + 1) <= extensions
      BY <1>1, <1>3 DEF Counts
    <3> QED BY <1>1, <2>2, <3>2, <3>3, SilenceFacts DEF Counts
  <2> QED BY <1>1, <1>2, <2>1, <2>3, <2>4, CardOwesKept, BoundKept DEF Transfer
<1>5. CASE ~(pcd.cntI < MaxRetriesI)
  <2> DEFINE p == [pcd EXCEPT !.cntI = @ + 1]
  <2>1. Ends(p) /\ ~p.rxChaining
    BY <1>1, <1>3, <1>5 DEF Retransmit, PcdState, Offered
  <2> HIDE DEF p
  <2>2. Closing' /\ call' \in {"failed", "ended"}
    BY <1>1, <1>2, <2>1, SilenceFacts, EndsClosing
  <2> QED BY <1>1, <2>2, CardOwesKept, BoundKept
<1> QED BY <1>4, <1>5

\* A part of the answer, for the reader that takes it.
PartTaken(inf) ==
  ClearCounters([[pcd EXCEPT !.rxChaining = TRUE] EXCEPT !.bn = Other(@), !.got = Append(@, inf)])
\* The last part of the answer.
AnswerTaken(inf) ==
  [ClearCounters([[pcd EXCEPT !.rxChaining = FALSE] EXCEPT !.bn = Other(@), !.state = "IDLE"])
     EXCEPT !.got = Append(pcd.got, inf)]

LEMMA TakenFields ==
  ASSUME TypeOK, NEW inf \in Part
  PROVE  LET p == PartTaken(inf)
             q == AnswerTaken(inf)
         IN  /\ p.state = pcd.state /\ p.bn = Other(pcd.bn) /\ p.more = pcd.more /\ p.rxChaining
             /\ p.parts = pcd.parts /\ p.pos = pcd.pos /\ p.got = Append(pcd.got, inf)
             /\ p.cntI = 0 /\ p.cntR = 0 /\ p.cntS = 0
             /\ q.bn = Other(pcd.bn) /\ ~q.rxChaining
<1>1. pcd \in PcdState
  BY TypeFacts
<1> QED BY <1>1 DEF PartTaken, AnswerTaken, ClearCounters, PcdState

LEMMA ReceivePartInv ==
  ASSUME IInv, TypeOK', ReceivePart PROVE IInv'
<1> USE ExecutedFacts, InvKept
<1> DEFINE b == air.block
           p == [pcd EXCEPT !.rxChaining = TRUE]
           fresh == PartTaken(b.inf)
<1>1. /\ Waiting /\ air.to = "pcd" /\ b.type = "I" /\ b.more
      /\ picc' = picc /\ asked' = asked /\ executed' = executed
  BY DEF ReceivePart, Receives
<1>2. CASE call = "transceive"
  <2>1. /\ Answering /\ ~picc.wtx /\ b = I(picc.bn, picc.more, asked, picc.pos + 1)
    BY <1>1, <1>2, ReaderReceives
  <2>2. b.bn = pcd.bn /\ picc.more /\ b.inf = <<asked, picc.pos + 1>>
    BY <1>1, <2>1, BlockFields DEF Answering
  <2>3. pcd' = fresh /\ air' \in Sent("picc", ACK(fresh.bn)) /\ Progress /\ call' = call
    BY <1>1, <1>2, <2>2 DEF ReceivePart, PartTaken
  <2>4. b.inf \in Part
    BY <1>1, Fields, ReceivedBlock
  <2> HIDE DEF fresh, b
  <2>5. /\ pcd'.state = pcd.state /\ pcd'.bn = Other(pcd.bn) /\ pcd'.more = pcd.more
        /\ pcd'.rxChaining /\ pcd'.parts = pcd.parts /\ pcd'.pos = pcd.pos
        /\ pcd'.got = Append(pcd.got, b.inf) /\ pcd'.cntI = 0 /\ pcd'.cntR = 0 /\ pcd'.cntS = 0
    BY <2>3, <2>4, TakenFields DEF fresh
  <2>6. pcd'.got = Parts(asked, picc.pos + 1)
    <3>1. picc.pos \in Nat /\ asked \in Nat /\ pcd.got = Parts(asked, picc.pos)
      BY <2>1, Fields DEF Answering
    <3> QED BY ONLY <3>1, <2>2, <2>5, PartsFacts
  <2>7. (air'.to = "picc" /\ air'.block \in {ACK(pcd'.bn), Damaged}) \/ air'.to = "none"
    BY <2>3, SentFacts
  <2>8. pcd'.bn # picc'.bn /\ picc.state = "PICC_RX" /\ picc.last = "I"
    <3>1. pcd.bn \in {0, 1} /\ pcd.bn = picc.bn /\ picc' = picc
      BY <1>1, <2>1, Fields DEF Answering
    <3>2. pcd'.bn # picc'.bn
      BY ONLY <2>5, <3>1, OtherFacts
    <3>3. picc.state = "PICC_RX" /\ picc.last = "I"
      BY <1>1, <2>1 DEF Answering
    <3> QED BY <3>2, <3>3
  <2>9. PartRead'
    BY <1>1, <2>1, <2>2, <2>5, <2>6, <2>7, <2>8
       DEF PartRead, Answering, Answer, Carries, Executed
  <2>10. Counts'
    BY <2>3, <2>5, <2>7, BlockFields, CountsRestart DEF Progress
  <2> QED BY <1>1, <1>2, <2>3, <2>9, <2>10, CardOwesKept, BoundKept DEF Transfer
<1>3. CASE call = "deselect"
  <2>1. pcd.state = "PCD_WAIT_DSL" /\ picc.last # "ACK"
    BY <1>1, <1>3, DeselectReceives
  <2>2. CASE b.bn # pcd.bn
    <3>1. Control(p, ACK(pcd.bn))
      BY <1>1, <2>2 DEF ReceivePart
    <3>2. p \in PcdState /\ p.state = "PCD_WAIT_DSL"
      BY <2>1, TypeFacts DEF PcdState
    <3> HIDE DEF p
    <3>3. CASE Exhausted(p, ACK(pcd.bn))
      <4>1. Ends(Counted(p, ACK(pcd.bn))) /\ air'.to = "none"
        BY <3>1, <3>3, SilenceFacts DEF Control
      <4>2. Closing' /\ call' \in {"failed", "ended"}
        BY <1>1, <1>3, <4>1, EndsClosing
      <4> QED BY <1>1, <4>2, CardOwesKept, BoundKept
    <3>4. CASE ~Exhausted(p, ACK(pcd.bn))
      <4>1. /\ pcd' = Counted(p, ACK(pcd.bn)) /\ call' = call
            /\ air' \in Sent("picc", ACK(pcd.bn))
        BY <3>1, <3>4 DEF Control
      <4>2. pcd'.state = "PCD_WAIT_DSL"
        BY <3>2, <4>1, CountedFields
      <4>3. Closing'
        BY <1>1, <2>1, <4>1, <4>2, BlockFields, SentClosing
      <4> QED BY <1>1, <1>3, <4>1, <4>3, CardOwesKept, BoundKept
    <3> QED BY <3>3, <3>4
  <2>3. CASE b.bn = pcd.bn
    <3>1. Ends(fresh) /\ air' \in Sent("picc", ACK(fresh.bn))
      BY <1>1, <1>3, <2>3 DEF ReceivePart, PartTaken
    <3>2. call' = "ended"
      BY <1>3, <3>1 DEF Ends
    <3> HIDE DEF fresh
    <3>3. Closing'
      BY <1>1, <2>1, <3>1, <3>2, BlockFields, SentClosing
    <3> QED BY <1>1, <3>2, <3>3, CardOwesKept, BoundKept
  <2> QED BY <2>2, <2>3
<1> QED BY <1>1, <1>2, <1>3 DEF Waiting, Running

\* The last part of the answer that the reader takes is the end of the whole answer to
\* its command, which was executed.
LEMMA AnswerReceived ==
  ASSUME IInv, call = "transceive", ReceiveLast
  PROVE  /\ call' = "none" /\ answered' = asked /\ Executed /\ AtRest'
         /\ picc' = picc /\ asked' = asked /\ executed' = executed /\ errors' = 0
<1> USE ExecutedFacts
<1> DEFINE b == air.block
           got == Append(pcd.got, b.inf)
           n == picc.pos + 1
<1>1. /\ Waiting /\ air.to = "pcd" /\ b.type = "I" /\ ~b.more
      /\ air' = Silence /\ picc' = picc /\ asked' = asked /\ executed' = executed
  BY DEF ReceiveLast, Receives
<1>2. /\ Answering /\ ~picc.wtx /\ b = I(picc.bn, picc.more, asked, n)
  BY <1>1, ReaderReceives
<1>3. b.bn = pcd.bn /\ ~picc.more /\ b.inf = <<asked, n>> /\ ~pcd.more
  BY <1>1, <1>2, BlockFields DEF Answering, Answer
<1>4. b.inf \in Part
  BY <1>1, Fields, ReceivedBlock
<1>5. /\ pcd' = AnswerTaken(b.inf) /\ call' = "none" /\ Progress
      /\ answered' = IF Whole(got, picc.reply, picc.parts) THEN picc.reply ELSE 0
  BY <1>1, <1>3 DEF ReceiveLast, AnswerTaken
<1>6. got = Parts(asked, n) /\ n = picc.parts
  <2>1. picc.pos \in Nat /\ picc.parts \in Nat /\ asked \in Nat
    BY Fields
  <2>2. pcd.got = Parts(asked, picc.pos) /\ picc.pos < picc.parts /\ ~(picc.pos + 1 < picc.parts)
    BY <1>2, <1>3 DEF Answering, Answer
  <2>3. n = picc.parts
    BY ONLY <2>1, <2>2
  <2> QED BY <1>3, <2>1, <2>2, <2>3, PartsFacts
<1>7. answered' = asked /\ Executed
  <2>1. picc.reply = asked /\ Executed
    BY <1>2 DEF Answering, Answer
  <2>2. Whole(Parts(asked, n), asked, n)
    <3>1. n \in Nat /\ asked \in Nat
      BY Fields
    <3> QED BY ONLY <3>1, PartsFacts
  <2> HIDE DEF got, n
  <2> QED BY <1>5, <1>6, <2>1, <2>2
<1>8. pcd'.bn = Other(pcd.bn) /\ ~pcd'.rxChaining
  BY <1>4, <1>5, TakenFields
<1>9. /\ picc.state = "PICC_RX" /\ picc.got = <<>> /\ pcd.bn = picc.bn
  BY <1>1, <1>2, Fields DEF Answering, Answer
<1>10. AtRest'
  <2>1. pcd.bn \in {0, 1} /\ picc' = picc /\ air'.to = "none" /\ ~picc.wtx /\ ~picc.more
    BY <1>1, <1>2, <1>3, Fields, SilenceFacts
  <2>2. pcd'.bn # picc'.bn
    BY ONLY <1>8, <1>9, <2>1, OtherFacts
  <2> QED BY <1>8, <1>9, <2>1, <2>2 DEF AtRest, CardQuiet
<1> QED BY <1>1, <1>5, <1>7, <1>10 DEF Progress

LEMMA ReceiveLastInv ==
  ASSUME IInv, TypeOK', ReceiveLast PROVE IInv'
<1> USE ExecutedFacts, InvKept
<1>1. CASE call = "transceive"
  BY <1>1, AnswerReceived, CardOwesKept, BoundKept
<1>2. CASE call # "transceive"
  <2>1. /\ call = "deselect" /\ Ends([pcd EXCEPT !.rxChaining = FALSE]) /\ air'.to = "none"
        /\ picc' = picc /\ asked' = asked /\ executed' = executed
    BY <1>2, SilenceFacts DEF ReceiveLast, Receives, Waiting, Running
  <2>2. Closing' /\ call' \in {"failed", "ended"}
    BY <2>1, EndsClosing
  <2> QED BY <2>1, <2>2, CardOwesKept, BoundKept
<1> QED BY <1>1, <1>2

LEMMA PcdInv ==
  ASSUME IInv, TypeOK', Pcd PROVE IInv'
<1>1. (PcdTimeout \/ PcdReceiveError) => Waiting /\ Recover
  BY DEF PcdTimeout, PcdReceiveError, Receives
<1> QED
  BY <1>1, PcdTxInv, RecoverInv, TimeExtensionInv, DeselectedInv, AcknowledgedInv, RetransmitInv,
     ReceivePartInv, ReceiveLastInv DEF Pcd

-----------------------------------------------------------------------------
(* The invariant is kept by the card.                                      *)

\* The stage at which the card receives a block of a transfer, and the block.
LEMMA CardReceives ==
  ASSUME IInv, call = "transceive", air.to = "picc", picc.state = "PICC_RX"
  PROVE  /\ air.block.type # "DSL"
         /\ air.block.type = "I" =>
              Offered /\ air.block = I(pcd.bn, pcd.more, asked, pcd.pos + 1)
         /\ air.block.type = "WTX" => (Working \/ Answering) /\ picc.wtx
         /\ air.block.type = "ACK" =>
              air.block.bn = pcd.bn /\ (Answering \/ PartRead)
         /\ air.block.type = "NAK" =>
              air.block.bn = pcd.bn /\ (Offered \/ Taken \/ Working \/ Answering)
<1> USE BlockFields
<1>1. Transfer
  BY DEF IInv
<1>2. CASE Offered
  <2>1. air.block \in {I(pcd.bn, pcd.more, asked, pcd.pos + 1), NAK(pcd.bn), Damaged}
    BY <1>2 DEF Offered, Carries
  <2> QED BY <1>2, <2>1
<1>3. CASE Taken
  <2>1. air.block \in {NAK(pcd.bn), Damaged}
    BY <1>3 DEF Taken, Carries
  <2> QED BY <1>3, <2>1
<1>4. CASE Working
  <2>1. air.block \in {NAK(pcd.bn), Damaged} \cup IF picc.wtx THEN {WTX} ELSE {}
    BY <1>4 DEF Working, Carries
  <2> QED BY <1>4, <2>1
<1>5. CASE Answering
  <2>1. air.block \in {NAK(pcd.bn), ACK(pcd.bn), Damaged} \cup IF picc.wtx THEN {WTX} ELSE {}
    BY <1>5 DEF Answering, Carries
  <2> QED BY <1>5, <2>1
<1>6. CASE PartRead
  <2>1. air.block \in {ACK(pcd.bn), Damaged}
    BY <1>6 DEF PartRead, Carries
  <2> QED BY <1>6, <2>1
<1> QED BY <1>1, <1>2, <1>3, <1>4, <1>5, <1>6 DEF Transfer

CardStep == /\ pcd' = pcd /\ call' = call /\ asked' = asked
            /\ errors' = errors /\ extensions' = extensions

\* What the card sends counts as an error only in answer to a request to repeat.
LEMMA CountsByCard ==
  ASSUME Counts, CardStep,
         air'.to = "none" \/ air'.to = "pcd",
         air'.to = "pcd" /\ air'.block.type = "ACK" /\ air'.block.bn # pcd.bn =>
           air.to = "picc" /\ air.block.type = "NAK"
  PROVE  Counts'
  BY DEF Counts, CardStep

\* The card has nothing to do between two commands.
LEMMA CardRests ==
  ASSUME IInv, call = "none"
  PROVE  picc.todo = 0 /\ picc.state = "PICC_RX" /\ air.to = "none"
  BY DEF IInv, AtRest, CardQuiet, CardOwes

LEMMA ClosingByCard ==
  ASSUME Closing, CardStep, picc'.last = picc.last, air'.to = "none" \/ air' = air
  PROVE  Closing'
  BY DEF Closing, CardStep

LEMMA ClosingReply ==
  ASSUME Closing, CardStep, picc'.last # "ACK",
         air'.to = "none" \/ (air'.to = "pcd" /\ air'.block.type # "ACK")
  PROVE  Closing'
  BY DEF Closing, CardStep

\* A step of the card, by the parts of IInv.
LEMMA InvByCard ==
  ASSUME IInv, TypeOK', CardStep, executed' = executed, call # "none", CardOwes',
         call = "transceive" => Transfer' /\ Counts',
         call # "transceive" /\ Closing => Closing'
  PROVE  IInv'
<1>1. call # "transceive" => Closing
  BY ExecutedFacts, TypeFacts DEF IInv, CallState
<1>2. asked' = asked /\ call' = call
  BY DEF CardStep
<1> QED BY <1>1, <1>2, BoundKept, InvKept

LEMMA AnswerCommandInv ==
  ASSUME IInv, TypeOK', NEW parts \in 1..MaxParts, AnswerCommand(parts) PROVE IInv'
<1> DEFINE p == [picc EXCEPT !.reply = picc.todo, !.todo = 0, !.parts = parts, !.got = <<>>]
<1>1. /\ picc.todo # 0 /\ picc.state \in {"PICC_RX", "PICC_SWTX"} /\ picc' = StartAnswer(p, 0)
      /\ CardStep /\ air' = air /\ executed' = executed
  BY DEF AnswerCommand, history, CardStep
<1>2. /\ p \in PiccState /\ p.bn = picc.bn /\ p.last = picc.last /\ p.wtx = picc.wtx
      /\ p.pending = picc.pending /\ p.todo = 0 /\ p.reply = picc.todo /\ p.parts = parts
      /\ p.got = <<>> /\ parts \in Nat /\ parts > 0
  <2>1. parts \in Nat /\ parts > 0 /\ <<>> \in Seq(Part)
    BY ONLY parts \in 1..MaxParts, BoundsAssumption
  <2>2. picc \in PiccState /\ p \in PiccState
    BY <2>1, ExecutedFacts, Fields, TypeFacts, PiccUpdates
  <2> QED BY <2>1, <2>2 DEF PiccState
<1> HIDE DEF p
<1>3. /\ picc'.bn = picc.bn /\ picc'.more = (0 + 1 < parts) /\ picc'.last = picc.last
      /\ picc'.wtx = picc.wtx /\ picc'.pending = (picc.wtx \/ picc.pending)
      /\ picc'.todo = 0 /\ picc'.reply = picc.todo /\ picc'.parts = parts /\ picc'.pos = 0
      /\ picc'.got = <<>> /\ picc'.state = IF picc.wtx THEN "PICC_RX" ELSE "PICC_TX"
  <2>1. picc' = StartAnswer(p, 0) /\ 0 \in Nat
    BY <1>1
  <2> QED BY ONLY <1>2, <2>1, PiccFields
<1>4. CardOwes /\ (picc.state = "PICC_RX" => picc.wtx)
  BY <1>1, ExecutedFacts DEF CardOwes
<1>5. CardOwes'
  BY <1>1, <1>3, <1>4 DEF CardOwes
<1>6. CASE call = "transceive"
  <2>1. Working /\ Counts
    BY <1>1, <1>4, <1>6
       DEF IInv, CardOwes, CardQuiet, Transfer, Offered, Taken, Answering, PartRead, Answer
  <2>2. Parts(asked, 0) = <<>>
    BY ExecutedFacts, PartsFacts
  <2>3. Answer'
    BY <1>1, <1>2, <1>3, <2>1 DEF Working, Answer, Executed, CardStep
  <2>4. picc'.state = "PICC_TX" => air.to # "pcd"
    BY <1>1, <1>3, <1>4, <2>1 DEF Working
  <2>5. Answering'
    <3>1. pcd'.rxChaining = (picc'.pos > 0)
      BY <1>1, <1>3, <2>1, ExecutedFacts, Fields DEF Working, CardStep
    <3>2. /\ Carries("picc", {NAK(pcd.bn), ACK(pcd.bn)} \cup IF picc.wtx THEN {WTX} ELSE {})'
          /\ Carries("pcd", IF picc.wtx THEN {WTX}
                            ELSE {I(picc.bn, picc.more, asked, picc.pos + 1)})'
      BY <1>1, <1>3, <2>1, <2>4 DEF Working, Carries, CardStep
    <3> QED BY <1>1, <1>3, <2>1, <2>2, <2>3, <2>4, <3>1, <3>2 DEF Working, Answering, CardStep
  <2>6. Counts'
    BY <1>1, <2>1 DEF Counts, CardStep
  <2> QED BY <1>1, <1>5, <1>6, <2>5, <2>6, InvByCard DEF Transfer
<1>7. CASE call # "transceive"
  BY <1>1, <1>3, <1>5, <1>7, CardRests, ClosingByCard, InvByCard
<1> QED BY <1>6, <1>7

LEMMA PiccTxInv ==
  ASSUME IInv, TypeOK', PiccTx PROVE IInv'
<1> DEFINE p == [picc EXCEPT !.pending = FALSE, !.state = "PICC_RX"]
           b == I(picc.bn, picc.more, picc.reply, picc.pos + 1)
<1>1. /\ picc.state = "PICC_TX" /\ Replies(p, b) /\ CardStep /\ executed' = executed
  BY DEF PiccTx, history, CardStep
<1>2. /\ p \in PiccState /\ p.state = "PICC_RX" /\ p.bn = picc.bn /\ p.more = picc.more
      /\ p.wtx = picc.wtx /\ ~p.pending /\ p.todo = picc.todo /\ p.reply = picc.reply
      /\ p.parts = picc.parts /\ p.pos = picc.pos /\ p.got = picc.got
  <2>1. picc \in PiccState
    BY ExecutedFacts, TypeFacts
  <2> QED BY <2>1 DEF PiccState
<1>3. b.type = "I"
  BY BlockFields
<1> HIDE DEF p, b
<1>4. /\ picc'.state = "PICC_RX" /\ picc'.bn = picc.bn /\ picc'.more = picc.more
      /\ picc'.last = "I" /\ picc'.wtx = picc.wtx /\ ~picc'.pending /\ picc'.todo = picc.todo
      /\ picc'.reply = picc.reply /\ picc'.parts = picc.parts /\ picc'.pos = picc.pos
      /\ picc'.got = picc.got
      /\ (air'.to = "pcd" /\ air'.block \in {b, Damaged}) \/ air'.to = "none"
  BY <1>1, <1>2, <1>3, RepliesFields
<1>5. CardOwes /\ ~picc.wtx /\ picc.todo = 0
  BY <1>1, ExecutedFacts DEF CardOwes
<1>6. CardOwes'
  BY <1>4, <1>5 DEF CardOwes
<1>7. air'.block.type # "ACK" \/ air'.to = "none"
  BY <1>3, <1>4, BlockFields
<1>8. CASE call = "transceive"
  <2>1. Answering /\ Counts
    BY <1>1, <1>8 DEF IInv, CardQuiet, Transfer, Offered, Taken, Working, PartRead
  <2>2. Answer' /\ b = I(picc.bn, picc.more, asked, picc.pos + 1)
    BY <1>1, <1>4, <2>1 DEF Answering, Answer, Executed, CardStep, b
  <2>3. Answering'
    BY <1>1, <1>4, <1>5, <2>1, <2>2 DEF Answering, Carries, CardStep
  <2>4. Counts'
    BY <1>1, <1>4, <1>7, <2>1, CountsByCard
  <2> QED BY <1>1, <1>6, <1>8, <2>3, <2>4, InvByCard DEF Transfer
<1>9. CASE call # "transceive"
  <2>1. Closing => Closing'
    <3>1. picc'.last # "ACK" /\ (air'.to = "none" \/ (air'.to = "pcd" /\ air'.block.type # "ACK"))
      BY <1>4, <1>7
    <3> QED BY <1>1, <3>1, ClosingReply
  <2>2. call # "none"
    BY <1>1, CardRests
  <2> QED BY <1>1, <1>6, <1>9, <2>1, <2>2, InvByCard
<1> QED BY <1>8, <1>9

LEMMA PiccSwtxInv ==
  ASSUME IInv, TypeOK', PiccSwtx PROVE IInv'
<1> DEFINE p == [picc EXCEPT !.wtx = TRUE, !.state = "PICC_RX"]
<1>1. /\ picc.state = "PICC_SWTX" /\ Replies(p, WTX) /\ CardStep /\ executed' = executed
  BY DEF PiccSwtx, history, CardStep
<1>2. /\ p.state = "PICC_RX" /\ p.bn = picc.bn /\ p.more = picc.more
      /\ p.wtx /\ p.pending = picc.pending /\ p.todo = picc.todo /\ p.reply = picc.reply
      /\ p.parts = picc.parts /\ p.pos = picc.pos /\ p.got = picc.got /\ p \in PiccState
  <2>1. picc \in PiccState
    BY ExecutedFacts, TypeFacts
  <2> QED BY <2>1 DEF PiccState
<1>3. WTX.type = "WTX"
  BY BlockFields
<1> HIDE DEF p
<1>4. /\ picc'.state = "PICC_RX" /\ picc'.bn = picc.bn /\ picc'.more = picc.more
      /\ picc'.last = "WTX" /\ picc'.wtx /\ picc'.pending = picc.pending /\ picc'.todo = picc.todo
      /\ picc'.got = picc.got
      /\ (air'.to = "pcd" /\ air'.block \in {WTX, Damaged}) \/ air'.to = "none"
  BY <1>1, <1>2, <1>3, RepliesFields
<1>5. CardOwes /\ picc.todo # 0 /\ ~picc.pending
  BY <1>1, ExecutedFacts DEF CardOwes
<1>6. CardOwes'
  BY <1>4, <1>5 DEF CardOwes
<1>7. air'.block.type # "ACK" \/ air'.to = "none"
  BY <1>3, <1>4, BlockFields
<1>8. CASE call = "transceive"
  <2>1. Working /\ Counts
    BY <1>1, <1>8 DEF IInv, CardQuiet, Transfer, Offered, Taken, Answering, PartRead
  <2>3. Working'
    BY <1>1, <1>4, <2>1 DEF Working, Carries, CardStep, Executed
  <2>4. Counts'
    BY <1>1, <1>4, <1>7, <2>1, CountsByCard
  <2> QED BY <1>1, <1>6, <1>8, <2>3, <2>4, InvByCard DEF Transfer
<1>9. CASE call # "transceive"
  <2>1. Closing => Closing'
    <3>1. picc'.last # "ACK" /\ (air'.to = "none" \/ (air'.to = "pcd" /\ air'.block.type # "ACK"))
      BY <1>4, <1>7
    <3> QED BY <1>1, <3>1, ClosingReply
  <2>2. call # "none"
    BY <1>1, CardRests
  <2> QED BY <1>1, <1>6, <1>9, <2>1, <2>2, InvByCard
<1> QED BY <1>8, <1>9

LEMMA PiccSleepsInv ==
  ASSUME IInv, TypeOK', PiccSleeps PROVE IInv'
<1>1. /\ picc.state = "PICC_SDSL" /\ picc' = [InitPicc EXCEPT !.state = "IDLE", !.bn = 0]
      /\ CardStep /\ air' = air /\ executed' = executed
  BY DEF PiccSleeps, history, CardStep
<1>2. CardOwes' /\ picc'.last # "ACK"
  BY <1>1 DEF CardOwes, InitPicc
<1>3. call # "transceive"
  BY <1>1 DEF IInv, Transfer, Offered, Taken, Working, Answering, PartRead, CardQuiet
<1>4. Closing => Closing'
  BY <1>1, <1>2 DEF Closing, CardStep
<1> QED BY <1>1, <1>2, <1>3, <1>4, CardRests, InvByCard

-----------------------------------------------------------------------------
(* What the card receives. *)

\* A frame that the card ignores leaves the stage as it was.
LEMMA Ignored ==
  ASSUME Transfer, CardStep, Ignore, executed' = executed
  PROVE  Transfer'
<1>1. picc' = picc /\ air'.to = "none"
  BY SilenceFacts DEF Ignore
<1>2. CASE Offered
  BY <1>1, <1>2 DEF Transfer, Offered, CardQuiet, Carries, NotExecuted, CardStep
<1>3. CASE Taken
  BY <1>1, <1>3 DEF Transfer, Taken, CardQuiet, Carries, NotExecuted, CardStep
<1>4. CASE Working
  BY <1>1, <1>4 DEF Transfer, Working, Carries, Executed, CardStep
<1>5. CASE Answering
  BY <1>1, <1>5 DEF Transfer, Answering, Answer, Carries, Executed, CardStep
<1>6. CASE PartRead
  BY <1>1, <1>6 DEF Transfer, PartRead, Answer, Carries, Executed, CardStep
<1> QED BY <1>2, <1>3, <1>4, <1>5, <1>6 DEF Transfer

\* The steps of a card that receives and neither executes a command nor replies.
LEMMA IgnoreInv ==
  ASSUME IInv, TypeOK', CardStep, executed' = executed, Ignore, air.to = "picc" PROVE IInv'
<1>1. picc' = picc /\ air'.to = "none" /\ CardOwes' /\ call # "none"
  BY SilenceFacts, ExecutedFacts, CardOwesKept, CardRests DEF Ignore
<1>2. call = "transceive" => Transfer' /\ Counts'
  BY <1>1, Ignored, CountsByCard DEF IInv
<1> QED BY <1>1, <1>2, ClosingByCard, InvByCard

LEMMA ReceiveWtxInv ==
  ASSUME IInv, TypeOK', CardStep, executed' = executed, ReceiveWtx,
         picc.state = "PICC_RX", air.to = "picc", air.block.type = "WTX"
  PROVE  IInv'
<1>1. CASE picc.last # "WTX"
  BY <1>1, IgnoreInv DEF ReceiveWtx
<1>2. CASE picc.last = "WTX"
  <2>1. CardOwes /\ picc.wtx /\ (picc.pending <=> picc.todo = 0) /\ picc \in PiccState
    BY <1>2, ExecutedFacts, TypeFacts DEF CardOwes
  <2>2. /\ picc' = [picc EXCEPT !.wtx = FALSE,
                                !.state = IF picc.pending THEN "PICC_TX" ELSE "PICC_SWTX"]
        /\ air'.to = "none"
    BY <1>2, SilenceFacts DEF ReceiveWtx
  <2>3. /\ picc'.state = IF picc.pending THEN "PICC_TX" ELSE "PICC_SWTX"
        /\ picc'.bn = picc.bn /\ picc'.more = picc.more /\ picc'.last = picc.last /\ ~picc'.wtx
        /\ picc'.pending = picc.pending /\ picc'.todo = picc.todo /\ picc'.reply = picc.reply
        /\ picc'.parts = picc.parts /\ picc'.pos = picc.pos /\ picc'.got = picc.got
    BY <2>1, <2>2 DEF PiccState
  <2>4. CardOwes' /\ call # "none"
    BY <2>1, <2>3, CardRests DEF CardOwes
  <2>5. CASE call = "transceive"
    <3>1. (Working \/ Answering) /\ Counts
      BY <2>5, CardReceives DEF IInv
    <3>2. ASSUME Working PROVE Transfer'
      <4>1. Working'
        BY <2>1, <2>2, <2>3, <3>2 DEF Working, Carries, Executed, CardStep
      <4> QED BY <4>1 DEF Transfer
    <3>3. ASSUME Answering PROVE Transfer'
      <4>1. Answer' /\ picc.pending /\ picc.pos = 0
        BY <2>1, <2>3, <3>3 DEF Answering, Answer, Executed, CardStep
      <4>2. Answering'
        BY <2>2, <2>3, <3>3, <4>1 DEF Answering, Carries, CardStep
      <4> QED BY <4>2 DEF Transfer
    <3>4. Transfer' /\ Counts'
      BY <2>2, <3>1, <3>2, <3>3, CountsByCard
    <3> QED BY <2>4, <2>5, <3>4, InvByCard
  <2>6. CASE call # "transceive"
    BY <2>2, <2>3, <2>4, <2>6, ClosingByCard, InvByCard
  <2> QED BY <2>5, <2>6
<1> QED BY <1>1, <1>2

LEMMA ReceiveDslInv ==
  ASSUME IInv, TypeOK', CardStep, executed' = executed,
         Replies([picc EXCEPT !.state = "PICC_SDSL"], DSL),
         picc.state = "PICC_RX", air.to = "picc", air.block.type = "DSL"
  PROVE  IInv'
<1> DEFINE p == [picc EXCEPT !.state = "PICC_SDSL"]
<1>1. CardOwes /\ picc \in PiccState
  BY ExecutedFacts, TypeFacts
<1>2. /\ p \in PiccState /\ p.state = "PICC_SDSL" /\ p.more = picc.more /\ p.wtx = picc.wtx
      /\ p.pending = picc.pending /\ p.todo = picc.todo
  BY <1>1 DEF PiccState
<1> HIDE DEF p
<1>3. /\ picc'.state = "PICC_SDSL" /\ picc'.more = picc.more /\ picc'.wtx = picc.wtx
      /\ picc'.pending = picc.pending /\ picc'.todo = picc.todo /\ picc'.last = "DSL"
      /\ (air'.to = "pcd" /\ air'.block \in {DSL, Damaged}) \/ air'.to = "none"
  BY ZenonT(60), <1>2, BlockFields, RepliesFields DEF p
<1>4. CardOwes' /\ call # "none"
  BY <1>1, <1>3, CardRests DEF CardOwes
<1>5. call # "transceive"
  BY CardReceives
<1>6. air'.to = "none" \/ (air'.to = "pcd" /\ air'.block.type # "ACK")
  BY <1>3, BlockFields
<1>7. Closing => Closing'
  BY <1>3, <1>6, ClosingReply
<1> QED BY <1>4, <1>5, <1>7, InvByCard

\* The card repeats what it sent last.
LEMMA RepeatInv ==
  ASSUME IInv, TypeOK', CardStep, executed' = executed, Repeat,
         picc.state = "PICC_RX", air.to = "picc", air.block.type \in {"ACK", "NAK"},
         air.block.bn = picc.bn
  PROVE  IInv'
<1>1. CardOwes /\ call # "none" /\ picc \in PiccState
  BY ExecutedFacts, TypeFacts, CardRests
<1>2. call = "transceive" =>
        /\ Counts /\ pcd.bn = picc.bn
        /\ \/ Taken /\ picc.last = "ACK"
           \/ Working /\ picc.last = "WTX"
           \/ Answering /\ picc.last \in {"I", "WTX"}
  <2>1. SUFFICES ASSUME call = "transceive"
                 PROVE  /\ Counts /\ pcd.bn = picc.bn
                        /\ \/ Taken /\ picc.last = "ACK"
                           \/ Working /\ picc.last = "WTX"
                           \/ Answering /\ picc.last \in {"I", "WTX"}
    OBVIOUS
  <2>2. pcd.bn = picc.bn /\ (Taken \/ Working \/ Answering)
    BY <2>1, CardReceives DEF Offered, PartRead
  <2>3. Taken => picc.last = "ACK"
    BY DEF Taken
  <2>4. Working => picc.last = "WTX"
    BY <1>1 DEF Working, CardOwes
  <2>5. Answering => picc.last \in {"I", "WTX"}
    BY <1>1 DEF Answering, CardOwes
  <2> QED BY <2>1, <2>2, <2>3, <2>4, <2>5 DEF IInv
<1>3. call # "transceive" /\ Closing => picc.last # "ACK"
  <2>1. call \in CallState
    BY ExecutedFacts, TypeFacts
  <2> QED BY <1>1, <2>1 DEF Closing, CallState
<1>4. CASE picc.last = "I"
  <2>1. /\ picc' = [picc EXCEPT !.state = "PICC_TX"] /\ air'.to = "none"
    BY <1>4, SilenceFacts DEF Repeat
  <2>2. /\ picc'.state = "PICC_TX"
        /\ picc'.bn = picc.bn /\ picc'.more = picc.more /\ picc'.last = picc.last
        /\ picc'.wtx = picc.wtx /\ picc'.pending = picc.pending /\ picc'.todo = picc.todo
        /\ picc'.reply = picc.reply
        /\ picc'.parts = picc.parts /\ picc'.pos = picc.pos /\ picc'.got = picc.got
    BY <1>1, <2>1 DEF PiccState
  <2>3. CardOwes'
    BY <1>1, <1>4, <2>2 DEF CardOwes
  <2>4. call = "transceive" => Transfer' /\ Counts'
    <3>1. SUFFICES ASSUME call = "transceive" PROVE Transfer' /\ Counts'
      OBVIOUS
    <3>2. Answering /\ Counts
      BY <1>2, <1>4, <3>1
    <3>3. Answer'
      BY <2>2, <3>2 DEF Answering, Answer, Executed, CardStep
    <3>4. Answering'
      BY <1>4, <2>1, <2>2, <3>2, <3>3 DEF Answering, Carries, CardStep
    <3> QED BY <2>1, <3>2, <3>4, CountsByCard DEF Transfer
  <2> QED BY <1>1, <2>1, <2>2, <2>3, <2>4, ClosingByCard, InvByCard
<1>5. CASE picc.last = "ACK"
  <2>0. Replies(picc, ACK(picc.bn)) /\ ACK(picc.bn).type = "ACK" /\ ACK(picc.bn).bn = picc.bn
    BY <1>5, BlockFields DEF Repeat
  <2>1. /\ picc'.last = "ACK" /\ picc'.state = picc.state /\ picc'.bn = picc.bn
        /\ picc'.more = picc.more /\ picc'.wtx = picc.wtx /\ picc'.pending = picc.pending
        /\ picc'.todo = picc.todo /\ picc'.got = picc.got
        /\ (air'.to = "pcd" /\ air'.block \in {ACK(picc.bn), Damaged}) \/ air'.to = "none"
    BY <1>1, <2>0, RepliesFields
  <2>2. CardOwes'
    BY <1>1, <1>5, <2>1 DEF CardOwes
  <2>3. call = "transceive" => Transfer' /\ Counts'
    <3>1. SUFFICES ASSUME call = "transceive" PROVE Transfer' /\ Counts'
      OBVIOUS
    <3>2. Taken /\ Counts /\ pcd.bn = picc.bn
      BY <1>2, <1>5, <3>1
    <3>3. Taken'
      BY <2>1, <3>2 DEF Taken, CardQuiet, Carries, NotExecuted, CardStep
    <3>4. air'.to = "pcd" /\ air'.block.type = "ACK" => air'.block.bn = pcd.bn
      BY <2>0, <2>1, <3>2, BlockFields
    <3> QED BY <2>1, <3>2, <3>3, <3>4, CountsByCard DEF Transfer
  <2> QED BY <1>1, <1>3, <1>5, <2>2, <2>3, InvByCard
<1>6. CASE picc.last = "WTX"
  <2>0. Replies(picc, WTX) /\ WTX.type = "WTX"
    BY <1>6, BlockFields DEF Repeat
  <2>1. /\ picc'.last = "WTX" /\ picc'.state = picc.state /\ picc'.bn = picc.bn
        /\ picc'.more = picc.more /\ picc'.wtx = picc.wtx /\ picc'.pending = picc.pending
        /\ picc'.todo = picc.todo /\ picc'.reply = picc.reply
        /\ picc'.parts = picc.parts /\ picc'.pos = picc.pos /\ picc'.got = picc.got
        /\ (air'.to = "pcd" /\ air'.block \in {WTX, Damaged}) \/ air'.to = "none"
    BY <1>1, <2>0, RepliesFields
  <2>2. CardOwes' /\ picc.wtx
    BY <1>1, <1>6, <2>1 DEF CardOwes
  <2>3. air'.to = "none" \/ (air'.to = "pcd" /\ air'.block.type # "ACK")
    BY <2>0, <2>1, BlockFields
  <2>4. call = "transceive" => Transfer' /\ Counts'
    <3>1. SUFFICES ASSUME call = "transceive" PROVE Transfer' /\ Counts'
      OBVIOUS
    <3>2. (Working \/ Answering) /\ Counts
      BY <1>2, <1>6, <3>1
    <3>3. ASSUME Working PROVE Transfer'
      <4>1. Working'
        BY <2>1, <2>2, <3>3 DEF Working, Carries, Executed, CardStep
      <4> QED BY <4>1 DEF Transfer
    <3>4. ASSUME Answering PROVE Transfer'
      <4>1. Answer' /\ picc.pos = 0
        BY <2>1, <2>2, <3>4 DEF Answering, Answer, Executed, CardStep
      <4>2. Answering'
        BY <2>1, <2>2, <3>4, <4>1 DEF Answering, Carries, CardStep
      <4> QED BY <4>2 DEF Transfer
    <3>5. Counts'
      BY <2>3, <3>2, CountsByCard
    <3> QED BY <3>2, <3>3, <3>4, <3>5
  <2>5. Closing => Closing'
    BY <2>1, <2>3, ClosingReply
  <2> QED BY <1>1, <2>2, <2>4, <2>5, InvByCard
<1>7. CASE picc.last \notin {"I", "ACK", "WTX"}
  <2>1. picc' = picc /\ air' = air
    BY <1>7 DEF Repeat
  <2> QED BY <1>1, <1>2, <1>7, <2>1, CardOwesKept, ClosingByCard, InvByCard
<1> QED BY <1>4, <1>5, <1>6, <1>7

\* The reader has the part: the card sends the next one.
LEMMA NextPartInv ==
  ASSUME IInv, TypeOK', CardStep, executed' = executed,
         picc' = StartAnswer([picc EXCEPT !.bn = Other(@)], picc.pos + 1), air'.to = "none",
         picc.state = "PICC_RX", air.to = "picc", air.block.type = "ACK",
         air.block.bn # picc.bn, picc.more
  PROVE  IInv'
<1> DEFINE p == [picc EXCEPT !.bn = Other(@)]
           pos == picc.pos + 1
<1>1. CardOwes /\ call # "none" /\ picc.todo = 0
  BY ExecutedFacts, CardRests DEF CardOwes
<1>2. /\ p \in PiccState /\ p.bn = Other(picc.bn) /\ p.last = picc.last /\ p.wtx = picc.wtx
      /\ p.pending = picc.pending /\ p.todo = picc.todo /\ p.reply = picc.reply
      /\ p.parts = picc.parts /\ p.got = picc.got
  <2>1. picc \in PiccState /\ p \in PiccState
    BY ExecutedFacts, TypeFacts, Fields, OtherFacts, PiccUpdates
  <2> QED BY <2>1 DEF PiccState
<1>3. pos \in Nat /\ pos > 0
  <2>1. picc.pos \in Nat
    BY ExecutedFacts, Fields
  <2> QED BY <2>1
<1>4. picc' = StartAnswer(p, pos)
  OBVIOUS
<1> HIDE DEF p, pos
<1>5. /\ picc'.bn = Other(picc.bn) /\ picc'.more = (pos + 1 < picc.parts)
      /\ picc'.last = picc.last /\ picc'.wtx = picc.wtx
      /\ picc'.pending = (picc.wtx \/ picc.pending) /\ picc'.todo = 0
      /\ picc'.reply = picc.reply /\ picc'.parts = picc.parts /\ picc'.pos = pos
      /\ picc'.got = picc.got /\ picc'.state = IF picc.wtx THEN "PICC_RX" ELSE "PICC_TX"
  BY <1>1, <1>2, <1>3, <1>4, PiccFields
<1>6. CardOwes'
  BY <1>1, <1>5 DEF CardOwes
<1>7. call = "transceive" => Transfer' /\ Counts'
  <2>1. SUFFICES ASSUME call = "transceive" PROVE Transfer' /\ Counts'
    OBVIOUS
  <2>2. PartRead /\ Counts
    BY <2>1, CardReceives DEF Answering, IInv
  <2>3. pos < picc.parts /\ pcd.rxChaining = (pos > 0) /\ pcd.got = Parts(asked, pos)
    BY <1>3, <2>2, ExecutedFacts, Fields DEF PartRead, Answer, pos
  <2>4. Answer'
    BY <1>5, <2>2, <2>3 DEF PartRead, Answer, Executed, CardStep
  <2>5. pcd.bn = picc'.bn
    <3>1. pcd.bn \in {0, 1} /\ picc.bn \in {0, 1} /\ pcd.bn # picc.bn
      BY <2>2, ExecutedFacts, Fields DEF PartRead
    <3> QED BY ONLY <1>5, <3>1 DEF Other
  <2>6. Answering'
    BY <1>3, <1>5, <2>2, <2>3, <2>4, <2>5 DEF PartRead, Answering, Carries, CardStep
  <2> QED BY <2>2, <2>6, CountsByCard DEF Transfer
<1> QED BY <1>1, <1>5, <1>6, <1>7, ClosingByCard, InvByCard

\* The part that the reader sent did not arrive.
LEMMA AskForPartInv ==
  ASSUME IInv, TypeOK', CardStep, executed' = executed, Replies(picc, ACK(picc.bn)),
         picc.state = "PICC_RX", air.to = "picc", air.block.type = "NAK",
         air.block.bn # picc.bn
  PROVE  IInv'
<1>1. CardOwes /\ call # "none" /\ picc \in PiccState
  BY ExecutedFacts, CardRests, TypeFacts
<1>2. call = "transceive"
  BY <1>1, ExecutedFacts, TypeFacts DEF IInv, Closing, CallState
<1>3. Offered /\ Counts
  BY <1>2, CardReceives DEF Taken, Working, Answering, IInv
<1>4. ACK(picc.bn).type = "ACK"
  BY BlockFields
<1>5. /\ picc'.last = "ACK" /\ picc'.state = picc.state /\ picc'.bn = picc.bn
      /\ picc'.more = picc.more /\ picc'.wtx = picc.wtx /\ picc'.pending = picc.pending
      /\ picc'.todo = picc.todo /\ picc'.got = picc.got
      /\ (air'.to = "pcd" /\ air'.block \in {ACK(picc.bn), Damaged}) \/ air'.to = "none"
  BY <1>1, <1>4, RepliesFields
<1>6. CardOwes'
  BY <1>1, <1>3, <1>5 DEF CardOwes, Offered, CardQuiet
<1>7. Offered'
  BY <1>3, <1>5 DEF Offered, CardQuiet, Carries, NotExecuted, CardStep
<1>8. Counts'
  BY <1>3, <1>5, CountsByCard
<1> QED BY <1>1, <1>2, <1>6, <1>7, <1>8, InvByCard DEF Transfer

\* An I-block that reaches the card is the part that the reader sends, and new.
LEMMA CommandReceived ==
  ASSUME IInv, PiccReceive, air.block.type = "I"
  PROVE  /\ call = "transceive" /\ Offered /\ Counts /\ pcd.state = "PCD_RX"
         /\ air.block = I(pcd.bn, pcd.more, asked, pcd.pos + 1)
         /\ LET got == Parts(asked, pcd.pos + 1)
                p == [picc EXCEPT !.bn = Other(@), !.got = got]
            IN  /\ pcd.more => Replies(p, ACK(p.bn)) /\ executed' = executed
                /\ ~pcd.more => /\ picc' = [p EXCEPT !.state = "PICC_SWTX", !.todo = asked]
                                /\ air' = Silence /\ executed' = Append(executed, asked)
<1> DEFINE b == air.block
           got == Parts(asked, pcd.pos + 1)
           p == [picc EXCEPT !.bn = Other(@), !.got = got]
<1>1. picc.state = "PICC_RX" /\ air.to = "picc" /\ ReceiveI(b) /\ call # "none"
  BY CardRests DEF PiccReceive
<1>2. call = "transceive"
  BY <1>1, ExecutedFacts, TypeFacts DEF IInv, Closing, CallState
<1>3. Offered /\ Counts /\ b = I(pcd.bn, pcd.more, asked, pcd.pos + 1)
  BY <1>1, <1>2, CardReceives DEF IInv
<1>4. pcd.state = "PCD_RX"
  BY <1>1, <1>3 DEF Offered
<1>5. /\ b.bn = pcd.bn /\ b.more = pcd.more /\ b.inf = <<asked, pcd.pos + 1>> /\ b.inf[1] = asked
      /\ b.bn # picc.bn /\ ~picc.more
  BY <1>3, BlockFields DEF Offered, CardQuiet
<1>6. Append(picc.got, b.inf) = got
  <2>1. pcd.pos \in Nat /\ asked \in Nat /\ picc.got = Parts(asked, pcd.pos)
    BY <1>3, ExecutedFacts, Fields DEF Offered
  <2> QED BY ONLY <1>5, <2>1, PartsFacts
<1>7. pcd.more => Replies(p, ACK(p.bn)) /\ executed' = executed
  BY <1>1, <1>5, <1>6 DEF ReceiveI
<1>8. ~pcd.more => Whole(got, asked, pcd.parts)
  <2>1. pcd.pos \in Nat /\ pcd.parts \in Nat /\ asked \in Nat
    BY ExecutedFacts, Fields
  <2>2. ~pcd.more => pcd.pos + 1 = pcd.parts
    <3>1. (~pcd.more => ~(pcd.pos + 1 < pcd.parts)) /\ pcd.pos < pcd.parts
      BY <1>3 DEF Offered
    <3>2. CASE ~(pcd.pos + 1 < pcd.parts)
      BY ONLY <2>1, <3>1, <3>2
    <3> QED BY <3>1, <3>2
  <2> QED BY <2>1, <2>2, PartsFacts
<1>9. ~pcd.more => /\ picc' = [p EXCEPT !.state = "PICC_SWTX", !.todo = asked]
                   /\ air' = Silence /\ executed' = Append(executed, asked)
  BY <1>1, <1>5, <1>6, <1>8 DEF ReceiveI
<1> HIDE DEF p, got
<1> QED BY <1>2, <1>3, <1>4, <1>7, <1>9 DEF p, got

LEMMA ReceiveCommandInv ==
  ASSUME IInv, TypeOK', PiccReceive, air.block.type = "I" PROVE IInv'
<1> DEFINE got == Parts(asked, pcd.pos + 1)
           p == [picc EXCEPT !.bn = Other(@), !.got = got]
<1>1. /\ call = "transceive" /\ Offered /\ Counts /\ pcd.state = "PCD_RX"
      /\ pcd.more => Replies(p, ACK(p.bn)) /\ executed' = executed
      /\ ~pcd.more => /\ picc' = [p EXCEPT !.state = "PICC_SWTX", !.todo = asked]
                      /\ air' = Silence /\ executed' = Append(executed, asked)
  BY CommandReceived
<1>2. CardStep
  BY DEF PiccReceive, CardStep
<1>3. /\ CardOwes /\ picc.state = "PICC_RX" /\ ~picc.wtx /\ ~picc.more /\ picc.todo = 0
      /\ ~picc.pending /\ pcd.bn # picc.bn /\ asked # 0 /\ asked \in Nat
  BY <1>1, ExecutedFacts DEF CardOwes, Offered, CardQuiet, NotExecuted
<1>4. got \in Seq(Part)
  <2>1. pcd.pos \in Nat
    BY ExecutedFacts, Fields
  <2>2. \A i \in 1..(pcd.pos + 1) : <<asked, i>> \in Part
    BY <1>3, <2>1 DEF Part
  <2> QED BY <2>1, <2>2 DEF Parts
<1>5. /\ p \in PiccState /\ p.state = "PICC_RX" /\ p.bn = pcd.bn /\ ~p.more /\ ~p.wtx
      /\ ~p.pending /\ p.todo = 0 /\ p.got = got
  <2>1. picc \in PiccState /\ picc.bn \in {0, 1} /\ pcd.bn \in {0, 1}
    BY ExecutedFacts, TypeFacts, Fields
  <2>2. Other(picc.bn) = pcd.bn
    BY <1>3, <2>1 DEF Other
  <2>3. p \in PiccState
    <3> HIDE DEF got
    <3> QED BY <1>4, <2>1, <2>2, PiccUpdates
  <2> QED BY <1>3, <2>1, <2>2, <2>3 DEF PiccState
<1> HIDE DEF p, got
<1>6. CASE pcd.more
  <2>1. ACK(p.bn).type = "ACK" /\ ACK(p.bn).bn = p.bn
    BY BlockFields
  <2>2. /\ picc'.last = "ACK" /\ picc'.state = "PICC_RX" /\ picc'.bn = pcd.bn /\ ~picc'.more
        /\ ~picc'.wtx /\ ~picc'.pending /\ picc'.todo = 0 /\ picc'.got = got
        /\ (air'.to = "pcd" /\ air'.block \in {ACK(pcd.bn), Damaged}) \/ air'.to = "none"
        /\ executed' = executed
    BY <1>1, <1>5, <1>6, <2>1, RepliesFields
  <2>3. CardOwes'
    BY <2>2 DEF CardOwes
  <2>4. pcd.more /\ pcd.pos + 1 < pcd.parts
    BY <1>1, <1>6 DEF Offered
  <2>5. Taken'
    BY <1>1, <1>2, <2>2, <2>4
       DEF Offered, Taken, CardQuiet, Carries, NotExecuted, CardStep, got
  <2>6. air'.to = "pcd" /\ air'.block.type = "ACK" => air'.block.bn = pcd.bn
    BY <1>5, <2>1, <2>2, BlockFields
  <2>7. Counts'
    BY <1>1, <1>2, <2>2, <2>6, CountsByCard
  <2> QED BY <1>1, <1>2, <2>2, <2>3, <2>5, <2>7, InvByCard DEF Transfer
<1>7. CASE ~pcd.more
  <2>1. /\ picc' = [p EXCEPT !.state = "PICC_SWTX", !.todo = asked] /\ air'.to = "none"
        /\ executed' = Append(executed, asked)
    BY <1>1, <1>7, SilenceFacts
  <2>2. /\ picc'.state = "PICC_SWTX" /\ picc'.bn = pcd.bn /\ ~picc'.more /\ ~picc'.wtx
        /\ ~picc'.pending /\ picc'.todo = asked
    BY <1>5, <2>1 DEF PiccState
  <2>3. CardOwes'
    BY <1>3, <2>2 DEF CardOwes
  <2>4. /\ \A i \in 1..Len(executed') : executed'[i] <= asked
        /\ \E i \in 1..Len(executed') : executed'[i] = asked
    <3>1. executed \in Seq(Nat) /\ \A i \in 1..Len(executed) : executed[i] <= asked
      BY ExecutedFacts, TypeFacts
    <3> QED BY <1>3, <2>1, <3>1
  <2>5. asked' = asked /\ call' = call
    BY <1>2 DEF CardStep
  <2>6. Working'
    BY <1>1, <1>2, <1>3, <1>7, <2>1, <2>2, <2>4 DEF Offered, Working, Carries, Executed, CardStep
  <2>7. Counts'
    BY <1>1, <1>2, <2>1, CountsByCard
  <2> QED BY <1>1, <2>3, <2>4, <2>5, <2>6, <2>7, InvKept DEF Transfer
<1> QED BY <1>6, <1>7

LEMMA PiccReceiveInv ==
  ASSUME IInv, TypeOK', PiccReceive PROVE IInv'
<1>1. CASE air.block.type = "I"
  BY <1>1, ReceiveCommandInv
<1>2. CASE air.block.type # "I"
  <2>1. /\ picc.state = "PICC_RX" /\ air.to = "picc" /\ executed' = executed /\ CardStep
    BY <1>2 DEF PiccReceive, CardStep
  <2>2. air.block.type \in {"ACK", "NAK", "WTX", "DSL", "damaged"}
    BY <1>2, ExecutedFacts, Fields, ReceivedBlock
  <2>3. CASE air.block.type = "damaged"
    BY <2>1, <2>3, IgnoreInv DEF PiccReceive
  <2>4. CASE air.block.type = "WTX"
    BY <2>1, <2>4, ReceiveWtxInv DEF PiccReceive
  <2>5. CASE air.block.type = "DSL"
    BY <2>1, <2>5, ReceiveDslInv DEF PiccReceive
  <2>6. CASE air.block.type = "ACK"
    <3>1. ReceiveAck(air.block.bn)
      BY <2>6 DEF PiccReceive
    <3>2. CASE air.block.bn = picc.bn
      BY <2>1, <2>6, <3>1, <3>2, RepeatInv DEF ReceiveAck
    <3>3. CASE air.block.bn # picc.bn /\ ~picc.more
      BY <2>1, <3>1, <3>3, IgnoreInv DEF ReceiveAck
    <3>4. CASE air.block.bn # picc.bn /\ picc.more
      <4>1. /\ picc' = StartAnswer([picc EXCEPT !.bn = Other(@)], picc.pos + 1)
            /\ air'.to = "none"
        BY <3>1, <3>4, SilenceFacts DEF ReceiveAck
      <4> QED BY <2>1, <2>6, <3>4, <4>1, NextPartInv
    <3> QED BY <3>2, <3>3, <3>4
  <2>7. CASE air.block.type = "NAK"
    <3>1. ReceiveNak(air.block.bn)
      BY <2>7 DEF PiccReceive
    <3>2. CASE air.block.bn = picc.bn
      BY <2>1, <2>7, <3>1, <3>2, RepeatInv DEF ReceiveNak
    <3>3. CASE air.block.bn # picc.bn
      BY <2>1, <2>7, <3>1, <3>3, AskForPartInv DEF ReceiveNak
    <3> QED BY <3>2, <3>3
  <2> QED BY <2>2, <2>3, <2>4, <2>5, <2>6, <2>7
<1> QED BY <1>1, <1>2

LEMMA PiccInv ==
  ASSUME IInv, TypeOK', Picc PROVE IInv'
  BY AnswerCommandInv, PiccTxInv, PiccSwtxInv, PiccSleepsInv, PiccReceiveInv DEF Picc

-----------------------------------------------------------------------------
(* The invariant, and what follows from it.                                *)

LEMMA InvStep == IInv /\ [Next]_vars => IInv'
<1> SUFFICES ASSUME IInv, [Next]_vars PROVE IInv'
  OBVIOUS
<1>1. TypeOK'
  BY ExecutedFacts, TypeStep
<1>2. CASE UNCHANGED vars
  <2>1. /\ pcd' = pcd /\ call' = call /\ picc' = picc /\ air' = air /\ asked' = asked
        /\ executed' = executed /\ errors' = errors /\ extensions' = extensions
    BY <1>2 DEF vars, history
  <2>2. Transfer => Transfer'
    BY <2>1 DEF Transfer, Offered, Taken, Working, Answering, PartRead, Answer, CardQuiet,
                Carries, NotExecuted, Executed
  <2>3. (AtRest => AtRest') /\ (Counts => Counts') /\ (Closing => Closing')
    BY <2>1 DEF AtRest, CardQuiet, Counts, Closing
  <2>4. CardOwes' /\ (\A i \in 1..Len(executed) : executed[i] <= asked)'
    BY <2>1, ExecutedFacts, CardOwesKept, BoundKept
  <2>5. /\ call = "none" => AtRest
        /\ call = "transceive" => Transfer /\ Counts
        /\ call \in {"failed", "deselect", "ended"} => Closing
    BY DEF IInv
  <2> QED BY <1>1, <2>1, <2>2, <2>3, <2>4, <2>5, InvKept
<1> QED BY <1>1, <1>2, AppInv, PcdInv, PiccInv DEF Next

\* The stages of a transfer are all there are: in every reachable state the reader and the
\* card are at one of them, between two transfers nothing is on its way, and the counters
\* never exceed what was lost (isoDepDataExchangePCD, isoDepDataExchangePICC).
THEOREM Stages == Spec => []IInv
  BY InvInit, InvStep, PTL DEF Spec

\* Between two commands the card will take the next block of the reader for a new one, and
\* it asks for extensions only while its application owes an answer.
THEOREM AlwaysInStep == Spec => []InStep
<1>1. IInv => InStep
  BY ExecutedFacts, Fields
     DEF IInv, InStep, BlockNumbersInStep, ExtendsForAnswer, AtRest, CardOwes
<1> QED BY <1>1, Stages, PTL

-----------------------------------------------------------------------------
(* Refinement: what ISO-DEP promises to the applications.                  *)

LEMMA InitRefines == Init => Service!Init
  BY DEF Init, Service!Init, phase

\* A step of the reader that is not the end of the answer leaves the transfer as it is, or
\* ends it.
LEMMA ReaderGoesOn ==
  ASSUME Pcd, ~(ReceiveLast /\ call = "transceive")
  PROVE  /\ asked' = asked /\ executed' = executed /\ answered' = answered
         /\ call \in {"transceive", "deselect"}
         /\ call' = call \/ call' = IF call = "deselect" THEN "ended" ELSE "failed"
<1>1. ASSUME NEW p, NEW b, Control(p, b)
      PROVE  call' = call \/ call' = IF call = "deselect" THEN "ended" ELSE "failed"
  BY <1>1 DEF Control, Ends
<1>2. CASE PcdTx
  BY <1>2 DEF PcdTx, Running, history
<1>3. CASE PcdTimeout \/ PcdReceiveError
  BY <1>1, <1>3 DEF PcdTimeout, PcdReceiveError, Receives, Waiting, Running, Recover
<1>4. CASE TimeExtension
  BY <1>1, <1>4 DEF TimeExtension, Receives, Waiting, Running
<1>5. CASE Deselected
  BY <1>5 DEF Deselected, Receives, Waiting, Running, Ends, history
<1>6. CASE Acknowledged
  BY <1>6 DEF Acknowledged, Receives, Waiting, Running, Ends
<1>7. CASE Retransmit
  BY <1>7 DEF Retransmit, Receives, Waiting, Running, Ends, history
<1>8. CASE ReceivePart
  <2>1. call' = call \/ call' = IF call = "deselect" THEN "ended" ELSE "failed"
    <3>1. CASE air.block.bn # pcd.bn
      BY <1>1, <1>8, <3>1 DEF ReceivePart
    <3>2. CASE air.block.bn = pcd.bn
      BY <1>8, <3>2 DEF ReceivePart, Ends
    <3> QED BY <3>1, <3>2
  <2> QED BY <1>8, <2>1 DEF ReceivePart, Receives, Waiting, Running
<1>9. CASE ReceiveLast
  BY <1>9 DEF ReceiveLast, Receives, Waiting, Running, Ends
<1> QED BY <1>2, <1>3, <1>4, <1>5, <1>6, <1>7, <1>8, <1>9 DEF Pcd

LEMMA AppRefines == App => [Service!Next]_(Service!vars)
<1> SUFFICES ASSUME App PROVE [Service!Next]_(Service!vars)
  OBVIOUS
<1> USE DEF Service!Next, Service!vars, phase
<1>1. ASSUME NEW parts, rfalIsoDepStartApduTransceive(parts) PROVE Service!Ask
  BY <1>1 DEF rfalIsoDepStartApduTransceive, Service!Ask
<1>2. CASE rfalIsoDepDeselect
  <2>1. /\ call \in {"none", "failed"} /\ call' \in {"deselect", "ended"}
        /\ asked' = asked /\ executed' = executed /\ answered' = answered
    BY <1>2 DEF rfalIsoDepDeselect, history
  <2> QED BY <2>1 DEF Service!Close
<1>3. CASE Reactivate
  BY <1>3 DEF Reactivate, history, Service!Reopen
<1> QED BY <1>1, <1>2, <1>3 DEF App

LEMMA PcdRefines == IInv /\ Pcd => [Service!Next]_(Service!vars)
<1> SUFFICES ASSUME IInv, Pcd PROVE [Service!Next]_(Service!vars)
  OBVIOUS
<1> USE DEF Service!Next, Service!vars, phase
<1>1. CASE ReceiveLast /\ call = "transceive"
  BY <1>1, AnswerReceived DEF Service!Answer, Executed
<1>2. CASE ~(ReceiveLast /\ call = "transceive")
  BY <1>2, ReaderGoesOn DEF Service!Close
<1> QED BY <1>1, <1>2

LEMMA PiccRefines == IInv /\ Picc => [Service!Next]_(Service!vars)
<1> SUFFICES ASSUME IInv, Picc PROVE [Service!Next]_(Service!vars)
  OBVIOUS
<1> USE DEF Service!Next, Service!vars, phase
<1>1. CASE PiccReceive /\ air.block.type = "I"
  <2>1. /\ call = "transceive" /\ call' = call /\ asked' = asked /\ answered' = answered
        /\ NotExecuted /\ (executed' = executed \/ executed' = Append(executed, asked))
    BY <1>1, CommandReceived DEF Offered, PiccReceive
  <2> QED BY <2>1 DEF Service!Execute, NotExecuted
<1>2. CASE PiccReceive /\ air.block.type # "I"
  BY <1>2 DEF PiccReceive
<1>3. CASE ~PiccReceive
  BY <1>3 DEF Picc, AnswerCommand, PiccTx, PiccSwtx, PiccSleeps, history
<1> QED BY <1>1, <1>2, <1>3

\* ISO-DEP keeps its promise to the applications, for any retries and any lengths: a command
\* is executed at most once, whole and in order, and an answer is the whole answer to it
\* (rfalIsoDepStartApduTransceive, rfalIsoDepGetApduTransceiveStatus).
THEOREM ServiceImplemented == Spec => ImplementsService
<1>1. IInv /\ [Next]_vars => [Service!Next]_(Service!vars)
  <2>1. UNCHANGED vars => UNCHANGED Service!vars
    BY DEF vars, history, Service!vars, phase
  <2> QED BY <2>1, AppRefines, PcdRefines, PiccRefines DEF Next
<1> QED BY <1>1, InitRefines, Stages, PTL DEF Spec, ImplementsService, Service!Spec

-----------------------------------------------------------------------------
(* A command is given up only when the retries are used up.                *)

\* A counter past its limit has counted more than is tolerated.
LEMMA CountedOut ==
  /\ \A c \in Nat : c > MaxRetriesR => Least(c + 1, ToleratedErrors + 1) = ToleratedErrors + 1
  /\ \A c \in Nat : c >= MaxRetriesI => Least(c + 1, ToleratedErrors + 1) = ToleratedErrors + 1
  /\ \A c \in Nat :
       c > MaxRetriesS => Least(c + 1, ToleratedExtensions + 1) = ToleratedExtensions + 1
  BY RetriesAssumption DEF Least, ToleratedErrors, ToleratedExtensions

LEMMA GivesUpExhausted ==
  ASSUME IInv, Pcd, GivesUp
  PROVE  errors' > ToleratedErrors \/ extensions' > ToleratedExtensions
<1> USE ExecutedFacts, TypeFacts, Fields, Tolerated
<1>1. call = "transceive" /\ call' \in {"failed", "ended"} /\ Transfer /\ Counts
  BY DEF GivesUp, IInv
<1>2. /\ Least(pcd.cntR, ToleratedErrors + 1) <= errors
      /\ Least(pcd.cntS, ToleratedExtensions + 1) <= extensions
  BY <1>1 DEF Counts
<1>3. errors' \in Nat /\ extensions' \in Nat
  BY TypeStep DEF TypeOK, Next
<1>4. CASE PcdTimeout \/ PcdReceiveError
  <2> DEFINE b == IF pcd.rxChaining THEN ACK(pcd.bn)
                  ELSE IF pcd.state = "PCD_WAIT_DSL" THEN DSL ELSE NAK(pcd.bn)
  <2>1. Control(pcd, b) /\ Error /\ Waiting
    BY <1>4 DEF PcdTimeout, PcdReceiveError, Receives, Recover
  <2>2. b.type \in {"ACK", "NAK"}
    BY ZenonT(60), <1>1, TransferFacts, BlockFields
  <2> HIDE DEF b
  <2>3. Exhausted(pcd, b)
    BY <1>1, <2>1 DEF Control
  <2>4. pcd.cntR > MaxRetriesR
    BY <2>2, <2>3 DEF Exhausted
  <2>5. Least(pcd.cntR + 1, ToleratedErrors + 1) <= errors'
    BY <1>2, <2>1, CountedOnce
  <2>6. ToleratedErrors + 1 <= errors'
    BY <2>4, <2>5, CountedOut
  <2> QED BY <1>3, <2>6
<1>5. CASE TimeExtension
  <2>1. Control(pcd, WTX) /\ Extension
    BY <1>5 DEF TimeExtension
  <2>2. pcd.cntS > MaxRetriesS
    BY <1>1, <2>1, BlockFields DEF Control, Exhausted
  <2>3. Least(pcd.cntS + 1, ToleratedExtensions + 1) <= extensions'
    BY <1>2, <2>1, CountedOnce
  <2>4. ToleratedExtensions + 1 <= extensions'
    BY <2>2, <2>3, CountedOut
  <2> QED BY <1>3, <2>4
<1>6. CASE Retransmit
  <2>1. /\ air.to = "pcd" /\ air.block.type = "ACK" /\ air.block.bn # pcd.bn /\ errors' = errors
        /\ ~(pcd.cntI < MaxRetriesI)
    BY <1>1, <1>6 DEF Retransmit, Receives, history
  <2>2. Least(pcd.cntI + 1, ToleratedErrors + 1) <= errors
    BY <1>1, <2>1 DEF Counts
  <2>3. pcd.cntI >= MaxRetriesI
    <3>1. pcd.cntI \in Nat /\ MaxRetriesI \in Nat
      BY RetriesAssumption
    <3> QED BY ONLY <2>1, <3>1
  <2>4. ToleratedErrors + 1 <= errors'
    BY <2>1, <2>2, <2>3, CountedOut
  <2> QED BY <1>3, <2>4
<1>7. ~PcdTx
  BY <1>1 DEF PcdTx
<1>8. ~Deselected
  BY <1>1, ReaderReceives DEF Deselected, Receives
<1>9. ~Acknowledged
  <2>1. SUFFICES ASSUME Acknowledged PROVE FALSE
    OBVIOUS
  <2>2. Taken
    BY <1>1, <2>1, ReaderReceives DEF Acknowledged, Receives, Offered
  <2> QED BY <1>1, <2>1, <2>2 DEF Acknowledged, Taken
<1>10. ~ReceivePart
  <2>1. SUFFICES ASSUME ReceivePart PROVE FALSE
    OBVIOUS
  <2>2. Answering /\ air.block = I(picc.bn, picc.more, asked, picc.pos + 1)
    BY <1>1, <2>1, ReaderReceives DEF ReceivePart, Receives
  <2>3. air.block.bn = pcd.bn
    <3>1. pcd.bn = picc.bn
      BY ONLY <2>2 DEF Answering
    <3> QED BY ONLY <2>2, <3>1, BlockFields
  <2>4. air.block.bn # pcd.bn
    BY ONLY <1>1, <2>1 DEF ReceivePart
  <2> QED BY ONLY <2>3, <2>4
<1>11. ~ReceiveLast
  BY <1>1, AnswerReceived
<1> QED BY <1>4, <1>5, <1>6, <1>7, <1>8, <1>9, <1>10, <1>11 DEF Pcd

\* Whatever is lost, what recovery spent on one block never counts against the next: a
\* command fails only after more errors, or more extensions, than the retries grant to one
\* (isoDepHandleControlMsg and the counters of gIsoDep).
THEOREM RetriesUsed == Spec => RetriesAreUsed
<1>1. IInv /\ [Next]_vars =>
        [GivesUp => errors' > ToleratedErrors \/ extensions' > ToleratedExtensions]_vars
  <2>1. App => ~GivesUp
    BY DEF App, rfalIsoDepStartApduTransceive, rfalIsoDepDeselect, Reactivate, GivesUp
  <2>2. Picc => ~GivesUp
    BY DEF Picc, AnswerCommand, PiccTx, PiccSwtx, PiccSleeps, PiccReceive, GivesUp
  <2> QED BY <2>1, <2>2, GivesUpExhausted DEF Next
<1> QED BY <1>1, Stages, PTL DEF Spec, RetriesAreUsed

=============================================================================
