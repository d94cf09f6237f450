---------------------------- MODULE NfcDep_proof ----------------------------
(***************************************************************************)
(* Proofs about NfcDep, for any retries, any number of commands, messages  *)
(* of any number of parts and any links that satisfy LinksKeepChains: both *)
(* sides are in step between two commands, an answer is never forgotten, a *)
(* command is executed at most once and an answer is the whole answer to   *)
(* it (the refinement of ApduService), and a command fails only after the  *)
(* retries are used up.                                                    *)
(*                                                                         *)
(* The invariant IInv says how far an exchange can be: which part both     *)
(* sides have, whose PNI is ahead, and which PDUs can be on the air there. *)
(***************************************************************************)
EXTENDS NfcDep, TLAPS

\* The first k parts of the n-th message.
Parts(n, k) == [i \in 1..k |-> <<n, i>>]

\* A frame to this side is one of these PDUs, or damaged.
Carries(to, pdus) == air.to = to => air.pdu \in pdus \cup {Frame("damaged")}

Excluded == {<<"loss", "tgt", "ACK">>, <<"damage", "tgt", "ACK">>, <<"damage", "ini", "ATN">>,
             <<"damage", "ini", "ACK">>}

\* The links over which the service is kept.  They rule out what the recovery of the code
\* does not survive (nfcipInitiatorHandleDEP): with chained messages a lost or damaged
\* acknowledgement of the initiator (after the ATN it repeats an I-PDU, not the ACK) and a
\* damaged ACK or ATN to it (the NACK it sends gets no answer or the wrong one); with
\* extensions a lost request for one.  Without chaining and extensions nothing is ruled out.
LinksKeepChains ==
  \A s \in Setups :
    /\ s.parts > 1 => Excluded \cap s.faults = {}
    /\ s.extends => <<"loss", "ini", "TO">> \notin s.faults

Ahead == tgt.pni = PNIInc(ini.pni)
Equal == tgt.pni = ini.pni
TgtQuiet == tgt.owes = "none" /\ ~tgt.pending /\ ~tgt.wait
NotExecuted == asked # 0 /\ \A i \in 1..Len(executed) : executed[i] < asked
Executed == \E i \in 1..Len(executed) : executed[i] = asked

\* The I-PDU of the initiator's part, and of the target's.
IniPart == I(ini.pni, ini.mi, asked, ini.pos + 1)
TgtPart == I(ini.pni, tgt.mi, asked, tgt.pos + 1)

\* The target hears the first PDU of a session, or the next one of it.
TgtListens == tgt.state \in {"WAIT_ACTV", "RX"} /\ (tgt.state = "WAIT_ACTV" => tgt.pni = 0)

-----------------------------------------------------------------------------
(* The stages of an exchange.                                              *)

\* The target has the parts before the initiator's.
Offered ==
  /\ Equal /\ TgtListens /\ TgtQuiet /\ NotExecuted
  /\ ini.mi = (ini.pos + 1 < ini.parts) /\ ini.pos < ini.parts /\ ini.got = <<>>
  /\ tgt.got = Parts(asked, ini.pos)
  /\ \/ ini.state = "TX" /\ air.to = "none"
     \/ ini.state = "RX" /\ ini.lastN # "TO"
  /\ Carries("tgt", {IniPart, Frame("ATN"), NACK(ini.pni)}) /\ Carries("ini", {Frame("ATN")})

\* The target has this part, too, and the initiator does not know yet.
Taken ==
  /\ Ahead /\ tgt.state = "RX" /\ TgtQuiet /\ NotExecuted
  /\ ini.mi /\ ini.pos + 1 < ini.parts /\ ini.got = <<>>
  /\ tgt.got = Parts(asked, ini.pos + 1)
  /\ ini.lastN = "I" /\ ini.last \in {"I", "ATN"}
  /\ \/ ini.state = "TX" /\ air.to = "none" /\ tgt.last = "ATN"
     \/ ini.state = "RX"
  /\ Carries("tgt", {IniPart, Frame("ATN")})
  /\ air.to = "ini" => air.pdu \in {ACK(ini.pni), Frame("ATN")}
  /\ \/ air.to = "tgt" /\ air.pdu.type = "I"
     \/ air.to = "ini" /\ air.pdu.type = "ATN"
     => tgt.last = "ATN"

\* The target has not answered yet.  While it waits for the confirmation of an extension
\* the initiator does not send its command again.
Waits ==
  /\ ini.state = "RX" /\ ~ini.mi /\ Equal /\ Executed
  /\ \/ /\ tgt.state \in {"RTOX", "TX"} /\ ~tgt.wait /\ air.to # "ini"
        /\ setup.extends => air.to = "none" /\ (tgt.state = "RTOX" => ini.last # "ATN")
     \/ /\ tgt.state = "RX" /\ tgt.wait /\ tgt.lastN = "TO" /\ setup.extends
        /\ Carries("tgt", {Frame("TO"), Frame("ATN"), NACK(ini.pni)})
        /\ Carries("ini", {Frame("TO"), Frame("ATN")})
        /\ (air.to # "ini" \/ air.pdu.type = "ATN") => (ini.last = "NACK" \/ ini.lastN = "TO")
        /\ (air.to = "ini" /\ air.pdu.type = "TO") => ini.last # "ATN"

\* The target's application works on the answer.
Working ==
  /\ Waits /\ ini.got = <<>>
  /\ tgt.owes = "answer" /\ tgt.todo = asked /\ ~tgt.pending /\ tgt.state # "TX"

\* The target's answer to this command, up to the part it sends.
Answering ==
  /\ ~ini.mi /\ Executed
  /\ tgt.reply = asked /\ tgt.got = <<>>
  /\ tgt.pos < tgt.parts /\ tgt.mi = (tgt.pos + 1 < tgt.parts)

\* The part is still to be sent.
Sending ==
  /\ Waits /\ Answering /\ tgt.owes = "none" /\ ini.got = Parts(asked, tgt.pos)
  /\ tgt.state = "TX" \/ (tgt.state = "RX" /\ tgt.pending)

\* It was sent, and the initiator does not have it.
Delivering ==
  /\ Answering /\ Ahead /\ TgtQuiet /\ tgt.state = "RX" /\ tgt.lastN = "I"
  /\ ini.got = Parts(asked, tgt.pos)
  /\ ini.state = "RX" \/ (ini.state = "TX" /\ air.to = "none")
  /\ Carries("ini", {TgtPart, Frame("ATN")})
  /\ Carries("tgt", {IniPart, Frame("ATN"), NACK(ini.pni), Frame("TO")})

\* The initiator has this part, too, and acknowledges it.
PartRead ==
  /\ Answering /\ Equal /\ TgtQuiet /\ tgt.state = "RX" /\ tgt.mi
  /\ ini.state = "RX" /\ ini.got = Parts(asked, tgt.pos + 1)
  /\ air.to = "tgt" /\ air.pdu = ACK(ini.pni)

\* The target's application is asked for the next part.
GoingOn ==
  /\ Waits /\ Answering /\ tgt.owes = "part" /\ ~tgt.pending /\ tgt.state # "TX"
  /\ tgt.mi /\ ini.got = Parts(asked, tgt.pos + 1)

\* The target has given up.
Gone == tgt.state = "IDLE" /\ Executed /\ ini.state = "RX" /\ ~ini.mi /\ air.to # "ini"

Exchange == Offered \/ Taken \/ Working \/ Sending \/ Delivering \/ PartRead \/ GoingOn \/ Gone

\* What is on its way to the target is what the initiator sent last, and the target
\* attends only to the initiator's attention.
LastSent ==
  /\ ini.state = "RX" /\ ini.last # "ATN" => ini.lastN = ini.last
  /\ air.to = "tgt" /\ air.pdu.type \in DepTypes => ini.last = air.pdu.type
  /\ air.to = "ini" /\ air.pdu.type = "ATN" => ini.last = "ATN"

\* What the initiator's counters have counted since the last progress.
Counts ==
  /\ Least(ini.cntTO, MaxRetries + 1) <= errors
  /\ Least(ini.cntNACK, MaxRetries + 1) <= errors
  /\ Least(ini.cntATN, MaxRetries + 1) <= errors
  /\ Least(ini.cntTx, MaxRetries + 1) <= errors
  /\ ini.state = "RX" /\ ini.last = "ATN" => Least(ini.cntTx + 1, MaxRetries + 1) <= errors
  /\ Least(ini.cntRTOX, MaxRetries + 2) <= extensions

-----------------------------------------------------------------------------
\* A target as it is before the first PDU.
TgtFresh == tgt.pni = 0 /\ TgtQuiet /\ tgt.got = <<>>
\* Activation: of the ATR and the PSL.
Opening ==
  /\ TgtFresh
  /\ call = "off" => air.to = "none" /\ tgt.state = "LISTEN" /\ tgt.br = "low"
  /\ call = "atr" =>
       /\ ini.pni = 0 /\ ini.br = "low" /\ tgt.br = "low"
       /\ tgt.state \in {"LISTEN", "WAIT_ACTV", "RX"}
       /\ Carries("tgt", {Frame("ATR")}) /\ Carries("ini", {Frame("ATR")})
       /\ air.to = "ini" /\ air.pdu.type = "ATR" => tgt.state = "WAIT_ACTV"
  /\ call = "psl" =>
       /\ ini.pni = 0 /\ tgt.state \in {"WAIT_ACTV", "RX"}
       /\ tgt.br = IF tgt.state = "RX" THEN "high" ELSE "low"
       /\ Carries("tgt", {Frame("PSL")}) /\ Carries("ini", {Frame("PSL")})
       /\ air.to = "tgt" => tgt.state = "WAIT_ACTV"
       /\ air.to = "ini" => tgt.state = "RX"

\* Between two commands nothing is on its way.
AtRest == Equal /\ TgtListens /\ TgtQuiet /\ tgt.got = <<>> /\ air.to = "none"

\* After a failure the initiator sends no more than the release.
Closing == air.to = "tgt" => air.pdu.type \in {"RLS", "DSL", "damaged"}

\* What holds at any time, and what depends on the call.
Basics ==
  /\ TypeOK /\ setup \in Setups /\ AnswerNotForgotten
  /\ ini.parts <= setup.parts /\ tgt.parts <= setup.parts
  /\ \A i \in 1..Len(executed) : executed[i] <= asked
Phase ==
  /\ call \in {"off", "atr", "psl"} => Opening
  /\ call \in {"idle", "transceive"} => ini.br = tgt.br
  /\ call = "idle" => AtRest
  /\ call = "transceive" => Exchange /\ LastSent /\ Counts
  /\ call \in {"failed", "release", "ended"} => Closing
IInv == Basics /\ Phase

-----------------------------------------------------------------------------
(* PDUs, numbers and frames.                                               *)

AirState == [to : {"none", "ini", "tgt"}, pdu : Pdu]
FrameTypes == {"ATN", "TO", "ATR", "PSL", "DSL", "RLS", "damaged"}

\* What a PDU made by the protocol says; from here on PDUs are opaque.
LEMMA PduFields ==
  /\ \A pni, mi, n, i : /\ I(pni, mi, n, i).type = "I" /\ I(pni, mi, n, i).pni = pni
                        /\ I(pni, mi, n, i).mi = mi /\ I(pni, mi, n, i).inf = <<n, i>>
  /\ \A pni : /\ ACK(pni).type = "ACK" /\ ACK(pni).pni = pni
              /\ NACK(pni).type = "NACK" /\ NACK(pni).pni = pni
  /\ \A t : Frame(t).type = t
  BY DEF I, ACK, NACK, Frame

LEMMA PduTypes ==
  /\ \A pni \in 0..3, mi \in BOOLEAN, n, i \in Nat : I(pni, mi, n, i) \in Pdu
  /\ \A pni \in 0..3 : ACK(pni) \in Pdu /\ NACK(pni) \in Pdu
  /\ \A t \in FrameTypes : Frame(t) \in Pdu
  BY DEF I, ACK, NACK, Frame, Pdu, Part, FrameTypes

\* What a received PDU says.
LEMMA ReceivedPdu ==
  ASSUME NEW b \in Pdu
  PROVE  /\ b.type \in {"I", "ACK", "NACK"} \cup FrameTypes
         /\ b.type = "I" => b.pni \in 0..3 /\ b.mi \in BOOLEAN /\ b.inf \in Part
         /\ b.type \in {"ACK", "NACK"} => b.pni \in 0..3
  BY DEF Pdu, FrameTypes

LEMMA PniFacts ==
  \A p \in 0..3 : /\ PNIInc(p) \in 0..3 /\ PNIDec(p) \in 0..3
                  /\ PNIDec(PNIInc(p)) = p /\ PNIInc(PNIDec(p)) = p
                  /\ p # PNIInc(p) /\ p # PNIDec(p)
  BY DEF PNIInc, PNIDec

\* A frame arrives, arrives damaged, or is lost.
LEMMA SentFrame ==
  ASSUME NEW to, NEW b, air' \in Sent(to, b)
  PROVE  \/ air'.to = to /\ air'.pdu \in {b, Frame("damaged")}
         \/ air'.to = "none" /\ air'.pdu = Frame("damaged")
<1>1. CASE air' = [to |-> to, pdu |-> b]
  BY <1>1
<1>2. CASE air' = [to |-> to, pdu |-> Frame("damaged")]
  BY <1>2
<1>3. CASE air' = Silence
  BY <1>3 DEF Silence
<1> QED BY <1>1, <1>2, <1>3 DEF Sent

LEMMA SentNotLost ==
  ASSUME NEW to, NEW b, air' \in Sent(to, b), <<"loss", to, b.type>> \notin setup.faults
  PROVE  air'.to = to
  BY DEF Sent

LEMMA SentType ==
  ASSUME NEW to \in {"ini", "tgt"}, NEW b \in Pdu
  PROVE  Sent(to, b) \subseteq AirState
  BY PduTypes DEF Sent, Silence, AirState, FrameTypes

LEMMA SilenceFacts ==
  Silence \in AirState /\ Silence.to = "none" /\ Silence.pdu = Frame("damaged")
  BY PduTypes DEF Silence, AirState, FrameTypes

-----------------------------------------------------------------------------
(* What the operations of the two sides change.                            *)

LastTypes == DepTypes \cup {"INVALID"}
\* What nfcipTx remembers of a PDU.
Last(b) == IF b.type \in DepTypes THEN b.type ELSE "INVALID"
LastN(p, b) == IF b.type \in DepTypes \ {"ATN"} THEN b.type ELSE p.lastN

LEMMA SendsType ==
  ASSUME NEW b
  PROVE  /\ \A p \in IniState : Sends(p, b) \in IniState
         /\ \A p \in TgtState : Sends(p, b) \in TgtState
<1>1. ASSUME NEW p \in IniState PROVE Sends(p, b) \in IniState
  <2>1. Sends(p, b) = [p EXCEPT !.last = Last(b), !.lastN = LastN(p, b)]
    BY DEF Sends, Last, LastN
  <2>2. Last(b) \in LastTypes /\ LastN(p, b) \in LastTypes
    BY DEF Last, LastN, IniState, LastTypes, DepTypes
  <2> QED BY <2>1, <2>2 DEF IniState, LastTypes
<1>2. ASSUME NEW p \in TgtState PROVE Sends(p, b) \in TgtState
  <2>1. Sends(p, b) = [p EXCEPT !.last = Last(b), !.lastN = LastN(p, b)]
    BY DEF Sends, Last, LastN
  <2>2. Last(b) \in LastTypes /\ LastN(p, b) \in LastTypes
    BY DEF Last, LastN, TgtState, LastTypes, DepTypes
  <2> QED BY <2>1, <2>2 DEF TgtState, LastTypes
<1> QED BY <1>1, <1>2

LEMMA IniSendsFields ==
  ASSUME NEW p \in IniState, NEW b
  PROVE  LET q == Sends(p, b)
         IN  /\ q.last = Last(b) /\ q.lastN = LastN(p, b)
             /\ q.state = p.state /\ q.pni = p.pni /\ q.mi = p.mi /\ q.br = p.br
             /\ q.parts = p.parts /\ q.pos = p.pos /\ q.got = p.got
             /\ q.cntTO = p.cntTO /\ q.cntNACK = p.cntNACK /\ q.cntATN = p.cntATN
             /\ q.cntTx = p.cntTx /\ q.cntRTOX = p.cntRTOX
  BY DEF Sends, Last, LastN, IniState

LEMMA TgtSendsFields ==
  ASSUME NEW p \in TgtState, NEW b
  PROVE  LET q == Sends(p, b)
         IN  /\ q.last = Last(b) /\ q.lastN = LastN(p, b)
             /\ q.state = p.state /\ q.pni = p.pni /\ q.mi = p.mi /\ q.br = p.br
             /\ q.wait = p.wait /\ q.pending = p.pending /\ q.owes = p.owes
             /\ q.todo = p.todo /\ q.reply = p.reply
             /\ q.parts = p.parts /\ q.pos = p.pos /\ q.got = p.got
  BY DEF Sends, Last, LastN, TgtState

\* The state of the exchange, beside the counters and the last PDU.
SameIni(p, q) ==
  /\ q.state = p.state /\ q.pni = p.pni /\ q.mi = p.mi /\ q.br = p.br
  /\ q.parts = p.parts /\ q.pos = p.pos /\ q.got = p.got
SameLast(p, q) == q.last = p.last /\ q.lastN = p.lastN

LEMMA CountFields ==
  ASSUME NEW p \in IniState
  PROVE  /\ LET q == [p EXCEPT !.cntTO = @ + 1]
            IN  /\ q \in IniState /\ SameIni(p, q) /\ SameLast(p, q) /\ q.cntTO = p.cntTO + 1
                /\ q.cntNACK = p.cntNACK /\ q.cntATN = p.cntATN /\ q.cntTx = p.cntTx
                /\ q.cntRTOX = p.cntRTOX
         /\ LET q == [p EXCEPT !.cntNACK = @ + 1]
            IN  /\ q \in IniState /\ SameIni(p, q) /\ SameLast(p, q) /\ q.cntNACK = p.cntNACK + 1
                /\ q.cntTO = p.cntTO /\ q.cntATN = p.cntATN /\ q.cntTx = p.cntTx
                /\ q.cntRTOX = p.cntRTOX
         /\ LET q == [p EXCEPT !.cntATN = @ + 1]
            IN  /\ q \in IniState /\ SameIni(p, q) /\ SameLast(p, q) /\ q.cntATN = p.cntATN + 1
                /\ q.cntTO = p.cntTO /\ q.cntNACK = p.cntNACK /\ q.cntTx = p.cntTx
                /\ q.cntRTOX = p.cntRTOX
         /\ LET q == [p EXCEPT !.cntRTOX = @ + 1]
            IN  /\ q \in IniState /\ SameIni(p, q) /\ SameLast(p, q) /\ q.cntRTOX = p.cntRTOX + 1
                /\ q.cntTO = p.cntTO /\ q.cntNACK = p.cntNACK /\ q.cntATN = p.cntATN
                /\ q.cntTx = p.cntTx
         /\ LET q == [p EXCEPT !.cntTx = @ + 1]
            IN  /\ q \in IniState /\ SameIni(p, q) /\ SameLast(p, q) /\ q.cntTx = p.cntTx + 1
                /\ q.cntTO = p.cntTO /\ q.cntNACK = p.cntNACK /\ q.cntATN = p.cntATN
                /\ q.cntRTOX = p.cntRTOX
         /\ LET q == [p EXCEPT !.cntATN = 0]
            IN  /\ q \in IniState /\ SameIni(p, q) /\ SameLast(p, q) /\ q.cntATN = 0
                /\ q.cntTO = p.cntTO /\ q.cntNACK = p.cntNACK /\ q.cntTx = p.cntTx
                /\ q.cntRTOX = p.cntRTOX
<1>0. p.cntTO \in Nat /\ p.cntNACK \in Nat /\ p.cntATN \in Nat /\ p.cntRTOX \in Nat
      /\ p.cntTx \in Nat
  BY DEF IniState
<1>1. p.cntTO + 1 \in Nat /\ p.cntNACK + 1 \in Nat /\ p.cntATN + 1 \in Nat /\ p.cntRTOX + 1 \in Nat
      /\ p.cntTx + 1 \in Nat
  BY ONLY <1>0
<1> USE DEF IniState, SameIni, SameLast
<1>2. LET q == [p EXCEPT !.cntTO = @ + 1]
      IN  /\ q \in IniState /\ SameIni(p, q) /\ SameLast(p, q) /\ q.cntTO = p.cntTO + 1
          /\ q.cntNACK = p.cntNACK /\ q.cntATN = p.cntATN /\ q.cntTx = p.cntTx
          /\ q.cntRTOX = p.cntRTOX
  BY <1>1
<1>3. LET q == [p EXCEPT !.cntNACK = @ + 1]
      IN  /\ q \in IniState /\ SameIni(p, q) /\ SameLast(p, q) /\ q.cntNACK = p.cntNACK + 1
          /\ q.cntTO = p.cntTO /\ q.cntATN = p.cntATN /\ q.cntTx = p.cntTx
          /\ q.cntRTOX = p.cntRTOX
  BY <1>1
<1>4. LET q == [p EXCEPT !.cntATN = @ + 1]
      IN  /\ q \in IniState /\ SameIni(p, q) /\ SameLast(p, q) /\ q.cntATN = p.cntATN + 1
          /\ q.cntTO = p.cntTO /\ q.cntNACK = p.cntNACK /\ q.cntTx = p.cntTx
          /\ q.cntRTOX = p.cntRTOX
  BY <1>1
<1>5. LET q == [p EXCEPT !.cntRTOX = @ + 1]
      IN  /\ q \in IniState /\ SameIni(p, q) /\ SameLast(p, q) /\ q.cntRTOX = p.cntRTOX + 1
          /\ q.cntTO = p.cntTO /\ q.cntNACK = p.cntNACK /\ q.cntATN = p.cntATN
          /\ q.cntTx = p.cntTx
  BY <1>1
<1>6. LET q == [p EXCEPT !.cntTx = @ + 1]
      IN  /\ q \in IniState /\ SameIni(p, q) /\ SameLast(p, q) /\ q.cntTx = p.cntTx + 1
          /\ q.cntTO = p.cntTO /\ q.cntNACK = p.cntNACK /\ q.cntATN = p.cntATN
          /\ q.cntRTOX = p.cntRTOX
  BY <1>1
<1>7. LET q == [p EXCEPT !.cntATN = 0]
      IN  /\ q \in IniState /\ SameIni(p, q) /\ SameLast(p, q) /\ q.cntATN = 0
          /\ q.cntTO = p.cntTO /\ q.cntNACK = p.cntNACK /\ q.cntTx = p.cntTx
          /\ q.cntRTOX = p.cntRTOX
  OBVIOUS
<1> QED BY ONLY <1>2, <1>3, <1>4, <1>5, <1>6, <1>7

\* A part is started; a message is; the number goes on; the last part is sent again.
LEMMA StartPartFields ==
  ASSUME NEW p \in IniState, NEW pos \in Nat
  PROVE  LET q == StartPart(p, pos)
         IN  /\ q \in IniState /\ q.state = "TX" /\ q.pos = pos /\ q.mi = (pos + 1 < p.parts)
             /\ q.pni = p.pni /\ q.br = p.br /\ q.parts = p.parts /\ q.got = p.got
             /\ q.cntTO = 0 /\ q.cntNACK = 0 /\ q.cntATN = 0 /\ q.cntTx = 0 /\ q.cntRTOX = 0
             /\ SameLast(p, q)
<1>1. (pos + 1 < p.parts) \in BOOLEAN
  OBVIOUS
<1> QED BY <1>1 DEF StartPart, ClearCounters, IniState, SameLast

LEMMA MessageFields ==
  ASSUME NEW p \in IniState, NEW n \in Nat
  PROVE  LET q == [p EXCEPT !.parts = n, !.got = <<>>]
         IN  /\ q \in IniState /\ q.pni = p.pni /\ q.br = p.br /\ q.parts = n /\ q.got = <<>>
             /\ q.state = p.state
<1>1. <<>> \in Seq(Part)
  OBVIOUS
<1>2. \A g \in Seq(Part) :
        LET q == [p EXCEPT !.parts = n, !.got = g]
        IN  /\ q \in IniState /\ q.pni = p.pni /\ q.br = p.br /\ q.parts = n /\ q.got = g
            /\ q.state = p.state
  BY DEF IniState
<1> QED BY ONLY <1>1, <1>2

LEMMA NextPniFields ==
  ASSUME NEW p \in IniState
  PROVE  LET q == [p EXCEPT !.pni = PNIInc(@)]
         IN  /\ q \in IniState /\ q.pni = PNIInc(p.pni) /\ q.br = p.br /\ q.parts = p.parts
             /\ q.got = p.got /\ q.pos = p.pos /\ q.mi = p.mi /\ q.state = p.state
<1>1. p.pni \in 0..3 /\ PNIInc(p.pni) \in 0..3
  BY PniFacts DEF IniState
<1>2. \A n \in 0..3 :
        LET q == [p EXCEPT !.pni = n]
        IN  /\ q \in IniState /\ q.pni = n /\ q.br = p.br /\ q.parts = p.parts
            /\ q.got = p.got /\ q.pos = p.pos /\ q.mi = p.mi /\ q.state = p.state
  BY DEF IniState
<1> QED BY ONLY <1>1, <1>2

LEMMA StateFields ==
  ASSUME NEW p \in IniState, NEW s \in {"IDLE", "TX", "RX"}
  PROVE  LET q == [p EXCEPT !.state = s]
         IN  /\ q \in IniState /\ q.state = s /\ q.pni = p.pni /\ q.mi = p.mi /\ q.br = p.br
             /\ q.parts = p.parts /\ q.pos = p.pos /\ q.got = p.got /\ SameLast(p, q)
             /\ q.cntTO = p.cntTO /\ q.cntNACK = p.cntNACK /\ q.cntATN = p.cntATN
             /\ q.cntTx = p.cntTx /\ q.cntRTOX = p.cntRTOX
  BY DEF IniState, SameLast

\* A part of the answer is taken.
PartTaken(inf) == ClearCounters([ini EXCEPT !.pni = PNIInc(@), !.got = Append(@, inf)])
LEMMA PartTakenFields ==
  ASSUME ini \in IniState, NEW inf \in Part
  PROVE  LET q == PartTaken(inf)
         IN  /\ q \in IniState /\ q.pni = PNIInc(ini.pni) /\ q.got = Append(ini.got, inf)
             /\ q.br = ini.br /\ q.parts = ini.parts /\ q.pos = ini.pos /\ q.mi = ini.mi
             /\ q.state = ini.state /\ SameLast(ini, q)
             /\ q.cntTO = 0 /\ q.cntNACK = 0 /\ q.cntATN = 0 /\ q.cntTx = 0 /\ q.cntRTOX = 0
<1>1. ini.pni \in 0..3 /\ PNIInc(ini.pni) \in 0..3
  BY PniFacts DEF IniState
<1>2. Append(ini.got, inf) \in Seq(Part)
  BY DEF IniState
<1> DEFINE p == [ini EXCEPT !.pni = PNIInc(@), !.got = Append(@, inf)]
<1>3. /\ p \in IniState /\ p.pni = PNIInc(ini.pni) /\ p.got = Append(ini.got, inf)
      /\ p.br = ini.br /\ p.parts = ini.parts /\ p.pos = ini.pos /\ p.mi = ini.mi
      /\ p.state = ini.state /\ p.last = ini.last /\ p.lastN = ini.lastN
  BY <1>1, <1>2 DEF IniState
<1>4. PartTaken(inf) = ClearCounters(p)
  BY DEF PartTaken
<1> HIDE DEF p
<1>5. LET q == ClearCounters(p)
      IN  /\ q \in IniState /\ q.pni = p.pni /\ q.got = p.got /\ q.br = p.br /\ q.parts = p.parts
          /\ q.pos = p.pos /\ q.mi = p.mi /\ q.state = p.state /\ q.last = p.last
          /\ q.lastN = p.lastN
          /\ q.cntTO = 0 /\ q.cntNACK = 0 /\ q.cntATN = 0 /\ q.cntTx = 0 /\ q.cntRTOX = 0
  BY <1>3 DEF ClearCounters, IniState
<1> QED BY <1>3, <1>4, <1>5 DEF SameLast

LEMMA FreshFields ==
  ASSUME NEW l \in LastTypes
  PROVE  /\ InitIni(l) \in IniState /\ [InitIni(l) EXCEPT !.atr = 1] \in IniState
         /\ [InitIni(l) EXCEPT !.atr = 1].pni = 0 /\ [InitIni(l) EXCEPT !.atr = 1].br = "low"
         /\ [InitIni(l) EXCEPT !.atr = 1].parts = 0 /\ InitIni(l).parts = 0
         /\ InitTgt(l) \in TgtState /\ InitTgt(l).state = "LISTEN" /\ InitTgt(l).pni = 0
         /\ InitTgt(l).owes = "none" /\ ~InitTgt(l).pending /\ ~InitTgt(l).wait
         /\ InitTgt(l).got = <<>> /\ InitTgt(l).br = "low" /\ InitTgt(l).parts = 0
<1>1. <<>> \in Seq(Part)
  OBVIOUS
<1>2. InitIni(l) \in IniState /\ InitIni(l).pni = 0 /\ InitIni(l).br = "low" /\ InitIni(l).parts = 0
  BY <1>1 DEF InitIni, IniState, LastTypes
<1>3. \A p \in IniState :
        LET q == [p EXCEPT !.atr = 1]
        IN  q \in IniState /\ q.pni = p.pni /\ q.br = p.br /\ q.parts = p.parts
  BY DEF IniState
<1>4. InitTgt(l) \in TgtState
  BY <1>1 DEF InitTgt, TgtState, LastTypes
<1>5. /\ InitTgt(l).state = "LISTEN" /\ InitTgt(l).pni = 0
      /\ InitTgt(l).owes = "none" /\ ~InitTgt(l).pending /\ ~InitTgt(l).wait
      /\ InitTgt(l).got = <<>> /\ InitTgt(l).br = "low" /\ InitTgt(l).parts = 0
  BY DEF InitTgt
<1> QED BY ONLY <1>2, <1>3, <1>4, <1>5

\* What the target keeps over a step that does not change how far the exchange is.
SameTgt(p, q) ==
  /\ q.br = p.br /\ q.mi = p.mi /\ q.todo = p.todo /\ q.reply = p.reply
  /\ q.parts = p.parts /\ q.pos = p.pos

LEMMA TgtStateFields ==
  ASSUME NEW p \in TgtState, NEW s \in {"WAIT_ACTV", "IDLE", "SLEEP", "RX"}
  PROVE  LET q == [p EXCEPT !.state = s]
         IN  /\ q \in TgtState /\ q.state = s /\ SameTgt(p, q) /\ SameLast(p, q) /\ q.pni = p.pni
             /\ q.owes = p.owes /\ q.pending = p.pending /\ q.wait = p.wait /\ q.got = p.got
  BY DEF TgtState, SameTgt, SameLast

LEMMA PslFields ==
  ASSUME NEW p \in TgtState
  PROVE  LET q == [p EXCEPT !.state = "RX", !.br = "high"]
         IN  /\ q \in TgtState /\ q.state = "RX" /\ q.br = "high" /\ q.pni = p.pni
             /\ q.owes = p.owes /\ q.pending = p.pending /\ q.wait = p.wait /\ q.got = p.got
             /\ q.parts = p.parts
  BY DEF TgtState

LEMMA AnswerFields ==
  ASSUME NEW p \in TgtState, NEW n \in Nat
  PROVE  LET q == [p EXCEPT !.reply = p.todo, !.parts = n, !.got = <<>>]
         IN  /\ q \in TgtState /\ q.reply = p.todo /\ q.parts = n /\ q.got = <<>>
             /\ q.br = p.br /\ q.todo = p.todo /\ q.pni = p.pni /\ q.wait = p.wait
             /\ q.pending = p.pending /\ SameLast(p, q)
<1>1. <<>> \in Seq(Part) /\ p.todo \in Nat
  BY DEF TgtState
<1>2. ASSUME NEW g \in Seq(Part), NEW r \in Nat
      PROVE  LET q == [p EXCEPT !.reply = r, !.parts = n, !.got = g]
             IN  /\ q \in TgtState /\ q.reply = r /\ q.parts = n /\ q.got = g
                 /\ q.br = p.br /\ q.todo = p.todo /\ q.pni = p.pni /\ q.wait = p.wait
                 /\ q.pending = p.pending /\ SameLast(p, q)
  BY DEF TgtState, SameLast
<1> QED BY ONLY <1>1, <1>2

LEMMA StartAnswerFields ==
  ASSUME NEW p \in TgtState, NEW pos \in Nat
  PROVE  LET q == StartAnswer(p, pos)
         IN  /\ q \in TgtState /\ q.pos = pos /\ q.mi = (pos + 1 < p.parts) /\ q.owes = "none"
             /\ q.state = (IF p.wait THEN "RX" ELSE "TX") /\ q.pending = (p.wait \/ p.pending)
             /\ q.wait = p.wait /\ q.pni = p.pni /\ q.br = p.br /\ q.todo = p.todo
             /\ q.reply = p.reply /\ q.parts = p.parts /\ q.got = p.got /\ SameLast(p, q)
<1> DEFINE more == pos + 1 < p.parts
           waiting == p.wait \/ p.pending
           state == IF p.wait THEN "RX" ELSE "TX"
           m == [p EXCEPT !.pos = pos, !.mi = more]
           q == [m EXCEPT !.owes = "none", !.state = state, !.pending = waiting]
<1>1. more \in BOOLEAN /\ waiting \in BOOLEAN /\ state \in {"RX", "TX"}
  OBVIOUS
<1>2. StartAnswer(p, pos) = q
  BY DEF StartAnswer, TgtState
<1>3. more = (pos + 1 < p.parts) /\ waiting = (p.wait \/ p.pending)
      /\ state = (IF p.wait THEN "RX" ELSE "TX")
  OBVIOUS
<1> HIDE DEF more, waiting, state
<1>4. /\ m \in TgtState /\ m.pos = pos /\ m.mi = more
      /\ m.wait = p.wait /\ m.pni = p.pni /\ m.br = p.br /\ m.todo = p.todo
      /\ m.reply = p.reply /\ m.parts = p.parts /\ m.got = p.got /\ SameLast(p, m)
  BY <1>1 DEF TgtState, SameLast
<1> HIDE DEF m
<1>5. /\ q \in TgtState /\ q.owes = "none" /\ q.state = state /\ q.pending = waiting
      /\ q.pos = m.pos /\ q.mi = m.mi
      /\ q.wait = m.wait /\ q.pni = m.pni /\ q.br = m.br /\ q.todo = m.todo
      /\ q.reply = m.reply /\ q.parts = m.parts /\ q.got = m.got /\ SameLast(m, q)
  <2>1. m \in TgtState
    BY <1>4
  <2> DEFINE w == [m EXCEPT !.owes = "none", !.state = state]
  <2>2. /\ w \in TgtState /\ w.owes = "none" /\ w.state = state
        /\ w.pos = m.pos /\ w.mi = m.mi
        /\ w.wait = m.wait /\ w.pni = m.pni /\ w.br = m.br /\ w.todo = m.todo
        /\ w.reply = m.reply /\ w.parts = m.parts /\ w.got = m.got /\ SameLast(m, w)
    BY ONLY ZenonT(60), <1>1, <2>1 DEF TgtState, SameLast
  <2>3. q = [w EXCEPT !.pending = waiting]
    BY ONLY <2>1 DEF TgtState
  <2> HIDE DEF w
  <2>4. w \in TgtState
    BY <2>2
  <2>5. LET v == [w EXCEPT !.pending = waiting]
        IN /\ v \in TgtState /\ v.owes = w.owes /\ v.state = w.state /\ v.pending = waiting
           /\ v.pos = w.pos /\ v.mi = w.mi
           /\ v.wait = w.wait /\ v.pni = w.pni /\ v.br = w.br /\ v.todo = w.todo
           /\ v.reply = w.reply /\ v.parts = w.parts /\ v.got = w.got /\ SameLast(w, v)
    BY ONLY <1>1, <2>4 DEF TgtState, SameLast
  <2> HIDE DEF q
  <2> QED BY ONLY <2>2, <2>3, <2>5 DEF SameLast
<1> HIDE DEF q
<1>6. /\ q \in TgtState /\ q.pos = pos /\ q.mi = (pos + 1 < p.parts) /\ q.owes = "none"
      /\ q.state = (IF p.wait THEN "RX" ELSE "TX") /\ q.pending = (p.wait \/ p.pending)
      /\ q.wait = p.wait /\ q.pni = p.pni /\ q.br = p.br /\ q.todo = p.todo
      /\ q.reply = p.reply /\ q.parts = p.parts /\ q.got = p.got /\ SameLast(p, q)
  BY ONLY <1>3, <1>4, <1>5 DEF SameLast
<1> QED BY ONLY <1>2, <1>6

LEMMA TxFields ==
  ASSUME NEW p \in TgtState
  PROVE  LET q == [p EXCEPT !.state = "RX", !.pending = FALSE, !.wait = FALSE, !.pni = PNIInc(@)]
         IN  /\ q \in TgtState /\ q.state = "RX" /\ ~q.pending /\ ~q.wait /\ q.pni = PNIInc(p.pni)
             /\ SameTgt(p, q) /\ q.owes = p.owes /\ q.got = p.got /\ SameLast(p, q)
<1>1. p.pni \in 0..3 /\ PNIInc(p.pni) \in 0..3
  BY PniFacts DEF TgtState
<1>2. \A n \in 0..3 :
        LET q == [p EXCEPT !.state = "RX", !.pending = FALSE, !.wait = FALSE, !.pni = n]
        IN  /\ q \in TgtState /\ q.state = "RX" /\ ~q.pending /\ ~q.wait /\ q.pni = n
            /\ SameTgt(p, q) /\ q.owes = p.owes /\ q.got = p.got /\ SameLast(p, q)
  BY DEF TgtState, SameTgt, SameLast
<1> QED BY ONLY <1>1, <1>2

LEMMA RtoxFields ==
  ASSUME NEW p \in TgtState
  PROVE  /\ LET q == [p EXCEPT !.cntRTOX = @ + 1]
            IN  q \in TgtState /\ SameTgt(p, q) /\ q.pending = p.pending
         /\ LET q == [p EXCEPT !.cntRTOX = @ + 1, !.wait = TRUE, !.state = "RX"]
            IN  /\ q \in TgtState /\ q.wait /\ q.state = "RX" /\ q.pni = p.pni /\ SameTgt(p, q)
                /\ q.owes = p.owes /\ q.pending = p.pending /\ q.got = p.got
<1>1. p.cntRTOX + 1 \in Nat
  BY DEF TgtState
<1>2. \A n \in Nat :
         /\ LET q == [p EXCEPT !.cntRTOX = n]
            IN  q \in TgtState /\ SameTgt(p, q) /\ q.pending = p.pending
         /\ LET q == [p EXCEPT !.cntRTOX = n, !.wait = TRUE, !.state = "RX"]
            IN  /\ q \in TgtState /\ q.wait /\ q.state = "RX" /\ q.pni = p.pni /\ SameTgt(p, q)
                /\ q.owes = p.owes /\ q.pending = p.pending /\ q.got = p.got
  BY DEF TgtState, SameTgt
<1>3. /\ [p EXCEPT !.cntRTOX = @ + 1] = [p EXCEPT !.cntRTOX = p.cntRTOX + 1]
      /\ [p EXCEPT !.cntRTOX = @ + 1, !.wait = TRUE, !.state = "RX"]
           = [p EXCEPT !.cntRTOX = p.cntRTOX + 1, !.wait = TRUE, !.state = "RX"]
  OBVIOUS
<1> DEFINE n == p.cntRTOX + 1
<1>4. n \in Nat
  BY <1>1
<1> HIDE DEF n
<1>5. /\ LET q == [p EXCEPT !.cntRTOX = n]
         IN  q \in TgtState /\ SameTgt(p, q) /\ q.pending = p.pending
      /\ LET q == [p EXCEPT !.cntRTOX = n, !.wait = TRUE, !.state = "RX"]
         IN  /\ q \in TgtState /\ q.wait /\ q.state = "RX" /\ q.pni = p.pni /\ SameTgt(p, q)
             /\ q.owes = p.owes /\ q.pending = p.pending /\ q.got = p.got
  BY ONLY <1>2, <1>4
<1> QED BY ONLY <1>3, <1>5 DEF n

LEMMA RepeatsFields ==
  ASSUME NEW p \in TgtState
  PROVE  LET q == [p EXCEPT !.pni = PNIDec(@), !.state = "TX"]
         IN  /\ q \in TgtState /\ q.state = "TX" /\ q.pni = PNIDec(p.pni) /\ SameTgt(p, q)
             /\ q.owes = p.owes /\ q.pending = p.pending /\ q.wait = p.wait /\ q.got = p.got
             /\ SameLast(p, q)
<1>1. p.pni \in 0..3 /\ PNIDec(p.pni) \in 0..3
  BY PniFacts DEF TgtState
<1>2. \A n \in 0..3 :
        LET q == [p EXCEPT !.pni = n, !.state = "TX"]
        IN  /\ q \in TgtState /\ q.state = "TX" /\ q.pni = n /\ SameTgt(p, q)
            /\ q.owes = p.owes /\ q.pending = p.pending /\ q.wait = p.wait /\ q.got = p.got
            /\ SameLast(p, q)
  BY DEF TgtState, SameTgt, SameLast
<1> QED BY ONLY <1>1, <1>2

LEMMA AckedFields ==
  ASSUME NEW p \in TgtState
  PROVE  LET q == [p EXCEPT !.state = "RTOX", !.owes = "part"]
         IN  /\ q \in TgtState /\ q.state = "RTOX" /\ q.owes = "part" /\ q.pni = p.pni
             /\ SameTgt(p, q) /\ q.pending = p.pending /\ q.wait = p.wait /\ q.got = p.got
             /\ SameLast(p, q)
  BY DEF TgtState, SameTgt, SameLast

LEMMA ConfirmedFields ==
  ASSUME NEW p \in TgtState
  PROVE  LET q == [p EXCEPT !.wait = FALSE, !.state = IF p.pending THEN "TX" ELSE "RTOX"]
         IN  /\ q \in TgtState /\ ~q.wait /\ q.state = (IF p.pending THEN "TX" ELSE "RTOX")
             /\ q.pni = p.pni /\ SameTgt(p, q) /\ q.owes = p.owes /\ q.pending = p.pending
             /\ q.got = p.got
  BY DEF TgtState, SameTgt

\* A part of the command is taken; the last one makes the command complete.
GotPart(inf) == [tgt EXCEPT !.cntRTOX = 0, !.got = Append(tgt.got, inf)]
LEMMA GotPartFields ==
  ASSUME tgt \in TgtState, NEW inf \in Part
  PROVE  LET p == GotPart(inf)
             q == [p EXCEPT !.pni = PNIInc(@)]
             r == [p EXCEPT !.state = "RTOX", !.owes = "answer", !.todo = inf[1]]
         IN  /\ p \in TgtState
             /\ q \in TgtState /\ q.pni = PNIInc(tgt.pni) /\ q.got = Append(tgt.got, inf)
             /\ SameTgt(tgt, q) /\ SameLast(tgt, q) /\ q.state = tgt.state /\ q.owes = tgt.owes
             /\ q.pending = tgt.pending /\ q.wait = tgt.wait
             /\ r \in TgtState /\ r.state = "RTOX" /\ r.owes = "answer" /\ r.todo = inf[1]
             /\ r.pni = tgt.pni /\ r.br = tgt.br /\ r.pending = tgt.pending /\ r.wait = tgt.wait
             /\ r.parts = tgt.parts
<1>1. tgt.pni \in 0..3 /\ PNIInc(tgt.pni) \in 0..3 /\ inf[1] \in Nat
  BY PniFacts DEF TgtState, Part
<1>2. Append(tgt.got, inf) \in Seq(Part)
  BY DEF TgtState
<1> DEFINE p == GotPart(inf)
<1>3. /\ p \in TgtState /\ p.got = Append(tgt.got, inf) /\ p.pni = tgt.pni /\ p.state = tgt.state
      /\ SameTgt(tgt, p) /\ SameLast(tgt, p) /\ p.owes = tgt.owes /\ p.pending = tgt.pending
      /\ p.wait = tgt.wait
  BY <1>2 DEF GotPart, TgtState, SameTgt, SameLast
<1> HIDE DEF p
<1>4. \A n \in 0..3 :
        LET q == [p EXCEPT !.pni = n]
        IN  /\ q \in TgtState /\ q.pni = n /\ q.got = p.got /\ SameTgt(p, q) /\ SameLast(p, q)
            /\ q.state = p.state /\ q.owes = p.owes /\ q.pending = p.pending /\ q.wait = p.wait
  BY <1>3 DEF TgtState, SameTgt, SameLast
<1>5. \A n \in Nat :
        LET r == [p EXCEPT !.state = "RTOX", !.owes = "answer", !.todo = n]
        IN  /\ r \in TgtState /\ r.state = "RTOX" /\ r.owes = "answer" /\ r.todo = n
            /\ r.pni = p.pni /\ r.br = p.br /\ r.pending = p.pending /\ r.wait = p.wait
            /\ r.parts = p.parts
  BY <1>3 DEF TgtState
<1> DEFINE q == [p EXCEPT !.pni = PNIInc(@)]
           r == [p EXCEPT !.state = "RTOX", !.owes = "answer", !.todo = inf[1]]
<1>6. /\ q \in TgtState /\ q.pni = PNIInc(tgt.pni) /\ q.got = p.got /\ SameTgt(p, q)
      /\ SameLast(p, q) /\ q.state = p.state /\ q.owes = p.owes /\ q.pending = p.pending
      /\ q.wait = p.wait
  BY ONLY <1>1, <1>3, <1>4
<1>7. /\ r \in TgtState /\ r.state = "RTOX" /\ r.owes = "answer" /\ r.todo = inf[1]
      /\ r.pni = p.pni /\ r.br = p.br /\ r.pending = p.pending /\ r.wait = p.wait
      /\ r.parts = p.parts
  BY ONLY <1>1, <1>5
<1> HIDE DEF q, r
<1>8. /\ p \in TgtState
      /\ q \in TgtState /\ q.pni = PNIInc(tgt.pni) /\ q.got = Append(tgt.got, inf)
      /\ SameTgt(tgt, q) /\ SameLast(tgt, q) /\ q.state = tgt.state /\ q.owes = tgt.owes
      /\ q.pending = tgt.pending /\ q.wait = tgt.wait
      /\ r \in TgtState /\ r.state = "RTOX" /\ r.owes = "answer" /\ r.todo = inf[1]
      /\ r.pni = tgt.pni /\ r.br = tgt.br /\ r.pending = tgt.pending /\ r.wait = tgt.wait
      /\ r.parts = tgt.parts
  BY ONLY <1>3, <1>6, <1>7 DEF SameTgt, SameLast
<1> QED BY ONLY <1>8 DEF q, r, p

-----------------------------------------------------------------------------
(* Type correctness.                                                       *)

CallState == {"off", "atr", "psl", "idle", "transceive", "failed", "release", "ended"}

THEOREM TypeCorrectInit == Init => TypeOK
<1>1. "INVALID" \in LastTypes
  BY DEF LastTypes
<1>2. InitIni("INVALID") \in IniState /\ InitTgt("INVALID") \in TgtState
  BY <1>1, FreshFields
<1>3. <<>> \in Seq(Nat)
  OBVIOUS
<1> QED BY <1>2, <1>3, SilenceFacts DEF Init, TypeOK, AirState

\* Type correctness by components, before and after a step.
LEMMA TypeFacts ==
  ASSUME TypeOK
  PROVE  /\ ini \in IniState /\ call \in CallState /\ tgt \in TgtState /\ air \in AirState
         /\ asked \in Nat /\ executed \in Seq(Nat) /\ answered \in Nat
         /\ errors \in Nat /\ extensions \in Nat
  BY DEF TypeOK, CallState, AirState

LEMMA TypeKept ==
  ASSUME ini' \in IniState, call' \in CallState, tgt' \in TgtState, air' \in AirState,
         asked' \in Nat, executed' \in Seq(Nat), answered' \in Nat,
         errors' \in Nat, extensions' \in Nat
  PROVE  TypeOK'
  BY DEF TypeOK, CallState, AirState

LEMMA Fields ==
  ASSUME TypeOK
  PROVE  /\ ini.state \in {"IDLE", "TX", "RX"} /\ ini.pni \in 0..3 /\ ini.mi \in BOOLEAN
         /\ ini.last \in LastTypes /\ ini.lastN \in LastTypes
         /\ ini.cntTO \in Nat /\ ini.cntNACK \in Nat /\ ini.cntATN \in Nat
         /\ ini.cntTx \in Nat /\ ini.cntRTOX \in Nat
         /\ ini.parts \in Nat /\ ini.pos \in Nat /\ ini.got \in Seq(Part)
         /\ tgt.state \in {"LISTEN", "WAIT_ACTV", "IDLE", "SLEEP", "RX", "TX", "RTOX"}
         /\ tgt.pni \in 0..3 /\ tgt.mi \in BOOLEAN /\ tgt.wait \in BOOLEAN
         /\ tgt.pending \in BOOLEAN /\ tgt.last \in LastTypes /\ tgt.lastN \in LastTypes
         /\ tgt.owes \in {"none", "answer", "part"} /\ tgt.todo \in Nat /\ tgt.reply \in Nat
         /\ tgt.parts \in Nat /\ tgt.pos \in Nat /\ tgt.got \in Seq(Part)
         /\ air.to \in {"none", "ini", "tgt"} /\ air.pdu \in Pdu
<1>1. ini \in IniState /\ tgt \in TgtState /\ air \in AirState
  BY TypeFacts
<1>2. /\ ini.state \in {"IDLE", "TX", "RX"} /\ ini.pni \in 0..3 /\ ini.mi \in BOOLEAN
      /\ ini.last \in LastTypes /\ ini.lastN \in LastTypes
      /\ ini.cntTO \in Nat /\ ini.cntNACK \in Nat /\ ini.cntATN \in Nat
      /\ ini.cntTx \in Nat /\ ini.cntRTOX \in Nat
      /\ ini.parts \in Nat /\ ini.pos \in Nat /\ ini.got \in Seq(Part)
  BY ONLY <1>1 DEF IniState, LastTypes
<1>3. /\ tgt.state \in {"LISTEN", "WAIT_ACTV", "IDLE", "SLEEP", "RX", "TX", "RTOX"}
      /\ tgt.pni \in 0..3 /\ tgt.mi \in BOOLEAN /\ tgt.wait \in BOOLEAN
      /\ tgt.pending \in BOOLEAN /\ tgt.last \in LastTypes /\ tgt.lastN \in LastTypes
      /\ tgt.owes \in {"none", "answer", "part"} /\ tgt.todo \in Nat /\ tgt.reply \in Nat
      /\ tgt.parts \in Nat /\ tgt.pos \in Nat /\ tgt.got \in Seq(Part)
  BY ONLY <1>1 DEF TgtState, LastTypes
<1>4. air.to \in {"none", "ini", "tgt"} /\ air.pdu \in Pdu
  BY ONLY <1>1 DEF AirState
<1> QED BY ONLY <1>2, <1>3, <1>4

LEMMA HistorySteps ==
  ASSUME errors \in Nat, extensions \in Nat
  PROVE  /\ Error => errors' \in Nat
         /\ Extension => extensions' \in Nat
         /\ Progress => (errors' \in Nat /\ extensions' \in Nat)
  BY RetriesAssumption DEF Error, Extension, Progress, Least

\* A failure, and a PDU of the initiator, leave the types.
LEMMA FailsType ==
  ASSUME NEW p \in IniState, Fails(p)
  PROVE  ini' \in IniState /\ call' \in CallState /\ air' \in AirState
  BY SilenceFacts DEF Fails, CallState

LEMMA ControlType ==
  ASSUME NEW p \in IniState, NEW b \in Pdu, call \in CallState, Control(p, b)
  PROVE  ini' \in IniState /\ call' \in CallState /\ air' \in AirState
<1>1. ini' = Sends(p, b) /\ air' \in Sent("tgt", b) /\ call' = call
  BY DEF Control
<1> QED BY <1>1, SendsType, SentType

LEMMA RetransmitsType ==
  ASSUME NEW p \in IniState, call \in CallState, Retransmits(p)
  PROVE  ini' \in IniState /\ call' \in CallState /\ air' \in AirState
<1>1. CASE ini.cntTx >= MaxRetries
  BY <1>1, FailsType DEF Retransmits
<1>2. CASE ~(ini.cntTx >= MaxRetries)
  <2>1. ini' = [p EXCEPT !.state = "TX"] /\ air' = Silence /\ call' = call
    BY <1>2 DEF Retransmits
  <2> QED BY <2>1, StateFields, SilenceFacts
<1> QED BY <1>1, <1>2

LEMMA PartsType ==
  ASSUME setup \in Setups, NEW parts \in 1..setup.parts
  PROVE  parts \in Nat /\ parts <= setup.parts /\ 0 < parts
<1>1. setup.parts \in Nat
  BY SetupAssumption
<1> QED BY ONLY <1>1, parts \in 1..setup.parts

LEMMA AppTypes ==
  ASSUME TypeOK, setup \in Setups, App PROVE TypeOK'
<1> USE TypeFacts, TypeKept
<1>1. ASSUME NEW parts \in 1..setup.parts, rfalNfcDepStartTransceive(parts) PROVE TypeOK'
  <2> DEFINE p == [ini EXCEPT !.parts = parts, !.got = <<>>]
  <2>1. p \in IniState
    BY PartsType, MessageFields
  <2>2. /\ ini' = StartPart(p, 0) /\ call' = "transceive" /\ asked' = asked + 1 /\ Progress
        /\ tgt' = tgt /\ air' = air /\ executed' = executed /\ answered' = answered
    BY <1>1 DEF rfalNfcDepStartTransceive
  <2> HIDE DEF p
  <2>3. ini' \in IniState
    BY <2>1, <2>2, StartPartFields
  <2> QED BY <2>2, <2>3, HistorySteps DEF CallState
<1>2. ASSUME NEW type \in {"RLS", "DSL"}, Release(type) PROVE TypeOK'
  <2>1. Frame(type) \in Pdu
    BY PduTypes DEF FrameTypes
  <2>2. ini' \in IniState /\ air' \in AirState
    BY <1>2, <2>1, SendsType, SentType DEF Release
  <2> QED BY <1>2, <2>2 DEF Release, CallState, history
<1>3. ASSUME rfalNfcDepATR PROVE TypeOK'
  <2>1. Frame("ATR") \in Pdu /\ ini.lastN \in LastTypes
    BY PduTypes, Fields DEF FrameTypes
  <2>2. ini' \in IniState /\ air' \in AirState
    BY <1>3, <2>1, SendsType, SentType, FreshFields DEF rfalNfcDepATR
  <2> QED BY <1>3, <2>2 DEF rfalNfcDepATR, CallState, history
<1>4. ASSUME FieldOff PROVE TypeOK'
  <2>1. tgt.lastN \in LastTypes
    BY Fields
  <2> QED BY <1>4, <2>1, FreshFields, SilenceFacts DEF FieldOff, CallState, history
<1> QED BY <1>1, <1>2, <1>3, <1>4 DEF App

LEMMA HighFields ==
  ASSUME NEW p \in IniState
  PROVE  /\ [p EXCEPT !.br = "high"] \in IniState /\ [p EXCEPT !.atr = @ + 1] \in IniState
         /\ [p EXCEPT !.br = "high"].br = "high" /\ [p EXCEPT !.br = "high"].pni = p.pni
         /\ [p EXCEPT !.br = "high"].parts = p.parts
         /\ [p EXCEPT !.atr = @ + 1].br = p.br /\ [p EXCEPT !.atr = @ + 1].pni = p.pni
         /\ [p EXCEPT !.atr = @ + 1].parts = p.parts
<1>1. p.atr \in Nat /\ p.atr + 1 \in Nat
  BY DEF IniState
<1>2. \A n \in Nat : LET q == [p EXCEPT !.atr = n]
                     IN  q \in IniState /\ q.br = p.br /\ q.pni = p.pni /\ q.parts = p.parts
  BY DEF IniState
<1>3. LET q == [p EXCEPT !.br = "high"]
      IN  q \in IniState /\ q.br = "high" /\ q.pni = p.pni /\ q.parts = p.parts
  BY DEF IniState
<1> QED BY ONLY <1>1, <1>2, <1>3

LEMMA ActivationTypes ==
  ASSUME TypeOK
  PROVE  /\ (\E psl \in BOOLEAN : AtrAnswered(psl)) => TypeOK'
         /\ PslAnswered => TypeOK'
         /\ AtrRetry => TypeOK'
         /\ ActivationFails => TypeOK'
         /\ Released => TypeOK'
         /\ IniTx => TypeOK'
<1> USE TypeFacts, TypeKept
<1>0. Frame("PSL") \in Pdu /\ Frame("ATR") \in Pdu
  BY PduTypes DEF FrameTypes
<1>1. ASSUME NEW psl \in BOOLEAN, AtrAnswered(psl) PROVE TypeOK'
  BY <1>0, <1>1, SentType, SilenceFacts DEF AtrAnswered, CallState, history
<1>2. ASSUME PslAnswered PROVE TypeOK'
  BY <1>2, HighFields, SilenceFacts DEF PslAnswered, CallState, history
<1>3. ASSUME AtrRetry PROVE TypeOK'
  BY <1>0, <1>3, HighFields, SentType DEF AtrRetry, CallState, history
<1>4. ASSUME ActivationFails PROVE TypeOK'
  BY <1>4, SilenceFacts DEF ActivationFails, CallState, history
<1>5. ASSUME Released PROVE TypeOK'
  BY <1>5, SilenceFacts DEF Released, CallState, history
<1>6. ASSUME IniTx PROVE TypeOK'
  <2> DEFINE b == I(ini.pni, ini.mi, asked, ini.pos + 1)
  <2>1. b \in Pdu
    <3>1. ini.pni \in 0..3 /\ ini.mi \in BOOLEAN /\ asked \in Nat /\ ini.pos + 1 \in Nat
      <4>1. ini.pni \in 0..3 /\ ini.mi \in BOOLEAN /\ asked \in Nat /\ ini.pos \in Nat
        BY Fields
      <4> QED BY ONLY <4>1
    <3> QED BY ONLY <3>1, PduTypes
  <2>2. ini' = [Sends(ini, b) EXCEPT !.state = "RX"] /\ air' \in Sent("tgt", b)
    BY <1>6 DEF IniTx
  <2> HIDE DEF b
  <2>3. ini' \in IniState
    BY <2>2, SendsType, StateFields
  <2>4. air' \in AirState
    BY <2>1, <2>2, SentType
  <2> QED BY <1>6, <2>3, <2>4 DEF IniTx, history
<1> QED BY <1>1, <1>2, <1>3, <1>4, <1>5, <1>6

LEMMA TimeoutTypes ==
  ASSUME TypeOK, Timeout PROVE TypeOK'
<1> USE TypeFacts
<1> DEFINE p == [ini EXCEPT !.cntTO = @ + 1]
           n == [p EXCEPT !.cntNACK = @ + 1]
           a == [p EXCEPT !.cntATN = @ + 1]
<1>1. p \in IniState
  BY CountFields
<1>2. p \in IniState /\ n \in IniState /\ a \in IniState
  <2> HIDE DEF p
  <2> QED BY <1>1, CountFields
<1>3. /\ Error /\ extensions' = extensions
      /\ tgt' = tgt /\ asked' = asked /\ executed' = executed /\ answered' = answered
      /\ \/ Fails(p) \/ Fails(n) \/ Fails(a)
         \/ Control(n, NACK(ini.pni)) \/ Control(a, Frame("ATN"))
  BY DEF Timeout, Recovered
<1> HIDE DEF p, n, a
<1>4. NACK(ini.pni) \in Pdu /\ Frame("ATN") \in Pdu
  BY Fields, PduTypes DEF FrameTypes
<1>5. ini' \in IniState /\ call' \in CallState /\ air' \in AirState
  BY <1>2, <1>3, <1>4, FailsType, ControlType
<1> QED BY <1>3, <1>5, TypeKept, HistorySteps

\* What the initiator makes of a PDU that is not a part of an answer.
LEMMA ReceiveTypes ==
  ASSUME TypeOK
  PROVE  /\ ReceiveError => ini' \in IniState /\ call' \in CallState /\ air' \in AirState
         /\ Acknowledged => /\ ini' \in IniState /\ call' \in CallState /\ air' \in AirState
                            /\ errors' \in Nat /\ extensions' \in Nat
         /\ \A pni \in 0..3 : AcknowledgedOther(pni) =>
              ini' \in IniState /\ call' \in CallState /\ air' \in AirState
         /\ Attended => ini' \in IniState /\ call' \in CallState /\ air' \in AirState
         /\ Extended => ini' \in IniState /\ call' \in CallState /\ air' \in AirState
<1> USE TypeFacts
<1>0. Frame("TO") \in Pdu /\ Frame("ATN") \in Pdu /\ NACK(ini.pni) \in Pdu
  BY Fields, PduTypes DEF FrameTypes
<1>1. ASSUME ReceiveError PROVE ini' \in IniState /\ call' \in CallState /\ air' \in AirState
  <2> DEFINE n == [ini EXCEPT !.cntNACK = @ + 1]
  <2>1. n \in IniState
    BY CountFields
  <2>2. Fails(n) \/ Control(n, NACK(ini.pni))
    BY <1>1 DEF ReceiveError
  <2> HIDE DEF n
  <2> QED BY <1>0, <2>1, <2>2, FailsType, ControlType
<1>2. ASSUME Acknowledged
      PROVE  /\ ini' \in IniState /\ call' \in CallState /\ air' \in AirState
             /\ errors' \in Nat /\ extensions' \in Nat
  <2> DEFINE next == [ini EXCEPT !.pni = PNIInc(@)]
  <2>1. next \in IniState
    BY NextPniFields
  <2>2. \/ ini' = StartPart(next, ini.pos + 1) /\ air' = Silence /\ Progress /\ call' = call
        \/ Fails(next) /\ errors' = errors /\ extensions' = extensions
    BY <1>2 DEF Acknowledged
  <2> HIDE DEF next
  <2>3. ini.pos + 1 \in Nat
    <3>1. ini.pos \in Nat
      BY Fields
    <3> QED BY ONLY <3>1
  <2>4. CASE ini' = StartPart(next, ini.pos + 1) /\ air' = Silence /\ Progress /\ call' = call
    <3>1. StartPart(next, ini.pos + 1) \in IniState
      BY ONLY <2>1, <2>3, StartPartFields
    <3>2. errors' \in Nat /\ extensions' \in Nat
      BY <2>4, HistorySteps
    <3> QED BY <2>4, <3>1, <3>2, SilenceFacts
  <2>5. CASE Fails(next) /\ errors' = errors /\ extensions' = extensions
    BY <2>1, <2>5, FailsType
  <2> QED BY <2>2, <2>4, <2>5
<1>3. ASSUME NEW pni \in 0..3, AcknowledgedOther(pni)
      PROVE  ini' \in IniState /\ call' \in CallState /\ air' \in AirState
  <2> DEFINE p == [ini EXCEPT !.cntTx = @ + 1]
  <2>1. p \in IniState
    BY CountFields
  <2>2. Retransmits(p) \/ Fails(p)
    BY <1>3 DEF AcknowledgedOther
  <2> HIDE DEF p
  <2> QED BY <2>1, <2>2, FailsType, RetransmitsType
<1>4. ASSUME Attended PROVE ini' \in IniState /\ call' \in CallState /\ air' \in AirState
  <2> DEFINE p == [ini EXCEPT !.cntATN = 0]
             q == [p EXCEPT !.cntTx = @ + 1]
  <2>1. p \in IniState
    BY CountFields
  <2>2. p \in IniState /\ q \in IniState
    <3> HIDE DEF p
    <3> QED BY <2>1, CountFields
  <2>3. Fails(ini) \/ Control(p, Frame("TO")) \/ Retransmits(q)
    BY <1>4 DEF Attended
  <2> HIDE DEF p, q
  <2> QED BY <1>0, <2>2, <2>3, FailsType, ControlType, RetransmitsType
<1>5. ASSUME Extended PROVE ini' \in IniState /\ call' \in CallState /\ air' \in AirState
  <2> DEFINE p == [ini EXCEPT !.cntRTOX = @ + 1]
  <2>1. p \in IniState
    BY CountFields
  <2>2. Fails(p) \/ Control(p, Frame("TO"))
    BY <1>5 DEF Extended
  <2> HIDE DEF p
  <2> QED BY <1>0, <2>1, <2>2, FailsType, ControlType
<1> QED BY ONLY <1>1, <1>2, <1>3, <1>4, <1>5

LEMMA ReceiveITypes ==
  ASSUME TypeOK, air.pdu.type = "I", ReceiveI
  PROVE  /\ ini' \in IniState /\ call' \in CallState /\ air' \in AirState
         /\ answered' \in Nat /\ errors' \in Nat /\ extensions' \in Nat
<1> USE TypeFacts
<1> DEFINE inf == air.pdu.inf
           fresh == PartTaken(inf)
<1>1. inf \in Part
  BY Fields, ReceivedPdu
<1>2. fresh \in IniState /\ fresh.pni \in 0..3 /\ fresh.got \in Seq(Part)
  <2>1. fresh \in IniState
    BY <1>1, PartTakenFields
  <2> HIDE DEF fresh
  <2> QED BY <2>1 DEF IniState
<1>3. \/ Fails(ini) /\ answered' = answered /\ errors' = errors /\ extensions' = extensions
      \/ Control(fresh, ACK(fresh.pni)) /\ Progress /\ answered' = answered
      \/ /\ ini' = StartPart(fresh, ini.pos + 1) /\ call' = call /\ answered' = answered
         /\ air' = Silence /\ Progress
      \/ /\ ini' = [fresh EXCEPT !.state = "IDLE"] /\ call' = "idle"
         /\ answered' = IF Whole(fresh.got, tgt.reply, tgt.parts) THEN tgt.reply ELSE 0
         /\ air' = Silence /\ Progress
  BY DEF ReceiveI, PartTaken
<1> HIDE DEF inf, fresh
<1>4. CASE Fails(ini) /\ answered' = answered /\ errors' = errors /\ extensions' = extensions
  BY <1>4, FailsType
<1>5. CASE Control(fresh, ACK(fresh.pni)) /\ Progress /\ answered' = answered
  <2>1. ACK(fresh.pni) \in Pdu
    BY <1>2, PduTypes
  <2> QED BY <1>2, <1>5, <2>1, ControlType, HistorySteps
<1>6. CASE /\ ini' = StartPart(fresh, ini.pos + 1) /\ call' = call /\ answered' = answered
           /\ air' = Silence /\ Progress
  <2>0. ini.pos \in Nat
    BY Fields
  <2>1. ini.pos + 1 \in Nat
    BY ONLY <2>0
  <2> QED BY <1>2, <1>6, <2>1, StartPartFields, SilenceFacts, HistorySteps
<1>7. CASE /\ ini' = [fresh EXCEPT !.state = "IDLE"] /\ call' = "idle"
           /\ answered' = IF Whole(fresh.got, tgt.reply, tgt.parts) THEN tgt.reply ELSE 0
           /\ air' = Silence /\ Progress
  <2>1. tgt.reply \in Nat
    BY Fields
  <2> QED BY <1>2, <1>7, <2>1, StateFields, SilenceFacts, HistorySteps DEF CallState
<1> QED BY <1>3, <1>4, <1>5, <1>6, <1>7

LEMMA InitiatorTypes ==
  ASSUME TypeOK, Initiator PROVE TypeOK'
<1> USE TypeFacts
<1>1. ASSUME InitiatorReceive PROVE TypeOK'
  <2>1. /\ tgt' = tgt /\ asked' = asked /\ executed' = executed /\ air.pdu \in Pdu
    BY <1>1, Fields DEF InitiatorReceive
  <2>2. CASE air.pdu.type = "I"
    <3>1. ReceiveI
      BY <1>1, <2>2 DEF InitiatorReceive
    <3> QED BY <2>1, <2>2, <3>1, ReceiveITypes, TypeKept
  <2>3. CASE air.pdu.type # "I"
    <3>1. /\ answered' = answered
          /\ \/ ReceiveError
             \/ Acknowledged
             \/ Extended
             \/ air.pdu.type = "ACK" /\ AcknowledgedOther(air.pdu.pni)
                /\ errors' = errors /\ extensions' = extensions
             \/ Attended /\ errors' = errors /\ extensions' = extensions
             \/ Fails(ini) /\ errors' = errors /\ extensions' = extensions
      BY <1>1, <2>3 DEF InitiatorReceive
    <3>2. CASE ReceiveError
      BY <2>1, <3>1, <3>2, ReceiveTypes, HistorySteps, TypeKept DEF ReceiveError, Recovered
    <3>3. CASE Acknowledged
      BY <2>1, <3>1, <3>3, ReceiveTypes, TypeKept
    <3>4. CASE Extended
      BY <2>1, <3>1, <3>4, ReceiveTypes, HistorySteps, TypeKept DEF Extended
    <3>5. CASE air.pdu.type = "ACK" /\ AcknowledgedOther(air.pdu.pni)
                /\ errors' = errors /\ extensions' = extensions
      <4>1. air.pdu.pni \in 0..3
        BY <2>1, <3>5, ReceivedPdu
      <4> QED BY <2>1, <3>1, <3>5, <4>1, ReceiveTypes, TypeKept
    <3>6. CASE Attended /\ errors' = errors /\ extensions' = extensions
      BY <2>1, <3>1, <3>6, ReceiveTypes, TypeKept
    <3>7. CASE Fails(ini) /\ errors' = errors /\ extensions' = extensions
      BY <2>1, <3>1, <3>7, FailsType, TypeKept
    <3> QED BY <3>1, <3>2, <3>3, <3>4, <3>5, <3>6, <3>7
  <2> QED BY <2>2, <2>3
<1>2. CASE Timeout
  BY <1>2, TimeoutTypes
<1>3. CASE \E psl \in BOOLEAN : AtrAnswered(psl)
  BY <1>3, ActivationTypes
<1>4. CASE PslAnswered \/ AtrRetry \/ ActivationFails \/ Released \/ IniTx
  BY <1>4, ActivationTypes
<1> QED BY <1>1, <1>2, <1>3, <1>4 DEF Initiator

\* A PDU of the target leaves the types.
LEMMA RepliesType ==
  ASSUME NEW p \in TgtState, NEW b \in Pdu, Replies(p, b)
  PROVE  tgt' \in TgtState /\ air' \in AirState
BY SendsType, SentType DEF Replies

LEMMA ReportsType ==
  ASSUME NEW p \in TgtState, Reports(p)
  PROVE  tgt' \in TgtState /\ air' \in AirState
BY TgtStateFields, SilenceFacts DEF Reports

LEMMA AnswerTypes ==
  ASSUME TypeOK, setup \in Setups
  PROVE  /\ \A parts \in 1..setup.parts : Answer(parts) => TypeOK'
         /\ AnswerGoesOn => TypeOK'
         /\ TargetTx => TypeOK'
         /\ TargetRTOX => TypeOK'
<1> USE TypeFacts, TypeKept
<1>1. ASSUME NEW parts \in 1..setup.parts, Answer(parts) PROVE TypeOK'
  <2> DEFINE p == [tgt EXCEPT !.reply = tgt.todo, !.parts = parts, !.got = <<>>]
  <2>1. p \in TgtState
    BY PartsType, AnswerFields
  <2>2. tgt' = StartAnswer(p, 0)
    BY <1>1 DEF Answer
  <2> HIDE DEF p
  <2>3. tgt' \in TgtState
    BY <2>1, <2>2, StartAnswerFields
  <2> QED BY <1>1, <2>3 DEF Answer, history
<1>2. ASSUME AnswerGoesOn PROVE TypeOK'
  <2>0. tgt.pos \in Nat
    BY Fields
  <2>1. tgt.pos + 1 \in Nat
    BY ONLY <2>0
  <2>2. tgt' \in TgtState
    BY <1>2, <2>1, StartAnswerFields DEF AnswerGoesOn
  <2> QED BY <1>2, <2>2 DEF AnswerGoesOn, history
<1>3. ASSUME TargetTx PROVE TypeOK'
  <2> DEFINE p == [tgt EXCEPT !.state = "RX", !.pending = FALSE, !.wait = FALSE, !.pni = PNIInc(@)]
             b == I(tgt.pni, tgt.mi, tgt.reply, tgt.pos + 1)
  <2>1. p \in TgtState
    BY TxFields
  <2>2. b \in Pdu
    <3>0. tgt.pos \in Nat
      BY Fields
    <3>1. tgt.pni \in 0..3 /\ tgt.mi \in BOOLEAN /\ tgt.reply \in Nat
      BY Fields
    <3>2. tgt.pos + 1 \in Nat
      BY ONLY <3>0
    <3> QED BY ONLY <3>1, <3>2, PduTypes
  <2>3. Replies(p, b)
    BY <1>3 DEF TargetTx
  <2> HIDE DEF p, b
  <2>4. tgt' \in TgtState /\ air' \in AirState
    BY <2>1, <2>2, <2>3, RepliesType
  <2> QED BY <1>3, <2>4 DEF TargetTx, history
<1>4. ASSUME TargetRTOX PROVE TypeOK'
  <2> DEFINE p == [tgt EXCEPT !.cntRTOX = @ + 1]
             q == [tgt EXCEPT !.cntRTOX = @ + 1, !.wait = TRUE, !.state = "RX"]
  <2>1. p \in TgtState /\ q \in TgtState
    BY RtoxFields
  <2>2. Reports(p) \/ Replies(q, Frame("TO"))
    BY <1>4 DEF TargetRTOX
  <2>3. Frame("TO") \in Pdu
    BY PduTypes DEF FrameTypes
  <2> HIDE DEF p, q
  <2>4. tgt' \in TgtState /\ air' \in AirState
    BY <2>1, <2>2, <2>3, RepliesType, ReportsType
  <2> QED BY <1>4, <2>4 DEF TargetRTOX, history
<1> QED BY ONLY <1>1, <1>2, <1>3, <1>4

LEMMA TargetRepeatsType ==
  ASSUME TypeOK, TargetRepeats
  PROVE  tgt' \in TgtState /\ air' \in AirState
BY TypeFacts, RepeatsFields, SilenceFacts DEF TargetRepeats

LEMMA IgnoreType ==
  ASSUME TypeOK, Ignore
  PROVE  tgt' \in TgtState /\ air' \in AirState
BY TypeFacts, SilenceFacts DEF Ignore

\* What the target makes of a PDU that is not a part of a command.
LEMMA TargetControlType ==
  ASSUME TypeOK, TargetControl(air.pdu)
  PROVE  tgt' \in TgtState /\ air' \in AirState
<1> USE TypeFacts
<1>1. tgt \in TgtState /\ air.pdu \in Pdu /\ Frame("ATN") \in Pdu
  BY Fields, PduTypes DEF FrameTypes
<1>2. CASE air.pdu.type = "ACK"
  <2>1. TargetACK(air.pdu.pni)
    BY <1>2 DEF TargetControl
  <2>2. \/ air' = Silence /\ tgt' = [tgt EXCEPT !.state = "RTOX", !.owes = "part"]
        \/ Ignore \/ TargetRepeats \/ Reports(tgt)
    BY <2>1 DEF TargetACK
  <2> QED BY <2>2, AckedFields, SilenceFacts, IgnoreType, TargetRepeatsType, ReportsType
<1>3. CASE air.pdu.type = "NACK"
  <2>1. TargetRepeats \/ Ignore
    BY <1>3 DEF TargetControl, TargetNACK
  <2> QED BY <2>1, IgnoreType, TargetRepeatsType
<1>4. CASE air.pdu.type = "ATN"
  BY <1>1, <1>4, RepliesType DEF TargetControl
<1>5. CASE air.pdu.type = "TO"
  <2>1. \/ Reports(tgt)
        \/ /\ air' = Silence
           /\ tgt' = [tgt EXCEPT !.wait = FALSE, !.state = IF tgt.pending THEN "TX" ELSE "RTOX"]
    BY <1>5 DEF TargetControl, TargetTO
  <2> QED BY <2>1, ConfirmedFields, SilenceFacts, ReportsType
<1>6. CASE air.pdu.type = "DSL" \/ air.pdu.type = "RLS"
  <2>1. \/ Replies([tgt EXCEPT !.state = "SLEEP"], air.pdu)
        \/ Replies([tgt EXCEPT !.state = "IDLE"], air.pdu)
    BY <1>6 DEF TargetControl
  <2> QED BY <1>1, <2>1, TgtStateFields, RepliesType
<1>7. CASE air.pdu.type \notin {"ACK", "NACK", "ATN", "TO", "DSL", "RLS"}
  <2>1. Ignore
    BY <1>7 DEF TargetControl
  <2> QED BY <2>1, IgnoreType
<1> QED BY <1>2, <1>3, <1>4, <1>5, <1>6, <1>7

LEMMA TargetIType ==
  ASSUME TypeOK, air.pdu.type = "I", TargetI(air.pdu)
  PROVE  tgt' \in TgtState /\ air' \in AirState /\ executed' \in Seq(Nat)
<1> USE TypeFacts
<1> DEFINE b == air.pdu
           p == GotPart(b.inf)
           q == [p EXCEPT !.pni = PNIInc(@)]
           r == [p EXCEPT !.state = "RTOX", !.owes = "answer", !.todo = b.inf[1]]
           n == IF Whole(Append(tgt.got, b.inf), asked, ini.parts) THEN asked ELSE 0
<1>1. b.inf \in Part /\ b.pni \in 0..3 /\ tgt.pni \in 0..3
  BY Fields, ReceivedPdu
<1>2. q \in TgtState /\ r \in TgtState
  BY <1>1, GotPartFields
<1>3. ACK(b.pni) \in Pdu /\ ACK(tgt.pni) \in Pdu
  BY <1>1, PduTypes
<1>4. \/ /\ Replies(tgt, ACK(b.pni)) \/ TargetRepeats \/ Ignore
         /\ executed' = executed
      \/ Replies(q, ACK(tgt.pni)) /\ executed' = executed
      \/ air' = Silence /\ tgt' = r /\ executed' = Append(executed, n)
  BY DEF TargetI, GotPart
<1>5. n \in Nat
  OBVIOUS
<1> HIDE DEF q, r, n
<1>6. Append(executed, n) \in Seq(Nat)
  BY <1>5
<1> QED BY <1>2, <1>3, <1>4, <1>6, RepliesType, TargetRepeatsType, IgnoreType, SilenceFacts

LEMMA TargetReceiveTypes ==
  ASSUME TypeOK, TargetReceive PROVE TypeOK'
<1> USE TypeFacts
<1>1. /\ ini' = ini /\ call' = call /\ asked' = asked /\ answered' = answered
      /\ errors' = errors /\ extensions' = extensions
      /\ \/ air.pdu.type = "I" /\ TargetI(air.pdu)
         \/ /\ executed' = executed
            /\ TargetATR \/ TargetActivation \/ TargetControl(air.pdu)
  BY DEF TargetReceive, Hears
<1>2. CASE air.pdu.type = "I" /\ TargetI(air.pdu)
  BY <1>1, <1>2, TargetIType, TypeKept
<1>3. CASE executed' = executed /\ TargetATR
  <2>1. Frame("ATR") \in Pdu
    BY PduTypes DEF FrameTypes
  <2>2. tgt' \in TgtState /\ air' \in AirState
    BY <1>3, <2>1, TgtStateFields, RepliesType, IgnoreType DEF TargetATR
  <2> QED BY <1>1, <1>3, <2>2, TypeKept
<1>4. CASE executed' = executed /\ TargetActivation
  <2>1. Frame("PSL") \in Pdu
    BY PduTypes DEF FrameTypes
  <2>2. \/ Ignore
        \/ Replies([tgt EXCEPT !.state = "RX", !.br = "high"], Frame("PSL"))
        \/ tgt' = [tgt EXCEPT !.state = "RX"] /\ air' = air
    BY <1>4 DEF TargetActivation
  <2> DEFINE q == [tgt EXCEPT !.state = "RX", !.br = "high"]
             r == [tgt EXCEPT !.state = "RX"]
  <2>4. q \in TgtState /\ r \in TgtState
    BY PslFields, TgtStateFields
  <2>5. Ignore \/ Replies(q, Frame("PSL")) \/ (tgt' = r /\ air' = air)
    BY <2>2
  <2> HIDE DEF q, r
  <2>3. tgt' \in TgtState /\ air' \in AirState
    BY <2>1, <2>4, <2>5, RepliesType, IgnoreType
  <2> QED BY <1>1, <1>4, <2>3, TypeKept
<1>5. CASE executed' = executed /\ TargetControl(air.pdu)
  BY <1>1, <1>5, TargetControlType, TypeKept
<1> QED BY <1>1, <1>2, <1>3, <1>4, <1>5

LEMMA TypeStep ==
  ASSUME TypeOK, setup \in Setups, [Next]_vars PROVE TypeOK' /\ setup' \in Setups
<1>1. setup' = setup
  BY DEF Next, App, Initiator, Target, rfalNfcDepStartTransceive, Release, rfalNfcDepATR, FieldOff,
         AtrAnswered, PslAnswered, AtrRetry, ActivationFails, Released, IniTx, Timeout,
         InitiatorReceive, Answer, AnswerGoesOn, TargetTx, TargetRTOX, TargetReceive, vars
<1>2. CASE App
  BY <1>1, <1>2, AppTypes
<1>3. CASE Initiator
  BY <1>1, <1>3, InitiatorTypes
<1>4. CASE Target
  <2>1. CASE \E parts \in 1..setup.parts : Answer(parts)
    BY <1>1, <2>1, AnswerTypes
  <2>2. CASE AnswerGoesOn \/ TargetTx \/ TargetRTOX
    BY <1>1, <2>2, AnswerTypes
  <2>3. CASE TargetReceive
    BY <1>1, <2>3, TargetReceiveTypes
  <2> QED BY <1>4, <2>1, <2>2, <2>3 DEF Target
<1>5. CASE UNCHANGED vars
  BY <1>1, <1>5, TypeFacts, TypeKept DEF vars, history
<1> QED BY <1>1, <1>2, <1>3, <1>4, <1>5 DEF Next

\* Types are kept; see TypeOK.
THEOREM TypeCorrect == Spec => []TypeOK
<1>1. Init => TypeOK /\ setup \in Setups
  BY TypeCorrectInit DEF Init
<1>2. TypeOK /\ setup \in Setups /\ [Next]_vars => (TypeOK /\ setup \in Setups)'
  BY TypeStep
<1> QED BY <1>1, <1>2, PTL DEF Spec

-----------------------------------------------------------------------------
(* The invariant: what holds at any time.                                  *)

LEMMA InvInit == Init => IInv
<1> SUFFICES ASSUME Init PROVE IInv
  OBVIOUS
<1>1. TypeOK /\ setup \in Setups /\ setup.parts \in Nat
  BY TypeCorrectInit, SetupAssumption DEF Init
<1>2. /\ tgt.state = "LISTEN" /\ tgt.pni = 0 /\ tgt.owes = "none" /\ ~tgt.pending /\ ~tgt.wait
      /\ tgt.got = <<>> /\ tgt.br = "low" /\ tgt.parts = 0 /\ ini.parts = 0
  BY FreshFields DEF Init, LastTypes
<1>3. Len(executed) = 0 /\ call = "off" /\ air.to = "none"
  BY SilenceFacts DEF Init
<1>4. Basics
  BY <1>1, <1>2, <1>3 DEF Basics, AnswerNotForgotten
<1>5. Opening
  BY <1>2, <1>3 DEF Opening, TgtFresh, TgtQuiet
<1> QED BY <1>3, <1>4, <1>5 DEF IInv, Phase

\* A step of the initiator leaves the target's part of the invariant.
LEMMA InitiatorBasics ==
  ASSUME Basics, TypeOK', setup' = setup, tgt' = tgt, executed' = executed,
         asked' = asked \/ asked' = asked + 1, ini'.parts <= setup.parts
  PROVE  Basics'
<1>1. asked \in Nat /\ executed \in Seq(Nat)
  BY TypeFacts DEF Basics
<1>2. \A i \in 1..Len(executed) : executed[i] \in Nat /\ executed[i] <= asked
  BY <1>1 DEF Basics
<1>3. \A i \in 1..Len(executed') : executed'[i] <= asked'
  BY ONLY <1>1, <1>2, executed' = executed, asked' = asked \/ asked' = asked + 1
<1> QED BY <1>3 DEF Basics, AnswerNotForgotten

\* No counter has counted more than the history when counting starts anew.
LEMMA LeastFacts ==
  \A m \in Nat, n \in Nat : /\ Least(m, n) \in Nat /\ Least(m, n) <= m /\ Least(m, n) <= n
                            /\ m >= n => Least(m, n) = n
                            /\ m <= n => Least(m, n) = m
  BY DEF Least

LEMMA CountsRestart ==
  ASSUME ini'.cntTO = 0, ini'.cntNACK = 0, ini'.cntATN = 0, ini'.cntTx = 0, ini'.cntRTOX = 0,
         Progress, ini'.state # "RX" \/ ini'.last # "ATN"
  PROVE  Counts'
<1>1. MaxRetries + 1 \in Nat /\ MaxRetries + 2 \in Nat
  BY RetriesAssumption
<1>2. Least(0, MaxRetries + 1) = 0 /\ Least(0, MaxRetries + 2) = 0
  BY <1>1, LeastFacts
<1> QED BY <1>2 DEF Counts, Progress

-----------------------------------------------------------------------------
(* Activation and release.                                                 *)

LEMMA StartInv ==
  ASSUME IInv, TypeOK', NEW parts \in 1..setup.parts, rfalNfcDepStartTransceive(parts)
  PROVE  IInv'
<1>0. TypeOK /\ setup \in Setups
  BY DEF IInv, Basics
<1> USE TypeFacts
<1> DEFINE p == [ini EXCEPT !.parts = parts, !.got = <<>>]
<1>1. /\ ini' = StartPart(p, 0) /\ call' = "transceive" /\ asked' = asked + 1 /\ Progress
      /\ call = "idle" /\ tgt' = tgt /\ air' = air /\ setup' = setup /\ executed' = executed
  BY DEF rfalNfcDepStartTransceive
<1>2. p \in IniState /\ p.pni = ini.pni /\ p.br = ini.br /\ p.parts = parts /\ p.got = <<>>
  BY <1>0, PartsType, MessageFields
<1>3. parts \in Nat /\ parts <= setup.parts /\ 0 < parts
  BY <1>0, PartsType
<1> HIDE DEF p
<1>4. /\ ini'.state = "TX" /\ ini'.pos = 0 /\ ini'.mi = (0 + 1 < parts) /\ ini'.pni = ini.pni
      /\ ini'.br = ini.br /\ ini'.parts = parts /\ ini'.got = <<>>
      /\ ini'.cntTO = 0 /\ ini'.cntNACK = 0 /\ ini'.cntATN = 0 /\ ini'.cntTx = 0
      /\ ini'.cntRTOX = 0
  <2>1. ini' = StartPart(p, 0) /\ 0 \in Nat
    BY <1>1
  <2> QED BY ONLY <1>2, <2>1, StartPartFields
<1>5. AtRest /\ ini.br = tgt.br
  BY <1>1 DEF IInv, Phase
<1>6. NotExecuted'
  <2>1. \A i \in 1..Len(executed) : executed[i] \in Nat /\ executed[i] <= asked
    BY <1>0 DEF IInv, Basics
  <2>2. asked \in Nat
    BY <1>0
  <2>3. asked' # 0 /\ \A i \in 1..Len(executed') : executed'[i] < asked'
    BY ONLY <1>1, <2>1, <2>2
  <2> QED BY <2>3 DEF NotExecuted
<1>7. tgt'.got = Parts(asked', ini'.pos)
  BY <1>1, <1>4, <1>5 DEF AtRest, Parts
<1>8. Offered'
  BY <1>1, <1>3, <1>4, <1>5, <1>6, <1>7
     DEF Offered, AtRest, Equal, TgtListens, TgtQuiet, Carries
<1>9. LastSent'
  BY <1>1, <1>4, <1>5 DEF LastSent, AtRest
<1>10. Counts'
  BY <1>1, <1>4, CountsRestart
<1>11. Basics'
  BY <1>1, <1>3, <1>4, InitiatorBasics DEF IInv
<1> QED BY <1>1, <1>4, <1>5, <1>8, <1>9, <1>10, <1>11 DEF IInv, Phase, Exchange

LEMMA ReleaseSent ==
  ASSUME NEW b, b.type \in {"RLS", "DSL"}, air' \in Sent("tgt", b)
  PROVE  Closing'
<1>1. \/ air'.to = "tgt" /\ air'.pdu \in {b, Frame("damaged")}
      \/ air'.to = "none" /\ air'.pdu = Frame("damaged")
  BY ONLY air' \in Sent("tgt", b), SentFrame
<1>2. Frame("damaged").type = "damaged"
  BY PduFields
<1> QED BY <1>1, <1>2 DEF Closing

LEMMA ReleaseInv ==
  ASSUME IInv, TypeOK', NEW kind \in {"RLS", "DSL"}, Release(kind)
  PROVE  IInv'
<1>1. /\ call' = "release" /\ ini' = Sends(ini, Frame(kind)) /\ air' \in Sent("tgt", Frame(kind))
      /\ tgt' = tgt /\ setup' = setup /\ executed' = executed /\ asked' = asked
  BY DEF Release, history
<1>2. ini'.parts = ini.parts
  BY <1>1, TypeFacts, IniSendsFields DEF IInv, Basics
<1>3. Closing'
  <2>1. air' \in Sent("tgt", Frame(kind)) /\ Frame(kind).type \in {"RLS", "DSL"}
    BY <1>1, PduFields
  <2> QED BY ONLY <2>1, ReleaseSent
<1>4. Basics'
  BY <1>1, <1>2, InitiatorBasics DEF IInv, Basics
<1> QED BY <1>1, <1>3, <1>4 DEF IInv, Phase

LEMMA AtrInv ==
  ASSUME IInv, TypeOK', rfalNfcDepATR PROVE IInv'
<1> DEFINE p == [InitIni(ini.lastN) EXCEPT !.atr = 1]
<1>1. /\ call = "off" /\ call' = "atr" /\ ini' = Sends(p, Frame("ATR"))
      /\ air' \in Sent("tgt", Frame("ATR"))
      /\ tgt' = tgt /\ setup' = setup /\ executed' = executed /\ asked' = asked
  BY DEF rfalNfcDepATR, history
<1>2. p \in IniState /\ p.pni = 0 /\ p.br = "low" /\ p.parts = 0
  BY Fields, FreshFields DEF IInv, Basics
<1> HIDE DEF p
<1>3. ini'.pni = 0 /\ ini'.br = "low" /\ ini'.parts = 0
  BY <1>1, <1>2, IniSendsFields
<1>4. TgtFresh /\ tgt.state = "LISTEN" /\ tgt.br = "low"
  BY <1>1 DEF IInv, Phase, Opening
<1>5. (air'.to = "tgt" /\ air'.pdu \in {Frame("ATR"), Frame("damaged")}) \/ air'.to = "none"
  <2>1. air' \in Sent("tgt", Frame("ATR"))
    BY <1>1
  <2> QED BY ONLY <2>1, SentFrame
<1>6. Opening'
  BY <1>1, <1>3, <1>4, <1>5 DEF Opening, TgtFresh, TgtQuiet, Carries
<1>7. setup.parts \in Nat
  BY SetupAssumption DEF IInv, Basics
<1>8. Basics'
  BY <1>1, <1>3, <1>7, InitiatorBasics DEF IInv
<1> QED BY <1>1, <1>6, <1>8 DEF IInv, Phase

LEMMA FieldOffInv ==
  ASSUME IInv, TypeOK', FieldOff PROVE IInv'
<1>1. /\ call' = "off" /\ air' = Silence /\ tgt' = InitTgt(tgt.lastN)
      /\ ini' = ini /\ setup' = setup /\ executed' = executed /\ asked' = asked
  BY DEF FieldOff, history
<1>2. /\ tgt'.state = "LISTEN" /\ tgt'.pni = 0 /\ tgt'.owes = "none" /\ ~tgt'.pending
      /\ ~tgt'.wait /\ tgt'.got = <<>> /\ tgt'.br = "low" /\ tgt'.parts = 0
  <2>1. tgt.lastN \in LastTypes
    BY Fields DEF IInv, Basics
  <2> QED BY <1>1, <2>1, FreshFields
<1>3. Opening'
  BY <1>1, <1>2, SilenceFacts DEF Opening, TgtFresh, TgtQuiet
<1>4. setup.parts \in Nat
  BY SetupAssumption DEF IInv, Basics
<1>5. Basics'
  BY <1>1, <1>2, <1>4 DEF IInv, Basics, AnswerNotForgotten
<1> QED BY <1>1, <1>3, <1>5 DEF IInv, Phase

LEMMA AppInv ==
  ASSUME IInv, TypeOK', App PROVE IInv'
BY StartInv, ReleaseInv, AtrInv, FieldOffInv DEF App

LEMMA AtrAnsweredInv ==
  ASSUME IInv, TypeOK', NEW psl \in BOOLEAN, AtrAnswered(psl) PROVE IInv'
<1>1. /\ call = "atr" /\ air.to = "ini" /\ air.pdu.type = "ATR"
      /\ ini' = ini /\ tgt' = tgt /\ setup' = setup /\ executed' = executed /\ asked' = asked
      /\ \/ call' = "psl" /\ air' \in Sent("tgt", Frame("PSL"))
         \/ call' = "idle" /\ air' = Silence
  BY DEF AtrAnswered, history
<1>2. Opening
  BY <1>1 DEF IInv, Phase
<1>3. /\ TgtFresh /\ ini.pni = 0 /\ ini.br = "low" /\ tgt.br = "low" /\ tgt.state = "WAIT_ACTV"
  BY <1>1, <1>2 DEF Opening
<1>4. Basics'
  BY <1>1, InitiatorBasics DEF IInv, Basics
<1>5. CASE call' = "psl" /\ air' \in Sent("tgt", Frame("PSL"))
  <2>1. (air'.to = "tgt" /\ air'.pdu \in {Frame("PSL"), Frame("damaged")}) \/ air'.to = "none"
    <3>1. air' \in Sent("tgt", Frame("PSL"))
      BY <1>5
    <3> QED BY ONLY <3>1, SentFrame
  <2>2. Opening'
    BY <1>1, <1>3, <1>5, <2>1 DEF Opening, TgtFresh, TgtQuiet, Carries
  <2> QED BY <1>4, <1>5, <2>2 DEF IInv, Phase
<1>6. CASE call' = "idle" /\ air' = Silence
  <2>1. AtRest'
    BY <1>1, <1>3, <1>6, SilenceFacts DEF AtRest, TgtFresh, TgtQuiet, Equal, TgtListens
  <2> QED BY <1>1, <1>3, <1>4, <1>6, <2>1 DEF IInv, Phase
<1> QED BY <1>1, <1>5, <1>6

LEMMA PslAnsweredInv ==
  ASSUME IInv, TypeOK', PslAnswered PROVE IInv'
<1>1. /\ call = "psl" /\ air.to = "ini" /\ call' = "idle" /\ air' = Silence
      /\ ini' = [ini EXCEPT !.br = "high"]
      /\ tgt' = tgt /\ setup' = setup /\ executed' = executed /\ asked' = asked
  BY DEF PslAnswered, history
<1>2. ini'.br = "high" /\ ini'.pni = ini.pni /\ ini'.parts = ini.parts
  BY <1>1, TypeFacts, HighFields DEF IInv, Basics
<1>3. TgtFresh /\ ini.pni = 0 /\ tgt.state = "RX" /\ tgt.br = "high"
  BY <1>1 DEF IInv, Phase, Opening
<1>4. AtRest'
  BY <1>1, <1>2, <1>3, SilenceFacts DEF AtRest, TgtFresh, TgtQuiet, Equal, TgtListens
<1>5. Basics'
  BY <1>1, <1>2, InitiatorBasics DEF IInv, Basics
<1> QED BY <1>1, <1>2, <1>3, <1>4, <1>5 DEF IInv, Phase

LEMMA AtrRetryInv ==
  ASSUME IInv, TypeOK', AtrRetry PROVE IInv'
<1>1. /\ call = "atr" /\ call' = call /\ ini' = [ini EXCEPT !.atr = @ + 1]
      /\ air' \in Sent("tgt", Frame("ATR"))
      /\ tgt' = tgt /\ setup' = setup /\ executed' = executed /\ asked' = asked
  BY DEF AtrRetry, history
<1>2. ini'.br = ini.br /\ ini'.pni = ini.pni /\ ini'.parts = ini.parts
  BY <1>1, TypeFacts, HighFields DEF IInv, Basics
<1>3. Opening
  BY <1>1 DEF IInv, Phase
<1>4. (air'.to = "tgt" /\ air'.pdu \in {Frame("ATR"), Frame("damaged")}) \/ air'.to = "none"
  <2>1. air' \in Sent("tgt", Frame("ATR"))
    BY <1>1
  <2> QED BY ONLY <2>1, SentFrame
<1>5. Opening'
  BY <1>1, <1>2, <1>3, <1>4 DEF Opening, TgtFresh, TgtQuiet, Carries
<1>6. Basics'
  BY <1>1, <1>2, InitiatorBasics DEF IInv, Basics
<1> QED BY <1>1, <1>5, <1>6 DEF IInv, Phase

LEMMA EndsInv ==
  ASSUME IInv, TypeOK', ActivationFails \/ Released PROVE IInv'
<1>1. /\ call' = "ended" /\ air' = Silence
      /\ ini' = ini /\ tgt' = tgt /\ setup' = setup /\ executed' = executed /\ asked' = asked
  BY DEF ActivationFails, Released, history
<1>2. Closing'
  BY <1>1, SilenceFacts DEF Closing
<1>3. Basics'
  BY <1>1, InitiatorBasics DEF IInv, Basics
<1> QED BY <1>1, <1>2, <1>3 DEF IInv, Phase

-----------------------------------------------------------------------------
(* What the initiator sends, stage by stage.                               *)

\* A step of the initiator that goes on with the exchange.
GoesOn ==
  /\ ini' \in IniState /\ SameIni(ini, ini') /\ call' = call
  /\ tgt' = tgt /\ setup' = setup /\ asked' = asked /\ executed' = executed
SentTo(b) ==
  /\ ini'.last = b.type /\ ini'.lastN = IF b.type = "ATN" THEN ini.lastN ELSE b.type
  /\ \/ air'.to = "tgt" /\ air'.pdu \in {b, Frame("damaged")}
     \/ air'.to = "none"

\* A NACK, for a damaged answer or because no answer to the NACK came.
LEMMA NackSent ==
  ASSUME TypeOK, Exchange, ~Taken, ini.state = "RX", GoesOn, SentTo(NACK(ini.pni)),
         air.to # "tgt" \/ ~Hears,
         tgt.state \in {"RTOX", "TX"} /\ air.to # "ini" => ~setup.extends
  PROVE  Exchange'
<1>1. NACK(ini.pni).type = "NACK"
  BY PduFields
<1>2. /\ ini'.last = "NACK" /\ ini'.lastN = "NACK"
      /\ (air'.to = "tgt" /\ air'.pdu \in {NACK(ini.pni), Frame("damaged")}) \/ air'.to = "none"
  BY <1>1 DEF SentTo
<1>3. /\ ini'.state = "RX" /\ ini'.pni = ini.pni /\ ini'.mi = ini.mi
      /\ ini'.parts = ini.parts /\ ini'.pos = ini.pos /\ ini'.got = ini.got
      /\ tgt' = tgt /\ setup' = setup /\ asked' = asked /\ executed' = executed
  BY DEF GoesOn, SameIni
<1>4. CASE Offered
  <2>1. Offered'
    BY <1>2, <1>3, <1>4 DEF Offered, Equal, TgtListens, TgtQuiet, NotExecuted, Carries
  <2> QED BY <2>1 DEF Exchange
<1>5. ASSUME Waits PROVE Waits'
  BY <1>2, <1>3, <1>5 DEF Waits, Equal, Executed, Carries
<1>6. CASE Working
  <2>1. Working'
    BY <1>3, <1>5, <1>6 DEF Working
  <2> QED BY <2>1 DEF Exchange
<1>7. CASE Sending
  <2>1. Sending'
    BY <1>3, <1>5, <1>7 DEF Sending, Answering, Executed
  <2> QED BY <2>1 DEF Exchange
<1>8. CASE GoingOn
  <2>1. GoingOn'
    BY <1>3, <1>5, <1>8 DEF GoingOn, Answering, Executed
  <2> QED BY <2>1 DEF Exchange
<1>9. CASE Delivering
  <2>1. Delivering'
    BY <1>2, <1>3, <1>9 DEF Delivering, Answering, Executed, Ahead, TgtQuiet, Carries
  <2> QED BY <2>1 DEF Exchange
<1>10. ~PartRead
  BY DEF PartRead, Hears
<1>11. CASE Gone
  <2>1. Gone'
    BY <1>2, <1>3, <1>11 DEF Gone, Executed
  <2> QED BY <2>1 DEF Exchange
<1> QED BY <1>4, <1>6, <1>7, <1>8, <1>9, <1>10, <1>11 DEF Exchange

\* An ATN, because no answer came.
LEMMA AtnSent ==
  ASSUME TypeOK, Exchange, LastSent, ini.state = "RX", ini.last # "NACK", Expires, GoesOn,
         SentTo(Frame("ATN"))
  PROVE  Exchange'
<1>1. Frame("ATN").type = "ATN"
  BY PduFields
<1>2. /\ ini'.last = "ATN" /\ ini'.lastN = ini.lastN
      /\ (air'.to = "tgt" /\ air'.pdu \in {Frame("ATN"), Frame("damaged")}) \/ air'.to = "none"
  BY <1>1 DEF SentTo
<1>3. /\ ini'.state = "RX" /\ ini'.pni = ini.pni /\ ini'.mi = ini.mi
      /\ ini'.parts = ini.parts /\ ini'.pos = ini.pos /\ ini'.got = ini.got
      /\ tgt' = tgt /\ setup' = setup /\ asked' = asked /\ executed' = executed
  BY DEF GoesOn, SameIni
<1>0. /\ air.to # "ini" /\ ~(air.to = "tgt" /\ Hears)
      /\ tgt.state \in {"RTOX", "TX"} => ~setup.extends
  BY DEF Expires
<1>4. CASE Offered
  <2>1. Offered'
    BY <1>2, <1>3, <1>4 DEF Offered, Equal, TgtListens, TgtQuiet, NotExecuted, Carries
  <2> QED BY <2>1 DEF Exchange
<1>5. ASSUME Waits PROVE Waits'
  BY <1>0, <1>2, <1>3, <1>5 DEF Waits, Equal, Executed, Carries
<1>6. CASE Working
  <2>1. Working'
    BY <1>3, <1>5, <1>6 DEF Working
  <2> QED BY <2>1 DEF Exchange
<1>7. CASE Sending
  <2>1. Sending'
    BY <1>3, <1>5, <1>7 DEF Sending, Answering, Executed
  <2> QED BY <2>1 DEF Exchange
<1>8. CASE GoingOn
  <2>1. GoingOn'
    BY <1>3, <1>5, <1>8 DEF GoingOn, Answering, Executed
  <2> QED BY <2>1 DEF Exchange
<1>9. CASE Delivering
  <2>1. Delivering'
    BY <1>2, <1>3, <1>9 DEF Delivering, Answering, Executed, Ahead, TgtQuiet, Carries
  <2> QED BY <2>1 DEF Exchange
<1>10. ~PartRead
  BY <1>0 DEF PartRead, Hears
<1>11. CASE Gone
  <2>1. Gone'
    BY <1>2, <1>3, <1>11 DEF Gone, Executed
  <2> QED BY <2>1 DEF Exchange
<1>12. CASE Taken
  <2>1. ini'.lastN = "I" /\ ini'.last = "ATN"
    BY <1>2, <1>12 DEF Taken
  <2>2. Frame("damaged").type = "damaged"
    BY PduFields
  <2>3. Taken'
    BY <1>1, <1>2, <1>3, <1>12, <2>1, <2>2 DEF Taken, Ahead, TgtQuiet, NotExecuted, Carries
  <2> QED BY <2>3 DEF Exchange
<1> QED BY <1>4, <1>6, <1>7, <1>8, <1>9, <1>10, <1>11, <1>12 DEF Exchange

\* A confirmation of an extension, of a target that asked for one.
LEMMA ToSent ==
  ASSUME TypeOK, Exchange, ini.state = "RX", air.to = "ini", GoesOn, SentTo(Frame("TO")),
         ~Offered, ~Taken
  PROVE  Exchange'
<1>1. Frame("TO").type = "TO"
  BY PduFields
<1>2. /\ ini'.last = "TO" /\ ini'.lastN = "TO"
      /\ (air'.to = "tgt" /\ air'.pdu \in {Frame("TO"), Frame("damaged")}) \/ air'.to = "none"
  BY <1>1 DEF SentTo
<1>3. /\ ini'.state = "RX" /\ ini'.pni = ini.pni /\ ini'.mi = ini.mi
      /\ ini'.parts = ini.parts /\ ini'.pos = ini.pos /\ ini'.got = ini.got
      /\ tgt' = tgt /\ setup' = setup /\ asked' = asked /\ executed' = executed
  BY DEF GoesOn, SameIni
<1>5. ASSUME Waits PROVE Waits'
  BY <1>2, <1>3, <1>5 DEF Waits, Equal, Executed, Carries
<1>6. CASE Working
  <2>1. Working'
    BY <1>3, <1>5, <1>6 DEF Working
  <2> QED BY <2>1 DEF Exchange
<1>7. CASE Sending
  <2>1. Sending'
    BY <1>3, <1>5, <1>7 DEF Sending, Answering, Executed
  <2> QED BY <2>1 DEF Exchange
<1>8. CASE GoingOn
  <2>1. GoingOn'
    BY <1>3, <1>5, <1>8 DEF GoingOn, Answering, Executed
  <2> QED BY <2>1 DEF Exchange
<1>9. CASE Delivering
  <2>1. Delivering'
    BY <1>2, <1>3, <1>9 DEF Delivering, Answering, Executed, Ahead, TgtQuiet, Carries
  <2> QED BY <2>1 DEF Exchange
<1>10. ~PartRead /\ ~Gone
  BY DEF PartRead, Gone
<1> QED BY <1>6, <1>7, <1>8, <1>9, <1>10 DEF Exchange

\* What a counter has counted stays covered by the history.
LEMMA CountedOnce ==
  ASSUME errors \in Nat, extensions \in Nat, NEW m \in Nat
  PROVE  /\ Error /\ Least(m, MaxRetries + 1) <= errors =>
              /\ Least(m + 1, MaxRetries + 1) <= errors'
              /\ Least(m, MaxRetries + 1) <= errors'
         /\ Extension /\ Least(m, MaxRetries + 2) <= extensions =>
              /\ Least(m + 1, MaxRetries + 2) <= extensions'
              /\ Least(m, MaxRetries + 2) <= extensions'
  BY RetriesAssumption DEF Error, Extension, Least

\* A PDU of the initiator goes on with the exchange.
LEMMA ControlGoesOn ==
  ASSUME ini \in IniState, NEW p \in IniState, NEW b, b.type \in DepTypes,
         SameIni(ini, p), SameLast(ini, p), Control(p, b),
         tgt' = tgt, setup' = setup, asked' = asked, executed' = executed
  PROVE  /\ GoesOn /\ SentTo(b) /\ LastSent'
         /\ ini'.cntTO = p.cntTO /\ ini'.cntNACK = p.cntNACK /\ ini'.cntATN = p.cntATN
         /\ ini'.cntTx = p.cntTx /\ ini'.cntRTOX = p.cntRTOX
         /\ ini'.state = ini.state /\ ini'.last = b.type
<1>1. ini' = Sends(p, b) /\ air' \in Sent("tgt", b) /\ call' = call
  BY DEF Control
<1>2. /\ ini' \in IniState /\ ini'.last = Last(b) /\ ini'.lastN = LastN(p, b)
      /\ ini'.state = p.state /\ ini'.pni = p.pni /\ ini'.mi = p.mi /\ ini'.br = p.br
      /\ ini'.parts = p.parts /\ ini'.pos = p.pos /\ ini'.got = p.got
      /\ ini'.cntTO = p.cntTO /\ ini'.cntNACK = p.cntNACK /\ ini'.cntATN = p.cntATN
      /\ ini'.cntTx = p.cntTx /\ ini'.cntRTOX = p.cntRTOX
  BY <1>1, SendsType, IniSendsFields
<1>3. ini'.last = b.type /\ ini'.lastN = IF b.type = "ATN" THEN ini.lastN ELSE b.type
  BY <1>2 DEF Last, LastN, SameLast
<1>4. \/ air'.to = "tgt" /\ air'.pdu \in {b, Frame("damaged")}
      \/ air'.to = "none" /\ air'.pdu = Frame("damaged")
  <2>1. air' \in Sent("tgt", b)
    BY <1>1
  <2> QED BY ONLY <2>1, SentFrame
<1>5. SameIni(ini, ini')
  BY ONLY <1>2, SameIni(ini, p) DEF SameIni
<1>6. GoesOn
  BY <1>1, <1>2, <1>5 DEF GoesOn
<1>7. SentTo(b)
  BY <1>3, <1>4 DEF SentTo
<1>8. LastSent'
  <2>1. Frame("damaged").type \notin DepTypes
    BY PduFields DEF DepTypes
  <2>2. air'.to = "tgt" /\ air'.pdu.type \in DepTypes => air'.pdu = b
    BY ONLY <1>4, <2>1
  <2>3. air'.to # "ini"
    BY ONLY <1>4
  <2> QED BY ONLY <1>3, <2>2, <2>3 DEF LastSent
<1>9. ini'.state = ini.state
  BY <1>5 DEF SameIni
<1> QED BY <1>2, <1>3, <1>6, <1>7, <1>8, <1>9

\* A call that fails.
LEMMA FailsInv ==
  ASSUME IInv, TypeOK', NEW p, p.parts = ini.parts, Fails(p),
         tgt' = tgt, setup' = setup, asked' = asked, executed' = executed
  PROVE  IInv'
<1>1. call' = "failed" /\ air' = Silence /\ ini' = p
  BY DEF Fails
<1>2. Closing'
  BY <1>1, SilenceFacts DEF Closing
<1>3. Basics'
  BY <1>1, InitiatorBasics DEF IInv, Basics
<1> QED BY <1>1, <1>2, <1>3 DEF IInv, Phase

\* An exchange that goes on.
LEMMA GoesOnInv ==
  ASSUME IInv, TypeOK', call = "transceive", GoesOn, Exchange', LastSent', Counts'
  PROVE  IInv'
<1>1. /\ call' = "transceive" /\ ini'.br = ini.br /\ ini'.parts = ini.parts /\ tgt' = tgt
      /\ setup' = setup /\ asked' = asked /\ executed' = executed
  BY DEF GoesOn, SameIni
<1>2. ini.br = tgt.br
  BY DEF IInv, Phase
<1>3. Basics'
  BY <1>1, InitiatorBasics DEF IInv, Basics
<1> QED BY <1>1, <1>2, <1>3 DEF IInv, Phase

LEMMA TimeoutInv ==
  ASSUME IInv, TypeOK', Timeout PROVE IInv'
<1>0. TypeOK /\ call = "transceive" /\ ini.state = "RX" /\ Expires
  BY DEF IInv, Basics, Timeout, Waiting
<1>1. Exchange /\ LastSent /\ Counts
  BY <1>0 DEF IInv, Phase
<1> DEFINE p == [ini EXCEPT !.cntTO = @ + 1]
           n == [p EXCEPT !.cntNACK = @ + 1]
           a == [p EXCEPT !.cntATN = @ + 1]
<1>2. /\ p \in IniState /\ SameIni(ini, p) /\ SameLast(ini, p) /\ p.cntTO = ini.cntTO + 1
      /\ p.cntNACK = ini.cntNACK /\ p.cntATN = ini.cntATN /\ p.cntTx = ini.cntTx
      /\ p.cntRTOX = ini.cntRTOX
  BY <1>0, TypeFacts, CountFields
<1>3. /\ Error /\ extensions' = extensions
      /\ tgt' = tgt /\ setup' = setup /\ asked' = asked /\ executed' = executed
      /\ \/ Fails(p) \/ Fails(n) \/ Fails(a)
         \/ ini.last = "NACK" /\ Control(n, NACK(ini.pni))
         \/ ini.last # "NACK" /\ Control(a, Frame("ATN"))
  BY DEF Timeout, Recovered
<1> HIDE DEF p
<1>4. /\ n \in IniState /\ SameIni(p, n) /\ SameLast(p, n) /\ n.cntNACK = p.cntNACK + 1
      /\ n.cntTO = p.cntTO /\ n.cntATN = p.cntATN /\ n.cntTx = p.cntTx
      /\ n.cntRTOX = p.cntRTOX
      /\ a \in IniState /\ SameIni(p, a) /\ SameLast(p, a) /\ a.cntATN = p.cntATN + 1
      /\ a.cntTO = p.cntTO /\ a.cntNACK = p.cntNACK /\ a.cntTx = p.cntTx
      /\ a.cntRTOX = p.cntRTOX
  BY <1>2, CountFields
<1> HIDE DEF n, a
<1>5. SameIni(ini, n) /\ SameLast(ini, n) /\ SameIni(ini, a) /\ SameLast(ini, a)
  BY ONLY <1>2, <1>4 DEF SameIni, SameLast
<1>6. p.parts = ini.parts /\ n.parts = ini.parts /\ a.parts = ini.parts
  BY ONLY <1>2, <1>5 DEF SameIni
<1>7. ini \in IniState /\ errors \in Nat /\ extensions \in Nat
  BY <1>0, TypeFacts
<1>8. /\ ini.cntTO \in Nat /\ ini.cntNACK \in Nat /\ ini.cntATN \in Nat /\ ini.cntTx \in Nat
  BY <1>0, Fields
<1>9. /\ Least(ini.cntTO + 1, MaxRetries + 1) <= errors'
      /\ Least(ini.cntNACK, MaxRetries + 1) <= errors'
      /\ Least(ini.cntNACK + 1, MaxRetries + 1) <= errors'
      /\ Least(ini.cntATN, MaxRetries + 1) <= errors'
      /\ Least(ini.cntATN + 1, MaxRetries + 1) <= errors'
      /\ Least(ini.cntTx, MaxRetries + 1) <= errors'
      /\ Least(ini.cntTx + 1, MaxRetries + 1) <= errors'
      /\ Least(ini.cntRTOX, MaxRetries + 2) <= extensions'
  BY <1>1, <1>3, <1>7, <1>8, CountedOnce DEF Counts
<1>10. CASE Fails(p) \/ Fails(n) \/ Fails(a)
  BY <1>3, <1>6, <1>10, FailsInv
<1>11. CASE ini.last = "NACK" /\ Control(n, NACK(ini.pni))
  <2>1. NACK(ini.pni).type = "NACK" /\ "NACK" \in DepTypes
    BY PduFields DEF DepTypes
  <2>2. /\ GoesOn /\ SentTo(NACK(ini.pni)) /\ LastSent'
        /\ ini'.cntTO = n.cntTO /\ ini'.cntNACK = n.cntNACK /\ ini'.cntATN = n.cntATN
        /\ ini'.cntTx = n.cntTx /\ ini'.cntRTOX = n.cntRTOX /\ ini'.last = "NACK"
    BY <1>3, <1>4, <1>5, <1>7, <1>11, <2>1, ControlGoesOn
  <2>3. ~Taken
    BY <1>11 DEF Taken
  <2>4. Exchange'
    BY <1>0, <1>1, <2>2, <2>3, NackSent DEF Expires
  <2>5. Counts'
    BY <1>2, <1>4, <1>9, <2>2 DEF Counts
  <2> QED BY <1>0, <2>2, <2>4, <2>5, GoesOnInv
<1>12. CASE ini.last # "NACK" /\ Control(a, Frame("ATN"))
  <2>1. Frame("ATN").type = "ATN" /\ "ATN" \in DepTypes
    BY PduFields DEF DepTypes
  <2>2. /\ GoesOn /\ SentTo(Frame("ATN")) /\ LastSent'
        /\ ini'.cntTO = a.cntTO /\ ini'.cntNACK = a.cntNACK /\ ini'.cntATN = a.cntATN
        /\ ini'.cntTx = a.cntTx /\ ini'.cntRTOX = a.cntRTOX
    BY <1>3, <1>4, <1>5, <1>7, <1>12, <2>1, ControlGoesOn
  <2>3. Exchange'
    BY <1>0, <1>1, <1>12, <2>2, AtnSent
  <2>4. Counts'
    BY <1>2, <1>4, <1>9, <2>2 DEF Counts
  <2> QED BY <1>0, <2>2, <2>3, <2>4, GoesOnInv
<1> QED BY <1>3, <1>10, <1>11, <1>12

LEMMA IniTxInv ==
  ASSUME IInv, TypeOK', IniTx PROVE IInv'
<1> DEFINE b == IniPart
           p == Sends(ini, b)
<1>0. TypeOK /\ ini \in IniState
  BY TypeFacts DEF IInv, Basics
<1>1. /\ call = "transceive" /\ ini.state = "TX" /\ ini' = [p EXCEPT !.state = "RX"]
      /\ air' \in Sent("tgt", b) /\ call' = call /\ tgt' = tgt /\ setup' = setup
      /\ asked' = asked /\ executed' = executed /\ errors' = errors /\ extensions' = extensions
  BY DEF IniTx, history, IniPart
<1>2. Exchange /\ LastSent /\ Counts /\ ini.br = tgt.br
  BY <1>1 DEF IInv, Phase
<1>3. b.type = "I" /\ Frame("damaged").type = "damaged"
  BY PduFields DEF IniPart
<1>4. /\ p \in IniState /\ SameIni(ini, p) /\ p.last = "I" /\ p.lastN = "I"
      /\ p.cntTO = ini.cntTO /\ p.cntNACK = ini.cntNACK /\ p.cntATN = ini.cntATN
      /\ p.cntTx = ini.cntTx /\ p.cntRTOX = ini.cntRTOX
  <2> HIDE DEF b
  <2>1. Last(b) = "I" /\ LastN(ini, b) = "I"
    BY <1>3 DEF Last, LastN, DepTypes
  <2> QED BY <1>0, <2>1, SendsType, IniSendsFields DEF SameIni
<1> HIDE DEF p
<1>5. /\ ini'.state = "RX" /\ ini'.pni = ini.pni /\ ini'.mi = ini.mi /\ ini'.br = ini.br
      /\ ini'.parts = ini.parts /\ ini'.pos = ini.pos /\ ini'.got = ini.got
      /\ ini'.last = "I" /\ ini'.lastN = "I"
      /\ ini'.cntTO = ini.cntTO /\ ini'.cntNACK = ini.cntNACK /\ ini'.cntATN = ini.cntATN
      /\ ini'.cntTx = ini.cntTx /\ ini'.cntRTOX = ini.cntRTOX
  BY <1>1, <1>4, StateFields DEF SameIni, SameLast
<1>6. b' = b
  BY <1>1, <1>5 DEF IniPart
<1> HIDE DEF b
<1>7. \/ air'.to = "tgt" /\ air'.pdu \in {b, Frame("damaged")}
      \/ air'.to = "none" /\ air'.pdu = Frame("damaged")
  <2>1. air' \in Sent("tgt", b)
    BY <1>1
  <2> QED BY ONLY <2>1, SentFrame
<1>8. Exchange'
  <2>1. CASE Offered
    <3>1. Offered'
      BY <1>1, <1>5, <1>6, <1>7, <2>1
         DEF Offered, Equal, TgtListens, TgtQuiet, NotExecuted, Carries, b
    <3> QED BY <3>1 DEF Exchange
  <2>2. CASE Taken
    <3>1. tgt.last = "ATN"
      BY <1>1, <2>2 DEF Taken
    <3>2. Taken'
      BY <1>1, <1>5, <1>6, <1>7, <2>2, <3>1 DEF Taken, Ahead, TgtQuiet, NotExecuted, Carries, b
    <3> QED BY <3>2 DEF Exchange
  <2>3. CASE Delivering
    <3>1. Delivering'
      BY <1>1, <1>5, <1>6, <1>7, <2>3
         DEF Delivering, Answering, Executed, Ahead, TgtQuiet, Carries, b
    <3> QED BY <3>1 DEF Exchange
  <2>4. ~Waits /\ ~PartRead /\ ~Gone
    BY <1>1 DEF Waits, PartRead, Gone
  <2> QED BY <1>2, <2>1, <2>2, <2>3, <2>4 DEF Exchange, Working, Sending, GoingOn
<1>9. LastSent'
  BY ONLY <1>3, <1>5, <1>7 DEF LastSent, DepTypes
<1>10. Counts'
  BY <1>1, <1>2, <1>5 DEF Counts
<1>11. Basics'
  BY <1>1, <1>5, InitiatorBasics DEF IInv, Basics
<1> QED BY <1>1, <1>2, <1>5, <1>8, <1>9, <1>10, <1>11 DEF IInv, Phase

\* The stages at which the initiator receives a PDU, and the PDU.
LEMMA IniReceives ==
  ASSUME IInv, call = "transceive", air.to = "ini"
  PROVE  LET b == air.pdu IN
         /\ b.type \in {"I", "ACK", "ATN", "TO", "damaged"}
         /\ b.type = "I" => Delivering /\ b = TgtPart
         /\ b.type = "ACK" => Taken /\ b = ACK(ini.pni)
         /\ b.type = "TO" => Waits /\ ini.last # "ATN"
         /\ b.type = "ATN" => /\ ini.last = "ATN"
                              /\ Offered \/ Taken \/ (Waits /\ ini.lastN = "TO") \/ Delivering
         /\ b.type = "damaged" => ~Taken
<1> USE PduFields
<1>1. Exchange /\ LastSent
  BY DEF IInv, Phase
<1>2. air.pdu.type = "ATN" => ini.last = "ATN"
  BY <1>1 DEF LastSent
<1>3. CASE Offered
  <2>1. air.pdu \in {Frame("ATN"), Frame("damaged")}
    BY <1>3 DEF Offered, Carries
  <2>2. ~Taken
    BY <1>3, Fields, PniFacts DEF IInv, Basics, Offered, Taken, Equal, Ahead
  <2> QED BY <1>2, <1>3, <2>1, <2>2
<1>4. CASE Taken
  <2>1. air.pdu \in {ACK(ini.pni), Frame("ATN")}
    BY <1>4 DEF Taken
  <2> QED BY <1>2, <1>4, <2>1
<1>5. CASE Waits
  <2>1. /\ air.pdu \in {Frame("TO"), Frame("ATN"), Frame("damaged")}
        /\ air.pdu.type = "ATN" => (ini.last = "NACK" \/ ini.lastN = "TO")
        /\ air.pdu.type = "TO" => ini.last # "ATN"
    BY <1>5 DEF Waits, Carries
  <2>2. ~Taken
    BY <1>5 DEF Waits, Taken
  <2> QED BY <1>2, <1>5, <2>1, <2>2
<1>6. CASE Delivering
  <2>1. air.pdu \in {TgtPart, Frame("ATN"), Frame("damaged")}
    BY <1>6 DEF Delivering, Carries
  <2>2. ~Taken
    BY <1>6 DEF Delivering, Answering, Taken
  <2>3. TgtPart.type = "I"
    BY DEF TgtPart
  <2> QED BY <1>2, <1>6, <2>1, <2>2, <2>3
<1>7. ~PartRead /\ ~Gone
  BY DEF PartRead, Gone
<1> QED BY <1>1, <1>3, <1>4, <1>5, <1>6, <1>7 DEF Exchange, Working, Sending, GoingOn

LEMMA ReceiveErrorInv ==
  ASSUME IInv, TypeOK', Waiting, air.to = "ini", air.pdu.type = "damaged", ReceiveError,
         tgt' = tgt, setup' = setup, asked' = asked, executed' = executed
  PROVE  IInv'
<1>0. TypeOK /\ call = "transceive" /\ ini.state = "RX"
  BY DEF IInv, Basics, Waiting
<1>1. Exchange /\ Counts /\ ~Taken
  BY <1>0, IniReceives DEF IInv, Phase
<1> DEFINE n == [ini EXCEPT !.cntNACK = @ + 1]
<1>2. /\ n \in IniState /\ SameIni(ini, n) /\ SameLast(ini, n) /\ n.cntNACK = ini.cntNACK + 1
      /\ n.cntTO = ini.cntTO /\ n.cntATN = ini.cntATN /\ n.cntTx = ini.cntTx
      /\ n.cntRTOX = ini.cntRTOX
  BY <1>0, TypeFacts, CountFields
<1>3. /\ Error /\ extensions' = extensions
      /\ Fails(n) \/ Control(n, NACK(ini.pni))
  BY DEF ReceiveError, Recovered
<1> HIDE DEF n
<1>4. n.parts = ini.parts
  BY <1>2 DEF SameIni
<1>5. CASE Fails(n)
  BY <1>4, <1>5, FailsInv
<1>6. CASE Control(n, NACK(ini.pni))
  <2>0. ini \in IniState /\ errors \in Nat /\ extensions \in Nat
    BY <1>0, TypeFacts
  <2>1. NACK(ini.pni).type = "NACK" /\ "NACK" \in DepTypes
    BY PduFields DEF DepTypes
  <2>2. /\ GoesOn /\ SentTo(NACK(ini.pni)) /\ LastSent'
        /\ ini'.cntTO = n.cntTO /\ ini'.cntNACK = n.cntNACK /\ ini'.cntATN = n.cntATN
        /\ ini'.cntTx = n.cntTx /\ ini'.cntRTOX = n.cntRTOX /\ ini'.last = "NACK"
    BY <1>2, <1>6, <2>0, <2>1, ControlGoesOn
  <2>3. Exchange'
    BY <1>0, <1>1, <2>2, NackSent
  <2>4. ini.cntTO \in Nat /\ ini.cntNACK \in Nat /\ ini.cntATN \in Nat /\ ini.cntTx \in Nat
    BY <1>0, Fields
  <2>5. /\ Least(ini.cntTO, MaxRetries + 1) <= errors'
        /\ Least(ini.cntNACK + 1, MaxRetries + 1) <= errors'
        /\ Least(ini.cntATN, MaxRetries + 1) <= errors'
        /\ Least(ini.cntTx, MaxRetries + 1) <= errors'
        /\ Least(ini.cntRTOX, MaxRetries + 2) <= extensions'
    BY <1>1, <1>3, <2>0, <2>4, CountedOnce DEF Counts
  <2>6. Counts'
    BY <1>2, <2>2, <2>5 DEF Counts
  <2> QED BY <1>0, <2>2, <2>3, <2>6, GoesOnInv
<1> QED BY <1>3, <1>5, <1>6

LEMMA AcknowledgedInv ==
  ASSUME IInv, TypeOK', Waiting, air.to = "ini", air.pdu.type = "ACK", air.pdu.pni = ini.pni,
         Acknowledged, tgt' = tgt, setup' = setup, asked' = asked, executed' = executed
  PROVE  IInv'
<1>0. TypeOK /\ call = "transceive"
  BY DEF IInv, Basics, Waiting
<1>1. Taken /\ ini.br = tgt.br
  BY <1>0, IniReceives DEF IInv, Phase
<1> DEFINE next == [ini EXCEPT !.pni = PNIInc(@)]
           pos == ini.pos + 1
<1>2. /\ next \in IniState /\ next.pni = PNIInc(ini.pni) /\ next.br = ini.br
      /\ next.parts = ini.parts /\ next.got = ini.got
  BY <1>0, TypeFacts, NextPniFields
<1>3. ini' = StartPart(next, pos) /\ air' = Silence /\ Progress /\ call' = call
  BY <1>1 DEF Acknowledged, Taken
<1>4. pos \in Nat
  <2>1. ini.pos \in Nat
    BY <1>0, Fields
  <2> QED BY ONLY <2>1
<1>5. /\ Ahead /\ tgt.state = "RX" /\ TgtQuiet /\ NotExecuted /\ ini.got = <<>>
      /\ tgt.got = Parts(asked, pos) /\ pos < ini.parts
  BY <1>1 DEF Taken
<1> HIDE DEF next, pos
<1>6. /\ ini'.state = "TX" /\ ini'.pos = pos /\ ini'.mi = (pos + 1 < next.parts)
      /\ ini'.pni = next.pni /\ ini'.br = next.br /\ ini'.parts = next.parts /\ ini'.got = next.got
      /\ ini'.cntTO = 0 /\ ini'.cntNACK = 0 /\ ini'.cntATN = 0 /\ ini'.cntTx = 0
      /\ ini'.cntRTOX = 0
  BY ONLY <1>2, <1>3, <1>4, StartPartFields
<1>7. air'.to = "none"
  BY <1>3, SilenceFacts
<1>8. Offered'
  BY <1>2, <1>5, <1>6, <1>7
     DEF Offered, Equal, Ahead, TgtListens, TgtQuiet, NotExecuted, Carries
<1>9. LastSent'
  BY <1>6, <1>7 DEF LastSent
<1>10. Counts'
  BY <1>3, <1>6, CountsRestart
<1>11. Basics'
  BY <1>2, <1>6, InitiatorBasics DEF IInv, Basics
<1>12. call' = "transceive" /\ ini'.br = tgt'.br
  BY <1>0, <1>1, <1>2, <1>3, <1>6
<1> QED BY <1>8, <1>9, <1>10, <1>11, <1>12 DEF IInv, Phase, Exchange

LEMMA ExtendedInv ==
  ASSUME IInv, TypeOK', Waiting, air.to = "ini", air.pdu.type = "TO", Extended,
         tgt' = tgt, setup' = setup, asked' = asked, executed' = executed
  PROVE  IInv'
<1>0. TypeOK /\ call = "transceive" /\ ini.state = "RX"
  BY DEF IInv, Basics, Waiting
<1>1. Exchange /\ Counts /\ Waits
  BY <1>0, IniReceives DEF IInv, Phase
<1> DEFINE p == [ini EXCEPT !.cntRTOX = @ + 1]
<1>2. /\ p \in IniState /\ SameIni(ini, p) /\ SameLast(ini, p) /\ p.cntRTOX = ini.cntRTOX + 1
      /\ p.cntTO = ini.cntTO /\ p.cntNACK = ini.cntNACK /\ p.cntATN = ini.cntATN
      /\ p.cntTx = ini.cntTx
  BY <1>0, TypeFacts, CountFields
<1>3. /\ Extension /\ errors' = errors
      /\ Fails(p) \/ Control(p, Frame("TO"))
  BY DEF Extended
<1> HIDE DEF p
<1>4. p.parts = ini.parts
  BY <1>2 DEF SameIni
<1>5. CASE Fails(p)
  BY <1>4, <1>5, FailsInv
<1>6. CASE Control(p, Frame("TO"))
  <2>0. ini \in IniState /\ errors \in Nat /\ extensions \in Nat /\ ini.cntRTOX \in Nat
    BY <1>0, TypeFacts, Fields
  <2>1. Frame("TO").type = "TO" /\ "TO" \in DepTypes
    BY PduFields DEF DepTypes
  <2>2. /\ GoesOn /\ SentTo(Frame("TO")) /\ LastSent'
        /\ ini'.cntTO = p.cntTO /\ ini'.cntNACK = p.cntNACK /\ ini'.cntATN = p.cntATN
        /\ ini'.cntTx = p.cntTx /\ ini'.cntRTOX = p.cntRTOX /\ ini'.last = "TO"
    BY <1>2, <1>6, <2>0, <2>1, ControlGoesOn
  <2>3. ~Offered /\ ~Taken
    BY <1>1, <2>0 DEF Waits, Offered, Taken, TgtListens, TgtQuiet
  <2>4. Exchange'
    BY <1>0, <1>1, <2>2, <2>3, ToSent
  <2>5. Least(ini.cntRTOX + 1, MaxRetries + 2) <= extensions'
    BY <1>1, <1>3, <2>0, CountedOnce DEF Counts
  <2>6. Counts'
    BY <1>1, <1>2, <1>3, <2>2, <2>5 DEF Counts
  <2> QED BY <1>0, <2>2, <2>4, <2>6, GoesOnInv
<1> QED BY <1>3, <1>5, <1>6

LEMMA AttendedInv ==
  ASSUME IInv, TypeOK', Waiting, air.to = "ini", air.pdu.type = "ATN", Attended,
         errors' = errors, extensions' = extensions,
         tgt' = tgt, setup' = setup, asked' = asked, executed' = executed
  PROVE  IInv'
<1>0. TypeOK /\ call = "transceive" /\ ini.state = "RX"
  BY DEF IInv, Basics, Waiting
<1>1. Exchange /\ Counts /\ ini.last = "ATN" /\ ini.br = tgt.br
  BY <1>0, IniReceives DEF IInv, Phase
<1>2. Offered \/ Taken \/ (Waits /\ ini.lastN = "TO") \/ Delivering
  BY <1>0, IniReceives
<1> DEFINE p == [ini EXCEPT !.cntATN = 0]
           q == [p EXCEPT !.cntTx = @ + 1]
           r == [q EXCEPT !.state = "TX"]
<1>3. /\ p \in IniState /\ SameIni(ini, p) /\ SameLast(ini, p) /\ p.cntATN = 0
      /\ p.cntTO = ini.cntTO /\ p.cntNACK = ini.cntNACK /\ p.cntTx = ini.cntTx
      /\ p.cntRTOX = ini.cntRTOX
  BY <1>0, TypeFacts, CountFields
<1>4. \/ ini.lastN = "TO" /\ Control(p, Frame("TO"))
      \/ ini.lastN # "TO" /\ Fails(q)
      \/ ini.lastN # "TO" /\ ini' = r /\ air' = Silence /\ call' = call
  BY <1>1 DEF Attended, Retransmits
<1> HIDE DEF p
<1>5. /\ q \in IniState /\ SameIni(p, q) /\ SameLast(p, q) /\ q.cntTx = p.cntTx + 1
      /\ q.cntTO = p.cntTO /\ q.cntNACK = p.cntNACK /\ q.cntATN = p.cntATN
      /\ q.cntRTOX = p.cntRTOX
  BY <1>3, CountFields
<1> HIDE DEF q
<1>6. /\ r \in IniState /\ r.state = "TX" /\ r.pni = q.pni /\ r.mi = q.mi /\ r.br = q.br
      /\ r.parts = q.parts /\ r.pos = q.pos /\ r.got = q.got /\ SameLast(q, r)
      /\ r.cntTO = q.cntTO /\ r.cntNACK = q.cntNACK /\ r.cntATN = q.cntATN
      /\ r.cntTx = q.cntTx /\ r.cntRTOX = q.cntRTOX
  BY <1>5, StateFields
<1> HIDE DEF r
<1>7. /\ Least(0, MaxRetries + 1) <= errors /\ Least(ini.cntTO, MaxRetries + 1) <= errors
      /\ Least(ini.cntNACK, MaxRetries + 1) <= errors
      /\ Least(ini.cntTx, MaxRetries + 1) <= errors
      /\ Least(ini.cntTx + 1, MaxRetries + 1) <= errors
      /\ Least(ini.cntRTOX, MaxRetries + 2) <= extensions
  <2>1. errors \in Nat /\ MaxRetries + 1 \in Nat
    BY <1>0, TypeFacts, RetriesAssumption
  <2>2. Least(0, MaxRetries + 1) = 0
    BY ONLY <2>1, LeastFacts
  <2>3. Least(0, MaxRetries + 1) <= errors
    BY ONLY <2>1, <2>2
  <2> QED BY <1>0, <1>1, <2>3 DEF Counts
<1>8. CASE ini.lastN = "TO" /\ Control(p, Frame("TO"))
  <2>0. ini \in IniState
    BY <1>0, TypeFacts
  <2>1. Frame("TO").type = "TO" /\ "TO" \in DepTypes
    BY PduFields DEF DepTypes
  <2>2. /\ GoesOn /\ SentTo(Frame("TO")) /\ LastSent'
        /\ ini'.cntTO = p.cntTO /\ ini'.cntNACK = p.cntNACK /\ ini'.cntATN = p.cntATN
        /\ ini'.cntTx = p.cntTx /\ ini'.cntRTOX = p.cntRTOX /\ ini'.last = "TO"
    BY <1>3, <1>8, <2>0, <2>1, ControlGoesOn
  <2>3. ~Offered /\ ~Taken
    BY <1>0, <1>8 DEF Offered, Taken
  <2>4. Exchange'
    BY <1>0, <1>1, <2>2, <2>3, ToSent
  <2>5. Counts'
    BY <1>3, <1>7, <2>2 DEF Counts
  <2> QED BY <1>0, <2>2, <2>4, <2>5, GoesOnInv
<1>9. CASE ini.lastN # "TO" /\ Fails(q)
  <2>1. q.parts = ini.parts
    BY <1>3, <1>5 DEF SameIni
  <2> QED BY <1>9, <2>1, FailsInv
<1>10. CASE ini.lastN # "TO" /\ ini' = r /\ air' = Silence /\ call' = call
  <2>1. /\ ini'.state = "TX" /\ ini'.pni = ini.pni /\ ini'.mi = ini.mi /\ ini'.br = ini.br
        /\ ini'.parts = ini.parts /\ ini'.pos = ini.pos /\ ini'.got = ini.got
        /\ ini'.last = ini.last /\ ini'.lastN = ini.lastN
        /\ ini'.cntTO = ini.cntTO /\ ini'.cntNACK = ini.cntNACK /\ ini'.cntATN = 0
        /\ ini'.cntTx = ini.cntTx + 1 /\ ini'.cntRTOX = ini.cntRTOX
    BY ONLY <1>3, <1>5, <1>6, <1>10 DEF SameIni, SameLast
  <2>2. air'.to = "none"
    BY <1>10, SilenceFacts
  <2>3. Exchange'
    <3>1. CASE Offered
      <4>1. Offered'
        BY <2>1, <2>2, <3>1 DEF Offered, Equal, TgtListens, TgtQuiet, NotExecuted, Carries
      <4> QED BY <4>1 DEF Exchange
    <3>2. CASE Taken
      <4>1. tgt.last = "ATN"
        BY <3>2 DEF Taken
      <4>2. Taken'
        BY <2>1, <2>2, <3>2, <4>1 DEF Taken, Ahead, TgtQuiet, NotExecuted, Carries
      <4> QED BY <4>2 DEF Exchange
    <3>3. CASE Delivering
      <4>1. Delivering'
        BY <2>1, <2>2, <3>3 DEF Delivering, Answering, Executed, Ahead, TgtQuiet, Carries
      <4> QED BY <4>1 DEF Exchange
    <3> QED BY <1>2, <1>10, <3>1, <3>2, <3>3
  <2>4. LastSent'
    BY <2>1, <2>2 DEF LastSent
  <2>5. Counts'
    BY <1>7, <2>1 DEF Counts
  <2>6. Basics'
    BY <2>1, InitiatorBasics DEF IInv, Basics
  <2>7. call' = "transceive" /\ ini'.br = tgt'.br
    BY <1>0, <1>1, <1>10, <2>1
  <2> QED BY <2>3, <2>4, <2>5, <2>6, <2>7 DEF IInv, Phase
<1> QED BY <1>4, <1>8, <1>9, <1>10

LEMMA PartsFacts ==
  ASSUME NEW n \in Nat, NEW k \in Nat
  PROVE  /\ Parts(n, k) \in Seq(Part) /\ Len(Parts(n, k)) = k
         /\ Append(Parts(n, k), <<n, k + 1>>) = Parts(n, k + 1)
         /\ Parts(n, 0) = <<>> /\ Whole(Parts(n, k), n, k)
<1>1. Parts(n, k) \in Seq(Part) /\ Len(Parts(n, k)) = k
  BY DEF Parts, Part
<1>2. Append(Parts(n, k), <<n, k + 1>>) = Parts(n, k + 1)
  BY <1>1 DEF Parts
<1> QED BY <1>1, <1>2 DEF Whole, Parts

\* A link of a session with messages of several parts.
LEMMA ChainFaults ==
  ASSUME LinksKeepChains, setup \in Setups, setup.parts > 1
  PROVE  /\ <<"loss", "tgt", "ACK">> \notin setup.faults
         /\ <<"damage", "tgt", "ACK">> \notin setup.faults
         /\ <<"damage", "ini", "ATN">> \notin setup.faults
         /\ <<"damage", "ini", "ACK">> \notin setup.faults
  BY DEF LinksKeepChains, Excluded

\* What is not lost and not damaged arrives.
LEMMA SentArrives ==
  ASSUME NEW to \in {"ini", "tgt"}, NEW b, air' \in Sent(to, b),
         <<"damage", to, b.type>> \notin setup.faults
  PROVE  /\ air'.to = to => air'.pdu = b
         /\ <<"loss", to, b.type>> \notin setup.faults => air'.to = to
<1>1. CASE air' = [to |-> to, pdu |-> b]
  BY <1>1
<1>2. CASE air' = Silence /\ <<"loss", to, b.type>> \in setup.faults
  BY <1>2 DEF Silence
<1> QED BY <1>1, <1>2 DEF Sent

LEMMA ReceiveIInv ==
  ASSUME LinksKeepChains, IInv, TypeOK', Waiting, air.to = "ini", air.pdu.type = "I", ReceiveI,
         tgt' = tgt, setup' = setup, asked' = asked, executed' = executed
  PROVE  IInv'
<1>0. TypeOK /\ call = "transceive" /\ ini.state = "RX" /\ setup \in Setups
      /\ tgt.parts <= setup.parts
  BY DEF IInv, Basics, Waiting
<1>1. Delivering /\ air.pdu = TgtPart /\ ini.br = tgt.br
  BY <1>0, IniReceives DEF IInv, Phase
<1>2. /\ Answering /\ Ahead /\ TgtQuiet /\ tgt.state = "RX" /\ ini.got = Parts(asked, tgt.pos)
      /\ ~ini.mi /\ tgt.mi = (tgt.pos + 1 < tgt.parts) /\ tgt.got = <<>>
  BY <1>1 DEF Delivering, Answering
<1> DEFINE inf == air.pdu.inf
           fresh == PartTaken(inf)
<1>3. /\ air.pdu.pni = ini.pni /\ air.pdu.mi = tgt.mi /\ inf = <<asked, tgt.pos + 1>>
  BY <1>1, PduFields DEF TgtPart
<1>4. inf \in Part /\ asked \in Nat /\ tgt.pos \in Nat /\ ini \in IniState
  BY <1>0, Fields, TypeFacts, ReceivedPdu
<1>5. /\ fresh \in IniState /\ fresh.pni = PNIInc(ini.pni) /\ fresh.got = Append(ini.got, inf)
      /\ fresh.br = ini.br /\ fresh.parts = ini.parts /\ fresh.mi = ini.mi /\ fresh.state = "RX"
      /\ fresh.cntTO = 0 /\ fresh.cntNACK = 0 /\ fresh.cntATN = 0 /\ fresh.cntTx = 0
      /\ fresh.cntRTOX = 0
  BY <1>0, <1>4, PartTakenFields
<1>6. \/ tgt.mi /\ Control(fresh, ACK(fresh.pni)) /\ Progress
      \/ /\ ~tgt.mi /\ ini' = [fresh EXCEPT !.state = "IDLE"] /\ call' = "idle"
         /\ air' = Silence /\ Progress
  BY <1>2, <1>3 DEF ReceiveI, PartTaken
<1>7. fresh.got = Parts(asked, tgt.pos + 1)
  BY <1>2, <1>3, <1>4, <1>5, PartsFacts
<1> HIDE DEF inf, fresh
<1>8. CASE tgt.mi /\ Control(fresh, ACK(fresh.pni)) /\ Progress
  <2> DEFINE b == ACK(fresh.pni)
  <2>1. b.type = "ACK"
    BY PduFields
  <2>2. ini' = Sends(fresh, b) /\ air' \in Sent("tgt", b) /\ call' = call
    BY <1>8 DEF Control
  <2>3. setup.parts \in Nat /\ setup.parts > 1
    <3>1. setup.parts \in Nat /\ tgt.parts \in Nat /\ tgt.pos + 1 < tgt.parts
      BY <1>0, <1>2, <1>8, SetupAssumption, Fields
    <3> QED BY ONLY <1>0, <1>4, <3>1
  <2> HIDE DEF b
  <2>4. /\ ini'.last = Last(b) /\ ini'.lastN = LastN(fresh, b)
        /\ ini'.state = "RX" /\ ini'.pni = fresh.pni /\ ini'.mi = ini.mi /\ ini'.br = ini.br
        /\ ini'.parts = ini.parts /\ ini'.got = Parts(asked, tgt.pos + 1)
        /\ ini'.cntTO = 0 /\ ini'.cntNACK = 0 /\ ini'.cntATN = 0 /\ ini'.cntTx = 0
        /\ ini'.cntRTOX = 0
    BY <1>5, <1>7, <2>2, IniSendsFields
  <2>5. ini'.last = "ACK" /\ ini'.lastN = "ACK"
    BY <2>1, <2>4 DEF Last, LastN, DepTypes
  <2>6. air'.to = "tgt" /\ air'.pdu = b
    <3>1. /\ <<"loss", "tgt", b.type>> \notin setup.faults
          /\ <<"damage", "tgt", b.type>> \notin setup.faults
      BY <1>0, <2>1, <2>3, ChainFaults
    <3> QED BY <2>2, <3>1, SentArrives
  <2>7. PartRead'
    <3>1. b = ACK(ini'.pni)
      BY <2>4 DEF b
    <3> QED BY <1>2, <1>5, <1>8, <2>4, <2>6, <3>1
            DEF PartRead, Answering, Executed, Equal, Ahead, TgtQuiet
  <2>8. LastSent'
    BY <2>1, <2>5, <2>6 DEF LastSent
  <2>9. Counts'
    BY <1>8, <2>4, <2>5, CountsRestart
  <2>10. Basics'
    BY <2>4, InitiatorBasics DEF IInv, Basics
  <2>11. call' = "transceive" /\ ini'.br = tgt'.br
    BY <1>0, <1>1, <2>2, <2>4
  <2> QED BY <2>7, <2>8, <2>9, <2>10, <2>11 DEF IInv, Phase, Exchange
<1>9. CASE /\ ~tgt.mi /\ ini' = [fresh EXCEPT !.state = "IDLE"] /\ call' = "idle"
           /\ air' = Silence /\ Progress
  <2>1. ini'.pni = fresh.pni /\ ini'.br = ini.br /\ ini'.parts = ini.parts
    BY <1>5, <1>9, StateFields
  <2>2. AtRest'
    BY <1>2, <1>5, <1>9, <2>1, SilenceFacts DEF AtRest, Equal, Ahead, TgtListens, TgtQuiet
  <2>3. Basics'
    BY <2>1, InitiatorBasics DEF IInv, Basics
  <2> QED BY <1>1, <1>9, <2>1, <2>2, <2>3 DEF IInv, Phase
<1> QED BY <1>6, <1>8, <1>9

LEMMA InitiatorReceiveInv ==
  ASSUME LinksKeepChains, IInv, TypeOK', InitiatorReceive PROVE IInv'
<1>1. /\ Waiting /\ air.to = "ini" /\ call = "transceive"
      /\ tgt' = tgt /\ setup' = setup /\ asked' = asked /\ executed' = executed
  BY DEF InitiatorReceive, Waiting
<1>2. /\ air.pdu.type \in {"I", "ACK", "ATN", "TO", "damaged"}
      /\ air.pdu.type = "ACK" => air.pdu = ACK(ini.pni)
  BY <1>1, IniReceives
<1>3. air.pdu.type = "ACK" => air.pdu.pni = ini.pni
  BY <1>2, PduFields
<1>4. CASE air.pdu.type = "I"
  <2>1. ReceiveI
    BY <1>4 DEF InitiatorReceive
  <2> QED BY <1>1, <1>4, <2>1, ReceiveIInv
<1>5. CASE air.pdu.type = "ACK"
  <2>1. Acknowledged
    BY <1>3, <1>5 DEF InitiatorReceive
  <2> QED BY <1>1, <1>3, <1>5, <2>1, AcknowledgedInv
<1>6. CASE air.pdu.type = "TO"
  <2>1. Extended
    BY <1>6 DEF InitiatorReceive
  <2> QED BY <1>1, <1>6, <2>1, ExtendedInv
<1>7. CASE air.pdu.type = "ATN"
  <2>1. Attended /\ errors' = errors /\ extensions' = extensions
    BY <1>7 DEF InitiatorReceive
  <2> QED BY <1>1, <1>7, <2>1, AttendedInv
<1>8. CASE air.pdu.type = "damaged"
  <2>1. ReceiveError
    BY <1>8 DEF InitiatorReceive
  <2> QED BY <1>1, <1>8, <2>1, ReceiveErrorInv
<1> QED BY <1>2, <1>4, <1>5, <1>6, <1>7, <1>8

LEMMA InitiatorInv ==
  ASSUME LinksKeepChains, IInv, TypeOK', Initiator PROVE IInv'
<1>1. CASE \E psl \in BOOLEAN : AtrAnswered(psl)
  BY <1>1, AtrAnsweredInv
<1>2. CASE PslAnswered \/ AtrRetry \/ ActivationFails \/ Released
  BY <1>2, PslAnsweredInv, AtrRetryInv, EndsInv
<1>3. CASE IniTx \/ Timeout \/ InitiatorReceive
  BY <1>3, IniTxInv, TimeoutInv, InitiatorReceiveInv
<1> QED BY <1>1, <1>2, <1>3 DEF Initiator

-----------------------------------------------------------------------------
(* What the target sends, stage by stage.                                  *)

\* What a step of the target leaves alone.
ByTarget ==
  /\ ini' = ini /\ call' = call /\ setup' = setup /\ asked' = asked
  /\ errors' = errors /\ extensions' = extensions

\* A step of the target that executes nothing leaves what holds at any time.
LEMMA TargetBasics ==
  ASSUME Basics, TypeOK', ByTarget, executed' = executed, tgt'.parts <= setup.parts,
         AnswerNotForgotten'
  PROVE  Basics'
  BY DEF Basics, ByTarget

LEMMA TargetPhase ==
  ASSUME IInv, ByTarget, Basics', call \notin {"off", "idle"},
         air' = air \/ air'.to # "tgt",
         call \in {"atr", "psl"} => Opening',
         call = "transceive" => /\ Exchange' /\ tgt'.br = tgt.br
                                /\ air' = air \/ (air'.to = "ini" /\ air'.pdu.type = "ATN"
                                                  => ini.last = "ATN")
  PROVE  IInv'
<1>1. CASE call \in {"atr", "psl"}
  BY <1>1 DEF IInv, Phase, ByTarget
<1>2. CASE call \in {"failed", "release", "ended"}
  <2>1. Closing'
    BY <1>2 DEF IInv, Phase, Closing
  <2> QED BY <1>2, <2>1 DEF IInv, Phase, ByTarget
<1>3. CASE call = "transceive"
  <2>1. LastSent /\ Counts /\ ini.br = tgt.br
    BY <1>3 DEF IInv, Phase
  <2>2. Counts'
    BY <2>1 DEF Counts, ByTarget
  <2>3. LastSent'
    BY <1>3, <2>1 DEF LastSent, ByTarget
  <2> QED BY <1>3, <2>1, <2>2, <2>3 DEF IInv, Phase, ByTarget
<1>4. call \in CallState
  BY TypeFacts DEF IInv, Basics
<1> QED BY <1>1, <1>2, <1>3, <1>4 DEF CallState

\* A target that works is in an exchange, or its initiator has given up.
LEMMA TargetWorks ==
  ASSUME IInv, tgt.owes # "none" \/ tgt.state \in {"TX", "RTOX"}
  PROVE  call \in {"transceive", "failed", "release", "ended"}
<1>1. call \in CallState
  BY TypeFacts DEF IInv, Basics
<1>2. call # "idle"
  BY DEF IInv, Phase, AtRest, TgtListens, TgtQuiet
<1>3. call \notin {"off", "atr", "psl"}
  BY DEF IInv, Phase, Opening, TgtFresh, TgtQuiet
<1> QED BY <1>1, <1>2, <1>3 DEF CallState

\* The application's answer, or its next part: it is still to be sent.
LEMMA AnswerStarts ==
  ASSUME TypeOK, setup \in Setups, Waits, ~tgt.pending, tgt.state # "TX", NEW pos \in Nat,
         NEW p \in TgtState,
         p.wait = tgt.wait, p.pending = tgt.pending, p.pni = tgt.pni, SameLast(tgt, p),
         p.reply = asked, p.got = <<>>, pos < p.parts, ini.got = Parts(asked, pos),
         tgt' = StartAnswer(p, pos), air' = air, executed' = executed, ByTarget
  PROVE  Sending' /\ AnswerNotForgotten' /\ tgt'.br = p.br /\ tgt'.parts = p.parts
<1>1. /\ tgt'.pos = pos /\ tgt'.mi = (pos + 1 < p.parts) /\ tgt'.owes = "none"
      /\ tgt'.state = (IF tgt.wait THEN "RX" ELSE "TX") /\ tgt'.pending = (tgt.wait \/ tgt.pending)
      /\ tgt'.wait = tgt.wait /\ tgt'.pni = tgt.pni /\ tgt'.br = p.br
      /\ tgt'.reply = asked /\ tgt'.parts = p.parts /\ tgt'.got = <<>> /\ SameLast(tgt, tgt')
  BY StartAnswerFields DEF SameLast
<1>2. ini.state = "RX" /\ ~ini.mi /\ Equal /\ Executed
  BY DEF Waits
<1>3. Answering'
  BY <1>1, <1>2 DEF Answering, Executed, ByTarget
<1>4. Waits'
  BY <1>1, <1>2 DEF Waits, Equal, Executed, Carries, ByTarget, SameLast
<1>5. tgt.wait \in BOOLEAN
  BY Fields
<1>6. tgt'.state = "TX" \/ (tgt'.state = "RX" /\ tgt'.pending)
  BY <1>1, <1>5
<1>7. Sending'
  BY <1>1, <1>3, <1>4, <1>6 DEF Sending, ByTarget
<1>8. AnswerNotForgotten'
  BY <1>1, <1>5 DEF AnswerNotForgotten
<1> QED BY <1>1, <1>7, <1>8

\* An answer that is started is not forgotten, whatever the call.
LEMMA AnswerKept ==
  ASSUME TypeOK, AnswerNotForgotten, AppWorks, NEW p \in TgtState, NEW pos \in Nat,
         p.wait = tgt.wait, p.pending = tgt.pending, tgt' = StartAnswer(p, pos)
  PROVE  AnswerNotForgotten' /\ tgt'.parts = p.parts
<1> DEFINE q == StartAnswer(p, pos)
<1>1. q.pending = (p.wait \/ p.pending) /\ q.wait = p.wait /\ q.parts = p.parts
  BY ONLY p \in TgtState, pos \in Nat, StartAnswerFields
<1> HIDE DEF q
<1>2. tgt' = q
  BY DEF q
<1>3. tgt.pending => tgt.wait
  BY DEF AnswerNotForgotten, AppWorks
<1>4. q.pending => q.wait
  BY <1>1, <1>3
<1> QED BY <1>1, <1>2, <1>4 DEF AnswerNotForgotten

LEMMA AnswerInv ==
  ASSUME IInv, TypeOK', NEW parts \in 1..setup.parts, Answer(parts) PROVE IInv'
<1> DEFINE p == [tgt EXCEPT !.reply = tgt.todo, !.parts = parts, !.got = <<>>]
<1>0. TypeOK /\ setup \in Setups /\ AnswerNotForgotten /\ tgt \in TgtState
  BY TypeFacts DEF IInv, Basics
<1>1. parts \in Nat /\ parts <= setup.parts /\ 0 < parts
  BY <1>0, PartsType
<1>2. /\ tgt.owes = "answer" /\ AppWorks /\ tgt' = StartAnswer(p, 0) /\ air' = air
      /\ executed' = executed /\ ByTarget
  BY DEF Answer, history, ByTarget
<1>3. /\ p \in TgtState /\ p.reply = tgt.todo /\ p.parts = parts /\ p.got = <<>>
      /\ p.br = tgt.br /\ p.pni = tgt.pni /\ p.wait = tgt.wait
      /\ p.pending = tgt.pending /\ SameLast(tgt, p)
  BY <1>0, <1>1, AnswerFields
<1> HIDE DEF p
<1>4. AnswerNotForgotten' /\ tgt'.parts = parts
  BY <1>0, <1>2, <1>3, AnswerKept
<1>5. Basics'
  BY <1>1, <1>2, <1>4, TargetBasics DEF IInv
<1>6. call \in {"transceive", "failed", "release", "ended"}
  BY <1>2, TargetWorks
<1>7. CASE call = "transceive"
  <2>1. Working
    <3>1. Exchange
      BY <1>7 DEF IInv, Phase
    <3> QED BY <1>2, <3>1 DEF Exchange, Offered, Taken, Sending, Delivering, PartRead, GoingOn,
                              Gone, TgtQuiet, AppWorks
  <2>2. Waits /\ ~tgt.pending /\ tgt.state # "TX" /\ tgt.todo = asked /\ ini.got = <<>>
    BY <2>1 DEF Working
  <2>3. asked \in Nat
    BY <1>0, TypeFacts
  <2>4. ini.got = Parts(asked, 0)
    BY <2>2, <2>3, PartsFacts
  <2>5. Sending' /\ tgt'.br = tgt.br
    BY <1>0, <1>1, <1>2, <1>3, <2>2, <2>4, AnswerStarts
  <2> QED BY <1>2, <1>5, <1>7, <2>5, TargetPhase DEF Exchange
<1> QED BY <1>2, <1>5, <1>6, <1>7, TargetPhase

LEMMA AnswerGoesOnInv ==
  ASSUME IInv, TypeOK', AnswerGoesOn PROVE IInv'
<1> DEFINE pos == tgt.pos + 1
<1>0. TypeOK /\ setup \in Setups /\ AnswerNotForgotten /\ tgt \in TgtState
      /\ tgt.parts <= setup.parts
  BY TypeFacts DEF IInv, Basics
<1>1. pos \in Nat
  <2>1. tgt.pos \in Nat
    BY <1>0, Fields
  <2> QED BY ONLY <2>1
<1>2. /\ tgt.owes = "part" /\ AppWorks /\ tgt' = StartAnswer(tgt, pos) /\ air' = air
      /\ executed' = executed /\ ByTarget
  BY DEF AnswerGoesOn, history, ByTarget
<1>4. AnswerNotForgotten' /\ tgt'.parts = tgt.parts
  BY <1>0, <1>1, <1>2, AnswerKept
<1>5. Basics'
  BY <1>0, <1>2, <1>4, TargetBasics DEF IInv
<1>6. call \in {"transceive", "failed", "release", "ended"}
  BY <1>2, TargetWorks
<1>7. CASE call = "transceive"
  <2>1. GoingOn
    <3>1. Exchange
      BY <1>7 DEF IInv, Phase
    <3> QED BY <1>2, <3>1 DEF Exchange, Offered, Taken, Sending, Delivering, PartRead, Working,
                              Gone, TgtQuiet, AppWorks
  <2>2. /\ Waits /\ ~tgt.pending /\ tgt.state # "TX" /\ tgt.reply = asked /\ tgt.got = <<>>
        /\ pos < tgt.parts /\ ini.got = Parts(asked, pos)
    BY <2>1 DEF GoingOn, Answering
  <2>3. SameLast(tgt, tgt)
    BY DEF SameLast
  <2> HIDE DEF pos
  <2>5. Sending' /\ tgt'.br = tgt.br
    BY <1>0, <1>1, <1>2, <2>2, <2>3, AnswerStarts
  <2> QED BY <1>2, <1>5, <1>7, <2>5, TargetPhase DEF Exchange
<1> QED BY <1>2, <1>5, <1>6, <1>7, TargetPhase

LEMMA TargetTxInv ==
  ASSUME IInv, TypeOK', TargetTx PROVE IInv'
<1> DEFINE p == [tgt EXCEPT !.state = "RX", !.pending = FALSE, !.wait = FALSE, !.pni = PNIInc(@)]
           b == I(tgt.pni, tgt.mi, tgt.reply, tgt.pos + 1)
<1>0. TypeOK /\ tgt \in TgtState /\ tgt.parts <= setup.parts
  BY TypeFacts DEF IInv, Basics
<1>1. /\ tgt.state = "TX" /\ tgt' = Sends(p, b) /\ air' \in Sent("ini", b)
      /\ executed' = executed /\ ByTarget
  BY DEF TargetTx, Replies, history, ByTarget
<1>2. /\ p \in TgtState /\ p.state = "RX" /\ ~p.pending /\ ~p.wait /\ p.pni = PNIInc(tgt.pni)
      /\ SameTgt(tgt, p) /\ p.owes = tgt.owes /\ p.got = tgt.got
  BY <1>0, TxFields
<1>3. b.type = "I" /\ Frame("damaged").type = "damaged"
  BY PduFields
<1> HIDE DEF p, b
<1>4. /\ tgt'.state = "RX" /\ ~tgt'.pending /\ ~tgt'.wait /\ tgt'.pni = PNIInc(tgt.pni)
      /\ tgt'.br = tgt.br /\ tgt'.mi = tgt.mi /\ tgt'.reply = tgt.reply
      /\ tgt'.parts = tgt.parts /\ tgt'.pos = tgt.pos
      /\ tgt'.owes = tgt.owes /\ tgt'.got = tgt.got /\ tgt'.lastN = "I"
  <2>1. tgt'.lastN = LastN(p, b)
    BY <1>1, <1>2, TgtSendsFields
  <2>2. LastN(p, b) = "I"
    BY <1>3 DEF LastN, DepTypes
  <2> QED BY <1>1, <1>2, <2>1, <2>2, TgtSendsFields DEF SameTgt
<1>5. \/ air'.to = "ini" /\ air'.pdu \in {b, Frame("damaged")}
      \/ air'.to = "none" /\ air'.pdu = Frame("damaged")
  BY ONLY <1>1, SentFrame
<1>6. Basics'
  BY <1>0, <1>1, <1>4, TargetBasics DEF IInv, AnswerNotForgotten
<1>7. call \in {"transceive", "failed", "release", "ended"}
  BY <1>1, TargetWorks
<1>8. CASE call = "transceive"
  <2>1. Sending
    <3>1. Exchange
      BY <1>8 DEF IInv, Phase
    <3> QED BY <1>1, <3>1 DEF Exchange, Offered, Taken, TgtListens, Delivering, PartRead, Working,
                              GoingOn, Gone
  <2>2. /\ ini.state = "RX" /\ ~ini.mi /\ Equal /\ Executed /\ Answering /\ tgt.owes = "none"
        /\ ini.got = Parts(asked, tgt.pos)
    BY <2>1 DEF Sending, Waits
  <2>3. b = TgtPart
    BY <2>2 DEF b, TgtPart, Equal, Answering
  <2>4. TgtPart' = TgtPart
    BY <1>1, <1>4 DEF TgtPart, ByTarget
  <2>5. Delivering'
    BY <1>1, <1>4, <1>5, <2>2, <2>3, <2>4
       DEF Delivering, Answering, Executed, Equal, Ahead, TgtQuiet, Carries, ByTarget
  <2>6. ~(air'.to = "ini" /\ air'.pdu.type = "ATN")
    BY <1>3, <1>5
  <2> QED BY <1>1, <1>4, <1>5, <1>6, <1>8, <2>5, <2>6, TargetPhase DEF Exchange
<1> QED BY <1>1, <1>5, <1>6, <1>7, <1>8, TargetPhase

LEMMA TargetRTOXInv ==
  ASSUME LinksKeepChains, IInv, TypeOK', TargetRTOX PROVE IInv'
<1> DEFINE p == [tgt EXCEPT !.cntRTOX = @ + 1]
           r == [tgt EXCEPT !.cntRTOX = @ + 1, !.wait = TRUE, !.state = "RX"]
<1>0. TypeOK /\ tgt \in TgtState /\ tgt.parts <= setup.parts /\ AnswerNotForgotten
      /\ setup \in Setups
  BY TypeFacts DEF IInv, Basics
<1>1. /\ tgt.state = "RTOX" /\ setup.extends
      /\ Reports(p) \/ Replies(r, Frame("TO"))
      /\ executed' = executed /\ ByTarget
  BY DEF TargetRTOX, history, ByTarget
<1>2. /\ p \in TgtState /\ SameTgt(tgt, p) /\ p.pending = tgt.pending
      /\ r \in TgtState /\ r.wait /\ r.state = "RX" /\ r.pni = tgt.pni /\ SameTgt(tgt, r)
      /\ r.owes = tgt.owes /\ r.pending = tgt.pending /\ r.got = tgt.got
  BY <1>0, RtoxFields
<1>3. Frame("TO").type = "TO" /\ Frame("damaged").type = "damaged"
  BY PduFields
<1> HIDE DEF p, r
<1>4. call \in {"transceive", "failed", "release", "ended"}
  BY <1>1, TargetWorks
<1>5. call = "transceive" =>
        /\ Working \/ GoingOn
        /\ air.to = "none" /\ ini.last # "ATN" /\ ini.state = "RX" /\ ~ini.mi /\ Equal /\ Executed
        /\ ~tgt.pending
  <2> SUFFICES ASSUME call = "transceive"
               PROVE  /\ Working \/ GoingOn
                      /\ air.to = "none" /\ ini.last # "ATN" /\ ini.state = "RX" /\ ~ini.mi
                      /\ Equal /\ Executed /\ ~tgt.pending
    OBVIOUS
  <2>1. Exchange
    BY DEF IInv, Phase
  <2>2. Working \/ GoingOn
    BY <1>1, <2>1 DEF Exchange, Offered, Taken, TgtListens, Delivering, PartRead, Sending, Gone
  <2>3. Waits /\ ~tgt.pending
    BY <2>2 DEF Working, GoingOn
  <2> QED BY <1>1, <2>2, <2>3 DEF Waits
<1>6. CASE Reports(p)
  <2>1. /\ tgt' = [p EXCEPT !.state = "IDLE"] /\ air' = Silence
    BY <1>6 DEF Reports
  <2>2. /\ tgt'.state = "IDLE" /\ tgt'.br = tgt.br /\ tgt'.parts = tgt.parts
    BY <1>2, <2>1, TgtStateFields DEF SameTgt
  <2>3. Basics'
    BY <1>0, <1>1, <2>2, TargetBasics DEF IInv, AnswerNotForgotten
  <2>4. call = "transceive" => Gone'
    BY <1>1, <1>5, <2>1, <2>2, SilenceFacts DEF Gone, Executed, ByTarget
  <2> QED BY <1>1, <1>4, <2>1, <2>2, <2>3, <2>4, SilenceFacts, TargetPhase DEF Exchange
<1>7. CASE Replies(r, Frame("TO"))
  <2>1. tgt' = Sends(r, Frame("TO")) /\ air' \in Sent("ini", Frame("TO"))
    BY <1>7 DEF Replies
  <2>2. /\ tgt'.state = "RX" /\ tgt'.wait /\ tgt'.lastN = "TO" /\ tgt'.pni = tgt.pni
        /\ tgt'.br = tgt.br /\ tgt'.mi = tgt.mi /\ tgt'.todo = tgt.todo /\ tgt'.reply = tgt.reply
        /\ tgt'.parts = tgt.parts /\ tgt'.pos = tgt.pos
        /\ tgt'.owes = tgt.owes /\ tgt'.got = tgt.got /\ tgt'.pending = tgt.pending
    <3>1. LastN(r, Frame("TO")) = "TO"
      BY <1>3 DEF LastN, DepTypes
    <3> QED BY <1>2, <2>1, <3>1, TgtSendsFields DEF SameTgt
  <2>3. \/ air'.to = "ini" /\ air'.pdu \in {Frame("TO"), Frame("damaged")}
        \/ air'.to = "none" /\ air'.pdu = Frame("damaged")
    BY ONLY <2>1, SentFrame
  <2>4. air'.to = "ini"
    <3>1. <<"loss", "ini", Frame("TO").type>> \notin setup.faults
      BY <1>0, <1>1, <1>3 DEF LinksKeepChains
    <3> QED BY <2>1, <3>1, SentNotLost
  <2>5. Basics'
    BY <1>0, <1>1, <2>2, TargetBasics DEF IInv, AnswerNotForgotten
  <2>6. call = "transceive" => Waits'
    BY <1>1, <1>3, <1>5, <2>2, <2>3, <2>4 DEF Waits, Equal, Executed, Carries, ByTarget
  <2>7. ASSUME call = "transceive" PROVE Exchange'
    <3>1. CASE Working
      <4>1. Working'
        BY <1>1, <1>5, <2>2, <2>6, <2>7, <3>1 DEF Working, ByTarget
      <4> QED BY <4>1 DEF Exchange
    <3>2. CASE GoingOn
      <4>1. GoingOn'
        BY <1>1, <1>5, <2>2, <2>6, <2>7, <3>2 DEF GoingOn, Answering, Executed, ByTarget
      <4> QED BY <4>1 DEF Exchange
    <3> QED BY <1>5, <2>7, <3>1, <3>2
  <2>8. ~(air'.to = "ini" /\ air'.pdu.type = "ATN")
    BY <1>3, <2>3
  <2> QED BY <1>1, <1>4, <2>2, <2>4, <2>5, <2>7, <2>8, TargetPhase
<1> QED BY <1>1, <1>6, <1>7

-----------------------------------------------------------------------------
(* What the target makes of a PDU.                                         *)

\* What a target that has received a PDU keeps: an answer is not forgotten, and what it
\* sends goes to the initiator.
Received ==
  /\ AnswerNotForgotten' /\ tgt'.parts = tgt.parts
  /\ air' = air \/ air'.to # "tgt"

LEMMA RepliesReceived ==
  ASSUME NEW p \in TgtState, NEW b, Replies(p, b), p.parts = tgt.parts,
         p.pending => p.wait \/ p.state \in {"TX", "IDLE", "SLEEP"}
  PROVE  Received
<1>1. tgt' = Sends(p, b) /\ air' \in Sent("ini", b)
  BY DEF Replies
<1>2. /\ tgt'.parts = p.parts /\ tgt'.pending = p.pending /\ tgt'.wait = p.wait
      /\ tgt'.state = p.state
  BY <1>1, TgtSendsFields
<1>3. air'.to # "tgt"
  BY ONLY <1>1, SentFrame
<1> QED BY <1>2, <1>3 DEF Received, AnswerNotForgotten

LEMMA SilentReceived ==
  ASSUME NEW p, tgt' = p, air' = Silence, p.parts = tgt.parts,
         p.pending => p.wait \/ p.state \in {"TX", "IDLE", "SLEEP"}
  PROVE  Received
  BY SilenceFacts DEF Received, AnswerNotForgotten

LEMMA ReceiveBasics ==
  ASSUME TypeOK, AnswerNotForgotten, TargetReceive PROVE Received
<1>0. tgt \in TgtState /\ (tgt.state = "RX" /\ tgt.pending => tgt.wait)
      /\ (tgt.pending => tgt.wait \/ tgt.state \in {"TX", "IDLE", "SLEEP"})
  BY TypeFacts DEF AnswerNotForgotten
<1>1. \/ tgt.state = "RX" /\ air.pdu.type = "I" /\ TargetI(air.pdu)
      \/ tgt.state = "LISTEN" /\ TargetATR
      \/ tgt.state = "WAIT_ACTV" /\ TargetActivation
      \/ tgt.state = "RX" /\ TargetControl(air.pdu)
  BY DEF TargetReceive, Hears
<1>2. CASE Ignore
  BY <1>0, <1>2, SilentReceived DEF Ignore
<1>3. CASE tgt.state = "RX" /\ TargetRepeats
  <2> DEFINE q == [tgt EXCEPT !.pni = PNIDec(@), !.state = "TX"]
  <2>1. q.state = "TX" /\ q.parts = tgt.parts
    BY <1>0, RepeatsFields DEF SameTgt
  <2>2. tgt' = q /\ air' = Silence
    BY <1>3 DEF TargetRepeats
  <2> HIDE DEF q
  <2> QED BY <2>1, <2>2, SilentReceived
<1>4. CASE Reports(tgt)
  <2> DEFINE q == [tgt EXCEPT !.state = "IDLE"]
  <2>1. q.state = "IDLE" /\ q.parts = tgt.parts
    BY <1>0, TgtStateFields DEF SameTgt
  <2>2. tgt' = q /\ air' = Silence
    BY <1>4 DEF Reports
  <2> HIDE DEF q
  <2> QED BY <2>1, <2>2, SilentReceived
<1>5. CASE tgt.state = "RX" /\ air.pdu.type = "I" /\ TargetI(air.pdu)
  <2> DEFINE b == air.pdu
             p == GotPart(b.inf)
             q == [p EXCEPT !.pni = PNIInc(@)]
             r == [p EXCEPT !.state = "RTOX", !.owes = "answer", !.todo = b.inf[1]]
  <2>1. b.inf \in Part
    BY <1>5, Fields, ReceivedPdu
  <2>2. /\ q \in TgtState /\ q.state = tgt.state /\ q.pending = tgt.pending /\ q.wait = tgt.wait
        /\ q.parts = tgt.parts
        /\ r.pending = tgt.pending /\ r.wait = tgt.wait /\ r.parts = tgt.parts
    BY <1>0, <2>1, GotPartFields DEF SameTgt
  <2>3. \/ Replies(tgt, ACK(b.pni)) \/ TargetRepeats \/ Ignore
        \/ Replies(q, ACK(tgt.pni))
        \/ air' = Silence /\ tgt' = r
    BY <1>5 DEF TargetI, GotPart
  <2> HIDE DEF q, r
  <2>4. CASE Replies(tgt, ACK(b.pni))
    BY <1>0, <2>4, RepliesReceived
  <2>5. CASE Replies(q, ACK(tgt.pni))
    BY <1>0, <1>5, <2>2, <2>5, RepliesReceived
  <2>6. CASE air' = Silence /\ tgt' = r
    BY <1>0, <1>5, <2>2, <2>6, SilentReceived
  <2> QED BY <1>2, <1>3, <1>5, <2>3, <2>4, <2>5, <2>6
<1>6. CASE tgt.state = "LISTEN" /\ TargetATR
  <2> DEFINE q == [tgt EXCEPT !.state = "WAIT_ACTV"]
  <2>1. /\ q \in TgtState /\ q.parts = tgt.parts /\ q.pending = tgt.pending /\ q.wait = tgt.wait
    BY <1>0, TgtStateFields DEF SameTgt
  <2>2. Replies(q, Frame("ATR")) \/ Ignore
    BY <1>6 DEF TargetATR
  <2> HIDE DEF q
  <2>3. CASE Replies(q, Frame("ATR"))
    BY <1>0, <1>6, <2>1, <2>3, RepliesReceived
  <2> QED BY <1>2, <2>2, <2>3
<1>7. CASE tgt.state = "WAIT_ACTV" /\ TargetActivation
  <2> DEFINE q == [tgt EXCEPT !.state = "RX", !.br = "high"]
             r == [tgt EXCEPT !.state = "RX"]
  <2>1. /\ q \in TgtState /\ q.parts = tgt.parts /\ q.pending = tgt.pending /\ q.wait = tgt.wait
        /\ r.parts = tgt.parts /\ r.pending = tgt.pending /\ r.wait = tgt.wait
    BY <1>0, PslFields, TgtStateFields DEF SameTgt
  <2>2. Replies(q, Frame("PSL")) \/ Ignore \/ (tgt' = r /\ air' = air)
    BY <1>7 DEF TargetActivation
  <2> HIDE DEF q, r
  <2>3. CASE Replies(q, Frame("PSL"))
    BY <1>0, <1>7, <2>1, <2>3, RepliesReceived
  <2>4. CASE tgt' = r /\ air' = air
    BY <1>0, <1>7, <2>1, <2>4 DEF Received, AnswerNotForgotten
  <2> QED BY <1>2, <2>2, <2>3, <2>4
<1>8. CASE tgt.state = "RX" /\ TargetControl(air.pdu)
  <2> DEFINE q == [tgt EXCEPT !.state = "RTOX", !.owes = "part"]
             r == [tgt EXCEPT !.wait = FALSE, !.state = IF tgt.pending THEN "TX" ELSE "RTOX"]
             s == [tgt EXCEPT !.state = "SLEEP"]
             t == [tgt EXCEPT !.state = "IDLE"]
  <2>1. /\ q.parts = tgt.parts /\ q.pending = tgt.pending /\ q.wait = tgt.wait
        /\ r.parts = tgt.parts /\ r.pending = tgt.pending
        /\ r.state = (IF tgt.pending THEN "TX" ELSE "RTOX")
        /\ s \in TgtState /\ s.parts = tgt.parts /\ s.state = "SLEEP"
        /\ t \in TgtState /\ t.parts = tgt.parts /\ t.state = "IDLE"
    <3>1. q.parts = tgt.parts /\ q.pending = tgt.pending /\ q.wait = tgt.wait
      BY ONLY <1>0, AckedFields DEF SameTgt
    <3>2. /\ r.parts = tgt.parts /\ r.pending = tgt.pending
          /\ r.state = (IF tgt.pending THEN "TX" ELSE "RTOX")
      BY ONLY <1>0, ConfirmedFields DEF SameTgt
    <3>3. /\ s \in TgtState /\ s.parts = tgt.parts /\ s.state = "SLEEP"
          /\ t \in TgtState /\ t.parts = tgt.parts /\ t.state = "IDLE"
      BY ONLY <1>0, TgtStateFields DEF SameTgt
    <3> HIDE DEF q, r, s, t
    <3> QED BY ONLY <3>1, <3>2, <3>3
  <2>2. \/ air' = Silence /\ tgt' = q
        \/ air' = Silence /\ tgt' = r
        \/ Replies(s, air.pdu) \/ Replies(t, air.pdu) \/ Replies(tgt, Frame("ATN"))
        \/ TargetRepeats \/ Ignore \/ Reports(tgt)
    <3>1. CASE air.pdu.type = "ACK"
      BY <1>8, <3>1 DEF TargetControl, TargetACK
    <3>2. CASE air.pdu.type = "NACK"
      BY <1>8, <3>2 DEF TargetControl, TargetNACK
    <3>3. CASE air.pdu.type = "TO"
      BY <1>8, <3>3 DEF TargetControl, TargetTO
    <3>4. CASE air.pdu.type \notin {"ACK", "NACK", "TO"}
      BY <1>8, <3>4 DEF TargetControl
    <3> QED BY <3>1, <3>2, <3>3, <3>4
  <2> HIDE DEF q, r, s, t
  <2>3. CASE air' = Silence /\ tgt' = q
    BY <1>0, <1>8, <2>1, <2>3, SilentReceived
  <2>4. CASE air' = Silence /\ tgt' = r
    BY <1>0, <2>1, <2>4, SilentReceived
  <2>5. CASE Replies(s, air.pdu) \/ Replies(t, air.pdu)
    BY <2>1, <2>5, RepliesReceived
  <2>6. CASE Replies(tgt, Frame("ATN"))
    BY <1>0, <2>6, RepliesReceived
  <2> QED BY <1>2, <1>3, <1>4, <1>8, <2>2, <2>3, <2>4, <2>5, <2>6
<1> QED BY <1>1, <1>5, <1>6, <1>7, <1>8

\* A target executes commands that were asked.
LEMMA ReceiveExecutes ==
  ASSUME Basics, TypeOK', TargetReceive PROVE Basics' /\ ByTarget
<1>1. ByTarget
  BY DEF TargetReceive, ByTarget
<1>2. AnswerNotForgotten' /\ tgt'.parts = tgt.parts
  BY ReceiveBasics DEF Basics, Received
<1>3. asked \in Nat /\ executed \in Seq(Nat)
  BY TypeFacts DEF Basics
<1>4. executed' = executed \/ \E n \in {0, asked} : executed' = Append(executed, n)
  BY DEF TargetReceive, TargetI
<1>5. \A i \in 1..Len(executed) : executed[i] <= asked
  BY DEF Basics
<1>6. \A i \in 1..Len(executed') : executed'[i] <= asked
  <2>1. CASE executed' = executed
    BY <1>5, <2>1
  <2>2. ASSUME NEW n \in {0, asked}, executed' = Append(executed, n)
        PROVE  \A i \in 1..Len(executed') : executed'[i] <= asked
    BY ONLY <1>3, <1>5, <2>2
  <2> QED BY <1>4, <2>1, <2>2
<1> QED BY <1>1, <1>2, <1>6 DEF Basics, ByTarget

\* The target's part of an activation.
LEMMA ReceiveOpening ==
  ASSUME IInv, TypeOK', TargetReceive, call \in {"atr", "psl"} PROVE Opening'
<1>0. TypeOK /\ tgt \in TgtState
  BY TypeFacts DEF IInv, Basics
<1>1. Opening /\ TgtFresh /\ air.to = "tgt"
  BY DEF IInv, Phase, Opening, TargetReceive
<1>2. ini' = ini /\ call' = call
  BY DEF TargetReceive
<1>3. CASE call = "atr"
  <2>1. /\ ini.pni = 0 /\ ini.br = "low" /\ tgt.br = "low"
        /\ tgt.state \in {"LISTEN", "WAIT_ACTV", "RX"}
        /\ air.pdu \in {Frame("ATR"), Frame("damaged")}
    BY <1>1, <1>3 DEF Opening, Carries
  <2>2. air.pdu.type \in {"ATR", "damaged"}
    BY <2>1, PduFields
  <2> DEFINE q == [tgt EXCEPT !.state = "WAIT_ACTV"]
             r == [tgt EXCEPT !.state = "RX"]
  <2>3. /\ q \in TgtState /\ q.state = "WAIT_ACTV" /\ q.br = tgt.br /\ q.pni = tgt.pni
        /\ q.owes = tgt.owes /\ q.pending = tgt.pending /\ q.wait = tgt.wait /\ q.got = tgt.got
        /\ r.state = "RX" /\ r.br = tgt.br /\ r.pni = tgt.pni
        /\ r.owes = tgt.owes /\ r.pending = tgt.pending /\ r.wait = tgt.wait /\ r.got = tgt.got
    BY <1>0, TgtStateFields DEF SameTgt
  <2>4. \/ tgt' = tgt /\ air' = Silence
        \/ tgt.state = "LISTEN" /\ Replies(q, Frame("ATR"))
        \/ tgt.state = "WAIT_ACTV" /\ tgt' = r /\ air' = air
    BY <2>1, <2>2 DEF TargetReceive, TargetATR, TargetActivation, TargetControl, Ignore
  <2> HIDE DEF q, r
  <2>5. CASE tgt' = tgt /\ air' = Silence
    BY <1>1, <1>2, <1>3, <2>1, <2>5, SilenceFacts DEF Opening, TgtFresh, TgtQuiet, Carries
  <2>6. CASE tgt.state = "LISTEN" /\ Replies(q, Frame("ATR"))
    <3>1. tgt' = Sends(q, Frame("ATR")) /\ air' \in Sent("ini", Frame("ATR"))
      BY <2>6 DEF Replies
    <3>2. /\ tgt'.state = "WAIT_ACTV" /\ tgt'.br = tgt.br /\ tgt'.pni = tgt.pni
          /\ tgt'.owes = tgt.owes /\ tgt'.pending = tgt.pending /\ tgt'.wait = tgt.wait
          /\ tgt'.got = tgt.got
      BY <2>3, <3>1, TgtSendsFields
    <3>3. \/ air'.to = "ini" /\ air'.pdu \in {Frame("ATR"), Frame("damaged")}
          \/ air'.to = "none" /\ air'.pdu = Frame("damaged")
      BY ONLY <3>1, SentFrame
    <3> QED BY <1>1, <1>2, <1>3, <2>1, <3>2, <3>3 DEF Opening, TgtFresh, TgtQuiet, Carries
  <2>7. CASE tgt.state = "WAIT_ACTV" /\ tgt' = r /\ air' = air
    BY <1>1, <1>2, <1>3, <2>1, <2>3, <2>7 DEF Opening, TgtFresh, TgtQuiet, Carries
  <2> QED BY <2>4, <2>5, <2>6, <2>7
<1>4. CASE call = "psl"
  <2>1. /\ ini.pni = 0 /\ tgt.state = "WAIT_ACTV" /\ tgt.br = "low"
        /\ air.pdu \in {Frame("PSL"), Frame("damaged")}
    BY <1>1, <1>4 DEF Opening, Carries
  <2>2. air.pdu.type \in {"PSL", "damaged"}
    BY <2>1, PduFields
  <2> DEFINE q == [tgt EXCEPT !.state = "RX", !.br = "high"]
  <2>3. /\ q \in TgtState /\ q.state = "RX" /\ q.br = "high" /\ q.pni = tgt.pni
        /\ q.owes = tgt.owes /\ q.pending = tgt.pending /\ q.wait = tgt.wait /\ q.got = tgt.got
    BY <1>0, PslFields
  <2>4. (tgt' = tgt /\ air' = Silence) \/ Replies(q, Frame("PSL"))
    BY <2>1, <2>2 DEF TargetReceive, TargetActivation, Ignore
  <2> HIDE DEF q
  <2>5. CASE tgt' = tgt /\ air' = Silence
    BY <1>1, <1>2, <1>4, <2>1, <2>5, SilenceFacts DEF Opening, TgtFresh, TgtQuiet, Carries
  <2>6. CASE Replies(q, Frame("PSL"))
    <3>1. tgt' = Sends(q, Frame("PSL")) /\ air' \in Sent("ini", Frame("PSL"))
      BY <2>6 DEF Replies
    <3>2. /\ tgt'.state = "RX" /\ tgt'.br = "high" /\ tgt'.pni = tgt.pni
          /\ tgt'.owes = tgt.owes /\ tgt'.pending = tgt.pending /\ tgt'.wait = tgt.wait
          /\ tgt'.got = tgt.got
      BY <2>3, <3>1, TgtSendsFields
    <3>3. \/ air'.to = "ini" /\ air'.pdu \in {Frame("PSL"), Frame("damaged")}
          \/ air'.to = "none" /\ air'.pdu = Frame("damaged")
      BY ONLY <3>1, SentFrame
    <3> QED BY <1>1, <1>2, <1>4, <2>1, <3>2, <3>3 DEF Opening, TgtFresh, TgtQuiet, Carries
  <2> QED BY <2>4, <2>5, <2>6
<1> QED BY <1>3, <1>4

\* What reaches the target during an exchange, and at which stages.
LEMMA TgtReceives ==
  ASSUME IInv, call = "transceive", air.to = "tgt", Hears
  PROVE  LET b == air.pdu IN
         /\ ini.state = "RX"
         /\ tgt.state \in {"WAIT_ACTV", "RX"} /\ (tgt.state = "WAIT_ACTV" => Offered /\ tgt.pni = 0)
         /\ b.type \in {"I", "ACK", "NACK", "ATN", "TO", "damaged"}
         /\ b.type # "damaged" => ini.last = b.type
         /\ b.type = "I" => b = IniPart /\ (Offered \/ (Taken /\ tgt.last = "ATN") \/ Delivering)
         /\ b.type = "ACK" => b = ACK(ini.pni) /\ PartRead
         /\ b.type = "NACK" => b = NACK(ini.pni) /\ (Offered \/ Waits \/ Delivering)
         /\ b.type = "TO" => (Waits /\ tgt.lastN = "TO") \/ Delivering
         /\ b.type # "ACK" => ~PartRead
         /\ Offered \/ Taken \/ Waits \/ Delivering \/ PartRead
<1> USE PduFields
<1>1. Exchange /\ LastSent
  BY DEF IInv, Phase
<1>2. /\ air.pdu.type \in DepTypes => ini.last = air.pdu.type
  BY <1>1 DEF LastSent
<1>3. IniPart.type = "I"
  BY DEF IniPart
<1>4. ~PartRead \/ air.pdu.type = "ACK"
  BY DEF PartRead
<1>5. CASE Offered
  <2>1. air.pdu \in {IniPart, Frame("ATN"), NACK(ini.pni), Frame("damaged")} /\ ini.state = "RX"
        /\ TgtListens
    BY <1>5 DEF Offered, Carries
  <2> QED BY <1>2, <1>3, <1>4, <1>5, <2>1 DEF DepTypes, TgtListens
<1>6. CASE Taken
  <2>1. air.pdu \in {IniPart, Frame("ATN"), Frame("damaged")} /\ ini.state = "RX"
        /\ tgt.state = "RX" /\ (air.pdu.type = "I" => tgt.last = "ATN")
    BY <1>6 DEF Taken, Carries
  <2> QED BY <1>2, <1>3, <1>4, <1>6, <2>1 DEF DepTypes
<1>7. CASE Waits
  <2>1. /\ air.pdu \in {Frame("TO"), Frame("ATN"), NACK(ini.pni), Frame("damaged")}
        /\ ini.state = "RX" /\ tgt.state = "RX" /\ tgt.lastN = "TO"
    BY <1>7 DEF Waits, Carries, Hears
  <2> QED BY <1>2, <1>4, <1>7, <2>1 DEF DepTypes
<1>8. CASE Delivering
  <2>1. /\ air.pdu \in {IniPart, Frame("TO"), Frame("ATN"), NACK(ini.pni), Frame("damaged")}
        /\ ini.state = "RX" /\ tgt.state = "RX"
    BY <1>8 DEF Delivering, Carries
  <2> QED BY <1>2, <1>3, <1>4, <1>8, <2>1 DEF DepTypes
<1>9. CASE PartRead
  <2>1. ini.state = "RX" /\ tgt.state = "RX" /\ air.pdu = ACK(ini.pni)
    BY <1>9 DEF PartRead
  <2> QED BY <1>2, <1>9, <2>1 DEF DepTypes
<1>10. ~Gone
  BY DEF Gone, Hears
<1> QED BY <1>1, <1>5, <1>6, <1>7, <1>8, <1>9, <1>10 DEF Exchange, Working, Sending, GoingOn

\* Which conclusions an exchange needs of a step of the target.
ExchangeGoesOn ==
  /\ Exchange' /\ tgt'.br = tgt.br
  /\ air' = air \/ (air'.to = "ini" /\ air'.pdu.type = "ATN" => ini.last = "ATN")

\* A PDU that is ignored.
LEMMA IgnoredExchange ==
  ASSUME Exchange, air.to = "tgt", ~PartRead, ini.state = "RX", ByTarget, executed' = executed,
         tgt' = tgt, air' = Silence
  PROVE  ExchangeGoesOn
<1>0. air'.to = "none"
  BY SilenceFacts
<1> USE DEF ByTarget
<1>1. CASE Offered
  <2>1. Offered'
    BY <1>0, <1>1 DEF Offered, Equal, TgtListens, TgtQuiet, NotExecuted, Carries
  <2> QED BY <1>0, <2>1 DEF ExchangeGoesOn, Exchange
<1>2. CASE Taken
  <2>1. Taken'
    BY <1>0, <1>2 DEF Taken, Ahead, TgtQuiet, NotExecuted, Carries
  <2> QED BY <1>0, <2>1 DEF ExchangeGoesOn, Exchange
<1>3. ASSUME Waits PROVE Waits'
  BY <1>0, <1>3 DEF Waits, Equal, Executed, Carries
<1>4. CASE Working
  <2>1. Working'
    BY <1>3, <1>4 DEF Working
  <2> QED BY <1>0, <2>1 DEF ExchangeGoesOn, Exchange
<1>5. CASE Sending
  <2>1. Sending'
    BY <1>3, <1>5 DEF Sending, Answering, Executed
  <2> QED BY <1>0, <2>1 DEF ExchangeGoesOn, Exchange
<1>6. CASE GoingOn
  <2>1. GoingOn'
    BY <1>3, <1>6 DEF GoingOn, Answering, Executed
  <2> QED BY <1>0, <2>1 DEF ExchangeGoesOn, Exchange
<1>7. CASE Delivering
  <2>1. Delivering'
    BY <1>0, <1>7 DEF Delivering, Answering, Executed, Ahead, TgtQuiet, Carries
  <2> QED BY <1>0, <2>1 DEF ExchangeGoesOn, Exchange
<1>8. CASE Gone
  <2>1. Gone'
    BY <1>0, <1>8 DEF Gone, Executed
  <2> QED BY <1>0, <2>1 DEF ExchangeGoesOn, Exchange
<1> QED BY <1>1, <1>2, <1>4, <1>5, <1>6, <1>7, <1>8 DEF Exchange

\* What a PDU of the target that does not change how far the exchange is leaves.
SameExchange(last) ==
  /\ tgt'.state = tgt.state /\ tgt'.pni = tgt.pni /\ SameTgt(tgt, tgt')
  /\ tgt'.owes = tgt.owes /\ tgt'.pending = tgt.pending /\ tgt'.wait = tgt.wait
  /\ tgt'.got = tgt.got /\ tgt'.last = last

LEMMA RepliesSame ==
  ASSUME tgt \in TgtState, NEW b, b.type \in DepTypes, Replies(tgt, b)
  PROVE  /\ SameExchange(b.type)
         /\ tgt'.lastN = IF b.type = "ATN" THEN tgt.lastN ELSE b.type
         /\ air' \in Sent("ini", b)
<1>1. tgt' = Sends(tgt, b) /\ air' \in Sent("ini", b)
  BY DEF Replies
<1>2. Last(b) = b.type /\ LastN(tgt, b) = IF b.type = "ATN" THEN tgt.lastN ELSE b.type
  BY DEF Last, LastN
<1> QED BY <1>1, <1>2, TgtSendsFields DEF SameExchange, SameTgt

\* The answer to an ATN.
LEMMA AtnExchange ==
  ASSUME LinksKeepChains, TypeOK, setup \in Setups, ini.parts <= setup.parts, Exchange,
         air.to = "tgt", ~PartRead, ini.state = "RX", ini.last = "ATN", ByTarget,
         executed' = executed, Replies(tgt, Frame("ATN")), tgt.state \in {"WAIT_ACTV", "RX"}
  PROVE  ExchangeGoesOn
<1>0. Frame("ATN").type = "ATN" /\ "ATN" \in DepTypes /\ Frame("damaged").type = "damaged"
  BY PduFields DEF DepTypes
<1>1. /\ SameExchange("ATN") /\ tgt'.lastN = tgt.lastN /\ air' \in Sent("ini", Frame("ATN"))
  BY <1>0, RepliesSame, TypeFacts
<1>2. \/ air'.to = "ini" /\ air'.pdu \in {Frame("ATN"), Frame("damaged")}
      \/ air'.to = "none" /\ air'.pdu = Frame("damaged")
  BY ONLY <1>1, SentFrame
<1>3. /\ tgt'.state = tgt.state /\ tgt'.pni = tgt.pni
      /\ tgt'.br = tgt.br /\ tgt'.mi = tgt.mi /\ tgt'.todo = tgt.todo /\ tgt'.reply = tgt.reply
      /\ tgt'.parts = tgt.parts /\ tgt'.pos = tgt.pos
      /\ tgt'.owes = tgt.owes /\ tgt'.pending = tgt.pending /\ tgt'.wait = tgt.wait
      /\ tgt'.got = tgt.got /\ tgt'.last = "ATN"
  BY ONLY <1>1 DEF SameExchange, SameTgt
<1> USE DEF ByTarget
<1>4. CASE Offered
  <2>1. Offered'
    BY <1>2, <1>3, <1>4 DEF Offered, Equal, TgtListens, TgtQuiet, NotExecuted, Carries
  <2> QED BY <1>3, <2>1 DEF ExchangeGoesOn, Exchange
<1>5. CASE Taken
  <2>1. setup.parts \in Nat /\ setup.parts > 1
    <3>1. setup.parts \in Nat /\ ini.parts \in Nat /\ ini.pos \in Nat /\ ini.pos + 1 < ini.parts
      BY <1>5, SetupAssumption, Fields DEF Taken
    <3> QED BY ONLY <3>1, ini.parts <= setup.parts
  <2>2. <<"damage", "ini", Frame("ATN").type>> \notin setup.faults
    BY <1>0, <2>1, ChainFaults
  <2>3. air'.to = "ini" => air'.pdu = Frame("ATN")
    BY <1>1, <2>2, SentArrives
  <2>4. Taken'
    BY <1>0, <1>2, <1>3, <1>5, <2>3 DEF Taken, Ahead, TgtQuiet, NotExecuted, Carries
  <2> QED BY <1>3, <2>4 DEF ExchangeGoesOn, Exchange
<1>6. ASSUME Waits PROVE Waits'
  <2>1. tgt.state = "RX" /\ tgt.wait
    BY <1>6, Fields DEF Waits
  <2> QED BY <1>0, <1>1, <1>2, <1>3, <1>6, <2>1 DEF Waits, Equal, Executed, Carries
<1>7. CASE Working
  <2>1. Working'
    BY <1>3, <1>6, <1>7 DEF Working
  <2> QED BY <1>3, <2>1 DEF ExchangeGoesOn, Exchange
<1>8. CASE Sending
  <2>1. Sending'
    BY <1>3, <1>6, <1>8 DEF Sending, Answering, Executed
  <2> QED BY <1>3, <2>1 DEF ExchangeGoesOn, Exchange
<1>9. CASE GoingOn
  <2>1. GoingOn'
    BY <1>3, <1>6, <1>9 DEF GoingOn, Answering, Executed
  <2> QED BY <1>3, <2>1 DEF ExchangeGoesOn, Exchange
<1>10. CASE Delivering
  <2>1. Delivering'
    BY <1>1, <1>2, <1>3, <1>10 DEF Delivering, Answering, Executed, Ahead, TgtQuiet, Carries
  <2> QED BY <1>3, <2>1 DEF ExchangeGoesOn, Exchange
<1>11. CASE Gone
  <2>1. FALSE
    BY <1>11 DEF Gone
  <2> QED BY <2>1
<1> QED BY <1>4, <1>5, <1>7, <1>8, <1>9, <1>10, <1>11 DEF Exchange

\* The last PDU of the target again: the part that it delivers is to be sent again.
LEMMA RepeatsExchange ==
  ASSUME LinksKeepChains, TypeOK, setup \in Setups, Delivering, air.to = "tgt", ini.state = "RX",
         ByTarget, executed' = executed, TargetRepeats,
         ini.last # "ATN"
  PROVE  ExchangeGoesOn
<1> DEFINE q == [tgt EXCEPT !.pni = PNIDec(@), !.state = "TX"]
<1>1. tgt' = q /\ air' = Silence
  BY DEF TargetRepeats
<1>2. /\ q.state = "TX" /\ q.pni = PNIDec(tgt.pni) /\ q.br = tgt.br /\ q.mi = tgt.mi
      /\ q.reply = tgt.reply /\ q.parts = tgt.parts /\ q.pos = tgt.pos
      /\ q.owes = tgt.owes /\ q.pending = tgt.pending /\ q.wait = tgt.wait /\ q.got = tgt.got
  BY ONLY TypeOK, TypeFacts, RepeatsFields DEF SameTgt
<1> HIDE DEF q
<1>3. Ahead /\ TgtQuiet /\ Answering /\ ini.got = Parts(asked, tgt.pos)
  BY DEF Delivering
<1>4. tgt'.pni = ini.pni
  <2>1. ini.pni \in 0..3
    BY Fields
  <2> QED BY ONLY <1>1, <1>2, <1>3, <2>1, PniFacts DEF Ahead
<1>5. air'.to = "none"
  BY <1>1, SilenceFacts
<1>6. Answering' /\ Executed'
  BY <1>1, <1>2, <1>3 DEF Answering, Executed, ByTarget
<1>7. Waits'
  BY <1>1, <1>2, <1>3, <1>4, <1>5, <1>6 DEF Waits, Equal, TgtQuiet, Answering, ByTarget
<1>8. Sending'
  BY <1>1, <1>2, <1>3, <1>6, <1>7 DEF Sending, TgtQuiet, ByTarget
<1> QED BY <1>1, <1>2, <1>5, <1>8 DEF ExchangeGoesOn, Exchange

\* The first request of a session.
LEMMA FirstRequest ==
  ASSUME IInv, call = "transceive", air.to = "tgt", Hears, ByTarget, executed' = executed,
         tgt.state = "WAIT_ACTV", TargetActivation
  PROVE  ExchangeGoesOn
<1>1. /\ Exchange /\ Offered /\ tgt.pni = 0 /\ ini.state = "RX" /\ ~PartRead
      /\ air.pdu.type # "PSL"
      /\ air.pdu.type = "I" => air.pdu = IniPart
  BY TgtReceives DEF IInv, Phase, PartRead
<1>2. ~(air.pdu.type = "I" /\ air.pdu.pni # 0)
  BY <1>1, PduFields DEF Offered, Equal, IniPart
<1> DEFINE r == [tgt EXCEPT !.state = "RX"]
<1>3. (tgt' = tgt /\ air' = Silence) \/ (tgt' = r /\ air' = air)
  BY <1>1, <1>2 DEF TargetActivation, Ignore
<1>4. /\ r.state = "RX" /\ r.br = tgt.br /\ r.pni = tgt.pni
      /\ r.owes = tgt.owes /\ r.pending = tgt.pending /\ r.wait = tgt.wait /\ r.got = tgt.got
  BY TypeFacts, TgtStateFields DEF SameTgt, IInv, Basics
<1> HIDE DEF r
<1>5. CASE tgt' = tgt /\ air' = Silence
  BY <1>1, <1>5, IgnoredExchange
<1>6. CASE tgt' = r /\ air' = air
  <2>1. Offered'
    BY <1>1, <1>4, <1>6 DEF Offered, Equal, TgtListens, TgtQuiet, NotExecuted, Carries, IniPart,
                            ByTarget
  <2> QED BY <1>4, <1>6, <2>1 DEF ExchangeGoesOn, Exchange
<1> QED BY <1>3, <1>5, <1>6

\* The acknowledgement of the initiator's part, which the target has.
LEMMA PartAcknowledged ==
  ASSUME LinksKeepChains, TypeOK, setup \in Setups, ini.parts <= setup.parts,
         ini.state = "RX", ini.lastN = "I", ini.last \in {"I", "ATN"}, NotExecuted,
         ini.mi, ini.pos + 1 < ini.parts, ini.got = <<>>, ByTarget, executed' = executed,
         NEW q \in TgtState, Replies(q, ACK(ini.pni)), q.pni = PNIInc(ini.pni), q.state = "RX",
         q.owes = "none", ~q.pending, ~q.wait, q.got = Parts(asked, ini.pos + 1),
         q.br = tgt.br
  PROVE  ExchangeGoesOn
<1> DEFINE b == ACK(ini.pni)
<1>1. b.type = "ACK"
  BY PduFields
<1> HIDE DEF b
<1>2. tgt' = Sends(q, b) /\ air' \in Sent("ini", b)
  BY DEF Replies, b
<1>3. setup.parts \in Nat /\ setup.parts > 1
  <2>1. setup.parts \in Nat /\ ini.parts \in Nat /\ ini.pos \in Nat
    BY SetupAssumption, Fields
  <2> QED BY ONLY <2>1, ini.parts <= setup.parts, ini.pos + 1 < ini.parts
<1>4. <<"damage", "ini", b.type>> \notin setup.faults
  BY <1>1, <1>3, ChainFaults
<1>5. \/ air'.to = "ini" /\ air'.pdu \in {b, Frame("damaged")}
      \/ air'.to = "none" /\ air'.pdu = Frame("damaged")
  BY ONLY <1>2, SentFrame
<1>6. air'.to = "ini" => air'.pdu = b
  BY <1>2, <1>4, SentArrives
<1>7. /\ tgt'.state = "RX" /\ tgt'.pni = PNIInc(ini.pni) /\ tgt'.owes = "none"
      /\ ~tgt'.pending /\ ~tgt'.wait /\ tgt'.got = Parts(asked, ini.pos + 1)
      /\ tgt'.br = tgt.br
  BY <1>2, TgtSendsFields
<1>8. Taken'
  BY <1>1, <1>5, <1>6, <1>7 DEF Taken, Ahead, TgtQuiet, NotExecuted, Carries, ByTarget, b
<1>9. ~(air'.to = "ini" /\ air'.pdu.type = "ATN")
  BY <1>1, <1>6
<1> QED BY <1>7, <1>8, <1>9 DEF ExchangeGoesOn, Exchange

\* The last part of a command: the target executes the command.
LEMMA CommandComplete ==
  ASSUME TypeOK, ini.state = "RX", ini.last = "I", Offered, ~ini.mi, air.to = "tgt", ByTarget,
         air' = Silence, tgt' = [GotPart(<<asked, ini.pos + 1>>) EXCEPT
                                   !.state = "RTOX", !.owes = "answer", !.todo = asked],
         executed' = Append(executed,
                            IF Whole(Append(tgt.got, <<asked, ini.pos + 1>>), asked, ini.parts)
                            THEN asked ELSE 0)
  PROVE  ExchangeGoesOn
<1> DEFINE inf == <<asked, ini.pos + 1>>
           r == [GotPart(inf) EXCEPT !.state = "RTOX", !.owes = "answer", !.todo = inf[1]]
<1>1. /\ ini.pos \in Nat /\ ini.parts \in Nat /\ asked \in Nat /\ executed \in Seq(Nat)
      /\ tgt \in TgtState
  BY Fields, TypeFacts
<1>2. inf \in Part /\ inf[1] = asked
  BY <1>1 DEF Part
<1>3. tgt' = r
  BY <1>2
<1>4. /\ r.state = "RTOX" /\ r.owes = "answer" /\ r.todo = asked /\ r.pni = tgt.pni
      /\ r.br = tgt.br /\ r.pending = tgt.pending /\ r.wait = tgt.wait
  BY <1>1, <1>2, GotPartFields
<1> HIDE DEF r, inf
<1>5. /\ Equal /\ TgtQuiet /\ ini.got = <<>> /\ tgt.got = Parts(asked, ini.pos)
      /\ ini.pos < ini.parts /\ ~(ini.pos + 1 < ini.parts)
  BY DEF Offered
<1>6. ini.parts = ini.pos + 1
  BY ONLY <1>1, <1>5
<1>7. Whole(Append(tgt.got, inf), asked, ini.parts)
  BY <1>1, <1>5, <1>6, PartsFacts DEF inf
<1>8. executed' = Append(executed, asked)
  BY <1>7 DEF inf
<1>9. \E i \in 1..Len(executed') : executed'[i] = asked
  BY ONLY <1>1, <1>8
<1>10. air'.to = "none"
  BY SilenceFacts
<1>11. Working'
  <2>1. Executed'
    BY <1>9 DEF Executed, ByTarget
  <2>2. Waits'
    BY <1>3, <1>4, <1>5, <1>10, <2>1 DEF Waits, Equal, TgtQuiet, ByTarget
  <2> QED BY <1>3, <1>4, <1>5, <2>2 DEF Working, TgtQuiet, ByTarget
<1> QED BY <1>3, <1>4, <1>10, <1>11 DEF ExchangeGoesOn, Exchange

\* An I-PDU.
LEMMA IExchange ==
  ASSUME LinksKeepChains, IInv, call = "transceive", air.to = "tgt", Hears, ByTarget,
         tgt.state = "RX", air.pdu.type = "I", TargetI(air.pdu)
  PROVE  ExchangeGoesOn
<1> DEFINE inf == <<asked, ini.pos + 1>>
<1>0. /\ TypeOK /\ setup \in Setups /\ ini.parts <= setup.parts /\ Exchange /\ LastSent
      /\ tgt \in TgtState
  BY TypeFacts DEF IInv, Basics, Phase
<1>1. /\ ini.state = "RX" /\ ini.last = "I" /\ air.pdu = IniPart /\ ~PartRead
      /\ Offered \/ (Taken /\ tgt.last = "ATN") \/ Delivering
  BY TgtReceives
<1>2. ini.lastN = "I"
  BY <1>0, <1>1 DEF LastSent
<1>3. /\ air.pdu.pni = ini.pni /\ air.pdu.mi = ini.mi /\ air.pdu.inf = inf
  BY <1>1, PduFields DEF IniPart
<1>4. /\ ini.pos \in Nat /\ ini.parts \in Nat /\ asked \in Nat /\ ini.pni \in 0..3
      /\ inf \in Part /\ inf[1] = asked
  <2>1. ini.pos \in Nat /\ ini.parts \in Nat /\ asked \in Nat /\ ini.pni \in 0..3
    BY ONLY <1>0, Fields, TypeFacts
  <2>2. inf \in Part /\ inf[1] = asked
    BY ONLY <2>1 DEF Part
  <2> QED BY ONLY <2>1, <2>2
<1>5. PNIDec(PNIInc(ini.pni)) = ini.pni /\ ini.pni # PNIInc(ini.pni)
  BY <1>4, PniFacts
<1>6. CASE Offered
  <2>1. /\ Equal /\ TgtQuiet /\ NotExecuted /\ ini.got = <<>> /\ tgt.got = Parts(asked, ini.pos)
        /\ ini.mi = (ini.pos + 1 < ini.parts)
    BY <1>6 DEF Offered
  <2>2. CASE ini.mi
    <3> DEFINE q == [GotPart(inf) EXCEPT !.pni = PNIInc(@)]
    <3>1. Replies(q, ACK(ini.pni)) /\ executed' = executed
      BY <1>3, <2>1, <2>2 DEF TargetI, GotPart, Equal
    <3>2. /\ q \in TgtState /\ q.pni = PNIInc(ini.pni) /\ q.got = Append(tgt.got, inf)
          /\ q.br = tgt.br /\ q.state = "RX" /\ q.owes = "none" /\ ~q.pending /\ ~q.wait
      BY <1>0, <1>4, <2>1, GotPartFields DEF SameTgt, Equal, TgtQuiet
    <3>3. q.got = Parts(asked, ini.pos + 1)
      BY <1>4, <2>1, <3>2, PartsFacts
    <3> HIDE DEF q, inf
    <3> QED BY <1>0, <1>1, <1>2, <2>1, <2>2, <3>1, <3>2, <3>3, PartAcknowledged
  <2>3. CASE ~ini.mi
    <3>1. /\ air' = Silence
          /\ tgt' = [GotPart(inf) EXCEPT !.state = "RTOX", !.owes = "answer", !.todo = asked]
          /\ executed' = Append(executed,
                                IF Whole(Append(tgt.got, inf), asked, ini.parts)
                                THEN asked ELSE 0)
      BY <1>3, <1>4, <2>1, <2>3 DEF TargetI, GotPart, Equal
    <3> QED BY <1>0, <1>1, <1>6, <2>3, <3>1, CommandComplete
  <2> QED BY <2>2, <2>3
<1>7. CASE Taken /\ tgt.last = "ATN"
  <2>1. /\ Ahead /\ TgtQuiet /\ NotExecuted /\ ini.got = <<>> /\ ini.mi
        /\ ini.pos + 1 < ini.parts /\ tgt.got = Parts(asked, ini.pos + 1)
    BY <1>7 DEF Taken
  <2>2. Replies(tgt, ACK(ini.pni)) /\ executed' = executed
    BY <1>3, <1>5, <1>7, <2>1 DEF TargetI, Ahead
  <2> HIDE DEF inf
  <2> QED BY <1>0, <1>1, <1>2, <2>1, <2>2, PartAcknowledged DEF Ahead, TgtQuiet
<1>8. CASE Delivering
  <2>1. Ahead /\ ~ini.mi
    BY <1>8 DEF Delivering, Answering
  <2>2. (TargetRepeats \/ Ignore) /\ executed' = executed
    BY <1>3, <1>5, <2>1 DEF TargetI, Ahead
  <2>3. CASE TargetRepeats
    BY <1>0, <1>1, <1>8, <2>2, <2>3, RepeatsExchange
  <2>4. CASE Ignore
    BY <1>0, <1>1, <2>2, <2>4, IgnoredExchange DEF Ignore
  <2> QED BY <2>2, <2>3, <2>4
<1> QED BY <1>1, <1>6, <1>7, <1>8

\* The acknowledgement of a part of the answer: the next one is asked for.
LEMMA AckExchange ==
  ASSUME IInv, call = "transceive", air.to = "tgt", Hears, ByTarget, executed' = executed,
         air.pdu.type = "ACK", TargetACK(air.pdu.pni)
  PROVE  ExchangeGoesOn
<1>1. ini.state = "RX" /\ ini.last = "ACK" /\ air.pdu = ACK(ini.pni) /\ PartRead
  BY TgtReceives
<1>2. air.pdu.pni = ini.pni
  BY <1>1, PduFields
<1>3. /\ Answering /\ Equal /\ TgtQuiet /\ tgt.mi /\ ini.got = Parts(asked, tgt.pos + 1)
  BY <1>1 DEF PartRead
<1> DEFINE q == [tgt EXCEPT !.state = "RTOX", !.owes = "part"]
<1>4. tgt' = q /\ air' = Silence
  BY <1>2, <1>3 DEF TargetACK, Equal
<1>5. /\ q.state = "RTOX" /\ q.owes = "part" /\ q.pni = tgt.pni /\ q.br = tgt.br /\ q.mi = tgt.mi
      /\ q.reply = tgt.reply /\ q.parts = tgt.parts /\ q.pos = tgt.pos
      /\ q.pending = tgt.pending /\ q.wait = tgt.wait /\ q.got = tgt.got
  BY TypeFacts, AckedFields DEF IInv, Basics, SameTgt
<1> HIDE DEF q
<1>6. air'.to = "none"
  BY <1>4, SilenceFacts
<1>7. Answering' /\ Executed' /\ ~ini.mi
  BY <1>3, <1>4, <1>5 DEF Answering, Executed, ByTarget
<1>8. Waits'
  BY <1>1, <1>3, <1>4, <1>5, <1>6, <1>7 DEF Waits, Equal, TgtQuiet, ByTarget
<1>9. GoingOn'
  BY <1>3, <1>4, <1>5, <1>7, <1>8 DEF GoingOn, TgtQuiet, ByTarget
<1> QED BY <1>4, <1>5, <1>6, <1>9 DEF ExchangeGoesOn, Exchange

\* A NACK: the part that the initiator does not have is sent again.
LEMMA NackExchange ==
  ASSUME LinksKeepChains, IInv, call = "transceive", air.to = "tgt", Hears, ByTarget,
         executed' = executed, air.pdu.type = "NACK", TargetNACK(air.pdu.pni)
  PROVE  ExchangeGoesOn
<1>0. TypeOK /\ setup \in Setups /\ Exchange
  BY DEF IInv, Basics, Phase
<1>1. /\ ini.state = "RX" /\ ini.last = "NACK" /\ air.pdu = NACK(ini.pni) /\ ~PartRead
      /\ Offered \/ Waits \/ Delivering
  BY TgtReceives
<1>2. air.pdu.pni = ini.pni
  BY <1>1, PduFields
<1>3. ini.pni \in 0..3
  BY <1>0, Fields
<1>4. PNIDec(PNIInc(ini.pni)) = ini.pni /\ ini.pni # PNIDec(ini.pni)
  BY <1>3, PniFacts
<1>5. CASE Offered \/ Waits
  <2>1. Equal
    BY <1>5 DEF Offered, Waits
  <2>2. tgt' = tgt /\ air' = Silence
    BY <1>2, <1>4, <2>1 DEF TargetNACK, Equal, Ignore
  <2> QED BY <1>0, <1>1, <2>2, IgnoredExchange
<1>6. CASE Delivering
  <2>1. Ahead
    BY <1>6 DEF Delivering
  <2>2. TargetRepeats
    BY <1>2, <1>4, <2>1 DEF TargetNACK, Ahead
  <2> QED BY <1>0, <1>1, <1>6, <2>2, RepeatsExchange
<1> QED BY <1>1, <1>5, <1>6

\* An extension is confirmed: the answer is sent if it is there.  A confirmation that was
\* not asked for ends the session.
LEMMA ToExchange ==
  ASSUME IInv, call = "transceive", air.to = "tgt", Hears, ByTarget,
         executed' = executed, air.pdu.type = "TO", tgt.state = "RX", TargetTO
  PROVE  ExchangeGoesOn
<1>0. TypeOK /\ Exchange /\ tgt \in TgtState
  BY TypeFacts DEF IInv, Basics, Phase
<1>1. /\ ini.state = "RX" /\ ini.last = "TO" /\ ~PartRead
      /\ (Waits /\ tgt.lastN = "TO") \/ Delivering
  BY TgtReceives
<1>2. CASE Delivering
  <2>1. tgt.lastN = "I" /\ Executed /\ ~ini.mi
    BY <1>2 DEF Delivering, Answering
  <2>2. tgt' = [tgt EXCEPT !.state = "IDLE"] /\ air' = Silence
    BY <2>1 DEF TargetTO, Reports
  <2>3. tgt'.state = "IDLE" /\ tgt'.br = tgt.br
    BY <1>0, <2>2, TgtStateFields DEF SameTgt
  <2>4. Gone'
    BY <1>1, <2>1, <2>2, <2>3, SilenceFacts DEF Gone, Executed, ByTarget
  <2> QED BY <2>2, <2>3, <2>4, SilenceFacts DEF ExchangeGoesOn, Exchange
<1>3. CASE Waits /\ tgt.lastN = "TO"
  <2> DEFINE q == [tgt EXCEPT !.wait = FALSE, !.state = IF tgt.pending THEN "TX" ELSE "RTOX"]
  <2>1. tgt' = q /\ air' = Silence
    BY <1>3 DEF TargetTO
  <2>2. /\ ~q.wait /\ q.state = (IF tgt.pending THEN "TX" ELSE "RTOX") /\ q.pni = tgt.pni
        /\ q.br = tgt.br /\ q.mi = tgt.mi /\ q.reply = tgt.reply /\ q.parts = tgt.parts
        /\ q.pos = tgt.pos /\ q.todo = tgt.todo
        /\ q.owes = tgt.owes /\ q.pending = tgt.pending /\ q.got = tgt.got
    BY <1>0, ConfirmedFields DEF SameTgt
  <2> HIDE DEF q
  <2>3. air'.to = "none"
    BY <2>1, SilenceFacts
  <2>4. tgt.wait /\ Equal /\ Executed /\ ~ini.mi
    BY <1>3 DEF Waits
  <2>5. Executed' /\ Equal'
    BY <2>1, <2>2, <2>4 DEF Executed, Equal, ByTarget
  <2>6. tgt'.state \in {"RTOX", "TX"}
    BY <2>1, <2>2
  <2>7. Waits'
    BY <1>1, <2>1, <2>2, <2>3, <2>4, <2>5, <2>6 DEF Waits, ByTarget
  <2>8. Working \/ Sending \/ GoingOn
    BY <1>0, <1>1, <2>4 DEF Exchange, Offered, Taken, Delivering, TgtQuiet, Gone
  <2>9. CASE Working
    <3>1. Working'
      BY <2>1, <2>2, <2>7, <2>9 DEF Working, ByTarget
    <3> QED BY <2>1, <2>2, <2>3, <3>1 DEF ExchangeGoesOn, Exchange
  <2>10. CASE Sending
    <3>1. tgt.pending
      BY <2>10 DEF Sending
    <3>2. Sending'
      BY <2>1, <2>2, <2>5, <2>7, <2>10, <3>1 DEF Sending, Answering, ByTarget
    <3> QED BY <2>1, <2>2, <2>3, <3>2 DEF ExchangeGoesOn, Exchange
  <2>11. CASE GoingOn
    <3>1. GoingOn'
      BY <2>1, <2>2, <2>5, <2>7, <2>11 DEF GoingOn, Answering, ByTarget
    <3> QED BY <2>1, <2>2, <2>3, <3>1 DEF ExchangeGoesOn, Exchange
  <2> QED BY <2>8, <2>9, <2>10, <2>11
<1> QED BY <1>1, <1>2, <1>3

LEMMA ReceiveExchange ==
  ASSUME LinksKeepChains, IInv, call = "transceive", TargetReceive PROVE ExchangeGoesOn
<1>0. /\ TypeOK /\ setup \in Setups /\ ini.parts <= setup.parts /\ Exchange
  BY DEF IInv, Basics, Phase
<1>1. air.to = "tgt" /\ Hears /\ ByTarget
  BY DEF TargetReceive, ByTarget
<1>2. /\ ini.state = "RX" /\ tgt.state \in {"WAIT_ACTV", "RX"}
      /\ air.pdu.type \in {"I", "ACK", "NACK", "ATN", "TO", "damaged"}
      /\ air.pdu.type # "damaged" => ini.last = air.pdu.type
      /\ air.pdu.type # "ACK" => ~PartRead
  BY <1>1, TgtReceives
<1>3. CASE tgt.state = "WAIT_ACTV"
  <2>1. TargetActivation /\ executed' = executed
    BY <1>3 DEF TargetReceive
  <2> QED BY <1>1, <1>3, <2>1, FirstRequest
<1>4. CASE tgt.state = "RX" /\ air.pdu.type = "I"
  <2>1. TargetI(air.pdu)
    BY <1>4 DEF TargetReceive
  <2> QED BY <1>1, <1>4, <2>1, IExchange
<1>5. CASE tgt.state = "RX" /\ air.pdu.type # "I"
  <2>1. TargetControl(air.pdu) /\ executed' = executed
    BY <1>5 DEF TargetReceive
  <2>2. CASE air.pdu.type = "ACK"
    <3>1. TargetACK(air.pdu.pni)
      BY <2>1, <2>2 DEF TargetControl
    <3> QED BY <1>1, <2>1, <2>2, <3>1, AckExchange
  <2>3. CASE air.pdu.type = "NACK"
    <3>1. TargetNACK(air.pdu.pni)
      BY <2>1, <2>3 DEF TargetControl
    <3> QED BY <1>1, <2>1, <2>3, <3>1, NackExchange
  <2>4. CASE air.pdu.type = "TO"
    <3>1. TargetTO
      BY <2>1, <2>4 DEF TargetControl
    <3> QED BY <1>1, <1>5, <2>1, <2>4, <3>1, ToExchange
  <2>5. CASE air.pdu.type = "ATN"
    <3>1. Replies(tgt, Frame("ATN"))
      BY <2>1, <2>5 DEF TargetControl
    <3> QED BY <1>0, <1>1, <1>2, <2>1, <2>5, <3>1, AtnExchange
  <2>6. CASE air.pdu.type = "damaged"
    <3>1. tgt' = tgt /\ air' = Silence
      BY <2>1, <2>6 DEF TargetControl, Ignore
    <3> QED BY <1>0, <1>1, <1>2, <2>1, <2>6, <3>1, IgnoredExchange
  <2> QED BY <1>2, <1>5, <2>2, <2>3, <2>4, <2>5, <2>6
<1> QED BY <1>2, <1>3, <1>4, <1>5

LEMMA TargetReceiveInv ==
  ASSUME LinksKeepChains, IInv, TypeOK', TargetReceive PROVE IInv'
<1>1. Basics' /\ ByTarget
  BY ReceiveExecutes DEF IInv
<1>2. air' = air \/ air'.to # "tgt"
  BY ReceiveBasics DEF IInv, Basics, Received
<1>3. call \notin {"off", "idle"}
  BY DEF IInv, Phase, AtRest, Opening, TargetReceive
<1>4. call \in {"atr", "psl"} => Opening'
  BY ReceiveOpening
<1>5. call = "transceive" => ExchangeGoesOn
  BY ReceiveExchange
<1> QED BY <1>1, <1>2, <1>3, <1>4, <1>5, TargetPhase DEF ExchangeGoesOn

-----------------------------------------------------------------------------
(* The invariant, and what follows from it.                                *)

LEMMA InvStep ==
  ASSUME LinksKeepChains, IInv, [Next]_vars PROVE IInv'
<1>1. TypeOK'
  BY TypeStep DEF IInv, Basics
<1>2. CASE UNCHANGED vars
  <2>1. /\ ini' = ini /\ call' = call /\ tgt' = tgt /\ air' = air /\ setup' = setup
        /\ asked' = asked /\ executed' = executed
        /\ errors' = errors /\ extensions' = extensions
    BY <1>2 DEF vars, history
  <2>2. Basics'
    BY <1>1, <2>1 DEF IInv, Basics, AnswerNotForgotten
  <2>3. /\ (Opening => Opening') /\ (AtRest => AtRest') /\ (Closing => Closing')
        /\ (LastSent => LastSent') /\ (Counts => Counts')
    BY <2>1 DEF Opening, TgtFresh, TgtQuiet, Carries, AtRest, Equal, TgtListens, Closing,
                LastSent, Counts
  <2>4. (Offered => Offered') /\ (Taken => Taken') /\ (Waits => Waits')
    BY <2>1 DEF Offered, Taken, Waits, Equal, Ahead, TgtListens, TgtQuiet, NotExecuted, Executed,
                Carries, IniPart
  <2>5. (Answering => Answering') /\ (Delivering => Delivering')
    BY <2>1 DEF Delivering, Answering, Executed, Ahead, TgtQuiet, Carries, IniPart, TgtPart
  <2>6. /\ (Working => Working') /\ (Sending => Sending') /\ (GoingOn => GoingOn')
        /\ (PartRead => PartRead') /\ (Gone => Gone')
    BY <2>1, <2>4, <2>5 DEF Working, Sending, GoingOn, PartRead, Gone, Equal, TgtQuiet, Executed
  <2>7. Exchange => Exchange'
    BY <2>4, <2>5, <2>6 DEF Exchange
  <2> HIDE DEF Basics
  <2> QED BY <2>1, <2>2, <2>3, <2>7 DEF IInv, Phase
<1>3. CASE App
  BY <1>1, <1>3, AppInv
<1>4. CASE Initiator
  BY <1>1, <1>4, InitiatorInv
<1>5. CASE Target
  BY <1>1, <1>5, AnswerInv, AnswerGoesOnInv, TargetTxInv, TargetRTOXInv, TargetReceiveInv
     DEF Target
<1> QED BY <1>2, <1>3, <1>4, <1>5 DEF Next

\* The stages of an exchange are all there are: in every reachable state both sides are at
\* one of them, and the initiator's counters have counted no more than what went wrong
\* (nfcipInitiatorHandleDEP, nfcipTargetHandleRX).
THEOREM Stages == LinksKeepChains => (Spec => []IInv)
<1> SUFFICES ASSUME LinksKeepChains PROVE Spec => []IInv
  OBVIOUS
<1>1. IInv /\ [Next]_vars => IInv'
  BY InvStep
<1> QED BY <1>1, InvInit, PTL DEF Spec

\* Between two commands both sides agree on the number of the next PDU and on the bit rate,
\* the target listens for it, and an answer that waits for the confirmation of an extension
\* is never forgotten (isReqPending, isWait4RTOX, isTxPending of gNfcip).
THEOREM AlwaysInStep == LinksKeepChains => (Spec => []InStep)
<1> SUFFICES ASSUME LinksKeepChains PROVE Spec => []InStep
  OBVIOUS
<1>1. IInv => InStep
  BY DEF IInv, Basics, Phase, AtRest, Equal, TgtListens, TgtQuiet, InStep, SessionsAgree
<1> QED BY <1>1, Stages, PTL

-----------------------------------------------------------------------------
(* Refinement: what NFC-DEP promises to the applications.                  *)

LEMMA InitRefines == Init => Service!Init
  BY DEF Init, Service!Init

LEMMA AppRefines == App => [Service!Next]_(Service!vars)
<1> SUFFICES ASSUME App PROVE [Service!Next]_(Service!vars)
  OBVIOUS
<1> USE DEF Service!Next, Service!vars
<1>1. ASSUME NEW parts, rfalNfcDepStartTransceive(parts) PROVE Service!Ask
  BY <1>1 DEF rfalNfcDepStartTransceive, Service!Ask
<1>2. ASSUME NEW type, Release(type) PROVE [Service!Next]_(Service!vars)
  BY <1>2 DEF Release, history, Service!Close
<1>3. CASE rfalNfcDepATR
  BY <1>3 DEF rfalNfcDepATR, history
<1>4. CASE FieldOff
  BY <1>4 DEF FieldOff, history, Service!Reopen
<1> QED BY <1>1, <1>2, <1>3, <1>4 DEF App

\* The last part of the answer.
AnswerRead ==
  /\ call = "transceive" /\ call' = "idle" /\ Executed
  /\ asked' = asked /\ executed' = executed /\ answered' = asked
\* The exchange goes on, or is given up.
InitiatorGoesOn ==
  /\ call = "transceive" /\ call' \in {"transceive", "failed"}
  /\ asked' = asked /\ executed' = executed /\ answered' = answered

LEMMA ReceiveIRefines ==
  ASSUME IInv, Waiting, air.to = "ini", air.pdu.type = "I", ReceiveI,
         asked' = asked, executed' = executed
  PROVE  AnswerRead \/ (InitiatorGoesOn /\ call' # "failed")
<1>1. Delivering /\ air.pdu = TgtPart /\ call = "transceive"
  BY IniReceives DEF Waiting
<1>2. /\ Answering /\ ini.got = Parts(asked, tgt.pos) /\ ~ini.mi /\ Executed
      /\ tgt.reply = asked /\ tgt.pos < tgt.parts /\ tgt.mi = (tgt.pos + 1 < tgt.parts)
  BY <1>1 DEF Delivering, Answering
<1> DEFINE inf == <<asked, tgt.pos + 1>>
           fresh == PartTaken(inf)
<1>3. /\ air.pdu.pni = ini.pni /\ air.pdu.mi = tgt.mi /\ air.pdu.inf = inf
  BY <1>1, PduFields DEF TgtPart
<1>4. ini \in IniState /\ tgt.pos \in Nat /\ tgt.parts \in Nat /\ asked \in Nat
  BY Fields, TypeFacts DEF IInv, Basics
<1>5. inf \in Part
  BY ONLY <1>4 DEF Part
<1>6. CASE tgt.mi
  BY <1>1, <1>3, <1>6 DEF ReceiveI, Control, InitiatorGoesOn
<1>7. CASE ~tgt.mi
  <2>1. /\ call' = "idle"
        /\ answered' = IF Whole(fresh.got, tgt.reply, tgt.parts) THEN tgt.reply ELSE 0
    BY <1>2, <1>3, <1>7 DEF ReceiveI, PartTaken
  <2>2. fresh.got = Append(ini.got, inf)
    BY ONLY <1>4, <1>5, PartTakenFields
  <2>3. fresh.got = Parts(asked, tgt.pos + 1)
    BY <1>2, <1>4, <2>2, PartsFacts
  <2>4. tgt.parts = tgt.pos + 1
    <3>1. tgt.pos < tgt.parts /\ ~(tgt.pos + 1 < tgt.parts)
      BY <1>2, <1>7
    <3> QED BY ONLY <1>4, <3>1
  <2> HIDE DEF fresh
  <2>5. Whole(fresh.got, tgt.reply, tgt.parts)
    BY <1>2, <1>4, <2>3, <2>4, PartsFacts
  <2> QED BY <1>1, <1>2, <2>1, <2>5 DEF AnswerRead
<1> QED BY <1>2, <1>6, <1>7

LEMMA InitiatorDataRefines ==
  ASSUME IInv, IniTx \/ Timeout \/ InitiatorReceive
  PROVE  AnswerRead \/ InitiatorGoesOn
<1>1. CASE IniTx
  BY <1>1 DEF IniTx, history, InitiatorGoesOn
<1>2. CASE Timeout
  BY <1>2 DEF Timeout, Waiting, Fails, Control, InitiatorGoesOn
<1>3. CASE InitiatorReceive /\ air.pdu.type = "I"
  <2>1. /\ Waiting /\ air.to = "ini" /\ ReceiveI /\ asked' = asked /\ executed' = executed
    BY <1>3 DEF InitiatorReceive
  <2> QED BY <1>3, <2>1, ReceiveIRefines
<1>4. CASE InitiatorReceive /\ air.pdu.type # "I"
  <2>1. /\ Waiting /\ call = "transceive" /\ answered' = answered
        /\ asked' = asked /\ executed' = executed
    BY <1>4 DEF InitiatorReceive, Waiting
  <2>2. \/ ReceiveError \/ Acknowledged \/ Extended \/ AcknowledgedOther(air.pdu.pni)
        \/ Attended \/ Fails(ini)
    BY <1>4 DEF InitiatorReceive
  <2>3. call' \in {call, "failed"}
    BY <2>2 DEF ReceiveError, Acknowledged, Extended, AcknowledgedOther, Attended, Retransmits,
                Fails, Control
  <2> QED BY <2>1, <2>3 DEF InitiatorGoesOn
<1> QED BY <1>1, <1>2, <1>3, <1>4

LEMMA InitiatorRefines == IInv /\ Initiator => [Service!Next]_(Service!vars)
<1> SUFFICES ASSUME IInv, Initiator PROVE [Service!Next]_(Service!vars)
  OBVIOUS
<1> USE DEF Service!Next, Service!vars
<1>1. CASE IniTx \/ Timeout \/ InitiatorReceive
  <2>1. CASE AnswerRead
    <3>1. Service!Answer
      BY <2>1 DEF AnswerRead, Executed, Service!Answer
    <3> QED BY <3>1
  <2>2. CASE InitiatorGoesOn
    BY <2>2 DEF InitiatorGoesOn, Service!Close
  <2> QED BY <1>1, <2>1, <2>2, InitiatorDataRefines
<1>2. ASSUME NEW psl \in BOOLEAN, AtrAnswered(psl) PROVE [Service!Next]_(Service!vars)
  <2>1. /\ call = "atr" /\ call' \in {"psl", "idle"}
        /\ asked' = asked /\ executed' = executed /\ answered' = answered
    BY <1>2 DEF AtrAnswered, history
  <2> QED BY <2>1
<1>3. CASE PslAnswered \/ AtrRetry
  BY <1>3 DEF PslAnswered, AtrRetry, history
<1>4. CASE ActivationFails
  <2>1. /\ call \in {"atr", "psl"} /\ call' = "ended"
        /\ asked' = asked /\ executed' = executed /\ answered' = answered
    BY <1>4 DEF ActivationFails, history
  <2> QED BY <2>1 DEF Service!Close
<1>5. CASE Released
  BY <1>5 DEF Released, history
<1> QED BY <1>1, <1>2, <1>3, <1>4, <1>5 DEF Initiator

\* A command is executed when its last part is received, and it is the one that was asked.
LEMMA TargetExecutes ==
  ASSUME IInv, TargetReceive
  PROVE  \/ executed' = executed
         \/ call = "transceive" /\ NotExecuted /\ executed' = Append(executed, asked)
<1> SUFFICES ASSUME executed' # executed
             PROVE  call = "transceive" /\ NotExecuted /\ executed' = Append(executed, asked)
  OBVIOUS
<1> DEFINE inf == <<asked, ini.pos + 1>>
<1>1. /\ air.to = "tgt" /\ Hears /\ tgt.state = "RX" /\ air.pdu.type = "I" /\ TargetI(air.pdu)
  BY DEF TargetReceive
<1>2. call = "transceive"
  <2>1. call \notin {"atr", "psl"}
    BY <1>1, PduFields DEF IInv, Phase, Opening, Carries
  <2>2. call \notin {"off", "idle"}
    BY <1>1 DEF IInv, Phase, Opening, AtRest
  <2>3. call \notin {"failed", "release", "ended"}
    BY <1>1 DEF IInv, Phase, Closing
  <2>4. call \in CallState
    BY TypeFacts DEF IInv, Basics
  <2> QED BY <2>1, <2>2, <2>3, <2>4 DEF CallState
<1>3. /\ air.pdu = IniPart
      /\ Offered \/ (Taken /\ tgt.last = "ATN") \/ Delivering
  BY <1>1, <1>2, TgtReceives
<1>4. /\ air.pdu.pni = ini.pni /\ air.pdu.mi = ini.mi /\ air.pdu.inf = inf
  BY <1>3, PduFields DEF IniPart
<1>5. ini.pos \in Nat /\ ini.parts \in Nat /\ asked \in Nat /\ ini.pni \in 0..3
  BY Fields, TypeFacts DEF IInv, Basics
<1>6. /\ air.pdu.pni = tgt.pni /\ ~air.pdu.mi
      /\ executed' = Append(executed, IF Whole(Append(tgt.got, inf), asked, ini.parts)
                                      THEN asked ELSE 0)
  BY <1>1, <1>4 DEF TargetI
<1>7. Offered
  <2>1. ini.pni # PNIInc(ini.pni)
    BY <1>5, PniFacts
  <2> QED BY <1>3, <1>4, <1>6, <2>1 DEF Taken, Delivering, Ahead
<1>8. /\ NotExecuted /\ tgt.got = Parts(asked, ini.pos)
      /\ ini.pos < ini.parts /\ ~(ini.pos + 1 < ini.parts)
  BY <1>4, <1>6, <1>7 DEF Offered
<1>9. ini.parts = ini.pos + 1
  BY ONLY <1>5, <1>8
<1>10. Whole(Append(tgt.got, inf), asked, ini.parts)
  <2>1. Append(tgt.got, inf) = Parts(asked, ini.pos + 1)
    BY <1>5, <1>8, PartsFacts
  <2>2. ini.pos + 1 \in Nat
    BY ONLY <1>5
  <2> HIDE DEF inf
  <2>3. Whole(Parts(asked, ini.pos + 1), asked, ini.pos + 1)
    BY <1>5, <2>2, PartsFacts
  <2> QED BY ONLY <1>9, <2>1, <2>3
<1> HIDE DEF inf
<1> QED BY <1>2, <1>6, <1>8, <1>10

LEMMA TargetRefines == IInv /\ Target => [Service!Next]_(Service!vars)
<1> SUFFICES ASSUME IInv, Target PROVE [Service!Next]_(Service!vars)
  OBVIOUS
<1> USE DEF Service!Next, Service!vars
<1>1. call' = call /\ asked' = asked /\ answered' = answered
  BY DEF Target, Answer, AnswerGoesOn, TargetTx, TargetRTOX, TargetReceive, history
<1>2. CASE TargetReceive
  <2>1. CASE executed' = executed
    BY <1>1, <2>1
  <2>2. CASE call = "transceive" /\ NotExecuted /\ executed' = Append(executed, asked)
    <3>1. Service!Execute
      BY <1>1, <2>2 DEF Service!Execute, NotExecuted
    <3> QED BY <3>1
  <2> QED BY <1>2, <2>1, <2>2, TargetExecutes
<1>3. CASE ~TargetReceive
  <2>1. executed' = executed
    BY <1>3 DEF Target, Answer, AnswerGoesOn, TargetTx, TargetRTOX, history
  <2> QED BY <1>1, <2>1
<1> QED BY <1>2, <1>3

\* NFC-DEP keeps the same promise as ISO-DEP, for any retries and messages of any number of
\* parts: a command is executed at most once, whole and in order, and an answer is the whole
\* answer to it (rfalNfcDepStartTransceive, rfalNfcDepGetTransceiveStatus).  Not over any
\* link: chained messages and extensions need what LinksKeepChains says, and without it a
\* call may end well with an answer that is not the one to its command.
THEOREM ServiceImplemented == LinksKeepChains => (Spec => ImplementsService)
<1> SUFFICES ASSUME LinksKeepChains PROVE Spec => ImplementsService
  OBVIOUS
<1>1. IInv /\ [Next]_vars => [Service!Next]_(Service!vars)
  <2>1. UNCHANGED vars => UNCHANGED Service!vars
    BY DEF vars, history, Service!vars
  <2> QED BY <2>1, AppRefines, InitiatorRefines, TargetRefines DEF Next
<1> QED BY <1>1, InitRefines, Stages, PTL DEF Spec, ImplementsService, Service!Spec

\* Messages of one part and a target that answers without asking for more time.
ShortMessages == \A s \in Setups : s.parts = 1 /\ ~s.extends

\* Short messages survive every fault: over any link, whatever PDU is lost or damaged and
\* however often, the promise is kept (the ATN, NACK and retransmissions of
\* nfcipInitiatorHandleDEP and nfcipTargetHandleRX).
THEOREM ShortServiceImplemented == ShortMessages => (Spec => ImplementsService)
<1>1. ShortMessages => LinksKeepChains
  BY DEF ShortMessages, LinksKeepChains
<1> QED BY <1>1, ServiceImplemented

-----------------------------------------------------------------------------
(* An answer is not forgotten, over any link.                              *)

\* What a step of the target does with an answer that waits.
KeepsAnswer(p) == p.pending = tgt.pending /\ p.wait = tgt.wait
SendsAnswer(p) == p.pending = tgt.pending /\ (p.pending => p.state = "TX")
StopsAnswer(p) == p.state \in {"IDLE", "SLEEP"}

LEMMA RepliesKeep ==
  ASSUME NEW p \in TgtState, NEW b, Replies(p, b)
  PROVE  tgt'.pending = p.pending /\ tgt'.wait = p.wait /\ tgt'.state = p.state
  BY TgtSendsFields DEF Replies

LEMMA RepeatsSend ==
  ASSUME tgt \in TgtState, TargetRepeats PROVE SendsAnswer(tgt')
  BY RepeatsFields DEF TargetRepeats, SendsAnswer

LEMMA ReportsStop ==
  ASSUME tgt \in TgtState, Reports(tgt) PROVE StopsAnswer(tgt')
  BY TgtStateFields DEF Reports, StopsAnswer

LEMMA TargetIKeeps ==
  ASSUME tgt \in TgtState, NEW b, b.inf \in Part, TargetI(b)
  PROVE  KeepsAnswer(tgt') \/ SendsAnswer(tgt')
<1> DEFINE p == GotPart(b.inf)
           q == [p EXCEPT !.pni = PNIInc(@)]
           r == [p EXCEPT !.state = "RTOX", !.owes = "answer", !.todo = b.inf[1]]
<1>1. q \in TgtState /\ KeepsAnswer(q) /\ KeepsAnswer(r)
  BY GotPartFields DEF KeepsAnswer
<1>2. \/ TargetRepeats \/ tgt' = tgt \/ Replies(tgt, ACK(b.pni))
      \/ Replies(q, ACK(tgt.pni)) \/ tgt' = r
  BY DEF TargetI, Ignore, GotPart
<1> HIDE DEF q, r
<1>3. CASE TargetRepeats
  BY <1>3, RepeatsSend
<1>4. CASE tgt' = tgt \/ Replies(tgt, ACK(b.pni))
  BY <1>4, RepliesKeep DEF KeepsAnswer
<1>5. CASE Replies(q, ACK(tgt.pni))
  BY <1>1, <1>5, RepliesKeep DEF KeepsAnswer
<1>6. CASE tgt' = r
  BY <1>1, <1>6
<1> QED BY <1>2, <1>3, <1>4, <1>5, <1>6

LEMMA TargetControlKeeps ==
  ASSUME tgt \in TgtState, NEW b, TargetControl(b)
  PROVE  KeepsAnswer(tgt') \/ SendsAnswer(tgt') \/ StopsAnswer(tgt')
<1>1. CASE TargetACK(b.pni)
  <2>1. TargetRepeats \/ Reports(tgt) \/ tgt' = tgt
        \/ tgt' = [tgt EXCEPT !.state = "RTOX", !.owes = "part"]
    BY <1>1 DEF TargetACK, Ignore
  <2> QED BY <2>1, RepeatsSend, ReportsStop, AckedFields DEF KeepsAnswer
<1>2. CASE TargetNACK(b.pni)
  BY <1>2, RepeatsSend DEF TargetNACK, Ignore, KeepsAnswer
<1>3. CASE TargetTO
  <2>1. Reports(tgt) \/ tgt' = [tgt EXCEPT !.wait = FALSE,
                                          !.state = IF tgt.pending THEN "TX" ELSE "RTOX"]
    BY <1>3 DEF TargetTO
  <2> QED BY <2>1, ReportsStop, ConfirmedFields DEF SendsAnswer
<1>4. CASE Replies(tgt, Frame("ATN")) \/ Ignore
  BY <1>4, RepliesKeep DEF Ignore, KeepsAnswer
<1>5. ASSUME NEW s \in {"SLEEP", "IDLE"}, Replies([tgt EXCEPT !.state = s], b)
      PROVE StopsAnswer(tgt')
  <2> DEFINE p == [tgt EXCEPT !.state = s]
  <2>0. s \in {"WAIT_ACTV", "IDLE", "SLEEP", "RX"}
    OBVIOUS
  <2>1. p \in TgtState /\ p.state = s
    BY ONLY <2>0, tgt \in TgtState, TgtStateFields
  <2>2. Replies(p, b)
    BY <1>5
  <2> HIDE DEF p
  <2> QED BY <2>1, <2>2, RepliesKeep DEF StopsAnswer
<1> QED BY <1>1, <1>2, <1>3, <1>4, <1>5 DEF TargetControl

LEMMA AnswerKeptByReceive ==
  ASSUME TypeOK, AnswerNotForgotten, TargetReceive PROVE AnswerNotForgotten'
<1>1. /\ tgt \in TgtState /\ air.pdu \in Pdu
      /\ tgt.state \in {"LISTEN", "WAIT_ACTV", "RX"} /\ (tgt.pending => tgt.wait)
  <2>1. tgt \in TgtState /\ air.pdu \in Pdu
    BY TypeFacts, Fields
  <2>2. tgt.state \in {"LISTEN", "WAIT_ACTV", "RX"}
    BY DEF TargetReceive, Hears
  <2> QED BY <2>1, <2>2 DEF AnswerNotForgotten
<1>2. \/ air.pdu.type = "I" /\ TargetI(air.pdu)
      \/ TargetATR \/ TargetActivation \/ TargetControl(air.pdu)
  BY <1>1 DEF TargetReceive
<1>3. CASE air.pdu.type = "I" /\ TargetI(air.pdu)
  <2>1. air.pdu.inf \in Part
    BY ONLY <1>1, <1>3, ReceivedPdu
  <2> QED BY <1>1, <1>3, <2>1, TargetIKeeps DEF KeepsAnswer, SendsAnswer, AnswerNotForgotten
<1>4. CASE TargetControl(air.pdu)
  BY <1>1, <1>4, TargetControlKeeps
     DEF KeepsAnswer, SendsAnswer, StopsAnswer, AnswerNotForgotten
<1>5. CASE TargetATR
  <2> DEFINE p == [tgt EXCEPT !.state = "WAIT_ACTV"]
  <2>1. p \in TgtState /\ KeepsAnswer(p)
    BY <1>1, TgtStateFields DEF KeepsAnswer
  <2>2. Replies(p, Frame("ATR")) \/ tgt' = tgt
    BY <1>5 DEF TargetATR, Ignore
  <2> HIDE DEF p
  <2> QED BY <1>1, <2>1, <2>2, RepliesKeep DEF KeepsAnswer, AnswerNotForgotten
<1>6. CASE TargetActivation
  <2> DEFINE p == [tgt EXCEPT !.state = "RX", !.br = "high"]
             q == [tgt EXCEPT !.state = "RX"]
  <2>1. p \in TgtState /\ KeepsAnswer(p) /\ KeepsAnswer(q)
    BY <1>1, PslFields, TgtStateFields DEF KeepsAnswer
  <2>2. Replies(p, Frame("PSL")) \/ tgt' = q \/ tgt' = tgt
    BY <1>6 DEF TargetActivation, Ignore
  <2> HIDE DEF p, q
  <2> QED BY <1>1, <2>1, <2>2, RepliesKeep DEF KeepsAnswer, AnswerNotForgotten
<1> QED BY <1>2, <1>3, <1>4, <1>5, <1>6

\* An answer that the application gave while the confirmation of an extension was
\* outstanding is still to be sent when it comes, over any link, for chained messages, too:
\* no PDU, however late or often it is received, drops it (isTxPending, isWait4RTOX of
\* gNfcip, nfcipSetDEPParams).
THEOREM AnswerNeverForgotten == Spec => []AnswerNotForgotten
<1>1. Init => AnswerNotForgotten
  BY DEF Init, InitTgt, AnswerNotForgotten
<1>2. ASSUME TypeOK, setup \in Setups, AnswerNotForgotten, [Next]_vars PROVE AnswerNotForgotten'
  <2>0. tgt \in TgtState
    BY <1>2 DEF TypeOK
  <2>1. CASE tgt' = tgt
    BY <1>2, <2>1 DEF AnswerNotForgotten
  <2>2. ASSUME NEW parts \in Nat, Answer(parts) PROVE AnswerNotForgotten'
    <3> DEFINE p == [tgt EXCEPT !.reply = tgt.todo, !.parts = parts, !.got = <<>>]
    <3>1. p \in TgtState /\ p.wait = tgt.wait /\ p.pending = tgt.pending
      BY <2>0, AnswerFields
    <3>2. AppWorks /\ tgt' = StartAnswer(p, 0)
      BY <2>2 DEF Answer
    <3> HIDE DEF p
    <3> QED BY <1>2, <3>1, <3>2, AnswerKept
  <2>3. CASE AnswerGoesOn
    <3>1. tgt.pos + 1 \in Nat
      BY <2>0 DEF TgtState
    <3> QED BY <1>2, <2>0, <2>3, <3>1, AnswerKept DEF AnswerGoesOn
  <2>4. CASE TargetTx
    <3> DEFINE p == [tgt EXCEPT !.state = "RX", !.pending = FALSE, !.wait = FALSE, !.pni = PNIInc(@)]
    <3>1. p \in TgtState /\ ~p.pending
      BY <2>0, TxFields
    <3>2. \E b : Replies(p, b)
      BY <2>4 DEF TargetTx
    <3> HIDE DEF p
    <3> QED BY <3>1, <3>2, RepliesKeep DEF AnswerNotForgotten
  <2>5. CASE TargetRTOX
    <3> DEFINE p == [tgt EXCEPT !.cntRTOX = @ + 1]
               q == [tgt EXCEPT !.cntRTOX = @ + 1, !.wait = TRUE, !.state = "RX"]
    <3>1. p \in TgtState /\ q \in TgtState /\ q.wait
      BY <2>0, RtoxFields
    <3>2. Reports(p) \/ Replies(q, Frame("TO"))
      BY <2>5 DEF TargetRTOX
    <3> HIDE DEF p, q
    <3>3. ASSUME Reports(p) PROVE tgt'.state = "IDLE"
      BY <3>1, <3>3, TgtStateFields DEF Reports
    <3> QED BY <3>1, <3>2, <3>3, RepliesKeep DEF AnswerNotForgotten
  <2>6. CASE TargetReceive
    BY <1>2, <2>6, AnswerKeptByReceive
  <2>7. CASE FieldOff
    <3>1. tgt.lastN \in LastTypes
      BY <2>0 DEF TgtState, LastTypes
    <3> QED BY <2>7, <3>1, FreshFields DEF FieldOff, AnswerNotForgotten
  <2>8. ASSUME App, ~FieldOff PROVE tgt' = tgt
    BY <2>8 DEF App, rfalNfcDepATR, rfalNfcDepStartTransceive, Release
  <2>9. ASSUME Initiator PROVE tgt' = tgt
    BY <2>9 DEF Initiator, AtrAnswered, PslAnswered, AtrRetry, ActivationFails, Released,
                IniTx, Timeout, InitiatorReceive
  <2>10. ASSUME Target
         PROVE  \/ \E parts \in Nat : Answer(parts)
                \/ AnswerGoesOn \/ TargetTx \/ TargetRTOX \/ TargetReceive
    <3>1. setup.parts \in Nat
      BY <1>2, SetupAssumption
    <3>2. \A parts \in 1..setup.parts : parts \in Nat
      BY ONLY <3>1
    <3> QED BY <2>10, <3>2 DEF Target
  <2> QED
    BY <1>2, <2>1, <2>2, <2>3, <2>4, <2>5, <2>6, <2>7, <2>8, <2>9, <2>10 DEF Next, vars
<1>3. Spec => [](TypeOK /\ setup \in Setups)
  <2>1. Init => TypeOK /\ setup \in Setups
    BY TypeCorrectInit DEF Init
  <2>2. TypeOK /\ setup \in Setups /\ [Next]_vars => (TypeOK /\ setup \in Setups)'
    BY TypeStep
  <2> QED BY <2>1, <2>2, PTL DEF Spec
<1> QED BY <1>1, <1>2, <1>3, PTL DEF Spec

-----------------------------------------------------------------------------
(* A command fails only when the retries are used up.                      *)

\* A call that fails while it runs.
GivesUp == call = "transceive" /\ call' = "failed"
RetriesSpent == errors' > MaxRetries \/ extensions' > MaxRetries + 1

\* A counter at its limit has counted more than is tolerated.
LEMMA CountedOut ==
  ASSUME errors' \in Nat, extensions' \in Nat, NEW c \in Nat
  PROVE  /\ c >= MaxRetries /\ Least(c + 1, MaxRetries + 1) <= errors' => RetriesSpent
         /\ c > MaxRetries /\ Least(c + 1, MaxRetries + 2) <= extensions' => RetriesSpent
<1>1. MaxRetries \in Nat
  BY RetriesAssumption
<1>2. ASSUME c >= MaxRetries, Least(c + 1, MaxRetries + 1) <= errors' PROVE RetriesSpent
  <2>1. Least(c + 1, MaxRetries + 1) = MaxRetries + 1
    BY ONLY <1>1, <1>2, c \in Nat DEF Least
  <2> QED BY ONLY <1>1, <1>2, <2>1, errors' \in Nat DEF RetriesSpent
<1>3. ASSUME c > MaxRetries, Least(c + 1, MaxRetries + 2) <= extensions' PROVE RetriesSpent
  <2>1. Least(c + 1, MaxRetries + 2) = MaxRetries + 2
    BY ONLY <1>1, <1>3, c \in Nat DEF Least
  <2> QED BY ONLY <1>1, <1>3, <2>1, extensions' \in Nat DEF RetriesSpent
<1> QED BY <1>2, <1>3

LEMMA InitiatorGivesUp ==
  ASSUME IInv, TypeOK', IniTx \/ Timeout \/ InitiatorReceive, GivesUp
  PROVE  RetriesSpent
<1>0. /\ TypeOK /\ call = "transceive" /\ call' = "failed" /\ call' # call
      /\ errors \in Nat /\ extensions \in Nat
      /\ errors' \in Nat /\ extensions' \in Nat
      /\ ini.cntTO \in Nat /\ ini.cntNACK \in Nat /\ ini.cntATN \in Nat
      /\ ini.cntTx \in Nat /\ ini.cntRTOX \in Nat
  <2>1. TypeOK /\ call = "transceive" /\ call' = "failed"
    BY DEF GivesUp, IInv, Basics
  <2>2. errors' \in Nat /\ extensions' \in Nat
    BY DEF TypeOK
  <2> QED BY ONLY <2>1, <2>2, TypeFacts, Fields
<1>1. Counts
  BY <1>0 DEF IInv, Phase
<1>2. ~IniTx
  BY <1>0 DEF IniTx
<1>3. CASE Timeout
  <2>1. /\ Error
        /\ ini.cntTO >= MaxRetries \/ ini.cntNACK >= MaxRetries \/ ini.cntATN >= MaxRetries
    BY <1>0, <1>3 DEF Timeout, Recovered, Control
  <2>2. /\ Least(ini.cntTO + 1, MaxRetries + 1) <= errors'
        /\ Least(ini.cntNACK + 1, MaxRetries + 1) <= errors'
        /\ Least(ini.cntATN + 1, MaxRetries + 1) <= errors'
    BY <1>0, <1>1, <2>1, CountedOnce DEF Counts
  <2> QED BY <1>0, <2>1, <2>2, CountedOut
<1>4. CASE InitiatorReceive
  <2>1. /\ Waiting /\ air.to = "ini" /\ asked' = asked /\ executed' = executed
        /\ tgt' = tgt /\ setup' = setup /\ ini.state = "RX"
    BY <1>4 DEF InitiatorReceive, Waiting
  <2>2. /\ air.pdu.type \in {"I", "ACK", "ATN", "TO", "damaged"}
        /\ air.pdu.type = "ACK" => Taken /\ air.pdu = ACK(ini.pni)
        /\ air.pdu.type = "TO" => ini.last # "ATN"
        /\ air.pdu.type = "ATN" => ini.last = "ATN"
    BY <1>0, <2>1, IniReceives
  <2>3. CASE air.pdu.type = "I"
    <3>1. ReceiveI
      BY <1>4, <2>3 DEF InitiatorReceive
    <3> QED BY <1>0, <2>1, <2>3, <3>1, ReceiveIRefines DEF AnswerRead
  <2>4. CASE air.pdu.type = "ACK"
    <3>1. air.pdu.pni = ini.pni
      BY <2>2, <2>4, PduFields
    <3>2. Acknowledged
      BY <1>4, <2>4, <3>1 DEF InitiatorReceive
    <3>3. ini.mi
      BY <2>2, <2>4 DEF Taken
    <3> QED BY <1>0, <3>2, <3>3 DEF Acknowledged
  <2>5. CASE air.pdu.type = "TO"
    <3>1. Extended
      BY <1>4, <2>5 DEF InitiatorReceive
    <3>2. Extension /\ ini.cntRTOX > MaxRetries
      BY <1>0, <2>2, <2>5, <3>1 DEF Extended, Control
    <3>3. Least(ini.cntRTOX + 1, MaxRetries + 2) <= extensions'
      BY <1>0, <1>1, <3>2, CountedOnce DEF Counts
    <3> QED BY <1>0, <3>2, <3>3, CountedOut
  <2>6. CASE air.pdu.type = "ATN"
    <3>1. Attended /\ errors' = errors
      BY <1>4, <2>6 DEF InitiatorReceive
    <3>2. ini.cntTx >= MaxRetries
      BY <1>0, <2>2, <2>6, <3>1 DEF Attended, Control, Retransmits
    <3>3. Least(ini.cntTx + 1, MaxRetries + 1) <= errors'
      BY <1>1, <2>1, <2>2, <2>6, <3>1 DEF Counts
    <3> QED BY <1>0, <3>2, <3>3, CountedOut
  <2>7. CASE air.pdu.type = "damaged"
    <3>1. ReceiveError
      BY <1>4, <2>7 DEF InitiatorReceive
    <3>2. Error /\ ini.cntNACK >= MaxRetries
      BY <1>0, <3>1 DEF ReceiveError, Recovered, Control
    <3>3. Least(ini.cntNACK + 1, MaxRetries + 1) <= errors'
      BY <1>0, <1>1, <3>2, CountedOnce DEF Counts
    <3> QED BY <1>0, <3>2, <3>3, CountedOut
  <2> QED BY <2>2, <2>3, <2>4, <2>5, <2>6, <2>7
<1> QED BY <1>2, <1>3, <1>4

\* A command fails only when one PDU of it has used up its retries: what recovery spent on
\* one part never counts against the next (the counters that nfcipSetDEPParams and
\* nfcipInitiatorHandleDEP reset).
THEOREM RetriesUsed == LinksKeepChains => (Spec => RetriesAreUsed)
<1> SUFFICES ASSUME LinksKeepChains PROVE Spec => RetriesAreUsed
  OBVIOUS
<1>1. IInv /\ [Next]_vars => [GivesUp => RetriesSpent]_vars
  <2>1. App => ~GivesUp
    BY DEF App, rfalNfcDepStartTransceive, Release, rfalNfcDepATR, FieldOff, GivesUp
  <2>2. Target => ~GivesUp
    BY DEF Target, Answer, AnswerGoesOn, TargetTx, TargetRTOX, TargetReceive, GivesUp
  <2>3. AtrRetry \/ PslAnswered \/ ActivationFails \/ Released => ~GivesUp
    BY DEF AtrRetry, PslAnswered, ActivationFails, Released, GivesUp
  <2>4. ASSUME NEW psl \in BOOLEAN, AtrAnswered(psl) PROVE ~GivesUp
    BY <2>4 DEF AtrAnswered, GivesUp
  <2>5. ASSUME IInv, IniTx \/ Timeout \/ InitiatorReceive, GivesUp PROVE RetriesSpent
    <3>1. TypeOK'
      BY <2>5, TypeStep DEF IInv, Basics, Next, Initiator
    <3> QED BY <2>5, <3>1, InitiatorGivesUp
  <2> QED BY <2>1, <2>2, <2>3, <2>4, <2>5 DEF Next, Initiator
<1> QED BY <1>1, Stages, PTL DEF Spec, RetriesAreUsed, GivesUp, RetriesSpent
=============================================================================
