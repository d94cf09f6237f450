-------------------------- MODULE Transceive_proof --------------------------
(***************************************************************************)
(* Proofs about Transceive, for any FIFO size, water levels, count width,  *)
(* contexts, frame lengths and mode: the invariant IInv is kept by every   *)
(* step, and from it follow what an exchange that ends well guarantees.    *)
(***************************************************************************)
EXTENDS Transceive, TLAPS

\* An exchange in progress has a status other than ST_ERR_NONE, one that has
\* ended has one other than ST_ERR_BUSY, and so has one whose last bytes are
\* read after an error.
Results ==
  /\ state \in {"IDLE", "TX_FAIL", "RX_FAIL", "RX_READ_DATA"} => status # "BUSY"
  /\ state # "IDLE" => status # "NONE"

\* Every byte written to the FIFO has been sent or is still in it, until the
\* end of the transmission; a water level means that there is room.
TxCounts ==
  state \in {"TX_WAIT_WL", "TX_WAIT_TXE"} =>
    /\ bytesTotal = ctx.tx
    /\ "TXE" \notin irqs =>
         /\ link \in {"tx", "off"}
         /\ sent + fifo = bytesWritten
         /\ "FWL" \in irqs /\ state = "TX_WAIT_WL" => fifo <= TxLevel
    /\ state = "TX_WAIT_WL" => bytesWritten < bytesTotal
    /\ state = "TX_WAIT_TXE" =>
         /\ bytesWritten = bytesTotal
         /\ "TXE" \in irqs => sent = bytesTotal /\ link # "tx"

Reading == {"RX_WAIT_EON", "RX_WAIT_RXS", "RX_WAIT_RXE", "RX_READ_FIFO",
            "RX_READ_DATA"}

\* A reception follows a frame that was sent whole, if any; while the answer is
\* read, no more is stored than was counted and fits.
RxCounts ==
  state \in RxStates =>
    /\ sent = ctx.tx /\ link # "tx"
    /\ state \in Reading => bytesWritten <= bytesTotal /\ bytesWritten <= ctx.rx

\* An end of reception that is pending or to come is of a frame that began
\* after the exchange was prepared.
AnswerOwned ==
  ~PassiveListen /\ ("RXE" \in irqs \/ link \in {"rx", "closing"} \/ state = "RX_WAIT_EOF")
  => begun

\* The errors RX_ERR_CHECK looks at.
SeenErrors == IF PassivePoll THEN Errors ELSE Errors \ {"ERR2"}

\* A damaged frame whose end is pending shows in the status word or in the
\* FIFO status.
DamageShows ==
  "RXE" \in irqs /\ damaged =>
    tail # "whole" \/ "WU_F" \in irqs \/ irqs \cap SeenErrors # {}

\* In active communication nothing more is received after the end of a frame.
ActiveEnd ==
  /\ state = "RX_WAIT_EOF" => ActiveComm /\ ~damaged
  /\ ActiveComm /\ ("RXE" \in irqs \/ state = "RX_WAIT_EOF") => link \in {"closing", "off"}

Awaiting == {"TX_WAIT_WL", "TX_WAIT_TXE", "RX_IDLE", "RX_WAIT_EON", "RX_WAIT_RXS"}
Receiving == {"RX_WAIT_RXE", "RX_READ_FIFO"}

\* In passive listening a field that has gone is pending with the frame's end.
FieldEndPending ==
  PassiveListen /\ ~extField =>
    /\ link # "rx"
    /\ state \in Awaiting \cup Receiving /\ "RXE" \in irqs => "EOF" \in irqs

\* A poller's answer that has begun is pending until the engine has seen it.
StartPending ==
  /\ state = "RX_WAIT_EON" => ActiveComm
  /\ "WU_F" \in irqs => PassiveListen
  /\ "RX_REST" \in irqs => EMVCo
  /\ PassivePoll /\ ~EMVCo /\ begun /\ state \in Awaiting => "RXS" \in irqs

IInv == TypeOK /\ FifoFits /\ Results /\ TxCounts /\ RxCounts /\ AnswerOwned
        /\ DamageShows /\ ActiveEnd /\ FieldEndPending /\ StartPending

-----------------------------------------------------------------------------
(* The end of a reception. *)

\* A byte count read from the FIFO status is a number, whatever it loses.
LEMMA CountType ==
  ASSUME NEW c \in Nat
  PROVE  rfalFIFOStatusGetNumBytes(c) \in Nat
BY FifoAssumption DEF rfalFIFOStatusGetNumBytes

\* So are the FIFO status and the count in it.
LEMMA StatusType ==
  ASSUME TypeOK
  PROVE  FifoStatus \in Nat /\ NumBytes \in Nat
BY CountType DEF TypeOK, FifoStatus, NumBytes

\* Taking the CRC off leaves no negative length.
LEMMA WithoutCrcType ==
  ASSUME NEW total \in Nat, NEW n \in Nat
  PROVE  /\ WithoutCrc(total, n).before \in Nat
         /\ WithoutCrc(total, n).read \in Nat
BY FifoAssumption DEF WithoutCrc

\* The lengths an engine step leaves are lengths, and the FIFO is no fuller.
LengthsOK ==
  /\ bytesTotal' \in Nat /\ bytesWritten' \in Nat /\ cache' \in Nat
  /\ rcvdLen' \in Nat /\ fifo' \in Nat /\ fifo' <= fifo

\* RX_READ_DATA leaves lengths and a FIFO that is no fuller.
LEMMA ReadDataLengths ==
  ASSUME TypeOK, bytesWritten <= ctx.rx, NEW st \in Statuses, ReadData(st)
  PROVE  LengthsOK
<1> DEFINE part == WithoutCrc(bytesTotal, NumBytes)
           read == IF part.before + part.read > ctx.rx THEN ctx.rx - bytesWritten
                   ELSE part.read
<1>1. part.before \in Nat /\ part.read \in Nat /\ FifoStatus \in Nat
  BY StatusType, WithoutCrcType DEF TypeOK
<1>2. /\ bytesTotal' = part.before + part.read /\ rcvdLen' = part.before + part.read
      /\ cache' = FifoStatus /\ bytesWritten' = bytesWritten
      /\ fifo' = fifo - Least(read, fifo)
  BY DEF ReadData
<1>3. fifo \in Nat /\ bytesWritten \in Nat /\ ctx.rx \in Nat
  BY DEF TypeOK, Context
<1>4. read \in Nat
  <2> HIDE DEF part
  <2> QED BY <1>1, <1>3
<1> HIDE DEF part, read
<1> QED BY <1>1, <1>2, <1>3, <1>4 DEF Least, LengthsOK

\* What RX_READ_DATA does to the exchange: only if the status so far is busy
\* does it end well.
ReadOutcome(st) ==
  /\ status' \in Statuses
  /\ \/ state' = "IDLE" /\ status' = "NONE" /\ ~ActiveComm /\ st = "BUSY"
     \/ state' = "RX_WAIT_EOF" /\ status' = status /\ ActiveComm /\ st = "BUSY"
     \/ /\ state' = "RX_FAIL" /\ status' \in {st, "NOMEM"}
        /\ status' # "BUSY"

\* RX_READ_DATA ends the exchange in one of the ways of ReadOutcome.
LEMMA ReadDataOutcome ==
  ASSUME TypeOK, NEW st \in Statuses, ReadData(st)
  PROVE  ReadOutcome(st)
<1> DEFINE st2 == IF WithoutCrc(bytesTotal, NumBytes).before
                     + WithoutCrc(bytesTotal, NumBytes).read > ctx.rx THEN "NOMEM" ELSE st
<1>1. IF st2 # "BUSY" THEN Fail("RX_FAIL", st2)
      ELSE IF ActiveComm THEN Goto("RX_WAIT_EOF") ELSE Fail("IDLE", "NONE")
  BY DEF ReadData
<1>2. st2 \in {st, "NOMEM"} /\ st2 \in Statuses /\ (st2 = "BUSY" => st = "BUSY")
  BY DEF Statuses
<1>3. status \in Statuses
  BY DEF TypeOK
<1> HIDE DEF st2
<1> QED BY <1>1, <1>2, <1>3 DEF Fail, Goto, ReadOutcome, Statuses

\* The four ways a step of RX_WAIT_RXE can end, with the sources in from
\* pending and those in carried taken before.
KeepsWaiting(from) ==
  /\ state' \in {"RX_WAIT_RXE", "RX_READ_FIFO", "RX_WAIT_RXS"}
  /\ status' \in {status, "FRAMING"}
  /\ state' = "RX_WAIT_RXS" => "WU_F" \in from \/ "RX_REST" \in from
  /\ UNCHANGED <<bytesTotal, bytesWritten>>
Failed(from) ==
  /\ state' = "RX_FAIL"
  /\ status' # "BUSY" /\ (status # "NONE" => status' # "NONE")
  /\ status' = "TIMEOUT" => status = "TIMEOUT" \/ "RX_REST" \in from
HasError ==
  /\ state' = "RX_READ_DATA"
  /\ status' \notin {"BUSY", "NONE", "TIMEOUT"}
  /\ UNCHANGED <<bytesTotal, bytesWritten>>
Good(from, carried) ==
  /\ "RXE" \in from /\ "WU_F" \notin from /\ from \cap SeenErrors = {}
  /\ tail = "whole"
  /\ PassiveListen => "EOF" \notin from \cup carried
  /\ \/ state' = "IDLE" /\ status' = "NONE" /\ ~ActiveComm
     \/ state' = "RX_WAIT_EOF" /\ status' = status /\ status = "BUSY" /\ ActiveComm

ReceiveOutcome(from, carried) ==
  /\ LengthsOK
  /\ irqs' \subseteq from /\ "RXE" \notin irqs'
  /\ status' \in Statuses
  /\ KeepsWaiting(from) \/ Failed(from) \/ HasError \/ Good(from, carried)

\* rfalErrorHandling fails the exchange or has its bytes read as failed ones.
LEMMA ErrorHandlingOutcome ==
  ASSUME TypeOK, NEW st \in Statuses \ {"BUSY", "NONE", "TIMEOUT"},
         NEW from, rfalErrorHandling(st)
  PROVE  LengthsOK /\ status' \in Statuses /\ (Failed(from) \/ HasError)
<1>1. FifoStatus \in Nat /\ NumBytes \in Nat /\ fifo \in Nat
  BY StatusType DEF TypeOK
<1>2. bytesTotal \in Nat /\ bytesWritten \in Nat /\ rcvdLen \in Nat
  BY DEF TypeOK
<1>3. CASE PassivePoll /\ st \in {"PAR", "CRC"} /\ tail = "bits"
  <2>1. /\ cache' = FifoStatus /\ fifo' = fifo - Least(NumBytes, fifo) /\ rcvdLen' = 1
        /\ Fail("RX_FAIL", "INCOMPLETE_BYTE")
        /\ UNCHANGED <<bytesTotal, bytesWritten>>
    BY <1>3 DEF rfalErrorHandling
  <2>2. LengthsOK
    BY <1>1, <1>2, <2>1 DEF LengthsOK, Least
  <2> QED BY <2>1, <2>2 DEF Fail, Failed, Statuses
<1>4. CASE ~(PassivePoll /\ st \in {"PAR", "CRC"} /\ tail = "bits")
  <2>1. /\ cache' = FifoStatus /\ UNCHANGED <<fifo, rcvdLen, bytesTotal, bytesWritten>>
        /\ Fail("RX_READ_DATA", st)
    BY <1>4 DEF rfalErrorHandling
  <2> QED BY <1>1, <1>2, <2>1 DEF Fail, HasError, LengthsOK
<1> QED BY <1>3, <1>4

\* RX_ERR_CHECK finds no error only if none it looks at is there.
LEMMA ErrorStatusType ==
  ASSUME NEW got
  PROVE  /\ ErrorStatus(got) \in Statuses \ {"BUSY", "TIMEOUT"}
         /\ ErrorStatus(got) = "NONE" => got \cap SeenErrors = {}
BY DEF ErrorStatus, SeenErrors, Statuses, Errors

\* With nothing read the lengths are the old ones.
LEMMA SameLengths ==
  ASSUME TypeOK, UNCHANGED <<fifoCounts, fifo>>
  PROVE  LengthsOK /\ UNCHANGED <<bytesTotal, bytesWritten>>
BY DEF TypeOK, fifoCounts, LengthsOK

\* RX_ERR_CHECK: a good end has an RXE, no error and no loss of the field.
LEMMA CheckErrorsOutcome ==
  ASSUME TypeOK, bytesWritten <= ctx.rx, NEW got, NEW st \in Statuses, NEW from,
         st # "BUSY" => st \in {status, "FRAMING"}, st = "BUSY" => status = "BUSY",
         CheckErrors(got, st)
  PROVE  /\ LengthsOK /\ status' \in Statuses
         /\ \/ Failed(from) \/ HasError
            \/ /\ "RXE" \in got /\ got \cap SeenErrors = {} /\ tail = "whole"
               /\ PassiveListen => "EOF" \notin got
               /\ \/ state' = "IDLE" /\ status' = "NONE" /\ ~ActiveComm
                  \/ /\ state' = "RX_WAIT_EOF" /\ status' = status
                     /\ status = "BUSY" /\ ActiveComm
<1>1. CASE ErrorStatus(got) # "NONE"
  <2>1. rfalErrorHandling(ErrorStatus(got))
    BY <1>1 DEF CheckErrors
  <2>2. ErrorStatus(got) \in Statuses \ {"BUSY", "NONE", "TIMEOUT"}
    BY <1>1, ErrorStatusType
  <2> QED BY <2>1, <2>2, ErrorHandlingOutcome
<1>2. CASE ErrorStatus(got) = "NONE" /\ PassiveListen /\ "EOF" \in got
  <2>1. Fail("RX_FAIL", "LINK_LOSS") /\ UNCHANGED <<fifoCounts, fifo>>
    BY <1>2 DEF CheckErrors
  <2> QED BY <2>1, SameLengths DEF Fail, Failed, Statuses
<1>3. CASE /\ ErrorStatus(got) = "NONE" /\ ~(PassiveListen /\ "EOF" \in got)
           /\ "RXE" \in got
  <2> DEFINE st1 == IF tail = "bits" THEN "INCOMPLETE_BYTE"
                    ELSE IF tail = "nopar" THEN "FRAMING" ELSE st
  <2>1. ReadData(st1)
    BY <1>3 DEF CheckErrors
  <2>2. st1 \in Statuses /\ (st1 = "BUSY" => tail = "whole" /\ st = "BUSY")
    BY DEF Statuses, TypeOK
  <2>3. st1 \in {st, "INCOMPLETE_BYTE", "FRAMING"}
    OBVIOUS
  <2> HIDE DEF st1
  <2>4. LengthsOK /\ ReadOutcome(st1)
    BY <2>1, <2>2, ReadDataLengths, ReadDataOutcome
  <2>5. CASE state' = "RX_FAIL" /\ status' \in {st1, "NOMEM"} /\ status' # "BUSY"
    BY <2>3, <2>4, <2>5 DEF Failed, ReadOutcome
  <2>6. CASE st1 = "BUSY" /\ state' # "RX_FAIL"
    <3>1. status = "BUSY" /\ tail = "whole"
      BY <2>2, <2>6
    <3>2. got \cap SeenErrors = {} /\ "RXE" \in got /\ (PassiveListen => "EOF" \notin got)
      BY <1>3, ErrorStatusType
    <3> QED BY <2>4, <2>6, <3>1, <3>2 DEF ReadOutcome
  <2> QED BY <2>4, <2>5, <2>6 DEF ReadOutcome
<1>4. CASE /\ ErrorStatus(got) = "NONE" /\ ~(PassiveListen /\ "EOF" \in got)
           /\ "RXE" \notin got
  <2>1. Fail("RX_FAIL", "IO") /\ UNCHANGED <<fifoCounts, fifo>>
    BY <1>4 DEF CheckErrors
  <2> QED BY <2>1, SameLengths DEF Fail, Failed, Statuses
<1> QED BY <1>1, <1>2, <1>3, <1>4

\* RX_WAIT_RXE in each of its branches.
LEMMA ReceiveEndOutcome ==
  ASSUME TypeOK, bytesWritten <= ctx.rx, NEW from, NEW carried \in SUBSET {"EOF"},
         NEW late \in BOOLEAN, WaitReceiveEnd(from, carried, late)
  PROVE  ReceiveOutcome(from, carried)
<1> DEFINE taken == from \cap {"RXE", "FWL", "EOF", "RX_REST", "WU_F"}
           got == carried \cup taken
           rest == from \ taken
           st == IF late THEN "FRAMING" ELSE status
<1>1. /\ st \in Statuses /\ status \in Statuses
      /\ st # "BUSY" => st \in {status, "FRAMING"}
      /\ st = "BUSY" => status = "BUSY"
      /\ st \in {status, "FRAMING"}
  BY DEF TypeOK, Statuses
<1>2. rest \subseteq from /\ "RXE" \notin rest
  OBVIOUS
<1>3. /\ "RXE" \in got => "RXE" \in from
      /\ "RX_REST" \in got <=> "RX_REST" \in from
      /\ "WU_F" \in got <=> "WU_F" \in from
      /\ "EOF" \in from \cup carried => "EOF" \in got
  OBVIOUS
<1>4. CASE got = {}
  <2>1. /\ irqs' = rest /\ Fail(IF late THEN "RX_FAIL" ELSE "RX_WAIT_RXE", st)
        /\ UNCHANGED <<fifoCounts, fifo>>
    BY <1>4 DEF WaitReceiveEnd
  <2>2. CASE late
    <3> HIDE DEF taken, got, rest
    <3> QED BY <1>2, <2>1, <2>2, SameLengths DEF Fail, Failed, ReceiveOutcome, Statuses
  <2>3. CASE ~late
    <3>1. st = status
      BY <2>3
    <3> HIDE DEF taken, got, rest, st
    <3> QED BY <1>1, <1>2, <2>1, <2>3, <3>1, SameLengths
        DEF Fail, KeepsWaiting, ReceiveOutcome
  <2> QED BY <2>2, <2>3
<1>5. CASE got # {} /\ "RX_REST" \in got
  <2>1. ReceiverRestarted(rest, st)
    BY <1>5 DEF WaitReceiveEnd
  <2> HIDE DEF taken, got, rest, st
  <2>2. CASE "NRE" \in rest \/ ~nrt
    <3>1. /\ irqs' = rest \ {"NRE"} /\ Fail("RX_FAIL", "TIMEOUT")
          /\ UNCHANGED <<fifoCounts, fifo>>
      BY <2>1, <2>2 DEF ReceiverRestarted
    <3> QED BY <1>2, <1>3, <1>5, <3>1, SameLengths DEF Fail, Failed, ReceiveOutcome, Statuses
  <2>3. CASE ~("NRE" \in rest \/ ~nrt)
    <3>1. /\ irqs' = rest \ {"RXS"}
          /\ Fail(IF link = "rx" THEN "RX_WAIT_RXE" ELSE "RX_WAIT_RXS", st)
          /\ UNCHANGED <<fifoCounts, fifo>>
      BY <2>1, <2>3 DEF ReceiverRestarted
    <3> QED BY <1>1, <1>2, <1>3, <1>5, <3>1, SameLengths
        DEF Fail, KeepsWaiting, ReceiveOutcome
  <2> QED BY <2>2, <2>3
<1>6. CASE "RX_REST" \notin got /\ "FWL" \in got /\ "RXE" \notin got
  <2>1. irqs' = rest /\ Fail("RX_READ_FIFO", st) /\ UNCHANGED <<fifoCounts, fifo>>
    BY <1>6 DEF WaitReceiveEnd
  <2> HIDE DEF taken, got, rest, st
  <2> QED BY <1>1, <1>2, <2>1, SameLengths DEF Fail, KeepsWaiting, ReceiveOutcome
<1>7. CASE /\ "RX_REST" \notin got /\ ~("FWL" \in got /\ "RXE" \notin got)
           /\ "WU_F" \in got
  <2>1. irqs' = rest /\ Fail("RX_WAIT_RXS", st) /\ UNCHANGED <<fifoCounts, fifo>>
    BY <1>7 DEF WaitReceiveEnd
  <2> HIDE DEF taken, got, rest, st
  <2> QED BY <1>1, <1>2, <1>3, <1>7, <2>1, SameLengths
      DEF Fail, KeepsWaiting, ReceiveOutcome
<1>8. CASE /\ got # {} /\ "RX_REST" \notin got /\ ~("FWL" \in got /\ "RXE" \notin got)
           /\ "WU_F" \notin got
  <2> DEFINE all == got \cup (rest \cap Errors)
  <2>1. irqs' = rest \ Errors /\ CheckErrors(all, st)
    BY <1>8 DEF WaitReceiveEnd
  <2>2. /\ from \cap SeenErrors \subseteq all \cap SeenErrors
        /\ "RXE" \in all => "RXE" \in from
        /\ "EOF" \in from \cup carried => "EOF" \in all
    BY DEF SeenErrors, Errors
  <2> HIDE DEF taken, got, rest, st, all
  <2>3. /\ LengthsOK /\ status' \in Statuses
        /\ \/ Failed(from) \/ HasError
           \/ /\ "RXE" \in all /\ all \cap SeenErrors = {} /\ tail = "whole"
              /\ PassiveListen => "EOF" \notin all
              /\ \/ state' = "IDLE" /\ status' = "NONE" /\ ~ActiveComm
                 \/ /\ state' = "RX_WAIT_EOF" /\ status' = status
                    /\ status = "BUSY" /\ ActiveComm
    BY <1>1, <2>1, CheckErrorsOutcome
  <2>4. irqs' \subseteq from /\ "RXE" \notin irqs'
    BY <1>2, <2>1
  <2>5. all \cap SeenErrors = {} => from \cap SeenErrors = {}
    BY <2>2
  <2> QED BY <1>3, <1>8, <2>2, <2>3, <2>4, <2>5 DEF ReceiveOutcome, Good
<1> QED BY <1>4, <1>5, <1>6, <1>7, <1>8
-----------------------------------------------------------------------------
(* The steps that send. *)

USE DEF ActiveComm, PassiveListen, PassivePoll, EMVCo, Errors, SeenErrors, Awaiting,
        Receiving, Reading, RxStates, Goto, Fail, Step, software, air, history, fifoCounts

\* An exchange starts with no interrupt of the one before pending.
LEMMA PrepareEffect ==
  ASSUME TypeOK, NEW c \in Context, NEW n \in Nat, rfalPrepareTransceive(c, n)
  PROVE  /\ irqs' \subseteq irqs /\ irqs' \subseteq Irqs
         /\ irqs' \cap {"FWL", "TXE", "RXS", "RXE"} = {}
         /\ PassiveListen => "WU_F" \notin irqs'
         /\ sanity' \in [of : Nat, expired : BOOLEAN]
         /\ cache' \in Nat
<1>1. irqs' = irqs \ ExchangeIrqs /\ irqs \subseteq Irqs
  BY DEF rfalPrepareTransceive, TypeOK
<1>2. sanity' \in [of : Nat, expired : BOOLEAN]
  BY DEF rfalPrepareTransceive, TypeOK
<1>3. cache' \in Nat
  BY FifoAssumption DEF rfalPrepareTransceive, NoStatus
<1>4. {"FWL", "TXE", "RXS", "RXE"} \subseteq ExchangeIrqs
  BY DEF ExchangeIrqs
<1>5. PassiveListen => "WU_F" \in ExchangeIrqs
  BY DEF ExchangeIrqs
<1> QED BY <1>1, <1>2, <1>3, <1>4, <1>5

\* A call to start an exchange.
LEMMA StartKeeps ==
  ASSUME IInv, NEW c \in setup.contexts, rfalStartTransceive(c)
  PROVE  IInv'
<1> USE DEF IInv
<1>1. c \in Context
  BY SetupAssumption DEF TypeOK, Setup
<1>2. calls' = calls + 1 /\ calls' \in Nat /\ ctx' = c /\ status' = "BUSY" /\ sent' = 0
  BY DEF rfalStartTransceive, TypeOK
<1>3. UNCHANGED <<setup, field, bytesTotal, bytesWritten, rcvdLen, gt, rxe, left, tail,
                  gpt, extField, frame, damaged>>
  BY DEF rfalStartTransceive
<1>4. switchedOff' \in BOOLEAN
  BY DEF rfalStartTransceive
<1>5. CASE c.tx > 0
  <2>1. state' = "TX_IDLE" /\ UNCHANGED <<irqs, sanity, cache, fifo, link, nrt, begun>>
    BY <1>5 DEF rfalStartTransceive
  <2>2. TypeOK' /\ FifoFits'
    BY <1>1, <1>2, <1>3, <1>4, <2>1 DEF TypeOK, FifoFits, Statuses, TxStates
  <2>3. Results' /\ TxCounts' /\ RxCounts'
    BY <1>2, <2>1 DEF Results, TxCounts, RxCounts
  <2>4. AnswerOwned' /\ DamageShows' /\ ActiveEnd'
    BY <1>3, <2>1 DEF AnswerOwned, DamageShows, ActiveEnd
  <2>5. FieldEndPending' /\ StartPending'
    BY <1>3, <2>1 DEF FieldEndPending, StartPending
  <2> QED BY <2>2, <2>3, <2>4, <2>5
<1>6. CASE ~(c.tx > 0)
  <2>1. /\ rfalPrepareTransceive(c, calls + 1)
        /\ fifo' = 0 /\ begun' = FALSE /\ state' = "RX_IDLE"
        /\ link' = IF PassiveListen /\ link = "rx" THEN "rx" ELSE "wait"
    BY <1>6 DEF rfalStartTransceive
  <2>2. nrt' \in BOOLEAN /\ begun' \in BOOLEAN
    BY <1>6 DEF rfalStartTransceive
  <2>3. calls + 1 \in Nat
    BY <1>2
  <2>4. /\ irqs' \subseteq irqs /\ irqs' \subseteq Irqs
        /\ irqs' \cap {"FWL", "TXE", "RXS", "RXE"} = {}
        /\ sanity' \in [of : Nat, expired : BOOLEAN]
        /\ cache' \in Nat
    BY <1>1, <2>1, <2>3, PrepareEffect
  <2>5. TypeOK'
    <3>1. link' \in {"rx", "wait"}
      BY <2>1
    <3> QED BY <1>1, <1>2, <1>3, <1>4, <2>1, <2>2, <2>4, <3>1 DEF TypeOK, Statuses, RxStates
  <2>6. FifoFits'
    BY <2>1, FifoAssumption DEF FifoFits
  <2>7. Results' /\ TxCounts' /\ RxCounts'
    <3>1. c.tx = 0
      BY <1>1, <1>6 DEF Context
    <3> QED BY <1>2, <2>1, <3>1 DEF Results, TxCounts, RxCounts
  <2>8. AnswerOwned' /\ DamageShows' /\ ActiveEnd'
    BY <1>3, <2>1, <2>4 DEF AnswerOwned, DamageShows, ActiveEnd
  <2>9. FieldEndPending' /\ StartPending'
    BY <1>3, <2>1, <2>4 DEF FieldEndPending, StartPending
  <2> QED BY <2>5, <2>6, <2>7, <2>8, <2>9
<1> QED BY <1>5, <1>6

\* The other calls.
LEMMA CallsKeep ==
  ASSUME IInv, \/ \E c \in setup.contexts : RefuseShortFwt(c)
               \/ rfalFieldOnAndStartGT \/ rfalFieldOff
  PROVE  IInv'
<1> USE DEF IInv
<1>1. ASSUME NEW c \in setup.contexts, RefuseShortFwt(c) PROVE IInv'
  <2>1. c \in Context
    BY SetupAssumption DEF TypeOK, Setup
  <2>2. /\ state = "IDLE" /\ ctx' = c
        /\ UNCHANGED <<setup, field, state, status, fifoCounts, gt, rxe, sanity, irqs, fifo,
                       air, history>>
    BY <1>1 DEF RefuseShortFwt
  <2>3. TypeOK' /\ FifoFits'
    BY <2>1, <2>2 DEF TypeOK, FifoFits
  <2>4. Results' /\ TxCounts' /\ RxCounts' /\ AnswerOwned'
    BY <2>2 DEF Results, TxCounts, RxCounts, AnswerOwned
  <2>5. DamageShows' /\ ActiveEnd' /\ FieldEndPending' /\ StartPending'
    BY <2>2 DEF DamageShows, ActiveEnd, FieldEndPending, StartPending
  <2> QED BY <2>3, <2>4, <2>5
<1>2. ASSUME rfalFieldOnAndStartGT PROVE IInv'
  BY <1>2 DEF rfalFieldOnAndStartGT, TypeOK, FifoFits, Results, TxCounts, RxCounts,
     AnswerOwned, DamageShows, ActiveEnd, FieldEndPending, StartPending
<1>3. ASSUME rfalFieldOff PROVE IInv'
  <2>1. TypeOK' /\ FifoFits'
    <3>1. field' \in BOOLEAN /\ nrt' \in BOOLEAN /\ switchedOff' \in BOOLEAN
      BY <1>3 DEF rfalFieldOff
    <3>2. /\ link' = "off" /\ left' = 0
          /\ UNCHANGED <<setup, state, status, ctx, fifoCounts, gt, rxe, sanity, irqs, fifo,
                         tail, gpt, extField, calls, sent, frame, begun, damaged>>
      BY <1>3 DEF rfalFieldOff
    <3> QED BY <3>1, <3>2 DEF TypeOK, FifoFits
  <2>2. Results' /\ TxCounts' /\ RxCounts' /\ AnswerOwned'
    BY <1>3 DEF rfalFieldOff, Results, TxCounts, RxCounts, AnswerOwned
  <2>3. DamageShows' /\ ActiveEnd' /\ FieldEndPending' /\ StartPending'
    BY <1>3 DEF rfalFieldOff, DamageShows, ActiveEnd, FieldEndPending, StartPending
  <2> QED BY <2>1, <2>2, <2>3
<1> QED BY <1>1, <1>2, <1>3

\* The frame's first part.
LEMMA TransmitKeeps ==
  ASSUME IInv, Transmit
  PROVE  IInv'
<1> USE DEF IInv
<1> DEFINE part == Least(ctx.tx, FifoDepth)
<1>1. ctx \in Context /\ ctx.tx \in Nat /\ calls \in Nat
  BY DEF TypeOK, Context
<1>2. /\ rfalPrepareTransceive(ctx, calls)
      /\ bytesTotal' = ctx.tx /\ bytesWritten' = part /\ fifo' = part
      /\ nrt' = FALSE /\ left' = 0 /\ sent' = 0 /\ begun' = FALSE
      /\ UNCHANGED <<setup, field, ctx, rcvdLen, gt, rxe, tail, gpt, extField, calls, frame,
                     damaged, switchedOff>>
  BY DEF Transmit
<1>3. part \in Nat /\ part <= FifoDepth /\ part <= ctx.tx
  BY <1>1, FifoAssumption DEF Least
<1>4. /\ irqs' \subseteq irqs /\ irqs' \subseteq Irqs
      /\ irqs' \cap {"FWL", "TXE", "RXS", "RXE"} = {}
      /\ sanity' \in [of : Nat, expired : BOOLEAN]
      /\ cache' \in Nat
  BY <1>1, <1>2, PrepareEffect
<1>5. \/ state' = "TX_FAIL" /\ status' = "LINK_LOSS" /\ link' = "off"
      \/ /\ state' = IF part < ctx.tx THEN "TX_WAIT_WL" ELSE "TX_WAIT_TXE"
         /\ status' = status /\ link' \in {"tx", "off"} /\ state # "IDLE"
      \/ state' = "LOST" /\ status' = status /\ link' = "off" /\ state # "IDLE"
  BY <1>2 DEF Transmit, PastGuardTime, Lose
<1> HIDE DEF part
<1>6. TypeOK'
  <2>1. nrt' \in BOOLEAN /\ begun' \in BOOLEAN
    BY <1>2
  <2>2. /\ state' \in TxStates \cup {"LOST"} /\ status' \in Statuses
        /\ link' \in {"tx", "off"}
    BY <1>5 DEF TypeOK, TxStates, Statuses
  <2> QED BY <1>1, <1>2, <1>3, <1>4, <2>1, <2>2 DEF TypeOK
<1>7. FifoFits'
  BY <1>2, <1>3 DEF FifoFits
<1>8. Results' /\ RxCounts'
  BY <1>5 DEF Results, RxCounts
<1>9. TxCounts'
  BY <1>1, <1>2, <1>3, <1>4, <1>5 DEF TxCounts
<1>10. AnswerOwned' /\ DamageShows' /\ ActiveEnd'
  BY <1>2, <1>4, <1>5 DEF AnswerOwned, DamageShows, ActiveEnd
<1>11. FieldEndPending' /\ StartPending'
  BY <1>2, <1>4, <1>5 DEF FieldEndPending, StartPending
<1> QED BY <1>6, <1>7, <1>8, <1>9, <1>10, <1>11

\* A reload finds room for what it writes.
LEMMA ReloadKeeps ==
  ASSUME IInv, WaitWaterLevel
  PROVE  IInv'
<1> USE DEF IInv
<1> DEFINE got == irqs \cap {"FWL", "TXE"}
<1>1. /\ state = "TX_WAIT_WL" /\ bytesWritten < bytesTotal /\ irqs' = irqs \ got
      /\ UNCHANGED <<setup, field, ctx, bytesTotal, cache, rcvdLen, gt, rxe, sanity, air,
                     history>>
  BY DEF WaitWaterLevel, TxCounts
<1>2. bytesTotal \in Nat /\ bytesWritten \in Nat /\ fifo \in Nat /\ sent \in Nat
  BY DEF TypeOK
<1>3. CASE got = {"FWL"}
  <2>1. /\ bytesWritten' = bytesWritten + ReloadLen /\ fifo' = fifo + ReloadLen
        /\ \/ state' = "LOST"
           \/ state' = IF bytesWritten' < bytesTotal THEN "TX_WAIT_WL" ELSE "TX_WAIT_TXE"
        /\ status' = status
    BY <1>3 DEF WaitWaterLevel, Lose
  <2>2. /\ "TXE" \notin irqs /\ bytesTotal = ctx.tx /\ link \in {"tx", "off"}
        /\ fifo <= TxLevel /\ sent + fifo = bytesWritten
    BY <1>1, <1>3 DEF TxCounts
  <2>3. /\ ReloadLen \in Nat /\ ReloadLen <= FifoDepth - TxLevel
        /\ ReloadLen <= bytesTotal - bytesWritten
    BY <1>1, <1>2, FifoAssumption DEF ReloadLen, Least
  <2>4. TypeOK'
    BY <1>1, <1>2, <2>1, <2>3 DEF TypeOK, TxStates
  <2>5. FifoFits'
    BY <1>2, <2>1, <2>2, <2>3, FifoAssumption DEF FifoFits
  <2>6. TxCounts'
    BY <1>1, <1>2, <1>3, <2>1, <2>2, <2>3 DEF TxCounts
  <2>7. Results' /\ RxCounts' /\ AnswerOwned'
    BY <1>1, <2>1 DEF Results, RxCounts, AnswerOwned
  <2>8. DamageShows' /\ ActiveEnd' /\ FieldEndPending' /\ StartPending'
    BY <1>1, <2>1 DEF DamageShows, ActiveEnd, FieldEndPending, StartPending
  <2> QED BY <2>4, <2>5, <2>6, <2>7, <2>8
<1>4. CASE got # {"FWL"}
  <2>1. state' = "TX_FAIL" /\ status' = "IO" /\ UNCHANGED <<bytesWritten, fifo>>
    BY <1>4 DEF WaitWaterLevel
  <2>2. TypeOK' /\ FifoFits'
    BY <1>1, <2>1 DEF TypeOK, FifoFits, TxStates, Statuses
  <2>3. Results' /\ TxCounts' /\ RxCounts' /\ AnswerOwned'
    BY <1>1, <2>1 DEF Results, TxCounts, RxCounts, AnswerOwned
  <2>4. DamageShows' /\ ActiveEnd' /\ FieldEndPending' /\ StartPending'
    BY <1>1, <2>1 DEF DamageShows, ActiveEnd, FieldEndPending, StartPending
  <2> QED BY <2>2, <2>3, <2>4
<1> QED BY <1>3, <1>4

\* The steps of the engine that only wait, look at interrupts or give up.
LEMMA WaitsKeep ==
  ASSUME IInv, \/ SanityAbort \/ WaitGuardTime \/ WaitFrameDelay \/ WaitTransmitEnd
               \/ FinishFailed \/ StartReceive \/ WaitFieldOn \/ WaitFieldOff
  PROVE  IInv'
<1> USE DEF IInv
<1>1. ASSUME SanityAbort PROVE IInv'
  BY <1>1 DEF SanityAbort, TypeOK, FifoFits, Results, TxCounts, RxCounts, AnswerOwned,
     DamageShows, ActiveEnd, FieldEndPending, StartPending,
     Statuses, TxStates, RxStates
<1>2. ASSUME WaitGuardTime PROVE IInv'
  BY <1>2 DEF WaitGuardTime, TypeOK, FifoFits, Results, TxCounts, RxCounts, AnswerOwned,
     DamageShows, ActiveEnd, FieldEndPending, StartPending,
     Statuses, TxStates, RxStates
<1>3. ASSUME WaitFrameDelay PROVE IInv'
  BY <1>3 DEF WaitFrameDelay, TypeOK, FifoFits, Results, TxCounts, RxCounts, AnswerOwned,
     DamageShows, ActiveEnd, FieldEndPending, StartPending, PastGuardTime,
     Statuses, TxStates, RxStates
<1>4. ASSUME WaitTransmitEnd PROVE IInv'
  BY <1>4 DEF WaitTransmitEnd, TypeOK, FifoFits, Results, TxCounts, RxCounts, AnswerOwned,
     DamageShows, ActiveEnd, FieldEndPending, StartPending,
     Statuses, TxStates, RxStates
<1>5. ASSUME FinishFailed PROVE IInv'
  BY <1>5 DEF FinishFailed, TypeOK, FifoFits, Results, TxCounts, RxCounts, AnswerOwned,
     DamageShows, ActiveEnd, FieldEndPending, StartPending,
     Statuses, TxStates, RxStates
<1>6. ASSUME StartReceive PROVE IInv'
  <2>1. TypeOK' /\ FifoFits'
    BY <1>6 DEF StartReceive, TypeOK, FifoFits, RxStates
  <2>2. RxCounts'
    <3>1. ctx.rx \in Nat /\ ctx' = ctx
      BY <1>6 DEF StartReceive, TypeOK, Context
    <3> QED BY <1>6, <3>1 DEF StartReceive, RxCounts
  <2>3. Results' /\ TxCounts' /\ AnswerOwned' /\ DamageShows'
    BY <1>6 DEF StartReceive, Results, TxCounts, AnswerOwned, DamageShows
  <2>4. ActiveEnd' /\ FieldEndPending' /\ StartPending'
    BY <1>6 DEF StartReceive, ActiveEnd, FieldEndPending, StartPending
  <2> QED BY <2>1, <2>2, <2>3, <2>4
<1>7. ASSUME WaitFieldOn PROVE IInv'
  BY <1>7 DEF WaitFieldOn, TypeOK, FifoFits, Results, TxCounts, RxCounts, AnswerOwned,
     DamageShows, ActiveEnd, FieldEndPending, StartPending,
     Statuses, TxStates, RxStates
<1>8. ASSUME WaitFieldOff PROVE IInv'
  BY <1>8 DEF WaitFieldOff, TypeOK, FifoFits, Results, TxCounts, RxCounts, AnswerOwned,
     DamageShows, ActiveEnd, FieldEndPending, StartPending,
     Statuses, TxStates, RxStates
<1> QED BY <1>1, <1>2, <1>3, <1>4, <1>5, <1>6, <1>7, <1>8

-----------------------------------------------------------------------------
(* The steps that receive. *)

\* What does not fit in the buffer is counted and dropped.
LEMMA ReadFifoKeeps ==
  ASSUME IInv, ReadFifo
  PROVE  IInv'
<1> USE DEF IInv
<1> DEFINE total == bytesTotal + NumBytes
           fits == IF total > ctx.rx THEN ctx.rx - bytesWritten ELSE NumBytes
<1>1. /\ bytesTotal' = total /\ bytesWritten' = bytesWritten + fits
      /\ fifo' \in {fifo - Least(n, fifo) : n \in {NumBytes, fits}} /\ cache' = NoStatus
      /\ state = "RX_READ_FIFO" /\ state' \in {"RX_WAIT_RXE", "LOST"} /\ rxe' = FALSE
      /\ UNCHANGED <<setup, field, status, ctx, rcvdLen, gt, sanity, irqs, air, calls, sent,
                     frame, begun, damaged, switchedOff>>
  BY DEF ReadFifo, Lose
<1>2. /\ NumBytes \in Nat /\ bytesTotal \in Nat /\ bytesWritten \in Nat /\ fifo \in Nat
      /\ ctx.rx \in Nat
  BY StatusType DEF TypeOK, Context
<1>3. bytesWritten <= bytesTotal /\ bytesWritten <= ctx.rx
  BY <1>1 DEF RxCounts
<1>4. /\ total \in Nat /\ bytesWritten + fits \in Nat /\ fits \in Nat
      /\ bytesWritten + fits <= total /\ bytesWritten + fits <= ctx.rx
  BY <1>2, <1>3
<1>5. fifo' \in Nat /\ fifo' <= fifo
  <2> HIDE DEF fits
  <2> QED BY <1>1, <1>2, <1>4 DEF Least
<1>6. NoStatus \in Nat
  BY FifoAssumption DEF NoStatus
<1> HIDE DEF total, fits
<1>7. TypeOK'
  <2>1. rxe' \in BOOLEAN
    BY <1>1
  <2> QED BY <1>1, <1>4, <1>5, <1>6, <2>1 DEF TypeOK, RxStates
<1>8. FifoFits' /\ RxCounts'
  BY <1>1, <1>2, <1>4, <1>5, FifoAssumption DEF FifoFits, RxCounts
<1>9. Results' /\ TxCounts' /\ AnswerOwned' /\ DamageShows'
  BY <1>1 DEF Results, TxCounts, AnswerOwned, DamageShows
<1>10. ActiveEnd' /\ FieldEndPending' /\ StartPending'
  BY <1>1 DEF ActiveEnd, FieldEndPending, StartPending
<1> QED BY <1>7, <1>8, <1>9, <1>10

\* The bytes of a failed reception are read, and it stays a failed one.
LEMMA ReadAfterErrorKeeps ==
  ASSUME IInv, ReadAfterError
  PROVE  IInv'
<1> USE DEF IInv
<1>1. /\ ReadData(status) /\ state = "RX_READ_DATA"
      /\ UNCHANGED <<setup, field, ctx, gt, rxe, sanity, irqs, air, calls, sent, frame,
                     begun, damaged, switchedOff>>
  BY DEF ReadAfterError
<1>2. status \in Statuses /\ status \notin {"BUSY", "NONE"} /\ bytesWritten <= ctx.rx
  BY <1>1 DEF TypeOK, Results, RxCounts
<1>3. LengthsOK /\ ReadOutcome(status)
  BY <1>1, <1>2, ReadDataLengths, ReadDataOutcome
<1>4. /\ state' = "RX_FAIL" /\ status' \in Statuses /\ status' \notin {"BUSY", "NONE"}
  BY <1>2, <1>3 DEF ReadOutcome
<1>5. TypeOK'
  BY <1>1, <1>3, <1>4 DEF TypeOK, RxStates, LengthsOK
<1>6. FifoFits'
  BY <1>3, FifoAssumption DEF FifoFits, LengthsOK, TypeOK
<1>7. Results' /\ TxCounts' /\ RxCounts' /\ AnswerOwned' /\ DamageShows'
  BY <1>1, <1>4 DEF Results, TxCounts, RxCounts, AnswerOwned, DamageShows
<1>8. ActiveEnd' /\ FieldEndPending' /\ StartPending'
  BY <1>1, <1>4 DEF ActiveEnd, FieldEndPending, StartPending
<1> QED BY <1>5, <1>6, <1>7, <1>8

\* RX_WAIT_RXE, entered with the RXS or later: the end of a frame is taken with
\* every error and every loss of the field that goes with it.
LEMMA ReceivedKeeps ==
  ASSUME IInv, NEW from \in SUBSET irqs, NEW carried \in SUBSET {"EOF"},
         ReceiveOutcome(from, carried), carried \subseteq irqs,
         state \in {"RX_WAIT_RXS", "RX_WAIT_RXE"},
         irqs \ from \subseteq {"RXS", "NRE"} \cup carried,
         rxe' \in BOOLEAN,
         UNCHANGED <<setup, field, ctx, gt, sanity, air, calls, sent, frame, begun, damaged,
                     switchedOff>>
  PROVE  IInv'
<1> USE DEF IInv
<1>1. /\ LengthsOK /\ irqs' \subseteq irqs /\ irqs' \subseteq Irqs /\ "RXE" \notin irqs'
      /\ status' \in Statuses
      /\ KeepsWaiting(from) \/ Failed(from) \/ HasError \/ Good(from, carried)
  BY DEF ReceiveOutcome, TypeOK
<1>2. /\ state' \in RxStates \cup {"IDLE"} /\ state' \notin {"TX_WAIT_WL", "TX_WAIT_TXE"}
      /\ state' \notin {"RX_WAIT_EON", "RX_IDLE", "TX_FAIL"}
  BY <1>1 DEF KeepsWaiting, Failed, HasError, Good, RxStates
<1>3. TypeOK'
  BY <1>1, <1>2 DEF TypeOK, LengthsOK
<1>4. FifoFits'
  BY <1>1, FifoAssumption DEF FifoFits, LengthsOK, TypeOK
<1>5. Results'
  BY <1>1 DEF Results, KeepsWaiting, Failed, HasError, Good
<1>6. TxCounts'
  BY <1>2 DEF TxCounts
<1>7. RxCounts'
  BY <1>1 DEF RxCounts, KeepsWaiting, Failed, HasError, Good
<1>8. CASE Good(from, carried)
  <2>1. "RXE" \in irqs /\ "WU_F" \notin irqs
    BY <1>8 DEF Good
  <2>2. irqs \cap SeenErrors = {} /\ tail = "whole"
    BY <1>8 DEF Good
  <2>3. ~damaged
    BY <2>1, <2>2 DEF DamageShows
  <2>4. AnswerOwned'
    BY <1>1, <2>1 DEF AnswerOwned
  <2>5. ActiveEnd'
    BY <1>1, <1>8, <2>1, <2>3 DEF ActiveEnd, Good
  <2> QED BY <1>1, <1>2, <1>8, <1>3, <1>4, <1>5, <1>6, <1>7, <2>4, <2>5
      DEF DamageShows, FieldEndPending, StartPending, Good
<1>9. CASE ~Good(from, carried)
  <2>1. state' # "RX_WAIT_EOF"
    BY <1>1, <1>9 DEF KeepsWaiting, Failed, HasError
  <2>2. AnswerOwned' /\ DamageShows' /\ ActiveEnd' /\ FieldEndPending'
    BY <1>1, <2>1 DEF AnswerOwned, DamageShows, ActiveEnd, FieldEndPending
  <2>3. state' = "RX_WAIT_RXS" => PassiveListen \/ EMVCo
    BY <1>1, <1>9 DEF KeepsWaiting, Failed, HasError, StartPending
  <2>4. StartPending'
    BY <1>1, <1>2, <2>3 DEF StartPending
  <2> QED BY <1>3, <1>4, <1>5, <1>6, <1>7, <2>2, <2>4
<1> QED BY <1>8, <1>9

\* RX_WAIT_RXE, entered in an earlier call of the worker.
LEMMA WaitReceptionKeeps ==
  ASSUME IInv, WaitReception
  PROVE  IInv'
<1>1. /\ state = "RX_WAIT_RXE" /\ WaitReceiveEnd(irqs, {}, rxe)
      /\ UNCHANGED <<setup, field, ctx, gt, rxe, sanity, air, calls, sent, frame, begun,
                     damaged, switchedOff>>
  BY DEF WaitReception
<1>2. rxe \in BOOLEAN /\ rxe' \in BOOLEAN
  BY <1>1 DEF IInv, TypeOK
<1>3. ReceiveOutcome(irqs, {})
  <2>1. bytesWritten <= ctx.rx
    BY <1>1 DEF IInv, RxCounts
  <2> QED BY <1>1, <1>2, <2>1, ReceiveEndOutcome DEF IInv
<1> QED BY <1>1, <1>2, <1>3, ReceivedKeeps

\* RX_WAIT_RXS, which goes on to RX_WAIT_RXE in the same call.
LEMMA WaitReceiveStartKeeps ==
  ASSUME IInv, WaitReceiveStart
  PROVE  IInv'
<1> DEFINE got == irqs \cap {"RXS", "NRE", "EOF"}
<1>1. /\ state = "RX_WAIT_RXS" /\ got # {}
      /\ UNCHANGED <<setup, field, ctx, gt, sanity, air, calls, sent, frame, begun,
                     damaged, switchedOff>>
  BY DEF WaitReceiveStart
<1>2. CASE "RXS" \in got
  <2>1. rxe' = FALSE /\ WaitReceiveEnd(irqs \ got, got \cap {"EOF"}, FALSE)
    BY <1>2 DEF WaitReceiveStart
  <2>2. bytesWritten <= ctx.rx /\ TypeOK
    BY <1>1 DEF IInv, RxCounts
  <2>3. got \cap {"EOF"} \in SUBSET {"EOF"} /\ FALSE \in BOOLEAN
    OBVIOUS
  <2>4. /\ got \cap {"EOF"} \subseteq irqs /\ irqs \ got \in SUBSET irqs
        /\ irqs \ (irqs \ got) \subseteq {"RXS", "NRE"} \cup (got \cap {"EOF"})
    OBVIOUS
  <2> HIDE DEF got
  <2>5. ReceiveOutcome(irqs \ got, got \cap {"EOF"})
    BY <2>1, <2>2, <2>3, ReceiveEndOutcome
  <2>6. rxe' \in BOOLEAN
    BY <2>1
  <2> QED BY <1>1, <2>3, <2>4, <2>5, <2>6, ReceivedKeeps
<1>3. CASE "RXS" \notin got
  <2> USE DEF IInv
  <2>1. /\ irqs' = irqs \ got /\ state' = "RX_FAIL" /\ status' \in {"TIMEOUT", "LINK_LOSS"}
        /\ UNCHANGED <<fifoCounts, fifo, rxe>>
    BY <1>3 DEF WaitReceiveStart
  <2>2. TypeOK' /\ FifoFits'
    BY <1>1, <2>1 DEF TypeOK, FifoFits, RxStates, Statuses
  <2>3. Results' /\ TxCounts' /\ RxCounts' /\ AnswerOwned' /\ DamageShows'
    BY <1>1, <2>1 DEF Results, TxCounts, RxCounts, AnswerOwned, DamageShows
  <2>4. ActiveEnd' /\ FieldEndPending' /\ StartPending'
    BY <1>1, <2>1 DEF ActiveEnd, FieldEndPending, StartPending
  <2> QED BY <2>2, <2>3, <2>4
<1> QED BY <1>2, <1>3
-----------------------------------------------------------------------------
(* Time, the chip and the peer. *)

\* No conjunct but the types speaks of the timers; the interrupt that one
\* raises is none of an end of transmission or reception.
LEMMA TimeKeeps ==
  ASSUME IInv, Time
  PROVE  IInv'
<1> USE DEF IInv
<1> DEFINE core == <<setup, state, status, ctx, bytesTotal, bytesWritten, fifo, link, tail,
                     extField, sent, begun, damaged>>
<1>1. ASSUME TypeOK', UNCHANGED core, irqs' \in {irqs, irqs \cup {"NRE"}} PROVE IInv'
  <2>1. FifoFits' /\ Results' /\ TxCounts' /\ RxCounts' /\ AnswerOwned'
    BY <1>1 DEF FifoFits, Results, TxCounts, RxCounts, AnswerOwned
  <2>2. DamageShows' /\ ActiveEnd' /\ FieldEndPending' /\ StartPending'
    BY <1>1 DEF DamageShows, ActiveEnd, FieldEndPending, StartPending
  <2> QED BY <1>1, <2>1, <2>2
<1>2. CASE GuardTimeOver
  <2>1. gt' \in BOOLEAN
    BY <1>2 DEF GuardTimeOver
  <2>2. UNCHANGED <<setup, field, state, status, ctx, fifoCounts, rxe, sanity, irqs, fifo,
                    air, history>>
    BY <1>2 DEF GuardTimeOver
  <2>3. TypeOK'
    BY <2>1, <2>2 DEF TypeOK
  <2> QED BY <1>1, <2>2, <2>3
<1>3. CASE RxeTimerExpires
  <2>1. rxe' \in BOOLEAN
    BY <1>3 DEF RxeTimerExpires
  <2>2. UNCHANGED <<setup, field, state, status, ctx, fifoCounts, gt, sanity, irqs, fifo,
                    air, history>>
    BY <1>3 DEF RxeTimerExpires
  <2>3. TypeOK'
    BY <2>1, <2>2 DEF TypeOK
  <2> QED BY <1>1, <2>2, <2>3
<1>4. CASE SanityTimerExpires
  <2>1. sanity' \in [of : Nat, expired : BOOLEAN]
    BY <1>4 DEF SanityTimerExpires, TypeOK
  <2>2. UNCHANGED <<setup, field, state, status, ctx, fifoCounts, gt, rxe, irqs, fifo, air,
                    history>>
    BY <1>4 DEF SanityTimerExpires
  <2>3. TypeOK'
    BY <2>1, <2>2 DEF TypeOK
  <2> QED BY <1>1, <2>2, <2>3
<1>5. CASE FrameDelayOver
  <2>1. gpt' \in BOOLEAN
    BY <1>5 DEF FrameDelayOver
  <2>2. UNCHANGED <<software, irqs, fifo, link, left, tail, nrt, extField, history>>
    BY <1>5 DEF FrameDelayOver
  <2>3. TypeOK'
    BY <2>1, <2>2 DEF TypeOK
  <2> QED BY <1>1, <2>2, <2>3
<1>6. CASE NoResponse
  <2>1. nrt' \in BOOLEAN /\ irqs' = irqs \cup {"NRE"} /\ irqs' \subseteq Irqs
    BY <1>6 DEF NoResponse, TypeOK, Irqs
  <2>2. UNCHANGED <<software, fifo, link, left, tail, gpt, extField, history>>
    BY <1>6 DEF NoResponse
  <2>3. TypeOK'
    BY <2>1, <2>2 DEF TypeOK
  <2> QED BY <1>1, <2>1, <2>2, <2>3
<1> QED BY <1>2, <1>3, <1>4, <1>5, <1>6 DEF Time

\* Bytes leave the FIFO and come into it.
LEMMA BytesKeep ==
  ASSUME IInv, SendByte \/ ReceiveByte
  PROVE  IInv'
<1> USE DEF IInv
<1>1. fifo \in Nat /\ sent \in Nat /\ left \in Nat /\ irqs \subseteq Irqs
  BY DEF TypeOK
<1>2. ASSUME SendByte PROVE IInv'
  <2> DEFINE ends == fifo = 1 \/ sent + 1 = bytesTotal
  <2>1. /\ link = "tx" /\ fifo > 0 /\ fifo' = fifo - 1 /\ sent' = sent + 1
        /\ irqs' = irqs \cup (IF fifo' = TxLevel THEN {"FWL"} ELSE {})
                        \cup (IF ends THEN {"TXE"} ELSE {})
        /\ link' = IF ends THEN "wait" ELSE "tx"
        /\ UNCHANGED <<software, left, tail, gpt, extField, calls, frame, begun, damaged,
                       switchedOff>>
    BY <1>2 DEF SendByte
  <2>2. nrt' \in BOOLEAN
    BY <1>2 DEF SendByte
  <2>3. TypeOK' /\ FifoFits'
    <3>1. fifo' \in Nat /\ sent' \in Nat /\ fifo' <= fifo /\ link' \in {"wait", "tx"}
      BY <1>1, <2>1
    <3>2. irqs' \subseteq Irqs
      BY <1>1, <2>1 DEF Irqs
    <3>3. TypeOK'
      BY <2>1, <2>2, <3>1, <3>2 DEF TypeOK
    <3> QED BY <1>1, <3>1, <3>3, FifoAssumption DEF FifoFits
  <2>4. TxCounts'
    <3>1. bytesTotal \in Nat /\ bytesWritten \in Nat /\ TxLevel \in Nat
      BY FifoAssumption DEF TypeOK
    <3>2. CASE "TXE" \in irqs
      BY <1>1, <2>1, <3>1, <3>2 DEF TxCounts
    <3>3. CASE "TXE" \notin irqs
      BY <1>1, <2>1, <3>1, <3>3 DEF TxCounts
    <3> QED BY <3>2, <3>3
  <2>5. Results' /\ RxCounts' /\ AnswerOwned' /\ DamageShows'
    BY <2>1 DEF Results, RxCounts, AnswerOwned, DamageShows
  <2>6. ActiveEnd' /\ FieldEndPending' /\ StartPending'
    BY <2>1 DEF ActiveEnd, FieldEndPending, StartPending
  <2> QED BY <2>3, <2>4, <2>5, <2>6
<1>3. ASSUME ReceiveByte PROVE IInv'
  <2>1. /\ link = "rx" /\ left' = left - 1 /\ left > 0 /\ fifo' = Least(fifo + 1, FifoDepth)
        /\ irqs' \in {irqs, irqs \cup {"FWL"}}
        /\ UNCHANGED <<software, link, tail, nrt, gpt, extField, history>>
    BY <1>3 DEF ReceiveByte
  <2>2. TypeOK' /\ FifoFits'
    <3>1. fifo' \in Nat /\ fifo' <= FifoDepth /\ left' \in Nat /\ irqs' \subseteq Irqs
      BY <1>1, <2>1, FifoAssumption DEF Least, Irqs
    <3> QED BY <2>1, <3>1 DEF TypeOK, FifoFits
  <2>3. Results' /\ TxCounts' /\ RxCounts' /\ AnswerOwned' /\ DamageShows'
    BY <2>1 DEF Results, TxCounts, RxCounts, AnswerOwned, DamageShows
  <2>4. ActiveEnd' /\ FieldEndPending' /\ StartPending'
    BY <2>1 DEF ActiveEnd, FieldEndPending, StartPending
  <2> QED BY <2>2, <2>3, <2>4
<1> QED BY <1>2, <1>3

\* A frame begins, ends well or badly, or is given up.
LEMMA FramesKeep ==
  ASSUME IInv, \/ \E n \in setup.frames : FrameBegins(n)
               \/ FrameEnds \/ FrameVanishes \/ ReceiverRestarts
  PROVE  IInv'
<1> USE DEF IInv
<1>1. irqs \subseteq Irqs /\ bytesWritten \in Nat
  BY DEF TypeOK
<1>2. ASSUME NEW n \in setup.frames, FrameBegins(n) PROVE IInv'
  <2>1. n \in Nat
    BY SetupAssumption DEF TypeOK, Setup
  <2>2. /\ link \in {"field", "wait"} /\ (ActiveComm => link = "field")
        /\ PassiveListen => extField
        /\ link' = "rx" /\ left' = n /\ frame' = n /\ begun' = TRUE
        /\ irqs' = irqs \cup {"RXS"}
        /\ UNCHANGED <<software, fifo, tail, gpt, extField, calls, sent, damaged, switchedOff>>
    BY <1>2 DEF FrameBegins
  <2>3. nrt' \in BOOLEAN
    BY <1>2 DEF FrameBegins
  <2>4. TypeOK' /\ FifoFits'
    <3>1. irqs' \subseteq Irqs
      BY <1>1, <2>2 DEF Irqs
    <3>2. begun' \in BOOLEAN
      BY <2>2
    <3> QED BY <2>1, <2>2, <2>3, <3>1, <3>2 DEF TypeOK, FifoFits
  <2>5. Results' /\ TxCounts' /\ RxCounts' /\ AnswerOwned' /\ DamageShows'
    BY <2>2 DEF Results, TxCounts, RxCounts, AnswerOwned, DamageShows
  <2>6. ActiveEnd'
    BY <2>2 DEF ActiveEnd
  <2>7. FieldEndPending' /\ StartPending'
    BY <2>2 DEF FieldEndPending, StartPending
  <2> QED BY <2>4, <2>5, <2>6, <2>7
<1>3. ASSUME FrameEnds PROVE IInv'
  <2>1. PICK err \in {{}} \cup {{e} : e \in Errors}, t \in {"whole", "bits", "nopar"} :
          /\ irqs' = irqs \cup {"RXE"} \cup err
          /\ tail' = t
          /\ damaged' = (t # "whole" \/ err \ (IF PassivePoll THEN {} ELSE {"ERR2"}) # {})
    BY <1>3 DEF FrameEnds
  <2>2. /\ link = "rx" /\ link' = IF ActiveComm THEN "closing" ELSE "off"
        /\ UNCHANGED <<software, fifo, left, nrt, extField, calls, sent, frame, begun,
                       switchedOff>>
    BY <1>3 DEF FrameEnds
  <2>3. gpt' \in BOOLEAN /\ damaged' \in BOOLEAN
    BY <1>3, <2>1 DEF FrameEnds
  <2>4. err \subseteq Errors
    OBVIOUS
  <2>5. TypeOK' /\ FifoFits'
    <3>1. irqs' \subseteq Irqs /\ link' \in {"closing", "off"}
      BY <1>1, <2>1, <2>2, <2>4 DEF Irqs
    <3> QED BY <2>1, <2>2, <2>3, <3>1 DEF TypeOK, FifoFits
  <2>6. DamageShows'
    <3>1. CASE t # "whole"
      BY <2>1, <3>1 DEF DamageShows
    <3>2. CASE t = "whole" /\ damaged'
      <4>1. err \ (IF PassivePoll THEN {} ELSE {"ERR2"}) # {}
        BY <2>1, <3>2
      <4>2. err \cap SeenErrors # {} /\ (SeenErrors' = SeenErrors)
        BY <2>2, <2>4, <4>1
      <4>3. irqs' \cap SeenErrors' # {}
        BY <2>1, <4>2
      <4> HIDE DEF SeenErrors
      <4> QED BY <4>3 DEF DamageShows
    <3> QED BY <3>1, <3>2, <2>1 DEF DamageShows
  <2>7. Results' /\ TxCounts' /\ RxCounts' /\ AnswerOwned'
    BY <2>1, <2>2, <2>4 DEF Results, TxCounts, RxCounts, AnswerOwned
  <2>8. ActiveEnd' /\ FieldEndPending' /\ StartPending'
    BY <2>1, <2>2, <2>4 DEF ActiveEnd, FieldEndPending, StartPending
  <2> QED BY <2>5, <2>6, <2>7, <2>8
<1>4. ASSUME FrameVanishes PROVE IInv'
  BY <1>4 DEF FrameVanishes, TypeOK, FifoFits, Results, TxCounts, RxCounts, AnswerOwned,
     DamageShows, ActiveEnd, FieldEndPending, StartPending
<1>5. ASSUME ReceiverRestarts PROVE IInv'
  <2>1. /\ EMVCo /\ link = "rx" /\ link' = "wait" /\ left' = 0 /\ fifo' = 0
        /\ irqs' = irqs \cup {"RX_REST"}
        /\ UNCHANGED <<software, tail, nrt, gpt, extField, history>>
    BY <1>5 DEF ReceiverRestarts
  <2>2. TypeOK' /\ FifoFits'
    BY <1>1, <2>1, FifoAssumption DEF TypeOK, FifoFits, Irqs
  <2>3. Results' /\ TxCounts' /\ RxCounts' /\ AnswerOwned' /\ DamageShows'
    BY <2>1 DEF Results, TxCounts, RxCounts, AnswerOwned, DamageShows
  <2>4. ActiveEnd' /\ FieldEndPending' /\ StartPending'
    BY <2>1 DEF ActiveEnd, FieldEndPending, StartPending
  <2> QED BY <2>2, <2>3, <2>4
<1> QED BY <1>2, <1>3, <1>4, <1>5

\* The peer's and the reader's fields, and the chip's own answers.
LEMMA FieldsKeep ==
  ASSUME IInv, \/ PeerFieldOn \/ PeerFieldOnly \/ PeerFieldOff
               \/ AutomaticAnswer \/ ReaderFieldOff
  PROVE  IInv'
<1> USE DEF IInv
<1>1. ASSUME PeerFieldOn PROVE IInv'
  BY <1>1 DEF PeerFieldOn, TypeOK, FifoFits, Results, TxCounts, RxCounts, AnswerOwned,
     DamageShows, ActiveEnd, FieldEndPending, StartPending, Irqs
<1>2. ASSUME PeerFieldOnly PROVE IInv'
  BY <1>2 DEF PeerFieldOnly, TypeOK, FifoFits, Results, TxCounts, RxCounts, AnswerOwned,
     DamageShows, ActiveEnd, FieldEndPending, StartPending, Irqs
<1>3. ASSUME PeerFieldOff PROVE IInv'
  BY <1>3 DEF PeerFieldOff, TypeOK, FifoFits, Results, TxCounts, RxCounts, AnswerOwned,
     DamageShows, ActiveEnd, FieldEndPending, StartPending, Irqs
<1>4. ASSUME AutomaticAnswer PROVE IInv'
  BY <1>4 DEF AutomaticAnswer, TypeOK, FifoFits, Results, TxCounts, RxCounts, AnswerOwned,
     DamageShows, ActiveEnd, FieldEndPending, StartPending, Irqs
<1>5. ASSUME ReaderFieldOff PROVE IInv'
  <2>1. /\ PassiveListen /\ link' = "off" /\ left' = 0 /\ irqs' = irqs \cup {"EOF"}
        /\ UNCHANGED <<software, fifo, tail, nrt, gpt, history>>
    BY <1>5 DEF ReaderFieldOff
  <2>2. extField' \in BOOLEAN
    BY <1>5 DEF ReaderFieldOff
  <2>3. TypeOK' /\ FifoFits'
    BY <2>1, <2>2 DEF TypeOK, FifoFits, Irqs
  <2>4. Results' /\ TxCounts' /\ RxCounts' /\ AnswerOwned' /\ DamageShows'
    BY <2>1 DEF Results, TxCounts, RxCounts, AnswerOwned, DamageShows
  <2>5. ActiveEnd' /\ FieldEndPending' /\ StartPending'
    BY <2>1 DEF ActiveEnd, FieldEndPending, StartPending
  <2> QED BY <2>3, <2>4, <2>5
<1> QED BY <1>1, <1>2, <1>3, <1>4, <1>5

-----------------------------------------------------------------------------
(* The invariant. *)

\* The invariant holds after rfalInitialize.
LEMMA InitIInv == Init => IInv
<1> SUFFICES ASSUME Init PROVE IInv
  OBVIOUS
<1>1. TypeOK
  <2>1. [tx |-> 0, rx |-> 0, keep |-> FALSE, fwt |-> "none"] \in Context
    BY DEF Context
  <2>2. NoTimer \in [of : Nat, expired : BOOLEAN] /\ NoStatus \in Nat
    BY FifoAssumption DEF NoTimer, NoStatus
  <2> QED BY <2>1, <2>2 DEF Init, TypeOK, Statuses
<1>2. FifoFits /\ Results /\ TxCounts /\ RxCounts /\ AnswerOwned
  BY FifoAssumption DEF Init, FifoFits, Results, TxCounts, RxCounts, AnswerOwned
<1>3. DamageShows /\ ActiveEnd /\ FieldEndPending /\ StartPending
  BY DEF Init, DamageShows, ActiveEnd, FieldEndPending, StartPending
<1> QED BY <1>1, <1>2, <1>3 DEF IInv

\* Every step keeps the invariant.
LEMMA NextIInv == IInv /\ [Next]_vars => IInv'
<1> SUFFICES ASSUME IInv, [Next]_vars PROVE IInv'
  OBVIOUS
<1>1. CASE App
  BY <1>1, StartKeeps, CallsKeep DEF App
<1>2. CASE rfalWorker
  BY <1>2, WaitsKeep, TransmitKeeps, ReloadKeeps, WaitReceiveStartKeeps,
     WaitReceptionKeeps, ReadFifoKeeps, ReadAfterErrorKeeps DEF rfalWorker
<1>3. CASE Time
  BY <1>3, TimeKeeps
<1>4. CASE Chip
  BY <1>4, BytesKeep, FramesKeep, FieldsKeep DEF Chip
<1>5. CASE UNCHANGED vars
  <2>1. TypeOK' /\ FifoFits' /\ Results' /\ TxCounts' /\ RxCounts'
    BY <1>5 DEF vars, IInv, TypeOK, FifoFits, Results, TxCounts, RxCounts
  <2>2. AnswerOwned' /\ DamageShows' /\ ActiveEnd' /\ FieldEndPending' /\ StartPending'
    BY <1>5 DEF vars, IInv, AnswerOwned, DamageShows, ActiveEnd, FieldEndPending, StartPending
  <2> QED BY <2>1, <2>2 DEF IInv
<1> QED BY <1>1, <1>2, <1>3, <1>4, <1>5 DEF Next

\* IInv holds in every state of every behaviour.
THEOREM Invariance == Spec => []IInv
BY InitIInv, NextIInv, PTL DEF Spec

\* Type correctness of every reachable state, for every FIFO size, water level
\* and setup: no length of rfalTransceiveTx and rfalTransceiveRx is negative.
THEOREM TypeCorrect == Spec => []TypeOK
<1>1. IInv => TypeOK
  BY DEF IInv
<1> QED BY <1>1, Invariance, PTL

\* The FIFO never overflows: a reload at the water level has room for what it
\* writes although the interrupt may be served late.
THEOREM FifoNeverOverflows == Spec => []FifoFits
<1>1. IInv => FifoFits
  BY DEF IInv
<1> QED BY <1>1, Invariance, PTL

\* rfalGetTransceiveStatus never says ST_ERR_BUSY of an exchange that ended.
THEOREM EndedExchangesHaveResults == Spec => []EndedHasResult
<1>1. IInv => EndedHasResult
  BY DEF IInv, Results, EndedHasResult
<1> QED BY <1>1, Invariance, PTL
-----------------------------------------------------------------------------
(* The ends of an exchange. *)

\* What leaves the engine's state as it is ends nothing.
LEMMA OutsideEngine ==
  ASSUME Time \/ Chip \/ UNCHANGED vars
  PROVE  state' = state /\ status' = status
BY DEF Time, Chip, vars, GuardTimeOver, RxeTimerExpires, SanityTimerExpires, FrameDelayOver,
   NoResponse, SendByte, PeerFieldOn, PeerFieldOnly, FrameBegins, ReceiveByte, FrameEnds,
   FrameVanishes, ReceiverRestarts, PeerFieldOff, AutomaticAnswer, ReaderFieldOff

\* An application's call starts an exchange or leaves the engine as it is.
LEMMA AppSteps ==
  ASSUME App, TypeOK
  PROVE  \/ state' = state /\ status' = status
         \/ state' \in {"TX_IDLE", "RX_IDLE"} /\ status' = "BUSY" /\ calls' # calls
<1>1. ASSUME NEW c \in setup.contexts, rfalStartTransceive(c)
      PROVE  state' \in {"TX_IDLE", "RX_IDLE"} /\ status' = "BUSY" /\ calls' # calls
  <2>1. calls' = calls + 1 /\ calls \in Nat
    BY <1>1 DEF rfalStartTransceive, TypeOK
  <2> QED BY <1>1, <2>1 DEF rfalStartTransceive
<1>2. ASSUME NEW c \in setup.contexts, RefuseShortFwt(c)
      PROVE  state' = state /\ status' = status
  BY <1>2 DEF RefuseShortFwt
<1>3. ASSUME rfalFieldOnAndStartGT \/ rfalFieldOff
      PROVE  state' = state /\ status' = status
  BY <1>3 DEF rfalFieldOnAndStartGT, rfalFieldOff
<1> QED BY <1>1, <1>2, <1>3 DEF App

\* An exchange ends well at the end of its transmission, of a reception, or of
\* the peer's field, and turns to Rx at the end of its transmission.
LEMMA SuccessSteps ==
  ASSUME IInv, [Next]_vars
  PROVE  /\ Succeeds => WaitTransmitEnd \/ WaitReceiveStart \/ WaitReception \/ WaitFieldOff
         /\ TurnsToRx => WaitTransmitEnd
<1> USE DEF IInv, Succeeds, TurnsToRx, TxStates
<1>1. CASE App
  BY <1>1, AppSteps
<1>2. CASE Time \/ Chip \/ UNCHANGED vars
  BY <1>2, OutsideEngine
<1>3. CASE SanityAbort \/ WaitGuardTime \/ WaitFrameDelay \/ FinishFailed
  BY <1>3 DEF SanityAbort, WaitGuardTime, WaitFrameDelay, FinishFailed, Results
<1>4. CASE Transmit
  <2>1. state' \in {"TX_FAIL", "TX_WAIT_WL", "TX_WAIT_TXE", "LOST"}
    BY <1>4 DEF Transmit, Lose
  <2> QED BY <2>1
<1>5. CASE WaitWaterLevel
  <2>1. state' \in {"TX_FAIL", "TX_WAIT_WL", "TX_WAIT_TXE", "LOST"}
    BY <1>5 DEF WaitWaterLevel, Lose
  <2> QED BY <2>1
<1>6. CASE StartReceive \/ WaitFieldOn \/ ReadFifo
  BY <1>6 DEF StartReceive, WaitFieldOn, ReadFifo, Lose
<1>7. CASE ReadAfterError
  <2>1. ReadData(status) /\ state = "RX_READ_DATA"
    BY <1>7 DEF ReadAfterError
  <2>2. status \in Statuses /\ status # "BUSY"
    BY <2>1 DEF TypeOK, Results
  <2> QED BY <2>1, <2>2, ReadDataOutcome DEF ReadOutcome
<1>8. CASE WaitReceiveStart \/ WaitReception \/ WaitFieldOff
  BY <1>8 DEF WaitReceiveStart, WaitReception, WaitFieldOff
<1>9. CASE WaitTransmitEnd
  BY <1>9
<1> QED BY <1>1, <1>2, <1>3, <1>4, <1>5, <1>6, <1>7, <1>8, <1>9 DEF Next, rfalWorker

\* A step that takes the end of a frame: what it finds in the status word.
LEMMA ReceptionOutcome ==
  ASSUME IInv, WaitReceiveStart \/ WaitReception
  PROVE  /\ \/ \E from \in SUBSET irqs : KeepsWaiting(from) \/ Failed(from)
            \/ HasError
            \/ state' = "RX_FAIL" /\ "RXS" \notin irqs /\ state = "RX_WAIT_RXS"
            \/ /\ "RXE" \in irqs /\ "WU_F" \notin irqs /\ irqs \cap SeenErrors = {}
               /\ tail = "whole" /\ (PassiveListen => "EOF" \notin irqs)
               /\ status' \in {"NONE", "BUSY"}
         /\ state \in {"RX_WAIT_RXS", "RX_WAIT_RXE"}
<1>1. CASE WaitReception
  <2>1. state = "RX_WAIT_RXE" /\ WaitReceiveEnd(irqs, {}, rxe)
    BY <1>1 DEF WaitReception
  <2>2. rxe \in BOOLEAN /\ bytesWritten <= ctx.rx /\ TypeOK /\ {} \in SUBSET {"EOF"}
    BY <2>1 DEF IInv, TypeOK, RxCounts
  <2>3. ReceiveOutcome(irqs, {})
    BY <2>1, <2>2, ReceiveEndOutcome
  <2> QED BY <2>1, <2>3 DEF ReceiveOutcome, Good
<1>2. CASE WaitReceiveStart
  <2> DEFINE got == irqs \cap {"RXS", "NRE", "EOF"}
             from == irqs \ got
  <2>1. state = "RX_WAIT_RXS"
    BY <1>2 DEF WaitReceiveStart
  <2>2. CASE "RXS" \in got
    <3>1. WaitReceiveEnd(from, got \cap {"EOF"}, FALSE)
      BY <1>2, <2>2 DEF WaitReceiveStart
    <3>2. /\ bytesWritten <= ctx.rx /\ TypeOK
          /\ got \cap {"EOF"} \in SUBSET {"EOF"} /\ FALSE \in BOOLEAN
      BY <2>1 DEF IInv, RxCounts
    <3>3. ReceiveOutcome(from, got \cap {"EOF"})
      <4> HIDE DEF got, from
      <4> QED BY <3>1, <3>2, ReceiveEndOutcome
    <3>4. from \in SUBSET irqs
      OBVIOUS
    <3>5. ASSUME Good(from, got \cap {"EOF"})
          PROVE  /\ "RXE" \in irqs /\ "WU_F" \notin irqs /\ irqs \cap SeenErrors = {}
                 /\ tail = "whole" /\ (PassiveListen => "EOF" \notin irqs)
                 /\ status' \in {"NONE", "BUSY"}
      BY <3>5 DEF Good
    <3> HIDE DEF got, from
    <3> QED BY <2>1, <3>3, <3>4, <3>5 DEF ReceiveOutcome
  <2>3. CASE "RXS" \notin got
    <3>1. state' = "RX_FAIL"
      BY <1>2, <2>3 DEF WaitReceiveStart
    <3> QED BY <2>1, <2>3, <3>1
  <2> QED BY <2>2, <2>3
<1> QED BY <1>1, <1>2

\* A reception that ends well: an undamaged frame, and the field still on.
LEMMA GoodReception ==
  ASSUME IInv, WaitReceiveStart \/ WaitReception, Succeeds
  PROVE  /\ "RXE" \in irqs /\ ~damaged /\ (PassiveListen => "EOF" \notin irqs)
         /\ state \in {"RX_WAIT_RXS", "RX_WAIT_RXE"}
<1>1. /\ "RXE" \in irqs /\ "WU_F" \notin irqs /\ irqs \cap SeenErrors = {}
      /\ tail = "whole" /\ (PassiveListen => "EOF" \notin irqs)
      /\ state \in {"RX_WAIT_RXS", "RX_WAIT_RXE"}
  <2>1. state' = "IDLE"
    BY DEF Succeeds
  <2>2. ASSUME NEW from, KeepsWaiting(from) \/ Failed(from) PROVE FALSE
    BY <2>1, <2>2 DEF KeepsWaiting, Failed
  <2>3. ~HasError
    BY <2>1 DEF HasError
  <2> HIDE DEF SeenErrors
  <2> QED BY <2>1, <2>2, <2>3, ReceptionOutcome
<1>2. ~damaged
  BY <1>1 DEF IInv, DamageShows
<1> QED BY <1>1, <1>2

\* An exchange that only sends ends well when its transmission does.
LEMMA SentWhole ==
  ASSUME IInv, WaitTransmitEnd, state' # "TX_WAIT_TXE"
  PROVE  sent = ctx.tx /\ (state' = "IDLE" => ctx.rx = 0)
<1>1. "TXE" \in irqs /\ state = "TX_WAIT_TXE"
  BY DEF WaitTransmitEnd
<1>2. state' = "IDLE" => ctx.rx = 0
  BY DEF WaitTransmitEnd
<1>3. sent = ctx.tx
  BY <1>1 DEF IInv, TxCounts
<1> QED BY <1>2, <1>3
-----------------------------------------------------------------------------
\* The Tx states end well, and turn to Rx, only with the whole frame on the air,
\* whatever the size of the frame, the FIFO and the water level, over SPI and I2C.  That a
\* frame ends at all is not said: over SPI one with a part longer than TxArray may
\* not (Overruns).
THEOREM FramesSentWhole == Spec => OnlyWholeFramesSent
<1>1. ASSUME IInv, [Next]_vars, TurnsToRx \/ Succeeds PROVE sent = ctx.tx
  <2>1. CASE WaitTransmitEnd
    BY <1>1, <2>1, SentWhole DEF TurnsToRx, Succeeds
  <2>2. CASE Succeeds /\ (WaitReceiveStart \/ WaitReception \/ WaitFieldOff)
    <3>1. state \in RxStates
      BY <2>2 DEF WaitReceiveStart, WaitReception, WaitFieldOff
    <3> QED BY <1>1, <3>1 DEF IInv, RxCounts
  <2> QED BY <1>1, <2>1, <2>2, SuccessSteps
<1>2. IInv /\ [Next]_vars => (TurnsToRx \/ Succeeds => sent = ctx.tx)
  BY <1>1
<1> QED BY <1>2, Invariance, PTL DEF Spec, OnlyWholeFramesSent

\* What is delivered began after this exchange was prepared: a late answer to
\* the command before is never taken for the answer to this one.
THEOREM AnswerIsOwn == Spec => OwnAnswer
<1>1. ASSUME IInv, [Next]_vars, Succeeds, ctx.rx > 0, ~PassiveListen PROVE begun
  <2>1. CASE WaitTransmitEnd
    <3>1. ctx.rx = 0
      BY <1>1, <2>1, SentWhole DEF Succeeds
    <3> QED BY <1>1, <3>1
  <2>2. CASE WaitReceiveStart \/ WaitReception
    BY <1>1, <2>2, GoodReception DEF IInv, AnswerOwned
  <2>3. CASE WaitFieldOff
    <3>1. state = "RX_WAIT_EOF"
      BY <2>3 DEF WaitFieldOff
    <3> QED BY <1>1, <3>1 DEF IInv, AnswerOwned
  <2> QED BY <1>1, <2>1, <2>2, <2>3, SuccessSteps
<1>2. IInv /\ [Next]_vars => (Succeeds /\ ctx.rx > 0 /\ ~PassiveListen => begun)
  BY <1>1
<1> QED BY <1>2, Invariance, PTL DEF Spec, OwnAnswer

\* A frame that ended with a parity, CRC, framing or collision error is never
\* reported with ST_ERR_NONE.
THEOREM NoDamageDelivered == Spec => DamagedNotDelivered
<1>1. ASSUME IInv, [Next]_vars, Succeeds, ctx.rx > 0 PROVE ~damaged
  <2>1. CASE WaitTransmitEnd
    <3>1. ctx.rx = 0
      BY <1>1, <2>1, SentWhole DEF Succeeds
    <3> QED BY <1>1, <3>1
  <2>2. CASE WaitReceiveStart \/ WaitReception
    BY <1>1, <2>2, GoodReception
  <2>3. CASE WaitFieldOff
    <3>1. state = "RX_WAIT_EOF"
      BY <2>3 DEF WaitFieldOff
    <3> QED BY <1>1, <3>1 DEF IInv, ActiveEnd
  <2> QED BY <1>1, <2>1, <2>2, <2>3, SuccessSteps
<1>2. IInv /\ [Next]_vars => (Succeeds /\ ctx.rx > 0 => ~damaged)
  BY <1>1
<1> QED BY <1>2, Invariance, PTL DEF Spec, DamagedNotDelivered

\* A target reports a frame only while the reader's field is on: the end of the
\* field is pending with the end of the frame and turns it into a lost link.
THEOREM TargetHasField == Spec => TargetNeedsField
<1>1. ASSUME IInv, [Next]_vars, Succeeds, PassiveListen, ctx.rx > 0 PROVE extField
  <2>1. CASE WaitTransmitEnd
    <3>1. ctx.rx = 0
      BY <1>1, <2>1, SentWhole DEF Succeeds
    <3> QED BY <1>1, <3>1
  <2>2. CASE WaitReceiveStart \/ WaitReception
    BY <1>1, <2>2, GoodReception DEF IInv, FieldEndPending
  <2>3. CASE WaitFieldOff
    <3>1. state = "RX_WAIT_EOF"
      BY <2>3 DEF WaitFieldOff
    <3> QED BY <1>1, <3>1 DEF IInv, ActiveEnd
  <2> QED BY <1>1, <2>1, <2>2, <2>3, SuccessSteps
<1>2. IInv /\ [Next]_vars => (Succeeds /\ PassiveListen /\ ctx.rx > 0 => extField)
  BY <1>1
<1> QED BY <1>2, Invariance, PTL DEF Spec, TargetNeedsField

\* A poller reports a timeout only if no answer began: the start of an answer
\* wins over a no-response interrupt that is pending with it.
THEOREM AnsweredExchangesDoNotTimeOut == Spec => AnsweredNotTimedOut
<1>1. ASSUME IInv, [Next]_vars, PassivePoll, ~EMVCo, status = "BUSY", status' = "TIMEOUT"
      PROVE  ~begun
  <2> USE DEF IInv
  <2>1. CASE App
    BY <1>1, <2>1, AppSteps
  <2>2. CASE Time \/ Chip \/ UNCHANGED vars
    BY <1>1, <2>2, OutsideEngine
  <2>3. CASE \/ SanityAbort \/ WaitGuardTime \/ WaitFrameDelay \/ FinishFailed
             \/ WaitTransmitEnd \/ StartReceive \/ ReadFifo \/ WaitFieldOff
    BY <1>1, <2>3 DEF SanityAbort, WaitGuardTime, WaitFrameDelay, FinishFailed,
       WaitTransmitEnd, StartReceive, ReadFifo, WaitFieldOff, Lose
  <2>4. CASE Transmit
    <3>1. status' \in {status, "LINK_LOSS"}
      BY <2>4 DEF Transmit, Lose
    <3> QED BY <1>1, <3>1
  <2>5. CASE WaitWaterLevel
    <3>1. status' \in {status, "IO"}
      BY <2>5 DEF WaitWaterLevel, Lose
    <3> QED BY <1>1, <3>1
  <2>6. CASE ReadAfterError
    <3>1. state = "RX_READ_DATA"
      BY <2>6 DEF ReadAfterError
    <3> QED BY <1>1, <3>1 DEF Results
  <2>7. CASE WaitFieldOn
    <3>1. state = "RX_WAIT_EON"
      BY <2>7 DEF WaitFieldOn
    <3> QED BY <1>1, <3>1 DEF StartPending
  <2>8. CASE WaitReceiveStart \/ WaitReception
    <3>1. "RX_REST" \notin irqs
      BY <1>1 DEF StartPending
    <3>2. ASSUME NEW from \in SUBSET irqs, KeepsWaiting(from) \/ Failed(from) PROVE FALSE
      BY <1>1, <3>1, <3>2 DEF KeepsWaiting, Failed
    <3>3. ~HasError
      BY <1>1 DEF HasError
    <3>4. "RXS" \notin irqs /\ state = "RX_WAIT_RXS"
      BY <1>1, <2>8, <3>2, <3>3, ReceptionOutcome
    <3> QED BY <1>1, <3>4 DEF StartPending
  <2> QED BY <1>1, <2>1, <2>2, <2>3, <2>4, <2>5, <2>6, <2>7, <2>8 DEF Next, rfalWorker
<1>2. IInv /\ [Next]_vars =>
        (PassivePoll /\ ~EMVCo /\ status = "BUSY" /\ status' = "TIMEOUT" => ~begun)
  BY <1>1
<1> QED BY <1>2, Invariance, PTL DEF Spec, AnsweredNotTimedOut

\* What an exchange delivers is its own answer, undamaged, on a link that still stands.
THEOREM DeliveredAnswersAreGood == Spec => GoodAnswer
BY AnswerIsOwn, NoDamageDelivered, TargetHasField DEF GoodAnswer
=============================================================================
