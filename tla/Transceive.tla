----------------------------- MODULE Transceive -----------------------------
(***************************************************************************)
(* The transceive engine of rfal_rfst25r3916.cpp: rfalStartTransceive sets *)
(* an exchange up, and each call of rfalWorker takes its Tx or Rx state    *)
(* machine one step, driven by the interrupts in the status word, the      *)
(* chip's FIFO and three timers.  The chip (FIFO, transmitter, receiver,   *)
(* no-response and general-purpose timers) and the peer run in between.    *)
(*                                                                         *)
(* Lengths are in bytes.  What a byte holds is left out, as are NFC-V's    *)
(* coding buffer, the observation mode and the bit-rate registers.         *)
(***************************************************************************)
EXTENDS Integers, FiniteSets

CONSTANTS
  FifoDepth,     \* ST25R3916_FIFO_DEPTH (512)
  TxArray,       \* the array a FIFO write over SPI is copied to: tx[256]
  TxLevel,       \* RFAL_FIFO_IN_WL (200)
  RxLevel,       \* the chip's water level while it receives (300)
  CountModulus,  \* 2^8: a byte count read from the FIFO status is a uint8_t
  CrcLen,        \* RFAL_CRC_LEN
  Setups         \* what is explored: see Setup

\* tx, rx: lengths, 0 for a NULL buffer.  keep: RFAL_TXRX_FLAGS_CRC_RX_KEEP.
\* fwt: "none" (RFAL_FWT_NONE), "set", or "short" (not above FDTListen).
Context == [tx : Nat, rx : Nat, keep : BOOLEAN, fwt : {"none", "set", "short"}]

\* A mode with the error handling (emvco: RFAL_ERRORHANDLING_EMVCO) and the bus
\* (i2c_enabled, else SPI), and in it the contexts callers start an exchange with,
\* the lengths of the peer's frames and the number of exchanges (bounds).
Setup == [mode : {"POLL_NFCA", "ACTIVE_P2P", "LISTEN_NFCA"}, emvco : BOOLEAN,
          i2c : BOOLEAN, contexts : SUBSET Context, frames : SUBSET Nat,
          maxCalls : Nat]

ASSUME FifoAssumption ==
  /\ FifoDepth \in Nat /\ TxArray \in Nat /\ TxLevel \in Nat /\ RxLevel \in Nat
  /\ CountModulus \in Nat \ {0} /\ CrcLen \in Nat
  /\ 0 < TxLevel /\ TxLevel < FifoDepth
ASSUME SetupAssumption == Setups \subseteq Setup

VARIABLES
  setup,         \* gRFAL.mode, gRFAL.conf.eHandling; the bounds
  field,         \* gRFAL.field
  state,         \* gRFAL.TxRx.state, or LOST: the program does nothing any more
  status,        \* gRFAL.TxRx.status
  ctx,           \* gRFAL.TxRx.ctx
  bytesTotal, bytesWritten,    \* gRFAL.fifo
  cache,         \* gRFAL.fifo.status: the byte count in it, or NoStatus
  rcvdLen,       \* *ctx.rxRcvdLen
  irqs,          \* interrupts in the driver's status word
  gt,            \* tmr.GT is running
  rxe,           \* tmr.RXE has expired
  sanity,        \* tmr.txRx: the exchange that armed it (0: NONE), expired
  \* The chip and the peer.
  fifo,          \* bytes in the FIFO
  link, left,    \* what the transceiver does; bytes the peer has still to send
  tail,          \* the last byte received: "whole", "bits" or "nopar"
  nrt, gpt,      \* the no-response and general-purpose timers are running
  extField,      \* the reader's field is on
  \* History.
  calls,         \* exchanges started
  sent,          \* bytes of the exchange's frame that went on the air
  frame,         \* length of the peer's last frame
  begun,         \* it began since the exchange was prepared
  damaged,       \* the peer's last frame ended with an error
  switchedOff    \* rfalFieldOff was called since the exchange started

software == <<setup, field, state, status, ctx, bytesTotal, bytesWritten, cache,
              rcvdLen, gt, rxe, sanity>>
fifoCounts == <<bytesTotal, bytesWritten, cache, rcvdLen>>
air == <<link, left, tail, nrt, gpt, extField>>
history == <<calls, sent, frame, begun, damaged, switchedOff>>
vars == <<software, irqs, fifo, air, history>>

TxStates == {"TX_IDLE", "TX_WAIT_GT", "TX_WAIT_FDT", "TX_WAIT_WL", "TX_WAIT_TXE",
             "TX_FAIL"}
RxStates == {"RX_IDLE", "RX_WAIT_EON", "RX_WAIT_RXS", "RX_WAIT_RXE", "RX_READ_FIFO",
             "RX_READ_DATA", "RX_WAIT_EOF", "RX_FAIL"}
Errors == {"ERR1", "ERR2", "PAR", "CRC", "COL"}
Irqs == Errors \cup {"TXE", "FWL", "RXS", "RXE", "NRE", "EOF", "EON", "CAT", "CAC",
                     "PPON2", "WU_F", "RX_REST"}
Statuses == {"NONE", "BUSY", "TIMEOUT", "LINK_LOSS", "IO", "FRAMING", "PAR", "CRC",
             "RF_COLLISION", "INCOMPLETE_BYTE", "NOMEM"}

ActiveComm == setup.mode = "ACTIVE_P2P"
Running == state # "LOST"
PassiveListen == setup.mode = "LISTEN_NFCA"
PassivePoll == setup.mode = "POLL_NFCA"
EMVCo == setup.emvco

Least(m, n) == IF m <= n THEN m ELSE n
NoStatus == FifoDepth + 1
NoTimer == [of |-> 0, expired |-> FALSE]

Init ==
  /\ setup \in Setups
  /\ field = FALSE /\ state = "IDLE" /\ status = "NONE"
  /\ ctx = [tx |-> 0, rx |-> 0, keep |-> FALSE, fwt |-> "none"]
  /\ bytesTotal = 0 /\ bytesWritten = 0 /\ cache = NoStatus /\ rcvdLen = 0
  /\ irqs = {}
  /\ gt = FALSE /\ rxe = FALSE /\ sanity = NoTimer
  /\ fifo = 0 /\ link = "off" /\ left = 0 /\ tail = "whole"
  /\ nrt = FALSE /\ gpt = FALSE /\ extField = TRUE
  /\ calls = 0 /\ sent = 0 /\ frame = 0 /\ begun = FALSE
  /\ damaged = FALSE /\ switchedOff = FALSE
-----------------------------------------------------------------------------
(* The calls of the upper layers. *)

\* The sources an exchange clears and enables.  COL is not one of them.
ExchangeIrqs ==
  {"FWL", "TXE", "RXS", "RXE", "PAR", "CRC", "ERR1", "ERR2", "NRE"}
    \cup (IF EMVCo THEN {"RX_REST"} ELSE {})
    \cup (IF PassiveListen THEN {"EOF", "WU_F"} ELSE {})
    \cup (IF ActiveComm THEN {"EOF", "EON", "PPON2", "CAT", "CAC"} ELSE {})

\* Mutant: the interrupts of the exchange before are not cleared.
PrepareUncleared(c, n) ==
  /\ irqs' = irqs
  /\ sanity' = IF c.fwt = "none" THEN sanity
               ELSE [of |-> n, expired |-> FALSE]
  /\ cache' = NoStatus

\* Mutant: the FIFO status read by the exchange before is still used.
PrepareStaleStatus(c, n) ==
  /\ irqs' = irqs \ ExchangeIrqs
  /\ sanity' = IF c.fwt = "none" THEN sanity
               ELSE [of |-> n, expired |-> FALSE]
  /\ cache' = cache

\* Mutant: no sanity timer.
PrepareNoSanity(c, n) ==
  /\ irqs' = irqs \ ExchangeIrqs
  /\ sanity' = sanity
  /\ cache' = NoStatus

\* An exchange without a frame waiting time leaves the sanity timer as it is.
rfalPrepareTransceive(c, n) ==
  /\ irqs' = irqs \ ExchangeIrqs
  /\ sanity' = IF c.fwt = "none" THEN sanity
               ELSE [of |-> n, expired |-> FALSE]
  /\ cache' = NoStatus

\* Callers start an exchange when the one before has ended or was switched off.
MayStart == Running /\ calls < setup.maxCalls /\ (state = "IDLE" \/ switchedOff)

\* The transmitter must be on for a frame to be sent (ST_ERR_WRONG_STATE).
rfalStartTransceive(c) ==
  /\ MayStart
  /\ c.fwt # "short"
  /\ field \/ PassiveListen \/ c.tx = 0
  /\ calls' = calls + 1
  /\ ctx' = c
  /\ status' = "BUSY"
  /\ sent' = 0 /\ switchedOff' = FALSE
  /\ IF c.tx > 0
       THEN /\ state' = "TX_IDLE"
            /\ UNCHANGED <<irqs, sanity, cache, fifo, link, nrt, begun>>
       ELSE /\ rfalPrepareTransceive(c, calls + 1)
            /\ fifo' = 0
            /\ link' = IF PassiveListen /\ link = "rx" THEN "rx" ELSE "wait"
            /\ nrt' = (c.fwt = "set")
            /\ begun' = FALSE
            /\ state' = "RX_IDLE"
  /\ UNCHANGED <<setup, field, bytesTotal, bytesWritten, rcvdLen, gt, rxe, left, tail,
                 gpt, extField, frame, damaged>>

\* ST_ERR_PARAM: the context has been replaced all the same.
RefuseShortFwt(c) ==
  /\ MayStart /\ state = "IDLE"
  /\ c.fwt = "short"
  /\ field \/ PassiveListen \/ c.tx = 0
  /\ ctx' = c
  /\ UNCHANGED <<setup, field, state, status, fifoCounts, gt, rxe, sanity, irqs, fifo,
                 air, history>>

rfalFieldOnAndStartGT ==
  /\ Running /\ ~field /\ ~PassiveListen
  /\ field' = TRUE /\ gt' = TRUE
  /\ UNCHANGED <<setup, state, status, ctx, fifoCounts, rxe, sanity, irqs, fifo, air,
                 history>>

\* A running exchange keeps its state.  Bound: one switch-off per exchange.
rfalFieldOff ==
  /\ Running /\ field /\ ~switchedOff
  /\ field' = FALSE
  /\ link' = "off" /\ left' = 0 /\ nrt' = FALSE
  /\ switchedOff' = TRUE
  /\ UNCHANGED <<setup, state, status, ctx, fifoCounts, gt, rxe, sanity, irqs, fifo,
                 tail, gpt, extField, calls, sent, frame, begun, damaged>>
-----------------------------------------------------------------------------
(* rfalRunTransceiveWorker: the Tx states. *)

Step(s) == state = s /\ ~sanity.expired
Goto(s) == state' = s /\ UNCHANGED status
Fail(s, st) == state' = s /\ status' = st

\* An expired sanity timer ends whatever state the engine is in, IDLE too.
SanityAbort ==
  /\ Running /\ sanity.expired
  /\ Fail("IDLE", "IO")
  /\ UNCHANGED <<setup, field, ctx, fifoCounts, gt, rxe, sanity, irqs, fifo, air,
                 history>>

WaitGuardTime ==
  /\ ~sanity.expired
  /\ state \in {"TX_IDLE", "TX_WAIT_GT"}
  /\ gt
  /\ Goto("TX_WAIT_GT")
  /\ UNCHANGED <<setup, field, ctx, fifoCounts, gt, rxe, sanity, irqs, fifo, air,
                 history>>

PastGuardTime ==
  /\ ~sanity.expired
  /\ state = "TX_WAIT_FDT" \/ (state \in {"TX_IDLE", "TX_WAIT_GT"} /\ ~gt)

WaitFrameDelay ==
  /\ PastGuardTime
  /\ ~ActiveComm /\ gpt
  /\ Goto("TX_WAIT_FDT")
  /\ UNCHANGED <<setup, field, ctx, fifoCounts, gt, rxe, sanity, irqs, fifo, air,
                 history>>

\* st25r3916WriteFifo of n bytes: over SPI they are copied to TxArray bytes on the
\* stack first.  What the program does once it has written past them is undefined:
\* it goes on as if nothing had happened, or it is lost.
Overruns(n) == ~setup.i2c /\ n > TxArray
Lose == state' = "LOST" /\ UNCHANGED status

\* STOP (or, in passive listen mode, CLEAR_FIFO), the first part of the frame,
\* and the transmit command; in a field that has gone there is no answer.
Transmit ==
  /\ PastGuardTime
  /\ ActiveComm \/ ~gpt
  /\ rfalPrepareTransceive(ctx, calls)
  /\ bytesTotal' = ctx.tx
  /\ bytesWritten' = Least(ctx.tx, FifoDepth)
  /\ fifo' = bytesWritten'
  /\ nrt' = FALSE /\ left' = 0
  /\ \/ Overruns(bytesWritten') /\ Lose /\ link' = "off"
     \/ IF PassiveListen /\ ~extField
          THEN Fail("TX_FAIL", "LINK_LOSS") /\ link' = "off"
          ELSE /\ Goto(IF bytesWritten' < ctx.tx THEN "TX_WAIT_WL" ELSE "TX_WAIT_TXE")
               /\ link' = IF field \/ PassiveListen THEN "tx" ELSE "off"
  /\ sent' = 0 /\ begun' = FALSE
  /\ UNCHANGED <<setup, field, ctx, rcvdLen, gt, rxe, tail, gpt, extField, calls, frame,
                 damaged, switchedOff>>

\* expWL, the room a water level leaves, is RFAL_FIFO_OUT_WL.
ReloadLen == Least(bytesTotal - bytesWritten, FifoDepth - TxLevel)

\* Mutant: only FWL is taken, so that a TXE with it is found afterwards.
WaitWaterLevelKeepTxe ==
  /\ Step("TX_WAIT_WL")
  /\ "FWL" \in irqs
  /\ irqs' = irqs \ {"FWL"}
  /\ bytesWritten' = bytesWritten + ReloadLen
  /\ fifo' = fifo + ReloadLen
  /\ Goto(IF bytesWritten' < bytesTotal THEN "TX_WAIT_WL" ELSE "TX_WAIT_TXE")
  /\ UNCHANGED <<setup, field, ctx, bytesTotal, cache, rcvdLen, gt, rxe, sanity, air, history>>

\* A call reads the interrupts and reloads the FIFO before it can run empty.
WaitWaterLevel ==
  LET got == irqs \cap {"FWL", "TXE"} IN
  /\ Step("TX_WAIT_WL")
  /\ got # {}
  /\ irqs' = irqs \ got
  /\ IF got = {"FWL"}
       THEN /\ bytesWritten' = bytesWritten + ReloadLen
            /\ fifo' = fifo + ReloadLen
            /\ \/ Overruns(ReloadLen) /\ Lose
               \/ Goto(IF bytesWritten' < bytesTotal THEN "TX_WAIT_WL" ELSE "TX_WAIT_TXE")
       ELSE Fail("TX_FAIL", "IO") /\ UNCHANGED <<bytesWritten, fifo>>
  /\ UNCHANGED <<setup, field, ctx, bytesTotal, cache, rcvdLen, gt, rxe, sanity, air,
                 history>>

\* A water level alone is dropped; after TXE the exchange is done or turns to Rx.
WaitTransmitEnd ==
  LET got == irqs \cap {"FWL", "TXE"} IN
  /\ Step("TX_WAIT_TXE")
  /\ got # {}
  /\ irqs' = irqs \ got
  /\ IF "TXE" \notin got THEN Goto("TX_WAIT_TXE")
     ELSE IF ctx.rx = 0 THEN Fail("IDLE", "NONE")
     ELSE Goto("RX_IDLE")
  /\ UNCHANGED <<setup, field, ctx, fifoCounts, gt, rxe, sanity, fifo, air, history>>

\* TX_FAIL and RX_FAIL clean up and keep the status.
FinishFailed ==
  /\ Step("TX_FAIL") \/ Step("RX_FAIL")
  /\ Goto("IDLE")
  /\ UNCHANGED <<setup, field, ctx, fifoCounts, gt, rxe, sanity, irqs, fifo, air,
                 history>>
-----------------------------------------------------------------------------
(* The Rx states. *)

StartReceive ==
  /\ Step("RX_IDLE")
  /\ bytesTotal' = 0 /\ bytesWritten' = 0 /\ rcvdLen' = 0
  /\ Goto(IF ActiveComm THEN "RX_WAIT_EON" ELSE "RX_WAIT_RXS")
  /\ UNCHANGED <<setup, field, ctx, cache, gt, rxe, sanity, irqs, fifo, air, history>>

WaitFieldOn ==
  LET got == irqs \cap {"EON", "NRE", "PPON2"} IN
  /\ Step("RX_WAIT_EON")
  /\ got # {}
  /\ irqs' = irqs \ got
  /\ IF "PPON2" \in got THEN Fail("RX_FAIL", "LINK_LOSS")
     ELSE IF "NRE" \in got THEN Fail("RX_FAIL", "TIMEOUT")
     ELSE Goto("RX_WAIT_RXS")
  /\ UNCHANGED <<setup, field, ctx, fifoCounts, gt, rxe, sanity, fifo, air, history>>

\* rfalFIFOStatusUpdate reads the count once; GetNumBytes returns it in 8 bits.
FifoStatus == IF cache = NoStatus THEN fifo ELSE cache
rfalFIFOStatusGetNumBytes(c) == c % CountModulus
NumBytes == rfalFIFOStatusGetNumBytes(FifoStatus)

\* The CRC is taken off the last n bytes or, if they are fewer, off the total.
WithoutCrc(total, n) ==
  IF ~ctx.keep /\ n > CrcLen THEN [before |-> total, read |-> n - CrcLen]
  ELSE IF ~ctx.keep /\ total > CrcLen THEN [before |-> total - CrcLen, read |-> n]
  ELSE [before |-> total, read |-> n]

\* RX_READ_DATA, in which the status so far is st.
ReadData(st) ==
  LET part == WithoutCrc(bytesTotal, NumBytes)
      total == part.before + part.read
      full == total > ctx.rx
      read == IF full THEN ctx.rx - bytesWritten ELSE part.read
      st2 == IF full THEN "NOMEM" ELSE st
  IN
  /\ bytesTotal' = total /\ rcvdLen' = total
  /\ cache' = FifoStatus
  /\ fifo' = fifo - Least(read, fifo)
  /\ IF st2 # "BUSY" THEN Fail("RX_FAIL", st2)
     ELSE IF ActiveComm THEN Goto("RX_WAIT_EOF")
     ELSE Fail("IDLE", "NONE")
  /\ UNCHANGED bytesWritten

\* rfalErrorHandling: a short frame ends the exchange with its bits read.
rfalErrorHandling(st) ==
  /\ cache' = FifoStatus
  /\ IF PassivePoll /\ st \in {"PAR", "CRC"} /\ tail = "bits"
       THEN /\ fifo' = fifo - Least(NumBytes, fifo)
            /\ rcvdLen' = 1
            /\ Fail("RX_FAIL", "INCOMPLETE_BYTE")
       ELSE Fail("RX_READ_DATA", st) /\ UNCHANGED <<fifo, rcvdLen>>
  /\ UNCHANGED <<bytesTotal, bytesWritten>>

\* Mutant: CRC errors are not looked at.
ErrorStatusNoCrc(got) ==
  IF "ERR1" \in got \/ (PassivePoll /\ "ERR2" \in got) THEN "FRAMING"
  ELSE IF "PAR" \in got THEN "PAR"
  ELSE IF "COL" \in got THEN "RF_COLLISION"
  ELSE "NONE"

ErrorStatus(got) ==
  IF "ERR1" \in got \/ (PassivePoll /\ "ERR2" \in got) THEN "FRAMING"
  ELSE IF "PAR" \in got THEN "PAR"
  ELSE IF "CRC" \in got THEN "CRC"
  ELSE IF "COL" \in got THEN "RF_COLLISION"
  ELSE "NONE"

\* Mutant: the loss of the reader's field is not looked at.
CheckErrorsNoEof(got, st) ==
  IF ErrorStatus(got) # "NONE" THEN rfalErrorHandling(ErrorStatus(got))
  ELSE IF "RXE" \in got
    THEN ReadData(IF tail = "bits" THEN "INCOMPLETE_BYTE"
                  ELSE IF tail = "nopar" THEN "FRAMING" ELSE st)
  ELSE Fail("RX_FAIL", "IO") /\ UNCHANGED <<fifoCounts, fifo>>

\* RX_ERR_CHECK for the sources got; a clean end of reception reads the data.
CheckErrors(got, st) ==
  IF ErrorStatus(got) # "NONE" THEN rfalErrorHandling(ErrorStatus(got))
  ELSE IF PassiveListen /\ "EOF" \in got
    THEN Fail("RX_FAIL", "LINK_LOSS") /\ UNCHANGED <<fifoCounts, fifo>>
  ELSE IF "RXE" \in got
    THEN ReadData(IF tail = "bits" THEN "INCOMPLETE_BYTE"
                  ELSE IF tail = "nopar" THEN "FRAMING" ELSE st)
  ELSE Fail("RX_FAIL", "IO") /\ UNCHANGED <<fifoCounts, fifo>>

\* EMVCo: the receiver has restarted; with the frame waiting time over it is a
\* timeout, else the new reception (if it has begun already) is waited for.
ReceiverRestarted(rest, st) ==
  /\ IF "NRE" \in rest \/ ~nrt
       THEN irqs' = rest \ {"NRE"} /\ Fail("RX_FAIL", "TIMEOUT")
       ELSE /\ irqs' = rest \ {"RXS"}
            /\ Fail(IF link = "rx" THEN "RX_WAIT_RXE" ELSE "RX_WAIT_RXS", st)
  /\ UNCHANGED <<fifoCounts, fifo>>

\* RX_WAIT_RXE with the sources in from still pending and carried taken before.
\* A tmr.RXE that has expired (late) makes the exchange a failed one.
WaitReceiveEnd(from, carried, late) ==
  LET taken == from \cap {"RXE", "FWL", "EOF", "RX_REST", "WU_F"}
      got == carried \cup taken
      rest == from \ taken
      st == IF late THEN "FRAMING" ELSE status
  IN IF got = {}
       THEN /\ irqs' = rest
            /\ Fail(IF late THEN "RX_FAIL" ELSE "RX_WAIT_RXE", st)
            /\ UNCHANGED <<fifoCounts, fifo>>
     ELSE IF "RX_REST" \in got THEN ReceiverRestarted(rest, st)
     ELSE IF "FWL" \in got /\ "RXE" \notin got
       THEN /\ irqs' = rest /\ Fail("RX_READ_FIFO", st)
            /\ UNCHANGED <<fifoCounts, fifo>>
     ELSE IF "WU_F" \in got
       THEN /\ irqs' = rest /\ Fail("RX_WAIT_RXS", st)
            /\ UNCHANGED <<fifoCounts, fifo>>
     ELSE irqs' = rest \ Errors /\ CheckErrors(got \cup (rest \cap Errors), st)

\* Mutant: a timeout that is pending with the start of the answer wins.
WaitReceiveStartNreFirst ==
  LET got == irqs \cap {"RXS", "NRE", "EOF"} IN
  /\ Step("RX_WAIT_RXS")
  /\ got # {}
  /\ IF "RXS" \in got /\ "NRE" \notin got
       THEN /\ rxe' = FALSE
            /\ WaitReceiveEnd(irqs \ got, got \cap {"EOF"}, FALSE)
       ELSE /\ irqs' = irqs \ got
            /\ Fail("RX_FAIL", "TIMEOUT")
            /\ UNCHANGED <<fifoCounts, fifo, rxe>>
  /\ UNCHANGED <<setup, field, ctx, gt, sanity, air, calls, sent, frame, begun,
                 damaged, switchedOff>>

\* A reception that has started is waited for even if the frame waiting time
\* is over; its end may be pending already.
WaitReceiveStart ==
  LET got == irqs \cap {"RXS", "NRE", "EOF"} IN
  /\ Step("RX_WAIT_RXS")
  /\ got # {}
  /\ IF "RXS" \in got
       THEN /\ rxe' = FALSE
            /\ WaitReceiveEnd(irqs \ got, got \cap {"EOF"}, FALSE)
       ELSE /\ irqs' = irqs \ got
            /\ Fail("RX_FAIL", IF "NRE" \in got \/ ActiveComm THEN "TIMEOUT"
                               ELSE "LINK_LOSS")
            /\ UNCHANGED <<fifoCounts, fifo, rxe>>
  /\ UNCHANGED <<setup, field, ctx, gt, sanity, air, calls, sent, frame, begun,
                 damaged, switchedOff>>

WaitReception ==
  /\ Step("RX_WAIT_RXE")
  /\ WaitReceiveEnd(irqs, {}, rxe)
  /\ UNCHANGED <<setup, field, ctx, gt, rxe, sanity, air, calls, sent, frame, begun,
                 damaged, switchedOff>>

\* Mutant: the FIFO status stays cached after a read.
ReadFifoCached ==
  LET total == bytesTotal + NumBytes
      fits == IF total > ctx.rx THEN ctx.rx - bytesWritten ELSE NumBytes
  IN
  /\ Step("RX_READ_FIFO")
  /\ rxe' = FALSE
  /\ bytesTotal' = total
  /\ bytesWritten' = bytesWritten + fits
  /\ fifo' = fifo - Least(NumBytes, fifo)
  /\ cache' = FifoStatus
  /\ Goto("RX_WAIT_RXE")
  /\ UNCHANGED <<setup, field, ctx, rcvdLen, gt, sanity, irqs, air, calls, sent, frame,
                 begun, damaged, switchedOff>>

\* What does not fit in rxBuf is read from the FIFO into a NULL buffer.  The I2C
\* path writes there, an SPI library does so, drops the bytes, or does nothing.
ReadFifo ==
  LET total == bytesTotal + NumBytes
      fits == IF total > ctx.rx THEN ctx.rx - bytesWritten ELSE NumBytes
      dumps == fits < NumBytes
  IN
  /\ Step("RX_READ_FIFO")
  /\ rxe' = FALSE
  /\ bytesTotal' = total
  /\ bytesWritten' = bytesWritten + fits
  /\ fifo' \in {fifo - Least(n, fifo) : n \in
                 {NumBytes} \cup (IF dumps /\ ~setup.i2c THEN {fits} ELSE {})}
  /\ cache' = NoStatus
  /\ Goto("RX_WAIT_RXE") \/ (dumps /\ Lose)
  /\ UNCHANGED <<setup, field, ctx, rcvdLen, gt, sanity, irqs, air, calls, sent, frame,
                 begun, damaged, switchedOff>>

ReadAfterError ==
  /\ Step("RX_READ_DATA")
  /\ ReadData(status)
  /\ UNCHANGED <<setup, field, ctx, gt, rxe, sanity, irqs, air, calls, sent, frame,
                 begun, damaged, switchedOff>>

WaitFieldOff ==
  LET got == irqs \cap {"CAT", "CAC"} IN
  /\ Step("RX_WAIT_EOF")
  /\ got # {}
  /\ irqs' = irqs \ got
  /\ IF "CAT" \in got THEN Fail("IDLE", "NONE") ELSE Fail("RX_FAIL", "RF_COLLISION")
  /\ UNCHANGED <<setup, field, ctx, fifoCounts, gt, rxe, sanity, fifo, air, history>>
-----------------------------------------------------------------------------
(* Time: the timers run out at any moment. *)

GuardTimeOver ==
  /\ gt
  /\ gt' = FALSE
  /\ UNCHANGED <<setup, field, state, status, ctx, fifoCounts, rxe, sanity, irqs, fifo,
                 air, history>>

RxeTimerExpires ==
  /\ ~rxe /\ state = "RX_WAIT_RXE"
  /\ rxe' = TRUE
  /\ UNCHANGED <<setup, field, state, status, ctx, fifoCounts, gt, sanity, irqs, fifo,
                 air, history>>

SanityTimerExpires ==
  /\ sanity # NoTimer /\ ~sanity.expired
  /\ sanity' = [sanity EXCEPT !.expired = TRUE]
  /\ UNCHANGED <<setup, field, state, status, ctx, fifoCounts, gt, rxe, irqs, fifo, air,
                 history>>

FrameDelayOver ==
  /\ gpt
  /\ gpt' = FALSE
  /\ UNCHANGED <<software, irqs, fifo, link, left, tail, nrt, extField, history>>

NoResponse ==
  /\ nrt
  /\ nrt' = FALSE
  /\ irqs' = irqs \cup {"NRE"}
  /\ UNCHANGED <<software, fifo, link, left, tail, gpt, extField, history>>
-----------------------------------------------------------------------------
(* The chip and the peer. *)

\* A byte leaves the FIFO; with the FIFO empty the transmission ends, whether
\* or not the whole frame has been sent.
SendByte ==
  LET ends == fifo = 1 \/ sent + 1 = bytesTotal IN
  /\ link = "tx" /\ fifo > 0
  /\ fifo' = fifo - 1
  /\ sent' = sent + 1
  /\ irqs' = irqs \cup (IF fifo' = TxLevel THEN {"FWL"} ELSE {})
                  \cup (IF ends THEN {"TXE"} ELSE {})
  /\ link' = IF ends THEN "wait" ELSE "tx"
  /\ nrt' = (ends /\ ctx.fwt = "set")
  /\ UNCHANGED <<software, left, tail, gpt, extField, calls, frame, begun, damaged,
                 switchedOff>>

PeerFieldOn ==
  /\ ActiveComm /\ link = "wait"
  /\ link' = "field"
  /\ irqs' = irqs \cup {"EON"}
  /\ UNCHANGED <<software, fifo, left, tail, nrt, gpt, extField, history>>

\* In active communication the peer's field goes again without a frame, or
\* another field comes up.
PeerFieldOnly ==
  /\ ActiveComm /\ link = "field"
  /\ link' = "off"
  /\ \E i \in {"EOF", "PPON2"} : irqs' = irqs \cup {i}
  /\ UNCHANGED <<software, fifo, left, tail, nrt, gpt, extField, history>>

\* An answer may begin after the no-response timer has run out.
FrameBegins(n) ==
  /\ link = IF ActiveComm THEN "field" ELSE "wait"
  /\ IF PassiveListen THEN extField ELSE field
  /\ link' = "rx"
  /\ left' = n /\ frame' = n /\ begun' = TRUE
  /\ irqs' = irqs \cup {"RXS"}
  /\ nrt' = (nrt /\ EMVCo)
  /\ UNCHANGED <<software, fifo, tail, gpt, extField, calls, sent, damaged,
                 switchedOff>>

\* A full FIFO takes no more bytes.
ReceiveByte ==
  /\ link = "rx" /\ left > 0
  /\ left' = left - 1
  /\ fifo' = Least(fifo + 1, FifoDepth)
  /\ irqs' = irqs \cup (IF fifo' = RxLevel /\ fifo < RxLevel THEN {"FWL"} ELSE {})
  /\ UNCHANGED <<software, link, tail, nrt, gpt, extField, history>>

FrameEnds ==
  /\ link = "rx" /\ left = 0
  /\ link' = IF ActiveComm THEN "closing" ELSE "off"
  /\ \E err \in {{}} \cup {{e} : e \in Errors}, t \in {"whole", "bits", "nopar"} :
       /\ irqs' = irqs \cup {"RXE"} \cup err
       /\ tail' = t
       /\ damaged' = (t # "whole" \/ err \ (IF PassivePoll THEN {} ELSE {"ERR2"}) # {})
  /\ gpt' = ~ActiveComm
  /\ UNCHANGED <<software, fifo, left, nrt, extField, calls, sent, frame, begun,
                 switchedOff>>

\* Errata: rarely a corrupted frame has an RXS and no RXE.
FrameVanishes ==
  /\ link = "rx"
  /\ link' = "off" /\ left' = 0
  /\ UNCHANGED <<software, irqs, fifo, tail, nrt, gpt, extField, history>>

\* EMVCo: a corrupted short frame, of fewer bytes than raise a water level,
\* makes the receiver start over.
ReceiverRestarts ==
  /\ EMVCo /\ link = "rx" /\ frame - left < RxLevel
  /\ link' = "wait" /\ left' = 0 /\ fifo' = 0
  /\ irqs' = irqs \cup {"RX_REST"}
  /\ UNCHANGED <<software, tail, nrt, gpt, extField, history>>

PeerFieldOff ==
  /\ link = "closing"
  /\ link' = "off"
  /\ \E i \in {"CAT", "CAC"} : irqs' = irqs \cup {"EOF", i}
  /\ UNCHANGED <<software, fifo, left, tail, nrt, gpt, extField, history>>

\* A frame the chip answers by itself as an NFC-F target.
AutomaticAnswer ==
  /\ PassiveListen /\ link = "wait" /\ extField
  /\ irqs' = irqs \cup {"RXS", "RXE", "WU_F"}
  /\ UNCHANGED <<software, fifo, air, history>>

ReaderFieldOff ==
  /\ PassiveListen /\ extField
  /\ extField' = FALSE
  /\ link' = "off" /\ left' = 0
  /\ irqs' = irqs \cup {"EOF"}
  /\ UNCHANGED <<software, fifo, tail, nrt, gpt, history>>
-----------------------------------------------------------------------------
App == \/ \E c \in setup.contexts : rfalStartTransceive(c) \/ RefuseShortFwt(c)
       \/ rfalFieldOnAndStartGT \/ rfalFieldOff

rfalWorker ==
  \/ SanityAbort
  \/ WaitGuardTime \/ WaitFrameDelay \/ Transmit \/ WaitWaterLevel
  \/ WaitTransmitEnd \/ FinishFailed
  \/ StartReceive \/ WaitFieldOn \/ WaitReceiveStart \/ WaitReception \/ ReadFifo
  \/ ReadAfterError \/ WaitFieldOff

Time == GuardTimeOver \/ RxeTimerExpires \/ SanityTimerExpires \/ FrameDelayOver
        \/ NoResponse

Chip == \/ SendByte \/ PeerFieldOn \/ PeerFieldOnly
        \/ (\E n \in setup.frames : FrameBegins(n))
        \/ ReceiveByte \/ FrameEnds \/ FrameVanishes \/ ReceiverRestarts \/ PeerFieldOff
        \/ AutomaticAnswer \/ ReaderFieldOff

Next == App \/ rfalWorker \/ Time \/ Chip
Spec == Init /\ [][Next]_vars

\* loop() calls rfalWorker for ever and the clocks run; of the chip only its
\* general-purpose timer is trusted, so every interrupt may fail to come.
LiveSpec ==
  Spec /\ WF_vars(rfalWorker) /\ WF_vars(GuardTimeOver) /\ WF_vars(FrameDelayOver)
       /\ WF_vars(SanityTimerExpires)
-----------------------------------------------------------------------------
TypeOK ==
  /\ setup \in Setups /\ field \in BOOLEAN
  /\ state \in TxStates \cup RxStates \cup {"IDLE", "LOST"}
  /\ status \in Statuses
  /\ ctx \in Context
  /\ bytesTotal \in Nat /\ bytesWritten \in Nat /\ rcvdLen \in Nat
  /\ cache \in Nat
  /\ irqs \subseteq Irqs
  /\ gt \in BOOLEAN /\ rxe \in BOOLEAN
  /\ sanity \in [of : Nat, expired : BOOLEAN]
  /\ fifo \in Nat /\ left \in Nat
  /\ link \in {"off", "tx", "wait", "field", "rx", "closing"}
  /\ tail \in {"whole", "bits", "nopar"}
  /\ nrt \in BOOLEAN /\ gpt \in BOOLEAN /\ extField \in BOOLEAN
  /\ calls \in Nat /\ sent \in Nat /\ frame \in Nat /\ begun \in BOOLEAN
  /\ damaged \in BOOLEAN /\ switchedOff \in BOOLEAN

\* A reload never writes more than the FIFO has room for, however late the
\* water level interrupt is served.
FifoFits == fifo <= FifoDepth

\* An exchange that has ended has a result: never ST_ERR_BUSY.
EndedHasResult == state \in {"IDLE", "TX_FAIL", "RX_FAIL"} => status # "BUSY"

Succeeds == state # "IDLE" /\ state' = "IDLE" /\ status' = "NONE"
TurnsToRx == state \in TxStates /\ state' = "RX_IDLE" /\ calls' = calls

\* The Tx state machine ends well only if every byte of the frame went on the
\* air: a FIFO that ran empty before a late reload is an error.  Over SPI a frame
\* with a part longer than TxArray may not end at all (see Overruns).
OnlyWholeFramesSent ==
  [][TurnsToRx \/ Succeeds => sent = ctx.tx]_vars

\* An exchange that succeeds delivers a frame that began in that exchange: a
\* late answer to the command before is never taken for the answer to this one.
OwnAnswer == [][Succeeds /\ ctx.rx > 0 /\ ~PassiveListen => begun]_vars

\* The whole answer is counted, less its CRC if the caller does not keep it, if
\* its length fits in a byte count; no more bytes are counted than the peer sent.
Payload == IF ctx.keep \/ frame <= CrcLen THEN frame ELSE frame - CrcLen
WholeAnswer ==
  [][Succeeds /\ ctx.rx > 0 =>
       /\ frame < CountModulus => rcvdLen' = Payload
       /\ rcvdLen' <= frame]_vars

\* A frame with an error is never delivered as a good one.
DamagedNotDelivered == [][Succeeds /\ ctx.rx > 0 => ~damaged]_vars

\* A target delivers a frame only while the reader's field is on: an end of
\* the field that comes with the end of the frame is a lost link.
TargetNeedsField == [][Succeeds /\ PassiveListen /\ ctx.rx > 0 => extField]_vars

\* What an exchange delivers is its own answer, undamaged, on a link that still stands.
GoodAnswer == OwnAnswer /\ DamagedNotDelivered /\ TargetNeedsField

\* Without EMVCo handling a poller never reports a timeout once the answer to
\* its command has begun, even if the no-response timer ran out before.
AnsweredNotTimedOut ==
  [][PassivePoll /\ ~EMVCo /\ status = "BUSY" /\ status' = "TIMEOUT"
     => ~begun]_vars

\* An exchange with a frame waiting time ends, whatever interrupts are lost, as
\* long as the program runs.
EveryExchangeEnds ==
  (state # "IDLE" /\ ctx.fwt = "set") ~> (state = "IDLE" \/ ctx.fwt # "set" \/ ~Running)
=============================================================================
