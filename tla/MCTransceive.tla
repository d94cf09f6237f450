---------------------------- MODULE MCTransceive ----------------------------
(* A FIFO of 16 bytes in place of 512; the water levels and the range of a *)
(* byte count are scaled with it, the CRC has its two bytes.               *)
EXTENDS Transceive

C(tx, rx, keep, fwt) == [tx |-> tx, rx |-> rx, keep |-> keep, fwt |-> fwt]

\* Frames shorter than the FIFO and of two parts, with and without an answer, endless
\* waits and one that is too short for any answer.
PollContexts == {C(1, 5, FALSE, "set"), C(17, 0, FALSE, "none"), C(1, 4, FALSE, "short")}

\* A frame of three parts, answers longer than the water level, the FIFO and the buffer.
LongContexts ==
  {C(27, 6, TRUE, "set"), C(0, 4, FALSE, "none"), C(1, 20, FALSE, "set"), C(1, 6, FALSE, "set")}
EMVCoContexts == {C(0, 5, TRUE, "set"), C(1, 20, FALSE, "set")}

\* Exchanges of a target, which may only receive, and of an active device.
ModeContexts == {C(1, 4, FALSE, "set"), C(0, 4, FALSE, "none")}

S(mode, emvco, i2c, contexts, frames, maxCalls) ==
  [mode |-> mode, emvco |-> emvco, i2c |-> i2c, contexts |-> contexts, frames |-> frames,
   maxCalls |-> maxCalls]

AllSetups ==
  {S("POLL_NFCA", FALSE, TRUE, PollContexts, {7}, 2),
   S("POLL_NFCA", FALSE, FALSE, LongContexts, {1, 17}, 1),
   S("POLL_NFCA", FALSE, TRUE, {C(1, 6, FALSE, "set")}, {17}, 1),
   S("POLL_NFCA", TRUE, FALSE, EMVCoContexts, {12}, 1),
   S("ACTIVE_P2P", FALSE, FALSE, ModeContexts, {3}, 2),
   S("LISTEN_NFCA", FALSE, FALSE, ModeContexts, {3}, 2)}
=============================================================================
