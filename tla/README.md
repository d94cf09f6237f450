# Formal model of the ST25R3916 NFC RFAL library

This directory holds TLA+ specifications of the library in `src/src`, the TLC
configurations that check them, and TLAPS proofs about them. `PROJECT.json` maps
every definition to the lines it stands for and lists runs, mutants, hazards and
findings.

## The system

The library drives an ST25R3916 reader chip from an Arduino sketch. Everything
runs in one thread, `loop()`, and in one GPIO interrupt handler; the layers call
each other directly and share their state in one object per layer.

| Component | State | Operations | Hard behaviour |
|---|---|---|---|
| Interrupt service (`st25r3916_interrupt.cpp`, `st25r3916_com.cpp`) | status word, mask shadow, pending flag, bus busy flag | handler, service of the IRQ registers, mask changes, waits | services nest in bus transfers of other services; IRQ registers clear on read; edge-triggered pin |
| Bus and registers (`st25r3916_com.cpp`) | bus busy | read, write, FIFO, commands, read-modify-write | the handler between two transfers |
| RF layer: transceive (`rfal_rfst25r3916.cpp`) | `gRFAL.TxRx`, timers, FIFO counters | `rfalStartTransceive`, `rfalWorker`, blocking variants | late interrupts, water levels, errors in one of several status bits, timers |
| RF layer: listen mode | `gRFAL.Lm` | start, stop, sleep, worker | external field comes and goes at any moment |
| RF layer: wake-up mode | `gRFAL.wum` | start, stop, worker | oscillator off while waiting |
| Discovery (`rfal_nfc.cpp`) | `gNfcDev` | worker, discover, deactivate, select, data exchange | callbacks re-enter it; leftovers of one role in the other |
| ISO-DEP (`rfal_isoDep.cpp`) | `gIsoDep` | activation, block and APDU transceive, listener | lost and corrupted blocks, retries, WTX, chaining |
| NFC-DEP (`rfal_nfcDep.cpp`) | `gNfcip` | ATR, PSL, DEP, DSL/RLS | retries, PNI, timeout extension, chaining |
| Technology pollers (`rfal_nfca/b/f/v.cpp`, `rfal_st25tb.cpp`) | device lists | detection, collision resolution | several tags answering at once, limits |
| NDEF tag access (`ndef_poller.cpp`, `ndef_t*.cpp`) | tag state, message length, offsets, block cache | detect, read, write, format | a tag that leaves in the middle of a write |
| NDEF messages (`ndef_message.cpp`, `ndef_record.cpp`, `ndef_types*.cpp`) | records linked in place, header bits, type objects, a record pool | append, set, get, encode, decode | the same fact kept in three places |
| Card emulation demo (`demo_ce.cpp`, `examples/`) | selected file, file, attribute block; flags of the sketch | T3T and T4T commands; the sketches' loops and callbacks | readers that leave, a second session in the same loop |
| Mode, bit rate, field (`rfal_rfst25r3916.cpp`) | `gRFAL`, chip registers | initialise, set mode, set rate, field | registers written in part, calls that fail half way |
| Chip driver, timers, antenna tuning, configuration tables | registers | register sequences | wrap-around of the tick counter |

What makes each correct: no interrupt is lost and the mask shadow is true
(interrupt service); a frame is reported exactly as it ended and no transceive
hangs (transceive); the listen and wake-up modes are never left half on (RF
layer); device list, active device, role and field agree (discovery); every
block is delivered once and in order, or an error is reported (ISO-DEP,
NFC-DEP); both sides use the parameters they agreed on (activation); every card
in the field is found once and left in the state the list says (pollers); a
reader sees the old or the new message (NDEF, card emulation); a record reads as
what was put in it (NDEF messages); whatever mode was used before, an exchange
runs with the settings of its own (mode).

## Modules

### InterruptDriver

One state per activation of the driver's code on the call stack: the stack is a
sequence of frames, each a call in progress (`Call`), and `st25r3916Isr` and the
services it triggers push frames on top. Each action is the code between two bus
transfers, because the handler runs, or a transfer ends with a look at the
interrupt pin, exactly there. State: `irqRegs`, the chip's latched interrupts;
`status` and `mask` (the driver's `st25r3916interrupt`), `maskRegs` (the chip's
mask registers), the pending flag and the edge latch. `Raise` is the chip.
The handler's callback of upper layers is left out: `rfalSetUpperLayerCallback` has no
caller in the library or its sketches.

- `NoLostInterrupt`: an interrupt raised is in the chip's registers, in a byte
  just read, in the status word, or was consumed. A service nested between the
  read and the record of another one must not overwrite it.
- `MaskShadow`: the shadow equals the chip's mask registers except in those that
  a running `st25r3916ModifyInterrupts` has still to write.
- `OneTransfer`: transfers do not overlap. `NestingIsSafe` is both of these.
- `Delivered` (liveness, `loop()` calls `rfalWorker` for ever): once the chip has
  stopped raising interrupts, one on the pin reaches the status word although only
  the rising edge starts the handler. While the chip goes on raising them, a
  service may be interrupted by another one for ever, so nothing can be promised.

Run `interrupt_driver`: two interrupt sources in two mask registers, nesting depth
3 and a bounded number of calls. Two registers are the smallest number for which a
mask change has a middle, depth 3 is a service inside a service inside a call.

### NfcDiscovery

The variables are the members of `gNfcDev`; `chip` is the part of the RF layer it
depends on. Each case of `rfalNfcWorker`'s switch is an action, and runs
`rfalWorker` first, as the code does. The results of the technologies below
(found or not, how many devices, activation failed) are free choices.
`notifying` is the one notification after which the worker reads its state again
(`DATAEXCHANGE_DONE`); in all others the callback's calls happen after the last
assignment and are therefore simply the next calls of the application.

Some state is deliberately kept that the code forgets to reset: types and
interfaces in `devList`, `activeDev`, `discRestart`, the expired timer, the
oscillator. These leftovers are what the properties are about.

`Careful` distinguishes an application that starts exchanges only with an activated
device from one that does whatever the code accepts. The run uses the careful one;
see "Also seen while modelling" for what the other one meets.

`RfFollowsState` is the agreement with the RF layer below, in five parts: the field
is on only while polling or exchanging (`FieldOnlyWhenPolling`) and then stays on
(`FieldHeld`), wake-up mode ends with its state (`WakeUpOwned`), the role of the
active device is that of the field (`RoleMatchesField`), and listen mode runs while
the machine waits for a reader (`ListenInStep`). It speaks of an application that is
careful, as `rfal_nfc.h` asks it to be. `ActiveDeviceKnown` says that the
pointer the exchange functions follow is set. Liveness: `PollingDecides`,
`ListeningEnds`.

What a deactivation leaves of listen mode is not part of `RfFollowsState`, because the code
leaves it on, and with it the oscillator off (see "Also seen while modelling"); what is said is
that a device found is used with the oscillator on and without a listen worker.

Bounds: a list of two and two sets of parameters, a reader of two technologies with
wake-up mode and a callback that chooses the device, and a device that polls and
listens without a callback; the application changes between them as it likes, so each
meets what the other left behind. Two is the smallest list with a choice and a stale
entry behind the count.

### Transceive

`rfalStartTransceive` and one call of `rfalWorker` per step, in the Tx and Rx
states of `gRFAL.TxRx.state`; a state the code falls through to in the same call
(`TX_WAIT_GT` to `TX_TRANSMIT`, `RX_WAIT_RXS` to `RX_WAIT_RXE`, `RX_ERR_CHECK` to
`RX_READ_DATA`) is part of the same action, so the state that a call of the worker
leaves behind is always one of the model's. `irqs` is the status word of the
interrupt service, which the proofs about `InterruptDriver` let us take as
faithful. The second half of the variables is the chip (FIFO, transceiver,
no-response and general-purpose timers) and the peer; their actions run between
the engine's in any order, so a worker may come late and find several interrupts
at once. `calls`, `sent`, `frame`, `begun` and `damaged` are history.

| Code | Model |
|---|---|
| `rfalPrepareTransceive` | clears `ExchangeIrqs`, arms the sanity timer, forgets the FIFO status; run by `Transmit`, or by `rfalStartTransceive` when there is nothing to send |
| `tmr.GT`, `tmr.RXE`, `tmr.txRx` | `gt`, `rxe`, `sanity`; they expire at any moment |
| `fifo.status` and its getter | `cache`, `FifoStatus`, `rfalFIFOStatusGetNumBytes` (`% CountModulus`: a `uint8_t`) |
| `RX_ERR_CHECK`, `rfalErrorHandling` | `CheckErrors`, `rfalErrorHandling` |
| EMVCo: `RX_REST` | `ReceiverRestarted` and, in the chip, `ReceiverRestarts` |
| errata: RXS without RXE | `FrameVanishes` |
| `st25r3916WriteFifo`, over SPI through `uint8_t tx[256]` | `TxArray`, `Overruns`, `Lose`; `setup.i2c` for the other bus |
| `st25r3916ReadFifo(NULL, n)` | in `ReadFifo`: the bytes are read, are left in the FIFO, or the program is lost |

What a program does that has written outside its arrays is undefined. The model has the
two outcomes that matter: it goes on, or it does nothing any more (state `LOST`,
`Running` is false). The properties about frames and answers are about the programs that go
on. That every program does is not a property: over SPI it is false for every frame with
a part longer than the array (see "Also seen while modelling").

Assumed: a call of the worker reads the interrupts and reloads the FIFO before
the chip has sent what was in it at the start of that call (the bus is faster
than the air); between calls the FIFO may run empty. The peer is half-duplex. The
application starts an exchange when the previous one has ended or when it has
switched the field off in the middle of it, once per exchange.

Bounds: the FIFO has 16 bytes for 512, the water levels 6 and 9 for 200 and 300, a byte count
wraps at 8 for 256, the array of a write has 8 bytes for 256, the CRC has its 2 bytes. A frame
of 27 needs three parts, an answer of 12 passes the water level, one of 17 the FIFO. A *setup*
is a mode with its exchanges, answer lengths and number of exchanges; the run explores them all
(`AllSetups`): a poller with two exchanges, one with long frames and answers, one with EMVCo
error handling, an active device and a target with two exchanges; each setup is on SPI or on
I2C, frames of several parts and long answers on both. Two exchanges are the smallest number
with a leftover of an earlier one.

`GoodAnswer` is `OwnAnswer`, `DamagedNotDelivered` and `TargetNeedsField`. `WholeAnswer`
claims the exact length only where it fits in the count; since the water level lies above
that, a CRC that straddles two reads occurs only in answers whose count wraps, of which it
says that no more is reported than was received (see below).

Fairness (`LiveSpec`): `loop()` calls `rfalWorker`, the guard time, the frame delay
and the sanity timer run out. No interrupt is assumed to come: chip and peer may
stop at any point, which is what the sanity timer is for. A lost program is not
scheduled, so `EveryExchangeEnds` is about one that runs.

### IsoDep

Two instances of the layer, a reader (`pcd`, `isoDepDataExchangePCD`) and a card
(`picc`, `isoDepDataExchangePICC`), each with the APDU layer above it, and one
frame on the `air` that arrives, arrives damaged or is lost. A pass through
`isoDepDataExchangePCD` or `PICC` that does something is one action, named for the
block it handles; what the APDU layer does with its result (the next part of a
chained APDU) belongs to the action. `call` is the application's call.

`ApduService` is the abstract specification: commands are asked one at a time,
each is executed at most once, an answer is the whole answer to the last command,
and a failure closes the session. `ImplementsService` is the refinement: `asked`,
`executed` and `answered` are history variables of `IsoDep`, and the phase follows
from `call`. A block that arrives out of order or twice would make the received APDU
differ from the one sent, which the mapping records as the execution of
command 0, a step `ApduService` does not have.

| Property | Says |
|---|---|
| `InStep` | between two commands the next block will be taken for a new one (`BlockNumbersInStep`); extensions are asked for only while an answer is owed, and an answer held back is sent when the extension is confirmed (`ExtendsForAnswer`) |
| `RetriesAreUsed` | a command fails only after one block has used up the retries |
| `EveryCallEnds` | transceive and deselect end |

Assumed: frames are half-duplex; the waiting time ends only when no frame lies
before a card that is able to process it (a card busy with its command may be
late). After an error the application deselects the card or
switches the field off: the number of a block has one bit, so that a late answer to
the failed command would pass for the answer to the next one. Compliance mode is NFC
(the default of `rfalIsoDepInitialize`), no DID and NAD, and no frame is too
long. Blocks that no card of this library sends are not modelled.

Bounds: the retries of the code (2, 3, 3), APDUs of up to 3 parts (so that a block
number occurs twice in one APDU) and 2 commands (the second meets what the first left
behind). `errors` and `extensions` are history and saturate one above what the
retries tolerate.

Fairness: both devices call `rfalWorker` in their loops (`Pcd`, `PiccReceive`);
the card's application may never answer.

### IsoDepActivation

How reader and card come to agree: RATS and ATS, PPS, ATTRIB, the first APDU cut into
blocks, and a later change of rates by S(PARAMETERS). `pcd` is `gIsoDep` of the reader
with the call that runs and its RF bit rates, `dev` the device record of the
application, which outlives an activation (optional fields of an ATS leave it as it
was), `card` the card. A card is this library as a listener or another make
(external), which announces what it likes within the standard. Frames are lost and
damaged until the reader is active. A card may answer S(PARAMETERS) with an empty set of
rates; the reader then sends nothing and returns an error (`SParametersFail`).

`ParametersAgree`: neither side sends a longer frame than the other takes, the reader
waits long enough, both use the same DID. `BestRates`: the rates asked for are the best
possible ones, where a card that must use the same rate both ways has none at one side's
limit. `RatesFollowCard`: the reader changes its rates only to those of the card, in
mirrored directions. `GuardTimeKept`: PPS and the first block come after the guard time.

Bounds: eleven cards that differ in the optional fields, rates, frame sizes, waiting times and
technology, the three compliance modes, two frame sizes of the reader, one retry of RATS, APDUs
shorter and longer than a frame. Assumed: frame size indices up to 8 (larger ones announce a
size the buffers do not have); no DID, as `rfalNfcPollActivation` asks for none
(`DidIsAnnounced` in the proof is weaker); after activation the retries of `IsoDep` see to lost
blocks.

### NfcDep

The counterpart of `IsoDep` for `rfal_nfcDep.cpp`: initiator (`ini`) and target (`tgt`)
with their applications, from ATR over PSL to DSL or RLS, with chaining, ATN, NACK,
retransmission and timeout extensions, and the same `ApduService` as the
specification. `InStep`: between two commands PDU number and bit rate agree and the
target listens (`SessionsAgree`), and an answer that waits for the confirmation of an
extension is still to be sent (`AnswerNotForgotten`). `RetriesAreUsed` and
`EveryCallEnds` are as in `IsoDep`.

A setup names the faults of its link, because the protocol of the code does not
survive all of them: any fault without chaining and extensions, any but a
lost request for an extension with them, and with chaining any but lost or damaged
acknowledgements to the target's side and damaged ATN and ACK responses. What the faults
left out do is described under "Also seen while modelling". Bounds: the
retries of the code (3; 2 for ATR), messages of up to two parts, two commands. PNI has
its two bits. DID, NAD and length checks are left out, and so is the callback that
deactivates in the middle of an exchange.

Fairness: both devices run their workers; the target's application may never answer.

### Pollers

`PollerField` is the field: the cards present, the state of each, and what a reader
receives when some of them answer (one answer, none, or a collision, which goes
unnoticed if the other answers are weak). `NfcaPoller` (REQA, cascade levels, collision
resolution bit by bit with its backtracking, HLTA), `NfcbPoller` (slots, doubled while
they collide), `NfcfPoller` (one poll, then a second for NFC-DEP), `NfcvPoller` (slot
inventory with a container of collisions; also the search that puts cards to sleep) and
`St25tbPoller` (PCALL, SLOT_MARKER, random slots) each model the detection and the
collision resolution of one file; each step is one command with its answer,
since the library blocks for it. `Pollers` puts them on one field.

`DevicesAreTrue`: each device of the list is a card in the field, none twice unless a
command was lost, within the limit (`ListIsTrue`), and a device marked asleep does sleep
while the one not marked is ready for the activation (`MarksAreTrue`). `NobodyMissed`: a
search that ends below the limit without a lost exchange found every card; it excludes
what the technology cannot do (no anticollision of type 1 tags, unnoticed collisions in
NFC-B, V and ST25TB, a collision container that is full, EMV which looks for one card).
`SearchEnds`: every search ends.

Bounds: up to four cards, UIDs of two bytes of two bits in up to two cascade levels,
four slots for NFC-B, two for NFC-V and ST25TB, limits 0 to 3 (4 for NFC-V), one
exchange lost. The smallest UIDs with which the second level and a second bit
differ, and a bit must be tried the other way. An NFC-V mask never grows beyond the array that
holds it (see below). Fairness: the blocking procedures
run on; the random slots of ST25TB cards separate them at some time (the code loops
until they do).

### RfMode

`rf` is `gRFAL`, `chip` the registers it relies on and the interrupts raised; the
library writes registers in part, so every mode relies on the one before it having been
left well. Calls (initialise, set mode, set bit rate, field on and off, exchange,
listen start, sleep, stop, wake-up start and stop) and the workers of listen and
wake-up mode run one at a time; the other reader's field, the level a measurement
would give and the chip's interrupts change between them.

`ExchangeInMode`: an exchange runs with the modulation, rates and analog settings of the mode
and rates remembered. `LeftAsFound`: listening and wake-up mode leave the oscillator running,
the field detector on and the automatic responses off, and wake-up mode is silent. Of the
interrupts only those of a reception (`Receiving`: start, end and errors of a frame, the coming
and going of a field) stay enabled after listening or an exchange; those of the emulated card
(`Listening`) and of wake-up mode do not. `WakesOnChange`: it wakes only when a measurement has
been away from its reference. `CardWakes`: a card that stays wakes the reader.

Bounds: NFC-A, NFC-V, active P2P and a mode the chip does not implement; two rates of
different sets; listen masks with and without NFC-F, active P2P and one that is
refused; four wake-up configurations with given and measured references, with and
without software tag detection; three levels. A level is outside, at or inside a delta.
The fraction of the delta and the automatic average are excluded from software tag
detection because the code ignores them there. Fairness: the wake-up timer and the
worker run.

### NdefTag

Detection, reading, the phases of writing (length reset, data, length, terminator) and
formatting of type 2, 3, 4 and 5 tags as block writes to a tag (`tag`) that
may leave before any of them, whose command may have reached it although the answer was
lost. `ctx` is the `NdefClass` context with the type's `subCtx` and the cache of the last
READ; what a read that fails leaves there depends on whether it was of a part of a block or of
whole ones (`CachesLeft`). The bytes of messages are members of small sets; lengths, the TLV and its
three-byte form, the write flag of type 3 and NLEN are modelled.

`NdefStore` is the specification: a tag holds the old message, none, or the new one.
`ContextIsTrue`: what the context remembers agrees with the tag, and the cached
blocks are those of the tag. `ReportsAreTrue`: a read reports what the tag holds, a
write that succeeds has put the message there.

Bounds: eight tags of up to 16 bytes with and without a TLV in front, messages of 0 to 9
bytes, a short length of at most 6 for 254, two blocks a write. Assumed: the application
writes after a successful detection, reads right after one, and detects again after
formatting, as `NdefReadWrite.ino` does except for reading after a write (see below).

### NdefMessage

Records with their header bits and link, type objects, the pool of records of a
decoder, and the calls: append and drop, set payload, type and identifier, encode,
decode, and get for the empty, text, URI, AAR and media types. `wire` is a buffer;
`meant`, `named` and `sent` are history.

`WellFramed`: MB marks the first record and no other, ME the last. `LengthIsEncoded`: the
length announced by `ndefMessageGetInfo`, before a byte is encoded, is the length of
what is encoded; tag writers announce it first. `RoundTrip`: a record reads as what was
put in it, through encoding and decoding, and a message that does not fit in the pool is
reported.

Bounds: one record and one type object of the application, a pool of two, a short length
of four, so that payloads lie on both sides, one message of each of two foreign writers.
The long form is used by foreign writers for long payloads only (see below). Assumed: a
record is in the message once, a type object stays as it is while a record refers to it,
the buffer of a decoded message stays, too.

### CardEmulation

The type 3 and type 4 commands of `demo_ce.cpp` on one file, the loop and the callbacks
of the sketches (`CardEmulation` as T4T, T3T and Wi-Fi, `CapSenseModeSwitch`, `Polling`)
around a reduced discovery, and readers that read or write a message, send S(DESELECT)
and leave when they like. Block k of a type 3 tag begins two bytes behind the file's
bytes of a type 4 tag. The two status bytes the code appends once more to a type 3 write's
answer are in it, and no reader looks at them.

`ImplementsStore`: the emulated tag is an `NdefStore`. `ReaderIsTold`: a reader that
keeps to the procedure is never refused, reads what the tag holds and has written what it
was told. `EveryoneServed`: a reader that stays is served to its end and a card that is
found is let go, until a reader sends S(DESELECT).

Bounds: a file of three blocks, two in a command, three messages. A next reader comes
only after a pending command was executed; the restart of the board and the capacitive
sensor are not modelled. Readers ask for offsets whose sum with the length fits in
16 bits. Messages that contain the byte patterns of `cmdCompare` are
not used (see below).

### Runs

| Run | Question | Result |
|---|---|---|
| `interrupt_driver` | Is every interrupt recorded once, and the mask shadow true, however services nest? | holds; safety also proved |
| `transceive` | Is what is sent and delivered whole, undamaged and of this exchange, whatever comes late, and does every exchange end? | holds; safety but for lengths also proved |
| `discovery` | Do list, active device, role, field, listen and wake-up mode agree, and does every polling and listening phase end? | holds |
| `rf_mode` | Does every mode leave the chip as the next one expects it, and wake-up mode wake? | holds |
| `activation` | Do reader and card agree on sizes, times, rates? | holds |
| `isodep` | Does ISO-DEP implement `ApduService`, use its retries and end? | holds |
| `nfcdep` | Does NFC-DEP, on the links named? | holds |
| `pollers` | Is every card found, once, and left in the state its mark says? | holds |
| `ndef_tag` | Is a tag that leaves at any moment left with the old message, none, or the new one? | holds |
| `ndef_message` | Does a record read as what was put in it, and is the announced length the encoded one? | holds |
| `card_emulation` | Is every reader of an emulated tag served and told the truth? | holds |
| `doc_ndef_length` | A message longer than 254 bytes on a type 2 or 5 tag | violated, see Findings |

Bounds and fairness are given with the modules. Fairness of the discovery: `loop()`
calls `rfalNfcWorker` for ever, a callback returns, and time passes. Nothing is assumed
of readers, cards or the application. `CHECK_DEADLOCK FALSE` stands where the
application may have nothing left to do: its commands are bounded (`isodep`, `nfcdep`,
`transceive`), or the tag has left for good (`ndef_tag`).

## Findings

- `doc_ndef_length`: the writers of type 2 and type 5 tags put a length over 254 as two
  bytes behind the T byte, without the marker `FF` (`ndef_t2t.cpp:485`,
  `ndef_t5t.cpp:504`), and report success. Their own detection (`ndef_t2t.cpp:301`) and
  the comment on the marker (`ndef_t2t.cpp:57`) have three bytes, so the message
  reads back with another length. `SuccessMeansWritten` is violated on the tags of
  `LongTags`; the passing run `ndef_tag` stays below the limit.

### Also seen while modelling

These have no run of their own. Where one is excluded from a run, the section of its
module says so.

Discovery and RF layer:

- An index equal to the number of devices found is accepted (`rfal_nfc.cpp:949`, `>` for
  `>=`) and a stale entry is activated.
- An exchange started after `rfalNfcDeactivate(true)` cancels it (`rfal_nfc.cpp:443`);
  `rfalNfcDeactivate(false)` in the notification of a sleep request is undone
  (`rfal_nfc.cpp:336`).
- Deactivation while listening does not stop listen mode (`rfal_nfc.cpp:1323`), whose
  oscillator is off while no reader's field is there; a following discovery that only
  polls finds it off, and `rfalFieldOnAndStartGT` refuses every technology.
  `CapSenseModeSwitch.ino:149` does this. `rfal_nfc.h:431` promises to "go back into discovery".
- Over SPI `st25r3916WriteFifo` copies what it is given into `uint8_t tx[256]` on the
  stack (`st25r3916_com.cpp:207`), after comparing it with the 512 bytes of the FIFO only. The
  first part of every frame of more than 256 bytes is written past the array, and of a frame
  that needs a reload this is 512 bytes. `rfal_rfst25r3916.cpp:1391` loads up to
  "FIFO's maximum", and `st25r3916_com.cpp:62` defines a length that would hold it. In the model
  the frame then goes out whole or the program is `LOST`. I2C is not affected. The
  array is also in the other bus functions (`st25r3916_com.cpp:152`,
  `:292`, `:388`, `:434`), which are called with shorter data. What does not fit in the receive
  buffer is read into NULL (`rfal_rfst25r3916.cpp:1890`), to which the I2C path writes.
- `rfalListenStop` leaves the interrupts of a reception enabled
  (`rfal_rfst25r3916.cpp:2918` against `:2881`).
- `ST_ERR_AGAIN` is final (`rfal_nfc.cpp:579`), although the header tells the application
  to keep asking. The first list entry keeps its type after card emulation
  (`rfal_nfc.cpp:1257`), and `activeDev` survives the end of a listen phase
  (`rfal_nfc.cpp:420`).
- The sanity timer is never stopped and is looked at before the next exchange has
  re-armed it (`rfal_rfst25r3916.cpp:1028`): an exchange after a long pause fails, one
  that waits for ever is aborted, and the result of an ended one is overwritten.
- The count of bytes in the FIFO is returned in 8 bits (`rfal_rfst25r3916.cpp:1995`). The
  timer that stands in for a missing RXE is looked at before a pending RXE
  (`rfal_rfst25r3916.cpp:1634`). A short frame with an error is read without comparing its
  length with the buffer (`rfal_rfst25r3916.cpp:1142`), and with a full payload the CRC is
  stored behind it (`rfal_rfst25r3916.cpp:1798`).
- The capacitive reference is measured if the phase reference is automatic
  (`rfal_rfst25r3916.cpp:3253`; `rfal_rf.h:647` says otherwise). Software tag detection
  ignores the fraction of the delta and the automatic average
  (`rfal_rfst25r3916.cpp:3114`). The field is still recorded as on in wake-up mode. Bit
  rates are stored before they are checked, and NFC-V after active P2P leaves the
  automatic response on.

Protocols:

- ISO-DEP: requests for more time count as retries of an S-block and the count is cleared
  only by data (`rfal_isoDep.cpp:413`); a deselect after that sends nothing
  (`rfal_isoDep.cpp:810`). A deselect ends with success on an I-block
  (`rfal_isoDep.cpp:756`), and during a chained reception its retries are R(ACK)
  (`rfal_isoDep.cpp:601`).
- Activation: this library as a card does not answer a RATS that is repeated because the
  ATS was lost; a lost PPS response leaves the two sides at different rates;
  S(PARAMETERS) does not wait for the guard time (`rfal_isoDep.cpp:1744`). A frame size of
  255 ("keep") overwrites the stored one (`rfal_isoDep.cpp:1948`), and with a DID the first
  block is one byte too long and refused (`rfal_isoDep.cpp:1952`). An ATS without TC leaves
  `supDID` as the card before had it (`rfal_isoDep.cpp:1567`), and with it the DID that is used.
- NFC-DEP: after a lost request for an extension an ATN makes the target execute the
  command again. An ACK for a part of the
  answer that is lost leads to an ATN, and the ATN to an I-PDU with the current PNI instead of the
  ACK (`rfal_nfcDep.cpp:578`): the target takes it for a command, executes it
  and sends the answer from its start, and the call ends with ST_ERR_NONE, "completed
  successfully" (`rfal_nfc.h:1557`), and the first part twice. A
  damaged ACK or ATN is answered with a NACK, for which the target repeats an old PDU. A
  repeated ATR is not answered (`rfal_nfcDep.cpp:1834`). The number of ATN is limited by
  the constant for NACK (`rfal_nfcDep.cpp:401`), and NAD is compared with the DID
  (`rfal_nfcDep.cpp:815`).
- NFC-A: backtracking repeats the SDD_REQ of the level it failed in
  (`rfal_nfca.cpp:262`), so it fails in the second and third. A limit of 0 lists one
  device. NFC-F: a failed second poll leaves the list empty. NFC-V: collisions beyond the
  container are dropped (`rfal_nfcv.cpp:341`), and one behind a mask of 56 bits or more is stored
  past the eight bytes of `maskVal` (`rfal_nfcv.cpp:349`). ST25TB: the result of reading the UID
  is ignored.
- ISO15693 (not modelled): the EOF is written without a look at the space left.

NDEF and card emulation:

- The parameter `messageLen` hides the member of that name in all four tag types
  (`ndef_t2t.cpp:717`, `ndef_t3t.cpp:756`, `ndef_t4t.cpp:834`, `ndef_t5t.cpp:813`), so a
  read after a write uses the old length. `NdefReadWrite.ino:171` reads after a write.
- Type 2: the terminator is written only when the write of the length failed
  (`ndef_t2t.cpp:496`), and a detection can be answered from the cache with no tag. Type
  3: writing an empty message leaves the write flag on. Type 4: a message of one or
  two bytes makes the tag undetectable. Type 5: a message that fills the area is
  written and reported as an error; a failed detection may leave INITIALIZED.
- Records: a foreign record in the long form with a short payload is encoded again with a
  wrong header (`ndef_record.h:128`, `ndef_record.cpp:395`). The encoder of a header asks
  for seven bytes (`ndef_record.cpp:378`). Decoding a second message overwrites the
  pool of the first; a record appended twice makes a cycle; MB, ME and CF are not
  looked at. A URI that is just a prefix cannot be read back.
- Emulation: after S(DESELECT) the sketch does not prime the next exchange
  (`CardEmulation.ino:206`). `cmdCompare` compares bytes of an earlier, longer command
  (`demo_ce.cpp:211`). In a sketch for both types, the length of type 3 and that of type 4 are
  not in step. A type 4 read beyond the end is refused with 6F00; with an offset near 0xFFFF
  the sums wrap and the check may pass (`demo_ce.cpp:313`).

## Proofs

`InterruptDriver_proof` proves type correctness, `NoLostInterrupt`, `MaskShadow`,
`OneTransfer` and so `NestingIsSafe` for any set of sources, mask registers and depth.
The inductive invariant says which frames can be on the stack and that only the top one
is outside its body; without it a nested service could not be shown to return to a
caller whose view of the mask is still valid.

`NfcDiscovery_proof` proves `TypeOK`, `WithinLimit` and `ActiveDeviceKnown` for any list size
and any parameters `rfalNfcDiscover` accepts. `Inductive` strengthens the first two: no device
is counted while the machine waits or detects (so the step that ends the detection of active P2P
counts to one), and from the first discovery on, even when it is stopped inside a notification,
the limit is at least one (so activating a card keeps within it). `ActiveDeviceKnown` is
inductive relative to the type invariant. `RfFollowsState` is proved for an application that
starts exchanges only with an activated device, as `rfal_nfc.h` asks for (`Careful`); without
this it is false: an exchange started while the machine deactivates uses the device of an
earlier activation. Its invariant `RfInv` says for each state of the machine what it relies on
of the RF layer (field, listen and wake-up mode), also while a notification is being delivered.

`Transceive_proof` proves `TypeOK`, `FifoFits`, `EndedHasResult` and the action properties
`OnlyWholeFramesSent`, `GoodAnswer` with its three parts `OwnAnswer`, `DamagedNotDelivered` and
`TargetNeedsField`, and `AnsweredNotTimedOut` for any FIFO, water levels, count width, exchanges
and frames. What ends an exchange is only seen at its end, so the invariant `IInv` ties the
status word to what happened on the air before: bytes written are sent or still in the FIFO
until TXE, and a pending water level means room (`TxCounts`); a lost program reports nothing; a
pending RXE is of a frame that began in this exchange (`AnswerOwned`); a damaged frame shows in
an error interrupt or in the FIFO status (`DamageShows`); a lost field is pending with the end
of the frame (`FieldEndPending`); an answer that began is pending until it is seen
(`StartPending`). `SuccessSteps` says which steps can end an exchange well; each property then
follows from the invariant before that step.

`IsoDep_proof` proves `TypeOK`, `InStep`, `RetriesAreUsed` and that the protocol implements
`ApduService`, for any number of retries, of commands and of blocks. The invariant `IInv`
follows one block at a time: it is offered by the reader, taken by the card, worked on (with
extensions of the waiting time), answered, or part of an answer that is read; `AtRest` and
`Closing` say what holds before and after. In each of these stages it fixes both block numbers,
what either side would repeat, and which blocks can be on the air, late copies of answered ones
included. That a command is executed only once rests on the numbers: in the stages where the
card already has the block of the reader, both numbers are equal, and only a NAK for this block
can be on its way. `Counts` relates the retry counters to the errors seen since the last
progress. `ServiceImplemented` takes the steps one by one: a step either appends the whole
command to `executed`, or ends the call with the whole answer, or leaves the abstract state
alone.

`NfcDep_proof` proves `TypeOK`, `InStep`, `RetriesAreUsed` and that this protocol, too,
implements `ApduService`, for any number of retries, of commands and of parts. Again the
invariant `IInv` follows one PDU at a time: a part of the command is `Offered` and `Taken`, the
target is `Working`, a part of the answer is `Sending`, `Delivering`, `PartRead`, and the next
one is asked for (`GoingOn`); `Opening`, `AtRest` and `Closing` say what holds around an
exchange, and `Gone` that the target has given up. The PNI of the target runs ahead of the one
of the initiator in `Taken` and `Delivering` and equals it otherwise; with `lastPFB` and
`lastPFBnATN` of both sides (`LastSent`) this decides what either makes of an ATN, a NACK or a
repeated I-PDU. In `Waits` a request for an extension is unanswered, and the initiator does not
repeat its command then. `TypeCorrect` and `AnswerNeverForgotten` hold on any link, and
`ShortServiceImplemented` says that with messages of one part and no extensions the service is
implemented whatever the link loses or damages. For chained messages and extensions the theorems
have the hypothesis `LinksKeepChains`, which excludes faults that the code does not survive:
where messages are chained, no acknowledgement to the target is lost or damaged and no ACK or
ATN to the initiator is damaged; where the target extends, its request is not lost. Without it
they are false: each of these faults is described under "Also seen while modelling". The set-ups
of the run satisfy it; the theorems also cover set-ups that chain and extend at once.

`RfMode_proof` proves `TypeOK`, `LeftAsFound` and `ExchangeInMode`, for any modes, bit rates,
masks and wake-up configurations that callers may use. The invariant `IInv` says what the caller
may rely on in each of the three uses of the chip (set-up and exchange, listening, waking up; in
the first the interrupts of a reception may be enabled), and ties the registers to the mode and
the bit rates in `gRFAL` from the moment a mode has been set until another use begins (`SetUp`);
it is not tied to them otherwise, so the proof also shows that no exchange starts then.
`WakesOnChange` is proved with `WakeInv` (the references and the last measurements on the chip
and in the worker are those of the configuration) under `ExactConfigs`: deltas are whole, as the
software detection ignores the fraction; the average is used only by software, as the one of the
chip is not modelled; and the reference that is measured is the one `Decides` names
(`rfal_rfst25r3916.cpp:3253` measures another one otherwise).

`IsoDepActivation_proof` proves `ParametersAgree`, `BestRates`, `GuardTimeKept` and
`RatesFollowCard` for any cards and arguments, whatever gets lost or damaged. There is one frame
on its way at a time, and it is the request that the reader waits for the answer to, or this
answer (`Lockstep`, in `OneFrame`); so what a frame says can be read off the reader, the card
and what the reader has stored of it. `Told` says what the card has been told and has told when
its answer is on the air, `Known` what the reader has of it, `RateInv` to which rates the card
goes after its answer, `GuardInv` that the reader's timer runs where the card's does. `FSxFits`
and `SmallFSx` then give the frame sizes, also where the reader's own size is the flag
`RFAL_ISODEP_FSX_KEEP`; it is 255, the largest size it stands for is 256, and the CRC makes the
difference. `CalcBitRateIsBest` shows that the loop of `rfalIsoDepCalcBitRate`, which counts
down from the lower of two rates, finds the highest rate of both directions. `AlwaysAgreed`
needs `DidIsAnnounced`: without a DID, or with cards that tell in TC if they support one.
Otherwise the flag of the last card is used, and reader and card may differ (see "Also seen
while modelling").

`NdefTag_proof` proves `ContextIsTrue`, `ReportsAreTrue` and that `NdefTag` implements
`NdefStore` (`ImplementsStore`), for the four types and any tag sizes, messages, block sizes,
points where a command fails, and leaving of the tag. The store sees the message only, so all
rests on what the bytes say between two block writes. The invariant `Inv` has a part for the tag
(`TagInv`: it holds a message or none, and its TLV stays in its place), for the context
(`CtxInv`, `DetectedInv`, `WrittenInv`: what it knows since a detection or a write) and for the
write under way (`OpInv`). The latter says for each phase what is on the tag (`StageInv`): once
the length is reset (`ResetOn`), no byte of the message can be seen; data is written up
to `at` (`BytesOn`); the length comes when all of it is there; a terminator follows it and
never touches it. `BytesOn` needs the offset of the data to be the one of a one byte length
(`ctx.off = Off`), which the code sets when a write begins; without it, a tag made with a
three byte length would break it. A write that fails leaves the tag at one of these stages,
and the next one starts from there. The cache of a type 2 tag is true
because writes forget it and because it is otherwise one READ of the tag (`Caches`, in `CtxInv`). A
detection does several reads, so this is an induction on their number, over a recursive
function, by a least counterexample (`Least`, `AfterReadsExists`, `CachesKept`).

The theorems need `ShortLengths`: messages written to type 2 and 5 tags have lengths that fit in
one byte. For a longer one `DocNdefLength` shows the code wrong. The messages tags come with may be
longer. `ReadsWhatItDetected` says that the application does not read before any detection, or
after formatting; `ReportsAreTrue` needs `ReadsAfterDetection`, as the length that a write
leaves in the context is the old one (see "Also seen while modelling"). The tags of the run satisfy
all three.

Assumptions: `MaxDevicesAssumption` (the list has a place), `ParamsAssumption` (what
`rfalNfcDiscover` checks), `NullAssumption`, `FifoAssumption` (a water level lies inside the
FIFO), `SetupAssumption`, `RetriesAssumption`, `CommandsAssumption` and `BoundsAssumption`
(numbers are natural), `CarefulAssumption` (`Careful` is true or false), `ModeAssumption`
(callers use the modes, masks and configurations the API has), `CardsAssumption` (what a card
can announce; the library announces no larger frame than its buffer holds, and is NFC-A) and
`ArgumentsAssumption` (what the activation takes; the reader, too, announces no larger frame
than its buffer), and `NdefAssumption` (sizes are natural, the area of the TLVs begins at a
block, the first message of a tag fits into it, and a TLV in front of it on a type 5 tag has a T
and an L field).

What is proved for all values and says more about types and bounds than about the
code (`TypeOK`, `FifoFits`, `EndedHasResult`, `WithinLimit`) is not repeated in a run.

Only model-checked: `WholeAnswer` of `Transceive`, which depends on the lengths explored; all
liveness properties, and ENABLED, so `CardWakes` too (out of the prover's reach); the
refinement of `CardEmulation` and its other property, and those of `Pollers` and `NdefMessage`.
Those of `NdefMessage` say what recursive functions compute on every input of a structure that
is itself nested, which needs an induction over data.

## Plan

Done: `InterruptDriver`, `NfcDiscovery`, `Transceive`, `IsoDep` and `NfcDep` against
`ApduService`, `IsoDepActivation`, `RfMode` with listen and wake-up mode, and `NdefTag` against
`NdefStore` (proved but for the above); the pollers; `CardEmulation` against `NdefStore`;
`NdefMessage`.

Left, in this order:

1. Proofs: `CardEmulation` against `NdefStore`; the pollers.
2. The 32-bit arithmetic of the software timers, ISO15693 coding.
3. The vCard, Wi-Fi and device information types of NDEF.
4. The composition of `IsoDep` with `Transceive`, whose promises it assumes.

## Not modelled

- Register contents beyond those `RfMode` names, the analog configuration table and its
  search, antenna tuning, the regulator: a property of them would be about the chip.
- The single commands of T1T, T2T, T4T and ST25xV tags, which fill a buffer and call the
  blocking transceive.
- ISO15693 coding and CRC: functions on bytes, without state.
- Device information, vCard and Wi-Fi types; sector select of type 2 tags and the
  file selection of type 4 tags; the sketch `NdefReadWrite.ino` as a program.
- NAD; the capacitive sensor; logging; a restart of the board, which starts everything
  from `Init`, as nothing is stored.
- Bus errors: the driver ignores the return values of its bus functions in almost every
  place, so that a model of them would only say that anything can happen.
