------------------------------- MODULE RfMode -------------------------------
(* The mode of the RF layer and of the chip under it: initialisation,       *)
(* rfalSetMode and rfalSetBitRate, the field, passive listening and the     *)
(* low-power wake-up mode with its measurements.  What gRFAL remembers (rf) *)
(* and what is in the chip's registers (chip) are separate: the library     *)
(* writes a register only in part, and every mode relies on the one before  *)
(* it having been left properly.  Calls run one at a time; the chip, the    *)
(* cards and the other reader's field change between them.                  *)
EXTENDS Integers, FiniteSets

CONSTANTS
  Modes,          \* the modes the caller sets
  Rates,          \* the bit rates it asks for
  Masks,          \* the sets of modes it listens in
  WakeUpConfigs,  \* the wake-up configurations it passes, DefaultConfig for none
  DefaultConfig,
  Levels,         \* the values a measurement can have
  Variants        \* chips: [b |-> is it an ST25R3916B, aat |-> is the antenna tuned]

VARIABLES
  variant,  \* the chip on the board
  rf,       \* gRFAL
  chip,     \* the chip's registers, and the interrupts it has raised
  ext,      \* is the field of another reader there
  level,    \* what the measurements of the chip would give now
  asked,    \* history: the references the configuration in use asks for
  changed,  \* history: has a level left its range since wake-up mode was started
  caller    \* what the caller relies on: nothing, an initialised layer, a mode it has set

vars == <<variant, rf, chip, ext, level, asked, changed, caller>>

NFCV == {"POLL_NFCV", "POLL_PICOPASS"}
PassiveListen == {"LISTEN_NFCA", "LISTEN_NFCB", "LISTEN_NFCF"}
NFCVTx == {"26p48", "1p66"}
NFCVRx == {"26p48", "52p97", "106", "212"}
ChipRates == {"106", "212", "424", "848"}
TxRates == ChipRates \cup {"1695", "3390", "6780", "13560"}     \* the chip takes to send
Keep == "KEEP"

Kinds == {"amp", "pha", "cap"}        \* the measurements of wake-up mode
ReferenceAuto == 255                  \* RFAL_WUM_REFERENCE_AUTO

Measurement == [on : BOOLEAN, delta : Nat, frac : 0..3, ref : 0..ReferenceAuto, avg : BOOLEAN]
WakeUpConfig == [sw : BOOLEAN, tout : BOOLEAN,
                 amp : Measurement, pha : Measurement, cap : Measurement]

\* The interrupts by what needs them: wake-up mode (its timer WT and its measurements),
\* listening alone (LM: the activations of the emulated card, RXE_PTA, WU_F, WU_A, WU_A_X,
\* and OSC), and any reception (RX: its start, end and errors, and the coming and going of
\* another field), which listening and exchanges enable and nothing disables after them.
Receiving == {"RX"}
Listening == Receiving \cup {"LM"}

PollModes == {"POLL_NFCA", "POLL_NFCA_T1T", "POLL_NFCB", "POLL_B_PRIME", "POLL_B_CTS",
              "POLL_NFCF", "POLL_ACTIVE_P2P"} \cup NFCV
ListenModes == PassiveListen \cup {"LISTEN_ACTIVE_P2P"}

\* The modes to listen in are set after the first frame, by listen mode itself and by
\* NFC-DEP, never by a caller of rfalSetMode that has not started listening; LISTEN_NFCB
\* is not implemented.
ASSUME ModeAssumption ==
  /\ Modes \subseteq PollModes \cup {"NONE", "LISTEN_NFCB"}
  /\ Masks \subseteq SUBSET ListenModes
  /\ Levels \subseteq 0..(ReferenceAuto - 1) /\ Levels # {}
  /\ Variants \subseteq [b : BOOLEAN, aat : BOOLEAN]
  /\ WakeUpConfigs \ {DefaultConfig} \subseteq WakeUpConfig

-----------------------------------------------------------------------------
(* REG_MODE has the direction (targ) and the modulations (om).              *)

Register(targ, om) == [targ |-> targ, om |-> om]

ListenModulation(m) ==
  CASE m = "LISTEN_ACTIVE_P2P" -> Register(TRUE, {"nfcip"})
    [] m = "LISTEN_NFCA"       -> Register(TRUE, {"nfca"})
    [] m = "LISTEN_NFCF"       -> Register(TRUE, {"nfcf"})

\* What rfalSetMode leaves in REG_MODE; for NFC-V nothing is written to it.
Modulation(m, old) ==
  CASE m = "POLL_NFCA"       -> Register(FALSE, {"iso14443a"})
    [] m = "POLL_NFCA_T1T"   -> Register(FALSE, {"topaz"})
    [] m \in {"POLL_NFCB", "POLL_B_PRIME", "POLL_B_CTS"} -> Register(FALSE, {"iso14443b"})
    [] m = "POLL_NFCF"       -> Register(FALSE, {"felica"})
    [] m \in NFCV            -> old
    [] m = "POLL_ACTIVE_P2P" -> Register(FALSE, {"nfc"})
    [] OTHER                 -> ListenModulation(m)

Implemented(m) == m \notin {"NONE", "LISTEN_NFCB"}

\* The table of analog settings a mode uses.
Tech(m) ==
  CASE m \in {"POLL_NFCA", "POLL_NFCA_T1T"}              -> "poll A"
    [] m \in {"POLL_NFCB", "POLL_B_PRIME", "POLL_B_CTS"} -> "poll B"
    [] m = "POLL_NFCF"                                   -> "poll F"
    [] m \in NFCV                                        -> "poll V"
    [] m = "POLL_ACTIVE_P2P"                             -> "poll AP2P"
    [] m = "LISTEN_ACTIVE_P2P"                           -> "listen AP2P"
    [] m = "LISTEN_NFCA"                                 -> "listen A"
    [] m = "LISTEN_NFCF"                                 -> "listen F"

Reset ==      \* the registers after CMD_SET_DEFAULT, and what initialisation writes
  [en |-> TRUE, tx |-> FALSE, wu |-> FALSE, efd |-> TRUE, mode |-> Register(FALSE, {"nfc"}),
   br |-> <<"106", "106">>, stream |-> <<"none", "none">>, analog |-> <<"none", "none", "none">>,
   auto |-> {}, irq |-> {}, raised |-> {}, wuMeas |-> {}, wuTout |-> FALSE,
   ref |-> [k \in Kinds |-> 0]]

NoConfig == [sw |-> FALSE, tout |-> FALSE,
             amp |-> [on |-> FALSE, delta |-> 0, frac |-> 0, ref |-> 0, avg |-> FALSE],
             pha |-> [on |-> FALSE, delta |-> 0, frac |-> 0, ref |-> 0, avg |-> FALSE],
             cap |-> [on |-> FALSE, delta |-> 0, frac |-> 0, ref |-> 0, avg |-> FALSE]]

RfInit == [state |-> "INIT", mode |-> "NONE", tx |-> "106", rx |-> "106", field |-> FALSE,
           busy |-> FALSE, wum |-> "NOT_INIT", cfg |-> NoConfig, lm |-> "NOT_INIT", mask |-> {}, data |-> FALSE]

AnyLevel == [k \in Kinds |-> CHOOSE l \in Levels : TRUE]

Init == /\ variant \in Variants
        /\ rf = [RfInit EXCEPT !.state = "IDLE"]
        /\ chip = [Reset EXCEPT !.en = FALSE, !.efd = FALSE]
        /\ ext = FALSE /\ level = AnyLevel /\ asked = Reset.ref /\ changed = FALSE /\ caller = "down"

Idle == caller # "down" /\ rf.wum = "NOT_INIT" /\ rf.lm = "NOT_INIT"

-----------------------------------------------------------------------------
(* Initialisation.  The identity of the chip may not be read; then the      *)
(* registers have been reset and gRFAL has not.                             *)

rfalInitialize ==
  /\ \/ rf' = [RfInit EXCEPT !.tx = rf.tx, !.rx = rf.rx] /\ chip' = Reset /\ caller' = "up"
     \/ chip' = [Reset EXCEPT !.en = FALSE, !.efd = FALSE] /\ UNCHANGED rf /\ caller' = "down"
  /\ level' = AnyLevel /\ asked' = Reset.ref /\ changed' = FALSE
  /\ UNCHANGED <<variant, ext>>

rfalDeinitialize ==
  /\ caller # "down"
  /\ rf' = [rf EXCEPT !.state = "IDLE"]
  /\ chip' = [chip EXCEPT !.irq = {}, !.raised = {}, !.tx = FALSE]
  /\ caller' = "down"
  /\ UNCHANGED <<variant, ext, level, asked, changed>>

-----------------------------------------------------------------------------
(* Setting the mode and the bit rate.  Both take gRFAL and the registers,   *)
(* and give them as they are after the call, with its result.               *)

st25r3916SetBitrate(c, tx, rx) == [c EXCEPT !.br = <<tx, rx>>]

\* Mutant: the stream is set up, but REG_MODE keeps its modulation.
StreamKeepsMode(c, tx, rx) == [c EXCEPT !.stream = <<tx, rx>>]

st25r3916StreamConfigure(c, tx, rx) == [c EXCEPT !.stream = <<tx, rx>>, !.mode.om = {"stream"}]

\* The rates are kept in gRFAL before they are checked.
rfalSetBitRate(g, c, tx, rx) ==
  LET g2 == [g EXCEPT !.tx = IF tx = Keep THEN @ ELSE tx, !.rx = IF rx = Keep THEN @ ELSE rx]
      Analog(c2) == [c2 EXCEPT !.analog = <<Tech(g.mode), g2.tx, g2.rx>>]
  IN CASE g.mode \notin NFCV /\ ~(g2.tx \in TxRates /\ g2.rx \in ChipRates) ->
            [rf |-> g2, chip |-> c, ok |-> FALSE]
       [] g.mode \notin NFCV /\ g2.tx \in TxRates /\ g2.rx \in ChipRates ->
            IF g.mode = "NONE"
            THEN [rf |-> g2, chip |-> st25r3916SetBitrate(c, g2.tx, g2.rx), ok |-> FALSE]
            ELSE [rf |-> g2, chip |-> Analog(st25r3916SetBitrate(c, g2.tx, g2.rx)), ok |-> TRUE]
       [] g.mode \in NFCV ->
            IF g2.tx \in NFCVTx /\ g2.rx \in NFCVRx
            THEN [rf |-> g2, chip |-> Analog(st25r3916StreamConfigure(c, g2.tx, g2.rx)), ok |-> TRUE]
            ELSE [rf |-> g2, chip |-> c, ok |-> FALSE]

rfalSetMode(g, c, m, tx, rx) ==
  IF g.state = "IDLE" \/ Keep \in {tx, rx} \/ ~Implemented(m) THEN [rf |-> g, chip |-> c, ok |-> FALSE]
  ELSE rfalSetBitRate(
         [g EXCEPT !.state = IF @ = "INIT" THEN "MODE_SET" ELSE @, !.mode = m],
         [c EXCEPT !.wu = IF m \in {"POLL_ACTIVE_P2P", "LISTEN_ACTIVE_P2P"} THEN @ ELSE FALSE,
                   !.mode = Modulation(m, @), !.analog = <<Tech(m), "common", "common">>],
         tx, rx)

SetMode ==
  /\ Idle /\ ~rf.busy
  /\ \E m \in Modes, tx, rx \in Rates :
       LET r == rfalSetMode(rf, chip, m, tx, rx)
       IN rf' = r.rf /\ chip' = r.chip /\ caller' = IF r.ok THEN "mode" ELSE "up"
  /\ UNCHANGED <<variant, ext, level, asked, changed>>

SetBitRate ==
  /\ Idle /\ ~rf.busy
  /\ \E tx, rx \in Rates \cup {Keep} :
       LET r == rfalSetBitRate(rf, chip, tx, rx)
       IN rf' = r.rf /\ chip' = r.chip /\ caller' = IF r.ok THEN caller ELSE "up"
  /\ UNCHANGED <<variant, ext, level, asked, changed>>

-----------------------------------------------------------------------------
(* The field.  Collision avoidance finds another field, succeeds, or stays  *)
(* without an answer of the chip; whether the field is on is read back.     *)

\* Mutant: the oscillator is taken to be running.
OscTakenOn(c) == c

st25r3916OscOn(c) == [c EXCEPT !.en = TRUE]
TxRxOff(c) == [c EXCEPT !.tx = FALSE]

PerformCollisionAvoidance(c) ==
  {[c EXCEPT !.tx = on] : on \in IF ext THEN {FALSE} ELSE BOOLEAN}

rfalFieldOnAndStartGT ==
  /\ Idle /\ chip.en
  /\ IF chip.tx /\ rf.field THEN UNCHANGED <<rf, chip>>
     ELSE \E c \in PerformCollisionAvoidance(chip) : chip' = c /\ rf' = [rf EXCEPT !.field = c.tx]
  /\ UNCHANGED <<variant, ext, level, asked, changed, caller>>

FieldOff(g) == [g EXCEPT !.field = FALSE, !.busy = FALSE]     \* with rfalCleanupTransceive

rfalFieldOff ==
  /\ Idle
  /\ rf' = FieldOff(rf) /\ chip' = TxRxOff(chip)
  /\ UNCHANGED <<variant, ext, level, asked, changed, caller>>

\* An exchange is accepted in any state from MODE_SET on; the caller starts one only in
\* a mode it has set.
rfalStartTransceive ==
  /\ caller = "mode" /\ rf.wum = "NOT_INIT" /\ ~rf.busy
  /\ rf.state \in {"MODE_SET", "TXRX", "LM", "WUM"}
  /\ chip.tx \/ rf.mode \in PassiveListen
  /\ rf.lm # "NOT_INIT" => rf.data
  /\ rf' = [rf EXCEPT !.state = "TXRX", !.busy = TRUE]
  /\ chip' = [chip EXCEPT !.irq = @ \cup Receiving]
  /\ UNCHANGED <<variant, ext, level, asked, changed, caller>>

ExchangeEnds ==
  /\ rf.busy /\ rf' = [rf EXCEPT !.busy = FALSE]
  /\ UNCHANGED <<variant, chip, ext, level, asked, changed, caller>>

-----------------------------------------------------------------------------
(* Listening: the automatic responses of the chip are enabled for the       *)
(* technologies asked for, first without power and then in the field of a   *)
(* reader; the first frame sets the mode.                                   *)

ToIdle(g, c) == [rf |-> [g EXCEPT !.lm = "IDLE"], chip |-> st25r3916OscOn(c)]

ToPowerOff(g, c) ==
  LET Off == [c EXCEPT !.mode = Register(TRUE, g.mask), !.auto = @ \cup g.mask, !.irq = Listening,
                       !.tx = @ /\ ext /\ "LISTEN_ACTIVE_P2P" \notin g.mask, !.raised = {}]
      Lm  == [g EXCEPT !.data = FALSE]
  IN IF ext THEN ToIdle(Lm, Off)
     ELSE [rf |-> [Lm EXCEPT !.lm = "POWER_OFF"], chip |-> [Off EXCEPT !.en = FALSE]]

rfalListenStart ==
  /\ Idle /\ ~rf.busy
  /\ \E mask \in Masks :
       IF "LISTEN_NFCB" \in mask \/ mask = {} THEN UNCHANGED <<rf, chip>>
       ELSE LET r == ToPowerOff([rf EXCEPT !.state = "LM", !.mask = mask],
                                [chip EXCEPT !.auto = mask])
            IN rf' = r.rf /\ chip' = r.chip
  /\ caller' = "up"
  /\ UNCHANGED <<variant, ext, level, asked, changed>>

\* The chip has answered a reader as m and does no longer answer as the other.
Other(m) == IF m = "LISTEN_NFCA" THEN "LISTEN_NFCF" ELSE "LISTEN_NFCA"

ToReady(g, c, m, state) ==
  LET r == rfalSetMode(g, [c EXCEPT !.auto = @ \ {Other(m)}], m, "106", "106")
  IN [r EXCEPT !.rf.lm = state, !.rf.state = "LM"]

\* What a reception needs stays enabled.
ListenStop(g, c) ==
  [rf   |-> FieldOff([g EXCEPT !.lm = "NOT_INIT", !.data = FALSE, !.mask = {}]),
   chip |-> [TxRxOff(st25r3916OscOn(c)) EXCEPT !.auto = {}, !.irq = @ \ {"LM"},
                                               !.mode = Register(FALSE, {"iso14443a"})]]

\* Asleep, the chip answers only a WUPA; without a field listening ends.
ToSleep(g, c) ==
  LET Asleep == [c EXCEPT !.mode = Register(TRUE, {"LISTEN_NFCA"}), !.auto = @ \cup {"LISTEN_NFCA"},
                          !.irq = @ \cup Listening, !.raised = {}]
  IN IF ext THEN [rf |-> [g EXCEPT !.lm = "SLEEP_A", !.state = "LM", !.data = FALSE], chip |-> Asleep]
     ELSE ListenStop(g, Asleep)

FieldGone ==
  /\ rf.lm \notin {"NOT_INIT", "POWER_OFF"} /\ ~ext /\ (rf.lm = "IDLE" => ~rf.data)
  /\ LET r == ToPowerOff(rf, chip) IN rf' = r.rf /\ chip' = r.chip
  /\ caller' = "up"

FieldThere ==
  /\ rf.lm = "POWER_OFF" /\ ext
  /\ LET r == ToIdle(rf, chip) IN rf' = r.rf /\ chip' = r.chip
  /\ UNCHANGED caller

Answered ==
  /\ rf.lm = "IDLE" /\ ext /\ ~rf.data /\ chip.mode = Register(TRUE, rf.mask)
  /\ \E m \in chip.auto \cap PassiveListen :
       LET r == ToReady(rf, chip, m, "READY")
       IN rf' = r.rf /\ chip' = r.chip /\ caller' = IF r.ok THEN "mode" ELSE "up"

\* The frame of an active peer, to whom the chip turns its own field on; NFC-DEP sets
\* the mode after it.
ActiveFrame ==
  /\ rf.lm = "IDLE" /\ ~rf.data /\ "LISTEN_ACTIVE_P2P" \in chip.auto
  /\ chip.mode = Register(TRUE, rf.mask)
  /\ rf' = [rf EXCEPT !.data = TRUE]
  /\ chip' = [chip EXCEPT !.mode = Register(TRUE, {"nfcip"}), !.tx = TRUE]
  /\ caller' = "up"

Awakened ==
  /\ rf.lm = "SLEEP_A" /\ ext
  /\ LET r == ToReady(rf, chip, "LISTEN_NFCA", "READY_Ax")
     IN rf' = r.rf /\ chip' = r.chip /\ caller' = IF r.ok THEN "mode" ELSE "up"

Activated ==
  /\ rf.lm \in {"READY", "READY_Ax"} /\ rf.mode = "LISTEN_NFCA" /\ ext
  /\ rf' = [rf EXCEPT !.lm = IF @ = "READY" THEN "ACTIVE" ELSE "ACTIVE_Ax"]
  /\ chip' = [chip EXCEPT !.auto = @ \ {"LISTEN_NFCA"}]
  /\ UNCHANGED caller

Frame ==
  /\ ext /\ ~rf.data
  /\ rf.lm \in {"ACTIVE", "ACTIVE_Ax"} \/ (rf.lm = "READY" /\ rf.mode = "LISTEN_NFCF")
  /\ rf' = [rf EXCEPT !.data = TRUE]
  /\ UNCHANGED <<chip, caller>>

\* The card falls back to where it was before it was activated.
DamagedFrame ==
  /\ rf.lm \in {"ACTIVE", "ACTIVE_Ax"} /\ ext /\ ~rf.data
  /\ LET r == IF rf.lm = "ACTIVE_Ax" THEN ToSleep(rf, chip)
              ELSE [rf |-> [rf EXCEPT !.lm = "IDLE"],
                    chip |-> [chip EXCEPT !.auto = @ \cup {"LISTEN_NFCA"}]]
     IN rf' = r.rf /\ chip' = r.chip
  /\ caller' = "up"

rfalRunListenModeWorker ==
  /\ rf.state = "LM" /\ caller # "down"
  /\ \/ FieldThere \/ FieldGone \/ Answered \/ ActiveFrame
     \/ Awakened \/ Activated \/ Frame \/ DamagedFrame
  /\ UNCHANGED <<variant, ext, level, asked, changed>>

ListenActiveP2P ==
  /\ rf.lm = "IDLE" /\ rf.data /\ caller = "up"
  /\ LET r == rfalSetMode(rf, chip, "LISTEN_ACTIVE_P2P", "106", "106")
     IN rf' = r.rf /\ chip' = r.chip /\ caller' = IF r.ok THEN "mode" ELSE "up"
  /\ UNCHANGED <<variant, ext, level, asked, changed>>

\* The reader has put the card to sleep, or its exchange with it has failed.
rfalListenSleepStart ==
  /\ caller # "down" /\ rf.lm \in {"ACTIVE", "ACTIVE_Ax"} /\ rf.data /\ ~rf.busy
  /\ LET r == ToSleep(rf, chip) IN rf' = r.rf /\ chip' = r.chip
  /\ caller' = "up"
  /\ UNCHANGED <<variant, ext, level, asked, changed>>

rfalListenStop ==
  /\ caller # "down" /\ rf.lm # "NOT_INIT"
  /\ LET r == ListenStop(rf, chip) IN rf' = r.rf /\ chip' = r.chip
  /\ caller' = "up"
  /\ UNCHANGED <<variant, ext, level, asked, changed>>

-----------------------------------------------------------------------------
(* Wake-up mode.  A measurement that has moved from its reference by delta  *)
(* wakes the reader: the chip measures by itself, or, with software tag     *)
(* detection, only counts the time and the worker measures.                 *)

ConfigFor(c) ==
  IF c # DefaultConfig THEN c
  ELSE [NoConfig EXCEPT !.sw = TRUE,
          !.amp = IF ~variant.b /\ variant.aat
                  THEN [on |-> TRUE, delta |-> 1, frac |-> 2, ref |-> ReferenceAuto, avg |-> TRUE]
                  ELSE [on |-> TRUE, delta |-> 2, frac |-> 0, ref |-> ReferenceAuto, avg |-> FALSE]]

Valid(c) ==
  /\ ~(variant.b /\ c.cap.on)
  /\ \E k \in Kinds : c[k].on
  /\ ~(c.cap.on /\ (c.amp.on \/ c.pha.on \/ c.sw))

On(c) == {k \in Kinds : c[k].on}

\* Mutant: of a measurement that is not alone, only the first is asked.
DecidesFirst(k) == IF k = "cap" THEN "pha" ELSE "amp"

\* Whose setting decides whether the reference of a measurement is measured now.
Decides(k) == IF k = "cap" THEN "pha" ELSE k

\* The configuration with the references that are measured put in.
Measured(c, l) ==
  [k \in Kinds \cup {"sw", "tout"} |->
     IF k \in On(c) /\ (~c[k].avg \/ c.sw) /\ c[Decides(k)].ref = ReferenceAuto
     THEN [c[k] EXCEPT !.ref = l[k]] ELSE c[k]]

Moved(k, ref, delta) == level[k] >= ref + delta \/ level[k] <= ref - delta

\* What the configuration says: which references are measured, and how far from them a
\* level is a change, in quarters.
Asked(c, l) ==
  [k \in Kinds |-> IF k \notin On(c) THEN 0
                   ELSE IF c[k].ref = ReferenceAuto THEN l[k] ELSE c[k].ref]
Differs(c, ref, l) ==
  \E k \in On(c) : LET d == IF l[k] > ref[k] THEN l[k] - ref[k] ELSE ref[k] - l[k]
                   IN 4 * d >= 4 * c[k].delta + c[k].frac

rfalWakeUpModeStart ==
  /\ Idle /\ ~rf.busy
  /\ \E given \in WakeUpConfigs :
       LET c == ConfigFor(given) IN
       IF ~Valid(c) THEN UNCHANGED <<rf, chip, level, asked, changed, caller>>
       ELSE \E l \in [On(c) -> Levels] :
            LET now == [k \in Kinds |-> IF k \in On(c) THEN l[k] ELSE AnyLevel[k]]
                cfg == Measured(c, now) IN
            /\ rf' = [rf EXCEPT !.cfg = cfg, !.wum = "ENABLED", !.state = "WUM"]
            /\ chip' = [chip EXCEPT
                 !.tx = FALSE, !.efd = FALSE, !.en = FALSE, !.wu = TRUE,
                 !.mode = Register(FALSE, {"iso14443a"}),
                 !.irq = On(c) \cup (IF c.tout \/ c.sw THEN {"WT"} ELSE {}), !.raised = {},
                 !.wuMeas = IF c.sw THEN {} ELSE On(c), !.wuTout = c.tout \/ c.sw,
                 !.ref = [k \in Kinds |-> IF k \in On(c) /\ (~c[k].avg \/ c.sw)
                                         THEN cfg[k].ref ELSE @[k]]]
            /\ level' = now /\ asked' = Asked(c, now) /\ changed' = Differs(c, asked', now)
            /\ caller' = "up"
  /\ UNCHANGED <<variant, ext>>

\* The chip's wake-up timer runs out.
WakeUpTimer ==
  /\ chip.wu
  /\ chip' = [chip EXCEPT !.raised = @ \cup (chip.irq \cap
                ((IF chip.wuTout THEN {"WT"} ELSE {})
                 \cup {k \in chip.wuMeas : Moved(k, chip.ref[k], rf.cfg[k].delta)}))]
  /\ UNCHANGED <<variant, rf, ext, level, asked, changed, caller>>

\* The measurements that the worker makes itself, in ready mode: it stays there when one
\* has moved, and goes back to sleep when none has.
ReadyToMeasure(c) == [c EXCEPT !.en = TRUE, !.wu = FALSE]

\* Mutant: the wake-up bit is not set again after a measurement.
SleepsForGood(c) == [c EXCEPT !.en = FALSE]

SleepAgain(c) == [c EXCEPT !.en = FALSE, !.wu = TRUE]

rfalRunWakeUpModeWorker ==
  /\ caller # "down" /\ rf.state = "WUM" /\ rf.wum # "NOT_INIT" /\ chip.raised # {}
  /\ LET c == [chip EXCEPT !.raised = {}]
         tag == \E k \in On(rf.cfg) : Moved(k, rf.cfg[k].ref, rf.cfg[k].delta)
         byTime == "WT" \in chip.raised /\ rf.cfg.sw
     IN /\ rf' = [rf EXCEPT !.wum = IF chip.raised \cap Kinds # {} \/ (byTime /\ tag)
                                    THEN "WOKE" ELSE @]
        /\ chip' = IF ~byTime THEN c
                   ELSE IF tag THEN ReadyToMeasure(c) ELSE SleepAgain(ReadyToMeasure(c))
  /\ UNCHANGED <<variant, ext, level, asked, changed, caller>>

\* The configuration, the references and the levels are read in wake-up mode only; that
\* they stay behind is left out.
rfalWakeUpModeStop ==
  /\ caller # "down" /\ rf.wum # "NOT_INIT"
  /\ rf' = [rf EXCEPT !.wum = "NOT_INIT", !.cfg = NoConfig]
  /\ chip' = st25r3916OscOn([chip EXCEPT !.wu = FALSE, !.irq = @ \ (Kinds \cup {"WT"}),
                !.efd = TRUE, !.raised = {}, !.wuMeas = {}, !.wuTout = FALSE, !.ref = Reset.ref])
  /\ level' = AnyLevel /\ asked' = Reset.ref /\ changed' = FALSE
  /\ UNCHANGED <<variant, ext, caller>>

-----------------------------------------------------------------------------
(* The world around the reader.                                             *)

LevelChanges ==
  /\ rf.wum = "ENABLED"
  /\ \E k \in On(rf.cfg), v \in Levels :
       /\ level' = [level EXCEPT ![k] = v]
       /\ changed' = (changed \/ Differs(rf.cfg, asked, level'))
  /\ UNCHANGED <<variant, rf, chip, ext, asked, caller>>

ExternalField ==
  /\ ext' = ~ext
  /\ UNCHANGED <<variant, rf, chip, level, asked, changed, caller>>

Next ==
  \/ rfalInitialize \/ rfalDeinitialize
  \/ SetMode \/ SetBitRate
  \/ rfalFieldOnAndStartGT \/ rfalFieldOff \/ rfalStartTransceive \/ ExchangeEnds
  \/ rfalListenStart \/ rfalRunListenModeWorker \/ ListenActiveP2P
  \/ rfalListenSleepStart \/ rfalListenStop
  \/ rfalWakeUpModeStart \/ WakeUpTimer \/ rfalRunWakeUpModeWorker \/ rfalWakeUpModeStop
  \/ LevelChanges \/ ExternalField

\* The chip's timer runs, and the application calls the worker again and again.
Spec == Init /\ [][Next]_vars /\ WF_vars(WakeUpTimer) /\ WF_vars(rfalRunWakeUpModeWorker)

-----------------------------------------------------------------------------
TypeOK ==
  /\ variant \in Variants
  /\ rf.state \in {"IDLE", "INIT", "MODE_SET", "TXRX", "LM", "WUM"}
  /\ rf.mode = "NONE" \/ Implemented(rf.mode)
  /\ rf.wum \in {"NOT_INIT", "ENABLED", "WOKE"}
  /\ rf.lm \in {"NOT_INIT", "POWER_OFF", "IDLE", "READY", "ACTIVE",
                "SLEEP_A", "READY_Ax", "ACTIVE_Ax"}
  /\ {rf.field, rf.busy, rf.data, chip.en, chip.tx, chip.wu, chip.efd, ext, changed} \subseteq BOOLEAN
  /\ chip.auto \subseteq rf.mask
  /\ chip.irq \subseteq Kinds \cup {"WT"} \cup Listening /\ chip.raised \subseteq Kinds \cup {"WT"}
  /\ caller \in {"down", "up", "mode"}

\* An exchange runs with the direction, the modulation, the bit rates and the analog
\* settings of the mode and the rates that gRFAL remembers, whatever calls came before:
\* failed ones, another mode, listening, wake-up mode.
ExchangeInMode ==
  rf.busy /\ caller # "down" =>
    /\ chip.en
    /\ chip.mode = IF rf.mode \in NFCV THEN Register(FALSE, {"stream"})
                   ELSE Modulation(rf.mode, chip.mode)
    /\ IF rf.mode \in NFCV THEN chip.stream = <<rf.tx, rf.rx>> ELSE chip.br = <<rf.tx, rf.rx>>
    /\ chip.analog = <<Tech(rf.mode), rf.tx, rf.rx>>

\* Each way of using the chip leaves it as the others expect it: out of wake-up mode and
\* listening the oscillator runs, other fields are seen, the chip does nothing by itself
\* and of the interrupts only those of a reception can still be enabled; in wake-up mode
\* it is silent, with no interrupt but those of wake-up mode.
LeftAsFound ==
  caller # "down" =>
    /\ rf.wum = "NOT_INIT" => /\ chip.efd /\ ~chip.wu
                              /\ chip.irq \subseteq Listening
    /\ rf.wum = "NOT_INIT" /\ rf.lm = "NOT_INIT" =>
         chip.en /\ chip.auto = {} /\ chip.irq \subseteq Receiving /\ (chip.tx => rf.field)
    /\ rf.wum # "NOT_INIT" => ~chip.tx /\ ~chip.efd /\ chip.auto = {}
                              /\ chip.irq \subseteq Kinds \cup {"WT"}
    /\ rf.wum = "ENABLED" => chip.wu /\ ~chip.en

\* The reader wakes only when a measurement that the configuration enables has been away
\* from its reference, given or measured at the start, by what the configuration says.
WakesOnChange == caller # "down" /\ rf.wum = "WOKE" => changed

\* A card that stays wakes the reader.
Here == caller # "down" /\ rf.wum = "ENABLED" /\ Differs(rf.cfg, asked, level)
CardWakes == []<>(~Here)
=============================================================================
