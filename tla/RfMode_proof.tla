---------------------------- MODULE RfMode_proof ----------------------------
(***************************************************************************)
(* Proofs about RfMode: whatever calls came before, an exchange runs with  *)
(* the registers of the mode and the rates remembered, and every way of    *)
(* using the chip (polling, listening, wake-up mode) leaves it as the      *)
(* others expect it; for any modes, rates, masks and wake-up               *)
(* configurations.                                                         *)
(***************************************************************************)
EXTENDS RfMode, TLAPS

-----------------------------------------------------------------------------
(* The types of gRFAL and of the chip's registers.                         *)

RateNames == Rates \cup {"106"}
AnyMode == PollModes \cup ListenModes \cup {"NONE"}
Modulations == SUBSET ({"nfc", "nfcip", "nfca", "nfcf", "iso14443a", "topaz", "iso14443b", "felica",
                        "stream"} \cup ListenModes)
ModeRegister == [targ : BOOLEAN, om : Modulations]
TechNames == {"none", "poll A", "poll B", "poll F", "poll V", "poll AP2P",
              "listen AP2P", "listen A", "listen F"}
LmNames == {"NOT_INIT", "POWER_OFF", "IDLE", "READY", "ACTIVE",
            "SLEEP_A", "READY_Ax", "ACTIVE_Ax"}

Rf == [state : {"IDLE", "INIT", "MODE_SET", "TXRX", "LM", "WUM"},
       mode : AnyMode \ {"LISTEN_NFCB"}, tx : RateNames, rx : RateNames,
       field : BOOLEAN, busy : BOOLEAN, wum : {"NOT_INIT", "ENABLED", "WOKE"},
       cfg : WakeUpConfig, lm : LmNames, mask : SUBSET ListenModes, data : BOOLEAN]

Chip == [en : BOOLEAN, tx : BOOLEAN, wu : BOOLEAN, efd : BOOLEAN,
         mode : ModeRegister,
         br : (RateNames \cup {"none"}) \X (RateNames \cup {"none"}),
         stream : (RateNames \cup {"none"}) \X (RateNames \cup {"none"}),
         analog : TechNames \X (RateNames \cup {"none", "common"})
                            \X (RateNames \cup {"none", "common"}),
         auto : SUBSET ListenModes, irq : SUBSET (Kinds \cup {"WT", "LM", "RX"}),
         raised : SUBSET (Kinds \cup {"WT"}), wuMeas : SUBSET Kinds, wuTout : BOOLEAN,
         ref : [Kinds -> 0..ReferenceAuto]]

Typed ==
  /\ variant \in Variants /\ rf \in Rf /\ chip \in Chip
  /\ ext \in BOOLEAN /\ level \in [Kinds -> Levels] /\ asked \in [Kinds -> 0..ReferenceAuto]
  /\ changed \in BOOLEAN /\ caller \in {"down", "up", "mode"}
  /\ chip.auto \subseteq rf.mask /\ "LISTEN_NFCB" \notin rf.mask

\* The registers an exchange in the mode and at the rates remembered needs.
SetUp(g, c) ==
  /\ c.en
  /\ c.mode = IF g.mode \in NFCV THEN Register(FALSE, {"stream"}) ELSE Modulation(g.mode, c.mode)
  /\ IF g.mode \in NFCV THEN c.stream = <<g.tx, g.rx>> ELSE c.br = <<g.tx, g.rx>>
  /\ c.analog = <<Tech(g.mode), g.tx, g.rx>>

\* What the caller relies on, in the three uses of the chip; an exchange is started
\* only by who has set a mode, and nothing that ends the set-up runs during it.
UseInv ==
  /\ LeftAsFound
  /\ caller # "down" =>
       /\ rf.lm = "NOT_INIT" => ~chip.mode.targ
       /\ rf.wum # "NOT_INIT" => rf.lm = "NOT_INIT"
       /\ rf.lm \notin {"NOT_INIT", "POWER_OFF"} => chip.en
       /\ caller = "mode" => rf.wum = "NOT_INIT" /\ SetUp(rf, chip)
       /\ rf.busy => caller = "mode" /\ rf.state = "TXRX"

\* What listen mode has answered as is in the mask it was started with.
ListenInv ==
  /\ rf.lm = "READY" => rf.mode \in rf.mask
  /\ rf.lm \in {"ACTIVE", "ACTIVE_Ax", "SLEEP_A", "READY_Ax"} => "LISTEN_NFCA" \in rf.mask

IInv == Typed /\ UseInv /\ ListenInv

-----------------------------------------------------------------------------
(* Setting the mode and the bit rate.                                      *)

\* What changing the rates leaves alone, in gRFAL and in the chip.
SameUse(g, g2) ==
  /\ g2.field = g.field /\ g2.busy = g.busy /\ g2.wum = g.wum /\ g2.cfg = g.cfg
  /\ g2.lm = g.lm /\ g2.mask = g.mask /\ g2.data = g.data
SameChip(c, c2) ==
  /\ c2.en = c.en /\ c2.tx = c.tx /\ c2.efd = c.efd /\ c2.auto = c.auto /\ c2.irq = c.irq
  /\ c2.raised = c.raised /\ c2.wuMeas = c.wuMeas /\ c2.wuTout = c.wuTout /\ c2.ref = c.ref

\* The table of analog settings and the modulation of a mode are registers' values.
LEMMA ModeNames ==
  ASSUME NEW m \in AnyMode \ {"NONE", "LISTEN_NFCB"}, NEW old \in ModeRegister
  PROVE  /\ Tech(m) \in TechNames
         /\ Modulation(m, old) \in ModeRegister
         /\ m \in PollModes \ NFCV => ~Modulation(m, old).targ
<1> USE DEF AnyMode, PollModes, ListenModes, PassiveListen, NFCV
<1>1. Tech(m) \in TechNames
  BY DEF Tech, TechNames
<1>2. \A om \in Modulations :
        Register(TRUE, om) \in ModeRegister
        /\ Register(FALSE, om) \in ModeRegister
  BY DEF Register, ModeRegister
<1>5. /\ {"nfc"} \in Modulations /\ {"nfcip"} \in Modulations /\ {"nfca"} \in Modulations
      /\ {"nfcf"} \in Modulations /\ {"iso14443a"} \in Modulations
      /\ {"topaz"} \in Modulations /\ {"iso14443b"} \in Modulations
      /\ {"felica"} \in Modulations
  BY DEF Modulations
<1>3. Modulation(m, old) \in ModeRegister
  BY <1>2, <1>5 DEF Modulation, ListenModulation
<1>4. m \in PollModes \ NFCV => ~Modulation(m, old).targ
  BY DEF Modulation, Register
<1> QED BY <1>1, <1>3, <1>4

\* Only for NFC-V does the modulation stay what it was.
LEMMA ModulationOf ==
  ASSUME NEW m, NEW old, NEW other
  PROVE  IF m \in NFCV THEN Modulation(m, old) = old
         ELSE Modulation(m, old) = Modulation(m, other)
  BY DEF Modulation, NFCV

\* rfalSetBitRate changes the rates, and the registers of the rates, only; when it
\* succeeds with the registers of the mode in place, an exchange can run.
LEMMA SetBitRateResult ==
  ASSUME NEW g \in Rf, NEW c \in Chip, NEW tx \in RateNames \cup {Keep},
         NEW rx \in RateNames \cup {Keep}, NEW r, r = rfalSetBitRate(g, c, tx, rx)
  PROVE  /\ r.rf \in Rf /\ r.chip \in Chip /\ r.ok \in BOOLEAN
         /\ SameUse(g, r.rf) /\ SameChip(c, r.chip)
         /\ r.rf.mode = g.mode /\ r.rf.state = g.state /\ r.chip.wu = c.wu
         /\ r.chip.mode.targ = c.mode.targ
         /\ r.ok /\ c.en
              /\ (IF g.mode \in NFCV THEN ~c.mode.targ ELSE c.mode = Modulation(g.mode, c.mode))
              => SetUp(r.rf, r.chip)
<1> DEFINE g2 == [g EXCEPT !.tx = IF tx = Keep THEN @ ELSE tx, !.rx = IF rx = Keep THEN @ ELSE rx]
<1> DEFINE Analog(c2) == [c2 EXCEPT !.analog = <<Tech(g.mode), g2.tx, g2.rx>>]
<1>1. /\ g2 \in Rf /\ SameUse(g, g2) /\ g2.mode = g.mode /\ g2.state = g.state
      /\ g2.tx \in RateNames /\ g2.rx \in RateNames
  BY DEF Rf, SameUse
<1> HIDE DEF g2
<1>2. g.mode # "NONE" => Tech(g.mode) \in TechNames
  BY ModeNames DEF Rf, Chip
<1>3. CASE r = [rf |-> g2, chip |-> c, ok |-> FALSE]
  BY <1>1, <1>3 DEF SameChip
<1>4. CASE g.mode \notin NFCV /\ g2.tx \in TxRates /\ g2.rx \in ChipRates
  <2> DEFINE b == st25r3916SetBitrate(c, g2.tx, g2.rx)
  <2>1. /\ b \in Chip /\ SameChip(c, b) /\ b.wu = c.wu /\ b.mode = c.mode
        /\ b.br = <<g2.tx, g2.rx>>
    BY <1>1 DEF st25r3916SetBitrate, Chip, SameChip
  <2> HIDE DEF b
  <2>2. CASE g.mode = "NONE"
    <3>1. r = [rf |-> g2, chip |-> b, ok |-> FALSE]
      BY <1>4, <2>2 DEF rfalSetBitRate, b, g2
    <3> QED BY <1>1, <2>1, <3>1
  <2>3. CASE g.mode # "NONE"
    <3>1. r = [rf |-> g2, chip |-> Analog(b), ok |-> TRUE]
      BY <1>4, <2>3 DEF rfalSetBitRate, b, g2
    <3>2. /\ Analog(b) \in Chip /\ SameChip(b, Analog(b)) /\ Analog(b).wu = b.wu
          /\ Analog(b).mode = b.mode /\ Analog(b).br = b.br
          /\ Analog(b).analog = <<Tech(g.mode), g2.tx, g2.rx>>
      BY <1>1, <1>2, <2>1, <2>3 DEF Chip, SameChip
    <3>3. SameChip(c, Analog(b))
      BY <2>1, <3>2 DEF SameChip
    <3> HIDE DEF Analog
    <3>4. r.rf = g2 /\ r.chip = Analog(b) /\ r.ok = TRUE
      BY <3>1
    <3>5. Analog(b).mode = c.mode /\ Analog(b).en = c.en
          /\ Analog(b).br = <<g2.tx, g2.rx>>
      BY <2>1, <3>2 DEF SameChip
    <3>6. c.en /\ c.mode = Modulation(g.mode, c.mode) => SetUp(g2, Analog(b))
      BY <1>1, <1>4, <3>2, <3>5 DEF SetUp
    <3> QED BY <1>1, <1>4, <2>1, <3>2, <3>3, <3>4, <3>5, <3>6
  <2> QED BY <2>2, <2>3
<1>5. CASE g.mode \in NFCV /\ g2.tx \in NFCVTx /\ g2.rx \in NFCVRx
  <2> DEFINE b == st25r3916StreamConfigure(c, g2.tx, g2.rx)
  <2>1. /\ b \in Chip /\ SameChip(c, b) /\ b.wu = c.wu
        /\ b.mode = Register(c.mode.targ, {"stream"}) /\ b.mode.targ = c.mode.targ
        /\ b.stream = <<g2.tx, g2.rx>>
    <3>1. {"stream"} \in Modulations
      BY DEF Modulations
    <3> QED BY <1>1, <3>1 DEF st25r3916StreamConfigure, Chip, SameChip, Register, ModeRegister
  <2> HIDE DEF b
  <2>2. r = [rf |-> g2, chip |-> Analog(b), ok |-> TRUE]
    BY <1>5 DEF rfalSetBitRate, b, g2
  <2>3. /\ Analog(b) \in Chip /\ SameChip(b, Analog(b)) /\ Analog(b).wu = b.wu
        /\ Analog(b).mode = b.mode /\ Analog(b).stream = b.stream
        /\ Analog(b).analog = <<Tech(g.mode), g2.tx, g2.rx>>
    BY <1>1, <1>2, <1>5, <2>1 DEF Chip, SameChip, NFCV
  <2>4. SameChip(c, Analog(b))
    BY <2>1, <2>3 DEF SameChip
  <2>5. ~c.mode.targ => Register(c.mode.targ, {"stream"}) = Register(FALSE, {"stream"})
    BY DEF Chip, ModeRegister
  <2> HIDE DEF Analog
  <2>6. r.rf = g2 /\ r.chip = Analog(b) /\ r.ok = TRUE
    BY <2>2
  <2>7. Analog(b).mode = Register(c.mode.targ, {"stream"}) /\ Analog(b).en = c.en
        /\ Analog(b).stream = <<g2.tx, g2.rx>>
    BY <2>1, <2>3 DEF SameChip
  <2>8. c.en /\ ~c.mode.targ => SetUp(g2, Analog(b))
    BY <1>1, <1>5, <2>3, <2>5, <2>7 DEF SetUp
  <2> QED BY <1>1, <1>5, <2>1, <2>3, <2>4, <2>6, <2>7, <2>8
<1> QED BY ZenonT(60), <1>1, <1>3, <1>4, <1>5 DEF rfalSetBitRate, g2

\* rfalSetMode: an error changes nothing or only the mode and the rates; success
\* means that an exchange can run.
LEMMA SetModeResult ==
  ASSUME NEW g \in Rf, NEW c \in Chip, NEW m \in AnyMode, NEW tx \in RateNames,
         NEW rx \in RateNames, NEW r, r = rfalSetMode(g, c, m, tx, rx)
  PROVE  /\ r.rf \in Rf /\ r.chip \in Chip /\ r.ok \in BOOLEAN
         /\ SameUse(g, r.rf) /\ SameChip(c, r.chip)
         /\ r.rf.mode \in {g.mode, m} /\ (r.chip.wu => c.wu)
         /\ g.state # "IDLE" /\ Implemented(m) /\ Keep \notin {tx, rx} => r.rf.mode = m
         /\ m \notin ListenModes \ {"LISTEN_NFCB"} /\ ~c.mode.targ => ~r.chip.mode.targ
         /\ r.ok /\ c.en /\ (m \in NFCV => ~c.mode.targ) => SetUp(r.rf, r.chip)
<1>1. CASE g.state = "IDLE" \/ Keep \in {tx, rx} \/ ~Implemented(m)
  <2>1. r = [rf |-> g, chip |-> c, ok |-> FALSE]
    BY <1>1 DEF rfalSetMode
  <2> QED BY <1>1, <2>1 DEF SameUse, SameChip
<1>2. CASE ~(g.state = "IDLE" \/ Keep \in {tx, rx} \/ ~Implemented(m))
  <2> DEFINE h == [g EXCEPT !.state = IF @ = "INIT" THEN "MODE_SET" ELSE @, !.mode = m]
             d == [c EXCEPT !.wu = IF m \in {"POLL_ACTIVE_P2P", "LISTEN_ACTIVE_P2P"} THEN @ ELSE FALSE,
                            !.mode = Modulation(m, @), !.analog = <<Tech(m), "common", "common">>]
  <2>1. m \in AnyMode \ {"NONE", "LISTEN_NFCB"}
    BY <1>2 DEF Implemented
  <2>2. h \in Rf /\ SameUse(g, h) /\ h.mode = m
    BY <2>1 DEF Rf, SameUse
  <2>3. c.mode \in ModeRegister
    BY DEF Chip
  <2>4. Tech(m) \in TechNames /\ Modulation(m, c.mode) \in ModeRegister
    BY <2>1, <2>3, ModeNames
  <2>5. /\ d \in Chip /\ SameChip(c, d) /\ (d.wu => c.wu)
        /\ d.mode = Modulation(m, c.mode)
    <3> DEFINE e == [c EXCEPT !.mode = Modulation(m, c.mode),
                              !.analog = <<Tech(m), "common", "common">>]
    <3>1. /\ e \in Chip /\ SameChip(c, e) /\ e.wu = c.wu
          /\ e.mode = Modulation(m, c.mode)
      BY ZenonT(60), <2>4 DEF Chip, SameChip
    <3>2. CASE d = [e EXCEPT !.wu = FALSE]
      <4> HIDE DEF e, d, h
      <4>1. /\ d \in Chip /\ SameChip(e, d) /\ d.wu = FALSE /\ d.mode = e.mode
        BY ZenonT(60), <3>1, <3>2 DEF Chip, SameChip
      <4> QED BY <3>1, <4>1 DEF SameChip
    <3>3. CASE d = e
      <4> HIDE DEF e, d, h
      <4> QED BY <3>1, <3>3
    <3>4. d = e \/ d = [e EXCEPT !.wu = FALSE]
      BY ZenonT(60), <2>4 DEF Chip
    <3> QED BY <3>2, <3>3, <3>4
  <2>6. IF m \in NFCV THEN d.mode = c.mode ELSE d.mode = Modulation(m, d.mode)
    BY <2>5, ModulationOf
  <2>7. m \notin ListenModes /\ ~c.mode.targ => ~d.mode.targ
    BY <2>1, <2>3, <2>5, <2>6, ModeNames DEF AnyMode
  <2> HIDE DEF h, d
  <2>8. CASE r = rfalSetBitRate(h, d, tx, rx)
    <3> DEFINE ok == /\ r.rf \in Rf /\ r.chip \in Chip /\ r.ok \in BOOLEAN
                     /\ SameUse(h, r.rf) /\ SameChip(d, r.chip)
                     /\ r.rf.mode = h.mode /\ r.rf.state = h.state /\ r.chip.wu = d.wu
                     /\ r.chip.mode.targ = d.mode.targ
                     /\ r.ok /\ d.en
                          /\ (IF h.mode \in NFCV THEN ~d.mode.targ ELSE d.mode = Modulation(h.mode, d.mode))
                          => SetUp(r.rf, r.chip)
    <3>1. ok
      BY <2>2, <2>5, <2>8, SetBitRateResult
    <3>2. SameUse(g, r.rf) /\ SameChip(c, r.chip)
      BY <2>2, <2>5, <3>1 DEF SameUse, SameChip
    <3>3. d.en = c.en
      BY <2>5 DEF SameChip
    <3>4. r.ok /\ c.en /\ (m \in NFCV => ~c.mode.targ) => SetUp(r.rf, r.chip)
      BY <2>2, <2>6, <3>1, <3>3
    <3> QED BY <2>1, <2>2, <2>5, <2>7, <3>1, <3>2, <3>4
  <2>9. r = rfalSetBitRate(h, d, tx, rx)
    BY <1>2 DEF rfalSetMode, h, d
  <2> QED BY <2>8, <2>9
<1> QED BY <1>1, <1>2

-----------------------------------------------------------------------------
(* The invariant as the library starts, and what keeps a set-up.           *)

\* A set-up depends on the mode and the rates, and on five of the registers.
LEMMA SetUpKept ==
  ASSUME NEW g, NEW g2, NEW c, NEW c2, SetUp(g, c),
         g2.mode = g.mode, g2.tx = g.tx, g2.rx = g.rx,
         c2.en = c.en, c2.mode = c.mode, c2.br = c.br, c2.stream = c.stream,
         c2.analog = c.analog
  PROVE  SetUp(g2, c2)
  BY DEF SetUp

\* The fields of a typed record, for the steps that only need their types.
LEMMA RfFields ==
  ASSUME NEW g \in Rf
  PROVE  /\ g.state \in {"IDLE", "INIT", "MODE_SET", "TXRX", "LM", "WUM"}
         /\ g.mode \in AnyMode \ {"LISTEN_NFCB"}
         /\ g.tx \in RateNames /\ g.rx \in RateNames
         /\ g.field \in BOOLEAN /\ g.busy \in BOOLEAN
         /\ g.wum \in {"NOT_INIT", "ENABLED", "WOKE"} /\ g.cfg \in WakeUpConfig
         /\ g.lm \in LmNames /\ g.mask \subseteq ListenModes /\ g.data \in BOOLEAN
  BY DEF Rf

LEMMA ChipFields ==
  ASSUME NEW c \in Chip
  PROVE  /\ c.en \in BOOLEAN /\ c.tx \in BOOLEAN /\ c.wu \in BOOLEAN /\ c.efd \in BOOLEAN
         /\ c.mode \in ModeRegister /\ c.mode.targ \in BOOLEAN
         /\ c.auto \subseteq ListenModes /\ c.irq \subseteq Kinds \cup {"WT", "LM", "RX"}
         /\ c.raised \subseteq Kinds \cup {"WT"} /\ c.wuMeas \subseteq Kinds
         /\ c.wuTout \in BOOLEAN /\ c.ref \in [Kinds -> 0..ReferenceAuto]
  BY DEF Chip, ModeRegister

\* The registers after a reset, gRFAL after initialisation, and a level.
LEMMA Resets ==
  /\ Reset \in Chip /\ [Reset EXCEPT !.en = FALSE, !.efd = FALSE] \in Chip
  /\ NoConfig \in WakeUpConfig /\ RfInit \in Rf
  /\ AnyLevel \in [Kinds -> Levels] /\ Reset.ref \in [Kinds -> 0..ReferenceAuto]
<1>1. Register(FALSE, {"nfc"}) \in ModeRegister
  BY DEF Register, ModeRegister, Modulations
<1>2. Reset \in Chip
  <2>1. [k \in Kinds |-> 0] \in [Kinds -> 0..ReferenceAuto]
    BY DEF ReferenceAuto
  <2>2. "106" \in RateNames /\ "none" \in TechNames
    BY DEF RateNames, TechNames
  <2>3. /\ <<"106", "106">> \in (RateNames \cup {"none"}) \X (RateNames \cup {"none"})
        /\ <<"none", "none">> \in (RateNames \cup {"none"}) \X (RateNames \cup {"none"})
    BY <2>2
  <2>4. <<"none", "none", "none">> \in TechNames \X (RateNames \cup {"none", "common"})
                                               \X (RateNames \cup {"none", "common"})
    BY <2>2
  <2> QED BY <1>1, <2>1, <2>3, <2>4 DEF Reset, Chip
<1>3. [Reset EXCEPT !.en = FALSE, !.efd = FALSE] \in Chip
  BY <1>2 DEF Chip
<1>4. NoConfig \in WakeUpConfig
  BY DEF NoConfig, WakeUpConfig, Measurement, ReferenceAuto
<1>5. RfInit \in Rf
  BY <1>4 DEF RfInit, Rf, AnyMode, RateNames, LmNames
<1>6. AnyLevel \in [Kinds -> Levels]
  BY ModeAssumption DEF AnyLevel
<1>7. Reset.ref \in [Kinds -> 0..ReferenceAuto]
  BY <1>2 DEF Chip
<1> QED BY <1>2, <1>3, <1>4, <1>5, <1>6, <1>7

LEMMA IInvInit == Init => IInv
<1> SUFFICES ASSUME Init PROVE IInv
  OBVIOUS
<1>1. rf \in Rf /\ rf.lm = "NOT_INIT" /\ rf.mask = {}
  BY Resets DEF Init, Rf, RfInit
<1>2. chip \in Chip /\ chip.auto = {}
  BY Resets DEF Init, Chip, Reset
<1>3. Typed
  BY <1>1, <1>2, Resets DEF Init, Typed
<1>4. UseInv /\ ListenInv
  BY <1>1 DEF Init, UseInv, LeftAsFound, ListenInv
<1> QED BY <1>3, <1>4 DEF IInv

\* rfalInitialize: everything starts over, or only the registers do.
LEMMA InitializeStep == IInv /\ rfalInitialize => IInv'
<1> SUFFICES ASSUME IInv, rfalInitialize PROVE IInv'
  OBVIOUS
<1>0. /\ level' = AnyLevel /\ asked' = Reset.ref /\ changed' = FALSE
      /\ UNCHANGED <<variant, ext>>
      /\ Typed /\ ListenInv
  BY DEF rfalInitialize, IInv
<1>1. CASE rf' = [RfInit EXCEPT !.tx = rf.tx, !.rx = rf.rx] /\ chip' = Reset /\ caller' = "up"
  <2>1. /\ rf' \in Rf /\ rf'.lm = "NOT_INIT" /\ rf'.wum = "NOT_INIT" /\ rf'.mask = {}
        /\ rf'.busy = FALSE
    BY <1>0, <1>1, Resets, RfFields DEF Typed, Rf, RfInit
  <2>2. /\ chip' \in Chip /\ chip'.auto = {} /\ chip'.en = TRUE /\ chip'.tx = FALSE
        /\ chip'.wu = FALSE /\ chip'.efd = TRUE /\ chip'.irq = {} /\ chip'.mode.targ = FALSE
    BY <1>1, Resets DEF Reset, Register
  <2>3. Typed'
    BY <1>0, <1>1, <2>1, <2>2, Resets DEF Typed
  <2>4. UseInv' /\ ListenInv'
    BY <1>1, <2>1, <2>2 DEF UseInv, LeftAsFound, ListenInv
  <2> QED BY <2>3, <2>4 DEF IInv
<1>2. CASE chip' = [Reset EXCEPT !.en = FALSE, !.efd = FALSE] /\ rf' = rf /\ caller' = "down"
  <2>1. chip' \in Chip /\ chip'.auto = {}
    BY <1>2, Resets DEF Chip, Reset
  <2>2. Typed'
    BY <1>0, <1>2, <2>1, Resets DEF Typed
  <2>3. UseInv' /\ ListenInv'
    BY <1>0, <1>2 DEF UseInv, LeftAsFound, ListenInv
  <2> QED BY <2>2, <2>3 DEF IInv
<1> QED BY <1>1, <1>2 DEF rfalInitialize

LEMMA DeinitializeStep == IInv /\ rfalDeinitialize => IInv'
<1> SUFFICES ASSUME IInv, rfalDeinitialize PROVE IInv'
  OBVIOUS
<1>0. /\ rf' = [rf EXCEPT !.state = "IDLE"]
      /\ chip' = [chip EXCEPT !.irq = {}, !.raised = {}, !.tx = FALSE]
      /\ caller' = "down" /\ UNCHANGED <<variant, ext, level, asked, changed>>
      /\ Typed /\ ListenInv
  BY DEF rfalDeinitialize, IInv
<1>1. rf' \in Rf /\ rf'.lm = rf.lm /\ rf'.mode = rf.mode /\ rf'.mask = rf.mask
  BY <1>0 DEF Typed, Rf
<1>2. chip' \in Chip /\ chip'.auto = chip.auto
  BY ZenonT(60), <1>0 DEF Typed, Chip
<1>3. Typed'
  BY <1>0, <1>1, <1>2 DEF Typed
<1>4. UseInv' /\ ListenInv'
  BY <1>0, <1>1 DEF UseInv, LeftAsFound, ListenInv, Listening
<1> QED BY <1>3, <1>4 DEF IInv

-----------------------------------------------------------------------------
(* Polling.                                                                *)

\* Between uses the chip is ready, and nothing but the field is its own.
LEMMA IdleUse ==
  ASSUME IInv, Idle
  PROVE  /\ Typed /\ caller # "down" /\ rf.wum = "NOT_INIT" /\ rf.lm = "NOT_INIT"
         /\ chip.en /\ chip.efd /\ ~chip.wu /\ chip.auto = {} /\ chip.irq \subseteq Receiving
         /\ (chip.tx => rf.field) /\ ~chip.mode.targ
         /\ caller = "mode" => SetUp(rf, chip)
         /\ rf.busy => caller = "mode" /\ rf.state = "TXRX"
  BY DEF IInv, Idle, UseInv, LeftAsFound

\* The result of setting the mode or the rates, between uses.
LEMMA ToSetUp ==
  ASSUME IInv, Idle, ~rf.busy,
         rf' \in Rf, chip' \in Chip, SameUse(rf, rf'), SameChip(chip, chip'),
         chip'.wu => chip.wu, ~chip'.mode.targ,
         caller' \in {"up", "mode"}, caller' = "mode" => SetUp(rf', chip'),
         UNCHANGED <<variant, ext, level, asked, changed>>
  PROVE  IInv'
<1>0. /\ Typed /\ rf.wum = "NOT_INIT" /\ rf.lm = "NOT_INIT"
      /\ chip.en /\ chip.efd /\ ~chip.wu /\ chip.auto = {} /\ chip.irq \subseteq Receiving
      /\ (chip.tx => rf.field)
  BY IdleUse
<1>1. /\ rf'.wum = "NOT_INIT" /\ rf'.lm = "NOT_INIT" /\ rf'.busy = rf.busy
      /\ rf'.field = rf.field /\ rf'.mask = rf.mask
      /\ chip'.en /\ chip'.efd /\ ~chip'.wu /\ chip'.auto = {} /\ chip'.irq \subseteq Receiving
      /\ chip'.tx = chip.tx
  BY <1>0 DEF SameUse, SameChip
<1>2. Typed'
  BY <1>0, <1>1 DEF Typed
<1>3. UseInv' /\ ListenInv'
  BY <1>0, <1>1 DEF UseInv, LeftAsFound, ListenInv, Listening
<1> QED BY <1>2, <1>3 DEF IInv

LEMMA SetModeStep == IInv /\ SetMode => IInv'
<1> SUFFICES ASSUME IInv, SetMode PROVE IInv'
  OBVIOUS
<1>0. /\ Idle /\ ~rf.busy /\ UNCHANGED <<variant, ext, level, asked, changed>>
      /\ rf \in Rf /\ chip \in Chip /\ ~chip.mode.targ /\ chip.en
  BY IdleUse DEF SetMode, Typed
<1>1. PICK m \in Modes, tx \in Rates, rx \in Rates :
        /\ rf' = rfalSetMode(rf, chip, m, tx, rx).rf
        /\ chip' = rfalSetMode(rf, chip, m, tx, rx).chip
        /\ caller' = IF rfalSetMode(rf, chip, m, tx, rx).ok THEN "mode" ELSE "up"
  BY DEF SetMode
<1>2. m \in AnyMode /\ m \notin ListenModes \ {"LISTEN_NFCB"}
  BY ModeAssumption DEF AnyMode, PollModes, ListenModes, PassiveListen, NFCV
<1>3. tx \in RateNames /\ rx \in RateNames
  BY DEF RateNames
<1> DEFINE r == rfalSetMode(rf, chip, m, tx, rx)
<1>4. /\ r.rf \in Rf /\ r.chip \in Chip /\ SameUse(rf, r.rf) /\ SameChip(chip, r.chip)
      /\ (r.chip.wu => chip.wu) /\ ~r.chip.mode.targ /\ (r.ok => SetUp(r.rf, r.chip))
  BY <1>0, <1>2, <1>3, SetModeResult
<1>5. rf' = r.rf /\ chip' = r.chip /\ caller' = IF r.ok THEN "mode" ELSE "up"
  BY <1>1
<1> HIDE DEF r
<1>6. /\ rf' \in Rf /\ chip' \in Chip /\ SameUse(rf, rf') /\ SameChip(chip, chip')
      /\ (chip'.wu => chip.wu) /\ ~chip'.mode.targ
      /\ caller' \in {"up", "mode"} /\ (caller' = "mode" => SetUp(rf', chip'))
  BY <1>4, <1>5
<1> QED BY <1>0, <1>6, ToSetUp

LEMMA SetBitRateStep == IInv /\ SetBitRate => IInv'
<1> SUFFICES ASSUME IInv, SetBitRate PROVE IInv'
  OBVIOUS
<1>0. /\ Idle /\ ~rf.busy /\ UNCHANGED <<variant, ext, level, asked, changed>>
      /\ rf \in Rf /\ chip \in Chip /\ ~chip.mode.targ /\ chip.en
      /\ caller \in {"up", "mode"} /\ (caller = "mode" => SetUp(rf, chip))
  BY IdleUse DEF SetBitRate, Typed
<1>1. PICK tx \in Rates \cup {Keep}, rx \in Rates \cup {Keep} :
        /\ rf' = rfalSetBitRate(rf, chip, tx, rx).rf
        /\ chip' = rfalSetBitRate(rf, chip, tx, rx).chip
        /\ caller' = IF rfalSetBitRate(rf, chip, tx, rx).ok THEN caller ELSE "up"
  BY DEF SetBitRate
<1>2. tx \in RateNames \cup {Keep} /\ rx \in RateNames \cup {Keep}
  BY DEF RateNames
<1> DEFINE r == rfalSetBitRate(rf, chip, tx, rx)
<1>3. SetUp(rf, chip) => IF rf.mode \in NFCV THEN ~chip.mode.targ
                         ELSE chip.mode = Modulation(rf.mode, chip.mode)
  BY <1>0 DEF SetUp
<1>4. /\ r.rf \in Rf /\ r.chip \in Chip /\ SameUse(rf, r.rf) /\ SameChip(chip, r.chip)
      /\ (r.chip.wu => chip.wu) /\ ~r.chip.mode.targ
      /\ r.ok /\ SetUp(rf, chip) => SetUp(r.rf, r.chip)
  BY <1>0, <1>2, <1>3, SetBitRateResult
<1>5. rf' = r.rf /\ chip' = r.chip /\ caller' = IF r.ok THEN caller ELSE "up"
  BY <1>1
<1> HIDE DEF r
<1>6. /\ rf' \in Rf /\ chip' \in Chip /\ SameUse(rf, rf') /\ SameChip(chip, chip')
      /\ (chip'.wu => chip.wu) /\ ~chip'.mode.targ
      /\ caller' \in {"up", "mode"} /\ (caller' = "mode" => SetUp(rf', chip'))
  BY <1>0, <1>4, <1>5
<1> QED BY <1>0, <1>6, ToSetUp

\* Steps between uses that change the field, the exchange and the state of gRFAL.
LEMMA FieldOnStep == IInv /\ rfalFieldOnAndStartGT => IInv'
<1> SUFFICES ASSUME IInv, rfalFieldOnAndStartGT PROVE IInv'
  OBVIOUS
<1>0. /\ Idle /\ UNCHANGED <<variant, ext, level, asked, changed, caller>>
      /\ IF chip.tx /\ rf.field THEN UNCHANGED <<rf, chip>>
         ELSE \E c \in PerformCollisionAvoidance(chip) :
                chip' = c /\ rf' = [rf EXCEPT !.field = c.tx]
  BY DEF rfalFieldOnAndStartGT
<1>1. /\ Typed /\ ListenInv /\ caller # "down" /\ rf.wum = "NOT_INIT" /\ rf.lm = "NOT_INIT"
      /\ chip.en /\ chip.efd /\ ~chip.wu /\ chip.auto = {} /\ chip.irq \subseteq Receiving
      /\ (chip.tx => rf.field) /\ ~chip.mode.targ
      /\ caller = "mode" => SetUp(rf, chip)
      /\ rf.busy => caller = "mode" /\ rf.state = "TXRX"
  BY <1>0, IdleUse DEF IInv
<1>2. /\ rf' \in Rf /\ chip' \in Chip
      /\ rf'.wum = "NOT_INIT" /\ rf'.lm = "NOT_INIT" /\ rf'.mask = rf.mask
      /\ rf'.busy = rf.busy /\ rf'.state = rf.state
      /\ rf'.mode = rf.mode /\ rf'.tx = rf.tx /\ rf'.rx = rf.rx
      /\ chip'.en = chip.en /\ chip'.efd /\ ~chip'.wu /\ chip'.auto = {} /\ chip'.irq \subseteq Receiving
      /\ (chip'.tx => rf'.field) /\ chip'.mode = chip.mode /\ chip'.br = chip.br
      /\ chip'.stream = chip.stream /\ chip'.analog = chip.analog
  <2>1. CASE UNCHANGED <<rf, chip>>
    BY <1>1, <2>1 DEF Typed
  <2>2. CASE \E on \in BOOLEAN : /\ chip' = [chip EXCEPT !.tx = on]
                                 /\ rf' = [rf EXCEPT !.field = on]
    <3>1. PICK on \in BOOLEAN : chip' = [chip EXCEPT !.tx = on] /\ rf' = [rf EXCEPT !.field = on]
      BY <2>2
    <3>2. /\ rf' \in Rf /\ rf'.wum = rf.wum /\ rf'.lm = rf.lm /\ rf'.mask = rf.mask
          /\ rf'.busy = rf.busy /\ rf'.state = rf.state /\ rf'.field = on
          /\ rf'.mode = rf.mode /\ rf'.tx = rf.tx /\ rf'.rx = rf.rx
      BY <1>1, <3>1 DEF Typed, Rf
    <3>3. /\ chip' \in Chip /\ chip'.en = chip.en /\ chip'.efd = chip.efd /\ chip'.wu = chip.wu
          /\ chip'.auto = chip.auto /\ chip'.irq = chip.irq /\ chip'.tx = on
          /\ chip'.mode = chip.mode /\ chip'.br = chip.br
          /\ chip'.stream = chip.stream /\ chip'.analog = chip.analog
      BY ZenonT(60), <1>1, <3>1 DEF Typed, Chip
    <3> QED BY <1>1, <3>2, <3>3
  <2>3. ASSUME NEW c \in PerformCollisionAvoidance(chip)
        PROVE  \E on \in BOOLEAN : c = [chip EXCEPT !.tx = on] /\ c.tx = on
    BY ZenonT(60), <1>1, <2>3 DEF PerformCollisionAvoidance, Typed, Chip
  <2> QED BY <1>0, <2>1, <2>2, <2>3
<1>3. Typed'
  BY <1>0, <1>1, <1>2 DEF Typed
<1>4. caller' = "mode" => SetUp(rf', chip')
  BY <1>0, <1>1, <1>2, SetUpKept
<1>5. UseInv' /\ ListenInv'
  BY <1>0, <1>1, <1>2, <1>4 DEF UseInv, LeftAsFound, ListenInv, Listening
<1> QED BY <1>3, <1>5 DEF IInv

LEMMA FieldOffStep == IInv /\ rfalFieldOff => IInv'
<1> SUFFICES ASSUME IInv, rfalFieldOff PROVE IInv'
  OBVIOUS
<1>0. /\ Idle /\ UNCHANGED <<variant, ext, level, asked, changed, caller>>
      /\ rf' = [rf EXCEPT !.field = FALSE, !.busy = FALSE]
      /\ chip' = [chip EXCEPT !.tx = FALSE]
  BY DEF rfalFieldOff, FieldOff, TxRxOff
<1>1. /\ Typed /\ ListenInv /\ caller # "down" /\ rf.wum = "NOT_INIT" /\ rf.lm = "NOT_INIT"
      /\ chip.en /\ chip.efd /\ ~chip.wu /\ chip.auto = {} /\ chip.irq \subseteq Receiving
      /\ ~chip.mode.targ
      /\ caller = "mode" => SetUp(rf, chip)
  BY <1>0, IdleUse DEF IInv
<1>2. /\ rf' \in Rf /\ chip' \in Chip
      /\ rf'.wum = "NOT_INIT" /\ rf'.lm = "NOT_INIT" /\ rf'.mask = rf.mask /\ ~rf'.busy
      /\ rf'.mode = rf.mode /\ rf'.tx = rf.tx /\ rf'.rx = rf.rx
      /\ chip'.en = chip.en /\ chip'.efd /\ ~chip'.wu /\ chip'.auto = {} /\ chip'.irq \subseteq Receiving
      /\ ~chip'.tx /\ chip'.mode = chip.mode /\ chip'.br = chip.br
      /\ chip'.stream = chip.stream /\ chip'.analog = chip.analog
  BY ZenonT(60), <1>0, <1>1 DEF Typed, Rf, Chip
<1>3. Typed'
  BY <1>0, <1>1, <1>2 DEF Typed
<1>4. caller' = "mode" => SetUp(rf', chip')
  BY <1>0, <1>1, <1>2, SetUpKept
<1>5. UseInv' /\ ListenInv'
  BY <1>0, <1>1, <1>2, <1>4 DEF UseInv, LeftAsFound, ListenInv, Listening
<1> QED BY <1>3, <1>5 DEF IInv

\* Starting an exchange enables the interrupts of a reception, ending one nothing.
LEMMA ExchangeStep == IInv /\ (rfalStartTransceive \/ ExchangeEnds) => IInv'
<1> SUFFICES ASSUME IInv, rfalStartTransceive \/ ExchangeEnds PROVE IInv'
  OBVIOUS
<1>0. /\ Typed /\ UseInv /\ ListenInv /\ rf \in Rf /\ chip \in Chip
      /\ UNCHANGED <<variant, ext, level, asked, changed, caller>>
  BY DEF IInv, Typed, rfalStartTransceive, ExchangeEnds
<1>1. /\ rf' \in Rf /\ rf'.wum = rf.wum /\ rf'.lm = rf.lm /\ rf'.mask = rf.mask
      /\ rf'.mode = rf.mode /\ rf'.tx = rf.tx /\ rf'.rx = rf.rx /\ rf'.field = rf.field
      /\ rf'.busy => caller = "mode" /\ rf'.state = "TXRX"
  <2>1. CASE rfalStartTransceive
    BY <1>0, <2>1 DEF Rf, rfalStartTransceive
  <2>2. CASE ExchangeEnds
    BY <1>0, <2>2 DEF Rf, UseInv, ExchangeEnds
  <2> QED BY <2>1, <2>2
<1>2. /\ chip' \in Chip /\ chip'.en = chip.en /\ chip'.efd = chip.efd /\ chip'.wu = chip.wu
      /\ chip'.auto = chip.auto /\ chip'.tx = chip.tx /\ chip'.mode = chip.mode
      /\ chip'.br = chip.br /\ chip'.stream = chip.stream /\ chip'.analog = chip.analog
      /\ \/ chip'.irq = chip.irq
         \/ chip'.irq = chip.irq \cup Receiving /\ rf.wum = "NOT_INIT"
  <2>1. CASE rfalStartTransceive
    <3>1. chip.irq \cup Receiving \in SUBSET (Kinds \cup {"WT", "LM", "RX"})
      BY <1>0 DEF Chip, Receiving
    <3>2. chip' = [chip EXCEPT !.irq = @ \cup Receiving] /\ rf.wum = "NOT_INIT"
      BY <2>1 DEF rfalStartTransceive
    <3> QED BY ZenonT(60), <1>0, <3>1, <3>2 DEF Chip
  <2>2. CASE ExchangeEnds
    BY <1>0, <2>2 DEF ExchangeEnds
  <2> QED BY <2>1, <2>2
<1>3. Typed'
  BY <1>0, <1>1, <1>2 DEF Typed
<1>4. SetUp(rf, chip) => SetUp(rf', chip')
  BY <1>0, <1>1, <1>2, SetUpKept
<1>5. LeftAsFound'
  BY <1>0, <1>1, <1>2 DEF UseInv, LeftAsFound, Listening
<1>6. UseInv' /\ ListenInv'
  BY <1>0, <1>1, <1>2, <1>4, <1>5 DEF UseInv, ListenInv
<1> QED BY <1>3, <1>6 DEF IInv

-----------------------------------------------------------------------------
(* Listening.                                                              *)

\* A step of listen mode to a state it is still on in: out of wake-up mode, only its
\* own interrupts enabled, the oscillator on but without a field.
LEMMA ToListening ==
  ASSUME IInv, UNCHANGED <<variant, ext, level, asked, changed>>,
         rf' \in Rf, chip' \in Chip,
         rf'.wum = "NOT_INIT", rf'.lm # "NOT_INIT", ~rf'.busy,
         chip'.auto \subseteq rf'.mask, "LISTEN_NFCB" \notin rf'.mask,
         chip'.efd, ~chip'.wu, chip'.irq \subseteq Listening,
         rf'.lm # "POWER_OFF" => chip'.en,
         caller' \in {"up", "mode"}, caller' = "mode" => SetUp(rf', chip'),
         ListenInv'
  PROVE  IInv'
<1>1. Typed'
  BY DEF IInv, Typed
<1>2. UseInv'
  BY DEF UseInv, LeftAsFound
<1> QED BY <1>1, <1>2 DEF IInv

\* Listen mode loses the field, or is set up: the receiver is off but in a field.
LEMMA ToPowerOffResult ==
  ASSUME NEW g \in Rf, NEW c \in Chip, ext \in BOOLEAN
  PROVE  LET r == ToPowerOff(g, c) IN
         /\ r.rf \in Rf /\ r.chip \in Chip
         /\ r.rf.wum = g.wum /\ r.rf.busy = g.busy /\ r.rf.mask = g.mask
         /\ r.rf.lm \in {"POWER_OFF", "IDLE"} /\ (r.rf.lm # "POWER_OFF" => r.chip.en)
         /\ r.chip.auto = c.auto \cup g.mask /\ r.chip.irq = Listening
         /\ r.chip.efd = c.efd /\ r.chip.wu = c.wu
<1> DEFINE r == ToPowerOff(g, c)
           Off == [c EXCEPT !.mode = Register(TRUE, g.mask), !.auto = @ \cup g.mask,
                            !.irq = Listening, !.tx = @ /\ ext /\ "LISTEN_ACTIVE_P2P" \notin g.mask,
                            !.raised = {}]
           Lm == [g EXCEPT !.data = FALSE]
<1>1. Register(TRUE, g.mask) \in ModeRegister
  BY RfFields DEF Register, ModeRegister, Modulations
<1>2. /\ Off \in Chip /\ Off.auto = c.auto \cup g.mask /\ Off.irq = Listening
      /\ Off.efd = c.efd /\ Off.wu = c.wu
  <2>1. Listening \in SUBSET (Kinds \cup {"WT", "LM", "RX"})
    BY DEF Listening, Receiving
  <2> QED BY ZenonT(60), <1>1, <2>1, RfFields DEF Chip
<1>3. /\ Lm \in Rf /\ Lm.wum = g.wum /\ Lm.busy = g.busy /\ Lm.mask = g.mask
  BY DEF Rf
<1>4. r = IF ext THEN ToIdle(Lm, Off)
          ELSE [rf |-> [Lm EXCEPT !.lm = "POWER_OFF"], chip |-> [Off EXCEPT !.en = FALSE]]
  BY DEF ToPowerOff
<1> HIDE DEF Off, Lm
<1>5. /\ [Lm EXCEPT !.lm = "IDLE"] \in Rf /\ [Lm EXCEPT !.lm = "IDLE"].lm = "IDLE"
      /\ [Lm EXCEPT !.lm = "IDLE"].wum = g.wum /\ [Lm EXCEPT !.lm = "IDLE"].busy = g.busy
      /\ [Lm EXCEPT !.lm = "IDLE"].mask = g.mask
  BY <1>3 DEF Rf, LmNames
<1>6. /\ [Lm EXCEPT !.lm = "POWER_OFF"] \in Rf /\ [Lm EXCEPT !.lm = "POWER_OFF"].lm = "POWER_OFF"
      /\ [Lm EXCEPT !.lm = "POWER_OFF"].wum = g.wum /\ [Lm EXCEPT !.lm = "POWER_OFF"].busy = g.busy
      /\ [Lm EXCEPT !.lm = "POWER_OFF"].mask = g.mask
  BY <1>3 DEF Rf, LmNames
<1>7. ASSUME NEW on \in BOOLEAN
      PROVE  /\ [Off EXCEPT !.en = on] \in Chip /\ [Off EXCEPT !.en = on].en = on
             /\ [Off EXCEPT !.en = on].auto = Off.auto /\ [Off EXCEPT !.en = on].irq = Off.irq
             /\ [Off EXCEPT !.en = on].efd = Off.efd /\ [Off EXCEPT !.en = on].wu = Off.wu
  BY <1>2 DEF Chip
<1>8. CASE ext
  <2>1. r.rf = [Lm EXCEPT !.lm = "IDLE"] /\ r.chip = [Off EXCEPT !.en = TRUE]
    BY <1>4, <1>8 DEF ToIdle, st25r3916OscOn
  <2> QED BY <1>2, <1>5, <1>7, <2>1
<1>9. CASE ~ext
  <2>1. r.rf = [Lm EXCEPT !.lm = "POWER_OFF"] /\ r.chip = [Off EXCEPT !.en = FALSE]
    BY <1>4, <1>9
  <2> QED BY <1>2, <1>6, <1>7, <2>1
<1> QED BY <1>8, <1>9

\* Leaving listen mode: as before it was started.
LEMMA ListenStopResult ==
  ASSUME NEW g \in Rf, NEW c \in Chip
  PROVE  LET r == ListenStop(g, c) IN
         /\ r.rf \in Rf /\ r.chip \in Chip
         /\ r.rf.wum = g.wum /\ r.rf.busy = FALSE /\ r.rf.mask = {} /\ r.rf.lm = "NOT_INIT"
         /\ r.chip.auto = {} /\ r.chip.irq = c.irq \ {"LM"} /\ r.chip.en = TRUE
         /\ r.chip.tx = FALSE /\ r.chip.mode.targ = FALSE
         /\ r.chip.efd = c.efd /\ r.chip.wu = c.wu
<1> DEFINE r == ListenStop(g, c)
<1>1. Register(FALSE, {"iso14443a"}) \in ModeRegister /\ Register(FALSE, {"iso14443a"}).targ = FALSE
  BY DEF Register, ModeRegister, Modulations
<1>2. r.rf = FieldOff([g EXCEPT !.lm = "NOT_INIT", !.data = FALSE, !.mask = {}])
  BY DEF ListenStop
<1>3. r.chip = [TxRxOff(st25r3916OscOn(c)) EXCEPT !.auto = {}, !.irq = @ \ {"LM"},
                                              !.mode = Register(FALSE, {"iso14443a"})]
  BY DEF ListenStop
<1>4. /\ r.rf \in Rf
      /\ r.rf.wum = g.wum /\ r.rf.busy = FALSE /\ r.rf.mask = {} /\ r.rf.lm = "NOT_INIT"
  BY <1>2 DEF FieldOff, Rf, LmNames
<1>5. /\ r.chip \in Chip
      /\ r.chip.auto = {} /\ r.chip.irq = c.irq \ {"LM"} /\ r.chip.en = TRUE
      /\ r.chip.tx = FALSE /\ r.chip.mode = Register(FALSE, {"iso14443a"})
      /\ r.chip.efd = c.efd /\ r.chip.wu = c.wu
  <2> DEFINE d == [[c EXCEPT !.en = TRUE] EXCEPT !.tx = FALSE]
             i == d.irq \ {"LM"}
             m == Register(FALSE, {"iso14443a"})
             e == [[d EXCEPT !.auto = {}] EXCEPT !.irq = i]
  <2>1. /\ d \in Chip /\ d.irq = c.irq /\ d.en = TRUE /\ d.tx = FALSE
        /\ d.efd = c.efd /\ d.wu = c.wu
    BY DEF Chip
  <2>2. r.chip = [d EXCEPT !.auto = {}, !.irq = i, !.mode = m]
    BY <1>3 DEF TxRxOff, st25r3916OscOn
  <2> HIDE DEF d
  <2>3. i \in SUBSET (Kinds \cup {"WT", "LM", "RX"}) /\ i = c.irq \ {"LM"}
    BY <2>1, ChipFields
  <2> HIDE DEF i
  <2>4. /\ e \in Chip /\ e.auto = {} /\ e.irq = i /\ e.en = d.en /\ e.tx = d.tx
        /\ e.efd = d.efd /\ e.wu = d.wu
    BY ZenonT(60), <2>1, <2>3 DEF Chip
  <2>5. r.chip = [e EXCEPT !.mode = m]
    BY <2>1, <2>2 DEF Chip
  <2> HIDE DEF e, r
  <2>6. m \in ModeRegister
    BY <1>1
  <2> HIDE DEF m
  <2>7. /\ r.chip \in Chip /\ r.chip.auto = {} /\ r.chip.irq = i
        /\ r.chip.en = e.en /\ r.chip.tx = e.tx /\ r.chip.mode = m
        /\ r.chip.efd = e.efd /\ r.chip.wu = e.wu
    BY <2>4, <2>5, <2>6 DEF Chip
  <2> QED BY <2>1, <2>3, <2>4, <2>7 DEF m
<1> QED BY <1>1, <1>4, <1>5

\* Listening, the chip is out of wake-up mode.
LEMMA ListenUse ==
  ASSUME IInv, caller # "down", rf.lm # "NOT_INIT"
  PROVE  /\ Typed /\ ListenInv /\ rf \in Rf /\ chip \in Chip /\ ext \in BOOLEAN
         /\ rf.wum = "NOT_INIT" /\ chip.efd /\ ~chip.wu
         /\ chip.irq \subseteq Listening /\ chip.auto \subseteq rf.mask
         /\ "LISTEN_NFCB" \notin rf.mask
         /\ (rf.lm # "POWER_OFF" => chip.en)
         /\ (caller = "mode" => SetUp(rf, chip))
         /\ (rf.busy => caller = "mode" /\ rf.state = "TXRX")
<1>1. rf.wum = "NOT_INIT" /\ chip.irq \subseteq Listening
  BY DEF IInv, UseInv, LeftAsFound
<1> QED BY <1>1 DEF IInv, Typed, UseInv, LeftAsFound

\* Out of listening, nothing is left on.
LEMMA ToStopped ==
  ASSUME IInv, caller # "down", rf.lm # "NOT_INIT",
         UNCHANGED <<variant, ext, level, asked, changed>>, caller' = "up",
         NEW c \in Chip, c.irq \subseteq Listening, c.efd = chip.efd, c.wu = chip.wu,
         rf' = ListenStop(rf, c).rf, chip' = ListenStop(rf, c).chip
  PROVE  IInv'
<1>0. Typed /\ rf \in Rf /\ rf.wum = "NOT_INIT" /\ chip.efd /\ ~chip.wu
  BY ListenUse
<1>1. /\ rf' \in Rf /\ chip' \in Chip
      /\ rf'.wum = "NOT_INIT" /\ rf'.busy = FALSE /\ rf'.mask = {} /\ rf'.lm = "NOT_INIT"
      /\ chip'.auto = {} /\ chip'.irq \subseteq Receiving /\ chip'.en = TRUE
      /\ chip'.tx = FALSE /\ chip'.mode.targ = FALSE /\ chip'.efd /\ ~chip'.wu
  <2> DEFINE r == ListenStop(rf, c)
  <2>1. /\ r.rf \in Rf /\ r.chip \in Chip
        /\ r.rf.wum = rf.wum /\ r.rf.busy = FALSE /\ r.rf.mask = {} /\ r.rf.lm = "NOT_INIT"
        /\ r.chip.auto = {} /\ r.chip.irq = c.irq \ {"LM"} /\ r.chip.en = TRUE
        /\ r.chip.tx = FALSE /\ r.chip.mode.targ = FALSE
        /\ r.chip.efd = c.efd /\ r.chip.wu = c.wu
    BY ONLY ZenonT(60), <1>0, c \in Chip, ListenStopResult
  <2>2. rf' = r.rf /\ chip' = r.chip
    OBVIOUS
  <2>3. c.irq \ {"LM"} \subseteq Receiving
    BY DEF Listening
  <2> HIDE DEF r
  <2> QED BY <1>0, <2>1, <2>2, <2>3
<1>2. Typed'
  BY <1>0, <1>1 DEF Typed
<1>3. UseInv' /\ ListenInv'
  BY <1>1 DEF UseInv, LeftAsFound, ListenInv, Listening
<1> QED BY <1>2, <1>3 DEF IInv

\* Going to sleep, with a field; without one listening ends.
LEMMA ToSleepStep ==
  ASSUME IInv, caller # "down", rf.lm \in {"ACTIVE", "ACTIVE_Ax"}, ~rf.busy,
         UNCHANGED <<variant, ext, level, asked, changed>>, caller' = "up",
         rf' = ToSleep(rf, chip).rf, chip' = ToSleep(rf, chip).chip
  PROVE  IInv'
<1> DEFINE Asleep == [chip EXCEPT !.mode = Register(TRUE, {"LISTEN_NFCA"}),
                        !.auto = @ \cup {"LISTEN_NFCA"}, !.irq = @ \cup Listening, !.raised = {}]
<1>0. /\ rf \in Rf /\ chip \in Chip /\ ext \in BOOLEAN /\ rf.wum = "NOT_INIT"
      /\ chip.efd /\ ~chip.wu /\ chip.en /\ chip.auto \subseteq rf.mask
      /\ "LISTEN_NFCB" \notin rf.mask /\ "LISTEN_NFCA" \in rf.mask
  BY ListenUse DEF ListenInv
<1>1. Register(TRUE, {"LISTEN_NFCA"}) \in ModeRegister
  BY DEF Register, ModeRegister, Modulations, ListenModes, PassiveListen
<1>2. /\ Asleep \in Chip /\ Asleep.auto \subseteq rf.mask /\ Asleep.irq \subseteq Listening
      /\ Asleep.en = chip.en /\ Asleep.efd = chip.efd /\ Asleep.wu = chip.wu
  <2>1. chip.irq \cup Listening \in SUBSET (Kinds \cup {"WT", "LM", "RX"})
    BY <1>0 DEF Chip, Listening, Receiving
  <2>2. chip.irq \cup Listening \subseteq Listening
    BY ListenUse
  <2> QED BY ZenonT(60), <1>0, <1>1, <2>1, <2>2 DEF Chip, ListenModes, PassiveListen
<1>3. CASE ext
  <2>1. chip' = Asleep /\ rf' = [rf EXCEPT !.lm = "SLEEP_A", !.state = "LM", !.data = FALSE]
    BY <1>3 DEF ToSleep
  <2>2. /\ rf' \in Rf /\ rf'.wum = "NOT_INIT" /\ rf'.lm = "SLEEP_A" /\ ~rf'.busy
        /\ rf'.mask = rf.mask
    BY ZenonT(60), <1>0, <2>1 DEF Rf, LmNames
  <2>3. ListenInv'
    BY <1>0, <2>2 DEF ListenInv
  <2> HIDE DEF Asleep
  <2> QED BY <1>0, <1>2, <2>1, <2>2, <2>3, ToListening
<1>4. CASE ~ext
  <2>1. rf' = ListenStop(rf, Asleep).rf /\ chip' = ListenStop(rf, Asleep).chip
    BY <1>4 DEF ToSleep
  <2> HIDE DEF Asleep
  <2> QED BY <1>2, <2>1, ToStopped
<1> QED BY <1>0, <1>3, <1>4

LEMMA ListenStartStep == IInv /\ rfalListenStart => IInv'
<1> SUFFICES ASSUME IInv, rfalListenStart PROVE IInv'
  OBVIOUS
<1>0. /\ Idle /\ ~rf.busy /\ caller' = "up" /\ UNCHANGED <<variant, ext, level, asked, changed>>
      /\ rf \in Rf /\ chip \in Chip /\ ext \in BOOLEAN
  BY DEF rfalListenStart, IInv, Typed
<1>1. /\ Typed /\ ListenInv /\ caller # "down" /\ rf.wum = "NOT_INIT" /\ rf.lm = "NOT_INIT"
      /\ chip.en /\ chip.efd /\ ~chip.wu /\ chip.auto = {} /\ chip.irq \subseteq Receiving
      /\ (chip.tx => rf.field) /\ ~chip.mode.targ
  BY <1>0, IdleUse DEF IInv
<1>2. CASE UNCHANGED <<rf, chip>>
  <2>1. Typed'
    BY <1>0, <1>1, <1>2 DEF Typed
  <2>2. UseInv' /\ ListenInv'
    BY <1>0, <1>1, <1>2 DEF UseInv, LeftAsFound, ListenInv, Listening
  <2> QED BY <2>1, <2>2 DEF IInv
<1>3. ASSUME NEW mask \in Masks, "LISTEN_NFCB" \notin mask,
             rf' = ToPowerOff([rf EXCEPT !.state = "LM", !.mask = mask], [chip EXCEPT !.auto = mask]).rf,
             chip' = ToPowerOff([rf EXCEPT !.state = "LM", !.mask = mask], [chip EXCEPT !.auto = mask]).chip
      PROVE  IInv'
  <2> DEFINE g == [rf EXCEPT !.state = "LM", !.mask = mask]
             c == [chip EXCEPT !.auto = mask]
  <2>0. mask \in SUBSET ListenModes
    BY ModeAssumption
  <2>1. g \in Rf /\ g.wum = "NOT_INIT" /\ ~g.busy /\ g.mask = mask
    BY <1>0, <1>1, <2>0 DEF Rf
  <2>2. c \in Chip /\ c.auto = mask /\ c.efd = chip.efd /\ c.wu = chip.wu
    BY <1>0, <2>0 DEF Chip
  <2>3. rf' = ToPowerOff(g, c).rf /\ chip' = ToPowerOff(g, c).chip
    BY <1>3
  <2> HIDE DEF g, c
  <2>4. /\ rf' \in Rf /\ chip' \in Chip
        /\ rf'.wum = "NOT_INIT" /\ ~rf'.busy /\ rf'.mask = mask
        /\ rf'.lm \in {"POWER_OFF", "IDLE"} /\ (rf'.lm # "POWER_OFF" => chip'.en)
        /\ chip'.auto = mask /\ chip'.irq = Listening /\ chip'.efd /\ ~chip'.wu
    <3> DEFINE r == ToPowerOff(g, c)
    <3>1. /\ r.rf \in Rf /\ r.chip \in Chip
          /\ r.rf.wum = g.wum /\ r.rf.busy = g.busy /\ r.rf.mask = g.mask
          /\ r.rf.lm \in {"POWER_OFF", "IDLE"} /\ (r.rf.lm # "POWER_OFF" => r.chip.en)
          /\ r.chip.auto = c.auto \cup g.mask /\ r.chip.irq = Listening
          /\ r.chip.efd = c.efd /\ r.chip.wu = c.wu
      BY ONLY <1>0, <2>1, <2>2, ToPowerOffResult
    <3>2. rf' = r.rf /\ chip' = r.chip
      BY <2>3
    <3> HIDE DEF r
    <3> QED BY <1>1, <2>1, <2>2, <3>1, <3>2
  <2>5. ListenInv'
    BY <2>4 DEF ListenInv
  <2> QED BY <1>0, <1>3, <2>4, <2>5, ToListening
<1> QED BY <1>2, <1>3 DEF rfalListenStart

LEMMA ListenStopStep == IInv /\ rfalListenStop => IInv'
<1> SUFFICES ASSUME IInv, rfalListenStop PROVE IInv'
  OBVIOUS
<1>1. /\ caller # "down" /\ rf.lm # "NOT_INIT" /\ caller' = "up"
      /\ UNCHANGED <<variant, ext, level, asked, changed>>
      /\ rf' = ListenStop(rf, chip).rf /\ chip' = ListenStop(rf, chip).chip
  BY DEF rfalListenStop
<1>2. chip \in Chip /\ chip.irq \subseteq Listening
  BY <1>1, ListenUse
<1> QED BY <1>1, <1>2, ToStopped

LEMMA ListenSleepStep == IInv /\ rfalListenSleepStart => IInv'
  BY ToSleepStep DEF rfalListenSleepStart

\* The modes the chip answers a poll in by itself.
Answering == {"LISTEN_NFCA", "LISTEN_NFCF"}

\* The first frame of a reader, or its WUPA, sets the mode of listen mode.
LEMMA ToReadyResult ==
  ASSUME NEW g \in Rf, NEW c \in Chip, NEW m \in Answering,
         NEW state \in LmNames, g.state = "LM"
  PROVE  LET r == ToReady(g, c, m, state) IN
         /\ r.rf \in Rf /\ r.chip \in Chip /\ r.ok \in BOOLEAN
         /\ r.rf.lm = state /\ r.rf.mode = m
         /\ r.rf.wum = g.wum /\ r.rf.busy = g.busy /\ r.rf.mask = g.mask
         /\ r.chip.en = c.en /\ r.chip.auto \subseteq c.auto /\ r.chip.irq = c.irq
         /\ r.chip.efd = c.efd /\ (r.chip.wu => c.wu)
         /\ r.ok /\ c.en => SetUp(r.rf, r.chip)
<1> DEFINE d == [c EXCEPT !.auto = @ \ {Other(m)}]
           s == rfalSetMode(g, d, m, "106", "106")
           r == ToReady(g, c, m, state)
<1>1. /\ d \in Chip /\ d.en = c.en /\ d.auto \subseteq c.auto /\ d.irq = c.irq
      /\ d.efd = c.efd /\ d.wu = c.wu
  BY DEF Chip
<1>2. m \in AnyMode /\ m \notin NFCV /\ Implemented(m)
  BY DEF Answering, AnyMode, ListenModes, PassiveListen, NFCV, Implemented
<1>3. "106" \in RateNames /\ Keep \notin {"106", "106"}
  BY DEF RateNames, Keep
<1>4. r = [s EXCEPT !.rf.lm = state, !.rf.state = "LM"]
  BY DEF ToReady
<1>5. \E a, b, o : s = [rf |-> a, chip |-> b, ok |-> o]
  BY ZenonT(60) DEF rfalSetMode, rfalSetBitRate
<1> HIDE DEF d
<1>6. /\ s.rf \in Rf /\ s.chip \in Chip /\ s.ok \in BOOLEAN
      /\ SameUse(g, s.rf) /\ SameChip(d, s.chip)
      /\ s.rf.mode = m /\ (s.chip.wu => d.wu)
      /\ s.ok /\ d.en => SetUp(s.rf, s.chip)
  <2>1. s = rfalSetMode(g, d, m, "106", "106")
    OBVIOUS
  <2> HIDE DEF s
  <2> QED BY <1>1, <1>2, <1>3, <2>1, SetModeResult
<1> HIDE DEF s, r
<1>7. /\ r.rf = [s.rf EXCEPT !.lm = state, !.state = "LM"]
      /\ r.chip = s.chip /\ r.ok = s.ok
  BY <1>4, <1>5
<1>8. /\ r.rf \in Rf /\ r.rf.lm = state /\ r.rf.mode = m /\ r.rf.wum = g.wum
      /\ r.rf.busy = g.busy /\ r.rf.mask = g.mask
      /\ r.rf.tx = s.rf.tx /\ r.rf.rx = s.rf.rx
  BY ZenonT(60), <1>6, <1>7 DEF Rf, SameUse
<1>9. SetUp(s.rf, s.chip) => SetUp(r.rf, r.chip)
  BY ZenonT(60), <1>6, <1>7, <1>8, SetUpKept
<1> QED BY <1>1, <1>6, <1>7, <1>8, <1>9 DEF SameChip, r

\* What a step of the listen mode worker starts from, and what every one leaves alone.
LEMMA ListenWorker ==
  ASSUME IInv, rf.state = "LM", caller # "down", rf.lm # "NOT_INIT"
  PROVE  /\ ListenInv /\ rf \in Rf /\ chip \in Chip /\ ext \in BOOLEAN
         /\ rf.wum = "NOT_INIT" /\ ~rf.busy /\ chip.efd /\ ~chip.wu
         /\ chip.irq \subseteq Listening /\ chip.auto \subseteq rf.mask
         /\ "LISTEN_NFCB" \notin rf.mask
         /\ (rf.lm # "POWER_OFF" => chip.en)
         /\ caller \in {"up", "mode"} /\ (caller = "mode" => SetUp(rf, chip))
<1>1. caller \in {"up", "mode"}
  BY DEF IInv, Typed
<1> QED BY <1>1, ListenUse

LEMMA FieldStep ==
  ASSUME IInv, rf.state = "LM", caller # "down",
         UNCHANGED <<variant, ext, level, asked, changed>>, FieldThere \/ FieldGone
  PROVE  IInv'
<1>0. rf.lm # "NOT_INIT"
  BY DEF FieldThere, FieldGone
<1>1. /\ ListenInv /\ rf \in Rf /\ chip \in Chip /\ ext \in BOOLEAN
      /\ rf.wum = "NOT_INIT" /\ ~rf.busy /\ chip.efd /\ ~chip.wu
      /\ chip.irq \subseteq Listening /\ chip.auto \subseteq rf.mask
      /\ "LISTEN_NFCB" \notin rf.mask
      /\ caller \in {"up", "mode"} /\ (caller = "mode" => SetUp(rf, chip))
  BY <1>0, ListenWorker
<1>2. CASE FieldThere
  <2>1. rf' = [rf EXCEPT !.lm = "IDLE"] /\ chip' = [chip EXCEPT !.en = TRUE] /\ caller' = caller
    BY <1>2 DEF FieldThere, ToIdle, st25r3916OscOn
  <2>2. /\ rf' \in Rf /\ rf'.wum = "NOT_INIT" /\ rf'.lm = "IDLE" /\ ~rf'.busy /\ rf'.mask = rf.mask
        /\ rf'.mode = rf.mode /\ rf'.tx = rf.tx /\ rf'.rx = rf.rx
    BY <1>1, <2>1 DEF Rf, LmNames
  <2>3. /\ chip' \in Chip /\ chip'.auto = chip.auto /\ chip'.efd /\ ~chip'.wu /\ chip'.irq = chip.irq
        /\ chip'.en = TRUE /\ chip'.mode = chip.mode /\ chip'.br = chip.br
        /\ chip'.stream = chip.stream /\ chip'.analog = chip.analog
    BY ZenonT(60), <1>1, <2>1 DEF Chip
  <2>4. caller' = "mode" => SetUp(rf', chip')
    <3>1. SetUp(rf, chip) => chip.en = TRUE
      BY <1>1 DEF SetUp, Chip
    <3> QED BY ZenonT(60), <1>1, <2>1, <2>2, <2>3, <3>1, SetUpKept
  <2>5. ListenInv'
    BY <2>2 DEF ListenInv
  <2> QED BY <1>1, <2>1, <2>2, <2>3, <2>4, <2>5, ToListening
<1>3. CASE FieldGone
  <2> DEFINE r == ToPowerOff(rf, chip)
  <2>1. rf' = r.rf /\ chip' = r.chip /\ caller' = "up"
    BY <1>3 DEF FieldGone
  <2>2. /\ r.rf \in Rf /\ r.chip \in Chip
        /\ r.rf.wum = rf.wum /\ r.rf.busy = rf.busy /\ r.rf.mask = rf.mask
        /\ r.rf.lm \in {"POWER_OFF", "IDLE"} /\ (r.rf.lm # "POWER_OFF" => r.chip.en)
        /\ r.chip.auto = chip.auto \cup rf.mask /\ r.chip.irq = Listening
        /\ r.chip.efd = chip.efd /\ r.chip.wu = chip.wu
    BY ONLY <1>1, ToPowerOffResult
  <2> HIDE DEF r
  <2>3. /\ rf' \in Rf /\ chip' \in Chip
        /\ rf'.wum = "NOT_INIT" /\ ~rf'.busy /\ rf'.mask = rf.mask
        /\ rf'.lm \in {"POWER_OFF", "IDLE"} /\ (rf'.lm # "POWER_OFF" => chip'.en)
        /\ chip'.auto \subseteq rf.mask /\ chip'.irq \subseteq Listening /\ chip'.efd /\ ~chip'.wu
    BY <1>1, <2>1, <2>2
  <2>4. ListenInv'
    BY <2>3 DEF ListenInv
  <2> QED BY <1>1, <2>1, <2>3, <2>4, ToListening
<1> QED BY <1>2, <1>3

\* The steps that set the mode: the chip has answered a poll, or the WUPA of a reader.
LEMMA ReadyStep ==
  ASSUME IInv, rf.state = "LM", caller # "down",
         UNCHANGED <<variant, ext, level, asked, changed>>, Answered \/ Awakened
  PROVE  IInv'
<1>0. rf.lm \in {"IDLE", "SLEEP_A"}
  BY DEF Answered, Awakened
<1>1. /\ ListenInv /\ rf \in Rf /\ chip \in Chip
      /\ rf.wum = "NOT_INIT" /\ ~rf.busy /\ chip.efd /\ ~chip.wu
      /\ chip.irq \subseteq Listening /\ chip.auto \subseteq rf.mask
      /\ "LISTEN_NFCB" \notin rf.mask /\ chip.en
  BY <1>0, ListenWorker
<1>2. PICK m \in Answering, state \in {"READY", "READY_Ax"} :
        LET r == ToReady(rf, chip, m, state)
        IN /\ m \in rf.mask /\ (state = "READY_Ax" => rf.lm = "SLEEP_A")
           /\ rf' = r.rf /\ chip' = r.chip /\ caller' = IF r.ok THEN "mode" ELSE "up"
  <2>1. CASE Answered
    <3>1. PICK m \in chip.auto \cap PassiveListen :
            LET r == ToReady(rf, chip, m, "READY")
            IN rf' = r.rf /\ chip' = r.chip /\ caller' = IF r.ok THEN "mode" ELSE "up"
      BY <2>1 DEF Answered
    <3>2. m \in Answering /\ m \in rf.mask
      BY <1>1 DEF Answering, PassiveListen
    <3> QED BY <3>1, <3>2
  <2>2. CASE Awakened
    <3>1. "LISTEN_NFCA" \in rf.mask
      BY <1>1, <2>2 DEF Awakened, ListenInv
    <3> QED BY <2>2, <3>1 DEF Awakened, Answering
  <2> QED BY <2>1, <2>2
<1> DEFINE r == ToReady(rf, chip, m, state)
<1>3. /\ r.rf \in Rf /\ r.chip \in Chip /\ r.ok \in BOOLEAN
      /\ r.rf.lm = state /\ r.rf.mode = m
      /\ r.rf.wum = rf.wum /\ r.rf.busy = rf.busy /\ r.rf.mask = rf.mask
      /\ r.chip.en = chip.en /\ r.chip.auto \subseteq chip.auto /\ r.chip.irq = chip.irq
      /\ r.chip.efd = chip.efd /\ (r.chip.wu => chip.wu)
      /\ r.ok /\ chip.en => SetUp(r.rf, r.chip)
  <2>1. state \in LmNames
    BY DEF LmNames
  <2>2. rf.state = "LM"
    OBVIOUS
  <2> QED BY ONLY <1>1, <2>1, <2>2, ToReadyResult, m \in Answering
<1>4. /\ m \in rf.mask /\ (state = "READY_Ax" => rf.lm = "SLEEP_A")
      /\ rf' = r.rf /\ chip' = r.chip /\ caller' = IF r.ok THEN "mode" ELSE "up"
  BY <1>2
<1> HIDE DEF r
<1>5. caller' \in {"up", "mode"} /\ (caller' = "mode" => SetUp(rf', chip'))
  BY <1>1, <1>3, <1>4
<1>6. /\ rf' \in Rf /\ chip' \in Chip /\ rf'.lm = state /\ rf'.mode = m /\ rf'.wum = "NOT_INIT"
      /\ ~rf'.busy /\ rf'.mask = rf.mask /\ chip'.en /\ chip'.auto \subseteq rf.mask
      /\ chip'.irq \subseteq Listening /\ chip'.efd /\ ~chip'.wu
  BY <1>1, <1>3, <1>4
<1>7. ListenInv'
  BY <1>1, <1>4, <1>6 DEF ListenInv
<1> QED BY <1>1, <1>5, <1>6, <1>7, ToListening

LEMMA ActiveStep ==
  ASSUME IInv, rf.state = "LM", caller # "down",
         UNCHANGED <<variant, ext, level, asked, changed>>,
         ActiveFrame \/ Activated \/ Frame \/ DamagedFrame
  PROVE  IInv'
<1>0. rf.lm \notin {"NOT_INIT", "POWER_OFF"}
  BY DEF ActiveFrame, Activated, Frame, DamagedFrame
<1>1. /\ ListenInv /\ rf \in Rf /\ chip \in Chip
      /\ rf.wum = "NOT_INIT" /\ ~rf.busy /\ chip.efd /\ ~chip.wu
      /\ chip.irq \subseteq Listening /\ chip.auto \subseteq rf.mask
      /\ "LISTEN_NFCB" \notin rf.mask /\ chip.en
      /\ caller \in {"up", "mode"} /\ (caller = "mode" => SetUp(rf, chip))
  BY <1>0, ListenWorker
<1>2. CASE ActiveFrame
  <2>1. /\ rf.lm = "IDLE" /\ rf' = [rf EXCEPT !.data = TRUE] /\ caller' = "up"
        /\ chip' = [chip EXCEPT !.mode = Register(TRUE, {"nfcip"}), !.tx = TRUE]
    BY <1>2 DEF ActiveFrame
  <2>2. Register(TRUE, {"nfcip"}) \in ModeRegister
    BY DEF Register, ModeRegister, Modulations
  <2>3. /\ rf' \in Rf /\ rf'.wum = "NOT_INIT" /\ rf'.lm = "IDLE" /\ ~rf'.busy /\ rf'.mask = rf.mask
    BY <1>1, <2>1 DEF Rf
  <2>4. /\ chip' \in Chip /\ chip'.auto = chip.auto /\ chip'.efd /\ ~chip'.wu
        /\ chip'.irq = chip.irq /\ chip'.en
    BY ZenonT(60), <1>1, <2>1, <2>2 DEF Chip
  <2>5. ListenInv'
    BY <2>3 DEF ListenInv
  <2> QED BY <1>1, <2>1, <2>3, <2>4, <2>5, ToListening
<1>3. CASE Activated
  <2>1. /\ rf.lm \in {"READY", "READY_Ax"} /\ rf.mode = "LISTEN_NFCA" /\ caller' = caller
        /\ rf' = [rf EXCEPT !.lm = IF @ = "READY" THEN "ACTIVE" ELSE "ACTIVE_Ax"]
        /\ chip' = [chip EXCEPT !.auto = @ \ {"LISTEN_NFCA"}]
    BY <1>3 DEF Activated
  <2>2. /\ rf' \in Rf /\ rf'.wum = "NOT_INIT" /\ rf'.lm \in {"ACTIVE", "ACTIVE_Ax"} /\ ~rf'.busy
        /\ rf'.mask = rf.mask /\ rf'.mode = rf.mode /\ rf'.tx = rf.tx /\ rf'.rx = rf.rx
    BY <1>1, <2>1 DEF Rf, LmNames
  <2>3. /\ chip' \in Chip /\ chip'.auto \subseteq chip.auto /\ chip'.efd /\ ~chip'.wu
        /\ chip'.irq = chip.irq /\ chip'.en = chip.en /\ chip'.mode = chip.mode
        /\ chip'.br = chip.br /\ chip'.stream = chip.stream /\ chip'.analog = chip.analog
    BY <1>1, <2>1 DEF Chip
  <2>4. caller' = "mode" => SetUp(rf', chip')
    <3>1. SetUp(rf, chip) => SetUp(rf', chip')
      BY ONLY <2>2, <2>3, SetUpKept
    <3> QED BY <1>1, <2>1, <3>1
  <2>5. ListenInv'
    BY <1>1, <2>1, <2>2 DEF ListenInv
  <2>6. chip'.auto \subseteq rf'.mask /\ chip'.irq \subseteq Listening /\ chip'.en
    BY <1>1, <2>2, <2>3
  <2> QED BY <1>1, <2>1, <2>2, <2>3, <2>4, <2>5, <2>6, ToListening
<1>4. CASE Frame
  <2>1. rf' = [rf EXCEPT !.data = TRUE] /\ chip' = chip /\ caller' = caller
    BY <1>4 DEF Frame
  <2>2. /\ rf' \in Rf /\ rf'.wum = "NOT_INIT" /\ rf'.lm = rf.lm /\ ~rf'.busy
        /\ rf'.mask = rf.mask /\ rf'.mode = rf.mode /\ rf'.tx = rf.tx /\ rf'.rx = rf.rx
    BY <1>1, <2>1 DEF Rf
  <2>3. caller' = "mode" => SetUp(rf', chip')
    BY <1>1, <2>1, <2>2, SetUpKept
  <2>4. ListenInv'
    BY <1>1, <2>2 DEF ListenInv
  <2> QED BY <1>0, <1>1, <2>1, <2>2, <2>3, <2>4, ToListening
<1>5. CASE DamagedFrame
  <2>1. rf.lm \in {"ACTIVE", "ACTIVE_Ax"} /\ caller' = "up"
    BY <1>5 DEF DamagedFrame
  <2>2. CASE rf.lm = "ACTIVE_Ax"
    <3>1. rf' = ToSleep(rf, chip).rf /\ chip' = ToSleep(rf, chip).chip
      BY <1>5, <2>2 DEF DamagedFrame
    <3> QED BY <1>1, <2>1, <3>1, ToSleepStep
  <2>3. CASE rf.lm = "ACTIVE"
    <3>1. /\ rf' = [rf EXCEPT !.lm = "IDLE"]
          /\ chip' = [chip EXCEPT !.auto = @ \cup {"LISTEN_NFCA"}]
      BY <1>5, <2>3 DEF DamagedFrame
    <3>2. /\ rf' \in Rf /\ rf'.wum = "NOT_INIT" /\ rf'.lm = "IDLE" /\ ~rf'.busy
          /\ rf'.mask = rf.mask
      BY <1>1, <3>1 DEF Rf, LmNames
    <3>3. "LISTEN_NFCA" \in rf.mask /\ "LISTEN_NFCA" \in ListenModes
      BY <1>1, <2>1 DEF ListenInv, ListenModes, PassiveListen
    <3>4. /\ chip' \in Chip /\ chip'.auto \subseteq rf.mask /\ chip'.efd /\ ~chip'.wu
          /\ chip'.irq = chip.irq /\ chip'.en
      BY <1>1, <3>1, <3>3 DEF Chip
    <3>5. ListenInv'
      BY <3>2 DEF ListenInv
    <3> QED BY <1>1, <2>1, <3>2, <3>4, <3>5, ToListening
  <2> QED BY <2>1, <2>2, <2>3
<1> QED BY <1>2, <1>3, <1>4, <1>5

LEMMA ListenWorkerStep == IInv /\ rfalRunListenModeWorker => IInv'
  BY FieldStep, ReadyStep, ActiveStep DEF rfalRunListenModeWorker

\* NFC-DEP sets the mode of an active peer after its first frame.
LEMMA ActiveModeStep == IInv /\ ListenActiveP2P => IInv'
<1> SUFFICES ASSUME IInv, ListenActiveP2P PROVE IInv'
  OBVIOUS
<1> DEFINE r == rfalSetMode(rf, chip, "LISTEN_ACTIVE_P2P", "106", "106")
<1>0. /\ rf.lm = "IDLE" /\ caller = "up" /\ UNCHANGED <<variant, ext, level, asked, changed>>
      /\ rf' = r.rf /\ chip' = r.chip /\ caller' = IF r.ok THEN "mode" ELSE "up"
  BY DEF ListenActiveP2P
<1>1. /\ ListenInv /\ rf \in Rf /\ chip \in Chip
      /\ rf.wum = "NOT_INIT" /\ ~rf.busy /\ chip.efd /\ ~chip.wu
      /\ chip.irq \subseteq Listening /\ chip.auto \subseteq rf.mask
      /\ "LISTEN_NFCB" \notin rf.mask /\ chip.en
  BY <1>0, ListenUse
<1>2. /\ r.rf \in Rf /\ r.chip \in Chip /\ r.ok \in BOOLEAN
      /\ SameUse(rf, r.rf) /\ SameChip(chip, r.chip) /\ (r.chip.wu => chip.wu)
      /\ r.ok /\ chip.en => SetUp(r.rf, r.chip)
  <2>1. "LISTEN_ACTIVE_P2P" \in AnyMode /\ "LISTEN_ACTIVE_P2P" \notin NFCV /\ "106" \in RateNames
    BY DEF AnyMode, ListenModes, NFCV, RateNames
  <2>2. r = rfalSetMode(rf, chip, "LISTEN_ACTIVE_P2P", "106", "106")
    OBVIOUS
  <2> HIDE DEF r
  <2> QED BY <1>1, <2>1, <2>2, SetModeResult
<1> HIDE DEF r
<1>3. caller' \in {"up", "mode"} /\ (caller' = "mode" => SetUp(rf', chip'))
  BY <1>0, <1>1, <1>2
<1>4. /\ rf' \in Rf /\ chip' \in Chip /\ rf'.lm = "IDLE" /\ rf'.wum = "NOT_INIT"
      /\ ~rf'.busy /\ rf'.mask = rf.mask /\ chip'.en /\ chip'.auto \subseteq rf.mask
      /\ chip'.irq \subseteq Listening /\ chip'.efd /\ ~chip'.wu
  BY <1>0, <1>1, <1>2 DEF SameUse, SameChip
<1>5. ListenInv'
  BY <1>4 DEF ListenInv
<1> QED BY <1>0, <1>1, <1>3, <1>4, <1>5, ToListening

-----------------------------------------------------------------------------
(* Wake-up mode.                                                           *)

\* A configuration is one function of its five parts.
LEMMA ConfigParts ==
  ASSUME NEW c
  PROVE  c \in WakeUpConfig <=>
           /\ c = [sw |-> c.sw, tout |-> c.tout, amp |-> c.amp, pha |-> c.pha, cap |-> c.cap]
           /\ c.sw \in BOOLEAN /\ c.tout \in BOOLEAN
           /\ c.amp \in Measurement /\ c.pha \in Measurement /\ c.cap \in Measurement
  BY DEF WakeUpConfig

\* The configuration in use is typed: the caller's, or that of the library.
LEMMA ConfigForTyped ==
  ASSUME NEW given \in WakeUpConfigs
  PROVE  ConfigFor(given) \in WakeUpConfig
<1>1. CASE given # DefaultConfig
  BY <1>1, ModeAssumption DEF ConfigFor
<1>2. CASE given = DefaultConfig
  <2>1. /\ [on |-> TRUE, delta |-> 1, frac |-> 2, ref |-> ReferenceAuto, avg |-> TRUE] \in Measurement
        /\ [on |-> TRUE, delta |-> 2, frac |-> 0, ref |-> ReferenceAuto, avg |-> FALSE] \in Measurement
    BY DEF Measurement, ReferenceAuto
  <2>2. ASSUME NEW a \in Measurement
        PROVE  [NoConfig EXCEPT !.sw = TRUE, !.amp = a] \in WakeUpConfig
    BY Resets DEF WakeUpConfig
  <2>3. PICK a \in Measurement : ConfigFor(given) = [NoConfig EXCEPT !.sw = TRUE, !.amp = a]
    BY <1>2, <2>1 DEF ConfigFor
  <2> QED BY <2>2, <2>3
<1> QED BY <1>1, <1>2

\* What is measured can be a reference, and is never taken for the automatic one.
LEMMA LevelsAreReferences ==
  /\ Levels \subseteq 0..ReferenceAuto /\ ReferenceAuto \notin Levels
  /\ \A v \in Levels : v \in 0..ReferenceAuto /\ v # ReferenceAuto
<1>1. \A v \in 0..(ReferenceAuto - 1) : v \in 0..ReferenceAuto /\ v # ReferenceAuto
  BY DEF ReferenceAuto
<1> QED BY <1>1, ModeAssumption

\* A measured reference is a reference.
LEMMA MeasuredTyped ==
  ASSUME NEW c \in WakeUpConfig, NEW l \in [Kinds -> Levels]
  PROVE  Measured(c, l) \in WakeUpConfig
<1> DEFINE m == Measured(c, l)
<1>1. ASSUME NEW k \in Kinds
      PROVE  /\ c[k] \in Measurement /\ l[k] \in 0..ReferenceAuto
             /\ m[k] = c[k] \/ m[k] = [c[k] EXCEPT !.ref = l[k]]
  <2>1. c[k] \in Measurement
    BY DEF Kinds, WakeUpConfig
  <2>2. l[k] \in 0..ReferenceAuto
    BY LevelsAreReferences
  <2>3. m[k] = c[k] \/ m[k] = [c[k] EXCEPT !.ref = l[k]]
    BY DEF Measured
  <2> QED BY <2>1, <2>2, <2>3
<1>2. ASSUME NEW k \in Kinds
      PROVE  m[k] \in Measurement
  BY <1>1 DEF Measurement
<1>3. m["sw"] = c["sw"] /\ m["tout"] = c["tout"]
  BY DEF Measured, On, Kinds
<1>4. c.sw \in BOOLEAN /\ c.tout \in BOOLEAN
  BY DEF WakeUpConfig
<1>5. m = [sw |-> m.sw, tout |-> m.tout, amp |-> m.amp, pha |-> m.pha, cap |-> m.cap]
  BY DEF Measured, Kinds
<1>6. m.amp \in Measurement /\ m.pha \in Measurement /\ m.cap \in Measurement
  BY <1>2 DEF Kinds
<1> HIDE DEF m
<1> QED BY <1>3, <1>4, <1>5, <1>6, ConfigParts DEF m

\* The references the configuration asks for, when it is in use.
LEMMA AskedTyped ==
  ASSUME NEW c \in WakeUpConfig, NEW l \in [Kinds -> Levels]
  PROVE  Asked(c, l) \in [Kinds -> 0..ReferenceAuto]
<1>1. ASSUME NEW k \in Kinds
      PROVE  c[k].ref \in 0..ReferenceAuto /\ l[k] \in 0..ReferenceAuto
  <2>1. c[k] \in Measurement
    BY DEF Kinds, WakeUpConfig
  <2>2. l[k] \in 0..ReferenceAuto
    BY LevelsAreReferences
  <2> QED BY <2>1, <2>2 DEF Measurement
<1>2. 0 \in 0..ReferenceAuto
  BY DEF ReferenceAuto
<1> QED BY <1>1, <1>2 DEF Asked

LEMMA WakeUpStartStep == IInv /\ rfalWakeUpModeStart => IInv'
<1> SUFFICES ASSUME IInv, rfalWakeUpModeStart PROVE IInv'
  OBVIOUS
<1>0. /\ Idle /\ ~rf.busy /\ UNCHANGED <<variant, ext>>
      /\ rf \in Rf /\ chip \in Chip
  BY DEF rfalWakeUpModeStart, IInv, Typed
<1>1. /\ Typed /\ ListenInv /\ caller # "down" /\ rf.wum = "NOT_INIT" /\ rf.lm = "NOT_INIT"
      /\ chip.auto = {}
  BY <1>0, IdleUse DEF IInv
<1>2. CASE UNCHANGED <<rf, chip, level, asked, changed, caller>>
  <2>1. Typed'
    BY <1>0, <1>1, <1>2 DEF Typed
  <2>2. UseInv' /\ ListenInv'
    BY <1>2 DEF IInv, UseInv, LeftAsFound, ListenInv, SetUp
  <2> QED BY <2>1, <2>2 DEF IInv
<1>3. ASSUME NEW c \in WakeUpConfig, NEW now \in [Kinds -> Levels],
             rf' = [rf EXCEPT !.cfg = Measured(c, now), !.wum = "ENABLED", !.state = "WUM"],
             chip' = [chip EXCEPT
                 !.tx = FALSE, !.efd = FALSE, !.en = FALSE, !.wu = TRUE,
                 !.mode = Register(FALSE, {"iso14443a"}),
                 !.irq = On(c) \cup (IF c.tout \/ c.sw THEN {"WT"} ELSE {}), !.raised = {},
                 !.wuMeas = IF c.sw THEN {} ELSE On(c), !.wuTout = c.tout \/ c.sw,
                 !.ref = [k \in Kinds |-> IF k \in On(c) /\ (~c[k].avg \/ c.sw)
                                         THEN Measured(c, now)[k].ref ELSE @[k]]],
             level' = now, asked' = Asked(c, now), changed' = Differs(c, asked', now),
             caller' = "up"
      PROVE  IInv'
  <2> DEFINE cfg == Measured(c, now)
             om == Register(FALSE, {"iso14443a"})
             irq == On(c) \cup (IF c.tout \/ c.sw THEN {"WT"} ELSE {})
             meas == IF c.sw THEN {} ELSE On(c)
             tout == c.tout \/ c.sw
             ref == [k \in Kinds |-> IF k \in On(c) /\ (~c[k].avg \/ c.sw)
                                     THEN cfg[k].ref ELSE chip.ref[k]]
  <2>1. cfg \in WakeUpConfig
    BY MeasuredTyped
  <2>2. /\ om \in ModeRegister /\ om.targ = FALSE
        /\ irq \in SUBSET (Kinds \cup {"WT", "LM", "RX"}) /\ irq \subseteq Kinds \cup {"WT"}
        /\ meas \in SUBSET Kinds /\ tout \in BOOLEAN
    <3>1. om \in ModeRegister /\ om.targ = FALSE
      BY DEF Register, ModeRegister, Modulations
    <3>2. c.tout \in BOOLEAN /\ c.sw \in BOOLEAN
      BY DEF WakeUpConfig
    <3> QED BY <3>1, <3>2 DEF On, Kinds
  <2>3. ref \in [Kinds -> 0..ReferenceAuto]
    <3> HIDE DEF cfg
    <3>1. \A k \in Kinds : cfg[k].ref \in 0..ReferenceAuto
      BY <2>1 DEF Kinds, WakeUpConfig, Measurement
    <3>2. \A k \in Kinds : chip.ref[k] \in 0..ReferenceAuto
      BY <1>0 DEF Chip
    <3> QED BY <3>1, <3>2
  <2>4. /\ rf' = [rf EXCEPT !.cfg = cfg, !.wum = "ENABLED", !.state = "WUM"]
        /\ chip' = [chip EXCEPT !.tx = FALSE, !.efd = FALSE, !.en = FALSE, !.wu = TRUE,
                                !.mode = om, !.irq = irq, !.raised = {}, !.wuMeas = meas,
                                !.wuTout = tout, !.ref = ref]
    BY <1>0, <1>3 DEF Chip
  <2> HIDE DEF cfg, om, irq, meas, tout, ref
  <2>5. /\ rf' \in Rf /\ rf'.wum = "ENABLED" /\ rf'.lm = "NOT_INIT" /\ rf'.busy = FALSE
        /\ rf'.mask = rf.mask
    BY <1>0, <1>1, <2>1, <2>4 DEF Rf
  <2>6. /\ chip' \in Chip /\ chip'.auto = {} /\ chip'.tx = FALSE /\ chip'.efd = FALSE
        /\ chip'.en = FALSE /\ chip'.wu = TRUE /\ chip'.mode = om /\ chip'.irq = irq
    <3> DEFINE d == [chip EXCEPT !.tx = FALSE, !.efd = FALSE, !.en = FALSE, !.wu = TRUE,
                                 !.mode = om]
    <3>1. /\ d \in Chip /\ d.auto = {} /\ d.tx = FALSE /\ d.efd = FALSE /\ d.en = FALSE
          /\ d.wu = TRUE /\ d.mode = om
      BY <1>0, <1>1, <2>2 DEF Chip
    <3>2. chip' = [d EXCEPT !.irq = irq, !.raised = {}, !.wuMeas = meas, !.wuTout = tout,
                            !.ref = ref]
      BY <1>0, <2>4 DEF Chip
    <3> HIDE DEF d
    <3>3. {} \in SUBSET (Kinds \cup {"WT"})
      OBVIOUS
    <3> QED BY ZenonT(60), <2>2, <2>3, <3>1, <3>2, <3>3 DEF Chip
  <2>7. changed' \in BOOLEAN
    BY <1>3 DEF Differs
  <2>8. asked' \in [Kinds -> 0..ReferenceAuto]
    BY <1>3, AskedTyped
  <2>9. Typed'
    BY <1>0, <1>1, <1>3, <2>5, <2>6, <2>7, <2>8 DEF Typed
  <2>10. UseInv' /\ ListenInv'
    BY ZenonT(60), <1>3, <2>2, <2>5, <2>6 DEF UseInv, LeftAsFound, ListenInv
  <2> QED BY <2>9, <2>10 DEF IInv
<1>4. ASSUME NEW given \in WakeUpConfigs, NEW l \in [On(ConfigFor(given)) -> Levels]
      PROVE  [k \in Kinds |-> IF k \in On(ConfigFor(given)) THEN l[k] ELSE AnyLevel[k]]
               \in [Kinds -> Levels]
  BY Resets
<1> QED BY ZenonT(60), <1>2, <1>3, <1>4, ConfigForTyped DEF rfalWakeUpModeStart

\* What wake-up mode relies on.
LEMMA WakeUpUse ==
  ASSUME IInv, caller # "down", rf.wum # "NOT_INIT"
  PROVE  /\ Typed /\ ListenInv /\ rf \in Rf /\ chip \in Chip /\ rf.lm = "NOT_INIT"
         /\ ~chip.mode.targ /\ ~chip.tx /\ ~chip.efd /\ chip.auto = {} /\ chip.irq \subseteq Kinds \cup {"WT"}
         /\ (rf.wum = "ENABLED" => chip.wu /\ ~chip.en)
         /\ caller = "up" /\ ~rf.busy
<1>1. caller # "mode"
  BY DEF IInv, UseInv
<1>2. caller = "up"
  BY <1>1 DEF IInv, Typed
<1>3. ~rf.busy
  BY <1>1 DEF IInv, UseInv
<1> QED BY <1>2, <1>3 DEF IInv, Typed, UseInv, LeftAsFound

\* Only interrupts are raised.
LEMMA WakeUpTimerStep == IInv /\ WakeUpTimer => IInv'
<1> SUFFICES ASSUME IInv, WakeUpTimer PROVE IInv'
  OBVIOUS
<1> DEFINE set == chip.raised \cup (chip.irq \cap
                    ((IF chip.wuTout THEN {"WT"} ELSE {})
                     \cup {k \in chip.wuMeas : Moved(k, chip.ref[k], rf.cfg[k].delta)}))
<1>0. /\ Typed /\ UseInv /\ ListenInv
      /\ UNCHANGED <<variant, rf, ext, level, asked, changed, caller>>
      /\ chip' = [chip EXCEPT !.raised = set]
  BY DEF IInv, WakeUpTimer, Typed, Chip
<1>1. set \in SUBSET (Kinds \cup {"WT"})
  BY <1>0 DEF Typed, Chip
<1> HIDE DEF set
<1>2. /\ chip' \in Chip /\ chip'.en = chip.en /\ chip'.tx = chip.tx /\ chip'.wu = chip.wu
      /\ chip'.efd = chip.efd /\ chip'.auto = chip.auto /\ chip'.irq = chip.irq
      /\ chip'.mode = chip.mode /\ chip'.br = chip.br
      /\ chip'.stream = chip.stream /\ chip'.analog = chip.analog
  BY <1>0, <1>1 DEF Typed, Chip
<1>3. Typed'
  BY <1>0, <1>2 DEF Typed
<1>4. SetUp(rf, chip) => SetUp(rf', chip')
  BY <1>0, <1>2, SetUpKept
<1>5. UseInv' /\ ListenInv'
  BY <1>0, <1>2, <1>4 DEF UseInv, LeftAsFound, ListenInv
<1> QED BY <1>3, <1>5 DEF IInv

\* The worker wakes, measures or goes back to sleep.
LEMMA WakeUpWorkerStep == IInv /\ rfalRunWakeUpModeWorker => IInv'
<1> SUFFICES ASSUME IInv, rfalRunWakeUpModeWorker PROVE IInv'
  OBVIOUS
<1> DEFINE tag == \E k \in On(rf.cfg) : Moved(k, rf.cfg[k].ref, rf.cfg[k].delta)
           byTime == "WT" \in chip.raised /\ rf.cfg.sw
           woken == chip.raised \cap Kinds # {} \/ (byTime /\ tag)
           c == [chip EXCEPT !.raised = {}]
<1>0. /\ caller # "down" /\ rf.wum # "NOT_INIT"
      /\ UNCHANGED <<variant, ext, level, asked, changed, caller>>
      /\ rf' = [rf EXCEPT !.wum = IF woken THEN "WOKE" ELSE @]
      /\ chip' = IF ~byTime THEN c ELSE IF tag THEN ReadyToMeasure(c) ELSE SleepAgain(ReadyToMeasure(c))
  BY DEF rfalRunWakeUpModeWorker
<1>1. /\ Typed /\ ListenInv /\ rf \in Rf /\ chip \in Chip /\ rf.lm = "NOT_INIT"
      /\ ~chip.mode.targ /\ ~chip.tx /\ ~chip.efd /\ chip.auto = {} /\ chip.irq \subseteq Kinds \cup {"WT"}
      /\ (rf.wum = "ENABLED" => chip.wu /\ ~chip.en)
      /\ caller = "up" /\ ~rf.busy
  BY <1>0, WakeUpUse
<1>2. /\ c \in Chip /\ c.mode = chip.mode /\ c.tx = chip.tx /\ c.efd = chip.efd
      /\ c.auto = chip.auto /\ c.irq = chip.irq /\ c.wu = chip.wu /\ c.en = chip.en
  BY <1>1 DEF Chip
<1> HIDE DEF tag, woken, c
<1>3. /\ rf' \in Rf /\ rf'.wum = IF woken THEN "WOKE" ELSE rf.wum
      /\ rf'.lm = rf.lm /\ rf'.mask = rf.mask /\ rf'.busy = rf.busy
  <2>1. CASE woken
    <3>1. rf' = [rf EXCEPT !.wum = "WOKE"]
      BY <1>0, <1>1, <2>1
    <3> QED BY <1>1, <2>1, <3>1 DEF Rf
  <2>2. CASE ~woken
    <3>1. rf' = rf
      BY <1>0, <1>1, <2>2 DEF Rf
    <3> QED BY <1>1, <2>2, <3>1
  <2> QED BY <2>1, <2>2
<1>4. byTime /\ tag => woken
  BY DEF woken
<1>5. /\ chip' \in Chip /\ chip'.mode = chip.mode /\ chip'.tx = chip.tx /\ chip'.efd = chip.efd
      /\ chip'.auto = chip.auto /\ chip'.irq = chip.irq
      /\ ~(byTime /\ tag) => \/ chip'.wu = chip.wu /\ chip'.en = chip.en
                             \/ chip'.wu = TRUE /\ chip'.en = FALSE
  <2>1. CASE ~byTime
    <3>1. chip' = c
      BY <1>0, <2>1
    <3> QED BY <1>2, <3>1
  <2>2. CASE byTime /\ tag
    <3>1. chip' = [c EXCEPT !.en = TRUE, !.wu = FALSE]
      BY <1>0, <2>2 DEF ReadyToMeasure
    <3> QED BY ZenonT(60), <1>2, <2>2, <3>1 DEF Chip
  <2>3. CASE byTime /\ ~tag
    <3>1. chip' = [[c EXCEPT !.en = TRUE, !.wu = FALSE] EXCEPT !.en = FALSE, !.wu = TRUE]
      BY <1>0, <2>3 DEF ReadyToMeasure, SleepAgain
    <3> QED BY ZenonT(60), <1>2, <3>1 DEF Chip
  <2> QED BY <2>1, <2>2, <2>3
<1> HIDE DEF byTime
<1>6. rf'.wum # "NOT_INIT" /\ (rf'.wum = "ENABLED" => chip'.wu /\ ~chip'.en)
  BY <1>0, <1>1, <1>3, <1>4, <1>5
<1>7. Typed'
  BY <1>0, <1>1, <1>3, <1>5 DEF Typed
<1>8. UseInv' /\ ListenInv'
  BY <1>0, <1>1, <1>3, <1>5, <1>6 DEF UseInv, LeftAsFound, ListenInv
<1> QED BY <1>7, <1>8 DEF IInv

\* Leaving wake-up mode: as before it was started.
LEMMA WakeUpStopStep == IInv /\ rfalWakeUpModeStop => IInv'
<1> SUFFICES ASSUME IInv, rfalWakeUpModeStop PROVE IInv'
  OBVIOUS
<1> DEFINE irq == chip.irq \ (Kinds \cup {"WT"})
           d == [chip EXCEPT !.wu = FALSE, !.irq = irq, !.efd = TRUE, !.raised = {}, !.wuMeas = {},
                             !.wuTout = FALSE, !.ref = Reset.ref]
<1>0. /\ caller # "down" /\ rf.wum # "NOT_INIT" /\ UNCHANGED <<variant, ext, caller>>
      /\ rf' = [rf EXCEPT !.wum = "NOT_INIT", !.cfg = NoConfig]
      /\ chip' = [[chip EXCEPT !.wu = FALSE, !.irq = @ \ (Kinds \cup {"WT"}), !.efd = TRUE,
                       !.raised = {}, !.wuMeas = {}, !.wuTout = FALSE, !.ref = Reset.ref] EXCEPT !.en = TRUE]
      /\ level' = AnyLevel /\ asked' = Reset.ref /\ changed' = FALSE
  BY DEF rfalWakeUpModeStop, st25r3916OscOn
<1>1. /\ Typed /\ ListenInv /\ rf \in Rf /\ chip \in Chip /\ rf.lm = "NOT_INIT"
      /\ ~chip.mode.targ /\ ~chip.tx /\ chip.auto = {} /\ chip.irq \subseteq Kinds \cup {"WT"}
      /\ caller = "up" /\ ~rf.busy
  BY <1>0, WakeUpUse
<1>2. irq = {} /\ irq \in SUBSET (Kinds \cup {"WT", "LM", "RX"}) /\ Reset.ref \in [Kinds -> 0..ReferenceAuto]
  BY <1>1, ChipFields, Resets
<1>3. chip' = [d EXCEPT !.en = TRUE]
  BY <1>0, <1>1 DEF Chip
<1> HIDE DEF irq
<1>4. /\ d \in Chip /\ d.wu = FALSE /\ d.efd = TRUE /\ d.irq = {} /\ d.auto = {} /\ d.tx = chip.tx
      /\ d.mode = chip.mode
  <2> DEFINE e == [chip EXCEPT !.wu = FALSE, !.irq = irq, !.efd = TRUE, !.raised = {}]
  <2>1. /\ e \in Chip /\ e.wu = FALSE /\ e.efd = TRUE /\ e.irq = {} /\ e.auto = {}
        /\ e.tx = chip.tx /\ e.mode = chip.mode
    <3>1. {} \in SUBSET (Kinds \cup {"WT"})
      OBVIOUS
    <3> QED BY ZenonT(60), <1>1, <1>2, <3>1 DEF Chip
  <2> DEFINE zero == Reset.ref
  <2>2. d = [e EXCEPT !.wuMeas = {}, !.wuTout = FALSE, !.ref = zero]
    BY <1>1 DEF Chip
  <2> HIDE DEF e, d
  <2>3. {} \in SUBSET Kinds /\ zero \in [Kinds -> 0..ReferenceAuto]
    BY <1>2
  <2> HIDE DEF zero
  <2> QED BY ZenonT(60), <2>1, <2>2, <2>3 DEF Chip
<1> HIDE DEF d
<1>5. /\ chip' \in Chip /\ chip'.en = TRUE /\ chip'.wu = FALSE /\ chip'.efd = TRUE /\ chip'.irq = {}
      /\ chip'.auto = {} /\ ~chip'.tx /\ ~chip'.mode.targ
  BY ZenonT(60), <1>1, <1>3, <1>4 DEF Chip
<1>6. /\ rf' \in Rf /\ rf'.wum = "NOT_INIT" /\ rf'.lm = "NOT_INIT" /\ rf'.busy = rf.busy
      /\ rf'.mask = rf.mask
  BY <1>0, <1>1, Resets DEF Rf
<1>7. Typed'
  BY <1>0, <1>1, <1>5, <1>6, Resets DEF Typed
<1>8. UseInv' /\ ListenInv'
  BY <1>0, <1>1, <1>5, <1>6 DEF UseInv, LeftAsFound, ListenInv
<1> QED BY <1>7, <1>8 DEF IInv

\* The world, and the calls that change nothing.
LEMMA WorldStep ==
  ASSUME IInv, LevelChanges \/ ExternalField \/ UNCHANGED vars
  PROVE  IInv'
<1>0. UNCHANGED <<variant, rf, chip, asked, caller>>
  BY DEF LevelChanges, ExternalField, vars
<1>1. ext' \in BOOLEAN /\ changed' \in BOOLEAN
  BY DEF IInv, Typed, LevelChanges, ExternalField, vars, Differs
<1>2. level' \in [Kinds -> Levels]
  <2>1. CASE LevelChanges
    BY <2>1 DEF LevelChanges, IInv, Typed
  <2>2. CASE UNCHANGED level
    BY <2>2 DEF IInv, Typed
  <2> QED BY <2>1, <2>2 DEF ExternalField, vars
<1>3. Typed'
  BY <1>0, <1>1, <1>2 DEF IInv, Typed
<1>4. UseInv' /\ ListenInv'
  BY <1>0 DEF IInv, UseInv, LeftAsFound, ListenInv, SetUp
<1> QED BY <1>3, <1>4 DEF IInv

-----------------------------------------------------------------------------
(* The theorems.                                                           *)

\* Every step preserves the invariant.
LEMMA IInvNext == IInv /\ [Next]_vars => IInv'
<1> SUFFICES ASSUME IInv, [Next]_vars PROVE IInv'
  OBVIOUS
<1>1. CASE rfalInitialize \/ rfalDeinitialize
  BY <1>1, InitializeStep, DeinitializeStep
<1>2. CASE SetMode \/ SetBitRate
  BY <1>2, SetModeStep, SetBitRateStep
<1>3. CASE rfalFieldOnAndStartGT \/ rfalFieldOff \/ rfalStartTransceive \/ ExchangeEnds
  BY <1>3, FieldOnStep, FieldOffStep, ExchangeStep
<1>4. CASE \/ rfalListenStart \/ rfalRunListenModeWorker \/ ListenActiveP2P
           \/ rfalListenSleepStart \/ rfalListenStop
  BY <1>4, ListenStartStep, ListenWorkerStep, ActiveModeStep, ListenSleepStep, ListenStopStep
<1>5. CASE rfalWakeUpModeStart \/ WakeUpTimer \/ rfalRunWakeUpModeWorker \/ rfalWakeUpModeStop
  BY <1>5, WakeUpStartStep, WakeUpTimerStep, WakeUpWorkerStep, WakeUpStopStep
<1>6. CASE LevelChanges \/ ExternalField \/ UNCHANGED vars
  BY <1>6, WorldStep
<1> QED BY <1>1, <1>2, <1>3, <1>4, <1>5, <1>6 DEF Next

\* Whatever calls have been made, in whatever state the chip and the world were.
THEOREM Uses == Spec => []IInv
  BY IInvInit, IInvNext, PTL DEF Spec

\* Every variable has its type, and the chip answers only as the mask allows.
THEOREM TypeCorrect == Spec => []TypeOK
<1>1. IInv => TypeOK
  <2> SUFFICES ASSUME IInv PROVE TypeOK
    OBVIOUS
  <2>1. rf \in Rf /\ chip \in Chip
    BY DEF IInv, Typed
  <2>2. rf.mode = "NONE" \/ Implemented(rf.mode)
    BY <2>1, RfFields DEF Implemented
  <2> QED BY <2>1, <2>2, RfFields, ChipFields DEF IInv, Typed, TypeOK, LmNames, Listening, Receiving
<1> QED BY <1>1, Uses, PTL

\* Polling, listening and wake-up mode leave the chip as the others expect it.
THEOREM AlwaysLeftAsFound == Spec => []LeftAsFound
<1>1. IInv => LeftAsFound
  BY DEF IInv, UseInv
<1> QED BY <1>1, Uses, PTL

\* An exchange runs with the registers of the mode and the rates remembered.
THEOREM ExchangeAlwaysInMode == Spec => []ExchangeInMode
<1>1. IInv => ExchangeInMode
  BY DEF IInv, UseInv, SetUp, ExchangeInMode
<1> QED BY <1>1, Uses, PTL

-----------------------------------------------------------------------------
(* The reader wakes for a change only.  It does for the configurations     *)
(* whose references and distances the code follows: a whole distance (the  *)
(* worker leaves the fraction out), no averaging by the chip (what it has  *)
(* averaged is not in the model), and a capacitive reference that is       *)
(* automatic where that of the phase, which the code looks at, is.         *)

Exact(c) ==
  \A k \in On(c) : /\ c[k].frac = 0 /\ (c[k].avg => c.sw)
                   /\ c[Decides(k)].ref = ReferenceAuto <=> c[k].ref = ReferenceAuto

\* The configuration of the library itself has a fraction on one of the chips.
ExactConfigs ==
  /\ \A c \in WakeUpConfigs \ {DefaultConfig} : Exact(c)
  /\ DefaultConfig \in WakeUpConfigs => \A v \in Variants : v.b \/ ~v.aat

\* The worker and the chip compare with the references asked for; whatever has made, or
\* is about to make, the reader wake has been seen as a change.
References ==
  /\ chip.wuMeas \subseteq On(rf.cfg)
  /\ \A k \in On(rf.cfg) : rf.cfg[k].frac = 0 /\ rf.cfg[k].ref = asked[k]
  /\ \A k \in chip.wuMeas : chip.ref[k] = asked[k]
Seen ==
  /\ rf.wum = "WOKE" => changed
  /\ chip.raised \cap Kinds # {} => changed
  /\ Differs(rf.cfg, asked, level) => changed

WakeInv == caller # "down" /\ rf.wum # "NOT_INIT" => References /\ Seen

\* A level that a comparison finds moved differs by the distance asked for.
LEMMA MovedDiffers ==
  ASSUME IInv, References, NEW k \in On(rf.cfg), Moved(k, asked[k], rf.cfg[k].delta)
  PROVE  Differs(rf.cfg, asked, level)
<1>1. k \in Kinds
  BY DEF On
<1>2. rf.cfg[k] \in Measurement
  BY <1>1 DEF IInv, Typed, Rf, WakeUpConfig, Kinds
<1>3. rf.cfg[k].delta \in Nat /\ rf.cfg[k].frac = 0
  BY <1>2 DEF Measurement, References
<1>4. level[k] \in 0..ReferenceAuto /\ asked[k] \in 0..ReferenceAuto
  BY <1>1, LevelsAreReferences DEF IInv, Typed
<1> DEFINE a == asked[k]
           l == level[k]
           n == rf.cfg[k].delta
           d == IF l > a THEN l - a ELSE a - l
<1>5. l \in Int /\ a \in Int /\ n \in Nat /\ (l >= a + n \/ l <= a - n)
  BY <1>3, <1>4 DEF Moved
<1> HIDE DEF a, l, n
<1>6. 4 * d >= 4 * n + 0
  BY <1>5
<1> QED BY <1>3, <1>6 DEF Differs, a, l, n

\* The references, once measured, are those asked for.
LEMMA MeasuredReferences ==
  ASSUME NEW c \in WakeUpConfig, NEW l \in [Kinds -> Levels], Exact(c)
  PROVE  /\ On(Measured(c, l)) = On(c)
         /\ \A k \in On(c) : /\ Measured(c, l)[k].frac = 0
                             /\ Measured(c, l)[k].delta = c[k].delta
                             /\ Measured(c, l)[k].ref = Asked(c, l)[k]
<1> DEFINE m == Measured(c, l)
<1>1. ASSUME NEW k \in Kinds
      PROVE  /\ c[k] \in Measurement
             /\ m[k] = IF k \in On(c) /\ (~c[k].avg \/ c.sw) /\ c[Decides(k)].ref = ReferenceAuto
                       THEN [c[k] EXCEPT !.ref = l[k]] ELSE c[k]
  BY DEF Measured, Kinds, WakeUpConfig
<1>2. ASSUME NEW k \in Kinds
      PROVE  /\ m[k].on = c[k].on /\ m[k].delta = c[k].delta /\ m[k].frac = c[k].frac
             /\ m[k].ref = IF k \in On(c) /\ (~c[k].avg \/ c.sw) /\ c[Decides(k)].ref = ReferenceAuto
                           THEN l[k] ELSE c[k].ref
  BY <1>1 DEF Measurement
<1> HIDE DEF m
<1>3. On(m) = On(c)
  BY <1>2 DEF On
<1>4. ASSUME NEW k \in On(c)
      PROVE  m[k].frac = 0 /\ m[k].delta = c[k].delta /\ m[k].ref = Asked(c, l)[k]
  <2>1. k \in Kinds
    BY DEF On
  <2>2. Asked(c, l)[k] = IF c[k].ref = ReferenceAuto THEN l[k] ELSE c[k].ref
    BY <2>1 DEF Asked
  <2>3. /\ c[k].frac = 0 /\ (~c[k].avg \/ c.sw)
        /\ c[Decides(k)].ref = ReferenceAuto <=> c[k].ref = ReferenceAuto
    BY DEF Exact
  <2> QED BY <1>2, <2>1, <2>2, <2>3
<1> QED BY <1>3, <1>4 DEF m

LEMMA ConfigForExact ==
  ASSUME ExactConfigs, variant \in Variants, NEW given \in WakeUpConfigs
  PROVE  Exact(ConfigFor(given))
<1>1. CASE given # DefaultConfig
  BY <1>1 DEF ConfigFor, ExactConfigs
<1>2. CASE given = DefaultConfig
  <2> DEFINE a == [on |-> TRUE, delta |-> 2, frac |-> 0, ref |-> ReferenceAuto, avg |-> FALSE]
             c == [NoConfig EXCEPT !.sw = TRUE, !.amp = a]
  <2>1. ConfigFor(given) = c
    BY <1>2 DEF ConfigFor, ExactConfigs
  <2>2. a.frac = 0 /\ a.avg = FALSE
    OBVIOUS
  <2> HIDE DEF a
  <2>3. c.amp = a /\ c.pha.on = FALSE /\ c.cap.on = FALSE
    BY DEF NoConfig
  <2>4. c["amp"] = a /\ c["pha"].on = FALSE /\ c["cap"].on = FALSE
    BY <2>3
  <2> HIDE DEF c
  <2>5. \A k \in On(c) : k = "amp"
    BY <2>4 DEF On, Kinds
  <2>6. Exact(c)
    BY <2>2, <2>4, <2>5 DEF Exact, Decides
  <2> QED BY <2>1, <2>6
<1> QED BY <1>1, <1>2

LEMMA WakeInvStart ==
  ASSUME ExactConfigs, IInv, WakeInv, rfalWakeUpModeStart
  PROVE  WakeInv'
<1>0. variant \in Variants /\ chip \in Chip /\ rf \in Rf
  BY DEF IInv, Typed
<1>1. CASE UNCHANGED <<rf, chip, level, asked, changed, caller>>
  BY <1>1 DEF WakeInv, References, Seen, Differs
<1>2. ASSUME NEW c \in WakeUpConfig, Exact(c), NEW now \in [Kinds -> Levels],
             rf' = [rf EXCEPT !.cfg = Measured(c, now), !.wum = "ENABLED", !.state = "WUM"],
             chip'.raised = {}, chip'.wuMeas \subseteq On(c),
             \A k \in On(c) : (~c[k].avg \/ c.sw) => chip'.ref[k] = Measured(c, now)[k].ref,
             level' = now, asked' = Asked(c, now), changed' = Differs(c, asked', now)
      PROVE  WakeInv'
  <2>1. rf'.cfg = Measured(c, now) /\ rf'.wum = "ENABLED"
    BY <1>0, <1>2 DEF Rf
  <2>2. /\ On(rf'.cfg) = On(c)
        /\ \A k \in On(c) : /\ rf'.cfg[k].frac = 0 /\ rf'.cfg[k].delta = c[k].delta
                            /\ rf'.cfg[k].ref = asked'[k]
    BY <1>2, <2>1, MeasuredReferences
  <2>3. \A k \in On(c) : chip'.ref[k] = asked'[k]
    BY <1>2, <2>1, <2>2 DEF Exact
  <2>4. References'
    BY <1>2, <2>2, <2>3 DEF References
  <2>5. \A k \in On(c) : c[k].frac = 0
    BY <1>2 DEF Exact
  <2>6. Differs(rf'.cfg, asked', level') <=> Differs(c, asked', now)
    BY <1>2, <2>2, <2>5 DEF Differs
  <2>7. Seen'
    BY <1>2, <2>1, <2>6 DEF Seen
  <2> QED BY <2>4, <2>7 DEF WakeInv
<1>3. CASE ~UNCHANGED <<rf, chip, level, asked, changed, caller>>
  <2>0. PICK given \in WakeUpConfigs :
          \E l \in [On(ConfigFor(given)) -> Levels] :
            LET c == ConfigFor(given)
                now == [k \in Kinds |-> IF k \in On(c) THEN l[k] ELSE AnyLevel[k]]
                cfg == Measured(c, now)
            IN /\ rf' = [rf EXCEPT !.cfg = cfg, !.wum = "ENABLED", !.state = "WUM"]
               /\ chip' = [chip EXCEPT
                    !.tx = FALSE, !.efd = FALSE, !.en = FALSE, !.wu = TRUE,
                    !.mode = Register(FALSE, {"iso14443a"}),
                    !.irq = On(c) \cup (IF c.tout \/ c.sw THEN {"WT"} ELSE {}), !.raised = {},
                    !.wuMeas = IF c.sw THEN {} ELSE On(c), !.wuTout = c.tout \/ c.sw,
                    !.ref = [k \in Kinds |-> IF k \in On(c) /\ (~c[k].avg \/ c.sw)
                                            THEN cfg[k].ref ELSE @[k]]]
               /\ level' = now /\ asked' = Asked(c, now) /\ changed' = Differs(c, asked', now)
    BY ZenonT(60), <1>3 DEF rfalWakeUpModeStart
  <2> DEFINE c == ConfigFor(given)
  <2>1. PICK l \in [On(c) -> Levels] :
          LET now == [k \in Kinds |-> IF k \in On(c) THEN l[k] ELSE AnyLevel[k]]
              cfg == Measured(c, now)
          IN /\ rf' = [rf EXCEPT !.cfg = cfg, !.wum = "ENABLED", !.state = "WUM"]
             /\ chip' = [chip EXCEPT
                  !.tx = FALSE, !.efd = FALSE, !.en = FALSE, !.wu = TRUE,
                  !.mode = Register(FALSE, {"iso14443a"}),
                  !.irq = On(c) \cup (IF c.tout \/ c.sw THEN {"WT"} ELSE {}), !.raised = {},
                  !.wuMeas = IF c.sw THEN {} ELSE On(c), !.wuTout = c.tout \/ c.sw,
                  !.ref = [k \in Kinds |-> IF k \in On(c) /\ (~c[k].avg \/ c.sw)
                                          THEN cfg[k].ref ELSE @[k]]]
             /\ level' = now /\ asked' = Asked(c, now) /\ changed' = Differs(c, asked', now)
    BY <2>0
  <2> DEFINE now == [k \in Kinds |-> IF k \in On(c) THEN l[k] ELSE AnyLevel[k]]
             cfg == Measured(c, now)
  <2>2. c \in WakeUpConfig /\ Exact(c)
    BY <1>0, ConfigForTyped, ConfigForExact
  <2>3. now \in [Kinds -> Levels]
    BY Resets
  <2>4. /\ rf' = [rf EXCEPT !.cfg = cfg, !.wum = "ENABLED", !.state = "WUM"]
        /\ level' = now /\ asked' = Asked(c, now) /\ changed' = Differs(c, asked', now)
    BY <2>1
  <2>5. /\ chip'.raised = {} /\ chip'.wuMeas \subseteq On(c)
        /\ chip'.ref = [k \in Kinds |-> IF k \in On(c) /\ (~c[k].avg \/ c.sw)
                                        THEN cfg[k].ref ELSE chip.ref[k]]
    BY <1>0, <2>1 DEF Chip
  <2>6. \A k \in On(c) : (~c[k].avg \/ c.sw) => chip'.ref[k] = cfg[k].ref
    BY <2>5 DEF On
  <2> HIDE DEF c, now
  <2> QED BY ZenonT(60), <1>2, <2>2, <2>3, <2>4, <2>5, <2>6
<1> QED BY <1>1, <1>3

LEMMA WakeInvTimer ==
  ASSUME IInv, WakeInv, WakeUpTimer
  PROVE  WakeInv'
<1> SUFFICES ASSUME caller # "down", rf.wum # "NOT_INIT" PROVE WakeInv'
  BY DEF WakeInv, WakeUpTimer
<1> DEFINE moved == {k \in chip.wuMeas : Moved(k, chip.ref[k], rf.cfg[k].delta)}
<1>1. /\ UNCHANGED <<variant, rf, ext, level, asked, changed, caller>>
      /\ chip' = [chip EXCEPT !.raised = @ \cup (chip.irq \cap
                     ((IF chip.wuTout THEN {"WT"} ELSE {}) \cup moved))]
      /\ References /\ Seen /\ chip \in Chip
  BY DEF WakeUpTimer, WakeInv, IInv, Typed
<1>2. /\ chip'.wuMeas = chip.wuMeas /\ chip'.ref = chip.ref
      /\ chip'.raised \cap Kinds \subseteq (chip.raised \cap Kinds) \cup moved
  BY <1>1 DEF Chip, Kinds
<1>3. moved # {} => changed
  <2> SUFFICES ASSUME NEW k \in moved PROVE changed
    OBVIOUS
  <2>1. k \in On(rf.cfg) /\ Moved(k, asked[k], rf.cfg[k].delta)
    BY <1>1 DEF References
  <2>2. Differs(rf.cfg, asked, level)
    BY <1>1, <2>1, MovedDiffers
  <2> QED BY <1>1, <2>2 DEF Seen
<1> HIDE DEF moved
<1>4. References'
  BY <1>1, <1>2 DEF References
<1>5. Seen'
  BY <1>1, <1>2, <1>3 DEF Seen, Differs
<1> QED BY <1>4, <1>5 DEF WakeInv

LEMMA WakeInvWorker ==
  ASSUME IInv, WakeInv, rfalRunWakeUpModeWorker
  PROVE  WakeInv'
<1> DEFINE tag == \E k \in On(rf.cfg) : Moved(k, rf.cfg[k].ref, rf.cfg[k].delta)
           byTime == "WT" \in chip.raised /\ rf.cfg.sw
           woken == chip.raised \cap Kinds # {} \/ (byTime /\ tag)
           c == [chip EXCEPT !.raised = {}]
<1>1. /\ caller # "down" /\ rf.wum # "NOT_INIT"
      /\ UNCHANGED <<variant, ext, level, asked, changed, caller>>
      /\ rf' = [rf EXCEPT !.wum = IF woken THEN "WOKE" ELSE @]
      /\ chip' = IF ~byTime THEN c ELSE IF tag THEN ReadyToMeasure(c) ELSE SleepAgain(ReadyToMeasure(c))
  BY DEF rfalRunWakeUpModeWorker
<1>2. References /\ Seen /\ chip \in Chip /\ rf \in Rf
  BY <1>1 DEF WakeInv, IInv, Typed
<1>3. chip'.wuMeas = chip.wuMeas /\ chip'.ref = chip.ref /\ chip'.raised = {}
  BY <1>1, <1>2 DEF Chip, ReadyToMeasure, SleepAgain
<1>4. rf'.cfg = rf.cfg /\ rf'.wum = IF woken THEN "WOKE" ELSE rf.wum
  BY <1>1, <1>2 DEF Rf
<1>5. tag => changed
  <2> SUFFICES ASSUME NEW k \in On(rf.cfg), Moved(k, rf.cfg[k].ref, rf.cfg[k].delta)
               PROVE  changed
    OBVIOUS
  <2>1. Differs(rf.cfg, asked, level)
    BY <1>2, MovedDiffers DEF References
  <2> QED BY <1>2, <2>1 DEF Seen
<1>6. woken => changed
  BY <1>2, <1>5 DEF Seen
<1> HIDE DEF tag, byTime, woken, c
<1>7. References'
  BY <1>1, <1>2, <1>3, <1>4 DEF References
<1>8. Seen'
  BY <1>1, <1>2, <1>3, <1>4, <1>6 DEF Seen, Differs
<1> QED BY <1>7, <1>8 DEF WakeInv

\* What is called out of wake-up mode leaves it out of wake-up mode.
LEMMA StaysOut ==
  ASSUME IInv,
         \/ rfalInitialize \/ rfalDeinitialize \/ SetMode \/ SetBitRate
         \/ rfalFieldOnAndStartGT \/ rfalFieldOff \/ rfalStartTransceive \/ ExchangeEnds
         \/ rfalListenStart \/ rfalRunListenModeWorker \/ ListenActiveP2P
         \/ rfalListenSleepStart \/ rfalListenStop \/ rfalWakeUpModeStop
  PROVE  caller' = "down" \/ rf'.wum = "NOT_INIT"
<1>0. rf \in Rf /\ chip \in Chip /\ ext \in BOOLEAN
  BY DEF IInv, Typed
<1>1. caller # "down" /\ rf.lm # "NOT_INIT" => rf.wum = "NOT_INIT"
  BY ListenUse
<1>2. CASE rfalInitialize \/ rfalDeinitialize
  BY <1>2 DEF rfalInitialize, rfalDeinitialize, RfInit
<1>3. CASE SetMode
  <2>1. PICK m \in Modes, tx, rx \in Rates : rf' = rfalSetMode(rf, chip, m, tx, rx).rf
    BY <1>3 DEF SetMode
  <2>2. m \in AnyMode /\ tx \in RateNames /\ rx \in RateNames
    BY ModeAssumption DEF AnyMode, RateNames, ListenModes, PassiveListen
  <2>3. SameUse(rf, rfalSetMode(rf, chip, m, tx, rx).rf)
    BY <1>0, <2>2, SetModeResult
  <2> QED BY <1>3, <2>1, <2>3 DEF SetMode, Idle, SameUse
<1>4. CASE SetBitRate
  <2>1. PICK tx \in Rates \cup {Keep}, rx \in Rates \cup {Keep} :
          rf' = rfalSetBitRate(rf, chip, tx, rx).rf
    BY <1>4 DEF SetBitRate
  <2>2. tx \in RateNames \cup {Keep} /\ rx \in RateNames \cup {Keep}
    BY DEF RateNames
  <2>3. SameUse(rf, rfalSetBitRate(rf, chip, tx, rx).rf)
    BY <1>0, <2>2, SetBitRateResult
  <2> QED BY <1>4, <2>1, <2>3 DEF SetBitRate, Idle, SameUse
<1>5. CASE rfalFieldOnAndStartGT \/ rfalFieldOff \/ rfalStartTransceive
  BY <1>0, <1>5 DEF rfalFieldOnAndStartGT, rfalFieldOff, FieldOff, rfalStartTransceive, Idle, Rf
<1>6. CASE ExchangeEnds
  <2>1. rf'.wum = rf.wum /\ caller' = caller
    BY <1>0, <1>6 DEF ExchangeEnds, Rf
  <2>2. caller # "down" => rf.wum = "NOT_INIT"
    BY <1>6 DEF IInv, UseInv, ExchangeEnds
  <2> QED BY <2>1, <2>2
<1>7. ASSUME NEW g \in Rf, NEW c \in Chip PROVE ToPowerOff(g, c).rf.wum = g.wum
  BY <1>0, <1>7, ToPowerOffResult
<1>8. ASSUME NEW g \in Rf, NEW c \in Chip PROVE ListenStop(g, c).rf.wum = g.wum
  BY <1>8, ListenStopResult
<1>9. CASE rfalListenStart
  <2>1. \/ rf' = rf
        \/ \E mask \in Masks : rf' = ToPowerOff([rf EXCEPT !.state = "LM", !.mask = mask],
                                                [chip EXCEPT !.auto = mask]).rf
    BY <1>9 DEF rfalListenStart
  <2>2. ASSUME NEW mask \in Masks
        PROVE  /\ [rf EXCEPT !.state = "LM", !.mask = mask] \in Rf
               /\ [rf EXCEPT !.state = "LM", !.mask = mask].wum = rf.wum
               /\ [chip EXCEPT !.auto = mask] \in Chip
    <3>1. mask \in SUBSET ListenModes
      BY ModeAssumption
    <3> QED BY ZenonT(60), <1>0, <3>1 DEF Rf, Chip
  <2> QED BY ZenonT(60), <1>7, <1>9, <2>1, <2>2 DEF rfalListenStart, Idle
<1>10. ASSUME rf.lm \in {"ACTIVE", "ACTIVE_Ax"}, rf' = ToSleep(rf, chip).rf
       PROVE  rf'.wum = rf.wum
  <2> DEFINE Asleep == [chip EXCEPT !.mode = Register(TRUE, {"LISTEN_NFCA"}),
                          !.auto = @ \cup {"LISTEN_NFCA"}, !.irq = @ \cup Listening, !.raised = {}]
  <2>1. Asleep \in Chip
    <3>1. Register(TRUE, {"LISTEN_NFCA"}) \in ModeRegister
      BY DEF Register, ModeRegister, Modulations, ListenModes, PassiveListen
    <3>2. Listening \subseteq Kinds \cup {"WT", "LM", "RX"}
      BY DEF Listening, Receiving
    <3> QED BY <1>0, <3>1, <3>2 DEF Chip, ListenModes, PassiveListen
  <2>2. rf' = IF ext THEN [rf EXCEPT !.lm = "SLEEP_A", !.state = "LM", !.data = FALSE]
              ELSE ListenStop(rf, Asleep).rf
    BY <1>10 DEF ToSleep
  <2> HIDE DEF Asleep
  <2> QED BY <1>0, <1>8, <2>1, <2>2 DEF Rf
<1>11. CASE rfalListenSleepStart \/ rfalListenStop
  BY <1>0, <1>1, <1>8, <1>10, <1>11 DEF rfalListenSleepStart, rfalListenStop
<1>12. CASE rfalRunListenModeWorker
  <2>1. caller # "down" /\ rf.state = "LM" /\ rf.lm # "NOT_INIT" /\ rf.wum = "NOT_INIT"
    BY <1>1, <1>12 DEF rfalRunListenModeWorker, FieldThere, FieldGone, Answered, ActiveFrame,
                       Awakened, Activated, Frame, DamagedFrame
  <2>2. CASE FieldThere \/ ActiveFrame \/ Activated \/ Frame
    BY <1>0, <2>1, <2>2 DEF FieldThere, ToIdle, ActiveFrame, Activated, Frame, Rf
  <2>3. CASE FieldGone
    BY <1>0, <1>7, <2>1, <2>3 DEF FieldGone
  <2>4. CASE Answered \/ Awakened
    <3>1. PICK m \in Answering, state \in LmNames : rf' = ToReady(rf, chip, m, state).rf
      <4>1. chip.auto \cap PassiveListen \subseteq Answering
        BY DEF IInv, Typed, PassiveListen, Answering
      <4> QED BY <2>4, <4>1 DEF Answered, Awakened, Answering, LmNames
    <3>2. ToReady(rf, chip, m, state).rf.wum = rf.wum
      BY <1>0, <2>1, ToReadyResult
    <3> QED BY <2>1, <3>1, <3>2
  <2>5. CASE DamagedFrame
    <3>1. /\ rf.lm \in {"ACTIVE", "ACTIVE_Ax"}
          /\ rf' = ToSleep(rf, chip).rf \/ rf' = [rf EXCEPT !.lm = "IDLE"]
      BY <2>5 DEF DamagedFrame
    <3> QED BY <1>0, <1>10, <2>1, <3>1 DEF Rf
  <2> QED BY <1>12, <2>2, <2>3, <2>4, <2>5 DEF rfalRunListenModeWorker
<1>13. CASE ListenActiveP2P
  <2>1. /\ rf.wum = "NOT_INIT"
        /\ rf' = rfalSetMode(rf, chip, "LISTEN_ACTIVE_P2P", "106", "106").rf
    BY <1>1, <1>13 DEF ListenActiveP2P
  <2>2. "LISTEN_ACTIVE_P2P" \in AnyMode /\ "106" \in RateNames
    BY DEF AnyMode, ListenModes, RateNames
  <2>3. SameUse(rf, rfalSetMode(rf, chip, "LISTEN_ACTIVE_P2P", "106", "106").rf)
    BY <1>0, <2>2, SetModeResult
  <2> QED BY <2>1, <2>3 DEF SameUse
<1>14. CASE rfalWakeUpModeStop
  BY <1>0, <1>14 DEF rfalWakeUpModeStop, Rf
<1> QED BY <1>2, <1>3, <1>4, <1>5, <1>6, <1>9, <1>11, <1>12, <1>13, <1>14

LEMMA WakeInvNext ==
  ASSUME ExactConfigs, IInv, WakeInv, [Next]_vars
  PROVE  WakeInv'
<1>1. CASE rfalWakeUpModeStart
  BY <1>1, WakeInvStart
<1>2. CASE WakeUpTimer \/ rfalRunWakeUpModeWorker
  BY <1>2, WakeInvTimer, WakeInvWorker
<1>3. CASE LevelChanges
  <2>1. /\ UNCHANGED <<rf, chip, asked, caller>>
        /\ changed' = (changed \/ Differs(rf.cfg, asked, level'))
    BY <1>3 DEF LevelChanges
  <2>2. References => References'
    BY <2>1 DEF References
  <2>3. Seen => Seen'
    BY <2>1 DEF Seen, Differs
  <2> QED BY <2>1, <2>2, <2>3 DEF WakeInv
<1>4. CASE ExternalField \/ UNCHANGED vars
  BY <1>4 DEF ExternalField, vars, WakeInv, References, Seen, Differs
<1>5. CASE \/ rfalInitialize \/ rfalDeinitialize \/ SetMode \/ SetBitRate
           \/ rfalFieldOnAndStartGT \/ rfalFieldOff \/ rfalStartTransceive \/ ExchangeEnds
           \/ rfalListenStart \/ rfalRunListenModeWorker \/ ListenActiveP2P
           \/ rfalListenSleepStart \/ rfalListenStop \/ rfalWakeUpModeStop
  BY <1>5, StaysOut DEF WakeInv
<1> QED BY <1>1, <1>2, <1>3, <1>4, <1>5 DEF Next

\* The reader wakes only for a change of what its configuration measures.
THEOREM WakesOnlyOnChange == ExactConfigs => (Spec => []WakesOnChange)
<1> SUFFICES ASSUME ExactConfigs PROVE Spec => []WakesOnChange
  OBVIOUS
<1>1. Init => WakeInv
  BY DEF Init, WakeInv
<1>2. IInv /\ WakeInv /\ [Next]_vars => WakeInv'
  BY WakeInvNext
<1>3. WakeInv => WakesOnChange
  BY DEF WakeInv, Seen, WakesOnChange
<1> QED BY <1>1, <1>2, <1>3, Uses, PTL DEF Spec

=============================================================================
