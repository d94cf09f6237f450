---------------------------- MODULE NfcDiscovery ----------------------------
(***************************************************************************)
(* The NFC discovery state machine of rfal_nfc.cpp: RfalNfcClass polls for *)
(* devices, resolves collisions, activates one of them and exchanges data  *)
(* with it, or listens as a card, in one object gNfcDev that three kinds   *)
(* of code change: rfalNfcWorker, called from loop(); the application's    *)
(* calls, which it may also make from the notification callback; and the   *)
(* RF layer below, whose listen and wake-up workers rfalNfcWorker runs     *)
(* first.                                                                  *)
(*                                                                         *)
(* The RF layer is the record chip: what of the RfalRfClass state and of   *)
(* the chip's OP_CONTROL register the state machine depends on.            *)
(***************************************************************************)
EXTENDS Naturals

CONSTANTS
  MaxDevices,  \* RFAL_NFC_MAX_DEVICES
  Params,      \* the discovery parameters the application uses
  Careful,     \* the application starts an exchange only with an activated
               \* device, as rfal_nfc.h asks; the code also allows DEACTIVATION
  NULL

PollTechs   == {"AP2P", "A", "B", "F", "V", "ST25TB"}
ListenTechs == {"A", "B", "F", "AP2P"}

\* poll, listen: the two halves of techs2Find.  cb: notifyCb is set.
DiscoverParam == [poll : SUBSET PollTechs, listen : SUBSET ListenTechs,
                  devLimit : 0..MaxDevices, wakeupEnabled : BOOLEAN, cb : BOOLEAN]

ASSUME MaxDevicesAssumption == MaxDevices \in Nat \ {0}
\* rfalNfcDiscover refuses a devLimit of 0 or above RFAL_NFC_MAX_DEVICES.
ASSUME ParamsAssumption ==
  Params \subseteq {p \in DiscoverParam : p.devLimit # 0}
ASSUME CarefulAssumption == Careful \in BOOLEAN
ASSUME NullAssumption == NULL \notin Nat

Index == 0..(MaxDevices - 1)

VARIABLES
  state,       \* gNfcDev.state
  techsFound,  \* gNfcDev.techsFound
  techs2do,    \* gNfcDev.techs2do, the poll technologies of it
  devList,     \* gNfcDev.devList
  devCnt,      \* gNfcDev.devCnt
  selDevIdx,   \* gNfcDev.selDevIdx
  activeDev,   \* gNfcDev.activeDev: an index into devList, or NULL
  disc,        \* gNfcDev.disc (and lmMask, which is disc.listen)
  discRestart, \* gNfcDev.discRestart
  discTmr,     \* whether gNfcDev.discTmr has expired
  dataExErr,   \* gNfcDev.dataExErr
  notifying,   \* the DATAEXCHANGE_DONE notification has not returned yet
  chip         \* the RF layer

listVars == <<devList, devCnt, activeDev>>
detectVars == <<techsFound, techs2do>>
vars == <<state, techsFound, techs2do, devList, devCnt, selDevIdx, activeDev,
          disc, discRestart, discTmr, dataExErr, notifying, chip>>

PollStates == {"POLL_TECHDETECT", "POLL_COLAVOIDANCE", "POLL_SELECT",
               "POLL_ACTIVATION"}
ListenStates == {"LISTEN_TECHDETECT", "LISTEN_COLAVOIDANCE",
                 "LISTEN_ACTIVATION", "LISTEN_SLEEP"}
\* rfalNfcIsDevActivated
IsDevActivated == {"ACTIVATED", "DATAEXCHANGE", "DATAEXCHANGE_DONE"}
States == {"NOTINIT", "IDLE", "START_DISCOVERY", "WAKEUP_MODE", "DEACTIVATION"}
            \cup PollStates \cup ListenStates \cup IsDevActivated

Interfaces == {"RF", "ISODEP", "NFCDEP"}
\* RFAL_NFC_LISTEN_TYPE_*: the remote device is a card we poll.
RemDevListener == PollTechs
\* RFAL_NFC_POLL_TYPE_*: the remote device is a reader, we are the card.
RemDevPoller == {"POLL_NFCA", "POLL_NFCF"}
Device == [type : RemDevListener \cup RemDevPoller, rfInterface : Interfaces]

\* The interfaces a device of a technology may support: its data decides.
Supports(tech) ==
  CASE tech = "A" -> Interfaces
    [] tech = "B" -> {"RF", "ISODEP"}
    [] tech = "F" -> {"RF", "NFCDEP"}
    [] OTHER -> {"RF"}

LmStates == {"NOT_INIT", "POWER_OFF", "IDLE", "READY_F", "CARDEMU_3", "READY_A",
             "ACTIVE_A", "CARDEMU_4A", "SLEEP_A", "READY_Ax", "ACTIVE_Ax"}
\* rf: gRFAL.state (READY: INIT or MODE_SET).  lm, data, mdMask: gRFAL.Lm.state,
\* dataFlag and mdMask.  osc: OP_CONTROL.en.  field: gRFAL.field.  wum: gRFAL.wum.state.
Chip == [rf : {"READY", "TXRX", "LM", "WUM"}, lm : LmStates, data : BOOLEAN,
         mdMask : SUBSET ListenTechs, osc : BOOLEAN, field : BOOLEAN,
         wum : {"NOT_INIT", "ENABLED", "WOKE"}]

ResetChip == [rf |-> "READY", lm |-> "NOT_INIT", data |-> FALSE, mdMask |-> {},
              osc |-> TRUE, field |-> FALSE, wum |-> "NOT_INIT"]

Init ==
  /\ state = "NOTINIT"
  /\ techsFound = {} /\ techs2do = {}
  /\ devList = [i \in Index |-> [type |-> "A", rfInterface |-> "RF"]]
  /\ devCnt = 0 /\ selDevIdx = 0 /\ activeDev = NULL
  /\ disc = [poll |-> {}, listen |-> {}, devLimit |-> 0, wakeupEnabled |-> FALSE,
             cb |-> FALSE]
  /\ discRestart = FALSE /\ discTmr = TRUE
  /\ dataExErr = "NONE"
  /\ notifying = FALSE
  /\ chip = [ResetChip EXCEPT !.osc = FALSE]
-----------------------------------------------------------------------------
(* The RF layer.  Each operator maps a chip to the chip after the call, or *)
(* to the set of chips the call may leave, the external field and the      *)
(* frames of a remote reader being free.                                   *)

rfalFieldOff(c) == [c EXCEPT !.field = FALSE]

rfalListenStop(c) == [c EXCEPT !.lm = "NOT_INIT", !.osc = TRUE, !.field = FALSE]

rfalWakeUpModeStop(c) ==
  IF c.wum = "NOT_INIT" THEN c ELSE [c EXCEPT !.wum = "NOT_INIT", !.osc = TRUE]

rfalWakeUpModeStart(c) ==
  [c EXCEPT !.rf = "WUM", !.wum = "ENABLED", !.osc = FALSE]

\* rfalListenSetState for the states that only change the receiver's set-up.
SetReady(c, st) == [c EXCEPT !.lm = st, !.data = FALSE]
PowerOff(c) == [c EXCEPT !.lm = "POWER_OFF", !.data = FALSE, !.osc = FALSE]
LmIdle(c) == [c EXCEPT !.lm = "IDLE", !.data = FALSE, !.osc = TRUE]
\* rfalListenSetState(POWER_OFF) and (IDLE) look for the external field.
SetPowerOff(c) == {PowerOff(c), LmIdle(c)}
SetIdle(c) ==
  {LmIdle(c)} \cup IF "AP2P" \in c.mdMask THEN {PowerOff(c)} ELSE {}

\* rfalListenSleepStart: sleeping, or LINK_LOSS and listen mode stopped.
Asleep(c) == [c EXCEPT !.lm = "SLEEP_A", !.data = FALSE, !.rf = "LM"]
rfalListenSleepStart(c) == {Asleep(c), rfalListenStop(c)}

DataReceived(c) == [c EXCEPT !.data = TRUE]

FromIdle(c) ==
  (IF c.data THEN {} ELSE SetPowerOff(c))
    \cup (IF "F" \in c.mdMask THEN {SetReady(c, "READY_F")} ELSE {})
    \cup (IF c.mdMask \cap {"F", "AP2P"} # {} THEN {DataReceived(c)} ELSE {})
    \cup (IF "A" \in c.mdMask THEN {SetReady(c, "READY_A")} ELSE {})

\* The listen states in which the worker has something to react to.
ListenEvents(c) ==
  CASE c.lm = "POWER_OFF" -> SetIdle(c) \cup UNION {FromIdle(d) : d \in SetIdle(c)}
    [] c.lm = "IDLE"      -> FromIdle(c)
    [] c.lm = "READY_F"   -> SetPowerOff(c) \cup {DataReceived(c)}
    [] c.lm = "READY_A"   -> SetPowerOff(c) \cup {SetReady(c, "ACTIVE_A")}
    [] c.lm = "ACTIVE_A"  -> SetPowerOff(c) \cup SetIdle(c) \cup {DataReceived(c)}
    [] c.lm = "ACTIVE_Ax" ->
         SetPowerOff(c) \cup rfalListenSleepStart(c) \cup {DataReceived(c)}
    [] c.lm = "SLEEP_A"   ->
         SetPowerOff(c)
           \cup (IF "F" \in c.mdMask THEN {SetReady(c, "READY_F")} ELSE {})
           \cup (IF "A" \in c.mdMask THEN {SetReady(c, "READY_Ax")} ELSE {})
    [] c.lm = "READY_Ax"  -> SetPowerOff(c) \cup {SetReady(c, "ACTIVE_Ax")}
    [] OTHER              -> {}

\* A tag seen by the wake-up measurement; the software check leaves en set.
WakeUpEvents(c) ==
  IF c.wum = "NOT_INIT" THEN {}
  ELSE {[c EXCEPT !.wum = "WOKE", !.osc = o] : o \in BOOLEAN}

\* What rfalWorker, the first call of rfalNfcWorker, may leave.
rfalWorker ==
  {chip} \cup (CASE chip.rf = "LM"  -> ListenEvents(chip)
                 [] chip.rf = "WUM" -> WakeUpEvents(chip)
                 [] OTHER           -> {})

\* rfalFieldOnAndStartGT: refused without the oscillator; RF collision
\* avoidance can fail only when the field is still off.
FieldOnMayFail(c) == c.osc => ~c.field
\* It succeeded, and the technology's commands have been sent.
PolledWith(c) == [c EXCEPT !.field = TRUE, !.rf = "TXRX"]
-----------------------------------------------------------------------------
(* rfalNfcWorker: one action per state it handles, and the end of the      *)
(* DATAEXCHANGE_DONE notification.  The other notifications are the last    *)
(* thing a step does, so the calls their callback makes are simply the     *)
(* application's next calls.                                               *)

WorkerIn(st) == state = st /\ ~notifying

StartDiscovery ==
  /\ WorkerIn("START_DISCOVERY")
  /\ devCnt' = 0 /\ selDevIdx' = 0
  /\ techsFound' = {} /\ techs2do' = disc.poll
  /\ \E c \in rfalWorker :
       \/ /\ disc.wakeupEnabled
          /\ state' = "WAKEUP_MODE" /\ chip' = rfalWakeUpModeStart(c)
       \/ state' = "POLL_TECHDETECT" /\ chip' = c
  /\ UNCHANGED <<devList, activeDev, disc, discRestart, discTmr, dataExErr, notifying>>

WakeUpMode ==
  /\ WorkerIn("WAKEUP_MODE")
  /\ \E c \in rfalWorker :
       \/ c.wum = "WOKE" /\ state' = "POLL_TECHDETECT" /\ chip' = rfalWakeUpModeStop(c)
       \/ c.wum # "WOKE" /\ state' = state /\ chip' = c
  /\ UNCHANGED <<listVars, detectVars, selDevIdx, disc, discRestart, discTmr,
                 dataExErr, notifying>>

\* Mutant: the field is switched off whatever was found.
DetectionDoneFieldOff(found, c) ==
  /\ techs2do' = found
  /\ state' = IF found = {} THEN "LISTEN_TECHDETECT" ELSE "POLL_COLAVOIDANCE"
  /\ chip' = rfalFieldOff(c)

\* The end of technology detection: nothing was found, or collision avoidance
\* comes next for the technologies found.
DetectionDone(found, c) ==
  /\ techs2do' = found
  /\ IF found = {} THEN state' = "LISTEN_TECHDETECT" /\ chip' = rfalFieldOff(c)
                   ELSE state' = "POLL_COLAVOIDANCE" /\ chip' = c

\* rfalNfcPollTechDetetection and rfalNfcPollCollResolution do one technology
\* a call, in this order.
Order == [AP2P |-> 1, A |-> 2, B |-> 3, F |-> 4, V |-> 5, ST25TB |-> 6]
IsNext(tech, S) == tech \in S /\ \A t \in S : Order[tech] <= Order[t]

\* An error of the mode or the field ends the detection with that error.
DetectFails(c) ==
  FieldOnMayFail(c) /\ state' = "LISTEN_TECHDETECT" /\ chip' = rfalFieldOff(c)

\* A target that answers the ATR_REQ is a device found and activated at once.
\* rfalNfcNfcDepActivate refuses an entry that is not of a remote listener.
DetectAP2P(c) ==
  \/ /\ DetectFails(c)
     /\ techs2do' = techs2do \ {"AP2P"}
     /\ UNCHANGED <<techsFound, listVars>>
  \/ /\ c.osc /\ devList[0].type \in RemDevListener
     /\ techsFound' = techsFound \cup {"AP2P"} /\ techs2do' = techsFound'
     /\ devList' = [devList EXCEPT ![0].type = "AP2P", ![0].rfInterface = "NFCDEP"]
     /\ devCnt' = devCnt + 1
     /\ state' = "POLL_COLAVOIDANCE" /\ chip' = PolledWith(c)
     /\ UNCHANGED activeDev
  \/ /\ c.osc
     /\ techs2do' = techs2do \ {"AP2P"}
     /\ chip' = rfalFieldOff(PolledWith(c))
     /\ UNCHANGED <<state, techsFound, listVars>>

\* Mutant: the technology polled stays to be done.
DetectPassiveAgain(tech, c) ==
  UNCHANGED <<listVars, techs2do, state, techsFound>> /\ chip' = PolledWith(c)

\* The last technology ends the detection in the same call.
DetectPassive(tech, c) ==
  /\ UNCHANGED listVars
  /\ \/ /\ DetectFails(c) /\ techs2do' = techs2do \ {tech}
        /\ UNCHANGED techsFound
     \/ /\ c.osc
        /\ techsFound' \in {techsFound, techsFound \cup {tech}}
        /\ IF tech = "ST25TB" THEN DetectionDone(techsFound', PolledWith(c))
           ELSE /\ techs2do' = techs2do \ {tech}
                /\ state' = state /\ chip' = PolledWith(c)

PollTechDetect ==
  /\ WorkerIn("POLL_TECHDETECT")
  /\ discTmr' = FALSE
  /\ \E c \in rfalWorker :
       \/ /\ techs2do = {}
          /\ DetectionDone(techsFound, c) /\ UNCHANGED <<techsFound, listVars>>
       \/ IsNext("AP2P", techs2do) /\ DetectAP2P(c)
       \/ \E tech \in PollTechs \ {"AP2P"} :
            IsNext(tech, techs2do) /\ DetectPassive(tech, c)
  /\ UNCHANGED <<selDevIdx, disc, discRestart, dataExErr, notifying>>

\* The nfc-X layer is asked for at most the devices the list has room for.
Room == disc.devLimit - devCnt
Append(tech, n) ==
  /\ devList' = [i \in Index |-> IF i \in devCnt..(devCnt + n - 1)
                                THEN [devList[i] EXCEPT !.type = tech] ELSE devList[i]]
  /\ devCnt' = devCnt + n

\* rfalNfcPollCollResolution resolves one technology a call, the rest is the
\* worker's decision once it is no longer busy.  Turning the field on cannot fail
\* here: it has been on since the detection (FieldHeld).
ResolveTech(tech, c) ==
  /\ techs2do' = techs2do \ {tech}
  /\ \E n \in 0..Room : Append(tech, n)
  /\ state' = state /\ chip' = PolledWith(c)
  /\ UNCHANGED <<activeDev, selDevIdx>>

ResolutionDone(c) ==
  /\ chip' = c
  /\ UNCHANGED <<listVars, techs2do>>
  /\ \/ devCnt = 0 /\ state' = "DEACTIVATION" /\ UNCHANGED selDevIdx
     \/ devCnt > 1 /\ disc.cb /\ state' = "POLL_SELECT" /\ UNCHANGED selDevIdx
     \/ /\ devCnt = 1 \/ (devCnt > 1 /\ ~disc.cb)
        /\ state' = "POLL_ACTIVATION" /\ selDevIdx' = 0

ToResolve == IF devCnt >= disc.devLimit THEN {} ELSE techs2do \ {"AP2P"}

PollColAvoidance ==
  /\ WorkerIn("POLL_COLAVOIDANCE")
  /\ \E c \in rfalWorker :
       \/ ToResolve = {} /\ ResolutionDone(c)
       \/ \E tech \in PollTechs : IsNext(tech, ToResolve) /\ ResolveTech(tech, c)
  /\ UNCHANGED <<techsFound, disc, discRestart, discTmr, dataExErr, notifying>>

\* A device is activated over the interface its data asks for; an AP2P device
\* was activated by its detection.  Frames are exchanged, and may be lost, for
\* NFC-A and the protocols, not for a plain NFC-B, NFC-F, NFC-V or ST25TB device.
PollActivation ==
  /\ WorkerIn("POLL_ACTIVATION")
  /\ \E c \in rfalWorker : chip' = c
  /\ LET type == devList[selDevIdx].type IN
     \/ /\ selDevIdx <= devCnt /\ type \in RemDevListener
        /\ activeDev' = selDevIdx
        /\ \E iface \in IF type = "AP2P" THEN {devList[selDevIdx].rfInterface}
                        ELSE Supports(type) :
             devList' = [devList EXCEPT ![selDevIdx].rfInterface = iface]
        /\ state' = "ACTIVATED"
     \/ /\ selDevIdx > devCnt \/ type \in {"A", "B", "F"} \cup RemDevPoller
        /\ state' = "DEACTIVATION"
        /\ UNCHANGED <<devList, activeDev>>
  /\ UNCHANGED <<detectVars, devCnt, selDevIdx, disc, discRestart, discTmr,
                 dataExErr, notifying>>
-----------------------------------------------------------------------------
(* Data exchange.                                                          *)

Active == devList[activeDev]

\* The first frame of a reader to a Type 3 card is already in the buffer.
T3TFirstFrame == Active.type = "POLL_NFCF" /\ Active.rfInterface = "RF"

\* What the interface's GetTransceiveStatus may return.
LowerStatus ==
  {"BUSY", "NONE", "ERR"}
    \cup (IF Active.rfInterface # "RF" THEN {"AGAIN"} ELSE {})
    \cup (IF Active.rfInterface = "ISODEP" /\ Active.type \in RemDevPoller
           THEN {"SLEEP_REQ"} ELSE {})

\* rfalNfcDataExchangeGetStatus with the chip at c, in one of its exchange
\* states: err is gNfcDev.dataExErr after it and d the chip.
ExchangeStatus(c, err, d) ==
  LET was == IF state = "ACTIVATED" THEN IF T3TFirstFrame THEN "NONE" ELSE "BUSY"
             ELSE dataExErr
  IN  IF was # "BUSY" THEN err = was /\ d = c
      ELSE \/ err \in LowerStatus \ {"SLEEP_REQ"} /\ d = c
           \/ "SLEEP_REQ" \in LowerStatus /\ err = "SLEEP_REQ" /\ d = Asleep(c)
           \/ "SLEEP_REQ" \in LowerStatus /\ err = "ERR" /\ d = rfalListenStop(c)

AfterDone == IF dataExErr' = "SLEEP_REQ" THEN "LISTEN_SLEEP" ELSE "DATAEXCHANGE_DONE"

\* The worker sees the end of the exchange and notifies, if there is a callback.
DataExchange ==
  /\ WorkerIn("DATAEXCHANGE")
  /\ \E c \in rfalWorker : ExchangeStatus(c, dataExErr', chip')
  /\ notifying' = (dataExErr' # "BUSY" /\ disc.cb)
  /\ state' = IF dataExErr' = "BUSY" THEN state
              ELSE IF disc.cb THEN "DATAEXCHANGE_DONE" ELSE AfterDone
  /\ UNCHANGED <<listVars, detectVars, selDevIdx, disc, discRestart, discTmr>>

\* After the notification, whatever its callback called, dataExErr is read again.
NotificationReturns ==
  /\ notifying
  /\ notifying' = FALSE
  /\ state' = IF dataExErr = "SLEEP_REQ" THEN "LISTEN_SLEEP" ELSE state
  /\ UNCHANGED <<listVars, detectVars, selDevIdx, disc, discRestart, discTmr,
                 dataExErr, chip>>

\* Mutant: wake-up mode is left running.
QuietKeepsWakeUp(c) == rfalFieldOff(c)
\* Mutant: the field is left on.
QuietKeepsField(c) == rfalWakeUpModeStop(c)

\* rfalNfcDeactivation: Deselect or RLS to an active device, wake-up and field
\* off, nothing active.
Quiet(c) == rfalFieldOff(rfalWakeUpModeStop(c))
Deactivated(c) ==
  {Quiet(c)} \cup IF activeDev # NULL /\ Active.rfInterface # "RF"
                 THEN {[Quiet(c) EXCEPT !.rf = "TXRX"]} ELSE {}

Deactivation ==
  /\ WorkerIn("DEACTIVATION")
  /\ \E c \in rfalWorker : chip' \in Deactivated(c)
  /\ activeDev' = NULL
  /\ state' = IF discRestart THEN "START_DISCOVERY" ELSE "IDLE"
  /\ UNCHANGED <<detectVars, devList, devCnt, selDevIdx, disc, discRestart,
                 discTmr, dataExErr, notifying>>
-----------------------------------------------------------------------------
(* Listening.                                                              *)

GiveUpListening(c) == state' = "START_DISCOVERY" /\ chip' = rfalListenStop(c)

\* rfalListenStart: NFC-B is not supported, a mask without NFC-A, NFC-F or
\* active P2P not possible; the external field decides where it starts.
ListenStarted(c) ==
  SetPowerOff([c EXCEPT !.rf = "LM", !.mdMask = disc.listen])

ListenTechDetect ==
  /\ WorkerIn("LISTEN_TECHDETECT")
  /\ \E c \in rfalWorker :
       \/ disc.listen = {} /\ state' = "START_DISCOVERY" /\ chip' = c
       \/ /\ disc.listen # {} /\ discTmr
          /\ state' = "START_DISCOVERY" /\ chip' = rfalFieldOff(c)
       \/ /\ disc.listen # {} /\ ~discTmr /\ "B" \notin disc.listen
          /\ state' = "LISTEN_COLAVOIDANCE" /\ chip' \in ListenStarted(c)
       \/ /\ disc.listen # {} /\ ~discTmr
          /\ \E d \in {c} \cup ListenStarted(c) : GiveUpListening(d)
  /\ UNCHANGED <<listVars, detectVars, selDevIdx, disc, discRestart, discTmr,
                 dataExErr, notifying>>

\* Mutant: a listen mode that is only powered off counts as a field.
FieldSeenPowerOff(c) == c.lm # "NOT_INIT"

\* RFAL_LM_STATE_IDLE and above: the field of a reader has been seen.
FieldSeen(c) == c.lm \notin {"NOT_INIT", "POWER_OFF"}

ListenColAvoidance ==
  /\ WorkerIn("LISTEN_COLAVOIDANCE")
  /\ \E c \in rfalWorker :
       IF discTmr THEN GiveUpListening(c)
       ELSE /\ chip' = c
            /\ state' = IF FieldSeen(c) THEN "LISTEN_ACTIVATION" ELSE state
  /\ UNCHANGED <<listVars, detectVars, selDevIdx, disc, discRestart, discTmr,
                 dataExErr, notifying>>

\* Mutant: the active device is not assigned.
ActivatedAsNobody(type, iface, c) ==
  /\ devList' = [devList EXCEPT ![0].type = type, ![0].rfInterface = iface]
  /\ devCnt' = 1 /\ UNCHANGED activeDev
  /\ state' = "ACTIVATED" /\ chip' = c
\* Mutant: the entry keeps the type of the device found there before.
ActivatedAsKeepsType(type, iface, c) ==
  /\ devList' = [devList EXCEPT ![0].rfInterface = iface]
  /\ devCnt' = 1 /\ activeDev' = 0
  /\ state' = "ACTIVATED" /\ chip' = c

\* rfalNfcListenActivation.  A card is activated as devList[0].
ActivatedAs(type, iface, c) ==
  /\ devList' = [devList EXCEPT ![0].type = type, ![0].rfInterface = iface]
  /\ devCnt' = 1 /\ activeDev' = 0
  /\ state' = "ACTIVATED" /\ chip' = c

\* Mutant: the listen phase is not timed.
StillListeningForever(d) == UNCHANGED listVars /\ state' = state /\ chip' = d

\* err BUSY, with the chip left as d.
StillListening(d) ==
  /\ UNCHANGED listVars
  /\ IF discTmr THEN GiveUpListening(d) ELSE state' = state /\ chip' = d

ListenFails(d) == UNCHANGED listVars /\ GiveUpListening(d)

\* The first frame in ACTIVE_A: SLP_REQ, RATS, or something else.
FirstFrameA(c) ==
  \/ StillListening(Asleep(c))
  \/ StillListening([SetReady(c, "CARDEMU_4A") EXCEPT !.rf = "TXRX"])
  \/ ListenFails(c)

ListenActivation ==
  /\ WorkerIn("LISTEN_ACTIVATION") \/ WorkerIn("LISTEN_SLEEP")
  /\ \E c \in rfalWorker :
       CASE c.lm \in {"ACTIVE_A", "ACTIVE_Ax"} ->
              IF c.data THEN FirstFrameA(c) ELSE StillListening(c)
         [] c.lm = "CARDEMU_4A" ->
              \/ ActivatedAs("POLL_NFCA", "ISODEP", c)
              \/ StillListening(c)
              \/ ListenFails(c)
         [] c.lm = "READY_F" ->
              StillListening(IF c.data THEN SetReady(c, "CARDEMU_3") ELSE c)
         [] c.lm = "CARDEMU_3" -> ActivatedAs("POLL_NFCF", "RF", c)
         [] c.lm \in {"READY_A", "READY_Ax", "SLEEP_A", "IDLE"} -> StillListening(c)
         [] OTHER -> ListenFails(c)
  /\ UNCHANGED <<detectVars, selDevIdx, disc, discRestart, discTmr, dataExErr, notifying>>
-----------------------------------------------------------------------------
(* The application's calls.  A call that is refused changes nothing.       *)

Initialize ==
  /\ \/ state' = "IDLE" /\ chip' = [ResetChip EXCEPT !.mdMask = chip.mdMask]
     \/ state' = "NOTINIT" /\ \E o \in BOOLEAN : chip' = [chip EXCEPT !.osc = o]
  /\ UNCHANGED <<listVars, detectVars, selDevIdx, disc, discRestart, discTmr,
                 dataExErr, notifying>>

Discover(p) ==
  /\ state = "IDLE"
  /\ activeDev' = NULL /\ techsFound' = {} /\ devCnt' = 0
  /\ discRestart' = TRUE
  /\ disc' = p
  /\ state' = "START_DISCOVERY"
  /\ UNCHANGED <<techs2do, devList, selDevIdx, discTmr, dataExErr, notifying, chip>>

Deactivate(discovery) ==
  /\ state \notin {"NOTINIT", "IDLE"}
  /\ IF discovery
       THEN /\ discRestart' = TRUE /\ state' = "DEACTIVATION"
            /\ UNCHANGED <<activeDev, chip>>
       ELSE /\ state' = "IDLE" /\ activeDev' = NULL /\ chip' \in Deactivated(chip)
            /\ UNCHANGED discRestart
  /\ UNCHANGED <<devList, devCnt, detectVars, selDevIdx, disc, discTmr,
                 dataExErr, notifying>>

\* The index is not checked.  The application's indices are bounded by the
\* array: reading past it is undefined.
Select(devIdx) ==
  /\ state = "POLL_SELECT"
  /\ selDevIdx' = devIdx /\ state' = "POLL_ACTIVATION"
  /\ UNCHANGED <<listVars, detectVars, disc, discRestart, discTmr, dataExErr,
                 notifying, chip>>

\* The remote reader starts: the call only hands out the buffers.
OnlyPrimes == state = "ACTIVATED" /\ Active.type \in RemDevPoller

\* Refused or failed transceives change nothing; the RF interface starts one
\* at once, the others when the status is next asked for.
DataExchangeStart ==
  /\ state \in IsDevActivated \cup {"DEACTIVATION"} /\ activeDev # NULL
  /\ Careful => state # "DEACTIVATION"
  /\ ~OnlyPrimes
  /\ dataExErr' = "BUSY" /\ state' = "DATAEXCHANGE"
  /\ chip' \in {[chip EXCEPT !.rf = "TXRX"]}
               \cup IF Active.rfInterface = "RF" THEN {} ELSE {chip}
  /\ UNCHANGED <<listVars, detectVars, selDevIdx, disc, discRestart, discTmr, notifying>>

DataExchangeGetStatus ==
  /\ state \in IsDevActivated
  /\ state' = IF state = "ACTIVATED" THEN "DATAEXCHANGE" ELSE state
  /\ ExchangeStatus(chip, dataExErr', chip')
  /\ UNCHANGED <<listVars, detectVars, selDevIdx, disc, discRestart, discTmr, notifying>>

\* Time passes: totalDuration is over.
TimerExpires ==
  /\ ~discTmr /\ discTmr' = TRUE
  /\ UNCHANGED <<state, listVars, detectVars, selDevIdx, disc, discRestart,
                 dataExErr, notifying, chip>>

\* The states in which only the RF layer's worker has something to do.
RfOnly ==
  /\ \E st \in {"NOTINIT", "IDLE", "POLL_SELECT", "ACTIVATED", "DATAEXCHANGE_DONE"} :
       WorkerIn(st)
  /\ chip' \in rfalWorker
  /\ UNCHANGED <<state, listVars, detectVars, selDevIdx, disc, discRestart, discTmr,
                 dataExErr, notifying>>

rfalNfcWorker ==
  \/ StartDiscovery \/ WakeUpMode
  \/ PollTechDetect \/ PollColAvoidance \/ PollActivation
  \/ DataExchange \/ Deactivation
  \/ ListenTechDetect \/ ListenColAvoidance \/ ListenActivation
  \/ RfOnly

Application ==
  \/ Initialize
  \/ \E p \in Params : Discover(p)
  \/ \E discovery \in BOOLEAN : Deactivate(discovery)
  \/ \E devIdx \in Index : Select(devIdx)
  \/ DataExchangeStart \/ DataExchangeGetStatus

Next == rfalNfcWorker \/ NotificationReturns \/ Application \/ TimerExpires

Spec == Init /\ [][Next]_vars

\* loop() calls rfalNfcWorker for ever, callbacks return, time passes.
FairSpec == Spec /\ WF_vars(rfalNfcWorker) /\ WF_vars(NotificationReturns)
                 /\ WF_vars(TimerExpires)
-----------------------------------------------------------------------------
(* Properties.                                                             *)

\* Type correctness; in particular devCnt and the selected and active entries
\* stay within the device list.
TypeOK ==
  /\ state \in States
  /\ techsFound \subseteq PollTechs /\ techs2do \subseteq PollTechs
  /\ devList \in [Index -> Device]
  /\ devCnt \in 0..MaxDevices /\ selDevIdx \in Index
  /\ activeDev \in Index \cup {NULL}
  /\ disc \in DiscoverParam
  /\ discRestart \in BOOLEAN /\ discTmr \in BOOLEAN /\ notifying \in BOOLEAN
  /\ dataExErr \in {"NONE", "BUSY", "AGAIN", "SLEEP_REQ", "ERR"}
  /\ chip \in Chip

\* The devices found never exceed the limit the application asked for, over all
\* technologies of a cycle together (rfalNfcPollCollResolution).
WithinLimit == devCnt <= disc.devLimit

\* The data exchange functions dereference activeDev in these states, whatever
\* the application called, and from wherever, in between.
ActiveDeviceKnown == state \in IsDevActivated => activeDev # NULL

\* Outside polling and an exchange with a card the RF field is off, so that
\* an idle or listening device does not disturb a reader or drain the battery.
FieldOnlyWhenPolling ==
  chip.field => state \in PollStates \cup IsDevActivated \cup {"DEACTIVATION", "NOTINIT"}

\* From collision avoidance to activation the field and the oscillator stay on,
\* so that the devices found keep their state: rfalFieldOnAndStartGT cannot fail
\* there, and the exits of rfalNfcPollCollResolution for it are never taken.  No
\* listen mode, left over from before, runs underneath and takes them away.
FieldHeld ==
  state \in {"POLL_COLAVOIDANCE", "POLL_SELECT", "POLL_ACTIVATION"} =>
    chip.field /\ chip.osc /\ chip.rf = "TXRX"

\* Wake-up mode never outlives the state that waits for it, so no other state
\* runs with the chip's oscillator off because of it.
WakeUpOwned == chip.wum # "NOT_INIT" => state \in {"WAKEUP_MODE", "DEACTIVATION", "NOTINIT"}

\* In an exchange, the role the entry of the device list says we have is the
\* role of the RF layer: as a reader we hold the field and the listen worker does
\* not run; as a card we do not hold it.
RoleMatchesField ==
  state \in IsDevActivated =>
    /\ chip.field <=> Active.type \in RemDevListener
    /\ Active.type \in RemDevListener => chip.rf = "TXRX"

\* While the state machine waits for a reader, listen mode is running below.
ListenInStep ==
  /\ state = "LISTEN_COLAVOIDANCE" => chip.rf = "LM" /\ chip.lm \in {"POWER_OFF", "IDLE"}
  /\ state = "LISTEN_ACTIVATION" =>
       /\ chip.rf = "LM" <=> chip.lm # "CARDEMU_4A"
       /\ chip.lm \notin {"NOT_INIT", "POWER_OFF"}

\* For a careful caller: the field is on only for the state machine's own polling and
\* exchanges, is not lost between finding a device and using it, and is held exactly
\* if the active device is a card; wake-up mode ends with its state; the phases
\* that wait for a reader find listen mode running.  It does not say that the other states
\* find listen mode stopped and the oscillator on: rfalNfcDeactivation does not do it.
RfFollowsState ==
  FieldOnlyWhenPolling /\ FieldHeld /\ WakeUpOwned /\ RoleMatchesField /\ ListenInStep

\* No polling step lasts for ever: with a running loop() the discovery decides.
PollingDecides ==
  state \in {"POLL_TECHDETECT", "POLL_COLAVOIDANCE", "POLL_ACTIVATION"}
    ~> state \notin {"POLL_TECHDETECT", "POLL_COLAVOIDANCE", "POLL_ACTIVATION"}

\* A listen phase ends: a reader activates the card, or totalDuration is over.
ListeningEnds == state \in ListenStates ~> state \notin ListenStates
=============================================================================
