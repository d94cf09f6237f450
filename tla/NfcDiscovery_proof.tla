------------------------- MODULE NfcDiscovery_proof -------------------------
(***************************************************************************)
(* Proofs about NfcDiscovery: the invariant Inductive, that is type        *)
(* correctness together with the count of the devices found, is kept by    *)
(* every step; so the device list never overflows and never exceeds the    *)
(* application's limit, for any size of the list, any parameters and any   *)
(* order of calls.                                                         *)
(***************************************************************************)
EXTENDS NfcDiscovery, TLAPS

USE DEF Chip, LmStates

\* The deterministic operations of the RF layer leave a chip.
LEMMA ChipOps ==
  ASSUME NEW c \in Chip
  PROVE  /\ rfalFieldOff(c) \in Chip /\ rfalListenStop(c) \in Chip
         /\ rfalWakeUpModeStop(c) \in Chip /\ rfalWakeUpModeStart(c) \in Chip
         /\ PowerOff(c) \in Chip /\ LmIdle(c) \in Chip
         /\ Asleep(c) \in Chip /\ DataReceived(c) \in Chip
         /\ PolledWith(c) \in Chip /\ Quiet(c) \in Chip
         /\ \A st \in LmStates : SetReady(c, st) \in Chip
<1>1. \A x \in Chip : rfalFieldOff(x) \in Chip
  BY DEF rfalFieldOff
<1>2. rfalListenStop(c) \in Chip
  BY DEF rfalListenStop
<1>3. rfalWakeUpModeStop(c) \in Chip
  BY DEF rfalWakeUpModeStop
<1>4. rfalWakeUpModeStart(c) \in Chip
  BY DEF rfalWakeUpModeStart
<1>5. PowerOff(c) \in Chip
  BY DEF PowerOff
<1>6. LmIdle(c) \in Chip
  BY DEF LmIdle
<1>7. Asleep(c) \in Chip
  BY DEF Asleep
<1>8. DataReceived(c) \in Chip
  BY DEF DataReceived
<1>9. PolledWith(c) \in Chip
  BY DEF PolledWith
<1>10. Quiet(c) \in Chip
  BY <1>1, <1>3 DEF Quiet
<1>11. \A st \in LmStates : SetReady(c, st) \in Chip
  BY DEF SetReady
<1> HIDE DEF Chip
<1> QED BY <1>1, <1>2, <1>3, <1>4, <1>5, <1>6, <1>7, <1>8, <1>9, <1>10, <1>11

\* So do the listen worker, the wake-up worker and the operations that test the
\* external field.
LEMMA ChipSets ==
  ASSUME NEW c \in Chip
  PROVE  /\ SetPowerOff(c) \subseteq Chip /\ SetIdle(c) \subseteq Chip
         /\ rfalListenSleepStart(c) \subseteq Chip /\ FromIdle(c) \subseteq Chip
         /\ WakeUpEvents(c) \subseteq Chip
<1>1. SetPowerOff(c) \subseteq Chip /\ SetIdle(c) \subseteq Chip
  BY ChipOps DEF SetPowerOff, SetIdle
<1>2. rfalListenSleepStart(c) \subseteq Chip
  BY ChipOps DEF rfalListenSleepStart
<1>3. SetReady(c, "READY_F") \in Chip /\ SetReady(c, "READY_A") \in Chip
  BY ChipOps
<1>4. FromIdle(c) \subseteq Chip
  BY <1>1, <1>3, ChipOps DEF FromIdle
<1>5. \A o \in BOOLEAN : [c EXCEPT !.wum = "WOKE", !.osc = o] \in Chip
  OBVIOUS
<1>6. WakeUpEvents(c) \subseteq Chip
  <2> HIDE DEF Chip
  <2> SUFFICES ASSUME c.wum # "NOT_INIT", NEW d \in WakeUpEvents(c) PROVE d \in Chip
    BY DEF WakeUpEvents
  <2>1. PICK o \in BOOLEAN : d = [c EXCEPT !.wum = "WOKE", !.osc = o]
    BY DEF WakeUpEvents
  <2> QED BY <2>1, <1>5
<1> QED BY <1>1, <1>2, <1>4, <1>6

\* The interrupts of listen mode leave a chip.
LEMMA ListenEventsChip ==
  ASSUME NEW c \in Chip
  PROVE  ListenEvents(c) \subseteq Chip
<1>1. /\ SetReady(c, "READY_F") \in Chip /\ SetReady(c, "ACTIVE_A") \in Chip
      /\ SetReady(c, "READY_Ax") \in Chip /\ SetReady(c, "ACTIVE_Ax") \in Chip
  BY ChipOps
<1>2. UNION {FromIdle(d) : d \in SetIdle(c)} \subseteq Chip
  BY ChipSets
<1> QED BY <1>1, <1>2, ChipSets, ChipOps DEF ListenEvents

\* rfalWorker leaves a chip.
LEMMA WorkerChip ==
  ASSUME chip \in Chip
  PROVE  rfalWorker \subseteq Chip
  BY ListenEventsChip, ChipSets DEF rfalWorker

-----------------------------------------------------------------------------
(* The inductive invariant.  A device is counted while the state machine   *)
(* detects only in the step that ends the detection; the limit is the      *)
(* application's from the first discovery on.                              *)

CountInv ==
  /\ WithinLimit
  /\ state \in {"WAKEUP_MODE", "POLL_TECHDETECT"} => devCnt = 0
  /\ (state \notin {"NOTINIT", "IDLE"} \/ notifying) => disc.devLimit >= 1

Inductive == TypeOK /\ CountInv

\* From here on a chip is opaque, and a state one of the known names.
USE DEF States, PollStates, ListenStates, IsDevActivated
HIDE DEF Chip, LmStates

\* The invariant holds of gNfcDev as the library starts.
THEOREM InductiveInit == Init => Inductive
<1> SUFFICES ASSUME Init PROVE Inductive
  OBVIOUS
<1> USE DEF Init
<1>1. chip \in Chip
  BY DEF Chip, LmStates, ResetChip
<1>2. devList \in [Index -> Device]
  BY DEF Device, RemDevListener, PollTechs, Interfaces
<1>3. devCnt \in 0..MaxDevices /\ selDevIdx \in Index
  BY MaxDevicesAssumption DEF Index
<1>4. disc \in DiscoverParam
  BY MaxDevicesAssumption DEF DiscoverParam
<1>5. TypeOK
  BY <1>1, <1>2, <1>3, <1>4 DEF TypeOK
<1>6. CountInv
  BY <1>3 DEF CountInv, WithinLimit
<1> QED BY <1>5, <1>6 DEF Inductive

\* What the application may pass to rfalNfcDiscover.
LEMMA ParamFacts ==
  ASSUME NEW p \in Params
  PROVE  p \in DiscoverParam /\ p.devLimit \in 1..MaxDevices
  BY ParamsAssumption, MaxDevicesAssumption DEF DiscoverParam

\* A step that changes neither the device list nor the parameters keeps the
\* invariant if the control state and the chip stay in range and the count
\* matches the control state.
LEMMA ListUnchanged ==
  ASSUME Inductive,
         UNCHANGED <<devList, devCnt, disc>>,
         state' \in States, chip' \in Chip,
         techsFound' \subseteq PollTechs, techs2do' \subseteq PollTechs,
         selDevIdx' \in Index, activeDev' \in Index \cup {NULL},
         discRestart' \in BOOLEAN, discTmr' \in BOOLEAN, notifying' \in BOOLEAN,
         dataExErr' \in {"NONE", "BUSY", "AGAIN", "SLEEP_REQ", "ERR"},
         state' \in {"WAKEUP_MODE", "POLL_TECHDETECT"} => devCnt = 0,
         state' \notin {"NOTINIT", "IDLE"} \/ notifying' => disc.devLimit >= 1
  PROVE  Inductive'
<1>1. TypeOK'
  BY DEF Inductive, TypeOK
<1>2. CountInv'
  BY DEF Inductive, CountInv, WithinLimit
<1> QED BY <1>1, <1>2 DEF Inductive

\* The states the RF worker leaves, and the facts every step starts from.
LEMMA WorkerLeaves == Inductive => rfalWorker \subseteq Chip /\ chip \in rfalWorker
  BY WorkerChip DEF Inductive, TypeOK, rfalWorker

\* What the RF layer is left as by the calls of the discovery.
LEMMA ChipResults ==
  ASSUME NEW c \in Chip
  PROVE  /\ rfalFieldOff(c) \in Chip /\ rfalListenStop(c) \in Chip
         /\ rfalWakeUpModeStop(c) \in Chip /\ rfalWakeUpModeStart(c) \in Chip
         /\ PolledWith(c) \in Chip /\ Quiet(c) \in Chip /\ Asleep(c) \in Chip
         /\ rfalFieldOff(PolledWith(c)) \in Chip
  BY ChipOps

\* The end of technology detection.
LEMMA DetectionDoneTyped ==
  ASSUME NEW c \in Chip, NEW found \in SUBSET PollTechs, DetectionDone(found, c)
  PROVE  /\ techs2do' \subseteq PollTechs /\ chip' \in Chip
         /\ state' \in {"LISTEN_TECHDETECT", "POLL_COLAVOIDANCE"}
  BY ChipResults DEF DetectionDone

\* START_DISCOVERY, which forgets the devices found.
LEMMA StartDiscoveryStep == Inductive /\ StartDiscovery => Inductive'
<1> SUFFICES ASSUME Inductive, StartDiscovery PROVE Inductive'
  OBVIOUS
<1>1. chip' \in Chip /\ state' \in {"WAKEUP_MODE", "POLL_TECHDETECT"}
  <2>1. PICK c \in rfalWorker :
          \/ state' = "WAKEUP_MODE" /\ chip' = rfalWakeUpModeStart(c)
          \/ state' = "POLL_TECHDETECT" /\ chip' = c
    BY DEF StartDiscovery
  <2>2. c \in Chip
    BY WorkerLeaves
  <2> QED BY <2>1, <2>2, ChipResults
<1>2. techs2do' \subseteq PollTechs /\ techsFound' \subseteq PollTechs
  BY DEF StartDiscovery, Inductive, TypeOK, DiscoverParam
<1>3. devCnt' \in 0..MaxDevices /\ selDevIdx' \in Index
  BY MaxDevicesAssumption DEF StartDiscovery, Index
<1>4. TypeOK'
  BY <1>1, <1>2, <1>3 DEF StartDiscovery, Inductive, TypeOK
<1>5. disc' = disc /\ devCnt' = 0 /\ disc.devLimit \in Nat /\ disc.devLimit >= 1
  BY DEF StartDiscovery, WorkerIn, Inductive, TypeOK, DiscoverParam, CountInv
<1>6. CountInv'
  BY <1>5 DEF CountInv, WithinLimit
<1> QED BY <1>4, <1>6 DEF Inductive

\* WAKEUP_MODE.
LEMMA WakeUpModeStep == Inductive /\ WakeUpMode => Inductive'
<1> SUFFICES ASSUME Inductive, WakeUpMode PROVE Inductive'
  OBVIOUS
<1>1. chip' \in Chip /\ state' \in {"WAKEUP_MODE", "POLL_TECHDETECT"}
  <2>1. state = "WAKEUP_MODE"
    BY DEF WakeUpMode, WorkerIn
  <2>2. PICK c \in rfalWorker :
          \/ state' = "POLL_TECHDETECT" /\ chip' = rfalWakeUpModeStop(c)
          \/ state' = state /\ chip' = c
    BY DEF WakeUpMode
  <2>3. c \in Chip
    BY WorkerLeaves
  <2> QED BY <2>1, <2>2, <2>3, ChipResults
<1>2. devCnt = 0 /\ disc.devLimit >= 1
  BY DEF WakeUpMode, WorkerIn, Inductive, CountInv
<1>3. UNCHANGED <<devList, devCnt, disc, selDevIdx, techsFound, techs2do, activeDev,
                  discRestart, discTmr, notifying, dataExErr>>
  BY DEF WakeUpMode, listVars, detectVars
<1> QED BY <1>1, <1>2, <1>3, ListUnchanged DEF Inductive, TypeOK

\* POLL_TECHDETECT.
LEMMA PollTechDetectStep == Inductive /\ PollTechDetect => Inductive'
<1> SUFFICES ASSUME Inductive, PollTechDetect PROVE Inductive'
  OBVIOUS
<1>0. /\ state = "POLL_TECHDETECT" /\ devCnt = 0 /\ disc.devLimit >= 1
      /\ techs2do \subseteq PollTechs /\ techsFound \subseteq PollTechs
      /\ discTmr' = FALSE
      /\ UNCHANGED <<selDevIdx, disc, discRestart, dataExErr, notifying>>
  BY DEF PollTechDetect, WorkerIn, Inductive, TypeOK, CountInv
<1>1. PICK c \in rfalWorker :
       \/ techs2do = {} /\ DetectionDone(techsFound, c) /\ UNCHANGED <<techsFound, listVars>>
       \/ DetectAP2P(c)
       \/ \E tech \in PollTechs \ {"AP2P"} : DetectPassive(tech, c)
  BY DEF PollTechDetect
<1>2. c \in Chip
  BY WorkerLeaves
<1>3. CASE /\ DetectionDone(techsFound, c) /\ UNCHANGED <<techsFound, listVars>>
  <2>1. /\ techs2do' \subseteq PollTechs /\ chip' \in Chip
        /\ state' \in {"LISTEN_TECHDETECT", "POLL_COLAVOIDANCE"}
    BY <1>0, <1>2, <1>3, DetectionDoneTyped
  <2> QED BY <1>0, <1>3, <2>1, ListUnchanged DEF listVars, Inductive, TypeOK
<1>4. CASE DetectAP2P(c)
  <2>1. CASE /\ DetectFails(c) /\ techs2do' = techs2do \ {"AP2P"}
             /\ UNCHANGED <<techsFound, listVars>>
    <3>1. state' = "LISTEN_TECHDETECT" /\ chip' \in Chip
      BY <1>2, <2>1, ChipResults DEF DetectFails
    <3> QED BY <1>0, <2>1, <3>1, ListUnchanged DEF listVars, Inductive, TypeOK
  <2>2. CASE /\ c.osc /\ techs2do' = techs2do \ {"AP2P"}
             /\ chip' = rfalFieldOff(PolledWith(c))
             /\ UNCHANGED <<state, techsFound, listVars>>
    <3>1. chip' \in Chip
      BY <1>2, <2>2, ChipResults
    <3> QED BY <1>0, <2>2, <3>1, ListUnchanged DEF listVars, Inductive, TypeOK
  <2>3. CASE /\ techsFound' = techsFound \cup {"AP2P"} /\ techs2do' = techsFound'
             /\ devList' = [devList EXCEPT ![0].type = "AP2P", ![0].rfInterface = "NFCDEP"]
             /\ devCnt' = devCnt + 1
             /\ state' = "POLL_COLAVOIDANCE" /\ chip' = PolledWith(c)
             /\ UNCHANGED activeDev
    <3>1. devList' \in [Index -> Device]
      BY ZenonT(60), <2>3, MaxDevicesAssumption
         DEF Inductive, TypeOK, Index, Device, RemDevListener, PollTechs, Interfaces
    <3>2. devCnt' = 1 /\ 1 \in 0..MaxDevices
      BY <1>0, <2>3, MaxDevicesAssumption
    <3>3. chip' \in Chip
      BY <1>2, <2>3, ChipResults
    <3>4. techsFound' \subseteq PollTechs /\ techs2do' \subseteq PollTechs
      BY <1>0, <2>3 DEF PollTechs
    <3>5. TypeOK'
      BY <1>0, <2>3, <3>1, <3>2, <3>3, <3>4 DEF Inductive, TypeOK
    <3>6. CountInv'
      BY <1>0, <2>3, <3>2 DEF CountInv, WithinLimit
    <3> QED BY <3>5, <3>6 DEF Inductive
  <2> QED BY <1>4, <2>1, <2>2, <2>3 DEF DetectAP2P
<1>5. CASE \E tech \in PollTechs \ {"AP2P"} : DetectPassive(tech, c)
  <2>1. PICK tech \in PollTechs : DetectPassive(tech, c)
    BY <1>5
  <2>2. CASE DetectFails(c) /\ techs2do' = techs2do \ {tech} /\ UNCHANGED techsFound
    <3>1. state' = "LISTEN_TECHDETECT" /\ chip' \in Chip
      BY <1>2, <2>2, ChipResults DEF DetectFails
    <3>2. UNCHANGED listVars
      BY <2>1 DEF DetectPassive
    <3> QED BY <1>0, <2>2, <3>1, <3>2, ListUnchanged DEF listVars, Inductive, TypeOK
  <2>3. CASE /\ techsFound' \in {techsFound, techsFound \cup {tech}}
             /\ IF tech = "ST25TB" THEN DetectionDone(techsFound', PolledWith(c))
                ELSE /\ techs2do' = techs2do \ {tech}
                     /\ state' = state /\ chip' = PolledWith(c)
    <3>1. techsFound' \subseteq PollTechs
      BY <1>0, <2>3
    <3>2. PolledWith(c) \in Chip
      BY <1>2, ChipResults
    <3>3. /\ techs2do' \subseteq PollTechs /\ chip' \in Chip
          /\ state' \in {"LISTEN_TECHDETECT", "POLL_COLAVOIDANCE", "POLL_TECHDETECT"}
      <4>1. CASE tech = "ST25TB"
        BY <2>3, <3>1, <3>2, <4>1, DetectionDoneTyped
      <4>2. CASE tech # "ST25TB"
        BY <1>0, <2>3, <3>2, <4>2
      <4> QED BY <4>1, <4>2
    <3>4. UNCHANGED listVars
      BY <2>1 DEF DetectPassive
    <3> QED BY <1>0, <3>1, <3>3, <3>4, ListUnchanged DEF listVars, Inductive, TypeOK
  <2> QED BY <2>1, <2>2, <2>3 DEF DetectPassive
<1> QED BY <1>1, <1>3, <1>4, <1>5

\* Collision resolution adds devices up to the limit.
LEMMA ResolveStep ==
  ASSUME Inductive, PollColAvoidance, NEW c \in Chip, NEW tech \in PollTechs,
         tech \in ToResolve, ResolveTech(tech, c)
  PROVE  Inductive'
<1>0. /\ state = "POLL_COLAVOIDANCE" /\ disc.devLimit >= 1
      /\ devCnt \in 0..MaxDevices /\ disc.devLimit \in 0..MaxDevices
      /\ devCnt < disc.devLimit /\ MaxDevices \in Nat
      /\ UNCHANGED <<techsFound, disc, discRestart, discTmr, dataExErr, notifying>>
  BY MaxDevicesAssumption DEF PollColAvoidance, WorkerIn, Inductive, TypeOK, CountInv,
     WithinLimit, ToResolve, DiscoverParam
<1>1. PICK n \in 0..Room : Append(tech, n)
  BY DEF ResolveTech
<1>2. devCnt' \in 0..MaxDevices /\ devCnt' <= disc.devLimit
  BY <1>0, <1>1 DEF Append, Room
<1>3. devList' \in [Index -> Device]
  <2>1. \A d \in Device : [d EXCEPT !.type = tech] \in Device
    BY DEF Device, RemDevListener
  <2>2. \A i \in Index : devList[i] \in Device
    BY DEF Inductive, TypeOK
  <2>3. devList' = [i \in Index |-> IF i \in devCnt..(devCnt + n - 1)
                                  THEN [devList[i] EXCEPT !.type = tech] ELSE devList[i]]
    BY <1>1 DEF Append
  <2> HIDE DEF Device
  <2> QED BY <2>1, <2>2, <2>3
<1>4. chip' \in Chip
  BY ChipResults DEF ResolveTech
<1>5. TypeOK'
  BY <1>0, <1>2, <1>3, <1>4 DEF ResolveTech, Inductive, TypeOK
<1>6. CountInv'
  BY <1>0, <1>2 DEF ResolveTech, CountInv, WithinLimit
<1> QED BY <1>5, <1>6 DEF Inductive

\* POLL_COLAVOIDANCE.
LEMMA PollColAvoidanceStep == Inductive /\ PollColAvoidance => Inductive'
<1> SUFFICES ASSUME Inductive, PollColAvoidance PROVE Inductive'
  OBVIOUS
<1>0. /\ state = "POLL_COLAVOIDANCE" /\ disc.devLimit >= 1
      /\ UNCHANGED <<techsFound, disc, discRestart, discTmr, dataExErr, notifying>>
  BY DEF PollColAvoidance, WorkerIn, Inductive, CountInv
<1>1. PICK c \in rfalWorker :
       \/ ResolutionDone(c)
       \/ \E tech \in PollTechs : tech \in ToResolve /\ ResolveTech(tech, c)
  BY DEF PollColAvoidance, IsNext
<1>2. c \in Chip
  BY WorkerLeaves
<1>3. CASE ResolutionDone(c)
  <2>1. /\ state' \in {"DEACTIVATION", "POLL_SELECT", "POLL_ACTIVATION"}
        /\ chip' \in Chip /\ UNCHANGED <<devList, devCnt, activeDev, techs2do>>
    BY <1>2, <1>3 DEF ResolutionDone, listVars
  <2>2. selDevIdx' \in Index
    BY <1>3, MaxDevicesAssumption DEF ResolutionDone, Inductive, TypeOK, Index
  <2> QED BY <1>0, <2>1, <2>2, ListUnchanged DEF Inductive, TypeOK
<1> QED BY <1>1, <1>2, <1>3, ResolveStep

\* The entry of the device selected or activated gets its interface.
LEMMA InterfaceSet ==
  ASSUME Inductive, NEW i \in Index, NEW iface \in Interfaces
  PROVE  [devList EXCEPT ![i].rfInterface = iface] \in [Index -> Device]
  BY DEF Inductive, TypeOK, Device

\* POLL_ACTIVATION.
LEMMA PollActivationStep == Inductive /\ PollActivation => Inductive'
<1> SUFFICES ASSUME Inductive, PollActivation PROVE Inductive'
  OBVIOUS
<1>0. /\ state = "POLL_ACTIVATION" /\ disc.devLimit >= 1 /\ selDevIdx \in Index
      /\ UNCHANGED <<techsFound, techs2do, devCnt, selDevIdx, disc, discRestart,
                     discTmr, dataExErr, notifying>>
  BY DEF PollActivation, WorkerIn, Inductive, TypeOK, CountInv, detectVars
<1>1. chip' \in Chip
  BY WorkerLeaves DEF PollActivation
<1> DEFINE type == devList[selDevIdx].type
<1>2. CASE /\ activeDev' = selDevIdx
           /\ \E iface \in IF type = "AP2P" THEN {devList[selDevIdx].rfInterface}
                           ELSE Supports(type) :
                devList' = [devList EXCEPT ![selDevIdx].rfInterface = iface]
           /\ state' = "ACTIVATED"
  <2>1. devList[selDevIdx].rfInterface \in Interfaces /\ Supports(type) \subseteq Interfaces
    <3>1. devList[selDevIdx] \in Device
      BY <1>0 DEF Inductive, TypeOK
    <3>2. \A t : Supports(t) \subseteq Interfaces
      BY Zenon DEF Supports, Interfaces
    <3> QED BY <3>1, <3>2 DEF Device
  <2>2. devList' \in [Index -> Device]
    <3> HIDE DEF type
    <3> QED BY <1>0, <1>2, <2>1, InterfaceSet
  <2>3. TypeOK'
    BY <1>0, <1>1, <1>2, <2>2 DEF Inductive, TypeOK
  <2>4. CountInv'
    BY <1>0, <1>2 DEF Inductive, CountInv, WithinLimit
  <2> QED BY <2>3, <2>4 DEF Inductive
<1>3. CASE state' = "DEACTIVATION" /\ UNCHANGED <<devList, activeDev>>
  BY <1>0, <1>1, <1>3, ListUnchanged DEF Inductive, TypeOK
<1> QED BY <1>2, <1>3 DEF PollActivation

\* The exchange functions change the chip only by starting a frame, going to
\* sleep or stopping listen mode.
LEMMA ExchangeStatusTyped ==
  ASSUME Inductive, NEW c \in Chip, NEW err, NEW d, ExchangeStatus(c, err, d)
  PROVE  d \in Chip /\ err \in {"NONE", "BUSY", "AGAIN", "SLEEP_REQ", "ERR"}
<1>1. dataExErr \in {"NONE", "BUSY", "AGAIN", "SLEEP_REQ", "ERR"}
  BY DEF Inductive, TypeOK
<1>2. LowerStatus \subseteq {"NONE", "BUSY", "AGAIN", "SLEEP_REQ", "ERR"}
  BY DEF LowerStatus
<1>3. Asleep(c) \in Chip /\ rfalListenStop(c) \in Chip
  BY ChipResults
<1> DEFINE was == IF state = "ACTIVATED" THEN IF T3TFirstFrame THEN "NONE" ELSE "BUSY"
                  ELSE dataExErr
<1>4. was \in {"NONE", "BUSY", "AGAIN", "SLEEP_REQ", "ERR"}
  BY <1>1
<1>5. \/ err = was /\ d = c
      \/ err \in LowerStatus /\ d = c
      \/ err = "SLEEP_REQ" /\ d = Asleep(c)
      \/ err = "ERR" /\ d = rfalListenStop(c)
  BY DEF ExchangeStatus
<1> HIDE DEF was
<1> QED BY <1>2, <1>3, <1>4, <1>5

\* DATAEXCHANGE.
LEMMA DataExchangeStep == Inductive /\ DataExchange => Inductive'
<1> SUFFICES ASSUME Inductive, DataExchange PROVE Inductive'
  OBVIOUS
<1>1. PICK c \in rfalWorker : ExchangeStatus(c, dataExErr', chip')
  BY DEF DataExchange
<1>2. chip' \in Chip /\ dataExErr' \in {"NONE", "BUSY", "AGAIN", "SLEEP_REQ", "ERR"}
  BY <1>1, WorkerLeaves, ExchangeStatusTyped
<1>3. /\ disc.devLimit >= 1 /\ disc.cb \in BOOLEAN
      /\ UNCHANGED <<listVars, detectVars, selDevIdx, disc, discRestart, discTmr>>
  BY DEF DataExchange, WorkerIn, Inductive, TypeOK, CountInv, DiscoverParam
<1>4. state' \in {"DATAEXCHANGE", "DATAEXCHANGE_DONE", "LISTEN_SLEEP"}
  BY DEF DataExchange, WorkerIn, AfterDone
<1>5. notifying' \in BOOLEAN
  BY <1>3 DEF DataExchange
<1> QED BY <1>2, <1>3, <1>4, <1>5, ListUnchanged DEF listVars, detectVars, Inductive, TypeOK

\* The step after the DATAEXCHANGE_DONE notification.
LEMMA NotificationReturnsStep == Inductive /\ NotificationReturns => Inductive'
<1> SUFFICES ASSUME Inductive, NotificationReturns PROVE Inductive'
  OBVIOUS
<1>1. /\ notifying' = FALSE /\ disc.devLimit >= 1
      /\ state' = state \/ state' = "LISTEN_SLEEP"
      /\ UNCHANGED <<listVars, detectVars, selDevIdx, disc, discRestart, discTmr,
                     dataExErr, chip>>
  BY DEF NotificationReturns, Inductive, CountInv
<1>2. state' \in {"WAKEUP_MODE", "POLL_TECHDETECT"} => devCnt = 0
  BY <1>1 DEF Inductive, CountInv
<1> QED BY <1>1, <1>2, ListUnchanged DEF listVars, detectVars, Inductive, TypeOK

\* What rfalNfcDeactivation leaves.
LEMMA DeactivatedTyped ==
  ASSUME NEW c \in Chip
  PROVE  Deactivated(c) \subseteq Chip
<1>1. \A q \in Chip : [q EXCEPT !.rf = "TXRX"] \in Chip
  BY DEF Chip
<1> QED BY <1>1, ChipResults DEF Deactivated

\* DEACTIVATION.
LEMMA DeactivationStep == Inductive /\ Deactivation => Inductive'
<1> SUFFICES ASSUME Inductive, Deactivation PROVE Inductive'
  OBVIOUS
<1>1. chip' \in Chip
  BY WorkerLeaves, DeactivatedTyped DEF Deactivation
<1>2. /\ state' \in {"START_DISCOVERY", "IDLE"} /\ disc.devLimit >= 1 /\ activeDev' = NULL
      /\ UNCHANGED <<techsFound, techs2do, devList, devCnt, selDevIdx, disc, discRestart,
                     discTmr, dataExErr, notifying>>
  BY DEF Deactivation, WorkerIn, detectVars, Inductive, CountInv
<1> QED BY <1>1, <1>2, ListUnchanged DEF Inductive, TypeOK

\* What the start of listening leaves.
LEMMA ListenStartedTyped ==
  ASSUME Inductive, NEW c \in Chip
  PROVE  ListenStarted(c) \subseteq Chip
<1>1. disc.listen \subseteq ListenTechs
  BY DEF Inductive, TypeOK, DiscoverParam
<1>2. [c EXCEPT !.rf = "LM", !.mdMask = disc.listen] \in Chip
  BY <1>1 DEF Chip
<1> QED BY <1>2, ChipSets DEF ListenStarted

\* Giving up a listen phase restarts the discovery and leaves the rest alone.
LEMMA ListenTechDetectStep == Inductive /\ ListenTechDetect => Inductive'
<1> SUFFICES ASSUME Inductive, ListenTechDetect PROVE Inductive'
  OBVIOUS
<1>1. PICK c \in rfalWorker :
       \/ state' = "START_DISCOVERY" /\ chip' = c
       \/ state' = "START_DISCOVERY" /\ chip' = rfalFieldOff(c)
       \/ state' = "LISTEN_COLAVOIDANCE" /\ chip' \in ListenStarted(c)
       \/ \E d \in {c} \cup ListenStarted(c) : GiveUpListening(d)
  BY DEF ListenTechDetect
<1>2. c \in Chip /\ ListenStarted(c) \subseteq Chip
  BY WorkerLeaves, ListenStartedTyped
<1>3. chip' \in Chip /\ state' \in {"START_DISCOVERY", "LISTEN_COLAVOIDANCE"}
  BY <1>1, <1>2, ChipResults DEF GiveUpListening
<1>4. /\ disc.devLimit >= 1
      /\ UNCHANGED <<listVars, detectVars, selDevIdx, disc, discRestart, discTmr,
                     dataExErr, notifying>>
  BY DEF ListenTechDetect, WorkerIn, Inductive, CountInv
<1> QED BY <1>3, <1>4, ListUnchanged DEF listVars, detectVars, Inductive, TypeOK

\* LISTEN_COLAVOIDANCE.
LEMMA ListenColAvoidanceStep == Inductive /\ ListenColAvoidance => Inductive'
<1> SUFFICES ASSUME Inductive, ListenColAvoidance PROVE Inductive'
  OBVIOUS
<1>1. PICK c \in rfalWorker :
       \/ GiveUpListening(c)
       \/ chip' = c /\ state' \in {"LISTEN_ACTIVATION", "LISTEN_COLAVOIDANCE"}
  BY DEF ListenColAvoidance, WorkerIn
<1>2. c \in Chip
  BY WorkerLeaves
<1>3. /\ chip' \in Chip
      /\ state' \in {"START_DISCOVERY", "LISTEN_ACTIVATION", "LISTEN_COLAVOIDANCE"}
  BY <1>1, <1>2, ChipResults DEF GiveUpListening
<1>4. /\ disc.devLimit >= 1
      /\ UNCHANGED <<listVars, detectVars, selDevIdx, disc, discRestart, discTmr,
                     dataExErr, notifying>>
  BY DEF ListenColAvoidance, WorkerIn, Inductive, CountInv
<1> QED BY <1>3, <1>4, ListUnchanged DEF listVars, detectVars, Inductive, TypeOK

\* A listen step either leaves the list alone or activates entry 0 as a reader.
LEMMA ListenActivationStep == Inductive /\ ListenActivation => Inductive'
<1> SUFFICES ASSUME Inductive, ListenActivation PROVE Inductive'
  OBVIOUS
<1>0. /\ state \in {"LISTEN_ACTIVATION", "LISTEN_SLEEP"} /\ disc.devLimit >= 1
      /\ UNCHANGED <<detectVars, selDevIdx, disc, discRestart, discTmr, dataExErr,
                     notifying>>
  BY DEF ListenActivation, WorkerIn, Inductive, CountInv
<1>1. PICK c \in rfalWorker :
       \/ FirstFrameA(c) \/ StillListening(c) \/ ListenFails(c)
       \/ StillListening(SetReady(c, "CARDEMU_3"))
       \/ ActivatedAs("POLL_NFCA", "ISODEP", c) \/ ActivatedAs("POLL_NFCF", "RF", c)
  BY DEF ListenActivation
<1>2. c \in Chip
  BY WorkerLeaves
<1>3. /\ SetReady(c, "CARDEMU_3") \in Chip /\ Asleep(c) \in Chip
      /\ [SetReady(c, "CARDEMU_4A") EXCEPT !.rf = "TXRX"] \in Chip
  <2>1. SetReady(c, "CARDEMU_3") \in Chip /\ SetReady(c, "CARDEMU_4A") \in Chip
    BY <1>2, ChipOps DEF LmStates
  <2>2. \A q \in Chip : [q EXCEPT !.rf = "TXRX"] \in Chip
    BY DEF Chip
  <2> QED BY <1>2, <2>1, <2>2, ChipResults
<1>4. ASSUME NEW d \in Chip, StillListening(d) PROVE Inductive'
  <2>1. /\ chip' \in Chip /\ UNCHANGED listVars
        /\ state' \in {"START_DISCOVERY", "LISTEN_ACTIVATION", "LISTEN_SLEEP"}
    BY <1>0, <1>4, ChipResults DEF StillListening, GiveUpListening
  <2> QED BY <1>0, <2>1, ListUnchanged DEF listVars, detectVars, Inductive, TypeOK
<1>5. ASSUME ListenFails(c) PROVE Inductive'
  <2>1. chip' \in Chip /\ UNCHANGED listVars /\ state' = "START_DISCOVERY"
    BY <1>2, <1>5, ChipResults DEF ListenFails, GiveUpListening
  <2> QED BY <1>0, <2>1, ListUnchanged DEF listVars, detectVars, Inductive, TypeOK
<1>6. CASE FirstFrameA(c)
  BY <1>3, <1>4, <1>5, <1>6 DEF FirstFrameA
<1>7. ASSUME NEW type \in RemDevPoller, NEW iface \in Interfaces,
             ActivatedAs(type, iface, c)
      PROVE  Inductive'
  <2>1. 0 \in Index /\ 1 \in 0..MaxDevices
    BY MaxDevicesAssumption DEF Index
  <2>2. devList' \in [Index -> Device]
    BY <1>7, <2>1 DEF ActivatedAs, Inductive, TypeOK, Device
  <2>3. chip' = c /\ devCnt' = 1 /\ activeDev' = 0 /\ state' = "ACTIVATED"
    BY <1>7 DEF ActivatedAs
  <2>4. TypeOK'
    BY <1>0, <1>2, <2>1, <2>2, <2>3 DEF detectVars, Inductive, TypeOK
  <2>5. CountInv'
    BY <1>0, <2>3 DEF CountInv, WithinLimit
  <2> QED BY <2>4, <2>5 DEF Inductive
<1>8. CASE ActivatedAs("POLL_NFCA", "ISODEP", c) \/ ActivatedAs("POLL_NFCF", "RF", c)
  BY <1>7, <1>8 DEF RemDevPoller, Interfaces
<1> QED BY <1>1, <1>2, <1>3, <1>4, <1>5, <1>6, <1>8

-----------------------------------------------------------------------------
(* The application's calls.                                                *)

\* rfalNfcInitialize.
LEMMA InitializeStep == Inductive /\ Initialize => Inductive'
<1> SUFFICES ASSUME Inductive, Initialize PROVE Inductive'
  OBVIOUS
<1>1. chip \in Chip
  BY DEF Inductive, TypeOK
<1>2. [ResetChip EXCEPT !.mdMask = chip.mdMask] \in Chip
  BY <1>1 DEF ResetChip, Chip, LmStates
<1>3. \A o \in BOOLEAN : [chip EXCEPT !.osc = o] \in Chip
  BY <1>1 DEF Chip
<1>4. chip' \in Chip /\ state' \in {"IDLE", "NOTINIT"}
  BY <1>2, <1>3 DEF Initialize
<1>5. UNCHANGED <<listVars, detectVars, selDevIdx, disc, discRestart, discTmr,
                 dataExErr, notifying>>
  BY DEF Initialize
<1>6. state' \notin {"NOTINIT", "IDLE"} \/ notifying' => disc.devLimit >= 1
  BY <1>4, <1>5 DEF Inductive, CountInv
<1> QED BY <1>4, <1>5, <1>6, ListUnchanged DEF listVars, detectVars, Inductive, TypeOK

\* rfalNfcDiscover, with any parameters it accepts.
LEMMA DiscoverStep ==
  ASSUME Inductive, NEW p \in Params, Discover(p)
  PROVE  Inductive'
<1>1. p \in DiscoverParam /\ p.devLimit \in 1..MaxDevices
  BY ParamFacts
<1>2. /\ disc' = p /\ devCnt' = 0 /\ state' = "START_DISCOVERY" /\ techsFound' = {}
      /\ activeDev' = NULL /\ discRestart' = TRUE
      /\ UNCHANGED <<techs2do, devList, selDevIdx, discTmr, dataExErr, notifying, chip>>
  BY DEF Discover
<1>3. 0 \in 0..MaxDevices
  BY MaxDevicesAssumption
<1>4. TypeOK'
  BY <1>1, <1>2, <1>3 DEF Inductive, TypeOK
<1>5. CountInv'
  BY <1>1, <1>2 DEF CountInv, WithinLimit
<1> QED BY <1>4, <1>5 DEF Inductive

\* rfalNfcDeactivate, in any state.
LEMMA DeactivateStep ==
  ASSUME Inductive, NEW discovery \in BOOLEAN, Deactivate(discovery)
  PROVE  Inductive'
<1>1. /\ disc.devLimit >= 1
      /\ UNCHANGED <<devList, devCnt, techsFound, techs2do, selDevIdx, disc, discTmr,
                     dataExErr, notifying>>
  BY DEF Deactivate, detectVars, Inductive, CountInv
<1>2. chip \in Chip /\ activeDev \in Index \cup {NULL} /\ discRestart \in BOOLEAN
  BY DEF Inductive, TypeOK
<1>3. /\ state' \in {"DEACTIVATION", "IDLE"} /\ chip' \in Chip
      /\ activeDev' \in Index \cup {NULL} /\ discRestart' \in BOOLEAN
  BY <1>2, DeactivatedTyped DEF Deactivate
<1> QED BY <1>1, <1>3, ListUnchanged DEF Inductive, TypeOK

\* rfalNfcSelect, with any index of the list.
LEMMA SelectStep ==
  ASSUME Inductive, NEW devIdx \in Index, Select(devIdx)
  PROVE  Inductive'
<1>1. /\ disc.devLimit >= 1 /\ state' = "POLL_ACTIVATION" /\ selDevIdx' = devIdx
      /\ UNCHANGED <<listVars, detectVars, disc, discRestart, discTmr, dataExErr,
                     notifying, chip>>
  BY DEF Select, Inductive, CountInv
<1> QED BY <1>1, ListUnchanged DEF listVars, detectVars, Inductive, TypeOK

\* rfalNfcDataExchangeStart.
LEMMA DataExchangeStartStep == Inductive /\ DataExchangeStart => Inductive'
<1> SUFFICES ASSUME Inductive, DataExchangeStart PROVE Inductive'
  OBVIOUS
<1>1. /\ disc.devLimit >= 1 /\ state' = "DATAEXCHANGE" /\ dataExErr' = "BUSY"
      /\ UNCHANGED <<listVars, detectVars, selDevIdx, disc, discRestart, discTmr, notifying>>
  BY DEF DataExchangeStart, Inductive, CountInv
<1>2. chip \in Chip /\ [chip EXCEPT !.rf = "TXRX"] \in Chip
  BY DEF Inductive, TypeOK, Chip
<1>3. chip' \in Chip
  BY <1>2 DEF DataExchangeStart
<1> QED BY <1>1, <1>3, ListUnchanged DEF listVars, detectVars, Inductive, TypeOK

\* rfalNfcDataExchangeGetStatus.
LEMMA DataExchangeGetStatusStep == Inductive /\ DataExchangeGetStatus => Inductive'
<1> SUFFICES ASSUME Inductive, DataExchangeGetStatus PROVE Inductive'
  OBVIOUS
<1>1. /\ state' \in IsDevActivated /\ disc.devLimit >= 1
      /\ ExchangeStatus(chip, dataExErr', chip')
      /\ UNCHANGED <<listVars, detectVars, selDevIdx, disc, discRestart, discTmr, notifying>>
  BY DEF DataExchangeGetStatus, Inductive, CountInv
<1>2. chip' \in Chip /\ dataExErr' \in {"NONE", "BUSY", "AGAIN", "SLEEP_REQ", "ERR"}
  BY <1>1, ExchangeStatusTyped DEF Inductive, TypeOK
<1> QED BY <1>1, <1>2, ListUnchanged DEF listVars, detectVars, Inductive, TypeOK

\* The discovery timer expires.
LEMMA TimerStep == Inductive /\ TimerExpires => Inductive'
<1> SUFFICES ASSUME Inductive, TimerExpires PROVE Inductive'
  OBVIOUS
<1>1. /\ discTmr' = TRUE
      /\ UNCHANGED <<state, listVars, detectVars, selDevIdx, disc, discRestart,
                     dataExErr, notifying, chip>>
  BY DEF TimerExpires
<1> QED BY <1>1, ListUnchanged DEF listVars, detectVars, Inductive, TypeOK, CountInv

\* Steps of the RF layer alone.
LEMMA RfOnlyStep == Inductive /\ RfOnly => Inductive'
<1> SUFFICES ASSUME Inductive, RfOnly PROVE Inductive'
  OBVIOUS
<1>1. /\ chip' \in Chip
      /\ UNCHANGED <<state, listVars, detectVars, selDevIdx, disc, discRestart,
                     discTmr, dataExErr, notifying>>
  BY WorkerLeaves DEF RfOnly
<1> QED BY <1>1, ListUnchanged DEF listVars, detectVars, Inductive, TypeOK, CountInv

\* A stutter keeps the invariant.
LEMMA StutterStep == Inductive /\ UNCHANGED vars => Inductive'
<1> SUFFICES ASSUME Inductive, UNCHANGED vars PROVE Inductive'
  OBVIOUS
<1> QED BY ListUnchanged DEF vars, listVars, detectVars, Inductive, TypeOK, CountInv

-----------------------------------------------------------------------------

\* Every step of the worker, the application and time keeps the invariant.
THEOREM InductiveNext == Inductive /\ [Next]_vars => Inductive'
<1>1. Inductive /\ rfalNfcWorker => Inductive'
  BY StartDiscoveryStep, WakeUpModeStep, PollTechDetectStep, PollColAvoidanceStep,
     PollActivationStep, DataExchangeStep, DeactivationStep, ListenTechDetectStep,
     ListenColAvoidanceStep, ListenActivationStep, RfOnlyStep DEF rfalNfcWorker
<1>2. Inductive /\ Application => Inductive'
  BY InitializeStep, DiscoverStep, DeactivateStep, SelectStep, DataExchangeStartStep,
     DataExchangeGetStatusStep DEF Application
<1> QED BY <1>1, <1>2, NotificationReturnsStep, TimerStep, StutterStep DEF Next

\* Inductive holds in every reachable state.
LEMMA InductiveAlways == Spec => []Inductive
  BY InductiveInit, InductiveNext, PTL DEF Spec

\* Type correctness: the count, the selected and the active entry stay within
\* the device list, for any list size, parameters and order of calls.
THEOREM TypeCorrect == Spec => []TypeOK
<1>1. Inductive => TypeOK
  BY DEF Inductive
<1> QED BY <1>1, InductiveAlways, PTL

\* rfalNfcPollCollResolution never finds more devices than the application's
\* devLimit, over all technologies together.
THEOREM DevicesWithinLimit == Spec => []WithinLimit
<1>1. Inductive => WithinLimit
  BY DEF Inductive, CountInv
<1> QED BY <1>1, InductiveAlways, PTL

\* A step other than an activation or the start of an exchange: it stays in the
\* exchange states with the same device, or leaves them.
LEMMA ActiveKept ==
  ASSUME ActiveDeviceKnown,
         state' \notin IsDevActivated \/ (state \in IsDevActivated /\ UNCHANGED activeDev)
  PROVE  ActiveDeviceKnown'
  BY DEF ActiveDeviceKnown

\* Every step keeps an active device in the exchange states.
THEOREM ActiveDeviceNext ==
  TypeOK /\ ActiveDeviceKnown /\ [Next]_vars => ActiveDeviceKnown'
<1> SUFFICES ASSUME TypeOK, ActiveDeviceKnown, [Next]_vars PROVE ActiveDeviceKnown'
  OBVIOUS
<1>0. \A i \in Index : i # NULL
  BY NullAssumption DEF Index
<1>1. CASE StartDiscovery \/ WakeUpMode
  BY <1>1, ActiveKept DEF StartDiscovery, WakeUpMode, WorkerIn
<1>2. CASE PollTechDetect
  <2>1. state' \notin IsDevActivated
    BY <1>2 DEF PollTechDetect, WorkerIn, DetectionDone, DetectAP2P, DetectFails,
                DetectPassive
  <2> QED BY <2>1, ActiveKept
<1>3. CASE PollColAvoidance
  <2>1. state' \notin IsDevActivated
    BY <1>3 DEF PollColAvoidance, WorkerIn, ResolveTech, ResolutionDone
  <2> QED BY <2>1, ActiveKept
<1>4. CASE PollActivation
  <2>1. state' = "DEACTIVATION" \/ activeDev' = selDevIdx
    BY <1>4 DEF PollActivation
  <2>2. selDevIdx # NULL
    BY <1>0 DEF TypeOK
  <2> QED BY <2>1, <2>2 DEF ActiveDeviceKnown
<1>5. CASE DataExchange
  <2>1. state \in IsDevActivated /\ UNCHANGED activeDev
    BY <1>5 DEF DataExchange, WorkerIn, listVars
  <2> QED BY <2>1, ActiveKept
<1>6. CASE Deactivation
  <2>1. state' \notin IsDevActivated
    BY <1>6 DEF Deactivation
  <2> QED BY <2>1, ActiveKept
<1>7. CASE ListenTechDetect
  <2>1. state' \notin IsDevActivated
    BY <1>7 DEF ListenTechDetect, GiveUpListening
  <2> QED BY <2>1, ActiveKept
<1>8. CASE ListenColAvoidance
  <2>1. state' \notin IsDevActivated
    BY <1>8 DEF ListenColAvoidance, WorkerIn, GiveUpListening
  <2> QED BY <2>1, ActiveKept
<1>9. CASE ListenActivation
  <2>1. PICK c \in rfalWorker :
         \/ FirstFrameA(c) \/ StillListening(c) \/ ListenFails(c)
         \/ StillListening(SetReady(c, "CARDEMU_3"))
         \/ ActivatedAs("POLL_NFCA", "ISODEP", c) \/ ActivatedAs("POLL_NFCF", "RF", c)
    BY <1>9 DEF ListenActivation
  <2>2. state \in {"LISTEN_ACTIVATION", "LISTEN_SLEEP"}
    BY <1>9 DEF ListenActivation, WorkerIn
  <2>3. state' \notin IsDevActivated \/ activeDev' = 0
    BY <2>1, <2>2 DEF FirstFrameA, StillListening, ListenFails, GiveUpListening, ActivatedAs
  <2>4. 0 # NULL
    BY NullAssumption
  <2> QED BY <2>3, <2>4 DEF ActiveDeviceKnown
<1>10. CASE Initialize \/ \E discovery \in BOOLEAN : Deactivate(discovery)
  <2>1. state' \notin IsDevActivated
    BY <1>10 DEF Initialize, Deactivate
  <2> QED BY <2>1, ActiveKept
<1>11. CASE (\E p \in Params : Discover(p)) \/ \E devIdx \in Index : Select(devIdx)
  <2>1. state' \notin IsDevActivated
    BY <1>11 DEF Discover, Select
  <2> QED BY <2>1, ActiveKept
<1>12. CASE DataExchangeStart
  BY <1>12 DEF DataExchangeStart, listVars, ActiveDeviceKnown
<1>13. CASE DataExchangeGetStatus
  <2>1. state \in IsDevActivated /\ UNCHANGED activeDev
    BY <1>13 DEF DataExchangeGetStatus, listVars
  <2> QED BY <2>1, ActiveKept
<1>14. CASE NotificationReturns
  BY <1>14 DEF NotificationReturns, listVars, ActiveDeviceKnown
<1>15. CASE RfOnly \/ TimerExpires \/ UNCHANGED vars
  BY <1>15 DEF RfOnly, TimerExpires, vars, listVars, ActiveDeviceKnown
<1> QED BY <1>1, <1>2, <1>3, <1>4, <1>5, <1>6, <1>7, <1>8, <1>9, <1>10, <1>11, <1>12,
           <1>13, <1>14, <1>15 DEF Next, rfalNfcWorker, Application

\* In every exchange state, whatever the application called in between, from
\* loop() or from the callback, there is an active device to dereference.
THEOREM ActiveDeviceAlways == Spec => []ActiveDeviceKnown
<1>1. Init => ActiveDeviceKnown
  BY DEF Init, ActiveDeviceKnown
<1> QED BY <1>1, ActiveDeviceNext, TypeCorrect, PTL DEF Spec

-----------------------------------------------------------------------------
(* The RF layer follows the state machine.                                 *)

\* What the calls of the discovery leave the field, the RF layer's state and the
\* wake-up mode at.
LEMMA FieldOps ==
  ASSUME NEW c \in Chip
  PROVE  /\ ~rfalFieldOff(c).field /\ rfalFieldOff(c).wum = c.wum
         /\ rfalFieldOff(c).rf = c.rf /\ rfalFieldOff(c).lm = c.lm
         /\ ~rfalListenStop(c).field /\ rfalListenStop(c).wum = c.wum
         /\ rfalListenStop(c).rf = c.rf /\ rfalListenStop(c).lm = "NOT_INIT"
         /\ rfalWakeUpModeStop(c).wum = "NOT_INIT"
         /\ rfalWakeUpModeStop(c).field = c.field
         /\ rfalWakeUpModeStart(c).field = c.field
         /\ PolledWith(c).field /\ PolledWith(c).rf = "TXRX"
         /\ PolledWith(c).osc = c.osc /\ PolledWith(c).wum = c.wum
<1> USE DEF Chip
<1>1. /\ ~rfalFieldOff(c).field /\ rfalFieldOff(c).wum = c.wum
      /\ rfalFieldOff(c).rf = c.rf /\ rfalFieldOff(c).lm = c.lm
  BY DEF rfalFieldOff
<1>2. /\ ~rfalListenStop(c).field /\ rfalListenStop(c).wum = c.wum
      /\ rfalListenStop(c).rf = c.rf /\ rfalListenStop(c).lm = "NOT_INIT"
  BY DEF rfalListenStop, LmStates
<1>3. rfalWakeUpModeStop(c).wum = "NOT_INIT" /\ rfalWakeUpModeStop(c).field = c.field
  BY DEF rfalWakeUpModeStop
<1>4. rfalWakeUpModeStart(c).field = c.field
  BY DEF rfalWakeUpModeStart
<1>5. /\ PolledWith(c).field /\ PolledWith(c).rf = "TXRX"
      /\ PolledWith(c).osc = c.osc /\ PolledWith(c).wum = c.wum
  BY DEF PolledWith
<1> HIDE DEF Chip
<1> QED BY <1>1, <1>2, <1>3, <1>4, <1>5

\* The listen state machine touches neither the wake-up mode nor, but to switch
\* it off, the field.
Listens(c, d, lm) ==
  d.rf = c.rf /\ d.wum = c.wum /\ (d.field => c.field) /\ d.lm \in lm

LEMMA ListenOps ==
  ASSUME NEW c \in Chip
  PROVE  /\ Listens(c, PowerOff(c), {"POWER_OFF"}) /\ Listens(c, LmIdle(c), {"IDLE"})
         /\ Listens(c, DataReceived(c), {c.lm})
         /\ Listens(c, rfalListenStop(c), {"NOT_INIT"})
         /\ \A st \in LmStates : Listens(c, SetReady(c, st), {st})
         /\ Asleep(c).rf = "LM" /\ Asleep(c).lm = "SLEEP_A"
         /\ Asleep(c).wum = c.wum /\ Asleep(c).field = c.field
<1> USE DEF Chip, Listens
<1>1. Listens(c, PowerOff(c), {"POWER_OFF"}) /\ Listens(c, LmIdle(c), {"IDLE"})
  BY DEF PowerOff, LmIdle
<1>2. Listens(c, DataReceived(c), {c.lm})
  BY DEF DataReceived
<1>3. Listens(c, rfalListenStop(c), {"NOT_INIT"})
  BY DEF rfalListenStop
<1>4. \A st \in LmStates : Listens(c, SetReady(c, st), {st})
  BY DEF SetReady
<1>5. /\ Asleep(c).rf = "LM" /\ Asleep(c).lm = "SLEEP_A"
      /\ Asleep(c).wum = c.wum /\ Asleep(c).field = c.field
  BY DEF Asleep
<1> HIDE DEF Chip, Listens
<1> QED BY <1>1, <1>2, <1>3, <1>4, <1>5

\* rfalListenSetState(POWER_OFF) and (IDLE) end in one of these two states.
LEMMA ListenSets ==
  ASSUME NEW c \in Chip
  PROVE  \A d \in SetPowerOff(c) \cup SetIdle(c) : Listens(c, d, {"POWER_OFF", "IDLE"})
  BY ListenOps DEF SetPowerOff, SetIdle, Listens

\* Listen mode leaves IDLE for a reader's field, a frame or a loss of the field.
LEMMA FromIdleListens ==
  ASSUME NEW c \in Chip
  PROVE  \A d \in FromIdle(c) :
           Listens(c, d, {"POWER_OFF", "IDLE", "READY_F", "READY_A", c.lm})
<1>1. Listens(c, SetReady(c, "READY_F"), {"READY_F"})
      /\ Listens(c, SetReady(c, "READY_A"), {"READY_A"})
  BY ListenOps DEF LmStates
<1> QED BY <1>1, ListenSets, ListenOps DEF FromIdle, Listens

\* An event of listen mode never moves to CARDEMU_4A, which is the discovery's
\* doing, and from IDLE or below never stops listen mode.
LEMMA ListenEventsListen ==
  ASSUME NEW c \in Chip, NEW d \in ListenEvents(c), c.rf = "LM"
  PROVE  /\ Listens(c, d, LmStates \ {"CARDEMU_4A"})
         /\ c.lm # "CARDEMU_4A"
         /\ c.lm \in {"POWER_OFF", "IDLE"} => d.lm # "NOT_INIT"
<1> USE DEF LmStates
<1>1. /\ Listens(c, SetReady(c, "READY_F"), {"READY_F"})
      /\ Listens(c, SetReady(c, "ACTIVE_A"), {"ACTIVE_A"})
      /\ Listens(c, SetReady(c, "READY_Ax"), {"READY_Ax"})
      /\ Listens(c, SetReady(c, "ACTIVE_Ax"), {"ACTIVE_Ax"})
  BY ListenOps
<1>2. CASE c.lm = "POWER_OFF"
  <2>1. CASE d \in SetIdle(c)
    BY <1>2, <2>1, ListenSets DEF Listens
  <2>2. CASE \E e \in SetIdle(c) : d \in FromIdle(e)
    <3>1. PICK e \in SetIdle(c) : d \in FromIdle(e)
      BY <2>2
    <3>2. e \in Chip /\ Listens(c, e, {"POWER_OFF", "IDLE"})
      BY ChipSets, ListenSets
    <3>3. Listens(e, d, {"POWER_OFF", "IDLE", "READY_F", "READY_A", e.lm})
      BY <3>1, <3>2, FromIdleListens
    <3> QED BY <1>2, <3>2, <3>3 DEF Listens
  <2> QED BY <1>2, <2>1, <2>2 DEF ListenEvents
<1>3. CASE c.lm = "IDLE"
  <2>1. d \in FromIdle(c)
    BY <1>3 DEF ListenEvents
  <2> QED BY <1>3, <2>1, FromIdleListens DEF Listens
<1>4. CASE c.lm \in {"READY_F", "READY_A", "ACTIVE_A"}
  <2>1. d \in SetPowerOff(c) \cup SetIdle(c) \cup {DataReceived(c), SetReady(c, "ACTIVE_A")}
    BY <1>4 DEF ListenEvents
  <2> QED BY <1>1, <1>4, <2>1, ListenSets, ListenOps DEF Listens
<1>5. CASE c.lm \in {"ACTIVE_Ax", "SLEEP_A", "READY_Ax"}
  <2>1. d \in SetPowerOff(c) \cup {DataReceived(c), SetReady(c, "READY_F"),
              SetReady(c, "READY_Ax"), SetReady(c, "ACTIVE_Ax"), Asleep(c), rfalListenStop(c)}
    BY <1>5 DEF ListenEvents, rfalListenSleepStart
  <2> QED BY <1>1, <1>5, <2>1, ListenSets, ListenOps DEF Listens
<1>6. CASE c.lm \notin {"POWER_OFF", "IDLE", "READY_F", "READY_A", "ACTIVE_A",
                        "ACTIVE_Ax", "SLEEP_A", "READY_Ax"}
  BY <1>6 DEF ListenEvents
<1> QED BY <1>2, <1>3, <1>4, <1>5, <1>6

\* What rfalWorker may change: never the RF layer's state, never the wake-up mode
\* once it is stopped, the field only to off, and nothing at all while polling.
LEMMA WorkerKeeps ==
  ASSUME Inductive, NEW d \in rfalWorker
  PROVE  /\ d \in Chip /\ d.rf = chip.rf
         /\ d.field => chip.field
         /\ chip.wum = "NOT_INIT" => d.wum = "NOT_INIT"
         /\ d.lm = "CARDEMU_4A" <=> chip.lm = "CARDEMU_4A"
         /\ chip.lm \in {"POWER_OFF", "IDLE"} => d.lm # "NOT_INIT"
         /\ chip.rf \in {"READY", "TXRX"} => d = chip
<1>1. d \in Chip /\ chip \in Chip
  BY WorkerLeaves DEF Inductive, TypeOK
<1>2. CASE d = chip
  BY <1>1, <1>2
<1>3. CASE chip.rf = "LM" /\ d \in ListenEvents(chip)
  BY <1>1, <1>3, ListenEventsListen DEF Listens
<1>4. CASE chip.rf = "WUM" /\ d \in WakeUpEvents(chip)
  <2>1. chip.wum # "NOT_INIT" /\ \E o \in BOOLEAN : d = [chip EXCEPT !.wum = "WOKE", !.osc = o]
    BY <1>4 DEF WakeUpEvents
  <2>2. d.rf = chip.rf /\ d.field = chip.field /\ d.lm = chip.lm
    BY <1>1, <2>1 DEF Chip
  <2> QED BY <1>1, <1>4, <2>1, <2>2
<1> QED BY <1>2, <1>3, <1>4 DEF rfalWorker

FieldAndWakeUpOff(c) == ~c.field /\ c.wum = "NOT_INIT"

\* The field is up for the devices found, and the RF layer transmits.
FieldHeldBy(c) == c.field /\ c.osc /\ c.rf = "TXRX" /\ c.wum = "NOT_INIT"

\* The state of the RF layer as the one role or the other needs it.
RoleInv ==
  state \in IsDevActivated =>
    /\ chip.wum = "NOT_INIT"
    /\ IF Active.type \in RemDevListener THEN chip.field /\ chip.rf = "TXRX" ELSE ~chip.field

\* A technology is found with the field on, and it stays on; active P2P, which
\* switches it off again, comes first.  A sleep request comes from a reader, and
\* while its notification runs nothing has switched the field on.
RfInv ==
  /\ state \in {"IDLE", "START_DISCOVERY"} \cup ListenStates => FieldAndWakeUpOff(chip)
  /\ state = "WAKEUP_MODE" => ~chip.field /\ techsFound = {}
  /\ state = "POLL_TECHDETECT" =>
       /\ chip.wum = "NOT_INIT"
       /\ techsFound # {} => FieldHeldBy(chip) /\ "AP2P" \notin techs2do
  /\ state \in {"POLL_COLAVOIDANCE", "POLL_SELECT", "POLL_ACTIVATION"} => FieldHeldBy(chip)
  /\ RoleInv
  /\ state \in {"DATAEXCHANGE", "DATAEXCHANGE_DONE"} /\ dataExErr = "SLEEP_REQ" =>
       Active.type \in RemDevPoller
  /\ notifying /\ dataExErr = "SLEEP_REQ" => FieldAndWakeUpOff(chip)
  /\ ListenInStep

\* It holds of the library as it starts, and implies the property.
LEMMA RfInvInit == Init => RfInv
  BY DEF Init, RfInv, RoleInv, ListenInStep

LEMMA RfInvFollows == TypeOK /\ RfInv => RfFollowsState
<1> SUFFICES ASSUME TypeOK, RfInv PROVE RfFollowsState
  OBVIOUS
<1> USE DEF RfInv, FieldAndWakeUpOff, FieldHeldBy
<1>1. FieldOnlyWhenPolling
  BY DEF TypeOK, FieldOnlyWhenPolling
<1>2. FieldHeld
  BY DEF FieldHeld
<1>3. WakeUpOwned
  BY DEF TypeOK, WakeUpOwned, RoleInv
<1>4. RoleMatchesField
  <2>1. CASE state \in IsDevActivated
    <3>1. chip.field \in BOOLEAN
      BY DEF TypeOK, Chip
    <3> QED BY <2>1, <3>1 DEF RoleMatchesField, RoleInv
  <2> QED BY <2>1 DEF RoleMatchesField
<1> QED BY <1>1, <1>2, <1>3, <1>4 DEF RfFollowsState

\* A step to a state in which the field and the wake-up mode are off.
LEMMA ToQuiet ==
  ASSUME notifying' /\ dataExErr' = "SLEEP_REQ" => FieldAndWakeUpOff(chip'),
         \/ state' \in {"NOTINIT", "DEACTIVATION"}
         \/ /\ state' \in {"IDLE", "START_DISCOVERY", "LISTEN_TECHDETECT", "LISTEN_SLEEP"}
            /\ FieldAndWakeUpOff(chip')
  PROVE  RfInv'
  BY DEF RfInv, RoleInv, ListenInStep, FieldAndWakeUpOff

\* A step to a state in which the field is held.
LEMMA ToHeld ==
  ASSUME notifying' /\ dataExErr' = "SLEEP_REQ" => FieldAndWakeUpOff(chip'),
         FieldHeldBy(chip'),
         state' \in {"POLL_COLAVOIDANCE", "POLL_SELECT", "POLL_ACTIVATION"}
  PROVE  RfInv'
  BY DEF RfInv, RoleInv, ListenInStep

\* A step to an exchange state.
LEMMA ToActivated ==
  ASSUME notifying' /\ dataExErr' = "SLEEP_REQ" => FieldAndWakeUpOff(chip'),
         state' \in IsDevActivated, RoleInv',
         state' # "ACTIVATED" /\ dataExErr' = "SLEEP_REQ" => Active'.type \in RemDevPoller
  PROVE  RfInv'
  BY DEF RfInv, ListenInStep

\* A step that stays in, or goes to, a listen phase.
LEMMA ToListening ==
  ASSUME ~notifying', state' \in ListenStates, FieldAndWakeUpOff(chip'), ListenInStep'
  PROVE  RfInv'
  BY DEF RfInv, RoleInv, FieldAndWakeUpOff

-----------------------------------------------------------------------------
(* The worker.                                                             *)

LEMMA StartDiscoveryRf == Inductive /\ RfInv /\ StartDiscovery => RfInv'
<1> SUFFICES ASSUME Inductive, RfInv, StartDiscovery PROVE RfInv'
  OBVIOUS
<1>1. state = "START_DISCOVERY" /\ ~notifying' /\ techsFound' = {}
  BY DEF StartDiscovery, WorkerIn
<1>2. FieldAndWakeUpOff(chip)
  BY <1>1 DEF RfInv
<1>3. PICK c \in rfalWorker :
        \/ state' = "WAKEUP_MODE" /\ chip' = rfalWakeUpModeStart(c)
        \/ state' = "POLL_TECHDETECT" /\ chip' = c
  BY DEF StartDiscovery
<1>4. c \in Chip /\ FieldAndWakeUpOff(c)
  BY <1>2, WorkerKeeps DEF FieldAndWakeUpOff
<1>5. \/ state' = "WAKEUP_MODE" /\ ~chip'.field
      \/ state' = "POLL_TECHDETECT" /\ chip'.wum = "NOT_INIT"
  BY <1>3, <1>4, FieldOps DEF FieldAndWakeUpOff
<1> QED BY <1>1, <1>5 DEF RfInv, RoleInv, ListenInStep

LEMMA WakeUpModeRf == Inductive /\ RfInv /\ WakeUpMode => RfInv'
<1> SUFFICES ASSUME Inductive, RfInv, WakeUpMode PROVE RfInv'
  OBVIOUS
<1>1. state = "WAKEUP_MODE" /\ ~notifying' /\ techsFound' = techsFound
  BY DEF WakeUpMode, WorkerIn, detectVars
<1>2. ~chip.field /\ techsFound = {}
  BY <1>1 DEF RfInv
<1>3. PICK c \in rfalWorker :
        \/ state' = "POLL_TECHDETECT" /\ chip' = rfalWakeUpModeStop(c)
        \/ state' = state /\ chip' = c
  BY DEF WakeUpMode
<1>4. c \in Chip /\ ~c.field
  BY <1>2, WorkerKeeps
<1>5. \/ state' = "WAKEUP_MODE" /\ ~chip'.field
      \/ state' = "POLL_TECHDETECT" /\ chip'.wum = "NOT_INIT"
  BY <1>1, <1>3, <1>4, FieldOps
<1> QED BY <1>1, <1>2, <1>5 DEF RfInv, RoleInv, ListenInStep

\* Technology detection: the field is on from the first technology found to the
\* end, because what switches it off again is tried first.
LEMMA PollTechDetectRf == Inductive /\ RfInv /\ PollTechDetect => RfInv'
<1> SUFFICES ASSUME Inductive, RfInv, PollTechDetect PROVE RfInv'
  OBVIOUS
<1>0. /\ state = "POLL_TECHDETECT" /\ ~notifying'
      /\ techs2do \subseteq PollTechs /\ techsFound \subseteq PollTechs
  BY DEF PollTechDetect, WorkerIn, Inductive, TypeOK
<1>1. /\ chip.wum = "NOT_INIT"
      /\ techsFound # {} => FieldHeldBy(chip) /\ "AP2P" \notin techs2do
  BY <1>0 DEF RfInv
<1>2. PICK c \in rfalWorker :
       \/ techs2do = {} /\ DetectionDone(techsFound, c) /\ UNCHANGED <<techsFound, listVars>>
       \/ IsNext("AP2P", techs2do) /\ DetectAP2P(c)
       \/ \E tech \in PollTechs \ {"AP2P"} : IsNext(tech, techs2do) /\ DetectPassive(tech, c)
  BY DEF PollTechDetect
<1>3. c \in Chip /\ c.wum = "NOT_INIT" /\ (techsFound # {} => c = chip)
  BY <1>1, WorkerKeeps DEF FieldHeldBy
<1>4. \/ state' = "LISTEN_TECHDETECT" /\ FieldAndWakeUpOff(chip')
      \/ state' = "POLL_COLAVOIDANCE" /\ FieldHeldBy(chip')
      \/ /\ state' = "POLL_TECHDETECT" /\ chip'.wum = "NOT_INIT"
         /\ techsFound' # {} => FieldHeldBy(chip') /\ "AP2P" \notin techs2do'
  <2> DEFINE Goal ==
        \/ state' = "LISTEN_TECHDETECT" /\ FieldAndWakeUpOff(chip')
        \/ state' = "POLL_COLAVOIDANCE" /\ FieldHeldBy(chip')
        \/ /\ state' = "POLL_TECHDETECT" /\ chip'.wum = "NOT_INIT"
           /\ techsFound' # {} => FieldHeldBy(chip') /\ "AP2P" \notin techs2do'
  <2>1. ASSUME DetectFails(c) PROVE Goal
    BY <1>3, <2>1, FieldOps DEF DetectFails, FieldAndWakeUpOff
  <2>2. c.osc => FieldHeldBy(PolledWith(c))
    BY <1>3, FieldOps DEF FieldHeldBy
  <2>3. CASE DetectionDone(techsFound, c)
    <3>1. CASE techsFound = {}
      BY <1>3, <2>3, <3>1, FieldOps DEF DetectionDone, FieldAndWakeUpOff
    <3>2. CASE techsFound # {}
      BY <1>1, <1>3, <2>3, <3>2 DEF DetectionDone
    <3> QED BY <3>1, <3>2
  <2>4. CASE IsNext("AP2P", techs2do) /\ DetectAP2P(c)
    <3>1. techsFound = {}
      BY <1>1, <2>4 DEF IsNext
    <3>2. CASE state' = "POLL_COLAVOIDANCE" /\ chip' = PolledWith(c) /\ c.osc
      BY <2>2, <3>2
    <3>3. CASE chip' = rfalFieldOff(PolledWith(c)) /\ UNCHANGED <<state, techsFound>>
      <4>1. PolledWith(c) \in Chip
        BY <1>3, ChipResults
      <4>2. chip'.wum = "NOT_INIT"
        BY <1>3, <3>3, <4>1, FieldOps
      <4> QED BY <1>0, <3>1, <3>3, <4>2
    <3> QED BY <2>1, <2>4, <3>2, <3>3 DEF DetectAP2P
  <2>5. CASE \E tech \in PollTechs \ {"AP2P"} : IsNext(tech, techs2do) /\ DetectPassive(tech, c)
    <3>1. PICK tech \in PollTechs \ {"AP2P"} : IsNext(tech, techs2do) /\ DetectPassive(tech, c)
      BY <2>5
    <3>2. "AP2P" \notin techs2do
      <4>1. Order["AP2P"] = 1 /\ Order[tech] # 1 /\ Order[tech] \in Nat
            /\ (Order[tech] <= 1 => Order[tech] = 0 \/ Order[tech] = 1) /\ Order[tech] # 0
        BY <3>1 DEF Order, PollTechs
      <4>2. "AP2P" \in techs2do => Order[tech] <= Order["AP2P"]
        BY <3>1 DEF IsNext
      <4> QED BY <4>1, <4>2
    <3>3. CASE DetectFails(c)
      BY <2>1, <3>3
    <3>4. CASE /\ c.osc
               /\ techsFound' \in {techsFound, techsFound \cup {tech}}
               /\ IF tech = "ST25TB" THEN DetectionDone(techsFound', PolledWith(c))
                  ELSE /\ techs2do' = techs2do \ {tech}
                       /\ state' = state /\ chip' = PolledWith(c)
      <4>1. FieldHeldBy(PolledWith(c)) /\ PolledWith(c) \in Chip
        BY <1>3, <2>2, <3>4, ChipResults
      <4>2. CASE tech = "ST25TB"
        <5>1. CASE techsFound' = {}
          BY <3>4, <4>1, <4>2, <5>1, FieldOps DEF DetectionDone, FieldAndWakeUpOff, FieldHeldBy
        <5>2. CASE techsFound' # {}
          BY <3>4, <4>1, <4>2, <5>2 DEF DetectionDone
        <5> QED BY <5>1, <5>2
      <4>3. CASE tech # "ST25TB"
        BY <1>0, <3>2, <3>4, <4>1, <4>3 DEF FieldHeldBy
      <4> QED BY <4>2, <4>3
    <3> QED BY <3>1, <3>3, <3>4 DEF DetectPassive
  <2> QED BY <1>2, <2>3, <2>4, <2>5
<1> QED BY <1>0, <1>4, ToQuiet, ToHeld DEF RfInv, RoleInv, ListenInStep

LEMMA PollColAvoidanceRf == Inductive /\ RfInv /\ PollColAvoidance => RfInv'
<1> SUFFICES ASSUME Inductive, RfInv, PollColAvoidance PROVE RfInv'
  OBVIOUS
<1>1. state = "POLL_COLAVOIDANCE" /\ ~notifying'
  BY DEF PollColAvoidance, WorkerIn
<1>2. FieldHeldBy(chip) /\ chip \in Chip
  BY <1>1 DEF RfInv, Inductive, TypeOK
<1>3. PICK c \in rfalWorker :
       \/ ResolutionDone(c)
       \/ \E tech \in PollTechs : ResolveTech(tech, c)
  BY DEF PollColAvoidance
<1>4. c = chip
  BY <1>2, WorkerKeeps DEF FieldHeldBy
<1>5. FieldHeldBy(PolledWith(chip))
  BY <1>2, FieldOps DEF FieldHeldBy
<1>6. /\ FieldHeldBy(chip')
      /\ state' \in {"DEACTIVATION", "POLL_COLAVOIDANCE", "POLL_SELECT", "POLL_ACTIVATION"}
  BY <1>1, <1>2, <1>3, <1>4, <1>5 DEF ResolutionDone, ResolveTech
<1> QED BY <1>1, <1>6, ToQuiet, ToHeld

\* The device activated is of a technology polled for, and the field is on.
LEMMA PollActivationRf == Inductive /\ RfInv /\ PollActivation => RfInv'
<1> SUFFICES ASSUME Inductive, RfInv, PollActivation PROVE RfInv'
  OBVIOUS
<1>1. state = "POLL_ACTIVATION" /\ ~notifying' /\ dataExErr' = dataExErr
  BY DEF PollActivation, WorkerIn
<1>2. FieldHeldBy(chip) /\ chip \in Chip
  BY <1>1 DEF RfInv, Inductive, TypeOK
<1>3. chip' = chip
  BY <1>2, WorkerKeeps DEF PollActivation, FieldHeldBy
<1>4. CASE state' = "DEACTIVATION"
  BY <1>1, <1>4, ToQuiet
<1>5. CASE /\ devList[selDevIdx].type \in RemDevListener
           /\ activeDev' = selDevIdx /\ state' = "ACTIVATED"
           /\ \E iface : devList' = [devList EXCEPT ![selDevIdx].rfInterface = iface]
  <2>1. selDevIdx \in Index /\ devList \in [Index -> Device] /\ devList[selDevIdx] \in Device
    BY DEF Inductive, TypeOK
  <2>2. Active'.type = devList[selDevIdx].type
    BY <1>5, <2>1 DEF Active, Device
  <2>3. RoleInv'
    BY <1>2, <1>3, <1>5, <2>2 DEF RoleInv, FieldHeldBy
  <2> QED BY <1>1, <1>5, <2>3, ToActivated
<1> QED BY <1>4, <1>5 DEF PollActivation

\* What the status of an exchange does to the RF layer: nothing, or, when we are
\* the card, listen mode goes to sleep or is stopped.
LEMMA ExchangeStatusRf ==
  ASSUME TypeOK, ActiveDeviceKnown, NEW c \in Chip, NEW err, NEW d,
         state \in IsDevActivated, ExchangeStatus(c, err, d),
         state # "ACTIVATED" /\ dataExErr = "SLEEP_REQ" => Active.type \in RemDevPoller
  PROVE  /\ d.wum = c.wum
         /\ \/ d = c
            \/ Active.type \in RemDevPoller /\ (d.field => c.field)
         /\ err = "SLEEP_REQ" => Active.type \in RemDevPoller
         /\ Active.type \in RemDevListener => d = c
<1>1. Active.type \in RemDevPoller => Active.type \notin RemDevListener
  BY DEF RemDevPoller, RemDevListener, PollTechs
<1>2. "SLEEP_REQ" \in LowerStatus => Active.type \in RemDevPoller
  BY DEF LowerStatus
<1>3. \/ d = c /\ (err = "SLEEP_REQ" => Active.type \in RemDevPoller)
      \/ Active.type \in RemDevPoller /\ d = Asleep(c)
      \/ Active.type \in RemDevPoller /\ d = rfalListenStop(c)
  BY <1>2 DEF ExchangeStatus
<1>4. CASE d = c /\ (err = "SLEEP_REQ" => Active.type \in RemDevPoller)
  BY <1>4
<1>5. CASE Active.type \in RemDevPoller /\ d = Asleep(c)
  <2>1. d.wum = c.wum /\ (d.field => c.field)
    BY <1>5, ListenOps
  <2> QED BY <1>1, <1>5, <2>1
<1>6. CASE Active.type \in RemDevPoller /\ d = rfalListenStop(c)
  <2>1. d.wum = c.wum /\ ~d.field
    BY <1>6, FieldOps
  <2> QED BY <1>1, <1>6, <2>1
<1> QED BY <1>3, <1>4, <1>5, <1>6

LEMMA DataExchangeRf ==
  Inductive /\ ActiveDeviceKnown /\ RfInv /\ DataExchange => RfInv'
<1> SUFFICES ASSUME Inductive, ActiveDeviceKnown, RfInv, DataExchange PROVE RfInv'
  OBVIOUS
<1>1. /\ state = "DATAEXCHANGE" /\ TypeOK
      /\ state' \in {"DATAEXCHANGE", "DATAEXCHANGE_DONE", "LISTEN_SLEEP"}
      /\ state' = "LISTEN_SLEEP" => dataExErr' = "SLEEP_REQ" /\ ~notifying'
      /\ Active' = Active
  BY DEF DataExchange, WorkerIn, AfterDone, Inductive, Active, listVars
<1>2. PICK c \in rfalWorker : ExchangeStatus(c, dataExErr', chip')
  BY DEF DataExchange
<1>3. /\ chip.wum = "NOT_INIT"
      /\ IF Active.type \in RemDevListener THEN chip.field /\ chip.rf = "TXRX" ELSE ~chip.field
      /\ dataExErr = "SLEEP_REQ" => Active.type \in RemDevPoller
  BY <1>1 DEF RfInv, RoleInv
<1>4. c \in Chip /\ c.wum = "NOT_INIT" /\ (c.field => chip.field)
      /\ (Active.type \in RemDevListener => c = chip)
  BY <1>3, WorkerKeeps
<1>5. /\ chip'.wum = "NOT_INIT"
      /\ IF Active.type \in RemDevListener THEN chip'.field /\ chip'.rf = "TXRX" ELSE ~chip'.field
      /\ dataExErr' = "SLEEP_REQ" => Active.type \in RemDevPoller
  <2>1. /\ chip'.wum = c.wum
        /\ \/ chip' = c
           \/ Active.type \in RemDevPoller /\ (chip'.field => c.field)
        /\ dataExErr' = "SLEEP_REQ" => Active.type \in RemDevPoller
        /\ Active.type \in RemDevListener => chip' = c
    BY <1>1, <1>2, <1>3, <1>4, ExchangeStatusRf
  <2> QED BY <1>3, <1>4, <2>1
<1>6. dataExErr' = "SLEEP_REQ" => FieldAndWakeUpOff(chip')
  BY <1>5 DEF FieldAndWakeUpOff, RemDevPoller, RemDevListener, PollTechs
<1>7. CASE state' = "LISTEN_SLEEP"
  BY <1>1, <1>6, <1>7, ToQuiet
<1>8. CASE state' \in IsDevActivated
  <2>1. RoleInv'
    BY <1>1, <1>5 DEF RoleInv
  <2> QED BY <1>1, <1>5, <1>6, <1>8, <2>1, ToActivated
<1> QED BY <1>1, <1>7, <1>8

\* After the callback the device may sleep: what it called meanwhile left the
\* field off, in whatever state it has led to.
LEMMA NotificationReturnsRf == Inductive /\ RfInv /\ NotificationReturns => RfInv'
<1> SUFFICES ASSUME Inductive, RfInv, NotificationReturns PROVE RfInv'
  OBVIOUS
<1>1. /\ notifying /\ ~notifying' /\ dataExErr' = dataExErr /\ chip' = chip
      /\ state' = IF dataExErr = "SLEEP_REQ" THEN "LISTEN_SLEEP" ELSE state
      /\ UNCHANGED <<devList, activeDev, techsFound, techs2do>>
  BY DEF NotificationReturns, listVars, detectVars
<1>2. CASE dataExErr = "SLEEP_REQ"
  <2>1. FieldAndWakeUpOff(chip')
    BY <1>1, <1>2 DEF RfInv
  <2> QED BY <1>1, <1>2, <2>1, ToQuiet
<1>3. CASE dataExErr # "SLEEP_REQ"
  BY <1>1, <1>3 DEF RfInv, RoleInv, ListenInStep, Active, FieldAndWakeUpOff, FieldHeldBy
<1> QED BY <1>2, <1>3

\* Whatever the device, nothing is left on after rfalNfcDeactivation.
LEMMA DeactivatedQuiet ==
  ASSUME NEW c \in Chip, NEW d \in Deactivated(c)
  PROVE  FieldAndWakeUpOff(d)
<1>1. Quiet(c) \in Chip /\ FieldAndWakeUpOff(Quiet(c))
  <2>1. rfalWakeUpModeStop(c) \in Chip /\ rfalWakeUpModeStop(c).wum = "NOT_INIT"
    BY ChipOps, FieldOps
  <2>2. ASSUME NEW q \in Chip PROVE ~rfalFieldOff(q).field /\ rfalFieldOff(q).wum = q.wum
    BY FieldOps
  <2> QED BY <2>1, <2>2, ChipOps DEF Quiet, FieldAndWakeUpOff
<1>2. FieldAndWakeUpOff([Quiet(c) EXCEPT !.rf = "TXRX"])
  BY <1>1 DEF FieldAndWakeUpOff, Chip
<1> QED BY <1>1, <1>2 DEF Deactivated

LEMMA DeactivationRf == Inductive /\ RfInv /\ Deactivation => RfInv'
<1> SUFFICES ASSUME Inductive, RfInv, Deactivation PROVE RfInv'
  OBVIOUS
<1>1. state' \in {"START_DISCOVERY", "IDLE"} /\ FieldAndWakeUpOff(chip')
  BY WorkerLeaves, DeactivatedQuiet DEF Deactivation
<1> QED BY <1>1, ToQuiet

\* Listen mode just started: the external field decides between two states.
LEMMA ListenStartedRf ==
  ASSUME NEW c \in Chip, NEW d \in ListenStarted(c), TypeOK
  PROVE  /\ d \in Chip /\ d.rf = "LM" /\ d.lm \in {"POWER_OFF", "IDLE"}
         /\ d.wum = c.wum /\ (d.field => c.field)
<1> DEFINE e == [c EXCEPT !.rf = "LM", !.mdMask = disc.listen]
<1>1. e \in Chip /\ e.rf = "LM" /\ e.wum = c.wum /\ e.field = c.field
  BY DEF Chip, TypeOK, DiscoverParam
<1>2. d \in SetPowerOff(e)
  BY DEF ListenStarted
<1> HIDE DEF e
<1> QED BY <1>1, <1>2, ListenSets, ChipSets DEF Listens

LEMMA ListenTechDetectRf == Inductive /\ RfInv /\ ListenTechDetect => RfInv'
<1> SUFFICES ASSUME Inductive, RfInv, ListenTechDetect PROVE RfInv'
  OBVIOUS
<1>1. state = "LISTEN_TECHDETECT" /\ ~notifying' /\ TypeOK
  BY DEF ListenTechDetect, WorkerIn, Inductive
<1>2. PICK c \in rfalWorker :
       \/ state' = "START_DISCOVERY" /\ chip' = c
       \/ state' = "START_DISCOVERY" /\ chip' = rfalFieldOff(c)
       \/ state' = "LISTEN_COLAVOIDANCE" /\ chip' \in ListenStarted(c)
       \/ \E d \in {c} \cup ListenStarted(c) : GiveUpListening(d)
  BY DEF ListenTechDetect
<1>3. c \in Chip /\ FieldAndWakeUpOff(c)
  BY <1>1, WorkerKeeps DEF RfInv, FieldAndWakeUpOff
<1>4. \A d \in {c} \cup ListenStarted(c) : d \in Chip /\ FieldAndWakeUpOff(d)
  BY <1>1, <1>3, ListenStartedRf DEF FieldAndWakeUpOff
<1>5. CASE state' = "START_DISCOVERY"
  <2>1. FieldAndWakeUpOff(chip')
    BY <1>2, <1>3, <1>4, <1>5, FieldOps DEF FieldAndWakeUpOff, GiveUpListening
  <2> QED BY <1>1, <1>5, <2>1, ToQuiet
<1>6. CASE state' = "LISTEN_COLAVOIDANCE" /\ chip' \in ListenStarted(c)
  <2>1. FieldAndWakeUpOff(chip') /\ ListenInStep'
    BY <1>1, <1>3, <1>4, <1>6, ListenStartedRf DEF ListenInStep
  <2> QED BY <1>1, <1>6, <2>1, ToListening
<1> QED BY <1>2, <1>5, <1>6 DEF GiveUpListening

LEMMA ListenColAvoidanceRf == Inductive /\ RfInv /\ ListenColAvoidance => RfInv'
<1> SUFFICES ASSUME Inductive, RfInv, ListenColAvoidance PROVE RfInv'
  OBVIOUS
<1>1. /\ state = "LISTEN_COLAVOIDANCE" /\ ~notifying'
      /\ chip.rf = "LM" /\ chip.lm \in {"POWER_OFF", "IDLE"}
  BY DEF ListenColAvoidance, WorkerIn, RfInv, ListenInStep
<1>2. PICK c \in rfalWorker :
       \/ GiveUpListening(c)
       \/ chip' = c /\ state' = IF FieldSeen(c) THEN "LISTEN_ACTIVATION" ELSE state
  BY DEF ListenColAvoidance
<1>3. /\ c \in Chip /\ FieldAndWakeUpOff(c)
      /\ c.rf = "LM" /\ c.lm # "CARDEMU_4A" /\ c.lm # "NOT_INIT"
  BY <1>1, WorkerKeeps DEF RfInv, FieldAndWakeUpOff
<1>4. CASE GiveUpListening(c)
  <2>1. state' = "START_DISCOVERY" /\ FieldAndWakeUpOff(chip')
    BY <1>3, <1>4, FieldOps DEF FieldAndWakeUpOff, GiveUpListening
  <2> QED BY <1>1, <2>1, ToQuiet
<1>5. CASE chip' = c /\ state' = IF FieldSeen(c) THEN "LISTEN_ACTIVATION" ELSE state
  <2>1. state' \in {"LISTEN_COLAVOIDANCE", "LISTEN_ACTIVATION"} /\ FieldAndWakeUpOff(chip')
    BY <1>1, <1>3, <1>5
  <2>2. ListenInStep'
    BY <1>1, <1>3, <1>5 DEF ListenInStep, FieldSeen
  <2> QED BY <1>1, <2>1, <2>2, ToListening
<1> QED BY <1>2, <1>4, <1>5

\* While listening, the RF layer leaves listen mode only for a Type 4A card.
LEMMA ListenActivationRf == Inductive /\ RfInv /\ ListenActivation => RfInv'
<1> SUFFICES ASSUME Inductive, RfInv, ListenActivation PROVE RfInv'
  OBVIOUS
<1>1. /\ state \in {"LISTEN_ACTIVATION", "LISTEN_SLEEP"} /\ ~notifying'
      /\ FieldAndWakeUpOff(chip)
      /\ state = "LISTEN_ACTIVATION" => (chip.rf = "LM" <=> chip.lm # "CARDEMU_4A")
  BY DEF ListenActivation, WorkerIn, RfInv, ListenInStep
<1>2. PICK c \in rfalWorker :
       CASE c.lm \in {"ACTIVE_A", "ACTIVE_Ax"} ->
              IF c.data THEN FirstFrameA(c) ELSE StillListening(c)
         [] c.lm = "CARDEMU_4A" ->
              \/ ActivatedAs("POLL_NFCA", "ISODEP", c)
              \/ StillListening(c)
              \/ ListenFails(c)
         [] c.lm = "READY_F" ->
              StillListening(IF c.data THEN SetReady(c, "CARDEMU_3") ELSE c)
         [] c.lm = "CARDEMU_3" -> ActivatedAs("POLL_NFCF", "RF", c)
         [] c.lm \in {"READY_A", "READY_Ax", "SLEEP_A", "IDLE"} -> StillListening(c)
         [] OTHER -> ListenFails(c)
  BY DEF ListenActivation
<1>3. /\ c \in Chip /\ FieldAndWakeUpOff(c)
      /\ state = "LISTEN_ACTIVATION" => (c.rf = "LM" <=> c.lm # "CARDEMU_4A")
  BY <1>1, WorkerKeeps DEF FieldAndWakeUpOff
<1> DEFINE Running(d) ==
      /\ d \in Chip /\ FieldAndWakeUpOff(d)
      /\ state = "LISTEN_ACTIVATION" =>
           /\ d.rf = "LM" <=> d.lm # "CARDEMU_4A"
           /\ d.lm \notin {"NOT_INIT", "POWER_OFF"}
<1>4. ASSUME NEW d, Running(d), StillListening(d) PROVE RfInv'
  <2>1. CASE GiveUpListening(d)
    <3>1. state' = "START_DISCOVERY" /\ FieldAndWakeUpOff(chip')
      BY <1>4, <2>1, FieldOps DEF FieldAndWakeUpOff, GiveUpListening
    <3> QED BY <1>1, <3>1, ToQuiet
  <2>2. CASE state' = state /\ chip' = d
    <3>1. ListenInStep'
      BY <1>1, <1>4, <2>2 DEF ListenInStep
    <3> QED BY <1>1, <1>4, <2>2, <3>1, ToListening
  <2> QED BY <1>4, <2>1, <2>2 DEF StillListening
<1>5. ASSUME ListenFails(c) PROVE RfInv'
  <2>1. state' = "START_DISCOVERY" /\ FieldAndWakeUpOff(chip')
    BY <1>3, <1>5, FieldOps DEF ListenFails, GiveUpListening, FieldAndWakeUpOff
  <2> QED BY <1>1, <2>1, ToQuiet
<1>6. ASSUME NEW type \in RemDevPoller, NEW iface, ActivatedAs(type, iface, c)
      PROVE  RfInv'
  <2>1. chip' = c /\ activeDev' = 0 /\ state' = "ACTIVATED"
    BY <1>6 DEF ActivatedAs
  <2>2. Active'.type = type
    <3>1. 0 \in Index /\ devList \in [Index -> Device] /\ devList[0] \in Device
      BY MaxDevicesAssumption DEF Inductive, TypeOK, Index
    <3>2. devList' = [devList EXCEPT ![0].type = type, ![0].rfInterface = iface]
      BY <1>6 DEF ActivatedAs
    <3> QED BY <2>1, <3>1, <3>2 DEF Active, Device
  <2>3. type \notin RemDevListener
    BY DEF RemDevPoller, RemDevListener, PollTechs
  <2>4. RoleInv'
    BY <1>3, <2>1, <2>2, <2>3 DEF RoleInv, FieldAndWakeUpOff
  <2> QED BY <1>1, <2>1, <2>4, ToActivated
<1>7. Running(Asleep(c))
  BY <1>3, ListenOps, ChipOps DEF FieldAndWakeUpOff
<1>8. Running([SetReady(c, "CARDEMU_4A") EXCEPT !.rf = "TXRX"])
  <2>1. SetReady(c, "CARDEMU_4A") \in Chip /\ Listens(c, SetReady(c, "CARDEMU_4A"), {"CARDEMU_4A"})
    BY <1>3, ListenOps, ChipOps DEF LmStates
  <2>2. ASSUME NEW q \in Chip
        PROVE  /\ [q EXCEPT !.rf = "TXRX"] \in Chip
               /\ [q EXCEPT !.rf = "TXRX"].rf = "TXRX"
               /\ [q EXCEPT !.rf = "TXRX"].lm = q.lm
               /\ [q EXCEPT !.rf = "TXRX"].field = q.field
               /\ [q EXCEPT !.rf = "TXRX"].wum = q.wum
    BY DEF Chip
  <2> QED BY <1>3, <2>1, <2>2 DEF Listens, FieldAndWakeUpOff
<1>9. c.lm = "READY_F" => Running(SetReady(c, "CARDEMU_3"))
  <2>1. SetReady(c, "CARDEMU_3") \in Chip /\ Listens(c, SetReady(c, "CARDEMU_3"), {"CARDEMU_3"})
    BY <1>3, ListenOps, ChipOps DEF LmStates
  <2> QED BY <1>3, <2>1 DEF Listens, FieldAndWakeUpOff
<1>10. c.lm \notin {"NOT_INIT", "POWER_OFF"} => Running(c)
  BY <1>3
<1> HIDE DEF Running
<1>11. CASE c.lm \in {"ACTIVE_A", "ACTIVE_Ax"}
  BY <1>2, <1>4, <1>5, <1>7, <1>8, <1>10, <1>11 DEF FirstFrameA
<1>12. CASE c.lm = "CARDEMU_4A"
  <2>1. \/ ActivatedAs("POLL_NFCA", "ISODEP", c) \/ StillListening(c) \/ ListenFails(c)
    BY <1>2, <1>12
  <2> QED BY <1>4, <1>5, <1>6, <1>10, <1>12, <2>1 DEF RemDevPoller
<1>13. CASE c.lm = "READY_F"
  <2>1. StillListening(c) \/ StillListening(SetReady(c, "CARDEMU_3"))
    BY <1>2, <1>13
  <2> QED BY <1>4, <1>9, <1>10, <1>13, <2>1
<1>14. CASE c.lm = "CARDEMU_3"
  <2>1. ActivatedAs("POLL_NFCF", "RF", c)
    BY <1>2, <1>14
  <2> QED BY <1>6, <2>1 DEF RemDevPoller
<1>15. CASE c.lm \in {"READY_A", "READY_Ax", "SLEEP_A", "IDLE"}
  <2>1. StillListening(c)
    BY <1>2, <1>15
  <2> QED BY <1>4, <1>10, <1>15, <2>1
<1>16. CASE c.lm \notin {"ACTIVE_A", "ACTIVE_Ax", "CARDEMU_4A", "READY_F", "CARDEMU_3",
                         "READY_A", "READY_Ax", "SLEEP_A", "IDLE"}
  <2>1. ListenFails(c)
    BY <1>2, <1>16
  <2> QED BY <1>5, <2>1
<1> QED BY <1>11, <1>12, <1>13, <1>14, <1>15, <1>16

LEMMA RfOnlyRf == Inductive /\ ActiveDeviceKnown /\ RfInv /\ RfOnly => RfInv'
<1> SUFFICES ASSUME Inductive, ActiveDeviceKnown, RfInv, RfOnly PROVE RfInv'
  OBVIOUS
<1>1. /\ state' \in {"NOTINIT", "IDLE", "POLL_SELECT", "ACTIVATED", "DATAEXCHANGE_DONE"}
      /\ ~notifying' /\ state' = state /\ dataExErr' = dataExErr
      /\ Active' = Active /\ chip' \in rfalWorker
  BY DEF RfOnly, WorkerIn, listVars, Active
<1>2. /\ chip' \in Chip /\ (chip'.field => chip.field)
      /\ chip.wum = "NOT_INIT" => chip'.wum = "NOT_INIT"
      /\ chip.rf = "TXRX" => chip' = chip
  BY <1>1, WorkerKeeps
<1>3. CASE state' \in {"NOTINIT", "IDLE"}
  <2>1. state' = "IDLE" => FieldAndWakeUpOff(chip')
    BY <1>1, <1>2 DEF RfInv, FieldAndWakeUpOff
  <2> QED BY <1>1, <1>3, <2>1, ToQuiet
<1>4. CASE state' = "POLL_SELECT"
  <2>1. FieldHeldBy(chip')
    BY <1>1, <1>2, <1>4 DEF RfInv, FieldHeldBy
  <2> QED BY <1>1, <1>4, <2>1, ToHeld
<1>5. CASE state' \in {"ACTIVATED", "DATAEXCHANGE_DONE"}
  <2>1. RoleInv'
    BY <1>1, <1>2, <1>5 DEF RfInv, RoleInv
  <2>2. state' # "ACTIVATED" /\ dataExErr' = "SLEEP_REQ" => Active'.type \in RemDevPoller
    BY <1>1, <1>5 DEF RfInv
  <2> QED BY <1>1, <1>5, <2>1, <2>2, ToActivated
<1> QED BY <1>1, <1>3, <1>4, <1>5

-----------------------------------------------------------------------------
(* The application.                                                        *)

LEMMA ApplicationRf ==
  Careful /\ Inductive /\ ActiveDeviceKnown /\ RfInv /\ Application => RfInv'
<1> SUFFICES ASSUME Careful, Inductive, ActiveDeviceKnown, RfInv, Application PROVE RfInv'
  OBVIOUS
<1>0. chip \in Chip /\ (notifying /\ dataExErr = "SLEEP_REQ" => FieldAndWakeUpOff(chip))
  BY DEF Inductive, TypeOK, RfInv
<1>1. CASE Initialize
  <2>1. UNCHANGED <<dataExErr, notifying>>
    BY <1>1 DEF Initialize
  <2>2. CASE state' = "IDLE" /\ chip' = [ResetChip EXCEPT !.mdMask = chip.mdMask]
    <3>1. FieldAndWakeUpOff(chip')
      BY <2>2 DEF FieldAndWakeUpOff, ResetChip
    <3> QED BY <2>2, <3>1, ToQuiet
  <2>3. CASE state' = "NOTINIT" /\ \E o \in BOOLEAN : chip' = [chip EXCEPT !.osc = o]
    <3>1. chip'.field = chip.field /\ chip'.wum = chip.wum
      BY <1>0, <2>3 DEF Chip
    <3> QED BY <1>0, <2>1, <2>3, <3>1, ToQuiet DEF FieldAndWakeUpOff
  <2> QED BY <1>1, <2>2, <2>3 DEF Initialize
<1>2. CASE \E p \in Params : Discover(p)
  <2>1. /\ state = "IDLE" /\ state' = "START_DISCOVERY" /\ chip' = chip
    BY <1>2 DEF Discover
  <2>2. FieldAndWakeUpOff(chip')
    BY <2>1 DEF RfInv
  <2> QED BY <2>1, <2>2, ToQuiet
<1>3. CASE \E discovery \in BOOLEAN : Deactivate(discovery)
  <2>1. UNCHANGED <<dataExErr, notifying>>
    BY <1>3 DEF Deactivate
  <2>2. CASE state' = "DEACTIVATION" /\ UNCHANGED chip
    BY <1>0, <2>1, <2>2, ToQuiet
  <2>3. CASE state' = "IDLE" /\ chip' \in Deactivated(chip)
    <3>1. FieldAndWakeUpOff(chip')
      BY <1>0, <2>3, DeactivatedQuiet
    <3> QED BY <2>3, <3>1, ToQuiet
  <2> QED BY <1>3, <2>2, <2>3 DEF Deactivate
<1>4. CASE \E devIdx \in Index : Select(devIdx)
  <2>1. /\ state = "POLL_SELECT" /\ state' = "POLL_ACTIVATION"
        /\ UNCHANGED <<chip, notifying, dataExErr>>
    BY <1>4 DEF Select
  <2>2. FieldHeldBy(chip')
    BY <2>1 DEF RfInv
  <2> QED BY <1>0, <2>1, <2>2, ToHeld
<1>5. CASE DataExchangeStart
  <2>1. /\ state \in IsDevActivated /\ state' = "DATAEXCHANGE" /\ dataExErr' = "BUSY"
        /\ Active' = Active /\ chip' \in {chip, [chip EXCEPT !.rf = "TXRX"]}
    BY <1>5 DEF DataExchangeStart, Active, listVars
  <2>2. /\ chip'.field = chip.field /\ chip'.wum = chip.wum
        /\ chip.rf = "TXRX" => chip'.rf = "TXRX"
    BY <1>0, <2>1 DEF Chip
  <2>3. RoleInv'
    BY <2>1, <2>2 DEF RfInv, RoleInv
  <2> QED BY <2>1, <2>3, ToActivated
<1>6. CASE DataExchangeGetStatus
  <2>1. /\ state \in IsDevActivated /\ state' \in {"DATAEXCHANGE", "DATAEXCHANGE_DONE"}
        /\ ExchangeStatus(chip, dataExErr', chip')
        /\ Active' = Active /\ notifying' = notifying
    BY <1>6 DEF DataExchangeGetStatus, Active, listVars
  <2>2. /\ chip.wum = "NOT_INIT"
        /\ IF Active.type \in RemDevListener THEN chip.field /\ chip.rf = "TXRX" ELSE ~chip.field
        /\ state # "ACTIVATED" /\ dataExErr = "SLEEP_REQ" => Active.type \in RemDevPoller
    BY <2>1 DEF RfInv, RoleInv
  <2>3. /\ chip'.wum = "NOT_INIT"
        /\ IF Active.type \in RemDevListener THEN chip'.field /\ chip'.rf = "TXRX" ELSE ~chip'.field
        /\ dataExErr' = "SLEEP_REQ" => Active.type \in RemDevPoller
    <3>1. /\ chip'.wum = chip.wum
          /\ \/ chip' = chip
             \/ Active.type \in RemDevPoller /\ (chip'.field => chip.field)
          /\ dataExErr' = "SLEEP_REQ" => Active.type \in RemDevPoller
          /\ Active.type \in RemDevListener => chip' = chip
      BY <1>0, <2>1, <2>2, ExchangeStatusRf DEF Inductive
    <3> QED BY <2>2, <3>1
  <2>4. dataExErr' = "SLEEP_REQ" => FieldAndWakeUpOff(chip')
    BY <2>3 DEF FieldAndWakeUpOff, RemDevPoller, RemDevListener, PollTechs
  <2>5. RoleInv'
    BY <2>1, <2>3 DEF RoleInv
  <2> QED BY <2>1, <2>3, <2>4, <2>5, ToActivated
<1> QED BY <1>1, <1>2, <1>3, <1>4, <1>5, <1>6 DEF Application

-----------------------------------------------------------------------------

\* Every step of an application that starts an exchange only with an activated
\* device keeps the RF layer in step with the state machine.
THEOREM RfInvNext ==
  Careful /\ Inductive /\ ActiveDeviceKnown /\ RfInv /\ [Next]_vars => RfInv'
<1> SUFFICES ASSUME Careful, Inductive, ActiveDeviceKnown, RfInv, [Next]_vars PROVE RfInv'
  OBVIOUS
<1>1. CASE rfalNfcWorker
  BY <1>1, StartDiscoveryRf, WakeUpModeRf, PollTechDetectRf, PollColAvoidanceRf,
     PollActivationRf, DataExchangeRf, DeactivationRf, ListenTechDetectRf,
     ListenColAvoidanceRf, ListenActivationRf, RfOnlyRf DEF rfalNfcWorker
<1>2. CASE NotificationReturns
  BY <1>2, NotificationReturnsRf
<1>3. CASE Application
  BY <1>3, ApplicationRf
<1>4. CASE TimerExpires \/ UNCHANGED vars
  <2>1. UNCHANGED <<state, devList, activeDev, techsFound, techs2do, dataExErr, notifying, chip>>
    BY <1>4 DEF TimerExpires, vars, listVars, detectVars
  <2> QED BY <2>1 DEF RfInv, RoleInv, ListenInStep, Active, FieldAndWakeUpOff, FieldHeldBy
<1> QED BY <1>1, <1>2, <1>3, <1>4 DEF Next

\* In every state, whatever the application called and from wherever, the field,
\* the wake-up mode and listen mode are what the discovery state and the role of
\* the active device ask for, for any list size and parameters; provided, as
\* rfal_nfc.h asks, no exchange is started with a device being deactivated.
THEOREM RfAlwaysFollows == Careful => (Spec => []RfFollowsState)
<1> SUFFICES ASSUME Careful PROVE Spec => []RfFollowsState
  OBVIOUS
<1>1. Init => RfInv
  BY RfInvInit
<1>2. Inductive /\ ActiveDeviceKnown /\ RfInv /\ [Next]_vars => RfInv'
  BY RfInvNext
<1>3. Inductive /\ RfInv => RfFollowsState
  BY RfInvFollows DEF Inductive
<1> QED BY <1>1, <1>2, <1>3, InductiveAlways, ActiveDeviceAlways, PTL DEF Spec

=============================================================================
