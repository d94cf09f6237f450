--------------------------- MODULE CardEmulation ---------------------------
(***************************************************************************)
(* An emulated tag and the sketch around it.  demo_ce.cpp answers the      *)
(* commands of a reader from a file in RAM, as a type 4 tag (technology A) *)
(* and as a type 3 tag (F); a sketch of examples/ runs RfalNfcClass in its *)
(* loop and hands the commands over.  Readers come, read or write an NDEF  *)
(* message the way the NFC Forum asks for, send S(DESELECT), look for      *)
(* other cards, and leave at any moment.                                   *)
(*                                                                         *)
(* A message is its name, its length in blocks of 16 bytes, and the byte   *)
(* patterns of cmdCompare that occur in it.  Of RfalNfcClass, which        *)
(* NfcDiscovery models, there is what a sketch sees.                       *)
(***************************************************************************)
EXTENDS Integers, Sequences, SequencesExt, FiniteSetsExt

CONSTANTS
  Sketches,   \* records: modes, techs, what its callbacks do
  Messages,   \* records: id, len, has
  Demo,       \* the message of demoCeInit
  FileBlocks, \* blocks of ndefFile after the two bytes of the length
  NmaxB, Nbr, Nbw,  \* of InformationBlock
  MLe         \* blocks a reader asks for or sends in an APDU

VARIABLES
  app,    \* appMode, exchangePrimed, activeReported of the sketch
  nfc,    \* gNfcDev and what rxBuf holds
  ce,     \* nState, nSelectedIdx, ndefFile, InformationBlock
  reader  \* the reader or, in a polling sketch, the card in the field

vars == <<app, nfc, ce, reader>>
-----------------------------------------------------------------------------
(* The tag: demo_ce.cpp. *)

\* nSelectedIdx is -1 for no file, 0 for the CC file, 1 for the NDEF file.  Cell 0
\* of a file is its first two bytes, cell k the k-th 16 bytes after them.
ccfile == [len |-> 1, blk |-> <<<<"cc">>>>]
Files == <<ccfile, ce.ndefFile>>
Size(file) == Len(file.blk) + 1
Cell(file, i) == IF i = 0 THEN file.len ELSE file.blk[i]

demoCeInit(m) ==
  [nState |-> "IDLE", nSelectedIdx |-> -1,
   ndefFile |-> [len |-> m.len,
                 blk |-> [i \in 1..FileBlocks |-> IF i <= m.len THEN m.id ELSE <<"zero">>]],
   aib |-> [wf |-> FALSE, ln |-> m.len]]

Ok(data) == [sw |-> "OK", data |-> data]
Error == [sw |-> "ERROR"]
NoAnswer == [sw |-> "NONE"]

\* cmdCompare looks for the pattern in the command and in what an earlier, longer
\* command left behind it.
cmdCompare(cmd, find) == find = cmd.what \/ find \in nfc.tail

\* A tag operation gives the tag after it and the answer.
demoCeT4TSelect(cmd) ==
  LET selected == ce.nState # "IDLE"
      Done(c) == <<c, Ok(<<>>)>>
  IN IF cmdCompare(cmd, "app") THEN Done([ce EXCEPT !.nState = "APP_SELECTED"])
     ELSE IF selected /\ cmdCompare(cmd, "cc")
     THEN Done([ce EXCEPT !.nState = "CC_SELECTED", !.nSelectedIdx = 0])
     ELSE IF selected /\ cmdCompare(cmd, "ndef")
     THEN Done([ce EXCEPT !.nState = "FID_SELECTED", !.nSelectedIdx = 1])
     ELSE <<[ce EXCEPT !.nState = "IDLE"], Error>>

\* A read beyond the end is cut short.  An offset beyond it wraps toRead (16 bits), which
\* then exceeds the buffer: so for the offsets of cells up to the largest file.  One near
\* 0xFFFF would wrap to a length that fits and be read from behind the file; no reader
\* here sends it (bound).
demoCeT4TRead(cmd) ==
  IF ce.nSelectedIdx = -1 THEN <<ce, Error>>
  ELSE LET file == Files[ce.nSelectedIdx + 1]
           toRead == Min({cmd.n, Size(file) - cmd.off})
       IN IF toRead < 0 THEN <<ce, Error>>
          ELSE <<ce, Ok([i \in 1..toRead |-> Cell(file, cmd.off + i - 1)])>>

demoCeT4TUpdate(cmd) ==
  IF ce.nSelectedIdx # 1 \/ cmd.off + Len(cmd.data) > FileBlocks + 1 THEN <<ce, Error>>
  ELSE <<[ce EXCEPT
            !.ndefFile.len = IF cmd.off = 0 THEN cmd.data[1] ELSE @,
            !.ndefFile.blk = [i \in 1..FileBlocks |->
               IF i \in cmd.off..(cmd.off + Len(cmd.data) - 1)
                 THEN cmd.data[i - cmd.off + 1] ELSE @[i]]],
         Ok(<<>>)>>

demoCeT4T(cmd) ==
  CASE cmd.ins = "SELECT" -> demoCeT4TSelect(cmd)
    [] cmd.ins = "READ" -> demoCeT4TRead(cmd)
    [] cmd.ins = "UPDATE" -> demoCeT4TUpdate(cmd)

BlocksPossible(cmd, most) ==
  Len(cmd.blocks) \in 1..most /\ \A i \in DOMAIN cmd.blocks : cmd.blocks[i] <= NmaxB

demoCeT3TCheck(cmd) ==
  <<ce, IF ~cmd.ours THEN NoAnswer
        ELSE IF ~BlocksPossible(cmd, Nbr) THEN Error
        ELSE Ok([i \in DOMAIN cmd.blocks |->
                   IF cmd.blocks[i] = 0 THEN ce.aib ELSE ce.ndefFile.blk[cmd.blocks[i]]])>>

\* The answer to a write ends with the status flags twice.
StatusAgain == <<"status">>

\* Mutant: a write finds its blocks one too far.
UpdateOneOff(cmd) ==
  IF ~cmd.ours THEN <<ce, NoAnswer>>
  ELSE IF ~BlocksPossible(cmd, Nbw) THEN <<ce, Error>>
  ELSE LET Data(k) == cmd.data[CHOOSE i \in DOMAIN cmd.blocks : cmd.blocks[i] = k]
           Named == Range(cmd.blocks)
       IN <<[ce EXCEPT !.aib = IF 0 \in Named THEN Data(0) ELSE @,
                       !.ndefFile.blk = [k \in DOMAIN @ |->
                          IF k > 1 /\ k - 1 \in Named THEN Data(k - 1) ELSE @[k]]],
            Ok(StatusAgain)>>

\* Mutant: of the attribute block only the length is taken over.
UpdateKeepsFlag(cmd) ==
  IF ~cmd.ours THEN <<ce, NoAnswer>>
  ELSE IF ~BlocksPossible(cmd, Nbw) THEN <<ce, Error>>
  ELSE LET Data(k) == cmd.data[CHOOSE i \in DOMAIN cmd.blocks : cmd.blocks[i] = k]
           Named == Range(cmd.blocks)
       IN <<[ce EXCEPT !.aib.ln = IF 0 \in Named THEN Data(0).ln ELSE @,
                       !.ndefFile.blk = [k \in DOMAIN @ |->
                          IF k \in Named THEN Data(k) ELSE @[k]]],
            Ok(StatusAgain)>>

\* Writes the blocks of a command in their order; no reader names one twice.
demoCeT3TUpdate(cmd) ==
  IF ~cmd.ours THEN <<ce, NoAnswer>>
  ELSE IF ~BlocksPossible(cmd, Nbw) THEN <<ce, Error>>
  ELSE LET Data(k) == cmd.data[CHOOSE i \in DOMAIN cmd.blocks : cmd.blocks[i] = k]
           Named == Range(cmd.blocks)
       IN <<[ce EXCEPT !.aib = IF 0 \in Named THEN Data(0) ELSE @,
                       !.ndefFile.blk = [k \in DOMAIN @ |->
                          IF k \in Named THEN Data(k) ELSE @[k]]],
            Ok(StatusAgain)>>

demoCeT3T(cmd) ==
  IF cmd.ins = "CHECK" THEN demoCeT3TCheck(cmd) ELSE demoCeT3TUpdate(cmd)
-----------------------------------------------------------------------------
(* The sketch: loop, the calls it makes, and its callback. *)

NoCmd == [ins |-> "none"]
InMode(m) == app.mode = m
NfcIs(state) == nfc.state = state

\* What a sketch is built for: the mode it starts in, those the serial line may set,
\* the technology it listens with, whether its callback clears the flags when discovery
\* starts, and whether a command without an answer ends the session.
Sketch(start, modes, tech) ==
  [start |-> start, modes |-> modes, tech |-> tech, resets |-> FALSE, waits |-> FALSE]
CardEmulationT4T == Sketch("CE", {}, "A")
CardEmulationT3T == Sketch("CE", {}, "F")
CardEmulationWifi == [CardEmulationT3T EXCEPT !.waits = TRUE]
Polling == [Sketch("POLL", {}, "F") EXCEPT !.resets = TRUE]
CapSenseModeSwitch(tech) ==
  [Sketch("IDLE", {"IDLE", "POLL", "CE"}, tech) EXCEPT !.resets = TRUE]

InitApp(s) == [sketch |-> s, mode |-> s.start, primed |-> FALSE, reported |-> FALSE,
               slept |-> FALSE]
InitNfc == [state |-> "IDLE", err |-> "NONE", type |-> "none", rx |-> NoCmd, tail |-> {}]

\* A reader whose card stops listening has to find it again.
Lost(r) == IF r.st = "active" THEN [r EXCEPT !.st = "lost", !.cmd = NoCmd] ELSE r

\* restartDiscovery, startDiscoveryForMode.
Restart ==
  /\ NfcIs("IDLE") /\ ~InMode("IDLE")
  /\ app' = [app EXCEPT !.primed = FALSE, !.reported = FALSE]
  /\ nfc' = [nfc EXCEPT !.state = "DISCOVERY"]
  /\ UNCHANGED <<ce, reader>>

\* setMode, from the serial line: stopRfActivity, then the discovery of the mode.
setMode(m) ==
  /\ m \in app.sketch.modes \ {app.mode}
  /\ app' = [app EXCEPT !.mode = m, !.primed = FALSE, !.reported = FALSE]
  /\ nfc' = [nfc EXCEPT !.state = IF m = "IDLE" THEN "IDLE" ELSE "DISCOVERY",
                        !.rx = NoCmd]
  /\ reader' = Lost(reader)
  /\ UNCHANGED ce

reportActiveDevice ==
  /\ NfcIs("ACTIVATED") /\ InMode("POLL") /\ ~app.reported
  /\ app' = [app EXCEPT !.reported = TRUE]
  /\ nfc' = [nfc EXCEPT !.state = "DEACTIVATION"]
  /\ UNCHANGED <<ce, reader>>

\* Mutant: the first frame of a reader to a type 3 tag is waited for once more.
PrimeWaits ==
  /\ NfcIs("ACTIVATED") /\ InMode("CE") /\ ~app.primed
  /\ app' = [app EXCEPT !.primed = TRUE]
  /\ nfc' = [nfc EXCEPT !.state = "DATAEXCHANGE", !.err = "BUSY"]
  /\ UNCHANGED <<ce, reader>>

\* The first frame of a reader to a type 3 tag has been received while listening.
primeListenDataExchange ==
  /\ NfcIs("ACTIVATED") /\ InMode("CE") /\ ~app.primed
  /\ app' = [app EXCEPT !.primed = TRUE]
  /\ nfc' = [nfc EXCEPT !.state = "DATAEXCHANGE",
                        !.err = IF nfc.type = "F" THEN "NONE" ELSE "BUSY"]
  /\ UNCHANGED <<ce, reader>>

GiveUp ==
  /\ app' = [app EXCEPT !.primed = FALSE]
  /\ nfc' = [nfc EXCEPT !.state = "DEACTIVATION", !.rx = NoCmd]
  /\ UNCHANGED reader

\* handleDataExchangeDone: the command goes to demo_ce.cpp.
Executed == IF nfc.type = "A" THEN demoCeT4T(nfc.rx) ELSE demoCeT3T(nfc.rx)
HasCommand == NfcIs("DATAEXCHANGE_DONE") /\ nfc.err = "NONE"
NextFrame == [nfc EXCEPT !.state = "DATAEXCHANGE", !.err = "BUSY", !.rx = NoCmd]

handleDataExchangeDone ==
  /\ HasCommand
  /\ \E done \in {Executed} :
       /\ done[2] # NoAnswer
       /\ ce' = done[1]
       /\ reader' = [reader EXCEPT !.rsp = IF reader.st = "active" THEN done[2] ELSE @]
  /\ nfc' = NextFrame
  /\ UNCHANGED app

NoResponse ==
  /\ HasCommand /\ ~app.sketch.waits /\ Executed[2] = NoAnswer
  /\ GiveUp
  /\ UNCHANGED ce

waitForNextReaderFrame ==
  /\ HasCommand /\ app.sketch.waits /\ Executed[2] = NoAnswer
  /\ nfc' = NextFrame
  /\ UNCHANGED <<app, ce, reader>>

ExchangeFailed ==
  /\ NfcIs("DATAEXCHANGE_DONE") /\ nfc.err # "NONE"
  /\ GiveUp
  /\ UNCHANGED ce
-----------------------------------------------------------------------------
(* rfalNfcWorker. *)

\* onNfcState at RFAL_NFC_STATE_START_DISCOVERY.
onNfcState ==
  app' = IF app.sketch.resets THEN [app EXCEPT !.primed = FALSE, !.reported = FALSE] ELSE app

\* The bytes cmdCompare may find behind a command that follows cmd.
Behind(cmd) == IF "has" \in DOMAIN cmd THEN cmd.has ELSE nfc.tail

CardActivated ==
  /\ NfcIs("DISCOVERY") /\ InMode("POLL") /\ reader.st = "field"
  /\ nfc' = [nfc EXCEPT !.state = "ACTIVATED", !.type = "card"]
  /\ UNCHANGED <<app, ce, reader>>

\* RATS of a reader, which may come back to a card it put to sleep.
ListenActivatedA ==
  /\ NfcIs("DISCOVERY") \/ NfcIs("LISTEN_SLEEP")
  /\ InMode("CE") /\ app.sketch.tech = "A" /\ reader.tech = "A" /\ reader.st = "field"
  /\ nfc' = [nfc EXCEPT !.state = "ACTIVATED", !.type = "A"]
  /\ reader' = [reader EXCEPT !.st = "active"]
  /\ UNCHANGED <<app, ce>>

\* The chip answers SENSF_REQ; the first frame after it activates.
ListenActivatedF ==
  /\ NfcIs("DISCOVERY") /\ InMode("CE") /\ reader.tech = "F"
  /\ reader.st = "active" /\ reader.cmd # NoCmd
  /\ nfc' = [nfc EXCEPT !.state = "ACTIVATED", !.type = "F", !.rx = reader.cmd]
  /\ reader' = [reader EXCEPT !.cmd = NoCmd]
  /\ UNCHANGED <<app, ce>>

Exchanging == NfcIs("DATAEXCHANGE") /\ nfc.err = "BUSY"

CommandReceived ==
  /\ Exchanging /\ reader.cmd \notin {NoCmd, [ins |-> "DESELECT"]}
  /\ nfc' = [nfc EXCEPT !.err = "NONE", !.state = "DATAEXCHANGE_DONE", !.rx = reader.cmd,
                        !.tail = Behind(reader.cmd)]
  /\ reader' = [reader EXCEPT !.cmd = NoCmd]
  /\ UNCHANGED <<app, ce>>

FirstFrameDone ==
  /\ NfcIs("DATAEXCHANGE") /\ nfc.err # "BUSY"
  /\ nfc' = [nfc EXCEPT !.state = "DATAEXCHANGE_DONE"]
  /\ UNCHANGED <<app, ce, reader>>

LinkLoss ==
  /\ Exchanging /\ reader.st # "active"
  /\ nfc' = [nfc EXCEPT !.err = "LINK_LOSS", !.state = "DATAEXCHANGE_DONE"]
  /\ UNCHANGED <<app, ce, reader>>

\* S(DESELECT) is answered and the card goes to sleep.  The state is DATAEXCHANGE_DONE
\* only while the callback runs: the loop never finds it with ST_ERR_SLEEP_REQ.
SleepRequest ==
  /\ Exchanging /\ reader.cmd = [ins |-> "DESELECT"]
  /\ nfc' = [nfc EXCEPT !.err = "SLEEP_REQ", !.state = "LISTEN_SLEEP"]
  /\ reader' = [reader EXCEPT !.st = "lost", !.cmd = NoCmd]
  /\ app' = [app EXCEPT !.slept = TRUE]
  /\ UNCHANGED ce

\* The field is gone, or the time for listening over.
SleepEnds ==
  /\ NfcIs("LISTEN_SLEEP")
  /\ nfc' = [nfc EXCEPT !.state = "DISCOVERY"]
  /\ onNfcState
  /\ UNCHANGED <<ce, reader>>

Deactivation ==
  /\ NfcIs("DEACTIVATION")
  /\ nfc' = [nfc EXCEPT !.state = "DISCOVERY"]
  /\ reader' = Lost(reader)
  /\ onNfcState
  /\ UNCHANGED ce

rfalNfcWorker ==
  CardActivated \/ ListenActivatedA \/ ListenActivatedF \/ CommandReceived
  \/ FirstFrameDone \/ LinkLoss \/ SleepRequest \/ SleepEnds \/ Deactivation
-----------------------------------------------------------------------------
(* A reader.                                                               *)
(*   type 4: other? app cc readcc ndef, then len data* or zero put* commit *)
(*   type 3: aib, then data* or begin put* commit                          *)

FirstStep(tech) == IF tech = "A" THEN "app" ELSE "aib"
NoReader == [st |-> "away", tech |-> "A", msg |-> Demo, job |-> "read", step |-> "end",
             len |-> 0, blk |-> <<>>, wait |-> FALSE, cmd |-> NoCmd, rsp |-> NoAnswer,
             strayed |-> FALSE]

\* A command that has been received and not been executed.
Pending ==
  /\ nfc.rx # NoCmd
  /\ \/ NfcIs("ACTIVATED") /\ nfc.type = "F"
     \/ nfc.state \in {"DATAEXCHANGE", "DATAEXCHANGE_DONE"} /\ nfc.err = "NONE"

\* The tag is done with the reader before when the next one comes.
Arrive(tech, job, m) ==
  /\ reader.st = "away" /\ ~Pending
  /\ m.len <= (IF tech = "A" THEN FileBlocks ELSE NmaxB)
  /\ reader' = [NoReader EXCEPT !.st = "field", !.tech = tech, !.job = job, !.msg = m,
                                !.step = FirstStep(tech)]
  /\ UNCHANGED <<app, nfc, ce>>

Leave ==
  /\ reader.st # "away"
  /\ reader' = IF Pending THEN [reader EXCEPT !.st = "away", !.cmd = NoCmd] ELSE NoReader
  /\ UNCHANGED <<app, nfc, ce>>

Sensf ==
  /\ NfcIs("DISCOVERY") /\ InMode("CE") /\ app.sketch.tech = "F"
  /\ reader.st = "field" /\ reader.tech = "F"
  /\ reader' = [reader EXCEPT !.st = "active"]
  /\ UNCHANGED <<app, nfc, ce>>

FindAgain ==
  /\ reader.st = "lost"
  /\ reader' = [reader EXCEPT !.st = "field", !.wait = FALSE, !.rsp = NoAnswer,
                              !.blk = IF reader.step = "end" THEN @ ELSE <<>>,
                              !.step = IF @ = "end" THEN @ ELSE FirstStep(reader.tech)]
  /\ UNCHANGED <<app, nfc, ce>>

\* The next blocks of total, at most `most` of them.
Chunk(r, total, most) ==
  [i \in 1..Min({most, total - Len(r.blk)}) |-> Len(r.blk) + i]
Put(r, most) == [i \in DOMAIN Chunk(r, r.msg.len, most) |-> r.msg.id]

CommandA(r) ==
  CASE r.step \in {"other", "app", "cc", "ndef"} -> [ins |-> "SELECT", what |-> r.step]
    [] r.step \in {"readcc", "len"} -> [ins |-> "READ", off |-> 0, n |-> 1]
    [] r.step = "data" -> [ins |-> "READ", off |-> Len(r.blk) + 1, n |-> Len(Chunk(r, r.len, MLe))]
    [] r.step = "begin" -> [ins |-> "UPDATE", off |-> 0, data |-> <<0>>]
    [] r.step = "put" -> [ins |-> "UPDATE", off |-> Len(r.blk) + 1, has |-> r.msg.has,
                               data |-> Put(r, MLe)]
    [] r.step = "commit" -> [ins |-> "UPDATE", off |-> 0, data |-> <<r.msg.len>>]

Check(blocks) == [ins |-> "CHECK", ours |-> TRUE, blocks |-> blocks]
WriteBlocks(blocks, data) == [ins |-> "WRITE", ours |-> TRUE, blocks |-> blocks, data |-> data]
Aib(on, len) == WriteBlocks(<<0>>, <<[wf |-> on, ln |-> len]>>)
CommandF(r) ==
  CASE r.step = "other" -> [Check(<<0>>) EXCEPT !.ours = FALSE]
    [] r.step = "aib" -> Check(<<0>>)
    [] r.step = "data" -> Check(Chunk(r, r.len, Nbr))
    [] r.step = "begin" -> Aib(TRUE, r.len)
    [] r.step = "put" -> WriteBlocks(Chunk(r, r.msg.len, Nbw), Put(r, Nbw))
    [] r.step = "commit" -> Aib(FALSE, r.msg.len)

\* Once in a session it looks for another application or card.
Send ==
  /\ reader.st = "active" /\ ~reader.wait /\ reader.cmd = NoCmd /\ reader.step # "end"
  /\ \E r \in {reader} \cup IF reader.strayed THEN {}
                            ELSE {[reader EXCEPT !.step = "other", !.strayed = TRUE]} :
       reader' = [r EXCEPT !.wait = TRUE,
                           !.cmd = IF r.tech = "A" THEN CommandA(r) ELSE CommandF(r)]
  /\ UNCHANGED <<app, nfc, ce>>

SendDeselect ==
  /\ reader.st = "active" /\ ~reader.wait /\ reader.tech = "A"
  /\ reader.cmd = NoCmd
  /\ reader' = [reader EXCEPT !.cmd = [ins |-> "DESELECT"]]
  /\ UNCHANGED <<app, nfc, ce>>

NextStep(r, step) == [r EXCEPT !.step = step, !.wait = FALSE, !.rsp = NoAnswer]

\* Blocks read or written; after the last one, the step `after`.
Advance(r, total, blocks, after) ==
  LET blk == r.blk \o blocks
  IN [NextStep(r, IF Len(blk) = total THEN after ELSE r.step) EXCEPT !.blk = blk]

LengthRead(r, len) ==
  [NextStep(r, IF r.job = "write" THEN "begin" ELSE IF len = 0 THEN "end" ELSE "data")
     EXCEPT !.len = len]

Accepted(r, data) ==
  CASE r.step = "app" -> NextStep(r, "cc")
    [] r.step = "cc" -> NextStep(r, "readcc")
    [] r.step = "readcc" -> NextStep(r, "ndef")
    [] r.step = "ndef" -> NextStep(r, IF r.job = "read" THEN "len" ELSE "begin")
    [] r.step = "len" -> LengthRead(r, data[1])
    [] r.step = "aib" -> LengthRead(r, IF data[1].wf THEN 0 ELSE data[1].ln)
    [] r.step = "data" -> Advance(r, r.len, data, "end")
    [] r.step = "begin" -> NextStep(r, "put")
    [] r.step = "put" ->
         Advance(r, r.msg.len, Put(r, IF r.tech = "A" THEN MLe ELSE Nbw), "commit")
    [] r.step = "commit" -> NextStep(r, "end")

\* Another application is unknown to the tag, another card does not concern it.
Receive ==
  /\ reader.wait /\ reader.st = "active"
  /\ \/ /\ reader.step = "other" /\ reader.cmd = NoCmd
        /\ reader.tech = "A" => reader.rsp # NoAnswer
        /\ reader' = [NextStep(reader, FirstStep(reader.tech)) EXCEPT !.blk = <<>>]
     \/ /\ reader.step # "other" /\ reader.rsp # NoAnswer
        /\ reader' = IF reader.rsp = Error THEN NextStep(reader, "refused")
                     ELSE Accepted(reader, reader.rsp.data)
  /\ UNCHANGED <<app, nfc, ce>>

ReaderSteps == Sensf \/ FindAgain \/ Send \/ Receive

Loop == Restart \/ reportActiveDevice \/ primeListenDataExchange \/ handleDataExchangeDone
        \/ NoResponse \/ waitForNextReaderFrame \/ ExchangeFailed

Init ==
  /\ \E s \in Sketches : app = InitApp(s)
  /\ nfc = InitNfc
  /\ ce = demoCeInit(Demo)
  /\ reader = NoReader

Next ==
  \/ Loop \/ rfalNfcWorker \/ ReaderSteps
  \/ \E m \in {"IDLE", "POLL", "CE"} : setMode(m)
  \/ \E tech \in {"A", "F"}, job \in {"read", "write"}, m \in Messages : Arrive(tech, job, m)
  \/ Leave \/ SendDeselect

\* The loop runs; a reader in the field goes on.
Spec ==
  Init /\ [][Next]_vars
  /\ WF_vars(Loop) /\ WF_vars(rfalNfcWorker) /\ WF_vars(ReaderSteps)
-----------------------------------------------------------------------------
(* Properties. *)

Ids == {m.id : m \in Messages}

\* What blocks of a length say.
MessageOf(len, blk) ==
  LET whole == {m \in Messages : m.len = len /\ \A i \in 1..len : blk[i] = m.id}
  IN IF len = 0 THEN <<"empty">>
     ELSE IF whole = {} THEN <<"mixed">> ELSE (CHOOSE m \in whole : TRUE).id

Content ==
  LET blk == ce.ndefFile.blk
  IN IF app.sketch.tech = "A" THEN MessageOf(ce.ndefFile.len, blk)
     ELSE IF ce.aib.wf THEN <<"unreadable">> ELSE MessageOf(ce.aib.ln, blk)

Writing ==
  IF reader.job = "write" /\ reader.step # "end" /\ (reader.st # "away" \/ Pending)
    THEN reader.msg.id ELSE <<"none">>

Store == INSTANCE NdefStore WITH Messages <- Ids, content <- Content, writing <- Writing

\* The emulated tag keeps what a tag promises, whenever a reader leaves and whoever
\* comes next: the old message, none, or the new one.
ImplementsStore == Store!Spec

\* A reader that keeps to the procedure is never refused; what it is told at the end
\* is what the tag holds, and what it has written, the tag holds.
ReaderIsTold ==
  /\ reader.step # "refused"
  /\ reader.st # "away" /\ reader.step = "end" /\ app.sketch.tech = reader.tech =>
       IF reader.job = "write" THEN Content = reader.msg.id
       ELSE LET got == MessageOf(reader.len, reader.blk)
            IN IF got = <<"empty">> THEN Content \in Store!Vacant ELSE got = Content

\* A reader that stays is served to the end of its procedure, a card that is found is
\* reported and let go, until a reader sends S(DESELECT).
EveryoneServed ==
  /\ (reader.st = "field" /\ InMode("CE") /\ app.sketch.tech = reader.tech /\ ~app.slept)
       ~> (reader.st = "away" \/ reader.step = "end" \/ ~InMode("CE") \/ app.slept)
  /\ (NfcIs("ACTIVATED") /\ InMode("POLL")) ~> (~NfcIs("ACTIVATED") \/ ~InMode("POLL"))
=============================================================================
