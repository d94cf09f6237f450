---------------------------- MODULE PollerField ----------------------------
(* The cards in the field of a reader, and what the reader gets back when   *)
(* some of them answer one of its commands.  The anticollision procedures   *)
(* of the technologies (NfcaPoller, NfcbPoller, NfcfPoller, NfcvPoller,     *)
(* St25tbPoller) all run on this field; each step of theirs is one command  *)
(* with its answer, since the library blocks until the answer or the        *)
(* timeout.                                                                 *)
EXTENDS Integers, Sequences, FiniteSets

CONSTANTS
  Cards,      \* the cards there are
  Setups,     \* the searches to run: technology, mode, limit, cards present, weak ones
  MaxLost     \* bound on answers lost or damaged and commands not heard

VARIABLES
  setup,      \* the search that runs
  card,       \* the state of each card, and its cascade level or slot
  pc,         \* where the reader's procedure stands
  dev,        \* the device list: what was found, and whether it is marked asleep
  loc,        \* the local variables of the procedure
  lost        \* exchanges lost or damaged so far

vars == <<setup, card, pc, dev, loc, lost>>

Techs == {"A", "B", "F", "V", "VS", "TB"}    \* "VS" is the NFC-V search with sleep

ASSUME FieldAssumption ==
  /\ MaxLost \in Nat
  /\ \A s \in Setups : /\ s.tech \in Techs
                       /\ s.mode \in {"NFC", "EMV", "ISO"}
                       /\ s.limit \in Nat
                       /\ s.present \subseteq Cards
                       /\ s.weak \subseteq s.present

None == "none"                \* nothing was received: ST_ERR_TIMEOUT
Many == "many"                \* a collision or a transmission error

States == {"off", "idle", "ready", "active", "halt", "quiet", "inventory",
           "selected", "deselected"}
Asleep == {"halt", "quiet", "deselected"}

In(state) == {c \in Cards : card[c].st = state}

\* The cards of C go to a state, the others stay as they are.
Moved(C, state) == [c \in Cards |-> IF c \in C THEN [st |-> state, at |-> 0] ELSE card[c]]

\* The cards of C answer; the reader decodes the answers of H.  A weak card may go
\* unnoticed behind a strong one; an answer or a command may be lost.
Hears(C, H) ==
  \/ /\ H \subseteq C /\ C \ H \subseteq setup.weak /\ (C # {} => H # {})
     /\ UNCHANGED lost
  \/ /\ C # {} /\ H = {}
     /\ lost < MaxLost /\ lost' = lost + 1

\* The outcomes of an exchange in which each of the cards of C sends a whole frame: what
\* the reader gets, and what it costs.
Answers(C) ==
  {[got |-> IF H = {} THEN None ELSE IF Cardinality(H) = 1 THEN CHOOSE c \in H : TRUE ELSE Many,
    cost |-> 0] : H \in {H \in SUBSET C : C \ H \subseteq setup.weak /\ (C # {} => H # {})}}
  \cup (IF C = {} \/ lost = MaxLost THEN {} ELSE {[got |-> r, cost |-> 1] : r \in {None, Many}})

Reply(a) == lost' = lost + a.cost

\* A command that is not checked reaches the cards, or is lost.
Command(after) ==
  \/ card' = after /\ UNCHANGED lost
  \/ lost < MaxLost /\ lost' = lost + 1 /\ UNCHANGED card

Found(id) == [id |-> id, asleep |-> FALSE]

\* The list with its last device marked asleep.
StaysAwake == dev
LastAsleep == [dev EXCEPT ![Len(dev)].asleep = TRUE]

FieldInit(tech, start) ==
  /\ setup \in {s \in Setups : s.tech = tech}
  /\ card = [c \in Cards |-> [st |-> IF c \in setup.present THEN "idle" ELSE "off", at |-> 0]]
  /\ pc = start
  /\ dev = <<>>
  /\ lost = 0

Ended == pc \in {"done", "failed"}
=============================================================================
