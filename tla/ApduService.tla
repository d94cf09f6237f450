---------------------------- MODULE ApduService ----------------------------
(***************************************************************************)
(* What ISO-DEP promises to the applications above it: a command that a    *)
(* reader sends is executed at most once, whole and in order, and the      *)
(* answer that the reader gets is the card's answer to that command.  When *)
(* an exchange fails the session is closed, and the command may or may not *)
(* have been executed.                                                     *)
(***************************************************************************)
EXTENDS Naturals, Sequences

VARIABLES
  phase,      \* of the reader: "idle", "asked" or "closed"
  asked,      \* the number of the last command
  executed,   \* the numbers of the commands the card's application got
  answered    \* the number of the last command whose answer the reader got

vars == <<phase, asked, executed, answered>>

Init == phase = "idle" /\ asked = 0 /\ executed = <<>> /\ answered = 0

Ask ==
  /\ phase = "idle"
  /\ phase' = "asked" /\ asked' = asked + 1
  /\ UNCHANGED <<executed, answered>>

\* The command may arrive after the reader has given up.
Execute ==
  /\ phase \in {"asked", "closed"}
  /\ \A i \in 1..Len(executed) : executed[i] < asked
  /\ executed' = Append(executed, asked)
  /\ UNCHANGED <<phase, asked, answered>>

Answer ==
  /\ phase = "asked"
  /\ \E i \in 1..Len(executed) : executed[i] = asked
  /\ phase' = "idle" /\ answered' = asked
  /\ UNCHANGED <<asked, executed>>

Close ==
  /\ phase \in {"idle", "asked"}
  /\ phase' = "closed"
  /\ UNCHANGED <<asked, executed, answered>>

Reopen ==
  /\ phase = "closed"
  /\ phase' = "idle"
  /\ UNCHANGED <<asked, executed, answered>>

Next == Ask \/ Execute \/ Answer \/ Close \/ Reopen
Spec == Init /\ [][Next]_vars
=============================================================================
