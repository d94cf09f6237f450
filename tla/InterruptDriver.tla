-------------------------- MODULE InterruptDriver --------------------------
(***************************************************************************)
(* The interrupt path of the ST25R3916 driver: the chip's IRQ registers    *)
(* and INT pin, the GPIO handler that only marks an interrupt pending, the *)
(* bus operations whose tail services a pending interrupt (and so nest),   *)
(* the driver's status word and the shadow of the chip's IRQ mask.         *)
(*                                                                         *)
(* The loop thread is a stack of activations.  An activation stands at     *)
(*   "xfer"  a bus transfer of it is running (bus_busy)                    *)
(*   "tail"  about to evaluate isISRPending()                              *)
(*   "isr"   isISRPending() held; about to clear the flag and call the ISR *)
(*   "run"   about to go on with the body of its function                  *)
(***************************************************************************)
EXTENDS Naturals, Sequences

CONSTANTS
  Irq,       \* the interrupt sources: bits of the 32-bit status word
  RegOf,     \* the mask register (0..3) a source's mask bit is in
  MaxNest    \* bound: the chip raises nothing while this many calls are nested

ASSUME RegOfAssumption == RegOf \in [Irq -> Nat]
ASSUME MaxNestAssumption == MaxNest \in Nat \ {0}

VARIABLES
  chipIrq,     \* sources latched in the chip's IRQ registers (read clears)
  chipMask,    \* sources masked in the chip's IRQ mask registers
  edge,        \* a rising edge of INT the GPIO handler has not run for yet
  isr_pending, \* the flag the GPIO handler sets
  bus_busy,    \* a transfer is running
  status,      \* st25r3916interrupt.status
  mask,        \* st25r3916interrupt.mask
  stack,       \* activations of the loop thread, innermost last
  owed         \* history: raised, neither delivered nor cleared on purpose

vars == <<chipIrq, chipMask, edge, isr_pending, bus_busy, status, mask, stack,
          owed>>

Ops == {"worker", "check", "modify", "clear", "bus", "wait"}

\* irqs: bits an activation has read but not yet recorded.  set: the sources a
\* wait is for.  todo: the registers a modify has yet to write.  forever: the
\* wait was called with tmo = 0.
Frame == [op : Ops, at : {"xfer", "tail", "isr", "run"}, irqs : SUBSET Irq,
          set : SUBSET Irq, todo : SUBSET Nat, forever : BOOLEAN]

Call(op, at) ==
  [op |-> op, at |-> at, irqs |-> {}, set |-> {}, todo |-> {}, forever |-> FALSE]

Idle == stack = <<>>
Depth == Len(stack)
Top == stack[Depth]
At(place) == ~Idle /\ Top.at = place
Goto(place) == stack' = [stack EXCEPT ![Depth].at = place]
Return == stack' = SubSeq(stack, 1, Depth - 1)

PinHigh == chipIrq \ chipMask # {}
isISRPending == isr_pending \/ PinHigh
\* INT is a level; attachInterrupt(..., RISING) latches its rising edges.
LatchEdge == edge' = (edge \/ (PinHigh' /\ ~PinHigh))

InFlight == UNION {stack[i].irqs : i \in 1..Depth}

Init ==
  /\ chipIrq = {} /\ chipMask = {} /\ edge = FALSE
  /\ isr_pending = FALSE /\ bus_busy = FALSE
  /\ status = {} /\ mask = {}
  /\ stack = <<>>
  /\ owed = {}
-----------------------------------------------------------------------------
(* The chip and the GPIO handler run at any time. *)

Raise(i) ==
  /\ i \notin chipIrq
  /\ Depth < MaxNest
  /\ chipIrq' = chipIrq \cup {i}
  /\ owed' = owed \cup {i}
  /\ UNCHANGED <<chipMask, isr_pending, bus_busy, status, mask, stack>>
  /\ LatchEdge

setISRPending ==
  /\ edge
  /\ edge' = FALSE
  /\ isr_pending' = TRUE
  /\ UNCHANGED <<chipIrq, chipMask, bus_busy, status, mask, stack, owed>>
-----------------------------------------------------------------------------
(* The calls the loop thread makes when no driver function is active. *)

\* Mutant: the worker runs the state machines without a look at the interrupt.
WorkerNoPoll ==
  /\ Idle
  /\ stack' = <<Call("worker", "run")>>
  /\ UNCHANGED <<chipIrq, chipMask, edge, isr_pending, bus_busy, status, mask, owed>>

rfalWorker ==
  /\ Idle
  /\ stack' = <<Call("worker", "tail")>>
  /\ UNCHANGED <<chipIrq, chipMask, edge, isr_pending, bus_busy, status, mask, owed>>

\* Any register, FIFO or command transfer other than an IRQ register's.
BusOperation ==
  /\ Idle
  /\ stack' = <<Call("bus", "xfer")>>
  /\ bus_busy' = TRUE
  /\ UNCHANGED <<chipIrq, chipMask, edge, isr_pending, status, mask, owed>>

st25r3916ClearInterrupts ==
  /\ Idle
  /\ stack' = <<Call("clear", "xfer")>>
  /\ bus_busy' = TRUE
  /\ UNCHANGED <<chipIrq, chipMask, edge, isr_pending, status, mask, owed>>

\* Mutant: only the bits to be set count as changes.
ChangedBitsSetOnly(clr, set) == set \ mask

\* The bits of the shadow mask that a call must write to the chip.
ChangedBits(clr, set) == (set \ mask) \cup (mask \cap clr)

st25r3916ModifyInterrupts(clr, set) ==
  /\ Idle
  /\ mask' = (mask \ clr) \cup set
  /\ stack' = <<[Call("modify", "run") EXCEPT
                   !.todo = {RegOf[i] : i \in ChangedBits(clr, set)}]>>
  /\ UNCHANGED <<chipIrq, chipMask, edge, isr_pending, bus_busy, status, owed>>

st25r3916EnableInterrupts(m) == st25r3916ModifyInterrupts(m, {})
st25r3916DisableInterrupts(m) == st25r3916ModifyInterrupts({}, m)

\* What a caller gets, it gets once: the bits leave the status word.
Take(m) ==
  /\ status' = status \ m
  /\ owed' = owed \ (status \cap m)

st25r3916GetInterrupt(m) ==
  /\ Idle
  /\ status \cap m # {}
  /\ Take(m)
  /\ UNCHANGED <<chipIrq, chipMask, edge, isr_pending, bus_busy, mask, stack>>

st25r3916WaitForInterruptsTimed(m, forever) ==
  /\ Idle
  /\ stack' = <<[Call("wait", "tail") EXCEPT !.set = m, !.forever = forever]>>
  /\ UNCHANGED <<chipIrq, chipMask, edge, isr_pending, bus_busy, status, mask, owed>>
-----------------------------------------------------------------------------
(* The steps of the active calls. *)

BeginTransfer ==
  /\ bus_busy' = TRUE
  /\ Goto("xfer")

\* Reading the IRQ registers clears them; a check keeps what it read.
ReadIrqRegisters ==
  /\ At("xfer") /\ Top.op \in {"check", "clear"}
  /\ chipIrq' = {}
  /\ bus_busy' = FALSE
  /\ IF Top.op = "check"
       THEN /\ stack' = [stack EXCEPT ![Depth].at = "tail",
                                      ![Depth].irqs = @ \cup chipIrq]
            /\ UNCHANGED owed
       ELSE /\ Goto("tail")
            /\ owed' = owed \ chipIrq
  /\ UNCHANGED <<chipMask, isr_pending, status, mask>>
  /\ LatchEdge

\* The mask registers are written in ascending order.
WriteMaskRegister ==
  /\ At("xfer") /\ Top.op = "modify"
  /\ \E r \in Top.todo :
       /\ \A s \in Top.todo : r <= s
       /\ chipMask' = {i \in Irq : IF RegOf[i] = r THEN i \in mask ELSE i \in chipMask}
       /\ stack' = [stack EXCEPT ![Depth].at = "tail", ![Depth].todo = @ \ {r}]
  /\ bus_busy' = FALSE
  /\ UNCHANGED <<chipIrq, isr_pending, status, mask, owed>>
  /\ LatchEdge

\* Mutant: a path out of a bus operation leaves bus_busy set.
EndTransferBusy ==
  /\ At("xfer") /\ Top.op = "bus"
  /\ Goto("tail")
  /\ UNCHANGED <<chipIrq, chipMask, edge, isr_pending, bus_busy, status, mask, owed>>

EndOtherTransfer ==
  /\ At("xfer") /\ Top.op = "bus"
  /\ bus_busy' = FALSE
  /\ Goto("tail")
  /\ UNCHANGED <<chipIrq, chipMask, edge, isr_pending, status, mask, owed>>

\* if (isISRPending()) ... : the test of every bus operation's tail.
TestPending ==
  /\ At("tail")
  /\ Goto(IF isISRPending THEN "isr" ELSE "run")
  /\ UNCHANGED <<chipIrq, chipMask, edge, isr_pending, bus_busy, status, mask, owed>>

\* ... { isr_pending = false; st25r3916Isr(); }: another activation, unless
\* the bus is busy, when the flag is set again.  The callback of the upper layer that
\* follows the service is left out: neither the library nor a sketch sets one
\* (rfalSetUpperLayerCallback has no caller).
st25r3916Isr ==
  /\ At("isr")
  /\ IF bus_busy
       THEN isr_pending' = TRUE /\ Goto("run")
       ELSE /\ isr_pending' = FALSE
            /\ stack' = Append([stack EXCEPT ![Depth].at = "run"], Call("check", "run"))
  /\ UNCHANGED <<chipIrq, chipMask, edge, bus_busy, status, mask, owed>>

\* Mutant: the bits replace the status word.
RecordOnlyLast(irqs) == status' = irqs

\* The bits an activation has read, added to the status word when INT is low.
Record(irqs) == status' = status \cup irqs

st25r3916CheckForReceivedInterrupts ==
  /\ At("run") /\ Top.op = "check"
  /\ \/ /\ PinHigh
        /\ BeginTransfer
        /\ UNCHANGED status
     \/ /\ ~PinHigh
        /\ Record(Top.irqs)
        /\ Return
        /\ UNCHANGED bus_busy
  /\ UNCHANGED <<chipIrq, chipMask, edge, isr_pending, mask, owed>>

ContinueModify ==
  /\ At("run") /\ Top.op = "modify"
  /\ \/ /\ Top.todo # {}
        /\ BeginTransfer
     \/ /\ Top.todo = {}
        /\ Return
        /\ UNCHANGED bus_busy
  /\ UNCHANGED <<chipIrq, chipMask, edge, isr_pending, status, mask, owed>>

FinishClear ==
  /\ At("run") /\ Top.op = "clear"
  /\ status' = {}
  /\ owed' = owed \ status
  /\ Return
  /\ UNCHANGED <<chipIrq, chipMask, edge, isr_pending, bus_busy, mask>>

FinishCall ==
  /\ At("run") /\ Top.op \in {"worker", "bus"}
  /\ Return
  /\ UNCHANGED <<chipIrq, chipMask, edge, isr_pending, bus_busy, status, mask, owed>>

\* A wait returns what it waited for, or, when its timer has expired, whatever
\* is there by then; with tmo = 0 it never gives up.
ContinueWait ==
  /\ At("run") /\ Top.op = "wait"
  /\ \/ /\ status \cap Top.set # {} \/ ~Top.forever
        /\ Take(Top.set)
        /\ Return
     \/ /\ status \cap Top.set = {}
        /\ Goto("tail")
        /\ UNCHANGED <<status, owed>>
  /\ UNCHANGED <<chipIrq, chipMask, edge, isr_pending, bus_busy, mask>>
-----------------------------------------------------------------------------
CallStep ==
  \/ ReadIrqRegisters \/ WriteMaskRegister \/ EndOtherTransfer
  \/ TestPending \/ st25r3916Isr \/ st25r3916CheckForReceivedInterrupts
  \/ ContinueModify \/ FinishClear \/ FinishCall \/ ContinueWait

Application ==
  \/ rfalWorker
  \/ BusOperation
  \/ st25r3916ClearInterrupts
  \/ \E m \in SUBSET Irq \ {{}} :
       \/ st25r3916EnableInterrupts(m)
       \/ st25r3916DisableInterrupts(m)
       \/ st25r3916GetInterrupt(m)
       \/ \E f \in BOOLEAN : st25r3916WaitForInterruptsTimed(m, f)

Next ==
  \/ \E i \in Irq : Raise(i)
  \/ setISRPending
  \/ CallStep
  \/ Application

Spec == Init /\ [][Next]_vars

\* The handler is entered some time after an edge, a started call goes on, and
\* loop() calls rfalWorker() again and again, whatever it calls in between (so
\* strong fairness: other calls only make it wait).
Fairness == WF_vars(setISRPending) /\ WF_vars(CallStep) /\ SF_vars(rfalWorker)
FairSpec == Spec /\ Fairness
-----------------------------------------------------------------------------
TypeOK ==
  /\ chipIrq \subseteq Irq /\ chipMask \subseteq Irq
  /\ edge \in BOOLEAN /\ isr_pending \in BOOLEAN /\ bus_busy \in BOOLEAN
  /\ status \subseteq Irq /\ mask \subseteq Irq /\ owed \subseteq Irq
  /\ stack \in Seq(Frame)

\* An interrupt the chip raised is in its registers, in the hands of an
\* activation that has read it, or in the status word until a caller takes it
\* or ClearInterrupts drops it: the nested service of a new interrupt loses
\* nothing of the one being serviced.
NoLostInterrupt == owed \subseteq chipIrq \cup InFlight \cup status

\* Outside a ModifyInterrupts the chip's mask registers hold the driver's
\* shadow; inside one they do for every register not still to be written,
\* although each write may service an interrupt before the next.
MaskShadow ==
  \A i \in Irq :
    (\A k \in 1..Depth : RegOf[i] \notin stack[k].todo) => (i \in chipMask <=> i \in mask)

\* A transfer is never begun inside another: a busy bus belongs to the
\* innermost activation, every other one waits in the tail of a finished one.
OneTransfer ==
  /\ bus_busy <=> At("xfer")
  /\ \A k \in 1..Depth : k < Depth => stack[k].at = "run"

\* However services nest, none disturbs the transfer or the mask change it interrupts.
NestingIsSafe == OneTransfer /\ MaskShadow

\* Once the chip raises no more interrupts, every one that reached the INT pin
\* comes to the status word (unless it is masked or cleared first), although the
\* edge, the flag and the pin are looked at in separate steps.  In a storm of
\* interrupts a service may be interrupted for ever before it records its own.
Delivered ==
  \/ []<><<\E i \in Irq : Raise(i)>>_vars
  \/ \A i \in Irq :
       (i \in chipIrq \ chipMask) ~> (i \in status \/ i \notin owed \/ i \in chipMask)
=============================================================================
