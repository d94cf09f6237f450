----------------------- MODULE InterruptDriver_proof -----------------------
(***************************************************************************)
(* Invariance of the interrupt driver's safety properties, for any set of  *)
(* interrupt sources, any layout of the mask registers and any nesting.    *)
(***************************************************************************)
EXTENDS InterruptDriver, SequenceTheorems, TLAPS

\* Only a check holds bits that are not recorded, only a modify has registers
\* left to write: the activations that return leave nothing behind.
Tidy ==
  \A k \in 1..Depth :
    /\ stack[k].op # "check" => stack[k].irqs = {}
    /\ stack[k].op # "modify" => stack[k].todo = {}

IInv == TypeOK /\ OneTransfer /\ Tidy /\ MaskShadow /\ NoLostInterrupt

\* What replacing the innermost activation does to the stack.
LEMMA ReplaceTop ==
  ASSUME NEW s \in Seq(Frame), s # <<>>, NEW f \in Frame
  PROVE  /\ [s EXCEPT ![Len(s)] = f] \in Seq(Frame)
         /\ Len([s EXCEPT ![Len(s)] = f]) = Len(s)
         /\ [s EXCEPT ![Len(s)] = f][Len(s)] = f
         /\ \A k \in 1..Len(s) : k # Len(s) => [s EXCEPT ![Len(s)] = f][k] = s[k]
  OBVIOUS

\* What entering an activation does to the stack.
LEMMA Enter ==
  ASSUME NEW s \in Seq(Frame), NEW f \in Frame
  PROVE  /\ Append(s, f) \in Seq(Frame)
         /\ Len(Append(s, f)) = Len(s) + 1
         /\ Append(s, f)[Len(s) + 1] = f
         /\ \A k \in 1..Len(s) : Append(s, f)[k] = s[k]
  OBVIOUS

\* What leaving the innermost activation does to the stack.
LEMMA Leave ==
  ASSUME NEW s \in Seq(Frame), s # <<>>
  PROVE  /\ SubSeq(s, 1, Len(s) - 1) \in Seq(Frame)
         /\ Len(SubSeq(s, 1, Len(s) - 1)) = Len(s) - 1
         /\ \A k \in 1..(Len(s) - 1) : SubSeq(s, 1, Len(s) - 1)[k] = s[k]
<1> DEFINE n == Len(s) - 1
<1>a. Len(s) \in Nat \ {0}
  BY EmptySeq
<1>0. Len(s) \in Int /\ Len(s) >= 1
  BY <1>a
<1>1. n \in Int /\ n >= 0 /\ n - 1 + 1 = n
  <2>1. n \in Int
    BY <1>0
  <2>2. n >= 0
    BY <1>0
  <2>3. n - 1 + 1 = n
    BY <1>0
  <2> QED
    BY <2>1, <2>2, <2>3
<1>2. \A k \in 1..n : s[k] \in Frame
  OBVIOUS
<1> HIDE DEF n
<1>3. /\ SubSeq(s, 1, n) \in Seq(Frame)
      /\ Len(SubSeq(s, 1, n)) = (IF 1 <= n THEN n - 1 + 1 ELSE 0)
      /\ \A k \in 1..(n - 1 + 1) : SubSeq(s, 1, n)[k] = s[1 + k - 1]
  BY <1>1, <1>2, SubSeqProperties
<1>4. Len(SubSeq(s, 1, n)) = n
  BY <1>1, <1>3
<1>5. \A k \in 1..n : SubSeq(s, 1, n)[k] = s[k]
  BY <1>1, <1>3
<1> QED
  BY <1>3, <1>4, <1>5 DEF n

\* The innermost activation exists and is well formed.
LEMMA TopIsFrame ==
  ASSUME TypeOK, ~Idle
  PROVE  Depth \in Nat /\ Depth >= 1 /\ Top \in Frame
  BY DEF TypeOK, Idle, Depth, Top

\* The three effects on the stack, read off the next state.
LEMMA Replaced ==
  ASSUME TypeOK, ~Idle, NEW f \in Frame, stack' = [stack EXCEPT ![Depth] = f]
  PROVE  /\ stack' \in Seq(Frame)
         /\ Depth' = Depth /\ ~Idle' /\ Top' = f
         /\ \A k \in 1..Depth : k # Depth => stack'[k] = stack[k]
<1>1. stack \in Seq(Frame) /\ stack # <<>>
  BY DEF TypeOK, Idle
<1> QED
  BY <1>1, ReplaceTop, TopIsFrame DEF Depth, Idle, Top

\* A return pops one frame and leaves the callers on the stack.
LEMMA Returned ==
  ASSUME TypeOK, ~Idle, Return
  PROVE  /\ stack' \in Seq(Frame)
         /\ Depth' = Depth - 1
         /\ \A k \in 1..Depth' : stack'[k] = stack[k]
<1>1. stack \in Seq(Frame) /\ stack # <<>>
  BY DEF TypeOK, Idle
<1> QED
  BY <1>1, Leave DEF Depth, Return

\* A call pushes one frame; the caller waits in its body.
LEMMA Called ==
  ASSUME TypeOK, Idle, NEW f \in Frame, stack' = <<f>>
  PROVE  /\ stack' \in Seq(Frame)
         /\ Depth' = 1 /\ ~Idle' /\ Top' = f
         /\ \A k \in 1..Depth' : stack'[k] = f
  BY DEF Depth, Idle, Top

\* Moving the innermost activation on changes neither what is in flight nor
\* which registers are still to be written.
LEMMA GotoKeeps ==
  ASSUME IInv, ~Idle, NEW p \in {"xfer", "tail", "isr", "run"}, Goto(p),
         UNCHANGED <<chipMask, mask>>
  PROVE  /\ stack' \in Seq(Frame) /\ Depth' = Depth /\ ~Idle' /\ Top'.at = p
         /\ \A k \in 1..Depth : k # Depth => stack'[k] = stack[k]
         /\ Tidy' /\ MaskShadow' /\ InFlight' = InFlight
<1> DEFINE f == [Top EXCEPT !.at = p]
<1>1. f \in Frame /\ f.at = p /\ f.op = Top.op /\ f.irqs = Top.irqs /\ f.todo = Top.todo
  BY TopIsFrame DEF IInv, Frame
<1>2. stack' = [stack EXCEPT ![Depth] = f]
  BY DEF Goto, Top
<1>3. TypeOK
  BY DEF IInv
<1> HIDE DEF f
<1>4. /\ stack' \in Seq(Frame) /\ Depth' = Depth /\ ~Idle' /\ Top' = f
      /\ \A k \in 1..Depth : k # Depth => stack'[k] = stack[k]
  BY <1>1, <1>2, <1>3, Replaced
<1>5. \A k \in 1..Depth : /\ stack'[k].op = stack[k].op
                          /\ stack'[k].irqs = stack[k].irqs
                          /\ stack'[k].todo = stack[k].todo
  BY <1>1, <1>4 DEF Top
<1>6. Tidy'
  BY <1>4, <1>5 DEF IInv, Tidy
<1>7. MaskShadow'
  BY <1>4, <1>5 DEF IInv, MaskShadow
<1>8. InFlight' = InFlight
  BY <1>4, <1>5 DEF InFlight
<1> QED
  BY <1>1, <1>4, <1>6, <1>7, <1>8

\* An activation that returns leaves what it has read behind and nothing else.
LEMMA ReturnKeeps ==
  ASSUME IInv, ~Idle, Return, Top.todo = {}, UNCHANGED <<chipMask, mask>>
  PROVE  /\ stack' \in Seq(Frame) /\ Depth' = Depth - 1
         /\ \A k \in 1..Depth' : stack'[k] = stack[k]
         /\ Tidy' /\ MaskShadow' /\ InFlight \subseteq InFlight' \cup Top.irqs
<1>1. /\ stack' \in Seq(Frame) /\ Depth' = Depth - 1
      /\ \A k \in 1..Depth' : stack'[k] = stack[k]
  BY Returned DEF IInv
<1>2. Depth \in Nat /\ Depth >= 1
  BY TopIsFrame DEF IInv
<1>3. \A k \in 1..Depth : k = Depth \/ k \in 1..Depth'
  BY <1>1, <1>2
<1>4. \A k \in 1..Depth' : k \in 1..Depth
  BY <1>1, <1>2
<1>5. Tidy'
  BY <1>1, <1>4 DEF IInv, Tidy
<1>6. MaskShadow'
  BY <1>1, <1>3 DEF IInv, MaskShadow, Top
<1>7. InFlight \subseteq InFlight' \cup Top.irqs
  BY <1>1, <1>3 DEF InFlight, Top
<1> QED
  BY <1>1, <1>5, <1>6, <1>7

\* A call that starts on an idle thread.
LEMMA CallKeeps ==
  ASSUME IInv, Idle, NEW f \in Frame, stack' = <<f>>, f.irqs = {},
         f.op # "modify" => f.todo = {}
  PROVE  /\ stack' \in Seq(Frame) /\ Depth' = 1 /\ ~Idle' /\ Top' = f
         /\ Tidy' /\ InFlight = {}
         /\ \A k \in 1..Depth' : stack'[k] = f
         /\ Depth = 0
<1>1. /\ stack' \in Seq(Frame) /\ Depth' = 1 /\ ~Idle' /\ Top' = f
      /\ \A k \in 1..Depth' : stack'[k] = f
  BY Called DEF IInv
<1>2. Depth = 0
  BY DEF Idle, Depth
<1>3. InFlight = {}
  BY <1>2 DEF InFlight
<1> QED
  BY <1>1, <1>2, <1>3 DEF Tidy

\* A new call is a frame.
LEMMA CallIsFrame ==
  ASSUME NEW op \in Ops, NEW at \in {"xfer", "tail", "isr", "run"}
  PROVE  /\ Call(op, at) \in Frame
         /\ Call(op, at).op = op /\ Call(op, at).at = at
         /\ Call(op, at).irqs = {} /\ Call(op, at).todo = {}
  BY DEF Call, Frame

\* The chip and the GPIO handler.
LEMMA EnvironmentStep ==
  IInv /\ ((\E i \in Irq : Raise(i)) \/ setISRPending) => IInv'
<1> SUFFICES ASSUME IInv, (\E i \in Irq : Raise(i)) \/ setISRPending
             PROVE  IInv'
  OBVIOUS
<1> USE DEF IInv
<1>1. ASSUME NEW i \in Irq, Raise(i)
      PROVE  IInv'
  <2>1. UNCHANGED <<stack, chipMask, mask, bus_busy, status>>
    BY <1>1 DEF Raise
  <2>2. TypeOK'
    BY <1>1 DEF Raise, TypeOK, LatchEdge
  <2>3. OneTransfer' /\ Tidy' /\ MaskShadow' /\ InFlight' = InFlight
    BY <2>1 DEF OneTransfer, Tidy, MaskShadow, InFlight, Depth, At, Idle, Top
  <2>4. NoLostInterrupt'
    BY <1>1, <2>1, <2>3 DEF Raise, NoLostInterrupt
  <2> QED
    BY <2>2, <2>3, <2>4
<1>2. CASE setISRPending
  <2>1. UNCHANGED <<stack, chipIrq, chipMask, mask, bus_busy, status, owed>>
    BY <1>2 DEF setISRPending
  <2>2. TypeOK'
    BY <1>2 DEF setISRPending, TypeOK
  <2>3. OneTransfer' /\ Tidy' /\ MaskShadow' /\ InFlight' = InFlight
    BY <2>1 DEF OneTransfer, Tidy, MaskShadow, InFlight, Depth, At, Idle, Top
  <2>4. NoLostInterrupt'
    BY <2>1, <2>3 DEF NoLostInterrupt
  <2> QED
    BY <2>2, <2>3, <2>4
<1> QED
  BY <1>1, <1>2

\* The calls the loop thread starts.
LEMMA ApplicationStep ==
  ASSUME IInv, Application
  PROVE  IInv'
<1>0. TypeOK /\ Tidy /\ MaskShadow /\ NoLostInterrupt /\ OneTransfer
  BY DEF IInv
<1>1. ASSUME Idle, NEW f \in Frame, stack' = <<f>>, f.op # "modify",
             f.at = "tail", f.irqs = {}, f.todo = {},
             UNCHANGED <<chipIrq, chipMask, edge, isr_pending, bus_busy, status, mask, owed>>
      PROVE  IInv'
  <2>3. /\ stack' \in Seq(Frame) /\ Depth' = 1 /\ ~Idle' /\ Top' = f
        /\ Tidy' /\ InFlight = {}
        /\ \A k \in 1..Depth' : stack'[k] = f
        /\ Depth = 0
    BY <1>1, CallKeeps
  <2>4. TypeOK'
    BY <1>0, <1>1, <2>3 DEF TypeOK
  <2>5. OneTransfer'
    BY <1>0, <1>1, <2>3 DEF OneTransfer, At
  <2>6. MaskShadow'
    BY <1>0, <1>1, <2>3 DEF MaskShadow
  <2>7. NoLostInterrupt'
    BY <1>0, <1>1, <2>3 DEF NoLostInterrupt
  <2> QED
    BY <2>3, <2>4, <2>5, <2>6, <2>7 DEF IInv
<1>2. ASSUME Idle, NEW op \in {"bus", "clear"}, stack' = <<Call(op, "xfer")>>, bus_busy' = TRUE,
             UNCHANGED <<chipIrq, chipMask, edge, isr_pending, status, mask, owed>>
      PROVE  IInv'
  <2> DEFINE f == Call(op, "xfer")
  <2>1. f \in Frame /\ f.op = op /\ f.at = "xfer" /\ f.irqs = {} /\ f.todo = {}
    BY <1>2, CallIsFrame DEF Ops
  <2>2. stack' = <<f>>
    BY <1>2
  <2> HIDE DEF f
  <2>3. /\ stack' \in Seq(Frame) /\ Depth' = 1 /\ ~Idle' /\ Top' = f
        /\ Tidy' /\ InFlight = {}
        /\ \A k \in 1..Depth' : stack'[k] = f
        /\ Depth = 0
    BY <1>2, <2>1, <2>2, CallKeeps
  <2>4. TypeOK'
    BY <1>0, <1>2, <2>3 DEF TypeOK
  <2>5. OneTransfer'
    BY <1>2, <2>1, <2>3 DEF OneTransfer, At
  <2>6. MaskShadow'
    BY <1>0, <1>2, <2>1, <2>3 DEF MaskShadow
  <2>7. NoLostInterrupt'
    BY <1>0, <1>2, <2>3 DEF NoLostInterrupt
  <2> QED
    BY <2>3, <2>4, <2>5, <2>6, <2>7 DEF IInv
<1>3. CASE rfalWorker
  BY <1>1, <1>3, CallIsFrame DEF rfalWorker, Ops
<1>4. CASE BusOperation \/ st25r3916ClearInterrupts
  BY <1>2, <1>4 DEF BusOperation, st25r3916ClearInterrupts
<1>5. ASSUME NEW m \in SUBSET Irq, NEW b \in BOOLEAN, st25r3916WaitForInterruptsTimed(m, b)
      PROVE  IInv'
  <2> DEFINE f == [Call("wait", "tail") EXCEPT !.set = m, !.forever = b]
  <2>1. f \in Frame /\ f.op = "wait" /\ f.at = "tail" /\ f.irqs = {} /\ f.todo = {}
    BY DEF Call, Frame, Ops
  <2>2. /\ Idle /\ stack' = <<f>>
        /\ UNCHANGED <<chipIrq, chipMask, edge, isr_pending, bus_busy, status, mask, owed>>
    BY <1>5 DEF st25r3916WaitForInterruptsTimed
  <2> HIDE DEF f
  <2> QED
    BY <1>1, <2>1, <2>2
<1>6. ASSUME NEW m \in SUBSET Irq, st25r3916GetInterrupt(m)
      PROVE  IInv'
  <2>1. UNCHANGED <<stack, chipIrq, chipMask, mask, bus_busy, edge, isr_pending>>
    BY <1>6 DEF st25r3916GetInterrupt
  <2>2. status' = status \ m /\ owed' = owed \ (status \cap m)
    BY <1>6 DEF st25r3916GetInterrupt, Take
  <2>3. TypeOK'
    BY <1>0, <2>1, <2>2 DEF TypeOK
  <2>4. OneTransfer' /\ Tidy' /\ MaskShadow' /\ InFlight' = InFlight
    BY <1>0, <2>1 DEF OneTransfer, Tidy, MaskShadow, InFlight, Depth, At, Idle, Top
  <2>5. NoLostInterrupt'
    BY <1>0, <2>1, <2>2, <2>4 DEF NoLostInterrupt
  <2> QED
    BY <2>3, <2>4, <2>5 DEF IInv
<1>7. ASSUME NEW c \in SUBSET Irq, NEW s \in SUBSET Irq, st25r3916ModifyInterrupts(c, s)
      PROVE  IInv'
  <2> DEFINE t == {RegOf[i] : i \in ChangedBits(c, s)}
             f == [Call("modify", "run") EXCEPT !.todo = t]
  <2>1. ChangedBits(c, s) \subseteq Irq
    BY <1>0 DEF ChangedBits, TypeOK
  <2>2. t \subseteq Nat
    BY <2>1, RegOfAssumption
  <2>3. f \in Frame /\ f.op = "modify" /\ f.at = "run" /\ f.irqs = {} /\ f.todo = t
    BY <2>2 DEF Call, Frame, Ops
  <2>4. /\ Idle /\ stack' = <<f>> /\ mask' = (mask \ c) \cup s
        /\ UNCHANGED <<chipIrq, chipMask, edge, isr_pending, bus_busy, status, owed>>
    BY <1>7 DEF st25r3916ModifyInterrupts
  <2>5. \A i \in Irq : RegOf[i] \notin t => (i \in mask' <=> i \in mask)
    BY <2>4 DEF ChangedBits
  <2> HIDE DEF f, t
  <2>6. /\ stack' \in Seq(Frame) /\ Depth' = 1 /\ ~Idle' /\ Top' = f
        /\ Tidy' /\ InFlight = {}
        /\ \A k \in 1..Depth' : stack'[k] = f
        /\ Depth = 0
    BY <2>3, <2>4, CallKeeps
  <2>7. TypeOK'
    BY <1>0, <2>4, <2>6 DEF TypeOK
  <2>8. OneTransfer'
    BY <1>0, <2>3, <2>4, <2>6 DEF OneTransfer, At
  <2>9. MaskShadow'
    BY <1>0, <2>3, <2>4, <2>5, <2>6 DEF MaskShadow
  <2>10. NoLostInterrupt'
    BY <1>0, <2>4, <2>6 DEF NoLostInterrupt
  <2> QED
    BY <2>6, <2>7, <2>8, <2>9, <2>10 DEF IInv
<1> QED
  BY <1>3, <1>4, <1>5, <1>6, <1>7
     DEF Application, st25r3916EnableInterrupts, st25r3916DisableInterrupts

\* A step of the innermost activation that replaces it by one at another place.
LEMMA MoveKeepsTransfer ==
  ASSUME IInv, NEW d \in Nat, Depth' = d, d = Depth,
         \A k \in 1..Depth : k # Depth => stack'[k] = stack[k],
         ~Idle', bus_busy' <=> Top'.at = "xfer"
  PROVE  OneTransfer'
  BY DEF IInv, OneTransfer, At

\* After a return the new innermost activation, if any, stands at "run".
LEMMA ReturnKeepsTransfer ==
  ASSUME IInv, ~Idle, Depth' = Depth - 1, stack' \in Seq(Frame),
         \A k \in 1..Depth' : stack'[k] = stack[k], bus_busy' = FALSE
  PROVE  OneTransfer'
<1>1. Depth \in Nat /\ Depth >= 1
  BY TopIsFrame DEF IInv
<1>2. \A k \in 1..Depth' : stack'[k].at = "run"
  BY <1>1 DEF IInv, OneTransfer
<1>3. ~Idle' => Depth' \in Nat \ {0}
  BY EmptySeq DEF Idle, Depth
<1>4. ~Idle' => Depth' \in 1..Depth'
  <2> SUFFICES ASSUME ~Idle' PROVE Depth' \in 1..Depth'
    OBVIOUS
  <2>1. Depth' \in Nat \ {0}
    BY <1>3
  <2>2. \A d \in Nat \ {0} : d \in 1..d
    OBVIOUS
  <2> QED
    BY <2>1, <2>2
<1>5. ~At("xfer")'
  BY <1>2, <1>4 DEF At, Top
<1> QED
  BY <1>2, <1>5 DEF OneTransfer

\* The transfers: what was in the chip's registers is in a check's hands.
LEMMA TransferStep ==
  ASSUME IInv, ReadIrqRegisters \/ WriteMaskRegister \/ EndOtherTransfer
  PROVE  IInv'
<1>0. TypeOK /\ Tidy /\ MaskShadow /\ NoLostInterrupt /\ OneTransfer
  BY DEF IInv
<1>1. ~Idle /\ Depth \in Nat /\ Depth >= 1 /\ Top \in Frame
  <2>1. ~Idle
    BY DEF ReadIrqRegisters, WriteMaskRegister, EndOtherTransfer, At
  <2> QED
    BY <1>0, <2>1, TopIsFrame
<1>2. ASSUME ReadIrqRegisters, Top.op = "check"
      PROVE  IInv'
  <2> DEFINE f == [Top EXCEPT !.at = "tail", !.irqs = @ \cup chipIrq]
  <2>1. /\ f \in Frame /\ f.op = "check" /\ f.at = "tail"
        /\ f.irqs = Top.irqs \cup chipIrq /\ f.todo = Top.todo
    BY <1>0, <1>1, <1>2 DEF Frame, TypeOK
  <2>2. /\ stack' = [stack EXCEPT ![Depth] = f]
        /\ chipIrq' = {} /\ bus_busy' = FALSE
        /\ UNCHANGED <<owed, chipMask, isr_pending, status, mask>>
        /\ edge' \in BOOLEAN
    BY <1>0, <1>2 DEF ReadIrqRegisters, Top, LatchEdge, TypeOK
  <2> HIDE DEF f
  <2>3. /\ stack' \in Seq(Frame) /\ Depth' = Depth /\ ~Idle' /\ Top' = f
        /\ \A k \in 1..Depth : k # Depth => stack'[k] = stack[k]
    BY <1>0, <1>1, <2>1, <2>2, Replaced
  <2>4. \A k \in 1..Depth : /\ stack'[k].op = stack[k].op
                            /\ stack'[k].todo = stack[k].todo
                            /\ k # Depth => stack'[k].irqs = stack[k].irqs
                            /\ k = Depth => stack'[k].irqs = stack[k].irqs \cup chipIrq
    BY <1>2, <2>1, <2>3 DEF Top
  <2>5. TypeOK'
    BY <1>0, <2>2, <2>3 DEF TypeOK
  <2>6. OneTransfer'
    BY <1>1, <2>1, <2>2, <2>3, MoveKeepsTransfer
  <2>7. Tidy'
    BY <1>0, <1>2, <2>3, <2>4 DEF Tidy, Top
  <2>8. MaskShadow'
    BY <1>0, <2>2, <2>3, <2>4 DEF MaskShadow
  <2>9. InFlight \cup chipIrq \subseteq InFlight'
    <3>1. InFlight \subseteq InFlight'
      BY <2>3, <2>4 DEF InFlight
    <3>2. chipIrq \subseteq stack'[Depth].irqs /\ Depth \in 1..Depth
      BY <1>1, <2>4
    <3> QED
      BY <2>3, <3>1, <3>2 DEF InFlight
  <2>10. NoLostInterrupt'
    BY <1>0, <2>2, <2>9 DEF NoLostInterrupt
  <2> QED
    BY <2>5, <2>6, <2>7, <2>8, <2>10 DEF IInv
<1>3. ASSUME Goto("tail"), bus_busy' = FALSE, At("xfer"),
             UNCHANGED <<chipMask, isr_pending, status, mask>>,
             edge' \in BOOLEAN,
             \/ UNCHANGED <<chipIrq, owed>>
             \/ chipIrq' = {} /\ owed' = owed \ chipIrq
      PROVE  IInv'
  <2>1. /\ stack' \in Seq(Frame) /\ Depth' = Depth /\ ~Idle' /\ Top'.at = "tail"
        /\ \A k \in 1..Depth : k # Depth => stack'[k] = stack[k]
        /\ Tidy' /\ MaskShadow' /\ InFlight' = InFlight
    BY <1>1, <1>3, GotoKeeps
  <2>2. TypeOK'
    BY <1>0, <1>3, <2>1 DEF TypeOK
  <2>3. OneTransfer'
    BY <1>1, <1>3, <2>1, MoveKeepsTransfer
  <2>4. NoLostInterrupt'
    BY <1>0, <1>3, <2>1 DEF NoLostInterrupt
  <2> QED
    BY <2>1, <2>2, <2>3, <2>4 DEF IInv
<1>4. ASSUME ReadIrqRegisters, Top.op # "check"
      PROVE  IInv'
  BY <1>0, <1>3, <1>4 DEF ReadIrqRegisters, LatchEdge, TypeOK
<1>5. CASE EndOtherTransfer
  BY <1>0, <1>3, <1>5 DEF EndOtherTransfer, TypeOK
<1>6. CASE WriteMaskRegister
  <2>1. PICK r \in Top.todo :
          /\ chipMask' = {i \in Irq : IF RegOf[i] = r THEN i \in mask ELSE i \in chipMask}
          /\ stack' = [stack EXCEPT ![Depth].at = "tail", ![Depth].todo = @ \ {r}]
    BY <1>6 DEF WriteMaskRegister
  <2> DEFINE f == [Top EXCEPT !.at = "tail", !.todo = @ \ {r}]
  <2>2. /\ f \in Frame /\ f.op = Top.op /\ f.at = "tail"
        /\ f.irqs = Top.irqs /\ f.todo = Top.todo \ {r}
    BY <1>1 DEF Frame
  <2>3. /\ stack' = [stack EXCEPT ![Depth] = f]
        /\ bus_busy' = FALSE /\ Top.op = "modify"
        /\ UNCHANGED <<chipIrq, isr_pending, status, mask, owed>>
        /\ edge' \in BOOLEAN
    BY ZenonT(60), <1>0, <1>6, <2>1 DEF WriteMaskRegister, Top, LatchEdge, TypeOK
  <2> HIDE DEF f
  <2>4. /\ stack' \in Seq(Frame) /\ Depth' = Depth /\ ~Idle' /\ Top' = f
        /\ \A k \in 1..Depth : k # Depth => stack'[k] = stack[k]
    BY <1>0, <1>1, <2>2, <2>3, Replaced
  <2>5. \A k \in 1..Depth : /\ stack'[k].op = stack[k].op
                            /\ stack'[k].irqs = stack[k].irqs
                            /\ k # Depth => stack'[k].todo = stack[k].todo
                            /\ k = Depth => stack'[k].todo = stack[k].todo \ {r}
    BY <2>2, <2>4 DEF Top
  <2>6. chipMask' \subseteq Irq
    BY <2>1
  <2>7. TypeOK'
    BY <1>0, <2>3, <2>4, <2>6 DEF TypeOK
  <2>8. OneTransfer'
    BY <1>1, <2>2, <2>3, <2>4, MoveKeepsTransfer
  <2>9. Tidy'
    BY <1>0, <2>3, <2>4, <2>5 DEF Tidy, Top
  <2>10. MaskShadow'
    <3> SUFFICES ASSUME NEW i \in Irq,
                        \A k \in 1..Depth : RegOf[i] \notin stack'[k].todo
                 PROVE  i \in chipMask' <=> i \in mask'
      BY <2>4 DEF MaskShadow
    <3>1. CASE RegOf[i] = r
      BY <2>1, <2>3, <3>1
    <3>2. CASE RegOf[i] # r
      <4>1. \A k \in 1..Depth : RegOf[i] \notin stack[k].todo
        BY <2>5, <3>2
      <4>2. i \in chipMask <=> i \in mask
        BY <1>0, <4>1 DEF MaskShadow
      <4> QED
        BY <2>1, <2>3, <3>2, <4>2
    <3> QED
      BY <3>1, <3>2
  <2>11. InFlight' = InFlight
    BY <2>4, <2>5 DEF InFlight
  <2>12. NoLostInterrupt'
    BY <1>0, <2>3, <2>11 DEF NoLostInterrupt
  <2> QED
    BY <2>7, <2>8, <2>9, <2>10, <2>12 DEF IInv
<1> QED
  BY <1>2, <1>4, <1>5, <1>6

\* The steps between transfers: what a check holds is recorded when it returns.
LEMMA BodyStep ==
  ASSUME IInv,
         \/ TestPending \/ st25r3916Isr \/ st25r3916CheckForReceivedInterrupts
         \/ ContinueModify \/ FinishClear \/ FinishCall \/ ContinueWait
  PROVE  IInv'
<1>0. TypeOK /\ Tidy /\ MaskShadow /\ NoLostInterrupt /\ OneTransfer
  BY DEF IInv
<1>1. ~Idle /\ Depth \in Nat /\ Depth >= 1 /\ Top \in Frame
  <2>1. ~Idle
    BY DEF TestPending, st25r3916Isr, st25r3916CheckForReceivedInterrupts,
           ContinueModify, FinishClear, FinishCall, ContinueWait, At
  <2> QED
    BY <1>0, <2>1, TopIsFrame
<1>2. /\ Top.op # "check" => Top.irqs = {}
      /\ Top.op # "modify" => Top.todo = {}
      /\ ~At("xfer") => bus_busy = FALSE
  BY <1>0, <1>1 DEF Tidy, Top, OneTransfer, TypeOK
<1>3. ASSUME NEW p \in {"xfer", "tail", "isr", "run"}, Goto(p),
             bus_busy' \in BOOLEAN, bus_busy' <=> p = "xfer",
             UNCHANGED <<chipIrq, chipMask, edge, isr_pending, mask>>,
             NEW m \in SUBSET Irq,
             status' = status \ m, owed' = owed \ (status \cap m)
      PROVE  IInv'
  <2>1. /\ stack' \in Seq(Frame) /\ Depth' = Depth /\ ~Idle' /\ Top'.at = p
        /\ \A k \in 1..Depth : k # Depth => stack'[k] = stack[k]
        /\ Tidy' /\ MaskShadow' /\ InFlight' = InFlight
    BY <1>1, <1>3, GotoKeeps
  <2>2. TypeOK'
    BY <1>0, <1>3, <2>1 DEF TypeOK
  <2>3. OneTransfer'
    BY <1>1, <1>3, <2>1, MoveKeepsTransfer
  <2>4. NoLostInterrupt'
    BY <1>0, <1>3, <2>1 DEF NoLostInterrupt
  <2> QED
    BY <2>1, <2>2, <2>3, <2>4 DEF IInv
<1>4. ASSUME Return, Top.todo = {}, bus_busy' = FALSE,
             UNCHANGED <<chipIrq, chipMask, edge, isr_pending, mask>>,
             status' \subseteq Irq, owed' \subseteq owed,
             owed' \cap (status \cup Top.irqs) \subseteq status'
      PROVE  IInv'
  <2>1. /\ stack' \in Seq(Frame) /\ Depth' = Depth - 1
        /\ \A k \in 1..Depth' : stack'[k] = stack[k]
        /\ Tidy' /\ MaskShadow' /\ InFlight \subseteq InFlight' \cup Top.irqs
    BY <1>1, <1>4, ReturnKeeps
  <2>2. TypeOK'
    BY <1>0, <1>4, <2>1 DEF TypeOK
  <2>3. OneTransfer'
    BY <1>1, <1>4, <2>1, ReturnKeepsTransfer
  <2>4. NoLostInterrupt'
    BY <1>0, <1>4, <2>1 DEF NoLostInterrupt
  <2> QED
    BY <2>1, <2>2, <2>3, <2>4 DEF IInv
<1>5. CASE TestPending
  <2>1. bus_busy = FALSE
    BY <1>2, <1>5 DEF TestPending, At
  <2>2. /\ Goto("isr") \/ Goto("run")
        /\ UNCHANGED <<chipIrq, chipMask, edge, isr_pending, bus_busy, status, mask, owed>>
    BY <1>5 DEF TestPending
  <2>3. status' = status \ {} /\ owed' = owed \ (status \cap {})
    BY <2>2
  <2> QED
    BY <1>3, <2>1, <2>2, <2>3
<1>6. CASE st25r3916Isr
  <2> DEFINE f == [Top EXCEPT !.at = "run"]
             s == [stack EXCEPT ![Depth] = f]
             g == Call("check", "run")
  <2>1. At("isr") /\ bus_busy = FALSE
    BY <1>2, <1>6 DEF st25r3916Isr, At
  <2>2. /\ stack' = Append(s, g) /\ isr_pending' = FALSE
        /\ UNCHANGED <<chipIrq, chipMask, edge, bus_busy, status, mask, owed>>
    BY <1>6, <2>1 DEF st25r3916Isr, Top
  <2>3. /\ f \in Frame /\ f.op = Top.op /\ f.at = "run"
        /\ f.irqs = Top.irqs /\ f.todo = Top.todo
    BY <1>1 DEF Frame
  <2>4. g \in Frame /\ g.op = "check" /\ g.at = "run" /\ g.irqs = {} /\ g.todo = {}
    BY CallIsFrame DEF Ops
  <2>5. /\ s \in Seq(Frame) /\ Len(s) = Depth /\ s[Depth] = f
        /\ \A k \in 1..Depth : k # Depth => s[k] = stack[k]
    <3>1. stack \in Seq(Frame) /\ stack # <<>>
      BY <1>0, <1>1 DEF TypeOK, Idle
    <3> HIDE DEF f
    <3> QED
      BY <2>3, <3>1, ReplaceTop DEF Depth
  <2> HIDE DEF f, s, g
  <2>6. /\ stack' \in Seq(Frame) /\ Depth' = Depth + 1 /\ stack'[Depth + 1] = g
        /\ \A k \in 1..Depth : stack'[k] = s[k]
    BY <2>2, <2>4, <2>5, Enter DEF Depth
  <2>7. \A k \in 1..Depth : /\ stack'[k].op = stack[k].op
                            /\ stack'[k].at = "run"
                            /\ stack'[k].irqs = stack[k].irqs
                            /\ stack'[k].todo = stack[k].todo
    BY <1>0, <2>3, <2>5, <2>6 DEF Top, OneTransfer
  <2>8. \A k \in 1..Depth' : k \in 1..Depth \/ k = Depth + 1
    BY <1>1, <2>6
  <2>9. TypeOK'
    BY <1>0, <2>2, <2>6 DEF TypeOK
  <2>10. OneTransfer'
    <3>1. \A k \in 1..Depth' : k < Depth' => stack'[k].at = "run"
      BY <1>1, <2>6, <2>7
    <3>2. ~At("xfer")'
      BY <2>4, <2>6 DEF At, Top
    <3> QED
      BY <2>1, <2>2, <3>1, <3>2 DEF OneTransfer
  <2>11. Tidy'
    BY <1>0, <2>4, <2>6, <2>7, <2>8 DEF Tidy
  <2>12. MaskShadow'
    <3>1. \A k \in 1..Depth : k \in 1..Depth'
      BY <1>1, <2>6
    <3> QED
      BY <1>0, <2>2, <2>7, <3>1 DEF MaskShadow
  <2>13. InFlight \subseteq InFlight'
    <3>1. \A k \in 1..Depth : k \in 1..Depth'
      BY <1>1, <2>6
    <3> QED
      BY <2>7, <3>1 DEF InFlight
  <2>14. NoLostInterrupt'
    BY <1>0, <2>2, <2>13 DEF NoLostInterrupt
  <2> QED
    BY <2>9, <2>10, <2>11, <2>12, <2>14 DEF IInv
<1>7. CASE st25r3916CheckForReceivedInterrupts
  <2>1. /\ At("run") /\ Top.op = "check" /\ bus_busy = FALSE /\ Top.todo = {}
        /\ UNCHANGED <<chipIrq, chipMask, edge, isr_pending, mask, owed>>
    BY <1>2, <1>7 DEF st25r3916CheckForReceivedInterrupts, At
  <2>2. CASE BeginTransfer /\ UNCHANGED status
    <3>1. status' = status \ {} /\ owed' = owed \ (status \cap {})
      BY <2>1, <2>2
    <3> QED
      BY <1>3, <2>1, <2>2, <3>1 DEF BeginTransfer
  <2>3. CASE Record(Top.irqs) /\ Return /\ UNCHANGED bus_busy
    <3>1. Top.irqs \subseteq Irq
      BY <1>1 DEF Frame
    <3>2. status' \subseteq Irq /\ owed' \cap (status \cup Top.irqs) \subseteq status'
      BY <1>0, <2>3, <3>1 DEF Record, TypeOK
    <3> QED
      BY <1>4, <2>1, <2>3, <3>2
  <2> QED
    BY <1>7, <2>2, <2>3 DEF st25r3916CheckForReceivedInterrupts
<1>8. CASE ContinueModify
  <2>1. /\ At("run") /\ Top.op = "modify" /\ bus_busy = FALSE /\ Top.irqs = {}
        /\ UNCHANGED <<chipIrq, chipMask, edge, isr_pending, status, mask, owed>>
    BY <1>2, <1>8 DEF ContinueModify, At
  <2>2. CASE BeginTransfer
    <3>1. status' = status \ {} /\ owed' = owed \ (status \cap {})
      BY <2>1
    <3> QED
      BY <1>3, <2>1, <2>2, <3>1 DEF BeginTransfer
  <2>3. CASE Top.todo = {} /\ Return /\ UNCHANGED bus_busy
    <3>1. status' \subseteq Irq /\ owed' \cap (status \cup Top.irqs) \subseteq status'
      BY <1>0, <2>1 DEF TypeOK
    <3> QED
      BY <1>4, <2>1, <2>3, <3>1
  <2> QED
    BY <1>8, <2>2, <2>3 DEF ContinueModify
<1>9. CASE FinishClear
  <2>1. /\ bus_busy = FALSE /\ Top.irqs = {} /\ Top.todo = {} /\ Return
        /\ status' = {} /\ owed' = owed \ status
        /\ UNCHANGED <<chipIrq, chipMask, edge, isr_pending, bus_busy, mask>>
    BY <1>2, <1>9 DEF FinishClear, At
  <2>2. status' \subseteq Irq /\ owed' \cap (status \cup Top.irqs) \subseteq status'
    BY <2>1
  <2> QED
    BY <1>4, <2>1, <2>2
<1>10. CASE FinishCall
  <2>1. /\ bus_busy = FALSE /\ Top.irqs = {} /\ Top.todo = {} /\ Return
        /\ UNCHANGED <<chipIrq, chipMask, edge, isr_pending, bus_busy, status, mask, owed>>
    BY <1>2, <1>10 DEF FinishCall, At
  <2>2. status' \subseteq Irq /\ owed' \cap (status \cup Top.irqs) \subseteq status'
    BY <1>0, <2>1 DEF TypeOK
  <2> QED
    BY <1>4, <2>1, <2>2
<1>11. CASE ContinueWait
  <2>1. /\ bus_busy = FALSE /\ Top.irqs = {} /\ Top.todo = {}
        /\ UNCHANGED <<chipIrq, chipMask, edge, isr_pending, bus_busy, mask>>
    BY <1>2, <1>11 DEF ContinueWait, At
  <2>2. CASE Take(Top.set) /\ Return
    <3>1. /\ status' = status \ Top.set /\ owed' = owed \ (status \cap Top.set)
      BY <2>2 DEF Take
    <3>2. status' \subseteq Irq /\ owed' \cap (status \cup Top.irqs) \subseteq status'
      BY <1>0, <2>1, <3>1 DEF TypeOK
    <3> QED
      BY <1>4, <2>1, <2>2, <3>1, <3>2
  <2>3. CASE Goto("tail") /\ UNCHANGED <<status, owed>>
    <3>1. status' = status \ {} /\ owed' = owed \ (status \cap {})
      BY <2>3
    <3> QED
      BY <1>3, <2>1, <2>3, <3>1
  <2> QED
    BY <1>11, <2>2, <2>3 DEF ContinueWait
<1> QED
  BY <1>5, <1>6, <1>7, <1>8, <1>9, <1>10, <1>11

\* Nothing is owed, no call is active and both masks are clear at power-up.
LEMMA InitStep == Init => IInv
<1> SUFFICES ASSUME Init PROVE IInv
  OBVIOUS
<1>1. Depth = 0 /\ Idle
  BY DEF Init, Depth, Idle
<1>2. TypeOK
  BY EmptySeq DEF Init, TypeOK
<1>3. OneTransfer /\ Tidy /\ MaskShadow /\ NoLostInterrupt
  BY <1>1 DEF Init, OneTransfer, Tidy, MaskShadow, NoLostInterrupt, At
<1> QED
  BY <1>2, <1>3 DEF IInv

\* A stutter keeps the invariant.
LEMMA StutterStep == IInv /\ UNCHANGED vars => IInv'
  BY DEF IInv, vars, TypeOK, OneTransfer, Tidy, MaskShadow, NoLostInterrupt,
         InFlight, Depth, At, Idle, Top

\* IInv holds in every reachable state.
LEMMA Inductive == Spec => []IInv
<1>1. IInv /\ [Next]_vars => IInv'
  BY EnvironmentStep, ApplicationStep, TransferStep, BodyStep, StutterStep
     DEF Next, CallStep
<1> QED
  BY <1>1, InitStep, PTL DEF Spec

\* Every variable keeps its type, whatever interrupts whatever.
THEOREM TypeCorrect == Spec => []TypeOK
<1>1. IInv => TypeOK
  BY DEF IInv
<1> QED
  BY <1>1, Inductive, PTL

\* No interrupt the chip raised is lost on its way to the caller that waits
\* for it, however deep the services of new interrupts nest.
THEOREM InterruptsAreKept == Spec => []NoLostInterrupt
<1>1. IInv => NoLostInterrupt
  BY DEF IInv
<1> QED
  BY <1>1, Inductive, PTL

\* The shadow of the mask tells the truth about the chip's mask registers, for
\* any layout of the sources in the registers.
THEOREM ShadowIsTrue == Spec => []MaskShadow
<1>1. IInv => MaskShadow
  BY DEF IInv
<1> QED
  BY <1>1, Inductive, PTL

\* Transfers never overlap, so the ISR's isBusBusy() branch is never needed.
THEOREM TransfersDoNotOverlap == Spec => []OneTransfer
<1>1. IInv => OneTransfer
  BY DEF IInv
<1> QED
  BY <1>1, Inductive, PTL

\* However deep services nest, none cuts into the transfer or the mask change of the
\* one it interrupts.
THEOREM NestingStaysSafe == Spec => []NestingIsSafe
<1>1. OneTransfer /\ MaskShadow => NestingIsSafe
  BY DEF NestingIsSafe
<1> QED
  BY <1>1, TransfersDoNotOverlap, ShadowIsTrue, PTL
=============================================================================
