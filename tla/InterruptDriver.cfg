SPECIFICATION FairSpec
CONSTANTS
  rxe = rxe
  osc = osc
  Irq <- MCIrq
  RegOf <- MCRegOf
  MaxNest = 3
INVARIANTS NoLostInterrupt NestingIsSafe
PROPERTIES Delivered
