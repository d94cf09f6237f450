------------------------- MODULE MCInterruptDriver -------------------------
(* Two sources in two mask registers, and calls nested up to MaxNest. *)
EXTENDS InterruptDriver

CONSTANTS rxe, osc
MCIrq == {rxe, osc}
MCRegOf == [i \in MCIrq |-> IF i = osc THEN 0 ELSE 1]
=============================================================================
