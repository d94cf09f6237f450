-------------------------- MODULE MCCardEmulation --------------------------
(* Instances of CardEmulation. *)
EXTENDS CardEmulation

Msg(id, len, has) == [id |-> <<id>>, len |-> len, has |-> has]
DemoMessage == Msg("demo", 1, {})
SomeMessages == {DemoMessage, Msg("a", 2, {}), Msg("b", 3, {})}

AllSketches ==
  {CardEmulationT4T, CardEmulationT3T, CardEmulationWifi, Polling,
   CapSenseModeSwitch("A"), CapSenseModeSwitch("F")}
=============================================================================
