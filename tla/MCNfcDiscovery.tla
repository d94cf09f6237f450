-------------------------- MODULE MCNfcDiscovery ---------------------------
(* A device list of two entries and a few discovery parameters that reach  *)
(* every state and every kind of device.                                   *)
EXTENDS NfcDiscovery

Param(poll, listen, devLimit, wakeupEnabled, cb) ==
  [poll |-> poll, listen |-> listen, devLimit |-> devLimit,
   wakeupEnabled |-> wakeupEnabled, cb |-> cb]

\* A reader with wake-up that asks its callback which device to activate, and a device
\* that polls and listens without one.
TwoParams ==
  {Param({"AP2P", "ST25TB"}, {}, 2, TRUE, TRUE), Param({"A"}, {"A", "F"}, 1, FALSE, FALSE)}
=============================================================================
