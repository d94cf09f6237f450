------------------------------ MODULE MCNfcDep ------------------------------
(* Messages of one and of two parts, over links with different faults.     *)
EXTENDS NfcDep

AllTypes == DepTypes \cup {"ATR", "PSL", "DSL", "RLS"}
AllFaults == {"damage", "loss"} \X {"ini", "tgt"} \X AllTypes

\* One part, no extension: any fault.
Plain == [parts |-> 1, extends |-> FALSE, faults |-> AllFaults]
\* Extensions: a request for one is not lost without a trace.
Extending == [parts |-> 1, extends |-> TRUE, faults |-> AllFaults \ {<<"loss", "ini", "TO">>}]
\* Chaining: acknowledgements arrive, but one to the initiator may be lost.
Chaining ==
  [parts |-> 2, extends |-> FALSE,
   faults |-> AllFaults \ {<<"loss", "tgt", "ACK">>, <<"damage", "tgt", "ACK">>, <<"damage", "ini", "ATN">>,
                           <<"damage", "ini", "ACK">>}]
AllSetups == {Plain, Extending, Chaining}
=============================================================================
