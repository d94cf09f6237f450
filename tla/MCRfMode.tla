------------------------------ MODULE MCRfMode ------------------------------
EXTENDS RfMode

M(on, delta, ref) == [on |-> on, delta |-> delta, frac |-> 0, ref |-> ref, avg |-> FALSE]
No == M(FALSE, 1, ReferenceAuto)
Config(sw, tout, amp, pha, cap) == [sw |-> sw, tout |-> tout, amp |-> amp, pha |-> pha, cap |-> cap]

Configs ==
  {DefaultConfig,
   Config(FALSE, TRUE, M(TRUE, 1, 1), M(TRUE, 2, ReferenceAuto), No),
   Config(FALSE, FALSE, No, No, M(TRUE, 1, ReferenceAuto)),
   Config(TRUE, FALSE, No, No, M(TRUE, 1, ReferenceAuto))}

Plain == {[b |-> FALSE, aat |-> FALSE], [b |-> TRUE, aat |-> TRUE]}

MCModes == {"POLL_NFCA", "POLL_NFCV", "POLL_ACTIVE_P2P", "LISTEN_NFCB"}
MCRates == {"106", "26p48"}
MCMasks == {{"LISTEN_NFCA", "LISTEN_NFCF"}, {"LISTEN_NFCA", "LISTEN_ACTIVE_P2P"},
            {"LISTEN_NFCB"}}
=============================================================================
