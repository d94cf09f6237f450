------------------------- MODULE MCIsoDepActivation -------------------------
(* Instances of IsoDepActivation. *)
EXTENDS IsoDepActivation

Rates(same, ds, dr) == [rfu |-> FALSE, same |-> same, ds |-> ds, dr |-> dr]
NoRates == Rates(FALSE, {}, {})
Sp(tx, rx) == [tx |-> tx, rx |-> rx]
Other == [make |-> "other", tech |-> "A", t0 |-> TRUE, ta |-> TRUE, tb |-> TRUE, tc |-> TRUE,
          br |-> NoRates, fsci |-> 8, fwi |-> 8, didSupport |-> FALSE,
          sp |-> Sp({0, 1, 2, 3}, {0, 2})]
ListenCards ==
  {[Other EXCEPT !.make = "library", !.br = br, !.fsci = fsci, !.fwi = 14] :
     br \in {Rates(TRUE, {}, {}), Rates(FALSE, {1, 2}, {1})}, fsci \in {2, 8}}
OtherCards ==
  {[Other EXCEPT !.br = br] :
     br \in {Rates(FALSE, {1}, {2}), Rates(TRUE, {1, 3}, {1, 2}), Rates(TRUE, {2}, {1}),
             [Rates(FALSE, {1}, {2}) EXCEPT !.rfu = TRUE]}}
  \cup {[Other EXCEPT !.t0 = FALSE], [Other EXCEPT !.ta = FALSE, !.tc = FALSE, !.fsci = 0],
        [Other EXCEPT !.tb = FALSE, !.br = Rates(FALSE, {3}, {3}), !.fsci = 12,
                       !.sp = Sp({0, 1}, {})],
        [Other EXCEPT !.tech = "B", !.br = Rates(FALSE, {1, 3}, {2}), !.fwi = 4]}
AllCards == ListenCards \cup OtherCards

\* rfalNfcPollActivation (rfal_nfc.cpp:1010, 1059) uses no DID.
NoDid == {0}
=============================================================================
