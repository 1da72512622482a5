----------------------------- MODULE MCTipStore ------------------------------
(***************************************************************************)
(* Instances of TipStore for TLC.                                          *)
(***************************************************************************)
EXTENDS TipStore

CONSTANTS d1, d2, t1, t2

OneTree == {d1}
OtherTree == {d2}
TwoTrees == {d1, d2}
OneHandler == {t1}
TwoHandlers == {t1, t2}
None == {}
=============================================================================
