----------------------------- MODULE MCSessions -----------------------------
(* Two tabs of one browser.                                                  *)
EXTENDS Sessions, TLC

CONSTANTS t1, t2

TabSymmetry == Permutations(Tabs)
==============================================================================
