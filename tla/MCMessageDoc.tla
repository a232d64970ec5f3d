---------------------------- MODULE MCMessageDoc ----------------------------
(* The author with two tabs beside a workspace admin; one reaction fits      *)
(* when the index to be free is 0.                                          *)
EXTENDS MessageDoc

CONSTANTS ann, bob, a1, a2, b1, e1, e2, t1, t2

TwoTabs == [s \in {a1, a2, b1} |-> IF s = b1 THEN bob ELSE ann]
==============================================================================
