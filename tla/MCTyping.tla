------------------------------ MODULE MCTyping ------------------------------
(* Two tabs of one user; the times keep their order, in fewer seconds.       *)
EXTENDS Typing, TLC

CONSTANTS t1, t2
Symmetry == Permutations({t1, t2})
==============================================================================
