----------------------------- MODULE MCPresence -----------------------------
(* Two sockets of one user, on two instances. *)
EXTENDS Presence, TLC

CONSTANTS i1, i2, s1, s2

HomeTwo == s1 :> i1 @@ s2 :> i2
=============================================================================
