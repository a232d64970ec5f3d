------------------------- MODULE MCMembershipCache -------------------------
(* Two calls beside one or two requests on one channel.  Every use of a     *)
(* user is a test of membership, so one user stands for all.                *)
EXTENDS MembershipCache

CONSTANTS u1, r1, r2, w1, w2
=============================================================================
