------------------------------ MODULE MCPosting ------------------------------
(* Two sockets of one user, who has two files to attach.                     *)
EXTENDS Posting

CONSTANTS f1, f2, u1, s1, s2

OneOwner == [f \in {f1} |-> u1]
OneUser == [s \in {s1, s2} |-> u1]
==============================================================================
