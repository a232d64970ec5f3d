------------------------------- MODULE MCBadge -------------------------------
(* Badge has no constants but its bounds. *)
EXTENDS Badge
=============================================================================
