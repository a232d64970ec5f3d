----------------------------- MODULE MCTimeline -----------------------------
(* Pages of one message, so that two messages already need LOAD_MORE.        *)
EXTENDS Timeline
==============================================================================
