------------------------------ MODULE MCSidebar ------------------------------
(***************************************************************************)
(* Two workspaces, one with #general and a private channel, and a direct  *)
(* message.                                                                *)
(***************************************************************************)
EXTENDS Sidebar, TLC

CONSTANTS w1, w2, g, p, d
MCWorkspaces == {w1, w2}
MCChannels   == {g, p, d}
MCHome       == (g :> w1) @@ (p :> w1) @@ (d :> None)
=============================================================================
