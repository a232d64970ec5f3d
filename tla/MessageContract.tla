--------------------------- MODULE MessageContract ---------------------------
(***************************************************************************)
(* What one chat message promises its readers, whatever commands the       *)
(* handlers are made of: its author may change the text, a user has at     *)
(* most one reaction per emoji and changes only their own, receipts only   *)
(* grow and a read message counts as delivered, and a deleted message      *)
(* keeps neither text nor reactions and never changes again.  MessageDoc   *)
(* implements this module.                                                 *)
(***************************************************************************)
CONSTANTS
  Users, Author, \* Author is one of Users
  Emoji,
  Texts,
  NoText   \* what is left of the text of a deleted message

VARIABLES
  text, deleted,
  reacted,        \* pairs of a user and an emoji
  delivered, read \* who got it, who saw it

vars == <<text, deleted, reacted, delivered, read>>
Readers == Users \ {Author}

Init ==
  /\ text \in Texts
  /\ deleted = FALSE
  /\ reacted = {}
  /\ delivered = {}
  /\ read = {}

Edit ==
  /\ ~deleted
  /\ text' \in Texts
  /\ UNCHANGED <<deleted, reacted, delivered, read>>

React(u, e) ==
  /\ ~deleted
  /\ <<u, e>> \notin reacted
  /\ reacted' = reacted \cup {<<u, e>>}
  /\ UNCHANGED <<text, deleted, delivered, read>>

Unreact(u, e) ==
  /\ ~deleted
  /\ <<u, e>> \in reacted
  /\ reacted' = reacted \ {<<u, e>>}
  /\ UNCHANGED <<text, deleted, delivered, read>>

Deliver(u) ==
  /\ ~deleted
  /\ delivered' = delivered \cup {u}
  /\ UNCHANGED <<text, deleted, reacted, read>>

Read(u) ==
  /\ ~deleted
  /\ delivered' = delivered \cup {u}
  /\ read' = read \cup {u}
  /\ UNCHANGED <<text, deleted, reacted>>

Delete ==
  /\ ~deleted
  /\ deleted' = TRUE
  /\ text' = NoText
  /\ reacted' = {}
  /\ UNCHANGED <<delivered, read>>

Next ==
  \/ Edit
  \/ Delete
  \/ \E u \in Users, e \in Emoji : React(u, e) \/ Unreact(u, e)
  \/ \E u \in Readers : Deliver(u) \/ Read(u)

Spec == Init /\ [][Next]_vars
=============================================================================
