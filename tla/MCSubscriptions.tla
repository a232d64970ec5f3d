--------------------------- MODULE MCSubscriptions ---------------------------
(* One socket, on a public and a private channel and a DM. *)
EXTENDS Subscriptions, TLC

CONSTANTS u1, u2, s1, pub, priv, dm, k1, k2

OwnerOne    == s1 :> u1
KindPubPriv == pub :> "public" @@ priv :> "private"
KindAll     == KindPubPriv @@ dm :> "dm"
KindDm      == dm :> "dm"

\* A slot is a name for a call in flight and nothing else.
SlotSymmetry == Permutations(Slot)

(* At most one of the channels is there from the start; the others may be   *)
(* created.                                                                 *)
Start == Init /\ Cardinality({c \in Channel : status[c] = "live"}) < 2
StartSpec == Start /\ [][Next]_vars
=============================================================================
