------------------------------ MODULE MCNotify ------------------------------
(* Instances of Notify for TLC: the shapes of message that are told apart. *)
EXTENDS Notify
CONSTANTS ann, bob, r1, r2, m1

\* ann writes in a channel; writes to bob directly; mentions bob in a reply to him.
Plain == [author |-> ann, isDM |-> FALSE, mentioned |-> {}, recipients |-> {bob},
          isReply |-> FALSE, parentAuthor |-> NoUser]
ThreeShapes == {Plain,
                [Plain EXCEPT !.isDM = TRUE],
                [Plain EXCEPT !.mentioned = {bob}, !.isReply = TRUE, !.parentAuthor = bob]}
=============================================================================
