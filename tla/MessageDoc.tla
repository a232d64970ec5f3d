----------------------------- MODULE MessageDoc -----------------------------
(***************************************************************************)
(* ONE message: its MongoDB document, the handlers of the WebSocket server *)
(* that change it (edit, delete, reactions, receipts), the frames they     *)
(* broadcast and the copy every client keeps (the reducers of the web      *)
(* store).  Every await of a handler is a step boundary; a command on one  *)
(* document is atomic.  A socket's frames are handled one at a time, and   *)
(* all sockets receive the broadcasts of the channel in one order.         *)
(*                                                                         *)
(* The senders are members of a channel that is not archived (who passes   *)
(* requireChannel is the subject of MembershipCache), and every client has *)
(* just received the message.                                              *)
(***************************************************************************)
EXTENDS Naturals, Sequences, FiniteSets

CONSTANTS
  Users, Author,
  Admins,       \* workspace admins: they may delete what others wrote
  Sockets, UserOf,
  Emoji,
  FreeIndex,    \* MAX_DISTINCT_EMOJI: the array index a push needs free
  Texts, Original, NoText,
  MaxRequests,  \* how many frames the clients send
  MaxFaults     \* how many handlers die and broadcasts fail

ASSUME UserAssumption == Author \in Users /\ UserOf \in [Sockets -> Users]
ASSUME TextAssumption == Original \in Texts
ASSUME IndexAssumption == FreeIndex \in Nat

VARIABLES
  text, deleted, deliveredTo, readBy,
  reactions,   \* entries [emoji, userIds]; nothing depends on their order
  handler,     \* what each socket's handler does next, and for what
  inbox,       \* frames on their way to each socket
  view,        \* the message in each client's store
  up,          \* sockets whose server instance is alive
  requests, faults,
  overlapped,  \* history: users two of whose sockets were served at once
  unsaid       \* history: users whose handler wrote and did not broadcast

document == <<text, deleted, reactions, deliveredTo, readBy>>
clients == <<inbox, view>>
bounds == <<requests, faults, overlapped, unsaid>>
vars == <<document, handler, clients, up, bounds>>

Steps == {"idle", "edit", "find", "scrub", "add", "exists", "push", "pull", "drop",
          "delivered", "read", "say"}
Nothing == "nothing"
Args == Emoji \cup Texts \cup {Nothing}
FrameTypes == {"edited", "deleted", "add", "remove", "delivered", "read"}
Frames == [type : FrameTypes, user : Users, arg : Args]
Entries == [emoji : Emoji, userIds : SUBSET Users]

Idle == [at |-> "idle", arg |-> Nothing, type |-> Nothing]
User(s) == UserOf[s]

Reacted == {p \in Users \X Emoji :
              \E r \in reactions : r.emoji = p[2] /\ p[1] \in r.userIds}

Init ==
  /\ text = Original
  /\ deleted = FALSE
  /\ reactions = {}
  /\ deliveredTo = {} /\ readBy = {}
  /\ handler = [s \in Sockets |-> Idle]
  /\ inbox = [s \in Sockets |-> <<>>]
  /\ view = [s \in Sockets |-> [shown |-> TRUE, text |-> text, reacted |-> {},
                                delivered |-> {}, read |-> {}]]
  /\ up = Sockets
  /\ requests = 0 /\ faults = 0
  /\ overlapped = {} /\ unsaid = {}

-----------------------------------------------------------------------------
(* The client: a click sends a frame, guarded by what the store shows.      *)

Ask(s, step, arg) ==
  /\ s \in up /\ view[s].shown
  /\ handler[s] = Idle /\ requests < MaxRequests
  /\ handler' = [handler EXCEPT ![s] = [Idle EXCEPT !.at = step, !.arg = arg]]
  /\ requests' = requests + 1
  /\ overlapped' = IF \E t \in Sockets \ {s} : User(t) = User(s) /\ handler[t] # Idle
                   THEN overlapped \cup {User(s)} ELSE overlapped
  /\ UNCHANGED <<document, clients, up, faults, unsaid>>

SaveEdit(s) ==
  /\ User(s) = Author
  /\ \E t \in Texts \ {view[s].text} : Ask(s, "edit", t)

ConfirmDelete(s) ==
  /\ User(s) \in Admins \cup {Author}
  /\ Ask(s, "find", Nothing)

ToggleReaction(s) ==
  \E e \in Emoji :
    Ask(s, IF <<User(s), e>> \in view[s].reacted THEN "pull" ELSE "add", e)

Report(s) ==
  /\ User(s) # Author
  /\ \/ User(s) \notin view[s].delivered /\ Ask(s, "delivered", Nothing)
     \/ User(s) \notin view[s].read /\ Ask(s, "read", Nothing)

(* Mutant: a read frame leaves the delivered list alone.                    *)
ApplyReadOnly(v, f) ==
  IF ~v.shown THEN v ELSE
  CASE f.type = "deleted"   -> [v EXCEPT !.shown = FALSE]
    [] f.type = "edited"    -> [v EXCEPT !.text = f.arg]
    [] f.type = "add"       -> [v EXCEPT !.reacted = @ \cup {<<f.user, f.arg>>}]
    [] f.type = "remove"    -> [v EXCEPT !.reacted = @ \ {<<f.user, f.arg>>}]
    [] f.type = "delivered" -> [v EXCEPT !.delivered = @ \cup {f.user}]
    [] f.type = "read"      -> [v EXCEPT !.read = @ \cup {f.user}]

(* What a frame of the channel does to the store.                           *)
Apply(v, f) ==
  IF ~v.shown THEN v ELSE
  CASE f.type = "deleted"   -> [v EXCEPT !.shown = FALSE]
    [] f.type = "edited"    -> [v EXCEPT !.text = f.arg]
    [] f.type = "add"       -> [v EXCEPT !.reacted = @ \cup {<<f.user, f.arg>>}]
    [] f.type = "remove"    -> [v EXCEPT !.reacted = @ \ {<<f.user, f.arg>>}]
    [] f.type = "delivered" -> [v EXCEPT !.delivered = @ \cup {f.user}]
    [] f.type = "read"      -> [v EXCEPT !.delivered = @ \cup {f.user},
                                         !.read = @ \cup {f.user}]

Receive(s) ==
  /\ inbox[s] # <<>>
  /\ view' = [view EXCEPT ![s] = Apply(@, Head(inbox[s]))]
  /\ inbox' = [inbox EXCEPT ![s] = Tail(@)]
  /\ UNCHANGED <<document, handler, up, bounds>>

-----------------------------------------------------------------------------
(* The handlers.                                                            *)

Goto(s, step) == handler' = [handler EXCEPT ![s].at = step]
Done(s) == handler' = [handler EXCEPT ![s] = Idle]
Tell(s, type) == handler' = [handler EXCEPT ![s].at = "say", ![s].type = type]
Frame(s) == [type |-> handler[s].type, user |-> User(s), arg |-> handler[s].arg]

(* findOneAndUpdate, author only.                                           *)
EditWrite(s) ==
  /\ handler[s].at = "edit"
  /\ IF ~deleted
       THEN text' = handler[s].arg /\ Tell(s, "edited")
       ELSE Done(s) /\ UNCHANGED text
  /\ UNCHANGED <<deleted, reactions, deliveredTo, readBy, clients, up, bounds>>

DeleteFind(s) ==
  /\ handler[s].at = "find"
  /\ IF deleted THEN Done(s) ELSE Goto(s, "scrub")
  /\ UNCHANGED <<document, clients, up, bounds>>

DeleteScrub(s) ==
  /\ handler[s].at = "scrub"
  /\ deleted' = TRUE /\ text' = NoText /\ reactions' = {}
  /\ Tell(s, "deleted")
  /\ UNCHANGED <<deliveredTo, readBy, clients, up, bounds>>

EntriesOf(e) == {r \in reactions : r.emoji = e}

(* $addToSet on the first entry with the emoji.                             *)
AddToEntry(s) ==
  LET e == handler[s].arg
  IN /\ handler[s].at = "add"
     /\ IF deleted \/ EntriesOf(e) = {}
          THEN Goto(s, "exists") /\ UNCHANGED reactions
          ELSE \E r \in EntriesOf(e) :
                 IF User(s) \in r.userIds
                   THEN Goto(s, "exists") /\ UNCHANGED reactions
                   ELSE /\ reactions' = (reactions \ {r})
                                        \cup {[r EXCEPT !.userIds = @ \cup {User(s)}]}
                        /\ Tell(s, "add")
     /\ UNCHANGED <<text, deleted, deliveredTo, readBy, clients, up, bounds>>

AddExists(s) ==
  /\ handler[s].at = "exists"
  /\ IF ~deleted /\ EntriesOf(handler[s].arg) # {} THEN Done(s) ELSE Goto(s, "push")
  /\ UNCHANGED <<document, clients, up, bounds>>

(* Mutant: the push has neither the $ne nor the $exists guard.              *)
PushUnguarded(s) ==
  /\ handler[s].at = "push"
  /\ IF ~deleted
       THEN /\ reactions' = reactions \cup {[emoji |-> handler[s].arg, userIds |-> {User(s)}]}
            /\ Tell(s, "add")
       ELSE Done(s) /\ UNCHANGED reactions
  /\ UNCHANGED <<text, deleted, deliveredTo, readBy, clients, up, bounds>>

(* The index FreeIndex of the array must be free: FreeIndex + 1 entries fit. *)
PushEntry(s) ==
  LET e == handler[s].arg
  IN /\ handler[s].at = "push"
     /\ IF ~deleted /\ EntriesOf(e) = {} /\ Cardinality(reactions) <= FreeIndex
          THEN /\ reactions' = reactions \cup {[emoji |-> e, userIds |-> {User(s)}]}
               /\ Tell(s, "add")
          ELSE Done(s) /\ UNCHANGED reactions
     /\ UNCHANGED <<text, deleted, deliveredTo, readBy, clients, up, bounds>>

(* $pull from the first entry with the emoji, deleted message or not.       *)
PullFromEntry(s) ==
  LET e == handler[s].arg
  IN /\ handler[s].at = "pull"
     /\ IF EntriesOf(e) = {}
          THEN Done(s) /\ UNCHANGED reactions
          ELSE \E r \in EntriesOf(e) :
                 IF User(s) \notin r.userIds
                   THEN Done(s) /\ UNCHANGED reactions
                   ELSE /\ reactions' = (reactions \ {r})
                                        \cup {[r EXCEPT !.userIds = @ \ {User(s)}]}
                        /\ Goto(s, "drop")
     /\ UNCHANGED <<text, deleted, deliveredTo, readBy, clients, up, bounds>>

DropEmpty(s) ==
  /\ handler[s].at = "drop"
  /\ reactions' = {r \in reactions : r.userIds # {}}
  /\ Tell(s, "remove")
  /\ UNCHANGED <<text, deleted, deliveredTo, readBy, clients, up, bounds>>

(* Mutant: reading does not count as delivery.                              *)
MarkOne(s) ==
  /\ handler[s].at \in {"delivered", "read"}
  /\ IF ~deleted /\ User(s) # Author
       THEN /\ deliveredTo' = IF handler[s].at = "read" THEN deliveredTo
                                                        ELSE deliveredTo \cup {User(s)}
            /\ readBy' = IF handler[s].at = "read" THEN readBy \cup {User(s)} ELSE readBy
            /\ Tell(s, handler[s].at)
       ELSE Done(s) /\ UNCHANGED <<deliveredTo, readBy>>
  /\ UNCHANGED <<text, deleted, reactions, clients, up, bounds>>

Mark(s) ==
  LET read == handler[s].at = "read"
      newDelivered == deliveredTo \cup {User(s)}
      newRead == IF read THEN readBy \cup {User(s)} ELSE readBy
  IN /\ handler[s].at \in {"delivered", "read"}
     /\ IF /\ ~deleted /\ User(s) # Author
           /\ <<newDelivered, newRead>> # <<deliveredTo, readBy>>
          THEN /\ deliveredTo' = newDelivered /\ readBy' = newRead
               /\ Tell(s, handler[s].at)
          ELSE Done(s) /\ UNCHANGED <<deliveredTo, readBy>>
     /\ UNCHANGED <<text, deleted, reactions, clients, up, bounds>>

(* Mutant: the frame goes to everybody but its sender.                      *)
BroadcastOthers(s) ==
  /\ handler[s].at = "say"
  /\ inbox' = [t \in Sockets |-> IF t \in up /\ User(t) # User(s)
                                   THEN Append(inbox[t], Frame(s)) ELSE inbox[t]]
  /\ Done(s)
  /\ UNCHANGED <<document, view, up, bounds>>

Broadcast(s) ==
  /\ handler[s].at = "say"
  /\ inbox' = [t \in Sockets |-> IF t \in up THEN Append(inbox[t], Frame(s))
                                             ELSE inbox[t]]
  /\ Done(s)
  /\ UNCHANGED <<document, view, up, bounds>>

-----------------------------------------------------------------------------
(* Faults.                                                                  *)

Fault == faults < MaxFaults /\ faults' = faults + 1

(* PUBLISH fails: logged, and forgotten.                                    *)
BroadcastFails(s) ==
  /\ handler[s].at = "say" /\ Fault
  /\ unsaid' = unsaid \cup {User(s)}
  /\ Done(s)
  /\ UNCHANGED <<document, clients, up, requests, overlapped>>

(* The server instance dies with its handlers and its sockets.              *)
Crash(s) ==
  /\ s \in up /\ Fault
  /\ up' = up \ {s}
  /\ inbox' = [inbox EXCEPT ![s] = <<>>]
  /\ unsaid' = IF handler[s].at \in {"say", "drop"} THEN unsaid \cup {User(s)} ELSE unsaid
  /\ Done(s)
  /\ UNCHANGED <<document, view, requests, overlapped>>

Handle(s) ==
  \/ EditWrite(s) \/ DeleteFind(s) \/ DeleteScrub(s)
  \/ AddToEntry(s) \/ AddExists(s) \/ PushEntry(s) \/ PullFromEntry(s) \/ DropEmpty(s)
  \/ Mark(s) \/ Broadcast(s)

Next ==
  \E s \in Sockets :
    \/ SaveEdit(s) \/ ConfirmDelete(s) \/ ToggleReaction(s) \/ Report(s)
    \/ Handle(s) \/ Receive(s)
    \/ BroadcastFails(s) \/ Crash(s)

Spec == Init /\ [][Next]_vars

(* MongoDB and Redis answer, and sockets are flushed.                       *)
Fairness == \A s \in Sockets : WF_vars(Handle(s)) /\ WF_vars(Receive(s))
FairSpec == Spec /\ Fairness

-----------------------------------------------------------------------------
(* Properties.                                                              *)

(* Type invariant; a deleted message keeps no text (handlers/messages.ts:141).*)
TypeOK ==
  /\ deleted \in BOOLEAN
  /\ text \in (IF deleted THEN {NoText} ELSE Texts)
  /\ reactions \subseteq Entries
  /\ deliveredTo \subseteq Users /\ readBy \subseteq Users
  /\ handler \in [Sockets -> [at : Steps, arg : Args, type : FrameTypes \cup {Nothing}]]
  /\ inbox \in [Sockets -> Seq(Frames)]
  /\ view \in [Sockets -> [shown : BOOLEAN, text : Texts, reacted : SUBSET (Users \X Emoji),
                           delivered : SUBSET Users, read : SUBSET Users]]
  /\ up \subseteq Sockets
  /\ requests \in Nat /\ faults \in Nat
  /\ overlapped \subseteq Users /\ unsaid \subseteq Users
  /\ \A s \in Sockets : handler[s].at = "say" <=> handler[s].type # Nothing

(* The reactions array never holds two entries for one emoji, however many  *)
(* first reactions race, nor more than FreeIndex + 1 entries; an entry      *)
(* without users is there only between the two updates of a removal, or     *)
(* after a crash in between.                                                *)
ReactionsWellFormed ==
  /\ \A r, q \in reactions : r.emoji = q.emoji => r = q
  /\ Cardinality(reactions) <= FreeIndex + 1
  /\ \A r \in reactions :
       r.userIds = {} => \/ \E s \in Sockets : handler[s].at = "drop"
                         \/ unsaid # {}

(* Once every handler has returned and every frame has arrived, every       *)
(* client shows what MongoDB holds: the message is gone where it was        *)
(* deleted, the receipts agree whatever overlapped, and text and reactions  *)
(* agree unless two tabs of the same user were served at once; a user       *)
(* whose broadcast was lost is excepted.                                    *)
AtRest == \A s \in up : handler[s] = Idle /\ inbox[s] = <<>>
Agree(v, u) ==
  /\ u \notin unsaid => /\ u \in v.delivered <=> u \in deliveredTo
                        /\ u \in v.read <=> u \in readBy
  /\ u \notin unsaid \cup overlapped =>
       \A e \in Emoji : <<u, e>> \in v.reacted <=> <<u, e>> \in Reacted
ViewsConverge ==
  AtRest => \A s \in up :
    /\ ~view[s].shown => deleted
    /\ deleted /\ view[s].shown => unsaid \cap (Admins \cup {Author}) # {}
    /\ ~deleted => /\ \A u \in Users : Agree(view[s], u)
                   /\ Author \notin unsaid \cup overlapped => view[s].text = text

(* A deleted message leaves every connected screen for good, unless the     *)
(* broadcast of its deletion was lost.                                      *)
DeletedDisappears ==
  deleted ~> (unsaid # {} \/ \A s \in up : ~view[s].shown)

(* The document is a message as MessageContract promises it.                *)
Contract == INSTANCE MessageContract
              WITH reacted <- Reacted, delivered <- deliveredTo, read <- readBy
Implements == Contract!Spec

(* An ADD_REACTION that returns without a broadcast found a duplicate or a  *)
(* message that is gone, as handlers/reactions.ts:29 says; the limit of     *)
(* entries is the constant FreeIndex.                                       *)
QuietAddIsDuplicate ==
  [][\A s \in up \cap up' :
       handler[s].at \in {"exists", "push"} /\ handler'[s] = Idle =>
         \/ deleted
         \/ <<User(s), handler[s].arg>> \in Reacted
         \/ Cardinality(reactions) > FreeIndex]_vars
=============================================================================
