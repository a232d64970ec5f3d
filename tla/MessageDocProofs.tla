--------------------------- MODULE MessageDocProofs ---------------------------
(***************************************************************************)
(* The reactions of a message stay well formed, its document keeps the     *)
(* contract of MessageContract, and the copies the clients show converge   *)
(* to it, for any number of users, sockets, emoji, texts, requests and     *)
(* faults.                                                                 *)
(***************************************************************************)
EXTENDS MessageDoc, FiniteSetTheorems, SequenceTheorems, TLAPS

(* What a handler or a frame speaks of: edits carry a text, reactions an     *)
(* emoji.                                                                   *)
Fits(type, arg) ==
  /\ type \in {"edit", "edited"} => arg \in Texts
  /\ type \in {"add", "exists", "push", "pull", "drop", "remove"} => arg \in Emoji
FitFrames == {f \in Frames : Fits(f.type, f.arg)}
HandlersFit ==
  /\ handler \in [Sockets -> [at : Steps, arg : Args, type : FrameTypes \cup {Nothing}]]
  /\ \A s \in Sockets : /\ handler[s].at = "say" <=> handler[s].type # Nothing
                        /\ Fits(handler[s].at, handler[s].arg)
                        /\ Fits(handler[s].type, handler[s].arg)
FramesFit == inbox \in [Sockets -> Seq(FitFrames)]
Typed == TypeOK /\ HandlersFit /\ FramesFit

(* One entry per emoji.                                                     *)
OneEntry == \A r, q \in reactions : r.emoji = q.emoji => r = q

-----------------------------------------------------------------------------
(* Type correctness *)

LEMMA InitTyped == Init => Typed
<1> SUFFICES ASSUME Init PROVE Typed
  OBVIOUS
<1> USE UserAssumption, TextAssumption
<1>1. HandlersFit
  <2>1. handler \in [Sockets -> [at : Steps, arg : Args, type : FrameTypes \cup {Nothing}]]
    BY DEF Init, Idle, Steps, Args
  <2>2. \A s \in Sockets : handler[s].at = "idle" /\ handler[s].type = Nothing
    BY DEF Init, Idle
  <2> QED BY <2>1, <2>2 DEF HandlersFit, Fits, Nothing
<1>2. FramesFit /\ inbox \in [Sockets -> Seq(Frames)]
  BY DEF Init, FramesFit
<1>3. view \in [Sockets -> [shown : BOOLEAN, text : Texts, reacted : SUBSET (Users \X Emoji),
                           delivered : SUBSET Users, read : SUBSET Users]]
  BY DEF Init
<1>4. text \in (IF deleted THEN {NoText} ELSE Texts)
  BY DEF Init
<1> QED BY <1>1, <1>2, <1>3, <1>4 DEF Init, TypeOK, Typed, HandlersFit

(* A step of one handler, field by field.                                   *)
LEMMA HandlerStep ==
  ASSUME HandlersFit, NEW s \in Sockets, NEW h, handler' = [handler EXCEPT ![s] = h],
         h \in [at : Steps, arg : Args, type : FrameTypes \cup {Nothing}],
         h.at = "say" <=> h.type # Nothing, Fits(h.at, h.arg), Fits(h.type, h.arg)
  PROVE  HandlersFit'
BY DEF HandlersFit, Fits

LEMMA HandlersStay == HandlersFit /\ UNCHANGED handler => HandlersFit'
BY DEF HandlersFit

LEMMA DoneFits == ASSUME HandlersFit, NEW s \in Sockets, Done(s) PROVE HandlersFit'
<1>1. Idle \in [at : Steps, arg : Args, type : FrameTypes \cup {Nothing}]
  BY DEF Idle, Steps, Args
<1>2. Idle.at = "idle" /\ Idle.type = Nothing
  BY DEF Idle
<1> QED BY <1>1, <1>2, HandlerStep DEF Done, Fits, Nothing

LEMMA GotoFits ==
  ASSUME HandlersFit, NEW s \in Sockets, NEW step \in Steps \ {"say"},
         handler[s].at # "say", Fits(step, handler[s].arg), Goto(s, step)
  PROVE  HandlersFit'
BY DEF Goto, HandlersFit, Fits

LEMMA TellFits ==
  ASSUME HandlersFit, NEW s \in Sockets, NEW type \in FrameTypes,
         Fits(type, handler[s].arg), Tell(s, type)
  PROVE  HandlersFit'
<1>1. /\ handler' \in [Sockets -> [at : Steps, arg : Args, type : FrameTypes \cup {Nothing}]]
      /\ handler'[s].at = "say" /\ handler'[s].type = type /\ handler'[s].arg = handler[s].arg
      /\ \A t \in Sockets \ {s} : handler'[t] = handler[t]
  BY DEF Tell, HandlersFit, Steps
<1>2. type # Nothing
  BY DEF FrameTypes, Nothing
<1> QED BY <1>1, <1>2 DEF HandlersFit, Fits

LEMMA ClientTyped ==
  ASSUME Typed, NEW s \in Sockets,
         SaveEdit(s) \/ ConfirmDelete(s) \/ ToggleReaction(s) \/ Report(s)
  PROVE  Typed'
<1>1. PICK step \in Steps \ {"idle", "say"}, arg \in Args : Ask(s, step, arg) /\ Fits(step, arg)
  <2>1. CASE SaveEdit(s)
    BY <2>1 DEF SaveEdit, Steps, Args, Fits
  <2>2. CASE ConfirmDelete(s)
    BY <2>2 DEF ConfirmDelete, Steps, Args, Fits
  <2>3. CASE ToggleReaction(s)
    BY <2>3 DEF ToggleReaction, Steps, Args, Fits
  <2>4. CASE Report(s)
    BY <2>4 DEF Report, Steps, Args, Fits
  <2> QED BY <2>1, <2>2, <2>3, <2>4
<1>2. HandlersFit'
  <2> DEFINE h == [Idle EXCEPT !.at = step, !.arg = arg]
  <2>1. h.at = step /\ h.arg = arg /\ h.type = Nothing
    BY DEF Idle
  <2>2. h \in [at : Steps, arg : Args, type : FrameTypes \cup {Nothing}]
    BY DEF Idle
  <2>3. handler' = [handler EXCEPT ![s] = h]
    BY <1>1 DEF Ask
  <2> HIDE DEF h
  <2> QED BY <1>1, <2>1, <2>2, <2>3, HandlerStep DEF Fits, Nothing, Typed
<1>3. User(s) \in Users
  BY UserAssumption DEF User
<1>4. TypeOK'
  BY <1>1, <1>2, <1>3 DEF Typed, TypeOK, HandlersFit, Ask, document, clients
<1>5. FramesFit'
  BY <1>1 DEF Typed, FramesFit, Ask, clients
<1> QED BY <1>2, <1>4, <1>5 DEF Typed

(* An entry whose users change stays the entry of its emoji.                *)
LEMMA EntryChange ==
  ASSUME NEW r \in Entries, NEW U \in SUBSET Users
  PROVE  /\ [r EXCEPT !.userIds = U] \in Entries
         /\ [r EXCEPT !.userIds = U].emoji = r.emoji
         /\ [r EXCEPT !.userIds = U].userIds = U
BY DEF Entries

(* Where the handlers of the server go, and what they leave alone.          *)
LEMMA ServerTyped ==
  ASSUME Typed, NEW s \in Sockets, Handle(s)
  PROVE  Typed'
<1> USE DEF Typed
<1>1. User(s) \in Users
  BY UserAssumption DEF User
<1>2. /\ Fits(handler[s].at, handler[s].arg) /\ Fits(handler[s].type, handler[s].arg)
      /\ handler[s].at # "say" => handler[s].type = Nothing
  BY DEF HandlersFit
<1>3. CASE EditWrite(s)
  <2>1. handler[s].arg \in Texts
    BY <1>2, <1>3 DEF EditWrite, Fits
  <2>2. HandlersFit'
    BY <1>3, <2>1, DoneFits, TellFits DEF EditWrite, Fits, FrameTypes
  <2> QED BY <1>3, <2>1, <2>2 DEF EditWrite, TypeOK, HandlersFit, FramesFit, clients, bounds
<1>4. CASE DeleteFind(s)
  <2>1. HandlersFit'
    BY <1>4, DoneFits, GotoFits DEF DeleteFind, Fits, Steps
  <2> QED BY <1>4, <2>1 DEF DeleteFind, TypeOK, HandlersFit, FramesFit, document, clients, bounds
<1>5. CASE DeleteScrub(s)
  <2>1. HandlersFit'
    BY <1>5, TellFits DEF DeleteScrub, Fits, FrameTypes
  <2> QED BY <1>5, <2>1 DEF DeleteScrub, TypeOK, HandlersFit, FramesFit, clients, bounds
<1>6. CASE AddToEntry(s)
  <2>1. handler[s].arg \in Emoji
    BY <1>2, <1>6 DEF AddToEntry, Fits
  <2>2. HandlersFit' /\ reactions' \subseteq Entries
    <3>1. CASE Goto(s, "exists") /\ UNCHANGED reactions
      BY <1>6, <2>1, <3>1, GotoFits DEF AddToEntry, Fits, Steps, TypeOK
    <3>2. CASE \E r \in EntriesOf(handler[s].arg) :
                 /\ reactions' = (reactions \ {r}) \cup {[r EXCEPT !.userIds = @ \cup {User(s)}]}
                 /\ Tell(s, "add")
      <4>1. HandlersFit'
        BY <2>1, <3>2, TellFits DEF Fits, FrameTypes
      <4>2. PICK r \in reactions :
              reactions' = (reactions \ {r}) \cup {[r EXCEPT !.userIds = r.userIds \cup {User(s)}]}
        BY <3>2 DEF EntriesOf
      <4>3. r \in Entries /\ r.userIds \cup {User(s)} \in SUBSET Users
        BY <1>1 DEF TypeOK, Entries
      <4> QED BY <4>1, <4>2, <4>3, EntryChange DEF TypeOK
    <3> QED BY <1>6, <3>1, <3>2 DEF AddToEntry
  <2> QED BY <1>6, <2>2 DEF AddToEntry, TypeOK, HandlersFit, FramesFit, clients, bounds
<1>7. CASE AddExists(s)
  <2>1. HandlersFit'
    BY <1>2, <1>7, DoneFits, GotoFits DEF AddExists, Fits, Steps
  <2> QED BY <1>7, <2>1 DEF AddExists, TypeOK, HandlersFit, FramesFit, document, clients, bounds
<1>8. CASE PushEntry(s)
  <2>1. handler[s].arg \in Emoji
    BY <1>2, <1>8 DEF PushEntry, Fits
  <2>2. HandlersFit'
    BY <1>8, <2>1, DoneFits, TellFits DEF PushEntry, Fits, FrameTypes
  <2>3. reactions' \subseteq Entries
    BY <1>1, <1>8, <2>1 DEF PushEntry, TypeOK, Entries
  <2> QED BY <1>8, <2>2, <2>3 DEF PushEntry, TypeOK, HandlersFit, FramesFit, clients, bounds
<1>9. CASE PullFromEntry(s)
  <2>1. handler[s].arg \in Emoji
    BY <1>2, <1>9 DEF PullFromEntry, Fits
  <2>2. HandlersFit' /\ reactions' \subseteq Entries
    <3>1. CASE Done(s) /\ UNCHANGED reactions
      BY <3>1, DoneFits DEF TypeOK
    <3>2. CASE \E r \in EntriesOf(handler[s].arg) :
                 /\ reactions' = (reactions \ {r}) \cup {[r EXCEPT !.userIds = @ \ {User(s)}]}
                 /\ Goto(s, "drop")
      <4>1. HandlersFit'
        BY <1>9, <2>1, <3>2, GotoFits DEF PullFromEntry, Fits, Steps
      <4>2. PICK r \in reactions :
              reactions' = (reactions \ {r}) \cup {[r EXCEPT !.userIds = r.userIds \ {User(s)}]}
        BY <3>2 DEF EntriesOf
      <4>3. r \in Entries /\ r.userIds \ {User(s)} \in SUBSET Users
        BY DEF TypeOK, Entries
      <4> QED BY <4>1, <4>2, <4>3, EntryChange DEF TypeOK
    <3> QED BY <1>9, <3>1, <3>2 DEF PullFromEntry
  <2> QED BY <1>9, <2>2 DEF PullFromEntry, TypeOK, HandlersFit, FramesFit, clients, bounds
<1>10. CASE DropEmpty(s)
  <2>1. HandlersFit'
    BY <1>2, <1>10, TellFits DEF DropEmpty, Fits, FrameTypes
  <2> QED BY <1>10, <2>1 DEF DropEmpty, TypeOK, HandlersFit, FramesFit, clients, bounds
<1>11. CASE Mark(s)
  <2>1. HandlersFit'
    BY <1>11, DoneFits, TellFits DEF Mark, Fits, FrameTypes
  <2> QED BY <1>1, <1>11, <2>1 DEF Mark, TypeOK, HandlersFit, FramesFit, clients, bounds
<1>12. CASE Broadcast(s)
  <2>1. HandlersFit'
    BY <1>12, DoneFits DEF Broadcast
  <2>2. Frame(s) \in FitFrames
    BY <1>1, <1>2, <1>12 DEF Broadcast, Frame, FitFrames, Frames, HandlersFit
  <2>3. FramesFit' /\ inbox' \in [Sockets -> Seq(Frames)]
    BY <1>12, <2>2 DEF Broadcast, FramesFit, FitFrames, TypeOK
  <2> QED BY <1>12, <2>1, <2>3 DEF Broadcast, TypeOK, HandlersFit, document, bounds
<1> QED BY <1>3, <1>4, <1>5, <1>6, <1>7, <1>8, <1>9, <1>10, <1>11, <1>12 DEF Handle

Views == [shown : BOOLEAN, text : Texts, reacted : SUBSET (Users \X Emoji),
          delivered : SUBSET Users, read : SUBSET Users]

LEMMA ApplyTyped == \A v \in Views, f \in FitFrames : Apply(v, f) \in Views
<1> SUFFICES ASSUME NEW v \in Views, NEW f \in FitFrames PROVE Apply(v, f) \in Views
  OBVIOUS
<1>1. /\ f.user \in Users /\ f.type \in FrameTypes
      /\ f.type = "edited" => f.arg \in Texts
      /\ f.type \in {"add", "remove"} => f.arg \in Emoji
  BY DEF FitFrames, Frames, Fits
<1>2. CASE ~v.shown
  BY <1>2 DEF Apply
<1>3. CASE v.shown /\ f.type = "deleted"
  BY <1>3 DEF Apply, Views
<1>4. CASE v.shown /\ f.type = "edited"
  BY <1>1, <1>4 DEF Apply, Views
<1>5. CASE v.shown /\ f.type = "add"
  BY <1>1, <1>5 DEF Apply, Views
<1>6. CASE v.shown /\ f.type = "remove"
  BY <1>1, <1>6 DEF Apply, Views
<1>7. CASE v.shown /\ f.type = "delivered"
  BY <1>1, <1>7 DEF Apply, Views
<1>8. CASE v.shown /\ f.type = "read"
  BY <1>1, <1>8 DEF Apply, Views
<1> QED BY <1>1, <1>2, <1>3, <1>4, <1>5, <1>6, <1>7, <1>8 DEF FrameTypes

LEMMA FaultTyped ==
  ASSUME Typed, NEW s \in Sockets, Receive(s) \/ BroadcastFails(s) \/ Crash(s)
  PROVE  Typed'
<1> USE DEF Typed
<1>1. User(s) \in Users
  BY UserAssumption DEF User
<1>2. CASE Receive(s)
  <2>1. HandlersFit'
    BY <1>2, HandlersStay DEF Receive
  <2>2. Head(inbox[s]) \in FitFrames /\ Tail(inbox[s]) \in Seq(FitFrames)
    BY <1>2 DEF Receive, FramesFit
  <2>3. FramesFit' /\ inbox' \in [Sockets -> Seq(Frames)]
    BY <1>2, <2>2 DEF Receive, FramesFit, FitFrames, TypeOK
  <2>4. view' \in [Sockets -> Views]
    BY <1>2, <2>2, ApplyTyped DEF Receive, TypeOK, Views
  <2> QED BY <1>2, <2>1, <2>3, <2>4 DEF Receive, TypeOK, HandlersFit, Views, document, bounds
<1>3. CASE BroadcastFails(s)
  <2>1. HandlersFit'
    BY <1>3, DoneFits DEF BroadcastFails
  <2> QED BY <1>1, <1>3, <2>1 DEF BroadcastFails, Fault, TypeOK, HandlersFit, FramesFit, document, clients
<1>4. CASE Crash(s)
  <2>1. HandlersFit'
    BY <1>4, DoneFits DEF Crash
  <2>2. FramesFit' /\ inbox' \in [Sockets -> Seq(Frames)]
    BY <1>4 DEF Crash, FramesFit, TypeOK
  <2> QED BY <1>1, <1>4, <2>1, <2>2 DEF Crash, Fault, TypeOK, HandlersFit, document
<1> QED BY <1>2, <1>3, <1>4

LEMMA StutterTyped == Typed /\ UNCHANGED vars => Typed'
BY DEF Typed, TypeOK, HandlersFit, FramesFit, vars, document, clients, bounds

LEMMA NextTyped == Typed /\ [Next]_vars => Typed'
BY ClientTyped, ServerTyped, FaultTyped, StutterTyped DEF Next

(* The state is always of its type; a deleted message keeps no text.         *)
THEOREM TypeCorrect == Spec => []TypeOK
<1>1. Spec => []Typed
  BY InitTyped, NextTyped, PTL DEF Spec
<1> QED BY <1>1, PTL DEF Typed
-----------------------------------------------------------------------------
(* The reactions *)

(* Whoever removes the last user of an entry still owes the second update,  *)
(* or died owing it.                                                        *)
EmptyExcused ==
  \A r \in reactions : r.userIds = {} => \/ \E s \in Sockets : handler[s].at = "drop"
                                         \/ unsaid # {}
FewEntries == IsFiniteSet(reactions) /\ Cardinality(reactions) <= FreeIndex + 1
ReactInv == Typed /\ OneEntry /\ FewEntries /\ EmptyExcused

LEMMA Replace ==
  ASSUME NEW S, IsFiniteSet(S), NEW r \in S, NEW q
  PROVE  /\ IsFiniteSet((S \ {r}) \cup {q})
         /\ Cardinality((S \ {r}) \cup {q}) <= Cardinality(S)
<1>1. IsFiniteSet(S \ {r}) /\ Cardinality(S \ {r}) = Cardinality(S) - 1
  BY FS_RemoveElement
<1>2. Cardinality(S) \in Nat /\ Cardinality(S \ {r}) \in Nat
  BY <1>1, FS_CardinalityType
<1>3. /\ IsFiniteSet((S \ {r}) \cup {q})
      /\ \/ Cardinality((S \ {r}) \cup {q}) = Cardinality(S \ {r})
         \/ Cardinality((S \ {r}) \cup {q}) = Cardinality(S \ {r}) + 1
  BY <1>1, FS_AddElement
<1> QED BY <1>1, <1>2, <1>3

(* The updates of an entry and of the array keep one entry per emoji and    *)
(* the limit.                                                               *)
LEMMA EntryReplaced ==
  ASSUME ReactInv, NEW r \in reactions, NEW U \in SUBSET Users,
         reactions' = (reactions \ {r}) \cup {[r EXCEPT !.userIds = U]}
  PROVE  OneEntry' /\ FewEntries'
<1> DEFINE q == [r EXCEPT !.userIds = U]
<1>1. q.emoji = r.emoji
  BY EntryChange DEF ReactInv, Typed, TypeOK
<1>2. FewEntries'
  <2>1. IsFiniteSet(reactions') /\ Cardinality(reactions') <= Cardinality(reactions)
    BY Replace DEF ReactInv, FewEntries
  <2>2. Cardinality(reactions) \in Nat /\ Cardinality(reactions') \in Nat
    BY <2>1, FS_CardinalityType DEF ReactInv, FewEntries
  <2> QED BY <2>1, <2>2, IndexAssumption DEF ReactInv, FewEntries
<1> HIDE DEF q
<1>3. OneEntry'
  <2>1. reactions' = (reactions \ {r}) \cup {q}
    BY DEF q
  <2> QED BY <1>1, <2>1 DEF ReactInv, OneEntry
<1> QED BY <1>2, <1>3

LEMMA EntriesDropped ==
  ASSUME ReactInv, reactions' \subseteq reactions
  PROVE  OneEntry' /\ FewEntries'
<1>1. IsFiniteSet(reactions') /\ Cardinality(reactions') <= Cardinality(reactions)
  BY FS_Subset DEF ReactInv, FewEntries
<1>2. Cardinality(reactions) \in Nat /\ Cardinality(reactions') \in Nat
  BY <1>1, FS_CardinalityType DEF ReactInv, FewEntries
<1> QED BY <1>1, <1>2, IndexAssumption DEF ReactInv, FewEntries, OneEntry

(* Only DropEmpty and a crash end a handler that still owes the second      *)
(* update of a removal.                                                     *)
LEMMA DropsStay ==
  ASSUME Typed, NEW s \in Sockets, ~DropEmpty(s),
         \/ SaveEdit(s) \/ ConfirmDelete(s) \/ ToggleReaction(s) \/ Report(s)
         \/ Handle(s) \/ Receive(s) \/ BroadcastFails(s) \/ Crash(s)
  PROVE  /\ unsaid \subseteq unsaid'
         /\ \A t \in Sockets : handler[t].at = "drop" =>
              handler'[t].at = "drop" \/ unsaid' # {}
<1>1. handler \in [Sockets -> [at : Steps, arg : Args, type : FrameTypes \cup {Nothing}]]
  BY DEF Typed, HandlersFit
<1>2. CASE SaveEdit(s) \/ ConfirmDelete(s) \/ ToggleReaction(s) \/ Report(s)
  <2>1. PICK step, arg : Ask(s, step, arg)
    BY <1>2 DEF SaveEdit, ConfirmDelete, ToggleReaction, Report
  <2>2. handler[s].at = "idle"
    BY <2>1 DEF Ask, Idle
  <2> QED BY <1>1, <2>1, <2>2 DEF Ask
<1>3. CASE EditWrite(s) \/ DeleteFind(s) \/ DeleteScrub(s) \/ AddExists(s) \/ Mark(s) \/ Broadcast(s)
  BY <1>1, <1>3 DEF EditWrite, DeleteFind, DeleteScrub, AddExists, Mark, Broadcast,
                    Goto, Done, Tell, bounds
<1>4. CASE AddToEntry(s) \/ PushEntry(s) \/ PullFromEntry(s)
  BY <1>1, <1>4 DEF AddToEntry, PushEntry, PullFromEntry, Goto, Done, Tell, bounds
<1>5. CASE Receive(s)
  BY <1>5 DEF Receive, bounds
<1>6. CASE BroadcastFails(s)
  BY <1>1, <1>6 DEF BroadcastFails, Done
<1>7. CASE Crash(s)
  BY <1>1, <1>7 DEF Crash, Done
<1> QED BY <1>2, <1>3, <1>4, <1>5, <1>6, <1>7 DEF Handle

(* The reactions change in the second half of a removal, in a deletion, or  *)
(* in one of three updates.                                                 *)
LEMMA ReactionsStep ==
  ASSUME ReactInv, NEW s \in Sockets, ~DropEmpty(s),
         \/ SaveEdit(s) \/ ConfirmDelete(s) \/ ToggleReaction(s) \/ Report(s)
         \/ Handle(s) \/ Receive(s) \/ BroadcastFails(s) \/ Crash(s)
  PROVE  OneEntry' /\ FewEntries' /\ EmptyExcused'
<1> USE DEF ReactInv
<1>1. User(s) \in Users /\ reactions \subseteq Entries
  BY UserAssumption DEF User, Typed, TypeOK
<1>2. (\A r \in reactions' : r \in reactions \/ r.userIds # {}) => EmptyExcused'
  BY DropsStay DEF EmptyExcused
<1>3. ASSUME reactions' \subseteq reactions PROVE OneEntry' /\ FewEntries' /\ EmptyExcused'
  BY <1>2, <1>3, EntriesDropped
<1>4. CASE SaveEdit(s) \/ ConfirmDelete(s) \/ ToggleReaction(s) \/ Report(s)
  BY <1>3, <1>4 DEF SaveEdit, ConfirmDelete, ToggleReaction, Report, Ask, document
<1>5. CASE EditWrite(s) \/ DeleteFind(s) \/ DeleteScrub(s) \/ AddExists(s) \/ Mark(s) \/ Broadcast(s)
  BY <1>3, <1>5 DEF EditWrite, DeleteFind, DeleteScrub, AddExists, Mark, Broadcast, document
<1>6. CASE Receive(s) \/ BroadcastFails(s) \/ Crash(s)
  BY <1>3, <1>6 DEF Receive, BroadcastFails, Crash, document
<1>7. CASE AddToEntry(s)
  <2>1. CASE UNCHANGED reactions
    BY <1>3, <2>1
  <2>2. CASE \E r \in EntriesOf(handler[s].arg) :
               reactions' = (reactions \ {r}) \cup {[r EXCEPT !.userIds = @ \cup {User(s)}]}
    <3>1. PICK r \in reactions :
            reactions' = (reactions \ {r}) \cup {[r EXCEPT !.userIds = r.userIds \cup {User(s)}]}
      BY <2>2 DEF EntriesOf
    <3>2. r.userIds \cup {User(s)} \in SUBSET Users
      BY <1>1 DEF Entries
    <3>3. [r EXCEPT !.userIds = r.userIds \cup {User(s)}].userIds # {}
      BY <1>1, <3>2, EntryChange
    <3> QED BY <1>2, <3>1, <3>2, <3>3, EntryReplaced
  <2> QED BY <1>7, <2>1, <2>2 DEF AddToEntry
<1>8. CASE PushEntry(s)
  <2>1. CASE UNCHANGED reactions
    BY <1>3, <2>1
  <2>2. CASE /\ EntriesOf(handler[s].arg) = {} /\ Cardinality(reactions) <= FreeIndex
             /\ reactions' = reactions
                             \cup {[emoji |-> handler[s].arg, userIds |-> {User(s)}]}
    <3>1. FewEntries'
      <4>1. /\ IsFiniteSet(reactions')
            /\ \/ Cardinality(reactions') = Cardinality(reactions)
               \/ Cardinality(reactions') = Cardinality(reactions) + 1
        BY <2>2, FS_AddElement DEF FewEntries
      <4>2. Cardinality(reactions) \in Nat
        BY FS_CardinalityType DEF FewEntries
      <4> QED BY <2>2, <4>1, <4>2, IndexAssumption DEF FewEntries
    <3>2. OneEntry'
      <4> DEFINE q == [emoji |-> handler[s].arg, userIds |-> {User(s)}]
      <4>1. q.emoji = handler[s].arg /\ reactions' = reactions \cup {q}
        BY <2>2
      <4>2. \A r \in reactions : r.emoji # handler[s].arg
        BY <2>2 DEF EntriesOf
      <4> HIDE DEF q
      <4> QED BY <4>1, <4>2 DEF OneEntry
    <3> QED BY <1>2, <2>2, <3>1, <3>2
  <2> QED BY <1>8, <2>1, <2>2 DEF PushEntry
<1>9. CASE PullFromEntry(s)
  <2>1. CASE UNCHANGED reactions
    BY <1>3, <2>1
  <2>2. CASE /\ \E r \in EntriesOf(handler[s].arg) :
                  reactions' = (reactions \ {r}) \cup {[r EXCEPT !.userIds = @ \ {User(s)}]}
             /\ Goto(s, "drop")
    <3>1. PICK r \in reactions :
            reactions' = (reactions \ {r}) \cup {[r EXCEPT !.userIds = r.userIds \ {User(s)}]}
      BY <2>2 DEF EntriesOf
    <3>2. r.userIds \ {User(s)} \in SUBSET Users
      BY <1>1 DEF Entries
    <3>3. handler'[s].at = "drop"
      BY <2>2 DEF Goto, Typed, HandlersFit
    <3> QED BY <3>1, <3>2, <3>3, EntryReplaced DEF EmptyExcused
  <2> QED BY <1>9, <2>1, <2>2 DEF PullFromEntry
<1> QED BY <1>4, <1>5, <1>6, <1>7, <1>8, <1>9 DEF Handle

LEMMA ReactInitially == Init => ReactInv
<1> SUFFICES ASSUME Init PROVE ReactInv
  OBVIOUS
<1>1. reactions = {}
  BY DEF Init
<1>2. FewEntries
  BY <1>1, FS_EmptySet, IndexAssumption DEF FewEntries
<1> QED BY <1>1, <1>2, InitTyped DEF ReactInv, OneEntry, EmptyExcused

LEMMA ReactPreserved == ReactInv /\ [Next]_vars => ReactInv'
<1> SUFFICES ASSUME ReactInv, [Next]_vars PROVE ReactInv'
  OBVIOUS
<1>1. Typed'
  BY NextTyped DEF ReactInv
<1>2. CASE UNCHANGED vars
  BY <1>1, <1>2 DEF ReactInv, OneEntry, FewEntries, EmptyExcused, vars, document, bounds
<1>3. CASE \E s \in Sockets : DropEmpty(s)
  <2>1. reactions' \subseteq reactions /\ \A r \in reactions' : r.userIds # {}
    BY <1>3 DEF DropEmpty
  <2> QED BY <1>1, <2>1, EntriesDropped DEF ReactInv, EmptyExcused
<1>4. CASE Next /\ ~\E s \in Sockets : DropEmpty(s)
  BY <1>1, <1>4, ReactionsStep DEF ReactInv, Next
<1> QED BY <1>2, <1>3, <1>4

(* An emoji has one entry at most, however many first reactions race; the   *)
(* limit holds although it is checked where nothing is locked; and an entry *)
(* nobody uses is on its way out, or was orphaned by a crash.               *)
THEOREM ReactionsStayWellFormed == Spec => []ReactionsWellFormed
<1>1. ReactInv => ReactionsWellFormed
  BY DEF ReactInv, OneEntry, FewEntries, EmptyExcused, ReactionsWellFormed
<1> QED BY <1>1, ReactInitially, ReactPreserved, PTL DEF Spec

-----------------------------------------------------------------------------
(* The contract *)

(* Nothing is left of the reactions to a deleted message, not even by a     *)
(* handler that was on its way.                                             *)
Scrubbed == deleted => reactions = {}
DocInv == ReactInv /\ Scrubbed

(* What one entry's change means for the set of reactions.                  *)
LEMMA ReactedEntry ==
  ASSUME ReactInv, NEW r \in reactions, NEW U \in SUBSET Users,
         reactions' = (reactions \ {r}) \cup {[r EXCEPT !.userIds = U]}
  PROVE  \A u \in Users, e \in Emoji :
           <<u, e>> \in Reacted' <=> IF e = r.emoji THEN u \in U ELSE <<u, e>> \in Reacted
<1> DEFINE q == [r EXCEPT !.userIds = U]
<1>1. q.emoji = r.emoji /\ q.userIds = U
  BY EntryChange DEF ReactInv, Typed, TypeOK
<1>2. reactions' = (reactions \ {r}) \cup {q}
  OBVIOUS
<1>3. \A p \in reactions : p.emoji = r.emoji => p = r
  BY DEF ReactInv, OneEntry
<1> HIDE DEF q
<1> QED BY <1>1, <1>2, <1>3 DEF Reacted

LEMMA ReactedIs ==
  ASSUME ReactInv, NEW r \in reactions
  PROVE  \A u \in Users : <<u, r.emoji>> \in Reacted <=> u \in r.userIds
BY DEF ReactInv, Typed, TypeOK, Entries, OneEntry, Reacted

LEMMA ReactedPairs == Reacted \subseteq Users \X Emoji /\ Reacted' \subseteq Users \X Emoji
BY DEF Reacted

(* What the three updates of the reactions write, and where the handler goes *)
(* then.                                                                    *)
Pair(s) == <<User(s), handler[s].arg>>
Reacts(s) == /\ ~deleted /\ Pair(s) \notin Reacted
             /\ Reacted' = Reacted \cup {Pair(s)}
             /\ Tell(s, "add")
Unreacts(s) == /\ ~deleted /\ Pair(s) \in Reacted
               /\ Reacted' = Reacted \ {Pair(s)}
               /\ Goto(s, "drop")

LEMMA PairTyped ==
  ASSUME DocInv, NEW s \in Sockets,
         handler[s].at \in {"add", "exists", "push", "pull", "drop"}
  PROVE  User(s) \in Users /\ handler[s].arg \in Emoji /\ reactions \subseteq Entries
BY UserAssumption DEF User, DocInv, ReactInv, Typed, TypeOK, HandlersFit, Fits

LEMMA AddWrites ==
  ASSUME DocInv, NEW s \in Sockets, AddToEntry(s)
  PROVE  (UNCHANGED reactions /\ Goto(s, "exists")) \/ Reacts(s)
<1> DEFINE e == handler[s].arg
<1>1. User(s) \in Users /\ e \in Emoji /\ reactions \subseteq Entries
  BY PairTyped DEF AddToEntry
<1>2. CASE ~deleted /\ \E r \in EntriesOf(e) :
             /\ User(s) \notin r.userIds
             /\ reactions' = (reactions \ {r}) \cup {[r EXCEPT !.userIds = @ \cup {User(s)}]}
             /\ Tell(s, "add")
  <2>1. PICK r \in reactions :
          /\ r.emoji = e /\ User(s) \notin r.userIds
          /\ reactions' = (reactions \ {r}) \cup {[r EXCEPT !.userIds = r.userIds \cup {User(s)}]}
    BY <1>2 DEF EntriesOf
  <2>2. r.userIds \cup {User(s)} \in SUBSET Users
    BY <1>1 DEF Entries
  <2>3. \A u \in Users, f \in Emoji :
          <<u, f>> \in Reacted' <=> IF f = e THEN u \in r.userIds \cup {User(s)}
                                           ELSE <<u, f>> \in Reacted
    BY <2>1, <2>2, ReactedEntry DEF DocInv
  <2>4. \A u \in Users : <<u, e>> \in Reacted <=> u \in r.userIds
    BY <2>1, ReactedIs DEF DocInv
  <2>5. Tell(s, "add") /\ Pair(s) = <<User(s), e>>
    BY <1>2 DEF Pair
  <2> HIDE DEF e
  <2>6. Reacted' = Reacted \cup {<<User(s), e>>}
    BY <1>1, <2>3, <2>4, ReactedPairs
  <2>7. <<User(s), e>> \notin Reacted
    BY <1>1, <2>1, <2>4
  <2> QED BY <1>2, <2>5, <2>6, <2>7 DEF Reacts
<1> QED BY <1>2 DEF AddToEntry

LEMMA PushWrites ==
  ASSUME DocInv, NEW s \in Sockets, PushEntry(s)
  PROVE  (UNCHANGED reactions /\ Done(s)) \/ Reacts(s)
<1> DEFINE e == handler[s].arg
           q == [emoji |-> e, userIds |-> {User(s)}]
<1>1. User(s) \in Users /\ e \in Emoji
  BY PairTyped DEF PushEntry
<1>2. CASE ~deleted /\ EntriesOf(e) = {} /\ reactions' = reactions \cup {q} /\ Tell(s, "add")
  <2>1. \A r \in reactions : r.emoji # e
    BY <1>2 DEF EntriesOf
  <2>2. q.emoji = e /\ q.userIds = {User(s)} /\ Tell(s, "add") /\ Pair(s) = <<User(s), e>>
    BY <1>2 DEF Pair
  <2> HIDE DEF e, q
  <2>3. Reacted' = Reacted \cup {<<User(s), e>>}
    <3>1. <<User(s), e>> \in Reacted'
      BY <1>1, <1>2, <2>2 DEF Reacted
    <3>2. \A u \in Users, f \in Emoji :
            <<u, f>> \in Reacted' => <<u, f>> \in Reacted \/ (u = User(s) /\ f = e)
      BY <1>2, <2>2 DEF Reacted
    <3>3. Reacted \subseteq Reacted'
      BY <1>2 DEF Reacted
    <3> QED BY <3>1, <3>2, <3>3, ReactedPairs
  <2>4. <<User(s), e>> \notin Reacted
    BY <2>1 DEF Reacted
  <2> QED BY <1>2, <2>2, <2>3, <2>4 DEF Reacts
<1> QED BY <1>2 DEF PushEntry

LEMMA PullWrites ==
  ASSUME DocInv, NEW s \in Sockets, PullFromEntry(s)
  PROVE  (UNCHANGED reactions /\ Done(s)) \/ Unreacts(s)
<1> DEFINE e == handler[s].arg
<1>1. User(s) \in Users /\ e \in Emoji /\ reactions \subseteq Entries
  BY PairTyped DEF PullFromEntry
<1>2. CASE \E r \in EntriesOf(e) :
             /\ User(s) \in r.userIds
             /\ reactions' = (reactions \ {r}) \cup {[r EXCEPT !.userIds = @ \ {User(s)}]}
             /\ Goto(s, "drop")
  <2>1. PICK r \in reactions :
          /\ r.emoji = e /\ User(s) \in r.userIds
          /\ reactions' = (reactions \ {r}) \cup {[r EXCEPT !.userIds = r.userIds \ {User(s)}]}
    BY <1>2 DEF EntriesOf
  <2>2. r.userIds \ {User(s)} \in SUBSET Users
    BY <1>1 DEF Entries
  <2>3. \A u \in Users, f \in Emoji :
          <<u, f>> \in Reacted' <=> IF f = e THEN u \in r.userIds \ {User(s)}
                                           ELSE <<u, f>> \in Reacted
    BY <2>1, <2>2, ReactedEntry DEF DocInv
  <2>4. \A u \in Users : <<u, e>> \in Reacted <=> u \in r.userIds
    BY <2>1, ReactedIs DEF DocInv
  <2>5. ~deleted
    BY <2>1 DEF DocInv, Scrubbed
  <2>6. Goto(s, "drop") /\ Pair(s) = <<User(s), e>>
    BY <1>2 DEF Pair
  <2> HIDE DEF e
  <2>7. Reacted' = Reacted \ {<<User(s), e>>}
    BY <1>1, <2>3, <2>4, ReactedPairs
  <2>8. <<User(s), e>> \in Reacted
    BY <1>1, <2>1, <2>4
  <2> QED BY <2>5, <2>6, <2>7, <2>8 DEF Unreacts
<1> QED BY <1>2 DEF PullFromEntry

(* An update of the reactions is a React or an Unreact of the contract, a   *)
(* return without a write is a stutter.                                     *)
LEMMA UpdatesReact ==
  ASSUME DocInv, NEW s \in Sockets, AddToEntry(s) \/ PushEntry(s) \/ PullFromEntry(s)
  PROVE  [Contract!Next]_Contract!vars /\ Scrubbed'
<1>1. UNCHANGED <<text, deleted, deliveredTo, readBy>>
  BY DEF AddToEntry, PushEntry, PullFromEntry
<1>2. User(s) \in Users /\ handler[s].arg \in Emoji
  BY PairTyped DEF AddToEntry, PushEntry, PullFromEntry
<1>3. UNCHANGED reactions \/ Reacts(s) \/ Unreacts(s)
  BY AddWrites, PushWrites, PullWrites
<1>4. CASE UNCHANGED reactions
  BY <1>1, <1>4 DEF Contract!vars, Reacted, DocInv, Scrubbed
<1>5. CASE Reacts(s)
  BY <1>1, <1>2, <1>5 DEF Reacts, Pair, Contract!React, Contract!Next, Scrubbed
<1>6. CASE Unreacts(s)
  BY <1>1, <1>2, <1>6 DEF Unreacts, Pair, Contract!Unreact, Contract!Next, Scrubbed
<1> QED BY <1>3, <1>4, <1>5, <1>6

LEMMA DropStutters ==
  ASSUME DocInv, NEW s \in Sockets, DropEmpty(s)
  PROVE  [Contract!Next]_Contract!vars /\ Scrubbed'
<1>1. Reacted' = Reacted
  BY DEF DropEmpty, Reacted
<1> QED BY <1>1 DEF DropEmpty, Contract!vars, DocInv, Scrubbed

LEMMA MarkReads ==
  ASSUME DocInv, NEW s \in Sockets, Mark(s)
  PROVE  [Contract!Next]_Contract!vars /\ Scrubbed'
<1>1. Reacted' = Reacted /\ Scrubbed' /\ UNCHANGED <<text, deleted>>
  BY DEF Mark, Reacted, DocInv, Scrubbed
<1>2. CASE UNCHANGED <<deliveredTo, readBy>>
  BY <1>1, <1>2 DEF Contract!vars
<1>3. CASE ~deleted /\ User(s) # Author /\ deliveredTo' = deliveredTo \cup {User(s)}
             /\ \/ readBy' = readBy
                \/ readBy' = readBy \cup {User(s)}
  <2>1. User(s) \in Contract!Readers
    BY <1>3, UserAssumption DEF User, Contract!Readers
  <2>2. Contract!Deliver(User(s)) \/ Contract!Read(User(s))
    BY <1>1, <1>3 DEF Contract!Deliver, Contract!Read
  <2> QED BY <1>1, <2>1, <2>2 DEF Contract!Next
<1> QED BY <1>2, <1>3 DEF Mark

LEMMA EditEdits ==
  ASSUME DocInv, NEW s \in Sockets, EditWrite(s)
  PROVE  [Contract!Next]_Contract!vars /\ Scrubbed'
<1>1. Reacted' = Reacted /\ Scrubbed' /\ UNCHANGED <<deleted, deliveredTo, readBy>>
  BY DEF EditWrite, Reacted, DocInv, Scrubbed
<1>2. handler[s].arg \in Texts
  BY DEF EditWrite, DocInv, ReactInv, Typed, HandlersFit, Fits
<1> QED BY <1>1, <1>2 DEF EditWrite, Contract!Next, Contract!Edit, Contract!vars

(* The second of two racing deletions finds nothing left to change.         *)
LEMMA ScrubDeletes ==
  ASSUME DocInv, NEW s \in Sockets, DeleteScrub(s)
  PROVE  [Contract!Next]_Contract!vars /\ Scrubbed'
<1>1. /\ Reacted' = {} /\ Scrubbed' /\ deleted' = TRUE /\ text' = NoText
      /\ UNCHANGED <<deliveredTo, readBy>>
  BY DEF DeleteScrub, Reacted, Scrubbed
<1>2. CASE ~deleted
  BY <1>1, <1>2 DEF Contract!Next, Contract!Delete
<1>3. CASE deleted
  <2>1. Reacted = {} /\ text = NoText /\ deleted = TRUE
    BY <1>3 DEF DocInv, Scrubbed, Reacted, ReactInv, Typed, TypeOK
  <2> QED BY <1>1, <2>1 DEF Contract!vars
<1> QED BY <1>2, <1>3

LEMMA DocInitially == Init => DocInv
<1> SUFFICES ASSUME Init PROVE DocInv
  OBVIOUS
<1>1. reactions = {}
  BY DEF Init
<1> QED BY <1>1, ReactInitially DEF DocInv, Scrubbed

LEMMA DocStep == DocInv /\ [Next]_vars => DocInv' /\ [Contract!Next]_Contract!vars
<1> SUFFICES ASSUME DocInv, [Next]_vars PROVE DocInv' /\ [Contract!Next]_Contract!vars
  OBVIOUS
<1>1. ReactInv'
  BY ReactPreserved DEF DocInv
<1>2. CASE UNCHANGED document
  BY <1>1, <1>2 DEF document, DocInv, Scrubbed, Contract!vars, Reacted
<1>3. CASE UNCHANGED vars
  BY <1>2, <1>3 DEF vars
<1>4. ASSUME NEW s \in Sockets, SaveEdit(s) \/ ConfirmDelete(s) \/ ToggleReaction(s) \/ Report(s)
      PROVE  UNCHANGED document
  BY <1>4 DEF SaveEdit, ConfirmDelete, ToggleReaction, Report, Ask
<1>5. ASSUME NEW s \in Sockets,
             \/ DeleteFind(s) \/ AddExists(s) \/ Broadcast(s)
             \/ Receive(s) \/ BroadcastFails(s) \/ Crash(s)
      PROVE  UNCHANGED document
  BY <1>5 DEF DeleteFind, AddExists, Broadcast, Receive, BroadcastFails, Crash
<1>6. ASSUME NEW s \in Sockets,
             \/ AddToEntry(s) \/ PushEntry(s) \/ PullFromEntry(s) \/ DropEmpty(s)
             \/ Mark(s) \/ EditWrite(s) \/ DeleteScrub(s)
      PROVE  DocInv' /\ [Contract!Next]_Contract!vars
  BY <1>1, <1>6, UpdatesReact, DropStutters, MarkReads, EditEdits, ScrubDeletes DEF DocInv
<1> QED BY <1>2, <1>3, <1>4, <1>5, <1>6 DEF Next, Handle

(* Whatever happens to a message happens as MessageContract allows it: the  *)
(* handlers of any number of sockets, interleaved at their awaits, failing  *)
(* and crashing, change the document only in the contract's steps.          *)
THEOREM KeepsContract == Spec => Implements
<1>1. Init => Contract!Init
  BY TextAssumption DEF Init, Contract!Init, Reacted
<1> QED BY <1>1, DocInitially, DocStep, PTL DEF Spec, Implements, Contract!Spec

-----------------------------------------------------------------------------
(* The copies of the clients *)

(* In the frames on their way: does one of the set K come, and is the last   *)
(* of them in G?                                                            *)
Comes(q, K) == \E i \in 1..Len(q) : q[i] \in K
EndsIn(q, K, G) ==
  \A i \in 1..Len(q) : q[i] \in K /\ (\A j \in i + 1..Len(q) : q[j] \notin K) => q[i] \in G

Deletions == {f \in FitFrames : f.type = "deleted"}
Edits == {f \in FitFrames : f.type = "edited"}
EditsTo(t) == {f \in Edits : f.arg = t}
Deliveries(u) == {f \in FitFrames : f.type \in {"delivered", "read"} /\ f.user = u}
Reads(u) == {f \in FitFrames : f.type = "read" /\ f.user = u}
Turns(u, e) == {f \in FitFrames : f.type \in {"add", "remove"} /\ f.user = u /\ f.arg = e}
RightTurns(u, e) == {f \in Turns(u, e) : f.type = "add" <=> <<u, e>> \in Reacted}

(* Who edits and who deletes; a dead instance runs no handler; a user whose  *)
(* sockets were never served at once has one handler running at most.       *)
Privileged == Admins \cup {Author}
Orderly ==
  /\ \A s \in Sockets :
       /\ handler[s].at = "edit" \/ handler[s].type = "edited" => User(s) = Author
       /\ handler[s].at \in {"find", "scrub"} \/ handler[s].type = "deleted"
            => User(s) \in Privileged
       /\ s \notin up => handler[s] = Idle
  /\ \A s, t \in Sockets :
       s # t /\ User(s) = User(t) /\ User(s) \notin overlapped
         => handler[s] = Idle \/ handler[t] = Idle

(* What a view, a frame or a handler says happened did happen.              *)
NoRumours ==
  \A s \in Sockets :
    /\ ~view[s].shown \/ Comes(inbox[s], Deletions) \/ handler[s].type = "deleted" => deleted
    /\ view[s].delivered \subseteq deliveredTo /\ view[s].read \subseteq readBy
    /\ \A u \in Users : /\ Comes(inbox[s], Deliveries(u)) => u \in deliveredTo
                        /\ Comes(inbox[s], Reads(u)) => u \in readBy
    /\ handler[s].type \in {"delivered", "read"} => User(s) \in deliveredTo
    /\ handler[s].type = "read" => User(s) \in readBy

(* What happened is known, on its way, about to be said, or was lost.       *)
DeletionSpreads ==
  deleted =>
    \/ unsaid \cap Privileged # {}
    \/ \E s \in Sockets : handler[s].type = "deleted"
    \/ \A t \in up : ~view[t].shown \/ Comes(inbox[t], Deletions)
ReceiptsSpread ==
  ~deleted => \A u \in Users \ unsaid :
    /\ u \in deliveredTo =>
         \/ \E s \in Sockets : User(s) = u /\ handler[s].type \in {"delivered", "read"}
         \/ \A t \in up : u \in view[t].delivered \/ Comes(inbox[t], Deliveries(u))
    /\ u \in readBy =>
         \/ \E s \in Sockets : User(s) = u /\ handler[s].type = "read"
         \/ \A t \in up : u \in view[t].read \/ Comes(inbox[t], Reads(u))

(* The last edit to arrive is the text; a handler that still has to say so   *)
(* wrote it.                                                                *)
TextSpreads ==
  ~deleted /\ Author \notin unsaid \cup overlapped =>
    /\ \A s \in Sockets : handler[s].type = "edited" => handler[s].arg = text
    /\ \/ \E s \in Sockets : handler[s].type = "edited"
       \/ \A t \in up : /\ EndsIn(inbox[t], Edits, EditsTo(text))
                        /\ Comes(inbox[t], Edits) \/ view[t].text = text

(* The same for each reaction, which turns on and off.                      *)
Owes(s, u, e) ==
  /\ User(s) = u /\ handler[s].arg = e
  /\ handler[s].type \in {"add", "remove"} \/ handler[s].at = "drop"
ReactionsSpread ==
  ~deleted => \A u \in Users \ (unsaid \cup overlapped), e \in Emoji :
    /\ \A s \in Sockets :
         Owes(s, u, e) => (handler[s].type = "add" <=> <<u, e>> \in Reacted)
    /\ \/ \E s \in Sockets : Owes(s, u, e)
       \/ \A t \in up : /\ EndsIn(inbox[t], Turns(u, e), RightTurns(u, e))
                        /\ \/ Comes(inbox[t], Turns(u, e))
                           \/ <<u, e>> \in view[t].reacted <=> <<u, e>> \in Reacted

ViewInv == /\ DocInv /\ Orderly /\ NoRumours
           /\ DeletionSpreads /\ ReceiptsSpread /\ TextSpreads /\ ReactionsSpread

(* What a queue of frames is after one is added, and after one is taken.     *)
LEMMA Appended ==
  ASSUME NEW S, NEW q \in Seq(S), NEW f \in S, NEW K, NEW G
  PROVE  /\ Comes(Append(q, f), K) <=> Comes(q, K) \/ f \in K
         /\ f \in K /\ f \in G => EndsIn(Append(q, f), K, G)
         /\ f \notin K /\ EndsIn(q, K, G) => EndsIn(Append(q, f), K, G)
<1> DEFINE p == Append(q, f)
<1>1. /\ Len(p) = Len(q) + 1 /\ Len(q) \in Nat
      /\ p[Len(q) + 1] = f
      /\ \A i \in 1..Len(q) : p[i] = q[i]
  OBVIOUS
<1> HIDE DEF p
<1>2. Comes(p, K) <=> Comes(q, K) \/ f \in K
  <2>1. \A i \in 1..Len(p) : i \in 1..Len(q) \/ i = Len(q) + 1
    BY <1>1
  <2>2. Len(q) + 1 \in 1..Len(p) /\ \A i \in 1..Len(q) : i \in 1..Len(p)
    BY <1>1
  <2> QED BY <1>1, <2>1, <2>2 DEF Comes
<1>3. ASSUME f \in K, f \in G PROVE EndsIn(p, K, G)
  <2> SUFFICES ASSUME NEW i \in 1..Len(p), p[i] \in K, \A j \in i + 1..Len(p) : p[j] \notin K
               PROVE  p[i] \in G
    BY DEF EndsIn
  <2>1. CASE i = Len(q) + 1
    BY <1>1, <1>3, <2>1
  <2>2. CASE i # Len(q) + 1
    <3>1. Len(q) + 1 \in i + 1..Len(p)
      BY <1>1, <2>2
    <3> QED BY <1>1, <1>3, <3>1
  <2> QED BY <2>1, <2>2
<1>4. ASSUME f \notin K, EndsIn(q, K, G) PROVE EndsIn(p, K, G)
  <2> SUFFICES ASSUME NEW i \in 1..Len(p), p[i] \in K, \A j \in i + 1..Len(p) : p[j] \notin K
               PROVE  p[i] \in G
    BY DEF EndsIn
  <2>1. i \in 1..Len(q)
    BY <1>1, <1>4
  <2>2. \A j \in i + 1..Len(q) : j \in i + 1..Len(p) /\ p[j] = q[j]
    BY <1>1, <2>1
  <2> QED BY <1>1, <1>4, <2>1, <2>2 DEF EndsIn
<1> QED BY <1>2, <1>3, <1>4 DEF p

LEMMA Taken ==
  ASSUME NEW S, NEW q \in Seq(S), q # <<>>, NEW K, NEW G
  PROVE  /\ Comes(q, K) <=> Head(q) \in K \/ Comes(Tail(q), K)
         /\ EndsIn(q, K, G) => EndsIn(Tail(q), K, G)
         /\ EndsIn(q, K, G) /\ Head(q) \in K /\ ~Comes(Tail(q), K) => Head(q) \in G
<1> DEFINE p == Tail(q)
<1>1. /\ Len(p) = Len(q) - 1 /\ Len(q) \in Nat \ {0} /\ Len(p) \in Nat
      /\ Head(q) = q[1]
      /\ \A i \in 1..Len(p) : p[i] = q[i + 1]
  BY LenProperties
<1> HIDE DEF p
<1>2. \A i \in 1..Len(q) : i = 1 \/ (i - 1 \in 1..Len(p) /\ q[i] = p[i - 1])
  BY <1>1
<1>3. 1 \in 1..Len(q) /\ \A i \in 1..Len(p) : i + 1 \in 1..Len(q)
  BY <1>1
<1>4. Comes(q, K) <=> Head(q) \in K \/ Comes(p, K)
  BY <1>1, <1>2, <1>3 DEF Comes
<1>5. ASSUME EndsIn(q, K, G) PROVE EndsIn(p, K, G)
  <2> SUFFICES ASSUME NEW i \in 1..Len(p), p[i] \in K, \A j \in i + 1..Len(p) : p[j] \notin K
               PROVE  p[i] \in G
    BY DEF EndsIn
  <2>1. i + 1 \in 1..Len(q) /\ q[i + 1] \in K
    BY <1>1, <1>3
  <2>2. ASSUME NEW j \in (i + 1) + 1..Len(q) PROVE q[j] \notin K
    <3>1. j - 1 \in i + 1..Len(p) /\ q[j] = p[j - 1]
      BY <1>1
    <3> QED BY <3>1
  <2>3. q[i + 1] \in G
    BY <1>5, <2>1, <2>2 DEF EndsIn
  <2> QED BY <1>1, <2>3
<1>6. ASSUME EndsIn(q, K, G), Head(q) \in K, ~Comes(p, K) PROVE Head(q) \in G
  <2>1. ASSUME NEW j \in 1 + 1..Len(q) PROVE q[j] \notin K
    <3>1. j - 1 \in 1..Len(p) /\ q[j] = p[j - 1]
      BY <1>1
    <3> QED BY <1>6, <3>1 DEF Comes
  <2> QED BY <1>1, <1>3, <1>6, <2>1 DEF EndsIn
<1> QED BY <1>4, <1>5, <1>6 DEF p

(* Where a handler goes.                                                    *)
Others(s) == \A t \in Sockets \ {s} : handler'[t] = handler[t]

LEMMA Moves ==
  ASSUME HandlersFit, NEW s \in Sockets
  PROVE  /\ Done(s) => Others(s) /\ handler'[s] = Idle
         /\ \A step \in Steps :
              Goto(s, step) => /\ Others(s) /\ handler'[s].at = step
                               /\ handler'[s].type = handler[s].type
                               /\ handler'[s].arg = handler[s].arg
         /\ \A type \in FrameTypes :
              Tell(s, type) => /\ Others(s) /\ handler'[s].at = "say"
                               /\ handler'[s].type = type
                               /\ handler'[s].arg = handler[s].arg
BY DEF HandlersFit, Done, Goto, Tell, Others

(* What the steps of a handler amount to for who looks at the frames: it    *)
(* keeps quiet, or it wrote and has to say so.                              *)
Mute(h) == h.type = Nothing /\ h.at # "drop"
Says(s, type) == /\ Others(s) /\ handler[s].type = Nothing
                 /\ handler'[s].at = "say" /\ handler'[s].type = type
                 /\ handler'[s].arg = handler[s].arg
Stays(s) == /\ Others(s) /\ Mute(handler[s]) /\ Mute(handler'[s])
            /\ UNCHANGED <<text, deleted, Reacted, deliveredTo, readBy>>
WritesText(s) == /\ handler[s].at = "edit" /\ Says(s, "edited")
                 /\ text' = handler[s].arg
                 /\ UNCHANGED <<deleted, Reacted, deliveredTo, readBy>>
Scrubs(s) == /\ handler[s].at = "scrub" /\ Says(s, "deleted") /\ deleted'
             /\ UNCHANGED <<deliveredTo, readBy>>
AddsPair(s) == /\ handler[s].at # "drop" /\ Says(s, "add")
               /\ User(s) \in Users /\ handler[s].arg \in Emoji
               /\ Reacted' = Reacted \cup {Pair(s)}
               /\ UNCHANGED <<text, deleted, deliveredTo, readBy>>
PullsPair(s) == /\ Others(s) /\ Mute(handler[s])
                /\ handler'[s].at = "drop" /\ handler'[s].type = Nothing
                /\ handler'[s].arg = handler[s].arg
                /\ Reacted' = Reacted \ {Pair(s)}
                /\ UNCHANGED <<text, deleted, deliveredTo, readBy>>
DropsPair(s) == /\ handler[s].at = "drop" /\ Says(s, "remove")
                /\ UNCHANGED <<text, deleted, Reacted, deliveredTo, readBy>>
Marks(s) == /\ handler[s].at \in {"delivered", "read"} /\ Says(s, handler[s].at)
            /\ deliveredTo' = deliveredTo \cup {User(s)}
            /\ readBy' = IF handler[s].at = "read" THEN readBy \cup {User(s)} ELSE readBy
            /\ UNCHANGED <<text, deleted, Reacted>>

LEMMA ServerEffects ==
  ASSUME DocInv, NEW s \in Sockets, Handle(s), ~Broadcast(s)
  PROVE  /\ UNCHANGED <<clients, up, bounds>>
         /\ \/ Stays(s) \/ WritesText(s) \/ Scrubs(s) \/ AddsPair(s) \/ PullsPair(s)
            \/ DropsPair(s) \/ Marks(s)
<1>1. HandlersFit
  BY DEF DocInv, ReactInv, Typed
<1>2. handler[s].at # "say" => handler[s].type = Nothing
  BY <1>1 DEF HandlersFit
<1>3. Mute(Idle)
  BY DEF Idle, Mute
<1>4. UNCHANGED reactions => Reacted' = Reacted
  BY DEF Reacted
<1> USE DEF Steps, FrameTypes
<1>5. CASE EditWrite(s)
  BY <1>1, <1>2, <1>3, <1>4, <1>5, Moves DEF EditWrite, Stays, Mute, WritesText, Says
<1>6. CASE DeleteFind(s)
  BY <1>1, <1>2, <1>3, <1>4, <1>6, Moves DEF DeleteFind, Stays, Mute, document
<1>7. CASE DeleteScrub(s)
  BY <1>1, <1>2, <1>7, Moves DEF DeleteScrub, Scrubs, Says
<1>8. CASE AddToEntry(s)
  <2>1. handler[s].at = "add" /\ User(s) \in Users /\ handler[s].arg \in Emoji
        /\ UNCHANGED <<text, deleted, deliveredTo, readBy, clients, up, bounds>>
    BY <1>8, PairTyped DEF AddToEntry
  <2> QED BY <1>1, <1>2, <1>4, <1>8, <2>1, AddWrites, Moves
          DEF Stays, Mute, Reacts, AddsPair, Says
<1>9. CASE AddExists(s)
  BY <1>1, <1>2, <1>3, <1>4, <1>9, Moves DEF AddExists, Stays, Mute, document
<1>10. CASE PushEntry(s)
  <2>1. handler[s].at = "push" /\ User(s) \in Users /\ handler[s].arg \in Emoji
        /\ UNCHANGED <<text, deleted, deliveredTo, readBy, clients, up, bounds>>
    BY <1>10, PairTyped DEF PushEntry
  <2> QED BY <1>1, <1>2, <1>3, <1>4, <1>10, <2>1, PushWrites, Moves
          DEF Stays, Mute, Reacts, AddsPair, Says
<1>11. CASE PullFromEntry(s)
  <2>1. handler[s].at = "pull"
        /\ UNCHANGED <<text, deleted, deliveredTo, readBy, clients, up, bounds>>
    BY <1>11 DEF PullFromEntry
  <2> QED BY <1>1, <1>2, <1>3, <1>4, <1>11, <2>1, PullWrites, Moves
          DEF Stays, Mute, Unreacts, PullsPair
<1>12. CASE DropEmpty(s)
  <2>1. Reacted' = Reacted
    BY <1>12 DEF DropEmpty, Reacted
  <2> QED BY <1>1, <1>2, <1>12, <2>1, Moves DEF DropEmpty, DropsPair, Says
<1>13. CASE Mark(s)
  <2>1. CASE Done(s) /\ UNCHANGED <<deliveredTo, readBy>>
    BY <1>1, <1>2, <1>3, <1>4, <1>13, <2>1, Moves DEF Mark, Stays, Mute
  <2>2. CASE ~(Done(s) /\ UNCHANGED <<deliveredTo, readBy>>)
    BY <1>1, <1>2, <1>4, <1>13, <2>2, Moves DEF Mark, Marks, Says
  <2> QED BY <2>1, <2>2
<1> QED BY <1>5, <1>6, <1>7, <1>8, <1>9, <1>10, <1>11, <1>12, <1>13 DEF Handle

(* Steps that start no handler keep the handlers in order.                  *)
Entitled(s) ==
  /\ handler[s].at = "edit" \/ handler[s].type = "edited" => User(s) = Author
  /\ handler[s].at \in {"find", "scrub"} \/ handler[s].type = "deleted" => User(s) \in Privileged

LEMMA OrderlyStep ==
  ASSUME Orderly, NEW s \in Sockets, Others(s), Entitled(s)', UNCHANGED overlapped,
         handler[s] # Idle \/ handler'[s] = Idle,
         \/ UNCHANGED up
         \/ up' = up \ {s} /\ handler'[s] = Idle
  PROVE  Orderly'
BY DEF Orderly, Others, Entitled, User

LEMMA IdleEntitled == ASSUME NEW s \in Sockets, handler'[s] = Idle PROVE Entitled(s)'
BY DEF Idle, Entitled, Nothing

LEMMA OrderlyPreserved ==
  ASSUME DocInv, Orderly, NEW s \in Sockets,
         \/ SaveEdit(s) \/ ConfirmDelete(s) \/ ToggleReaction(s) \/ Report(s)
         \/ Handle(s) \/ Receive(s) \/ BroadcastFails(s) \/ Crash(s)
  PROVE  Orderly'
<1>1. HandlersFit
  BY DEF DocInv, ReactInv, Typed
<1>2. Entitled(s)
  BY DEF Orderly, Entitled
<1>3. handler[s].at # "say" => handler[s].type = Nothing
  BY <1>1 DEF HandlersFit
<1>4. CASE SaveEdit(s) \/ ConfirmDelete(s) \/ ToggleReaction(s) \/ Report(s)
  <2>1. PICK step, arg :
          /\ Ask(s, step, arg)
          /\ step = "edit" => User(s) = Author
          /\ step \in {"find", "scrub"} => User(s) \in Privileged
    <3>1. CASE SaveEdit(s)
      BY <3>1 DEF SaveEdit
    <3>2. CASE ConfirmDelete(s)
      BY <3>2 DEF ConfirmDelete, Privileged
    <3>3. CASE ToggleReaction(s)
      BY <3>3 DEF ToggleReaction
    <3>4. CASE Report(s)
      BY <3>4 DEF Report
    <3> QED BY <1>4, <3>1, <3>2, <3>3, <3>4
  <2>2. /\ Others(s) /\ handler'[s].at = step /\ handler'[s].type = Nothing
        /\ s \in up /\ up' = up
    BY <1>1, <2>1 DEF Ask, HandlersFit, Others, Idle
  <2>3. overlapped \subseteq overlapped'
    BY <2>1 DEF Ask
  <2>4. ASSUME NEW t \in Sockets \ {s}, User(t) = User(s), User(s) \notin overlapped'
        PROVE  handler'[t] = Idle
    BY <2>1, <2>2, <2>4 DEF Ask, Others
  <2>5. \A t \in Sockets \ {s} : handler'[t] = handler[t]
    BY <2>2 DEF Others
  <2>6. Entitled(s)'
    BY <2>1, <2>2 DEF Entitled, Nothing
  <2> QED BY <2>2, <2>3, <2>4, <2>5, <2>6 DEF Orderly, Entitled, User
<1>5. CASE Handle(s)
  <2>1. handler[s] # Idle
    BY <1>5 DEF Handle, EditWrite, DeleteFind, DeleteScrub, AddToEntry, AddExists, PushEntry,
                PullFromEntry, DropEmpty, Mark, Broadcast, Idle
  <2>2. UNCHANGED <<up, overlapped>>
    BY <1>5 DEF Handle, EditWrite, DeleteFind, DeleteScrub, AddToEntry, AddExists, PushEntry,
                PullFromEntry, DropEmpty, Mark, Broadcast, bounds
  <2>3. \/ Done(s)
        \/ handler[s].type = Nothing /\ (Goto(s, "exists") \/ Goto(s, "push") \/ Goto(s, "drop"))
        \/ handler[s].at = "find" /\ Goto(s, "scrub")
        \/ handler[s].at = "edit" /\ Tell(s, "edited")
        \/ handler[s].at = "scrub" /\ Tell(s, "deleted")
        \/ \E type \in {"add", "remove", "delivered", "read"} : Tell(s, type)
    BY <1>3, <1>5 DEF Handle, EditWrite, DeleteFind, DeleteScrub, AddToEntry, AddExists, PushEntry,
                PullFromEntry, DropEmpty, Mark, Broadcast
  <2>4. Others(s) /\ Entitled(s)'
    BY <1>1, <1>2, <1>3, <2>3, Moves, IdleEntitled DEF Entitled, Steps, FrameTypes, Nothing, User
  <2> QED BY <2>1, <2>2, <2>4, OrderlyStep
<1>6. CASE Receive(s)
  BY <1>6 DEF Receive, bounds, Orderly, User
<1>7. CASE BroadcastFails(s) \/ Crash(s)
  <2>1. Done(s) /\ UNCHANGED overlapped /\ (UNCHANGED up \/ up' = up \ {s})
    BY <1>7 DEF BroadcastFails, Crash
  <2> QED BY <1>1, <2>1, Moves, IdleEntitled, OrderlyStep
<1> QED BY <1>4, <1>5, <1>6, <1>7

-----------------------------------------------------------------------------
(* What is told, step by step *)

Told == NoRumours /\ DeletionSpreads /\ ReceiptsSpread /\ TextSpreads /\ ReactionsSpread

(* A client that asks and a handler that writes nothing.                    *)
LEMMA QuietTold ==
  ASSUME Told, NEW s \in Sockets, Stays(s), UNCHANGED <<clients, up, unsaid>>,
         overlapped \subseteq overlapped'
  PROVE  Told'
<1> USE DEF Stays, Others, Mute, clients, User, Told
<1>0. /\ \A t \in Sockets : handler[t].type # Nothing => handler'[t] = handler[t]
      /\ \A t \in Sockets : handler'[t].type # Nothing => handler'[t] = handler[t]
  OBVIOUS
<1>1. NoRumours'
  BY <1>0 DEF NoRumours, Nothing
<1>2. DeletionSpreads'
  BY <1>0 DEF DeletionSpreads, Nothing
<1>3. ReceiptsSpread'
  BY <1>0 DEF ReceiptsSpread, Nothing
<1>4. TextSpreads'
  BY <1>0 DEF TextSpreads, Nothing
<1>5. ReactionsSpread'
  <2>1. \A t \in Sockets, u \in Users, e \in Emoji : Owes(t, u, e)' <=> Owes(t, u, e)
    BY DEF Owes, Nothing
  <2>2. \A u \in Users, e \in Emoji : RightTurns(u, e)' = RightTurns(u, e)
    BY DEF RightTurns
  <2>3. \A t \in Sockets, u \in Users, e \in Emoji : Owes(t, u, e) => handler'[t] = handler[t]
    BY DEF Owes, Nothing
  <2> QED BY <2>1, <2>2, <2>3 DEF ReactionsSpread
<1> QED BY <1>1, <1>2, <1>3, <1>4, <1>5

LEMMA EditTold ==
  ASSUME Told, Orderly, NEW s \in Sockets, WritesText(s), UNCHANGED <<clients, up, bounds>>
  PROVE  Told'
<1> USE DEF WritesText, Says, Others, clients, bounds, User, Told
<1>1. NoRumours'
  BY DEF NoRumours
<1>2. DeletionSpreads'
  BY DEF DeletionSpreads, Nothing
<1>3. ReceiptsSpread'
  BY DEF ReceiptsSpread, Nothing
<1>4. TextSpreads'
  <2> SUFFICES ASSUME Author \notin overlapped
               PROVE  \A t \in Sockets : handler'[t].type = "edited" => handler'[t].arg = text'
    BY DEF TextSpreads
  <2>1. User(s) = Author /\ handler[s] # Idle
    BY DEF Orderly, Idle
  <2>2. \A t \in Sockets \ {s} : User(t) = Author => handler[t] = Idle
    BY <2>1 DEF Orderly
  <2>3. \A t \in Sockets \ {s} : handler[t].type # "edited"
    BY <2>2 DEF Orderly, Idle, Nothing
  <2> QED BY <2>3
<1>5. ReactionsSpread'
  <2>1. \A t \in Sockets, u \in Users, e \in Emoji : Owes(t, u, e)' <=> Owes(t, u, e)
    BY DEF Owes, Nothing
  <2>2. \A u \in Users, e \in Emoji : RightTurns(u, e)' = RightTurns(u, e)
    BY DEF RightTurns
  <2>3. \A t \in Sockets, u \in Users, e \in Emoji : Owes(t, u, e) => handler'[t] = handler[t]
    BY DEF Owes, Nothing
  <2> QED BY <2>1, <2>2, <2>3 DEF ReactionsSpread
<1> QED BY <1>1, <1>2, <1>3, <1>4, <1>5

LEMMA ScrubTold ==
  ASSUME Told, NEW s \in Sockets, Scrubs(s), UNCHANGED <<clients, up, bounds>>
  PROVE  Told'
<1> USE DEF Scrubs, Says, Others, clients, bounds, User, Told
<1>1. NoRumours'
  BY DEF NoRumours
<1>2. DeletionSpreads'
  BY DEF DeletionSpreads
<1>3. ReceiptsSpread' /\ TextSpreads' /\ ReactionsSpread'
  BY DEF ReceiptsSpread, TextSpreads, ReactionsSpread
<1> QED BY <1>1, <1>2, <1>3

(* A reaction that is added, taken away, or whose removal is about to be    *)
(* said: the handler owes that reaction, and no other handler does.         *)
LEMMA ReactionTold ==
  ASSUME Told, Orderly, NEW s \in Sockets, handler[s] # Idle,
         AddsPair(s) \/ PullsPair(s) \/ DropsPair(s), UNCHANGED <<clients, up, bounds>>
  PROVE  Told'
<1> USE DEF clients, bounds, User, Told
<1>1. /\ Others(s) /\ handler[s].type = Nothing
      /\ handler'[s].type \in {"add", "remove", Nothing}
      /\ handler'[s].arg = handler[s].arg
      /\ UNCHANGED <<text, deleted, deliveredTo, readBy>>
  BY DEF AddsPair, PullsPair, DropsPair, Says, Mute
<1>2. NoRumours'
  BY <1>1 DEF NoRumours, Others, Nothing
<1>3. DeletionSpreads'
  BY <1>1 DEF DeletionSpreads, Others, Nothing
<1>4. ReceiptsSpread'
  BY <1>1 DEF ReceiptsSpread, Others, Nothing
<1>5. TextSpreads'
  BY <1>1 DEF TextSpreads, Others, Nothing
<1>6. ReactionsSpread'
  <2> SUFFICES ASSUME ~deleted, NEW u \in Users \ (unsaid \cup overlapped), NEW e \in Emoji
               PROVE  /\ \A t \in Sockets : Owes(t, u, e)' =>
                            (handler'[t].type = "add" <=> <<u, e>> \in Reacted')
                      /\ \/ \E t \in Sockets : Owes(t, u, e)'
                         \/ \A t \in up : /\ EndsIn(inbox[t], Turns(u, e), RightTurns(u, e)')
                                          /\ \/ Comes(inbox[t], Turns(u, e))
                                             \/ <<u, e>> \in view[t].reacted <=> <<u, e>> \in Reacted'
    BY <1>1 DEF ReactionsSpread
  <2>1. CASE u = User(s) /\ e = handler[s].arg
    <3>1. Owes(s, u, e)'
      BY <1>1, <2>1 DEF Owes, AddsPair, PullsPair, DropsPair, Says
    <3>2. handler'[s].type = "add" <=> <<u, e>> \in Reacted'
      <4>1. CASE AddsPair(s)
        BY <2>1, <4>1 DEF AddsPair, Says, Pair
      <4>2. CASE PullsPair(s)
        BY <2>1, <4>2 DEF PullsPair, Pair, Nothing
      <4>3. CASE DropsPair(s)
        <5>1. Owes(s, u, e)
          BY <2>1, <4>3 DEF DropsPair, Owes
        <5> QED BY <1>1, <4>3, <5>1 DEF ReactionsSpread, DropsPair, Says, Nothing
      <4> QED BY <4>1, <4>2, <4>3
    <3>3. \A t \in Sockets \ {s} : ~Owes(t, u, e)'
      <4> SUFFICES ASSUME NEW t \in Sockets \ {s}, Owes(t, u, e)' PROVE FALSE
        OBVIOUS
      <4>1. User(t) = u /\ handler[t] # Idle /\ handler'[t] = handler[t]
        BY <1>1 DEF Owes, Others, Idle, Nothing
      <4>2. handler[s] = Idle
        BY <2>1, <4>1 DEF Orderly
      <4> QED BY <4>2
    <3> QED BY <3>1, <3>2, <3>3
  <2>2. CASE ~(u = User(s) /\ e = handler[s].arg)
    <3>1. <<u, e>> \in Reacted' <=> <<u, e>> \in Reacted
      BY <2>2 DEF AddsPair, PullsPair, DropsPair, Pair
    <3>2. RightTurns(u, e)' = RightTurns(u, e)
      BY <3>1 DEF RightTurns
    <3>3. ~Owes(s, u, e) /\ ~Owes(s, u, e)'
      BY <1>1, <2>2 DEF Owes
    <3>4. \A t \in Sockets \ {s} : handler'[t] = handler[t] /\ (Owes(t, u, e)' <=> Owes(t, u, e))
      BY <1>1 DEF Owes, Others
    <3> QED BY <3>1, <3>2, <3>3, <3>4 DEF ReactionsSpread
  <2> QED BY <2>1, <2>2
<1> QED BY <1>2, <1>3, <1>4, <1>5, <1>6

LEMMA MarkTold ==
  ASSUME Told, NEW s \in Sockets, Marks(s), UNCHANGED <<clients, up, bounds>>
  PROVE  Told'
<1> USE DEF Marks, Says, Others, clients, bounds, User, Told
<1>1. NoRumours'
  BY DEF NoRumours
<1>2. DeletionSpreads'
  BY DEF DeletionSpreads, Nothing
<1>3. ReceiptsSpread'
  <2> SUFFICES ASSUME ~deleted, NEW u \in Users \ unsaid
               PROVE  /\ u \in deliveredTo' =>
                           \/ \E t \in Sockets : User(t) = u /\ handler'[t].type \in {"delivered", "read"}
                           \/ \A t \in up : u \in view[t].delivered \/ Comes(inbox[t], Deliveries(u))
                      /\ u \in readBy' =>
                           \/ \E t \in Sockets : User(t) = u /\ handler'[t].type = "read"
                           \/ \A t \in up : u \in view[t].read \/ Comes(inbox[t], Reads(u))
    BY DEF ReceiptsSpread
  <2>1. \A t \in Sockets : handler[t].type # Nothing => handler'[t] = handler[t]
    OBVIOUS
  <2>2. \A t \in Sockets : handler[t].type \in {"delivered", "read"} => handler[t].type # Nothing
    BY DEF Nothing
  <2>3. u \in deliveredTo => \/ \E t \in Sockets : User(t) = u /\ handler'[t].type \in {"delivered", "read"}
                             \/ \A t \in up : u \in view[t].delivered \/ Comes(inbox[t], Deliveries(u))
    BY <2>1, <2>2 DEF ReceiptsSpread
  <2>4. u \in readBy => \/ \E t \in Sockets : User(t) = u /\ handler'[t].type = "read"
                        \/ \A t \in up : u \in view[t].read \/ Comes(inbox[t], Reads(u))
    BY <2>1, <2>2 DEF ReceiptsSpread
  <2> QED BY <2>3, <2>4
<1>4. TextSpreads'
  BY DEF TextSpreads, Nothing
<1>5. ReactionsSpread'
  <2>1. \A t \in Sockets, u \in Users, e \in Emoji : Owes(t, u, e)' <=> Owes(t, u, e)
    BY DEF Owes, Nothing
  <2>2. \A u \in Users, e \in Emoji : RightTurns(u, e)' = RightTurns(u, e)
    BY DEF RightTurns
  <2>3. \A t \in Sockets, u \in Users, e \in Emoji : Owes(t, u, e) => handler'[t] = handler[t]
    BY DEF Owes, Nothing
  <2> QED BY <2>1, <2>2, <2>3 DEF ReactionsSpread
<1> QED BY <1>1, <1>2, <1>3, <1>4, <1>5

(* A broadcast puts the frame at the end of every living inbox, and the     *)
(* handler owes nothing any more.                                           *)
LEMMA BroadcastTold ==
  ASSUME DocInv, Told, NEW s \in Sockets, Broadcast(s)
  PROVE  Told'
<1> DEFINE f == Frame(s)
<1>1. /\ handler[s].at = "say" /\ Others(s) /\ handler'[s] = Idle
      /\ UNCHANGED <<text, deleted, reactions, deliveredTo, readBy, view, up, unsaid, overlapped>>
  BY Moves DEF Broadcast, DocInv, ReactInv, Typed, document, bounds
<1>2. /\ f \in FitFrames /\ User(s) \in Users /\ handler[s].arg \in Args
      /\ f.type = handler[s].type /\ f.user = User(s) /\ f.arg = handler[s].arg
  BY <1>1, UserAssumption
     DEF Frame, FitFrames, Frames, User, DocInv, ReactInv, Typed, HandlersFit
<1>3. \A t \in Sockets : inbox[t] \in Seq(FitFrames)
  BY DEF DocInv, ReactInv, Typed, FramesFit
<1>4. \A t \in Sockets : inbox'[t] = IF t \in up THEN Append(inbox[t], f) ELSE inbox[t]
  BY DEF Broadcast
<1>5. Reacted' = Reacted
  BY <1>1 DEF Reacted
<1> HIDE DEF f
<1>6. ASSUME NEW t \in Sockets, NEW K
      PROVE  Comes(inbox'[t], K) <=> Comes(inbox[t], K) \/ (t \in up /\ f \in K)
  <2>1. CASE t \in up
    <3>1. inbox'[t] = Append(inbox[t], f) /\ f \in FitFrames /\ inbox[t] \in Seq(FitFrames)
      BY <1>2, <1>3, <1>4, <2>1
    <3>2. Comes(Append(inbox[t], f), K) <=> Comes(inbox[t], K) \/ f \in K
      BY <3>1, Appended
    <3> QED BY <2>1, <3>1, <3>2
  <2>2. CASE t \notin up
    BY <1>4, <2>2
  <2> QED BY <2>1, <2>2
<1>7. ASSUME NEW t \in up, t \in Sockets, NEW K, NEW G
      PROVE  /\ f \in K /\ f \in G => EndsIn(inbox'[t], K, G)
             /\ f \notin K /\ EndsIn(inbox[t], K, G) => EndsIn(inbox'[t], K, G)
  BY <1>2, <1>3, <1>4, <1>7, Appended
<1>8. /\ up \subseteq Sockets
      /\ handler'[s].type = Nothing /\ handler'[s].at = "idle"
      /\ \A t \in Sockets \ {s} : handler'[t] = handler[t]
  BY <1>1 DEF DocInv, ReactInv, Typed, TypeOK, Idle, Others
<1> USE DEF Told
<1>9. NoRumours'
  <2> SUFFICES ASSUME NEW t \in Sockets
               PROVE  /\ Comes(inbox'[t], Deletions) => deleted
                      /\ \A u \in Users : /\ Comes(inbox'[t], Deliveries(u)) => u \in deliveredTo
                                          /\ Comes(inbox'[t], Reads(u)) => u \in readBy
    BY <1>1, <1>8 DEF NoRumours, Nothing, User
  <2>1. f \in Deletions => deleted
    BY <1>2 DEF Deletions, NoRumours
  <2>2. \A u \in Users : /\ f \in Deliveries(u) => u \in deliveredTo
                         /\ f \in Reads(u) => u \in readBy
    BY <1>2 DEF Deliveries, Reads, NoRumours
  <2> QED BY <1>6, <2>1, <2>2 DEF NoRumours
<1>10. DeletionSpreads'
  <2> SUFFICES ASSUME deleted, unsaid \cap Privileged = {}
               PROVE  \/ \E t \in Sockets : handler'[t].type = "deleted"
                      \/ \A t \in up : ~view[t].shown \/ Comes(inbox'[t], Deletions)
    BY <1>1 DEF DeletionSpreads
  <2>1. CASE handler[s].type = "deleted"
    BY <1>2, <1>6, <1>8, <2>1 DEF Deletions
  <2>2. CASE handler[s].type # "deleted"
    BY <1>6, <1>8, <2>2 DEF DeletionSpreads
  <2> QED BY <2>1, <2>2
<1>11. ReceiptsSpread'
  <2> SUFFICES ASSUME ~deleted, NEW u \in Users \ unsaid
               PROVE  /\ u \in deliveredTo =>
                           \/ \E t \in Sockets : User(t) = u /\ handler'[t].type \in {"delivered", "read"}
                           \/ \A t \in up : u \in view[t].delivered \/ Comes(inbox'[t], Deliveries(u))
                      /\ u \in readBy =>
                           \/ \E t \in Sockets : User(t) = u /\ handler'[t].type = "read"
                           \/ \A t \in up : u \in view[t].read \/ Comes(inbox'[t], Reads(u))
    BY <1>1 DEF ReceiptsSpread, User
  <2>1. User(s) = u /\ handler[s].type \in {"delivered", "read"} => f \in Deliveries(u)
    BY <1>2 DEF Deliveries
  <2>2. User(s) = u /\ handler[s].type = "read" => f \in Reads(u)
    BY <1>2 DEF Reads
  <2> QED BY <1>6, <1>8, <2>1, <2>2 DEF ReceiptsSpread
<1>12. TextSpreads'
  <2> SUFFICES ASSUME ~deleted, Author \notin unsaid \cup overlapped
               PROVE  /\ \A t \in Sockets : handler'[t].type = "edited" => handler'[t].arg = text
                      /\ \/ \E t \in Sockets : handler'[t].type = "edited"
                         \/ \A t \in up : /\ EndsIn(inbox'[t], Edits, EditsTo(text))
                                          /\ Comes(inbox'[t], Edits) \/ view[t].text = text
    BY <1>1 DEF TextSpreads
  <2>1. \A t \in Sockets : handler'[t].type = "edited" => handler'[t].arg = text
    BY <1>8 DEF TextSpreads, Nothing
  <2>2. CASE handler[s].type = "edited"
    <3>1. f \in Edits /\ f \in EditsTo(text)
      BY <1>2, <2>2 DEF TextSpreads, Edits, EditsTo
    <3> QED BY <1>6, <1>7, <1>8, <2>1, <3>1
  <2>3. CASE handler[s].type # "edited"
    <3>1. f \notin Edits
      BY <1>2, <2>3 DEF Edits
    <3>2. \/ \E t \in Sockets \ {s} : handler[t].type = "edited"
          \/ \A t \in up : /\ EndsIn(inbox[t], Edits, EditsTo(text))
                           /\ Comes(inbox[t], Edits) \/ view[t].text = text
      BY <2>3 DEF TextSpreads
    <3> QED BY <1>6, <1>7, <1>8, <2>1, <3>1, <3>2
  <2> QED BY <2>2, <2>3
<1>13. ReactionsSpread'
  <2>0. \A u \in Users, e \in Emoji : RightTurns(u, e)' = RightTurns(u, e)
    BY <1>5 DEF RightTurns
  <2> SUFFICES ASSUME ~deleted, NEW u \in Users \ (unsaid \cup overlapped), NEW e \in Emoji
               PROVE  /\ \A t \in Sockets : Owes(t, u, e)' =>
                            (handler'[t].type = "add" <=> <<u, e>> \in Reacted)
                      /\ \/ \E t \in Sockets : Owes(t, u, e)'
                         \/ \A t \in up : /\ EndsIn(inbox'[t], Turns(u, e), RightTurns(u, e))
                                          /\ \/ Comes(inbox'[t], Turns(u, e))
                                             \/ <<u, e>> \in view[t].reacted <=> <<u, e>> \in Reacted
    BY <1>1, <1>5, <2>0 DEF ReactionsSpread
  <2>1. ~Owes(s, u, e)'
    BY <1>8 DEF Owes, Nothing
  <2>2. \A t \in Sockets \ {s} : handler'[t] = handler[t] /\ (Owes(t, u, e)' <=> Owes(t, u, e))
    BY <1>8 DEF Owes, User
  <2>3. \A t \in Sockets : Owes(t, u, e) => (handler[t].type = "add" <=> <<u, e>> \in Reacted)
    BY DEF ReactionsSpread
  <2>4. CASE Owes(s, u, e)
    <3>1. f \in Turns(u, e)
      BY <1>1, <1>2, <2>4 DEF Owes, Turns
    <3>2. f \in RightTurns(u, e)
      BY <1>2, <2>3, <2>4, <3>1 DEF RightTurns
    <3> QED BY <1>6, <1>7, <1>8, <2>1, <2>2, <2>3, <3>1, <3>2
  <2>5. CASE ~Owes(s, u, e)
    <3>1. f \notin Turns(u, e)
      BY <1>2, <2>5 DEF Owes, Turns
    <3>2. \/ \E t \in Sockets \ {s} : Owes(t, u, e)
          \/ \A t \in up : /\ EndsIn(inbox[t], Turns(u, e), RightTurns(u, e))
                           /\ \/ Comes(inbox[t], Turns(u, e))
                              \/ <<u, e>> \in view[t].reacted <=> <<u, e>> \in Reacted
      BY <2>5 DEF ReactionsSpread
    <3> QED BY <1>6, <1>7, <1>8, <2>1, <2>2, <2>3, <3>1, <3>2
  <2> QED BY <2>4, <2>5
<1> QED BY <1>9, <1>10, <1>11, <1>12, <1>13

(* A view and the next frame of its inbox: what the frame changes.          *)
LEMMA Applied ==
  ASSUME NEW v \in Views, NEW f \in FitFrames
  PROVE  /\ Apply(v, f).shown <=> v.shown /\ f \notin Deletions
         /\ v.shown /\ f \notin Deletions =>
              /\ Apply(v, f).text = IF f \in Edits THEN f.arg ELSE v.text
              /\ \A u \in Users :
                   /\ u \in Apply(v, f).delivered <=> u \in v.delivered \/ f \in Deliveries(u)
                   /\ u \in Apply(v, f).read <=> u \in v.read \/ f \in Reads(u)
                   /\ \A e \in Emoji :
                        <<u, e>> \in Apply(v, f).reacted <=>
                          IF f \in Turns(u, e) THEN f.type = "add" ELSE <<u, e>> \in v.reacted
         /\ ~v.shown \/ f \in Deletions =>
              Apply(v, f).delivered = v.delivered /\ Apply(v, f).read = v.read
<1> USE DEF Deletions, Edits, Deliveries, Reads, Turns
<1>1. f.type \in FrameTypes /\ f.user \in Users
  BY DEF FitFrames, Frames
<1>2. CASE ~v.shown
  BY <1>2 DEF Apply, Views
<1>3. CASE v.shown /\ f.type = "deleted"
  BY <1>3 DEF Apply, Views
<1>4. CASE v.shown /\ f.type = "edited"
  BY <1>1, <1>4 DEF Apply, Views
<1>5. CASE v.shown /\ f.type = "add"
  BY <1>1, <1>5 DEF Apply, Views
<1>6. CASE v.shown /\ f.type = "remove"
  BY <1>1, <1>6 DEF Apply, Views
<1>7. CASE v.shown /\ f.type = "delivered"
  BY <1>1, <1>7 DEF Apply, Views
<1>8. CASE v.shown /\ f.type = "read"
  BY <1>1, <1>8 DEF Apply, Views
<1> QED BY <1>1, <1>2, <1>3, <1>4, <1>5, <1>6, <1>7, <1>8 DEF FrameTypes

LEMMA ReceiveTold ==
  ASSUME DocInv, Told, NEW s \in Sockets, Receive(s)
  PROVE  Told'
<1> DEFINE f == Head(inbox[s])
           v == view[s]
<1>1. UNCHANGED <<text, deleted, reactions, deliveredTo, readBy, handler, up, unsaid, overlapped>>
  BY DEF Receive, document, bounds
<1>2. /\ inbox[s] \in Seq(FitFrames) /\ inbox[s] # <<>>
      /\ f \in FitFrames /\ v \in Views /\ up \subseteq Sockets
  BY DEF Receive, DocInv, ReactInv, Typed, FramesFit, TypeOK, Views
<1>3. /\ view'[s] = Apply(v, f) /\ inbox'[s] = Tail(inbox[s])
      /\ \A t \in Sockets \ {s} : view'[t] = view[t] /\ inbox'[t] = inbox[t]
  BY DEF Receive, DocInv, ReactInv, Typed, TypeOK
<1>4. Reacted' = Reacted
  BY <1>1 DEF Reacted
<1> HIDE DEF f, v
<1>5. ASSUME NEW K
      PROVE  Comes(inbox[s], K) <=> f \in K \/ Comes(inbox'[s], K)
  BY <1>2, <1>3, Taken DEF f
<1>6. ASSUME NEW K, NEW G, EndsIn(inbox[s], K, G)
      PROVE  /\ EndsIn(inbox'[s], K, G)
             /\ f \in K /\ ~Comes(inbox'[s], K) => f \in G
  BY <1>2, <1>3, <1>6, Taken DEF f
<1>7. ~deleted => v.shown /\ f \notin Deletions
  BY <1>5 DEF Told, NoRumours, v
<1>8. v = view[s]
  BY DEF v
<1> USE DEF Told
<1>9. NoRumours'
  <2>1. ~view'[s].shown => deleted
    BY <1>2, <1>3, <1>7, Applied
  <2>2. view'[s].delivered \subseteq deliveredTo /\ view'[s].read \subseteq readBy
    <3>1. view'[s] \in Views
      BY <1>2, <1>3, ApplyTyped
    <3>2. \A u \in Users : /\ u \in view'[s].delivered => u \in deliveredTo
                           /\ u \in view'[s].read => u \in readBy
      BY <1>2, <1>3, <1>5, <1>8, Applied DEF NoRumours
    <3> QED BY <3>1, <3>2 DEF Views
  <2>3. \A K : Comes(inbox'[s], K) => Comes(inbox[s], K)
    BY <1>5
  <2> QED BY <1>1, <1>3, <2>1, <2>2, <2>3 DEF NoRumours
<1>10. DeletionSpreads'
  <2>1. ~v.shown \/ Comes(inbox[s], Deletions) =>
          ~view'[s].shown \/ Comes(inbox'[s], Deletions)
    BY <1>2, <1>3, <1>5, Applied
  <2> QED BY <1>1, <1>2, <1>3, <1>8, <2>1 DEF DeletionSpreads
<1>11. ReceiptsSpread'
  <2>1. ASSUME ~deleted, NEW u \in Users
        PROVE  /\ u \in v.delivered \/ Comes(inbox[s], Deliveries(u)) =>
                    u \in view'[s].delivered \/ Comes(inbox'[s], Deliveries(u))
               /\ u \in v.read \/ Comes(inbox[s], Reads(u)) =>
                    u \in view'[s].read \/ Comes(inbox'[s], Reads(u))
    BY <1>2, <1>3, <1>5, <1>7, <2>1, Applied
  <2> QED BY <1>1, <1>2, <1>3, <1>8, <2>1 DEF ReceiptsSpread
<1>12. TextSpreads'
  <2>1. ASSUME ~deleted, EndsIn(inbox[s], Edits, EditsTo(text)),
               Comes(inbox[s], Edits) \/ v.text = text
        PROVE  /\ EndsIn(inbox'[s], Edits, EditsTo(text))
               /\ Comes(inbox'[s], Edits) \/ view'[s].text = text
    <3>1. view'[s].text = IF f \in Edits THEN f.arg ELSE v.text
      BY <1>2, <1>3, <1>7, <2>1, Applied
    <3>2. f \in EditsTo(text) => f.arg = text
      BY DEF EditsTo
    <3> QED BY <1>5, <1>6, <2>1, <3>1, <3>2
  <2> QED BY <1>1, <1>2, <1>3, <1>8, <2>1 DEF TextSpreads
<1>13. ReactionsSpread'
  <2>1. ASSUME ~deleted, NEW u \in Users, NEW e \in Emoji,
               EndsIn(inbox[s], Turns(u, e), RightTurns(u, e)),
               \/ Comes(inbox[s], Turns(u, e))
               \/ <<u, e>> \in v.reacted <=> <<u, e>> \in Reacted
        PROVE  /\ EndsIn(inbox'[s], Turns(u, e), RightTurns(u, e))
               /\ \/ Comes(inbox'[s], Turns(u, e))
                  \/ <<u, e>> \in view'[s].reacted <=> <<u, e>> \in Reacted
    <3>1. <<u, e>> \in view'[s].reacted <=>
            IF f \in Turns(u, e) THEN f.type = "add" ELSE <<u, e>> \in v.reacted
      BY <1>2, <1>3, <1>7, <2>1, Applied
    <3>2. f \in RightTurns(u, e) => (f.type = "add" <=> <<u, e>> \in Reacted)
      BY DEF RightTurns
    <3> QED BY <1>5, <1>6, <2>1, <3>1, <3>2
  <2>2. \A t \in Sockets, u \in Users, e \in Emoji : Owes(t, u, e)' <=> Owes(t, u, e)
    BY <1>1 DEF Owes, User
  <2>3. \A u \in Users, e \in Emoji : RightTurns(u, e)' = RightTurns(u, e)
    BY <1>4 DEF RightTurns
  <2> SUFFICES ASSUME ~deleted, NEW u \in Users \ (unsaid \cup overlapped), NEW e \in Emoji
               PROVE  /\ \A t \in Sockets :
                            Owes(t, u, e) => (handler[t].type = "add" <=> <<u, e>> \in Reacted)
                      /\ \/ \E t \in Sockets : Owes(t, u, e)
                         \/ \A t \in up : /\ EndsIn(inbox'[t], Turns(u, e), RightTurns(u, e))
                                          /\ \/ Comes(inbox'[t], Turns(u, e))
                                             \/ <<u, e>> \in view'[t].reacted <=> <<u, e>> \in Reacted
    BY <1>1, <1>4, <2>2, <2>3 DEF ReactionsSpread
  <2>4. CASE \E t \in Sockets : Owes(t, u, e)
    BY <2>4 DEF ReactionsSpread
  <2>5. CASE \A t \in up : /\ EndsIn(inbox[t], Turns(u, e), RightTurns(u, e))
                           /\ \/ Comes(inbox[t], Turns(u, e))
                              \/ <<u, e>> \in view[t].reacted <=> <<u, e>> \in Reacted
    BY <1>2, <1>3, <1>8, <2>1, <2>5 DEF ReactionsSpread
  <2> QED BY <2>4, <2>5 DEF ReactionsSpread
<1> QED BY <1>9, <1>10, <1>11, <1>12, <1>13

(* What a handler fails to say is on the record of its user.                 *)
LEMMA SilenceTold ==
  ASSUME DocInv, Orderly, Told, NEW s \in Sockets, BroadcastFails(s) \/ Crash(s)
  PROVE  Told'
<1>1. /\ handler'[s] = Idle /\ \A t \in Sockets \ {s} : handler'[t] = handler[t]
      /\ UNCHANGED <<text, deleted, reactions, deliveredTo, readBy, view, overlapped>>
      /\ unsaid \subseteq unsaid' /\ up' \subseteq up /\ up \subseteq Sockets
  BY Moves DEF BroadcastFails, Crash, DocInv, ReactInv, Typed, TypeOK, document, clients, Others
<1>2. handler[s].type # Nothing \/ handler[s].at = "drop" => User(s) \in unsaid'
  BY DEF BroadcastFails, Crash, DocInv, ReactInv, Typed, HandlersFit
<1>3. \A t \in up' : inbox'[t] = inbox[t]
  BY <1>1 DEF BroadcastFails, Crash, clients, DocInv, ReactInv, Typed, TypeOK
<1>4. ASSUME NEW t \in Sockets, NEW K, Comes(inbox'[t], K) PROVE Comes(inbox[t], K)
  <2>1. CASE inbox'[t] = inbox[t]
    BY <1>4, <2>1
  <2>2. CASE inbox'[t] = <<>>
    BY <1>4, <2>2 DEF Comes
  <2> QED BY <2>1, <2>2 DEF BroadcastFails, Crash, clients, DocInv, ReactInv, Typed, TypeOK
<1>5. /\ Reacted' = Reacted
      /\ handler'[s].type = Nothing /\ handler'[s].at = "idle"
  BY <1>1 DEF Reacted, Idle
<1> USE DEF Told
<1>6. NoRumours'
  BY <1>1, <1>4, <1>5 DEF NoRumours, Nothing, User
<1>7. DeletionSpreads'
  <2>1. handler[s].type = "deleted" => unsaid' \cap Privileged # {}
    BY <1>2 DEF Orderly, Nothing
  <2> QED BY <1>1, <1>3, <2>1 DEF DeletionSpreads
<1>8. ReceiptsSpread'
  <2>1. \A u \in Users \ unsaid', type \in {"delivered", "read"} :
          ~(User(s) = u /\ handler[s].type = type)
    BY <1>2 DEF Nothing
  <2> QED BY <1>1, <1>3, <2>1 DEF ReceiptsSpread, User
<1>9. TextSpreads'
  <2>1. handler[s].type = "edited" => Author \in unsaid'
    BY <1>2 DEF Orderly, Nothing
  <2> QED BY <1>1, <1>3, <1>5, <2>1 DEF TextSpreads, Nothing
<1>10. ReactionsSpread'
  <2>1. \A u \in Users \ unsaid', e \in Emoji : ~Owes(s, u, e) /\ ~Owes(s, u, e)'
    BY <1>2, <1>5 DEF Owes, Nothing
  <2>2. \A t \in Sockets \ {s}, u \in Users, e \in Emoji : Owes(t, u, e)' <=> Owes(t, u, e)
    BY <1>1 DEF Owes, User
  <2>3. \A u \in Users, e \in Emoji : RightTurns(u, e)' = RightTurns(u, e)
    BY <1>5 DEF RightTurns
  <2> QED BY <1>1, <1>3, <1>5, <2>1, <2>2, <2>3 DEF ReactionsSpread
<1> QED BY <1>6, <1>7, <1>8, <1>9, <1>10

LEMMA ClientStays ==
  ASSUME DocInv, NEW s \in Sockets,
         SaveEdit(s) \/ ConfirmDelete(s) \/ ToggleReaction(s) \/ Report(s)
  PROVE  Stays(s) /\ UNCHANGED <<clients, up, unsaid>> /\ overlapped \subseteq overlapped'
<1>1. PICK step, arg : Ask(s, step, arg) /\ step # "drop"
  <2>1. CASE SaveEdit(s)
    BY <2>1 DEF SaveEdit
  <2>2. CASE ConfirmDelete(s)
    BY <2>2 DEF ConfirmDelete
  <2>3. CASE ToggleReaction(s)
    BY <2>3 DEF ToggleReaction
  <2>4. CASE Report(s)
    BY <2>4 DEF Report
  <2> QED BY <2>1, <2>2, <2>3, <2>4
<1>2. Others(s) /\ Mute(handler[s]) /\ Mute(handler'[s])
  BY <1>1 DEF Ask, Idle, Mute, Others, DocInv, ReactInv, Typed, HandlersFit
<1> QED BY <1>1, <1>2 DEF Ask, Stays, document, Reacted

LEMMA ViewInitially == Init => ViewInv
<1> SUFFICES ASSUME Init PROVE ViewInv
  OBVIOUS
<1>1. DocInv
  BY DocInitially
<1>2. /\ \A s \in Sockets : /\ handler[s] = Idle /\ inbox[s] = <<>>
                            /\ view[s] = [shown |-> TRUE, text |-> text, reacted |-> {},
                                          delivered |-> {}, read |-> {}]
      /\ up = Sockets /\ ~deleted /\ reactions = {} /\ deliveredTo = {} /\ readBy = {}
  BY DEF Init
<1>3. Idle.at = "idle" /\ Idle.type = Nothing
  BY DEF Idle
<1>4. Orderly
  BY <1>2, <1>3 DEF Orderly, Nothing
<1>5. Reacted = {}
  BY <1>2 DEF Reacted
<1>6. ASSUME NEW K, NEW G PROVE ~Comes(<<>>, K) /\ EndsIn(<<>>, K, G)
  BY DEF Comes, EndsIn
<1>7. NoRumours
  BY <1>2, <1>3, <1>6 DEF NoRumours, Nothing
<1>8. DeletionSpreads /\ ReceiptsSpread
  BY <1>2 DEF DeletionSpreads, ReceiptsSpread
<1>9. TextSpreads
  BY <1>2, <1>3, <1>6 DEF TextSpreads, Nothing
<1>10. ReactionsSpread
  BY <1>2, <1>3, <1>5, <1>6 DEF ReactionsSpread, Owes, Nothing
<1> QED BY <1>1, <1>4, <1>7, <1>8, <1>9, <1>10 DEF ViewInv

LEMMA ViewPreserved == ViewInv /\ [Next]_vars => ViewInv'
<1> SUFFICES ASSUME ViewInv, [Next]_vars PROVE ViewInv'
  OBVIOUS
<1>1. DocInv /\ Orderly /\ Told /\ DocInv'
  BY DocStep DEF ViewInv, Told
<1>2. CASE UNCHANGED vars
  <2>1. UNCHANGED <<text, deleted, reactions, deliveredTo, readBy, handler, inbox, view, up,
                    unsaid, overlapped, Reacted>>
    BY <1>2 DEF vars, document, clients, bounds, Reacted
  <2>2. Orderly'
    BY <1>1, <2>1 DEF Orderly, User
  <2>3. NoRumours' /\ DeletionSpreads' /\ ReceiptsSpread' /\ TextSpreads'
    BY <1>1, <2>1 DEF Told, NoRumours, DeletionSpreads, ReceiptsSpread, TextSpreads, User
  <2>4. ReactionsSpread'
    BY <1>1, <2>1 DEF Told, ReactionsSpread, Owes, RightTurns, User
  <2> QED BY <1>1, <2>2, <2>3, <2>4 DEF ViewInv
<1>3. CASE Next
  <2>1. PICK s \in Sockets :
          \/ SaveEdit(s) \/ ConfirmDelete(s) \/ ToggleReaction(s) \/ Report(s)
          \/ Handle(s) \/ Receive(s) \/ BroadcastFails(s) \/ Crash(s)
    BY <1>3 DEF Next
  <2>2. Orderly'
    BY <1>1, <2>1, OrderlyPreserved
  <2>3. CASE SaveEdit(s) \/ ConfirmDelete(s) \/ ToggleReaction(s) \/ Report(s)
    BY <1>1, <2>2, <2>3, ClientStays, QuietTold DEF ViewInv, Told
  <2>4. CASE Handle(s) /\ ~Broadcast(s)
    <3>1. handler[s] # Idle
      BY <2>4 DEF Handle, EditWrite, DeleteFind, DeleteScrub, AddToEntry, AddExists, PushEntry,
                  PullFromEntry, DropEmpty, Mark, Idle
    <3>2. Told'
      <4>1. UNCHANGED <<clients, up, bounds>>
        BY <1>1, <2>4, ServerEffects
      <4>2. CASE Stays(s)
        BY <1>1, <4>1, <4>2, QuietTold DEF bounds
      <4>3. CASE WritesText(s) \/ Scrubs(s) \/ Marks(s)
        BY <1>1, <4>1, <4>3, EditTold, ScrubTold, MarkTold
      <4>4. CASE AddsPair(s) \/ PullsPair(s) \/ DropsPair(s)
        BY <1>1, <3>1, <4>1, <4>4, ReactionTold
      <4> QED BY <1>1, <2>4, <4>2, <4>3, <4>4, ServerEffects
    <3> QED BY <1>1, <2>2, <3>2 DEF ViewInv, Told
  <2>5. CASE Broadcast(s) \/ Receive(s) \/ BroadcastFails(s) \/ Crash(s)
    BY <1>1, <2>2, <2>5, BroadcastTold, ReceiveTold, SilenceTold DEF ViewInv, Told
  <2> QED BY <2>1, <2>3, <2>4, <2>5
<1> QED BY <1>2, <1>3

(* When all handlers have returned and all frames have arrived, every open  *)
(* tab shows what MongoDB holds, for any number of users, tabs, emoji and   *)
(* requests: deletions and receipts whatever overlapped, texts and          *)
(* reactions unless two tabs of the same user were served at once; only     *)
(* what a user's broadcast was lost on may differ.                          *)
THEOREM CopiesAgree == Spec => []ViewsConverge
<1>1. ViewInv => ViewsConverge
  <2> SUFFICES ASSUME ViewInv, AtRest, NEW s \in up
               PROVE  /\ ~view[s].shown => deleted
                      /\ deleted /\ view[s].shown => unsaid \cap (Admins \cup {Author}) # {}
                      /\ ~deleted => /\ \A u \in Users : Agree(view[s], u)
                                     /\ Author \notin unsaid \cup overlapped => view[s].text = text
    BY DEF ViewsConverge
  <2>1. s \in Sockets /\ \A t \in Sockets : handler[t] = Idle
    BY DEF ViewInv, Orderly, AtRest, DocInv, ReactInv, Typed, TypeOK
  <2>2. \A t \in Sockets : handler[t].type = Nothing /\ handler[t].at = "idle"
    BY <2>1 DEF Idle
  <2>3. ASSUME NEW K PROVE ~Comes(inbox[s], K)
    BY DEF AtRest, Comes
  <2>4. ~view[s].shown => deleted
    BY <2>1 DEF ViewInv, NoRumours
  <2>5. deleted /\ view[s].shown => unsaid \cap (Admins \cup {Author}) # {}
    BY <2>2, <2>3 DEF ViewInv, DeletionSpreads, Privileged, Nothing
  <2>6. ASSUME ~deleted, NEW u \in Users PROVE Agree(view[s], u)
    <3>1. ASSUME u \notin unsaid
          PROVE  (u \in view[s].delivered <=> u \in deliveredTo) /\ (u \in view[s].read <=> u \in readBy)
      <4>1. u \in deliveredTo => u \in view[s].delivered
        BY <2>2, <2>3, <2>6, <3>1 DEF ViewInv, ReceiptsSpread, Nothing
      <4>2. u \in readBy => u \in view[s].read
        BY <2>2, <2>3, <2>6, <3>1 DEF ViewInv, ReceiptsSpread, Nothing
      <4> QED BY <2>1, <4>1, <4>2 DEF ViewInv, NoRumours
    <3>2. ASSUME u \notin unsaid \cup overlapped, NEW e \in Emoji
          PROVE  <<u, e>> \in view[s].reacted <=> <<u, e>> \in Reacted
      <4>1. ~\E t \in Sockets : Owes(t, u, e)
        BY <2>2 DEF Owes, Nothing
      <4> QED BY <2>3, <2>6, <3>2, <4>1 DEF ViewInv, ReactionsSpread
    <3> QED BY <3>1, <3>2 DEF Agree
  <2>7. ~deleted /\ Author \notin unsaid \cup overlapped => view[s].text = text
    BY <2>2, <2>3 DEF ViewInv, TextSpreads, Nothing
  <2> QED BY <2>4, <2>5, <2>6, <2>7
<1> QED BY <1>1, ViewInitially, ViewPreserved, PTL DEF Spec
=============================================================================
