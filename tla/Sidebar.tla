------------------------------- MODULE Sidebar -------------------------------
(***************************************************************************)
(* What one browser tab shows of the user's workspaces, channels and direct*)
(* messages, and which workspace and channel it has open.  The lists are   *)
(* React Query caches of three GET routes; CHANNEL_UPDATED frames, and the *)
(* tab's own requests when they are answered, invalidate them.  Two effects*)
(* of the shell move the tab off a workspace that left the list and onto a *)
(* default channel.                                                        *)
(*                                                                         *)
(* The server's side is reduced to what the lists are read from and what is*)
(* announced to this user: Workspace and Subscriptions have the requests   *)
(* step by step.  Names and archiving do not change a list; the members of *)
(* the workspace are one more list of the same kind.  Two more occasions to*)
(* fetch are left out: the notification of an invitation, and the browser  *)
(* coming online again.                                                    *)
(*                                                                         *)
(* TabProofs extends this module beside Typing: names both would have,     *)
(* Init, Next, Spec, carry the prefix Sidebar here.                        *)
(***************************************************************************)
EXTENDS Integers, FiniteSets

CONSTANTS Workspaces, Channels,
          None,
          Home,       \* the workspace of a channel, None for a direct message
          Private,    \* the private channels
          General,    \* the channels named "general"
          MaxChanges, \* bound: requests, of this tab and of others, and clicks of the user
          MaxLosses   \* bound: drops, lost broadcasts, failed fetches

ASSUME HomeOfChannels == Home \in [Channels -> Workspaces \cup {None}] /\ None \notin Workspaces
ASSUME PrivateAreChannels == Private \subseteq Channels
ASSUME BoundsAreNaturals == {MaxChanges, MaxLosses} \subseteq Nat

\* Query keys: ['workspaces'], ['dms'], ['channels', w].
Rail == "workspaces"
Dms  == "dms"
Keys == {Rail, Dms} \cup Workspaces
\* Ids are ObjectIds: no workspace has a channel's, and none is a key's name.
ASSUME IdsApart == Workspaces \cap ({Rail, Dms} \cup Channels) = {}
DirectMessages == {c \in Channels : Home[c] = None}
InWorkspace(w) == {c \in Channels : Home[c] = w}

VARIABLES alive,     \* workspaces that exist
          member,    \* those the user is a member of
          exists,    \* channels that exist
          used,      \* ids ever given to a workspace or a channel
          mine,      \* channels whose memberIds hold the user
          conn,      \* is the tab's socket connected?
          wire,      \* CHANNEL_UPDATED broadcasts on their way: nothing orders those of two requests
          cache,     \* React Query: what is known under each key
          fetch,     \* React Query: the request in flight under each key
          mounted,   \* the workspace whose channels the shell observes
          activeWs, activeCh,
          ask,       \* the tab's own request
          missed,    \* history: lists with a change no fetch will bring: it was not announced
                     \* to the tab, or while a fetch was under way that was not begun again
          strayed,   \* history: the open channel was opened or lost unawares
          changes, losses

serverVars == <<alive, member, exists, used, mine>>
linkVars   == <<conn, wire>>
queryVars  == <<cache, fetch>>
storeVars  == <<activeWs, activeCh, strayed>>
bounds     == <<changes, losses>>
sidebarVars == <<serverVars, linkVars, queryVars, mounted, storeVars, ask, missed, bounds>>

Frames  == [change: {"created", "deleted", "members"},
            ch: Channels \cup {None}, ws: Workspaces \cup {None}]
NoAsk   == [at |-> "idle"]
Unknown == [known |-> FALSE, ok |-> FALSE, stale |-> FALSE, ids |-> {}]
Idle    == [at |-> "idle"]
Sent    == [at |-> "sent"]

SidebarTypeOK ==
  /\ member \subseteq alive /\ alive \subseteq Workspaces
  /\ exists \subseteq Channels /\ mine \subseteq exists
  /\ alive \cup exists \subseteq used
  /\ conn \in BOOLEAN /\ wire \subseteq Frames
  /\ \A k \in Keys : /\ cache[k].ids \subseteq Workspaces \cup Channels
                     /\ fetch[k].at \in {"idle", "sent", "read", "refused"}
  /\ {mounted, activeWs} \subseteq Workspaces \cup {None}
  /\ activeCh \in Channels \cup {None}
  /\ ask.at \in {"idle", "sent", "served"}
  /\ missed \subseteq Keys /\ strayed \in BOOLEAN

(***************************************************************************)
(* The lists, as the API answers them.                                     *)
(***************************************************************************)
Sees(c) == /\ c \in exists
           /\ IF Home[c] = None THEN c \in mine
              ELSE Home[c] \in member /\ (c \in Private => c \in mine)
MyDms          == {c \in DirectMessages : Sees(c)}
ChannelsOf(w)  == {c \in InWorkspace(w) : Sees(c)}
Listing(k)     == CASE k = Rail -> member [] k = Dms -> MyDms [] OTHER -> ChannelsOf(k)

\* The tab is connected and its first two lists have come; a workspace may be
\* remembered in localStorage, and its channels are yet to be fetched.
SidebarInit ==
  /\ alive \in SUBSET Workspaces /\ member \in SUBSET alive
  /\ mine \in SUBSET {c \in Private : Home[c] \in member}
  /\ exists = mine \cup {c \in Channels \ Private : Home[c] \in alive}
  /\ used = alive \cup exists
  /\ conn = TRUE /\ wire = {}
  /\ cache = [k \in Keys |->
                IF k \in Workspaces THEN Unknown
                ELSE [known |-> TRUE, ok |-> TRUE, stale |-> FALSE, ids |-> Listing(k)]]
  /\ fetch = [k \in Keys |-> Idle]
  /\ mounted = None
  /\ activeWs \in alive \cup {None} /\ activeCh = None
  /\ ask = NoAsk
  /\ missed = {} /\ strayed = FALSE
  /\ changes = 0 /\ losses = 0

Fault == losses < MaxLosses /\ losses' = losses + 1

(***************************************************************************)
(* React Query.                                                            *)
(***************************************************************************)
Observed == {Rail, Dms, mounted}

\* invalidateQueries(ks): an observed query is fetched again, and the fetch in
\* flight is cancelled; unless no answer ever came: then the first one stands.
\* The others are marked, to be fetched when they are observed; a fetch still in
\* flight for one of them goes on, and its answer wipes the mark out.
Refetched(ks) == {k \in ks \cap Observed : fetch[k] = Idle \/ cache[k].known}

Invalidate(ks) ==
  /\ fetch' = [k \in Keys |-> IF k \in Refetched(ks) THEN Sent ELSE fetch[k]]
  /\ cache' = [k \in Keys |-> [cache[k] EXCEPT !.stale = @ \/ k \in ks]]
  /\ missed' = missed \cup {k \in ks \ Refetched(ks) : fetch[k].at \in {"read", "refused"}}

\* GET /:id/channels is refused to one who is no member; a refusal repairs nothing.
Read(k) ==
  /\ fetch[k] = Sent
  /\ fetch' = [fetch EXCEPT ![k] = IF k \in Workspaces \ member THEN [at |-> "refused"]
                                   ELSE [at |-> "read", ids |-> Listing(k)]]
  /\ missed' = IF k \in Workspaces \ member THEN missed ELSE missed \ {k}
  /\ UNCHANGED <<serverVars, linkVars, cache, mounted, storeVars, ask, bounds>>

\* A failed refetch keeps the data that was there.
Fail(k) ==
  /\ fetch' = [fetch EXCEPT ![k] = Idle]
  /\ cache' = [cache EXCEPT ![k].ok = FALSE, ![k].stale = TRUE]
  /\ UNCHANGED <<serverVars, linkVars, mounted, storeVars, ask, changes>>

Refused(k) == fetch[k].at = "refused" /\ Fail(k) /\ UNCHANGED <<missed, losses>>
Failed(k)  == fetch[k] = Sent /\ Fault /\ Fail(k) /\ missed' = missed \cup {k}

Answered(k) ==
  /\ fetch[k].at = "read"
  /\ fetch' = [fetch EXCEPT ![k] = Idle]
  /\ cache' = [cache EXCEPT ![k] = [known |-> TRUE, ok |-> TRUE, stale |-> FALSE,
                                    ids |-> fetch[k].ids]]
  /\ UNCHANGED <<serverVars, linkVars, mounted, storeVars, ask, missed, bounds>>
(***************************************************************************)
(* What happens on the server: the user (by = "me") or somebody else does  *)
(* it, through Workspace's and Subscriptions' requests.                    *)
(***************************************************************************)
Frame(change, c, w) == [change |-> change, ch |-> c, ws |-> w]

\* Which keys a CHANNEL_UPDATED frame invalidates.  Mutant: only the channels.
KeysOfChannels(f) == IF f.ws # None THEN {f.ws} ELSE {Dms}
KeysOf(f) == IF f.ws = None THEN {Dms}
             ELSE {f.ws} \cup (IF f.change = "members" THEN {Rail} ELSE {})

\* A push that does not reach the tab is gone: CONNECTED invalidates no list.
Missing(fs) == missed \cup UNION {KeysOf(f) : f \in fs}
Straying(fs) == strayed \/ \E f \in fs : f.change = "deleted" /\ f.ch = activeCh

TellOr(fs, unaware) ==
  IF conn THEN /\ wire' = wire \cup fs
               /\ strayed' = (strayed \/ unaware) /\ UNCHANGED missed
  ELSE /\ missed' = Missing(fs)
       /\ strayed' = (Straying(fs) \/ unaware) /\ UNCHANGED wire
Tell(fs)   == TellOr(fs, FALSE)
TellNobody == UNCHANGED <<wire, missed, strayed>>

\* Creating a workspace and deleting one is announced to nobody.
CreateWorkspace(w) ==
  /\ w \notin used
  /\ alive' = alive \cup {w} /\ member' = member \cup {w}
  /\ exists' = exists \cup (InWorkspace(w) \ Private)
  /\ used' = used \cup {w} \cup (InWorkspace(w) \ Private)
  /\ TellNobody
  /\ UNCHANGED mine

DeleteWorkspace(w, byMe) ==
  /\ w \in member
  /\ alive' = alive \ {w} /\ member' = member \ {w}
  /\ exists' = exists \ InWorkspace(w) /\ mine' = mine \ InWorkspace(w)
  /\ missed' = IF byMe THEN missed ELSE missed \cup {Rail, w}
  /\ UNCHANGED <<used, wire, strayed>>

\* notifyMembershipChange, by addMember and by the removal of a member.  A room
\* left open through a removal is not open to one who is let in again: a tab that
\* did not look in between cannot tell.
AddMember(w) ==
  /\ w \in alive \ member
  /\ member' = member \cup {w}
  /\ TellOr({Frame("members", None, w)},
            activeCh # None /\ Home[activeCh] = w /\ activeCh \notin exists \ Private)
  /\ UNCHANGED <<alive, exists, used, mine>>

RemoveMember(w) ==
  /\ w \in member
  /\ member' = member \ {w} /\ mine' = mine \ InWorkspace(w)
  /\ Tell({Frame("members", None, w)})
  /\ UNCHANGED <<alive, exists, used>>

\* A public channel is announced to the workspace, a private one to its members.
CreateRoom(c, withMe) ==
  /\ c \notin used /\ Home[c] \in alive
  /\ withMe => Home[c] \in member
  /\ exists' = exists \cup {c} /\ used' = used \cup {c}
  /\ mine' = IF c \in Private /\ withMe THEN mine \cup {c} ELSE mine
  /\ Tell(IF Home[c] \in member /\ (c \in Private => withMe)
          THEN {Frame("created", c, Home[c])} ELSE {})
  /\ UNCHANGED <<alive, member>>

DeleteRoom(c) ==
  /\ c \in exists \ General /\ Home[c] # None
  /\ exists' = exists \ {c} /\ mine' = mine \ {c}
  /\ Tell(IF Sees(c) THEN {Frame("deleted", c, Home[c])} ELSE {})
  /\ UNCHANGED <<alive, member, used>>

AddToRoom(c) ==
  /\ c \in (exists \cap Private) \ mine /\ Home[c] \in member
  /\ mine' = mine \cup {c}
  /\ Tell({Frame("members", c, Home[c]), Frame("created", c, Home[c])})
  /\ UNCHANGED <<alive, member, exists, used>>

TakeFromRoom(c) ==
  /\ c \in mine /\ Home[c] # None
  /\ mine' = mine \ {c}
  /\ Tell({Frame("members", c, Home[c]), Frame("deleted", c, Home[c])})
  /\ UNCHANGED <<alive, member, exists, used>>

\* The one who opens a direct message is not told of it; opening it again finds it.
OpenDm(c, byMe) ==
  /\ Home[c] = None
  /\ exists' = exists \cup {c} /\ used' = used \cup {c} /\ mine' = mine \cup {c}
  /\ Tell(IF c \in exists \/ byMe THEN {} ELSE {Frame("created", c, None)})
  /\ UNCHANGED <<alive, member>>

(***************************************************************************)
(* Others act.                                                             *)
(***************************************************************************)
Elsewhere ==
  /\ changes < MaxChanges /\ changes' = changes + 1
  /\ \/ \E w \in Workspaces : AddMember(w) \/ RemoveMember(w) \/ DeleteWorkspace(w, FALSE)
     \/ \E c \in Channels : \/ \E b \in BOOLEAN : CreateRoom(c, b)
                            \/ DeleteRoom(c) \/ AddToRoom(c) \/ TakeFromRoom(c)
                            \/ OpenDm(c, FALSE)
  /\ UNCHANGED <<conn, queryVars, mounted, activeWs, activeCh, ask, losses>>

\* Somebody comes online or goes: the direct messages are fetched again.
PresenceFlips ==
  /\ conn /\ changes < MaxChanges /\ changes' = changes + 1
  /\ Invalidate({Dms})
  /\ UNCHANGED <<serverVars, linkVars, mounted, storeVars, ask, losses>>

(***************************************************************************)
(* Frames.                                                                 *)
(***************************************************************************)
\* Redis does not take it, or the socket is not subscribed to the workspace yet.
PublishLost(f) ==
  /\ f \in wire /\ Fault
  /\ wire' = wire \ {f}
  /\ missed' = Missing({f}) /\ strayed' = Straying({f})
  /\ UNCHANGED <<serverVars, conn, queryVars, mounted, activeWs, activeCh, ask, changes>>

Connect ==
  /\ ~conn
  /\ conn' = TRUE
  /\ UNCHANGED <<serverVars, wire, queryVars, mounted, storeVars, ask, missed, bounds>>

Drop ==
  /\ conn /\ Fault
  /\ conn' = FALSE /\ wire' = {}
  /\ missed' = Missing(wire) /\ strayed' = Straying(wire)
  /\ UNCHANGED <<serverVars, queryVars, mounted, activeWs, activeCh, ask, changes>>

(***************************************************************************)
(* The store.                                                              *)
(***************************************************************************)
SetActiveWorkspace(w) == activeWs' = w /\ activeCh' = None /\ strayed' = FALSE

\* A channel opened in spite of what the server would say, or under another
\* workspace than its own, strays: no frame and no effect closes it.
Opened(c, w) == /\ activeCh' = c
                /\ strayed' = (c # None /\ ~(Sees(c) /\ Home[c] \in {None, w}))
SetActiveChannel(c) == Opened(c, activeWs) /\ UNCHANGED activeWs

\* CHANNEL_UPDATED.  Mutant: the open channel stays.
OnFrameKeeps(f) ==
  /\ f \in wire
  /\ wire' = wire \ {f}
  /\ Invalidate(KeysOf(f))
  /\ UNCHANGED <<serverVars, conn, mounted, storeVars, ask, bounds>>
OnFrame(f) ==
  /\ f \in wire
  /\ wire' = wire \ {f}
  /\ Invalidate(KeysOf(f))
  /\ IF f.change = "deleted" /\ f.ch = activeCh THEN SetActiveChannel(None)
     ELSE UNCHANGED storeVars
  /\ UNCHANGED <<serverVars, conn, mounted, ask, bounds>>

(***************************************************************************)
(* The shell renders: the channels of the workspace shown are observed, and*)
(* the two effects run.                                                    *)
(***************************************************************************)
InView == IF activeWs \in cache[Rail].ids THEN activeWs ELSE None

\* An observed query is fetched when it is unknown, marked, or 15 seconds old.
Stale == mounted # InView
Mount ==
  /\ Stale
  /\ mounted' = InView
  /\ \E old \in BOOLEAN :
       fetch' = [k \in Keys |->
                   IF k = InView /\ fetch[k] = Idle /\ (~cache[k].known \/ cache[k].stale \/ old)
                   THEN Sent ELSE fetch[k]]
  /\ UNCHANGED <<serverVars, linkVars, cache, storeVars, ask, missed, bounds>>

\* "Pick a valid workspace (stored one may be gone after leaving/deleting)."
Astray == /\ cache[Rail].ok /\ activeWs \notin cache[Rail].ids
          /\ cache[Rail].ids # {} \/ activeWs # None
PickWorkspace ==
  /\ Astray
  /\ \E w \in IF cache[Rail].ids = {} THEN {None} ELSE cache[Rail].ids : SetActiveWorkspace(w)
  /\ UNCHANGED <<serverVars, linkVars, queryVars, mounted, ask, missed, bounds>>

\* "Default to #general (or the first channel) once channels load."
NoneOpen == /\ activeCh = None /\ mounted = InView /\ InView # None
            /\ cache[InView].ok /\ cache[InView].ids # {}
PickChannel ==
  /\ NoneOpen
  /\ LET named == cache[InView].ids \cap General
     IN  \E c \in IF named # {} THEN named ELSE cache[InView].ids : SetActiveChannel(c)
  /\ UNCHANGED <<serverVars, linkVars, queryVars, mounted, ask, missed, bounds>>

(***************************************************************************)
(* The user.                                                               *)
(***************************************************************************)
Click == /\ changes < MaxChanges /\ changes' = changes + 1
         /\ UNCHANGED <<serverVars, linkVars, queryVars, mounted, ask, missed, losses>>

SelectWorkspace(w) == w \in cache[Rail].ids /\ SetActiveWorkspace(w) /\ Click

SelectChannel(c) ==
  /\ mounted = InView /\ InView # None
  /\ c \in cache[InView].ids \cup cache[Dms].ids
  /\ SetActiveChannel(c) /\ Click

\* openNotification, and goToChannel from a search: both first go to the channel's workspace.
OpenIn(c) == /\ activeWs' = IF Home[c] = None THEN activeWs ELSE Home[c]
             /\ Opened(c, activeWs')

OpenNotification(c) == c \in used /\ OpenIn(c) /\ Click

(***************************************************************************)
(* The tab's own requests: the modals and messageUser.  One is under way at*)
(* a time; the modal may be closed meanwhile.                              *)
(***************************************************************************)
Ask(op, x) ==
  /\ ask = NoAsk /\ changes < MaxChanges
  /\ changes' = changes + 1
  /\ ask' = [at |-> "sent", op |-> op, on |-> x]
  /\ UNCHANGED <<serverVars, linkVars, queryVars, mounted, storeVars, missed, losses>>

Listed(c) == InView # None /\ Home[c] = InView /\ c \in cache[InView].ids

CreateWorkspaceModal == \E w \in Workspaces : Ask("create", w)
JoinWorkspaceModal   == \E w \in Workspaces : Ask("join", w)
LeaveOrDestroy       == InView # None /\ \E op \in {"leave", "destroy"} : Ask(op, InView)
CreateChannelModal   == InView # None /\ \E c \in InWorkspace(InView) : Ask("room", c)
ChannelSettings      == \E c \in Channels, op \in {"close", "quit"} : Listed(c) /\ Ask(op, c)
NewDmModal           == \E c \in DirectMessages : Ask("dm", c)

Asking == \/ CreateWorkspaceModal \/ JoinWorkspaceModal \/ LeaveOrDestroy
          \/ CreateChannelModal \/ ChannelSettings \/ NewDmModal

Did(op, x) == \/ op = "create" /\ CreateWorkspace(x)
              \/ op = "join" /\ AddMember(x)
              \/ op = "leave" /\ RemoveMember(x)
              \/ op = "destroy" /\ DeleteWorkspace(x, TRUE)
              \/ op = "room" /\ CreateRoom(x, TRUE)
              \/ op = "close" /\ DeleteRoom(x) /\ Sees(x)
              \/ op = "quit" /\ TakeFromRoom(x)
              \/ op = "dm" /\ OpenDm(x, TRUE)

Serve ==
  /\ ask.at = "sent"
  /\ ask' = [ask EXCEPT !.at = "served"]
  /\ Did(ask.op, ask.on)
  /\ UNCHANGED <<conn, queryVars, mounted, activeWs, activeCh, bounds>>

\* Refused, or no longer possible: an error is shown and nothing is fetched.
AskRefused ==
  /\ ask.at = "sent"
  /\ ask' = NoAsk
  /\ UNCHANGED <<serverVars, linkVars, queryVars, mounted, storeVars, missed, bounds>>

\* onSuccess.
AskAnswered ==
  /\ ask.at = "served"
  /\ LET x == ask.on
     IN  CASE ask.op \in {"create", "join"}   -> Invalidate({Rail}) /\ SetActiveWorkspace(x)
           [] ask.op \in {"leave", "destroy"} -> Invalidate({Rail}) /\ SetActiveWorkspace(None)
           [] ask.op = "room"                 -> Invalidate({Home[x]}) /\ SetActiveChannel(x)
           [] ask.op = "close"                -> Invalidate({Home[x]}) /\ SetActiveChannel(None)
           [] ask.op = "quit"                 -> Invalidate({Home[x]}) /\ UNCHANGED storeVars
           [] ask.op = "dm"                   -> Invalidate({Dms}) /\ SetActiveChannel(x)
  /\ ask' = NoAsk
  /\ UNCHANGED <<serverVars, linkVars, mounted, bounds>>

\* Done, but the answer is lost: the error is shown, nothing is fetched.
AnswerLost ==
  /\ ask.at = "served" /\ Fault
  /\ ask' = NoAsk
  /\ missed' = missed \cup CASE ask.op \in {"create", "destroy"} -> {Rail, ask.on}
                             [] ask.op = "dm" -> {Dms}
                             [] OTHER -> {}
  /\ UNCHANGED <<serverVars, linkVars, queryVars, mounted, storeVars, changes>>

Effects == Mount \/ PickWorkspace \/ PickChannel

SidebarNext ==
  \/ Elsewhere \/ PresenceFlips
  \/ (\E f \in wire : OnFrame(f) \/ PublishLost(f))
  \/ Connect \/ Drop
  \/ (\E k \in Keys : Read(k) \/ Refused(k) \/ Failed(k) \/ Answered(k))
  \/ Effects
  \/ (\E w \in Workspaces : SelectWorkspace(w))
  \/ (\E c \in Channels : SelectChannel(c) \/ OpenNotification(c))
  \/ Asking \/ Serve \/ AskRefused \/ AskAnswered \/ AnswerLost

\* Requests are answered, frames delivered, effects run, and the socket
\* reconnects; the user and the others owe nothing.
Fairness == /\ WF_sidebarVars(Connect) /\ WF_sidebarVars(\E f \in wire : OnFrame(f))
            /\ \A k \in Keys : WF_sidebarVars(Read(k)) /\ WF_sidebarVars(Refused(k) \/ Answered(k))
            /\ WF_sidebarVars(Mount) /\ WF_sidebarVars(PickWorkspace)
            /\ WF_sidebarVars(AskRefused) /\ WF_sidebarVars(AskAnswered)

SidebarSpec == SidebarInit /\ [][SidebarNext]_sidebarVars /\ Fairness

(***************************************************************************)
(* Properties.                                                             *)
(***************************************************************************)
Settled == /\ conn /\ wire = {} /\ ask = NoAsk
           /\ \A k \in Keys : fetch[k] = Idle
           /\ ~Stale /\ ~Astray /\ ~NoneOpen

\* The channels of a workspace stay listed as long as the tab does not know that
\* the user has left it.
Excused == missed \cup (IF Rail \in missed THEN Workspaces \ member ELSE {})

\* When the tab is connected and nothing is under way, each list it shows is
\* the one the API would answer; unless a change of it was never announced to
\* the tab, or was announced too early for a fetch that was under way, or the
\* last fetch failed.
SidebarRight == Settled => \A k \in (Observed \cap Keys) \ Excused : cache[k].ids = Listing(k)

\* Then the open channel is one the user can see, in the open workspace.
OpenIsVisible == Settled /\ missed = {} /\ ~strayed /\ activeCh # None =>
                   Sees(activeCh) /\ Home[activeCh] \in {None, activeWs}

\* A workspace the user no longer belongs to is eventually left, unless the
\* tab was never told.
LostIsLeft == activeWs \in Workspaces \ member ~> \/ activeWs \in member \cup {None}
                                                  \/ missed # {}

\* "Pick a valid workspace" does not take the tab off a workspace the user belongs
\* to and was told of.  It does: creating or joining a workspace activates it
\* before the list that holds it has been fetched again.
NeverBounced == [][PickWorkspace => activeWs \notin member \/ wire # {} \/ missed # {}]_sidebarVars
=============================================================================
