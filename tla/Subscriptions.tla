---------------------------- MODULE Subscriptions ----------------------------
(***************************************************************************)
(* Which sockets of one WebSocket instance receive which channels: the     *)
(* connection registry (apps/websocket/src/registry.ts), the set-up and    *)
(* close of connections and applyChannelUpdate (index.ts), refreshScope    *)
(* and JOIN / LEAVE_CHANNEL (handlers/channels.ts), kept in step with the  *)
(* changes of membership that the API routes write to MongoDB and then     *)
(* announce on Redis.                                                      *)
(*                                                                         *)
(* Every await is a step boundary.  An in-flight call is a job: it reads,  *)
(* and later applies what it read.  A single workspace is modelled; the    *)
(* messages of one user about different workspaces are independent.        *)
(* A request of the API is atomic here but for the gap between its writes  *)
(* and its publishes, which reach Redis back to back; a request that       *)
(* changes nothing is left out unless it announces something all the same. *)
(* JOIN_CHANNEL asks MongoDB for the membership, not the Redis cache in    *)
(* front of it.                                                            *)
(***************************************************************************)
EXTENDS Naturals, Sequences, FiniteSets, SequencesExt

CONSTANTS
  User, Socket, Channel,
  Owner,       \* the user a socket authenticated as
  Kind,        \* "public", "private" or "dm"
  Slot,        \* names for concurrent calls on behalf of one socket
  MaxChanges   \* how many times the API changes something

ASSUME OwnerAssumption == Owner \in [Socket -> User]
ASSUME KindAssumption == Kind \in [Channel -> {"public", "private", "dm"}]
ASSUME UserAssumption == IsFiniteSet(User)
ASSUME MaxChangesAssumption == MaxChanges \in Nat

VARIABLES
  member,       \* WorkspaceMember: the users in the workspace
  status,       \* Channel documents: not created yet, existing, deleted
  memberIds,    \* channel.memberIds of private channels and DMs
  changes,      \* how many API requests have written
  outbox,       \* what requests have written and not yet announced
  bus,          \* announcements on ws:broadcast this instance has yet to handle
  conn,         \* readyState, as far as the instance knows
  ready,        \* the sockets whose set-up has finished
  connections,  \* registry: user -> registered sockets
  subscribers,  \* registry.channelSubscribers
  channels,     \* ws.channels
  inWorkspace,  \* the sockets whose ws.workspaceIds holds the workspace
  jobs,         \* calls in flight
  raced,        \* history: sockets whose user's access changed under a call
  crossed,      \* history: users a request wrote about before an earlier one about them was announced
  busyAtClose,  \* history: sockets that closed with a call in flight
  left,         \* history: <<socket, channel>> pairs a LEAVE_CHANNEL named
  untold        \* history: <<socket, channel>> pairs nobody announced

db == <<member, status, memberIds>>
api == <<db, changes, outbox>>
registry == <<connections, subscribers, channels, inWorkspace>>
history == <<raced, crossed, busyAtClose, left, untold>>
vars == <<api, bus, conn, ready, registry, jobs, history>>

(* Stands for any member who never connects to this instance. *)
Elsewhere == "elsewhere"

Event == [kind : {"rescope"}, user : User]
           \cup [kind : {"unsubscribe"}, user : User, chan : Channel]
           \cup [kind : {"subscribe", "drop"}, chan : Channel]
Job == [slot : Slot, sock : Socket, call : {"setup", "update", "join"},
        phase : {"workspaces", "channels", "check", "apply"},
        inside : BOOLEAN, scope : SUBSET Channel]

(* listAccessibleChannelIds, given what it read of the memberships before. *)
Visible(u, inside) ==
  {c \in Channel : status[c] = "live" /\ IF Kind[c] = "public" THEN inside ELSE u \in memberIds[c]}
Accessible(u) == Visible(u, u \in member)

SocketsOf(U) == UNION {connections[u] : u \in U}
Registered == SocketsOf(User)
Busy(s) == \E j \in jobs : j.sock = s

(* The instance starts beside a database with any consistent content. *)
MembersOf(c) ==
  IF status[c] = "new" \/ Kind[c] = "public" THEN {{}}
  ELSE {M \in SUBSET User : IF Kind[c] = "private" THEN M \subseteq member
                                                  ELSE Cardinality(M) \in 1..2}

Init ==
  /\ member \in SUBSET User
  /\ status \in [Channel -> {"new", "live"}]
  /\ memberIds \in [Channel -> SUBSET User]
  /\ \A c \in Channel : memberIds[c] \in MembersOf(c)
  /\ changes = 0 /\ outbox = {} /\ bus = <<>>
  /\ conn = [s \in Socket |-> "none"]
  /\ ready = {}
  /\ connections = [u \in User |-> {}]
  /\ subscribers = [c \in Channel |-> {}]
  /\ channels = [s \in Socket |-> {}]
  /\ inWorkspace = {}
  /\ jobs = {}
  /\ raced = {} /\ crossed = {} /\ busyAtClose = {} /\ left = {} /\ untold = {}

-----------------------------------------------------------------------------
(* Changes made by the API: the writes of one request, then its publishes.  *)
(* Frames that applyChannelUpdate ignores (renamed, archived, "members" to  *)
(* a workspace) are left out.                                               *)

Rescope(u)        == [kind |-> "rescope", user |-> u]
Unsubscribe(u, c) == [kind |-> "unsubscribe", user |-> u, chan |-> c]
RescopeEach(U)        == LET q == SetToSeq(U) IN [n \in DOMAIN q |-> Rescope(q[n])]
UnsubscribeEach(U, c) == LET q == SetToSeq(U) IN [n \in DOMAIN q |-> Unsubscribe(q[n], c)]

(* U: the users the request writes about, whether or not it changes what    *)
(* they may see.                                                            *)
Affected(u) == Accessible(u)' # Accessible(u) \/ (u \in member') # (u \in member)

Request(U, events) ==
  /\ changes < MaxChanges
  /\ changes' = changes + 1
  /\ outbox' = outbox \cup {[n |-> changes, users |-> U, events |-> events]}
  /\ raced' = raced \cup {s \in Socket : Owner[s] \in U /\ Busy(s) /\ Affected(Owner[s])}
  /\ crossed' = crossed \cup (U \cap UNION {r.users : r \in outbox})
  /\ UNCHANGED <<bus, conn, ready, registry, jobs, busyAtClose, left>>

AddMember(u) ==
  /\ u \notin member
  /\ member' = member \cup {u}
  /\ UNCHANGED <<status, memberIds, untold>>
  /\ Request({u}, <<Rescope(u)>>)

RemoveMember(u) ==
  /\ u \in member
  /\ member' = member \ {u}
  /\ memberIds' = [c \in Channel |-> IF Kind[c] = "private" THEN memberIds[c] \ {u} ELSE memberIds[c]]
  /\ UNCHANGED <<status, untold>>
  /\ Request({u}, <<Rescope(u)>>)

Create(c) == status[c] = "new" /\ status' = [status EXCEPT ![c] = "live"]

CreatePublic(c) ==
  /\ Kind[c] = "public" /\ member # {}
  /\ Create(c)
  /\ UNCHANGED <<member, memberIds, untold>>
  /\ Request(member, <<[kind |-> "subscribe", chan |-> c]>>)

CreatePrivate(c, M) ==
  /\ Kind[c] = "private" /\ M # {} /\ M \subseteq member
  /\ Create(c)
  /\ memberIds' = [memberIds EXCEPT ![c] = M]
  /\ UNCHANGED <<member, untold>>
  /\ Request(M, RescopeEach(M))

(* A DM between two people of whom one at least is in User.  Only the other *)
(* participant is told (dm.routes.ts:54), and only one in User can matter   *)
(* to this instance.                                                        *)
Tell(p) == IF p \in User THEN <<Rescope(p)>> ELSE <<>>
SocketsAs(p) == {s \in Socket : Owner[s] = p}

OpenDm(c, u, v) ==
  /\ Kind[c] = "dm" /\ u # v /\ {u, v} \cap User # {} /\ {u, v} \cap User \subseteq member
  /\ Create(c)
  /\ memberIds' = [memberIds EXCEPT ![c] = {u, v} \cap User]
  /\ untold' = untold \cup (SocketsAs(u) \X {c})
  /\ UNCHANGED member
  /\ Request({u, v} \cap User, Tell(v))

Live(c, kind) == status[c] = "live" /\ Kind[c] = kind

AddToPrivate(c, u) ==
  /\ Live(c, "private") /\ u \in member
  /\ memberIds' = [memberIds EXCEPT ![c] = @ \cup {u}]
  /\ UNCHANGED <<member, status, untold>>
  /\ Request({u}, RescopeEach(memberIds'[c]) \o <<Rescope(u)>>)

(* notifyChange is given the channel as it was before the $pull.  Whoever   *)
(* the request names is told, also when the $pull finds nothing to take.    *)
RemoveFromPrivate(c, u) ==
  /\ Live(c, "private")
  /\ memberIds' = [memberIds EXCEPT ![c] = @ \ {u}]
  /\ UNCHANGED <<member, status, untold>>
  /\ Request({u}, RescopeEach(memberIds[c]) \o <<Unsubscribe(u, c)>>)

DeleteChannel(c) ==
  /\ Live(c, "public") \/ Live(c, "private")
  /\ status' = [status EXCEPT ![c] = "gone"]
  /\ UNCHANGED <<member, memberIds, untold>>
  /\ Request({u \in User : c \in Accessible(u)},
             IF Kind[c] = "public" THEN <<[kind |-> "drop", chan |-> c]>>
                                   ELSE UnsubscribeEach(memberIds[c], c))

(* Nothing is published (workspace.routes.ts:130-151). *)
DeleteWorkspace ==
  /\ member # {}
  /\ member' = {}
  /\ status' = [c \in Channel |-> IF Kind[c] = "dm" THEN status[c] ELSE "gone"]
  /\ UNCHANGED <<memberIds, untold>>
  /\ Request(member, <<>>)

Publish(r) ==
  /\ bus' = bus \o r.events
  /\ outbox' = outbox \ {r}
  /\ UNCHANGED <<db, changes, conn, ready, registry, jobs, history>>

-----------------------------------------------------------------------------
(* Registry operations, for a set T of sockets or a whole scope at once *)

SubscribeAll(T, c) ==
  /\ subscribers' = [subscribers EXCEPT ![c] = @ \cup T]
  /\ channels' = [s \in Socket |-> IF s \in T THEN channels[s] \cup {c} ELSE channels[s]]

UnsubscribeAll(T, c) ==
  /\ subscribers' = [subscribers EXCEPT ![c] = @ \ T]
  /\ channels' = [s \in Socket |-> IF s \in T THEN channels[s] \ {c} ELSE channels[s]]

(* Mutant: the room is dropped, its sockets still believe they are in it. *)
DropChannelOnly(c) ==
  /\ subscribers' = [subscribers EXCEPT ![c] = {}]
  /\ UNCHANGED channels

DropChannel(c) ==
  /\ channels' = [s \in Socket |-> IF s \in subscribers[c] THEN channels[s] \ {c} ELSE channels[s]]
  /\ subscribers' = [subscribers EXCEPT ![c] = {}]

(* Leaves what is not wanted of ws.channels, subscribes to what is. *)
SetScope(s, wanted) ==
  /\ subscribers' = [c \in Channel |-> CASE c \in wanted -> subscribers[c] \cup {s}
                                        [] c \in channels[s] \ wanted -> subscribers[c] \ {s}
                                        [] OTHER -> subscribers[c]]
  /\ channels' = [channels EXCEPT ![s] = wanted]

-----------------------------------------------------------------------------
(* Connections *)

NewJob(s, n, call) ==
  [slot |-> n, sock |-> s, call |-> call, phase |-> "workspaces", inside |-> FALSE, scope |-> {}]
Free(n, s) == ~\E j \in jobs : j.slot = n /\ j.sock = s
Advance(j, k) == jobs' = (jobs \ {j}) \cup {k}
Finish(j) == jobs' = jobs \ {j}

Connect(s) ==
  /\ conn[s] = "none"
  /\ conn' = [conn EXCEPT ![s] = "open"]
  /\ \E n \in Slot : jobs' = jobs \cup {NewJob(s, n, "setup")}
  /\ UNCHANGED <<api, bus, ready, registry, history>>

(* Mutant: a socket that closes stays in its rooms. *)
CloseKeepsRooms(s) ==
  /\ conn[s] = "open"
  /\ conn' = [conn EXCEPT ![s] = "closed"]
  /\ connections' = [connections EXCEPT ![Owner[s]] = @ \ {s}]
  /\ busyAtClose' = IF Busy(s) THEN busyAtClose \cup {s} ELSE busyAtClose
  /\ UNCHANGED <<api, bus, ready, subscribers, channels, inWorkspace, jobs, raced, crossed, left, untold>>

(* onClose: removeConnection, whether or not calls are still in flight *)
Close(s) ==
  /\ conn[s] = "open"
  /\ conn' = [conn EXCEPT ![s] = "closed"]
  /\ connections' = [connections EXCEPT ![Owner[s]] = @ \ {s}]
  /\ SetScope(s, {})
  /\ busyAtClose' = IF Busy(s) THEN busyAtClose \cup {s} ELSE busyAtClose
  /\ UNCHANGED <<api, bus, ready, inWorkspace, jobs, raced, crossed, left, untold>>

(* refreshScope: listAccessibleChannelIds reads the user's workspaces, then  *)
(* the channels; beside it getUserWorkspaceIds reads the workspaces once    *)
(* more, which may answer before or after.                                  *)
ReadWorkspaces(j) ==
  /\ j.phase = "workspaces"
  /\ Advance(j, [j EXCEPT !.phase = "channels", !.inside = (Owner[j.sock] \in member)])
  /\ UNCHANGED <<api, bus, conn, ready, registry, history>>

ReadChannels(j) ==
  /\ j.phase = "channels"
  /\ \E now \in {j.inside, Owner[j.sock] \in member} :
       Advance(j, [j EXCEPT !.phase = "apply", !.scope = Visible(Owner[j.sock], j.inside), !.inside = now])
  /\ UNCHANGED <<api, bus, conn, ready, registry, history>>

(* Mutant: refreshScope does not renew ws.workspaceIds. *)
ApplyChannelsOnly(j) ==
  LET s == j.sock IN
  /\ j.phase = "apply" /\ j.call \in {"setup", "update"}
  /\ SetScope(s, j.scope)
  /\ IF j.call = "setup"
       THEN /\ connections' = [connections EXCEPT ![Owner[s]] = @ \cup {s}]
            /\ ready' = ready \cup {s}
       ELSE UNCHANGED <<connections, ready>>
  /\ Finish(j)
  /\ UNCHANGED <<api, bus, conn, inWorkspace, history>>

(* refreshScope's continuation; a set-up goes on to registerConnection.     *)
(* Neither looks at readyState.                                             *)
ApplyScope(j) ==
  LET s == j.sock IN
  /\ j.phase = "apply" /\ j.call \in {"setup", "update"}
  /\ SetScope(s, j.scope)
  /\ inWorkspace' = IF j.inside THEN inWorkspace \cup {s} ELSE inWorkspace \ {s}
  /\ IF j.call = "setup"
       THEN /\ connections' = [connections EXCEPT ![Owner[s]] = @ \cup {s}]
            /\ ready' = ready \cup {s}
       ELSE UNCHANGED <<connections, ready>>
  /\ Finish(j)
  /\ UNCHANGED <<api, bus, conn, history>>

(* A read rejects.  A set-up closes the socket with 1011, and until the     *)
(* close event the messages queued behind it are handled; an update is      *)
(* logged and given up; a join answers with an error.                       *)
CallFails(j) ==
  /\ j.phase # "apply"
  /\ Finish(j)
  /\ ready' = IF j.call = "setup" THEN ready \cup {j.sock} ELSE ready
  /\ raced' = IF j.call = "update" THEN raced \cup {j.sock} ELSE raced
  /\ UNCHANGED <<api, bus, conn, registry, crossed, busyAtClose, left, untold>>

(* JOIN_CHANNEL: one message of a socket is handled at a time. *)
Joining(s) == \E j \in jobs : j.sock = s /\ j.call = "join"

Join(s, c) ==
  /\ conn[s] = "open" /\ ~Joining(s)
  /\ \E n \in Slot :
       /\ Free(n, s)
       /\ jobs' = jobs \cup {[NewJob(s, n, "join") EXCEPT !.phase = "check", !.scope = {c}]}
  /\ UNCHANGED <<api, bus, conn, ready, registry, history>>

(* Mutant: JOIN_CHANNEL subscribes without asking for access. *)
JoinUnchecked(j) ==
  /\ j.phase = "check" /\ j.sock \in ready
  /\ Advance(j, [j EXCEPT !.phase = "apply"])
  /\ UNCHANGED <<api, bus, conn, ready, registry, history>>

(* requireChannel, once the set-up is over *)
JoinCheck(j) ==
  /\ j.phase = "check" /\ j.sock \in ready
  /\ IF j.scope \subseteq Accessible(Owner[j.sock])
       THEN Advance(j, [j EXCEPT !.phase = "apply"])
       ELSE Finish(j)
  /\ UNCHANGED <<api, bus, conn, ready, registry, history>>

JoinApply(j) ==
  /\ j.phase = "apply" /\ j.call = "join"
  /\ \E c \in j.scope : SubscribeAll({j.sock}, c)
  /\ Finish(j)
  /\ UNCHANGED <<api, bus, conn, ready, connections, inWorkspace, history>>

Leave(s, c) ==
  /\ conn[s] = "open" /\ s \in ready /\ ~Joining(s)
  /\ UnsubscribeAll({s}, c)
  /\ left' = left \cup {<<s, c>>}
  /\ UNCHANGED <<api, bus, conn, ready, connections, inWorkspace, jobs, raced, crossed, busyAtClose, untold>>

-----------------------------------------------------------------------------
(* applyChannelUpdate, one announcement at a time *)

Handle(kind) == bus # <<>> /\ Head(bus).kind = kind /\ bus' = Tail(bus)

OnRescope ==
  /\ Handle("rescope")
  /\ \E n \in Slot :
       LET targets == connections[Head(bus).user] IN
       /\ \A s \in targets : Free(n, s)
       /\ jobs' = jobs \cup {NewJob(s, n, "update") : s \in targets}
  /\ UNCHANGED <<api, conn, ready, registry, history>>

OnCreated ==
  /\ Handle("subscribe")
  /\ SubscribeAll(Registered \cap inWorkspace, Head(bus).chan)
  /\ UNCHANGED <<api, conn, ready, connections, inWorkspace, jobs, history>>

OnRemoved ==
  /\ Handle("unsubscribe")
  /\ UnsubscribeAll(connections[Head(bus).user], Head(bus).chan)
  /\ UNCHANGED <<api, conn, ready, connections, inWorkspace, jobs, history>>

OnDropped ==
  /\ Handle("drop")
  /\ DropChannel(Head(bus).chan)
  /\ UNCHANGED <<api, conn, ready, connections, inWorkspace, jobs, history>>

-----------------------------------------------------------------------------

ApiStep ==
  \/ \E u \in User : AddMember(u) \/ RemoveMember(u)
  \/ \E c \in Channel : CreatePublic(c) \/ DeleteChannel(c)
  \/ \E c \in Channel, M \in SUBSET User : CreatePrivate(c, M)
  \/ \E c \in Channel, u \in User : AddToPrivate(c, u) \/ RemoveFromPrivate(c, u)
  \/ \E c \in Channel, u, v \in User \cup {Elsewhere} : OpenDm(c, u, v)
  \/ DeleteWorkspace
  \/ \E r \in outbox : Publish(r)

JobStep ==
  \E j \in jobs : \/ ReadWorkspaces(j) \/ ReadChannels(j) \/ ApplyScope(j)
                  \/ JoinCheck(j) \/ JoinApply(j) \/ CallFails(j)

ClientStep ==
  \E s \in Socket : \/ Connect(s) \/ Close(s)
                    \/ \E c \in Channel : Join(s, c) \/ Leave(s, c)

BusStep == OnRescope \/ OnCreated \/ OnRemoved \/ OnDropped

Next == ApiStep \/ JobStep \/ ClientStep \/ BusStep

Spec == Init /\ [][Next]_vars

-----------------------------------------------------------------------------
(* Properties *)

(* Every variable stays in its range. *)
TypeOK ==
  /\ member \subseteq User
  /\ status \in [Channel -> {"new", "live", "gone"}]
  /\ memberIds \in [Channel -> SUBSET User]
  /\ changes \in 0..MaxChanges
  /\ \A r \in outbox : r.n \in 0..MaxChanges /\ r.users \subseteq User /\ r.events \in Seq(Event)
  /\ bus \in Seq(Event)
  /\ conn \in [Socket -> {"none", "open", "closed"}]
  /\ ready \subseteq Socket
  /\ connections \in [User -> SUBSET Socket]
  /\ subscribers \in [Channel -> SUBSET Socket]
  /\ channels \in [Socket -> SUBSET Channel]
  /\ inWorkspace \subseteq Socket
  /\ jobs \subseteq Job
  /\ raced \subseteq Socket /\ crossed \subseteq User /\ busyAtClose \subseteq Socket
  /\ left \subseteq Socket \X Channel /\ untold \subseteq Socket \X Channel

(* channelSubscribers and ws.channels are two sides of one relation after   *)
(* any sequence of subscribe, unsubscribe, dropChannel, refreshScope and    *)
(* removeConnection: no room keeps a socket that does not know it is in it  *)
(* (it would never be cleaned up), and none is missing.                     *)
IndexSymmetry == \A s \in Socket, c \in Channel : s \in subscribers[c] <=> c \in channels[s]

InIndex(s) == s \in Registered \/ \E c \in Channel : s \in subscribers[c]

(* A socket that closed while no call was in flight for it has left no      *)
(* trace in either index, and none comes back.                              *)
QuietCloseLeavesNothing ==
  \A s \in Socket : conn[s] = "closed" /\ s \notin busyAtClose => ~InIndex(s) /\ ~Busy(s)

Settled(s) ==
  /\ outbox = {} /\ bus = <<>> /\ ~Busy(s)
  /\ conn[s] = "open" /\ s \in Registered

(* Once every announcement is handled, a socket whose user's access never   *)
(* changed while a call was in flight for it receives no existing channel   *)
(* its user may not see ...                                                 *)
NoEavesdropping ==
  \A s \in Socket : Settled(s) /\ s \notin raced =>
    \A c \in channels[s] : status[c] = "live" => c \in Accessible(Owner[s])

(* ... and, unless two requests about its user could be announced in the    *)
(* wrong order (one that found nothing to change is one of them: its        *)
(* `deleted' frame may follow those of a later admission), it receives      *)
(* every channel its user may see, but for those it left itself and the DMs *)
(* its user opened.                                                         *)
NothingMissed ==
  \A s \in Socket : Settled(s) /\ s \notin raced /\ Owner[s] \notin crossed =>
    \A c \in Accessible(Owner[s]) \ channels[s] : <<s, c>> \in left \cup untold

(* registry.test.ts:68: the registry "cleans every index when a socket      *)
(* disconnects (no leaks)".                                                 *)
NoLeaks == \A s \in Socket : conn[s] = "closed" /\ ~Busy(s) => ~InIndex(s)

(* scripts/e2e.ts:299: a "removed member stops receiving".                  *)
RemovedStopsReceiving ==
  \A s \in Socket : Settled(s) =>
    \A c \in channels[s] : status[c] = "live" => c \in Accessible(Owner[s])

(* ARCHITECTURE.md:42: subscriptions are kept in step through               *)
(* CHANNEL_UPDATED frames ("new private channel/DM -> subscribe").          *)
DmReachesBoth ==
  \A s \in Socket, c \in Channel :
    Settled(s) /\ s \notin raced /\ <<s, c>> \notin left
    /\ Kind[c] = "dm" /\ c \in Accessible(Owner[s])
      => c \in channels[s]
=============================================================================
