------------------------------ MODULE Presence ------------------------------
(***************************************************************************)
(* Online presence of ONE user (the Redis keys of different users are      *)
(* disjoint), from packages/queue/src/presence.ts and its only callers in  *)
(* apps/websocket/src/index.ts: connection set-up, onClose, heartbeat.     *)
(*                                                                         *)
(* Every Redis command is a step of its own, so the commands of sockets    *)
(* on different instances interleave; those of one instance travel over    *)
(* its one connection (getRedis), hence in the order they were sent.  A    *)
(* command's step includes the continuation its reply wakes up: whatever   *)
(* the instance sends between execution and reply can as well be sent      *)
(* before the execution.                                                   *)
(*                                                                         *)
(* Time is counted in heartbeat periods (30 s), the TTL of both keys is    *)
(* Ttl periods.  A socket id is a fresh UUID: a member of Socket is used   *)
(* at most once.  A shutdown (index.ts:239-253) is some Close steps        *)
(* followed by a Crash.                                                    *)
(***************************************************************************)
EXTENDS Naturals, Sequences

CONSTANTS
  Instance,   \* WebSocket server processes
  Socket,     \* the sockets (tabs, devices) the user may ever open
  Home,       \* the instance each socket connects to
  Ttl,        \* PRESENCE_TTL_SECONDS in heartbeat periods
  MaxLate     \* a running instance refreshes at least every MaxLate periods

ASSUME HomeAssumption == Home \in [Socket -> Instance]
ASSUME TtlAssumption  == Ttl \in Nat /\ MaxLate \in Nat \ {0} /\ MaxLate < Ttl

VARIABLES
  online,      \* periods online:<userId> has left; 0 when the key is missing
  refs,        \* presence:sockets:<userId>; {} when the key is missing
  refsTtl,     \* periods that key has left; 0 when it is missing
  pipe,        \* the commands each instance has sent and Redis has not run
  up,          \* is the instance running
  since,       \* periods since the instance's last heartbeat
  conn,        \* the WebSocket itself
  isAlive,     \* ws.isAlive
  registered,  \* the sockets some instance holds in connections.get(userId)
  setup,       \* where the onConnection continuation of the socket stands
  shown,       \* what the last presence-updated event told the peers
  disturbed    \* history: an overlap, crash or failure happened (see PeersAgree)

keys == <<online, refs, refsTtl>>
sockets == <<conn, isAlive, registered, setup>>
vars == <<keys, pipe, up, since, sockets, shown, disturbed>>

ConnState  == {"none", "open", "lost", "closing", "closed"}
SetupState == {"idle", "scope", "redis", "peers", "over"}

(* addSocket sends "exists", then "addFirst" or "addAgain" (one MULTI, named *)
(* after wasOnline); removeSocket sends "srem", "scard", "del"; the others   *)
(* are announcePresence and refreshPresence.                                 *)
SetupCmd   == {"exists", "addFirst", "addAgain"}
CleanupCmd == {"srem", "scard", "del", "offline"}
Command    == [cmd : SetupCmd \cup CleanupCmd \cup {"online"}, of : Socket]
                \cup [cmd : {"refresh"}, of : Instance]

Sent(i, c, x) == [pipe EXCEPT ![i] = Append(@, [cmd |-> c, of |-> x])]
InFlight(i, C) == \E n \in DOMAIN pipe[i] : pipe[i][n].cmd \in C

SetupPending   == \E s \in Socket : setup[s] \notin {"idle", "over"}
CleanupPending == \E i \in Instance : InFlight(i, CleanupCmd)

(* Sockets the client holds open and addSocket has recorded. *)
Live == {s \in Socket : conn[s] = "open" /\ setup[s] \in {"peers", "over"}}

Init ==
  /\ online = 0 /\ refs = {} /\ refsTtl = 0
  /\ pipe = [i \in Instance |-> <<>>]
  /\ up = [i \in Instance |-> TRUE]
  /\ since = [i \in Instance |-> 0]
  /\ conn = [s \in Socket |-> "none"]
  /\ isAlive = [s \in Socket |-> FALSE]
  /\ registered = {}
  /\ setup = [s \in Socket |-> "idle"]
  /\ shown = FALSE
  /\ disturbed = FALSE

-----------------------------------------------------------------------------
(* The life of a WebSocket, as its instance sees it *)

Connect(s) ==
  /\ conn[s] = "none" /\ up[Home[s]]
  /\ conn' = [conn EXCEPT ![s] = "open"]
  /\ isAlive' = [isAlive EXCEPT ![s] = TRUE]
  /\ setup' = [setup EXCEPT ![s] = "scope"]
  /\ UNCHANGED <<keys, pipe, up, since, registered, shown, disturbed>>

(* refreshScope resolved: register and start addSocket.  Nothing looks at   *)
(* readyState, so a socket that closed meanwhile gets here as well.         *)
ScopeLoaded(s) ==
  /\ setup[s] = "scope"
  /\ registered' = registered \cup {s}
  /\ setup' = [setup EXCEPT ![s] = "redis"]
  /\ pipe' = Sent(Home[s], "exists", s)
  /\ disturbed' = (disturbed \/ CleanupPending)
  /\ UNCHANGED <<keys, up, since, conn, isAlive, shown>>

Connected(s) ==
  /\ setup[s] = "peers"
  /\ setup' = [setup EXCEPT ![s] = "over"]
  /\ UNCHANGED <<keys, pipe, up, since, conn, isAlive, registered, shown, disturbed>>

ServerClose(s) == conn' = [conn EXCEPT ![s] = IF @ = "closed" THEN @ ELSE "closing"]

(* A database read of the set-up rejects: the catch block closes with 1011. *)
SetupFail(s) ==
  /\ setup[s] \in {"scope", "peers"}
  /\ setup' = [setup EXCEPT ![s] = "over"]
  /\ ServerClose(s)
  /\ disturbed' = TRUE
  /\ UNCHANGED <<keys, pipe, up, since, isAlive, registered, shown>>

OnClose(s) ==
  /\ conn' = [conn EXCEPT ![s] = "closed"]
  /\ registered' = registered \ {s}
  /\ pipe' = IF s \in registered THEN Sent(Home[s], "srem", s) ELSE pipe
  /\ disturbed' = (disturbed \/ SetupPending)
  /\ UNCHANGED <<keys, up, since, isAlive, setup, shown>>

Close(s)      == conn[s] = "open" /\ OnClose(s)      \* the client leaves
Terminated(s) == conn[s] = "closing" /\ OnClose(s)   \* the server closed it

(* The peer vanishes without a FIN: nothing happens until a ping is missed. *)
Lose(s) ==
  /\ conn[s] = "open"
  /\ conn' = [conn EXCEPT ![s] = "lost"]
  /\ UNCHANGED <<keys, pipe, up, since, isAlive, registered, setup, shown, disturbed>>

Pong(s) ==
  /\ conn[s] = "open" /\ ~isAlive[s]
  /\ isAlive' = [isAlive EXCEPT ![s] = TRUE]
  /\ UNCHANGED <<keys, pipe, up, since, conn, registered, setup, shown, disturbed>>

(* Mutants: the timer refreshes users before it looks for missed pongs; or  *)
(* it only pings.                                                           *)
HeartbeatAll(i) ==
  LET mine == {s \in registered : Home[s] = i}
      alive == {s \in mine : isAlive[s]}
  IN  /\ up[i] /\ since[i] > 0
      /\ since' = [since EXCEPT ![i] = 0]
      /\ isAlive' = [s \in Socket |-> isAlive[s] /\ s \notin alive]
      /\ conn' = [s \in Socket |->
                    IF s \in mine \ alive /\ conn[s] # "closed" THEN "closing" ELSE conn[s]]
      /\ pipe' = IF mine # {} THEN Sent(i, "refresh", i) ELSE pipe
      /\ UNCHANGED <<keys, up, registered, setup, shown, disturbed>>

HeartbeatPings(i) ==
  LET mine == {s \in registered : Home[s] = i}
      alive == {s \in mine : isAlive[s]}
  IN  /\ up[i] /\ since[i] > 0
      /\ since' = [since EXCEPT ![i] = 0]
      /\ isAlive' = [s \in Socket |-> isAlive[s] /\ s \notin alive]
      /\ conn' = [s \in Socket |->
                    IF s \in mine \ alive /\ conn[s] # "closed" THEN "closing" ELSE conn[s]]
      /\ UNCHANGED <<keys, pipe, up, registered, setup, shown, disturbed>>

(* The heartbeat timer: a socket that missed its pong is terminated (a      *)
(* no-op when it is closed already), the others are pinged and their user's *)
(* presence refreshed.                                                      *)
Heartbeat(i) ==
  LET mine == {s \in registered : Home[s] = i}
      alive == {s \in mine : isAlive[s]}
  IN  /\ up[i] /\ since[i] > 0
      /\ since' = [since EXCEPT ![i] = 0]
      /\ isAlive' = [s \in Socket |-> isAlive[s] /\ s \notin alive]
      /\ conn' = [s \in Socket |->
                    IF s \in mine \ alive /\ conn[s] # "closed" THEN "closing" ELSE conn[s]]
      /\ pipe' = IF alive # {} THEN Sent(i, "refresh", i) ELSE pipe
      /\ UNCHANGED <<keys, up, registered, setup, shown, disturbed>>

-----------------------------------------------------------------------------
(* Redis runs the oldest command of an instance, and the instance goes on   *)
(* with the reply.                                                          *)

Popped(i) == [pipe EXCEPT ![i] = Tail(@)]
Reply(i, c, x) == [pipe EXCEPT ![i] = Append(Tail(@), [cmd |-> c, of |-> x])]
Runs(i, C) == pipe[i] # <<>> /\ Head(pipe[i]).cmd \in C

CheckOnline(i) ==
  LET s == Head(pipe[i]).of IN
  /\ Runs(i, {"exists"})
  /\ pipe' = Reply(i, IF online > 0 THEN "addAgain" ELSE "addFirst", s)
  /\ UNCHANGED <<keys, up, since, sockets, shown, disturbed>>

(* MULTI: sadd, expire, set EX.  The return value !wasOnline decides        *)
(* whether the user is announced.                                           *)
AddRef(i) ==
  LET s == Head(pipe[i]).of IN
  /\ Runs(i, {"addFirst", "addAgain"})
  /\ refs' = refs \cup {s}
  /\ refsTtl' = Ttl
  /\ online' = Ttl
  /\ setup' = [setup EXCEPT ![s] = "peers"]
  /\ pipe' = IF Runs(i, {"addFirst"}) THEN Reply(i, "online", s) ELSE Popped(i)
  /\ UNCHANGED <<up, since, conn, isAlive, registered, shown, disturbed>>

SRem(i) ==
  LET s == Head(pipe[i]).of IN
  /\ Runs(i, {"srem"})
  /\ refs' = refs \ {s}
  /\ refsTtl' = IF refs' = {} THEN 0 ELSE refsTtl
  /\ pipe' = Reply(i, "scard", s)
  /\ UNCHANGED <<online, up, since, sockets, shown, disturbed>>

(* Mutant: removeSocket takes the user offline without counting. *)
SCardIgnored(i) ==
  /\ Runs(i, {"scard"})
  /\ pipe' = Reply(i, "del", Head(pipe[i]).of)
  /\ UNCHANGED <<keys, up, since, sockets, shown, disturbed>>

SCard(i) ==
  /\ Runs(i, {"scard"})
  /\ pipe' = IF refs # {} THEN Popped(i) ELSE Reply(i, "del", Head(pipe[i]).of)
  /\ UNCHANGED <<keys, up, since, sockets, shown, disturbed>>

(* Mutant: the set of sockets is not deleted with the online key. *)
DelOnlineOnly(i) ==
  /\ Runs(i, {"del"})
  /\ online' = 0
  /\ pipe' = Reply(i, "offline", Head(pipe[i]).of)
  /\ UNCHANGED <<refs, refsTtl, up, since, sockets, shown, disturbed>>

Del(i) ==
  /\ Runs(i, {"del"})
  /\ online' = 0 /\ refs' = {} /\ refsTtl' = 0
  /\ pipe' = Reply(i, "offline", Head(pipe[i]).of)
  /\ UNCHANGED <<up, since, sockets, shown, disturbed>>

Announce(i) ==
  /\ Runs(i, {"online", "offline"})
  /\ shown' = (Head(pipe[i]).cmd = "online")
  /\ pipe' = Popped(i)
  /\ UNCHANGED <<keys, up, since, sockets, disturbed>>

(* Mutant: the refresh forgets the online key. *)
RefreshSetOnly(i) ==
  /\ Runs(i, {"refresh"})
  /\ refsTtl' = IF refs = {} THEN 0 ELSE Ttl
  /\ pipe' = Popped(i)
  /\ UNCHANGED <<online, refs, up, since, sockets, shown, disturbed>>

(* The two commands of the pipeline are one step: EXPIRE does nothing to a  *)
(* missing key and touches no key that SET touches.  It adds no member.     *)
Refresh(i) ==
  /\ Runs(i, {"refresh"})
  /\ refsTtl' = IF refs = {} THEN 0 ELSE Ttl
  /\ online' = Ttl
  /\ pipe' = Popped(i)
  /\ UNCHANGED <<refs, up, since, sockets, shown, disturbed>>

(* A command rejects without having run.  In addSocket that closes the      *)
(* socket, everywhere else it is logged.  (A failed refresh is a late one.) *)
Reject(i) ==
  LET s == Head(pipe[i]).of IN
  /\ pipe[i] # <<>> /\ ~Runs(i, {"refresh"})
  /\ pipe' = Popped(i)
  /\ IF Runs(i, SetupCmd)
       THEN setup' = [setup EXCEPT ![s] = "over"] /\ ServerClose(s)
       ELSE UNCHANGED <<setup, conn>>
  /\ disturbed' = TRUE
  /\ UNCHANGED <<keys, up, since, isAlive, registered, shown>>

-----------------------------------------------------------------------------

(* One heartbeat period passes; keys whose time is up expire.  No running   *)
(* instance is more than MaxLate periods late, and a refresh reaches Redis  *)
(* within the period.                                                       *)
Tick ==
  /\ \A i \in Instance : up[i] => since[i] < MaxLate /\ ~InFlight(i, {"refresh"})
  /\ since' = [i \in Instance |-> IF up[i] THEN since[i] + 1 ELSE 0]
  /\ online' = IF online = 0 THEN 0 ELSE online - 1
  /\ refsTtl' = IF refsTtl = 0 THEN 0 ELSE refsTtl - 1
  /\ refs' = IF refsTtl' = 0 THEN {} ELSE refs
  /\ UNCHANGED <<pipe, up, sockets, shown, disturbed>>

(* The process dies: its memory and sockets go, what it put in Redis stays. *)
Crash(i) ==
  LET mine == {s \in Socket : Home[s] = i /\ conn[s] # "none"} IN
  /\ up[i]
  /\ up' = [up EXCEPT ![i] = FALSE]
  /\ since' = [since EXCEPT ![i] = 0]
  /\ pipe' = [pipe EXCEPT ![i] = <<>>]
  /\ conn' = [s \in Socket |-> IF s \in mine THEN "closed" ELSE conn[s]]
  /\ isAlive' = [s \in Socket |-> isAlive[s] /\ s \notin mine]
  /\ registered' = registered \ mine
  /\ setup' = [s \in Socket |-> IF s \in mine THEN "over" ELSE setup[s]]
  /\ disturbed' = TRUE
  /\ UNCHANGED <<keys, shown>>

Restart(i) ==
  /\ ~up[i]
  /\ up' = [up EXCEPT ![i] = TRUE]
  /\ UNCHANGED <<keys, pipe, since, sockets, shown, disturbed>>

RunCommand(i) ==
  \/ CheckOnline(i) \/ AddRef(i) \/ SRem(i) \/ SCard(i) \/ Del(i)
  \/ Announce(i) \/ Refresh(i)

Next ==
  \/ \E s \in Socket : \/ Connect(s) \/ ScopeLoaded(s) \/ Connected(s) \/ SetupFail(s)
                       \/ Close(s) \/ Terminated(s) \/ Lose(s) \/ Pong(s)
  \/ \E i \in Instance : Heartbeat(i) \/ RunCommand(i) \/ Reject(i) \/ Crash(i) \/ Restart(i)
  \/ Tick

(* What the servers do on their own: pending continuations and close events *)
(* run (each once per socket, so one fairness condition serves all three),  *)
(* timers fire, Redis answers, time passes.  Clients and failures are not   *)
(* fair.                                                                    *)
SocketStep(s) == ScopeLoaded(s) \/ Connected(s) \/ Terminated(s)

Fairness ==
  /\ \A s \in Socket : WF_vars(SocketStep(s))
  /\ \A i \in Instance : WF_vars(Heartbeat(i)) /\ WF_vars(RunCommand(i))
  /\ WF_vars(Tick)

Spec == Init /\ [][Next]_vars
FairSpec == Spec /\ Fairness

-----------------------------------------------------------------------------
(* Properties *)

(* Every variable stays in its range. *)
TypeOK ==
  /\ online \in 0..Ttl /\ refsTtl \in 0..Ttl
  /\ refs \subseteq Socket /\ registered \subseteq Socket
  /\ pipe \in [Instance -> Seq(Command)]
  /\ up \in [Instance -> BOOLEAN] /\ since \in [Instance -> 0..MaxLate]
  /\ conn \in [Socket -> ConnState] /\ setup \in [Socket -> SetupState]
  /\ isAlive \in [Socket -> BOOLEAN]
  /\ shown \in BOOLEAN /\ disturbed \in BOOLEAN

(* The two keys never drift apart in the direction that hides a user: while *)
(* Redis holds a socket of the user, the online key exists and outlives the *)
(* set, whatever interleaving of addSocket, removeSocket, refreshPresence,  *)
(* expiry and crash led there.                                              *)
RefsImplyOnline ==
  /\ (refs = {}) <=> (refsTtl = 0)
  /\ refsTtl <= online

(* The 90 s TTL is long enough: the online key never expires while an open, *)
(* set-up socket is being served, even by an instance whose heartbeat runs  *)
(* up to MaxLate periods late.                                              *)
ExpiryMeansNobody == [][Tick /\ online = 1 => Live = {}]_vars

(* What the peers were last told is right whenever nothing is under way:    *)
(* unless a set-up overlapped a close, a command failed or a process died   *)
(* (disturbed), the user is shown online exactly while a socket is live.    *)
Quiet ==
  /\ ~SetupPending
  /\ \A i \in Instance : pipe[i] = <<>>
  /\ \A s \in Socket : conn[s] \notin {"lost", "closing"}
PeersAgree == ~disturbed /\ Quiet => (shown <=> Live # {})

(* Heartbeats heal: a socket that stays open forever has its user online    *)
(* from some time on, even after a removeSocket of another tab deleted the  *)
(* keys under it.                                                           *)
HeartbeatHeals ==
  \A s \in Socket : <>[](s \in Live) => <>[](online > 0)

(* TTLs heal: once no socket is open any more the online key goes for good, *)
(* whatever a crashed instance or a half-finished set-up left in Redis.     *)
GhostsExpire ==
  <>[](\A s \in Socket : conn[s] # "open") => <>[](online = 0 /\ refs = {})

(* presence.ts:15, on addSocket: "Returns true when this connection flipped *)
(* the user from offline -> online."                                        *)
FlipIsReported ==
  [][\A i \in Instance : AddRef(i) /\ online = 0 => Runs(i, {"addFirst"})]_vars

(* presence.ts:28, on removeSocket: "Returns true when this was the user's  *)
(* last socket (online -> offline)."                                        *)
LastSocketOnly == [][\A i \in Instance : Del(i) => Live = {}]_vars

(* presence.ts:8-9: "TTLs make a crashed instance's entries expire on their *)
(* own": once an instance is down for good, its sockets leave the set.      *)
CrashedEntriesExpire ==
  \A s \in Socket : <>[](~up[Home[s]]) => <>[](s \notin refs)
=============================================================================
