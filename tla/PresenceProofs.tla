---------------------------- MODULE PresenceProofs ----------------------------
(***************************************************************************)
(* For any number of instances and sockets, and any TTL longer than the    *)
(* lateness of a heartbeat: the two Redis keys agree, the online key never *)
(* expires under a socket that is being served, and the peers are told     *)
(* right as long as nothing disturbs the order of the commands.            *)
(***************************************************************************)
EXTENDS Presence, TLAPS

USE HomeAssumption, TtlAssumption

(* The commands an instance may send are those Command lists. *)
LEMMA Commands ==
  /\ \A s \in Socket, c \in SetupCmd \cup CleanupCmd \cup {"online"} : [cmd |-> c, of |-> s] \in Command
  /\ \A i \in Instance : [cmd |-> "refresh", of |-> i] \in Command
  /\ \A m \in Command : m.cmd # "refresh" => m.of \in Socket
BY DEF Command, SetupCmd, CleanupCmd

(* Sending, running and answering keep every pipe a sequence of commands. *)
LEMMA PipeTypes ==
  ASSUME pipe \in [Instance -> Seq(Command)], NEW i \in Instance
  PROVE  /\ \A c, x : [cmd |-> c, of |-> x] \in Command => Sent(i, c, x) \in [Instance -> Seq(Command)]
         /\ pipe[i] # <<>> => /\ Head(pipe[i]) \in Command
                              /\ Popped(i) \in [Instance -> Seq(Command)]
                              /\ \A c, x : [cmd |-> c, of |-> x] \in Command =>
                                             Reply(i, c, x) \in [Instance -> Seq(Command)]
<1>1. ASSUME NEW c, NEW x, [cmd |-> c, of |-> x] \in Command
      PROVE  Sent(i, c, x) \in [Instance -> Seq(Command)]
  BY <1>1 DEF Sent
<1>2. ASSUME pipe[i] # <<>>
      PROVE  Head(pipe[i]) \in Command /\ Popped(i) \in [Instance -> Seq(Command)]
  BY <1>2 DEF Popped
<1>3. ASSUME pipe[i] # <<>>, NEW c, NEW x, [cmd |-> c, of |-> x] \in Command
      PROVE  Reply(i, c, x) \in [Instance -> Seq(Command)]
  <2>1. Append(Tail(pipe[i]), [cmd |-> c, of |-> x]) \in Seq(Command)
    BY <1>3
  <2> QED BY <2>1 DEF Reply
<1> QED BY <1>1, <1>2, <1>3

-----------------------------------------------------------------------------
(* Type correctness *)

LEMMA SocketType ==
  ASSUME TypeOK, NEW s \in Socket,
         \/ Connect(s) \/ ScopeLoaded(s) \/ Connected(s) \/ SetupFail(s)
         \/ Close(s) \/ Terminated(s) \/ Lose(s) \/ Pong(s)
  PROVE  TypeOK'
<1>1. CASE Connect(s)
  BY <1>1 DEF Connect, TypeOK, keys, ConnState, SetupState
<1>2. CASE ScopeLoaded(s)
  <2>1. pipe' \in [Instance -> Seq(Command)]
    <3>1. [cmd |-> "exists", of |-> s] \in Command
      BY Commands DEF SetupCmd
    <3> QED BY <1>2, <3>1, PipeTypes DEF ScopeLoaded, TypeOK
  <2>2. disturbed' \in BOOLEAN
    BY <1>2, Zenon DEF ScopeLoaded
  <2> QED BY <1>2, <2>1, <2>2 DEF ScopeLoaded, TypeOK, keys, SetupState
<1>3. CASE Connected(s)
  BY <1>3 DEF Connected, TypeOK, keys, SetupState
<1>4. CASE SetupFail(s)
  BY <1>4 DEF SetupFail, ServerClose, TypeOK, keys, SetupState, ConnState
<1>5. CASE OnClose(s)
  <2>1. pipe' \in [Instance -> Seq(Command)]
    <3>1. [cmd |-> "srem", of |-> s] \in Command
      BY Commands DEF CleanupCmd
    <3> QED BY <1>5, <3>1, PipeTypes DEF OnClose, TypeOK
  <2>2. disturbed' \in BOOLEAN
    BY <1>5, Zenon DEF OnClose
  <2> QED BY <1>5, <2>1, <2>2 DEF OnClose, TypeOK, keys, ConnState
<1>6. CASE Lose(s)
  BY <1>6 DEF Lose, TypeOK, keys, ConnState
<1>7. CASE Pong(s)
  BY <1>7 DEF Pong, TypeOK, keys
<1> QED BY <1>1, <1>2, <1>3, <1>4, <1>5, <1>6, <1>7 DEF Close, Terminated

LEMMA CommandType ==
  ASSUME TypeOK, NEW i \in Instance, RunCommand(i) \/ Reject(i)
  PROVE  TypeOK'
<1>1. pipe[i] # <<>> /\ Head(pipe[i]) \in Command
  BY PipeTypes DEF TypeOK, RunCommand, CheckOnline, AddRef, SRem, SCard, Del, Announce, Refresh, Reject, Runs
<1> DEFINE s == Head(pipe[i]).of
<1>2. Head(pipe[i]).cmd # "refresh" => s \in Socket
  BY <1>1, Commands
<1>3. Popped(i) \in [Instance -> Seq(Command)]
  BY <1>1, PipeTypes DEF TypeOK
<1>4. ASSUME NEW c \in SetupCmd \cup CleanupCmd \cup {"online"}, s \in Socket
      PROVE  Reply(i, c, s) \in [Instance -> Seq(Command)]
  BY <1>1, <1>4, Commands, PipeTypes DEF TypeOK
<1>5. CASE CheckOnline(i)
  <2>1. pipe' \in [Instance -> Seq(Command)]
    BY <1>2, <1>4, <1>5 DEF CheckOnline, Runs, SetupCmd
  <2> QED BY <1>5, <2>1 DEF CheckOnline, TypeOK, keys, sockets
<1>6. CASE AddRef(i)
  <2>1. s \in Socket
    BY <1>2, <1>6 DEF AddRef, Runs
  <2>2. pipe' \in [Instance -> Seq(Command)]
    BY <1>3, <1>4, <1>6, <2>1 DEF AddRef
  <2> QED BY <1>6, <2>1, <2>2 DEF AddRef, TypeOK, SetupState
<1>7. CASE SRem(i)
  <2>1. pipe' \in [Instance -> Seq(Command)]
    BY <1>2, <1>4, <1>7 DEF SRem, Runs, CleanupCmd
  <2> QED BY <1>7, <2>1 DEF SRem, TypeOK, sockets
<1>8. CASE SCard(i)
  <2>1. pipe' \in [Instance -> Seq(Command)]
    BY <1>2, <1>3, <1>4, <1>8 DEF SCard, Runs, CleanupCmd
  <2> QED BY <1>8, <2>1 DEF SCard, TypeOK, keys, sockets
<1>9. CASE Del(i)
  <2>1. pipe' \in [Instance -> Seq(Command)]
    BY <1>2, <1>4, <1>9 DEF Del, Runs, CleanupCmd
  <2> QED BY <1>9, <2>1 DEF Del, TypeOK, sockets
<1>10. CASE Announce(i)
  BY <1>3, <1>10 DEF Announce, TypeOK, keys, sockets
<1>11. CASE Refresh(i)
  BY <1>3, <1>11 DEF Refresh, TypeOK, sockets
<1>12. CASE Reject(i)
  <2>1. setup' \in [Socket -> SetupState] /\ conn' \in [Socket -> ConnState]
    BY <1>12 DEF Reject, ServerClose, TypeOK, SetupState, ConnState
  <2> QED BY <1>3, <1>12, <2>1 DEF Reject, TypeOK, keys
<1> QED BY <1>5, <1>6, <1>7, <1>8, <1>9, <1>10, <1>11, <1>12 DEF RunCommand

LEMMA ProcessType ==
  ASSUME TypeOK, NEW i \in Instance, Heartbeat(i) \/ Crash(i) \/ Restart(i)
  PROVE  TypeOK'
<1>1. CASE Heartbeat(i)
  <2>1. pipe' \in [Instance -> Seq(Command)]
    BY <1>1, Commands, PipeTypes DEF Heartbeat, TypeOK
  <2>2. isAlive' \in [Socket -> BOOLEAN]
    BY <1>1, Zenon DEF Heartbeat, TypeOK
  <2>3. conn' \in [Socket -> ConnState]
    BY <1>1 DEF Heartbeat, TypeOK, ConnState
  <2> QED BY <1>1, <2>1, <2>2, <2>3 DEF Heartbeat, TypeOK, keys
<1>2. CASE Crash(i)
  <2>1. pipe' \in [Instance -> Seq(Command)]
    BY <1>2 DEF Crash, TypeOK
  <2>2. isAlive' \in [Socket -> BOOLEAN]
    BY <1>2, Zenon DEF Crash, TypeOK
  <2>3. conn' \in [Socket -> ConnState] /\ setup' \in [Socket -> SetupState]
    BY <1>2 DEF Crash, TypeOK, ConnState, SetupState
  <2> QED BY <1>2, <2>1, <2>2, <2>3 DEF Crash, TypeOK, keys
<1>3. CASE Restart(i)
  BY <1>3 DEF Restart, TypeOK, keys, sockets
<1> QED BY <1>1, <1>2, <1>3

LEMMA TickType == TypeOK /\ Tick => TypeOK'
<1> SUFFICES ASSUME TypeOK, Tick PROVE TypeOK'
  OBVIOUS
<1>1. since' \in [Instance -> 0..MaxLate]
  BY DEF Tick, TypeOK
<1>2. online' \in 0..Ttl /\ refsTtl' \in 0..Ttl /\ refs' \subseteq Socket
  BY DEF Tick, TypeOK
<1> QED BY <1>1, <1>2 DEF Tick, TypeOK, sockets

(* Every reachable state is well typed. *)
THEOREM TypeCorrect == Spec => []TypeOK
<1>1. Init => TypeOK
  <2>1. Init => isAlive \in [Socket -> BOOLEAN] /\ up \in [Instance -> BOOLEAN] /\ shown \in BOOLEAN
                  /\ disturbed \in BOOLEAN
    BY Zenon DEF Init
  <2>2. Init => /\ pipe \in [Instance -> Seq(Command)] /\ since \in [Instance -> 0..MaxLate]
                /\ conn \in [Socket -> ConnState] /\ setup \in [Socket -> SetupState]
    BY DEF Init, ConnState, SetupState
  <2> QED BY <2>1, <2>2 DEF Init, TypeOK
<1>2. TypeOK /\ UNCHANGED vars => TypeOK'
  BY DEF TypeOK, vars, keys, sockets
<1>3. TypeOK /\ [Next]_vars => TypeOK'
  BY <1>2, SocketType, CommandType, ProcessType, TickType DEF Next
<1> QED BY <1>1, <1>3, PTL DEF Spec

-----------------------------------------------------------------------------
(* The two keys agree *)

LEMMA KeysStep == TypeOK /\ RefsImplyOnline /\ [Next]_vars => RefsImplyOnline'
<1> SUFFICES ASSUME TypeOK, RefsImplyOnline, [Next]_vars PROVE RefsImplyOnline'
  OBVIOUS
<1>0. ASSUME UNCHANGED keys PROVE RefsImplyOnline'
  BY <1>0 DEF RefsImplyOnline, keys
<1>1. ASSUME NEW s \in Socket,
             \/ Connect(s) \/ ScopeLoaded(s) \/ Connected(s) \/ SetupFail(s)
             \/ Close(s) \/ Terminated(s) \/ Lose(s) \/ Pong(s)
      PROVE  RefsImplyOnline'
  BY <1>0, <1>1 DEF Connect, ScopeLoaded, Connected, SetupFail, Close, Terminated, OnClose, Lose, Pong
<1>2. ASSUME NEW i \in Instance, Heartbeat(i) \/ Crash(i) \/ Restart(i) \/ Reject(i)
      PROVE  RefsImplyOnline'
  BY <1>0, <1>2 DEF Heartbeat, Crash, Restart, Reject
<1>3. ASSUME NEW i \in Instance, RunCommand(i) PROVE RefsImplyOnline'
  <2>1. CASE AddRef(i)
    BY <2>1 DEF AddRef, RefsImplyOnline
  <2>2. CASE SRem(i)
    BY <2>2 DEF SRem, RefsImplyOnline, TypeOK
  <2>3. CASE Del(i)
    BY <2>3 DEF Del, RefsImplyOnline
  <2>4. CASE Refresh(i)
    BY <2>4 DEF Refresh, RefsImplyOnline
  <2> QED
    BY <1>0, <1>3, <2>1, <2>2, <2>3, <2>4 DEF RunCommand, CheckOnline, SCard, Announce
<1>4. CASE Tick
  BY <1>4 DEF Tick, RefsImplyOnline, TypeOK
<1>5. CASE UNCHANGED vars
  BY <1>0, <1>5 DEF vars
<1> QED BY <1>1, <1>2, <1>3, <1>4, <1>5 DEF Next

(* The set of sockets never outlives the online key: no user with a socket  *)
(* on record reads as offline.                                              *)
THEOREM KeysAgree == Spec => []RefsImplyOnline
<1>1. Init => RefsImplyOnline
  BY DEF Init, RefsImplyOnline
<1> QED BY <1>1, TypeCorrect, KeysStep, PTL DEF Spec

-----------------------------------------------------------------------------
(* The online key outlives every socket that is being served *)

(* The sockets a heartbeat still refreshes once addSocket has recorded them. *)
Kept == {s \in Socket : conn[s] \in {"open", "lost"} /\ setup[s] \in {"peers", "over"}}
Begun == {s \in Socket : setup[s] \notin {"idle", "scope"}}
Refreshers == {i \in Instance : InFlight(i, {"refresh"})}

(* Nothing is sent to Redis for a socket before ScopeLoaded. *)
CommandsBegun ==
  \A i \in Instance : \A n \in DOMAIN pipe[i] : pipe[i][n].cmd \in SetupCmd => pipe[i][n].of \in Begun

NoneIsIdle == \A s \in Socket : conn[s] = "none" => setup[s] = "idle"

(* The instance of a socket it believes open runs, and has the socket in its *)
(* registry once the set-up has got that far.                               *)
Served == \A s \in Socket : conn[s] \in {"open", "lost"} => up[Home[s]] /\ (s \in Begun => s \in registered)

(* The online key has at least the time left that the heartbeat of each     *)
(* kept socket still leaves it, or that heartbeat's refresh is on its way.  *)
Margin == \A s \in Kept : online > 0 => online + since[Home[s]] >= Ttl \/ Home[s] \in Refreshers

Inv == TypeOK /\ CommandsBegun /\ NoneIsIdle /\ Served /\ Margin

(* What a pipe holds after a command was sent, run or answered *)
Old(i, m) == \E n \in DOMAIN pipe[i] : pipe[i][n] = m

LEMMA SentContents ==
  ASSUME TypeOK, NEW i \in Instance, NEW c, NEW x, [cmd |-> c, of |-> x] \in Command, pipe' = Sent(i, c, x)
  PROVE  /\ \A j \in Instance : \A n \in DOMAIN pipe'[j] :
              Old(j, pipe'[j][n]) \/ pipe'[j][n] = [cmd |-> c, of |-> x]
         /\ Refreshers \subseteq Refreshers'
         /\ c = "refresh" => i \in Refreshers'
<1> DEFINE e == [cmd |-> c, of |-> x]
<1>1. pipe[i] \in Seq(Command) /\ pipe'[i] = Append(pipe[i], e)
  BY DEF TypeOK, Sent
<1>2. \A j \in Instance \ {i} : pipe'[j] = pipe[j]
  BY DEF TypeOK, Sent
<1>3. PICK k \in Nat : DOMAIN pipe[i] = 1..k /\ Len(pipe[i]) = k
  BY <1>1
<1> HIDE DEF e
<1>4. /\ DOMAIN pipe'[i] = 1..(k+1)
      /\ \A n \in 1..k : pipe'[i][n] = pipe[i][n]
      /\ pipe'[i][k+1] = e
  BY <1>1, <1>3
<1>5. \A n \in DOMAIN pipe'[i] : Old(i, pipe'[i][n]) \/ pipe'[i][n] = e
  BY <1>3, <1>4 DEF Old
<1>6. i \in Refreshers => i \in Refreshers'
  BY <1>3, <1>4 DEF Refreshers, InFlight
<1>7. e.cmd = "refresh" => i \in Refreshers'
  BY <1>3, <1>4 DEF Refreshers, InFlight
<1>9. ASSUME NEW j \in Instance
      PROVE  /\ \A n \in DOMAIN pipe'[j] : Old(j, pipe'[j][n]) \/ pipe'[j][n] = e
             /\ j \in Refreshers => j \in Refreshers'
  <2>1. CASE j = i
    BY <1>5, <1>6, <2>1 DEF Old, Refreshers, InFlight
  <2>2. CASE j # i
    <3>1. pipe'[j] = pipe[j]
      BY <1>2, <2>2
    <3> QED BY <3>1 DEF Old, Refreshers, InFlight
  <2> QED BY <2>1, <2>2
<1>10. Refreshers \subseteq Instance
  BY DEF Refreshers
<1> QED BY <1>10, <1>7, <1>9 DEF e

LEMMA PoppedContents ==
  ASSUME TypeOK, NEW i \in Instance, pipe[i] # <<>>, pipe' = Popped(i)
  PROVE  /\ \A j \in Instance : \A n \in DOMAIN pipe'[j] : Old(j, pipe'[j][n])
         /\ Head(pipe[i]).cmd # "refresh" => Refreshers \subseteq Refreshers'
<1>1. pipe[i] \in Seq(Command) /\ pipe'[i] = Tail(pipe[i])
  BY DEF TypeOK, Popped
<1>2. \A j \in Instance \ {i} : pipe'[j] = pipe[j]
  BY DEF TypeOK, Popped
<1>3. PICK k \in Nat : DOMAIN pipe[i] = 1..(k+1) /\ Len(pipe[i]) = k+1
  <2>1. Len(pipe[i]) \in Nat \ {0} /\ DOMAIN pipe[i] = 1..Len(pipe[i])
    BY <1>1
  <2>2. Len(pipe[i]) - 1 \in Nat /\ Len(pipe[i]) = (Len(pipe[i]) - 1) + 1
    BY <2>1
  <2> QED BY <2>1, <2>2
<1>4. /\ DOMAIN pipe'[i] = 1..k
      /\ \A n \in 1..k : pipe'[i][n] = pipe[i][n+1]
      /\ Head(pipe[i]) = pipe[i][1]
  BY <1>1, <1>3
<1>5. \A n \in DOMAIN pipe'[i] : Old(i, pipe'[i][n])
  <2>1. \A n \in 1..k : n + 1 \in 1..(k+1)
    OBVIOUS
  <2> QED BY <1>3, <1>4, <2>1 DEF Old
<1>6. Head(pipe[i]).cmd # "refresh" /\ i \in Refreshers => i \in Refreshers'
  <2> SUFFICES ASSUME pipe[i][1].cmd # "refresh", NEW n \in 1..(k+1), pipe[i][n].cmd = "refresh"
               PROVE  \E m \in 1..k : pipe'[i][m].cmd = "refresh"
    BY <1>3, <1>4 DEF Refreshers, InFlight
  <2>1. n # 1 /\ n - 1 \in 1..k /\ n = (n - 1) + 1
    OBVIOUS
  <2> QED BY <1>4, <2>1
<1>8. ASSUME NEW j \in Instance
      PROVE  /\ \A n \in DOMAIN pipe'[j] : Old(j, pipe'[j][n])
             /\ Head(pipe[i]).cmd # "refresh" /\ j \in Refreshers => j \in Refreshers'
  <2>1. CASE j = i
    BY <1>5, <1>6, <2>1 DEF Old, Refreshers, InFlight
  <2>2. CASE j # i
    <3>1. pipe'[j] = pipe[j]
      BY <1>2, <2>2
    <3> QED BY <3>1 DEF Old, Refreshers, InFlight
  <2> QED BY <2>1, <2>2
<1>10. Refreshers \subseteq Instance
  BY DEF Refreshers
<1> QED BY <1>10, <1>8

LEMMA ReplyContents ==
  ASSUME TypeOK, NEW i \in Instance, pipe[i] # <<>>, Head(pipe[i]).cmd # "refresh",
         NEW c, NEW x, [cmd |-> c, of |-> x] \in Command, pipe' = Reply(i, c, x)
  PROVE  /\ \A j \in Instance : \A n \in DOMAIN pipe'[j] :
              Old(j, pipe'[j][n]) \/ pipe'[j][n] = [cmd |-> c, of |-> x]
         /\ Refreshers \subseteq Refreshers'
<1> DEFINE e == [cmd |-> c, of |-> x]
<1>1. pipe[i] \in Seq(Command) /\ pipe'[i] = Append(Tail(pipe[i]), e)
  BY DEF TypeOK, Reply
<1>2. \A j \in Instance \ {i} : pipe'[j] = pipe[j]
  BY DEF TypeOK, Reply
<1>3. PICK k \in Nat : DOMAIN pipe[i] = 1..(k+1) /\ Len(pipe[i]) = k+1
  <2>1. Len(pipe[i]) \in Nat \ {0} /\ DOMAIN pipe[i] = 1..Len(pipe[i])
    BY <1>1
  <2>2. Len(pipe[i]) - 1 \in Nat /\ Len(pipe[i]) = (Len(pipe[i]) - 1) + 1
    BY <2>1
  <2> QED BY <2>1, <2>2
<1> HIDE DEF e
<1>4. /\ DOMAIN pipe'[i] = 1..(k+1)
      /\ \A n \in 1..k : pipe'[i][n] = pipe[i][n+1]
      /\ pipe'[i][k+1] = e
      /\ Head(pipe[i]) = pipe[i][1]
  BY <1>1, <1>3
<1>5. \A n \in DOMAIN pipe'[i] : Old(i, pipe'[i][n]) \/ pipe'[i][n] = e
  <2>1. \A n \in 1..k : n + 1 \in 1..(k+1)
    OBVIOUS
  <2>2. \A n \in 1..(k+1) : n \in 1..k \/ n = k+1
    OBVIOUS
  <2> QED BY <1>3, <1>4, <2>1, <2>2 DEF Old
<1>6. i \in Refreshers => i \in Refreshers'
  <2> SUFFICES ASSUME NEW n \in 1..(k+1), pipe[i][n].cmd = "refresh"
               PROVE  \E m \in 1..(k+1) : pipe'[i][m].cmd = "refresh"
    BY <1>3, <1>4 DEF Refreshers, InFlight
  <2>1. n # 1 /\ n - 1 \in 1..k /\ n - 1 \in 1..(k+1) /\ n = (n - 1) + 1
    BY <1>4
  <2> QED BY <1>4, <2>1
<1>8. ASSUME NEW j \in Instance
      PROVE  /\ \A n \in DOMAIN pipe'[j] : Old(j, pipe'[j][n]) \/ pipe'[j][n] = e
             /\ j \in Refreshers => j \in Refreshers'
  <2>1. CASE j = i
    BY <1>5, <1>6, <2>1 DEF Old, Refreshers, InFlight
  <2>2. CASE j # i
    <3>1. pipe'[j] = pipe[j]
      BY <1>2, <2>2
    <3> QED BY <3>1 DEF Old, Refreshers, InFlight
  <2> QED BY <2>1, <2>2
<1>10. Refreshers \subseteq Instance
  BY DEF Refreshers
<1> QED BY <1>10, <1>8 DEF e

(* The step changes no more than these lemmas' assumptions. *)
LEMMA CommandsKept ==
  ASSUME CommandsBegun, Begun \subseteq Begun',
         \A j \in Instance : \A n \in DOMAIN pipe'[j] :
           Old(j, pipe'[j][n]) \/ pipe'[j][n].cmd \notin SetupCmd \/ pipe'[j][n].of \in Begun'
  PROVE  CommandsBegun'
BY DEF CommandsBegun, Old

LEMMA MarginKept ==
  ASSUME Margin, Kept' \subseteq Kept, Refreshers \subseteq Refreshers', UNCHANGED <<online, since>>
  PROVE  Margin'
BY DEF Margin

LEMMA PipeKept ==
  ASSUME UNCHANGED pipe
  PROVE  /\ \A j \in Instance : \A n \in DOMAIN pipe'[j] : Old(j, pipe'[j][n])
         /\ Refreshers \subseteq Refreshers'
BY DEF Old, Refreshers, InFlight

LEMMA SocketMargin ==
  ASSUME Inv, NEW s \in Socket,
         \/ Connect(s) \/ ScopeLoaded(s) \/ Connected(s) \/ SetupFail(s)
         \/ Close(s) \/ Terminated(s) \/ Lose(s) \/ Pong(s)
  PROVE  CommandsBegun' /\ NoneIsIdle' /\ Served' /\ Margin'
<1>0. TypeOK /\ CommandsBegun /\ NoneIsIdle /\ Served /\ Margin
  BY DEF Inv
<1>1. CASE Connect(s)
  <2>1. Begun' = Begun /\ Kept' \subseteq Kept
    BY <1>0, <1>1 DEF Connect, TypeOK, NoneIsIdle, Begun, Kept
  <2>2. NoneIsIdle' /\ Served'
    BY <1>0, <1>1, <2>1 DEF Connect, TypeOK, NoneIsIdle, Served, Begun
  <2>3. UNCHANGED <<pipe, online, since>>
    BY <1>1 DEF Connect, keys
  <2> QED BY <1>0, <2>1, <2>2, <2>3, PipeKept, CommandsKept, MarginKept
<1>2. CASE ScopeLoaded(s)
  <2>1. Begun' = Begun \cup {s} /\ Kept' \subseteq Kept
    BY <1>0, <1>2 DEF ScopeLoaded, TypeOK, Begun, Kept
  <2>2. NoneIsIdle' /\ Served'
    BY <1>0, <1>2, <2>1 DEF ScopeLoaded, TypeOK, NoneIsIdle, Served
  <2>3. UNCHANGED <<online, since>>
    BY <1>2 DEF ScopeLoaded, keys
  <2>4. /\ \A j \in Instance : \A n \in DOMAIN pipe'[j] :
             Old(j, pipe'[j][n]) \/ pipe'[j][n] = [cmd |-> "exists", of |-> s]
        /\ Refreshers \subseteq Refreshers'
    <3>1. [cmd |-> "exists", of |-> s] \in Command /\ pipe' = Sent(Home[s], "exists", s)
      BY <1>2, Commands DEF ScopeLoaded, SetupCmd
    <3> QED BY <1>0, <3>1, SentContents
  <2> QED BY <1>0, <2>1, <2>2, <2>3, <2>4, CommandsKept, MarginKept
<1>3. CASE Connected(s)
  <2>1. Begun' = Begun /\ Kept' \subseteq Kept
    BY <1>0, <1>3 DEF Connected, TypeOK, Begun, Kept
  <2>2. NoneIsIdle' /\ Served'
    BY <1>0, <1>3, <2>1 DEF Connected, TypeOK, NoneIsIdle, Served
  <2>3. UNCHANGED <<pipe, online, since>>
    BY <1>3 DEF Connected, keys
  <2> QED BY <1>0, <2>1, <2>2, <2>3, PipeKept, CommandsKept, MarginKept
<1>4. CASE SetupFail(s)
  <2>1. conn'[s] \in {"closed", "closing"} /\ \A t \in Socket \ {s} : conn'[t] = conn[t] /\ setup'[t] = setup[t]
    BY <1>0, <1>4 DEF SetupFail, ServerClose, TypeOK
  <2>2. Begun' = Begun \cup {s} /\ Kept' \subseteq Kept
    BY <1>0, <1>4, <2>1 DEF SetupFail, TypeOK, Begun, Kept
  <2>3. NoneIsIdle' /\ Served'
    BY <1>0, <1>4, <2>1, <2>2 DEF SetupFail, NoneIsIdle, Served
  <2>4. UNCHANGED <<pipe, online, since>>
    BY <1>4 DEF SetupFail, keys
  <2> QED BY <1>0, <2>2, <2>3, <2>4, PipeKept, CommandsKept, MarginKept
<1>5. CASE OnClose(s)
  <2>1. Begun' = Begun /\ Kept' \subseteq Kept
    BY <1>0, <1>5 DEF OnClose, TypeOK, Begun, Kept
  <2>2. NoneIsIdle' /\ Served'
    BY <1>0, <1>5, <2>1 DEF OnClose, TypeOK, NoneIsIdle, Served
  <2>3. UNCHANGED <<online, since>>
    BY <1>5 DEF OnClose, keys
  <2>4. /\ \A j \in Instance : \A n \in DOMAIN pipe'[j] :
             Old(j, pipe'[j][n]) \/ pipe'[j][n] = [cmd |-> "srem", of |-> s]
        /\ Refreshers \subseteq Refreshers'
    <3>1. [cmd |-> "srem", of |-> s] \in Command
      BY Commands DEF CleanupCmd
    <3>2. pipe' = Sent(Home[s], "srem", s) \/ pipe' = pipe
      BY <1>5 DEF OnClose
    <3> QED BY <1>0, <3>1, <3>2, SentContents, PipeKept
  <2>5. "srem" \notin SetupCmd
    BY DEF SetupCmd
  <2> QED BY <1>0, <2>1, <2>2, <2>3, <2>4, <2>5, CommandsKept, MarginKept
<1>6. CASE Lose(s)
  <2>1. Begun' = Begun /\ Kept' \subseteq Kept
    BY <1>0, <1>6 DEF Lose, TypeOK, Begun, Kept
  <2>2. NoneIsIdle' /\ Served'
    BY <1>0, <1>6, <2>1 DEF Lose, TypeOK, NoneIsIdle, Served
  <2>3. UNCHANGED <<pipe, online, since>>
    BY <1>6 DEF Lose, keys
  <2> QED BY <1>0, <2>1, <2>2, <2>3, PipeKept, CommandsKept, MarginKept
<1>7. CASE Pong(s)
  <2>1. Begun' = Begun /\ Kept' = Kept
    BY <1>7 DEF Pong, Begun, Kept
  <2>2. NoneIsIdle' /\ Served'
    BY <1>0, <1>7, <2>1 DEF Pong, NoneIsIdle, Served
  <2>3. UNCHANGED <<pipe, online, since>>
    BY <1>7 DEF Pong, keys
  <2> QED BY <1>0, <2>1, <2>2, <2>3, PipeKept, CommandsKept, MarginKept
<1> QED BY <1>1, <1>2, <1>3, <1>4, <1>5, <1>6, <1>7 DEF Close, Terminated

LEMMA CommandMargin ==
  ASSUME Inv, NEW i \in Instance, RunCommand(i) \/ Reject(i)
  PROVE  CommandsBegun' /\ NoneIsIdle' /\ Served' /\ Margin'
<1>0. TypeOK /\ CommandsBegun /\ NoneIsIdle /\ Served /\ Margin
  BY DEF Inv
<1> DEFINE s == Head(pipe[i]).of
<1>1. pipe[i] # <<>> /\ Head(pipe[i]) \in Command /\ Old(i, Head(pipe[i]))
  <2>1. pipe[i] # <<>> /\ pipe[i] \in Seq(Command)
    BY <1>0 DEF TypeOK, RunCommand, CheckOnline, AddRef, SRem, SCard, Del, Announce, Refresh, Reject, Runs
  <2>2. 1 \in DOMAIN pipe[i] /\ Head(pipe[i]) = pipe[i][1]
    BY <2>1
  <2> QED BY <2>1, <2>2, PipeTypes, <1>0 DEF Old, TypeOK
<1>2. Head(pipe[i]).cmd # "refresh" => s \in Socket
  BY <1>1, Commands
<1>3. Head(pipe[i]).cmd \in SetupCmd => s \in Begun
  BY <1>0, <1>1 DEF CommandsBegun, Old
(* The socket side does not change. *)
<1>4. ASSUME UNCHANGED <<conn, setup, registered, up>>
      PROVE  Begun' = Begun /\ Kept' = Kept /\ NoneIsIdle' /\ Served'
  BY <1>0, <1>4 DEF Begun, Kept, NoneIsIdle, Served
(* Popping or answering a command other than a refresh *)
<1>5. ASSUME pipe' = Popped(i)
      PROVE  /\ \A j \in Instance : \A n \in DOMAIN pipe'[j] : Old(j, pipe'[j][n])
             /\ Head(pipe[i]).cmd # "refresh" => Refreshers \subseteq Refreshers'
  BY <1>0, <1>1, <1>5, PoppedContents
<1>6. ASSUME NEW c \in SetupCmd \cup CleanupCmd \cup {"online"}, pipe' = Reply(i, c, s),
             Head(pipe[i]).cmd # "refresh", c \in SetupCmd => s \in Begun'
      PROVE  /\ \A j \in Instance : \A n \in DOMAIN pipe'[j] :
                  Old(j, pipe'[j][n]) \/ pipe'[j][n].cmd \notin SetupCmd \/ pipe'[j][n].of \in Begun'
             /\ Refreshers \subseteq Refreshers'
  <2>1. [cmd |-> c, of |-> s] \in Command
    BY <1>2, <1>6, Commands
  <2>2. /\ \A j \in Instance : \A n \in DOMAIN pipe'[j] :
             Old(j, pipe'[j][n]) \/ pipe'[j][n] = [cmd |-> c, of |-> s]
        /\ Refreshers \subseteq Refreshers'
    BY <1>0, <1>1, <1>6, <2>1, ReplyContents
  <2> QED BY <1>6, <2>2
<1>7. CASE CheckOnline(i)
  <2>1. UNCHANGED <<conn, setup, registered, up, online, since>> /\ Head(pipe[i]).cmd \in SetupCmd
    BY <1>7 DEF CheckOnline, keys, sockets, Runs, SetupCmd
  <2>2. PICK c \in SetupCmd : pipe' = Reply(i, c, s)
    BY <1>7 DEF CheckOnline, SetupCmd
  <2>3. Head(pipe[i]).cmd # "refresh"
    BY <1>7 DEF CheckOnline, Runs
  <2> QED BY <1>0, <1>3, <1>4, <1>6, <2>1, <2>2, <2>3, CommandsKept, MarginKept
<1>8. CASE AddRef(i)
  <2>1. s \in Begun /\ s \in Socket /\ Head(pipe[i]).cmd # "refresh"
    BY <1>2, <1>3, <1>8 DEF AddRef, Runs, SetupCmd
  <2>2. setup' = [setup EXCEPT ![s] = "peers"] /\ UNCHANGED <<conn, registered, up, since>>
    BY <1>8 DEF AddRef
  <2>3. Begun' = Begun
    BY <1>0, <2>1, <2>2 DEF Begun, TypeOK
  <2>4. NoneIsIdle' /\ Served'
    BY <1>0, <2>1, <2>2, <2>3 DEF NoneIsIdle, Served, Begun, TypeOK
  <2>5. Margin'
    BY <1>0, <1>8, <2>2 DEF AddRef, Margin, Kept, TypeOK
  <2>6. pipe' = Reply(i, "online", s) \/ pipe' = Popped(i)
    BY <1>8 DEF AddRef
  <2>7. "online" \notin SetupCmd
    BY DEF SetupCmd
  <2> QED BY <1>0, <1>5, <1>6, <2>1, <2>3, <2>4, <2>5, <2>6, <2>7, CommandsKept
<1>9. CASE SRem(i)
  <2>1. UNCHANGED <<conn, setup, registered, up, online, since>> /\ Head(pipe[i]).cmd # "refresh"
    BY <1>9 DEF SRem, sockets, Runs
  <2>2. pipe' = Reply(i, "scard", s) /\ "scard" \in CleanupCmd /\ "scard" \notin SetupCmd
    BY <1>9 DEF SRem, SetupCmd, CleanupCmd
  <2> QED BY <1>0, <1>4, <1>6, <2>1, <2>2, CommandsKept, MarginKept
<1>10. CASE SCard(i)
  <2>1. UNCHANGED <<conn, setup, registered, up, online, since>> /\ Head(pipe[i]).cmd # "refresh"
    BY <1>10 DEF SCard, keys, sockets, Runs
  <2>2. /\ pipe' = Reply(i, "del", s) \/ pipe' = Popped(i)
        /\ "del" \in CleanupCmd /\ "del" \notin SetupCmd
    BY <1>10 DEF SCard, SetupCmd, CleanupCmd
  <2> QED BY <1>0, <1>4, <1>5, <1>6, <2>1, <2>2, CommandsKept, MarginKept
<1>11. CASE Del(i)
  <2>1. UNCHANGED <<conn, setup, registered, up>> /\ Head(pipe[i]).cmd # "refresh"
    BY <1>11 DEF Del, sockets, Runs
  <2>2. pipe' = Reply(i, "offline", s) /\ "offline" \in CleanupCmd /\ "offline" \notin SetupCmd
    BY <1>11 DEF Del, SetupCmd, CleanupCmd
  <2>3. Margin'
    BY <1>11 DEF Del, Margin
  <2> QED BY <1>0, <1>4, <1>6, <2>1, <2>2, <2>3, CommandsKept
<1>12. CASE Announce(i)
  <2>1. UNCHANGED <<conn, setup, registered, up, online, since>> /\ Head(pipe[i]).cmd # "refresh"
    BY <1>12 DEF Announce, keys, sockets, Runs
  <2>2. pipe' = Popped(i)
    BY <1>12 DEF Announce
  <2> QED BY <1>0, <1>4, <1>5, <2>1, <2>2, CommandsKept, MarginKept
<1>13. CASE Refresh(i)
  <2>1. UNCHANGED <<conn, setup, registered, up>> /\ pipe' = Popped(i)
    BY <1>13 DEF Refresh, sockets
  <2>2. Margin'
    BY <1>0, <1>13 DEF Refresh, Margin, Kept, TypeOK
  <2> QED BY <1>0, <1>4, <1>5, <2>1, <2>2, CommandsKept
<1>14. CASE Reject(i)
  <2>1. UNCHANGED <<registered, up, online, since>> /\ pipe' = Popped(i) /\ Head(pipe[i]).cmd # "refresh"
    BY <1>1, <1>14 DEF Reject, keys, Runs
  <2>2. CASE Runs(i, SetupCmd)
    <3>1. s \in Begun /\ s \in Socket
      BY <1>2, <1>3, <2>1, <2>2 DEF Runs
    <3>2. setup' = [setup EXCEPT ![s] = "over"] /\ ServerClose(s)
      BY <1>14, <2>2 DEF Reject
    <3>3. Begun' = Begun
      BY <1>0, <3>1, <3>2 DEF Begun, TypeOK
    <3>4. conn'[s] \in {"closed", "closing"} /\ \A t \in Socket \ {s} : conn'[t] = conn[t] /\ setup'[t] = setup[t]
      BY <1>0, <3>1, <3>2 DEF ServerClose, TypeOK
    <3>5. NoneIsIdle' /\ Served' /\ Kept' \subseteq Kept
      BY <1>0, <2>1, <3>3, <3>4 DEF NoneIsIdle, Served, Kept
    <3> QED BY <1>0, <1>5, <2>1, <3>3, <3>5, CommandsKept, MarginKept
  <2>3. CASE ~Runs(i, SetupCmd)
    <3>1. UNCHANGED <<setup, conn>>
      BY <1>14, <2>3 DEF Reject
    <3> QED BY <1>0, <1>4, <1>5, <2>1, <3>1, CommandsKept, MarginKept
  <2> QED BY <2>2, <2>3
<1> QED BY <1>7, <1>8, <1>9, <1>10, <1>11, <1>12, <1>13, <1>14 DEF RunCommand

LEMMA ProcessMargin ==
  ASSUME Inv, NEW i \in Instance, Heartbeat(i) \/ Crash(i) \/ Restart(i)
  PROVE  CommandsBegun' /\ NoneIsIdle' /\ Served' /\ Margin'
<1>0. TypeOK /\ CommandsBegun /\ NoneIsIdle /\ Served /\ Margin
  BY DEF Inv
<1>1. CASE Heartbeat(i)
  <2> DEFINE mine == {s \in registered : Home[s] = i}
             alive == {s \in mine : isAlive[s]}
  <2>1. /\ UNCHANGED <<online, setup, registered, up>>
        /\ conn' = [s \in Socket |->
                      IF s \in mine \ alive /\ conn[s] # "closed" THEN "closing" ELSE conn[s]]
        /\ since' = [since EXCEPT ![i] = 0]
        /\ pipe' = IF alive # {} THEN Sent(i, "refresh", i) ELSE pipe
    BY <1>1 DEF Heartbeat, keys
  <2>2. \A s \in Socket : conn'[s] \in {"open", "lost"} => conn[s] \in {"open", "lost"} /\ s \notin mine \ alive
    BY <2>1
  <2>3. Begun' = Begun /\ Kept' \subseteq Kept
    BY <2>1, <2>2 DEF Begun, Kept
  <2>4. NoneIsIdle' /\ Served'
    BY <1>0, <2>1, <2>2, <2>3 DEF NoneIsIdle, Served
  <2>5. [cmd |-> "refresh", of |-> i] \in Command
    BY Commands
  <2>6. /\ \A j \in Instance : \A n \in DOMAIN pipe'[j] :
             Old(j, pipe'[j][n]) \/ pipe'[j][n] = [cmd |-> "refresh", of |-> i]
        /\ Refreshers \subseteq Refreshers'
        /\ alive # {} => i \in Refreshers'
    BY <1>0, <2>1, <2>5, SentContents, PipeKept
  <2>7. CommandsBegun'
    BY <1>0, <2>3, <2>6, CommandsKept DEF SetupCmd
  <2>8. ASSUME NEW s \in Kept', online' > 0
        PROVE  online' + since'[Home[s]] >= Ttl \/ Home[s] \in Refreshers'
    <3>1. s \in Kept /\ s \in Socket /\ conn'[s] \in {"open", "lost"} /\ s \in Begun
      BY <2>3, <2>8 DEF Kept, Begun
    <3>2. CASE Home[s] = i
      <4>1. s \in alive
        BY <1>0, <2>2, <3>1, <3>2 DEF Served
      <4> QED BY <2>6, <3>2, <4>1
    <3>3. CASE Home[s] # i
      <4>1. since'[Home[s]] = since[Home[s]]
        BY <1>0, <2>1, <3>1, <3>3 DEF TypeOK
      <4> QED BY <1>0, <2>1, <2>6, <2>8, <3>1, <4>1 DEF Margin
    <3> QED BY <3>2, <3>3
  <2> QED BY <2>4, <2>7, <2>8 DEF Margin
<1>2. CASE Crash(i)
  <2> DEFINE mine == {s \in Socket : Home[s] = i /\ conn[s] # "none"}
  <2>1. /\ UNCHANGED online
        /\ up' = [up EXCEPT ![i] = FALSE]
        /\ since' = [since EXCEPT ![i] = 0]
        /\ pipe' = [pipe EXCEPT ![i] = <<>>]
        /\ conn' = [s \in Socket |-> IF s \in mine THEN "closed" ELSE conn[s]]
        /\ registered' = registered \ mine
        /\ setup' = [s \in Socket |-> IF s \in mine THEN "over" ELSE setup[s]]
    BY <1>2 DEF Crash, keys
  <2>2. Begun \subseteq Begun' /\ Kept' \subseteq Kept
    BY <2>1 DEF Begun, Kept
  <2>3. \A s \in Socket \ mine : /\ conn'[s] = conn[s] /\ setup'[s] = setup[s]
                                 /\ s \in registered' <=> s \in registered
    BY <2>1
  <2>4. \A s \in Socket \ mine : conn[s] \in {"open", "lost"} => Home[s] # i /\ up'[Home[s]] = up[Home[s]]
    BY <1>0, <2>1 DEF TypeOK
  <2>5. \A s \in mine : conn'[s] = "closed" /\ setup'[s] = "over"
    BY <2>1
  <2>6. NoneIsIdle'
    BY <1>0, <2>3, <2>5 DEF NoneIsIdle
  <2>7. Served'
    <3> SUFFICES ASSUME NEW s \in Socket, conn'[s] \in {"open", "lost"}
                 PROVE  up'[Home[s]] /\ (s \in Begun' => s \in registered')
      BY DEF Served
    <3>1. s \notin mine
      BY <2>5
    <3> QED BY <1>0, <2>3, <2>4, <3>1 DEF Served, Begun
  <2>8. \A j \in Instance \ {i} : pipe'[j] = pipe[j]
    BY <1>0, <2>1 DEF TypeOK
  <2>9. pipe'[i] = <<>>
    BY <1>0, <2>1 DEF TypeOK
  <2>10. CommandsBegun'
    <3>1. \A j \in Instance : \A n \in DOMAIN pipe'[j] : Old(j, pipe'[j][n])
      BY <2>8, <2>9 DEF Old
    <3> QED BY <1>0, <2>2, <3>1, CommandsKept
  <2>11. ASSUME NEW s \in Kept', online' > 0
         PROVE  online' + since'[Home[s]] >= Ttl \/ Home[s] \in Refreshers'
    <3>1. s \in Kept /\ s \in Socket /\ Home[s] # i
      BY <2>2, <2>3, <2>4, <2>5, <2>11 DEF Kept
    <3>2. since'[Home[s]] = since[Home[s]] /\ pipe'[Home[s]] = pipe[Home[s]]
      BY <1>0, <2>1, <2>8, <3>1 DEF TypeOK
    <3> QED BY <1>0, <2>1, <2>11, <3>1, <3>2 DEF Margin, Refreshers, InFlight
  <2> QED BY <2>6, <2>7, <2>10, <2>11 DEF Margin
<1>3. CASE Restart(i)
  <2>1. UNCHANGED <<pipe, online, since, conn, setup, registered>> /\ up' = [up EXCEPT ![i] = TRUE]
    BY <1>3 DEF Restart, keys, sockets
  <2>2. Begun' = Begun /\ Kept' = Kept
    BY <2>1 DEF Begun, Kept
  <2>3. NoneIsIdle' /\ Served'
    BY <1>0, <2>1, <2>2 DEF NoneIsIdle, Served, TypeOK
  <2> QED BY <1>0, <2>1, <2>2, <2>3, PipeKept, CommandsKept, MarginKept
<1> QED BY <1>1, <1>2, <1>3

LEMMA TickMargin ==
  ASSUME Inv, Tick
  PROVE  CommandsBegun' /\ NoneIsIdle' /\ Served' /\ Margin'
<1>0. TypeOK /\ CommandsBegun /\ NoneIsIdle /\ Served /\ Margin
  BY DEF Inv
<1>1. UNCHANGED <<pipe, up, conn, setup, registered>>
  BY DEF Tick, sockets
<1>2. Begun' = Begun /\ Kept' = Kept /\ NoneIsIdle' /\ Served'
  BY <1>0, <1>1 DEF Begun, Kept, NoneIsIdle, Served
<1>3. ASSUME NEW s \in Kept', online' > 0
      PROVE  online' + since'[Home[s]] >= Ttl
  <2>1. s \in Kept /\ s \in Socket /\ up[Home[s]] /\ Home[s] \in Instance
    BY <1>0, <1>2, <1>3 DEF Kept, Served
  <2>2. Home[s] \notin Refreshers /\ since'[Home[s]] = since[Home[s]] + 1
    BY <2>1 DEF Tick, Refreshers
  <2>3. online > 0 /\ online' = online - 1
    BY <1>0, <1>3 DEF Tick, TypeOK
  <2>4. online + since[Home[s]] >= Ttl
    BY <1>0, <2>1, <2>2, <2>3 DEF Margin
  <2> QED BY <1>0, <2>1, <2>2, <2>3, <2>4 DEF TypeOK
<1> QED BY <1>0, <1>1, <1>2, <1>3, PipeKept, CommandsKept DEF Margin

LEMMA InvHolds == Spec => []Inv
<1>1. Init => CommandsBegun /\ NoneIsIdle /\ Served /\ Margin
  BY DEF Init, CommandsBegun, NoneIsIdle, Served, Margin, Kept
<1>2. Inv /\ UNCHANGED vars => CommandsBegun' /\ NoneIsIdle' /\ Served' /\ Margin'
  BY PipeKept, CommandsKept, MarginKept
     DEF Inv, NoneIsIdle, Served, Begun, Kept, vars, keys, sockets
<1>3. Inv /\ [Next]_vars => CommandsBegun' /\ NoneIsIdle' /\ Served' /\ Margin'
  BY <1>2, SocketMargin, CommandMargin, ProcessMargin, TickMargin DEF Next
<1> QED BY <1>1, <1>3, TypeCorrect, PTL DEF Spec, Inv

(* The online key never runs out under an open, recorded socket: a TTL      *)
(* longer than the lateness of a heartbeat suffices, with any number of     *)
(* instances, sockets, crashes and failed commands.                         *)
THEOREM KeyOutlivesSockets == Spec => ExpiryMeansNobody
<1>1. Inv => (Tick /\ online = 1 => Live = {})
  <2> SUFFICES ASSUME Inv, Tick, online = 1, NEW s \in Live PROVE FALSE
    OBVIOUS
  <2>0. s \in Kept
    BY DEF Live, Kept
  <2>1. up[Home[s]] /\ Home[s] \in Instance
    BY <2>0 DEF Inv, Kept, Served
  <2>2. Home[s] \notin Refreshers /\ since[Home[s]] < MaxLate
    BY <2>1 DEF Tick, Refreshers
  <2>3. 1 + since[Home[s]] >= Ttl
    BY <2>0, <2>2 DEF Inv, Margin
  <2> QED BY <2>1, <2>2, <2>3 DEF Inv, TypeOK
<1> QED BY <1>1, InvHolds, PTL DEF ExpiryMeansNobody

-----------------------------------------------------------------------------
(* The peers are told right *)

(* What a pipe holds, and in which order.                                   *)
In(q, m) == \E n \in DOMAIN q : q[n] = m
Behind(q, a, b) == \E k, n \in DOMAIN q : k < n /\ q[k] = a /\ q[n] = b

Msg(c, x) == [cmd |-> c, of |-> x]
Sending(c) == \E i \in Instance, m \in Command : In(pipe[i], m) /\ m.cmd = c
Closing(s) == In(pipe[Home[s]], Msg("srem", s))

(* The sockets their instance counts as recorded.                           *)
Recorded == {s \in registered : setup[s] \in {"peers", "over"}}

(* No process has died, and the registries say what the set-ups say.        *)
Tidy ==
  /\ \A i \in Instance : up[i]
  /\ \A s \in registered : /\ conn[s] \in {"open", "lost", "closing"}
                           /\ setup[s] \in {"redis", "peers", "over"}
                           /\ isAlive[s] => conn[s] # "closing"
  /\ \A s \in Socket : /\ setup[s] \in {"redis", "peers"} => s \in registered
                       /\ setup[s] = "scope" => conn[s] \in {"open", "lost"}

(* Each command is in the pipe of its socket's instance, and finds the       *)
(* socket where it was when the command was sent.                           *)
SetupSent ==
  /\ \A i \in Instance, m \in Command :
       In(pipe[i], m) /\ m.cmd \in SetupCmd => i = Home[m.of] /\ setup[m.of] = "redis"
  /\ \A s \in Socket : setup[s] = "redis" =>
       \E m \in Command : In(pipe[Home[s]], m) /\ m.cmd \in SetupCmd /\ m.of = s
CloseSent ==
  \A i \in Instance, m \in Command : In(pipe[i], m) /\ m.cmd = "srem" =>
    i = Home[m.of] /\ conn[m.of] = "closed" /\ setup[m.of] = "over"
OnlineSent ==
  \A i \in Instance, m \in Command : In(pipe[i], m) /\ m.cmd = "online" =>
    /\ i = Home[m.of]
    /\ m.of \in Recorded \/ Closing(m.of)
    /\ ~Behind(pipe[i], Msg("srem", m.of), m)

(* A pipe holds one refresh, and one command of a socket's set-up or close. *)
SameSlot(a, b) == \/ a.cmd = "refresh" /\ b.cmd = "refresh"
                  \/ /\ a.cmd \in SetupCmd \cup {"srem"} /\ b.cmd \in SetupCmd \cup {"srem"}
                     /\ a.of = b.of
OneSlot ==
  \A i \in Instance, a \in Command, b \in Command : SameSlot(a, b) => ~Behind(pipe[i], a, b)

(* Set-ups and cleanups do not meet.                                        *)
Apart == CleanupPending => \A s \in Socket : setup[s] \notin {"redis", "peers"}

(* The set in Redis has the recorded sockets and those still to be removed; *)
(* a cleanup that found it empty leaves nothing.                            *)
SetRight ==
  /\ Kept \subseteq refs
  /\ \A s \in refs : s \in Recorded \/ Closing(s)
  /\ Sending("del") \/ Sending("offline") => refs = {}
  /\ Sending("offline") => online = 0

(* Whoever a refresh is for is still on record when it runs.                *)
RefreshDue ==
  \A i \in Instance, m \in Command : In(pipe[i], m) /\ m.cmd = "refresh" =>
    /\ since[i] = 0
    /\ \E s \in Socket : /\ Home[s] = i
                         /\ \/ s \in Kept
                            \/ s \in refs /\ Behind(pipe[i], m, Msg("srem", s))
                            \/ /\ setup[s] = "redis" /\ conn[s] \in {"open", "lost"}
                               /\ ~Behind(pipe[i], m, Msg("exists", s))

(* Nobody relies on an announcement that was not made; and whoever was      *)
(* announced is recorded, or on the way out.                                *)
ToldOnline ==
  online > 0 \/ Sending("addAgain") => shown \/ Sending("online") \/ Sending("addFirst")
ToldOffline == shown => Recorded # {} \/ CleanupPending

Calm == /\ Tidy /\ SetupSent /\ CloseSent /\ OnlineSent /\ OneSlot /\ Apart
        /\ SetRight /\ RefreshDue /\ ToldOnline /\ ToldOffline
KeysEqual == refs # {} => refsTtl = online
AgreeInv == Inv /\ RefsImplyOnline /\ KeysEqual /\ (~disturbed => Calm)

-----------------------------------------------------------------------------
(* The order of a pipe *)

LEMMA Messages ==
  /\ \A c, x : Msg(c, x).cmd = c /\ Msg(c, x).of = x
  /\ \A m \in Command : m = Msg(m.cmd, m.of)
  /\ \A s \in Socket, c \in SetupCmd \cup CleanupCmd \cup {"online"} : Msg(c, s) \in Command
  /\ \A i \in Instance : Msg("refresh", i) \in Command
  /\ \A m \in Command : m.cmd # "refresh" => m.of \in Socket
BY DEF Msg, Command, SetupCmd, CleanupCmd

LEMMA AppendOrder ==
  ASSUME NEW S, NEW q \in Seq(S), NEW e \in S
  PROVE  /\ \A m : In(Append(q, e), m) <=> In(q, m) \/ m = e
         /\ \A a, b : Behind(Append(q, e), a, b) <=> Behind(q, a, b) \/ (In(q, a) /\ b = e)
<1> DEFINE p == Append(q, e)
<1>1. PICK k \in Nat : DOMAIN q = 1..k /\ Len(q) = k
  OBVIOUS
<1>2. DOMAIN p = 1..(k+1) /\ p[k+1] = e /\ \A n \in 1..k : p[n] = q[n]
  BY <1>1
<1> HIDE DEF p
<1>3. ASSUME NEW m PROVE In(p, m) <=> In(q, m) \/ m = e
  <2>1. \A n \in 1..(k+1) : n \in 1..k \/ n = k+1
    OBVIOUS
  <2>2. k + 1 \in 1..(k+1) /\ \A n \in 1..k : n \in 1..(k+1)
    OBVIOUS
  <2> QED BY <1>1, <1>2, <2>1, <2>2 DEF In
<1>4. ASSUME NEW a, NEW b PROVE Behind(p, a, b) <=> Behind(q, a, b) \/ (In(q, a) /\ b = e)
  <2>1. ASSUME Behind(p, a, b) PROVE Behind(q, a, b) \/ (In(q, a) /\ b = e)
    <3>1. PICK l \in 1..(k+1), n \in 1..(k+1) : l < n /\ p[l] = a /\ p[n] = b
      BY <1>2, <2>1 DEF Behind
    <3>2. l \in 1..k /\ (n \in 1..k \/ n = k+1)
      BY <3>1
    <3> QED BY <1>1, <1>2, <3>1, <3>2 DEF Behind, In
  <2>2. ASSUME Behind(q, a, b) PROVE Behind(p, a, b)
    <3>1. PICK l \in 1..k, n \in 1..k : l < n /\ q[l] = a /\ q[n] = b
      BY <1>1, <2>2 DEF Behind
    <3>2. l \in 1..(k+1) /\ n \in 1..(k+1)
      OBVIOUS
    <3> QED BY <1>2, <3>1, <3>2 DEF Behind
  <2>3. ASSUME In(q, a), b = e PROVE Behind(p, a, b)
    <3>1. PICK l \in 1..k : q[l] = a
      BY <1>1, <2>3 DEF In
    <3>2. l \in 1..(k+1) /\ k+1 \in 1..(k+1) /\ l < k+1
      OBVIOUS
    <3> QED BY <1>2, <2>3, <3>1, <3>2 DEF Behind
  <2> QED BY <2>1, <2>2, <2>3
<1> QED BY <1>3, <1>4 DEF p

LEMMA TailOrder ==
  ASSUME NEW S, NEW q \in Seq(S), q # <<>>
  PROVE  /\ \A m : In(q, m) <=> m = Head(q) \/ In(Tail(q), m)
         /\ \A a, b : Behind(q, a, b) <=> (a = Head(q) /\ In(Tail(q), b)) \/ Behind(Tail(q), a, b)
<1> DEFINE p == Tail(q)
<1>1. PICK k \in Nat : DOMAIN q = 1..(k+1) /\ Len(q) = k+1
  <2>1. Len(q) \in Nat \ {0} /\ DOMAIN q = 1..Len(q)
    OBVIOUS
  <2>2. Len(q) - 1 \in Nat /\ Len(q) = (Len(q) - 1) + 1
    BY <2>1
  <2> QED BY <2>1, <2>2
<1>2. DOMAIN p = 1..k /\ (\A n \in 1..k : p[n] = q[n+1]) /\ Head(q) = q[1]
  BY <1>1
<1> HIDE DEF p
<1>3. /\ \A n \in 1..k : n + 1 \in 1..(k+1)
      /\ \A n \in 1..(k+1) : n = 1 \/ (n - 1 \in 1..k /\ n = (n - 1) + 1)
      /\ 1 \in 1..(k+1)
  OBVIOUS
<1>4. ASSUME NEW m PROVE In(q, m) <=> m = Head(q) \/ In(p, m)
  <2>1. ASSUME In(q, m) PROVE m = Head(q) \/ In(p, m)
    <3>1. PICK n \in 1..(k+1) : q[n] = m
      BY <1>1, <2>1 DEF In
    <3>2. CASE n = 1
      BY <1>2, <3>1, <3>2
    <3>3. CASE n # 1
      <4>1. n - 1 \in 1..k /\ p[n - 1] = m
        BY <1>2, <1>3, <3>1, <3>3
      <4> QED BY <1>2, <4>1 DEF In
    <3> QED BY <3>2, <3>3
  <2> QED BY <1>1, <1>2, <1>3, <2>1 DEF In
<1>5. ASSUME NEW a, NEW b
      PROVE  Behind(q, a, b) <=> (a = Head(q) /\ In(p, b)) \/ Behind(p, a, b)
  <2>1. ASSUME Behind(q, a, b) PROVE (a = Head(q) /\ In(p, b)) \/ Behind(p, a, b)
    <3>1. PICK l \in 1..(k+1), n \in 1..(k+1) : l < n /\ q[l] = a /\ q[n] = b
      BY <1>1, <2>1 DEF Behind
    <3>2. n - 1 \in 1..k /\ p[n - 1] = b
      BY <1>2, <1>3, <3>1
    <3>3. CASE l = 1
      BY <1>2, <3>1, <3>2, <3>3 DEF In
    <3>4. CASE l # 1
      <4>1. l - 1 \in 1..k /\ p[l - 1] = a /\ l - 1 < n - 1
        BY <1>2, <1>3, <3>1, <3>4
      <4> QED BY <1>2, <3>2, <4>1 DEF Behind
    <3> QED BY <3>3, <3>4
  <2>2. ASSUME a = Head(q), In(p, b) PROVE Behind(q, a, b)
    <3>1. PICK n \in 1..k : p[n] = b
      BY <1>2, <2>2 DEF In
    <3>2. 1 < n + 1 /\ q[n + 1] = b /\ q[1] = a
      BY <1>2, <2>2, <3>1
    <3> QED BY <1>1, <1>3, <3>2 DEF Behind
  <2>3. ASSUME Behind(p, a, b) PROVE Behind(q, a, b)
    <3>1. PICK l \in 1..k, n \in 1..k : l < n /\ p[l] = a /\ p[n] = b
      BY <1>2, <2>3 DEF Behind
    <3>2. l + 1 < n + 1 /\ q[l + 1] = a /\ q[n + 1] = b
      BY <1>2, <3>1
    <3> QED BY <1>1, <1>3, <3>2 DEF Behind
  <2> QED BY <2>1, <2>2, <2>3
<1> QED BY <1>4, <1>5 DEF p

(* Instance i sends m; or its oldest command h is run and the commands of   *)
(* the set E (one or none) are sent in answer.                              *)
Grown(i, e) ==
  /\ \A j \in Instance : \A m : In(pipe'[j], m) <=> In(pipe[j], m) \/ (j = i /\ m = e)
  /\ \A j \in Instance : \A a, b : Behind(pipe'[j], a, b) <=>
       Behind(pipe[j], a, b) \/ (j = i /\ In(pipe[i], a) /\ b = e)
Turned(i, h, E) ==
  /\ In(pipe[i], h) /\ \A e \in E : In(pipe'[i], e)
  /\ \A m : In(pipe'[i], m) => m \in E \/ Behind(pipe[i], h, m)
  /\ \A j \in Instance : \A m : /\ In(pipe'[j], m) => In(pipe[j], m) \/ (j = i /\ m \in E)
                                /\ In(pipe[j], m) => In(pipe'[j], m) \/ (j = i /\ m = h)
  /\ \A j \in Instance : \A a, b :
       /\ Behind(pipe'[j], a, b) =>
            Behind(pipe[j], a, b) \/ (j = i /\ b \in E /\ Behind(pipe[i], h, a))
       /\ Behind(pipe[j], a, b) => Behind(pipe'[j], a, b) \/ (j = i /\ a = h)

LEMMA SentOrder ==
  ASSUME TypeOK, NEW i \in Instance, NEW c, NEW x, Msg(c, x) \in Command, pipe' = Sent(i, c, x)
  PROVE  Grown(i, Msg(c, x))
<1> DEFINE e == Msg(c, x)
<1>1. pipe[i] \in Seq(Command) /\ pipe'[i] = Append(pipe[i], e)
  BY DEF TypeOK, Sent, Msg
<1>2. \A j \in Instance \ {i} : pipe'[j] = pipe[j]
  BY DEF TypeOK, Sent
<1> HIDE DEF e
<1>3. e \in Command
  BY DEF e
<1>4. /\ \A m : In(pipe'[i], m) <=> In(pipe[i], m) \/ m = e
      /\ \A a, b : Behind(pipe'[i], a, b) <=> Behind(pipe[i], a, b) \/ (In(pipe[i], a) /\ b = e)
  BY <1>1, <1>3, AppendOrder
<1> QED BY <1>2, <1>4 DEF Grown, e

LEMMA PoppedOrder ==
  ASSUME TypeOK, NEW i \in Instance, pipe[i] # <<>>, pipe' = Popped(i)
  PROVE  Turned(i, Head(pipe[i]), {})
<1> DEFINE h == Head(pipe[i])
<1>1. pipe[i] \in Seq(Command) /\ pipe'[i] = Tail(pipe[i])
  BY DEF TypeOK, Popped
<1>2. \A j \in Instance \ {i} : pipe'[j] = pipe[j]
  BY DEF TypeOK, Popped
<1>3. /\ \A m : In(pipe[i], m) <=> m = h \/ In(pipe'[i], m)
      /\ \A a, b : Behind(pipe[i], a, b) <=> (a = h /\ In(pipe'[i], b)) \/ Behind(pipe'[i], a, b)
  BY <1>1, TailOrder
<1> HIDE DEF h
<1> QED BY <1>2, <1>3 DEF Turned, h

LEMMA ReplyOrder ==
  ASSUME TypeOK, NEW i \in Instance, pipe[i] # <<>>,
         NEW c, NEW x, Msg(c, x) \in Command, pipe' = Reply(i, c, x)
  PROVE  Turned(i, Head(pipe[i]), {Msg(c, x)})
<1> DEFINE h == Head(pipe[i])
           p == Tail(pipe[i])
           e == Msg(c, x)
<1>1. pipe[i] \in Seq(Command) /\ p \in Seq(Command) /\ pipe'[i] = Append(p, e)
  BY DEF TypeOK, Reply, Msg
<1>2. \A j \in Instance \ {i} : pipe'[j] = pipe[j]
  BY DEF TypeOK, Reply
<1>3. /\ \A m : In(pipe[i], m) <=> m = h \/ In(p, m)
      /\ \A a, b : Behind(pipe[i], a, b) <=> (a = h /\ In(p, b)) \/ Behind(p, a, b)
  BY <1>1, TailOrder
<1> HIDE DEF h, p, e
<1>4. e \in Command
  BY DEF e
<1>5. /\ \A m : In(pipe'[i], m) <=> In(p, m) \/ m = e
      /\ \A a, b : Behind(pipe'[i], a, b) <=> Behind(p, a, b) \/ (In(p, a) /\ b = e)
  BY <1>1, <1>4, AppendOrder
<1> QED BY <1>2, <1>3, <1>5 DEF Turned, h, e

LEMMA BehindIn == \A q, a, b : Behind(q, a, b) => In(q, a) /\ In(q, b)
BY DEF Behind, In

(* Two ways to say that a command is under way, before and after a step.    *)
LEMMA Contents ==
  ASSUME NEW P \in [Instance -> Seq(Command)], NEW i \in Instance, NEW C
  PROVE  (\E n \in DOMAIN P[i] : P[i][n].cmd \in C) <=> \E m \in Command : In(P[i], m) /\ m.cmd \in C
<1>1. \A n \in DOMAIN P[i] : P[i][n] \in Command
  OBVIOUS
<1> QED BY <1>1 DEF In

LEMMA UnderWay ==
  /\ TypeOK => /\ CleanupPending <=> \E c \in CleanupCmd : Sending(c)
               /\ \A i \in Instance : \A C : InFlight(i, C) <=> \E m \in Command : In(pipe[i], m) /\ m.cmd \in C
  /\ TypeOK' => (CleanupPending' <=> \E c \in CleanupCmd : Sending(c)')
<1>1. TypeOK => \A i \in Instance : \A C : InFlight(i, C) <=> \E m \in Command : In(pipe[i], m) /\ m.cmd \in C
  BY Contents DEF InFlight, TypeOK
<1>2. TypeOK' => \A i \in Instance : \A C : InFlight(i, C)' <=> \E m \in Command : In(pipe'[i], m) /\ m.cmd \in C
  BY Contents DEF InFlight, TypeOK
<1> QED BY <1>1, <1>2 DEF CleanupPending, Sending

-----------------------------------------------------------------------------
(* Every step of an undisturbed system keeps it calm *)

Steady == Inv /\ RefsImplyOnline /\ KeysEqual /\ Calm

LEMMA Unfolded ==
  ASSUME Steady
  PROVE  /\ TypeOK /\ CommandsBegun /\ NoneIsIdle /\ Served /\ Margin
         /\ Tidy /\ SetupSent /\ CloseSent /\ OnlineSent /\ OneSlot /\ Apart
         /\ SetRight /\ RefreshDue /\ ToldOnline /\ ToldOffline
         /\ RefsImplyOnline /\ KeysEqual
BY DEF Steady, Inv, Calm

LEMMA PipeSame ==
  ASSUME UNCHANGED pipe
  PROVE  /\ \A c : Sending(c)' <=> Sending(c)
         /\ \A s : Closing(s)' <=> Closing(s)
         /\ CleanupPending' <=> CleanupPending
         /\ OneSlot' <=> OneSlot
BY DEF Sending, Closing, CleanupPending, InFlight, OneSlot

(* A step that neither sends, runs, records nor drops anything *)
LEMMA SocketsOnly ==
  ASSUME Steady, UNCHANGED <<keys, pipe, up, since, registered, shown>>, Tidy',
         Kept' = Kept, Recorded' = Recorded,
         \A s \in Socket : /\ setup'[s] = "redis" <=> setup[s] = "redis"
                           /\ setup'[s] = "peers" => setup[s] = "peers"
                           /\ setup[s] = "over" => setup'[s] = "over"
                           /\ conn[s] = "closed" => conn'[s] = "closed"
                           /\ setup[s] = "redis" /\ conn[s] \in {"open", "lost"} => conn'[s] \in {"open", "lost"}
  PROVE  Calm'
<1>0. /\ Tidy /\ SetupSent /\ CloseSent /\ OnlineSent /\ OneSlot /\ Apart
      /\ SetRight /\ RefreshDue /\ ToldOnline /\ ToldOffline
  BY Unfolded
<1>1. UNCHANGED <<online, refs, pipe, since, shown>>
  BY DEF keys
<1>2. /\ \A c : Sending(c)' <=> Sending(c)
      /\ \A s : Closing(s)' <=> Closing(s)
      /\ CleanupPending' <=> CleanupPending
      /\ OneSlot'
  BY <1>0, <1>1, PipeSame
<1>3. \A m \in Command : m.cmd # "refresh" => m.of \in Socket
  BY Commands
<1>4. SetupSent'
  BY <1>0, <1>1, <1>3 DEF SetupSent, SetupCmd
<1>5. CloseSent'
  BY <1>0, <1>1, <1>3 DEF CloseSent
<1>6. OnlineSent'
  BY <1>0, <1>1, <1>2, <1>3 DEF OnlineSent
<1>7. Apart'
  BY <1>0, <1>2 DEF Apart
<1>8. SetRight'
  BY <1>0, <1>1, <1>2 DEF SetRight
<1>9. RefreshDue'
  BY <1>0, <1>1 DEF RefreshDue
<1>10. ToldOnline' /\ ToldOffline'
  BY <1>0, <1>1, <1>2 DEF ToldOnline, ToldOffline
<1> QED BY <1>2, <1>4, <1>5, <1>6, <1>7, <1>8, <1>9, <1>10 DEF Calm

LEMMA ClientCalm ==
  ASSUME Steady, NEW s \in Socket, Connect(s) \/ Connected(s) \/ Lose(s) \/ Pong(s)
  PROVE  Calm'
<1>0. TypeOK /\ NoneIsIdle /\ Tidy
  BY Unfolded
<1>1. CASE Connect(s)
  <2>1. UNCHANGED <<keys, pipe, up, since, registered, shown>>
    BY <1>1 DEF Connect
  <2>2. /\ conn[s] = "none" /\ setup[s] = "idle" /\ conn'[s] = "open" /\ setup'[s] = "scope"
        /\ \A t \in Socket \ {s} : conn'[t] = conn[t] /\ setup'[t] = setup[t] /\ isAlive'[t] = isAlive[t]
    BY <1>0, <1>1 DEF Connect, NoneIsIdle, TypeOK
  <2>3. s \notin registered
    BY <1>0, <2>2 DEF Tidy
  <2>4. Tidy'
    BY <1>0, <2>1, <2>2, <2>3 DEF Tidy, TypeOK
  <2>5. Kept' = Kept /\ Recorded' = Recorded
    BY <1>0, <2>1, <2>2 DEF Kept, Recorded, TypeOK
  <2> QED BY <2>1, <2>2, <2>4, <2>5, SocketsOnly
<1>2. CASE Connected(s)
  <2>1. UNCHANGED <<keys, pipe, up, since, registered, shown, conn, isAlive>>
    BY <1>2 DEF Connected
  <2>2. /\ setup[s] = "peers" /\ setup'[s] = "over"
        /\ \A t \in Socket \ {s} : setup'[t] = setup[t]
    BY <1>0, <1>2 DEF Connected, TypeOK
  <2>3. Tidy'
    BY <1>0, <2>1, <2>2 DEF Tidy, TypeOK
  <2>4. Kept' = Kept /\ Recorded' = Recorded
    BY <1>0, <2>1, <2>2 DEF Kept, Recorded, TypeOK
  <2> QED BY <2>1, <2>2, <2>3, <2>4, SocketsOnly
<1>3. CASE Lose(s)
  <2>1. UNCHANGED <<keys, pipe, up, since, registered, shown, setup, isAlive>>
    BY <1>3 DEF Lose
  <2>2. /\ conn[s] = "open" /\ conn'[s] = "lost"
        /\ \A t \in Socket \ {s} : conn'[t] = conn[t]
    BY <1>0, <1>3 DEF Lose, TypeOK
  <2>3. Tidy'
    BY <1>0, <2>1, <2>2 DEF Tidy, TypeOK
  <2>4. Kept' = Kept /\ Recorded' = Recorded
    BY <1>0, <2>1, <2>2 DEF Kept, Recorded, TypeOK
  <2> QED BY <2>1, <2>2, <2>3, <2>4, SocketsOnly
<1>4. CASE Pong(s)
  <2>1. UNCHANGED <<keys, pipe, up, since, registered, shown, setup, conn>>
    BY <1>4 DEF Pong
  <2>2. conn[s] = "open" /\ \A t \in Socket \ {s} : isAlive'[t] = isAlive[t]
    BY <1>0, <1>4 DEF Pong, TypeOK
  <2>3. Tidy'
    BY <1>0, <2>1, <2>2 DEF Tidy, TypeOK
  <2>4. Kept' = Kept /\ Recorded' = Recorded
    BY <1>0, <2>1, <2>2 DEF Kept, Recorded, TypeOK
  <2> QED BY <2>1, <2>2, <2>3, <2>4, SocketsOnly
<1> QED BY <1>1, <1>2, <1>3, <1>4

LEMMA ScopeCalm ==
  ASSUME Steady, NEW s \in Socket, ScopeLoaded(s), ~CleanupPending
  PROVE  Calm'
<1> DEFINE e == Msg("exists", s)
<1>0. /\ TypeOK /\ TypeOK'
      /\ Tidy /\ SetupSent /\ CloseSent /\ OnlineSent /\ OneSlot /\ SetRight
      /\ RefreshDue /\ ToldOnline /\ ToldOffline
  BY Unfolded, SocketType
<1>1. /\ UNCHANGED <<online, refs, up, since, conn, isAlive, shown>>
      /\ registered' = registered \cup {s}
      /\ setup[s] = "scope" /\ setup'[s] = "redis"
      /\ \A t \in Socket \ {s} : setup'[t] = setup[t]
  BY <1>0 DEF ScopeLoaded, keys, TypeOK
<1>2. conn[s] \in {"open", "lost"}
  BY <1>0, <1>1 DEF Tidy
<1>3. Kept' = Kept /\ Recorded' = Recorded
  BY <1>0, <1>1 DEF Kept, Recorded, TypeOK
<1>4. /\ e \in Command /\ e.cmd = "exists" /\ e.of = s
      /\ \A t \in Socket : Msg("exists", t) = e => t = s
      /\ \A c, t : c # "exists" => Msg(c, t) # e
  BY Messages DEF SetupCmd
<1>5. Grown(Home[s], e)
  <2>1. pipe' = Sent(Home[s], "exists", s)
    BY DEF ScopeLoaded
  <2> QED BY <1>0, <1>4, <2>1, SentOrder
<1> HIDE DEF e
<1>6. \A i \in Instance, m \in Command : In(pipe[i], m) /\ m.cmd \in SetupCmd \cup {"srem"} => m.of # s
  BY <1>0, <1>1 DEF SetupSent, CloseSent
<1>7. /\ \A c : c # "exists" => (Sending(c)' <=> Sending(c))
      /\ \A t \in Socket : Closing(t)' <=> Closing(t)
  BY <1>4, <1>5 DEF Grown, Sending, Closing
<1>8. ~CleanupPending'
  BY <1>0, <1>7, UnderWay DEF CleanupCmd
<1>9. Tidy'
  BY <1>0, <1>1, <1>2 DEF Tidy, TypeOK
<1>10. SetupSent'
  <2>1. ASSUME NEW i \in Instance, NEW m \in Command, In(pipe'[i], m), m.cmd \in SetupCmd
        PROVE  i = Home[m.of] /\ setup'[m.of] = "redis"
    <3>1. CASE m = e
      BY <1>1, <1>4, <1>5, <1>6, <2>1, <3>1, <1>0 DEF Grown, SetupSent
    <3>2. CASE m # e
      <4>1. In(pipe[i], m) /\ m.of \in Socket
        BY <1>5, <2>1, <3>2, Messages DEF Grown, SetupCmd
      <4> QED BY <1>0, <1>1, <2>1, <4>1 DEF SetupSent
    <3> QED BY <3>1, <3>2
  <2>2. ASSUME NEW t \in Socket, setup'[t] = "redis"
        PROVE  \E m \in Command : In(pipe'[Home[t]], m) /\ m.cmd \in SetupCmd /\ m.of = t
    <3>1. CASE t = s
      BY <1>4, <1>5, <3>1 DEF Grown, SetupCmd
    <3>2. CASE t # s
      BY <1>0, <1>1, <1>5, <2>2, <3>2 DEF Grown, SetupSent
    <3> QED BY <3>1, <3>2
  <2> QED BY <2>1, <2>2 DEF SetupSent
<1>11. CloseSent'
  BY <1>0, <1>1, <1>4, <1>5, <1>6, Messages, SMTT(30) DEF Grown, CloseSent
<1>12. OnlineSent'
  <2> SUFFICES ASSUME NEW i \in Instance, NEW m \in Command, In(pipe'[i], m), m.cmd = "online"
               PROVE  /\ i = Home[m.of] /\ (m.of \in Recorded' \/ Closing(m.of)')
                      /\ ~Behind(pipe'[i], Msg("srem", m.of), m)
    BY DEF OnlineSent
  <2>1. m # e /\ m.of \in Socket
    BY <1>4, Messages
  <2>2. In(pipe[i], m)
    BY <1>5, <2>1 DEF Grown
  <2>3. Behind(pipe'[i], Msg("srem", m.of), m) => Behind(pipe[i], Msg("srem", m.of), m)
    BY <1>5, <2>1 DEF Grown
  <2> QED BY <1>0, <1>3, <1>7, <2>1, <2>2, <2>3 DEF OnlineSent
<1>13. OneSlot'
  BY <1>0, <1>4, <1>5, <1>6 DEF Grown, OneSlot, SameSlot
<1>14. SetRight'
  BY <1>0, <1>1, <1>3, <1>7 DEF SetRight, TypeOK
<1>15. RefreshDue'
  BY <1>0, <1>1, <1>3, <1>4, <1>5 DEF Grown, RefreshDue
<1>16. ToldOnline' /\ ToldOffline'
  BY <1>0, <1>1, <1>3, <1>7, UnderWay DEF ToldOnline, ToldOffline, CleanupCmd
<1> QED BY <1>8, <1>9, <1>10, <1>11, <1>12, <1>13, <1>14, <1>15, <1>16 DEF Calm, Apart

LEMMA CloseCalm ==
  ASSUME Steady, NEW s \in Socket, Close(s) \/ Terminated(s), ~SetupPending
  PROVE  Calm'
<1> DEFINE e == Msg("srem", s)
<1>0. /\ TypeOK /\ TypeOK' /\ Served
      /\ Tidy /\ SetupSent /\ CloseSent /\ OnlineSent /\ OneSlot
      /\ SetRight /\ RefreshDue /\ ToldOnline /\ ToldOffline
  BY Unfolded, SocketType
<1>1. /\ UNCHANGED <<keys, online, refs, up, since, setup, isAlive, shown>>
      /\ registered' = registered \ {s}
      /\ conn[s] \in {"open", "closing"} /\ conn'[s] = "closed"
      /\ \A t \in Socket \ {s} : conn'[t] = conn[t]
  BY <1>0 DEF Close, Terminated, OnClose, keys, TypeOK
<1>2. \A t \in Socket : setup[t] \in {"idle", "over"}
  BY DEF SetupPending
<1>3. Tidy'
  BY <1>0, <1>1, <1>2 DEF Tidy, TypeOK
<1>4. CASE s \notin registered
  <2>1. UNCHANGED <<registered, pipe>>
    BY <1>1, <1>4 DEF Close, Terminated, OnClose
  <2>2. Kept' = Kept
    BY <1>0, <1>1, <1>4 DEF Kept, Served, Begun, TypeOK
  <2>3. Recorded' = Recorded
    BY <1>1, <2>1 DEF Recorded
  <2> QED BY <1>1, <1>2, <1>3, <2>1, <2>2, <2>3, SocketsOnly
<1>5. CASE s \in registered
  <2>1. e \in Command /\ e.cmd = "srem" /\ e.of = s /\ \A c, t : c # "srem" \/ t # s => Msg(c, t) # e
    BY Messages DEF CleanupCmd
  <2>2. Grown(Home[s], e)
    <3>1. pipe' = Sent(Home[s], "srem", s)
      BY <1>5 DEF Close, Terminated, OnClose
    <3> QED BY <1>0, <2>1, <3>1, SentOrder
  <2> HIDE DEF e
  <2>3. setup[s] = "over" /\ s \in Recorded /\ Recorded' = Recorded \ {s} /\ Kept' = Kept \ {s}
    BY <1>0, <1>1, <1>2, <1>5 DEF Tidy, Recorded, Kept, TypeOK
  <2>4. \A i \in Instance, m \in Command : In(pipe[i], m) => m.cmd \notin SetupCmd
    BY <1>0, <1>2, Messages DEF SetupSent, SetupCmd
  <2>5. \A i \in Instance, m \in Command : In(pipe[i], m) /\ m.cmd = "srem" => m.of # s
    BY <1>0, <1>1 DEF CloseSent
  <2>6. /\ \A c : c # "srem" => (Sending(c)' <=> Sending(c))
        /\ \A t \in Socket : Closing(t)' <=> Closing(t) \/ t = s
        /\ Sending("srem")'
    <3>1. \A c : c # "srem" => (Sending(c)' <=> Sending(c))
      BY <2>1, <2>2 DEF Grown, Sending
    <3>2. \A t \in Socket : Msg("srem", t) = e <=> t = s
      BY <2>1 DEF e
    <3>3. \A t \in Socket : Closing(t)' <=> Closing(t) \/ t = s
      BY <2>2, <3>2 DEF Grown, Closing
    <3>4. Sending("srem")'
      BY <2>1, <2>2 DEF Grown, Sending
    <3> QED BY <3>1, <3>3, <3>4
  <2>7. CleanupPending'
    BY <1>0, <2>6, UnderWay DEF CleanupCmd
  <2>8. SetupSent'
    BY <1>1, <1>2, <2>1, <2>2, <2>4 DEF Grown, SetupSent, SetupCmd
  <2>9. CloseSent'
    <3> SUFFICES ASSUME NEW i \in Instance, NEW m \in Command, In(pipe'[i], m), m.cmd = "srem"
                 PROVE  i = Home[m.of] /\ conn'[m.of] = "closed" /\ setup'[m.of] = "over"
      BY DEF CloseSent
    <3>1. CASE m = e
      BY <1>1, <2>1, <2>2, <2>3, <2>5, <3>1 DEF Grown
    <3>2. CASE m # e
      <4>1. In(pipe[i], m) /\ m.of \in Socket
        BY <2>2, <3>2, Messages DEF Grown
      <4> QED BY <1>0, <1>1, <4>1 DEF CloseSent
    <3> QED BY <3>1, <3>2
  <2>10. OnlineSent'
    <3> SUFFICES ASSUME NEW i \in Instance, NEW m \in Command, In(pipe'[i], m), m.cmd = "online"
                 PROVE  /\ i = Home[m.of] /\ (m.of \in Recorded' \/ Closing(m.of)')
                        /\ ~Behind(pipe'[i], Msg("srem", m.of), m)
      BY DEF OnlineSent
    <3>1. m # e /\ m.of \in Socket
      BY <2>1, Messages
    <3>2. In(pipe[i], m)
      BY <2>2, <3>1 DEF Grown
    <3>3. Behind(pipe'[i], Msg("srem", m.of), m) => Behind(pipe[i], Msg("srem", m.of), m)
      BY <2>2, <3>1 DEF Grown
    <3> QED BY <1>0, <2>3, <2>6, <3>1, <3>2, <3>3 DEF OnlineSent
  <2>11. OneSlot'
    <3> SUFFICES ASSUME NEW i \in Instance, NEW a \in Command, NEW b \in Command, SameSlot(a, b),
                        Behind(pipe'[i], a, b)
                 PROVE  FALSE
      BY DEF OneSlot
    <3>1. In(pipe[i], a) /\ b = e
      BY <1>0, <2>2 DEF Grown, OneSlot
    <3> QED BY <2>1, <2>4, <2>5, <3>1 DEF SameSlot
  <2>12. SetRight'
    BY <1>0, <1>1, <2>3, <2>6 DEF SetRight, TypeOK
  <2>13. RefreshDue'
    <3> SUFFICES ASSUME NEW i \in Instance, NEW m \in Command, In(pipe'[i], m), m.cmd = "refresh"
                 PROVE  /\ since'[i] = 0
                        /\ \E t \in Socket : /\ Home[t] = i
                                             /\ \/ t \in Kept'
                                                \/ t \in refs' /\ Behind(pipe'[i], m, Msg("srem", t))
      BY DEF RefreshDue
    <3>1. In(pipe[i], m)
      BY <2>1, <2>2 DEF Grown
    <3>2. since[i] = 0
      BY <1>0, <3>1 DEF RefreshDue
    <3>3. PICK t \in Socket : /\ Home[t] = i
                              /\ t \in Kept \/ (t \in refs /\ Behind(pipe[i], m, Msg("srem", t)))
      BY <1>0, <1>2, <3>1 DEF RefreshDue
    <3>4. CASE t = s /\ s \in Kept
      <4>1. s \in refs /\ Behind(pipe'[i], m, e)
        BY <1>0, <2>2, <3>1, <3>3, <3>4 DEF Grown, SetRight
      <4> QED BY <1>1, <3>2, <3>3, <3>4, <4>1 DEF e
    <3>5. CASE ~(t = s /\ s \in Kept)
      BY <1>1, <2>2, <2>3, <3>2, <3>3, <3>5 DEF Grown
    <3> QED BY <3>4, <3>5
  <2>14. ToldOnline' /\ ToldOffline'
    BY <1>0, <1>1, <2>6, <2>7 DEF ToldOnline, ToldOffline
  <2>15. Apart'
    BY <1>1, <1>2 DEF Apart
  <2> QED BY <1>3, <2>8, <2>9, <2>10, <2>11, <2>12, <2>13, <2>14, <2>15 DEF Calm
<1> QED BY <1>4, <1>5

LEMMA BeatCalm ==
  ASSUME Steady, NEW i \in Instance, Heartbeat(i)
  PROVE  Calm'
<1> DEFINE mine == {s \in registered : Home[s] = i}
           alive == {s \in mine : isAlive[s]}
           e == Msg("refresh", i)
<1>0. /\ TypeOK /\ TypeOK'
      /\ Tidy /\ SetupSent /\ CloseSent /\ OnlineSent /\ OneSlot /\ Apart
      /\ SetRight /\ RefreshDue /\ ToldOnline /\ ToldOffline
  BY Unfolded, ProcessType
<1>1. /\ UNCHANGED <<online, refs, up, registered, setup, shown>>
      /\ since[i] > 0 /\ since' = [since EXCEPT ![i] = 0]
      /\ \A s \in Socket : conn'[s] = IF s \in mine \ alive /\ conn[s] # "closed" THEN "closing" ELSE conn[s]
      /\ \A s \in Socket : isAlive'[s] => isAlive[s] /\ s \notin alive
  BY DEF Heartbeat, keys
<1>2. e \in Command /\ e.cmd = "refresh" /\ \A c, x : c # "refresh" => Msg(c, x) # e
  BY Messages
<1>3. /\ \A j \in Instance : \A m : In(pipe'[j], m) <=> In(pipe[j], m) \/ (j = i /\ m = e /\ alive # {})
      /\ \A j \in Instance : \A a, b : Behind(pipe'[j], a, b) <=>
           Behind(pipe[j], a, b) \/ (j = i /\ In(pipe[i], a) /\ b = e /\ alive # {})
  <2>1. CASE alive = {}
    <3>1. pipe' = pipe
      BY <2>1 DEF Heartbeat
    <3> QED BY <2>1, <3>1
  <2>2. CASE alive # {}
    <3>1. pipe' = Sent(i, "refresh", i)
      BY <2>2 DEF Heartbeat
    <3>2. Grown(i, e)
      BY <1>0, <1>2, <3>1, SentOrder
    <3> QED BY <2>2, <3>2 DEF Grown
  <2> QED BY <2>1, <2>2
<1> HIDE DEF e
<1>4. \A m \in Command : In(pipe[i], m) => m.cmd # "refresh"
  BY <1>0, <1>1 DEF RefreshDue, TypeOK
<1>5. \A s \in Socket : s \notin mine \ alive => conn'[s] = conn[s]
  BY <1>1
<1>6. Recorded' = Recorded /\ Kept' \subseteq Kept /\ \A s \in Kept : Home[s] # i => s \in Kept'
  BY <1>1 DEF Recorded, Kept
<1>7. /\ \A c : c # "refresh" => (Sending(c)' <=> Sending(c))
      /\ \A s \in Socket : Closing(s)' <=> Closing(s)
  BY <1>2, <1>3 DEF Sending, Closing
<1>8. CleanupPending' <=> CleanupPending
  BY <1>0, <1>7, UnderWay DEF CleanupCmd
<1>9. Tidy'
  <2>1. \A j \in Instance : up'[j]
    BY <1>0, <1>1 DEF Tidy
  <2>2. ASSUME NEW s \in registered'
        PROVE  /\ conn'[s] \in {"open", "lost", "closing"} /\ setup'[s] \in {"redis", "peers", "over"}
               /\ isAlive'[s] => conn'[s] # "closing"
    <3>1. s \in registered /\ s \in Socket
      BY <1>0, <1>1, <2>2 DEF TypeOK
    <3>2. isAlive'[s] => isAlive[s] /\ s \notin mine
      BY <1>1, <3>1
    <3> QED BY <1>0, <1>1, <1>5, <3>1, <3>2 DEF Tidy
  <2>3. ASSUME NEW s \in Socket
        PROVE  /\ setup'[s] \in {"redis", "peers"} => s \in registered'
               /\ setup'[s] = "scope" => conn'[s] \in {"open", "lost"}
    BY <1>0, <1>1, <1>5 DEF Tidy
  <2> QED BY <2>1, <2>2, <2>3 DEF Tidy
<1>10. SetupSent'
  <2>1. \A j \in Instance, m \in Command : m.cmd \in SetupCmd => (In(pipe'[j], m) <=> In(pipe[j], m))
    BY <1>2, <1>3 DEF SetupCmd
  <2> QED BY <1>0, <1>1, <2>1 DEF SetupSent
<1>11. CloseSent'
  <2>1. \A m \in Command : m.cmd = "srem" => m.of \in Socket
    BY Messages
  <2> QED BY <1>0, <1>1, <1>2, <1>3, <2>1 DEF CloseSent
<1>12. OnlineSent'
  <2> SUFFICES ASSUME NEW j \in Instance, NEW m \in Command, In(pipe'[j], m), m.cmd = "online"
               PROVE  /\ j = Home[m.of] /\ (m.of \in Recorded' \/ Closing(m.of)')
                      /\ ~Behind(pipe'[j], Msg("srem", m.of), m)
    BY DEF OnlineSent
  <2>1. m # e /\ m.of \in Socket
    BY <1>2, Messages
  <2>2. In(pipe[j], m)
    BY <1>3, <2>1
  <2>3. Behind(pipe'[j], Msg("srem", m.of), m) => Behind(pipe[j], Msg("srem", m.of), m)
    BY <1>3, <2>1
  <2> QED BY <1>0, <1>6, <1>7, <2>1, <2>2, <2>3 DEF OnlineSent
<1>13. OneSlot'
  <2> SUFFICES ASSUME NEW j \in Instance, NEW a \in Command, NEW b \in Command, SameSlot(a, b),
                      Behind(pipe'[j], a, b)
               PROVE  FALSE
    BY DEF OneSlot
  <2>1. j = i /\ In(pipe[i], a) /\ b = e
    BY <1>0, <1>3 DEF OneSlot
  <2> QED BY <1>2, <1>4, <2>1 DEF SameSlot, SetupCmd
<1>14. SetRight'
  BY <1>0, <1>1, <1>6, <1>7 DEF SetRight, TypeOK
<1>15. RefreshDue'
  <2> SUFFICES ASSUME NEW j \in Instance, NEW m \in Command, In(pipe'[j], m), m.cmd = "refresh"
               PROVE  /\ since'[j] = 0
                      /\ \E s \in Socket : /\ Home[s] = j
                                           /\ \/ s \in Kept'
                                              \/ s \in refs' /\ Behind(pipe'[j], m, Msg("srem", s))
                                              \/ /\ setup'[s] = "redis" /\ conn'[s] \in {"open", "lost"}
                                                 /\ ~Behind(pipe'[j], m, Msg("exists", s))
    BY DEF RefreshDue
  <2>1. CASE j = i
    <3>1. m = e /\ alive # {}
      BY <1>3, <1>4, <2>1
    <3>2. PICK s \in alive : TRUE
      BY <3>1
    <3>3. /\ s \in Socket /\ Home[s] = i /\ conn'[s] = conn[s] /\ conn[s] \in {"open", "lost"}
          /\ setup'[s] \in {"redis", "peers", "over"}
      BY <1>0, <1>1, <1>5, <3>2 DEF Tidy, TypeOK
    <3>4. ~Behind(pipe'[i], m, Msg("exists", s))
      BY <1>2, <1>3, <1>4, <3>1, BehindIn
    <3>5. since'[i] = 0
      BY <1>0, <1>1 DEF TypeOK
    <3> QED BY <2>1, <3>3, <3>4, <3>5 DEF Kept
  <2>2. CASE j # i
    <3>1. In(pipe[j], m) /\ \A a, b : Behind(pipe'[j], a, b) <=> Behind(pipe[j], a, b)
      BY <1>3, <2>2
    <3>2. since[j] = 0
      BY <1>0, <3>1 DEF RefreshDue
    <3>3. PICK s \in Socket : /\ Home[s] = j
                              /\ \/ s \in Kept
                                 \/ s \in refs /\ Behind(pipe[j], m, Msg("srem", s))
                                 \/ /\ setup[s] = "redis" /\ conn[s] \in {"open", "lost"}
                                    /\ ~Behind(pipe[j], m, Msg("exists", s))
      BY <1>0, <3>1 DEF RefreshDue
    <3>4. since'[j] = 0
      BY <1>0, <1>1, <2>2, <3>2 DEF TypeOK
    <3>5. conn'[s] = conn[s]
      BY <1>5, <2>2, <3>3
    <3> QED BY <1>1, <1>6, <2>2, <3>1, <3>3, <3>4, <3>5
  <2> QED BY <2>1, <2>2
<1>16. ToldOnline' /\ ToldOffline' /\ Apart'
  BY <1>0, <1>1, <1>6, <1>7, <1>8 DEF ToldOnline, ToldOffline, Apart
<1> QED BY <1>9, <1>10, <1>11, <1>12, <1>13, <1>14, <1>15, <1>16 DEF Calm

(* What running a command leaves alone *)

LEMMA TurnedContents ==
  ASSUME NEW i \in Instance, NEW h, NEW E, Turned(i, h, E), NEW j \in Instance, NEW m
  PROVE  /\ m \notin E \/ j # i => (In(pipe'[j], m) => In(pipe[j], m))
         /\ m # h /\ In(pipe[j], m) => In(pipe'[j], m)
         /\ \A a : m \notin E /\ Behind(pipe'[j], a, m) => Behind(pipe[j], a, m)
         /\ \A b : m # h /\ Behind(pipe[j], m, b) => Behind(pipe'[j], m, b)
<1>1. /\ In(pipe'[j], m) => In(pipe[j], m) \/ (j = i /\ m \in E)
      /\ In(pipe[j], m) => In(pipe'[j], m) \/ (j = i /\ m = h)
  BY Zenon DEF Turned
<1>2. \A a, b : /\ Behind(pipe'[j], a, b) => Behind(pipe[j], a, b) \/ b \in E
                /\ Behind(pipe[j], a, b) => Behind(pipe'[j], a, b) \/ a = h
  BY Zenon DEF Turned
<1> QED BY <1>1, <1>2

LEMMA TurnedSame ==
  ASSUME NEW i \in Instance, NEW h, NEW E, Turned(i, h, E)
  PROVE  /\ \A c : c # h.cmd /\ (\A e \in E : e.cmd # c) => (Sending(c)' <=> Sending(c))
         /\ \A s \in Socket : Msg("srem", s) # h /\ Msg("srem", s) \notin E => (Closing(s)' <=> Closing(s))
         /\ \A e \in E : e \in Command => Sending(e.cmd)'
<1>1. ASSUME NEW c, c # h.cmd, \A e \in E : e.cmd # c PROVE Sending(c)' <=> Sending(c)
  <2>1. \A j \in Instance, m \in Command : m.cmd = c => (In(pipe'[j], m) <=> In(pipe[j], m))
    BY <1>1, TurnedContents
  <2> QED BY <2>1 DEF Sending
<1>2. ASSUME NEW s \in Socket, Msg("srem", s) # h, Msg("srem", s) \notin E
      PROVE  Closing(s)' <=> Closing(s)
  BY <1>2, TurnedContents DEF Closing
<1>3. ASSUME NEW e \in E, e \in Command PROVE Sending(e.cmd)'
  <2>1. In(pipe'[i], e)
    BY Zenon DEF Turned
  <2> QED BY <1>3, <2>1 DEF Sending
<1> QED BY <1>1, <1>2, <1>3

LEMMA SlotsTurned ==
  ASSUME NEW i \in Instance, NEW h, NEW E, Turned(i, h, E), OneSlot, h \in Command,
         \A e \in E : \A a \in Command : SameSlot(a, e) => SameSlot(h, a)
  PROVE  OneSlot'
<1> SUFFICES ASSUME NEW j \in Instance, NEW a \in Command, NEW b \in Command, SameSlot(a, b),
                    Behind(pipe'[j], a, b)
             PROVE  FALSE
  BY DEF OneSlot
<1>1. j = i /\ b \in E /\ Behind(pipe[i], h, a)
  BY DEF OneSlot, Turned
<1> QED BY <1>1 DEF OneSlot

LEMMA SetupTurned ==
  ASSUME NEW i \in Instance, NEW h, NEW E, Turned(i, h, E), SetupSent, h.cmd \notin SetupCmd,
         \A e \in E : e.cmd \notin SetupCmd, setup' = setup
  PROVE  SetupSent'
<1>1. \A j \in Instance, m \in Command : m.cmd \in SetupCmd => (In(pipe'[j], m) <=> In(pipe[j], m))
  BY TurnedContents
<1> QED BY <1>1 DEF SetupSent

LEMMA CloseTurned ==
  ASSUME NEW i \in Instance, NEW h, NEW E, Turned(i, h, E), CloseSent,
         \A e \in E : e.cmd # "srem", conn' = conn,
         \A s \in Socket : setup[s] = "over" => setup'[s] = "over"
  PROVE  CloseSent'
<1>1. \A j \in Instance, m \in Command : m.cmd = "srem" /\ In(pipe'[j], m) => In(pipe[j], m) /\ m.of \in Socket
  BY TurnedContents, Messages
<1> QED BY <1>1 DEF CloseSent

LEMMA OnlineTurned ==
  ASSUME NEW i \in Instance, NEW h, NEW E, Turned(i, h, E), OnlineSent, h.cmd # "srem",
         \A e \in E : e.cmd \notin {"srem", "online"}, Recorded' = Recorded
  PROVE  OnlineSent'
<1> SUFFICES ASSUME NEW j \in Instance, NEW m \in Command, In(pipe'[j], m), m.cmd = "online"
             PROVE  /\ j = Home[m.of] /\ (m.of \in Recorded' \/ Closing(m.of)')
                    /\ ~Behind(pipe'[j], Msg("srem", m.of), m)
  BY DEF OnlineSent
<1>1. m \notin E /\ m.of \in Socket /\ Msg("srem", m.of).cmd = "srem"
  BY Messages
<1>2. In(pipe[j], m) /\ (Behind(pipe'[j], Msg("srem", m.of), m) => Behind(pipe[j], Msg("srem", m.of), m))
  BY <1>1, TurnedContents
<1>3. Closing(m.of)' <=> Closing(m.of)
  BY <1>1, TurnedSame
<1> QED BY <1>1, <1>2, <1>3 DEF OnlineSent

LEMMA RefreshTurned ==
  ASSUME NEW i \in Instance, NEW h \in Command, NEW E, Turned(i, h, E), RefreshDue, OneSlot,
         \A e \in E : e.cmd \notin {"refresh", "exists"}, since' = since, Kept \subseteq Kept', conn' = conn,
         \A s \in Socket : setup[s] = "redis" /\ conn[s] \in {"open", "lost"} => setup'[s] = "redis" \/ s \in Kept',
         \A j \in Instance, m \in Command, s \in refs :
           m.cmd = "refresh" /\ Behind(pipe[j], m, Msg("srem", s)) => s \in refs'
  PROVE  RefreshDue'
<1> SUFFICES ASSUME NEW j \in Instance, NEW m \in Command, In(pipe'[j], m), m.cmd = "refresh"
             PROVE  /\ since'[j] = 0
                    /\ \E s \in Socket : /\ Home[s] = j
                                         /\ \/ s \in Kept'
                                            \/ s \in refs' /\ Behind(pipe'[j], m, Msg("srem", s))
                                            \/ /\ setup'[s] = "redis" /\ conn'[s] \in {"open", "lost"}
                                               /\ ~Behind(pipe'[j], m, Msg("exists", s))
  BY DEF RefreshDue
<1>1. m \notin E /\ In(pipe[j], m)
  BY TurnedContents
<1>2. j = i => h.cmd # "refresh"
  BY <1>1 DEF Turned, OneSlot, SameSlot
<1>3. \A b : Behind(pipe[j], m, b) => Behind(pipe'[j], m, b)
  BY <1>2 DEF Turned
<1>4. \A s : Behind(pipe'[j], m, Msg("exists", s)) => Behind(pipe[j], m, Msg("exists", s))
  BY Messages DEF Turned
<1>5. since[j] = 0
  BY <1>1 DEF RefreshDue
<1>6. PICK s \in Socket : /\ Home[s] = j
                          /\ \/ s \in Kept
                             \/ s \in refs /\ Behind(pipe[j], m, Msg("srem", s))
                             \/ /\ setup[s] = "redis" /\ conn[s] \in {"open", "lost"}
                                /\ ~Behind(pipe[j], m, Msg("exists", s))
  BY <1>1 DEF RefreshDue
<1>7. CASE s \in Kept
  BY <1>5, <1>6, <1>7
<1>8. CASE s \in refs /\ Behind(pipe[j], m, Msg("srem", s))
  <2>1. s \in refs'
    BY <1>8
  <2> QED BY <1>3, <1>5, <1>6, <1>8, <2>1
<1>9. CASE setup[s] = "redis" /\ conn[s] \in {"open", "lost"} /\ ~Behind(pipe[j], m, Msg("exists", s))
  BY <1>4, <1>5, <1>6, <1>9
<1> QED BY <1>6, <1>7, <1>8, <1>9

LEMMA HeadSent ==
  ASSUME TypeOK, NEW i \in Instance, pipe[i] # <<>>
  PROVE  /\ Head(pipe[i]) \in Command /\ In(pipe[i], Head(pipe[i]))
         /\ Head(pipe[i]).cmd # "refresh" => Head(pipe[i]).of \in Socket
<1>1. pipe[i] \in Seq(Command)
  BY DEF TypeOK
<1>2. Head(pipe[i]) \in Command
  BY <1>1, PipeTypes DEF TypeOK
<1>3. 1 \in DOMAIN pipe[i] /\ Head(pipe[i]) = pipe[i][1]
  BY <1>1
<1> QED BY <1>2, <1>3, Messages DEF In

LEMMA CheckCalm ==
  ASSUME Steady, NEW i \in Instance, CheckOnline(i)
  PROVE  Calm'
<1> DEFINE h == Head(pipe[i])
           s == h.of
           c == IF online > 0 THEN "addAgain" ELSE "addFirst"
           e == Msg(c, s)
<1>0. /\ TypeOK /\ TypeOK'
      /\ Tidy /\ SetupSent /\ CloseSent /\ OnlineSent /\ OneSlot /\ Apart
      /\ SetRight /\ RefreshDue /\ ToldOnline /\ ToldOffline
  BY Unfolded, CommandType DEF RunCommand
<1>1. /\ UNCHANGED <<online, refs, up, since, conn, isAlive, registered, setup, shown>>
      /\ pipe[i] # <<>> /\ h.cmd = "exists" /\ pipe' = Reply(i, c, s)
  BY DEF CheckOnline, Runs, keys, sockets
<1>2. h \in Command /\ In(pipe[i], h) /\ s \in Socket /\ h = Msg("exists", s)
  BY <1>0, <1>1, HeadSent, Messages
<1>3. /\ e \in Command /\ e.of = s /\ e.cmd = c /\ c \in {"addAgain", "addFirst"}
      /\ \A d, x : Msg(d, x).cmd = d
  BY <1>2, Messages DEF SetupCmd
<1>4. Turned(i, h, {e})
  BY <1>0, <1>1, <1>3, ReplyOrder
<1>5. (c = "addAgain" <=> online > 0) /\ h.cmd \in SetupCmd /\ e.cmd \in SetupCmd
  BY <1>0, <1>1, <1>3 DEF SetupCmd, TypeOK
<1> HIDE DEF h, s, c, e
<1>6. Home[s] = i /\ setup[s] = "redis"
  BY <1>0, <1>2, <1>5 DEF SetupSent, s
<1>7. Recorded' = Recorded /\ Kept' = Kept
  BY <1>1 DEF Recorded, Kept
<1>8. /\ \A d : d \notin {"exists", "addAgain", "addFirst"} => (Sending(d)' <=> Sending(d))
      /\ \A d : d # "exists" /\ Sending(d) => Sending(d)'
      /\ \A d : Sending(d)' => Sending(d) \/ d = c
      /\ \A t \in Socket : Closing(t)' <=> Closing(t)
      /\ \A d : d = c => Sending(d)'
  <2>1. \A d : d \notin {"exists", "addAgain", "addFirst"} => (Sending(d)' <=> Sending(d))
    BY <1>1, <1>3, <1>4, TurnedSame
  <2>2. \A d : d # "exists" /\ Sending(d) => Sending(d)'
    BY <1>1, <1>4, TurnedContents DEF Sending
  <2>3. \A d : Sending(d)' => Sending(d) \/ d = c
    BY <1>3, <1>4, TurnedContents DEF Sending
  <2>4. \A t \in Socket : Closing(t)' <=> Closing(t)
    BY <1>1, <1>3, <1>4, TurnedSame
  <2>5. \A d : d = c => Sending(d)'
    BY <1>3, <1>4, TurnedSame
  <2> QED BY <2>1, <2>2, <2>3, <2>4, <2>5
<1>9. CleanupPending' <=> CleanupPending
  BY <1>0, <1>8, UnderWay DEF CleanupCmd
<1>10. Tidy' /\ Apart'
  BY <1>0, <1>1, <1>9 DEF Tidy, Apart
<1>11. SetupSent'
  <2>1. ASSUME NEW j \in Instance, NEW m \in Command, In(pipe'[j], m), m.cmd \in SetupCmd
        PROVE  j = Home[m.of] /\ setup'[m.of] = "redis"
    <3>1. In(pipe[j], m) \/ (j = i /\ m = e)
      BY <1>4, <2>1, Zenon DEF Turned
    <3> QED BY <1>0, <1>1, <1>3, <1>6, <2>1, <3>1 DEF SetupSent
  <2>2. ASSUME NEW t \in Socket, setup'[t] = "redis"
        PROVE  \E m \in Command : In(pipe'[Home[t]], m) /\ m.cmd \in SetupCmd /\ m.of = t
    <3>1. PICK m \in Command : In(pipe[Home[t]], m) /\ m.cmd \in SetupCmd /\ m.of = t
      BY <1>0, <1>1, <2>2 DEF SetupSent
    <3>2. CASE m = h
      <4>1. t = s /\ In(pipe'[i], e)
        BY <1>4, <3>1, <3>2, Zenon DEF Turned, s
      <4> QED BY <1>3, <1>5, <1>6, <4>1
    <3>3. CASE m # h
      BY <1>4, <3>1, <3>3, TurnedContents
    <3> QED BY <3>2, <3>3
  <2> QED BY <2>1, <2>2 DEF SetupSent
<1>12. CloseSent'
  BY <1>0, <1>1, <1>3, <1>4, CloseTurned
<1>13. OnlineSent'
  BY <1>0, <1>1, <1>3, <1>4, <1>7, OnlineTurned
<1>14. OneSlot'
  <2>1. \A a \in Command : SameSlot(a, e) => SameSlot(h, a)
    BY <1>3, <1>5 DEF SameSlot, SetupCmd, s
  <2> QED BY <1>0, <1>2, <1>4, <2>1, SlotsTurned
<1>15. SetRight'
  BY <1>0, <1>1, <1>7, <1>8 DEF SetRight, TypeOK
<1>16. RefreshDue'
  BY <1>0, <1>1, <1>2, <1>3, <1>4, <1>7, RefreshTurned
<1>17. ToldOnline' /\ ToldOffline'
  BY <1>0, <1>1, <1>3, <1>5, <1>7, <1>8, <1>9 DEF ToldOnline, ToldOffline
<1> QED BY <1>10, <1>11, <1>12, <1>13, <1>14, <1>15, <1>16, <1>17 DEF Calm

LEMMA AddCalm ==
  ASSUME Steady, NEW i \in Instance, AddRef(i)
  PROVE  Calm'
<1> DEFINE h == Head(pipe[i])
           s == h.of
           E == IF h.cmd = "addFirst" THEN {Msg("online", s)} ELSE {}
<1>0. /\ TypeOK /\ TypeOK'
      /\ Tidy /\ SetupSent /\ CloseSent /\ OnlineSent /\ OneSlot /\ Apart
      /\ SetRight /\ RefreshDue /\ ToldOnline /\ ToldOffline
  BY Unfolded, CommandType DEF RunCommand
<1>1. /\ UNCHANGED <<up, since, conn, isAlive, registered, shown>>
      /\ pipe[i] # <<>> /\ h.cmd \in {"addFirst", "addAgain"}
      /\ refs' = refs \cup {s} /\ setup' = [setup EXCEPT ![s] = "peers"]
      /\ pipe' = IF h.cmd = "addFirst" THEN Reply(i, "online", s) ELSE Popped(i)
  BY DEF AddRef, Runs
<1>2. h \in Command /\ In(pipe[i], h) /\ s \in Socket
  BY <1>0, <1>1, HeadSent
<1>3. /\ Msg("online", s) \in Command /\ Msg("online", s).of = s
      /\ \A d, x : Msg(d, x).cmd = d
  BY <1>2, Messages
<1>4. Turned(i, h, E)
  <2>1. CASE h.cmd = "addFirst"
    BY <1>0, <1>1, <1>3, <2>1, ReplyOrder
  <2>2. CASE h.cmd = "addAgain"
    BY <1>0, <1>1, <2>2, PoppedOrder
  <2> QED BY <1>1, <2>1, <2>2
<1>5. \A e \in E : e = Msg("online", s) /\ e.cmd = "online"
  BY <1>3
<1>6. h.cmd = "addFirst" => \A d : d = "online" => Sending(d)'
  BY <1>3, <1>4, TurnedSame
<1> HIDE DEF h, s, E
<1>7. h.cmd \in SetupCmd /\ Home[s] = i /\ setup[s] = "redis" /\ s \in registered
  <2>1. h.cmd \in SetupCmd
    BY <1>1 DEF SetupCmd
  <2>2. Home[s] = i /\ setup[s] = "redis"
    BY <1>0, <1>2, <2>1 DEF SetupSent, s
  <2> QED BY <1>0, <1>2, <2>1, <2>2 DEF Tidy
<1>8. setup'[s] = "peers" /\ \A t \in Socket \ {s} : setup'[t] = setup[t]
  BY <1>0, <1>1, <1>2 DEF TypeOK
<1>9. /\ Recorded' = Recorded \cup {s}
      /\ Kept \subseteq Kept' /\ Kept' \subseteq Kept \cup {s}
      /\ conn[s] \in {"open", "lost"} => s \in Kept'
  <2>1. registered \subseteq Socket
    BY <1>0 DEF TypeOK
  <2> QED BY <1>1, <1>2, <1>7, <1>8, <2>1 DEF Recorded, Kept
<1>10. /\ \A d : d \notin {"addFirst", "addAgain", "online"} => (Sending(d)' <=> Sending(d))
       /\ \A d : d # h.cmd /\ Sending(d) => Sending(d)'
       /\ \A d : Sending(d)' => Sending(d) \/ d = "online"
       /\ \A t \in Socket : Closing(t)' <=> Closing(t)
  <2>1. \A d : d \notin {"addFirst", "addAgain", "online"} => (Sending(d)' <=> Sending(d))
    BY <1>1, <1>4, <1>5, TurnedSame
  <2>2. \A d : d # h.cmd /\ Sending(d) => Sending(d)'
    BY <1>4, TurnedContents DEF Sending
  <2>3. \A d : Sending(d)' => Sending(d) \/ d = "online"
    BY <1>4, <1>5, TurnedContents DEF Sending
  <2>4. \A t \in Socket : Closing(t)' <=> Closing(t)
    BY <1>1, <1>3, <1>4, <1>5, TurnedSame
  <2> QED BY <2>1, <2>2, <2>3, <2>4
<1>11. ~CleanupPending /\ ~CleanupPending'
  <2>1. ~CleanupPending
    BY <1>0, <1>2, <1>7 DEF Apart
  <2> QED BY <1>0, <1>10, <2>1, UnderWay DEF CleanupCmd
<1>12. Tidy' /\ Apart'
  BY <1>0, <1>1, <1>7, <1>8, <1>11 DEF Tidy, Apart, TypeOK
(* No other command of s is under way. *)
<1>13. \A j \in Instance, m \in Command : In(pipe'[j], m) /\ m.cmd \in SetupCmd => m.of # s
  <2> SUFFICES ASSUME NEW j \in Instance, NEW m \in Command, In(pipe'[j], m), m.cmd \in SetupCmd, m.of = s
               PROVE  FALSE
    OBVIOUS
  <2>1. m \notin E
    BY <1>5 DEF SetupCmd
  <2>2. j = i
    BY <1>0, <1>4, <1>7, <2>1, TurnedContents DEF SetupSent
  <2>3. Behind(pipe[i], h, m)
    BY <1>4, <2>1, <2>2, Zenon DEF Turned
  <2>4. SameSlot(h, m)
    BY <1>7 DEF SameSlot, s
  <2> QED BY <1>0, <1>2, <2>3, <2>4 DEF OneSlot
<1>14. SetupSent'
  <2>1. ASSUME NEW j \in Instance, NEW m \in Command, In(pipe'[j], m), m.cmd \in SetupCmd
        PROVE  j = Home[m.of] /\ setup'[m.of] = "redis"
    <3>1. m.of # s /\ m.of \in Socket /\ m \notin E
      BY <1>5, <1>13, <2>1, Messages DEF SetupCmd
    <3>2. In(pipe[j], m)
      BY <1>4, <2>1, <3>1, TurnedContents
    <3> QED BY <1>0, <1>8, <2>1, <3>1, <3>2 DEF SetupSent
  <2>2. ASSUME NEW t \in Socket, setup'[t] = "redis"
        PROVE  \E m \in Command : In(pipe'[Home[t]], m) /\ m.cmd \in SetupCmd /\ m.of = t
    <3>1. t # s /\ setup[t] = "redis"
      BY <1>8, <2>2
    <3>2. PICK m \in Command : In(pipe[Home[t]], m) /\ m.cmd \in SetupCmd /\ m.of = t
      BY <1>0, <3>1 DEF SetupSent
    <3>3. m # h
      BY <3>1, <3>2 DEF s
    <3> QED BY <1>4, <3>2, <3>3, TurnedContents
  <2> QED BY <2>1, <2>2 DEF SetupSent
<1>15. CloseSent'
  <2>1. \A t \in Socket : setup[t] = "over" => setup'[t] = "over"
    BY <1>7, <1>8
  <2> QED BY <1>0, <1>1, <1>4, <1>5, <2>1, CloseTurned
<1>16. OnlineSent'
  <2> SUFFICES ASSUME NEW j \in Instance, NEW m \in Command, In(pipe'[j], m), m.cmd = "online"
               PROVE  /\ j = Home[m.of] /\ (m.of \in Recorded' \/ Closing(m.of)')
                      /\ ~Behind(pipe'[j], Msg("srem", m.of), m)
    BY DEF OnlineSent
  <2>1. \A k \in Instance : ~In(pipe'[k], Msg("srem", s))
    <3>1. Msg("srem", s) \in Command /\ Msg("srem", s).cmd = "srem" /\ Msg("srem", s).of = s
      BY <1>2, Messages DEF CleanupCmd
    <3> QED BY <1>8, <1>15, <3>1 DEF CloseSent
  <2>2. CASE m \in E
    <3>1. j = i /\ m.of = s
      <4>1. m = Msg("online", s)
        BY <1>5, <2>2
      <4>2. In(pipe[j], m) \/ j = i
        BY <1>4, TurnedContents
      <4> QED BY <1>0, <1>3, <1>7, <4>1, <4>2 DEF OnlineSent
    <3> QED BY <1>7, <1>9, <2>1, <3>1, BehindIn
  <2>3. CASE m \notin E
    <3>1. m.of \in Socket /\ In(pipe[j], m)
      BY <1>4, <2>3, TurnedContents, Messages
    <3>2. Behind(pipe'[j], Msg("srem", m.of), m) => Behind(pipe[j], Msg("srem", m.of), m)
      BY <1>4, <2>3, TurnedContents
    <3> QED BY <1>0, <1>9, <1>10, <3>1, <3>2 DEF OnlineSent
  <2> QED BY <2>2, <2>3
<1>17. OneSlot'
  <2>1. \A e \in E, a \in Command : ~SameSlot(a, e)
    BY <1>5 DEF SameSlot, SetupCmd
  <2> QED BY <1>0, <1>2, <1>4, <2>1, SlotsTurned
<1>18. SetRight'
  <2>1. ~Sending("del")' /\ ~Sending("offline")'
    BY <1>0, <1>11, UnderWay DEF CleanupCmd
  <2> QED BY <1>0, <1>1, <1>9, <1>10, <2>1 DEF SetRight, TypeOK
<1>19. RefreshDue'
  <2>1. \A t \in Socket : setup[t] = "redis" /\ conn[t] \in {"open", "lost"} => setup'[t] = "redis" \/ t \in Kept'
    BY <1>8, <1>9
  <2> QED BY <1>0, <1>1, <1>2, <1>4, <1>5, <1>9, <2>1, RefreshTurned
<1>20. ToldOnline'
  <2>1. CASE h.cmd = "addFirst"
    BY <1>6, <2>1 DEF ToldOnline
  <2>2. CASE h.cmd = "addAgain"
    <3>1. Sending("addAgain")
      BY <1>2, <2>2 DEF Sending
    <3> QED BY <1>0, <1>1, <1>10, <2>2, <3>1 DEF ToldOnline
  <2> QED BY <1>1, <2>1, <2>2
<1>21. ToldOffline'
  BY <1>9 DEF ToldOffline
<1> QED BY <1>12, <1>14, <1>15, <1>16, <1>17, <1>18, <1>19, <1>20, <1>21 DEF Calm

LEMMA SRemCalm ==
  ASSUME Steady, NEW i \in Instance, SRem(i)
  PROVE  Calm'
<1> DEFINE h == Head(pipe[i])
           s == h.of
           e == Msg("scard", s)
<1>0. /\ TypeOK /\ TypeOK'
      /\ Tidy /\ SetupSent /\ CloseSent /\ OnlineSent /\ OneSlot /\ Apart
      /\ SetRight /\ RefreshDue /\ ToldOnline /\ ToldOffline
  BY Unfolded, CommandType DEF RunCommand
<1>1. /\ UNCHANGED <<online, up, since, conn, isAlive, registered, setup, shown>>
      /\ pipe[i] # <<>> /\ h.cmd = "srem" /\ pipe' = Reply(i, "scard", s)
      /\ refs' = refs \ {s}
  BY DEF SRem, Runs, sockets
<1>2. h \in Command /\ In(pipe[i], h) /\ s \in Socket /\ h = Msg("srem", s)
  BY <1>0, <1>1, HeadSent, Messages
<1>3. /\ e \in Command /\ e.of = s /\ e.cmd = "scard"
      /\ \A d, x : Msg(d, x).cmd = d /\ Msg(d, x).of = x
  BY <1>2, Messages DEF CleanupCmd
<1>4. Turned(i, h, {e})
  BY <1>0, <1>1, <1>3, ReplyOrder
<1> HIDE DEF h, s, e
<1>5. i = Home[s] /\ conn[s] = "closed" /\ setup[s] = "over"
  BY <1>0, <1>1, <1>2 DEF CloseSent, s
<1>6. Recorded' = Recorded /\ Kept' = Kept /\ s \notin Kept
  BY <1>1, <1>5 DEF Recorded, Kept
<1>7. /\ \A d : d \notin {"srem", "scard"} => (Sending(d)' <=> Sending(d))
      /\ \A t \in Socket \ {s} : Closing(t)' <=> Closing(t)
      /\ \A d : d = "scard" => Sending(d)'
  <2>1. \A d : d \notin {"srem", "scard"} => (Sending(d)' <=> Sending(d))
    BY <1>1, <1>3, <1>4, TurnedSame
  <2>2. \A t \in Socket \ {s} : Closing(t)' <=> Closing(t)
    BY <1>2, <1>3, <1>4, TurnedSame
  <2>3. \A d : d = "scard" => Sending(d)'
    BY <1>3, <1>4, TurnedSame
  <2> QED BY <2>1, <2>2, <2>3
<1>8. CleanupPending /\ CleanupPending'
  <2>1. Sending("srem")
    BY <1>1, <1>2 DEF Sending
  <2> QED BY <1>0, <1>7, <2>1, UnderWay DEF CleanupCmd
<1>9. Tidy' /\ Apart'
  BY <1>0, <1>1, <1>8 DEF Tidy, Apart
<1>10. SetupSent'
  BY <1>0, <1>1, <1>3, <1>4, SetupTurned DEF SetupCmd
<1>11. CloseSent'
  BY <1>0, <1>1, <1>3, <1>4, CloseTurned
(* This was the only command to remove s. *)
<1>12. \A m \in Command : ~Behind(pipe[i], m, h)
  <2> SUFFICES ASSUME NEW m \in Command, Behind(pipe[i], m, h) PROVE FALSE
    OBVIOUS
  <2>1. SameSlot(h, h)
    BY <1>1 DEF SameSlot
  <2>2. ~Behind(pipe[i], h, h)
    BY <1>0, <1>2, <2>1 DEF OneSlot
  <2>3. h \notin {e}
    BY <1>1, <1>3
  <2>4. ~In(pipe'[i], h)
    BY <1>4, <2>2, <2>3, Zenon DEF Turned
  <2>5. m = h \/ Behind(pipe'[i], m, h)
    BY <1>4, TurnedContents
  <2> QED BY <2>2, <2>4, <2>5, BehindIn, Zenon
<1>13. OnlineSent'
  <2> SUFFICES ASSUME NEW j \in Instance, NEW m \in Command, In(pipe'[j], m), m.cmd = "online"
               PROVE  /\ j = Home[m.of] /\ (m.of \in Recorded' \/ Closing(m.of)')
                      /\ ~Behind(pipe'[j], Msg("srem", m.of), m)
    BY DEF OnlineSent
  <2>1. m \notin {e} /\ m # h /\ m.of \in Socket
    BY <1>1, <1>3, Messages
  <2>2. In(pipe[j], m)
    BY <1>4, <2>1, TurnedContents
  <2>3. Behind(pipe'[j], Msg("srem", m.of), m) => Behind(pipe[j], Msg("srem", m.of), m)
    BY <1>4, <2>1, TurnedContents
  <2>4. j = Home[m.of] /\ (m.of \in Recorded \/ Closing(m.of)) /\ ~Behind(pipe[j], Msg("srem", m.of), m)
    BY <1>0, <2>2 DEF OnlineSent
  <2>5. m.of # s
    <3> SUFFICES ASSUME m.of = s PROVE FALSE
      OBVIOUS
    <3>1. j = i /\ h = Msg("srem", m.of)
      BY <1>2, <1>5, <2>4
    <3>2. Behind(pipe[i], h, m)
      BY <1>4, <2>1, <3>1, Zenon DEF Turned
    <3> QED BY <2>4, <3>1, <3>2
  <2> QED BY <1>6, <1>7, <2>1, <2>3, <2>4, <2>5
<1>14. OneSlot'
  <2>1. \A a \in Command : ~SameSlot(a, e)
    BY <1>3 DEF SameSlot, SetupCmd
  <2> QED BY <1>0, <1>2, <1>4, <2>1, SlotsTurned
<1>15. SetRight'
  BY <1>0, <1>1, <1>6, <1>7 DEF SetRight, TypeOK
<1>16. RefreshDue'
  <2>1. ASSUME NEW j \in Instance, NEW m \in Command, NEW t \in refs, Behind(pipe[j], m, Msg("srem", t))
        PROVE  t \in refs'
    <3> SUFFICES ASSUME t = s PROVE FALSE
      BY <1>1
    <3>1. In(pipe[j], h) /\ Behind(pipe[j], m, h)
      BY <1>2, <2>1, BehindIn
    <3>2. j = i
      BY <1>0, <1>1, <1>2, <1>5, <3>1 DEF CloseSent, s
    <3> QED BY <1>12, <3>1, <3>2
  <2> QED BY <1>0, <1>1, <1>2, <1>3, <1>4, <1>6, <2>1, RefreshTurned
<1>17. ToldOnline' /\ ToldOffline'
  BY <1>0, <1>1, <1>7, <1>8 DEF ToldOnline, ToldOffline
<1> QED BY <1>9, <1>10, <1>11, <1>13, <1>14, <1>15, <1>16, <1>17 DEF Calm

LEMMA ClosingSends ==
  ASSUME NEW t \in Socket, Closing(t)
  PROVE  Sending("srem")
<1>1. Msg("srem", t) \in Command /\ Msg("srem", t).cmd = "srem"
  BY Messages DEF CleanupCmd
<1> QED BY <1>1 DEF Closing, Sending

LEMMA SCardCalm ==
  ASSUME Steady, NEW i \in Instance, SCard(i)
  PROVE  Calm'
<1> DEFINE h == Head(pipe[i])
           E == IF refs # {} THEN {} ELSE {Msg("del", h.of)}
<1>0. /\ TypeOK /\ TypeOK'
      /\ Tidy /\ SetupSent /\ CloseSent /\ OnlineSent /\ OneSlot /\ Apart
      /\ SetRight /\ RefreshDue /\ ToldOnline /\ ToldOffline
  BY Unfolded, CommandType DEF RunCommand
<1>1. /\ UNCHANGED <<online, refs, up, since, conn, isAlive, registered, setup, shown>>
      /\ pipe[i] # <<>> /\ h.cmd = "scard"
      /\ pipe' = IF refs # {} THEN Popped(i) ELSE Reply(i, "del", h.of)
  BY DEF SCard, Runs, keys, sockets
<1>2. h \in Command /\ In(pipe[i], h) /\ h.of \in Socket
  BY <1>0, <1>1, HeadSent
<1>3. /\ Msg("del", h.of) \in Command
      /\ \A d, x : Msg(d, x).cmd = d
  BY <1>2, Messages DEF CleanupCmd
<1>4. Turned(i, h, E)
  BY <1>0, <1>1, <1>3, PoppedOrder, ReplyOrder
<1>5. \A e \in E : e.cmd = "del"
  BY <1>3
<1>6. refs = {} => \A d : d = "del" => Sending(d)'
  BY <1>3, <1>4, TurnedSame
<1> HIDE DEF h, E
<1>7. Recorded' = Recorded /\ Kept' = Kept
  BY <1>1 DEF Recorded, Kept
<1>8. /\ \A d : d \notin {"scard", "del"} => (Sending(d)' <=> Sending(d))
      /\ \A t \in Socket : Closing(t)' <=> Closing(t)
      /\ \A d : refs # {} /\ d = "del" /\ Sending(d)' => Sending(d)
  <2>1. \A d : d \notin {"scard", "del"} => (Sending(d)' <=> Sending(d))
    BY <1>1, <1>4, <1>5, TurnedSame
  <2>2. \A t \in Socket : Closing(t)' <=> Closing(t)
    BY <1>1, <1>3, <1>4, <1>5, TurnedSame
  <2>3. ASSUME refs # {} PROVE \A d : d = "del" /\ Sending(d)' => Sending(d)
    <3>1. E = {}
      BY <2>3 DEF E
    <3> QED BY <1>1, <1>4, <3>1, TurnedSame
  <2> QED BY <2>1, <2>2, <2>3
<1>9. CleanupPending
  <2>1. Sending("scard")
    BY <1>1, <1>2 DEF Sending
  <2> QED BY <1>0, <2>1, UnderWay DEF CleanupCmd
<1>10. Tidy' /\ Apart'
  BY <1>0, <1>1, <1>9 DEF Tidy, Apart
<1>11. SetupSent' /\ CloseSent' /\ OnlineSent'
  <2>1. h.cmd \notin SetupCmd /\ \A e \in E : e.cmd \notin SetupCmd
    BY <1>1, <1>5 DEF SetupCmd
  <2>2. SetupSent'
    BY <1>0, <1>1, <1>4, <2>1, SetupTurned
  <2>3. CloseSent'
    BY <1>0, <1>1, <1>4, <1>5, CloseTurned
  <2>4. OnlineSent'
    BY <1>0, <1>1, <1>4, <1>5, <1>7, OnlineTurned
  <2> QED BY <2>2, <2>3, <2>4
<1>12. OneSlot'
  <2>1. \A e \in E, a \in Command : ~SameSlot(a, e)
    BY <1>5 DEF SameSlot, SetupCmd
  <2> QED BY <1>0, <1>2, <1>4, <2>1, SlotsTurned
<1>13. SetRight'
  BY <1>0, <1>1, <1>7, <1>8 DEF SetRight, TypeOK
<1>14. RefreshDue'
  BY <1>0, <1>1, <1>2, <1>4, <1>5, <1>7, RefreshTurned
<1>15. ToldOnline'
  BY <1>0, <1>1, <1>8 DEF ToldOnline
(* Somebody is left in the set, recorded or being removed; or "del" follows. *)
<1>16. ToldOffline'
  <2>1. CASE refs = {}
    BY <1>0, <1>6, <2>1, UnderWay DEF ToldOffline, CleanupCmd
  <2>2. CASE refs # {}
    <3>1. PICK t \in refs : t \in Recorded \/ Closing(t)
      BY <1>0, <2>2 DEF SetRight
    <3>2. ASSUME Closing(t) PROVE CleanupPending'
      <4>1. Sending("srem")
        BY <1>0, <3>2, ClosingSends DEF TypeOK
      <4> QED BY <1>0, <1>8, <4>1, UnderWay DEF CleanupCmd
    <3> QED BY <1>7, <3>1, <3>2 DEF ToldOffline
  <2> QED BY <2>1, <2>2
<1> QED BY <1>10, <1>11, <1>12, <1>13, <1>14, <1>15, <1>16 DEF Calm

LEMMA DelCalm ==
  ASSUME Steady, NEW i \in Instance, Del(i)
  PROVE  Calm'
<1> DEFINE h == Head(pipe[i])
           e == Msg("offline", h.of)
<1>0. /\ TypeOK /\ TypeOK'
      /\ Tidy /\ SetupSent /\ CloseSent /\ OnlineSent /\ OneSlot /\ Apart
      /\ SetRight /\ RefreshDue /\ ToldOnline /\ ToldOffline
  BY Unfolded, CommandType DEF RunCommand
<1>1. /\ UNCHANGED <<up, since, conn, isAlive, registered, setup, shown>>
      /\ online' = 0 /\ refs' = {}
      /\ pipe[i] # <<>> /\ h.cmd = "del" /\ pipe' = Reply(i, "offline", h.of)
  BY DEF Del, Runs, sockets
<1>2. h \in Command /\ In(pipe[i], h) /\ h.of \in Socket
  BY <1>0, <1>1, HeadSent
<1>3. e \in Command /\ e.cmd = "offline" /\ \A d, x : Msg(d, x).cmd = d
  BY <1>2, Messages DEF CleanupCmd
<1>4. Turned(i, h, {e})
  BY <1>0, <1>1, <1>3, ReplyOrder
<1> HIDE DEF h, e
<1>5. Sending("del")
  BY <1>1, <1>2 DEF Sending
<1>6. CleanupPending /\ refs = {}
  BY <1>0, <1>5, UnderWay DEF CleanupCmd, SetRight
<1>7. Recorded' = Recorded /\ Kept' = Kept /\ Kept = {}
  BY <1>0, <1>1, <1>6 DEF Recorded, Kept, SetRight
<1>8. /\ \A d : d \notin {"del", "offline"} => (Sending(d)' <=> Sending(d))
      /\ \A d : d = "offline" => Sending(d)'
  <2>1. \A d : d \notin {"del", "offline"} => (Sending(d)' <=> Sending(d))
    BY <1>1, <1>3, <1>4, TurnedSame
  <2>2. \A d : d = "offline" => Sending(d)'
    BY <1>3, <1>4, TurnedSame
  <2> QED BY <2>1, <2>2
<1>9. CleanupPending'
  BY <1>0, <1>8, UnderWay DEF CleanupCmd
<1>10. Tidy' /\ Apart'
  BY <1>0, <1>1, <1>6 DEF Tidy, Apart
<1>11. SetupSent' /\ CloseSent' /\ OnlineSent'
  <2>1. h.cmd \notin SetupCmd /\ e.cmd \notin SetupCmd
    BY <1>1, <1>3 DEF SetupCmd
  <2>2. SetupSent'
    BY <1>0, <1>1, <1>4, <2>1, SetupTurned
  <2>3. CloseSent'
    BY <1>0, <1>1, <1>3, <1>4, CloseTurned
  <2>4. OnlineSent'
    BY <1>0, <1>1, <1>3, <1>4, <1>7, OnlineTurned
  <2> QED BY <2>2, <2>3, <2>4
<1>12. OneSlot'
  <2>1. \A a \in Command : ~SameSlot(a, e)
    BY <1>3 DEF SameSlot, SetupCmd
  <2> QED BY <1>0, <1>2, <1>4, <2>1, SlotsTurned
<1>13. SetRight'
  BY <1>1, <1>7 DEF SetRight
<1>14. RefreshDue'
  BY <1>0, <1>1, <1>2, <1>3, <1>4, <1>6, <1>7, RefreshTurned
<1>15. ToldOnline' /\ ToldOffline'
  BY <1>0, <1>1, <1>8, <1>9 DEF ToldOnline, ToldOffline
<1> QED BY <1>10, <1>11, <1>12, <1>13, <1>14, <1>15 DEF Calm

LEMMA AnnounceCalm ==
  ASSUME Steady, NEW i \in Instance, Announce(i)
  PROVE  Calm'
<1> DEFINE h == Head(pipe[i])
<1>0. /\ TypeOK /\ TypeOK'
      /\ Tidy /\ SetupSent /\ CloseSent /\ OnlineSent /\ OneSlot /\ Apart
      /\ SetRight /\ RefreshDue /\ ToldOnline /\ ToldOffline
  BY Unfolded, CommandType DEF RunCommand
<1>1. /\ UNCHANGED <<online, refs, up, since, conn, isAlive, registered, setup>>
      /\ pipe[i] # <<>> /\ h.cmd \in {"online", "offline"} /\ pipe' = Popped(i)
      /\ shown' <=> h.cmd = "online"
  BY DEF Announce, Runs, keys, sockets
<1>2. h \in Command /\ In(pipe[i], h) /\ h.of \in Socket
  BY <1>0, <1>1, HeadSent
<1>3. Turned(i, h, {})
  BY <1>0, <1>1, PoppedOrder
<1>4. \A d, x : Msg(d, x).cmd = d
  BY Messages
<1> HIDE DEF h
<1>5. Recorded' = Recorded /\ Kept' = Kept
  BY <1>1 DEF Recorded, Kept
<1>6. /\ \A d : d \notin {"online", "offline"} => (Sending(d)' <=> Sending(d))
      /\ \A d : Sending(d)' => Sending(d)
      /\ \A t \in Socket : Closing(t)' <=> Closing(t)
  <2>1. \A d : d \notin {"online", "offline"} => (Sending(d)' <=> Sending(d))
    BY <1>1, <1>3, TurnedSame
  <2>2. \A d : Sending(d)' => Sending(d)
    BY <1>3, TurnedContents DEF Sending
  <2>3. \A t \in Socket : Closing(t)' <=> Closing(t)
    BY <1>1, <1>3, <1>4, TurnedSame
  <2> QED BY <2>1, <2>2, <2>3
<1>7. CleanupPending' => CleanupPending
  BY <1>0, <1>6, UnderWay
<1>8. Tidy' /\ Apart'
  BY <1>0, <1>1, <1>7 DEF Tidy, Apart
<1>9. SetupSent' /\ CloseSent' /\ OnlineSent'
  <2>1. h.cmd \notin SetupCmd
    BY <1>1 DEF SetupCmd
  <2>2. SetupSent'
    BY <1>0, <1>1, <1>3, <2>1, SetupTurned
  <2>3. CloseSent'
    BY <1>0, <1>1, <1>3, CloseTurned
  <2>4. OnlineSent'
    BY <1>0, <1>1, <1>3, <1>5, OnlineTurned
  <2> QED BY <2>2, <2>3, <2>4
<1>10. OneSlot'
  BY <1>0, <1>2, <1>3, SlotsTurned
<1>11. SetRight'
  BY <1>0, <1>1, <1>5, <1>6 DEF SetRight, TypeOK
<1>12. RefreshDue'
  BY <1>0, <1>1, <1>2, <1>3, <1>5, RefreshTurned
<1>13. ToldOnline' /\ ToldOffline'
  <2>1. CASE h.cmd = "online"
    <3>1. h.of \in Recorded \/ Closing(h.of)
      BY <1>0, <1>2, <2>1 DEF OnlineSent
    <3>2. Closing(h.of) => CleanupPending'
      BY <1>0, <1>2, <1>6, ClosingSends, UnderWay DEF CleanupCmd
    <3> QED BY <1>1, <1>5, <2>1, <3>1, <3>2 DEF ToldOnline, ToldOffline
  <2>2. CASE h.cmd = "offline"
    <3>1. Sending("offline")
      BY <1>2, <2>2 DEF Sending
    <3>2. CleanupPending /\ online = 0
      BY <1>0, <3>1, UnderWay DEF CleanupCmd, SetRight
    <3>3. ~Sending("addAgain")
      <4> SUFFICES ASSUME NEW j \in Instance, NEW m \in Command, In(pipe[j], m), m.cmd = "addAgain"
                   PROVE  FALSE
        BY DEF Sending
      <4>1. setup[m.of] = "redis" /\ m.of \in Socket
        BY <1>0, Messages DEF SetupSent, SetupCmd
      <4> QED BY <1>0, <3>2, <4>1 DEF Apart
    <3>4. ~Sending("addAgain")' /\ ~shown' /\ online' = 0
      BY <1>1, <1>6, <2>2, <3>2, <3>3
    <3> QED BY <3>4 DEF ToldOnline, ToldOffline
  <2> QED BY <1>1, <2>1, <2>2
<1> QED BY <1>8, <1>9, <1>10, <1>11, <1>12, <1>13 DEF Calm

LEMMA RefreshCalm ==
  ASSUME Steady, NEW i \in Instance, Refresh(i)
  PROVE  Calm'
<1> DEFINE h == Head(pipe[i])
<1>0. /\ TypeOK /\ TypeOK' /\ RefsImplyOnline
      /\ Tidy /\ SetupSent /\ CloseSent /\ OnlineSent /\ OneSlot /\ Apart
      /\ SetRight /\ RefreshDue /\ ToldOnline /\ ToldOffline
  BY Unfolded, CommandType DEF RunCommand
<1>1. /\ UNCHANGED <<refs, up, since, conn, isAlive, registered, setup, shown>>
      /\ pipe[i] # <<>> /\ h.cmd = "refresh" /\ pipe' = Popped(i)
  BY DEF Refresh, Runs, sockets
<1>2. h \in Command /\ In(pipe[i], h)
  BY <1>0, <1>1, HeadSent
<1>3. Turned(i, h, {})
  BY <1>0, <1>1, PoppedOrder
<1>4. \A d, x : Msg(d, x).cmd = d
  BY Messages
<1> HIDE DEF h
<1>5. Recorded' = Recorded /\ Kept' = Kept
  BY <1>1 DEF Recorded, Kept
<1>6. /\ \A d : d # "refresh" => (Sending(d)' <=> Sending(d))
      /\ \A t \in Socket : Closing(t)' <=> Closing(t)
  <2>1. \A d : d # "refresh" => (Sending(d)' <=> Sending(d))
    BY <1>1, <1>3, TurnedSame
  <2>2. \A t \in Socket : Closing(t)' <=> Closing(t)
    BY <1>1, <1>3, <1>4, TurnedSame
  <2> QED BY <2>1, <2>2
<1>7. CleanupPending' <=> CleanupPending
  BY <1>0, <1>6, UnderWay DEF CleanupCmd
<1>8. Tidy' /\ Apart'
  BY <1>0, <1>1, <1>7 DEF Tidy, Apart
<1>9. SetupSent' /\ CloseSent' /\ OnlineSent'
  <2>1. h.cmd \notin SetupCmd
    BY <1>1 DEF SetupCmd
  <2>2. SetupSent'
    BY <1>0, <1>1, <1>3, <2>1, SetupTurned
  <2>3. CloseSent'
    BY <1>0, <1>1, <1>3, CloseTurned
  <2>4. OnlineSent'
    BY <1>0, <1>1, <1>3, <1>5, OnlineTurned
  <2> QED BY <2>2, <2>3, <2>4
<1>10. OneSlot'
  BY <1>0, <1>2, <1>3, SlotsTurned
<1>11. RefreshDue'
  BY <1>0, <1>1, <1>2, <1>3, <1>5, RefreshTurned
(* The socket q the refresh is for is on record, or about to be put there.  *)
<1>12. PICK q \in Socket : /\ Home[q] = i
                           /\ \/ q \in refs
                              \/ setup[q] = "redis" /\ ~Behind(pipe[i], h, Msg("exists", q))
  BY <1>0, <1>1, <1>2 DEF RefreshDue, SetRight
<1>13. SetRight'
  <2>1. ~Sending("offline")
    <3> SUFFICES ASSUME Sending("offline") PROVE FALSE
      OBVIOUS
    <3>1. CleanupPending /\ refs = {}
      BY <1>0, UnderWay DEF CleanupCmd, SetRight
    <3> QED BY <1>0, <1>12, <3>1 DEF Apart
  <2> QED BY <1>0, <1>1, <1>5, <1>6, <2>1 DEF SetRight, TypeOK
<1>14. shown \/ Sending("online") \/ Sending("addFirst")
  <2>1. CASE q \in refs
    BY <1>0, <2>1 DEF RefsImplyOnline, ToldOnline, TypeOK
  <2>2. CASE setup[q] = "redis" /\ ~Behind(pipe[i], h, Msg("exists", q))
    <3>1. PICK m \in Command : In(pipe[i], m) /\ m.cmd \in SetupCmd /\ m.of = q
      BY <1>0, <1>12, <2>2 DEF SetupSent
    <3>2. m # h
      BY <1>1, <3>1 DEF SetupCmd
    <3>3. Behind(pipe[i], h, m)
      <4>1. In(pipe'[i], m)
        BY <1>3, <3>1, <3>2, TurnedContents
      <4> QED BY <1>3, <4>1, Zenon DEF Turned
    <3>4. m.cmd # "exists"
      BY <2>2, <3>1, <3>3, Messages
    <3>5. Sending("addFirst") \/ Sending("addAgain")
      BY <3>1, <3>4 DEF SetupCmd, Sending
    <3> QED BY <1>0, <3>5 DEF ToldOnline
  <2> QED BY <1>12, <2>1, <2>2
<1>15. ToldOnline' /\ ToldOffline'
  BY <1>0, <1>1, <1>5, <1>6, <1>7, <1>14 DEF ToldOnline, ToldOffline
<1> QED BY <1>8, <1>9, <1>10, <1>11, <1>13, <1>15 DEF Calm

(* While nobody has crashed, a key that expires had nobody to keep it.      *)
LEMMA TickCalm ==
  ASSUME Steady, Tick
  PROVE  Calm'
<1>0. /\ TypeOK /\ TypeOK' /\ Margin /\ RefsImplyOnline /\ KeysEqual
      /\ Tidy /\ SetupSent /\ CloseSent /\ OnlineSent /\ OneSlot /\ Apart
      /\ SetRight /\ RefreshDue /\ ToldOnline /\ ToldOffline
  BY Unfolded, TickType
<1>1. /\ UNCHANGED <<pipe, up, conn, isAlive, registered, setup, shown>>
      /\ \A i \in Instance : since[i] < MaxLate /\ ~InFlight(i, {"refresh"})
      /\ refs' \subseteq refs /\ online' <= online /\ online' \in Nat
      /\ refs' # refs => refs' = {} /\ refsTtl <= 1
  BY <1>0 DEF Tick, Tidy, sockets, TypeOK
<1>2. Recorded' = Recorded /\ Kept' = Kept
  BY <1>1 DEF Recorded, Kept
<1>3. Kept' \subseteq refs'
  <2> SUFFICES ASSUME NEW s \in Kept, s \notin refs' PROVE FALSE
    BY <1>2
  <2>1. refs # {} /\ refsTtl = 1 /\ online = 1
    BY <1>0, <1>1 DEF SetRight, RefsImplyOnline, KeysEqual, TypeOK
  <2>2. Home[s] \in Instance /\ Home[s] \notin Refreshers
    BY <1>1 DEF Kept, Refreshers
  <2>3. 1 + since[Home[s]] >= Ttl /\ since[Home[s]] < MaxLate /\ since[Home[s]] \in Nat
    BY <1>0, <1>1, <2>1, <2>2 DEF Margin, TypeOK
  <2> QED BY <2>3
<1>4. /\ \A c : Sending(c)' <=> Sending(c)
      /\ \A s : Closing(s)' <=> Closing(s)
      /\ CleanupPending' <=> CleanupPending
      /\ OneSlot'
  BY <1>0, <1>1, PipeSame
<1>5. Tidy' /\ Apart'
  BY <1>0, <1>1, <1>4 DEF Tidy, Apart
<1>6. SetupSent' /\ CloseSent' /\ OnlineSent'
  <2>1. SetupSent'
    BY <1>0, <1>1 DEF SetupSent
  <2>2. CloseSent'
    BY <1>0, <1>1 DEF CloseSent
  <2>3. \A m \in Command : m.cmd = "online" => m.of \in Socket
    BY Messages
  <2>4. OnlineSent'
    BY <1>0, <1>1, <1>2, <1>4, <2>3 DEF OnlineSent
  <2> QED BY <2>1, <2>2, <2>4
<1>7. SetRight'
  BY <1>0, <1>1, <1>2, <1>3, <1>4 DEF SetRight, TypeOK
<1>8. RefreshDue'
  BY <1>0, <1>1, UnderWay DEF RefreshDue
<1>9. ToldOnline' /\ ToldOffline'
  BY <1>0, <1>1, <1>2, <1>4 DEF ToldOnline, ToldOffline, TypeOK
<1> QED BY <1>4, <1>5, <1>6, <1>7, <1>8, <1>9 DEF Calm

LEMMA KeysEqualStep == TypeOK /\ RefsImplyOnline /\ KeysEqual /\ [Next]_vars => KeysEqual'
<1> SUFFICES ASSUME TypeOK, RefsImplyOnline, KeysEqual, [Next]_vars PROVE KeysEqual'
  OBVIOUS
<1>0. ASSUME UNCHANGED keys PROVE KeysEqual'
  BY <1>0 DEF KeysEqual, keys
<1>1. ASSUME NEW s \in Socket,
             \/ Connect(s) \/ ScopeLoaded(s) \/ Connected(s) \/ SetupFail(s)
             \/ Close(s) \/ Terminated(s) \/ Lose(s) \/ Pong(s)
      PROVE  KeysEqual'
  BY <1>0, <1>1 DEF Connect, ScopeLoaded, Connected, SetupFail, Close, Terminated, OnClose, Lose, Pong
<1>2. ASSUME NEW i \in Instance, Heartbeat(i) \/ Crash(i) \/ Restart(i) \/ Reject(i)
      PROVE  KeysEqual'
  BY <1>0, <1>2 DEF Heartbeat, Crash, Restart, Reject
<1>3. ASSUME NEW i \in Instance, RunCommand(i) PROVE KeysEqual'
  <2>1. CASE AddRef(i)
    BY <2>1 DEF AddRef, KeysEqual
  <2>2. CASE SRem(i)
    BY <2>2 DEF SRem, KeysEqual
  <2>3. CASE Del(i)
    BY <2>3 DEF Del, KeysEqual
  <2>4. CASE Refresh(i)
    BY <2>4 DEF Refresh, KeysEqual
  <2> QED
    BY <1>0, <1>3, <2>1, <2>2, <2>3, <2>4 DEF RunCommand, CheckOnline, SCard, Announce
<1>4. CASE Tick
  BY <1>4 DEF Tick, KeysEqual, RefsImplyOnline, TypeOK
<1>5. CASE UNCHANGED vars
  BY <1>0, <1>5 DEF vars
<1> QED BY <1>1, <1>2, <1>3, <1>4, <1>5 DEF Next

(* A disturbance is never forgotten; until there is one, every step is calm. *)
LEMMA CalmStep == Steady /\ ~disturbed /\ [Next]_vars => disturbed' \/ Calm'
<1> SUFFICES ASSUME Steady, ~disturbed, [Next]_vars, ~disturbed' PROVE Calm'
  OBVIOUS
<1>1. ASSUME NEW s \in Socket,
             \/ Connect(s) \/ ScopeLoaded(s) \/ Connected(s) \/ SetupFail(s)
             \/ Close(s) \/ Terminated(s) \/ Lose(s) \/ Pong(s)
      PROVE  Calm'
  <2>1. CASE ScopeLoaded(s)
    BY <2>1, ScopeCalm DEF ScopeLoaded
  <2>2. CASE Close(s) \/ Terminated(s)
    BY <2>2, CloseCalm DEF Close, Terminated, OnClose
  <2>3. ~SetupFail(s)
    BY DEF SetupFail
  <2> QED BY <1>1, <2>1, <2>2, <2>3, ClientCalm
<1>2. ASSUME NEW i \in Instance, Heartbeat(i) \/ Reject(i) \/ Crash(i) \/ Restart(i)
      PROVE  Calm'
  <2>1. ~Reject(i) /\ ~Crash(i)
    BY DEF Reject, Crash
  <2>2. ~Restart(i)
    BY Unfolded DEF Restart, Tidy
  <2> QED BY <1>2, <2>1, <2>2, BeatCalm
<1>3. ASSUME NEW i \in Instance, RunCommand(i) PROVE Calm'
  BY <1>3, CheckCalm, AddCalm, SRemCalm, SCardCalm, DelCalm, AnnounceCalm, RefreshCalm DEF RunCommand
<1>4. CASE UNCHANGED vars
  <2>1. UNCHANGED <<keys, pipe, up, since, registered, shown, conn, isAlive, setup>>
    BY <1>4 DEF vars, sockets
  <2>2. Tidy' /\ Kept' = Kept /\ Recorded' = Recorded
    BY <2>1, Unfolded DEF Tidy, Kept, Recorded
  <2> QED BY <2>1, <2>2, SocketsOnly
<1> QED BY <1>1, <1>2, <1>3, <1>4, TickCalm DEF Next

LEMMA AgreeInvHolds == Spec => []AgreeInv
<1>1. Init => KeysEqual /\ Calm
  <2> SUFFICES ASSUME Init PROVE KeysEqual /\ Calm
    OBVIOUS
  <2>1. /\ refs = {} /\ online = 0 /\ registered = {} /\ shown = FALSE
        /\ \A i \in Instance : pipe[i] = <<>> /\ up[i]
        /\ \A s \in Socket : setup[s] = "idle" /\ Home[s] \in Instance
    BY DEF Init
  <2>2. /\ \A i \in Instance : \A m : ~In(pipe[i], m)
        /\ \A i \in Instance : \A a, b : ~Behind(pipe[i], a, b)
    BY <2>1 DEF In, Behind
  <2>3. ~CleanupPending /\ \A c : ~Sending(c)
    BY <2>1, <2>2 DEF CleanupPending, InFlight, Sending
  <2>4. Tidy /\ SetupSent /\ CloseSent /\ OnlineSent /\ OneSlot
    BY <2>1, <2>2 DEF Tidy, SetupSent, CloseSent, OnlineSent, OneSlot
  <2>5. Apart /\ SetRight /\ RefreshDue /\ ToldOnline /\ ToldOffline /\ KeysEqual
    BY <2>1, <2>2, <2>3 DEF Apart, SetRight, Kept, RefreshDue, ToldOnline, ToldOffline, KeysEqual
  <2> QED BY <2>4, <2>5 DEF Calm
<1>2. AgreeInv /\ [Next]_vars => KeysEqual' /\ (~disturbed' => Calm')
  <2> SUFFICES ASSUME AgreeInv, [Next]_vars PROVE KeysEqual' /\ (~disturbed' => Calm')
    OBVIOUS
  <2>1. KeysEqual'
    BY KeysEqualStep DEF AgreeInv, Inv
  <2>2. disturbed => disturbed'
    BY DEF Next, Connect, ScopeLoaded, Connected, SetupFail, Close, Terminated, OnClose, Lose, Pong,
           Heartbeat, RunCommand, CheckOnline, AddRef, SRem, SCard, Del, Announce, Refresh,
           Reject, Crash, Restart, Tick, vars
  <2>3. ~disturbed => disturbed' \/ Calm'
    BY CalmStep DEF AgreeInv, Steady
  <2> QED BY <2>1, <2>2, <2>3
<1> QED BY <1>1, <1>2, InvHolds, KeysAgree, PTL DEF Spec, AgreeInv

(* The peers are shown the user online exactly while a socket is live,      *)
(* whenever nothing is under way, however the set-ups, closes, heartbeats   *)
(* and announcements of any number of sockets on any number of instances    *)
(* interleaved, as long as no set-up overlapped a close, no command failed  *)
(* and no process died (presence.ts addSocket, removeSocket and             *)
(* refreshPresence; announcePresence in the server).                        *)
THEOREM PeersToldRight == Spec => []PeersAgree
<1>1. AgreeInv => PeersAgree
  <2> SUFFICES ASSUME AgreeInv, ~disturbed, Quiet PROVE shown <=> Live # {}
    BY DEF PeersAgree
  <2>0. TypeOK /\ RefsImplyOnline /\ Tidy /\ SetRight /\ ToldOnline /\ ToldOffline
    BY DEF AgreeInv, Inv, Calm
  <2>1. ~CleanupPending /\ \A c : ~Sending(c)
    BY DEF Quiet, CleanupPending, InFlight, Sending, In
  <2>2. ASSUME Live # {} PROVE shown
    <3>1. Live \subseteq Kept
      BY DEF Live, Kept
    <3>2. online > 0
      BY <2>0, <2>2, <3>1 DEF SetRight, RefsImplyOnline, TypeOK
    <3> QED BY <2>0, <2>1, <3>2 DEF ToldOnline
  <2>3. ASSUME shown PROVE Live # {}
    <3>1. PICK s \in Recorded : TRUE
      BY <2>0, <2>1, <2>3 DEF ToldOffline
    <3>2. s \in Socket /\ conn[s] = "open" /\ setup[s] \in {"peers", "over"}
      BY <2>0, <3>1 DEF Recorded, Tidy, Quiet, TypeOK
    <3> QED BY <3>2 DEF Live
  <2> QED BY <2>2, <2>3
<1> QED BY <1>1, AgreeInvHolds, PTL
=============================================================================
