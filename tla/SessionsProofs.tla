--------------------------- MODULE SessionsProofs ---------------------------
(***************************************************************************)
(* The sessions of an account, for any number of tabs, refresh tokens,     *)
(* logins, resets and faults and any time to live: logins never fork,      *)
(* revocations reach every token, and the tabs of a browser agree.         *)
(***************************************************************************)
EXTENDS Sessions, SequenceTheorems, FiniteSetTheorems, TLAPS

Token == 0..MaxTime
Refresh == Ids \cup {0}
Origin == [pw : 0..MaxResets, login : 0..MaxLogins, raced : BOOLEAN]

(* What a login or refresh of a tab can be at, and what it knows there.     *)
Compares == [pc : {"compare"}, kind : {"login"}, used : {0}, pw : 0..MaxResets,
             login : 0..MaxLogins]
GetDels  == [pc : {"getdel"}, kind : {"refresh"}, used : Ids]
Issues   == [pc : {"issue"}, kind : {"login", "refresh"}, used : Refresh, from : Origin]
Answers  == [pc : {"answer"}, kind : {"login", "refresh"}, used : Refresh, id : Refresh,
             token : Token]
Calls == {NoCall} \cup Compares \cup GetDels \cup Issues \cup {a \in Answers : a.id = 0 <=> a.token = 0}

Requests == {NoReq} \cup [pc : {"sent", "waiting", "consume"}, kind : {"api", "logout"},
                          token : Token, rt : Refresh, retried : BOOLEAN]
Resets == [pc : {"none", "members", "drop"}] \cup [pc : {"del"}, hashes : SUBSET Ids]

ServerTyped ==
  /\ now \in 1..MaxTime /\ issued \in 0..MaxIssued
  /\ live \subseteq Ids /\ index \subseteq Ids /\ about \in [Ids -> Origin]
  /\ after \in Token /\ blacklist \subseteq 1..MaxTime /\ reset \in Resets
CountsTyped ==
  /\ logins \in 0..MaxLogins /\ resets \in 0..MaxResets /\ pw = resets
ViewTyped ==
  /\ jwt \in Token /\ rt \in Refresh /\ (jwt = 0 <=> rt = 0)
  /\ mem \in [Tabs -> Token] /\ user \in [Tabs -> BOOLEAN]
  /\ ws \in [Tabs -> {"off", "dialing", "open", "closed"}]
  /\ notes \in [Tabs -> Seq(Token)]
TasksTyped ==
  /\ awaits \in [Tabs -> BOOLEAN]
  /\ req \in [Tabs -> Requests]
  /\ call \in [Tabs -> Calls]
Typed == ServerTyped /\ CountsTyped /\ ViewTyped /\ TasksTyped

-----------------------------------------------------------------------------
(* Types *)

LEMMA TimeFacts ==
  /\ 0 \notin Ids /\ 0 \in Token /\ 1 \in Token /\ 1 \in 1..MaxTime
  /\ 1..MaxTime \subseteq Token /\ MaxTime \in Nat /\ AccessTtl \in Nat
  /\ MaxLogins \in Nat /\ MaxResets \in Nat /\ MaxIssued \in Nat
BY SessionsAssumption, BoundsAssumption DEF Token

(* What the step a call is at says about its fields.                        *)
LEMMA CallKinds ==
  ASSUME NEW c \in Calls
  PROVE  /\ c.pc \in {"none", "compare", "getdel", "issue", "answer"}
         /\ c.pc = "none" <=> c = NoCall
         /\ c.pc = "compare" <=> c \in Compares
         /\ c.pc = "getdel" <=> c \in GetDels
         /\ c.pc = "issue" <=> c \in Issues
         /\ c.pc = "answer" <=> (c \in Answers /\ (c.id = 0 <=> c.token = 0))
BY DEF Calls, NoCall, Compares, GetDels, Issues, Answers

LEMMA ReqKinds ==
  ASSUME NEW r \in Requests
  PROVE  /\ r.pc = "none" <=> r = NoReq
         /\ r.pc # "none" => /\ r \in [pc : {"sent", "waiting", "consume"}, kind : {"api", "logout"},
                                       token : Token, rt : Refresh, retried : BOOLEAN]
BY DEF Requests, NoReq

LEMMA SetMemTyped ==
  ASSUME ViewTyped, NEW t \in Tabs, NEW token \in Token, SetMem(t, token)
  PROVE  /\ mem' \in [Tabs -> Token] /\ mem'[t] = token
         /\ \A u \in Tabs \ {t} : mem'[u] = mem[u]
         /\ ws' \in [Tabs -> {"off", "dialing", "open", "closed"}]
BY DEF SetMem, ViewTyped

LEMMA StoreTyped ==
  ASSUME ViewTyped, NEW t \in Tabs, NEW token \in Token, NEW refresh, Store(t, token, refresh)
  PROVE  notes' \in [Tabs -> Seq(Token)]
BY DEF Store, ViewTyped

LEMMA ClearTyped ==
  ASSUME ViewTyped, NEW t \in Tabs, ClearAuth(t)
  PROVE  ViewTyped'
<1>1. 0 \in Token
  BY TimeFacts
<1>2. notes' \in [Tabs -> Seq(Token)] /\ mem' \in [Tabs -> Token]
      /\ ws' \in [Tabs -> {"off", "dialing", "open", "closed"}]
  BY <1>1, StoreTyped, SetMemTyped DEF ClearAuth
<1> QED BY <1>1, <1>2 DEF ClearAuth, Store, ViewTyped, Refresh

LEMMA RenewedTyped ==
  ASSUME ViewTyped, TasksTyped, NEW t \in Tabs
  PROVE  Renewed(t) \in [Tabs -> Calls]
<1> DEFINE a == [pc |-> "answer", kind |-> "refresh", used |-> 0, id |-> 0, token |-> 0]
           g == [pc |-> "getdel", kind |-> "refresh", used |-> rt]
<1>1. a \in Calls
  BY TimeFacts DEF Calls, Answers, Refresh
<1>2. rt # 0 => g \in Calls
  BY DEF Calls, GetDels, ViewTyped, Refresh
<1>3. call \in [Tabs -> Calls]
  BY DEF TasksTyped
<1>4. Renewed(t) = IF call[t].pc = "none" THEN [call EXCEPT ![t] = IF rt = 0 THEN a ELSE g] ELSE call
  BY DEF Renewed
<1> HIDE DEF a, g
<1> QED BY <1>1, <1>2, <1>3, <1>4

LEMMA FailedTyped ==
  ASSUME TasksTyped, NEW t \in Tabs, NEW used \in Refresh, call[t].kind \in {"login", "refresh"}
  PROVE  Failed(t, used) \in [Tabs -> Calls]
<1> DEFINE a == [pc |-> "answer", kind |-> call[t].kind, used |-> used, id |-> 0, token |-> 0]
<1>1. a \in Calls
  BY TimeFacts DEF Calls, Answers, Refresh
<1>2. Failed(t, used) = [call EXCEPT ![t] = a]
  BY DEF Failed
<1> HIDE DEF a
<1> QED BY <1>1, <1>2 DEF TasksTyped
(* A request moves on, keeps its kind and, unless it is replayed, its token. *)
LEMMA ReqMoves ==
  ASSUME TasksTyped, NEW t \in Tabs, req[t].pc # "none", NEW pc \in {"sent", "waiting", "consume"}
  PROVE  [req EXCEPT ![t].pc = pc] \in [Tabs -> Requests]
<1> DEFINE r == [req[t] EXCEPT !.pc = pc]
<1>1. req[t] \in [pc : {"sent", "waiting", "consume"}, kind : {"api", "logout"},
                  token : Token, rt : Refresh, retried : BOOLEAN]
  BY ReqKinds DEF TasksTyped
<1>2. r \in Requests
  BY <1>1 DEF Requests
<1>3. [req EXCEPT ![t].pc = pc] = [req EXCEPT ![t] = r]
  OBVIOUS
<1> HIDE DEF r
<1> QED BY <1>2, <1>3 DEF TasksTyped

LEMMA ReplayTyped ==
  ASSUME TasksTyped, NEW t \in Tabs, NEW token \in Token
  PROVE  /\ Replay(t, token) \in [Tabs -> Requests]
         /\ Replay(t, token)[t].pc # "waiting"
         /\ \A u \in Tabs \ {t} : Replay(t, token)[u] = req[u]
<1> DEFINE r == [req[t] EXCEPT !.pc = "sent", !.token = token, !.retried = TRUE]
<1>1. CASE req[t].pc = "waiting"
  <2>1. req[t] \in [pc : {"sent", "waiting", "consume"}, kind : {"api", "logout"},
                    token : Token, rt : Refresh, retried : BOOLEAN]
    BY <1>1, ReqKinds DEF TasksTyped
  <2>2. r \in Requests /\ r.pc = "sent"
    BY <2>1 DEF Requests
  <2>3. Replay(t, token) = [req EXCEPT ![t] = r]
    BY <1>1 DEF Replay
  <2> HIDE DEF r
  <2> QED BY <2>2, <2>3 DEF TasksTyped
<1>2. CASE req[t].pc # "waiting"
  BY <1>2 DEF Replay, TasksTyped
<1> QED BY <1>1, <1>2

LEMMA GoOnTyped ==
  ASSUME ViewTyped, TasksTyped, NEW t \in Tabs, NEW token \in Token, NEW stored,
         GoOn(t, token, stored)
  PROVE  /\ req' \in [Tabs -> Requests] /\ awaits' \in [Tabs -> BOOLEAN]
         /\ mem' \in [Tabs -> Token] /\ ws' \in [Tabs -> {"off", "dialing", "open", "closed"}]
         /\ \A u \in Tabs \ {t} : mem'[u] = mem[u]
         /\ mem'[t] = token \/ (~stored /\ UNCHANGED mem)
<1>1. req' \in [Tabs -> Requests] /\ awaits' \in [Tabs -> BOOLEAN]
  BY ReplayTyped DEF GoOn, TasksTyped
<1>2. CASE mem' = [mem EXCEPT ![t] = token] /\ ws' = [ws EXCEPT ![t] = "dialing"]
  BY <1>1, <1>2 DEF ViewTyped
<1>3. CASE stored /\ SetMem(t, token)
  BY <1>1, <1>3, SetMemTyped
<1>4. CASE ~stored /\ UNCHANGED <<mem, ws>>
  BY <1>1, <1>4 DEF ViewTyped
<1> QED BY <1>1, <1>2, <1>3, <1>4 DEF GoOn

(* The steps of a tab.                                                      *)
LEMMA DialTyped ==
  ASSUME Typed, NEW t \in Tabs, Dial(t) \/ WsDrop(t)
  PROVE  Typed'
<1>1. UNCHANGED <<now, issued, pw, live, index, about, after, blacklist, reset, jwt, rt, mem, user,
                  req, notes, logins, resets>>
  BY DEF Dial, WsDrop, redis, storage, counts
<1>2. ws' \in [Tabs -> {"off", "dialing", "open", "closed"}]
  BY DEF Dial, WsDrop, Typed, ViewTyped
<1>3. awaits' \in [Tabs -> BOOLEAN] /\ call' \in [Tabs -> Calls]
  BY RenewedTyped DEF Dial, WsDrop, Typed, TasksTyped
<1> QED BY <1>1, <1>2, <1>3 DEF Typed, ServerTyped, CountsTyped, ViewTyped, TasksTyped

LEMMA RequestTyped ==
  ASSUME Typed, NEW t \in Tabs, \E kind \in {"api", "logout"} : Request(t, kind)
  PROVE  Typed'
<1>1. PICK kind \in {"api", "logout"} : Request(t, kind)
  OBVIOUS
<1> DEFINE r == [pc |-> "sent", kind |-> kind, token |-> jwt, rt |-> rt, retried |-> FALSE]
<1>2. r \in Requests
  BY DEF Requests, Typed, ViewTyped
<1>3. req' = [req EXCEPT ![t] = r]
  BY <1>1 DEF Request
<1> HIDE DEF r
<1>4. req' \in [Tabs -> Requests]
  BY <1>2, <1>3 DEF Typed, TasksTyped
<1>5. UNCHANGED <<now, issued, pw, live, index, about, after, blacklist, reset, jwt, rt, mem, user,
                  ws, awaits, call, notes, logins, resets>>
  BY <1>1 DEF Request, redis, storage
<1> QED BY <1>4, <1>5 DEF Typed, ServerTyped, CountsTyped, ViewTyped, TasksTyped

LEMMA ReqDone == ASSUME TasksTyped, NEW t \in Tabs PROVE [req EXCEPT ![t] = NoReq] \in [Tabs -> Requests]
BY DEF TasksTyped, Requests

LEMMA CallDone == ASSUME TasksTyped, NEW t \in Tabs PROVE [call EXCEPT ![t] = NoCall] \in [Tabs -> Calls]
BY DEF TasksTyped, Calls

LEMMA RefusedTyped ==
  ASSUME Typed, NEW t \in Tabs, Refused(t) \/ Served(t)
  PROVE  Typed'
<1>1. UNCHANGED <<now, issued, pw, live, index, about, after, blacklist, reset, awaits, logins, resets>>
  BY DEF Refused, Served, redis, counts
<1>2. req' \in [Tabs -> Requests]
  BY ReqMoves, ReqDone DEF Refused, Served, Typed
<1>3. call' \in [Tabs -> Calls]
  BY RenewedTyped DEF Refused, Served, Typed, TasksTyped
<1>4. ViewTyped'
  <2>1. CASE ClearAuth(t)
    BY <2>1, ClearTyped DEF Typed
  <2>2. CASE UNCHANGED <<storage, mem, user, ws, notes>>
    BY <2>2 DEF storage, Typed, ViewTyped
  <2> QED BY <2>1, <2>2 DEF Refused, Served
<1> QED BY <1>1, <1>2, <1>3, <1>4 DEF Typed, ServerTyped, CountsTyped, TasksTyped

LEMMA LogoutTyped ==
  ASSUME Typed, NEW t \in Tabs, LogoutBlacklist(t) \/ LogoutConsume(t)
  PROVE  Typed'
<1>1. UNCHANGED <<now, issued, pw, about, after, reset, awaits, call, logins, resets>>
  BY DEF LogoutBlacklist, LogoutConsume, counts
<1>2. CASE LogoutBlacklist(t)
  <2>1. req[t].pc = "sent" /\ req[t].token # 0
    BY <1>2 DEF LogoutBlacklist, Valid
  <2>2. req[t].token \in Token
    BY <2>1, ReqKinds DEF Typed, TasksTyped
  <2>3. req' \in [Tabs -> Requests]
    BY <1>2, <2>1, ReqMoves DEF LogoutBlacklist, Typed
  <2>4. blacklist' \subseteq 1..MaxTime
    BY <1>2, <2>1, <2>2, TimeFacts DEF LogoutBlacklist, Token, Typed, ServerTyped
  <2> QED BY <1>1, <1>2, <2>3, <2>4 DEF LogoutBlacklist, storage, Typed, ServerTyped, CountsTyped,
                                        ViewTyped, TasksTyped
<1>3. CASE LogoutConsume(t)
  <2>1. ViewTyped'
    BY <1>3, ClearTyped DEF LogoutConsume, Typed
  <2>2. req' \in [Tabs -> Requests]
    BY <1>3, ReqDone DEF LogoutConsume, Typed
  <2> QED BY <1>1, <1>3, <2>1, <2>2 DEF LogoutConsume, Typed, ServerTyped, CountsTyped, TasksTyped
<1> QED BY <1>2, <1>3

LEMMA StorageTyped ==
  ASSUME Typed, NEW t \in Tabs, OnStorage(t)
  PROVE  Typed'
<1> DEFINE token == Head(notes[t])
           rest == [notes EXCEPT ![t] = Tail(@)]
<1>1. token \in Token /\ rest \in [Tabs -> Seq(Token)]
  BY DEF OnStorage, Typed, ViewTyped
<1>2. SetMem(t, token)
  BY DEF OnStorage
<1>3. /\ UNCHANGED <<now, issued, pw, live, index, about, after, blacklist, reset, awaits, req, call,
                     logins, resets>>
      /\ user' \in [Tabs -> BOOLEAN]
  BY DEF OnStorage, redis, counts, Typed, ViewTyped
<1>4. jwt' \in Token /\ rt' \in Refresh /\ (jwt' = 0 <=> rt' = 0)
  BY TimeFacts DEF OnStorage, storage, Typed, ViewTyped, Refresh
<1>5. notes' \in [Tabs -> Seq(Token)]
  <2>1. \/ notes' = rest
        \/ notes' = [u \in Tabs |-> IF u # t /\ jwt # 0 THEN Append(rest[u], 0) ELSE rest[u]]
    BY DEF OnStorage
  <2>2. rest \in [Tabs -> Seq(Token)]
    BY <1>1
  <2> HIDE DEF rest
  <2>3. \A u \in Tabs : Append(rest[u], 0) \in Seq(Token)
    BY <2>2, TimeFacts
  <2>4. CASE notes' = rest
    BY <2>2, <2>4
  <2>5. CASE notes' = [u \in Tabs |-> IF u # t /\ jwt # 0 THEN Append(rest[u], 0) ELSE rest[u]]
    <3>1. \A u \in Tabs : (IF u # t /\ jwt # 0 THEN Append(rest[u], 0) ELSE rest[u]) \in Seq(Token)
      BY <2>2, <2>3
    <3> QED BY <2>5, <3>1
  <2> QED BY <2>1, <2>4, <2>5
<1> QED BY <1>1, <1>2, <1>3, <1>4, <1>5, SetMemTyped DEF Typed, ServerTyped, CountsTyped, ViewTyped,
                                                    TasksTyped

LEMMA AnswerTyped ==
  ASSUME Typed, NEW t \in Tabs,
         LoginAnswered(t) \/ RefreshAnswered(t) \/ UseStored(t) \/ GiveUp(t)
  PROVE  Typed'
<1>1. UNCHANGED <<now, issued, pw, live, index, about, after, blacklist, reset, logins, resets>>
  BY DEF LoginAnswered, RefreshAnswered, UseStored, GiveUp, redis, counts
<1>2. call' \in [Tabs -> Calls]
  BY CallDone DEF LoginAnswered, RefreshAnswered, UseStored, GiveUp, Typed
<1>3. call[t].token \in Token /\ call[t].id \in Refresh /\ (call[t].id = 0 <=> call[t].token = 0)
  <2>1. call[t].pc = "answer" /\ call[t] \in Calls
    BY DEF LoginAnswered, RefreshAnswered, UseStored, GiveUp, At, Typed, TasksTyped
  <2> QED BY <2>1, CallKinds DEF Answers
<1>4. CASE LoginAnswered(t)
  <2>1. ViewTyped'
    <3>1. CASE call[t].id # 0
      <4>1. Store(t, call[t].token, call[t].id) /\ SetMem(t, call[t].token)
            /\ user' = [user EXCEPT ![t] = TRUE]
        BY <1>4, <3>1 DEF LoginAnswered
      <4>2. jwt' = call[t].token /\ rt' = call[t].id
        BY <4>1 DEF Store
      <4> QED BY <1>3, <4>1, <4>2, StoreTyped, SetMemTyped DEF Typed, ViewTyped
    <3>2. CASE call[t].id = 0
      BY <1>4, <3>2 DEF LoginAnswered, storage, Typed, ViewTyped
    <3> QED BY <3>1, <3>2
  <2> QED BY <1>1, <1>2, <1>4, <2>1 DEF LoginAnswered, Typed, ServerTyped, CountsTyped, TasksTyped
<1>5. CASE RefreshAnswered(t)
  <2>1. Store(t, call[t].token, call[t].id) /\ GoOn(t, call[t].token, TRUE) /\ UNCHANGED user
        /\ call[t].id # 0
    BY <1>5 DEF RefreshAnswered
  <2>2. jwt' = call[t].token /\ rt' = call[t].id
    BY <2>1 DEF Store
  <2> QED BY <1>1, <1>2, <1>3, <2>1, <2>2, StoreTyped, GoOnTyped
          DEF Typed, ServerTyped, CountsTyped, ViewTyped, TasksTyped
<1>6. CASE UseStored(t)
  <2>1. GoOn(t, jwt, FALSE) /\ UNCHANGED <<jwt, rt, user, notes>> /\ jwt \in Token
    BY <1>6 DEF UseStored, storage, Typed, ViewTyped
  <2> QED BY <1>1, <1>2, <2>1, GoOnTyped
          DEF Typed, ServerTyped, CountsTyped, ViewTyped, TasksTyped
<1>7. CASE GiveUp(t)
  <2>1. req' \in [Tabs -> Requests] /\ awaits' \in [Tabs -> BOOLEAN]
    BY <1>7, ReqDone DEF GiveUp, Typed, TasksTyped
  <2>2. CASE ClearAuth(t)
    BY <1>1, <1>2, <2>1, <2>2, ClearTyped DEF Typed, ServerTyped, CountsTyped, TasksTyped
  <2>3. CASE UNCHANGED <<storage, mem, user, ws, notes>>
    BY <1>1, <1>2, <2>1, <2>3 DEF storage, Typed, ServerTyped, CountsTyped, ViewTyped, TasksTyped
  <2> QED BY <1>7, <2>2, <2>3 DEF GiveUp
<1> QED BY <1>4, <1>5, <1>6, <1>7

(* The steps of the server.                                                 *)
LEMMA CallTyped ==
  ASSUME TasksTyped, NEW t \in Tabs, NEW c \in Calls, call' = [call EXCEPT ![t] = c]
  PROVE  call' \in [Tabs -> Calls]
BY DEF TasksTyped

LEMMA LoginTyped ==
  ASSUME Typed, NEW t \in Tabs, Login(t) \/ Compare(t) \/ Lose(t)
  PROVE  Typed'
<1>1. UNCHANGED <<now, issued, pw, live, index, about, after, blacklist, reset, jwt, rt, mem, user, ws,
                  awaits, req, notes, resets>>
  BY DEF Login, Compare, Lose, redis, storage, counts
<1>2. logins' \in 0..MaxLogins
  BY TimeFacts DEF Login, Compare, Lose, counts, Typed, CountsTyped
<1>3. CASE Login(t)
  <2> DEFINE c == [pc |-> "compare", kind |-> "login", used |-> 0, pw |-> pw, login |-> logins']
  <2>1. c \in Calls
    BY <1>2 DEF Calls, Compares, Typed, CountsTyped
  <2>2. call' = [call EXCEPT ![t] = c]
    BY <1>3 DEF Login
  <2> HIDE DEF c
  <2> QED BY <1>1, <1>2, <2>1, <2>2, CallTyped
          DEF Typed, ServerTyped, CountsTyped, ViewTyped, TasksTyped
<1>4. CASE Compare(t)
  <2>1. call[t] \in Compares
    BY <1>4, CallKinds DEF Compare, At, Typed, TasksTyped
  <2>2. call' \in [Tabs -> Calls]
    <3> DEFINE c == [pc |-> "issue", kind |-> "login", used |-> 0,
                     from |-> [pw |-> pw, login |-> call[t].login, raced |-> FALSE]]
    <3>1. c \in Calls
      BY <2>1 DEF Calls, Compares, Issues, Origin, Refresh, Typed, CountsTyped
    <3>2. call' = [call EXCEPT ![t] = c] \/ call' = Failed(t, 0)
      BY <1>4 DEF Compare
    <3> HIDE DEF c
    <3>3. CASE call' = [call EXCEPT ![t] = c]
      BY <3>1, <3>3, CallTyped DEF Typed
    <3>4. CASE call' = Failed(t, 0)
      BY <2>1, <3>4, FailedTyped DEF Compares, Refresh, Typed
    <3> QED BY <3>2, <3>3, <3>4
  <2> QED BY <1>1, <1>2, <2>2 DEF Typed, ServerTyped, CountsTyped, ViewTyped, TasksTyped
<1>5. CASE Lose(t)
  <2>1. call[t].used \in Refresh /\ call[t].kind \in {"login", "refresh"}
    BY <1>5, CallKinds DEF Lose, GetDels, Issues, Answers, Refresh, Typed, TasksTyped
  <2>2. call' \in [Tabs -> Calls]
    BY <1>5, <2>1, FailedTyped DEF Lose, Typed
  <2> QED BY <1>1, <1>2, <2>2 DEF Typed, ServerTyped, CountsTyped, ViewTyped, TasksTyped
<1> QED BY <1>3, <1>4, <1>5

LEMMA GetDelTyped ==
  ASSUME Typed, NEW t \in Tabs, GetDel(t)
  PROVE  Typed'
<1>1. UNCHANGED <<now, issued, pw, about, after, blacklist, reset, jwt, rt, mem, user, ws,
                  awaits, req, notes, logins, resets>>
  BY DEF GetDel, storage, counts
<1>2. call[t] \in GetDels
  BY CallKinds DEF GetDel, At, Typed, TasksTyped
<1>3. call' \in [Tabs -> Calls]
  <2> DEFINE c == [pc |-> "issue", kind |-> "refresh", used |-> call[t].used, from |-> about[call[t].used]]
  <2>1. c \in Calls
    BY <1>2 DEF Calls, GetDels, Issues, Refresh, Typed, ServerTyped
  <2>2. call' = [call EXCEPT ![t] = c] \/ call' = Failed(t, call[t].used)
    BY DEF GetDel
  <2> HIDE DEF c
  <2>3. CASE call' = [call EXCEPT ![t] = c]
    BY <2>1, <2>3, CallTyped DEF Typed
  <2>4. CASE call' = Failed(t, call[t].used)
    BY <1>2, <2>4, FailedTyped DEF GetDels, Refresh, Typed
  <2> QED BY <2>2, <2>3, <2>4
<1>4. live' \subseteq live /\ index' \subseteq index
  BY DEF GetDel
<1> QED BY <1>1, <1>3, <1>4 DEF Typed, ServerTyped, CountsTyped, ViewTyped, TasksTyped

(* What issuing a token does, with the token named.                         *)
Raced(from) == [from EXCEPT !.raced = @ \/ Overlaps(from.pw)]
Issued(t, id) ==
  /\ call[t] \in Issues /\ issued < MaxIssued /\ issued' = issued + 1
  /\ id \in Ids \ Held
  /\ live' = live \cup {id} /\ index' = index \cup {id}
  /\ about' = [about EXCEPT ![id] = Raced(call[t].from)]
  /\ call' = [call EXCEPT ![t] = [pc |-> "answer", kind |-> call[t].kind, used |-> call[t].used,
                                  id |-> id, token |-> now]]
  /\ UNCHANGED <<now, pw, after, blacklist, reset, jwt, rt, mem, user, ws, awaits, req, notes,
                 logins, requests, resets, faults, escaped, reasons, outdated>>

LEMMA IssueNamed ==
  ASSUME Typed, NEW t \in Tabs, Issue(t)
  PROVE  \E id \in Ids : Issued(t, id)
<1>1. call[t] \in Issues
  BY CallKinds DEF Issue, Typed, TasksTyped
<1> QED BY <1>1 DEF Issue, Issued, Raced, storage, counts, history

LEMMA RacedTyped ==
  ASSUME NEW from \in Origin
  PROVE  /\ Raced(from) \in Origin /\ Raced(from).pw = from.pw /\ Raced(from).login = from.login
         /\ Raced(from).raced = (from.raced \/ Overlaps(from.pw))
BY DEF Raced, Origin, Overlaps

LEMMA IssueTyped ==
  ASSUME Typed, NEW t \in Tabs, Issue(t)
  PROVE  Typed'
<1>1. PICK id \in Ids : Issued(t, id)
  BY IssueNamed
<1> DEFINE c == [pc |-> "answer", kind |-> call[t].kind, used |-> call[t].used, id |-> id, token |-> now]
<1>2. c \in Calls
  BY <1>1, TimeFacts DEF Issued, Calls, Issues, Answers, Refresh, Typed, ServerTyped
<1>3. call' = [call EXCEPT ![t] = c]
  BY <1>1 DEF Issued
<1> HIDE DEF c
<1>4. call' \in [Tabs -> Calls]
  BY <1>2, <1>3, CallTyped DEF Typed
<1>5. Raced(call[t].from) \in Origin
  BY <1>1, RacedTyped DEF Issued, Issues
<1>6. about' \in [Ids -> Origin] /\ live' \subseteq Ids /\ index' \subseteq Ids
  BY <1>1, <1>5 DEF Issued, Typed, ServerTyped
<1>7. issued' \in 0..MaxIssued
  BY <1>1, TimeFacts DEF Issued, Typed, ServerTyped
<1>8. UNCHANGED <<now, pw, after, blacklist, reset, jwt, rt, mem, user, ws, awaits, req, notes,
                  logins, resets>>
  BY <1>1 DEF Issued
<1> QED BY <1>4, <1>6, <1>7, <1>8 DEF Typed, ServerTyped, CountsTyped, ViewTyped, TasksTyped

LEMMA ResetTyped ==
  ASSUME Typed, Tick \/ ResetSave \/ Reset \/ ResetFails
  PROVE  Typed'
<1>1. UNCHANGED <<about, blacklist, jwt, rt, mem, user, ws, awaits, req, call, notes, logins>>
  BY DEF Tick, ResetSave, Reset, Members, DelTokens, DelSet, ResetFails, redis, storage, tabs, counts
<1>2. ViewTyped' /\ TasksTyped'
  BY <1>1 DEF Typed, ViewTyped, TasksTyped
<1>3. now' \in 1..MaxTime /\ issued' \in 0..MaxIssued /\ live' \subseteq Ids /\ index' \subseteq Ids
  BY TimeFacts DEF Tick, ResetSave, Reset, Members, DelTokens, DelSet, ResetFails, redis, Typed, ServerTyped
<1>4. after' \in Token /\ reset' \in Resets
  BY TimeFacts DEF Tick, ResetSave, Reset, Members, DelTokens, DelSet, ResetFails, redis, Resets,
                   Typed, ServerTyped
<1>5. CountsTyped'
  BY TimeFacts DEF Tick, ResetSave, Reset, Members, DelTokens, DelSet, ResetFails, counts, Typed, CountsTyped
<1> QED BY <1>1, <1>2, <1>3, <1>4, <1>5 DEF Typed, ServerTyped

LEMMA StutterTyped == Typed /\ UNCHANGED vars => Typed'
BY DEF vars, redis, storage, tabs, counts, Typed, ServerTyped, CountsTyped, ViewTyped, TasksTyped

LEMMA InitTyped == Init => Typed
<1> SUFFICES ASSUME Init PROVE Typed
  OBVIOUS
<1>1. rt \in Ids /\ rt # 0 /\ jwt = 1
  BY TimeFacts DEF Init, First
<1>2. ServerTyped /\ CountsTyped
  BY <1>1, TimeFacts DEF Init, ServerTyped, CountsTyped, Resets, Origin
<1>3. ViewTyped
  BY <1>1, TimeFacts DEF Init, ViewTyped, Refresh
<1>4. TasksTyped
  BY DEF Init, TasksTyped, Requests, Calls
<1> QED BY <1>2, <1>3, <1>4 DEF Typed

LEMMA NextTyped == Typed /\ [Next]_vars => Typed'
BY StutterTyped, ResetTyped, DialTyped, RequestTyped, RefusedTyped, LogoutTyped, StorageTyped, AnswerTyped,
   LoginTyped, GetDelTyped, IssueTyped
   DEF Next, Server, Client

LEMMA AlwaysTyped == Spec => []Typed
BY InitTyped, NextTyped, PTL DEF Spec

LEMMA TypedIsTypeOK == Typed => TypeOK
<1> SUFFICES ASSUME Typed PROVE TypeOK
  OBVIOUS
<1>1. \A t \in Tabs : /\ req[t].pc \in {"none", "sent", "waiting", "consume"}
                      /\ call[t].pc \in {"none", "compare", "getdel", "issue", "answer"}
                      /\ notes[t] \in Seq(0..MaxTime)
  <2> TAKE t \in Tabs
  <2>1. req[t] \in Requests /\ call[t] \in Calls /\ notes[t] \in Seq(Token)
    BY DEF Typed, TasksTyped, ViewTyped
  <2> QED BY <2>1, CallKinds DEF Requests, NoReq, Token
<1>2. reset.pc \in {"none", "members", "del", "drop"} /\ pw \in 0..MaxResets
  BY DEF Typed, ServerTyped, Resets, CountsTyped
<1> QED BY <1>1, <1>2 DEF TypeOK, Typed, ServerTyped, ViewTyped, TasksTyped, Token, Refresh, Origin

(* The variables keep their types: a stored token and refresh token come    *)
(* and go together, and an answer carries both or none.                     *)
THEOREM TypeCorrect == Spec => []TypeOK
BY AlwaysTyped, TypedIsTypeOK, PTL

-----------------------------------------------------------------------------
(* Revocation *)

(* Between the commands of a reset: the keys it still has to delete, and    *)
(* the keys it has deleted.                                                 *)
Swept ==
  /\ reset.pc = "del" => \A id \in live : id \in reset.hashes \/ about[id].raced
  /\ reset.pc = "drop" => \A id \in live : about[id].raced
RevInv == Revocable /\ Swept /\ OldSessionsEnd

(* Steps that store no token and are not of the reset.                      *)
Shrinks ==
  /\ live' \subseteq live /\ live' \cap index \subseteq index'
  /\ UNCHANGED <<about, reset, pw, escaped>>

LEMMA ShrinksKeeps == RevInv /\ Shrinks => RevInv'
BY DEF RevInv, Revocable, Swept, OldSessionsEnd, Shrinks

LEMMA TabsShrink ==
  ASSUME NEW t \in Tabs,
         \/ Refused(t) \/ Served(t) \/ LogoutBlacklist(t) \/ LogoutConsume(t) \/ Compare(t) \/ GetDel(t)
         \/ Client(t) \/ (\E kind \in {"api", "logout"} : Request(t, kind)) \/ Login(t) \/ Lose(t)
         \/ WsDrop(t)
  PROVE  Shrinks
<1>1. CASE LogoutConsume(t)
  BY <1>1 DEF LogoutConsume, Shrinks, history
<1>2. CASE GetDel(t)
  BY <1>2 DEF GetDel, Shrinks, history
<1>3. CASE Client(t)
  BY <1>3 DEF Client, Dial, OnStorage, LoginAnswered, RefreshAnswered, UseStored, GiveUp, Shrinks, redis, history
<1>4. CASE Refused(t) \/ Served(t) \/ LogoutBlacklist(t) \/ Compare(t)
  BY <1>4 DEF Refused, Served, LogoutBlacklist, Compare, Shrinks, redis, history
<1>5. CASE (\E kind \in {"api", "logout"} : Request(t, kind)) \/ Login(t) \/ Lose(t) \/ WsDrop(t)
  BY <1>5 DEF Request, Login, Lose, WsDrop, Shrinks, redis, history
<1> QED BY <1>1, <1>2, <1>3, <1>4, <1>5

LEMMA IssueRev ==
  ASSUME Typed, RevInv, NEW t \in Tabs, Issue(t)
  PROVE  RevInv'
<1>1. PICK id \in Ids : Issued(t, id)
  BY IssueNamed
<1> DEFINE from == call[t].from
<1>2. from \in Origin /\ Raced(from).pw = from.pw /\ Raced(from).raced = (from.raced \/ Overlaps(from.pw))
  BY <1>1, RacedTyped DEF Issued, Issues
<1>3. about'[id] = Raced(from) /\ \A i \in Ids \ {id} : about'[i] = about[i]
  BY <1>1 DEF Issued, Typed, ServerTyped
<1>4. live' = live \cup {id} /\ index' = index \cup {id} /\ UNCHANGED <<reset, pw, escaped>>
      /\ live \subseteq Ids /\ id \notin live
  BY <1>1 DEF Issued, Held, Typed, ServerTyped
<1>5. Overlaps(from.pw) = ((from.pw # pw /\ reset.pc # "members") \/ reset.pc \in {"del", "drop"})
  BY DEF Overlaps
<1> HIDE DEF from
<1>6. Revocable'
  BY <1>3, <1>4 DEF RevInv, Revocable
<1>7. Swept'
  BY <1>2, <1>3, <1>4, <1>5 DEF RevInv, Swept
<1>8. OldSessionsEnd'
  BY <1>2, <1>3, <1>4, <1>5 DEF RevInv, OldSessionsEnd
<1> QED BY <1>6, <1>7, <1>8 DEF RevInv

LEMMA ResetRev ==
  ASSUME Typed, RevInv, Tick \/ ResetSave \/ Reset \/ ResetFails
  PROVE  RevInv'
<1>1. CASE Tick
  BY <1>1, ShrinksKeeps DEF Tick, Shrinks, redis, history
<1>2. CASE ResetSave
  BY <1>2 DEF ResetSave, redis, RevInv, Revocable, Swept, OldSessionsEnd
<1>3. CASE Members
  BY <1>3 DEF Members, history, RevInv, Revocable, Swept, OldSessionsEnd
<1>4. CASE DelTokens
  BY <1>4 DEF DelTokens, history, RevInv, Revocable, Swept, OldSessionsEnd
<1>5. CASE DelSet
  BY <1>5 DEF DelSet, history, RevInv, Revocable, Swept, OldSessionsEnd
<1>6. CASE ResetFails
  BY <1>6 DEF ResetFails, redis, RevInv, Revocable, Swept, OldSessionsEnd
<1> QED BY <1>1, <1>2, <1>3, <1>4, <1>5, <1>6 DEF Reset

LEMMA NextRev == Typed /\ RevInv /\ [Next]_vars => RevInv'
<1> SUFFICES ASSUME Typed, RevInv, [Next]_vars PROVE RevInv'
  OBVIOUS
<1>1. CASE UNCHANGED vars
  BY <1>1, ShrinksKeeps DEF vars, redis, history, Shrinks
<1>2. ASSUME NEW t \in Tabs, Issue(t) PROVE RevInv'
  BY <1>2, IssueRev
<1> QED BY <1>1, <1>2, ResetRev, TabsShrink, ShrinksKeeps DEF Next, Server

LEMMA InitRev == Init => RevInv
BY TimeFacts DEF Init, First, RevInv, Revocable, Swept, OldSessionsEnd

LEMMA AlwaysRev == Spec => [](Typed /\ RevInv)
BY AlwaysTyped, InitRev, NextRev, PTL DEF Spec

(* "Log out everywhere" reaches every refresh token in Redis: each is in    *)
(* the set of its user, whatever is consumed, rotated, logged out or reset  *)
(* meanwhile, but those stored while a revocation was under way.            *)
THEOREM EveryTokenListed == Spec => []Revocable
BY AlwaysRev, PTL DEF RevInv

(* A password reset that completed leaves no refresh token of an earlier    *)
(* password, but those whose login or refresh was past its check.           *)
THEOREM ResetEndsSessions == Spec => []OldSessionsEnd
BY AlwaysRev, PTL DEF RevInv

-----------------------------------------------------------------------------
(* A login never forks *)

(* A call that may still bring a token of this login into being.            *)
Pending(c, l) == (c.pc = "issue" /\ c.from.login = l) \/ (c.pc = "compare" /\ c.login = l)

(* A login is owned once: by a token in Redis or by a call under way.       *)
LoginInv ==
  /\ \A i, j \in live : about[i].login = about[j].login => i = j
  /\ \A t, u \in Tabs, l \in 0..MaxLogins : Pending(call[t], l) /\ Pending(call[u], l) => t = u
  /\ \A i \in live, t \in Tabs : ~Pending(call[t], about[i].login)
  /\ \A i \in live : about[i].login <= logins
  /\ \A t \in Tabs, l \in 0..MaxLogins : Pending(call[t], l) => l <= logins

(* Steps that create neither a token nor a login.                           *)
Settled ==
  /\ live' \subseteq live /\ UNCHANGED <<about, logins>>
  /\ \A u \in Tabs, l \in 0..MaxLogins : Pending(call'[u], l) => Pending(call[u], l)

LEMMA SettledKeeps == Typed /\ LoginInv /\ Settled => LoginInv'
<1> SUFFICES ASSUME Typed, LoginInv, Settled PROVE LoginInv'
  OBVIOUS
<1>1. \A i \in live : about[i].login \in 0..MaxLogins
  BY DEF Typed, ServerTyped, Origin
<1> QED BY <1>1 DEF LoginInv, Settled

LEMMA OneCallSettles ==
  ASSUME NEW t \in Tabs, NEW c, call \in [Tabs -> Calls], call' = [call EXCEPT ![t] = c],
         \A l \in 0..MaxLogins : Pending(c, l) => Pending(call[t], l)
  PROVE  \A u \in Tabs, l \in 0..MaxLogins : Pending(call'[u], l) => Pending(call[u], l)
<1> TAKE u \in Tabs, l \in 0..MaxLogins
<1>1. call'[u] = IF u = t THEN c ELSE call[u]
  OBVIOUS
<1> QED BY <1>1

LEMMA FailedPends ==
  ASSUME NEW t \in Tabs, NEW used, call \in [Tabs -> Calls], call' = Failed(t, used)
  PROVE  \A u \in Tabs, l \in 0..MaxLogins : Pending(call'[u], l) => Pending(call[u], l)
<1> DEFINE c == [pc |-> "answer", kind |-> call[t].kind, used |-> used, id |-> 0, token |-> 0]
<1>1. call' = [call EXCEPT ![t] = c] /\ c.pc = "answer"
  BY DEF Failed
<1> HIDE DEF c
<1>2. \A l \in 0..MaxLogins : ~Pending(c, l)
  BY <1>1 DEF Pending
<1> QED BY <1>1, <1>2, OneCallSettles

LEMMA RenewedPends ==
  ASSUME NEW t \in Tabs, call \in [Tabs -> Calls], call' = Renewed(t)
  PROVE  \A u \in Tabs, l \in 0..MaxLogins : Pending(call'[u], l) => Pending(call[u], l)
<1> DEFINE a == [pc |-> "answer", kind |-> "refresh", used |-> 0, id |-> 0, token |-> 0]
           g == [pc |-> "getdel", kind |-> "refresh", used |-> rt]
           c == IF rt = 0 THEN a ELSE g
<1>1. c.pc \in {"answer", "getdel"}
  OBVIOUS
<1>2. call' = [call EXCEPT ![t] = c] \/ call' = call
  BY DEF Renewed
<1> HIDE DEF c
<1>3. \A l \in 0..MaxLogins : ~Pending(c, l)
  BY <1>1 DEF Pending
<1> QED BY <1>2, <1>3, OneCallSettles

LEMMA DonePends ==
  ASSUME NEW t \in Tabs, call \in [Tabs -> Calls], call' = [call EXCEPT ![t] = NoCall]
  PROVE  \A u \in Tabs, l \in 0..MaxLogins : Pending(call'[u], l) => Pending(call[u], l)
<1>1. \A l \in 0..MaxLogins : ~Pending(NoCall, l)
  BY DEF Pending, NoCall
<1> QED BY <1>1, OneCallSettles

LEMMA TabsSettle ==
  ASSUME Typed, NEW t \in Tabs,
         \/ Refused(t) \/ Served(t) \/ LogoutBlacklist(t) \/ LogoutConsume(t) \/ Compare(t)
         \/ Client(t) \/ (\E kind \in {"api", "logout"} : Request(t, kind)) \/ Lose(t) \/ WsDrop(t)
  PROVE  Settled
<1> USE DEF Settled, redis, counts
<1>0. call \in [Tabs -> Calls]
  BY DEF Typed, TasksTyped
<1>1. CASE Refused(t) \/ Dial(t)
  BY <1>0, <1>1, RenewedPends DEF Refused, Dial
<1>2. CASE Served(t) \/ LogoutBlacklist(t) \/ LogoutConsume(t) \/ OnStorage(t) \/ WsDrop(t)
           \/ (\E kind \in {"api", "logout"} : Request(t, kind))
  BY <1>2 DEF Served, LogoutBlacklist, LogoutConsume, OnStorage, WsDrop, Request
<1>3. CASE LoginAnswered(t) \/ RefreshAnswered(t) \/ UseStored(t) \/ GiveUp(t)
  BY <1>0, <1>3, DonePends DEF LoginAnswered, RefreshAnswered, UseStored, GiveUp
<1>4. CASE Lose(t)
  BY <1>0, <1>4, FailedPends DEF Lose
<1>5. CASE Compare(t)
  <2> DEFINE c == [pc |-> "issue", kind |-> "login", used |-> 0,
                   from |-> [pw |-> pw, login |-> call[t].login, raced |-> FALSE]]
  <2>1. UNCHANGED <<live, about, logins>>
    BY <1>5 DEF Compare
  <2>2. CASE call' = [call EXCEPT ![t] = c]
    <3>1. call[t].pc = "compare" /\ c.pc = "issue" /\ c.from.login = call[t].login
      BY <1>5 DEF Compare, At
    <3> HIDE DEF c
    <3>2. \A l \in 0..MaxLogins : Pending(c, l) => Pending(call[t], l)
      BY <3>1 DEF Pending
    <3> QED BY <1>0, <2>1, <2>2, <3>2, OneCallSettles
  <2>3. CASE call' = Failed(t, 0)
    BY <1>0, <2>1, <2>3, FailedPends
  <2> QED BY <1>5, <2>2, <2>3 DEF Compare
<1> QED BY <1>1, <1>2, <1>3, <1>4, <1>5 DEF Client

LEMMA LoginForks ==
  ASSUME Typed, LoginInv, NEW t \in Tabs, Login(t)
  PROVE  LoginInv'
<1> DEFINE c == [pc |-> "compare", kind |-> "login", used |-> 0, pw |-> pw, login |-> logins']
<1>1. call' = [call EXCEPT ![t] = c] /\ c.pc = "compare" /\ c.login = logins + 1 /\ logins' = logins + 1
      /\ UNCHANGED <<live, about>>
  BY DEF Login, redis
<1> HIDE DEF c
<1>2. /\ \A l \in 0..MaxLogins : Pending(call'[t], l) <=> l = logins + 1
      /\ \A u \in Tabs \ {t} : call'[u] = call[u]
      /\ \A i \in live : about[i].login \in 0..MaxLogins
      /\ logins \in Nat
  BY <1>1, TimeFacts DEF Pending, Typed, TasksTyped, ServerTyped, CountsTyped, Origin
<1> QED BY <1>1, <1>2, TimeFacts DEF LoginInv

LEMMA GetDelForks ==
  ASSUME Typed, LoginInv, NEW t \in Tabs, GetDel(t)
  PROVE  LoginInv'
<1> DEFINE used == call[t].used
           c == [pc |-> "issue", kind |-> "refresh", used |-> used, from |-> about[used]]
<1>0. call \in [Tabs -> Calls] /\ UNCHANGED <<about, logins>> /\ live' = live \ {used}
  BY DEF GetDel, Typed, TasksTyped, counts
<1>1. CASE used \notin live
  <2>1. call' = Failed(t, used)
    BY <1>1 DEF GetDel
  <2> QED BY <1>0, <2>1, FailedPends, SettledKeeps DEF Settled
<1>2. CASE used \in live
  <2>1. call' = [call EXCEPT ![t] = c] /\ c.pc = "issue" /\ c.from.login = about[used].login
    BY <1>2 DEF GetDel
  <2> HIDE DEF c, used
  <2>2. /\ \A l \in 0..MaxLogins : Pending(call'[t], l) <=> l = about[used].login
        /\ \A u \in Tabs \ {t} : call'[u] = call[u]
        /\ \A i \in live : about[i].login \in 0..MaxLogins
    BY <1>0, <2>1 DEF Pending, Typed, ServerTyped, Origin
  <2> QED BY <1>0, <1>2, <2>2 DEF LoginInv
<1> QED BY <1>1, <1>2

LEMMA IssueForks ==
  ASSUME Typed, LoginInv, NEW t \in Tabs, Issue(t)
  PROVE  LoginInv'
<1>1. PICK id \in Ids : Issued(t, id)
  BY IssueNamed
<1> DEFINE c == [pc |-> "answer", kind |-> call[t].kind, used |-> call[t].used, id |-> id, token |-> now]
           l == call[t].from.login
<1>2. call' = [call EXCEPT ![t] = c] /\ c.pc = "answer"
  BY <1>1 DEF Issued
<1> HIDE DEF c
<1>3. /\ call[t].pc = "issue" /\ l \in 0..MaxLogins
      /\ Raced(call[t].from).login = l
  BY <1>1, RacedTyped DEF Issued, Issues, Origin
<1>4. about'[id].login = l /\ \A i \in Ids \ {id} : about'[i] = about[i]
  BY <1>1, <1>3 DEF Issued, Typed, ServerTyped
<1>5. Pending(call[t], l)
  BY <1>3 DEF Pending
<1>6. /\ \A k \in 0..MaxLogins : ~Pending(call'[t], k)
      /\ \A u \in Tabs \ {t} : call'[u] = call[u]
  BY <1>2 DEF Pending, Typed, TasksTyped
<1>7. live' = live \cup {id} /\ id \notin live /\ live \subseteq Ids /\ UNCHANGED logins
      /\ \A i \in live : about[i].login \in 0..MaxLogins
  BY <1>1 DEF Issued, Held, Typed, ServerTyped, Origin
<1> HIDE DEF l
<1> QED BY <1>3, <1>4, <1>5, <1>6, <1>7 DEF LoginInv

LEMMA NextForks == Typed /\ LoginInv /\ [Next]_vars => LoginInv'
<1> SUFFICES ASSUME Typed, LoginInv, [Next]_vars PROVE LoginInv'
  OBVIOUS
<1>1. CASE UNCHANGED vars
  BY <1>1, SettledKeeps DEF vars, redis, tabs, counts, Settled
<1>2. CASE Tick \/ ResetSave \/ Reset \/ ResetFails
  BY <1>2, SettledKeeps DEF Tick, ResetSave, Reset, Members, DelTokens, DelSet, ResetFails, redis, tabs,
                            counts, Settled
<1> QED BY <1>1, <1>2, TabsSettle, SettledKeeps, LoginForks, GetDelForks, IssueForks DEF Next, Server

LEMMA InitForks == Init => LoginInv
<1> SUFFICES ASSUME Init PROVE LoginInv
  OBVIOUS
<1>1. live = {rt} /\ rt \in Ids /\ about[rt].login = 0 /\ logins = 0
  BY DEF Init, First
<1>2. \A t \in Tabs : call[t].pc = "none"
  BY DEF Init, NoCall
<1> QED BY <1>1, <1>2 DEF LoginInv, Pending

LEMMA AlwaysForks == Spec => [](Typed /\ LoginInv)
BY AlwaysTyped, InitForks, NextForks, PTL DEF Spec

LEMMA AtMostOne ==
  ASSUME NEW S, \A x, y \in S : x = y
  PROVE  Cardinality(S) = (IF S = {} THEN 0 ELSE 1)
<1>1. CASE S = {}
  BY <1>1, FS_EmptySet
<1>2. CASE S # {}
  <2>1. PICK x : S = {x}
    BY <1>2
  <2> QED BY <2>1, FS_Singleton
<1> QED BY <1>1, <1>2

LEMMA InvIsOne == Typed /\ LoginInv => OneTokenPerLogin
<1> SUFFICES ASSUME Typed, LoginInv, NEW l \in 0..MaxLogins
             PROVE  LET stored == {id \in live : about[id].login = l}
                        owed == {t \in Tabs : call[t].pc = "issue" /\ call[t].from.login = l}
                    IN Cardinality(stored) + Cardinality(owed) <= 1
  BY DEF OneTokenPerLogin
<1> DEFINE stored == {id \in live : about[id].login = l}
           owed == {t \in Tabs : call[t].pc = "issue" /\ call[t].from.login = l}
<1>1. \A x, y \in stored : x = y
  BY DEF LoginInv
<1>2. \A x \in owed : Pending(call[x], l)
  BY DEF Pending
<1>3. \A x, y \in owed : x = y
  BY <1>2 DEF LoginInv
<1>4. stored = {} \/ owed = {}
  BY <1>2 DEF LoginInv
<1> HIDE DEF stored, owed
<1>5. Cardinality(stored) + Cardinality(owed) <= 1
  BY <1>1, <1>3, <1>4, AtMostOne
<1> QED BY <1>5 DEF stored, owed

(* However many tabs trade one refresh token at the same time, with logins, *)
(* logouts, resets and lost answers in between, a login is continued by at  *)
(* most one token in Redis or on its way there.                             *)
THEOREM LoginsNeverFork == Spec => []OneTokenPerLogin
BY AlwaysForks, InvIsOne, PTL

-----------------------------------------------------------------------------
(* The tabs agree *)

Last1(s) == s[Len(s)]

(* A tab has the stored token, or its last event will bring it.             *)
Follows(t) == mem[t] = jwt \/ (notes[t] # <<>> /\ Last1(notes[t]) = jwt)
AgreeInv == ~outdated => \A t \in Tabs : Follows(t)

LEMMA LastAppended ==
  ASSUME NEW s \in Seq(Token), NEW e \in Token
  PROVE  Append(s, e) # <<>> /\ Last1(Append(s, e)) = e
BY DEF Last1

LEMMA LastOfTail ==
  ASSUME NEW s \in Seq(Token), s # <<>>
  PROVE  \/ Head(s) = Last1(s)
         \/ Tail(s) # <<>> /\ Last1(Tail(s)) = Last1(s)
<1>1. Len(s) \in Nat \ {0} /\ Head(s) = s[1]
  OBVIOUS
<1>2. Len(Tail(s)) = Len(s) - 1 /\ Tail(s) \in Seq(Token)
  BY <1>1
<1>3. CASE Len(s) = 1
  BY <1>1, <1>3 DEF Last1
<1>4. CASE Len(s) # 1
  <2>1. Len(Tail(s)) \in Nat \ {0}
    BY <1>1, <1>2, <1>4
  <2>2. Tail(s)[Len(s) - 1] = s[Len(s)]
    <3>1. (Len(s) - 1) + 1 = Len(s) /\ (Len(s) - 1) \in 1..Len(Tail(s))
      BY <1>1, <1>2, <1>4
    <3>2. \A i \in 1..Len(Tail(s)) : Tail(s)[i] = s[i + 1]
      BY <1>1, HeadTailProperties
    <3> QED BY <3>1, <3>2
  <2>3. Tail(s) # <<>>
    BY <1>2, <2>1, EmptySeq
  <2> QED BY <1>2, <2>2, <2>3 DEF Last1
<1> QED BY <1>3, <1>4

(* The token is stored by a tab that shows it: the others are told.         *)
LEMMA StoredFollows ==
  ASSUME ViewTyped, \A u \in Tabs : Follows(u), NEW t \in Tabs, NEW token \in Token, NEW refresh,
         Store(t, token, refresh), mem'[t] = token, \A u \in Tabs \ {t} : mem'[u] = mem[u]
  PROVE  \A u \in Tabs : Follows(u)'
<1> TAKE u \in Tabs
<1>1. jwt' = token /\ notes'[u] = IF u # t /\ token # jwt THEN Append(notes[u], token) ELSE notes[u]
  BY DEF Store
<1>2. CASE u = t
  BY <1>1, <1>2 DEF Follows
<1>3. CASE u # t /\ token # jwt
  BY <1>1, <1>3, LastAppended DEF Follows, ViewTyped
<1>4. CASE u # t /\ token = jwt
  BY <1>1, <1>4 DEF Follows
<1> QED BY <1>2, <1>3, <1>4

LEMMA ClearFollows ==
  ASSUME ViewTyped, \A u \in Tabs : Follows(u), NEW t \in Tabs, ClearAuth(t)
  PROVE  \A u \in Tabs : Follows(u)'
BY TimeFacts, SetMemTyped, StoredFollows DEF ClearAuth

(* Steps in which one tab may take the stored token over.                   *)
Takes == /\ UNCHANGED <<jwt, notes, outdated>>
         /\ \A u \in Tabs : mem'[u] = mem[u] \/ mem'[u] = jwt
LEMMA TakesKeeps == AgreeInv /\ Takes => AgreeInv'
BY DEF AgreeInv, Takes, Follows

LEMMA OthersTake ==
  ASSUME Typed, NEW t \in Tabs,
         \/ Served(t) \/ LogoutBlacklist(t) \/ Compare(t) \/ GetDel(t) \/ Issue(t) \/ Dial(t)
         \/ (\E kind \in {"api", "logout"} : Request(t, kind)) \/ Login(t) \/ Lose(t) \/ WsDrop(t)
         \/ UseStored(t)
  PROVE  Takes
<1>1. CASE UseStored(t)
  <2>1. GoOn(t, jwt, FALSE) /\ jwt \in Token /\ UNCHANGED <<jwt, notes, outdated>>
    BY <1>1 DEF UseStored, storage, history, Typed, ViewTyped
  <2>2. \A u \in Tabs : mem'[u] = mem[u] \/ mem'[u] = jwt
    BY <2>1, GoOnTyped DEF Typed
  <2> QED BY <2>1, <2>2 DEF Takes
<1>2. CASE Served(t) \/ LogoutBlacklist(t) \/ Compare(t) \/ GetDel(t) \/ Issue(t)
  BY <1>2 DEF Served, LogoutBlacklist, Compare, GetDel, Issue, Takes, storage, history
<1>3. CASE Dial(t) \/ (\E kind \in {"api", "logout"} : Request(t, kind)) \/ Login(t) \/ Lose(t) \/ WsDrop(t)
  BY <1>3 DEF Dial, Request, Login, Lose, WsDrop, Takes, storage, history
<1> QED BY <1>1, <1>2, <1>3

LEMMA StorageAgrees ==
  ASSUME Typed, AgreeInv, NEW t \in Tabs, OnStorage(t)
  PROVE  AgreeInv'
<1> DEFINE token == Head(notes[t])
           rest == [notes EXCEPT ![t] = Tail(@)]
<1> SUFFICES ASSUME ~outdated' PROVE \A u \in Tabs : Follows(u)'
  BY DEF AgreeInv
<1>1. ~outdated /\ token = jwt /\ notes[t] # <<>> /\ SetMem(t, token)
  BY DEF OnStorage
<1>2. notes[t] \in Seq(Token) /\ token \in Token /\ ViewTyped
  BY <1>1 DEF Typed, ViewTyped
<1>3. jwt' = jwt /\ notes' = rest
  <2>1. CASE token # 0
    BY <2>1 DEF OnStorage, storage
  <2>2. CASE token = 0
    BY <1>1, <2>2 DEF OnStorage, Typed, ViewTyped
  <2> QED BY <2>1, <2>2
<1>4. mem'[t] = jwt /\ \A u \in Tabs \ {t} : mem'[u] = mem[u] /\ notes'[u] = notes[u]
  BY <1>1, <1>2, <1>3, SetMemTyped DEF ViewTyped
<1> HIDE DEF rest, token
<1> QED BY <1>1, <1>3, <1>4 DEF AgreeInv, Follows

LEMMA AnsweredAgrees ==
  ASSUME Typed, AgreeInv, NEW t \in Tabs,
         LoginAnswered(t) \/ RefreshAnswered(t) \/ GiveUp(t) \/ Refused(t) \/ LogoutConsume(t)
  PROVE  AgreeInv'
<1>1. outdated' = outdated
  BY DEF LoginAnswered, RefreshAnswered, GiveUp, Refused, LogoutConsume, history
<1>2. ViewTyped
  BY DEF Typed
<1>3. CASE ClearAuth(t)
  BY <1>1, <1>2, <1>3, ClearFollows DEF AgreeInv
<1>4. CASE UNCHANGED <<jwt, mem, notes>>
  BY <1>1, <1>4, TakesKeeps DEF Takes
<1>5. LoginAnswered(t) \/ RefreshAnswered(t) => call[t].token \in Token
  <2>1. call[t].pc = "answer" /\ call[t] \in Calls => call[t].token \in Token
    BY CallKinds DEF Answers
  <2> QED BY <2>1 DEF LoginAnswered, RefreshAnswered, At, Typed, TasksTyped
<1>6. CASE LoginAnswered(t) /\ call[t].id # 0
  <2>1. Store(t, call[t].token, call[t].id) /\ SetMem(t, call[t].token)
    BY <1>6 DEF LoginAnswered
  <2> QED BY <1>1, <1>2, <1>5, <1>6, <2>1, SetMemTyped, StoredFollows DEF AgreeInv
<1>7. CASE RefreshAnswered(t)
  <2>1. Store(t, call[t].token, call[t].id) /\ GoOn(t, call[t].token, TRUE)
    BY <1>7 DEF RefreshAnswered
  <2>2. mem'[t] = call[t].token /\ \A u \in Tabs \ {t} : mem'[u] = mem[u]
    BY <1>5, <1>7, <2>1, GoOnTyped DEF Typed
  <2> QED BY <1>1, <1>2, <1>5, <1>7, <2>1, <2>2, StoredFollows DEF AgreeInv
<1> QED BY <1>3, <1>4, <1>6, <1>7 DEF LoginAnswered, GiveUp, Refused, LogoutConsume, storage

LEMMA NextAgrees == Typed /\ AgreeInv /\ [Next]_vars => AgreeInv'
<1> SUFFICES ASSUME Typed, AgreeInv, [Next]_vars PROVE AgreeInv'
  OBVIOUS
<1>1. CASE UNCHANGED vars
  BY <1>1, TakesKeeps DEF vars, storage, tabs, history, Takes
<1>2. CASE Tick \/ ResetSave \/ Reset \/ ResetFails
  BY <1>2, TakesKeeps DEF Tick, ResetSave, Reset, Members, DelTokens, DelSet, ResetFails, storage, tabs,
                          history, Takes
<1> QED BY <1>1, <1>2, OthersTake, TakesKeeps, StorageAgrees, AnsweredAgrees DEF Next, Server, Client

LEMMA AlwaysAgree == Spec => [](Typed /\ AgreeInv)
<1>1. Init => AgreeInv
  BY DEF Init, AgreeInv, Follows
<1> QED BY <1>1, AlwaysTyped, NextAgrees, PTL DEF Spec

(* A login, a logout or a rotation in one tab reaches the store of every    *)
(* other one through the storage events, unless an event was handled when   *)
(* the storage had changed again.                                           *)
THEOREM TabsFollow == Spec => []TabsAgree
<1>1. AgreeInv => TabsAgree
  BY DEF AgreeInv, Follows, TabsAgree, Quiet
<1> QED BY <1>1, AlwaysAgree, PTL

-----------------------------------------------------------------------------
(* An expired token does not end the session                                *)

(* A call that has consumed its token, and has or will get a new one.       *)
Winning(c) == c.pc = "issue" \/ (c.pc = "answer" /\ c.id # 0)

Calm == jwt # 0 /\ after = 0 /\ blacklist = {} /\ reset.pc = "none"
SignedIn(t) ==
  /\ user[t] /\ notes[t] \in Seq(Token \ {0})
  /\ req[t].pc # "none" => req[t].kind = "api" /\ req[t].pc # "consume" /\ req[t].token # 0
  /\ call[t].pc # "compare" /\ (call[t].pc \in {"issue", "answer"} => call[t].kind = "refresh")

(* The stored token is good, or someone is about to store a better one.     *)
Renewable == rt \in live \/ \E u \in Tabs : Winning(call[u]) /\ call[u].used = rt
(* A token that was issued and is not stored yet is nobody else's.          *)
Fresh(t) ==
  call[t].pc = "answer" /\ call[t].id # 0 =>
    /\ call[t].id \in live /\ call[t].id # rt
    /\ \A u \in Tabs : /\ call[u].pc # "none" => call[u].used # call[t].id
                       /\ u # t /\ call[u].pc = "answer" => call[u].id # call[t].id
(* A refresh is refused because its token is gone.                          *)
Gone(t) == call[t].pc = "answer" /\ call[t].id = 0 => call[t].used \notin live

Rotates == Renewable /\ \A t \in Tabs : Fresh(t) /\ Gone(t)
Kept == Calm /\ Rotates /\ \A t \in Tabs : SignedIn(t)
KeptInv == reasons = {} => Kept

(* Steps that touch no token and no call of the server.                     *)
LEMMA SameRotates == Rotates /\ UNCHANGED <<live, rt, call>> => Rotates'
BY DEF Rotates, Renewable, Fresh, Gone, Winning

LEMMA RenewedRotates ==
  ASSUME Typed, Calm, Rotates, NEW t \in Tabs, call' = Renewed(t), UNCHANGED <<live, rt>>
  PROVE  Rotates' /\ \A u \in Tabs : call'[u] # call[u] => call'[u].pc = "getdel"
<1> DEFINE g == [pc |-> "getdel", kind |-> "refresh", used |-> rt]
<1>1. rt # 0 /\ call \in [Tabs -> Calls]
  BY DEF Calm, Typed, ViewTyped, TasksTyped
<1>2. CASE call[t].pc = "none"
  <2>1. call' = [call EXCEPT ![t] = g] /\ g.pc = "getdel" /\ g.used = rt
    BY <1>1, <1>2 DEF Renewed
  <2> HIDE DEF g
  <2>2. call'[t] = g /\ \A u \in Tabs \ {t} : call'[u] = call[u]
    BY <1>1, <2>1
  <2>3. Renewable'
    <3>1. \A u \in Tabs : Winning(call[u]) => u # t
      BY <1>2 DEF Winning
    <3>2. ASSUME NEW u \in Tabs, Winning(call[u]), call[u].used = rt PROVE Renewable'
      <4>1. call'[u] = call[u]
        BY <2>2, <3>1, <3>2
      <4> QED BY <3>2, <4>1 DEF Renewable, Winning
    <3> QED BY <3>2 DEF Rotates, Renewable
  <2>4. \A u \in Tabs : Fresh(u)'
    BY <2>1, <2>2 DEF Rotates, Fresh
  <2>5. \A u \in Tabs : Gone(u)'
    BY <2>1, <2>2 DEF Rotates, Gone
  <2> QED BY <2>1, <2>2, <2>3, <2>4, <2>5 DEF Rotates
<1>3. CASE call[t].pc # "none"
  BY <1>3, SameRotates DEF Renewed
<1> QED BY <1>2, <1>3

LEMMA GetDelRotates ==
  ASSUME Typed, Rotates, NEW t \in Tabs, GetDel(t)
  PROVE  Rotates' /\ call'[t].kind = "refresh" /\ call'[t].pc \in {"issue", "answer"}
         /\ \A u \in Tabs \ {t} : call'[u] = call[u]
<1> DEFINE used == call[t].used
           c == [pc |-> "issue", kind |-> "refresh", used |-> used, from |-> about[used]]
           f == [pc |-> "answer", kind |-> "refresh", used |-> used, id |-> 0, token |-> 0]
           n == IF used \in live THEN c ELSE f
<1>1. call' = [call EXCEPT ![t] = n] /\ call \in [Tabs -> Calls]
  BY DEF GetDel, At, Failed, Typed, TasksTyped
<1>2. /\ n.used = used /\ n.kind = "refresh" /\ n.pc \in {"issue", "answer"}
      /\ used \in live <=> n.pc = "issue"
      /\ n.pc = "answer" => n.id = 0
  OBVIOUS
<1>3. live' = live \ {used} /\ UNCHANGED rt /\ call[t].pc = "getdel"
  BY DEF GetDel, At, storage
<1> HIDE DEF n
<1>4. call'[t] = n /\ \A u \in Tabs \ {t} : call'[u] = call[u]
  BY <1>1
<1>5. Renewable'
  <2>1. CASE rt \in live'
    BY <1>3, <2>1 DEF Renewable
  <2>2. CASE rt \in live /\ rt \notin live'
    BY <1>2, <1>3, <1>4, <2>2 DEF Renewable, Winning
  <2>3. CASE rt \notin live
    <3>1. PICK u \in Tabs : Winning(call[u]) /\ call[u].used = rt
      BY <2>3 DEF Rotates, Renewable
    <3>2. call'[u] = call[u]
      BY <1>3, <1>4, <3>1 DEF Winning
    <3> QED BY <1>3, <3>1, <3>2 DEF Renewable, Winning
  <2> QED BY <2>1, <2>2, <2>3
<1>6. \A u \in Tabs : Fresh(u)'
  BY <1>2, <1>3, <1>4 DEF Rotates, Fresh
<1>7. \A u \in Tabs : Gone(u)'
  BY <1>2, <1>3, <1>4 DEF Rotates, Gone
<1> QED BY <1>2, <1>4, <1>5, <1>6, <1>7 DEF Rotates

LEMMA IssueRotates ==
  ASSUME Typed, Rotates, NEW t \in Tabs, Issue(t)
  PROVE  Rotates' /\ call'[t].kind = call[t].kind /\ call'[t].pc = "answer"
         /\ \A u \in Tabs \ {t} : call'[u] = call[u]
<1>1. PICK id \in Ids : Issued(t, id)
  BY IssueNamed
<1> DEFINE c == [pc |-> "answer", kind |-> call[t].kind, used |-> call[t].used, id |-> id, token |-> now]
<1>2. /\ call' = [call EXCEPT ![t] = c] /\ call \in [Tabs -> Calls]
      /\ c.pc = "answer" /\ c.kind = call[t].kind /\ c.used = call[t].used /\ c.id = id
      /\ UNCHANGED rt /\ live' = live \cup {id}
  BY <1>1 DEF Issued, Typed, TasksTyped
<1>3. id # 0 /\ id # rt /\ call[t].pc = "issue"
      /\ \A u \in Tabs : /\ call[u].pc # "none" => call[u].used # id
                         /\ call[u].pc = "answer" => call[u].id # id
  BY <1>1, TimeFacts DEF Issued, Issues, Held
<1> HIDE DEF c
<1>4. call'[t] = c /\ \A u \in Tabs \ {t} : call'[u] = call[u]
  BY <1>2
<1>5. Renewable'
  <2>1. ASSUME NEW u \in Tabs, Winning(call[u]), call[u].used = rt
        PROVE  Winning(call'[u]) /\ call'[u].used = rt
    BY <1>2, <1>3, <1>4, <2>1 DEF Winning
  <2> QED BY <1>2, <2>1 DEF Rotates, Renewable, Winning
<1>6. \A u \in Tabs : Fresh(u)'
  BY <1>2, <1>3, <1>4 DEF Rotates, Fresh
<1>7. \A u \in Tabs : Gone(u)'
  BY <1>2, <1>3, <1>4 DEF Rotates, Gone
<1> QED BY <1>2, <1>4, <1>5, <1>6, <1>7 DEF Rotates

(* The end of a call: what it has issued is stored, or it has nothing.      *)
LEMMA StoredRotates ==
  ASSUME Typed, Rotates, NEW t \in Tabs, call[t].pc = "answer", call[t].id # 0,
         call' = [call EXCEPT ![t] = NoCall], rt' = call[t].id, UNCHANGED live
  PROVE  Rotates'
<1>1. call'[t].pc = "none" /\ \A u \in Tabs \ {t} : call'[u] = call[u]
  BY DEF NoCall, Typed, TasksTyped
<1>2. Renewable'
  BY DEF Rotates, Fresh, Renewable
<1>3. \A u \in Tabs : Fresh(u)' /\ Gone(u)'
  BY <1>1 DEF Rotates, Fresh, Gone
<1> QED BY <1>2, <1>3 DEF Rotates

LEMMA RefusedRotates ==
  ASSUME Typed, Rotates, NEW t \in Tabs, call[t].pc = "answer", call[t].id = 0,
         call' = [call EXCEPT ![t] = NoCall], UNCHANGED <<rt, live>>
  PROVE  Rotates'
<1>1. call'[t].pc = "none" /\ \A u \in Tabs \ {t} : call'[u] = call[u]
  BY DEF NoCall, Typed, TasksTyped
<1>2. \A u \in Tabs : Winning(call[u]) => call'[u] = call[u]
  BY <1>1 DEF Winning
<1>3. Renewable'
  <2>1. ASSUME NEW u \in Tabs, Winning(call[u]), call[u].used = rt PROVE Renewable'
    BY <1>2, <2>1 DEF Renewable, Winning
  <2> QED BY <2>1 DEF Rotates, Renewable
<1>4. \A u \in Tabs : Fresh(u)' /\ Gone(u)'
  BY <1>1 DEF Rotates, Fresh, Gone
<1> QED BY <1>3, <1>4 DEF Rotates

(* Steps of the reset and the form need what a calm browser has not.        *)
LEMMA CalmExcludes ==
  ASSUME Typed, Kept, NEW t \in Tabs
  PROVE  /\ ~Reset /\ ~ResetFails /\ ~Login(t) /\ ~Compare(t) /\ ~LoginAnswered(t)
         /\ ~LogoutBlacklist(t) /\ ~LogoutConsume(t)
<1>1. ~Reset /\ ~ResetFails
  BY DEF Kept, Calm, Reset, Members, DelTokens, DelSet, ResetFails
<1>2. ~Login(t) /\ ~Compare(t) /\ ~LoginAnswered(t)
  BY DEF Kept, SignedIn, Login, Compare, LoginAnswered, At
<1>3. ~LogoutBlacklist(t) /\ ~LogoutConsume(t)
  BY DEF Kept, SignedIn, LogoutBlacklist, LogoutConsume
<1> QED BY <1>1, <1>2, <1>3

(* One tab moves; the others are told of nothing but a token.               *)
LEMMA SignedInKept ==
  ASSUME \A u \in Tabs : SignedIn(u), NEW t \in Tabs, UNCHANGED user,
         \A u \in Tabs : notes'[u] \in Seq(Token \ {0}),
         \A u \in Tabs \ {t} : req'[u] = req[u] /\ call'[u] = call[u],
         req'[t].pc # "none" => req'[t].kind = "api" /\ req'[t].pc # "consume" /\ req'[t].token # 0,
         call'[t].pc # "compare", call'[t].pc \in {"issue", "answer"} => call'[t].kind = "refresh"
  PROVE  \A u \in Tabs : SignedIn(u)'
BY DEF SignedIn

LEMMA NotesKept == (\A u \in Tabs : SignedIn(u)) => \A u \in Tabs : notes[u] \in Seq(Token \ {0})
BY DEF SignedIn

LEMMA DialKeeps ==
  ASSUME Typed, Kept, NEW t \in Tabs, Dial(t) \/ WsDrop(t)
  PROVE  Kept'
<1>1. UNCHANGED <<jwt, rt, after, blacklist, reset, live, user, notes, req>>
  BY DEF Dial, WsDrop, redis, storage
<1>2. Calm'
  BY <1>1 DEF Kept, Calm
<1>3. CASE UNCHANGED call
  BY <1>1, <1>2, <1>3, SameRotates DEF Kept, SignedIn
<1>4. CASE call' = Renewed(t)
  <2>1. Rotates' /\ \A u \in Tabs : call'[u] # call[u] => call'[u].pc = "getdel"
    BY <1>1, <1>4, RenewedRotates DEF Kept
  <2>2. \A u \in Tabs : SignedIn(u)'
    BY <1>1, <2>1 DEF Kept, SignedIn
  <2> QED BY <1>2, <2>1, <2>2 DEF Kept
<1> QED BY <1>3, <1>4 DEF Dial, WsDrop

LEMMA RequestKeeps ==
  ASSUME Typed, Kept, NEW t \in Tabs, NEW kind \in {"api", "logout"}, Request(t, kind), reasons' = {}
  PROVE  Kept'
<1> DEFINE r == [pc |-> "sent", kind |-> kind, token |-> jwt, rt |-> rt, retried |-> FALSE]
<1>1. kind = "api"
  BY DEF Request
<1>2. req' = [req EXCEPT ![t] = r] /\ r.pc = "sent" /\ r.kind = "api" /\ r.token = jwt
  BY <1>1 DEF Request
<1> HIDE DEF r
<1>3. UNCHANGED <<jwt, rt, after, blacklist, reset, live, user, notes, call>>
  BY DEF Request, redis, storage
<1>4. Calm' /\ Rotates'
  BY <1>3, SameRotates DEF Kept, Calm
<1>5. req'[t] = r /\ \A u \in Tabs \ {t} : req'[u] = req[u]
  BY <1>2 DEF Typed, TasksTyped
<1>6. \A u \in Tabs : SignedIn(u)'
  BY <1>2, <1>3, <1>5 DEF Kept, Calm, SignedIn
<1> QED BY <1>4, <1>6 DEF Kept

LEMMA ServedKeeps ==
  ASSUME Typed, Kept, NEW t \in Tabs, Served(t)
  PROVE  Kept'
<1>1. UNCHANGED <<jwt, rt, after, blacklist, reset, live, user, notes, call>>
  BY DEF Served, redis, storage
<1>2. Calm' /\ Rotates'
  BY <1>1, SameRotates DEF Kept, Calm
<1>3. req'[t].pc = "none" /\ \A u \in Tabs \ {t} : req'[u] = req[u]
  BY DEF Served, NoReq, Typed, TasksTyped
<1>4. \A u \in Tabs : SignedIn(u)'
  BY <1>1, <1>3 DEF Kept, SignedIn
<1> QED BY <1>2, <1>4 DEF Kept

(* A refused replay ends the session only if its token has expired.         *)
LEMMA RefusedKeeps ==
  ASSUME Typed, Kept, NEW t \in Tabs, Refused(t), reasons' = {}
  PROVE  Kept'
<1> DEFINE r == [req[t] EXCEPT !.pc = "waiting"]
<1>1. req[t] \in [pc : {"sent", "waiting", "consume"}, kind : {"api", "logout"},
                  token : Token, rt : Refresh, retried : BOOLEAN]
      /\ req[t].pc = "sent" /\ req[t].kind = "api" /\ req[t].token # 0
  BY ReqKinds DEF Refused, Kept, SignedIn, Typed, TasksTyped
<1>2. ~req[t].retried
  <2>1. Expired(req[t].token)
    BY <1>1 DEF Refused, Valid, Kept, Calm, Token
  <2> QED BY <2>1 DEF Refused
<1>3. call' = Renewed(t) /\ UNCHANGED <<jwt, rt, after, blacklist, reset, live, user, notes>>
      /\ req' = [req EXCEPT ![t] = r]
  BY <1>2 DEF Refused, redis, storage
<1>4. r.pc = "waiting" /\ r.kind = "api" /\ r.token # 0
  BY <1>1
<1> HIDE DEF r
<1>5. Calm'
  BY <1>3 DEF Kept, Calm
<1>6. Rotates' /\ \A u \in Tabs : call'[u] # call[u] => call'[u].pc = "getdel"
  BY <1>3, RenewedRotates DEF Kept
<1>7. req'[t] = r /\ \A u \in Tabs \ {t} : req'[u] = req[u]
  BY <1>3 DEF Typed, TasksTyped
<1>8. \A u \in Tabs : SignedIn(u)'
  BY <1>3, <1>4, <1>6, <1>7 DEF Kept, SignedIn
<1> QED BY <1>5, <1>6, <1>8 DEF Kept

LEMMA TokenKeeps ==
  ASSUME Typed, Kept, NEW t \in Tabs, GetDel(t) \/ Issue(t)
  PROVE  Kept'
<1>1. UNCHANGED <<jwt, after, blacklist, reset, user, notes, req>>
  BY DEF GetDel, Issue, storage
<1>2. Calm'
  BY <1>1 DEF Kept, Calm
<1>3. CASE GetDel(t)
  <2>1. Rotates' /\ call'[t].kind = "refresh" /\ call'[t].pc \in {"issue", "answer"}
        /\ \A u \in Tabs \ {t} : call'[u] = call[u]
    BY <1>3, GetDelRotates DEF Kept
  <2>2. \A u \in Tabs : SignedIn(u)'
    BY <1>1, <2>1 DEF Kept, SignedIn
  <2> QED BY <1>2, <2>1, <2>2 DEF Kept
<1>4. CASE Issue(t)
  <2>1. Rotates' /\ call'[t].kind = call[t].kind /\ call'[t].pc = "answer"
        /\ \A u \in Tabs \ {t} : call'[u] = call[u]
    BY <1>4, IssueRotates DEF Kept
  <2>2. call[t].kind = "refresh"
    BY <1>4 DEF Issue, Kept, SignedIn
  <2>3. \A u \in Tabs : SignedIn(u)'
    BY <1>1, <2>1, <2>2 DEF Kept, SignedIn
  <2> QED BY <1>2, <2>1, <2>3 DEF Kept
<1> QED BY <1>3, <1>4

LEMMA StorageKeeps ==
  ASSUME Typed, Kept, NEW t \in Tabs, OnStorage(t)
  PROVE  Kept'
<1>1. notes[t] \in Seq(Token \ {0}) /\ notes[t] # <<>>
  BY DEF OnStorage, Kept, SignedIn
<1>2. Head(notes[t]) # 0 /\ Tail(notes[t]) \in Seq(Token \ {0})
  BY <1>1
<1>3. UNCHANGED <<jwt, rt, after, blacklist, reset, live, user, req, call>>
      /\ notes' = [notes EXCEPT ![t] = Tail(@)]
  BY <1>2 DEF OnStorage, redis, storage
<1>4. Calm' /\ Rotates'
  BY <1>3, SameRotates DEF Kept, Calm
<1>5. notes'[t] = Tail(notes[t]) /\ \A u \in Tabs \ {t} : notes'[u] = notes[u]
  BY <1>3 DEF Typed, ViewTyped
<1>6. \A u \in Tabs : SignedIn(u)'
  BY <1>2, <1>3, <1>5 DEF Kept, SignedIn
<1> QED BY <1>4, <1>6 DEF Kept

(* The requests that waited go on with a token.                             *)
LEMMA ReplayKeeps ==
  ASSUME Typed, NEW t \in Tabs, SignedIn(t), NEW token \in Token \ {0}, req' = Replay(t, token)
  PROVE  /\ req'[t].pc # "none" => req'[t].kind = "api" /\ req'[t].pc # "consume" /\ req'[t].token # 0
         /\ \A u \in Tabs \ {t} : req'[u] = req[u]
<1> DEFINE r == [req[t] EXCEPT !.pc = "sent", !.token = token, !.retried = TRUE]
<1>1. CASE req[t].pc = "waiting"
  <2>1. req[t] \in [pc : {"sent", "waiting", "consume"}, kind : {"api", "logout"},
                    token : Token, rt : Refresh, retried : BOOLEAN] /\ req[t].kind = "api"
    BY <1>1, ReqKinds DEF SignedIn, Typed, TasksTyped
  <2>2. r.pc = "sent" /\ r.kind = "api" /\ r.token = token
    BY <2>1
  <2>3. req' = [req EXCEPT ![t] = r]
    BY <1>1 DEF Replay
  <2> HIDE DEF r
  <2> QED BY <2>2, <2>3 DEF Typed, TasksTyped
<1>2. CASE req[t].pc # "waiting"
  BY <1>2 DEF Replay, SignedIn
<1> QED BY <1>1, <1>2

LEMMA AnsweredKeeps ==
  ASSUME Typed, Kept, NEW t \in Tabs, RefreshAnswered(t)
  PROVE  Kept'
<1> DEFINE token == call[t].token
<1>1. call[t].pc = "answer" /\ call[t].id # 0 /\ token \in Token \ {0}
  BY CallKinds DEF RefreshAnswered, At, Answers, Typed, TasksTyped
<1>2. /\ call' = [call EXCEPT ![t] = NoCall] /\ rt' = call[t].id /\ jwt' = token
      /\ UNCHANGED <<after, blacklist, reset, live, user>>
      /\ notes' = [u \in Tabs |-> IF u # t /\ token # jwt THEN Append(notes[u], token) ELSE notes[u]]
      /\ req' = Replay(t, token)
  BY DEF RefreshAnswered, Store, GoOn, redis
<1> HIDE DEF token
<1>3. Calm'
  BY <1>1, <1>2 DEF Kept, Calm
<1>4. Rotates'
  BY <1>1, <1>2, StoredRotates DEF Kept
<1>5. \A u \in Tabs : notes'[u] \in Seq(Token \ {0})
  BY <1>1, <1>2, NotesKept DEF Kept
<1>6. call'[t].pc = "none" /\ \A u \in Tabs \ {t} : call'[u] = call[u]
  BY <1>2 DEF NoCall, Typed, TasksTyped
<1>7. \A u \in Tabs : SignedIn(u)'
  BY <1>1, <1>2, <1>5, <1>6, ReplayKeeps, SignedInKept DEF Kept
<1> QED BY <1>3, <1>4, <1>7 DEF Kept

LEMMA UseStoredKeeps ==
  ASSUME Typed, Kept, NEW t \in Tabs, UseStored(t)
  PROVE  Kept'
<1>1. call[t].pc = "answer" /\ call[t].id = 0 /\ jwt \in Token \ {0}
  BY DEF UseStored, At, Rotated, Typed, ViewTyped
<1>2. /\ call' = [call EXCEPT ![t] = NoCall] /\ req' = Replay(t, jwt)
      /\ UNCHANGED <<jwt, rt, after, blacklist, reset, live, user, notes>>
  BY DEF UseStored, GoOn, redis, storage
<1>3. Calm' /\ Rotates'
  BY <1>1, <1>2, RefusedRotates DEF Kept, Calm
<1>4. \A u \in Tabs : notes'[u] \in Seq(Token \ {0})
  BY <1>2, NotesKept DEF Kept
<1>5. call'[t].pc = "none" /\ \A u \in Tabs \ {t} : call'[u] = call[u]
  BY <1>2 DEF NoCall, Typed, TasksTyped
<1>6. \A u \in Tabs : SignedIn(u)'
  BY <1>1, <1>2, <1>4, <1>5, ReplayKeeps, SignedInKept DEF Kept
<1> QED BY <1>3, <1>6 DEF Kept

(* Who gives up on the token that is stored has lost a race for it.         *)
LEMMA GiveUpRaced ==
  ASSUME Typed, Kept, NEW t \in Tabs, GiveUp(t)
  PROVE  reasons' # {}
<1>1. call[t].pc = "answer" /\ call[t].id = 0 /\ call[t].used = rt
  BY DEF GiveUp, At, Rotated, Kept, Calm
<1>2. rt \notin live
  BY <1>1 DEF Kept, Rotates, Gone
<1>3. PICK u \in Tabs : Winning(call[u]) /\ call[u].used = rt
  BY <1>2 DEF Kept, Rotates, Renewable
<1>4. u # t /\ call[u].pc # "none"
  BY <1>1, <1>3 DEF Winning
<1> QED BY <1>1, <1>3, <1>4 DEF GiveUp

LEMMA TickKeeps ==
  ASSUME Kept, UNCHANGED <<live, rt, call, jwt, after, blacklist, reset, user, notes, req>>
  PROVE  Kept'
BY SameRotates DEF Kept, Calm, SignedIn

LEMMA NextKept == Typed /\ KeptInv /\ [Next]_vars => KeptInv'
<1> SUFFICES ASSUME Typed, KeptInv, [Next]_vars, reasons' = {} PROVE Kept'
  BY DEF KeptInv
<1>0. CASE UNCHANGED vars
  BY <1>0, TickKeeps DEF vars, redis, storage, tabs, history, KeptInv
<1>1. CASE ResetSave
  BY <1>1 DEF ResetSave
<1>2. CASE Tick
  BY <1>2, TickKeeps DEF Tick, redis, storage, tabs, history, KeptInv
<1>3. CASE Reset \/ ResetFails
  <2>1. reasons = {} /\ (reset.pc # "none" => FALSE)
    BY <1>3 DEF Reset, Members, DelTokens, DelSet, ResetFails, history, KeptInv, Kept, Calm
  <2> QED BY <1>3, <2>1 DEF Reset, Members, DelTokens, DelSet, ResetFails
<1>4. ASSUME NEW t \in Tabs, Server(t) \/ Client(t) \/ Login(t) \/ Lose(t) \/ WsDrop(t)
                             \/ \E kind \in {"api", "logout"} : Request(t, kind)
      PROVE  Kept'
  <2>1. CASE Lose(t)
    BY <2>1 DEF Lose
  <2>2. CASE \E kind \in {"api", "logout"} : Request(t, kind)
    <3>1. PICK kind \in {"api", "logout"} : Request(t, kind)
      BY <2>2
    <3>2. reasons = {}
      BY <3>1 DEF Request
    <3> QED BY <3>1, <3>2, RequestKeeps DEF KeptInv
  <2>3. CASE Refused(t) \/ GiveUp(t)
    <3>1. reasons = {}
      BY <2>3 DEF Refused, GiveUp
    <3> QED BY <2>3, <3>1, RefusedKeeps, GiveUpRaced DEF KeptInv
  <2>4. CASE Login(t) \/ Compare(t) \/ LoginAnswered(t) \/ LogoutBlacklist(t) \/ LogoutConsume(t)
    <3>1. reasons = {}
      BY <2>4 DEF Login, Compare, LoginAnswered, LogoutBlacklist, LogoutConsume, history
    <3> QED BY <2>4, <3>1, CalmExcludes DEF KeptInv
  <2>5. CASE Served(t) \/ GetDel(t) \/ Issue(t) \/ Dial(t) \/ WsDrop(t) \/ OnStorage(t)
             \/ RefreshAnswered(t) \/ UseStored(t)
    <3>1. reasons = {}
      BY <2>5 DEF Served, GetDel, Issue, Dial, WsDrop, OnStorage, RefreshAnswered, UseStored, history
    <3> QED BY <2>5, <3>1, ServedKeeps, TokenKeeps, DialKeeps, StorageKeeps, AnsweredKeeps, UseStoredKeeps
            DEF KeptInv
  <2> QED BY <1>4, <2>1, <2>2, <2>3, <2>4, <2>5 DEF Server, Client
<1> QED BY <1>0, <1>1, <1>2, <1>3, <1>4 DEF Next

LEMMA InitKept == Init => KeptInv
<1> SUFFICES ASSUME Init PROVE Kept
  BY DEF KeptInv
<1>1. Calm /\ rt \in live
  BY DEF Init, Calm
<1>2. \A t \in Tabs : call[t].pc = "none" /\ req[t].pc = "none" /\ user[t] /\ notes[t] = <<>>
  BY DEF Init, NoCall, NoReq
<1>3. \A t \in Tabs : SignedIn(t)
  <2>1. <<>> \in Seq(Token \ {0})
    BY EmptySeq
  <2> QED BY <1>2, <2>1 DEF SignedIn
<1> QED BY <1>1, <1>2, <1>3 DEF Kept, Rotates, Renewable, Fresh, Gone

(* An access token that expires never signs the browser out, whatever its   *)
(* tabs do at the same time: only a logout, a reset, a lost answer, a race  *)
(* of two tabs for one refresh token, or a replay that came too late does.  *)
THEOREM ExpiryIsNotTheEnd == Spec => []StaysSignedIn
<1>1. KeptInv => StaysSignedIn
  BY DEF KeptInv, Kept, Calm, StaysSignedIn
<1> QED BY <1>1, AlwaysTyped, InitKept, NextKept, PTL DEF Spec
=============================================================================
