------------------------------ MODULE Sessions ------------------------------
(***************************************************************************)
(* The sessions of ONE account: the tokens in Redis, the requests that     *)
(* issue, rotate and revoke them command by command, and the tabs of one   *)
(* browser, which share localStorage, follow each other through its        *)
(* events, and trade the single-use refresh token for a new pair when a    *)
(* request or the upgrade of their WebSocket is refused.                   *)
(*                                                                         *)
(* Time is in whole seconds.  An access token is the second it was issued  *)
(* in: its other claims do not change, so two of one second are the same   *)
(* string.  A refresh token is a number that is used again once nobody     *)
(* holds it.  Refresh tokens do not expire here (30 days).                 *)
(***************************************************************************)
EXTENDS Naturals, Sequences, FiniteSets

CONSTANTS
  Tabs,
  Ids,        \* refresh tokens
  AccessTtl,  \* JWT_EXPIRES_IN
  MaxTime,    \* the clock stops here
  MaxLogins, MaxRequests, MaxResets, MaxFaults,
  MaxEvents,  \* of these together
  MaxIssued   \* tokens issued within a second

ASSUME SessionsAssumption == Ids \subseteq Nat \ {0} /\ {AccessTtl, MaxTime} \subseteq Nat \ {0}
ASSUME BoundsAssumption == {MaxLogins, MaxResets, MaxIssued} \subseteq Nat

VARIABLES
  now, pw,          \* the second; how often the password was changed
  issued,           \* tokens issued in this second
  live, index,      \* refresh:<sha> keys; the set user-refresh:<user>
  about,            \* what each refresh token comes from: [pw, login, raced]
  after, blacklist, \* session-valid-after; blacklist:<jwt> keys
  reset,            \* the password reset under way
  jwt, rt,          \* localStorage: token and refreshToken; 0 is none
  mem, user,        \* store of a tab: token, and is there a user
  ws,               \* the tab's WebSocket: off, dialing, open, or closed with 4401
  awaits,           \* does the tab's onclose wait for ensureFreshToken
  req,              \* a REST call of the tab behind requireAuth
  call,             \* a login or refresh of the tab
  notes,            \* storage events on their way to the tab
  logins, requests, resets, faults,
  escaped,          \* history: a reset failed
  reasons,          \* history: what may end the session of the browser
  outdated          \* history: a storage event was handled after a later change

redis == <<live, index, about, after, blacklist>>
storage == <<jwt, rt>>
tabs == <<mem, user, ws, awaits, req, call, notes>>
counts == <<logins, requests, resets, faults>>
history == <<escaped, reasons, outdated>>
vars == <<now, issued, pw, redis, reset, storage, tabs, counts, history>>

NoCall == [pc |-> "none"]
NoReq == [pc |-> "none"]

Expired(token) == now >= token + AccessTtl
Valid(token) == token # 0 /\ ~Expired(token) /\ token \notin blacklist /\ token >= after

More == logins + requests + resets + faults < MaxEvents

Held == live \cup index \cup {rt} \cup {call[t].id : t \in {t \in Tabs : call[t].pc = "answer"}}
             \cup {call[t].used : t \in {t \in Tabs : call[t].pc # "none"}}
             \cup {req[t].rt : t \in {t \in Tabs : req[t].pc # "none"}}
             \cup UNION {IF reset.pc = "del" THEN reset.hashes ELSE {}}

First(id, S) == id \in S /\ \A i \in S : id <= i

(* One tab, signed in and connected; the others open on the same storage.   *)
Init ==
  /\ now = 1 /\ issued = 0 /\ pw = 0
  /\ jwt = 1 /\ \E id \in Ids : First(id, Ids) /\ rt = id
  /\ live = {rt} /\ index = {rt}
  /\ about = [i \in Ids |-> [pw |-> 0, login |-> 0, raced |-> FALSE]]
  /\ after = 0 /\ blacklist = {}
  /\ reset = [pc |-> "none"]
  /\ mem = [t \in Tabs |-> 1] /\ user = [t \in Tabs |-> TRUE]
  /\ ws = [t \in Tabs |-> "open"] /\ awaits = [t \in Tabs |-> FALSE]
  /\ req = [t \in Tabs |-> NoReq] /\ call = [t \in Tabs |-> NoCall]
  /\ notes = [t \in Tabs |-> <<>>]
  /\ logins = 0 /\ requests = 0 /\ resets = 0 /\ faults = 0
  /\ escaped = FALSE /\ reasons = {} /\ outdated = FALSE

Tick == now < MaxTime /\ now' = now + 1 /\ issued' = 0 /\ UNCHANGED <<pw, redis, reset, storage, tabs, counts, history>>

-----------------------------------------------------------------------------
(* The store and the socket of a tab.                                       *)

(* Setting the token: the effect of App connects with it, or disconnects.   *)
SetMem(t, token) ==
  /\ mem' = [mem EXCEPT ![t] = token]
  /\ ws' = [ws EXCEPT ![t] = IF token = 0 THEN "off" ELSE IF token = mem[t] THEN @ ELSE "dialing"]

(* localStorage.setItem and removeItem tell the other tabs of a change.     *)
Store(t, token, refresh) ==
  /\ jwt' = token /\ rt' = refresh
  /\ notes' = [u \in Tabs |-> IF u # t /\ token # jwt THEN Append(notes[u], token) ELSE notes[u]]

ClearAuth(t) ==
  /\ Store(t, 0, 0) /\ SetMem(t, 0)
  /\ user' = [user EXCEPT ![t] = FALSE]

(* Mutant: a tab follows a new token, not a removal.                        *)
OnStorageSet(t) ==
  /\ notes[t] # <<>>
  /\ notes' = [notes EXCEPT ![t] = Tail(@)]
  /\ IF Head(notes[t]) # 0 THEN SetMem(t, Head(notes[t])) ELSE UNCHANGED <<mem, ws>>
  /\ outdated' = (outdated \/ Head(notes[t]) # jwt)
  /\ UNCHANGED <<now, issued, pw, redis, reset, storage, user, awaits, req, call, counts, escaped, reasons>>

(* A storage event of the token: follow the other tab.                      *)
OnStorage(t) ==
  /\ notes[t] # <<>>
  /\ LET token == Head(notes[t])
         rest == [notes EXCEPT ![t] = Tail(@)]
     IN IF token # 0
          THEN SetMem(t, token) /\ notes' = rest /\ UNCHANGED <<storage, user>>
          ELSE /\ jwt' = 0 /\ rt' = 0 /\ SetMem(t, 0)
               /\ user' = [user EXCEPT ![t] = FALSE]
               /\ notes' = [u \in Tabs |-> IF u # t /\ jwt # 0 THEN Append(rest[u], 0) ELSE rest[u]]
  /\ outdated' = (outdated \/ Head(notes[t]) # jwt)
  /\ UNCHANGED <<now, issued, pw, redis, reset, awaits, req, call, counts, escaped, reasons>>

(* refreshSession: called by everyone who waits, run once.                  *)
Renewed(t) ==
  IF call[t].pc = "none"
    THEN [call EXCEPT ![t] = IF rt = 0 THEN [pc |-> "answer", kind |-> "refresh", used |-> 0, id |-> 0, token |-> 0]
                             ELSE [pc |-> "getdel", kind |-> "refresh", used |-> rt]]
    ELSE call

(* The upgrade: verifyToken, then the socket, or 4401.                      *)
Dial(t) ==
  /\ ws[t] = "dialing"
  /\ IF Valid(mem[t])
       THEN ws' = [ws EXCEPT ![t] = "open"] /\ UNCHANGED <<awaits, call>>
       ELSE /\ ws' = [ws EXCEPT ![t] = "closed"]
            /\ awaits' = [awaits EXCEPT ![t] = TRUE]
            /\ call' = Renewed(t)
  /\ UNCHANGED <<now, issued, pw, redis, reset, storage, mem, user, req, notes, counts, history>>

(* The connection drops; the retry timer dials again with the same token.   *)
WsDrop(t) ==
  /\ ws[t] = "open" /\ faults < MaxFaults /\ More
  /\ faults' = faults + 1
  /\ ws' = [ws EXCEPT ![t] = "dialing"]
  /\ UNCHANGED <<now, issued, pw, redis, reset, storage, mem, user, awaits, req, call, notes, logins, requests, resets, history>>

-----------------------------------------------------------------------------
(* A REST call behind requireAuth, or a logout; a 401 renews and replays.   *)

Request(t, kind) ==
  /\ user[t] /\ req[t] = NoReq /\ requests < MaxRequests /\ More
  /\ req' = [req EXCEPT ![t] = [pc |-> "sent", kind |-> kind, token |-> jwt, rt |-> rt, retried |-> FALSE]]
  /\ requests' = requests + 1
  /\ reasons' = IF kind = "logout" THEN reasons \cup {"logout"} ELSE reasons
  /\ UNCHANGED <<now, issued, pw, redis, reset, storage, mem, user, ws, awaits, call, notes, logins, resets, faults, escaped, outdated>>

(* requireAuth refuses: join the refresh, or give up when this is the replay. *)
Refused(t) ==
  /\ req[t].pc = "sent" /\ ~Valid(req[t].token)
  /\ IF ~req[t].retried
       THEN /\ req' = [req EXCEPT ![t].pc = "waiting"]
            /\ call' = Renewed(t)
            /\ UNCHANGED <<storage, mem, user, ws, notes, reasons>>
       ELSE /\ req' = [req EXCEPT ![t] = NoReq]
            /\ ClearAuth(t) /\ UNCHANGED call
            /\ reasons' = IF Expired(req[t].token) THEN reasons \cup {"late"} ELSE reasons
  /\ UNCHANGED <<now, issued, pw, redis, reset, awaits, counts, escaped, outdated>>

Served(t) ==
  /\ req[t].pc = "sent" /\ Valid(req[t].token) /\ req[t].kind = "api"
  /\ req' = [req EXCEPT ![t] = NoReq]
  /\ UNCHANGED <<now, issued, pw, redis, reset, storage, mem, user, ws, awaits, call, notes, counts, history>>

(* Logout: SETEX of the blacklist, then GETDEL and SREM of the token it sent. *)
LogoutBlacklist(t) ==
  /\ req[t].pc = "sent" /\ Valid(req[t].token) /\ req[t].kind = "logout"
  /\ blacklist' = blacklist \cup {req[t].token}
  /\ req' = [req EXCEPT ![t].pc = "consume"]
  /\ UNCHANGED <<now, issued, pw, live, index, about, after, reset, storage, mem, user, ws, awaits, call, notes, counts, history>>

(* ... and the tab signs out whatever was answered.                         *)
LogoutConsume(t) ==
  /\ req[t].pc = "consume"
  /\ live' = live \ {req[t].rt} /\ index' = index \ (live \cap {req[t].rt})
  /\ req' = [req EXCEPT ![t] = NoReq]
  /\ ClearAuth(t)
  /\ UNCHANGED <<now, issued, pw, about, after, blacklist, reset, awaits, call, counts, history>>

-----------------------------------------------------------------------------
(* Login and refresh on the server.                                         *)

At(t, kind, pc) == call[t].pc = pc /\ call[t].kind = kind

(* The form of a signed-out tab, filled in with the current password.       *)
Login(t) ==
  /\ ~user[t] /\ call[t] = NoCall /\ logins < MaxLogins /\ More
  /\ logins' = logins + 1
  /\ call' = [call EXCEPT ![t] = [pc |-> "compare", kind |-> "login", used |-> 0, pw |-> pw, login |-> logins']]
  /\ UNCHANGED <<now, issued, pw, redis, reset, storage, mem, user, ws, awaits, req, notes, requests, resets, faults, history>>

Failed(t, used) == [call EXCEPT ![t] = [pc |-> "answer", kind |-> call[t].kind, used |-> used, id |-> 0, token |-> 0]]

(* findOne and bcrypt.compare.                                              *)
Compare(t) ==
  /\ At(t, "login", "compare")
  /\ call' = IF call[t].pw = pw
               THEN [call EXCEPT ![t] = [pc |-> "issue", kind |-> "login", used |-> 0,
                                         from |-> [pw |-> pw, login |-> call[t].login, raced |-> FALSE]]]
               ELSE Failed(t, 0)
  /\ UNCHANGED <<now, issued, pw, redis, reset, storage, mem, user, ws, awaits, req, notes, counts, history>>

(* Mutant: GET instead of GETDEL.                                           *)
GetNotDel(t) ==
  /\ At(t, "refresh", "getdel")
  /\ call' = IF call[t].used \in live THEN [call EXCEPT ![t] = [pc |-> "issue", kind |-> "refresh", used |-> call[t].used,
                                                                from |-> about[call[t].used]]]
                                      ELSE Failed(t, call[t].used)
  /\ UNCHANGED <<now, issued, pw, redis, reset, storage, mem, user, ws, awaits, req, notes, counts, history>>

(* consumeToken: GETDEL, and SREM (the hash it leaves in the set for a      *)
(* moment names no key).                                                    *)
GetDel(t) ==
  /\ At(t, "refresh", "getdel")
  /\ live' = live \ {call[t].used} /\ index' = index \ (live \cap {call[t].used})
  /\ call' = IF call[t].used \in live THEN [call EXCEPT ![t] = [pc |-> "issue", kind |-> "refresh", used |-> call[t].used,
                                                                from |-> about[call[t].used]]]
                                      ELSE Failed(t, call[t].used)
  /\ UNCHANGED <<now, issued, pw, about, after, blacklist, reset, storage, mem, user, ws, awaits, req, notes, counts, history>>

(* For the properties: is a token stored now missed by a revocation, either *)
(* because what it stems from was read before, or because the set that      *)
(* lists it is about to be deleted.                                         *)
Overlaps(version) == (version # pw /\ reset.pc # "members") \/ reset.pc \in {"del", "drop"}

(* Mutant: the token is not entered in the set of the user.                 *)
IssueUnlisted(t) ==
  /\ call[t].pc = "issue" /\ issued < MaxIssued
  /\ issued' = issued + 1
  /\ \E id \in Ids \ Held :
        /\ First(id, Ids \ Held)
        /\ live' = live \cup {id}
        /\ about' = [about EXCEPT ![id] = call[t].from]
        /\ call' = [call EXCEPT ![t] = [pc |-> "answer", kind |-> call[t].kind, used |-> call[t].used, id |-> id, token |-> now]]
  /\ UNCHANGED <<now, pw, index, after, blacklist, reset, storage, mem, user, ws, awaits, req, notes, counts, history>>

(* issueSession: signToken, then storeToken.                                *)
Issue(t) ==
  /\ call[t].pc = "issue" /\ issued < MaxIssued
  /\ issued' = issued + 1
  /\ \E id \in Ids \ Held :
        /\ First(id, Ids \ Held)
        /\ live' = live \cup {id} /\ index' = index \cup {id}
        /\ about' = [about EXCEPT ![id] = [call[t].from EXCEPT !.raced = @ \/ Overlaps(call[t].from.pw)]]
        /\ call' = [call EXCEPT ![t] = [pc |-> "answer", kind |-> call[t].kind, used |-> call[t].used, id |-> id, token |-> now]]
  /\ UNCHANGED <<now, pw, after, blacklist, reset, storage, mem, user, ws, awaits, req, notes, counts, history>>

(* The request fails on the server, or its answer is lost.                  *)
Lose(t) ==
  /\ call[t].pc \in {"getdel", "issue", "answer"} /\ faults < MaxFaults /\ More
  /\ faults' = faults + 1 /\ reasons' = reasons \cup {"lost"}
  /\ call' = Failed(t, call[t].used)
  /\ UNCHANGED <<now, issued, pw, redis, reset, storage, mem, user, ws, awaits, req, notes, logins, requests, resets, escaped, outdated>>

-----------------------------------------------------------------------------
(* The answer in the tab.                                                   *)

LoginAnswered(t) ==
  /\ At(t, "login", "answer")
  /\ call' = [call EXCEPT ![t] = NoCall]
  /\ IF call[t].id # 0
       THEN /\ Store(t, call[t].token, call[t].id)
            /\ SetMem(t, call[t].token) /\ user' = [user EXCEPT ![t] = TRUE]
       ELSE UNCHANGED <<storage, mem, user, ws, notes>>
  /\ UNCHANGED <<now, issued, pw, redis, reset, awaits, req, counts, history>>

Replay(t, token) == IF req[t].pc = "waiting" THEN [req EXCEPT ![t].pc = "sent", ![t].token = token, ![t].retried = TRUE]
                                             ELSE req

(* Everyone who waited goes on with this token: the request is replayed, a  *)
(* socket closed with 4401 is opened again unless the tab has signed out.   *)
GoOn(t, token, stored) ==
  /\ req' = Replay(t, token)
  /\ awaits' = [awaits EXCEPT ![t] = FALSE]
  /\ IF awaits[t] /\ ws[t] # "off" THEN mem' = [mem EXCEPT ![t] = token] /\ ws' = [ws EXCEPT ![t] = "dialing"]
     ELSE IF stored THEN SetMem(t, token)
     ELSE UNCHANGED <<mem, ws>>

(* saveTokens and TOKENS_REFRESHED.                                         *)
RefreshAnswered(t) ==
  /\ At(t, "refresh", "answer") /\ call[t].id # 0
  /\ call' = [call EXCEPT ![t] = NoCall]
  /\ Store(t, call[t].token, call[t].id)
  /\ GoOn(t, call[t].token, TRUE)
  /\ UNCHANGED <<now, issued, pw, redis, reset, user, counts, history>>

(* Mutant: the pair another tab has stored is not looked for.               *)
NeverRotated(t) == FALSE

Rotated(t) == rt # call[t].used /\ jwt # 0

(* Refused or lost: another tab's pair if the stored one changed, ...       *)
UseStored(t) ==
  /\ At(t, "refresh", "answer") /\ call[t].id = 0 /\ Rotated(t)
  /\ call' = [call EXCEPT ![t] = NoCall]
  /\ GoOn(t, jwt, FALSE)
  /\ UNCHANGED <<now, issued, pw, redis, reset, storage, user, notes, counts, history>>

(* ... else the session is over for whoever waited.                         *)
GiveUp(t) ==
  /\ At(t, "refresh", "answer") /\ call[t].id = 0 /\ ~Rotated(t)
  /\ call' = [call EXCEPT ![t] = NoCall]
  /\ req' = IF req[t].pc = "waiting" THEN [req EXCEPT ![t] = NoReq] ELSE req
  /\ awaits' = [awaits EXCEPT ![t] = FALSE]
  /\ IF req[t].pc = "waiting" \/ (awaits[t] /\ ws[t] # "off") THEN ClearAuth(t)
     ELSE UNCHANGED <<storage, mem, user, ws, notes>>
  /\ reasons' = IF \E u \in Tabs \ {t} : call[u].pc # "none" /\ call[u].used = call[t].used
                  THEN reasons \cup {"race"} ELSE reasons
  /\ UNCHANGED <<now, issued, pw, redis, reset, counts, escaped, outdated>>

-----------------------------------------------------------------------------
(* The password reset, by mail, from anywhere.                              *)

(* consumeToken of the link, then the new password is saved.                *)
ResetSave ==
  /\ reset.pc = "none" /\ resets < MaxResets /\ More
  /\ resets' = resets + 1
  /\ pw' = pw + 1 /\ reasons' = reasons \cup {"reset"}
  /\ reset' = [pc |-> "members"]
  /\ UNCHANGED <<now, issued, redis, storage, tabs, logins, requests, faults, escaped, outdated>>

(* revokeAllRefreshTokens and invalidateSessionsBefore send their first     *)
(* commands together: SMEMBERS, and SET of the time, ...                    *)
Members ==
  /\ reset.pc = "members"
  /\ after' = now
  /\ reset' = [pc |-> "del", hashes |-> index]
  /\ UNCHANGED <<now, issued, pw, live, index, about, blacklist, storage, tabs, counts, history>>

(* Mutant: the keys themselves are left.                                    *)
DelNothing ==
  /\ reset.pc = "del"
  /\ reset' = [pc |-> "drop"]
  /\ UNCHANGED <<now, issued, pw, redis, storage, tabs, counts, history>>

(* ... DEL of the keys it named, ...                                        *)
DelTokens ==
  /\ reset.pc = "del"
  /\ live' = live \ reset.hashes
  /\ reset' = [pc |-> "drop"]
  /\ UNCHANGED <<now, issued, pw, index, about, after, blacklist, storage, tabs, counts, history>>

(* ... and DEL of the set.                                                  *)
DelSet ==
  /\ reset.pc = "drop"
  /\ index' = {}
  /\ reset' = [pc |-> "none"]
  /\ UNCHANGED <<now, issued, pw, live, about, after, blacklist, storage, tabs, counts, history>>

(* A command of the reset rejects: the password is changed all the same.    *)
ResetFails ==
  /\ reset.pc # "none" /\ faults < MaxFaults /\ More
  /\ faults' = faults + 1 /\ escaped' = TRUE
  /\ reset' = [pc |-> "none"]
  /\ UNCHANGED <<now, issued, pw, redis, storage, tabs, logins, requests, resets, reasons, outdated>>

Server(t) ==
  \/ Refused(t) \/ Served(t) \/ LogoutBlacklist(t) \/ LogoutConsume(t)
  \/ Compare(t) \/ GetDel(t) \/ Issue(t)
Client(t) == Dial(t) \/ OnStorage(t) \/ LoginAnswered(t) \/ RefreshAnswered(t) \/ UseStored(t) \/ GiveUp(t)
Reset == Members \/ DelTokens \/ DelSet

Next ==
  \/ Tick \/ ResetSave \/ Reset \/ ResetFails
  \/ \E t \in Tabs :
       \/ Server(t) \/ Client(t)
       \/ (\E kind \in {"api", "logout"} : Request(t, kind)) \/ Login(t) \/ Lose(t) \/ WsDrop(t)

Spec == Init /\ [][Next]_vars

(* The clock runs; requests are answered; timers, events and answers reach  *)
(* the tab.                                                                 *)
Fairness ==
  /\ WF_vars(Tick)
  /\ \A t \in Tabs : WF_vars(Server(t)) /\ WF_vars(Client(t))
FairSpec == Spec /\ Fairness

-----------------------------------------------------------------------------
(* Properties.                                                              *)

(* Type invariant.                                                          *)
TypeOK ==
  /\ now \in 1..MaxTime /\ issued \in 0..MaxIssued /\ pw \in 0..MaxResets
  /\ live \subseteq Ids /\ index \subseteq Ids
  /\ about \in [Ids -> [pw : 0..MaxResets, login : 0..MaxLogins, raced : BOOLEAN]]
  /\ after \in 0..MaxTime /\ blacklist \subseteq 1..MaxTime
  /\ reset.pc \in {"none", "members", "del", "drop"}
  /\ jwt \in 0..MaxTime /\ rt \in Ids \cup {0}
  /\ mem \in [Tabs -> 0..MaxTime] /\ user \in [Tabs -> BOOLEAN]
  /\ ws \in [Tabs -> {"off", "dialing", "open", "closed"}] /\ awaits \in [Tabs -> BOOLEAN]
  /\ \A t \in Tabs : /\ req[t].pc \in {"none", "sent", "waiting", "consume"}
                     /\ call[t].pc \in {"none", "compare", "getdel", "issue", "answer"}
                     /\ notes[t] \in Seq(0..MaxTime)

(* A login never forks: of the refresh tokens that descend from it, at most *)
(* one is in Redis or about to be, however many tabs trade the same one at  *)
(* the same time, and whatever answers are lost.                            *)
OneTokenPerLogin ==
  \A l \in 0..MaxLogins :
    LET stored == {id \in live : about[id].login = l}
        owed == {t \in Tabs : call[t].pc = "issue" /\ call[t].from.login = l}
    IN Cardinality(stored) + Cardinality(owed) <= 1

(* "Log out everywhere" reaches every refresh token: all are in the set of  *)
(* the user, except those stored while a revocation was under way.          *)
Revocable == \A id \in live : id \in index \/ about[id].raced

(* A completed password reset leaves no refresh token of an older login,    *)
(* except one whose login or refresh was already past its check.            *)
OldSessionsEnd == reset.pc = "none" /\ ~escaped => \A id \in live : about[id].pw = pw \/ about[id].raced

Quiet == /\ reset.pc = "none"
         /\ \A t \in Tabs : req[t] = NoReq /\ call[t] = NoCall /\ notes[t] = <<>>

(* When nothing is under way, every tab has the token that is stored: a     *)
(* logout, a login or a rotation in one tab reaches the others.  Only an    *)
(* event that is handled when the storage has changed again undoes that.    *)
TabsAgree == Quiet /\ ~outdated => \A t \in Tabs : mem[t] = jwt

(* An expired access token never costs the session: a browser is signed out *)
(* only after a logout, a reset, an answer that was lost, when two tabs     *)
(* traded one token and the loser looked before the winner had stored, or   *)
(* when the new token expired before the repeated call was served.          *)
StaysSignedIn == jwt = 0 => reasons # {}

(* A tab whose socket was refused or lost does not try for ever: it is      *)
(* connected again or signed out (or the clock of the model has stopped and *)
(* the tokens of its last second are used up).                              *)
Frozen == now = MaxTime /\ issued = MaxIssued
Settles == \A t \in Tabs : ws[t] \in {"dialing", "closed"} ~> (ws[t] \in {"open", "off"} \/ Frozen)

(* App.tsx: "Another tab logged in/out or refreshed the session -> follow   *)
(* it".  Violated: the store of the other tab has a token and no user.      *)
FollowsLogin == Quiet => \A t \in Tabs : (mem[t] # 0) = user[t]

(* API.md: a reset "signs out all other sessions (access + refresh tokens,  *)
(* WebSockets)".  Violated: a WebSocket that is open stays open.            *)
ResetSignsOut == (resets > 0 /\ Quiet /\ ~escaped) => \A t \in Tabs : ws[t] = "open" => mem[t] >= after
=============================================================================
