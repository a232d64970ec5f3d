--------------------------- MODULE MembershipCache ---------------------------
(***************************************************************************)
(* The cached member set of ONE channel, channel:<id>:members in Redis     *)
(* (packages/queue/src/membership.ts): requireChannel, which every frame   *)
(* of the WebSocket server passes, reads it and fills it on a miss; the    *)
(* API routes delete it after they changed the membership in MongoDB.      *)
(*                                                                         *)
(* Every await is a step boundary, for the calls of requireChannel as for  *)
(* the API requests.  Requests that change nothing are left out.  Of a     *)
(* public channel the members are the WorkspaceMember rows, of a private   *)
(* one channel.memberIds.  Time passes in periods; the key lives for Ttl   *)
(* of them (300 s).  MembershipProofs extends this module beside Workspace:*)
(* names both would have, Init, Next, Spec, carry the prefix Cache here.   *)
(***************************************************************************)
EXTENDS Naturals

CONSTANTS
  User,
  Call,        \* concurrent calls of requireChannel
  Request,     \* concurrent API requests
  Ttl,         \* TTL_SECONDS in periods
  MaxHold,     \* a call fills the cache within MaxHold periods of its read
  MaxChanges,  \* how many requests change something
  Faulty       \* do Redis commands and requests fail

ASSUME TimeAssumption == Ttl \in Nat \ {0} /\ MaxHold \in Nat \ {0}
ASSUME BoundAssumption == MaxChanges \in Nat /\ Faulty \in BOOLEAN

VARIABLES
  kind,     \* channel.kind
  status,   \* the Channel document: not created yet, existing, deleted
  members,  \* what resolveChannelMemberIds reads in MongoDB
  ago,      \* periods since the user was last a member, counted up to Long
  cache,    \* the users in the Redis set, without the EMPTY_MARKER
  ttl,      \* periods the key has left; 0 when it is missing
  stage,    \* what each API request does next
  listed,   \* the deletions of the workspace that have found the channel
  changes,  \* how many requests there were
  phase,    \* what each call of requireChannel does next
  user,     \* ws.userId of the call
  got,      \* the members the call has read from MongoDB
  age,      \* periods since it read them
  dirty,    \* history: MongoDB changed after the call's reads
  barred,   \* history: the user was no member, and every request answered, at the start
  tainted   \* history: the entry comes from a dirty call or outlived a request that did not delete it

db == <<kind, status, members>>
redis == <<cache, ttl>>
requests == <<stage, listed, changes>>
calls == <<phase, user, got, age, dirty, barred>>
cacheVars == <<db, ago, redis, requests, calls, tainted>>

Stage == {"idle", "find", "purge", "doc", "rows", "del"}
Phase == {"idle", "lookup", "load", "rows", "fill", "in", "out"}
Resting == {"idle", "in", "out"}

Long == Ttl + MaxHold
exists == status = "live"
Cached == ttl > 0
Answered == \A w \in Request : stage[w] = "idle"

CacheInit ==
  /\ kind \in {"public", "private"}
  /\ status \in {"new", "live"}
  /\ members \in SUBSET User /\ (kind = "private" /\ ~exists => members = {})
  /\ ago = [u \in User |-> IF u \in members THEN 0 ELSE Long]
  /\ cache = {} /\ ttl = 0
  /\ stage = [w \in Request |-> "idle"]
  /\ listed = {} /\ changes = 0
  /\ phase = [r \in Call |-> "idle"]
  /\ user \in [Call -> User]
  /\ got = [r \in Call |-> {}]
  /\ age = [r \in Call |-> 0]
  /\ dirty = [r \in Call |-> FALSE]
  /\ barred = [r \in Call |-> FALSE]
  /\ tainted = FALSE

-----------------------------------------------------------------------------
(* API requests: a write, then the invalidation *)

(* POST /workspaces/:id/channels: no invalidation, there is no key yet.    *)
(* A public channel finds its members there.                                *)
CreateChannel(M) ==
  /\ status = "new" /\ status' = "live"
  /\ IF kind = "public" THEN M = members ELSE M # {}
  /\ members' = M
  /\ ago' = [u \in User |-> IF u \in M THEN 0 ELSE ago[u]]
  /\ UNCHANGED <<kind, redis, requests, calls, tainted>>

Start(w, next) ==
  /\ stage[w] = "idle" /\ changes < MaxChanges
  /\ changes' = changes + 1
  /\ stage' = [stage EXCEPT ![w] = next]

SetMembers(M) ==
  /\ members' = M
  /\ ago' = [u \in User |-> IF u \in members \cup M THEN 0 ELSE ago[u]]
  /\ dirty' = [r \in Call |-> dirty[r] \/ phase[r] = "fill"]
  /\ UNCHANGED <<kind, status>>

DeleteDoc ==
  /\ status' = IF exists THEN "gone" ELSE status
  /\ dirty' = [r \in Call |-> dirty[r] \/ phase[r] \in {"rows", "fill"}]
  /\ UNCHANGED <<kind, members, ago>>

(* invalidateWorkspaceChannels looks the public channels up, *)
(* invalidateChannelMembers is given the id.                 *)
AfterWrite == IF kind = "public" THEN "find" ELSE "del"
Writable == exists \/ (kind = "public" /\ status = "new")

AddMemberWrite(w, u) ==
  /\ Writable /\ u \notin members
  /\ Start(w, AfterWrite)
  /\ SetMembers(members \cup {u})
  /\ barred' = [r \in Call |-> barred[r] /\ user[r] # u]
  /\ UNCHANGED <<redis, listed, phase, user, got, age, tainted>>

RemoveMemberWrite(w, u) ==
  /\ Writable /\ u \in members
  /\ Start(w, AfterWrite)
  /\ SetMembers(members \ {u})
  /\ UNCHANGED <<redis, listed, phase, user, got, age, barred, tainted>>

DeleteChannel(w) ==
  /\ exists /\ Start(w, "del")
  /\ DeleteDoc
  /\ UNCHANGED <<redis, listed, phase, user, got, age, barred, tainted>>

(* DELETE /workspaces/:id finds the ids of the channels first: those whose  *)
(* keys it will delete.                                                     *)
ListChannels(w) ==
  /\ status # "gone" /\ Start(w, "purge")
  /\ listed' = IF exists THEN listed \cup {w} ELSE listed \ {w}
  /\ UNCHANGED <<db, ago, redis, calls, tainted>>

(* What is left when the documents are gone: the invalidation, unless the   *)
(* channel is one that was created after the ids were read.                 *)
Swept(w) ==
  /\ stage' = [stage EXCEPT ![w] = IF w \in listed THEN "del" ELSE "idle"]
  /\ tainted' = IF w \in listed THEN tainted ELSE Cached

(* Its Promise.all: the documents, by their workspaceId, and the            *)
(* WorkspaceMember rows go in either order.                                 *)
DeleteWorkspaceWrite(w) ==
  /\ stage[w] = "purge"
  /\ \/ kind = "private" /\ DeleteDoc /\ Swept(w)
     \/ /\ kind = "public" /\ UNCHANGED tainted
        /\ \/ DeleteDoc /\ stage' = [stage EXCEPT ![w] = "rows"]
           \/ SetMembers({}) /\ stage' = [stage EXCEPT ![w] = "doc"]
  /\ UNCHANGED <<redis, listed, changes, phase, user, got, age, barred>>

DeleteWorkspaceRest(w) ==
  /\ \/ stage[w] = "doc" /\ DeleteDoc
     \/ stage[w] = "rows" /\ SetMembers({})
  /\ Swept(w)
  /\ UNCHANGED <<redis, listed, changes, phase, user, got, age, barred>>

FindChannels(w) ==
  /\ stage[w] = "find"
  /\ stage' = [stage EXCEPT ![w] = IF exists THEN "del" ELSE "idle"]
  /\ UNCHANGED <<db, ago, redis, listed, changes, calls, tainted>>

Invalidate(w) ==
  /\ stage[w] = "del"
  /\ stage' = [stage EXCEPT ![w] = "idle"]
  /\ cache' = {} /\ ttl' = 0 /\ tainted' = FALSE
  /\ UNCHANGED <<db, ago, listed, changes, calls>>

(* DEL is rejected, which is logged, and the request answered all the same; *)
(* or the request dies before it gets there.                                *)
RequestFails(w) ==
  /\ Faulty /\ stage[w] # "idle"
  /\ stage' = [stage EXCEPT ![w] = "idle"]
  /\ tainted' = IF stage[w] = "purge" THEN tainted ELSE Cached
  /\ UNCHANGED <<db, ago, redis, listed, changes, calls>>

-----------------------------------------------------------------------------
(* requireChannel and getChannelMembers *)

BeginCall(r, u) ==
  /\ phase[r] \in Resting /\ exists
  /\ phase' = [phase EXCEPT ![r] = "lookup"]
  /\ user' = [user EXCEPT ![r] = u]
  /\ barred' = [barred EXCEPT ![r] = u \notin members /\ Answered]
  /\ UNCHANGED <<db, ago, redis, requests, got, age, dirty, tainted>>

Verdict(r, list) == IF user[r] \in list THEN "in" ELSE "out"

(* Mutant: a hit starts the time to live anew. *)
HitRenews(r) ==
  /\ phase[r] = "lookup" /\ Cached
  /\ phase' = [phase EXCEPT ![r] = Verdict(r, cache)]
  /\ ttl' = Ttl
  /\ UNCHANGED <<db, ago, cache, requests, user, got, age, dirty, barred, tainted>>

Hit(r) ==
  /\ phase[r] = "lookup" /\ Cached
  /\ phase' = [phase EXCEPT ![r] = Verdict(r, cache)]
  /\ UNCHANGED <<db, ago, redis, requests, user, got, age, dirty, barred, tainted>>

(* The key is missing, or SMEMBERS rejects. *)
Miss(r) ==
  /\ phase[r] = "lookup" /\ (~Cached \/ Faulty)
  /\ phase' = [phase EXCEPT ![r] = "load"]
  /\ UNCHANGED <<db, ago, redis, requests, user, got, age, dirty, barred, tainted>>

(* loadChannel: a private channel carries its members, those of a public    *)
(* one are read next.                                                       *)
Load(r) ==
  /\ phase[r] = "load"
  /\ phase' = [phase EXCEPT ![r] = CASE ~exists -> "out"
                                     [] exists /\ kind = "public" -> "rows"
                                     [] exists /\ kind # "public" -> "fill"]
  /\ got' = [got EXCEPT ![r] = IF exists /\ kind # "public" THEN members ELSE {}]
  /\ UNCHANGED <<db, ago, redis, requests, user, age, dirty, barred, tainted>>

ReadRows(r) ==
  /\ phase[r] = "rows"
  /\ phase' = [phase EXCEPT ![r] = "fill"]
  /\ got' = [got EXCEPT ![r] = members]
  /\ UNCHANGED <<db, ago, redis, requests, user, age, dirty, barred, tainted>>

AnswerCall(r) ==
  /\ phase' = [phase EXCEPT ![r] = Verdict(r, got[r])]
  /\ got' = [got EXCEPT ![r] = {}]
  /\ age' = [age EXCEPT ![r] = 0]
  /\ dirty' = [dirty EXCEPT ![r] = FALSE]

(* Mutant: the MULTI does not delete the key first. *)
FillMerges(r) ==
  /\ phase[r] = "fill"
  /\ cache' = cache \cup got[r] /\ ttl' = Ttl
  /\ tainted' = dirty[r]
  /\ AnswerCall(r)
  /\ UNCHANGED <<db, ago, requests, user, barred>>

(* MULTI: del, sadd (EMPTY_MARKER when there is no member), expire *)
Fill(r) ==
  /\ phase[r] = "fill"
  /\ cache' = got[r] /\ ttl' = Ttl
  /\ tainted' = dirty[r]
  /\ AnswerCall(r)
  /\ UNCHANGED <<db, ago, requests, user, barred>>

(* The cache is best-effort: the call answers from what it read. *)
FillFails(r) ==
  /\ Faulty /\ phase[r] = "fill"
  /\ AnswerCall(r)
  /\ UNCHANGED <<db, ago, redis, requests, user, barred, tainted>>

-----------------------------------------------------------------------------

(* A period passes: the key expires when its time is up. *)
Tick ==
  /\ \A r \in Call : phase[r] = "fill" => age[r] < MaxHold
  /\ age' = [r \in Call |-> IF phase[r] = "fill" THEN age[r] + 1 ELSE 0]
  /\ ago' = [u \in User |-> IF u \in members \/ ago[u] = Long THEN ago[u] ELSE ago[u] + 1]
  /\ ttl' = IF Cached THEN ttl - 1 ELSE 0
  /\ cache' = IF ttl > 1 THEN cache ELSE {}
  /\ tainted' = (tainted /\ ttl > 1)
  /\ UNCHANGED <<db, requests, phase, user, got, dirty, barred>>

RequestStep(w) ==
  \/ \E u \in User : AddMemberWrite(w, u) \/ RemoveMemberWrite(w, u)
  \/ DeleteChannel(w) \/ ListChannels(w) \/ DeleteWorkspaceWrite(w) \/ DeleteWorkspaceRest(w)
  \/ FindChannels(w) \/ Invalidate(w) \/ RequestFails(w)

CallStep(r) ==
  Hit(r) \/ Miss(r) \/ Load(r) \/ ReadRows(r) \/ Fill(r) \/ FillFails(r)

CacheNext ==
  \/ \E w \in Request : RequestStep(w)
  \/ \E r \in Call : CallStep(r) \/ \E u \in User : BeginCall(r, u)
  \/ \E M \in SUBSET User : CreateChannel(M)
  \/ Tick

CacheSpec == CacheInit /\ [][CacheNext]_cacheVars

(* A call under way goes on, a request that has written goes on, and time   *)
(* passes; nobody has to start anything.                                    *)
CacheFairSpec ==
  /\ CacheSpec
  /\ \A r \in Call : WF_cacheVars(CallStep(r))
  /\ \A w \in Request : WF_cacheVars(stage[w] # "idle" /\ RequestStep(w))
  /\ WF_cacheVars(Tick)

-----------------------------------------------------------------------------
(* Properties *)

(* Every variable stays in its range. *)
CacheTypeOK ==
  /\ kind \in {"public", "private"} /\ status \in {"new", "live", "gone"}
  /\ members \subseteq User /\ ago \in [User -> 0..Long]
  /\ cache \subseteq User /\ ttl \in 0..Ttl
  /\ stage \in [Request -> Stage] /\ listed \subseteq Request /\ changes \in 0..MaxChanges
  /\ phase \in [Call -> Phase] /\ user \in [Call -> User]
  /\ got \in [Call -> SUBSET User] /\ age \in [Call -> 0..MaxHold]
  /\ dirty \in [Call -> BOOLEAN] /\ barred \in [Call -> BOOLEAN]
  /\ tainted \in BOOLEAN

(* Once every request has answered, the cached set is the set in MongoDB,   *)
(* and no deleted channel has one, unless it was filled by a call whose     *)
(* reads a change overtook, an invalidation failed, or the channel was      *)
(* created after the deletion of its workspace had listed the channels:     *)
(* nothing else makes the cache stale, whatever the calls and the requests  *)
(* interleave.                                                              *)
StaleOnlyByOverlap ==
  Answered /\ Cached /\ ~tainted => exists /\ cache = members

(* How stale an answer can be: whoever is admitted was a member less than   *)
(* Ttl plus one read-to-fill delay ago, even when invalidations fail.       *)
AdmittedWasMember ==
  [][\A r \in Call : phase[r] # "in" /\ phase'[r] = "in" => ago[user[r]] < Long]_cacheVars

(* The cache heals: when no more changes are made, it ends up empty or      *)
(* right, however often it is read.                                         *)
FreshInTheEnd == <>[](Cached => exists /\ cache = members)

(* ARCHITECTURE.md:70: "workspace/channel membership is checked for every   *)
(* read and write; non-members get *404*": a call that begins when the      *)
(* removal has been answered does not admit the user.                       *)
NonMembersGet404 ==
  [][\A r \in Call : phase[r] # "in" /\ phase'[r] = "in" => ~barred[r]]_cacheVars
=============================================================================
