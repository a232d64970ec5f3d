------------------------------ MODULE Workspace ------------------------------
(***************************************************************************)
(* ONE workspace through its life: who belongs to it, who is invited to    *)
(* it, its #general channel, which can be renamed, one private channel, and *)
(* the accounts involved.  Every REST request runs on its own and steps    *)
(* from one await to the next; a slot of req is a request in flight.       *)
(* Consecutive reads that can only refuse a request are one step.  Messages *)
(* and files are the subject of Posting, caches and events that of         *)
(* MembershipCache and Subscriptions.                                      *)
(***************************************************************************)
EXTENDS Naturals, FiniteSets

CONSTANTS
  Users, Owner,  \* the accounts, or addresses; the one that creates the workspace
  Slots,         \* requests in flight at a time
  MaxRequests,   \* how many requests are sent in all
  MaxFaults      \* how many requests break off half-way

ASSUME OwnerAssumption == Owner \in Users
ASSUME LimitAssumption == MaxRequests \in Nat /\ MaxFaults \in Nat

VARIABLES
  account,       \* no account, a new one, or one with a verified address
  links,         \* links that were mailed to the address and not used yet
  ws,            \* the Workspace document
  row,           \* the role in the WorkspaceMember document
  invited,       \* addresses with a WorkspaceInvite document
  general, room, \* the #general channel, or what became of it, and the private one
  inside, creator, \* memberIds and createdBy of the private channel
  req, sent, faults,
  crossed,       \* history: users removed while a channel write that had
                 \* found them in the workspace was still to come
  half,          \* history: <<kind, user>> of requests that broke off
  late,          \* history: users invited after their address was verified
  collided,      \* history: users whose redemption lost to another join
  ending,        \* history: the deletion of the workspace has begun
  overtaken,     \* history: something was created during or after it
  renamed        \* history: #general has been given another name

people == <<account, links>>
place == <<ws, row, invited, general>>
private == <<room, inside, creator>>
history == <<crossed, half, late, collided, ending, overtaken, renamed>>
vars == <<people, place, private, req, sent, faults, history>>

Life == {"none", "live", "gone"}
Roles == {"none", "member", "admin"}
Kinds == {"create", "join", "invite", "redeem", "role", "remove", "room", "add", "take",
          "close", "rename", "delete", "account"}
Parts == {"rows", "channels", "workspace"}
Stages == {"idle", "workspace", "owner", "general", "exists", "insert", "lookup", "upsert",
           "save", "find", "check", "spent", "role", "drop", "rooms", "pull", "count",
           "create", "target", "add", "take", "close", "rename", "name", "erase", "purge"}

Idle == [kind |-> "account", at |-> "idle", by |-> Owner, for |-> Owner, what |-> {}]
Quiet == \A r \in Slots : req[r] = Idle
Member(u) == row[u] # "none"
Admin(u) == row[u] = "admin"
Sees(u) == room = "live" /\ u \in inside
Manages(u) == Sees(u) /\ (Admin(u) \/ creator = u)

TypeOK ==
  /\ account \in [Users -> {"none", "new", "verified"}]
  /\ links \in [Users -> SUBSET {"verify", "reset"}]
  /\ ws \in Life /\ general \in Life \cup {"renamed"} /\ room \in Life
  /\ row \in [Users -> Roles]
  /\ invited \subseteq Users /\ inside \subseteq Users /\ creator \in Users
  /\ req \in [Slots -> [kind : Kinds, at : Stages, by : Users, for : Users,
                        what : SUBSET (Users \cup Parts \cup {"admin", "general"})]]
  /\ sent \in 0..MaxRequests /\ faults \in 0..MaxFaults
  /\ crossed \subseteq Users /\ late \subseteq Users /\ collided \subseteq Users
  /\ half \subseteq Kinds \X Users
  /\ ending \in BOOLEAN /\ overtaken \in BOOLEAN /\ renamed \in BOOLEAN

Init ==
  /\ account = [u \in Users |-> IF u = Owner THEN "verified" ELSE "none"]
  /\ links = [u \in Users |-> {}]
  /\ ws = "none" /\ general = "none" /\ room = "none"
  /\ row = [u \in Users |-> "none"]
  /\ invited = {} /\ inside = {} /\ creator = Owner
  /\ req = [r \in Slots |-> Idle] /\ sent = 0 /\ faults = 0
  /\ crossed = {} /\ half = {} /\ late = {} /\ collided = {}
  /\ ending = FALSE /\ overtaken = FALSE /\ renamed = FALSE

-----------------------------------------------------------------------------
(* The life of a request: it is sent by somebody who is signed in, goes     *)
(* from await to await and is answered, or breaks off between two of them.  *)

Begin(r, kind, at, by, for, what) ==
  /\ req[r] = Idle /\ sent < MaxRequests
  /\ account[by] # "none"
  /\ req' = [req EXCEPT ![r] = [kind |-> kind, at |-> at, by |-> by, for |-> for, what |-> what]]
  /\ sent' = sent + 1

Deleted(document) == IF document = "none" THEN "none" ELSE "gone"
At(r, stage) == req[r].at = stage
Go(r, stage) == req' = [req EXCEPT ![r].at = stage]
Answer(r) == req' = [req EXCEPT ![r] = Idle]

(* MongoDB rejects, or the API process dies: what was written stays.        *)
BreakOff(r) ==
  /\ req[r] # Idle /\ faults < MaxFaults
  /\ faults' = faults + 1
  /\ half' = half \cup {<<req[r].kind, req[r].for>>}
  /\ Answer(r)
  /\ UNCHANGED <<people, place, private, sent, crossed, late, collided, ending, overtaken, renamed>>

-----------------------------------------------------------------------------
(* Accounts and the links that prove an address.                            *)

Register(u) ==
  /\ account[u] = "none"
  /\ account' = [account EXCEPT ![u] = "new"]
  /\ links' = [links EXCEPT ![u] = {"verify"}]
  /\ UNCHANGED <<place, private, req, sent, faults, history>>

ForgotPassword(u) ==
  /\ account[u] # "none" /\ sent < MaxRequests
  /\ links' = [links EXCEPT ![u] = @ \cup {"reset"}]
  /\ sent' = sent + 1
  /\ UNCHANGED <<account, place, private, req, faults, history>>

ResendVerification(u) ==
  /\ account[u] = "new" /\ sent < MaxRequests
  /\ links' = [links EXCEPT ![u] = @ \cup {"verify"}]
  /\ sent' = sent + 1
  /\ UNCHANGED <<account, place, private, req, faults, history>>

(* consumeToken: the link works once.                                       *)
UseLink(r, u, link) ==
  /\ link \in links[u]
  /\ links' = [links EXCEPT ![u] = @ \ {link}]
  /\ Begin(r, "redeem", "save", u, u, {})
  /\ UNCHANGED <<account, place, private, faults, history>>

VerifyEmail(r, u) == UseLink(r, u, "verify")
ResetPassword(r, u) == UseLink(r, u, "reset")

(* emailVerified = true is saved; acceptPendingInvites starts.              *)
SaveVerified(r) ==
  /\ At(r, "save")
  /\ account' = [account EXCEPT ![req[r].for] = "verified"]
  /\ Go(r, "find")
  /\ UNCHANGED <<links, place, private, sent, faults, history>>

FindInvites(r) ==
  /\ At(r, "find")
  /\ IF req[r].for \in invited THEN Go(r, "check") ELSE Answer(r)
  /\ UNCHANGED <<people, place, private, sent, faults, history>>

(* An invitation to a workspace that is gone is only deleted.               *)
CheckWorkspace(r) ==
  /\ At(r, "check")
  /\ Go(r, IF ws = "live" THEN "exists" ELSE "spent")
  /\ UNCHANGED <<people, place, private, sent, faults, history>>

DeleteInvite(r) ==
  /\ At(r, "spent")
  /\ invited' = invited \ {req[r].for}
  /\ Answer(r)
  /\ UNCHANGED <<people, ws, row, general, private, sent, faults, history>>

-----------------------------------------------------------------------------
(* Three ways in: the invite code, an admin, a redeemed invitation.  All of *)
(* them look for a member row and then insert one.                          *)

(* The code is random: it is known once its owner has seen the workspace.   *)
JoinByCode(r, u) ==
  /\ ws = "live" /\ (Member(Owner) \/ ending)
  /\ Begin(r, "join", "exists", u, u, {})
  /\ UNCHANGED <<people, place, private, faults, history>>

InviteMember(r, u, v) ==
  /\ Admin(u) /\ ws = "live"
  /\ Begin(r, "invite", "lookup", u, v, {})
  /\ UNCHANGED <<people, place, private, faults, history>>

LookUpAccount(r) ==
  /\ At(r, "lookup")
  /\ Go(r, IF account[req[r].for] = "none" THEN "upsert" ELSE "exists")
  /\ UNCHANGED <<people, place, private, sent, faults, history>>

UpsertInvite(r) ==
  LET v == req[r].for
  IN /\ At(r, "upsert")
     /\ invited' = invited \cup {v}
     /\ late' = IF account[v] = "verified" THEN late \cup {v} ELSE late
     /\ Answer(r)
     /\ UNCHANGED <<people, ws, row, general, private, sent, faults,
                    crossed, half, collided, ending, overtaken, renamed>>

(* Mutant: a member's invitation is skipped by the redemption, not deleted. *)
LookForRowOnly(r) ==
  /\ At(r, "exists")
  /\ IF Member(req[r].for) THEN Answer(r) ELSE Go(r, "insert")
  /\ UNCHANGED <<people, place, private, sent, faults, history>>

LookForRow(r) ==
  /\ At(r, "exists")
  /\ IF ~Member(req[r].for) THEN Go(r, "insert")
     ELSE IF req[r].kind = "redeem" THEN Go(r, "spent") ELSE Answer(r)
  /\ UNCHANGED <<people, place, private, sent, faults, history>>

(* addMember: the unique index refuses a second row, and the request fails. *)
AddMember(r) ==
  LET u == req[r].for
  IN /\ At(r, "insert")
     /\ IF Member(u)
        THEN /\ Answer(r)
             /\ collided' = IF req[r].kind = "redeem" THEN collided \cup {u} ELSE collided
             /\ UNCHANGED <<row, overtaken>>
        ELSE /\ row' = [row EXCEPT ![u] = "member"]
             /\ overtaken' = (overtaken \/ ending)
             /\ IF req[r].kind = "redeem" THEN Go(r, "spent") ELSE Answer(r)
             /\ UNCHANGED collided
     /\ UNCHANGED <<people, ws, invited, general, private, sent, faults,
                    crossed, half, late, ending, renamed>>

WithdrawInvite(u, v) ==
  /\ Admin(u) /\ v \in invited /\ sent < MaxRequests
  /\ invited' = invited \ {v}
  /\ sent' = sent + 1
  /\ UNCHANGED <<people, ws, row, general, private, req, faults, history>>

-----------------------------------------------------------------------------
(* Roles, and the way out.                                                  *)

ChangeRole(r, u, v, role) ==
  /\ Admin(u) /\ ws = "live" /\ v # Owner
  /\ Begin(r, "role", "role", u, v, {role} \cap {"admin"})
  /\ UNCHANGED <<people, place, private, faults, history>>

SetRole(r) ==
  LET v == req[r].for
  IN /\ At(r, "role")
     /\ row' = IF Member(v) THEN [row EXCEPT ![v] = IF req[r].what = {} THEN "member" ELSE "admin"] ELSE row
     /\ Answer(r)
     /\ UNCHANGED <<people, ws, invited, general, private, sent, faults, history>>

RemoveMember(r, u, v) ==
  /\ IF u = v THEN Member(u) ELSE Admin(u)
  /\ ws = "live" /\ v # Owner
  /\ Begin(r, "remove", "drop", u, v, {})
  /\ UNCHANGED <<people, place, private, faults, history>>

(* Channel writes that have found u in the workspace and are still to come. *)
Promised(u) ==
  {r \in Slots : \/ At(r, "create") /\ u \in req[r].what
                 \/ At(r, "add") /\ u = req[r].for}

DropRow(r) ==
  LET v == req[r].for
  IN /\ At(r, "drop")
     /\ IF Member(v) THEN Go(r, "rooms") ELSE Answer(r)
     /\ row' = [row EXCEPT ![v] = "none"]
     /\ crossed' = IF Promised(v) # {} THEN crossed \cup {v} ELSE crossed
     /\ UNCHANGED <<people, ws, invited, general, private, sent, faults,
                    half, late, collided, ending, overtaken, renamed>>

(* Mutant: whoever leaves without being removed keeps the private channels. *)
FindRoomsOfRemoved(r) ==
  /\ At(r, "rooms")
  /\ IF Sees(req[r].for) /\ req[r].by # req[r].for THEN Go(r, "pull") ELSE Answer(r)
  /\ UNCHANGED <<people, place, private, sent, faults, history>>

FindRooms(r) ==
  /\ At(r, "rooms")
  /\ IF Sees(req[r].for) THEN Go(r, "pull") ELSE Answer(r)
  /\ UNCHANGED <<people, place, private, sent, faults, history>>

PullFromRooms(r) ==
  /\ At(r, "pull")
  /\ inside' = inside \ {req[r].for}
  /\ Answer(r)
  /\ UNCHANGED <<people, place, room, creator, sent, faults, history>>

-----------------------------------------------------------------------------
(* The private channel.                                                     *)

CreateRoom(r, u, others) ==
  /\ Member(u) /\ room = "none"
  /\ Begin(r, "room", "count", u, u, {u} \cup others)
  /\ UNCHANGED <<people, place, private, faults, history>>

CountMembers(r) ==
  /\ At(r, "count")
  /\ IF \A v \in req[r].what : Member(v) THEN Go(r, "create") ELSE Answer(r)
  /\ UNCHANGED <<people, place, private, sent, faults, history>>

(* A name is used once in a workspace; the model creates one such channel.  *)
InsertRoom(r) ==
  /\ At(r, "create")
  /\ Answer(r)
  /\ IF room = "none"
     THEN /\ room' = "live" /\ inside' = req[r].what /\ creator' = req[r].by
          /\ overtaken' = (overtaken \/ ending)
     ELSE UNCHANGED <<private, overtaken>>
  /\ UNCHANGED <<people, place, sent, faults, crossed, half, late, collided, ending, renamed>>

AddToRoom(r, u, v) ==
  /\ Sees(u)
  /\ Begin(r, "add", "target", u, v, {})
  /\ UNCHANGED <<people, place, private, faults, history>>

CheckTarget(r) ==
  /\ At(r, "target")
  /\ IF Member(req[r].for) THEN Go(r, "add") ELSE Answer(r)
  /\ UNCHANGED <<people, place, private, sent, faults, history>>

AddToSet(r) ==
  /\ At(r, "add")
  /\ inside' = IF room = "live" THEN inside \cup {req[r].for} ELSE inside
  /\ Answer(r)
  /\ UNCHANGED <<people, place, room, creator, sent, faults, history>>

TakeFromRoom(r, u, v) ==
  /\ IF u = v THEN Sees(u) ELSE Manages(u)
  /\ Begin(r, "take", "take", u, v, {})
  /\ UNCHANGED <<people, place, private, faults, history>>

Take(r) ==
  /\ At(r, "take")
  /\ inside' = inside \ {req[r].for}
  /\ Answer(r)
  /\ UNCHANGED <<people, place, room, creator, sent, faults, history>>

CloseRoom(r, u) ==
  /\ Manages(u)
  /\ Begin(r, "close", "close", u, u, {})
  /\ UNCHANGED <<people, place, private, faults, history>>

DeleteRoom(r) ==
  /\ At(r, "close")
  /\ room' = Deleted(room) /\ inside' = {}
  /\ Answer(r)
  /\ UNCHANGED <<people, place, creator, sent, faults, history>>

-----------------------------------------------------------------------------
(* #general: only its name protects it.                                     *)

ManagesGeneral(u) ==
  general \in {"live", "renamed"} /\ Member(u) /\ (Admin(u) \/ u = Owner)

RenameGeneral(r, u, name) ==
  /\ ManagesGeneral(u)
  /\ Begin(r, "rename", "rename", u, u, {name} \cap {"general"})
  /\ UNCHANGED <<people, place, private, faults, history>>

SetName(r) ==
  /\ At(r, "rename")
  /\ general' = IF general \notin {"live", "renamed"} THEN general
                ELSE IF req[r].what = {} THEN "renamed" ELSE "live"
  /\ renamed' = (renamed \/ general' = "renamed")
  /\ Answer(r)
  /\ UNCHANGED <<people, ws, row, invited, private, sent, faults,
                 crossed, half, late, collided, ending, overtaken>>

CloseGeneral(r, u) ==
  /\ ManagesGeneral(u)
  /\ Begin(r, "close", "name", u, u, {})
  /\ UNCHANGED <<people, place, private, faults, history>>

(* Mutant: the channel is deleted whatever it is called.                    *)
EraseUnchecked(r) ==
  /\ At(r, "name")
  /\ Go(r, "erase")
  /\ UNCHANGED <<people, place, private, sent, faults, history>>

(* The channel that has the name now is refused: 400.                       *)
CheckName(r) ==
  /\ At(r, "name")
  /\ IF general = "live" THEN Answer(r) ELSE Go(r, "erase")
  /\ UNCHANGED <<people, place, private, sent, faults, history>>

EraseGeneral(r) ==
  /\ At(r, "erase")
  /\ general' = Deleted(general)
  /\ Answer(r)
  /\ UNCHANGED <<people, ws, row, invited, private, sent, faults, history>>

-----------------------------------------------------------------------------
(* The workspace itself: three writes create it, and one Promise.all with   *)
(* deletes in any order ends it.                                            *)

CreateWorkspace(r) ==
  /\ ws = "none" /\ \A s \in Slots : req[s].kind # "create"
  /\ Begin(r, "create", "workspace", Owner, Owner, {})
  /\ UNCHANGED <<people, place, private, faults, history>>

InsertWorkspace(r) ==
  /\ At(r, "workspace")
  /\ ws' = "live"
  /\ Go(r, "owner")
  /\ UNCHANGED <<people, row, invited, general, private, sent, faults, history>>

InsertOwner(r) ==
  /\ At(r, "owner")
  /\ row' = [row EXCEPT ![Owner] = "admin"]
  /\ Go(r, "general")
  /\ UNCHANGED <<people, ws, invited, general, private, sent, faults, history>>

InsertGeneral(r) ==
  /\ At(r, "general")
  /\ general' = "live"
  /\ overtaken' = (overtaken \/ ending)
  /\ Answer(r)
  /\ UNCHANGED <<people, ws, row, invited, private, sent, faults,
                 crossed, half, late, collided, ending, renamed>>

DeleteWorkspace(r) ==
  /\ Member(Owner) /\ ws = "live"
  /\ Begin(r, "delete", "purge", Owner, Owner, Parts)
  /\ ending' = TRUE
  /\ UNCHANGED <<people, place, private, faults, crossed, half, late, collided, overtaken, renamed>>

Purged(r, part) ==
  /\ At(r, "purge") /\ part \in req[r].what
  /\ IF req[r].what = {part} THEN Answer(r) ELSE req' = [req EXCEPT ![r].what = @ \ {part}]

PurgeRows(r) ==
  /\ Purged(r, "rows")
  /\ row' = [u \in Users |-> "none"]
  /\ UNCHANGED <<people, ws, invited, general, private, sent, faults, history>>

(* Mutant: only the public channels are deleted with the workspace.         *)
PurgePublic(r) ==
  /\ Purged(r, "channels")
  /\ general' = Deleted(general)
  /\ UNCHANGED <<people, ws, row, invited, private, sent, faults, history>>

PurgeChannels(r) ==
  /\ Purged(r, "channels")
  /\ general' = Deleted(general) /\ room' = Deleted(room) /\ inside' = {}
  /\ UNCHANGED <<people, ws, row, invited, creator, sent, faults, history>>

PurgeWorkspace(r) ==
  /\ Purged(r, "workspace")
  /\ ws' = "gone"
  /\ UNCHANGED <<people, row, invited, general, private, sent, faults, history>>

-----------------------------------------------------------------------------
Accounts ==
  \E u \in Users : Register(u) \/ ForgotPassword(u) \/ ResendVerification(u)

Sent ==
  \/ \E u, v \in Users : WithdrawInvite(u, v)
  \/ \E r \in Slots :
       \/ CreateWorkspace(r) \/ DeleteWorkspace(r)
       \/ \E u \in Users : \/ VerifyEmail(r, u) \/ ResetPassword(r, u) \/ JoinByCode(r, u)
                           \/ CloseRoom(r, u) \/ CloseGeneral(r, u)
                           \/ \E name \in {"general", "other"} : RenameGeneral(r, u, name)
                           \/ \E others \in SUBSET Users : CreateRoom(r, u, others)
       \/ \E u, v \in Users : \/ InviteMember(r, u, v) \/ RemoveMember(r, u, v)
                              \/ AddToRoom(r, u, v) \/ TakeFromRoom(r, u, v)
                              \/ \E role \in {"member", "admin"} : ChangeRole(r, u, v, role)

Steps(r) ==
  \/ BreakOff(r)
  \/ SaveVerified(r) \/ FindInvites(r) \/ CheckWorkspace(r) \/ DeleteInvite(r)
  \/ LookUpAccount(r) \/ UpsertInvite(r) \/ LookForRow(r) \/ AddMember(r)
  \/ SetRole(r) \/ DropRow(r) \/ FindRooms(r) \/ PullFromRooms(r)
  \/ CountMembers(r) \/ InsertRoom(r) \/ CheckTarget(r) \/ AddToSet(r) \/ Take(r) \/ DeleteRoom(r)
  \/ SetName(r) \/ CheckName(r) \/ EraseGeneral(r)
  \/ InsertWorkspace(r) \/ InsertOwner(r) \/ InsertGeneral(r)
  \/ PurgeRows(r) \/ PurgeChannels(r) \/ PurgeWorkspace(r)

Next == Accounts \/ Sent \/ \E r \in Slots : Steps(r)
Spec == Init /\ [][Next]_vars

-----------------------------------------------------------------------------
(* Once nothing is in flight, whoever is in the private channel belongs to  *)
(* the workspace.  Two requests that cross can break that (a channel write  *)
(* that was checked before the removal), and so can a removal that breaks   *)
(* off: its retry is answered 404.                                          *)
InsidersOnly ==
  Quiet /\ room = "live" /\ ~ending =>
    \A u \in inside : Member(u) \/ u \in crossed \/ <<"remove", u>> \in half

(* An invitation ends when its address is verified: it was redeemed or its  *)
(* workspace is gone.  What stays behind was written too late, or its       *)
(* redemption broke off or lost to a second way in.                         *)
InviteHonoured ==
  Quiet => \A u \in invited :
    account[u] = "verified" => u \in late \cup collided \/ <<"redeem", u>> \in half

(* A workspace is complete until somebody deletes it: its owner is an admin *)
(* and it has #general, however it is renamed back and forth, or deleted    *)
(* under another name.  After the deletion neither members nor channels nor *)
(* the workspace are left, unless a request broke off or something was      *)
(* created meanwhile.  Invitations to it stay, until their addresses are    *)
(* verified (InviteHonoured).                                               *)
WholeOrGone ==
  /\ Quiet /\ ws = "live" /\ ~ending /\ <<"create", Owner>> \notin half =>
       Admin(Owner) /\ (general = "live" \/ renamed)
  /\ Quiet /\ ending /\ ~overtaken /\ <<"delete", Owner>> \notin half =>
       /\ ws = "gone" /\ general \notin {"live", "renamed"} /\ room # "live"
       /\ \A u \in Users : ~Member(u)
==============================================================================
