-------------------------- MODULE MembershipProofs --------------------------
(***************************************************************************)
(* Who is let in.  First one workspace through its life, for any number of *)
(* users and of requests that interleave await by await: its members, its  *)
(* private channel, its invitations, its creation and its deletion.  Then  *)
(* the cache in front of the membership: the cached set is right but for   *)
(* overlaps and failures, and never older than the TTL plus the time a     *)
(* call sits on what it read.  The two machines share nothing.             *)
(***************************************************************************)
EXTENDS Workspace, MembershipCache, TLAPS

-----------------------------------------------------------------------------
(* The workspace: its inductive invariant                                   *)

Requests == [kind : Kinds, at : Stages, by : Users, for : Users,
             what : SUBSET (Users \cup Parts \cup {"admin", "general"})]

(* A request is at a stage of its kind, and is about whom its kind is about.*)
Fit(q) ==
  /\ q.at \in {"workspace", "owner", "general"} <=> q.kind = "create"
  /\ q.at \in {"drop", "rooms", "pull"} <=> q.kind = "remove"
  /\ q.at \in {"save", "find", "check", "spent"} => q.kind = "redeem"
  /\ q.at = "role" <=> q.kind = "role"
  /\ q.at = "purge" <=> q.kind = "delete"
  /\ q.kind \in {"create", "delete"} => q.for = Owner
  /\ q.kind \in {"role", "remove"} => q.for # Owner
  /\ q.at \in {"count", "create"} => q.what \subseteq Users

Fits == \A r \in Slots : Fit(req[r])

(* Whoever deletes the workspace has begun to.                              *)
Begun == \A r \in Slots : At(r, "purge") => ending

(* Before the owner's row is there, nobody is in the workspace, and nobody  *)
(* but its creator has asked for anything but the proof of an address.      *)
Untouched ==
  /\ ~ending /\ room = "none" /\ invited = {}
  /\ \A u \in Users : ~Member(u)
  /\ \A r \in Slots : req[r].at \in {"idle", "save", "find", "workspace", "owner"}

Founding ==
  /\ \A r, s \in Slots : req[r].kind = "create" /\ req[s].kind = "create" => r = s
  /\ \A r \in Slots : At(r, "workspace") => ws = "none"
  /\ \A r \in Slots : At(r, "owner") => ws # "none" /\ Untouched
  /\ ws = "none" => Untouched

(* A channel write knows its users from a read of their rows: who has lost  *)
(* the row since is in crossed.                                             *)
Vouched(u) == Member(u) \/ u \in crossed
Checked ==
  \A r \in Slots : /\ At(r, "create") => \A u \in req[r].what : Vouched(u)
                   /\ At(r, "add") => Vouched(req[r].for)

(* Who is inside and has lost the row will be pulled out.                   *)
Removes(q) == q.at \in {"rooms", "pull"}
Removing(u) == \E r \in Slots : req[r].for = u /\ Removes(req[r])
Rooted ==
  room = "live" => \A u \in inside : Vouched(u) \/ <<"remove", u>> \in half \/ Removing(u)

(* An invitation of a verified address has its redemption under way.        *)
Redeems(q) == q.kind = "redeem" /\ q.at \in {"find", "check", "exists", "insert", "spent"}
Redeeming(u) == \E r \in Slots : req[r].for = u /\ Redeems(req[r])
Redeemed ==
  \A u \in invited : account[u] = "verified" =>
    u \in late \cup collided \/ <<"redeem", u>> \in half \/ Redeeming(u)

(* While the workspace is not being deleted, #general is only deleted after *)
(* it was given another name.                                               *)
Named ==
  /\ general = "renamed" => renamed
  /\ general = "gone" => renamed \/ ending
  /\ \A r \in Slots : /\ At(r, "name") => general # "none"
                      /\ At(r, "erase") => renamed \/ ending

(* What a live workspace still misses is being written.                     *)
Founded ==
  ws = "live" /\ ~ending /\ <<"create", Owner>> \notin half =>
    \/ Admin(Owner) /\ (general = "live" \/ renamed)
    \/ \E r \in Slots : At(r, "owner")
    \/ Admin(Owner) /\ \E r \in Slots : At(r, "general")

(* What is left of a workspace that is deleted is being deleted.            *)
Purges(q, part) == q.at = "purge" /\ part \in q.what
Left(part) == \E r \in Slots : Purges(req[r], part)
Purging ==
  ending /\ ~overtaken /\ <<"delete", Owner>> \notin half =>
    /\ Left("rows") \/ \A u \in Users : ~Member(u)
    /\ Left("channels") \/ (general \notin {"live", "renamed"} /\ room # "live")
    /\ Left("workspace") \/ ws = "gone"

(* A request is sent.                                                       *)
Others(r) == \A s \in Slots \ {r} : req'[s] = req[s]
Sending(r) ==
  /\ req[r] = Idle /\ req' \in [Slots -> Requests] /\ Others(r)
  /\ UNCHANGED <<account, place, private, faults, crossed, half, late, collided, overtaken, renamed>>
  /\ Fit(req'[r])
  /\ req'[r].at \in {"workspace", "save", "exists", "lookup", "role", "drop", "count", "target",
                     "take", "close", "rename", "name", "purge"}
  /\ req'[r].at = "name" => general # "none"
  /\ req'[r].at = "exists" => req'[r].kind # "redeem"
  /\ IF req'[r].at = "purge" THEN ending' /\ req'[r].what = Parts ELSE ending' = ending
  /\ req'[r].at = "workspace" => ws = "none" /\ \A s \in Slots : req[s].kind # "create"
  /\ req'[r].at \notin {"workspace", "save"} => ~Untouched

LEMMA IdleType == Idle \in Requests
BY OwnerAssumption DEF Idle, Requests, Kinds, Stages

(* The kinds of the requests, and where each of them starts.                *)
LEMMA RequestNames ==
  /\ "create" \in Kinds /\ "join" \in Kinds /\ "invite" \in Kinds
  /\ "redeem" \in Kinds /\ "role" \in Kinds /\ "remove" \in Kinds
  /\ "room" \in Kinds /\ "add" \in Kinds /\ "take" \in Kinds
  /\ "close" \in Kinds /\ "rename" \in Kinds /\ "delete" \in Kinds
  /\ "workspace" \in Stages /\ "exists" \in Stages /\ "lookup" \in Stages
  /\ "save" \in Stages /\ "role" \in Stages /\ "drop" \in Stages
  /\ "count" \in Stages /\ "target" \in Stages /\ "take" \in Stages
  /\ "close" \in Stages /\ "name" \in Stages /\ "rename" \in Stages
  /\ "purge" \in Stages
BY DEF Kinds, Stages

(* What the three ways to write the request table do to it.                 *)
LEMMA BeginEffect ==
  ASSUME TypeOK, NEW r \in Slots, NEW k \in Kinds, NEW at \in Stages,
         NEW by \in Users, NEW for \in Users,
         NEW what \in SUBSET (Users \cup Parts \cup {"admin", "general"}),
         Begin(r, k, at, by, for, what)
  PROVE  /\ req' \in [Slots -> Requests] /\ sent' \in 0..MaxRequests
         /\ req[r] = Idle
         /\ req'[r].kind = k /\ req'[r].at = at /\ req'[r].by = by
         /\ req'[r].for = for /\ req'[r].what = what
         /\ \A s \in Slots \ {r} : req'[s] = req[s]
<1>1. [kind |-> k, at |-> at, by |-> by, for |-> for, what |-> what] \in Requests
  BY DEF Requests
<1>2. req \in [Slots -> Requests]
  BY DEF TypeOK, Requests
<1>3. req' = [req EXCEPT ![r] = [kind |-> k, at |-> at, by |-> by, for |-> for, what |-> what]]
  BY DEF Begin
<1>4. sent' \in 0..MaxRequests
  BY LimitAssumption DEF Begin, TypeOK
<1> QED BY <1>1, <1>2, <1>3, <1>4 DEF Begin

LEMMA GoEffect ==
  ASSUME TypeOK, NEW r \in Slots, NEW next \in Stages, Go(r, next)
  PROVE  /\ req' \in [Slots -> Requests]
         /\ req'[r].at = next
         /\ req'[r].kind = req[r].kind /\ req'[r].by = req[r].by
         /\ req'[r].for = req[r].for /\ req'[r].what = req[r].what
         /\ \A s \in Slots \ {r} : req'[s] = req[s]
<1>1. req \in [Slots -> Requests]
  BY DEF TypeOK, Requests
<1>2. [req[r] EXCEPT !.at = next] \in Requests
  BY <1>1 DEF Requests
<1>3. req' = [req EXCEPT ![r] = [req[r] EXCEPT !.at = next]]
  BY DEF Go
<1> QED BY <1>1, <1>2, <1>3 DEF Requests

LEMMA AnswerEffect ==
  ASSUME TypeOK, NEW r \in Slots, Answer(r)
  PROVE  /\ req' \in [Slots -> Requests]
         /\ req'[r] = Idle
         /\ \A s \in Slots \ {r} : req'[s] = req[s]
BY IdleType DEF TypeOK, Answer, Requests

LEMMA PurgedEffect ==
  ASSUME TypeOK, NEW r \in Slots, NEW part \in Parts, Purged(r, part)
  PROVE  /\ req' \in [Slots -> Requests]
         /\ req[r].at = "purge" /\ part \in req[r].what
         /\ req[r].what = {part} => req'[r] = Idle
         /\ req[r].what # {part} =>
              /\ req'[r].at = "purge" /\ req'[r].what = req[r].what \ {part}
              /\ req'[r].kind = req[r].kind /\ req'[r].for = req[r].for
         /\ \A s \in Slots \ {r} : req'[s] = req[s]
<1>1. req \in [Slots -> Requests]
  BY DEF TypeOK, Requests
<1>2. [req[r] EXCEPT !.what = @ \ {part}] \in Requests
  BY <1>1 DEF Requests
<1>3. CASE req[r].what = {part}
  BY <1>3, AnswerEffect DEF Purged, At
<1>4. CASE req[r].what # {part}
  BY <1>1, <1>2, <1>4 DEF Purged, At, Requests
<1> QED BY <1>3, <1>4

LEMMA AccountsEffect ==
  ASSUME TypeOK, Accounts
  PROVE  /\ UNCHANGED <<place, private, req, faults, history>>
         /\ \A u \in Users : account'[u] = "verified" => account[u] = "verified"
BY DEF Accounts, Register, ForgotPassword, ResendVerification, TypeOK

LEMMA SentEffect ==
  ASSUME TypeOK, Sent
  PROVE  (\E u, v \in Users : WithdrawInvite(u, v)) \/ \E r \in Slots : Sending(r)
<1>1. ASSUME NEW r \in Slots, CreateWorkspace(r) PROVE Sending(r)
  <2>1. /\ req[r] = Idle /\ req' \in [Slots -> Requests] /\ Others(r)
        /\ req'[r].kind = "create" /\ req'[r].at = "workspace"
        /\ req'[r].for = Owner /\ req'[r].what = {}
    BY <1>1, BeginEffect, OwnerAssumption, RequestNames DEF CreateWorkspace, Others
  <2> QED BY <1>1, <2>1 DEF CreateWorkspace, Sending, Fit, people, history
<1>2. ASSUME NEW r \in Slots, DeleteWorkspace(r) PROVE Sending(r)
  <2>1. /\ req[r] = Idle /\ req' \in [Slots -> Requests] /\ Others(r)
        /\ req'[r].kind = "delete" /\ req'[r].at = "purge"
        /\ req'[r].for = Owner /\ req'[r].what = Parts
    <3>1. Begin(r, "delete", "purge", Owner, Owner, Parts)
      BY <1>2 DEF DeleteWorkspace
    <3>2. Parts \in SUBSET (Users \cup Parts \cup {"admin", "general"})
      OBVIOUS
    <3> QED BY <3>1, <3>2, BeginEffect, RequestNames, OwnerAssumption DEF Others
  <2>2. ~Untouched
    BY <1>2, OwnerAssumption DEF DeleteWorkspace, Untouched, Admin, Member, Sees, Manages
  <2> QED BY <1>2, <2>1, <2>2 DEF DeleteWorkspace, Sending, Fit, people, history, Parts
<1>3. ASSUME NEW r \in Slots, NEW u \in Users, VerifyEmail(r, u) PROVE Sending(r)
  <2>1. /\ req[r] = Idle /\ req' \in [Slots -> Requests] /\ Others(r)
        /\ req'[r].kind = "redeem" /\ req'[r].at = "save" /\ req'[r].for = u /\ req'[r].what = {}
    BY <1>3, BeginEffect, RequestNames DEF VerifyEmail, Others, UseLink
  <2> QED BY <1>3, <2>1 DEF VerifyEmail, Sending, Fit, people, history, UseLink
<1>4. ASSUME NEW r \in Slots, NEW u \in Users, ResetPassword(r, u) PROVE Sending(r)
  <2>1. /\ req[r] = Idle /\ req' \in [Slots -> Requests] /\ Others(r)
        /\ req'[r].kind = "redeem" /\ req'[r].at = "save" /\ req'[r].for = u /\ req'[r].what = {}
    BY <1>4, BeginEffect, RequestNames DEF ResetPassword, Others, UseLink
  <2> QED BY <1>4, <2>1 DEF ResetPassword, Sending, Fit, people, history, UseLink
<1>5. ASSUME NEW r \in Slots, NEW u \in Users, JoinByCode(r, u) PROVE Sending(r)
  <2>1. /\ req[r] = Idle /\ req' \in [Slots -> Requests] /\ Others(r)
        /\ req'[r].kind = "join" /\ req'[r].at = "exists" /\ req'[r].for = u /\ req'[r].what = {}
    BY <1>5, BeginEffect, RequestNames DEF JoinByCode, Others
  <2>2. ~Untouched
    BY <1>5, OwnerAssumption DEF JoinByCode, Untouched, Admin, Member, Sees, Manages
  <2> QED BY <1>5, <2>1, <2>2 DEF JoinByCode, Sending, Fit, people, history
<1>6. ASSUME NEW r \in Slots, NEW u \in Users, CloseRoom(r, u) PROVE Sending(r)
  <2>1. /\ req[r] = Idle /\ req' \in [Slots -> Requests] /\ Others(r)
        /\ req'[r].kind = "close" /\ req'[r].at = "close" /\ req'[r].for = u /\ req'[r].what = {}
    BY <1>6, BeginEffect, RequestNames DEF CloseRoom, Others
  <2>2. ~Untouched
    BY <1>6, OwnerAssumption DEF CloseRoom, Untouched, Admin, Member, Sees, Manages
  <2> QED BY <1>6, <2>1, <2>2 DEF CloseRoom, Sending, Fit, people, history
<1>7. ASSUME NEW r \in Slots, NEW u \in Users, NEW others \in SUBSET Users, CreateRoom(r, u,
             others)
      PROVE  Sending(r)
  <2>1. /\ req[r] = Idle /\ req' \in [Slots -> Requests] /\ Others(r)
        /\ req'[r].kind = "room" /\ req'[r].at = "count"
        /\ req'[r].for = u /\ req'[r].what = {u} \cup others
    BY <1>7, BeginEffect, RequestNames DEF CreateRoom, Others
  <2>2. ~Untouched
    BY <1>7, OwnerAssumption DEF CreateRoom, Untouched, Admin, Member, Sees, Manages
  <2> QED BY <1>7, <2>1, <2>2 DEF CreateRoom, Sending, Fit, people, history
<1>8. ASSUME NEW r \in Slots, NEW u \in Users, NEW v \in Users, InviteMember(r, u, v)
      PROVE  Sending(r)
  <2>1. /\ req[r] = Idle /\ req' \in [Slots -> Requests] /\ Others(r)
        /\ req'[r].kind = "invite" /\ req'[r].at = "lookup"
        /\ req'[r].for = v /\ req'[r].what = {}
    BY <1>8, BeginEffect, RequestNames DEF InviteMember, Others
  <2>2. ~Untouched
    BY <1>8, OwnerAssumption DEF InviteMember, Untouched, Admin, Member, Sees, Manages
  <2> QED BY <1>8, <2>1, <2>2 DEF InviteMember, Sending, Fit, people, history
<1>9. ASSUME NEW r \in Slots, NEW u \in Users, NEW v \in Users, RemoveMember(r, u, v)
      PROVE  Sending(r)
  <2>1. /\ req[r] = Idle /\ req' \in [Slots -> Requests] /\ Others(r)
        /\ req'[r].kind = "remove" /\ req'[r].at = "drop" /\ req'[r].for = v /\ req'[r].what = {}
    BY <1>9, BeginEffect, RequestNames DEF RemoveMember, Others
  <2>2. ~Untouched
    BY <1>9, OwnerAssumption DEF RemoveMember, Untouched, Admin, Member, Sees, Manages
  <2> QED BY <1>9, <2>1, <2>2 DEF RemoveMember, Sending, Fit, people, history
<1>10. ASSUME NEW r \in Slots, NEW u \in Users, NEW v \in Users, AddToRoom(r, u, v)
       PROVE  Sending(r)
  <2>1. /\ req[r] = Idle /\ req' \in [Slots -> Requests] /\ Others(r)
        /\ req'[r].kind = "add" /\ req'[r].at = "target" /\ req'[r].for = v /\ req'[r].what = {}
    BY <1>10, BeginEffect, RequestNames DEF AddToRoom, Others
  <2>2. ~Untouched
    BY <1>10, OwnerAssumption DEF AddToRoom, Untouched, Admin, Member, Sees, Manages
  <2> QED BY <1>10, <2>1, <2>2 DEF AddToRoom, Sending, Fit, people, history
<1>11. ASSUME NEW r \in Slots, NEW u \in Users, NEW v \in Users, TakeFromRoom(r, u, v)
       PROVE  Sending(r)
  <2>1. /\ req[r] = Idle /\ req' \in [Slots -> Requests] /\ Others(r)
        /\ req'[r].kind = "take" /\ req'[r].at = "take" /\ req'[r].for = v /\ req'[r].what = {}
    BY <1>11, BeginEffect, RequestNames DEF TakeFromRoom, Others
  <2>2. ~Untouched
    BY <1>11, OwnerAssumption DEF TakeFromRoom, Untouched, Admin, Member, Sees, Manages
  <2> QED BY <1>11, <2>1, <2>2 DEF TakeFromRoom, Sending, Fit, people, history
<1>12. ASSUME NEW r \in Slots, NEW u \in Users, NEW v \in Users, NEW role \in {"member",
              "admin"}, ChangeRole(r, u, v, role)
       PROVE  Sending(r)
  <2>1. /\ req[r] = Idle /\ req' \in [Slots -> Requests] /\ Others(r)
        /\ req'[r].kind = "role" /\ req'[r].at = "role"
        /\ req'[r].for = v /\ req'[r].what = {role} \cap {"admin"}
    BY <1>12, BeginEffect, RequestNames DEF ChangeRole, Others
  <2>2. ~Untouched
    BY <1>12, OwnerAssumption DEF ChangeRole, Untouched, Admin, Member, Sees, Manages
  <2> QED BY <1>12, <2>1, <2>2 DEF ChangeRole, Sending, Fit, people, history
<1>13. ASSUME NEW r \in Slots, NEW u \in Users, CloseGeneral(r, u) PROVE Sending(r)
  <2>1. /\ req[r] = Idle /\ req' \in [Slots -> Requests] /\ Others(r)
        /\ req'[r].kind = "close" /\ req'[r].at = "name" /\ req'[r].for = u /\ req'[r].what = {}
    BY <1>13, BeginEffect, RequestNames DEF CloseGeneral, Others
  <2>2. ~Untouched /\ general # "none"
    BY <1>13 DEF CloseGeneral, ManagesGeneral, Untouched
  <2> QED BY <1>13, <2>1, <2>2 DEF CloseGeneral, Sending, Fit, people, history
<1>14. ASSUME NEW r \in Slots, NEW u \in Users, NEW name \in {"general", "other"},
              RenameGeneral(r, u, name)
       PROVE  Sending(r)
  <2>1. /\ req[r] = Idle /\ req' \in [Slots -> Requests] /\ Others(r)
        /\ req'[r].kind = "rename" /\ req'[r].at = "rename"
        /\ req'[r].for = u /\ req'[r].what = {name} \cap {"general"}
    BY <1>14, BeginEffect, RequestNames DEF RenameGeneral, Others
  <2>2. ~Untouched
    BY <1>14 DEF RenameGeneral, ManagesGeneral, Untouched
  <2> QED BY <1>14, <2>1, <2>2 DEF RenameGeneral, Sending, Fit, people, history
<1> QED BY <1>1, <1>2, <1>3, <1>4, <1>5, <1>6, <1>7, <1>8, <1>9, <1>10, <1>11, <1>12, <1>13,
    <1>14 DEF Sent

LEMMA FitFrame ==
  ASSUME Fits, NEW r \in Slots, Fit(req'[r]), \A s \in Slots \ {r} : req'[s] = req[s]
  PROVE  Fits'
BY DEF Fits

LEMMA IdleFits == Fit(Idle)
BY DEF Fit, Idle

LEMMA PurgedFits ==
  ASSUME TypeOK, Fits, NEW r \in Slots, NEW part \in Parts, Purged(r, part)
  PROVE  Fits'
<1>1. CASE req[r].what = {part}
  BY <1>1, PurgedEffect, IdleFits, FitFrame
<1>2. CASE req[r].what # {part}
  <2>1. Fit(req'[r])
    BY <1>2, PurgedEffect DEF Fits, Fit
  <2> QED BY <2>1, PurgedEffect, FitFrame
<1> QED BY <1>1, <1>2

LEMMA FitsStep ==
  ASSUME TypeOK, Fits, [Next]_vars
  PROVE  Fits'
<1>1. CASE UNCHANGED vars
  BY <1>1 DEF vars, people, place, private, history, Fits, Fit
<1>2. ASSUME Accounts PROVE Fits'
  BY <1>2, AccountsEffect DEF Fits
<1>3. ASSUME NEW u \in Users, NEW v \in Users, WithdrawInvite(u, v) PROVE Fits'
  BY <1>3 DEF WithdrawInvite, Fits
<1>4. ASSUME NEW r \in Slots, Sending(r) PROVE Fits'
  BY <1>4, FitFrame DEF Sending, Others
<1>5. ASSUME NEW r \in Slots, BreakOff(r) PROVE Fits'
  BY <1>5, AnswerEffect DEF BreakOff, Idle, At, people, place, private, Fits, Fit
<1>6. ASSUME NEW r \in Slots, SaveVerified(r) PROVE Fits'
  BY <1>6, GoEffect DEF SaveVerified, Stages, At, place, private, history, Fits, Fit
<1>7. ASSUME NEW r \in Slots, FindInvites(r) PROVE Fits'
  BY <1>7, GoEffect, AnswerEffect DEF FindInvites, Stages, Idle, At, people, place, private,
      history, Fits, Fit
<1>8. ASSUME NEW r \in Slots, CheckWorkspace(r) PROVE Fits'
  BY <1>8, GoEffect DEF CheckWorkspace, Stages, At, people, place, private, history, Fits, Fit
<1>9. ASSUME NEW r \in Slots, DeleteInvite(r) PROVE Fits'
  BY <1>9, AnswerEffect DEF DeleteInvite, Idle, At, people, private, history, Fits, Fit
<1>10. ASSUME NEW r \in Slots, LookUpAccount(r) PROVE Fits'
  BY <1>10, GoEffect DEF LookUpAccount, Stages, At, people, place, private, history, Fits, Fit
<1>11. ASSUME NEW r \in Slots, UpsertInvite(r) PROVE Fits'
  BY <1>11, AnswerEffect DEF UpsertInvite, Idle, At, people, private, Fits, Fit
<1>12. ASSUME NEW r \in Slots, LookForRow(r) PROVE Fits'
  BY <1>12, GoEffect, AnswerEffect DEF LookForRow, Stages, Idle, At, people, place, private,
      history, Fits, Fit
<1>13. ASSUME NEW r \in Slots, AddMember(r) PROVE Fits'
  BY <1>13, GoEffect, AnswerEffect DEF AddMember, Stages, Idle, At, people, private, Fits, Fit
<1>14. ASSUME NEW r \in Slots, SetRole(r) PROVE Fits'
  BY <1>14, AnswerEffect DEF SetRole, Idle, At, people, private, history, Fits, Fit
<1>15. ASSUME NEW r \in Slots, DropRow(r) PROVE Fits'
  BY <1>15, GoEffect, AnswerEffect DEF DropRow, Stages, Idle, At, people, private, Fits, Fit
<1>16. ASSUME NEW r \in Slots, FindRooms(r) PROVE Fits'
  BY <1>16, GoEffect, AnswerEffect DEF FindRooms, Stages, Idle, At, people, place, private,
      history, Fits, Fit
<1>17. ASSUME NEW r \in Slots, PullFromRooms(r) PROVE Fits'
  BY <1>17, AnswerEffect DEF PullFromRooms, Idle, At, people, place, history, Fits, Fit
<1>18. ASSUME NEW r \in Slots, CountMembers(r) PROVE Fits'
  BY <1>18, GoEffect, AnswerEffect DEF CountMembers, Stages, Idle, At, people, place, private,
      history, Fits, Fit
<1>19. ASSUME NEW r \in Slots, InsertRoom(r) PROVE Fits'
  BY <1>19, AnswerEffect DEF InsertRoom, Idle, At, private, people, place, Fits, Fit
<1>20. ASSUME NEW r \in Slots, CheckTarget(r) PROVE Fits'
  BY <1>20, GoEffect, AnswerEffect DEF CheckTarget, Stages, Idle, At, people, place, private,
      history, Fits, Fit
<1>21. ASSUME NEW r \in Slots, AddToSet(r) PROVE Fits'
  BY <1>21, AnswerEffect DEF AddToSet, Idle, At, people, place, history, Fits, Fit
<1>22. ASSUME NEW r \in Slots, Take(r) PROVE Fits'
  BY <1>22, AnswerEffect DEF Take, Idle, At, people, place, history, Fits, Fit
<1>23. ASSUME NEW r \in Slots, DeleteRoom(r) PROVE Fits'
  BY <1>23, AnswerEffect DEF DeleteRoom, Idle, At, people, place, history, Fits, Fit
<1>24. ASSUME NEW r \in Slots, InsertWorkspace(r) PROVE Fits'
  BY <1>24, GoEffect DEF InsertWorkspace, Stages, At, people, private, history, Fits, Fit
<1>25. ASSUME NEW r \in Slots, InsertOwner(r) PROVE Fits'
  BY <1>25, GoEffect DEF InsertOwner, Stages, At, people, private, history, Fits, Fit
<1>26. ASSUME NEW r \in Slots, InsertGeneral(r) PROVE Fits'
  BY <1>26, AnswerEffect DEF InsertGeneral, Idle, At, people, private, Fits, Fit
<1>27. ASSUME NEW r \in Slots, PurgeRows(r) PROVE Fits'
  BY <1>27, PurgedFits DEF PurgeRows, Parts
<1>28. ASSUME NEW r \in Slots, PurgeChannels(r) PROVE Fits'
  BY <1>28, PurgedFits DEF PurgeChannels, Parts
<1>29. ASSUME NEW r \in Slots, PurgeWorkspace(r) PROVE Fits'
  BY <1>29, PurgedFits DEF PurgeWorkspace, Parts
<1>30. ASSUME NEW r \in Slots, SetName(r) PROVE Fits'
  BY <1>30, AnswerEffect DEF SetName, Idle, At, people, private, Fits, Fit
<1>31. ASSUME NEW r \in Slots, CheckName(r) PROVE Fits'
  BY <1>31, GoEffect, AnswerEffect DEF CheckName, Stages, Idle, At, people, place, private,
      history, Fits, Fit
<1>32. ASSUME NEW r \in Slots, EraseGeneral(r) PROVE Fits'
  BY <1>32, AnswerEffect DEF EraseGeneral, Idle, At, people, private, history, Fits, Fit
<1> QED BY <1>1, <1>2, <1>3, <1>4, <1>5, <1>6, <1>7, <1>8, <1>9, <1>10, <1>11, <1>12, <1>13,
    <1>14, <1>15, <1>16, <1>17, <1>18, <1>19, <1>20, <1>21, <1>22, <1>23, <1>24, <1>25, <1>26,
    <1>27, <1>28, <1>29, <1>30, <1>31, <1>32, SentEffect DEF Next, Steps

LEMMA Counted ==
  ASSUME NEW n, NEW max \in Nat, n \in 0..max, n < max
  PROVE  n + 1 \in 0..max
OBVIOUS

(* A request is sent: nothing else changes, but for the links or ending.    *)
LEMMA SentType ==
  ASSUME TypeOK, req' \in [Slots -> Requests], sent' \in 0..MaxRequests,
         UNCHANGED <<account, place, private, faults, crossed, half, late, collided, overtaken, renamed>>,
         links' \in [Users -> SUBSET {"verify", "reset"}], ending' \in BOOLEAN
  PROVE  TypeOK'
BY DEF TypeOK, Requests, place, private

LEMMA TypeStep ==
  ASSUME TypeOK, Fits, [Next]_vars
  PROVE  TypeOK'
<1>1. CASE UNCHANGED vars
  BY <1>1 DEF vars, people, place, private, history, TypeOK
<1>2. ASSUME NEW u \in Users, Register(u) PROVE TypeOK'
  BY <1>2 DEF Register, TypeOK, place, private, history
<1>3. ASSUME NEW u \in Users, ForgotPassword(u) PROVE TypeOK'
  <2>1. sent' \in 0..MaxRequests
    BY <1>3, Counted, LimitAssumption DEF ForgotPassword, TypeOK
  <2> QED BY <1>3, <2>1 DEF ForgotPassword, TypeOK, people, place, private, history
<1>4. ASSUME NEW u \in Users, ResendVerification(u) PROVE TypeOK'
  <2>1. sent' \in 0..MaxRequests
    BY <1>4, Counted, LimitAssumption DEF ResendVerification, TypeOK
  <2> QED BY <1>4, <2>1 DEF ResendVerification, TypeOK, people, place, private, history
<1>5. ASSUME NEW u \in Users, NEW v \in Users, WithdrawInvite(u, v) PROVE TypeOK'
  <2>1. sent' \in 0..MaxRequests
    BY <1>5, Counted, LimitAssumption DEF WithdrawInvite, TypeOK
  <2> QED BY <1>5, <2>1 DEF WithdrawInvite, TypeOK, people, place, private, history
<1>6. ASSUME NEW r \in Slots, CreateWorkspace(r) PROVE TypeOK'
  <2>1. req' \in [Slots -> Requests] /\ sent' \in 0..MaxRequests
    BY <1>6, BeginEffect, OwnerAssumption, RequestNames DEF CreateWorkspace
  <2>2. links' \in [Users -> SUBSET {"verify", "reset"}] /\ ending' \in BOOLEAN
    BY <1>6 DEF CreateWorkspace, TypeOK, people, history
  <2> QED BY <1>6, <2>1, <2>2, SentType DEF CreateWorkspace, people, history
<1>7. ASSUME NEW r \in Slots, DeleteWorkspace(r) PROVE TypeOK'
  <2>1. req' \in [Slots -> Requests] /\ sent' \in 0..MaxRequests
    BY <1>7, BeginEffect, OwnerAssumption, RequestNames DEF DeleteWorkspace, Parts
  <2>2. links' \in [Users -> SUBSET {"verify", "reset"}] /\ ending' \in BOOLEAN
    BY <1>7 DEF DeleteWorkspace, TypeOK, people, history
  <2> QED BY <1>7, <2>1, <2>2, SentType DEF DeleteWorkspace, people, history
<1>8. ASSUME NEW r \in Slots, NEW u \in Users, VerifyEmail(r, u) PROVE TypeOK'
  <2>1. req' \in [Slots -> Requests] /\ sent' \in 0..MaxRequests
    BY <1>8, BeginEffect, RequestNames DEF VerifyEmail, UseLink
  <2>2. links' \in [Users -> SUBSET {"verify", "reset"}]
    BY <1>8 DEF VerifyEmail, UseLink, TypeOK
  <2> QED BY <1>8, <2>1, <2>2, SentType DEF VerifyEmail, UseLink, history, TypeOK
<1>9. ASSUME NEW r \in Slots, NEW u \in Users, ResetPassword(r, u) PROVE TypeOK'
  <2>1. req' \in [Slots -> Requests] /\ sent' \in 0..MaxRequests
    BY <1>9, BeginEffect, RequestNames DEF ResetPassword, UseLink
  <2>2. links' \in [Users -> SUBSET {"verify", "reset"}]
    BY <1>9 DEF ResetPassword, UseLink, TypeOK
  <2> QED BY <1>9, <2>1, <2>2, SentType DEF ResetPassword, UseLink, history, TypeOK
<1>10. ASSUME NEW r \in Slots, NEW u \in Users, JoinByCode(r, u) PROVE TypeOK'
  <2>1. req' \in [Slots -> Requests] /\ sent' \in 0..MaxRequests
    BY <1>10, BeginEffect, RequestNames DEF JoinByCode
  <2>2. links' \in [Users -> SUBSET {"verify", "reset"}] /\ ending' \in BOOLEAN
    BY <1>10 DEF JoinByCode, TypeOK, people, history
  <2> QED BY <1>10, <2>1, <2>2, SentType DEF JoinByCode, people, history
<1>11. ASSUME NEW r \in Slots, NEW u \in Users, CloseRoom(r, u) PROVE TypeOK'
  <2>1. req' \in [Slots -> Requests] /\ sent' \in 0..MaxRequests
    BY <1>11, BeginEffect, RequestNames DEF CloseRoom
  <2>2. links' \in [Users -> SUBSET {"verify", "reset"}] /\ ending' \in BOOLEAN
    BY <1>11 DEF CloseRoom, TypeOK, people, history
  <2> QED BY <1>11, <2>1, <2>2, SentType DEF CloseRoom, people, history
<1>12. ASSUME NEW r \in Slots, NEW u \in Users, NEW others \in SUBSET Users, CreateRoom(r, u,
              others)
       PROVE  TypeOK'
  <2>1. req' \in [Slots -> Requests] /\ sent' \in 0..MaxRequests
    BY <1>12, BeginEffect, RequestNames DEF CreateRoom
  <2>2. links' \in [Users -> SUBSET {"verify", "reset"}] /\ ending' \in BOOLEAN
    BY <1>12 DEF CreateRoom, TypeOK, people, history
  <2> QED BY <1>12, <2>1, <2>2, SentType DEF CreateRoom, people, history
<1>13. ASSUME NEW r \in Slots, NEW u \in Users, NEW v \in Users, InviteMember(r, u, v)
       PROVE  TypeOK'
  <2>1. req' \in [Slots -> Requests] /\ sent' \in 0..MaxRequests
    BY <1>13, BeginEffect, RequestNames DEF InviteMember
  <2>2. links' \in [Users -> SUBSET {"verify", "reset"}] /\ ending' \in BOOLEAN
    BY <1>13 DEF InviteMember, TypeOK, people, history
  <2> QED BY <1>13, <2>1, <2>2, SentType DEF InviteMember, people, history
<1>14. ASSUME NEW r \in Slots, NEW u \in Users, NEW v \in Users, RemoveMember(r, u, v)
       PROVE  TypeOK'
  <2>1. req' \in [Slots -> Requests] /\ sent' \in 0..MaxRequests
    BY <1>14, BeginEffect, RequestNames DEF RemoveMember
  <2>2. links' \in [Users -> SUBSET {"verify", "reset"}] /\ ending' \in BOOLEAN
    BY <1>14 DEF RemoveMember, TypeOK, people, history
  <2> QED BY <1>14, <2>1, <2>2, SentType DEF RemoveMember, people, history
<1>15. ASSUME NEW r \in Slots, NEW u \in Users, NEW v \in Users, AddToRoom(r, u, v) PROVE TypeOK'
  <2>1. req' \in [Slots -> Requests] /\ sent' \in 0..MaxRequests
    BY <1>15, BeginEffect, RequestNames DEF AddToRoom
  <2>2. links' \in [Users -> SUBSET {"verify", "reset"}] /\ ending' \in BOOLEAN
    BY <1>15 DEF AddToRoom, TypeOK, people, history
  <2> QED BY <1>15, <2>1, <2>2, SentType DEF AddToRoom, people, history
<1>16. ASSUME NEW r \in Slots, NEW u \in Users, NEW v \in Users, TakeFromRoom(r, u, v)
       PROVE  TypeOK'
  <2>1. req' \in [Slots -> Requests] /\ sent' \in 0..MaxRequests
    BY <1>16, BeginEffect, RequestNames DEF TakeFromRoom
  <2>2. links' \in [Users -> SUBSET {"verify", "reset"}] /\ ending' \in BOOLEAN
    BY <1>16 DEF TakeFromRoom, TypeOK, people, history
  <2> QED BY <1>16, <2>1, <2>2, SentType DEF TakeFromRoom, people, history
<1>17. ASSUME NEW r \in Slots, NEW u \in Users, NEW v \in Users, NEW role \in {"member",
              "admin"}, ChangeRole(r, u, v, role)
       PROVE  TypeOK'
  <2>1. req' \in [Slots -> Requests] /\ sent' \in 0..MaxRequests
    BY <1>17, BeginEffect, RequestNames DEF ChangeRole
  <2>2. links' \in [Users -> SUBSET {"verify", "reset"}] /\ ending' \in BOOLEAN
    BY <1>17 DEF ChangeRole, TypeOK, people, history
  <2> QED BY <1>17, <2>1, <2>2, SentType DEF ChangeRole, people, history
<1>18. ASSUME NEW r \in Slots, BreakOff(r) PROVE TypeOK'
  <2>1. req' \in [Slots -> Requests] /\ faults' \in 0..MaxFaults
    BY <1>18, AnswerEffect, Counted, LimitAssumption DEF BreakOff, TypeOK
  <2> QED BY <1>18, <2>1 DEF BreakOff, TypeOK, Requests, people, place, private
<1>19. ASSUME NEW r \in Slots, SaveVerified(r) PROVE TypeOK'
  <2>1. req' \in [Slots -> Requests]
    BY <1>19, GoEffect, AnswerEffect DEF SaveVerified, Stages
  <2> QED BY <1>19, <2>1, OwnerAssumption DEF SaveVerified, TypeOK, Requests, people, place,
      private, history, Life, Roles, Parts
<1>20. ASSUME NEW r \in Slots, FindInvites(r) PROVE TypeOK'
  <2>1. req' \in [Slots -> Requests]
    BY <1>20, GoEffect, AnswerEffect DEF FindInvites, Stages
  <2> QED BY <1>20, <2>1, OwnerAssumption DEF FindInvites, TypeOK, Requests, people, place,
      private, history, Life, Roles, Parts
<1>21. ASSUME NEW r \in Slots, CheckWorkspace(r) PROVE TypeOK'
  <2>1. req' \in [Slots -> Requests]
    BY <1>21, GoEffect, AnswerEffect DEF CheckWorkspace, Stages
  <2> QED BY <1>21, <2>1, OwnerAssumption DEF CheckWorkspace, TypeOK, Requests, people, place,
      private, history, Life, Roles, Parts
<1>22. ASSUME NEW r \in Slots, DeleteInvite(r) PROVE TypeOK'
  <2>1. req' \in [Slots -> Requests]
    BY <1>22, GoEffect, AnswerEffect DEF DeleteInvite, Stages
  <2> QED BY <1>22, <2>1, OwnerAssumption DEF DeleteInvite, TypeOK, Requests, people, place,
      private, history, Life, Roles, Parts
<1>23. ASSUME NEW r \in Slots, LookUpAccount(r) PROVE TypeOK'
  <2>1. req' \in [Slots -> Requests]
    BY <1>23, GoEffect, AnswerEffect DEF LookUpAccount, Stages
  <2> QED BY <1>23, <2>1, OwnerAssumption DEF LookUpAccount, TypeOK, Requests, people, place,
      private, history, Life, Roles, Parts
<1>24. ASSUME NEW r \in Slots, UpsertInvite(r) PROVE TypeOK'
  <2>1. req' \in [Slots -> Requests]
    BY <1>24, GoEffect, AnswerEffect DEF UpsertInvite, Stages
  <2> QED BY <1>24, <2>1, OwnerAssumption DEF UpsertInvite, TypeOK, Requests, people, place,
      private, history, Life, Roles, Parts
<1>25. ASSUME NEW r \in Slots, LookForRow(r) PROVE TypeOK'
  <2>1. req' \in [Slots -> Requests]
    BY <1>25, GoEffect, AnswerEffect DEF LookForRow, Stages
  <2> QED BY <1>25, <2>1, OwnerAssumption DEF LookForRow, TypeOK, Requests, people, place,
      private, history, Life, Roles, Parts
<1>26. ASSUME NEW r \in Slots, AddMember(r) PROVE TypeOK'
  <2>1. req' \in [Slots -> Requests]
    BY <1>26, GoEffect, AnswerEffect DEF AddMember, Stages
  <2> QED BY <1>26, <2>1, OwnerAssumption DEF AddMember, TypeOK, Requests, people, place, private,
      history, Life, Roles, Parts
<1>27. ASSUME NEW r \in Slots, SetRole(r) PROVE TypeOK'
  <2>1. req' \in [Slots -> Requests]
    BY <1>27, GoEffect, AnswerEffect DEF SetRole, Stages
  <2> QED BY <1>27, <2>1, OwnerAssumption DEF SetRole, TypeOK, Requests, people, place, private,
      history, Life, Roles, Parts
<1>28. ASSUME NEW r \in Slots, DropRow(r) PROVE TypeOK'
  <2>1. req' \in [Slots -> Requests]
    BY <1>28, GoEffect, AnswerEffect DEF DropRow, Stages
  <2> QED BY <1>28, <2>1, OwnerAssumption DEF DropRow, TypeOK, Requests, people, place, private,
      history, Life, Roles, Parts
<1>29. ASSUME NEW r \in Slots, FindRooms(r) PROVE TypeOK'
  <2>1. req' \in [Slots -> Requests]
    BY <1>29, GoEffect, AnswerEffect DEF FindRooms, Stages
  <2> QED BY <1>29, <2>1, OwnerAssumption DEF FindRooms, TypeOK, Requests, people, place, private,
      history, Life, Roles, Parts
<1>30. ASSUME NEW r \in Slots, PullFromRooms(r) PROVE TypeOK'
  <2>1. req' \in [Slots -> Requests]
    BY <1>30, GoEffect, AnswerEffect DEF PullFromRooms, Stages
  <2> QED BY <1>30, <2>1, OwnerAssumption DEF PullFromRooms, TypeOK, Requests, people, place,
      private, history, Life, Roles, Parts
<1>31. ASSUME NEW r \in Slots, CountMembers(r) PROVE TypeOK'
  <2>1. req' \in [Slots -> Requests]
    BY <1>31, GoEffect, AnswerEffect DEF CountMembers, Stages
  <2> QED BY <1>31, <2>1, OwnerAssumption DEF CountMembers, TypeOK, Requests, people, place,
      private, history, Life, Roles, Parts
<1>32. ASSUME NEW r \in Slots, InsertRoom(r) PROVE TypeOK'
  <2>1. req' \in [Slots -> Requests]
    BY <1>32, AnswerEffect DEF InsertRoom
  <2>2. req[r].what \subseteq Users /\ req[r].by \in Users
    BY <1>32 DEF InsertRoom, At, Fits, Fit, TypeOK
  <2> QED BY <1>32, <2>1, <2>2 DEF InsertRoom, TypeOK, Requests, people, place, private, Life
<1>33. ASSUME NEW r \in Slots, CheckTarget(r) PROVE TypeOK'
  <2>1. req' \in [Slots -> Requests]
    BY <1>33, GoEffect, AnswerEffect DEF CheckTarget, Stages
  <2> QED BY <1>33, <2>1, OwnerAssumption DEF CheckTarget, TypeOK, Requests, people, place,
      private, history, Life, Roles, Parts
<1>34. ASSUME NEW r \in Slots, AddToSet(r) PROVE TypeOK'
  <2>1. req' \in [Slots -> Requests]
    BY <1>34, GoEffect, AnswerEffect DEF AddToSet, Stages
  <2> QED BY <1>34, <2>1, OwnerAssumption DEF AddToSet, TypeOK, Requests, people, place, private,
      history, Life, Roles, Parts
<1>35. ASSUME NEW r \in Slots, Take(r) PROVE TypeOK'
  <2>1. req' \in [Slots -> Requests]
    BY <1>35, GoEffect, AnswerEffect DEF Take, Stages
  <2> QED BY <1>35, <2>1, OwnerAssumption DEF Take, TypeOK, Requests, people, place, private,
      history, Life, Roles, Parts
<1>36. ASSUME NEW r \in Slots, DeleteRoom(r) PROVE TypeOK'
  <2>1. req' \in [Slots -> Requests]
    BY <1>36, GoEffect, AnswerEffect DEF DeleteRoom, Stages
  <2> QED BY <1>36, <2>1, OwnerAssumption DEF DeleteRoom, TypeOK, Requests, people, place,
      private, history, Life, Roles, Parts, Deleted
<1>37. ASSUME NEW r \in Slots, InsertWorkspace(r) PROVE TypeOK'
  <2>1. req' \in [Slots -> Requests]
    BY <1>37, GoEffect, AnswerEffect DEF InsertWorkspace, Stages
  <2> QED BY <1>37, <2>1, OwnerAssumption DEF InsertWorkspace, TypeOK, Requests, people, place,
      private, history, Life, Roles, Parts
<1>38. ASSUME NEW r \in Slots, InsertOwner(r) PROVE TypeOK'
  <2>1. req' \in [Slots -> Requests]
    BY <1>38, GoEffect, AnswerEffect DEF InsertOwner, Stages
  <2> QED BY <1>38, <2>1, OwnerAssumption DEF InsertOwner, TypeOK, Requests, people, place,
      private, history, Life, Roles, Parts
<1>39. ASSUME NEW r \in Slots, InsertGeneral(r) PROVE TypeOK'
  <2>1. req' \in [Slots -> Requests]
    BY <1>39, GoEffect, AnswerEffect DEF InsertGeneral, Stages
  <2> QED BY <1>39, <2>1, OwnerAssumption DEF InsertGeneral, TypeOK, Requests, people, place,
      private, history, Life, Roles, Parts
<1>40. ASSUME NEW r \in Slots, PurgeRows(r) PROVE TypeOK'
  <2>1. req' \in [Slots -> Requests]
    BY <1>40, PurgedEffect DEF PurgeRows, Parts
  <2> QED BY <1>40, <2>1, OwnerAssumption DEF PurgeRows, TypeOK, Requests, people, place, private,
      history, Life, Roles, Parts
<1>41. ASSUME NEW r \in Slots, PurgeChannels(r) PROVE TypeOK'
  <2>1. req' \in [Slots -> Requests]
    BY <1>41, PurgedEffect DEF PurgeChannels, Parts
  <2> QED BY <1>41, <2>1, OwnerAssumption DEF PurgeChannels, TypeOK, Requests, people, place,
      private, history, Life, Roles, Parts, Deleted
<1>42. ASSUME NEW r \in Slots, PurgeWorkspace(r) PROVE TypeOK'
  <2>1. req' \in [Slots -> Requests]
    BY <1>42, PurgedEffect DEF PurgeWorkspace, Parts
  <2> QED BY <1>42, <2>1, OwnerAssumption DEF PurgeWorkspace, TypeOK, Requests, people, place,
      private, history, Life, Roles, Parts
<1>43. ASSUME NEW r \in Slots, NEW u \in Users, CloseGeneral(r, u) PROVE TypeOK'
  <2>1. req' \in [Slots -> Requests] /\ sent' \in 0..MaxRequests
    BY <1>43, BeginEffect, RequestNames DEF CloseGeneral
  <2>2. links' \in [Users -> SUBSET {"verify", "reset"}] /\ ending' \in BOOLEAN
    BY <1>43 DEF CloseGeneral, TypeOK, people, history
  <2> QED BY <1>43, <2>1, <2>2, SentType DEF CloseGeneral, people, history
<1>44. ASSUME NEW r \in Slots, NEW u \in Users, NEW name \in {"general", "other"},
              RenameGeneral(r, u, name)
       PROVE  TypeOK'
  <2>1. req' \in [Slots -> Requests] /\ sent' \in 0..MaxRequests
    BY <1>44, BeginEffect, RequestNames DEF RenameGeneral
  <2>2. links' \in [Users -> SUBSET {"verify", "reset"}] /\ ending' \in BOOLEAN
    BY <1>44 DEF RenameGeneral, TypeOK, people, history
  <2> QED BY <1>44, <2>1, <2>2, SentType DEF RenameGeneral, people, history
<1>45. ASSUME NEW r \in Slots, SetName(r) PROVE TypeOK'
  <2>1. req' \in [Slots -> Requests]
    BY <1>45, AnswerEffect DEF SetName
  <2>2. renamed' \in BOOLEAN
    BY <1>45, Zenon DEF SetName
  <2>3. general' \in Life \cup {"renamed"}
    BY <1>45 DEF SetName, TypeOK, Life
  <2> QED BY <1>45, <2>1, <2>2, <2>3 DEF SetName, TypeOK, Requests, people, private
<1>46. ASSUME NEW r \in Slots, CheckName(r) PROVE TypeOK'
  <2>1. req' \in [Slots -> Requests]
    BY <1>46, GoEffect, AnswerEffect DEF CheckName, Stages
  <2> QED BY <1>46, <2>1 DEF CheckName, TypeOK, Requests, people, place, private, history
<1>47. ASSUME NEW r \in Slots, EraseGeneral(r) PROVE TypeOK'
  <2>1. req' \in [Slots -> Requests]
    BY <1>47, AnswerEffect DEF EraseGeneral
  <2> QED BY <1>47, <2>1 DEF EraseGeneral, TypeOK, Requests, people, private, history, Life, Deleted
<1> QED BY <1>1, <1>2, <1>3, <1>4, <1>5, <1>6, <1>7, <1>8, <1>9, <1>10, <1>11, <1>12, <1>13,
    <1>14, <1>15, <1>16, <1>17, <1>18, <1>19, <1>20, <1>21, <1>22, <1>23, <1>24, <1>25, <1>26,
    <1>27, <1>28, <1>29, <1>30, <1>31, <1>32, <1>33, <1>34, <1>35, <1>36, <1>37, <1>38, <1>39,
    <1>40, <1>41, <1>42, <1>43, <1>44, <1>45, <1>46, <1>47 DEF Next, Accounts, Sent, Steps

LEMMA BegunStep ==
  ASSUME TypeOK, Fits, Begun, [Next]_vars
  PROVE  Begun'
<1>1. CASE UNCHANGED vars
  BY <1>1 DEF vars, people, place, private, history, Begun, At
<1>2. ASSUME Accounts PROVE Begun'
  BY <1>2, AccountsEffect DEF Begun, At, history
<1>3. ASSUME NEW u \in Users, NEW v \in Users, WithdrawInvite(u, v) PROVE Begun'
  BY <1>3 DEF WithdrawInvite, Begun, At, history
<1>4. ASSUME NEW r \in Slots, Sending(r) PROVE Begun'
  BY <1>4 DEF Sending, Others, Begun, At
<1>5. ASSUME NEW r \in Slots, BreakOff(r) PROVE Begun'
  BY <1>5, AnswerEffect DEF BreakOff, Idle, At, people, place, private, Begun, At
<1>6. ASSUME NEW r \in Slots, SaveVerified(r) PROVE Begun'
  BY <1>6, GoEffect DEF SaveVerified, Stages, At, place, private, history, Begun, At
<1>7. ASSUME NEW r \in Slots, FindInvites(r) PROVE Begun'
  BY <1>7, GoEffect, AnswerEffect DEF FindInvites, Stages, Idle, At, people, place, private,
      history, Begun, At
<1>8. ASSUME NEW r \in Slots, CheckWorkspace(r) PROVE Begun'
  BY <1>8, GoEffect DEF CheckWorkspace, Stages, At, people, place, private, history, Begun, At
<1>9. ASSUME NEW r \in Slots, DeleteInvite(r) PROVE Begun'
  BY <1>9, AnswerEffect DEF DeleteInvite, Idle, At, people, private, history, Begun, At
<1>10. ASSUME NEW r \in Slots, LookUpAccount(r) PROVE Begun'
  BY <1>10, GoEffect DEF LookUpAccount, Stages, At, people, place, private, history, Begun, At
<1>11. ASSUME NEW r \in Slots, UpsertInvite(r) PROVE Begun'
  BY <1>11, AnswerEffect DEF UpsertInvite, Idle, At, people, private, Begun, At
<1>12. ASSUME NEW r \in Slots, LookForRow(r) PROVE Begun'
  BY <1>12, GoEffect, AnswerEffect DEF LookForRow, Stages, Idle, At, people, place, private,
      history, Begun, At
<1>13. ASSUME NEW r \in Slots, AddMember(r) PROVE Begun'
  BY <1>13, GoEffect, AnswerEffect DEF AddMember, Stages, Idle, At, people, private, Begun, At
<1>14. ASSUME NEW r \in Slots, SetRole(r) PROVE Begun'
  BY <1>14, AnswerEffect DEF SetRole, Idle, At, people, private, history, Begun, At
<1>15. ASSUME NEW r \in Slots, DropRow(r) PROVE Begun'
  BY <1>15, GoEffect, AnswerEffect DEF DropRow, Stages, Idle, At, people, private, Begun, At
<1>16. ASSUME NEW r \in Slots, FindRooms(r) PROVE Begun'
  BY <1>16, GoEffect, AnswerEffect DEF FindRooms, Stages, Idle, At, people, place, private,
      history, Begun, At
<1>17. ASSUME NEW r \in Slots, PullFromRooms(r) PROVE Begun'
  BY <1>17, AnswerEffect DEF PullFromRooms, Idle, At, people, place, history, Begun, At
<1>18. ASSUME NEW r \in Slots, CountMembers(r) PROVE Begun'
  BY <1>18, GoEffect, AnswerEffect DEF CountMembers, Stages, Idle, At, people, place, private,
      history, Begun, At
<1>19. ASSUME NEW r \in Slots, InsertRoom(r) PROVE Begun'
  BY <1>19, AnswerEffect DEF InsertRoom, Idle, At, private, people, place, Begun, At
<1>20. ASSUME NEW r \in Slots, CheckTarget(r) PROVE Begun'
  BY <1>20, GoEffect, AnswerEffect DEF CheckTarget, Stages, Idle, At, people, place, private,
      history, Begun, At
<1>21. ASSUME NEW r \in Slots, AddToSet(r) PROVE Begun'
  BY <1>21, AnswerEffect DEF AddToSet, Idle, At, people, place, history, Begun, At
<1>22. ASSUME NEW r \in Slots, Take(r) PROVE Begun'
  BY <1>22, AnswerEffect DEF Take, Idle, At, people, place, history, Begun, At
<1>23. ASSUME NEW r \in Slots, DeleteRoom(r) PROVE Begun'
  BY <1>23, AnswerEffect DEF DeleteRoom, Idle, At, people, place, history, Begun, At
<1>24. ASSUME NEW r \in Slots, InsertWorkspace(r) PROVE Begun'
  BY <1>24, GoEffect DEF InsertWorkspace, Stages, At, people, private, history, Begun, At
<1>25. ASSUME NEW r \in Slots, InsertOwner(r) PROVE Begun'
  BY <1>25, GoEffect DEF InsertOwner, Stages, At, people, private, history, Begun, At
<1>26. ASSUME NEW r \in Slots, InsertGeneral(r) PROVE Begun'
  BY <1>26, AnswerEffect DEF InsertGeneral, Idle, At, people, private, Begun, At
<1>27. ASSUME NEW r \in Slots, PurgeRows(r) PROVE Begun'
  BY <1>27, PurgedEffect DEF PurgeRows, Parts, At, people, private, history, Begun, At
<1>28. ASSUME NEW r \in Slots, PurgeChannels(r) PROVE Begun'
  BY <1>28, PurgedEffect DEF PurgeChannels, Parts, At, people, history, Begun, At
<1>29. ASSUME NEW r \in Slots, PurgeWorkspace(r) PROVE Begun'
  BY <1>29, PurgedEffect DEF PurgeWorkspace, Parts, At, people, private, history, Begun, At
<1>30. ASSUME NEW r \in Slots, SetName(r) PROVE Begun'
  BY <1>30, AnswerEffect DEF SetName, Idle, At, people, private, Begun
<1>31. ASSUME NEW r \in Slots, CheckName(r) PROVE Begun'
  BY <1>31, GoEffect, AnswerEffect DEF CheckName, Stages, Idle, At, people, place, private,
      history, Begun
<1>32. ASSUME NEW r \in Slots, EraseGeneral(r) PROVE Begun'
  BY <1>32, AnswerEffect DEF EraseGeneral, Idle, At, people, private, history, Begun
<1> QED BY <1>1, <1>2, <1>3, <1>4, <1>5, <1>6, <1>7, <1>8, <1>9, <1>10, <1>11, <1>12, <1>13,
    <1>14, <1>15, <1>16, <1>17, <1>18, <1>19, <1>20, <1>21, <1>22, <1>23, <1>24, <1>25, <1>26,
    <1>27, <1>28, <1>29, <1>30, <1>31, <1>32, SentEffect DEF Next, Steps

(* A step of a request that only a workspace with an owner sees.            *)
LEMMA FoundingLater ==
  ASSUME Founding, NEW r \in Slots, Others(r), ws' \in {ws, "gone"},
         req[r].at \notin {"idle", "save", "find", "workspace", "owner"},
         req'[r].at \notin {"workspace", "owner"},
         req'[r].kind = "create" => req[r].kind = "create"
  PROVE  Founding'
<1>1. ~Untouched
  BY DEF Untouched
<1>2. ws' # "none" /\ \A s \in Slots : req'[s].at \notin {"workspace", "owner"}
  BY <1>1 DEF Founding, Others, At
<1>3. \A s, t \in Slots : req'[s].kind = "create" /\ req'[t].kind = "create" => s = t
  BY DEF Founding, Others
<1> QED BY <1>2, <1>3 DEF Founding, At

(* A step that leaves the workspace and its creation as they are.           *)
LEMMA FoundingFrame ==
  ASSUME Founding, NEW r \in Slots, Others(r), UNCHANGED <<ws, row, invited, room>>,
         ~ending => ~ending' \/ ~Untouched,
         Untouched => req'[r].at \in {"idle", "save", "find", "workspace", "owner"},
         req'[r].at = "owner" => req[r].at = "owner",
         req'[r].at = "workspace" => ws = "none",
         req'[r].kind = "create" => \/ req[r].kind = "create"
                                    \/ \A s \in Slots : req[s].kind # "create"
  PROVE  Founding'
<1>1. Untouched => Untouched'
  BY DEF Untouched, Others, Member
<1>2. \A s, t \in Slots : req'[s].kind = "create" /\ req'[t].kind = "create" => s = t
  BY DEF Founding, Others
<1>3. \A s \in Slots : req'[s].at = "owner" => ws # "none" /\ Untouched
  BY DEF Founding, Others, At
<1>4. \A s \in Slots : req'[s].at = "workspace" => ws = "none"
  BY DEF Founding, Others, At
<1> QED BY <1>1, <1>2, <1>3, <1>4 DEF Founding, At

LEMMA FoundingStep ==
  ASSUME TypeOK, Fits, Founding, [Next]_vars
  PROVE  Founding'
<1>1. CASE UNCHANGED vars
  BY <1>1 DEF vars, place, private, history, Founding, Untouched, Member, At
<1>2. ASSUME Accounts PROVE Founding'
  BY <1>2, AccountsEffect DEF Founding, Untouched, Member, At, place, private, history
<1>3. ASSUME NEW u \in Users, NEW v \in Users, WithdrawInvite(u, v) PROVE Founding'
  BY <1>3 DEF WithdrawInvite, Founding, Untouched, Member, At, people, private, history
<1>4. ASSUME NEW r \in Slots, Sending(r) PROVE Founding'
  <2>1. Others(r) /\ UNCHANGED <<ws, row, invited, room>>
    BY <1>4 DEF Sending, place, private
  <2>2. Untouched => req'[r].at \in {"workspace", "save"} /\ ending' = ending
    BY <1>4 DEF Sending
  <2>3. req'[r].kind = "create" => req'[r].at = "workspace"
    BY <1>4 DEF Sending, Fit
  <2>4. req'[r].at # "owner" /\ (req'[r].at = "workspace" => ws = "none" /\ \A s \in Slots : req[s].kind # "create")
    BY <1>4 DEF Sending
  <2> QED BY <2>1, <2>2, <2>3, <2>4, FoundingFrame DEF Untouched
<1>5. ASSUME NEW r \in Slots, BreakOff(r) PROVE Founding'
  <2>1. Others(r) /\ req'[r] = Idle /\ UNCHANGED <<ws, row, invited, room, ending>>
    BY <1>5, AnswerEffect DEF BreakOff, Others, place, private
  <2> QED BY <2>1, FoundingFrame DEF Idle
<1>6. ASSUME NEW r \in Slots, SaveVerified(r) PROVE Founding'
  <2>1. Others(r) /\ req'[r].at = "find" /\ req'[r].kind = req[r].kind
        /\ UNCHANGED <<ws, row, invited, room, ending>>
    BY <1>6, GoEffect DEF SaveVerified, Others, Stages, place, private, history
  <2> QED BY <2>1, FoundingFrame
<1>7. ASSUME NEW r \in Slots, FindInvites(r) PROVE Founding'
  <2>1. Others(r) /\ UNCHANGED <<ws, row, invited, room, ending>>
    BY <1>7, GoEffect, AnswerEffect DEF FindInvites, Others, Stages, place, private, history
  <2>2. req'[r].at \in {"check", "idle"} /\ (req'[r].kind = req[r].kind \/ req'[r].kind = "account")
    BY <1>7, GoEffect, AnswerEffect DEF FindInvites, Stages, Idle
  <2>3. Untouched => req'[r].at = "idle"
    BY <1>7, AnswerEffect DEF FindInvites, Untouched, Idle
  <2> QED BY <2>1, <2>2, <2>3, FoundingFrame
<1>8. ASSUME NEW r \in Slots, CheckWorkspace(r) PROVE Founding'
  BY <1>8, GoEffect, FoundingLater DEF CheckWorkspace, Stages, At, people, place, private,
      history, Others
<1>9. ASSUME NEW r \in Slots, DeleteInvite(r) PROVE Founding'
  BY <1>9, AnswerEffect, FoundingLater DEF DeleteInvite, Idle, At, people, private, history,
      Others
<1>10. ASSUME NEW r \in Slots, LookUpAccount(r) PROVE Founding'
  BY <1>10, GoEffect, FoundingLater DEF LookUpAccount, Stages, At, people, place, private,
      history, Others
<1>11. ASSUME NEW r \in Slots, UpsertInvite(r) PROVE Founding'
  BY <1>11, AnswerEffect, FoundingLater DEF UpsertInvite, Idle, At, people, private, Others
<1>12. ASSUME NEW r \in Slots, LookForRow(r) PROVE Founding'
  BY <1>12, GoEffect, AnswerEffect, FoundingLater DEF LookForRow, Stages, Idle, At, people, place,
      private, history, Others
<1>13. ASSUME NEW r \in Slots, AddMember(r) PROVE Founding'
  BY <1>13, GoEffect, AnswerEffect, FoundingLater DEF AddMember, Stages, Idle, At, people,
      private, Others
<1>14. ASSUME NEW r \in Slots, SetRole(r) PROVE Founding'
  BY <1>14, AnswerEffect, FoundingLater DEF SetRole, Idle, At, people, private, history, Others
<1>15. ASSUME NEW r \in Slots, DropRow(r) PROVE Founding'
  BY <1>15, GoEffect, AnswerEffect, FoundingLater DEF DropRow, Stages, Idle, At, people, private,
      Others
<1>16. ASSUME NEW r \in Slots, FindRooms(r) PROVE Founding'
  BY <1>16, GoEffect, AnswerEffect, FoundingLater DEF FindRooms, Stages, Idle, At, people, place,
      private, history, Others
<1>17. ASSUME NEW r \in Slots, PullFromRooms(r) PROVE Founding'
  BY <1>17, AnswerEffect, FoundingLater DEF PullFromRooms, Idle, At, people, place, history,
      Others
<1>18. ASSUME NEW r \in Slots, CountMembers(r) PROVE Founding'
  BY <1>18, GoEffect, AnswerEffect, FoundingLater DEF CountMembers, Stages, Idle, At, people,
      place, private, history, Others
<1>19. ASSUME NEW r \in Slots, InsertRoom(r) PROVE Founding'
  BY <1>19, AnswerEffect, FoundingLater DEF InsertRoom, Idle, At, private, people, place, Others
<1>20. ASSUME NEW r \in Slots, CheckTarget(r) PROVE Founding'
  BY <1>20, GoEffect, AnswerEffect, FoundingLater DEF CheckTarget, Stages, Idle, At, people,
      place, private, history, Others
<1>21. ASSUME NEW r \in Slots, AddToSet(r) PROVE Founding'
  BY <1>21, AnswerEffect, FoundingLater DEF AddToSet, Idle, At, people, place, history, Others
<1>22. ASSUME NEW r \in Slots, Take(r) PROVE Founding'
  BY <1>22, AnswerEffect, FoundingLater DEF Take, Idle, At, people, place, history, Others
<1>23. ASSUME NEW r \in Slots, DeleteRoom(r) PROVE Founding'
  BY <1>23, AnswerEffect, FoundingLater DEF DeleteRoom, Idle, At, people, place, history, Others
<1>24. ASSUME NEW r \in Slots, InsertWorkspace(r) PROVE Founding'
  <2>1. Others(r) /\ req'[r].at = "owner" /\ req'[r].kind = req[r].kind
        /\ UNCHANGED <<row, invited, room, ending>> /\ ws' = "live"
    BY <1>24, GoEffect DEF InsertWorkspace, Others, Stages, private, history
  <2>2. req[r].kind = "create" /\ Untouched
    BY <1>24 DEF InsertWorkspace, Founding, Fits, Fit, At
  <2>3. Untouched'
    BY <2>1, <2>2 DEF Untouched, Others, Member
  <2>4. \A s \in Slots \ {r} : req'[s].kind # "create" /\ req'[s].at # "workspace"
    BY <2>1, <2>2 DEF Founding, Others, Fits, Fit
  <2> QED BY <2>1, <2>3, <2>4 DEF Founding, At
<1>25. ASSUME NEW r \in Slots, InsertOwner(r) PROVE Founding'
  <2>1. Others(r) /\ req'[r].at = "general" /\ req'[r].kind = req[r].kind /\ ws' = ws
    BY <1>25, GoEffect DEF InsertOwner, Others, Stages
  <2>2. req[r].kind = "create" /\ ws # "none"
    BY <1>25 DEF InsertOwner, Founding, Fits, Fit, At
  <2>3. \A s \in Slots \ {r} : req'[s].kind # "create" /\ req'[s].at \notin {"workspace", "owner"}
    BY <2>1, <2>2 DEF Founding, Others, Fits, Fit
  <2> QED BY <2>1, <2>2, <2>3 DEF Founding, At
<1>26. ASSUME NEW r \in Slots, InsertGeneral(r) PROVE Founding'
  BY <1>26, AnswerEffect, FoundingLater DEF InsertGeneral, Idle, At, people, private, Others
<1>27. ASSUME NEW r \in Slots, PurgeRows(r) PROVE Founding'
  <2>1. Others(r) /\ req'[r].at \in {"purge", "idle"} /\ (req'[r].kind = "account" \/ req'[r].kind = req[r].kind)
        /\ req[r].at = "purge"
    BY <1>27, PurgedEffect DEF PurgeRows, Parts, Others, Idle
  <2> QED BY <1>27, <2>1, FoundingLater DEF PurgeRows
<1>28. ASSUME NEW r \in Slots, PurgeChannels(r) PROVE Founding'
  <2>1. Others(r) /\ req'[r].at \in {"purge", "idle"} /\ (req'[r].kind = "account" \/ req'[r].kind = req[r].kind)
        /\ req[r].at = "purge"
    BY <1>28, PurgedEffect DEF PurgeChannels, Parts, Others, Idle
  <2> QED BY <1>28, <2>1, FoundingLater DEF PurgeChannels
<1>29. ASSUME NEW r \in Slots, PurgeWorkspace(r) PROVE Founding'
  <2>1. Others(r) /\ req'[r].at \in {"purge", "idle"} /\ (req'[r].kind = "account" \/ req'[r].kind = req[r].kind)
        /\ req[r].at = "purge"
    BY <1>29, PurgedEffect DEF PurgeWorkspace, Parts, Others, Idle
  <2> QED BY <1>29, <2>1, FoundingLater DEF PurgeWorkspace
<1>30. ASSUME NEW r \in Slots, SetName(r) PROVE Founding'
  BY <1>30, AnswerEffect, FoundingLater DEF SetName, Idle, At, people, private, Others
<1>31. ASSUME NEW r \in Slots, CheckName(r) PROVE Founding'
  BY <1>31, GoEffect, AnswerEffect, FoundingLater DEF CheckName, Stages, Idle, At, people, place,
      private, history, Others
<1>32. ASSUME NEW r \in Slots, EraseGeneral(r) PROVE Founding'
  BY <1>32, AnswerEffect, FoundingLater DEF EraseGeneral, Idle, At, people, private, history, Others
<1> QED BY <1>1, <1>2, <1>3, <1>4, <1>5, <1>6, <1>7, <1>8, <1>9, <1>10, <1>11, <1>12, <1>13,
    <1>14, <1>15, <1>16, <1>17, <1>18, <1>19, <1>20, <1>21, <1>22, <1>23, <1>24, <1>25, <1>26,
    <1>27, <1>28, <1>29, <1>30, <1>31, <1>32, SentEffect DEF Next, Steps

LEMMA CheckedStep ==
  ASSUME TypeOK, Fits, Begun, ~ending => Checked, [Next]_vars
  PROVE  ~ending' => Checked'
<1>1. CASE UNCHANGED vars
  BY <1>1 DEF vars, people, place, private, history, Checked, Vouched, Member, At
<1>2. ASSUME Accounts PROVE ~ending' => Checked'
  BY <1>2, AccountsEffect DEF Checked, Vouched, Member, At, place, history
<1>3. ASSUME NEW u \in Users, NEW v \in Users, WithdrawInvite(u, v) PROVE ~ending' => Checked'
  BY <1>3 DEF WithdrawInvite, Checked, Vouched, Member, At, history
<1>4. ASSUME NEW r \in Slots, Sending(r) PROVE ~ending' => Checked'
  BY <1>4 DEF Sending, Others, Checked, Vouched, Member, At, place
<1>5. ASSUME NEW r \in Slots, BreakOff(r) PROVE ~ending' => Checked'
  BY <1>5, AnswerEffect DEF BreakOff, Idle, At, people, place, private, Checked, Vouched, Member,
      At
<1>6. ASSUME NEW r \in Slots, SaveVerified(r) PROVE ~ending' => Checked'
  BY <1>6, GoEffect DEF SaveVerified, Stages, At, place, private, history, Checked, Vouched,
      Member, At
<1>7. ASSUME NEW r \in Slots, FindInvites(r) PROVE ~ending' => Checked'
  BY <1>7, GoEffect, AnswerEffect DEF FindInvites, Stages, Idle, At, people, place, private,
      history, Checked, Vouched, Member, At
<1>8. ASSUME NEW r \in Slots, CheckWorkspace(r) PROVE ~ending' => Checked'
  BY <1>8, GoEffect DEF CheckWorkspace, Stages, At, people, place, private, history, Checked,
      Vouched, Member, At
<1>9. ASSUME NEW r \in Slots, DeleteInvite(r) PROVE ~ending' => Checked'
  BY <1>9, AnswerEffect DEF DeleteInvite, Idle, At, people, private, history, Checked, Vouched,
      Member, At
<1>10. ASSUME NEW r \in Slots, LookUpAccount(r) PROVE ~ending' => Checked'
  BY <1>10, GoEffect DEF LookUpAccount, Stages, At, people, place, private, history, Checked,
      Vouched, Member, At
<1>11. ASSUME NEW r \in Slots, UpsertInvite(r) PROVE ~ending' => Checked'
  BY <1>11, AnswerEffect DEF UpsertInvite, Idle, At, people, private, Checked, Vouched, Member, At
<1>12. ASSUME NEW r \in Slots, LookForRow(r) PROVE ~ending' => Checked'
  BY <1>12, GoEffect, AnswerEffect DEF LookForRow, Stages, Idle, At, people, place, private,
      history, Checked, Vouched, Member, At
<1>13. ASSUME NEW r \in Slots, AddMember(r) PROVE ~ending' => Checked'
  <2>1. Others(r) /\ ~At(r, "create")' /\ ~At(r, "add")' /\ crossed' = crossed /\ ending' = ending
    BY <1>13, GoEffect, AnswerEffect DEF AddMember, Others, Stages, Idle, At
  <2>2. \A u \in Users : Member(u) => Member(u)'
    BY <1>13 DEF AddMember, Member, TypeOK
  <2>3. \A s \in Slots : /\ At(s, "create") => req[s].what \subseteq Users
                         /\ req[s].for \in Users
    BY DEF Fits, Fit, At, TypeOK
  <2> QED BY <2>1, <2>2, <2>3 DEF Checked, Vouched, Others, At
<1>14. ASSUME NEW r \in Slots, SetRole(r) PROVE ~ending' => Checked'
  BY <1>14, AnswerEffect DEF SetRole, Idle, At, people, private, history, Checked, Vouched,
      Member, At
<1>15. ASSUME NEW r \in Slots, DropRow(r) PROVE ~ending' => Checked'
  <2> PICK v \in Users : v = req[r].for
    BY DEF TypeOK
  <2>1. Others(r) /\ ~At(r, "create")' /\ ~At(r, "add")' /\ ending' = ending
    BY <1>15, GoEffect, AnswerEffect DEF DropRow, Others, Stages, Idle, At
  <2>2. \A u \in Users \ {v} : Vouched(u) => Vouched(u)'
    BY <1>15 DEF DropRow, Vouched, Member, TypeOK
  <2>3. \A s \in Slots : /\ At(s, "create") => req[s].what \subseteq Users
                         /\ req[s].for \in Users
    BY DEF Fits, Fit, At, TypeOK
  <2>4. Promised(v) # {} => v \in crossed'
    BY <1>15 DEF DropRow
  <2>5. \A s \in Slots : (\/ At(s, "create") /\ v \in req[s].what
                          \/ At(s, "add") /\ v = req[s].for)
                         => v \in crossed'
    BY <2>4 DEF Promised
  <2>6. ASSUME NEW s \in Slots, At(s, "create")', NEW u \in req'[s].what, ~ending PROVE Vouched(u)'
    <3>1. s # r /\ req'[s] = req[s] /\ At(s, "create")
      BY <2>1, <2>6 DEF Others, At
    <3>2. u \in Users /\ Vouched(u)
      BY <2>3, <2>6, <3>1 DEF Checked
    <3>3. u = v => u \in crossed'
      BY <2>5, <2>6, <3>1
    <3> QED BY <2>2, <3>2, <3>3 DEF Vouched
  <2>7. ASSUME NEW s \in Slots, At(s, "add")', ~ending, NEW u, u = req'[s].for PROVE Vouched(u)'
    <3>1. s # r /\ req'[s] = req[s] /\ At(s, "add")
      BY <2>1, <2>7 DEF Others, At
    <3>2. u \in Users /\ Vouched(u)
      BY <2>3, <2>7, <3>1 DEF Checked
    <3>3. u = v => u \in crossed'
      BY <2>5, <2>7, <3>1
    <3> QED BY <2>2, <3>2, <3>3 DEF Vouched
  <2> QED BY <2>1, <2>6, <2>7 DEF Checked, Vouched, Member
<1>16. ASSUME NEW r \in Slots, FindRooms(r) PROVE ~ending' => Checked'
  BY <1>16, GoEffect, AnswerEffect DEF FindRooms, Stages, Idle, At, people, place, private,
      history, Checked, Vouched, Member, At
<1>17. ASSUME NEW r \in Slots, PullFromRooms(r) PROVE ~ending' => Checked'
  BY <1>17, AnswerEffect DEF PullFromRooms, Idle, At, people, place, history, Checked, Vouched,
      Member, At
<1>18. ASSUME NEW r \in Slots, CountMembers(r) PROVE ~ending' => Checked'
  BY <1>18, GoEffect, AnswerEffect DEF CountMembers, Stages, Idle, At, people, place, private,
      history, Checked, Vouched, Member, At
<1>19. ASSUME NEW r \in Slots, InsertRoom(r) PROVE ~ending' => Checked'
  BY <1>19, AnswerEffect DEF InsertRoom, Idle, At, private, people, place, Checked, Vouched,
      Member, At
<1>20. ASSUME NEW r \in Slots, CheckTarget(r) PROVE ~ending' => Checked'
  BY <1>20, GoEffect, AnswerEffect DEF CheckTarget, Stages, Idle, At, people, place, private,
      history, Checked, Vouched, Member, At
<1>21. ASSUME NEW r \in Slots, AddToSet(r) PROVE ~ending' => Checked'
  BY <1>21, AnswerEffect DEF AddToSet, Idle, At, people, place, history, Checked, Vouched, Member,
      At
<1>22. ASSUME NEW r \in Slots, Take(r) PROVE ~ending' => Checked'
  BY <1>22, AnswerEffect DEF Take, Idle, At, people, place, history, Checked, Vouched, Member, At
<1>23. ASSUME NEW r \in Slots, DeleteRoom(r) PROVE ~ending' => Checked'
  BY <1>23, AnswerEffect DEF DeleteRoom, Idle, At, people, place, history, Checked, Vouched,
      Member, At
<1>24. ASSUME NEW r \in Slots, InsertWorkspace(r) PROVE ~ending' => Checked'
  BY <1>24, GoEffect DEF InsertWorkspace, Stages, At, people, private, history, Checked, Vouched,
      Member, At
<1>25. ASSUME NEW r \in Slots, InsertOwner(r) PROVE ~ending' => Checked'
  BY <1>25, GoEffect DEF InsertOwner, Stages, At, people, private, history, Checked, Vouched,
      Member, At
<1>26. ASSUME NEW r \in Slots, InsertGeneral(r) PROVE ~ending' => Checked'
  BY <1>26, AnswerEffect DEF InsertGeneral, Idle, At, people, private, Checked, Vouched, Member,
      At
<1>27. ASSUME NEW r \in Slots, PurgeRows(r) PROVE ~ending' => Checked'
  BY <1>27 DEF PurgeRows, Purged, Begun, history
<1>28. ASSUME NEW r \in Slots, PurgeChannels(r) PROVE ~ending' => Checked'
  BY <1>28 DEF PurgeChannels, Purged, Begun, history
<1>29. ASSUME NEW r \in Slots, PurgeWorkspace(r) PROVE ~ending' => Checked'
  BY <1>29 DEF PurgeWorkspace, Purged, Begun, history
<1>30. ASSUME NEW r \in Slots, SetName(r) PROVE ~ending' => Checked'
  BY <1>30, AnswerEffect DEF SetName, Idle, At, people, private, Checked, Vouched, Member
<1>31. ASSUME NEW r \in Slots, CheckName(r) PROVE ~ending' => Checked'
  BY <1>31, GoEffect, AnswerEffect DEF CheckName, Stages, Idle, At, people, place, private,
      history, Checked, Vouched, Member
<1>32. ASSUME NEW r \in Slots, EraseGeneral(r) PROVE ~ending' => Checked'
  BY <1>32, AnswerEffect DEF EraseGeneral, Idle, At, people, private, history, Checked, Vouched,
      Member
<1> QED BY <1>1, <1>2, <1>3, <1>4, <1>5, <1>6, <1>7, <1>8, <1>9, <1>10, <1>11, <1>12, <1>13,
    <1>14, <1>15, <1>16, <1>17, <1>18, <1>19, <1>20, <1>21, <1>22, <1>23, <1>24, <1>25, <1>26,
    <1>27, <1>28, <1>29, <1>30, <1>31, <1>32, SentEffect DEF Next, Steps

LEMMA RootedFrame ==
  ASSUME TypeOK, Rooted, NEW r \in Slots, Others(r),
         Removes(req[r]) => Removes(req'[r]) /\ req'[r].for = req[r].for,
         room' = room, inside' \subseteq inside,
         \A u \in Users : Member(u) => row'[u] # "none",
         crossed \subseteq crossed', half \subseteq half'
  PROVE  Rooted'
<1>1. ASSUME NEW u, Removing(u) PROVE Removing(u)'
  BY <1>1 DEF Removing, Others
<1>2. ASSUME NEW u \in Users, Vouched(u) PROVE Vouched(u)'
  BY <1>2 DEF Vouched, Member
<1> QED BY <1>1, <1>2 DEF Rooted, TypeOK

(* The user this step is about.                                             *)
LEMMA RootedAbout ==
  ASSUME TypeOK, Rooted, NEW r \in Slots, Others(r), NEW v, v = req[r].for, room' = room,
         \A u \in inside' : u \in inside \/ u = v,
         \A u \in Users \ {v} : row[u] # "none" => row'[u] # "none",
         crossed \subseteq crossed', half \subseteq half',
         room = "live" /\ v \in inside' =>
           \/ row'[v] # "none" \/ v \in crossed' \/ <<"remove", v>> \in half'
           \/ Removes(req'[r]) /\ req'[r].for = v
  PROVE  Rooted'
<1>1. ASSUME NEW u, Removing(u), u # v PROVE Removing(u)'
  BY <1>1 DEF Removing, Others
<1>2. ASSUME NEW u \in Users, Vouched(u), u # v PROVE Vouched(u)'
  BY <1>2 DEF Vouched, Member
<1>3. room = "live" /\ v \in inside' =>
        Vouched(v)' \/ <<"remove", v>> \in half' \/ Removing(v)'
  BY DEF Vouched, Member, Removing
<1>4. inside \subseteq Users
  BY DEF TypeOK
<1> QED BY <1>1, <1>2, <1>3, <1>4 DEF Rooted

LEMMA RootedStep ==
  ASSUME TypeOK, Fits, Begun, ~ending => Checked, ~ending => Rooted, [Next]_vars
  PROVE  ~ending' => Rooted'
<1>1. CASE UNCHANGED vars
  BY <1>1 DEF vars, place, private, history, Rooted, Removing, Vouched, Member
<1>2. ASSUME Accounts PROVE ~ending' => Rooted'
  BY <1>2, AccountsEffect DEF Rooted, Vouched, Removing, Member, place, private, history
<1>3. ASSUME NEW u \in Users, NEW v \in Users, WithdrawInvite(u, v) PROVE ~ending' => Rooted'
  BY <1>3 DEF WithdrawInvite, Rooted, Vouched, Removing, Member, private, history
<1>4. ASSUME NEW r \in Slots, Sending(r) PROVE ~ending' => Rooted'
  BY <1>4, RootedFrame DEF Sending, Removes, Idle, Member, place, private
<1>5. ASSUME NEW r \in Slots, BreakOff(r) PROVE ~ending' => Rooted'
  <2>1. Others(r) /\ req'[r] = Idle /\ UNCHANGED <<row, room, inside, crossed, ending>>
        /\ half' = half \cup {<<req[r].kind, req[r].for>>}
    BY <1>5, AnswerEffect DEF BreakOff, Others, place, private
  <2>2. CASE req[r].kind = "remove"
    BY <2>1, <2>2, RootedAbout
  <2>3. CASE req[r].kind # "remove"
    <3>1. ~Removes(req[r])
      BY <2>3 DEF Removes, Fits, Fit
    <3> QED BY <2>1, <3>1, RootedFrame DEF Member
  <2> QED BY <1>5, <2>2, <2>3 DEF BreakOff
<1>6. ASSUME NEW r \in Slots, SaveVerified(r) PROVE ~ending' => Rooted'
  BY <1>6, GoEffect, RootedFrame DEF SaveVerified, Stages, At, place, private, history, Removes,
      Others, Member
<1>7. ASSUME NEW r \in Slots, FindInvites(r) PROVE ~ending' => Rooted'
  BY <1>7, GoEffect, AnswerEffect, RootedFrame DEF FindInvites, Stages, Idle, At, people, place,
      private, history, Removes, Others, Member
<1>8. ASSUME NEW r \in Slots, CheckWorkspace(r) PROVE ~ending' => Rooted'
  BY <1>8, GoEffect, RootedFrame DEF CheckWorkspace, Stages, At, people, place, private, history,
      Removes, Others, Member
<1>9. ASSUME NEW r \in Slots, DeleteInvite(r) PROVE ~ending' => Rooted'
  BY <1>9, AnswerEffect, RootedFrame DEF DeleteInvite, Idle, At, people, private, history,
      Removes, Others, Member
<1>10. ASSUME NEW r \in Slots, LookUpAccount(r) PROVE ~ending' => Rooted'
  BY <1>10, GoEffect, RootedFrame DEF LookUpAccount, Stages, At, people, place, private, history,
      Removes, Others, Member
<1>11. ASSUME NEW r \in Slots, UpsertInvite(r) PROVE ~ending' => Rooted'
  BY <1>11, AnswerEffect, RootedFrame DEF UpsertInvite, Idle, At, people, private, Removes,
      Others, Member
<1>12. ASSUME NEW r \in Slots, LookForRow(r) PROVE ~ending' => Rooted'
  BY <1>12, GoEffect, AnswerEffect, RootedFrame DEF LookForRow, Stages, Idle, At, people, place,
      private, history, Removes, Others, Member
<1>13. ASSUME NEW r \in Slots, AddMember(r) PROVE ~ending' => Rooted'
  <2>1. Others(r) /\ ~Removes(req[r]) /\ UNCHANGED <<room, inside, crossed, half>>
    BY <1>13, GoEffect, AnswerEffect DEF AddMember, Others, Stages, At, Removes, private
  <2>2. \A u \in Users : Member(u) => row'[u] # "none"
    BY <1>13 DEF AddMember, Member, TypeOK
  <2> QED BY <1>13, <2>1, <2>2, RootedFrame DEF AddMember
<1>14. ASSUME NEW r \in Slots, SetRole(r) PROVE ~ending' => Rooted'
  BY <1>14, AnswerEffect, RootedFrame DEF SetRole, Idle, At, people, private, history, Removes,
      Others, Member
<1>15. ASSUME NEW r \in Slots, DropRow(r) PROVE ~ending' => Rooted'
  <2>1. Others(r) /\ ~Removes(req[r]) /\ UNCHANGED <<room, inside, half, ending>> /\ crossed \subseteq crossed'
    BY <1>15, GoEffect, AnswerEffect DEF DropRow, Others, Stages, At, Removes, private
  <2>2. \A u \in Users \ {req[r].for} : row'[u] = row[u]
    BY <1>15 DEF DropRow, TypeOK
  <2>3. CASE Member(req[r].for)
    <3>1. Removes(req'[r]) /\ req'[r].for = req[r].for
      BY <1>15, <2>3, GoEffect DEF DropRow, Stages, Removes
    <3> QED BY <2>1, <2>2, <3>1, RootedAbout
  <2>4. CASE ~Member(req[r].for)
    BY <2>1, <2>2, <2>4, RootedFrame DEF Member
  <2> QED BY <2>3, <2>4
<1>16. ASSUME NEW r \in Slots, FindRooms(r) PROVE ~ending' => Rooted'
  <2>1. Others(r) /\ UNCHANGED <<row, room, inside, crossed, half, ending>>
    BY <1>16, GoEffect, AnswerEffect DEF FindRooms, Others, Stages, place, private, history
  <2>2. Sees(req[r].for) => Removes(req'[r]) /\ req'[r].for = req[r].for
    BY <1>16, GoEffect DEF FindRooms, Stages, Removes
  <2> QED BY <2>1, <2>2, RootedAbout DEF Sees
<1>17. ASSUME NEW r \in Slots, PullFromRooms(r) PROVE ~ending' => Rooted'
  <2>1. Others(r) /\ UNCHANGED <<row, room, crossed, half, ending>> /\ inside' = inside \ {req[r].for}
    BY <1>17, AnswerEffect DEF PullFromRooms, Others, place, history
  <2> QED BY <2>1, RootedAbout
<1>18. ASSUME NEW r \in Slots, CountMembers(r) PROVE ~ending' => Rooted'
  BY <1>18, GoEffect, AnswerEffect, RootedFrame DEF CountMembers, Stages, Idle, At, people, place,
      private, history, Removes, Others, Member
<1>19. ASSUME NEW r \in Slots, InsertRoom(r) PROVE ~ending' => Rooted'
  <2>1. Others(r) /\ ~Removes(req[r]) /\ UNCHANGED <<row, crossed, half, ending>>
    BY <1>19, AnswerEffect DEF InsertRoom, Others, Removes, At, place
  <2>2. CASE room = "none"
    BY <1>19, <2>1, <2>2 DEF InsertRoom, Checked, Rooted, Vouched, Member
  <2>3. CASE room # "none"
    BY <1>19, <2>1, <2>3, RootedFrame DEF InsertRoom, private, Member
  <2> QED BY <2>2, <2>3
<1>20. ASSUME NEW r \in Slots, CheckTarget(r) PROVE ~ending' => Rooted'
  BY <1>20, GoEffect, AnswerEffect, RootedFrame DEF CheckTarget, Stages, Idle, At, people, place,
      private, history, Removes, Others, Member
<1>21. ASSUME NEW r \in Slots, AddToSet(r) PROVE ~ending' => Rooted'
  <2>1. Others(r) /\ UNCHANGED <<row, room, crossed, half, ending>>
        /\ inside' \subseteq inside \cup {req[r].for}
    BY <1>21, AnswerEffect DEF AddToSet, Others, place, history
  <2>2. ~ending => Member(req[r].for) \/ req[r].for \in crossed
    BY <1>21 DEF AddToSet, Checked, Vouched
  <2>3. ASSUME ~ending PROVE Rooted'
    <3>1. Rooted /\ (row'[req[r].for] # "none" \/ req[r].for \in crossed')
      BY <2>1, <2>2, <2>3 DEF Member
    <3>2. \A u \in inside' : u \in inside \/ u = req[r].for
      BY <2>1
    <3> QED BY <2>1, <3>1, <3>2, RootedAbout
  <2> QED BY <2>1, <2>3
<1>22. ASSUME NEW r \in Slots, Take(r) PROVE ~ending' => Rooted'
  BY <1>22, AnswerEffect, RootedFrame DEF Take, Idle, At, people, place, history, Removes, Others,
      Member
<1>23. ASSUME NEW r \in Slots, DeleteRoom(r) PROVE ~ending' => Rooted'
  BY <1>23 DEF DeleteRoom, Rooted, Deleted
<1>24. ASSUME NEW r \in Slots, InsertWorkspace(r) PROVE ~ending' => Rooted'
  BY <1>24, GoEffect, RootedFrame DEF InsertWorkspace, Stages, At, people, private, history,
      Removes, Others, Member
<1>25. ASSUME NEW r \in Slots, InsertOwner(r) PROVE ~ending' => Rooted'
  BY <1>25, GoEffect, RootedFrame DEF InsertOwner, Stages, At, people, private, history, Removes,
      Others, Member
<1>26. ASSUME NEW r \in Slots, InsertGeneral(r) PROVE ~ending' => Rooted'
  BY <1>26, AnswerEffect, RootedFrame DEF InsertGeneral, Idle, At, people, private, Removes,
      Others, Member
<1>27. ASSUME NEW r \in Slots, PurgeRows(r) PROVE ~ending' => Rooted'
  BY <1>27 DEF PurgeRows, Purged, Begun, history
<1>28. ASSUME NEW r \in Slots, PurgeChannels(r) PROVE ~ending' => Rooted'
  BY <1>28 DEF PurgeChannels, Purged, Begun, history
<1>29. ASSUME NEW r \in Slots, PurgeWorkspace(r) PROVE ~ending' => Rooted'
  BY <1>29 DEF PurgeWorkspace, Purged, Begun, history
<1>30. ASSUME NEW r \in Slots, SetName(r) PROVE ~ending' => Rooted'
  BY <1>30, AnswerEffect, RootedFrame DEF SetName, Idle, At, people, private, Removes, Others,
      Member
<1>31. ASSUME NEW r \in Slots, CheckName(r) PROVE ~ending' => Rooted'
  BY <1>31, GoEffect, AnswerEffect, RootedFrame DEF CheckName, Stages, Idle, At, people, place,
      private, history, Removes, Others, Member
<1>32. ASSUME NEW r \in Slots, EraseGeneral(r) PROVE ~ending' => Rooted'
  BY <1>32, AnswerEffect, RootedFrame DEF EraseGeneral, Idle, At, people, private, history,
      Removes, Others, Member
<1> QED BY <1>1, <1>2, <1>3, <1>4, <1>5, <1>6, <1>7, <1>8, <1>9, <1>10, <1>11, <1>12, <1>13,
    <1>14, <1>15, <1>16, <1>17, <1>18, <1>19, <1>20, <1>21, <1>22, <1>23, <1>24, <1>25, <1>26,
    <1>27, <1>28, <1>29, <1>30, <1>31, <1>32, SentEffect DEF Next, Steps

(* Redemptions under way stay under way, but for what ends them.            *)
LEMMA RedeemedFrame ==
  ASSUME Redeemed, NEW r \in Slots, Others(r),
         Redeems(req[r]) => Redeems(req'[r]) /\ req'[r].for = req[r].for,
         \A u \in invited' : u \in invited /\ (account'[u] = "verified" => account[u] = "verified"),
         late \subseteq late', collided \subseteq collided', half \subseteq half'
  PROVE  Redeemed'
<1>1. ASSUME NEW u, Redeeming(u) PROVE Redeeming(u)'
  BY <1>1 DEF Redeeming, Others
<1> QED BY <1>1 DEF Redeemed

(* The redemption this step is about.                                       *)
LEMMA RedeemedAbout ==
  ASSUME Redeemed, NEW r \in Slots, Others(r), NEW v, v = req[r].for,
         \A u \in invited' \ {v} : u \in invited /\ (account'[u] = "verified" => account[u] = "verified"),
         late \subseteq late', collided \subseteq collided', half \subseteq half',
         v \in invited' /\ account'[v] = "verified" =>
           \/ v \in late' \cup collided' \/ <<"redeem", v>> \in half'
           \/ Redeems(req'[r]) /\ req'[r].for = v
  PROVE  Redeemed'
<1>1. ASSUME NEW u, Redeeming(u), u # v PROVE Redeeming(u)'
  BY <1>1 DEF Redeeming, Others
<1>2. v \in invited' /\ account'[v] = "verified" =>
        v \in late' \cup collided' \/ <<"redeem", v>> \in half' \/ Redeeming(v)'
  BY DEF Redeeming
<1> QED BY <1>1, <1>2 DEF Redeemed

LEMMA RedeemedStep ==
  ASSUME TypeOK, Fits, Redeemed, [Next]_vars
  PROVE  Redeemed'
<1>1. CASE UNCHANGED vars
  BY <1>1 DEF vars, people, place, history, Redeemed, Redeeming
<1>2. ASSUME Accounts PROVE Redeemed'
  <2>1. \A u \in invited' : u \in invited /\ (account'[u] = "verified" => account[u] = "verified")
    BY <1>2, AccountsEffect DEF place, TypeOK
  <2> QED BY <1>2, <2>1, AccountsEffect DEF Redeemed, Redeeming, history
<1>3. ASSUME NEW u \in Users, NEW v \in Users, WithdrawInvite(u, v) PROVE Redeemed'
  BY <1>3 DEF WithdrawInvite, Redeemed, Redeeming, people, history
<1>4. ASSUME NEW r \in Slots, Sending(r) PROVE Redeemed'
  BY <1>4, RedeemedFrame DEF Sending, Redeems, Idle, place
<1>5. ASSUME NEW r \in Slots, BreakOff(r) PROVE Redeemed'
  <2>1. Others(r) /\ req'[r] = Idle
    BY <1>5, AnswerEffect DEF BreakOff, Others
  <2>2. CASE req[r].kind = "redeem"
    BY <1>5, <2>1, <2>2, RedeemedAbout DEF BreakOff, people, place
  <2>3. CASE req[r].kind # "redeem"
    BY <1>5, <2>1, <2>3, RedeemedFrame DEF BreakOff, people, place, Redeems
  <2> QED BY <2>2, <2>3
<1>6. ASSUME NEW r \in Slots, SaveVerified(r) PROVE Redeemed'
  <2>1. Others(r) /\ Redeems(req'[r]) /\ req'[r].for = req[r].for
    BY <1>6, GoEffect DEF SaveVerified, Others, Redeems, Fits, Fit, At, Stages
  <2>2. \A u \in Users \ {req[r].for} : account'[u] = account[u]
    BY <1>6 DEF SaveVerified, TypeOK
  <2>3. invited \subseteq Users /\ invited' = invited /\ late' = late /\ collided' = collided /\ half' = half
    BY <1>6 DEF SaveVerified, place, history, TypeOK
  <2> QED BY <2>1, <2>2, <2>3, RedeemedAbout, ZenonT(30)
<1>7. ASSUME NEW r \in Slots, FindInvites(r) PROVE Redeemed'
  <2>1. Others(r)
    BY <1>7, GoEffect, AnswerEffect DEF FindInvites, Others, Stages
  <2>2. req[r].for \in invited => Redeems(req'[r]) /\ req'[r].for = req[r].for
    BY <1>7, GoEffect DEF FindInvites, Redeems, Fits, Fit, At, Stages
  <2> QED BY <1>7, <2>1, <2>2, RedeemedAbout DEF FindInvites, people, place, history
<1>8. ASSUME NEW r \in Slots, CheckWorkspace(r) PROVE Redeemed'
  BY <1>8, GoEffect, RedeemedFrame DEF CheckWorkspace, Stages, At, people, place, private,
      history, Redeems, Others
<1>9. ASSUME NEW r \in Slots, DeleteInvite(r) PROVE Redeemed'
  <2>1. Others(r)
    BY <1>9, AnswerEffect DEF DeleteInvite, Others
  <2> QED BY <1>9, <2>1, RedeemedAbout DEF DeleteInvite, people, history
<1>10. ASSUME NEW r \in Slots, LookUpAccount(r) PROVE Redeemed'
  BY <1>10, GoEffect, RedeemedFrame DEF LookUpAccount, Stages, At, people, place, private,
      history, Redeems, Others
<1>11. ASSUME NEW r \in Slots, UpsertInvite(r) PROVE Redeemed'
  <2>1. Others(r)
    BY <1>11, AnswerEffect DEF UpsertInvite, Others
  <2>2. account' = account /\ collided' = collided /\ half' = half
        /\ invited' = invited \cup {req[r].for} /\ late \subseteq late'
        /\ (account[req[r].for] = "verified" => req[r].for \in late')
    BY <1>11 DEF UpsertInvite, people
  <2> QED BY <2>1, <2>2, RedeemedAbout
<1>12. ASSUME NEW r \in Slots, LookForRow(r) PROVE Redeemed'
  BY <1>12, GoEffect, AnswerEffect, RedeemedFrame DEF LookForRow, Stages, Idle, At, people, place,
      private, history, Redeems, Others
<1>13. ASSUME NEW r \in Slots, AddMember(r) PROVE Redeemed'
  <2>1. Others(r) /\ account' = account /\ invited' = invited /\ late' = late /\ half' = half
        /\ collided \subseteq collided'
    BY <1>13, GoEffect, AnswerEffect DEF AddMember, Others, Stages, people
  <2>2. CASE req[r].kind = "redeem"
    <3>1. req[r].for \in collided' \/ (Redeems(req'[r]) /\ req'[r].for = req[r].for)
      BY <1>13, <2>2, GoEffect DEF AddMember, Stages, Redeems
    <3> QED BY <2>1, <3>1, RedeemedAbout
  <2>3. CASE req[r].kind # "redeem"
    BY <2>1, <2>3, RedeemedFrame DEF Redeems
  <2> QED BY <2>2, <2>3
<1>14. ASSUME NEW r \in Slots, SetRole(r) PROVE Redeemed'
  BY <1>14, AnswerEffect, RedeemedFrame DEF SetRole, Idle, At, people, private, history, Redeems,
      Others
<1>15. ASSUME NEW r \in Slots, DropRow(r) PROVE Redeemed'
  BY <1>15, GoEffect, AnswerEffect, RedeemedFrame DEF DropRow, Stages, Idle, At, people, private,
      Redeems, Others
<1>16. ASSUME NEW r \in Slots, FindRooms(r) PROVE Redeemed'
  BY <1>16, GoEffect, AnswerEffect, RedeemedFrame DEF FindRooms, Stages, Idle, At, people, place,
      private, history, Redeems, Others
<1>17. ASSUME NEW r \in Slots, PullFromRooms(r) PROVE Redeemed'
  BY <1>17, AnswerEffect, RedeemedFrame DEF PullFromRooms, Idle, At, people, place, history,
      Redeems, Others
<1>18. ASSUME NEW r \in Slots, CountMembers(r) PROVE Redeemed'
  BY <1>18, GoEffect, AnswerEffect, RedeemedFrame DEF CountMembers, Stages, Idle, At, people,
      place, private, history, Redeems, Others
<1>19. ASSUME NEW r \in Slots, InsertRoom(r) PROVE Redeemed'
  BY <1>19, AnswerEffect, RedeemedFrame DEF InsertRoom, Idle, At, private, people, place, Redeems,
      Others
<1>20. ASSUME NEW r \in Slots, CheckTarget(r) PROVE Redeemed'
  BY <1>20, GoEffect, AnswerEffect, RedeemedFrame DEF CheckTarget, Stages, Idle, At, people,
      place, private, history, Redeems, Others
<1>21. ASSUME NEW r \in Slots, AddToSet(r) PROVE Redeemed'
  BY <1>21, AnswerEffect, RedeemedFrame DEF AddToSet, Idle, At, people, place, history, Redeems,
      Others
<1>22. ASSUME NEW r \in Slots, Take(r) PROVE Redeemed'
  BY <1>22, AnswerEffect, RedeemedFrame DEF Take, Idle, At, people, place, history, Redeems,
      Others
<1>23. ASSUME NEW r \in Slots, DeleteRoom(r) PROVE Redeemed'
  BY <1>23, AnswerEffect, RedeemedFrame DEF DeleteRoom, Idle, At, people, place, history, Redeems,
      Others
<1>24. ASSUME NEW r \in Slots, InsertWorkspace(r) PROVE Redeemed'
  BY <1>24, GoEffect, RedeemedFrame DEF InsertWorkspace, Stages, At, people, private, history,
      Redeems, Others
<1>25. ASSUME NEW r \in Slots, InsertOwner(r) PROVE Redeemed'
  BY <1>25, GoEffect, RedeemedFrame DEF InsertOwner, Stages, At, people, private, history,
      Redeems, Others
<1>26. ASSUME NEW r \in Slots, InsertGeneral(r) PROVE Redeemed'
  BY <1>26, AnswerEffect, RedeemedFrame DEF InsertGeneral, Idle, At, people, private, Redeems,
      Others
<1>27. ASSUME NEW r \in Slots, PurgeRows(r) PROVE Redeemed'
  BY <1>27, PurgedEffect, RedeemedFrame DEF PurgeRows, Parts, At, people, private, history,
      Redeems, Others
<1>28. ASSUME NEW r \in Slots, PurgeChannels(r) PROVE Redeemed'
  BY <1>28, PurgedEffect, RedeemedFrame DEF PurgeChannels, Parts, At, people, history, Redeems,
      Others
<1>29. ASSUME NEW r \in Slots, PurgeWorkspace(r) PROVE Redeemed'
  BY <1>29, PurgedEffect, RedeemedFrame DEF PurgeWorkspace, Parts, At, people, private, history,
      Redeems, Others
<1>30. ASSUME NEW r \in Slots, SetName(r) PROVE Redeemed'
  BY <1>30, AnswerEffect, RedeemedFrame DEF SetName, Idle, At, people, private, Redeems, Others
<1>31. ASSUME NEW r \in Slots, CheckName(r) PROVE Redeemed'
  BY <1>31, GoEffect, AnswerEffect, RedeemedFrame DEF CheckName, Stages, Idle, At, people, place,
      private, history, Redeems, Others
<1>32. ASSUME NEW r \in Slots, EraseGeneral(r) PROVE Redeemed'
  BY <1>32, AnswerEffect, RedeemedFrame DEF EraseGeneral, Idle, At, people, private, history,
      Redeems, Others
<1> QED BY <1>1, <1>2, <1>3, <1>4, <1>5, <1>6, <1>7, <1>8, <1>9, <1>10, <1>11, <1>12, <1>13,
    <1>14, <1>15, <1>16, <1>17, <1>18, <1>19, <1>20, <1>21, <1>22, <1>23, <1>24, <1>25, <1>26,
    <1>27, <1>28, <1>29, <1>30, <1>31, <1>32, SentEffect DEF Next, Steps

(* A step that leaves #general as it is.                                    *)
LEMMA NamedFrame ==
  ASSUME Named, NEW r \in Slots, Others(r), general' = general,
         renamed => renamed', ending => ending',
         req'[r].at = "name" => general # "none", req'[r].at # "erase"
  PROVE  Named'
BY DEF Named, Others, At

LEMMA NamedStep ==
  ASSUME TypeOK, Begun, Named, [Next]_vars
  PROVE  Named'
<1>1. CASE UNCHANGED vars
  BY <1>1 DEF vars, place, history, Named, At
<1>2. ASSUME Accounts PROVE Named'
  BY <1>2, AccountsEffect DEF Named, At, place, history
<1>3. ASSUME NEW u \in Users, NEW v \in Users, WithdrawInvite(u, v) PROVE Named'
  BY <1>3 DEF WithdrawInvite, Named, At, history
<1>4. ASSUME NEW r \in Slots, Sending(r) PROVE Named'
  BY <1>4, NamedFrame DEF Sending, place
<1>5. ASSUME NEW r \in Slots, BreakOff(r) PROVE Named'
  BY <1>5, AnswerEffect, NamedFrame DEF BreakOff, Idle, place, history, Others
<1>6. ASSUME NEW r \in Slots, SaveVerified(r) PROVE Named'
  BY <1>6, GoEffect, NamedFrame DEF SaveVerified, Stages, place, history, Others
<1>7. ASSUME NEW r \in Slots, FindInvites(r) PROVE Named'
  BY <1>7, GoEffect, AnswerEffect, NamedFrame DEF FindInvites, Stages, Idle, place, history, Others
<1>8. ASSUME NEW r \in Slots, CheckWorkspace(r) PROVE Named'
  BY <1>8, GoEffect, NamedFrame DEF CheckWorkspace, Stages, place, history, Others
<1>9. ASSUME NEW r \in Slots, DeleteInvite(r) PROVE Named'
  BY <1>9, AnswerEffect, NamedFrame DEF DeleteInvite, Idle, place, history, Others
<1>10. ASSUME NEW r \in Slots, LookUpAccount(r) PROVE Named'
  BY <1>10, GoEffect, NamedFrame DEF LookUpAccount, Stages, place, history, Others
<1>11. ASSUME NEW r \in Slots, UpsertInvite(r) PROVE Named'
  BY <1>11, AnswerEffect, NamedFrame DEF UpsertInvite, Idle, place, history, Others
<1>12. ASSUME NEW r \in Slots, LookForRow(r) PROVE Named'
  BY <1>12, GoEffect, AnswerEffect, NamedFrame DEF LookForRow, Stages, Idle, place, history, Others
<1>13. ASSUME NEW r \in Slots, AddMember(r) PROVE Named'
  BY <1>13, GoEffect, AnswerEffect, NamedFrame DEF AddMember, Stages, Idle, place, history, Others
<1>14. ASSUME NEW r \in Slots, SetRole(r) PROVE Named'
  BY <1>14, AnswerEffect, NamedFrame DEF SetRole, Idle, place, history, Others
<1>15. ASSUME NEW r \in Slots, DropRow(r) PROVE Named'
  BY <1>15, GoEffect, AnswerEffect, NamedFrame DEF DropRow, Stages, Idle, place, history, Others
<1>16. ASSUME NEW r \in Slots, FindRooms(r) PROVE Named'
  BY <1>16, GoEffect, AnswerEffect, NamedFrame DEF FindRooms, Stages, Idle, place, history, Others
<1>17. ASSUME NEW r \in Slots, PullFromRooms(r) PROVE Named'
  BY <1>17, AnswerEffect, NamedFrame DEF PullFromRooms, Idle, place, history, Others
<1>18. ASSUME NEW r \in Slots, CountMembers(r) PROVE Named'
  BY <1>18, GoEffect, AnswerEffect, NamedFrame DEF CountMembers, Stages, Idle, place, history, Others
<1>19. ASSUME NEW r \in Slots, InsertRoom(r) PROVE Named'
  BY <1>19, AnswerEffect, NamedFrame DEF InsertRoom, Idle, place, history, Others
<1>20. ASSUME NEW r \in Slots, CheckTarget(r) PROVE Named'
  BY <1>20, GoEffect, AnswerEffect, NamedFrame DEF CheckTarget, Stages, Idle, place, history, Others
<1>21. ASSUME NEW r \in Slots, AddToSet(r) PROVE Named'
  BY <1>21, AnswerEffect, NamedFrame DEF AddToSet, Idle, place, history, Others
<1>22. ASSUME NEW r \in Slots, Take(r) PROVE Named'
  BY <1>22, AnswerEffect, NamedFrame DEF Take, Idle, place, history, Others
<1>23. ASSUME NEW r \in Slots, DeleteRoom(r) PROVE Named'
  BY <1>23, AnswerEffect, NamedFrame DEF DeleteRoom, Idle, place, history, Others
<1>24. ASSUME NEW r \in Slots, InsertWorkspace(r) PROVE Named'
  BY <1>24, GoEffect, NamedFrame DEF InsertWorkspace, Stages, place, history, Others
<1>25. ASSUME NEW r \in Slots, InsertOwner(r) PROVE Named'
  BY <1>25, GoEffect, NamedFrame DEF InsertOwner, Stages, place, history, Others
<1>26. ASSUME NEW r \in Slots, InsertGeneral(r) PROVE Named'
  <2>1. Others(r) /\ req'[r].at = "idle" /\ UNCHANGED <<renamed, ending>> /\ general' = "live"
    BY <1>26, AnswerEffect DEF InsertGeneral, Others, Idle
  <2> QED BY <2>1 DEF Named, Others, At
<1>27. ASSUME NEW r \in Slots, PurgeRows(r) PROVE Named'
  BY <1>27, PurgedEffect, NamedFrame DEF PurgeRows, Idle, Parts, place, history, Others
<1>28. ASSUME NEW r \in Slots, PurgeChannels(r) PROVE Named'
  <2>1. Others(r) /\ req'[r].at \in {"idle", "purge"} /\ ending /\ UNCHANGED <<renamed, ending>>
    BY <1>28, PurgedEffect DEF PurgeChannels, Others, Idle, Parts, history, Begun, At
  <2>2. general' # "renamed" /\ (general # "none" => general' # "none")
    BY <1>28 DEF PurgeChannels, Deleted
  <2> QED BY <2>1, <2>2 DEF Named, Others, At
<1>29. ASSUME NEW r \in Slots, PurgeWorkspace(r) PROVE Named'
  BY <1>29, PurgedEffect, NamedFrame DEF PurgeWorkspace, Idle, Parts, place, history, Others
<1>30. ASSUME NEW r \in Slots, SetName(r) PROVE Named'
  <2>1. Others(r) /\ req'[r].at = "idle" /\ ending' = ending
    BY <1>30, AnswerEffect DEF SetName, Others, Idle
  <2>2. (renamed => renamed') /\ (general' = "renamed" => renamed')
    BY <1>30, Zenon DEF SetName
  <2>3. /\ general' = "gone" => general = "gone"
        /\ general # "none" => general' # "none"
    BY <1>30 DEF SetName
  <2> QED BY <2>1, <2>2, <2>3 DEF Named, Others, At
<1>31. ASSUME NEW r \in Slots, CheckName(r) PROVE Named'
  <2>1. Others(r) /\ UNCHANGED <<general, renamed, ending>>
    BY <1>31, GoEffect, AnswerEffect DEF CheckName, Others, Stages, place, history
  <2>2. CASE general = "live"
    BY <1>31, <2>1, <2>2, AnswerEffect, NamedFrame DEF CheckName, Idle
  <2>3. CASE general # "live"
    <3>1. req'[r].at = "erase"
      BY <1>31, <2>3, GoEffect DEF CheckName, Stages
    <3>2. general # "none"
      BY <1>31 DEF CheckName, Named, At
    <3>3. general \in {"renamed", "gone"}
      BY <2>3, <3>2 DEF TypeOK, Life
    <3>4. renamed \/ ending
      BY <3>3, Zenon DEF Named
    <3> QED BY <2>1, <3>1, <3>4 DEF Named, Others, At
  <2> QED BY <2>2, <2>3
<1>32. ASSUME NEW r \in Slots, EraseGeneral(r) PROVE Named'
  <2>1. Others(r) /\ req'[r].at = "idle" /\ UNCHANGED <<renamed, ending>>
    BY <1>32, AnswerEffect DEF EraseGeneral, Others, Idle, history
  <2>2. renamed \/ ending
    BY <1>32, Zenon DEF EraseGeneral, Named
  <2>3. general' # "renamed" /\ (general # "none" => general' # "none")
    BY <1>32 DEF EraseGeneral, Deleted
  <2> QED BY <2>1, <2>2, <2>3 DEF Named, Others, At
<1> QED BY <1>1, <1>2, <1>3, <1>4, <1>5, <1>6, <1>7, <1>8, <1>9, <1>10, <1>11, <1>12, <1>13,
    <1>14, <1>15, <1>16, <1>17, <1>18, <1>19, <1>20, <1>21, <1>22, <1>23, <1>24, <1>25, <1>26,
    <1>27, <1>28, <1>29, <1>30, <1>31, <1>32, SentEffect DEF Next, Steps

(* Nothing is lost that the creation has written.                           *)
LEMMA FoundedFrame ==
  ASSUME Founded, NEW r \in Slots, Others(r), req[r].at \notin {"owner", "general"},
         ws' = ws, general' = general, renamed => renamed', half \subseteq half', ~ending' => ~ending,
         row[Owner] = "admin" => row'[Owner] = "admin"
  PROVE  Founded'
<1>1. \A s \in Slots : /\ At(s, "owner") => At(s, "owner")'
                       /\ At(s, "general") => At(s, "general")'
  BY DEF At, Others
<1> QED BY <1>1 DEF Founded, Admin

LEMMA FoundedStep ==
  ASSUME TypeOK, Fits, Begun, Named, Founded, [Next]_vars
  PROVE  Founded'
<1>1. CASE UNCHANGED vars
  BY <1>1 DEF vars, place, history, Founded, Admin, At
<1>2. ASSUME Accounts PROVE Founded'
  BY <1>2, AccountsEffect DEF Founded, Admin, At, place, history
<1>3. ASSUME NEW u \in Users, NEW v \in Users, WithdrawInvite(u, v) PROVE Founded'
  BY <1>3 DEF WithdrawInvite, Founded, Admin, At, history
<1>4. ASSUME NEW r \in Slots, Sending(r) PROVE Founded'
  <2>1. Others(r) /\ UNCHANGED <<ws, row, general, renamed, half>> /\ req[r].at = "idle"
    BY <1>4 DEF Sending, place, Idle
  <2>2. ~ending' => ~ending
    BY <1>4 DEF Sending
  <2> QED BY <2>1, <2>2, FoundedFrame
<1>5. ASSUME NEW r \in Slots, BreakOff(r) PROVE Founded'
  <2>1. Others(r) /\ UNCHANGED <<ws, row, general, ending, renamed>>
        /\ half' = half \cup {<<req[r].kind, req[r].for>>}
    BY <1>5, AnswerEffect DEF BreakOff, Others, place
  <2>2. CASE req[r].kind = "create"
    BY <2>1, <2>2 DEF Founded, Fits, Fit
  <2>3. CASE req[r].kind # "create"
    <3>1. req[r].at \notin {"owner", "general"}
      BY <2>3 DEF Fits, Fit
    <3> QED BY <2>1, <3>1, FoundedFrame
  <2> QED BY <2>2, <2>3
<1>6. ASSUME NEW r \in Slots, SaveVerified(r) PROVE Founded'
  BY <1>6, GoEffect, FoundedFrame DEF SaveVerified, Stages, At, place, private, history, Others
<1>7. ASSUME NEW r \in Slots, FindInvites(r) PROVE Founded'
  BY <1>7, GoEffect, AnswerEffect, FoundedFrame DEF FindInvites, Stages, Idle, At, people, place,
      private, history, Others
<1>8. ASSUME NEW r \in Slots, CheckWorkspace(r) PROVE Founded'
  BY <1>8, GoEffect, FoundedFrame DEF CheckWorkspace, Stages, At, people, place, private, history,
      Others
<1>9. ASSUME NEW r \in Slots, DeleteInvite(r) PROVE Founded'
  BY <1>9, AnswerEffect, FoundedFrame DEF DeleteInvite, Idle, At, people, private, history, Others
<1>10. ASSUME NEW r \in Slots, LookUpAccount(r) PROVE Founded'
  BY <1>10, GoEffect, FoundedFrame DEF LookUpAccount, Stages, At, people, place, private, history,
      Others
<1>11. ASSUME NEW r \in Slots, UpsertInvite(r) PROVE Founded'
  BY <1>11, AnswerEffect, FoundedFrame DEF UpsertInvite, Idle, At, people, private, Others
<1>12. ASSUME NEW r \in Slots, LookForRow(r) PROVE Founded'
  BY <1>12, GoEffect, AnswerEffect, FoundedFrame DEF LookForRow, Stages, Idle, At, people, place,
      private, history, Others
<1>13. ASSUME NEW r \in Slots, AddMember(r) PROVE Founded'
  <2>1. Others(r) /\ UNCHANGED <<ws, general, half, ending, renamed>>
    BY <1>13, GoEffect, AnswerEffect DEF AddMember, Others, Stages
  <2>2. row[Owner] = "admin" => row'[Owner] = "admin"
    BY <1>13, OwnerAssumption DEF AddMember, Member, TypeOK
  <2> QED BY <1>13, <2>1, <2>2, FoundedFrame DEF AddMember, At
<1>14. ASSUME NEW r \in Slots, SetRole(r) PROVE Founded'
  <2>1. Others(r) /\ UNCHANGED <<ws, general, half, ending, renamed>> /\ req[r].for # Owner
    BY <1>14, AnswerEffect DEF SetRole, Others, history, Fits, Fit, At
  <2>2. row'[Owner] = row[Owner]
    BY <1>14, <2>1, OwnerAssumption DEF SetRole, TypeOK
  <2> QED BY <1>14, <2>1, <2>2, FoundedFrame DEF SetRole, At
<1>15. ASSUME NEW r \in Slots, DropRow(r) PROVE Founded'
  <2>1. Others(r) /\ UNCHANGED <<ws, general, half, ending, renamed>> /\ req[r].for # Owner
    BY <1>15, GoEffect, AnswerEffect DEF DropRow, Others, Stages, Fits, Fit, At
  <2>2. row'[Owner] = row[Owner]
    BY <1>15, <2>1, OwnerAssumption DEF DropRow, TypeOK
  <2> QED BY <1>15, <2>1, <2>2, FoundedFrame DEF DropRow, At
<1>16. ASSUME NEW r \in Slots, FindRooms(r) PROVE Founded'
  BY <1>16, GoEffect, AnswerEffect, FoundedFrame DEF FindRooms, Stages, Idle, At, people, place,
      private, history, Others
<1>17. ASSUME NEW r \in Slots, PullFromRooms(r) PROVE Founded'
  BY <1>17, AnswerEffect, FoundedFrame DEF PullFromRooms, Idle, At, people, place, history, Others
<1>18. ASSUME NEW r \in Slots, CountMembers(r) PROVE Founded'
  BY <1>18, GoEffect, AnswerEffect, FoundedFrame DEF CountMembers, Stages, Idle, At, people,
      place, private, history, Others
<1>19. ASSUME NEW r \in Slots, InsertRoom(r) PROVE Founded'
  BY <1>19, AnswerEffect, FoundedFrame DEF InsertRoom, Idle, At, private, people, place, Others
<1>20. ASSUME NEW r \in Slots, CheckTarget(r) PROVE Founded'
  BY <1>20, GoEffect, AnswerEffect, FoundedFrame DEF CheckTarget, Stages, Idle, At, people, place,
      private, history, Others
<1>21. ASSUME NEW r \in Slots, AddToSet(r) PROVE Founded'
  BY <1>21, AnswerEffect, FoundedFrame DEF AddToSet, Idle, At, people, place, history, Others
<1>22. ASSUME NEW r \in Slots, Take(r) PROVE Founded'
  BY <1>22, AnswerEffect, FoundedFrame DEF Take, Idle, At, people, place, history, Others
<1>23. ASSUME NEW r \in Slots, DeleteRoom(r) PROVE Founded'
  BY <1>23, AnswerEffect, FoundedFrame DEF DeleteRoom, Idle, At, people, place, history, Others
<1>24. ASSUME NEW r \in Slots, InsertWorkspace(r) PROVE Founded'
  <2>1. At(r, "owner")'
    BY <1>24, GoEffect DEF InsertWorkspace, Stages, At
  <2> QED BY <2>1 DEF Founded
<1>25. ASSUME NEW r \in Slots, InsertOwner(r) PROVE Founded'
  <2>1. At(r, "general")'
    BY <1>25, GoEffect DEF InsertOwner, Stages, At
  <2>2. Admin(Owner)'
    BY <1>25, OwnerAssumption DEF InsertOwner, Admin, TypeOK
  <2> QED BY <2>1, <2>2 DEF Founded
<1>26. ASSUME NEW r \in Slots, InsertGeneral(r) PROVE Founded'
  <2>1. Others(r) /\ UNCHANGED <<ws, row, half, ending>> /\ general' = "live"
    BY <1>26, AnswerEffect DEF InsertGeneral, Others
  <2>2. \A s \in Slots : At(s, "owner") => At(s, "owner")'
    BY <1>26, <2>1 DEF InsertGeneral, Others, At
  <2> QED BY <2>1, <2>2 DEF Founded, Admin
<1>27. ASSUME NEW r \in Slots, PurgeRows(r) PROVE Founded'
  BY <1>27 DEF PurgeRows, Purged, Begun, Founded, history
<1>28. ASSUME NEW r \in Slots, PurgeChannels(r) PROVE Founded'
  BY <1>28 DEF PurgeChannels, Purged, Begun, Founded, history
<1>29. ASSUME NEW r \in Slots, PurgeWorkspace(r) PROVE Founded'
  BY <1>29 DEF PurgeWorkspace, Purged, Begun, Founded, history
<1>30. ASSUME NEW r \in Slots, SetName(r) PROVE Founded'
  <2>1. Others(r) /\ UNCHANGED <<ws, row, half, ending>> /\ (general' = general \/ renamed' \/ general' = "live")
        /\ (renamed => renamed')
    BY <1>30, AnswerEffect DEF SetName, Others
  <2>2. \A s \in Slots : /\ At(s, "owner") => At(s, "owner")'
                         /\ At(s, "general") => At(s, "general")'
    BY <1>30, <2>1 DEF SetName, Others, At
  <2> QED BY <2>1, <2>2 DEF Founded, Admin
<1>31. ASSUME NEW r \in Slots, CheckName(r) PROVE Founded'
  BY <1>31, GoEffect, AnswerEffect, FoundedFrame DEF CheckName, Stages, Idle, At, people, place,
      private, history, Others
<1>32. ASSUME NEW r \in Slots, EraseGeneral(r) PROVE Founded'
  <2>1. Others(r) /\ UNCHANGED <<ws, row, half, ending, renamed>> /\ (renamed \/ ending)
    BY <1>32, AnswerEffect DEF EraseGeneral, Others, At, history, Named
  <2>2. \A s \in Slots : /\ At(s, "owner") => At(s, "owner")'
                         /\ At(s, "general") => At(s, "general")'
    BY <1>32, <2>1 DEF EraseGeneral, Others, At
  <2> QED BY <2>1, <2>2 DEF Founded, Admin
<1> QED BY <1>1, <1>2, <1>3, <1>4, <1>5, <1>6, <1>7, <1>8, <1>9, <1>10, <1>11, <1>12, <1>13,
    <1>14, <1>15, <1>16, <1>17, <1>18, <1>19, <1>20, <1>21, <1>22, <1>23, <1>24, <1>25, <1>26,
    <1>27, <1>28, <1>29, <1>30, <1>31, <1>32, SentEffect DEF Next, Steps

(* What is gone stays gone, and who deletes goes on.                        *)
LEMMA PurgingFrame ==
  ASSUME Purging, NEW r \in Slots, Others(r), req[r].at # "purge",
         ending' => ending, ~overtaken' => ~overtaken, half \subseteq half',
         (\A u \in Users : ~Member(u)) => \A u \in Users : row'[u] = "none",
         general \notin {"live", "renamed"} => general' \notin {"live", "renamed"},
         room' = room \/ room' # "live",
         ws' = ws
  PROVE  Purging'
<1>1. ASSUME NEW part, Left(part) PROVE Left(part)'
  BY <1>1 DEF Left, Purges, Others
<1> QED BY <1>1 DEF Purging, Member

LEMMA PurgedPart ==
  ASSUME TypeOK, NEW r \in Slots, NEW part \in Parts, Purged(r, part)
  PROVE  \A p \in Parts \ {part} : Left(p) => Left(p)'
<1> SUFFICES ASSUME NEW p \in Parts \ {part}, NEW s \in Slots, Purges(req[s], p)
             PROVE  Purges(req'[s], p)
  BY DEF Left
<1>1. CASE s # r
  BY <1>1, PurgedEffect
<1>2. CASE s = r
  BY <1>2, PurgedEffect DEF Purges
<1> QED BY <1>1, <1>2

LEMMA PurgingStep ==
  ASSUME TypeOK, Fits, Founding, Purging, [Next]_vars
  PROVE  Purging'
<1>1. CASE UNCHANGED vars
  BY <1>1 DEF vars, place, private, history, Purging, Left, Purges, Member
<1>2. ASSUME Accounts PROVE Purging'
  BY <1>2, AccountsEffect DEF Purging, Left, Purges, Member, place, private, history
<1>3. ASSUME NEW u \in Users, NEW v \in Users, WithdrawInvite(u, v) PROVE Purging'
  BY <1>3 DEF WithdrawInvite, Purging, Left, Purges, Member, private, history
<1>4. ASSUME NEW r \in Slots, Sending(r) PROVE Purging'
  <2>1. Others(r) /\ UNCHANGED <<ws, row, general, room, half, overtaken>> /\ req[r].at = "idle"
    BY <1>4 DEF Sending, place, private, Idle
  <2>2. CASE req'[r].at = "purge"
    <3>1. \A part \in Parts : Left(part)'
      BY <1>4, <2>2 DEF Sending, Left, Purges
    <3> QED BY <3>1 DEF Purging, Parts
  <2>3. CASE req'[r].at # "purge"
    <3>1. ending' = ending
      BY <1>4, <2>3 DEF Sending
    <3> QED BY <2>1, <3>1, PurgingFrame DEF Member
  <2> QED BY <2>2, <2>3
<1>5. ASSUME NEW r \in Slots, BreakOff(r) PROVE Purging'
  <2>1. Others(r) /\ UNCHANGED <<ws, row, general, room, ending, overtaken>>
        /\ half' = half \cup {<<req[r].kind, req[r].for>>}
    BY <1>5, AnswerEffect DEF BreakOff, Others, place, private
  <2>2. CASE req[r].kind = "delete"
    BY <2>1, <2>2 DEF Purging, Fits, Fit
  <2>3. CASE req[r].kind # "delete"
    <3>1. req[r].at # "purge"
      BY <2>3 DEF Fits, Fit
    <3> QED BY <2>1, <3>1, PurgingFrame DEF Member, TypeOK
  <2> QED BY <2>2, <2>3
<1>6. ASSUME NEW r \in Slots, SaveVerified(r) PROVE Purging'
  BY <1>6, GoEffect, PurgingFrame DEF SaveVerified, Stages, At, place, private, history, Others,
      Member
<1>7. ASSUME NEW r \in Slots, FindInvites(r) PROVE Purging'
  BY <1>7, GoEffect, AnswerEffect, PurgingFrame DEF FindInvites, Stages, Idle, At, people, place,
      private, history, Others, Member
<1>8. ASSUME NEW r \in Slots, CheckWorkspace(r) PROVE Purging'
  BY <1>8, GoEffect, PurgingFrame DEF CheckWorkspace, Stages, At, people, place, private, history,
      Others, Member
<1>9. ASSUME NEW r \in Slots, DeleteInvite(r) PROVE Purging'
  BY <1>9, AnswerEffect, PurgingFrame DEF DeleteInvite, Idle, At, people, private, history,
      Others, Member
<1>10. ASSUME NEW r \in Slots, LookUpAccount(r) PROVE Purging'
  BY <1>10, GoEffect, PurgingFrame DEF LookUpAccount, Stages, At, people, place, private, history,
      Others, Member
<1>11. ASSUME NEW r \in Slots, UpsertInvite(r) PROVE Purging'
  BY <1>11, AnswerEffect, PurgingFrame DEF UpsertInvite, Idle, At, people, private, Others, Member
<1>12. ASSUME NEW r \in Slots, LookForRow(r) PROVE Purging'
  BY <1>12, GoEffect, AnswerEffect, PurgingFrame DEF LookForRow, Stages, Idle, At, people, place,
      private, history, Others, Member
<1>13. ASSUME NEW r \in Slots, AddMember(r) PROVE Purging'
  <2>1. CASE Member(req[r].for)
    <3>1. Others(r) /\ UNCHANGED <<ws, row, general, room, ending, overtaken, half>>
      BY <1>13, <2>1, AnswerEffect DEF AddMember, Others, private
    <3> QED BY <1>13, <3>1, PurgingFrame DEF AddMember, At, Member, TypeOK
  <2>2. CASE ~Member(req[r].for)
    BY <1>13, <2>2 DEF AddMember, Purging
  <2> QED BY <2>1, <2>2
<1>14. ASSUME NEW r \in Slots, SetRole(r) PROVE Purging'
  <2>1. Others(r) /\ UNCHANGED <<ws, general, room, ending, overtaken, half>>
    BY <1>14, AnswerEffect DEF SetRole, Others, private, history
  <2>2. (\A u \in Users : ~Member(u)) => \A u \in Users : row'[u] = "none"
    BY <1>14 DEF SetRole, Member, TypeOK
  <2> QED BY <1>14, <2>1, <2>2, PurgingFrame DEF SetRole, At
<1>15. ASSUME NEW r \in Slots, DropRow(r) PROVE Purging'
  <2>1. Others(r) /\ UNCHANGED <<ws, general, room, ending, overtaken, half>>
    BY <1>15, GoEffect, AnswerEffect DEF DropRow, Others, Stages, private
  <2>2. (\A u \in Users : ~Member(u)) => \A u \in Users : row'[u] = "none"
    BY <1>15 DEF DropRow, Member, TypeOK
  <2> QED BY <1>15, <2>1, <2>2, PurgingFrame DEF DropRow, At
<1>16. ASSUME NEW r \in Slots, FindRooms(r) PROVE Purging'
  BY <1>16, GoEffect, AnswerEffect, PurgingFrame DEF FindRooms, Stages, Idle, At, people, place,
      private, history, Others, Member
<1>17. ASSUME NEW r \in Slots, PullFromRooms(r) PROVE Purging'
  BY <1>17, AnswerEffect, PurgingFrame DEF PullFromRooms, Idle, At, people, place, history,
      Others, Member
<1>18. ASSUME NEW r \in Slots, CountMembers(r) PROVE Purging'
  BY <1>18, GoEffect, AnswerEffect, PurgingFrame DEF CountMembers, Stages, Idle, At, people,
      place, private, history, Others, Member
<1>19. ASSUME NEW r \in Slots, InsertRoom(r) PROVE Purging'
  <2>1. CASE room = "none"
    BY <1>19, <2>1 DEF InsertRoom, Purging
  <2>2. CASE room # "none"
    <3>1. Others(r) /\ UNCHANGED <<ws, row, general, room, ending, overtaken, half>>
      BY <1>19, <2>2, AnswerEffect DEF InsertRoom, Others, place, private
    <3> QED BY <1>19, <3>1, PurgingFrame DEF InsertRoom, At, Member, TypeOK
  <2> QED BY <2>1, <2>2
<1>20. ASSUME NEW r \in Slots, CheckTarget(r) PROVE Purging'
  BY <1>20, GoEffect, AnswerEffect, PurgingFrame DEF CheckTarget, Stages, Idle, At, people, place,
      private, history, Others, Member
<1>21. ASSUME NEW r \in Slots, AddToSet(r) PROVE Purging'
  BY <1>21, AnswerEffect, PurgingFrame DEF AddToSet, Idle, At, people, place, history, Others,
      Member
<1>22. ASSUME NEW r \in Slots, Take(r) PROVE Purging'
  BY <1>22, AnswerEffect, PurgingFrame DEF Take, Idle, At, people, place, history, Others, Member
<1>23. ASSUME NEW r \in Slots, DeleteRoom(r) PROVE Purging'
  <2>1. Others(r) /\ UNCHANGED <<ws, row, general, ending, overtaken, half>> /\ (room' = room \/ room' # "live")
    BY <1>23, AnswerEffect DEF DeleteRoom, Others, place, history, Deleted
  <2> QED BY <1>23, <2>1, PurgingFrame DEF DeleteRoom, At, Member
<1>24. ASSUME NEW r \in Slots, InsertWorkspace(r) PROVE Purging'
  <2>1. ~ending /\ ending' = ending
    BY <1>24 DEF InsertWorkspace, Founding, Untouched, history
  <2> QED BY <2>1 DEF Purging
<1>25. ASSUME NEW r \in Slots, InsertOwner(r) PROVE Purging'
  <2>1. ~ending /\ ending' = ending
    BY <1>25 DEF InsertOwner, Founding, Untouched, history
  <2> QED BY <2>1 DEF Purging
<1>26. ASSUME NEW r \in Slots, InsertGeneral(r) PROVE Purging'
  BY <1>26 DEF InsertGeneral, Purging
<1>27. ASSUME NEW r \in Slots, PurgeRows(r) PROVE Purging'
  <2>1. \A p \in Parts \ {"rows"} : Left(p) => Left(p)'
    BY <1>27, PurgedPart DEF PurgeRows, Parts
  <2> QED BY <1>27, <2>1 DEF PurgeRows, Purging, Parts, private, history, Member
<1>28. ASSUME NEW r \in Slots, PurgeChannels(r) PROVE Purging'
  <2>1. \A p \in Parts \ {"channels"} : Left(p) => Left(p)'
    BY <1>28, PurgedPart DEF PurgeChannels, Parts
  <2> QED BY <1>28, <2>1 DEF PurgeChannels, Purging, Parts, private, history, Deleted, Member
<1>29. ASSUME NEW r \in Slots, PurgeWorkspace(r) PROVE Purging'
  <2>1. \A p \in Parts \ {"workspace"} : Left(p) => Left(p)'
    BY <1>29, PurgedPart DEF PurgeWorkspace, Parts
  <2> QED BY <1>29, <2>1 DEF PurgeWorkspace, Purging, Parts, private, history, Member
<1>30. ASSUME NEW r \in Slots, SetName(r) PROVE Purging'
  <2>1. Others(r) /\ UNCHANGED <<ws, row, room, ending, overtaken, half>>
        /\ (general \notin {"live", "renamed"} => general' = general)
    BY <1>30, AnswerEffect DEF SetName, Others, private
  <2> QED BY <1>30, <2>1, PurgingFrame DEF SetName, At, Member
<1>31. ASSUME NEW r \in Slots, CheckName(r) PROVE Purging'
  BY <1>31, GoEffect, AnswerEffect, PurgingFrame DEF CheckName, Stages, Idle, At, people, place,
      private, history, Others, Member
<1>32. ASSUME NEW r \in Slots, EraseGeneral(r) PROVE Purging'
  <2>1. Others(r) /\ UNCHANGED <<ws, row, room, ending, overtaken, half>>
        /\ general' \notin {"live", "renamed"}
    BY <1>32, AnswerEffect DEF EraseGeneral, Others, private, history, Deleted
  <2> QED BY <1>32, <2>1, PurgingFrame DEF EraseGeneral, At, Member
<1> QED BY <1>1, <1>2, <1>3, <1>4, <1>5, <1>6, <1>7, <1>8, <1>9, <1>10, <1>11, <1>12, <1>13,
    <1>14, <1>15, <1>16, <1>17, <1>18, <1>19, <1>20, <1>21, <1>22, <1>23, <1>24, <1>25, <1>26,
    <1>27, <1>28, <1>29, <1>30, <1>31, <1>32, SentEffect DEF Next, Steps

(* What holds of a workspace in every state.                                *)
WorkspaceInv ==
  /\ TypeOK /\ Fits /\ Begun /\ Founding
  /\ ~ending => Checked /\ Rooted
  /\ Redeemed /\ Named /\ Founded /\ Purging

LEMMA WorkspaceInitially == Init => WorkspaceInv
<1> SUFFICES ASSUME Init PROVE WorkspaceInv
  OBVIOUS
<1>1. TypeOK
  <2>1. req \in [Slots -> Requests]
    BY IdleType DEF Init
  <2>2. account \in [Users -> {"none", "new", "verified"}] /\ row \in [Users -> Roles]
        /\ links \in [Users -> SUBSET {"verify", "reset"}]
    BY DEF Init, Roles
  <2>3. sent \in 0..MaxRequests /\ faults \in 0..MaxFaults
    BY LimitAssumption DEF Init
  <2> QED BY <2>1, <2>2, <2>3, OwnerAssumption DEF Init, TypeOK, Requests, Life
<1>2. \A r \in Slots : req[r] = Idle
  BY DEF Init
<1>3. Fits
  BY <1>2, IdleFits DEF Fits
<1>4. Begun /\ Founding
  BY <1>2 DEF Init, Begun, Founding, Untouched, Member, At, Idle
<1>5. Checked /\ Rooted
  BY <1>2 DEF Init, Checked, Rooted, At, Idle
<1>6. Redeemed /\ Named /\ Founded /\ Purging
  BY <1>2 DEF Init, Redeemed, Named, Founded, Purging, At, Idle
<1> QED BY <1>1, <1>3, <1>4, <1>5, <1>6 DEF WorkspaceInv

LEMMA WorkspaceKept == WorkspaceInv /\ [Next]_vars => WorkspaceInv'
<1> SUFFICES ASSUME WorkspaceInv, [Next]_vars PROVE WorkspaceInv'
  OBVIOUS
<1>1. TypeOK' /\ Fits' /\ Begun' /\ Founding'
  BY TypeStep, FitsStep, BegunStep, FoundingStep DEF WorkspaceInv
<1>2. ~ending' => Checked' /\ Rooted'
  BY CheckedStep, RootedStep DEF WorkspaceInv
<1>3. Redeemed' /\ Named' /\ Founded' /\ Purging'
  BY RedeemedStep, NamedStep, FoundedStep, PurgingStep DEF WorkspaceInv
<1> QED BY <1>1, <1>2, <1>3 DEF WorkspaceInv

LEMMA WorkspaceAlways == Spec => []WorkspaceInv
BY WorkspaceInitially, WorkspaceKept, PTL DEF Spec

LEMMA NothingUnderWay ==
  ASSUME Quiet
  PROVE  \A r \in Slots : req[r].at = "idle"
BY DEF Quiet, Idle

(* Every variable of the workspace stays in its range.                      *)
THEOREM WorkspaceTyped == Spec => []TypeOK
BY WorkspaceAlways, PTL DEF WorkspaceInv

(* For any number of users and requests that interleave await by await:     *)
(* whoever is in the private channel belongs to the workspace, unless a     *)
(* removal broke off or crossed a channel write that had checked the user.  *)
THEOREM NobodyStaysInside == Spec => []InsidersOnly
<1>1. WorkspaceInv => InsidersOnly
  BY NothingUnderWay DEF WorkspaceInv, InsidersOnly, Rooted, Vouched, Removing, Removes
<1> QED BY <1>1, WorkspaceAlways, PTL

(* No invitation outlives the verification of its address, but for those    *)
(* written too late, and redemptions that broke off or lost to another way in. *)
THEOREM InvitationsEnd == Spec => []InviteHonoured
<1>1. WorkspaceInv => InviteHonoured
  BY NothingUnderWay DEF WorkspaceInv, InviteHonoured, Redeemed, Redeeming, Redeems
<1> QED BY <1>1, WorkspaceAlways, PTL

(* A workspace whose creation did not break off has its owner until it is   *)
(* deleted, and #general unless it was given another name.  A deletion that *)
(* did not break off, and that nothing was created under, leaves no member, *)
(* no channel and no workspace, in whatever order it went; invitations are  *)
(* not its business.                                                        *)
THEOREM NeverInPieces == Spec => []WholeOrGone
<1>1. WorkspaceInv /\ Quiet /\ ws = "live" /\ ~ending /\ <<"create", Owner>> \notin half =>
        Admin(Owner) /\ (general = "live" \/ renamed)
  BY NothingUnderWay DEF WorkspaceInv, Founded, At
<1>2. WorkspaceInv /\ Quiet /\ ending /\ ~overtaken /\ <<"delete", Owner>> \notin half =>
        /\ ws = "gone" /\ general \notin {"live", "renamed"} /\ room # "live"
        /\ \A u \in Users : ~Member(u)
  BY NothingUnderWay DEF WorkspaceInv, Purging, Left, Purges
<1>3. WorkspaceInv => WholeOrGone
  BY <1>1, <1>2 DEF WholeOrGone
<1> QED BY <1>3, WorkspaceAlways, PTL

-----------------------------------------------------------------------------
(* The member cache: its inductive invariant                                *)

(* An entry ages no faster than its key runs down, and what a call has read *)
(* is no older than the call's own clock.                                   *)
Recent ==
  /\ \A u \in members : ago[u] = 0
  /\ \A u \in cache : Cached /\ ago[u] + ttl <= Long
  /\ \A r \in Call : \A u \in got[r] : phase[r] = "fill" /\ ago[u] <= age[r]

(* A call no change has overtaken holds what MongoDB holds. *)
CleanCalls ==
  \A r \in Call : ~dirty[r] =>
    /\ phase[r] \in {"rows", "fill"} => exists
    /\ phase[r] = "fill" => got[r] = members

(* While an entry differs from MongoDB, some request has yet to delete it,  *)
(* or to end without: not one that has only listed the channels so far.     *)
(* (The request that finds no public channel any more deletes nothing, but  *)
(* then the one that deleted the channel still has to.)                     *)
Excused ==
  Cached /\ ~tainted =>
    /\ exists /\ cache # members => \E w \in Request : stage[w] \notin {"idle", "purge"}
    /\ ~exists => \E w \in Request : stage[w] \in {"rows", "del"}

-----------------------------------------------------------------------------
(* Type correctness *)

LEMMA CacheInitType == CacheInit => CacheTypeOK
<1> SUFFICES ASSUME CacheInit PROVE CacheTypeOK
  OBVIOUS
<1> USE TimeAssumption, BoundAssumption
<1>1. Long \in Nat
  BY DEF Long
<1>2. ago \in [User -> 0..Long] /\ members \subseteq User
  BY <1>1 DEF CacheInit
<1>3. ttl \in 0..Ttl /\ changes \in 0..MaxChanges /\ age \in [Call -> 0..MaxHold]
  BY DEF CacheInit
<1> QED
  BY <1>2, <1>3 DEF CacheInit, CacheTypeOK, Stage, Phase

(* What the requests share: a write keeps the types of what it touches. *)
LEMMA WriteType ==
  /\ \A M \in SUBSET User : CacheTypeOK /\ SetMembers(M) =>
       /\ status' \in {"new", "live", "gone"} /\ kind' \in {"public", "private"}
       /\ members' \subseteq User /\ ago' \in [User -> 0..Long]
       /\ dirty' \in [Call -> BOOLEAN]
  /\ CacheTypeOK /\ DeleteDoc =>
       /\ status' \in {"new", "live", "gone"} /\ kind' \in {"public", "private"}
       /\ members' \subseteq User /\ ago' \in [User -> 0..Long]
       /\ dirty' \in [Call -> BOOLEAN]
<1>1. ASSUME CacheTypeOK PROVE 0 \in 0..Long
  BY TimeAssumption DEF Long
<1>2. ASSUME NEW M \in SUBSET User, CacheTypeOK, SetMembers(M)
      PROVE  ago' \in [User -> 0..Long] /\ dirty' \in [Call -> BOOLEAN]
  <2>1. ago' \in [User -> 0..Long]
    BY <1>1, <1>2 DEF SetMembers, CacheTypeOK
  <2>2. dirty' \in [Call -> BOOLEAN]
    BY <1>2, Zenon DEF SetMembers, CacheTypeOK
  <2> QED BY <2>1, <2>2
<1>3. ASSUME CacheTypeOK, DeleteDoc PROVE dirty' \in [Call -> BOOLEAN]
  BY <1>3, Zenon DEF DeleteDoc, CacheTypeOK
<1> QED
  BY <1>2, <1>3 DEF SetMembers, DeleteDoc, CacheTypeOK

LEMMA StartType ==
  ASSUME CacheTypeOK, NEW w \in Request, NEW n \in Stage, Start(w, n)
  PROVE  stage' \in [Request -> Stage] /\ changes' \in 0..MaxChanges
BY BoundAssumption DEF Start, CacheTypeOK

LEMMA RequestType == CacheTypeOK /\ (\E w \in Request : RequestStep(w)) => CacheTypeOK'
<1> SUFFICES ASSUME CacheTypeOK, NEW w \in Request, RequestStep(w) PROVE CacheTypeOK'
  OBVIOUS
<1>1. /\ AfterWrite \in Stage /\ "del" \in Stage /\ "rows" \in Stage
      /\ "doc" \in Stage /\ "idle" \in Stage /\ "purge" \in Stage
  BY DEF AfterWrite, Stage
<1>2. CASE \E u \in User : AddMemberWrite(w, u)
  <2>1. PICK u \in User : AddMemberWrite(w, u)
    BY <1>2
  <2>2. barred' \in [Call -> BOOLEAN]
    BY <2>1, Zenon DEF AddMemberWrite, CacheTypeOK
  <2>3. members \cup {u} \in SUBSET User
    BY DEF CacheTypeOK
  <2> QED BY <1>1, <2>1, <2>2, <2>3, StartType, WriteType DEF AddMemberWrite, CacheTypeOK, redis
<1>3. CASE \E u \in User : RemoveMemberWrite(w, u)
  <2>1. PICK u \in User : RemoveMemberWrite(w, u)
    BY <1>3
  <2>2. members \ {u} \in SUBSET User
    BY DEF CacheTypeOK
  <2> QED BY <1>1, <2>1, <2>2, StartType, WriteType DEF RemoveMemberWrite, CacheTypeOK, redis
<1>4. CASE DeleteChannel(w)
  BY <1>1, <1>4, StartType, WriteType DEF DeleteChannel, CacheTypeOK, redis
<1>5. CASE DeleteWorkspaceWrite(w)
  <2>1. stage' \in [Request -> Stage]
    BY <1>1, <1>5 DEF DeleteWorkspaceWrite, Swept, CacheTypeOK
  <2>3. Cached \in BOOLEAN /\ tainted \in BOOLEAN
    BY DEF Cached, CacheTypeOK
  <2>4. tainted' \in BOOLEAN
    BY <1>5, <2>3, Zenon DEF DeleteWorkspaceWrite, Swept
  <2> QED BY <1>5, <2>1, <2>4, WriteType DEF DeleteWorkspaceWrite, CacheTypeOK, redis
<1>6. CASE DeleteWorkspaceRest(w)
  <2>1. stage' \in [Request -> Stage]
    BY <1>1, <1>6 DEF DeleteWorkspaceRest, Swept, CacheTypeOK
  <2>4. Cached \in BOOLEAN /\ tainted \in BOOLEAN
    BY DEF Cached, CacheTypeOK
  <2>5. tainted' \in BOOLEAN
    BY <1>6, <2>4, Zenon DEF DeleteWorkspaceRest, Swept
  <2>2. CASE DeleteDoc
    BY <1>6, <2>1, <2>2, <2>5, WriteType DEF DeleteWorkspaceRest, CacheTypeOK, redis
  <2>3. CASE SetMembers({})
    BY <1>6, <2>1, <2>3, <2>5, WriteType DEF DeleteWorkspaceRest, CacheTypeOK, redis
  <2> QED BY <1>6, <2>2, <2>3 DEF DeleteWorkspaceRest
<1>10. CASE ListChannels(w)
  BY <1>1, <1>10, StartType DEF ListChannels, CacheTypeOK, db, redis, calls
<1>7. CASE FindChannels(w)
  BY <1>1, <1>7 DEF FindChannels, CacheTypeOK, db, redis, calls
<1>8. CASE Invalidate(w)
  <2>1. stage' \in [Request -> Stage] /\ cache' \subseteq User /\ ttl' \in 0..Ttl
    BY <1>1, <1>8, TimeAssumption DEF Invalidate, CacheTypeOK
  <2>2. tainted' \in BOOLEAN
    BY <1>8 DEF Invalidate
  <2> QED BY <1>8, <2>1, <2>2 DEF Invalidate, CacheTypeOK, db, calls
<1>9. CASE RequestFails(w)
  <2>1. Cached \in BOOLEAN /\ tainted \in BOOLEAN
    BY DEF Cached, CacheTypeOK
  <2>2. tainted' \in BOOLEAN
    BY <1>9, <2>1, Zenon DEF RequestFails
  <2> QED BY <1>1, <1>9, <2>2 DEF RequestFails, CacheTypeOK, db, redis, calls
<1> QED
  BY <1>2, <1>3, <1>4, <1>5, <1>6, <1>7, <1>8, <1>9, <1>10 DEF RequestStep

LEMMA CallType ==
  CacheTypeOK /\ (\E r \in Call : CallStep(r) \/ \E u \in User : BeginCall(r, u)) => CacheTypeOK'
<1> SUFFICES ASSUME CacheTypeOK, NEW r \in Call,
                    CallStep(r) \/ \E u \in User : BeginCall(r, u)
             PROVE  CacheTypeOK'
  OBVIOUS
<1>1. \A list : Verdict(r, list) \in Phase
  BY DEF Verdict, Phase
<1>2. ASSUME NEW u \in User, BeginCall(r, u) PROVE CacheTypeOK'
  <2>1. barred' \in [Call -> BOOLEAN]
    BY <1>2, Zenon DEF BeginCall, CacheTypeOK
  <2> QED BY <1>2, <2>1 DEF BeginCall, CacheTypeOK, db, redis, requests, Phase
<1>3. CASE Hit(r)
  BY <1>1, <1>3 DEF Hit, CacheTypeOK, db, redis, requests
<1>4. CASE Miss(r)
  BY <1>4 DEF Miss, CacheTypeOK, db, redis, requests, Phase
<1>5. CASE Load(r)
  BY <1>5 DEF Load, CacheTypeOK, db, redis, requests, Phase
<1>6. CASE ReadRows(r)
  BY <1>6 DEF ReadRows, CacheTypeOK, db, redis, requests, Phase
<1>7. ASSUME AnswerCall(r)
      PROVE  /\ phase' \in [Call -> Phase] /\ got' \in [Call -> SUBSET User]
             /\ age' \in [Call -> 0..MaxHold] /\ dirty' \in [Call -> BOOLEAN]
  BY <1>1, <1>7, TimeAssumption DEF AnswerCall, CacheTypeOK
<1>8. CASE Fill(r)
  BY <1>7, <1>8, TimeAssumption DEF Fill, CacheTypeOK, db, requests
<1>9. CASE FillFails(r)
  BY <1>7, <1>9 DEF FillFails, CacheTypeOK, db, redis, requests
<1> QED
  BY <1>2, <1>3, <1>4, <1>5, <1>6, <1>8, <1>9 DEF CallStep

LEMMA TickType == CacheTypeOK /\ Tick => CacheTypeOK'
<1> SUFFICES ASSUME CacheTypeOK, Tick PROVE CacheTypeOK'
  OBVIOUS
<1> USE TimeAssumption
<1>1. age' \in [Call -> 0..MaxHold]
  BY DEF Tick, CacheTypeOK
<1>2. ago' \in [User -> 0..Long]
  <2>1. \A u \in User : ago[u] \in 0..Long
    BY DEF CacheTypeOK
  <2>2. Long \in Nat
    BY DEF Long
  <2> QED BY <2>1, <2>2 DEF Tick, CacheTypeOK
<1>3. ttl' \in 0..Ttl /\ cache' \subseteq User
  BY DEF Tick, CacheTypeOK, Cached
<1>4. tainted' \in BOOLEAN
  BY DEF Tick
<1> QED
  BY <1>1, <1>2, <1>3, <1>4 DEF Tick, CacheTypeOK, db, requests

LEMMA CreateType == ASSUME CacheTypeOK, NEW M \in SUBSET User, CreateChannel(M) PROVE CacheTypeOK'
<1>1. ago' \in [User -> 0..Long]
  BY TimeAssumption DEF CreateChannel, CacheTypeOK, Long
<1> QED BY <1>1 DEF CreateChannel, CacheTypeOK, redis, requests, calls

LEMMA NextType == CacheTypeOK /\ [CacheNext]_cacheVars => CacheTypeOK'
<1> SUFFICES ASSUME CacheTypeOK, [CacheNext]_cacheVars PROVE CacheTypeOK'
  OBVIOUS
<1>1. CASE UNCHANGED cacheVars
  BY <1>1 DEF CacheTypeOK, cacheVars, db, redis, requests, calls
<1> QED
  BY <1>1, RequestType, CallType, CreateType, TickType DEF CacheNext

(* Every reachable state has the types the model claims. *)
THEOREM CacheTyped == CacheSpec => []CacheTypeOK
  BY CacheInitType, NextType, PTL DEF CacheSpec
-----------------------------------------------------------------------------
(* Staleness is bounded *)

LEMMA InitRecent == CacheInit => Recent
  BY DEF CacheInit, Recent

(* A write makes nobody's membership older. *)
LEMMA WriteRecent ==
  ASSUME CacheTypeOK, Recent, NEW M \in SUBSET User, SetMembers(M),
         UNCHANGED <<redis, phase, got, age>>
  PROVE  Recent'
<1>1. \A u \in User : ago[u] \in Nat /\ ago'[u] \in Nat /\ ago'[u] <= ago[u]
  BY TimeAssumption DEF CacheTypeOK, SetMembers, Long
<1>2. \A u \in members' : ago'[u] = 0
  BY DEF CacheTypeOK, SetMembers
<1>3. \A u \in cache' : Cached' /\ ago'[u] + ttl' <= Long'
  BY <1>1, TimeAssumption DEF Recent, CacheTypeOK, redis, Cached, Long
<1>4. \A r \in Call : \A u \in got'[r] : phase'[r] = "fill" /\ ago'[u] <= age'[r]
  <2> SUFFICES ASSUME NEW r \in Call, NEW u \in got[r]
               PROVE  phase[r] = "fill" /\ ago'[u] <= age[r]
    OBVIOUS
  <2>1. u \in User /\ age[r] \in Nat /\ ago[u] <= age[r] /\ phase[r] = "fill"
    BY DEF CacheTypeOK, Recent
  <2> QED BY <1>1, <2>1
<1> QED BY <1>2, <1>3, <1>4 DEF Recent

LEMMA RequestRecent ==
  CacheTypeOK /\ Recent /\ (\E w \in Request : RequestStep(w)) => Recent'
<1> SUFFICES ASSUME CacheTypeOK, Recent, NEW w \in Request, RequestStep(w) PROVE Recent'
  OBVIOUS
<1>1. CASE DeleteDoc /\ UNCHANGED <<redis, phase, got, age>>
  BY <1>1 DEF DeleteDoc, Recent, redis, Cached, Long
<1>2. CASE \E u \in User : AddMemberWrite(w, u) \/ RemoveMemberWrite(w, u)
  <2>1. PICK u \in User : AddMemberWrite(w, u) \/ RemoveMemberWrite(w, u)
    BY <1>2
  <2>2. members \cup {u} \in SUBSET User /\ members \ {u} \in SUBSET User
    BY DEF CacheTypeOK
  <2> QED BY <2>1, <2>2, WriteRecent DEF AddMemberWrite, RemoveMemberWrite
<1>3. CASE DeleteChannel(w) \/ DeleteWorkspaceWrite(w) \/ DeleteWorkspaceRest(w)
  BY <1>1, <1>3, WriteRecent DEF DeleteChannel, DeleteWorkspaceWrite, DeleteWorkspaceRest
<1>4. CASE ListChannels(w) \/ FindChannels(w) \/ RequestFails(w)
  BY <1>4 DEF ListChannels, FindChannels, RequestFails, Recent, db, redis, calls, Cached
<1>5. CASE Invalidate(w)
  BY <1>5 DEF Invalidate, Recent, db, calls
<1> QED BY <1>2, <1>3, <1>4, <1>5 DEF RequestStep

(* The members read from MongoDB now are of age 0. *)
LEMMA ReadRecent ==
  ASSUME CacheTypeOK, Recent, NEW r \in Call,
         got' = [got EXCEPT ![r] = members] \/ got' = [got EXCEPT ![r] = {}],
         got'[r] # {} => phase'[r] = "fill",
         \A q \in Call : q # r => phase'[q] = phase[q],
         UNCHANGED <<db, ago, redis, age>>
  PROVE  Recent'
<1>1. \A q \in Call : \A u \in got'[q] : phase'[q] = "fill" /\ ago'[u] <= age'[q]
  <2> SUFFICES ASSUME NEW q \in Call, NEW u \in got'[q]
               PROVE  phase'[q] = "fill" /\ ago[u] <= age[q]
    OBVIOUS
  <2>1. CASE q = r
    <3>1. u \in members
      BY <2>1 DEF CacheTypeOK
    <3>2. ago[u] = 0 /\ age[q] \in Nat
      BY <3>1 DEF Recent, CacheTypeOK
    <3> QED BY <2>1, <3>2
  <2>2. CASE q # r
    BY <2>2 DEF CacheTypeOK, Recent
  <2> QED BY <2>1, <2>2
<1> QED BY <1>1 DEF Recent, db, redis, Cached, Long

LEMMA CallRecent ==
  CacheTypeOK /\ Recent /\ (\E r \in Call : CallStep(r) \/ \E u \in User : BeginCall(r, u)) => Recent'
<1> SUFFICES ASSUME CacheTypeOK, Recent, NEW r \in Call,
                    CallStep(r) \/ \E u \in User : BeginCall(r, u)
             PROVE  Recent'
  OBVIOUS
<1>1. ASSUME phase[r] # "fill", \A q \in Call : q # r => phase'[q] = phase[q],
             UNCHANGED <<db, ago, redis, got, age>>
      PROVE  Recent'
  BY <1>1 DEF Recent, db, redis, Cached, Long
<1>2. CASE Hit(r) \/ Miss(r) \/ \E u \in User : BeginCall(r, u)
  BY <1>1, <1>2 DEF Hit, Miss, BeginCall, Resting, CacheTypeOK
<1>3. CASE Load(r)
  BY <1>3, ReadRecent DEF Load, CacheTypeOK
<1>4. CASE ReadRows(r)
  BY <1>4, ReadRecent DEF ReadRows, CacheTypeOK
<1>5. ASSUME AnswerCall(r)
      PROVE  \A q \in Call : \A u \in got'[q] : phase'[q] = "fill" /\ ago[u] <= age'[q]
  BY <1>5 DEF AnswerCall, Recent, CacheTypeOK
<1>6. CASE Fill(r)
  <2>1. \A u \in got[r] : ago[u] + Ttl <= Long
    <3> SUFFICES ASSUME NEW u \in got[r] PROVE ago[u] + Ttl <= Long
      OBVIOUS
    <3>1. ago[u] \in Nat /\ age[r] \in 0..MaxHold /\ ago[u] <= age[r]
      BY DEF CacheTypeOK, Recent
    <3> QED BY <3>1, TimeAssumption DEF Long
  <2>2. \A u \in cache' : Cached' /\ ago'[u] + ttl' <= Long'
    BY <1>6, <2>1, TimeAssumption DEF Fill, Cached, Long
  <2> QED BY <1>5, <1>6, <2>2 DEF Fill, Recent, db
<1>7. CASE FillFails(r)
  BY <1>5, <1>7 DEF FillFails, Recent, db, redis, Cached, Long
<1> QED BY <1>2, <1>3, <1>4, <1>6, <1>7 DEF CallStep

LEMMA TickRecent == CacheTypeOK /\ Recent /\ Tick => Recent'
<1> SUFFICES ASSUME CacheTypeOK, Recent, Tick PROVE Recent'
  OBVIOUS
<1>1. \A u \in User : ago[u] \in Nat /\ ago'[u] \in Nat /\ ago'[u] <= ago[u] + 1
  BY TimeAssumption DEF CacheTypeOK, Tick, Long
<1>2. \A u \in members' : ago'[u] = 0
  BY DEF Tick, CacheTypeOK, Recent, db
<1>3. \A u \in cache' : Cached' /\ ago'[u] + ttl' <= Long'
  <2> SUFFICES ASSUME NEW u \in cache' PROVE ttl' > 0 /\ ago'[u] + ttl' <= Long
    BY DEF Cached, Long
  <2>1. u \in cache /\ ttl > 1 /\ ttl' = ttl - 1 /\ ttl \in Nat
    BY DEF Tick, CacheTypeOK, Cached
  <2>2. u \in User /\ ago[u] + ttl <= Long /\ Long \in Nat
    BY <2>1, TimeAssumption DEF CacheTypeOK, Recent, Long
  <2> QED BY <1>1, <2>1, <2>2
<1>4. \A r \in Call : \A u \in got'[r] : phase'[r] = "fill" /\ ago'[u] <= age'[r]
  <2> SUFFICES ASSUME NEW r \in Call, NEW u \in got[r]
               PROVE  phase[r] = "fill" /\ ago'[u] <= age'[r]
    BY DEF Tick
  <2>1. u \in User /\ phase[r] = "fill" /\ ago[u] <= age[r] /\ age[r] \in Nat
    BY DEF CacheTypeOK, Recent
  <2>2. age'[r] = age[r] + 1
    BY <2>1 DEF Tick
  <2> QED BY <1>1, <2>1, <2>2
<1> QED BY <1>2, <1>3, <1>4 DEF Recent

LEMMA CreateRecent ==
  ASSUME CacheTypeOK, Recent, NEW M \in SUBSET User, CreateChannel(M) PROVE Recent'
<1>1. \A u \in User : ago[u] \in Nat /\ ago'[u] \in Nat /\ ago'[u] <= ago[u]
  BY TimeAssumption DEF CreateChannel, CacheTypeOK, Long
<1>2. \A u \in members' : ago'[u] = 0
  BY DEF CreateChannel
<1>3. \A u \in cache' : Cached' /\ ago'[u] + ttl' <= Long'
  BY <1>1, TimeAssumption DEF CreateChannel, Recent, CacheTypeOK, redis, Cached, Long
<1>4. \A r \in Call : \A u \in got'[r] : phase'[r] = "fill" /\ ago'[u] <= age'[r]
  <2> SUFFICES ASSUME NEW r \in Call, NEW u \in got[r]
               PROVE  phase[r] = "fill" /\ ago'[u] <= age[r]
    BY DEF CreateChannel, calls
  <2>1. u \in User /\ age[r] \in Nat /\ ago[u] <= age[r] /\ phase[r] = "fill"
    BY DEF CacheTypeOK, Recent
  <2> QED BY <1>1, <2>1
<1> QED BY <1>2, <1>3, <1>4 DEF Recent

LEMMA NextRecent == CacheTypeOK /\ Recent /\ [CacheNext]_cacheVars => Recent'
<1> SUFFICES ASSUME CacheTypeOK, Recent, [CacheNext]_cacheVars PROVE Recent'
  OBVIOUS
<1>1. CASE UNCHANGED cacheVars
  BY <1>1 DEF Recent, cacheVars, db, redis, calls, Cached, Long
<1> QED
  BY <1>1, RequestRecent, CallRecent, CreateRecent, TickRecent DEF CacheNext

(* Whoever requireChannel admits was a member less than TTL_SECONDS plus    *)
(* one read-to-fill delay ago, whatever fails and whatever interleaves.     *)
THEOREM StalenessIsBounded == CacheSpec => AdmittedWasMember
<1> DEFINE Admission(r) == phase[r] # "in" /\ phase'[r] = "in"
<1>1. ASSUME CacheTypeOK, Recent, [CacheNext]_cacheVars, NEW r \in Call, Admission(r)
      PROVE  ago[user[r]] < Long
  <2>1. PICK q \in Call : CallStep(q) \/ \E u \in User : BeginCall(q, u)
    BY <1>1 DEF CacheNext, RequestStep, AddMemberWrite, RemoveMemberWrite, DeleteChannel, DeleteWorkspaceWrite,
                DeleteWorkspaceRest, ListChannels, FindChannels, Invalidate, RequestFails, CreateChannel, Tick,
                calls, cacheVars
  <2>2. q = r /\ user[r] \in User
    BY <1>1, <2>1 DEF CallStep, BeginCall, Hit, Miss, Load, ReadRows, Fill, FillFails, AnswerCall, CacheTypeOK
  <2>3. CASE Hit(r)
    <3>1. user[r] \in cache /\ ttl > 0
      BY <1>1, <2>3 DEF Hit, Verdict, Cached, CacheTypeOK
    <3>2. ago[user[r]] + ttl <= Long /\ ago[user[r]] \in Nat /\ ttl \in Nat /\ Long \in Nat
      BY <1>1, <2>2, <3>1, TimeAssumption DEF Recent, CacheTypeOK, Long
    <3> QED BY <3>1, <3>2
  <2>4. CASE Fill(r) \/ FillFails(r)
    <3>1. user[r] \in got[r]
      BY <1>1, <2>4 DEF Fill, FillFails, AnswerCall, Verdict, CacheTypeOK
    <3>2. ago[user[r]] <= age[r] /\ ago[user[r]] \in Nat /\ age[r] \in 0..MaxHold
      BY <1>1, <2>2, <3>1, TimeAssumption DEF Recent, CacheTypeOK, Long
    <3> QED BY <3>2, TimeAssumption DEF Long
  <2>5. ~(Miss(r) \/ Load(r) \/ ReadRows(r) \/ \E u \in User : BeginCall(r, u))
    BY <1>1 DEF Miss, Load, ReadRows, BeginCall, CacheTypeOK
  <2> QED BY <2>1, <2>2, <2>3, <2>4, <2>5 DEF CallStep
<1>2. CacheTypeOK /\ Recent /\ [CacheNext]_cacheVars
        => [\A r \in Call : phase[r] # "in" /\ phase'[r] = "in" => ago[user[r]] < Long]_cacheVars
  BY <1>1
<1> QED
  BY <1>2, InitRecent, NextRecent, CacheTyped, PTL DEF CacheSpec, AdmittedWasMember
-----------------------------------------------------------------------------
(* The cached set is right, but for overlaps and failures *)

(* A write marks every call it overtakes. *)
LEMMA WriteClean ==
  ASSUME CleanCalls, DeleteDoc \/ (\E M \in SUBSET User : SetMembers(M)),
         UNCHANGED <<phase, got>>
  PROVE  CleanCalls'
<1> SUFFICES ASSUME NEW r \in Call, ~dirty'[r]
             PROVE  /\ phase[r] \in {"rows", "fill"} => exists'
                    /\ phase[r] = "fill" => got[r] = members'
  BY DEF CleanCalls
<1>1. CASE DeleteDoc
  <2>1. ~(dirty[r] \/ phase[r] \in {"rows", "fill"})
    BY <1>1, Zenon DEF DeleteDoc
  <2> QED BY <2>1
<1>2. CASE \E M \in SUBSET User : SetMembers(M)
  <2>1. dirty' = [q \in Call |-> dirty[q] \/ phase[q] = "fill"] /\ exists' = exists
    BY <1>2, Zenon DEF SetMembers, exists
  <2>2. ~(dirty[r] \/ phase[r] = "fill")
    BY <2>1, Zenon
  <2>3. ~dirty[r] /\ phase[r] # "fill"
    BY <2>2
  <2> QED BY <2>1, <2>3 DEF CleanCalls
<1> QED BY <1>1, <1>2

LEMMA RequestClean ==
  CacheTypeOK /\ CleanCalls /\ (\E w \in Request : RequestStep(w)) => CleanCalls'
<1> SUFFICES ASSUME CacheTypeOK, CleanCalls, NEW w \in Request, RequestStep(w)
             PROVE  CleanCalls'
  OBVIOUS
<1>1. \A u \in User : members \cup {u} \in SUBSET User /\ members \ {u} \in SUBSET User
  BY DEF CacheTypeOK
<1>2. CASE \E u \in User : AddMemberWrite(w, u) \/ RemoveMemberWrite(w, u)
  BY <1>1, <1>2, WriteClean DEF AddMemberWrite, RemoveMemberWrite
<1>3. CASE DeleteChannel(w) \/ DeleteWorkspaceWrite(w) \/ DeleteWorkspaceRest(w)
  <2>1. {} \in SUBSET User
    OBVIOUS
  <2> QED BY <1>3, <2>1, WriteClean DEF DeleteChannel, DeleteWorkspaceWrite, DeleteWorkspaceRest
<1>4. CASE ListChannels(w) \/ FindChannels(w) \/ Invalidate(w) \/ RequestFails(w)
  BY <1>4 DEF ListChannels, FindChannels, Invalidate, RequestFails, CleanCalls, db, calls, exists
<1> QED BY <1>2, <1>3, <1>4 DEF RequestStep

(* A call changes nothing of the other calls. *)
LEMMA CallClean ==
  CacheTypeOK /\ CleanCalls /\ (\E r \in Call : CallStep(r) \/ \E u \in User : BeginCall(r, u))
    => CleanCalls'
<1> SUFFICES ASSUME CacheTypeOK, CleanCalls, NEW r \in Call,
                    CallStep(r) \/ \E u \in User : BeginCall(r, u), NEW q \in Call, ~dirty'[q]
             PROVE  /\ phase'[q] \in {"rows", "fill"} => exists'
                    /\ phase'[q] = "fill" => got'[q] = members'
  BY DEF CleanCalls
<1>1. UNCHANGED db
  BY DEF CallStep, BeginCall, Hit, Miss, Load, ReadRows, Fill, FillFails
<1>2. CASE q # r
  <2>1. phase'[q] = phase[q] /\ got'[q] = got[q]
    BY <1>2 DEF CallStep, BeginCall, Hit, Miss, Load, ReadRows, Fill, FillFails, AnswerCall, CacheTypeOK
  <2>2. dirty'[q] = dirty[q]
    BY <1>2 DEF CallStep, BeginCall, Hit, Miss, Load, ReadRows, Fill, FillFails, AnswerCall, CacheTypeOK
  <2>3. ~dirty[q]
    BY <2>2
  <2> QED BY <1>1, <2>1, <2>3 DEF CleanCalls, db, exists
<1>3. CASE q = r
  <2>1. CASE Hit(r) \/ Miss(r) \/ Fill(r) \/ FillFails(r) \/ \E u \in User : BeginCall(r, u)
    BY <1>3, <2>1 DEF Hit, Miss, Fill, FillFails, BeginCall, AnswerCall, Verdict, CacheTypeOK
  <2>2. CASE Load(r)
    BY <1>3, <2>2 DEF Load, CacheTypeOK, db, exists
  <2>3. CASE ReadRows(r)
    <3>1. dirty'[r] = dirty[r] /\ phase[r] = "rows"
      BY <2>3 DEF ReadRows
    <3>2. ~dirty[r]
      BY <1>3, <3>1
    <3>3. exists
      BY <3>1, <3>2 DEF CleanCalls
    <3> QED BY <1>3, <2>3, <3>3 DEF ReadRows, CacheTypeOK, db, exists
  <2> QED BY <2>1, <2>2, <2>3 DEF CallStep
<1> QED BY <1>2, <1>3

LEMMA NextClean == CacheTypeOK /\ CleanCalls /\ [CacheNext]_cacheVars => CleanCalls'
<1> SUFFICES ASSUME CacheTypeOK, CleanCalls, [CacheNext]_cacheVars PROVE CleanCalls'
  OBVIOUS
<1>1. CASE Tick
  BY <1>1 DEF Tick, CleanCalls, db, exists
<1>2. CASE UNCHANGED cacheVars
  BY <1>2 DEF CleanCalls, cacheVars, db, calls, exists
<1>3. ASSUME NEW M \in SUBSET User, CreateChannel(M) PROVE CleanCalls'
  BY <1>3 DEF CreateChannel, CleanCalls, calls, exists
<1> QED
  BY <1>1, <1>2, <1>3, RequestClean, CallClean DEF CacheNext

(* A request that has written and not failed still has its DEL to send. *)
LEMMA RequestExcused ==
  CacheTypeOK /\ Excused /\ (\E w \in Request : RequestStep(w)) => Excused'
<1> SUFFICES ASSUME CacheTypeOK, Excused, NEW w \in Request, RequestStep(w) PROVE Excused'
  OBVIOUS
<1>1. \A w2 \in Request : w2 # w => stage'[w2] = stage[w2]
  BY DEF RequestStep, AddMemberWrite, RemoveMemberWrite, DeleteChannel, ListChannels, DeleteWorkspaceWrite,
         DeleteWorkspaceRest, Swept, FindChannels, Invalidate, RequestFails, Start, CacheTypeOK
<1>2. ASSUME stage'[w] \notin {"idle", "purge"}, stage[w] \notin {"rows", "del"} \/ stage'[w] = "del",
             exists /\ ~exists' => stage'[w] \in {"rows", "del"}, UNCHANGED <<redis, tainted>>
      PROVE  Excused'
  <2> SUFFICES ASSUME Cached, ~tainted, ~exists'
               PROVE  \E w2 \in Request : stage'[w2] \in {"rows", "del"}
    BY <1>2 DEF Excused, redis, Cached
  <2>1. CASE exists
    BY <1>2, <2>1
  <2>2. CASE ~exists
    BY <1>1, <1>2, <2>2 DEF Excused
  <2> QED BY <2>1, <2>2
<1>3. CASE \E u \in User : AddMemberWrite(w, u) \/ RemoveMemberWrite(w, u)
  <2>1. /\ stage[w] = "idle" /\ stage'[w] \in {"find", "del"} /\ exists' = exists
        /\ UNCHANGED <<redis, tainted>>
    BY <1>3 DEF AddMemberWrite, RemoveMemberWrite, Start, SetMembers, AfterWrite, CacheTypeOK, exists
  <2> QED BY <1>2, <2>1
<1>4. CASE DeleteChannel(w)
  BY <1>2, <1>4 DEF DeleteChannel, Start, DeleteDoc, CacheTypeOK
<1>5. CASE DeleteWorkspaceWrite(w) \/ DeleteWorkspaceRest(w)
  <2>1. CASE Swept(w) /\ w \in listed /\ UNCHANGED redis
    BY <1>2, <2>1 DEF Swept, CacheTypeOK
  <2>2. CASE Swept(w) /\ w \notin listed /\ UNCHANGED redis
    <3>1. tainted' = Cached /\ ttl' = ttl
      BY <2>2 DEF Swept, redis
    <3> QED BY <3>1 DEF Excused, Cached
  <2>3. CASE DeleteDoc /\ stage[w] = "purge" /\ stage' = [stage EXCEPT ![w] = "rows"]
             /\ UNCHANGED <<redis, tainted>>
    BY <1>2, <2>3 DEF CacheTypeOK
  <2>4. CASE SetMembers({}) /\ stage[w] = "purge" /\ stage' = [stage EXCEPT ![w] = "doc"]
             /\ UNCHANGED <<redis, tainted>>
    BY <1>2, <2>4 DEF SetMembers, CacheTypeOK, exists
  <2> QED BY <1>5, <2>1, <2>2, <2>3, <2>4 DEF DeleteWorkspaceWrite, DeleteWorkspaceRest
<1>9. CASE ListChannels(w)
  <2>1. UNCHANGED <<db, redis, tainted>> /\ stage[w] = "idle"
    BY <1>9 DEF ListChannels, Start
  <2>2. exists' = exists
    BY <2>1 DEF db, exists
  <2> QED BY <1>1, <2>1, <2>2 DEF Excused, db, redis, Cached
<1>6. CASE FindChannels(w)
  <2>1. UNCHANGED <<db, redis, tainted>> /\ stage[w] = "find"
    BY <1>6 DEF FindChannels
  <2>2. exists' = exists
    BY <2>1 DEF db, exists
  <2>3. CASE exists
    <3>1. stage'[w] = "del"
      BY <1>6, <2>3 DEF FindChannels, CacheTypeOK
    <3> QED BY <1>2, <2>1, <2>3, <3>1
  <2>4. CASE ~exists
    <3> SUFFICES ASSUME Cached, ~tainted
                 PROVE  \E w2 \in Request : stage'[w2] \in {"rows", "del"}
      BY <2>1, <2>2, <2>4 DEF Excused, db, redis, Cached
    <3>1. PICK w2 \in Request : stage[w2] \in {"rows", "del"}
      BY <2>4 DEF Excused
    <3> QED BY <1>1, <2>1, <3>1
  <2> QED BY <2>3, <2>4
<1>7. CASE Invalidate(w)
  BY <1>7 DEF Invalidate, Excused, Cached
<1>8. CASE RequestFails(w)
  <2>1. CASE stage[w] = "purge"
    <3>1. UNCHANGED <<db, redis, tainted>>
      BY <1>8, <2>1 DEF RequestFails
    <3>2. exists' = exists
      BY <3>1 DEF db, exists
    <3> QED BY <1>1, <2>1, <3>1, <3>2 DEF Excused, db, redis, Cached
  <2>2. CASE stage[w] # "purge"
    <3>1. tainted' = Cached /\ ttl' = ttl
      BY <1>8, <2>2 DEF RequestFails, redis
    <3> QED BY <3>1 DEF Excused, Cached
  <2> QED BY <2>1, <2>2
<1> QED BY <1>3, <1>4, <1>5, <1>6, <1>7, <1>8, <1>9 DEF RequestStep

LEMMA NextExcused ==
  CacheTypeOK /\ CleanCalls /\ Excused /\ [CacheNext]_cacheVars => Excused'
<1> SUFFICES ASSUME CacheTypeOK, CleanCalls, Excused, [CacheNext]_cacheVars PROVE Excused'
  OBVIOUS
<1>1. CASE UNCHANGED cacheVars
  BY <1>1 DEF Excused, cacheVars, db, redis, requests, Cached, exists
<1>2. CASE Tick
  <2> SUFFICES ASSUME Cached', ~tainted' PROVE Excused'
    BY DEF Excused
  <2>1. ttl > 1 /\ ttl \in Nat
    BY <1>2 DEF Tick, CacheTypeOK, Cached
  <2>2. ~tainted /\ cache' = cache
    BY <1>2, <2>1 DEF Tick
  <2> QED BY <1>2, <2>1, <2>2 DEF Excused, Tick, db, requests, Cached, exists
<1>3. ASSUME NEW r \in Call, Fill(r) PROVE Excused'
  <2> SUFFICES ASSUME ~tainted' PROVE exists' /\ cache' = members'
    BY DEF Excused
  <2>1. ~dirty[r]
    BY <1>3 DEF Fill
  <2> QED BY <1>3, <2>1 DEF Fill, CleanCalls, db, exists
<1>4. ASSUME NEW r \in Call, UNCHANGED <<db, redis, requests, tainted>> PROVE Excused'
  BY <1>4 DEF Excused, db, redis, requests, Cached, exists
<1>5. ASSUME NEW r \in Call, CallStep(r) \/ \E u \in User : BeginCall(r, u) PROVE Excused'
  BY <1>3, <1>4, <1>5 DEF CallStep, BeginCall, Hit, Miss, Load, ReadRows, FillFails
<1>6. ASSUME NEW M \in SUBSET User, CreateChannel(M) PROVE Excused'
  BY <1>6 DEF CreateChannel, Excused, redis, requests, Cached, exists
<1> QED
  BY <1>1, <1>2, <1>5, <1>6, RequestExcused DEF CacheNext

(* When every request has answered, a cached set that no overlap and no     *)
(* failure has touched is the set MongoDB holds.                            *)
THEOREM OnlyOverlapsGoStale == CacheSpec => []StaleOnlyByOverlap
<1>1. CacheInit => CleanCalls /\ Excused
  BY DEF CacheInit, CleanCalls, Excused, Cached
<1>2. Excused => StaleOnlyByOverlap
  BY DEF Excused, StaleOnlyByOverlap, Answered
<1> QED
  BY <1>1, <1>2, NextClean, NextExcused, CacheTyped, PTL DEF CacheSpec
=============================================================================
