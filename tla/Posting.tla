------------------------------- MODULE Posting -------------------------------
(***************************************************************************)
(* What ONE channel stores: the messages and thread replies of the         *)
(* WebSocket server, the uploaded files of the API (a row in MongoDB, the  *)
(* bytes in storage), and the deletion of the channel with all of them.    *)
(* Uploads, sends and the deletion run in different processes; every await *)
(* is a step boundary.  Who is a member is the subject of MembershipCache: *)
(* here access is refused when the channel is gone.  How one stored        *)
(* message changes is MessageDoc; here it can only be deleted.             *)
(***************************************************************************)
EXTENDS Naturals, Sequences, FiniteSets

CONSTANTS
  Files,         \* one upload request each
  Users, Owner,  \* who uploads which file
  Sockets, UserOf,
  MaxPosts,      \* how many messages are sent
  MaxChanges,    \* how often the channel is archived or unarchived
  Faulty         \* do storage, MongoDB and processes fail

ASSUME OwnerAssumption == Owner \in [Files -> Users] /\ UserOf \in [Sockets -> Users]
ASSUME LimitAssumption == MaxPosts \in Nat /\ MaxChanges \in Nat /\ Faulty \in BOOLEAN

VARIABLES
  exists, archived, \* the Channel document
  posts,            \* its messages in the order of their ids
  rows,             \* files with a StoredFile document
  bytes,            \* files with bytes in storage
  upload,           \* where each upload request stands
  stored,           \* files whose upload was answered 201
  unsure,           \* history: files whose row was stored by an insert that was rejected
  send,             \* what each socket's handler does next, and its message
  cascade,          \* what is left of deleteChannelCascade, and the files it found
  sent, changes,
  crossed,          \* history: an upload or a send overlapped the deletion
  contended,        \* history: files two handlers were attaching at once
  died              \* history: a process died or gave up half-way

channel == <<exists, archived>>
messages == <<posts, send, sent, contended>>
uploads == <<rows, bytes, upload, stored, unsure>>
vars == <<channel, messages, uploads, cascade, changes, crossed, died>>

UploadStages == {"new", "check", "put", "row", "discard", "stored", "refused"}
SendStages == {"idle", "parent", "files", "taken", "create"}
CascadeSteps == {"find", "posts", "rows", "channel", "bytes"}

Ids == 1..Len(posts)
Idle == [at |-> "idle", files |-> {}, parent |-> 0]
Uploading == {f \in Files : upload[f] \in {"check", "put", "row", "discard"}}
Sending == {s \in Sockets : send[s].at # "idle"}
Deleting == cascade.todo # {}

Init ==
  /\ exists = TRUE /\ archived = FALSE
  /\ posts = <<>> /\ sent = 0 /\ contended = {}
  /\ send = [s \in Sockets |-> Idle]
  /\ rows = {} /\ bytes = {} /\ stored = {} /\ unsure = {}
  /\ upload = [f \in Files |-> "new"]
  /\ cascade = [todo |-> {}, found |-> {}]
  /\ changes = 0 /\ crossed = FALSE /\ died = FALSE

-----------------------------------------------------------------------------
(* POST /files: multer has written the bytes before the handler starts.     *)

UploadTo(f, stage) == upload' = [upload EXCEPT ![f] = stage]

UploadStart(f) ==
  /\ upload[f] = "new"
  /\ bytes' = bytes \cup {f}
  /\ UploadTo(f, "check")
  /\ crossed' = (crossed \/ Deleting)
  /\ UNCHANGED <<channel, messages, rows, stored, unsure, cascade, changes, died>>

UploadCheck(f) ==
  /\ upload[f] = "check"
  /\ UploadTo(f, IF exists /\ ~archived THEN "put" ELSE "discard")
  /\ UNCHANGED <<channel, messages, rows, bytes, stored, unsure, cascade, changes, crossed, died>>

UploadPut(f) ==
  /\ upload[f] = "put"
  /\ UploadTo(f, "row")
  /\ UNCHANGED <<channel, messages, rows, bytes, stored, unsure, cascade, changes, crossed, died>>

UploadRow(f) ==
  /\ upload[f] = "row"
  /\ rows' = rows \cup {f}
  /\ stored' = stored \cup {f}
  /\ UploadTo(f, "stored")
  /\ UNCHANGED <<channel, messages, bytes, unsure, cascade, changes, crossed, died>>

(* Any of the awaits rejects: the catch clause discards.  An insert that is  *)
(* rejected may have been applied all the same.                             *)
UploadFails(f) ==
  /\ Faulty /\ upload[f] \in {"check", "put", "row"}
  /\ UploadTo(f, "discard")
  /\ \/ UNCHANGED <<rows, unsure>>
     \/ upload[f] = "row" /\ rows' = rows \cup {f} /\ unsure' = unsure \cup {f}
  /\ UNCHANGED <<channel, messages, bytes, stored, cascade, changes, crossed, died>>

(* Mutant: a refused upload is answered without discarding its bytes.       *)
DiscardNothing(f) ==
  /\ upload[f] = "discard"
  /\ UploadTo(f, "refused")
  /\ UNCHANGED <<channel, messages, rows, bytes, stored, unsure, cascade, changes, crossed, died>>

Discard(f) ==
  /\ upload[f] = "discard"
  /\ bytes' = bytes \ {f}
  /\ UploadTo(f, "refused")
  /\ UNCHANGED <<channel, messages, rows, stored, unsure, cascade, changes, crossed, died>>

(* The API process dies under an upload.                                    *)
UploadDies(f) ==
  /\ Faulty /\ f \in Uploading
  /\ UploadTo(f, "refused")
  /\ died' = TRUE
  /\ UNCHANGED <<channel, messages, rows, bytes, stored, unsure, cascade, changes, crossed>>

-----------------------------------------------------------------------------
(* SEND_MESSAGE and SEND_THREAD_REPLY.                                      *)

SendTo(s, stage) == send' = [send EXCEPT ![s].at = stage]
Refuse(s) == send' = [send EXCEPT ![s] = Idle]

(* The composer attaches what it has uploaded; requireChannel passes.       *)
SendStart(s) ==
  /\ send[s] = Idle /\ exists /\ ~archived /\ sent < MaxPosts
  /\ \E fs \in SUBSET {f \in stored : Owner[f] = UserOf[s]} :
       /\ send' = [send EXCEPT ![s] = [Idle EXCEPT !.at = IF fs = {} THEN "create" ELSE "files",
                                                   !.files = fs]]
       /\ contended' = contended \cup (fs \cap UNION {send[t].files : t \in Sockets})
  /\ sent' = sent + 1
  /\ crossed' = (crossed \/ Deleting)
  /\ UNCHANGED <<channel, posts, uploads, cascade, changes, died>>

ReplyStart(s) ==
  /\ send[s] = Idle /\ exists /\ ~archived /\ sent < MaxPosts
  /\ \E p \in Ids :
       send' = [send EXCEPT ![s] = [Idle EXCEPT !.at = "parent", !.parent = p]]
  /\ sent' = sent + 1
  /\ crossed' = (crossed \/ Deleting)
  /\ UNCHANGED <<channel, posts, contended, uploads, cascade, changes, died>>

FindParent(s) ==
  LET parent == posts[send[s].parent]
  IN /\ send[s].at = "parent"
     /\ IF parent.state = "live" /\ parent.parent = 0 THEN SendTo(s, "create") ELSE Refuse(s)
     /\ UNCHANGED <<channel, posts, sent, contended, uploads, cascade, changes, crossed, died>>

FindFiles(s) ==
  /\ send[s].at = "files"
  /\ IF send[s].files \subseteq rows THEN SendTo(s, "taken") ELSE Refuse(s)
  /\ UNCHANGED <<channel, posts, sent, contended, uploads, cascade, changes, crossed, died>>

(* Mutant: no message is looked at for the same attachment.                 *)
TakenUnchecked(s) ==
  /\ send[s].at = "taken"
  /\ SendTo(s, "create")
  /\ UNCHANGED <<channel, posts, sent, contended, uploads, cascade, changes, crossed, died>>

CheckTaken(s) ==
  /\ send[s].at = "taken"
  /\ IF \E i \in Ids : posts[i].files \cap send[s].files # {} THEN Refuse(s) ELSE SendTo(s, "create")
  /\ UNCHANGED <<channel, posts, sent, contended, uploads, cascade, changes, crossed, died>>

(* Message.create; the broadcast that follows changes nothing here.         *)
Create(s) ==
  /\ send[s].at = "create"
  /\ posts' = Append(posts, [files |-> send[s].files, parent |-> send[s].parent, state |-> "live"])
  /\ Refuse(s)
  /\ UNCHANGED <<channel, sent, contended, uploads, cascade, changes, crossed, died>>

(* A command rejects, or the server dies.                                   *)
SendFails(s) ==
  /\ Faulty /\ s \in Sending
  /\ Refuse(s)
  /\ UNCHANGED <<channel, posts, sent, contended, uploads, cascade, changes, crossed, died>>

(* DELETE_MESSAGE, whole: the attachments go with the text.                 *)
DeletePost(i) ==
  /\ exists /\ posts[i].state = "live"
  /\ posts' = [posts EXCEPT ![i].state = "deleted", ![i].files = {}]
  /\ UNCHANGED <<channel, sent, contended, send, uploads, cascade, changes, crossed, died>>

-----------------------------------------------------------------------------
(* The channel routes.                                                      *)

SetArchived ==
  /\ exists /\ changes < MaxChanges
  /\ archived' = ~archived
  /\ changes' = changes + 1
  /\ UNCHANGED <<exists, messages, uploads, cascade, crossed, died>>

DeleteRequest ==
  /\ exists /\ ~Deleting
  /\ cascade' = [todo |-> CascadeSteps, found |-> {}]
  /\ crossed' = (crossed \/ Uploading # {} \/ Sending # {})
  /\ UNCHANGED <<channel, messages, uploads, changes, died>>

(* Mutant: the files are looked up through the messages that attach them.   *)
CascadeFindAttached ==
  /\ "find" \in cascade.todo
  /\ cascade' = [todo |-> cascade.todo \ {"find"},
                 found |-> UNION {posts[i].files : i \in Ids}]
  /\ UNCHANGED <<channel, messages, uploads, changes, crossed, died>>

CascadeFind ==
  /\ "find" \in cascade.todo
  /\ cascade' = [todo |-> cascade.todo \ {"find"}, found |-> rows]
  /\ UNCHANGED <<channel, messages, uploads, changes, crossed, died>>

CascadeDone(step) == cascade' = [cascade EXCEPT !.todo = @ \ {step}]

(* Promise.all: the three deletions run in any order.                       *)
CascadeDelete ==
  /\ "find" \notin cascade.todo
  /\ \/ /\ "posts" \in cascade.todo /\ CascadeDone("posts")
        /\ posts' = [i \in Ids |-> [posts[i] EXCEPT !.state = "removed", !.files = {}]]
        /\ UNCHANGED <<exists, rows>>
     \/ /\ "rows" \in cascade.todo /\ CascadeDone("rows")
        /\ rows' = {}
        /\ UNCHANGED <<exists, posts>>
     \/ /\ "channel" \in cascade.todo /\ CascadeDone("channel")
        /\ exists' = FALSE
        /\ UNCHANGED <<rows, posts>>
  /\ UNCHANGED <<archived, sent, contended, send, bytes, upload, stored, unsure, changes, crossed,
                 died>>

(* Mutant: the bytes go while the rows are still there.                     *)
CascadeBytesEarly ==
  /\ "bytes" \in cascade.todo /\ "find" \notin cascade.todo
  /\ bytes' = bytes \ cascade.found
  /\ CascadeDone("bytes")
  /\ UNCHANGED <<channel, messages, rows, upload, stored, unsure, changes, crossed, died>>

CascadeBytes ==
  /\ cascade.todo = {"bytes"}
  /\ bytes' = bytes \ cascade.found
  /\ CascadeDone("bytes")
  /\ UNCHANGED <<channel, messages, rows, upload, stored, unsure, changes, crossed, died>>

(* A deletion rejects or the API dies: the rest is never done.              *)
CascadeFails ==
  /\ Faulty /\ Deleting
  /\ cascade' = [todo |-> {}, found |-> {}]
  /\ died' = TRUE
  /\ UNCHANGED <<channel, messages, uploads, changes, crossed>>

CascadeStep == CascadeFind \/ CascadeDelete \/ CascadeBytes
UploadStep(f) == UploadCheck(f) \/ UploadPut(f) \/ UploadRow(f) \/ Discard(f)
SendStep(s) == FindParent(s) \/ FindFiles(s) \/ CheckTaken(s) \/ Create(s)

Next ==
  \/ \E f \in Files : UploadStart(f) \/ UploadStep(f) \/ UploadFails(f) \/ UploadDies(f)
  \/ \E s \in Sockets : SendStart(s) \/ ReplyStart(s) \/ SendStep(s) \/ SendFails(s)
  \/ \E i \in Ids : DeletePost(i)
  \/ SetArchived \/ DeleteRequest \/ CascadeStep \/ CascadeFails

Spec == Init /\ [][Next]_vars

(* A request that has started is carried on while its process lives.        *)
Fairness ==
  /\ WF_vars(CascadeStep)
  /\ \A f \in Files : WF_vars(UploadStep(f))
  /\ \A s \in Sockets : WF_vars(SendStep(s))
FairSpec == Spec /\ Fairness

-----------------------------------------------------------------------------
(* Properties.                                                              *)

(* Type invariant; a reply hangs on a message that is not itself a reply    *)
(* (handlers/messages.ts:101), whatever was deleted since.                  *)
TypeOK ==
  /\ exists \in BOOLEAN /\ archived \in BOOLEAN
  /\ posts \in Seq([files : SUBSET Files, parent : Nat, state : {"live", "deleted", "removed"}])
  /\ rows \subseteq Files /\ bytes \subseteq Files
  /\ stored \subseteq Files /\ unsure \subseteq Files
  /\ upload \in [Files -> UploadStages]
  /\ send \in [Sockets -> [at : SendStages, files : SUBSET Files, parent : Nat]]
  /\ cascade \in [todo : SUBSET CascadeSteps, found : SUBSET Files]
  /\ sent \in Nat /\ changes \in Nat
  /\ crossed \in BOOLEAN /\ contended \subseteq Files /\ died \in BOOLEAN
  /\ \A i \in Ids : posts[i].parent # 0 =>
       posts[i].parent \in Ids /\ posts[posts[i].parent].parent = 0

(* A StoredFile row has its bytes: GET /files/:id never finds a row of an    *)
(* upload that was answered which it cannot serve, whichever step of an      *)
(* upload or of the deletion fails.  The one row without bytes is that of an *)
(* insert that was applied and rejected, which nobody has been told of.      *)
RowsHaveBytes == rows \ bytes \subseteq unsure \ stored

(* No two messages carry the same attachment, unless two handlers were      *)
(* attaching it at the same time: the check and the create are two commands.*)
AttachedOnce ==
  \A i, j \in Ids : i # j => posts[i].files \cap posts[j].files \subseteq contended

(* Storage never holds bytes nobody answers for: they belong to a row or to *)
(* a request that is still running, unless a process died or an upload or a *)
(* send overlapped the deletion of the channel.                             *)
NoOrphanBytes ==
  died \/ crossed \/ bytes \subseteq rows \cup Uploading \cup cascade.found

(* A deleted channel ends up with nothing in storage and in MongoDB, with   *)
(* the same exceptions.                                                     *)
Empty == rows = {} /\ bytes \subseteq Uploading /\ \A i \in Ids : posts[i].state = "removed"
DeletionCompletes == ~exists ~> (Empty \/ died \/ crossed)
=============================================================================
