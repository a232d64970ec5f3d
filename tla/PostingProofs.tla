---------------------------- MODULE PostingProofs ----------------------------
(***************************************************************************)
(* What becomes of messages and their files, on the server and in a tab.   *)
(* For any number of files, users, sockets and messages: a row always has  *)
(* its bytes, a file hangs on one message, no bytes are left that nobody   *)
(* answers for.  Then the list of a tab, for any pages, messages, faults:  *)
(* no message is listed twice, and what is shown is what is stored.  The   *)
(* two machines share nothing.                                             *)
(***************************************************************************)
EXTENDS Posting, Timeline, SequenceTheorems, FiniteSetTheorems, TLAPS

(* A reply waits with a parent that is a message, and is created under one   *)
(* that is not itself a reply; only plain messages carry files.             *)
SendsFit ==
  \A s \in Sockets :
    /\ send[s].at \in {"idle", "files", "taken"} => send[s].parent = 0
    /\ send[s].at \in {"idle", "parent"} => send[s].files = {}
    /\ send[s].at = "parent" => send[s].parent \in Ids
    /\ send[s].at = "create" /\ send[s].parent # 0 =>
         send[s].parent \in Ids /\ posts[send[s].parent].parent = 0

(* What an upload request has done so far.                                  *)
UploadsFit ==
  /\ Uploading \ unsure \subseteq bytes
  /\ rows \cup cascade.found \subseteq unsure \cup {f \in Files : upload[f] = "stored"}
  /\ stored \subseteq {f \in Files : upload[f] = "stored"}
  /\ unsure \subseteq {f \in Files : upload[f] \in {"discard", "refused"}}

(* How far the deletion of the channel is.                                  *)
CascadeFits ==
  /\ "find" \in cascade.todo => cascade.todo = CascadeSteps /\ cascade.found = {}
  /\ exists => \/ "channel" \in cascade.todo
               \/ cascade.todo = {} /\ cascade.found = {}
  /\ "rows" \notin cascade.todo => cascade.found \cap rows = {}

(* Nothing is under way beside a deletion that overlapped nothing, so it    *)
(* has found every row there is.                                            *)
Quiet ==
  Deleting /\ ~crossed => /\ Uploading = {}
                          /\ "find" \notin cascade.todo /\ "rows" \in cascade.todo =>
                               rows \subseteq cascade.found

(* The files of two handlers, and of a handler past the check and a         *)
(* message, meet only where they were contended.                            *)
Claims ==
  /\ \A s, t \in Sockets : s # t => send[s].files \cap send[t].files \subseteq contended
  /\ \A s \in Sockets : send[s].at = "create" =>
       \A i \in Ids : posts[i].files \cap send[s].files \subseteq contended
-----------------------------------------------------------------------------
(* Messages and the handlers that send them *)

PostType == [files : SUBSET Files, parent : Nat, state : {"live", "deleted", "removed"}]
SendType == [at : SendStages, files : SUBSET Files, parent : Nat]

(* The part of TypeOK the senders change.                                   *)
SendTyped ==
  /\ posts \in Seq(PostType)
  /\ send \in [Sockets -> SendType]
  /\ contended \subseteq Files /\ sent \in Nat
  /\ \A i \in Ids : posts[i].parent # 0 =>
       posts[i].parent \in Ids /\ posts[posts[i].parent].parent = 0
  /\ SendsFit
Sends == SendTyped /\ Claims /\ AttachedOnce

(* A deletion, of one message or of all, takes files away and leaves every  *)
(* message in its place.                                                    *)
PostsShrink ==
  /\ posts' \in Seq(PostType)
  /\ Ids' = Ids
  /\ \A i \in Ids : posts'[i].parent = posts[i].parent /\ posts'[i].files \subseteq posts[i].files

LEMMA DeletePostShrinks ==
  ASSUME SendTyped, NEW i \in Ids, DeletePost(i)
  PROVE  PostsShrink
<1> DEFINE p == [posts[i] EXCEPT !.state = "deleted", !.files = {}]
<1>1. posts[i] \in PostType
  BY DEF SendTyped, Ids
<1>2. p \in PostType /\ p.parent = posts[i].parent /\ p.files = {}
  BY <1>1 DEF PostType
<1>3. posts' = [posts EXCEPT ![i] = p]
  BY DEF DeletePost
<1> HIDE DEF p
<1>4. posts' \in Seq(PostType) /\ Len(posts') = Len(posts)
  BY <1>2, <1>3 DEF SendTyped, Ids
<1> QED BY <1>2, <1>3, <1>4 DEF PostsShrink, SendTyped, Ids

LEMMA SeqOfLength ==
  ASSUME NEW S, NEW n \in Nat, NEW f \in [1..n -> S]
  PROVE  f \in Seq(S) /\ Len(f) = n
OBVIOUS

LEMMA PostsAre ==
  ASSUME SendTyped
  PROVE  Len(posts) \in Nat /\ \A i \in Ids : posts[i] \in PostType
BY DEF SendTyped, Ids

LEMMA CascadeShrinks ==
  ASSUME SendTyped, posts' = [i \in Ids |-> [posts[i] EXCEPT !.state = "removed", !.files = {}]]
  PROVE  PostsShrink
<1>1. Len(posts) \in Nat /\ \A i \in Ids : posts[i] \in PostType
  BY PostsAre
<1>2. ASSUME NEW i \in Ids
      PROVE  /\ posts'[i] \in PostType
             /\ posts'[i].parent = posts[i].parent /\ posts'[i].files = {}
  <2> DEFINE p == [posts[i] EXCEPT !.state = "removed", !.files = {}]
  <2>1. posts'[i] = p
    OBVIOUS
  <2>2. posts[i] \in PostType
    BY <1>1
  <2>3. p \in PostType /\ p.parent = posts[i].parent /\ p.files = {}
    BY <2>2 DEF PostType
  <2> HIDE DEF p
  <2> QED BY <2>1, <2>3
<1>3. posts' = [i \in Ids |-> posts'[i]]
  OBVIOUS
<1>4. posts' \in [1..Len(posts) -> PostType]
  BY <1>2, <1>3 DEF Ids
<1>5. posts' \in Seq(PostType) /\ Len(posts') = Len(posts)
  BY <1>1, <1>4, SeqOfLength
<1> QED BY <1>2, <1>5 DEF PostsShrink, Ids

LEMMA ShrinkKeeps ==
  ASSUME Sends, PostsShrink, UNCHANGED <<send, sent, contended>>
  PROVE  Sends'
<1>1. SendTyped'
  BY DEF Sends, SendTyped, PostsShrink, SendsFit
<1>2. Claims'
  BY DEF Sends, Claims, PostsShrink
<1>3. AttachedOnce'
  BY DEF Sends, AttachedOnce, PostsShrink
<1> QED BY <1>1, <1>2, <1>3 DEF Sends

(* A handler of one socket moves while the messages stay.                   *)
LEMMA OneSends ==
  ASSUME Sends, NEW s \in Sockets, NEW h \in SendType, send' = [send EXCEPT ![s] = h],
         UNCHANGED posts, contended \subseteq contended', contended' \subseteq Files, sent' \in Nat,
         h.at \in {"idle", "files", "taken"} => h.parent = 0,
         h.at \in {"idle", "parent"} => h.files = {},
         h.at = "parent" => h.parent \in Ids,
         h.at = "create" /\ h.parent # 0 => h.parent \in Ids /\ posts[h.parent].parent = 0,
         \A t \in Sockets \ {s} : h.files \cap send[t].files \subseteq contended',
         h.at = "create" => \A i \in Ids : posts[i].files \cap h.files \subseteq contended'
  PROVE  Sends'
<1>1. /\ send' \in [Sockets -> SendType] /\ send'[s] = h
      /\ \A t \in Sockets \ {s} : send'[t] = send[t]
  BY DEF Sends, SendTyped
<1>2. Ids' = Ids
  BY DEF Ids
<1>3. SendsFit'
  BY <1>1, <1>2 DEF Sends, SendTyped, SendsFit
<1>4. SendTyped'
  BY <1>1, <1>2, <1>3 DEF Sends, SendTyped
<1>5. Claims'
  BY <1>1, <1>2 DEF Sends, Claims
<1>6. AttachedOnce'
  BY <1>2 DEF Sends, AttachedOnce
<1> QED BY <1>4, <1>5, <1>6 DEF Sends

LEMMA IdleSends ==
  ASSUME Sends, NEW s \in Sockets, Refuse(s), UNCHANGED <<posts, sent, contended>>
  PROVE  Sends'
<1>1. Idle \in SendType /\ Idle.at = "idle" /\ Idle.files = {} /\ Idle.parent = 0
  BY DEF Idle, SendType, SendStages
<1> HIDE DEF Idle
<1> QED BY <1>1, OneSends DEF Refuse, Sends, SendTyped

LEMMA NextSends ==
  ASSUME Sends, NEW s \in Sockets, NEW stage \in {"taken", "create"}, SendTo(s, stage),
         UNCHANGED <<posts, sent, contended>>,
         stage = "taken" => send[s].at = "files",
         stage = "create" =>
           /\ send[s].at \in {"parent", "taken"}
           /\ send[s].parent # 0 => posts[send[s].parent].parent = 0
           /\ \A i \in Ids : posts[i].files \cap send[s].files = {}
  PROVE  Sends'
<1> DEFINE h == [send[s] EXCEPT !.at = stage]
<1>1. send[s] \in SendType
  BY DEF Sends, SendTyped
<1>2. h \in SendType /\ h.at = stage /\ h.files = send[s].files /\ h.parent = send[s].parent
  BY <1>1 DEF SendType, SendStages
<1>3. send' = [send EXCEPT ![s] = h]
  BY DEF SendTo
<1>4. \A t \in Sockets \ {s} : send[s].files \cap send[t].files \subseteq contended
  BY DEF Sends, Claims
<1>5. /\ stage = "taken" => send[s].parent = 0
      /\ stage = "create" /\ send[s].parent # 0 => send[s].parent \in Ids
  BY DEF Sends, SendTyped, SendsFit
<1> HIDE DEF h
<1> QED BY <1>2, <1>3, <1>4, <1>5, OneSends, ZenonT(30) DEF Sends, SendTyped

(* Every handler of SEND_MESSAGE and SEND_THREAD_REPLY.                     *)
LEMMA SenderKeeps ==
  ASSUME Sends, stored \subseteq Files, NEW s \in Sockets,
         SendStart(s) \/ ReplyStart(s) \/ SendStep(s) \/ SendFails(s)
  PROVE  Sends'
<1>0. posts \in Seq(PostType) /\ send[s] \in SendType /\ sent \in Nat
  BY DEF Sends, SendTyped
<1>1. CASE SendStart(s)
  <2>1. PICK fs \in SUBSET {f \in stored : Owner[f] = UserOf[s]} :
          /\ send' = [send EXCEPT ![s] = [Idle EXCEPT !.at = IF fs = {} THEN "create" ELSE "files",
                                                      !.files = fs]]
          /\ contended' = contended \cup (fs \cap UNION {send[t].files : t \in Sockets})
    BY <1>1 DEF SendStart
  <2> DEFINE h == [Idle EXCEPT !.at = IF fs = {} THEN "create" ELSE "files", !.files = fs]
  <2>2. /\ h \in SendType /\ h.at = (IF fs = {} THEN "create" ELSE "files")
        /\ h.files = fs /\ h.parent = 0
    BY <2>1 DEF Idle, SendType, SendStages
  <2>3. send' = [send EXCEPT ![s] = h]
    BY <2>1
  <2>4. /\ contended \subseteq contended' /\ contended' \subseteq Files
        /\ \A t \in Sockets : fs \cap send[t].files \subseteq contended'
    BY <2>1 DEF Sends, SendTyped
  <2>5. UNCHANGED posts /\ sent' = sent + 1
    BY <1>1 DEF SendStart
  <2>6. /\ h.at # "parent" /\ h.at # "idle"
        /\ h.at = "create" => h.files = {}
    BY <2>2
  <2>7. sent' \in Nat
    BY <1>0, <2>5
  <2> HIDE DEF h
  <2>8. \A t \in Sockets \ {s} : h.files \cap send[t].files \subseteq contended'
    BY <2>2, <2>4
  <2>9. h.at = "create" => \A i \in Ids : posts[i].files \cap h.files \subseteq contended'
    BY <2>6
  <2> QED BY <2>2, <2>3, <2>4, <2>5, <2>6, <2>7, <2>8, <2>9, OneSends
<1>2. CASE ReplyStart(s)
  <2>1. PICK p \in Ids :
          send' = [send EXCEPT ![s] = [Idle EXCEPT !.at = "parent", !.parent = p]]
    BY <1>2 DEF ReplyStart
  <2> DEFINE h == [Idle EXCEPT !.at = "parent", !.parent = p]
  <2>2. p \in Nat
    BY <1>0 DEF Ids
  <2>3. h \in SendType /\ h.at = "parent" /\ h.files = {} /\ h.parent = p
    BY <2>2 DEF Idle, SendType, SendStages
  <2>4. send' = [send EXCEPT ![s] = h]
    BY <2>1
  <2>5. UNCHANGED <<posts, contended>> /\ sent' = sent + 1
    BY <1>2 DEF ReplyStart
  <2>6. contended \subseteq Files
    BY DEF Sends, SendTyped
  <2>7. sent' \in Nat
    BY <1>0, <2>5
  <2>8. \A t \in Sockets \ {s} : h.files \cap send[t].files \subseteq contended'
    BY <2>3
  <2> HIDE DEF h
  <2> QED BY <2>3, <2>4, <2>5, <2>6, <2>7, <2>8, OneSends
<1>3. CASE FindParent(s)
  <2>1. send[s].files = {} /\ UNCHANGED <<posts, sent, contended>>
    BY <1>3 DEF FindParent, Sends, SendTyped, SendsFit
  <2> QED BY <1>3, <2>1, IdleSends, NextSends DEF FindParent
<1>4. CASE FindFiles(s)
  BY <1>4, IdleSends, NextSends DEF FindFiles
<1>5. CASE CheckTaken(s)
  <2>1. send[s].parent = 0
    BY <1>5 DEF CheckTaken, Sends, SendTyped, SendsFit
  <2> QED BY <1>5, <2>1, IdleSends, NextSends DEF CheckTaken
<1>6. CASE SendFails(s)
  BY <1>6, IdleSends DEF SendFails
<1>7. CASE Create(s)
  <2> DEFINE p == [files |-> send[s].files, parent |-> send[s].parent, state |-> "live"]
             n == Len(posts) + 1
  <2>1. /\ p \in PostType /\ p.files = send[s].files /\ p.parent = send[s].parent
        /\ posts' = Append(posts, p)
    BY <1>0, <1>7 DEF Create, PostType, SendType
  <2>2. /\ UNCHANGED <<sent, contended>> /\ send' = [send EXCEPT ![s] = Idle]
        /\ send[s].at = "create"
    BY <1>7 DEF Create, Refuse
  <2> HIDE DEF p
  <2>3. /\ posts' \in Seq(PostType) /\ Ids' = Ids \cup {n} /\ n \notin Ids
        /\ posts'[n] = p /\ \A i \in Ids : posts'[i] = posts[i]
    BY <1>0, <2>1 DEF Ids
  <2>4. /\ Idle \in SendType /\ Idle.at = "idle" /\ Idle.files = {} /\ Idle.parent = 0
    BY DEF Idle, SendType, SendStages
  <2>5. /\ send' \in [Sockets -> SendType] /\ send'[s] = Idle
        /\ \A t \in Sockets \ {s} : send'[t] = send[t]
    BY <2>2, <2>4 DEF Sends, SendTyped
  <2> HIDE DEF Idle, n
  <2>6. p.parent # 0 => p.parent \in Ids /\ posts[p.parent].parent = 0
    BY <2>1, <2>2 DEF Sends, SendTyped, SendsFit
  <2>7. \A i \in Ids' : posts'[i].parent # 0 =>
          posts'[i].parent \in Ids' /\ posts'[posts'[i].parent].parent = 0
    BY <2>3, <2>6 DEF Sends, SendTyped
  <2>8. SendsFit'
    BY <2>3, <2>4, <2>5 DEF Sends, SendTyped, SendsFit
  <2>9. SendTyped'
    BY <2>2, <2>3, <2>5, <2>7, <2>8 DEF Sends, SendTyped
  <2>10. \A i \in Ids : posts[i].files \cap p.files \subseteq contended
    BY <2>1, <2>2 DEF Sends, Claims
  <2>11. \A t \in Sockets \ {s} : p.files \cap send[t].files \subseteq contended
    BY <2>1 DEF Sends, Claims
  <2>12. Claims'
    BY <2>2, <2>3, <2>4, <2>5, <2>11 DEF Sends, Claims
  <2>13. AttachedOnce'
    BY <2>2, <2>3, <2>10 DEF Sends, AttachedOnce
  <2> QED BY <2>9, <2>12, <2>13 DEF Sends
<1> QED BY <1>1, <1>2, <1>3, <1>4, <1>5, <1>6, <1>7 DEF SendStep
-----------------------------------------------------------------------------
(* Rows and bytes *)

UploadTyped ==
  /\ rows \subseteq Files /\ bytes \subseteq Files
  /\ stored \subseteq Files /\ unsure \subseteq Files
  /\ upload \in [Files -> UploadStages]
CascadeTyped ==
  /\ exists \in BOOLEAN /\ archived \in BOOLEAN /\ changes \in Nat
  /\ crossed \in BOOLEAN /\ died \in BOOLEAN
  /\ cascade \in [todo : SUBSET CascadeSteps, found : SUBSET Files]
StoreTyped == UploadTyped /\ CascadeTyped
Stores == StoreTyped /\ UploadsFit /\ CascadeFits /\ RowsHaveBytes /\ Quiet /\ NoOrphanBytes

(* An upload of one file.                                                   *)
LEMMA UploadKeeps ==
  ASSUME Stores, NEW f \in Files,
         UploadStart(f) \/ UploadStep(f) \/ UploadFails(f) \/ UploadDies(f)
  PROVE  Stores'
<1> USE DEF Stores
<1>1. upload \in [Files -> UploadStages] /\ cascade.found \subseteq Files
  BY DEF StoreTyped, UploadTyped, CascadeTyped
<1>2. PICK stage \in UploadStages : upload' = [upload EXCEPT ![f] = stage]
  BY DEF UploadStart, UploadStep, UploadCheck, UploadPut, UploadRow, Discard, UploadFails,
         UploadDies, UploadTo, UploadStages
<1>3. UNCHANGED <<exists, archived, cascade, changes>>
  BY DEF UploadStart, UploadStep, UploadCheck, UploadPut, UploadRow, Discard, UploadFails,
         UploadDies, channel
<1>4. CascadeTyped'
  BY <1>3 DEF UploadStart, UploadStep, UploadCheck, UploadPut, UploadRow, Discard, UploadFails,
              UploadDies, StoreTyped, CascadeTyped, Deleting
<1>5. CASE UploadStart(f)
  <2>1. upload[f] = "new" /\ bytes' = bytes \cup {f} /\ upload' = [upload EXCEPT ![f] = "check"]
        /\ UNCHANGED <<rows, stored, unsure, died>> /\ crossed' = (crossed \/ Deleting)
    BY <1>5 DEF UploadStart, UploadTo
  <2>2. Uploading' = Uploading \cup {f} /\ f \notin Uploading
    BY <1>1, <2>1 DEF Uploading
  <2>3. UploadTyped' /\ UploadsFit'
    BY <1>1, <1>3, <2>1, <2>2 DEF StoreTyped, UploadTyped, UploadStages, UploadsFit
  <2>4. CascadeFits' /\ RowsHaveBytes'
    BY <1>3, <2>1 DEF CascadeFits, RowsHaveBytes
  <2>5. Quiet' /\ NoOrphanBytes'
    BY <1>3, <2>1, <2>2 DEF Quiet, NoOrphanBytes, Deleting
  <2> QED BY <1>4, <2>3, <2>4, <2>5 DEF StoreTyped
<1>6. CASE UploadCheck(f) \/ UploadPut(f) \/ UploadFails(f)
  <2>1. /\ f \in Uploading /\ Uploading' = Uploading
        /\ UNCHANGED <<bytes, stored, died, crossed>>
    BY <1>1, <1>6 DEF UploadCheck, UploadPut, UploadFails, UploadTo, Uploading
  <2>2. /\ upload[f] \in {"check", "put", "row"} /\ upload[f] # "stored"
        /\ \/ UNCHANGED <<rows, unsure>>
           \/ /\ upload'[f] = "discard"
              /\ rows' = rows \cup {f} /\ unsure' = unsure \cup {f}
    BY <1>1, <1>6 DEF UploadCheck, UploadPut, UploadFails, UploadTo
  <2>3. UploadTyped'
    BY <1>1, <1>2, <2>1, <2>2 DEF StoreTyped, UploadTyped
  <2>4. f \notin unsure /\ f \notin stored /\ f \notin cascade.found
    BY <2>2 DEF UploadsFit
  <2>5. UploadsFit'
    BY <1>1, <1>2, <1>3, <2>1, <2>2, <2>4 DEF UploadsFit
  <2>6. CascadeFits'
    BY <1>3, <2>2, <2>4 DEF CascadeFits
  <2>7. RowsHaveBytes'
    BY <2>1, <2>2, <2>4 DEF RowsHaveBytes
  <2>8. Quiet' /\ NoOrphanBytes'
    BY <1>3, <2>1, <2>2 DEF Quiet, NoOrphanBytes, Deleting
  <2> QED BY <1>4, <2>3, <2>5, <2>6, <2>7, <2>8 DEF StoreTyped
<1>7. CASE UploadRow(f)
  <2>1. /\ upload[f] = "row" /\ upload' = [upload EXCEPT ![f] = "stored"]
        /\ rows' = rows \cup {f} /\ stored' = stored \cup {f}
        /\ UNCHANGED <<bytes, unsure, died, crossed>>
    BY <1>7 DEF UploadRow, UploadTo
  <2>2. f \in Uploading /\ Uploading' = Uploading \ {f}
    BY <1>1, <2>1 DEF Uploading
  <2>3. f \notin cascade.found /\ f \notin unsure
    BY <2>1 DEF UploadsFit
  <2>4. UploadTyped' /\ UploadsFit'
    BY <1>1, <1>3, <2>1, <2>2 DEF StoreTyped, UploadTyped, UploadStages, UploadsFit
  <2>5. CascadeFits' /\ RowsHaveBytes'
    BY <1>3, <2>1, <2>2, <2>3 DEF CascadeFits, RowsHaveBytes, UploadsFit
  <2>6. Quiet' /\ NoOrphanBytes'
    BY <1>3, <2>1, <2>2 DEF Quiet, NoOrphanBytes, Deleting
  <2> QED BY <1>4, <2>4, <2>5, <2>6 DEF StoreTyped
<1>8. CASE Discard(f)
  <2>1. /\ upload[f] = "discard" /\ upload' = [upload EXCEPT ![f] = "refused"]
        /\ bytes' = bytes \ {f} /\ UNCHANGED <<rows, stored, unsure, died, crossed>>
    BY <1>8 DEF Discard, UploadTo
  <2>2. f \in Uploading /\ Uploading' = Uploading \ {f}
    BY <1>1, <2>1 DEF Uploading
  <2>3. f \notin rows \/ f \in unsure \ stored
    BY <2>1 DEF UploadsFit
  <2>4. UploadTyped' /\ UploadsFit'
    BY <1>1, <1>3, <2>1, <2>2 DEF StoreTyped, UploadTyped, UploadStages, UploadsFit
  <2>5. CascadeFits' /\ RowsHaveBytes'
    BY <1>3, <2>1, <2>3 DEF CascadeFits, RowsHaveBytes
  <2>6. Quiet' /\ NoOrphanBytes'
    BY <1>3, <2>1, <2>2 DEF Quiet, NoOrphanBytes, Deleting
  <2> QED BY <1>4, <2>4, <2>5, <2>6 DEF StoreTyped
<1>9. CASE UploadDies(f)
  <2>1. /\ f \in Uploading /\ upload' = [upload EXCEPT ![f] = "refused"]
        /\ died' = TRUE /\ UNCHANGED <<rows, bytes, stored, unsure, crossed>>
    BY <1>9 DEF UploadDies, UploadTo
  <2>2. Uploading' = Uploading \ {f} /\ upload[f] # "stored"
    BY <1>1, <2>1 DEF Uploading
  <2>3. UploadTyped' /\ UploadsFit'
    BY <1>1, <1>3, <2>1, <2>2 DEF StoreTyped, UploadTyped, UploadStages, UploadsFit
  <2>4. CascadeFits' /\ RowsHaveBytes'
    BY <1>3, <2>1 DEF CascadeFits, RowsHaveBytes
  <2>5. Quiet' /\ NoOrphanBytes'
    BY <1>3, <2>1, <2>2 DEF Quiet, NoOrphanBytes, Deleting
  <2> QED BY <1>4, <2>3, <2>4, <2>5 DEF StoreTyped
<1> QED BY <1>5, <1>6, <1>7, <1>8, <1>9 DEF UploadStep

(* Sends, deletions of messages and the archive flag touch no row and no    *)
(* byte; a send may overlap the deletion.                                   *)
LEMMA OthersKeep ==
  ASSUME Stores, UNCHANGED <<exists, rows, bytes, upload, stored, unsure, cascade, died>>,
         archived' \in BOOLEAN, changes' \in Nat, crossed' \in BOOLEAN, crossed => crossed'
  PROVE  Stores'
<1>1. StoreTyped'
  BY DEF Stores, StoreTyped, UploadTyped, CascadeTyped
<1>2. UploadsFit' /\ CascadeFits' /\ RowsHaveBytes'
  BY DEF Stores, UploadsFit, CascadeFits, RowsHaveBytes, Uploading
<1>3. Quiet' /\ NoOrphanBytes'
  BY DEF Stores, Quiet, NoOrphanBytes, Uploading, Deleting
<1> QED BY <1>1, <1>2, <1>3 DEF Stores

(* The deletion of the channel.                                             *)
LEMMA CascadeKeeps ==
  ASSUME Stores, DeleteRequest \/ CascadeStep \/ CascadeFails
  PROVE  Stores'
<1> USE DEF Stores
<1>1. UNCHANGED <<archived, upload, stored, unsure, changes>> /\ Uploading' = Uploading
  BY DEF DeleteRequest, CascadeStep, CascadeFind, CascadeDelete, CascadeBytes, CascadeFails,
         channel, uploads, Uploading
<1>2. cascade \in [todo : SUBSET CascadeSteps, found : SUBSET Files] /\ rows \subseteq Files
  BY DEF StoreTyped, UploadTyped, CascadeTyped
<1>3. CASE DeleteRequest
  <2>1. /\ cascade'.todo = CascadeSteps /\ cascade'.found = {}
        /\ cascade' \in [todo : SUBSET CascadeSteps, found : SUBSET Files]
        /\ cascade.todo = {} /\ exists
        /\ crossed' = (crossed \/ Uploading # {} \/ Sending # {})
        /\ UNCHANGED <<exists, rows, bytes, died>>
    BY <1>3 DEF DeleteRequest, Deleting, channel, uploads
  <2>2. cascade.found = {}
    BY <2>1 DEF CascadeFits
  <2>3. StoreTyped'
    BY <1>1, <2>1 DEF StoreTyped, UploadTyped, CascadeTyped
  <2>4. UploadsFit' /\ CascadeFits' /\ RowsHaveBytes'
    BY <1>1, <2>1 DEF UploadsFit, CascadeFits, RowsHaveBytes, CascadeSteps
  <2>5. Quiet' /\ NoOrphanBytes'
    BY <1>1, <2>1, <2>2 DEF Quiet, NoOrphanBytes, CascadeSteps
  <2> QED BY <2>3, <2>4, <2>5
<1>4. CASE CascadeFind
  <2>1. /\ cascade'.todo = cascade.todo \ {"find"} /\ cascade'.found = rows
        /\ cascade' \in [todo : SUBSET CascadeSteps, found : SUBSET Files]
        /\ "find" \in cascade.todo
        /\ UNCHANGED <<exists, rows, bytes, crossed, died>>
    BY <1>2, <1>4 DEF CascadeFind, channel, uploads
  <2>2. cascade.todo = CascadeSteps /\ cascade.found = {}
    BY <2>1 DEF CascadeFits
  <2>3. StoreTyped'
    BY <1>1, <2>1 DEF StoreTyped, UploadTyped, CascadeTyped
  <2>4. UploadsFit' /\ CascadeFits' /\ RowsHaveBytes'
    BY <1>1, <2>1, <2>2 DEF UploadsFit, CascadeFits, RowsHaveBytes, CascadeSteps
  <2>5. Quiet' /\ NoOrphanBytes'
    BY <1>1, <2>1, <2>2 DEF Quiet, NoOrphanBytes, Deleting, CascadeSteps
  <2> QED BY <2>3, <2>4, <2>5
<1>5. CASE CascadeDelete
  <2>1. PICK step \in {"posts", "rows", "channel"} :
          /\ step \in cascade.todo /\ CascadeDone(step)
          /\ rows' = IF step = "rows" THEN {} ELSE rows
          /\ exists' = IF step = "channel" THEN FALSE ELSE exists
    BY <1>5 DEF CascadeDelete
  <2>2. /\ cascade'.todo = cascade.todo \ {step} /\ cascade'.found = cascade.found
        /\ cascade' \in [todo : SUBSET CascadeSteps, found : SUBSET Files]
    BY <1>2, <2>1 DEF CascadeDone
  <2>3. "find" \notin cascade.todo /\ UNCHANGED <<bytes, crossed, died>>
    BY <1>5 DEF CascadeDelete
  <2>4. StoreTyped'
    BY <1>1, <2>1, <2>2, <2>3 DEF StoreTyped, UploadTyped, CascadeTyped
  <2>5. UploadsFit' /\ CascadeFits' /\ RowsHaveBytes'
    BY <1>1, <2>1, <2>2, <2>3 DEF UploadsFit, CascadeFits, RowsHaveBytes
  <2>6. Quiet' /\ NoOrphanBytes'
    BY <1>1, <2>1, <2>2, <2>3 DEF Quiet, NoOrphanBytes, Deleting
  <2> QED BY <2>4, <2>5, <2>6
<1>6. CASE CascadeBytes
  <2>1. /\ cascade.todo = {"bytes"} /\ cascade'.todo = {} /\ cascade'.found = cascade.found
        /\ cascade' \in [todo : SUBSET CascadeSteps, found : SUBSET Files]
        /\ bytes' = bytes \ cascade.found /\ UNCHANGED <<exists, rows, crossed, died>>
    BY <1>2, <1>6 DEF CascadeBytes, CascadeDone, channel
  <2>2. cascade.found \cap rows = {} /\ ~exists
    BY <2>1 DEF CascadeFits
  <2>3. Uploading \cap cascade.found \subseteq unsure
    BY DEF UploadsFit, Uploading
  <2>4. StoreTyped'
    BY <1>1, <2>1 DEF StoreTyped, UploadTyped, CascadeTyped
  <2>5. UploadsFit' /\ CascadeFits' /\ RowsHaveBytes'
    BY <1>1, <2>1, <2>2, <2>3 DEF UploadsFit, CascadeFits, RowsHaveBytes
  <2>6. Quiet' /\ NoOrphanBytes'
    BY <1>1, <2>1, <2>2 DEF Quiet, NoOrphanBytes, Deleting
  <2> QED BY <2>4, <2>5, <2>6
<1>7. CASE CascadeFails
  <2>1. /\ cascade'.todo = {} /\ cascade'.found = {}
        /\ cascade' \in [todo : SUBSET CascadeSteps, found : SUBSET Files]
        /\ died' = TRUE /\ UNCHANGED <<exists, rows, bytes, crossed>>
    BY <1>7 DEF CascadeFails, channel, uploads
  <2>2. StoreTyped'
    BY <1>1, <2>1 DEF StoreTyped, UploadTyped, CascadeTyped
  <2>3. UploadsFit' /\ CascadeFits' /\ RowsHaveBytes'
    BY <1>1, <2>1 DEF UploadsFit, CascadeFits, RowsHaveBytes
  <2>4. Quiet' /\ NoOrphanBytes'
    BY <1>1, <2>1 DEF Quiet, NoOrphanBytes, Deleting
  <2> QED BY <2>2, <2>3, <2>4
<1> QED BY <1>3, <1>4, <1>5, <1>6, <1>7 DEF CascadeStep

-----------------------------------------------------------------------------
(* Both together *)

PostingInv == Sends /\ Stores

LEMMA Initially == Init => PostingInv
<1> SUFFICES ASSUME Init PROVE PostingInv
  OBVIOUS
<1>1. posts = <<>> /\ Len(posts) = 0 /\ posts \in Seq(PostType)
  BY DEF Init
<1>2. Ids = {}
  BY <1>1 DEF Ids
<1>3. Idle \in SendType /\ Idle.at = "idle" /\ Idle.files = {} /\ Idle.parent = 0
  BY DEF Idle, SendType, SendStages
<1> HIDE DEF Idle
<1>4. send \in [Sockets -> SendType] /\ \A s \in Sockets : send[s] = Idle
  BY <1>3 DEF Init
<1>5. SendsFit
  BY <1>3, <1>4 DEF SendsFit
<1>6. SendTyped
  BY <1>1, <1>2, <1>4, <1>5 DEF Init, SendTyped
<1>7. Claims /\ AttachedOnce
  BY <1>2, <1>3, <1>4 DEF Claims, AttachedOnce
<1>8. cascade.todo = {} /\ cascade.found = {}
      /\ cascade \in [todo : SUBSET CascadeSteps, found : SUBSET Files]
  BY DEF Init
<1>9. StoreTyped
  BY <1>8 DEF Init, StoreTyped, UploadTyped, CascadeTyped, UploadStages
<1>10. UploadsFit /\ CascadeFits /\ RowsHaveBytes /\ Quiet /\ NoOrphanBytes
  <2>1. Uploading = {} /\ rows = {} /\ bytes = {} /\ stored = {} /\ unsure = {}
    BY DEF Init, Uploading
  <2> QED BY <1>8, <2>1 DEF UploadsFit, CascadeFits, RowsHaveBytes, Quiet, NoOrphanBytes, Deleting
<1> QED BY <1>6, <1>7, <1>9, <1>10 DEF PostingInv, Sends, Stores

LEMMA SendsStay == Sends /\ UNCHANGED messages => Sends'
BY DEF Sends, SendTyped, SendsFit, Claims, AttachedOnce, Ids, messages

LEMMA Preserved == PostingInv /\ [Next]_vars => PostingInv'
<1> SUFFICES ASSUME PostingInv, [Next]_vars PROVE PostingInv'
  OBVIOUS
<1> USE DEF PostingInv
<1>1. exists \in BOOLEAN /\ archived \in BOOLEAN /\ changes \in Nat /\ crossed \in BOOLEAN
      /\ stored \subseteq Files
  BY DEF Stores, StoreTyped, UploadTyped, CascadeTyped
<1>2. ASSUME NEW f \in Files, UploadStart(f) \/ UploadStep(f) \/ UploadFails(f) \/ UploadDies(f)
      PROVE  PostingInv'
  <2>1. UNCHANGED messages
    BY <1>2 DEF UploadStart, UploadStep, UploadCheck, UploadPut, UploadRow, Discard, UploadFails,
                UploadDies
  <2> QED BY <1>2, <2>1, UploadKeeps, SendsStay
<1>3. ASSUME NEW s \in Sockets, SendStart(s) \/ ReplyStart(s) \/ SendStep(s) \/ SendFails(s)
      PROVE  PostingInv'
  <2>1. /\ UNCHANGED <<exists, archived, rows, bytes, upload, stored, unsure, cascade, changes, died>>
        /\ \/ crossed' = crossed
           \/ crossed' = (crossed \/ Deleting)
    BY <1>3 DEF SendStart, ReplyStart, SendStep, FindParent, FindFiles, CheckTaken, Create,
                SendFails, channel, uploads
  <2> QED BY <1>1, <1>3, <2>1, SenderKeeps, OthersKeep
<1>4. ASSUME NEW i \in Ids, DeletePost(i) PROVE PostingInv'
  <2>1. UNCHANGED <<exists, archived, rows, bytes, upload, stored, unsure, cascade, changes, crossed, died>>
        /\ UNCHANGED <<send, sent, contended>>
    BY <1>4 DEF DeletePost, channel, uploads
  <2> QED BY <1>1, <1>4, <2>1, DeletePostShrinks, ShrinkKeeps, OthersKeep DEF Sends
<1>5. CASE SetArchived
  <2>1. /\ UNCHANGED <<exists, rows, bytes, upload, stored, unsure, cascade, crossed, died>>
        /\ UNCHANGED messages /\ archived' = ~archived /\ changes' = changes + 1
    BY <1>5 DEF SetArchived, uploads
  <2> QED BY <1>1, <2>1, SendsStay, OthersKeep
<1>6. CASE DeleteRequest \/ CascadeStep \/ CascadeFails
  <2>1. CASE UNCHANGED messages
    BY <1>6, <2>1, SendsStay, CascadeKeeps
  <2>2. CASE /\ posts' = [i \in Ids |-> [posts[i] EXCEPT !.state = "removed", !.files = {}]]
             /\ UNCHANGED <<send, sent, contended>>
    <3>1. PostsShrink
      BY <2>2, CascadeShrinks DEF Sends
    <3> QED BY <1>6, <2>2, <3>1, ShrinkKeeps, CascadeKeeps
  <2> QED BY <1>6, <2>1, <2>2 DEF DeleteRequest, CascadeStep, CascadeFind, CascadeDelete,
                                  CascadeBytes, CascadeFails, messages
<1>7. CASE UNCHANGED vars
  <2>1. UNCHANGED <<exists, archived, rows, bytes, upload, stored, unsure, cascade, changes, crossed, died>>
        /\ UNCHANGED messages
    BY <1>7 DEF vars, channel, uploads
  <2> QED BY <1>1, <2>1, SendsStay, OthersKeep
<1> QED BY <1>2, <1>3, <1>4, <1>5, <1>6, <1>7 DEF Next

LEMMA Always == Spec => []PostingInv
BY Initially, Preserved, PTL DEF Spec

(* The state is always of its type, and a reply always hangs on a message   *)
(* that is not itself a reply.                                              *)
THEOREM TypeCorrect == Spec => []TypeOK
<1>1. PostingInv => TypeOK
  BY DEF PostingInv, Sends, SendTyped, Stores, StoreTyped, UploadTyped, CascadeTyped, TypeOK,
         PostType, SendType
<1> QED BY <1>1, Always, PTL

(* A row can be served at any time: the bytes are there before the row, and *)
(* go after it.  Only an insert that was applied and rejected leaves a row   *)
(* without, and its upload was not answered.                                *)
THEOREM RowsAlwaysServed == Spec => []RowsHaveBytes
<1>1. PostingInv => RowsHaveBytes
  BY DEF PostingInv, Stores
<1> QED BY <1>1, Always, PTL

(* Whatever interleaves with the deletion of a channel, bytes nobody        *)
(* answers for are left only by a process that died or by an overlap.       *)
THEOREM NothingOrphaned == Spec => []NoOrphanBytes
<1>1. PostingInv => NoOrphanBytes
  BY DEF PostingInv, Stores
<1> QED BY <1>1, Always, PTL

(* Two messages share an attachment only when two handlers were attaching   *)
(* it at once.                                                              *)
THEOREM NeverAttachedTwice == Spec => []AttachedOnce
<1>1. PostingInv => AttachedOnce
  BY DEF PostingInv, Sends
<1> QED BY <1>1, Always, PTL

-----------------------------------------------------------------------------
(* The list of a tab: selecting positions, pages.                           *)

LEMMA TimelineNumbers ==
  /\ PageSize \in Nat \ {0} /\ Backlog \in Nat /\ MaxOthers \in Nat /\ MaxSends \in Nat
  /\ MaxJoins \in Nat /\ MaxDeletes \in Nat /\ MaxFaults \in Nat
BY PageAssumption

(* Every number of a finite set has a rank, and every rank belongs to one.  *)
LEMMA NthFacts ==
  ASSUME NEW I \in SUBSET Nat, IsFiniteSet(I)
  PROVE  /\ Cardinality(I) \in Nat
         /\ \A k \in 1..Cardinality(I) : Nth(I, k) \in I
         /\ \A j, k \in 1..Cardinality(I) : Nth(I, j) = Nth(I, k) => j = k
         /\ \A i \in I : \E k \in 1..Cardinality(I) : Nth(I, k) = i
<1> DEFINE n == Cardinality(I)
           UpTo(i) == {j \in I : j <= i}
           rank == [i \in I |-> Cardinality(UpTo(i))]
<1>1. n \in Nat
  BY FS_CardinalityType
<1>2. ASSUME NEW i \in I
      PROVE  IsFiniteSet(UpTo(i)) /\ Cardinality(UpTo(i)) \in 1..n
  <2>1. IsFiniteSet(UpTo(i)) /\ Cardinality(UpTo(i)) <= n
    BY FS_Subset, UpTo(i) \in SUBSET I
  <2>2. Cardinality(UpTo(i)) \in Nat
    BY <2>1, FS_CardinalityType
  <2>3. i \in UpTo(i)
    OBVIOUS
  <2>4. Cardinality(UpTo(i)) # 0
    BY <2>1, <2>3, FS_EmptySet
  <2> QED BY <2>1, <2>2, <2>4, <1>1
<1>3. ASSUME NEW i \in I, NEW j \in I, Cardinality(UpTo(i)) = Cardinality(UpTo(j))
      PROVE  i = j
  <2>1. CASE i <= j
    <3>1. \A x \in I : x \in Nat
      OBVIOUS
    <3>2. \A x \in I : x <= i => x <= j
      BY <2>1, <3>1
    <3>3. UpTo(i) \in SUBSET UpTo(j)
      BY <3>2, Zenon
    <3>4. UpTo(j) = UpTo(i)
      BY <3>3, <1>2, <1>3, FS_Subset
    <3>5. j \in UpTo(i)
      BY <3>4, <3>1
    <3> QED BY <3>5, <3>1, <2>1
  <2>2. CASE j <= i
    <3>1. \A x \in I : x \in Nat
      OBVIOUS
    <3>2. \A x \in I : x <= j => x <= i
      BY <2>2, <3>1
    <3>3. UpTo(j) \in SUBSET UpTo(i)
      BY <3>2, Zenon
    <3>4. UpTo(j) = UpTo(i)
      BY <3>3, <1>2, <1>3, FS_Subset
    <3>5. i \in UpTo(j)
      BY <3>4, <3>1
    <3> QED BY <3>5, <3>1, <2>2
  <2> QED BY <2>1, <2>2
<1>4. rank \in Injection(I, 1..n)
  BY <1>2, <1>3 DEF Injection, IsInjective
<1>5. IsFiniteSet(1..n) /\ Cardinality(1..n) = n
  BY <1>1, FS_Interval
<1>6. rank \in Surjection(I, 1..n)
  BY <1>4, <1>5, FS_Injection
<1>7. ASSUME NEW k \in 1..n
      PROVE  Nth(I, k) \in I /\ rank[Nth(I, k)] = k
  <2>1. \E i \in I : Cardinality(UpTo(i)) = k
    BY <1>6 DEF Surjection
  <2> QED BY <2>1 DEF Nth
<1>8. ASSUME NEW i \in I
      PROVE  \E k \in 1..n : Nth(I, k) = i
  <2>1. rank[i] \in 1..n
    BY <1>2
  <2>2. Nth(I, rank[i]) \in I /\ rank[Nth(I, rank[i])] = rank[i]
    BY <2>1, <1>7
  <2>3. Nth(I, rank[i]) = i
    BY <2>2, <1>3
  <2> QED BY <2>1, <2>3
<1> QED BY <1>1, <1>7, <1>8

(* What selecting positions leaves of a sequence.                           *)
LEMMA AtFacts ==
  ASSUME NEW S, NEW s \in Seq(S), NEW I \in SUBSET DOMAIN s
  PROVE  /\ At(s, I) \in Seq(S)
         /\ \A k \in DOMAIN At(s, I) : Nth(I, k) \in I /\ At(s, I)[k] = s[Nth(I, k)]
         /\ \A j, k \in DOMAIN At(s, I) : Nth(I, j) = Nth(I, k) => j = k
         /\ \A i \in I : \E k \in DOMAIN At(s, I) : At(s, I)[k] = s[i]
<1>1. DOMAIN s = 1..Len(s) /\ Len(s) \in Nat /\ \A i \in DOMAIN s : s[i] \in S
  BY LenProperties, ElementOfSeq
<1>2. I \in SUBSET Nat /\ IsFiniteSet(I)
  <2>1. IsFiniteSet(1..Len(s))
    BY <1>1, FS_Interval
  <2> QED BY <2>1, <1>1, FS_Subset
<1>3. /\ Cardinality(I) \in Nat
      /\ \A k \in 1..Cardinality(I) : Nth(I, k) \in I
      /\ \A j, k \in 1..Cardinality(I) : Nth(I, j) = Nth(I, k) => j = k
      /\ \A i \in I : \E k \in 1..Cardinality(I) : Nth(I, k) = i
  BY <1>2, NthFacts
<1>4. /\ DOMAIN At(s, I) = 1..Cardinality(I)
      /\ \A k \in 1..Cardinality(I) : At(s, I)[k] = s[Nth(I, k)]
  BY DEF At
<1>5. At(s, I) \in [1..Cardinality(I) -> S]
  BY <1>1, <1>3 DEF At
<1>6. At(s, I) \in Seq(S)
  BY <1>5, <1>3, SeqOfLength
<1>7. \A i \in I : \E k \in DOMAIN At(s, I) : At(s, I)[k] = s[i]
  BY <1>3, <1>4
<1> QED BY <1>3, <1>4, <1>6, <1>7

(* The page before a cursor: rows of distinct live messages before it, with *)
(* every newer one; without more to come, all of them.                      *)
PageIds(f) == {f.rows[k].id : k \in DOMAIN f.rows}
OneRowEach(f) == \A j, k \in DOMAIN f.rows : f.rows[j].id = f.rows[k].id => j = k

LEMMA AnswerFacts ==
  ASSUME TimelineTypeOK, NEW type \in {"history", "more"}, NEW cursor \in Nat
  PROVE  LET f == Answer(type, cursor) IN
         /\ f \in Pages /\ f.type = type /\ OneRowEach(f)
         /\ PageIds(f) \subseteq Before(cursor)
         /\ \A j \in PageIds(f), i \in Before(cursor) : i >= j => i \in PageIds(f)
         /\ ~f.more => PageIds(f) = Before(cursor)
<1> DEFINE B == Before(cursor)
           P == Newest(B)
           From(i) == {j \in B : j >= i}
           f == Answer(type, cursor)
<1>1. Len(docs) \in Nat /\ MessageIds \in SUBSET Nat /\ B \in SUBSET MessageIds
  BY LenProperties DEF TimelineTypeOK, MessageIds, Before, Live
<1>2. IsFiniteSet(B)
  <2>1. IsFiniteSet(MessageIds)
    BY <1>1, FS_Interval DEF MessageIds
  <2> QED BY <2>1, <1>1, FS_Subset
<1>3. P \in SUBSET B /\ IsFiniteSet(P)
  BY <1>2, FS_Subset DEF Newest
<1>4. /\ Cardinality(P) \in Nat
      /\ \A k \in 1..Cardinality(P) : Nth(P, k) \in P
      /\ \A j, k \in 1..Cardinality(P) : Nth(P, j) = Nth(P, k) => j = k
      /\ \A i \in P : \E k \in 1..Cardinality(P) : Nth(P, k) = i
  BY <1>1, <1>3, NthFacts
<1>5. /\ f = [type |-> type, rows |-> RowsOf(P), more |-> Cardinality(B) > PageSize]
      /\ DOMAIN RowsOf(P) = 1..Cardinality(P)
      /\ \A k \in 1..Cardinality(P) : RowsOf(P)[k] = [id |-> Nth(P, k), temp |-> 0]
  BY DEF Answer, RowsOf
<1>6. RowsOf(P) \in Seq([id : MessageIds, temp : {0}])
  <2>1. RowsOf(P) \in [1..Cardinality(P) -> [id : MessageIds, temp : {0}]]
    BY <1>1, <1>3, <1>4 DEF RowsOf
  <2> QED BY <2>1, <1>4, SeqOfLength
<1>7. f \in Pages /\ f.type = type
  BY <1>5, <1>6 DEF Pages
<1>8. OneRowEach(f)
  BY <1>4, <1>5 DEF OneRowEach
<1>9. PageIds(f) = P
  BY <1>4, <1>5 DEF PageIds
<1>10. ASSUME NEW i \in B
       PROVE  IsFiniteSet(From(i)) /\ Cardinality(From(i)) \in Nat
              /\ Cardinality(From(i)) <= Cardinality(B)
  BY <1>2, FS_Subset, FS_CardinalityType, From(i) \in SUBSET B
<1>11. ASSUME NEW j \in P, NEW i \in B, i >= j
       PROVE  i \in P
  <2>1. From(i) \in SUBSET From(j)
    <3>1. \A x \in B : x \in Nat
      BY <1>1
    <3>2. \A x \in B : x >= i => x >= j
      BY <3>1, <1>3, <1>11
    <3> QED BY <3>2, Zenon
  <2>2. Cardinality(From(i)) <= Cardinality(From(j))
    BY <2>1, <1>3, <1>10, FS_Subset
  <2>3. Cardinality(From(j)) <= PageSize
    BY DEF Newest
  <2>4. Cardinality(From(i)) <= PageSize
    BY <2>2, <2>3, <1>3, <1>10, TimelineNumbers
  <2> QED BY <2>4 DEF Newest
<1>12. ASSUME ~f.more
       PROVE  P = B
  <2>1. Cardinality(B) <= PageSize /\ Cardinality(B) \in Nat
    <3>1. Cardinality(B) \in Nat
      BY <1>2, FS_CardinalityType
    <3>2. ~(Cardinality(B) > PageSize)
      BY <1>12, Zenon DEF Answer
    <3> HIDE DEF B
    <3> QED BY <3>1, <3>2, TimelineNumbers
  <2>2. \A i \in B : Cardinality(From(i)) <= PageSize
    BY <2>1, <1>10, TimelineNumbers
  <2> QED BY <2>2 DEF Newest
<1> QED BY <1>3, <1>7, <1>8, <1>9, <1>11, <1>12

-----------------------------------------------------------------------------
(* What happens to the rows.                                                *)

Row == [id : 0..Len(docs), temp : 0..MaxSends]

(* No two rows of one id, and no two pending rows of one temporary id.      *)
OnceEach ==
  \A j, k \in DOMAIN items :
    items[j].id = items[k].id /\ (items[j].id # 0 \/ items[j].temp = items[k].temp) => j = k

LEMMA RowsAre ==
  ASSUME TimelineTypeOK
  PROVE  /\ items \in Seq(Row) /\ Len(docs) \in Nat
         /\ DOMAIN items = 1..Len(items) /\ Len(items) \in Nat
         /\ \A k \in DOMAIN items : items[k] \in Row /\ items[k].id \in Nat
<1>1. items \in Seq(Row) /\ Len(docs) \in Nat
  BY LenProperties DEF TimelineTypeOK, Row
<1>2. DOMAIN items = 1..Len(items) /\ Len(items) \in Nat
  BY <1>1, LenProperties
<1>3. \A k \in DOMAIN items : items[k] \in Row
  BY <1>1, <1>2, ElementOfSeq
<1>4. \A r \in Row : r.id \in Nat
  BY <1>1 DEF Row
<1> QED BY <1>1, <1>2, <1>3, <1>4

LEMMA SelectFacts ==
  ASSUME TimelineTypeOK, NEW I \in SUBSET DOMAIN items, items' = At(items, I)
  PROVE  /\ items' \in Seq(Row)
         /\ \A k \in DOMAIN items' : \E i \in I : items'[k] = items[i]
         /\ \A i \in I : \E k \in DOMAIN items' : items'[k] = items[i]
         /\ OnceEach => OnceEach'
<1>1. /\ items' \in Seq(Row)
      /\ \A k \in DOMAIN items' : Nth(I, k) \in I /\ items'[k] = items[Nth(I, k)]
      /\ \A j, k \in DOMAIN items' : Nth(I, j) = Nth(I, k) => j = k
      /\ \A i \in I : \E k \in DOMAIN items' : items'[k] = items[i]
  BY RowsAre, AtFacts
<1>2. ASSUME OnceEach, NEW j \in DOMAIN items', NEW k \in DOMAIN items', 
             items'[j].id = items'[k].id,
             items'[j].id # 0 \/ items'[j].temp = items'[k].temp
      PROVE  j = k
  <2>1. Nth(I, j) = Nth(I, k)
    BY <1>1, <1>2 DEF OnceEach
  <2> QED BY <2>1, <1>1
<1>3. OnceEach => OnceEach'
  BY <1>2 DEF OnceEach
<1> QED BY <1>1, <1>3

LEMMA UnpendedFacts ==
  ASSUME TimelineTypeOK, items' = Unpended(items)
  PROVE  /\ items' \in Seq(Row) /\ Pending' = {} /\ Shown' = Shown
         /\ OnceEach => OnceEach'
<1> DEFINE I == {k \in DOMAIN items : items[k].id # 0}
<1>1. /\ items' \in Seq(Row)
      /\ \A k \in DOMAIN items' : \E i \in I : items'[k] = items[i]
      /\ \A i \in I : \E k \in DOMAIN items' : items'[k] = items[i]
      /\ OnceEach => OnceEach'
  BY SelectFacts, I \in SUBSET DOMAIN items DEF Unpended
<1>2. \A k \in DOMAIN items' : items'[k].id # 0
  BY <1>1
<1>3. Pending' = {}
  BY <1>2 DEF Pending
<1>4. \A i : i \in Shown' <=> i \in Shown
  BY <1>1 DEF Shown
<1> QED BY <1>1, <1>3, <1>4

LEMMA DeletedFacts ==
  ASSUME TimelineTypeOK, NEW d \in Nat \ {0},
         items' = At(items, {k \in DOMAIN items : items[k].id # d})
  PROVE  /\ items' \in Seq(Row) /\ Pending' = Pending /\ Shown' = Shown \ {d}
         /\ OnceEach => OnceEach'
<1> DEFINE I == {k \in DOMAIN items : items[k].id # d}
<1>1. /\ items' \in Seq(Row)
      /\ \A k \in DOMAIN items' : \E i \in I : items'[k] = items[i]
      /\ \A i \in I : \E k \in DOMAIN items' : items'[k] = items[i]
      /\ OnceEach => OnceEach'
  BY SelectFacts, I \in SUBSET DOMAIN items
<1>2. \A k \in DOMAIN items : k \in I <=> items[k].id # d
  OBVIOUS
<1>3. I \in SUBSET DOMAIN items
  OBVIOUS
<1> HIDE DEF I
<1>4. \A t : t \in Pending' <=> t \in Pending
  <2>1. ASSUME NEW k \in DOMAIN items', items'[k].id = 0
        PROVE  items'[k].temp \in Pending
    <3>1. PICK i \in I : items'[k] = items[i]
      BY <1>1
    <3> QED BY <3>1, <2>1, <1>3 DEF Pending
  <2>2. ASSUME NEW i \in DOMAIN items, items[i].id = 0
        PROVE  \E k \in DOMAIN items' : items'[k].id = 0 /\ items'[k].temp = items[i].temp
    <3>1. i \in I
      BY <2>2, <1>2
    <3>2. PICK k \in DOMAIN items' : items'[k] = items[i]
      BY <1>1, <3>1
    <3> QED BY <3>2, <2>2
  <2> QED BY <2>1, <2>2, ZenonT(30) DEF Pending
<1>5. \A i : i \in Shown' <=> i \in Shown \ {d}
  <2>1. ASSUME NEW k \in DOMAIN items', items'[k].id # 0
        PROVE  items'[k].id \in Shown \ {d}
    <3>1. PICK i \in I : items'[k] = items[i]
      BY <1>1
    <3>2. i \in DOMAIN items /\ items[i].id # d
      BY <1>2, <1>3
    <3> QED BY <3>1, <3>2, <2>1 DEF Shown
  <2>2. ASSUME NEW i \in DOMAIN items, items[i].id # 0, items[i].id # d
        PROVE  \E k \in DOMAIN items' : items'[k].id = items[i].id
    <3>1. i \in I
      BY <2>2, <1>2
    <3>2. PICK k \in DOMAIN items' : items'[k] = items[i]
      BY <1>1, <3>1
    <3> QED BY <3>2
  <2>3. ASSUME NEW i \in Shown'
        PROVE  i \in Shown \ {d}
    BY <2>1 DEF Shown
  <2>4. ASSUME NEW i \in Shown \ {d}
        PROVE  i \in Shown'
    <3>1. PICK j \in DOMAIN items : items[j].id = i /\ i # 0
      BY DEF Shown
    <3>2. PICK k \in DOMAIN items' : items'[k].id = i
      BY <3>1, <2>2
    <3> QED BY <3>1, <3>2 DEF Shown
  <2> QED BY <2>3, <2>4
<1> QED BY <1>1, <1>4, <1>5

LEMMA OptimisticFacts ==
  ASSUME TimelineTypeOK, NEW t \in 1..MaxSends, items' = Append(items, [id |-> 0, temp |-> t])
  PROVE  /\ items' \in Seq(Row) /\ Pending' = Pending \cup {t} /\ Shown' = Shown
         /\ OnceEach /\ t \notin Pending => OnceEach'
<1> DEFINE row == [id |-> 0, temp |-> t]
           n == Len(items)
<1>1. row \in Row /\ row.id = 0 /\ row.temp = t
  BY RowsAre, TimelineNumbers DEF Row
<1>2. items \in Seq(Row) /\ n \in Nat /\ DOMAIN items = 1..n
  BY RowsAre
<1>3. /\ items' \in Seq(Row) /\ DOMAIN items' = 1..(n + 1)
      /\ \A k \in 1..n : items'[k] = items[k]
      /\ items'[n + 1] = row
  <2> HIDE DEF row
  <2>1. /\ Append(items, row) \in Seq(Row) /\ Len(Append(items, row)) = n + 1
        /\ \A k \in 1..n : Append(items, row)[k] = items[k]
        /\ Append(items, row)[n + 1] = row
    BY <1>1, <1>2, AppendProperties
  <2>2. items' = Append(items, row)
    BY DEF row
  <2> QED BY <2>1, <2>2, LenProperties
<1> HIDE DEF row, n
<1>4. \A s : s \in Pending' <=> s \in Pending \cup {t}
  BY <1>1, <1>2, <1>3 DEF Pending
<1>5. \A i : i \in Shown' <=> i \in Shown
  BY <1>1, <1>2, <1>3 DEF Shown
<1>6. ASSUME OnceEach, t \notin Pending
      PROVE  OnceEach'
  <2>1. \A k \in 1..n : items[k].id = 0 => items[k].temp # t
    BY <1>6, <1>2 DEF Pending
  <2> QED BY <2>1, <1>6, <1>1, <1>2, <1>3 DEF OnceEach
<1> QED BY <1>3, <1>4, <1>5, <1>6

LEMMA NewFacts ==
  ASSUME TimelineTypeOK, NEW f \in News, items' = ApplyNew(f)
  PROVE  /\ items' \in Seq(Row) /\ Shown' = Shown \cup {f.id}
         /\ Pending' \subseteq Pending /\ (f.temp # 0 => f.temp \notin Pending')
         /\ OnceEach /\ (f.temp \in Pending => f.id \notin Shown) => OnceEach'
<1> DEFINE waits == {k \in DOMAIN items : f.temp # 0 /\ items[k] = [id |-> 0, temp |-> f.temp]}
           row == [id |-> f.id, temp |-> f.temp]
           n == Len(items)
<1>1. /\ row \in Row /\ row.id = f.id /\ row.temp = f.temp /\ f.id \in Nat \ {0}
      /\ f.temp \in Nat
  BY RowsAre, TimelineNumbers DEF Row, News, MessageIds
<1>2. /\ items \in Seq(Row) /\ n \in Nat /\ DOMAIN items = 1..n
      /\ \A k \in 1..n : items[k] \in Row
  BY RowsAre
<1>3. \A k \in 1..n : k \in waits <=> f.temp # 0 /\ items[k].id = 0 /\ items[k].temp = f.temp
  BY <1>2 DEF Row
<1>4. CASE waits # {}
  <2>1. items' = [k \in 1..n |-> IF k \in waits THEN row ELSE items[k]]
    BY <1>4, <1>2 DEF ApplyNew
  <2> HIDE DEF waits, row, n
  <2>2. /\ DOMAIN items' = 1..n
        /\ \A k \in 1..n : items'[k] = IF k \in waits THEN row ELSE items[k]
    BY <2>1
  <2>3. items' \in Seq(Row)
    <3>1. items' \in [1..n -> Row]
      BY <2>1, <1>1, <1>2
    <3> QED BY <3>1, <1>2, SeqOfLength
  <2>4. PICK w \in 1..n : w \in waits
    BY <1>4, <1>2 DEF waits
  <2>5. f.temp \in Pending /\ f.temp # 0
    BY <2>4, <1>3, <1>2 DEF Pending
  <2>6. \A i : i \in Shown' <=> i \in Shown \cup {f.id}
    <3>1. \A k \in 1..n : items'[k].id = IF k \in waits THEN f.id ELSE items[k].id
      BY <2>2, <1>1
    <3>2. \A k \in waits : k \in 1..n /\ items[k].id = 0
      BY <1>2, <1>3 DEF waits
    <3> QED BY <3>1, <3>2, <2>2, <2>4, <1>1, <1>2 DEF Shown
  <2>7. \A k \in 1..n : items'[k].id = 0 => k \notin waits /\ items'[k] = items[k]
    BY <2>2, <1>1
  <2>8. Pending' \subseteq Pending
    BY <2>7, <2>2, <1>2 DEF Pending
  <2>9. f.temp \notin Pending'
    BY <2>7, <2>2, <1>3, <2>5 DEF Pending
  <2>10. ASSUME OnceEach, f.id \notin Shown
         PROVE  OnceEach'
    <3>1. \A k \in 1..n : items[k].id # f.id
      BY <2>10, <1>1, <1>2 DEF Shown
    <3>2. \A j, k \in waits : j = k
      BY <2>10, <1>2, <1>3 DEF OnceEach, waits
    <3>3. \A j, k \in 1..n : j \in waits /\ items'[j].id = items'[k].id => k \in waits
      BY <3>1, <2>2, <1>1
    <3> QED BY <3>1, <3>2, <3>3, <2>10, <2>2, <1>2 DEF OnceEach
  <2> QED BY <2>3, <2>5, <2>6, <2>8, <2>9, <2>10
<1>5. CASE waits = {} /\ f.id \in Shown
  <2>1. items' = items
    BY <1>5 DEF ApplyNew
  <2>2. Pending' = Pending /\ Shown' = Shown /\ (OnceEach => OnceEach')
    BY <2>1 DEF Pending, Shown, OnceEach
  <2>3. f.temp # 0 => f.temp \notin Pending
    BY <1>5, <1>2, <1>3 DEF Pending
  <2> QED BY <2>1, <2>2, <2>3, <1>2, <1>5
<1>6. CASE waits = {} /\ f.id \notin Shown
  <2>1. items' = Append(items, row)
    BY <1>6 DEF ApplyNew
  <2>2. f.temp # 0 => f.temp \notin Pending
    BY <1>6, <1>2, <1>3 DEF Pending
  <2>3. \A k \in 1..n : items[k].id # f.id
    BY <1>6, <1>1, <1>2 DEF Shown
  <2> HIDE DEF waits, row, n
  <2>4. /\ items' \in Seq(Row) /\ DOMAIN items' = 1..(n + 1)
        /\ \A k \in 1..n : items'[k] = items[k]
        /\ items'[n + 1] = row
    <3>1. /\ Append(items, row) \in Seq(Row) /\ Len(Append(items, row)) = n + 1
          /\ \A k \in 1..n : Append(items, row)[k] = items[k]
          /\ Append(items, row)[n + 1] = row
      BY <1>1, <1>2, AppendProperties DEF n
    <3> QED BY <3>1, <2>1, LenProperties
  <2>5. \A i : i \in Shown' <=> i \in Shown \cup {f.id}
    BY <2>4, <1>1, <1>2 DEF Shown
  <2>6. \A t : t \in Pending' <=> t \in Pending
    BY <2>4, <1>1, <1>2 DEF Pending
  <2>7. OnceEach => OnceEach'
    BY <2>3, <2>4, <1>1, <1>2 DEF OnceEach
  <2> QED BY <2>2, <2>4, <2>5, <2>6, <2>7
<1> QED BY <1>4, <1>5, <1>6

LEMMA OlderFacts ==
  ASSUME TimelineTypeOK, NEW f \in Pages,
         items' = At(f.rows, {k \in DOMAIN f.rows : f.rows[k].id \notin Shown}) \o items
  PROVE  /\ items' \in Seq(Row) /\ Shown' = Shown \cup PageIds(f) /\ Pending' = Pending
         /\ OnceEach /\ OneRowEach(f) => OnceEach'
<1>1. f.rows \in Seq(Row) /\ \A k \in DOMAIN f.rows : f.rows[k].id \in Nat \ {0}
  <2>1. f.rows \in Seq([id : MessageIds, temp : {0}])
    BY DEF Pages
  <2>2. MessageIds = 1..Len(docs) /\ Len(docs) \in Nat /\ 0 \in 0..MaxSends
    BY RowsAre, TimelineNumbers DEF MessageIds
  <2>3. /\ DOMAIN f.rows = 1..Len(f.rows) /\ Len(f.rows) \in Nat
        /\ \A k \in DOMAIN f.rows : f.rows[k] \in [id : MessageIds, temp : {0}]
        /\ f.rows \in [1..Len(f.rows) -> [id : MessageIds, temp : {0}]]
    BY <2>1, LenProperties, ElementOfSeq
  <2>4. \A k \in DOMAIN f.rows : f.rows[k] \in Row /\ f.rows[k].id \in Nat \ {0}
    BY <2>2, <2>3 DEF Row
  <2>5. f.rows \in [1..Len(f.rows) -> Row]
    BY <2>3, <2>4
  <2> QED BY <2>3, <2>4, <2>5, SeqOfLength
<1>r. PICK r \in Seq(Row) : r = f.rows
  BY <1>1
<1>0. PICK I \in SUBSET DOMAIN r : I = {k \in DOMAIN r : r[k].id \notin Shown}
  OBVIOUS
<1> DEFINE older == At(r, I)
           m == Len(older)
           n == Len(items)
<1>2. /\ older \in Seq(Row)
      /\ \A k \in DOMAIN older : Nth(I, k) \in I /\ older[k] = r[Nth(I, k)]
      /\ \A j, k \in DOMAIN older : Nth(I, j) = Nth(I, k) => j = k
      /\ \A i \in I : \E k \in DOMAIN older : older[k] = r[i]
  BY AtFacts
<1> HIDE DEF older
<1>3. /\ items \in Seq(Row) /\ n \in Nat /\ DOMAIN items = 1..n
  BY RowsAre
<1>4. m \in Nat /\ DOMAIN older = 1..m
  BY <1>2, LenProperties
<1>5. \A k \in 1..m : older[k].id \in PageIds(f) /\ older[k].id \notin Shown /\ older[k].id # 0
  <2> SUFFICES ASSUME NEW k \in 1..m
               PROVE  older[k].id \in PageIds(f) /\ older[k].id \notin Shown /\ older[k].id # 0
    OBVIOUS
  <2>1. Nth(I, k) \in I /\ older[k] = r[Nth(I, k)]
    BY <1>2, <1>4
  <2>2. Nth(I, k) \in DOMAIN r /\ r[Nth(I, k)].id \notin Shown
    BY <2>1, <1>0
  <2> QED BY <2>1, <2>2, <1>1, <1>r DEF PageIds
<1>6. \A i \in PageIds(f) : i \in Shown \/ \E k \in 1..m : older[k].id = i
  <2> SUFFICES ASSUME NEW i \in PageIds(f), i \notin Shown
               PROVE  \E k \in 1..m : older[k].id = i
    OBVIOUS
  <2>1. PICK x \in DOMAIN r : r[x].id = i
    BY <1>r DEF PageIds
  <2>2. x \in I
    BY <2>1, <1>0
  <2> QED BY <2>1, <2>2, <1>2, <1>4
<1>7. OneRowEach(f) => \A j, k \in 1..m : older[j].id = older[k].id => j = k
  <2> SUFFICES ASSUME OneRowEach(f), NEW j \in 1..m, NEW k \in 1..m, older[j].id = older[k].id
               PROVE  j = k
    OBVIOUS
  <2>1. /\ j \in DOMAIN older /\ Nth(I, j) \in I /\ older[j] = r[Nth(I, j)]
        /\ k \in DOMAIN older /\ Nth(I, k) \in I /\ older[k] = r[Nth(I, k)]
    BY <1>2, <1>4
  <2>2. Nth(I, j) \in DOMAIN r /\ Nth(I, k) \in DOMAIN r
    BY <2>1, <1>0
  <2>3. r[Nth(I, j)].id = r[Nth(I, k)].id
    BY <2>1
  <2>4. Nth(I, j) = Nth(I, k)
    BY <2>2, <2>3, <1>r DEF OneRowEach
  <2> QED BY <2>1, <2>4, <1>2
<1>8. 0 \notin PageIds(f)
  BY <1>1 DEF PageIds
<1> HIDE DEF m, n
<1>9. /\ items' \in Seq(Row) /\ DOMAIN items' = 1..(m + n)
      /\ \A k \in 1..m : items'[k] = older[k]
      /\ \A k \in 1..n : items'[m + k] = items[k]
  <2>1. /\ older \o items \in Seq(Row) /\ Len(older \o items) = m + n
        /\ \A k \in 1..(m + n) : (older \o items)[k] = IF k <= m THEN older[k] ELSE items[k - m]
    BY <1>2, <1>3, ConcatProperties DEF m, n
  <2>2. items' = older \o items
    BY <1>0, <1>r DEF older
  <2>3. DOMAIN items' = 1..(m + n) /\ items' \in Seq(Row)
    BY <2>1, <2>2, LenProperties
  <2>4. \A k \in 1..m : items'[k] = older[k]
    <3>1. \A k \in 1..m : k \in 1..(m + n) /\ k <= m
      BY <1>3, <1>4
    <3> QED BY <2>1, <2>2, <3>1
  <2>5. \A k \in 1..n : items'[m + k] = items[k]
    <3> SUFFICES ASSUME NEW k \in 1..n PROVE items'[m + k] = items[k]
      OBVIOUS
    <3>1. m + k \in 1..(m + n) /\ ~(m + k <= m) /\ (m + k) - m = k
      BY <1>3, <1>4
    <3> QED BY <3>1, <2>1, <2>2
  <2> QED BY <2>3, <2>4, <2>5
<1>10. \A k \in DOMAIN items' : k \in 1..m \/ \E j \in 1..n : k = m + j
  <2> SUFFICES ASSUME NEW k \in DOMAIN items', k \notin 1..m PROVE \E j \in 1..n : k = m + j
    OBVIOUS
  <2>1. k \in 1..(m + n)
    BY <1>9
  <2>2. n \in Nat /\ m \in Nat
    BY <1>3, <1>4
  <2>3. k - m \in 1..n /\ k = m + (k - m)
    BY <2>1, <2>2
  <2> QED BY <2>3
<1>11. (\A k \in 1..m : k \in DOMAIN items') /\ \A j \in 1..n : m + j \in DOMAIN items'
  <2>1. n \in Nat /\ m \in Nat
    BY <1>3, <1>4
  <2>2. (\A k \in 1..m : k \in 1..(m + n)) /\ \A j \in 1..n : m + j \in 1..(m + n)
    BY <2>1
  <2>3. DOMAIN items' = 1..(m + n)
    BY <1>9
  <2> QED BY <2>2, <2>3, Zenon
<1>12. \A i : i \in Shown' <=> i \in Shown \cup PageIds(f)
  <2>1. ASSUME NEW i \in Shown' PROVE i \in Shown \cup PageIds(f)
    <3>1. PICK k \in DOMAIN items' : items'[k].id = i /\ i # 0
      BY DEF Shown
    <3>2. CASE k \in 1..m
      BY <3>1, <3>2, <1>5, <1>9
    <3>3. ASSUME NEW j \in 1..n, k = m + j PROVE i \in Shown
      BY <3>1, <3>3, <1>3, <1>9 DEF Shown
    <3> QED BY <3>2, <3>3, <1>10
  <2>2. ASSUME NEW i \in Shown PROVE i \in Shown'
    <3>1. PICK j \in 1..n : items[j].id = i /\ i # 0
      BY <1>3 DEF Shown
    <3>2. m + j \in DOMAIN items' /\ items'[m + j].id = i
      BY <3>1, <1>9, <1>11
    <3> QED BY <3>1, <3>2 DEF Shown
  <2>3. ASSUME NEW i \in PageIds(f) PROVE i \in Shown'
    <3>1. CASE i \in Shown
      BY <3>1, <2>2
    <3>2. ASSUME NEW k \in 1..m, older[k].id = i PROVE i \in Shown'
      BY <3>2, <1>8, <1>9, <1>11 DEF Shown
    <3> QED BY <3>1, <3>2, <1>6
  <2> QED BY <2>1, <2>2, <2>3
<1>13. \A t : t \in Pending' <=> t \in Pending
  <2>1. ASSUME NEW t \in Pending' PROVE t \in Pending
    <3>1. PICK k \in DOMAIN items' : items'[k].id = 0 /\ items'[k].temp = t
      BY DEF Pending
    <3>2. k \notin 1..m
      BY <3>1, <1>5, <1>9
    <3>3. PICK j \in 1..n : k = m + j
      BY <3>2, <1>10
    <3> QED BY <3>1, <3>3, <1>3, <1>9 DEF Pending
  <2>2. ASSUME NEW t \in Pending PROVE t \in Pending'
    <3>1. PICK j \in 1..n : items[j].id = 0 /\ items[j].temp = t
      BY <1>3 DEF Pending
    <3>2. m + j \in DOMAIN items' /\ items'[m + j] = items[j]
      BY <1>9, <1>11
    <3> QED BY <3>1, <3>2 DEF Pending
  <2> QED BY <2>1, <2>2
<1>14. ASSUME OnceEach, OneRowEach(f), NEW j \in DOMAIN items', NEW k \in DOMAIN items',
              items'[j].id = items'[k].id, items'[j].id # 0 \/ items'[j].temp = items'[k].temp
       PROVE  j = k
  <2>1. CASE j \in 1..m /\ k \in 1..m
    BY <2>1, <1>14, <1>7, <1>9
  <2>2. ASSUME NEW x \in 1..n, items[x].id # 0 PROVE items[x].id \in Shown
    BY <2>2, <1>3 DEF Shown
  <2>3. ASSUME j \in 1..m, NEW y \in 1..n, k = m + y PROVE FALSE
    BY <2>2, <2>3, <1>14, <1>5, <1>9
  <2>4. ASSUME k \in 1..m, NEW x \in 1..n, j = m + x PROVE FALSE
    BY <2>2, <2>4, <1>14, <1>5, <1>9
  <2>5. ASSUME NEW x \in 1..n, NEW y \in 1..n, j = m + x, k = m + y PROVE j = k
    <3>1. items'[j] = items[x] /\ items'[k] = items[y]
      BY <2>5, <1>9
    <3>2. x = y
      BY <3>1, <1>14, <1>3 DEF OnceEach
    <3> QED BY <3>2, <2>5
  <2> QED BY <2>1, <2>3, <2>4, <2>5, <1>10
<1>15. OnceEach /\ OneRowEach(f) => OnceEach'
  BY <1>14 DEF OnceEach
<1> QED BY <1>9, <1>12, <1>13, <1>15

LEMMA HistoryFacts ==
  ASSUME TimelineTypeOK, NEW f \in Pages, items' = f.rows
  PROVE  /\ items' \in Seq(Row) /\ Shown' = PageIds(f) /\ Pending' = {}
         /\ OneRowEach(f) => OnceEach'
<1>1. f.rows \in Seq([id : MessageIds, temp : {0}])
  BY DEF Pages
<1>2. MessageIds = 1..Len(docs) /\ Len(docs) \in Nat /\ 0 \in 0..MaxSends
  BY RowsAre, TimelineNumbers DEF MessageIds
<1>3. /\ DOMAIN f.rows = 1..Len(f.rows) /\ Len(f.rows) \in Nat
      /\ \A k \in DOMAIN f.rows : f.rows[k] \in [id : MessageIds, temp : {0}]
      /\ f.rows \in [1..Len(f.rows) -> [id : MessageIds, temp : {0}]]
  BY <1>1, LenProperties, ElementOfSeq
<1>4. \A k \in DOMAIN f.rows : f.rows[k] \in Row /\ f.rows[k].id # 0
  BY <1>2, <1>3 DEF Row
<1>5. items' \in Seq(Row)
  <2>1. f.rows \in [1..Len(f.rows) -> Row]
    BY <1>3, <1>4
  <2> QED BY <2>1, <1>3, SeqOfLength
<1>6. \A i : i \in Shown' <=> i \in PageIds(f)
  BY <1>4 DEF Shown, PageIds
<1>7. Pending' = {}
  BY <1>4 DEF Pending
<1> QED BY <1>5, <1>6, <1>7 DEF OneRowEach, OnceEach

-----------------------------------------------------------------------------
(* Types.                                                                   *)

LEMMA QueueTail ==
  ASSUME NEW S, NEW s \in Seq(S), s # <<>>
  PROVE  /\ Tail(s) \in Seq(S) /\ Head(s) = s[1] /\ s[1] \in S /\ 1 \in DOMAIN s
         /\ Len(s) \in Nat \ {0} /\ Len(Tail(s)) = Len(s) - 1
         /\ DOMAIN s = 1..Len(s) /\ DOMAIN Tail(s) = 1..(Len(s) - 1)
         /\ \A p \in 1..(Len(s) - 1) : Tail(s)[p] = s[p + 1]
<1>1. Tail(s) \in Seq(S) /\ Len(Tail(s)) = Len(s) - 1
      /\ \A i \in 1..Len(Tail(s)) : Tail(s)[i] = s[i + 1]
  BY HeadTailProperties
<1>2. Len(s) \in Nat \ {0} /\ DOMAIN s = 1..Len(s)
  BY EmptySeq, LenProperties
<1>3. DOMAIN Tail(s) = 1..(Len(s) - 1)
  BY <1>1, LenProperties
<1>4. Head(s) = s[1] /\ s[1] \in S
  <2>1. Head(s) = s[1]
    OBVIOUS
  <2>2. 1 \in 1..Len(s)
    BY <1>2
  <2> QED BY <2>1, <2>2, ElementOfSeq
<1> QED BY <1>1, <1>2, <1>3, <1>4

LEMMA QueueAppend ==
  ASSUME NEW S, NEW s \in Seq(S), NEW x \in S
  PROVE  /\ Append(s, x) \in Seq(S) /\ Len(s) \in Nat /\ Len(Append(s, x)) = Len(s) + 1
         /\ DOMAIN s = 1..Len(s) /\ DOMAIN Append(s, x) = 1..(Len(s) + 1)
         /\ \A p \in 1..Len(s) : Append(s, x)[p] = s[p]
         /\ Append(s, x)[Len(s) + 1] = x
<1>1. /\ Append(s, x) \in Seq(S) /\ Len(Append(s, x)) = Len(s) + 1
      /\ \A p \in 1..Len(s) : Append(s, x)[p] = s[p]
      /\ Append(s, x)[Len(s) + 1] = x
  BY AppendProperties
<1> QED BY <1>1, LenProperties

LEMMA SeqMonotone ==
  ASSUME NEW S, NEW T, S \subseteq T
  PROVE  Seq(S) \subseteq Seq(T)
<1> SUFFICES ASSUME NEW s \in Seq(S) PROVE s \in Seq(T)
  OBVIOUS
<1>1. Len(s) \in Nat /\ s \in [1..Len(s) -> S]
  BY LenProperties
<1>2. s \in [1..Len(s) -> T]
  BY <1>1
<1> QED BY <1>1, <1>2, SeqOfLength

(* The frames by their type.                                                *)
LEMMA Kinds ==
  /\ \A f \in Frames : /\ f.type \in {"new", "deleted", "history", "more", "error"}
                       /\ f.type = "new" => f \in News
                       /\ f.type = "deleted" => f \in Deletions
                       /\ f.type \in {"history", "more"} => f \in Pages
  /\ \A f \in News : f.type = "new" /\ f.id \in MessageIds /\ f.temp \in 0..MaxSends
  /\ \A f \in Deletions : f.type = "deleted" /\ f.id \in MessageIds /\ f = Gone(f.id)
  /\ \A f \in Pages : f.type \in {"history", "more"} /\ f.more \in BOOLEAN
                      /\ f.rows \in Seq([id : MessageIds, temp : {0}])
  /\ \A f \in Requests : /\ f.type \in {"join", "more", "send"}
                         /\ f.type = "join" <=> f = Join
                         /\ f.type = "more" => f.before \in MessageIds
                         /\ f.type = "send" => f.temp \in 1..MaxSends
                                               /\ f = [type |-> "send", temp |-> f.temp]
  /\ NoJob.type = "none" /\ Join.type = "join"
  /\ \A i \in MessageIds : Gone(i) \in Deletions
  /\ \A i \in MessageIds, t \in 0..MaxSends : New(i, t) \in News
<1>1. \A f \in News : f.type = "new" /\ f.id \in MessageIds /\ f.temp \in 0..MaxSends
  BY DEF News
<1>2. \A f \in Deletions : f.type = "deleted" /\ f.id \in MessageIds /\ f = Gone(f.id)
  BY DEF Deletions, Gone
<1>3. \A f \in Pages : f.type \in {"history", "more"} /\ f.more \in BOOLEAN
                       /\ f.rows \in Seq([id : MessageIds, temp : {0}])
  BY DEF Pages
<1>4. \A f \in Frames : /\ f.type \in {"new", "deleted", "history", "more", "error"}
                        /\ f.type = "new" => f \in News
                        /\ f.type = "deleted" => f \in Deletions
                        /\ f.type \in {"history", "more"} => f \in Pages
  <2> SUFFICES ASSUME NEW f \in Frames
               PROVE  /\ f.type \in {"new", "deleted", "history", "more", "error"}
                      /\ f.type = "new" => f \in News
                      /\ f.type = "deleted" => f \in Deletions
                      /\ f.type \in {"history", "more"} => f \in Pages
    OBVIOUS
  <2>1. CASE f \in News
    BY <2>1, <1>1
  <2>2. CASE f \in Deletions
    BY <2>2, <1>2
  <2>3. CASE f \in Pages
    BY <2>3, <1>3
  <2>4. CASE f = [type |-> "error"]
    BY <2>4
  <2> QED BY <2>1, <2>2, <2>3, <2>4 DEF Frames
<1>5. ASSUME NEW f \in Requests
      PROVE  /\ f.type \in {"join", "more", "send"}
             /\ f.type = "join" <=> f = Join
             /\ f.type = "more" => f.before \in MessageIds
             /\ f.type = "send" => f.temp \in 1..MaxSends
                                   /\ f = [type |-> "send", temp |-> f.temp]
  <2>1. CASE f = Join
    BY <2>1 DEF Join
  <2>2. CASE f \in [type : {"more"}, before : MessageIds]
    BY <2>2 DEF Join
  <2>3. CASE f \in [type : {"send"}, temp : 1..MaxSends]
    BY <2>3 DEF Join
  <2> QED BY <2>1, <2>2, <2>3 DEF Requests
<1>6. /\ NoJob.type = "none" /\ Join.type = "join"
      /\ \A i \in MessageIds : Gone(i) \in Deletions
      /\ \A i \in MessageIds, t \in 0..MaxSends : New(i, t) \in News
  BY DEF NoJob, Join, Gone, New, Deletions, News
<1> QED BY <1>1, <1>2, <1>3, <1>4, <1>5, <1>6

LEMMA JobKinds ==
  ASSUME TimelineTypeOK
  PROVE  /\ job.type \in {"none", "new", "history", "more"}
         /\ job.type = "none" <=> job = NoJob
         /\ job.type = "new" <=> job \in News
         /\ job.type \in {"history", "more"} <=> job \in Pages
         /\ job # NoJob => job \in Frames
<1>1. CASE job = NoJob
  BY <1>1, Kinds
<1>2. CASE job \in News
  BY <1>2, Kinds DEF Frames
<1>3. CASE job \in Pages
  BY <1>3, Kinds DEF Frames
<1> QED BY <1>1, <1>2, <1>3 DEF TimelineTypeOK

LEMMA DocsStay ==
  ASSUME docs' = docs
  PROVE  /\ News' = News /\ Deletions' = Deletions /\ Pages' = Pages /\ Frames' = Frames
         /\ Requests' = Requests /\ Row' = Row /\ MessageIds' = MessageIds /\ Live' = Live
BY DEF News, Deletions, Pages, Frames, Requests, Row, MessageIds, Live

LEMMA DocsGrow ==
  ASSUME Len(docs) \in Nat, Len(docs') \in Nat, Len(docs) <= Len(docs')
  PROVE  /\ News \subseteq News' /\ Deletions \subseteq Deletions' /\ Pages \subseteq Pages'
         /\ Seq(Frames) \subseteq Seq(Frames') /\ Seq(Requests) \subseteq Seq(Requests')
         /\ Seq(Row) \subseteq Seq(Row') /\ MessageIds \subseteq MessageIds'
<1>1. MessageIds \subseteq MessageIds' /\ 0..Len(docs) \subseteq 0..Len(docs')
  BY DEF MessageIds
<1>2. News \subseteq News' /\ Deletions \subseteq Deletions' /\ Row \subseteq Row'
  BY <1>1 DEF News, Deletions, Row
<1>3. Pages \subseteq Pages'
  <2>1. [id : MessageIds, temp : {0}] \subseteq [id : MessageIds', temp : {0}]
    BY <1>1
  <2>2. Seq([id : MessageIds, temp : {0}]) \subseteq Seq([id : MessageIds', temp : {0}])
    BY <2>1, SeqMonotone
  <2> QED BY <2>2 DEF Pages
<1>4. Frames \subseteq Frames'
  BY <1>2, <1>3 DEF Frames
<1>5. Requests \subseteq Requests'
  BY <1>1 DEF Requests, Join
<1> QED BY <1>1, <1>2, <1>3, <1>4, <1>5, SeqMonotone

Doc == [live : BOOLEAN, temp : 0..MaxSends]

LEMMA DocsAre ==
  ASSUME TimelineTypeOK
  PROVE  /\ docs \in Seq(Doc) /\ Len(docs) \in Nat /\ DOMAIN docs = 1..Len(docs)
         /\ MessageIds = 1..Len(docs) /\ Live \subseteq MessageIds /\ MessageIds \subseteq Nat \ {0}
         /\ \A i \in MessageIds : docs[i] \in Doc /\ (i \in Live <=> docs[i].live)
         /\ \A i \in MessageIds : docs[i].temp \in 0..MaxSends
<1>1. docs \in Seq(Doc)
  BY DEF TimelineTypeOK, Doc
<1>2. Len(docs) \in Nat /\ DOMAIN docs = 1..Len(docs)
  BY <1>1, LenProperties
<1>3. \A i \in 1..Len(docs) : docs[i] \in Doc
  BY <1>1, ElementOfSeq
<1>4. \A d \in Doc : d.temp \in 0..MaxSends
  BY DEF Doc
<1> QED BY <1>1, <1>2, <1>3, <1>4 DEF MessageIds, Live

LEMMA InsertFacts ==
  ASSUME TimelineTypeOK, NEW temp \in 0..MaxSends, Insert(temp)
  PROVE  /\ docs' \in Seq(Doc) /\ Len(docs') = Len(docs) + 1
         /\ MessageIds' = MessageIds \cup {Len(docs) + 1} /\ Live' = Live \cup {Len(docs) + 1}
         /\ Len(docs) + 1 \notin MessageIds /\ \A i \in MessageIds : i < Len(docs) + 1
         /\ \A i \in MessageIds : docs'[i] = docs[i]
         /\ docs'[Len(docs) + 1].temp = temp
<1> DEFINE d == [live |-> TRUE, temp |-> temp]
           n == Len(docs)
<1>1. d \in Doc /\ d.live = TRUE /\ d.temp = temp
  BY DEF Doc
<1>2. docs \in Seq(Doc) /\ n \in Nat /\ MessageIds = 1..n
  BY DocsAre
<1>3. docs' = Append(docs, d)
  BY DEF Insert
<1> HIDE DEF d
<1>4. /\ docs' \in Seq(Doc) /\ Len(docs') = n + 1
      /\ \A p \in 1..n : docs'[p] = docs[p]
      /\ docs'[n + 1] = d
  BY <1>1, <1>2, <1>3, QueueAppend
<1> HIDE DEF n
<1>5. MessageIds' = 1..(n + 1)
  BY <1>4 DEF MessageIds
<1>6. MessageIds' = MessageIds \cup {n + 1} /\ n + 1 \notin MessageIds /\ \A i \in MessageIds : i < n + 1
  BY <1>2, <1>5
<1>7. \A i : i \in Live' <=> i \in Live \cup {n + 1}
  BY <1>1, <1>2, <1>4, <1>6 DEF Live
<1> QED BY <1>1, <1>2, <1>4, <1>6, <1>7 DEF n

LEMMA DeleteFacts ==
  ASSUME TimelineTypeOK, NEW i \in MessageIds, docs' = [docs EXCEPT ![i].live = FALSE]
  PROVE  /\ docs' \in Seq(Doc) /\ Len(docs') = Len(docs)
         /\ MessageIds' = MessageIds /\ Live' = Live \ {i}
         /\ \A j \in MessageIds : docs'[j].temp = docs[j].temp
<1>1. /\ docs \in Seq(Doc) /\ Len(docs) \in Nat /\ DOMAIN docs = 1..Len(docs)
      /\ MessageIds = 1..Len(docs) /\ \A j \in MessageIds : docs[j] \in Doc
  BY DocsAre
<1> DEFINE d == [docs[i] EXCEPT !.live = FALSE]
<1>2. d \in Doc /\ d.live = FALSE /\ d.temp = docs[i].temp
  BY <1>1 DEF Doc
<1>3. docs' = [docs EXCEPT ![i] = d]
  OBVIOUS
<1> HIDE DEF d
<1>4. /\ docs' \in Seq(Doc) /\ Len(docs') = Len(docs)
      /\ \A j \in 1..Len(docs) : docs'[j] = IF j = i THEN d ELSE docs[j]
  <2>1. i \in 1..Len(docs)
    BY <1>1
  <2>2. /\ [docs EXCEPT ![i] = d] \in Seq(Doc) /\ Len([docs EXCEPT ![i] = d]) = Len(docs)
        /\ \A j \in 1..Len(docs) : [docs EXCEPT ![i] = d][j] = IF j = i THEN d ELSE docs[j]
    BY <2>1, <1>1, <1>2, ExceptSeq
  <2> QED BY <2>2, <1>3
<1>5. MessageIds' = MessageIds
  BY <1>4 DEF MessageIds
<1>6. \A j : j \in Live' <=> j \in Live \ {i}
  BY <1>1, <1>2, <1>4, <1>5 DEF Live
<1> QED BY <1>1, <1>2, <1>4, <1>5, <1>6

LEMMA DeliverFacts ==
  ASSUME TimelineTypeOK, NEW f \in Frames, Deliver(f)
  PROVE  /\ inbox' \in Seq(Frames) /\ Len(inbox) \in Nat /\ DOMAIN inbox = 1..Len(inbox)
         /\ ~link => inbox' = inbox
         /\ link => /\ DOMAIN inbox' = 1..(Len(inbox) + 1) /\ Len(inbox') = Len(inbox) + 1
                    /\ \A p \in 1..Len(inbox) : inbox'[p] = inbox[p]
                    /\ inbox'[Len(inbox) + 1] = f
<1>1. inbox \in Seq(Frames)
  BY DEF TimelineTypeOK
<1>2. CASE link
  BY <1>1, <1>2, QueueAppend DEF Deliver
<1>3. CASE ~link
  BY <1>1, <1>3, LenProperties DEF Deliver
<1> QED BY <1>2, <1>3

LEMMA TakenFacts ==
  ASSUME TimelineTypeOK, outbox # <<>>, Taken
  PROVE  /\ outbox' \in Seq(Requests) /\ Len(outbox) \in Nat \ {0} /\ DOMAIN outbox = 1..Len(outbox)
         /\ DOMAIN outbox' = 1..(Len(outbox) - 1) /\ Len(outbox') = Len(outbox) - 1
         /\ Head(outbox) = outbox[1] /\ outbox[1] \in Requests
         /\ \A p \in 1..(Len(outbox) - 1) : outbox'[p] = outbox[p + 1]
BY QueueTail DEF TimelineTypeOK, Taken

LEMMA AskFacts ==
  ASSUME TimelineTypeOK, NEW f \in Requests, outbox' = Append(outbox, f)
  PROVE  /\ outbox' \in Seq(Requests) /\ Len(outbox) \in Nat /\ DOMAIN outbox = 1..Len(outbox)
         /\ DOMAIN outbox' = 1..(Len(outbox) + 1) /\ Len(outbox') = Len(outbox) + 1
         /\ \A p \in 1..Len(outbox) : outbox'[p] = outbox[p]
         /\ outbox'[Len(outbox) + 1] = f
BY QueueAppend DEF TimelineTypeOK

LEMMA ReceivedFacts ==
  ASSUME TimelineTypeOK, Receive
  PROVE  /\ inbox' \in Seq(Frames) /\ Len(inbox) \in Nat \ {0} /\ DOMAIN inbox = 1..Len(inbox)
         /\ DOMAIN inbox' = 1..(Len(inbox) - 1) /\ Len(inbox') = Len(inbox) - 1
         /\ Head(inbox) = inbox[1] /\ inbox[1] \in Frames
         /\ \A p \in 1..(Len(inbox) - 1) : inbox'[p] = inbox[p + 1]
BY QueueTail DEF TimelineTypeOK, Receive

(* What the tab makes of a frame.                                           *)
LEMMA ReceiveFacts ==
  ASSUME TimelineTypeOK, Receive, NEW f, f = inbox[1]
  PROVE  /\ f.type = "history" => /\ f \in Pages /\ items' = f.rows
                                  /\ hasMore' = f.more /\ loadingMore' = FALSE
                                  /\ stranded' = FALSE /\ torn' = MoreUnderWay
         /\ f.type = "more" => /\ f \in Pages /\ hasMore' = f.more /\ loadingMore' = FALSE
                               /\ items' = At(f.rows, {k \in DOMAIN f.rows : f.rows[k].id \notin Shown})
                                             \o items
         /\ f.type = "new" => f \in News /\ items' = ApplyNew(f)
         /\ f.type = "deleted" => /\ f \in Deletions
                                  /\ items' = At(items, {k \in DOMAIN items : items[k].id # f.id})
         /\ f.type = "error" => /\ open => items' = Unpended(items)
                                /\ ~open => items' = items
         /\ f.type \in {"new", "deleted", "history", "more", "error"}
         /\ f.type \notin {"history", "more"} => hasMore' = hasMore /\ loadingMore' = loadingMore
         /\ f.type # "history" => /\ torn' = torn
                                  /\ (stranded' <=> stranded \/ (f.type = "error" /\ ~open /\ Pending # {}))
         /\ inbox # <<>> /\ inbox' = Tail(inbox)
         /\ UNCHANGED <<docs, saying, job, detached, outbox, link, open, sends, joins, deletes, faults,
                        missed, reversed, late, refused, mute>>
<1>1. f = Head(inbox) /\ f \in Frames
  BY ReceivedFacts
<1>2. f.type \in {"new", "deleted", "history", "more", "error"}
  BY <1>1, Kinds
<1>3. /\ f.type = "new" => f \in News
      /\ f.type = "deleted" => f \in Deletions
      /\ f.type \in {"history", "more"} => f \in Pages
  BY <1>1, Kinds
<1>4. /\ inbox # <<>> /\ inbox' = Tail(inbox)
      /\ UNCHANGED <<docs, saying, job, detached, outbox, link, open, sends, joins, deletes, faults,
                     missed, reversed, late, refused, mute>>
  BY DEF Receive, server, counts
<1>5. CASE f.type = "history"
  BY <1>1, <1>3, <1>4, <1>5 DEF Receive, ApplyHistory
<1>6. CASE f.type = "more"
  BY <1>1, <1>3, <1>4, <1>6 DEF Receive, ApplyOlder
<1>7. CASE f.type = "new"
  BY <1>1, <1>3, <1>4, <1>7 DEF Receive
<1>8. CASE f.type = "deleted"
  BY <1>1, <1>3, <1>4, <1>8 DEF Receive
<1>9. CASE f.type = "error"
  BY <1>1, <1>3, <1>4, <1>9 DEF Receive
<1> QED BY <1>2, <1>5, <1>6, <1>7, <1>8, <1>9

(* The cursor of LOAD_MORE_MESSAGES is a message shown.                     *)
LEMMA ShownAre ==
  ASSUME TimelineTypeOK
  PROVE  Shown \subseteq MessageIds
BY RowsAre, DocsAre DEF Shown, Row

LEMMA CursorShown ==
  ASSUME TimelineTypeOK, LoadOlder
  PROVE  Head(Unpended(items)).id \in Shown
<1> DEFINE I == {k \in DOMAIN items : items[k].id # 0}
<1>1. PICK i \in DOMAIN items : items[i].id # 0
  BY DEF LoadOlder, Shown
<1>2. I \in SUBSET DOMAIN items /\ i \in I /\ Unpended(items) = At(items, I)
  BY <1>1 DEF Unpended
<1> HIDE DEF I
<1>3. /\ At(items, I) \in Seq(Row)
      /\ \A k \in DOMAIN At(items, I) : Nth(I, k) \in I /\ At(items, I)[k] = items[Nth(I, k)]
      /\ \E k \in DOMAIN At(items, I) : At(items, I)[k] = items[i]
  BY <1>2, RowsAre, AtFacts
<1>4. At(items, I) # <<>>
  BY <1>3, EmptySeq, LenProperties
<1>5. Head(At(items, I)) = At(items, I)[1] /\ 1 \in DOMAIN At(items, I)
  BY <1>3, <1>4, QueueTail
<1>6. \A j \in I : items[j].id # 0 /\ j \in DOMAIN items
  BY DEF I
<1> QED BY <1>2, <1>3, <1>5, <1>6 DEF Shown

LEMMA GrowKeeps ==
  ASSUME TimelineTypeOK, docs' \in Seq(Doc), Len(docs) <= Len(docs')
  PROVE  /\ saying \subseteq News' \cup Deletions' /\ job \in {NoJob} \cup News' \cup Pages'
         /\ outbox \in Seq(Requests') /\ inbox \in Seq(Frames') /\ items \in Seq(Row')
         /\ missed \subseteq MessageIds' /\ reversed \subseteq MessageIds'
         /\ News \subseteq News' /\ Deletions \subseteq Deletions'
<1>1. Len(docs') \in Nat
  BY LenProperties
<1>2. /\ News \subseteq News' /\ Deletions \subseteq Deletions' /\ Pages \subseteq Pages'
      /\ Seq(Frames) \subseteq Seq(Frames') /\ Seq(Requests) \subseteq Seq(Requests')
      /\ Seq(Row) \subseteq Seq(Row') /\ MessageIds \subseteq MessageIds'
  BY <1>1, DocsAre, DocsGrow
<1>3. items \in Seq(Row)
  BY RowsAre
<1> QED BY <1>2, <1>3 DEF TimelineTypeOK

LEMMA TypeInit == TimelineInit => TimelineTypeOK
<1> SUFFICES ASSUME TimelineInit PROVE TimelineTypeOK
  OBVIOUS
<1>1. docs \in Seq([live : BOOLEAN, temp : 0..MaxSends])
  <2>1. docs \in [1..Backlog -> [live : BOOLEAN, temp : 0..MaxSends]]
    BY TimelineNumbers DEF TimelineInit
  <2> QED BY <2>1, TimelineNumbers, SeqOfLength
<1>2. outbox \in Seq(Requests) /\ inbox \in Seq(Frames) /\ items \in Seq([id : 0..Len(docs), temp : 0..MaxSends])
  BY EmptySeq DEF TimelineInit
<1>3. /\ sends \in 0..MaxSends /\ joins \in 0..MaxJoins /\ deletes \in 0..MaxDeletes
      /\ faults \in 0..MaxFaults
  BY TimelineNumbers DEF TimelineInit
<1>4. /\ saying = {} /\ job = NoJob /\ detached = {} /\ missed = {} /\ reversed = {} /\ refused = {}
      /\ mute = {} /\ link \in BOOLEAN /\ open \in BOOLEAN /\ hasMore \in BOOLEAN /\ loadingMore \in BOOLEAN
      /\ late \in BOOLEAN /\ torn \in BOOLEAN /\ stranded \in BOOLEAN
  BY DEF TimelineInit
<1> QED BY <1>1, <1>2, <1>3, <1>4 DEF TimelineTypeOK

LEMMA TypeOthers ==
  ASSUME TimelineTypeOK,
         \/ PeerSend
         \/ \E i \in MessageIds : PeerDelete(i)
         \/ \E e \in saying : Publish(e) \/ Lose(e)
         \/ \E t \in detached : HandleDetached(t)
  PROVE  TimelineTypeOK'
<1>1. CASE PeerSend
  <2>1. 0 \in 0..MaxSends /\ Insert(0)
    BY <1>1, TimelineNumbers DEF PeerSend
  <2>2. /\ docs' \in Seq(Doc) /\ Len(docs') = Len(docs) + 1 /\ Len(docs) \in Nat
        /\ MessageIds' = MessageIds \cup {Len(docs) + 1}
    BY <2>1, InsertFacts, DocsAre
  <2>3. New(Len(docs) + 1, 0) \in News'
    BY <2>1, <2>2 DEF New, News
  <2>4. /\ saying \subseteq News' \cup Deletions' /\ job \in {NoJob} \cup News' \cup Pages'
        /\ outbox \in Seq(Requests') /\ inbox \in Seq(Frames') /\ items \in Seq(Row')
        /\ missed \subseteq MessageIds' /\ reversed \subseteq MessageIds'
    BY <2>2, GrowKeeps
  <2> QED BY <1>1, <2>2, <2>3, <2>4 DEF PeerSend, TimelineTypeOK, net, store, counts, history, Doc, Row
<1>2. ASSUME NEW i \in MessageIds, PeerDelete(i)
      PROVE  TimelineTypeOK'
  <2>1. /\ docs' \in Seq(Doc) /\ Len(docs') = Len(docs) /\ Len(docs) \in Nat
        /\ MessageIds' = MessageIds
    BY <1>2, DeleteFacts, DocsAre DEF PeerDelete
  <2>2. Gone(i) \in Deletions'
    BY <2>1 DEF Gone, Deletions
  <2>3. /\ saying \subseteq News' \cup Deletions' /\ job \in {NoJob} \cup News' \cup Pages'
        /\ outbox \in Seq(Requests') /\ inbox \in Seq(Frames') /\ items \in Seq(Row')
        /\ missed \subseteq MessageIds' /\ reversed \subseteq MessageIds'
    BY <2>1, GrowKeeps
  <2>4. deletes' \in 0..MaxDeletes
    BY <1>2, TimelineNumbers, SMTT(30) DEF PeerDelete, TimelineTypeOK
  <2> QED BY <1>2, <2>1, <2>2, <2>3, <2>4 DEF PeerDelete, TimelineTypeOK, net, store, history, Doc, Row
<1>3. ASSUME NEW e \in saying, Publish(e)
      PROVE  TimelineTypeOK'
  <2>1. docs' = docs
    BY <1>3 DEF Publish
  <2>2. /\ News' = News /\ Deletions' = Deletions /\ Pages' = Pages /\ Frames' = Frames
        /\ Requests' = Requests /\ MessageIds' = MessageIds
    BY <2>1, DocsStay
  <2>3. e \in Frames /\ e.id \in MessageIds
    BY Kinds DEF TimelineTypeOK, Frames
  <2>4. inbox' \in Seq(Frames)
    BY <1>3, <2>3, DeliverFacts DEF Publish
  <2>5. missed' \subseteq MessageIds /\ reversed' \subseteq MessageIds /\ late' \in BOOLEAN
    <3>1. late' \in BOOLEAN
      BY <1>3, Zenon DEF Publish, TimelineTypeOK
    <3>2. missed' \subseteq MessageIds /\ reversed' \subseteq MessageIds
      BY <1>3, <2>3 DEF Publish, TimelineTypeOK
    <3> QED BY <3>1, <3>2
  <2>6. /\ UNCHANGED <<job, detached, outbox, link, open, items, hasMore, loadingMore, sends, joins, deletes,
                       faults, torn, stranded, refused, mute>>
        /\ saying' \subseteq saying
    BY <1>3 DEF Publish, store, counts
  <2> QED BY <2>1, <2>2, <2>4, <2>5, <2>6 DEF TimelineTypeOK
<1>4. ASSUME NEW t \in detached, HandleDetached(t)
      PROVE  TimelineTypeOK'
  <2>1. t \in 0..MaxSends /\ Insert(t)
    BY <1>4, TimelineNumbers DEF HandleDetached, TimelineTypeOK
  <2>2. /\ docs' \in Seq(Doc) /\ Len(docs') = Len(docs) + 1 /\ Len(docs) \in Nat
        /\ MessageIds' = MessageIds \cup {Len(docs) + 1}
    BY <2>1, InsertFacts, DocsAre
  <2>3. New(Len(docs) + 1, t) \in News'
    BY <2>1, <2>2 DEF New, News
  <2>4. /\ saying \subseteq News' \cup Deletions' /\ job \in {NoJob} \cup News' \cup Pages'
        /\ outbox \in Seq(Requests') /\ inbox \in Seq(Frames') /\ items \in Seq(Row')
        /\ missed \subseteq MessageIds' /\ reversed \subseteq MessageIds'
    BY <2>2, GrowKeeps
  <2> QED BY <1>4, <2>2, <2>3, <2>4
          DEF HandleDetached, TimelineTypeOK, net, store, counts, history, Doc, Row
<1>5. ASSUME NEW e \in saying, Lose(e)
      PROVE  TimelineTypeOK'
  <2>1. docs' = docs
    BY <1>5 DEF Lose
  <2>2. /\ News' = News /\ Deletions' = Deletions /\ Pages' = Pages /\ Frames' = Frames
        /\ Requests' = Requests /\ MessageIds' = MessageIds
    BY <2>1, DocsStay
  <2>3. e.id \in MessageIds
    BY Kinds DEF TimelineTypeOK
  <2>4. missed' \subseteq MessageIds /\ reversed' \subseteq MessageIds
    BY <1>5, <2>3 DEF Lose, TimelineTypeOK
  <2>5. faults' \in 0..MaxFaults /\ saying' \subseteq saying
    BY <1>5, TimelineNumbers DEF Lose, TimelineTypeOK
  <2> QED BY <1>5, <2>1, <2>2, <2>4, <2>5 DEF Lose, TimelineTypeOK, net, store
<1> QED BY <1>1, <1>2, <1>3, <1>4, <1>5

LEMMA TypeHandlers ==
  ASSUME TimelineTypeOK, Handle \/ BreakOff \/ RefuseFrame
  PROVE  TimelineTypeOK'
<1>1. CASE HandleJoin
  <2>1. docs' = docs
    BY <1>1 DEF HandleJoin
  <2>2. /\ News' = News /\ Deletions' = Deletions /\ Pages' = Pages /\ Frames' = Frames
        /\ Requests' = Requests /\ MessageIds' = MessageIds
    BY <2>1, DocsStay
  <2>3. job' \in Pages
    BY <1>1, AnswerFacts, DocsAre DEF HandleJoin
  <2>4. outbox' \in Seq(Requests)
    BY <1>1, TakenFacts DEF HandleJoin, Take
  <2> QED BY <1>1, <2>1, <2>2, <2>3, <2>4 DEF HandleJoin, TimelineTypeOK, store, counts
<1>2. CASE HandleMore
  <2>1. docs' = docs
    BY <1>2 DEF HandleMore, history
  <2>2. /\ News' = News /\ Deletions' = Deletions /\ Pages' = Pages /\ Frames' = Frames
        /\ Requests' = Requests /\ MessageIds' = MessageIds
    BY <2>1, DocsStay
  <2>3. outbox' \in Seq(Requests) /\ Head(outbox) \in Requests
    BY <1>2, TakenFacts DEF HandleMore, Take
  <2>4. Head(outbox).before \in Nat
    BY <1>2, <2>3, Kinds, DocsAre DEF HandleMore, Take
  <2>5. job' \in Pages
    BY <1>2, <2>4, AnswerFacts DEF HandleMore
  <2> QED BY <1>2, <2>1, <2>2, <2>3, <2>5 DEF HandleMore, TimelineTypeOK, store, counts, history
<1>3. CASE HandleSend
  <2>1. outbox' \in Seq(Requests) /\ Head(outbox) \in Requests
    BY <1>3, TakenFacts DEF HandleSend, Take
  <2>2. Head(outbox).temp \in 0..MaxSends
    BY <1>3, <2>1, Kinds, TimelineNumbers DEF HandleSend, Take
  <2>3. /\ docs' \in Seq(Doc) /\ Len(docs') = Len(docs) + 1 /\ Len(docs) \in Nat
        /\ MessageIds' = MessageIds \cup {Len(docs) + 1}
    BY <1>3, <2>2, InsertFacts, DocsAre DEF HandleSend
  <2>4. job' \in News'
    BY <1>3, <2>2, <2>3 DEF HandleSend, New, News
  <2>5. /\ saying \subseteq News' \cup Deletions'
        /\ inbox \in Seq(Frames') /\ items \in Seq(Row')
        /\ missed \subseteq MessageIds' /\ reversed \subseteq MessageIds'
    BY <2>3, GrowKeeps
  <2>6. outbox' \in Seq(Requests')
    <3>1. Len(docs') \in Nat /\ Len(docs) <= Len(docs')
      BY <2>3
    <3> QED BY <2>1, <2>3, <3>1, DocsGrow
  <2> QED BY <1>3, <2>3, <2>4, <2>5, <2>6 DEF HandleSend, TimelineTypeOK, store, counts, history, Doc, Row
<1>4. CASE Reply
  <2>1. docs' = docs
    BY <1>4 DEF Reply
  <2>2. /\ News' = News /\ Deletions' = Deletions /\ Pages' = Pages /\ Frames' = Frames
        /\ Requests' = Requests /\ MessageIds' = MessageIds
    BY <2>1, DocsStay
  <2>3. inbox' \in Seq(Frames)
    BY <1>4, JobKinds, DeliverFacts DEF Reply
  <2>4. late' \in BOOLEAN
    BY <1>4, Zenon DEF Reply, TimelineTypeOK
  <2>5. /\ UNCHANGED <<saying, detached, outbox, link, open, items, hasMore, loadingMore, sends, joins, deletes,
                       faults, missed, reversed, torn, stranded, refused, mute>>
        /\ job' = NoJob
    BY <1>4 DEF Reply, store, counts
  <2> QED BY <2>1, <2>2, <2>3, <2>4, <2>5 DEF TimelineTypeOK
<1>5. CASE RefuseFrame
  <2>1. docs' = docs
    BY <1>5 DEF RefuseFrame, server
  <2>2. /\ News' = News /\ Deletions' = Deletions /\ Pages' = Pages /\ Frames' = Frames
        /\ Requests' = Requests /\ MessageIds' = MessageIds
    BY <2>1, DocsStay
  <2>3. inbox' \in Seq(Frames)
    <3>1. [type |-> "error"] \in Frames
      BY DEF Frames
    <3> QED BY <1>5, <3>1, DeliverFacts DEF RefuseFrame
  <2>4. outbox' \in Seq(Requests) /\ Head(outbox) \in Requests
    BY <1>5, TakenFacts DEF RefuseFrame
  <2>5. refused' \subseteq {"join", "more", "send"}
    BY <1>5, <2>4, Kinds DEF RefuseFrame, TimelineTypeOK
  <2>6. faults' \in 0..MaxFaults
    BY <1>5, TimelineNumbers DEF RefuseFrame, TimelineTypeOK
  <2> QED BY <1>5, <2>1, <2>2, <2>3, <2>4, <2>5, <2>6 DEF RefuseFrame, TimelineTypeOK, store, server
<1>6. CASE BreakOff
  <2>1. docs' = docs
    BY <1>6 DEF BreakOff
  <2>2. /\ News' = News /\ Deletions' = Deletions /\ Pages' = Pages /\ Frames' = Frames
        /\ Requests' = Requests /\ MessageIds' = MessageIds
    BY <2>1, DocsStay
  <2>3. inbox' \in Seq(Frames) /\ refused' \subseteq {"join", "more", "send"}
    <3>1. [type |-> "error"] \in Frames
      BY DEF Frames
    <3> QED BY <1>6, <3>1, DeliverFacts DEF BreakOff, TimelineTypeOK
  <2>4. missed' \subseteq MessageIds
    BY <1>6, JobKinds, Kinds DEF BreakOff, TimelineTypeOK
  <2>5. mute' \subseteq 0..MaxSends
    <3>1. job.temp \in 0..MaxSends
      BY <1>6, JobKinds, Kinds DEF BreakOff
    <3>2. mute' \subseteq mute \cup {job.temp}
      BY <1>6 DEF BreakOff
    <3> QED BY <3>1, <3>2 DEF TimelineTypeOK
  <2>6. faults' \in 0..MaxFaults
    BY <1>6, TimelineNumbers DEF BreakOff, TimelineTypeOK
  <2> QED BY <1>6, <2>1, <2>2, <2>3, <2>4, <2>5, <2>6 DEF BreakOff, TimelineTypeOK, store
<1> QED BY <1>1, <1>2, <1>3, <1>4, <1>5, <1>6 DEF Handle

LEMMA TypeTab ==
  ASSUME TimelineTypeOK,
         Connect \/ Drop \/ OpenChannel \/ LeaveChannel \/ SendMessage \/ LoadOlder \/ Receive
  PROVE  TimelineTypeOK'
<1>1. docs' = docs
  BY ReceiveFacts DEF Connect, Drop, OpenChannel, LeaveChannel, SendMessage, LoadOlder, server
<1>2. /\ News' = News /\ Deletions' = Deletions /\ Pages' = Pages /\ Frames' = Frames
      /\ Requests' = Requests /\ MessageIds' = MessageIds /\ Row' = Row
  BY <1>1, DocsStay
<1>3. Join \in Requests
  BY DEF Requests
<1>4. CASE Connect
  <2>1. outbox' \in Seq(Requests) /\ inbox' \in Seq(Frames)
    <3>1. <<>> \in Seq(Requests) /\ <<>> \in Seq(Frames)
      BY EmptySeq
    <3>2. <<Join>> \in Seq(Requests)
      BY <1>3
    <3> QED BY <1>4, <3>1, <3>2 DEF Connect
  <2> QED BY <1>1, <1>2, <1>4, <2>1 DEF Connect, TimelineTypeOK, server, store, counts, history
<1>5. CASE Drop
  <2>1. outbox' \in Seq(Requests) /\ inbox' \in Seq(Frames)
    BY <1>5, EmptySeq DEF Drop
  <2>2. saying' \subseteq News \cup Deletions
    BY <1>5, JobKinds DEF Drop, TimelineTypeOK
  <2>3. detached' \subseteq 1..MaxSends
    <3>1. PICK n \in 0..Len(outbox) :
            detached' = detached \cup {outbox[k].temp : k \in {k \in 1..n : outbox[k].type = "send"}}
      BY <1>5 DEF Drop
    <3>2. \A k \in 1..n : outbox[k] \in Requests
      BY LenProperties, ElementOfSeq DEF TimelineTypeOK
    <3>3. \A k \in 1..n : outbox[k].type = "send" => outbox[k].temp \in 1..MaxSends
      BY <3>2, Kinds
    <3> QED BY <3>1, <3>3 DEF TimelineTypeOK
  <2>4. faults' \in 0..MaxFaults
    BY <1>5, TimelineNumbers DEF Drop, TimelineTypeOK
  <2> QED BY <1>1, <1>2, <1>5, <2>1, <2>2, <2>3, <2>4 DEF Drop, TimelineTypeOK, store, history
<1>6. CASE OpenChannel
  <2>1. outbox' \in Seq(Requests)
    BY <1>3, <1>6, AskFacts DEF OpenChannel, TimelineTypeOK
  <2>2. joins' \in 0..MaxJoins
    BY <1>6, TimelineNumbers DEF OpenChannel, TimelineTypeOK
  <2> QED BY <1>1, <1>2, <1>6, <2>1, <2>2 DEF OpenChannel, TimelineTypeOK, server, store, history
<1>7. CASE LeaveChannel
  BY <1>1, <1>2, <1>7 DEF LeaveChannel, TimelineTypeOK, server, net, store, counts, history
<1>8. CASE SendMessage
  <2>1. sends' \in 0..MaxSends /\ sends + 1 \in 1..MaxSends
    BY <1>8, TimelineNumbers DEF SendMessage, TimelineTypeOK
  <2>2. items' \in Seq(Row) /\ outbox' \in Seq(Requests)
    <3>1. CASE link
      <4>1. items' = Append(items, [id |-> 0, temp |-> sends + 1])
        BY <1>8, <3>1 DEF SendMessage
      <4>2. [type |-> "send", temp |-> sends + 1] \in Requests
        BY <2>1 DEF Requests
      <4>3. outbox' = Append(outbox, [type |-> "send", temp |-> sends + 1])
        BY <1>8, <3>1 DEF SendMessage
      <4> QED BY <2>1, <4>1, <4>2, <4>3, OptimisticFacts, AskFacts
    <3>2. CASE ~link
      <4>1. items' = Unpended(items) /\ outbox' = outbox
        BY <1>8, <3>2 DEF SendMessage
      <4> QED BY <4>1, UnpendedFacts DEF TimelineTypeOK
    <3> QED BY <3>1, <3>2
  <2> QED BY <1>1, <1>2, <1>8, <2>1, <2>2 DEF SendMessage, TimelineTypeOK, server, history, Row
<1>9. CASE LoadOlder
  <2>1. outbox' \in Seq(Requests)
    <3>1. [type |-> "more", before |-> Head(Unpended(items)).id] \in Requests
      BY <1>9, CursorShown, ShownAre DEF Requests
    <3> QED BY <1>9, <3>1, AskFacts DEF LoadOlder
  <2>2. torn' \in BOOLEAN
    BY <1>9, Zenon DEF LoadOlder, TimelineTypeOK
  <2>3. /\ UNCHANGED <<saying, job, detached, inbox, link, open, items, hasMore, sends, joins, deletes,
                       faults, missed, reversed, late, stranded, refused, mute>>
        /\ loadingMore' = TRUE
    BY <1>9 DEF LoadOlder, server, counts
  <2> QED BY <1>1, <1>2, <2>1, <2>2, <2>3 DEF TimelineTypeOK
<1>10. CASE Receive
  <2> DEFINE f == inbox[1]
  <2>1. f = inbox[1]
    OBVIOUS
  <2> HIDE DEF f
  <2>2. f \in Frames /\ inbox' \in Seq(Frames)
    BY <1>10, <2>1, ReceivedFacts
  <2>3. items' \in Seq(Row)
    <3>1. CASE f.type = "history"
      BY <1>10, <2>1, <3>1, ReceiveFacts, HistoryFacts
    <3>2. CASE f.type = "more"
      BY <1>10, <2>1, <3>2, ReceiveFacts, OlderFacts
    <3>3. CASE f.type = "new"
      BY <1>10, <2>1, <3>3, ReceiveFacts, NewFacts
    <3>4. CASE f.type = "deleted"
      <4>1. f \in Deletions /\ items' = At(items, {k \in DOMAIN items : items[k].id # f.id})
        BY <1>10, <2>1, <3>4, ReceiveFacts
      <4>2. f.id \in Nat \ {0}
        BY <4>1, Kinds, DocsAre
      <4> QED BY <4>1, <4>2, DeletedFacts
    <3>5. CASE f.type = "error"
      BY <1>10, <2>1, <3>5, ReceiveFacts, UnpendedFacts, RowsAre DEF TimelineTypeOK
    <3> QED BY <1>10, <2>1, <3>1, <3>2, <3>3, <3>4, <3>5, ReceiveFacts
  <2>4. hasMore' \in BOOLEAN /\ loadingMore' \in BOOLEAN
    <3>1. CASE f.type \in {"history", "more"}
      <4>1. f \in Pages /\ hasMore' = f.more /\ loadingMore' = FALSE
        BY <1>10, <2>1, <3>1, ReceiveFacts
      <4> QED BY <4>1, Kinds
    <3>2. CASE f.type \notin {"history", "more"}
      BY <1>10, <2>1, <3>2, ReceiveFacts DEF TimelineTypeOK
    <3> QED BY <3>1, <3>2
  <2>5. torn' \in BOOLEAN /\ stranded' \in BOOLEAN
    <3>1. torn' \in BOOLEAN
      BY <1>10, Zenon DEF Receive, TimelineTypeOK, MoreUnderWay
    <3>2. stranded' \in BOOLEAN
      BY <1>10, Zenon DEF Receive, TimelineTypeOK
    <3> QED BY <3>1, <3>2
  <2>6. UNCHANGED <<docs, saying, job, detached, outbox, link, open, sends, joins, deletes, faults,
                    missed, reversed, late, refused, mute>>
    BY <1>10, <2>1, ReceiveFacts
  <2> QED BY <1>2, <2>2, <2>3, <2>4, <2>5, <2>6 DEF TimelineTypeOK, Row
<1> QED BY <1>4, <1>5, <1>6, <1>7, <1>8, <1>9, <1>10

LEMMA TypeStep == TimelineTypeOK /\ [TimelineNext]_timelineVars => TimelineTypeOK'
<1> SUFFICES ASSUME TimelineTypeOK, [TimelineNext]_timelineVars PROVE TimelineTypeOK'
  OBVIOUS
<1>1. CASE UNCHANGED timelineVars
  <2>1. docs' = docs
    BY <1>1 DEF timelineVars, server
  <2>2. /\ News' = News /\ Deletions' = Deletions /\ Pages' = Pages /\ Frames' = Frames
        /\ Requests' = Requests /\ MessageIds' = MessageIds
    BY <2>1, DocsStay
  <2> QED BY <1>1, <2>2 DEF timelineVars, server, net, store, counts, history, TimelineTypeOK
<1>2. CASE TimelineNext
  BY <1>2, TypeOthers, TypeHandlers, TypeTab DEF TimelineNext
<1> QED BY <1>1, <1>2

(* Every reachable state of a timeline is well-typed.                       *)
THEOREM TimelineTyped == TimelineSpec => []TimelineTypeOK
BY TypeInit, TypeStep, PTL DEF TimelineSpec

-----------------------------------------------------------------------------
(* What is on its way tells the truth.                                      *)

Heard == {inbox[p] : p \in DOMAIN inbox}
Under == saying \cup {job} \cup Heard

(* A broadcast names the temporary id its message was stored with, or a     *)
(* message that is gone; a page has one row for each of its messages.       *)
Honest(f) ==
  /\ f.type = "new" => f.temp = docs[f.id].temp
  /\ f.type = "deleted" => f.id \notin Live
  /\ f.type \in {"history", "more"} => OneRowEach(f)
AllHonest == \A f \in Under : Honest(f)

(* Without a connection nothing is under way.                               *)
QuietOffline == ~link => inbox = <<>> /\ outbox = <<>> /\ job = NoJob

(* Temporary ids are used once.                                             *)
UsedOnce ==
  /\ \A i \in MessageIds : docs[i].temp <= sends
  /\ detached \subseteq 1..sends /\ Pending \subseteq 1..sends
  /\ \A p \in DOMAIN outbox : outbox[p].type = "send" => outbox[p].temp <= sends
  /\ \A p, q \in DOMAIN outbox : outbox[p].type = "send" /\ outbox[p] = outbox[q] => p = q

Base == TimelineTypeOK /\ AllHonest /\ QuietOffline /\ UsedOnce

LEMMA UnderAre ==
  ASSUME TimelineTypeOK
  PROVE  Under \subseteq Frames \cup {NoJob} /\ Heard \subseteq Frames
<1>1. Heard \subseteq Frames
  BY LenProperties, ElementOfSeq DEF TimelineTypeOK, Heard
<1>2. saying \subseteq Frames
  BY DEF TimelineTypeOK, Frames
<1> QED BY <1>1, <1>2, JobKinds DEF Under

(* Messages keep their temporary id, and a deleted one stays deleted.       *)
LEMMA DocsEffect ==
  ASSUME TimelineTypeOK, TimelineNext
  PROVE  /\ \A i \in MessageIds : docs'[i].temp = docs[i].temp /\ (i \in Live' => i \in Live)
         /\ MessageIds \subseteq MessageIds'
<1>1. CASE PeerSend
  <2>1. 0 \in 0..MaxSends /\ Insert(0)
    BY <1>1, TimelineNumbers DEF PeerSend
  <2> QED BY <2>1, InsertFacts
<1>2. ASSUME NEW i \in MessageIds, PeerDelete(i)
      PROVE  /\ \A j \in MessageIds : docs'[j].temp = docs[j].temp /\ (j \in Live' => j \in Live)
             /\ MessageIds \subseteq MessageIds'
  BY <1>2, DeleteFacts DEF PeerDelete
<1>3. CASE HandleSend
  <2>1. Head(outbox).temp \in 0..MaxSends
    BY <1>3, TakenFacts, Kinds, TimelineNumbers DEF HandleSend, Take
  <2> QED BY <1>3, <2>1, InsertFacts DEF HandleSend
<1>4. ASSUME NEW t \in detached, HandleDetached(t)
      PROVE  /\ \A j \in MessageIds : docs'[j].temp = docs[j].temp /\ (j \in Live' => j \in Live)
             /\ MessageIds \subseteq MessageIds'
  <2>1. t \in 0..MaxSends
    BY TimelineNumbers DEF TimelineTypeOK
  <2> QED BY <1>4, <2>1, InsertFacts DEF HandleDetached
<1>5. ASSUME docs' = docs
      PROVE  /\ \A j \in MessageIds : docs'[j].temp = docs[j].temp /\ (j \in Live' => j \in Live)
             /\ MessageIds \subseteq MessageIds'
  BY <1>5, DocsStay
<1>6. (\E e \in saying : Publish(e) \/ Lose(e)) \/ HandleJoin \/ HandleMore \/ Reply \/ BreakOff
      \/ RefuseFrame
      \/ Connect \/ Drop \/ OpenChannel \/ LeaveChannel \/ SendMessage \/ LoadOlder \/ Receive => docs' = docs
  BY ReceiveFacts DEF Publish, Lose, BreakOff, HandleJoin, HandleMore, Reply, RefuseFrame, Connect, Drop, OpenChannel,
     LeaveChannel, SendMessage, LoadOlder, server, history
<1> QED BY <1>1, <1>2, <1>3, <1>4, <1>5, <1>6 DEF TimelineNext, Handle

LEMMA HonestStays ==
  ASSUME TimelineTypeOK, TimelineNext, NEW f \in Frames \cup {NoJob}, Honest(f)
  PROVE  Honest(f)'
<1>1. /\ f.type \in {"none", "new", "deleted", "history", "more", "error"}
      /\ f.type \in {"new", "deleted"} => f.id \in MessageIds
  BY Kinds
<1>2. \A i \in MessageIds : docs'[i].temp = docs[i].temp /\ (i \in Live' => i \in Live)
  BY DocsEffect
<1> QED BY <1>1, <1>2 DEF Honest

(* What every step puts under way.                                          *)
LEMMA HeardGrows ==
  ASSUME TimelineTypeOK, NEW f \in Frames, Deliver(f)
  PROVE  Heard' \subseteq Heard \cup {f} /\ Heard \subseteq Heard'
<1>1. CASE link
  BY <1>1, DeliverFacts DEF Heard
<1>2. CASE ~link
  BY <1>2, DeliverFacts DEF Heard
<1> QED BY <1>1, <1>2

LEMMA HonestStep ==
  ASSUME TimelineTypeOK, AllHonest, TimelineNext
  PROVE  AllHonest'
<1>1. \A f \in Under : Honest(f)'
  BY UnderAre, HonestStays DEF AllHonest
<1>2. ASSUME Under' \subseteq Under PROVE AllHonest'
  BY <1>1, <1>2 DEF AllHonest
<1>3. ASSUME NEW g, Under' \subseteq Under \cup {g}, Honest(g)' PROVE AllHonest'
  BY <1>1, <1>3 DEF AllHonest
<1>4. CASE PeerSend
  <2>1. 0 \in 0..MaxSends /\ Insert(0)
    BY <1>4, TimelineNumbers DEF PeerSend
  <2>2. Under' \subseteq Under \cup {New(Len(docs) + 1, 0)}
    BY <1>4 DEF PeerSend, Under, Heard, net
  <2>3. docs'[Len(docs) + 1].temp = 0
    BY <2>1, InsertFacts
  <2>4. PICK g : g = New(Len(docs) + 1, 0)
    OBVIOUS
  <2>5. Honest(g)'
    BY <2>3, <2>4 DEF Honest, New
  <2> QED BY <2>2, <2>4, <2>5, <1>3
<1>5. ASSUME NEW i \in MessageIds, PeerDelete(i) PROVE AllHonest'
  <2>1. Under' \subseteq Under \cup {Gone(i)}
    BY <1>5 DEF PeerDelete, Under, Heard, net
  <2>2. i \notin Live'
    BY <1>5, DeleteFacts DEF PeerDelete
  <2>3. PICK g : g = Gone(i)
    OBVIOUS
  <2>4. Honest(g)'
    BY <2>2, <2>3 DEF Honest, Gone
  <2> QED BY <2>1, <2>3, <2>4, <1>3
<1>6. ASSUME NEW e \in saying, Publish(e) PROVE AllHonest'
  <2>1. e \in Frames
    BY DEF TimelineTypeOK, Frames
  <2>2. Heard' \subseteq Heard \cup {e}
    BY <1>6, <2>1, HeardGrows DEF Publish
  <2> QED BY <1>6, <2>2, <1>2 DEF Publish, Under
<1>7. CASE HandleJoin
  <2>1. Honest(job') /\ Under' \subseteq Under \cup {job'}
    <3>1. PICK n \in Nat : job' = Answer("history", n)
      BY <1>7, DocsAre DEF HandleJoin
    <3>2. OneRowEach(job') /\ job'.type = "history"
      BY <3>1, AnswerFacts
    <3> QED BY <1>7, <3>2 DEF HandleJoin, Honest, Under, Heard
  <2>2. PICK g : g = job'
    OBVIOUS
  <2>3. Honest(g)'
    BY <2>1, <2>2, <1>7, DocsStay DEF Honest, HandleJoin
  <2> QED BY <2>1, <2>2, <2>3, <1>3
<1>8. CASE HandleMore
  <2>1. OneRowEach(job') /\ job'.type = "more" /\ Under' \subseteq Under \cup {job'}
    <3>1. Head(outbox) \in Requests /\ Head(outbox).type = "more"
      BY <1>8, TakenFacts DEF HandleMore, Take
    <3>2. PICK n \in Nat : job' = Answer("more", n)
      BY <1>8, <3>1, Kinds, DocsAre DEF HandleMore
    <3>3. OneRowEach(job') /\ job'.type = "more"
      BY <3>2, AnswerFacts
    <3> QED BY <1>8, <3>3 DEF HandleMore, Under, Heard
  <2>2. PICK g : g = job'
    OBVIOUS
  <2>3. Honest(g)'
    BY <2>1, <2>2 DEF Honest
  <2> QED BY <2>1, <2>2, <2>3, <1>3
<1>9. CASE HandleSend
  <2>1. Head(outbox).temp \in 0..MaxSends
    BY <1>9, TakenFacts, Kinds, TimelineNumbers DEF HandleSend, Take
  <2>2. docs'[Len(docs) + 1].temp = Head(outbox).temp
    BY <1>9, <2>1, InsertFacts DEF HandleSend
  <2>3. PICK g : g = New(Len(docs) + 1, Head(outbox).temp)
    OBVIOUS
  <2>4. Honest(g)'
    BY <2>2, <2>3 DEF Honest, New
  <2>5. Under' \subseteq Under \cup {g}
    BY <1>9, <2>3 DEF HandleSend, Under, Heard
  <2> QED BY <2>4, <2>5, <1>3
<1>10. CASE Reply
  <2>1. Heard' \subseteq Heard \cup {job} /\ saying' = saying /\ job' = NoJob
    BY <1>10, JobKinds, HeardGrows DEF Reply
  <2>2. PICK g : g = NoJob
    OBVIOUS
  <2>3. Honest(g)'
    BY <2>2, Kinds DEF Honest
  <2> QED BY <2>1, <2>2, <2>3, <1>3 DEF Under
<1>11. CASE RefuseFrame
  <2>1. PICK g : g = [type |-> "error"]
    OBVIOUS
  <2>2. g \in Frames
    BY <2>1 DEF Frames
  <2>3. Heard' \subseteq Heard \cup {g} /\ saying' = saying /\ job' = job
    BY <1>11, <2>1, <2>2, HeardGrows DEF RefuseFrame, server
  <2>4. Honest(g)'
    BY <2>1 DEF Honest
  <2> QED BY <2>3, <2>4, <1>3 DEF Under
<1>12. ASSUME NEW t \in detached, HandleDetached(t) PROVE AllHonest'
  <2>1. t \in 0..MaxSends
    BY TimelineNumbers DEF TimelineTypeOK
  <2>2. docs'[Len(docs) + 1].temp = t
    BY <1>12, <2>1, InsertFacts DEF HandleDetached
  <2>3. PICK g : g = New(Len(docs) + 1, t)
    OBVIOUS
  <2>4. Honest(g)'
    BY <2>2, <2>3 DEF Honest, New
  <2>5. Under' \subseteq Under \cup {g}
    BY <1>12, <2>3 DEF HandleDetached, Under, Heard, net
  <2> QED BY <2>4, <2>5, <1>3
<1>13. CASE Drop
  <2>1. PICK g : g = NoJob
    OBVIOUS
  <2>2. Honest(g)'
    BY <2>1, Kinds DEF Honest
  <2>3. Under' \subseteq Under \cup {g}
    BY <1>13, <2>1 DEF Drop, Under, Heard
  <2> QED BY <2>2, <2>3, <1>3
<1>14. CASE Connect
  BY <1>14, <1>2 DEF Connect, Under, Heard, server
<1>15. CASE Receive
  <2>1. saying' = saying /\ job' = job
    BY <1>15, ReceiveFacts
  <2>2. Heard' \subseteq Heard
    <3>1. \A p \in DOMAIN inbox' : p + 1 \in DOMAIN inbox /\ inbox'[p] = inbox[p + 1]
      BY <1>15, ReceivedFacts
    <3> QED BY <3>1 DEF Heard
  <2> QED BY <2>1, <2>2, <1>2 DEF Under
<1>16. CASE OpenChannel \/ LeaveChannel \/ SendMessage \/ LoadOlder
  <2>1. saying' = saying /\ job' = job /\ inbox' = inbox
    BY <1>16 DEF OpenChannel, LeaveChannel, SendMessage, LoadOlder, server, net
  <2> QED BY <2>1, <1>2 DEF Under, Heard
<1>17. ASSUME NEW e \in saying, Lose(e) PROVE AllHonest'
  BY <1>17, <1>2 DEF Lose, Under, Heard, net
<1>18. CASE BreakOff
  <2>1. PICK g : g = NoJob
    OBVIOUS
  <2>2. PICK h : h = [type |-> "error"]
    OBVIOUS
  <2>3. h \in Frames /\ h.type = "error"
    BY <2>2 DEF Frames
  <2>4. Honest(g)' /\ Honest(h)'
    BY <2>1, <2>3, Kinds DEF Honest
  <2>5. Heard' \subseteq Heard \cup {h}
    <3>1. Deliver(h) \/ inbox' = inbox
      BY <1>18, <2>2 DEF BreakOff
    <3> QED BY <3>1, <2>3, HeardGrows DEF Heard
  <2>6. Under' \subseteq Under \cup {g, h}
    BY <1>18, <2>1, <2>5 DEF BreakOff, Under
  <2> QED BY <2>4, <2>6, <1>1 DEF AllHonest
<1> QED BY <1>4, <1>5, <1>6, <1>7, <1>8, <1>9, <1>10, <1>11, <1>12, <1>13, <1>14, <1>15, <1>16, <1>17, <1>18
        DEF TimelineNext, Handle

LEMMA PendingShrinks ==
  ASSUME TimelineTypeOK, Receive
  PROVE  /\ Pending' \subseteq Pending
         /\ inbox[1].type = "history" \/ (inbox[1].type = "error" /\ open) => Pending' = {}
         /\ inbox[1].type = "new" /\ inbox[1].temp # 0 => inbox[1].temp \notin Pending'
<1>1. PICK f : f = inbox[1]
  OBVIOUS
<1>2. CASE f.type = "history"
  BY <1>1, <1>2, ReceiveFacts, HistoryFacts
<1>3. CASE f.type = "more"
  BY <1>1, <1>3, ReceiveFacts, OlderFacts
<1>4. CASE f.type = "new"
  BY <1>1, <1>4, ReceiveFacts, NewFacts
<1>5. CASE f.type = "deleted"
  <2>1. f \in Deletions /\ items' = At(items, {k \in DOMAIN items : items[k].id # f.id})
    BY <1>1, <1>5, ReceiveFacts
  <2>2. f.id \in Nat \ {0}
    BY <2>1, Kinds, DocsAre
  <2> QED BY <1>1, <1>5, <2>1, <2>2, DeletedFacts
<1>6. CASE f.type = "error"
  <2>1. CASE open
    BY <1>1, <1>6, <2>1, ReceiveFacts, UnpendedFacts
  <2>2. CASE ~open
    BY <1>1, <1>6, <2>2, ReceiveFacts DEF Pending
  <2> QED BY <2>1, <2>2
<1> QED BY <1>1, <1>2, <1>3, <1>4, <1>5, <1>6, ReceiveFacts

LEMMA IdleStep ==
  ASSUME TimelineTypeOK, QuietOffline, TimelineNext
  PROVE  QuietOffline'
<1>1. CASE link'
  BY <1>1 DEF QuietOffline
<1>2. CASE ~link'
  <2>1. CASE Drop
    BY <2>1 DEF Drop, QuietOffline
  <2>2. CASE ~link /\ (HandleJoin \/ HandleMore \/ HandleSend \/ RefuseFrame)
    BY <2>2 DEF HandleJoin, HandleMore, HandleSend, RefuseFrame, Take
  <2>3. CASE ~link /\ (Reply \/ BreakOff \/ Receive)
    BY <2>3, Kinds DEF Reply, BreakOff, Receive, QuietOffline
  <2>4. CASE Connect
    BY <1>2, <2>4 DEF Connect
  <2>5. CASE PeerSend \/ (\E i \in MessageIds : PeerDelete(i)) \/ (\E e \in saying : Publish(e) \/ Lose(e))
             \/ (\E t \in detached : HandleDetached(t))
             \/ OpenChannel \/ LeaveChannel \/ SendMessage \/ LoadOlder
    BY <1>2, <2>5 DEF PeerSend, PeerDelete, Publish, Lose, HandleDetached, OpenChannel, LeaveChannel, SendMessage,
       LoadOlder, QuietOffline, Deliver, net, server
  <2>6. link' = link \/ Drop \/ Connect
    BY ReceiveFacts DEF TimelineNext, Handle, PeerSend, PeerDelete, Publish, Lose, HandleJoin, HandleMore,
       HandleSend, Reply, BreakOff, RefuseFrame, HandleDetached, OpenChannel, LeaveChannel, SendMessage, LoadOlder, net
  <2> QED BY <1>2, <2>1, <2>2, <2>3, <2>4, <2>5, <2>6 DEF TimelineNext, Handle
<1> QED BY <1>1, <1>2

LEMMA SentAre ==
  ASSUME TimelineTypeOK
  PROVE  sends \in Nat /\ \A p \in DOMAIN outbox : outbox[p] \in Requests
BY TimelineNumbers, LenProperties, ElementOfSeq DEF TimelineTypeOK

(* Inserting a message whose temporary id was given out, or has none.       *)
LEMMA UsedInsert ==
  ASSUME TimelineTypeOK, UsedOnce, NEW temp \in 0..MaxSends, temp <= sends, Insert(temp)
  PROVE  \A i \in MessageIds' : docs'[i].temp <= sends
BY InsertFacts DEF UsedOnce

LEMMA UsedTaken ==
  ASSUME TimelineTypeOK, UsedOnce, outbox # <<>>, Taken, sends' = sends
  PROVE  /\ \A p \in DOMAIN outbox' : outbox'[p].type = "send" => outbox'[p].temp <= sends
         /\ \A p, q \in DOMAIN outbox' : outbox'[p].type = "send" /\ outbox'[p] = outbox'[q] => p = q
<1>1. /\ Len(outbox) \in Nat \ {0} /\ DOMAIN outbox = 1..Len(outbox)
      /\ DOMAIN outbox' = 1..(Len(outbox) - 1)
      /\ \A p \in 1..(Len(outbox) - 1) : outbox'[p] = outbox[p + 1]
  BY TakenFacts
<1>2. \A p \in DOMAIN outbox' : p \in Nat /\ p + 1 \in DOMAIN outbox /\ outbox'[p] = outbox[p + 1]
  BY <1>1
<1>3. \A p, q \in DOMAIN outbox' : p + 1 = q + 1 => p = q
  BY <1>2
<1> QED BY <1>2, <1>3 DEF UsedOnce

LEMMA UsedStep ==
  ASSUME TimelineTypeOK, AllHonest, UsedOnce, TimelineNext
  PROVE  UsedOnce'
<1>1. CASE PeerSend
  <2>1. \A i \in MessageIds' : docs'[i].temp <= sends
    BY <1>1, UsedInsert, SentAre, TimelineNumbers DEF PeerSend
  <2> QED BY <1>1, <2>1 DEF PeerSend, UsedOnce, Pending, net, store, counts
<1>2. ASSUME NEW i \in MessageIds, PeerDelete(i) PROVE UsedOnce'
  <2>1. \A j \in MessageIds' : docs'[j].temp <= sends
    BY <1>2, DeleteFacts DEF PeerDelete, UsedOnce
  <2> QED BY <1>2, <2>1 DEF PeerDelete, UsedOnce, Pending, net, store
<1>3. ASSUME NEW t \in detached, HandleDetached(t) PROVE UsedOnce'
  <2>1. t \in 0..MaxSends /\ t <= sends
    <3>1. t \in 1..sends /\ t \in 1..MaxSends /\ sends \in Nat
      BY SentAre DEF TimelineTypeOK, UsedOnce
    <3> QED BY <3>1, TimelineNumbers
  <2>2. \A i \in MessageIds' : docs'[i].temp <= sends
    BY <1>3, <2>1, UsedInsert DEF HandleDetached
  <2> QED BY <1>3, <2>2 DEF HandleDetached, UsedOnce, Pending, net, store, counts
<1>4. CASE HandleSend
  <2>1. outbox # <<>> /\ Head(outbox) = outbox[1] /\ 1 \in DOMAIN outbox /\ outbox[1] \in Requests
        /\ outbox[1].type = "send"
    BY <1>4, TakenFacts DEF HandleSend, Take
  <2>2. outbox[1].temp \in 0..MaxSends /\ outbox[1].temp <= sends
    BY <2>1, Kinds, TimelineNumbers DEF UsedOnce
  <2>3. \A i \in MessageIds' : docs'[i].temp <= sends
    BY <1>4, <2>1, <2>2, UsedInsert DEF HandleSend
  <2>4. sends' = sends /\ detached' = detached /\ Pending' = Pending
    BY <1>4 DEF HandleSend, counts, store, Pending
  <2> QED BY <1>4, <2>1, <2>3, <2>4, UsedTaken DEF HandleSend, UsedOnce
<1>5. CASE HandleJoin \/ HandleMore \/ RefuseFrame
  <2>1. sends' = sends /\ detached' = detached /\ Pending' = Pending /\ docs' = docs /\ MessageIds' = MessageIds
    BY <1>5 DEF HandleJoin, HandleMore, RefuseFrame, counts, store, Pending, server, MessageIds
  <2>2. outbox # <<>> /\ Taken
    BY <1>5 DEF HandleJoin, HandleMore, RefuseFrame, Take
  <2> QED BY <2>1, <2>2, UsedTaken DEF UsedOnce
<1>6. (\E e \in saying : Publish(e) \/ Lose(e)) \/ Reply \/ BreakOff \/ LeaveChannel =>
        /\ UNCHANGED <<docs, detached, outbox, sends>> /\ Pending' = Pending /\ MessageIds' = MessageIds
  BY DEF Publish, Lose, Reply, BreakOff, LeaveChannel, server, net, store, counts, Pending, MessageIds
<1>7. ASSUME UNCHANGED <<docs, detached, outbox, sends>>, Pending' \subseteq Pending, MessageIds' = MessageIds
      PROVE  UsedOnce'
  BY <1>7 DEF UsedOnce
<1>8. CASE Connect
  <2>1. UNCHANGED <<docs, detached, sends>> /\ Pending' = Pending /\ MessageIds' = MessageIds
    BY <1>8 DEF Connect, server, store, counts, Pending, MessageIds
  <2>2. outbox' = <<>> \/ outbox' = <<Join>>
    BY <1>8 DEF Connect
  <2>3. /\ \A p \in DOMAIN outbox' : outbox'[p].type # "send"
        /\ \A p, q \in DOMAIN outbox' : p = q
    BY <2>2, Kinds
  <2> QED BY <2>1, <2>3 DEF UsedOnce
<1>9. CASE Drop
  <2>1. UNCHANGED <<docs, sends>> /\ Pending' = Pending /\ MessageIds' = MessageIds /\ outbox' = <<>>
    BY <1>9 DEF Drop, store, Pending, MessageIds
  <2>2. detached' \subseteq 1..sends
    <3>1. PICK n \in 0..Len(outbox) :
            detached' = detached \cup {outbox[k].temp : k \in {k \in 1..n : outbox[k].type = "send"}}
      BY <1>9 DEF Drop
    <3>2. \A k \in 1..n : k \in DOMAIN outbox /\ outbox[k] \in Requests
      BY LenProperties, ElementOfSeq DEF TimelineTypeOK
    <3>3. \A k \in 1..n : outbox[k].type = "send" => outbox[k].temp \in 1..sends
      BY <3>2, Kinds, SentAre DEF UsedOnce
    <3> QED BY <3>1, <3>3 DEF UsedOnce
  <2> QED BY <2>1, <2>2 DEF UsedOnce
<1>10. ASSUME NEW f \in Requests, f.type # "send", outbox' = Append(outbox, f),
              UNCHANGED <<docs, detached, sends>>, Pending' = Pending, MessageIds' = MessageIds
       PROVE  UsedOnce'
  BY <1>10, AskFacts DEF UsedOnce
<1>11. CASE OpenChannel
  <2>1. UNCHANGED <<docs, detached, sends>> /\ Pending' = Pending /\ MessageIds' = MessageIds
    BY <1>11 DEF OpenChannel, server, store, Pending, MessageIds
  <2>2. outbox' = outbox \/ outbox' = Append(outbox, Join)
    BY <1>11 DEF OpenChannel
  <2>3. Join \in Requests /\ Join.type # "send"
    BY Kinds DEF Requests
  <2> QED BY <2>1, <2>2, <2>3, <1>7, <1>10
<1>12. CASE LoadOlder
  <2>1. UNCHANGED <<docs, detached, sends>> /\ Pending' = Pending /\ MessageIds' = MessageIds
    BY <1>12 DEF LoadOlder, server, counts, Pending, MessageIds
  <2>2. PICK f : f = [type |-> "more", before |-> Head(Unpended(items)).id]
    OBVIOUS
  <2>3. f \in Requests /\ f.type # "send" /\ outbox' = Append(outbox, f)
    BY <1>12, <2>2, CursorShown, ShownAre DEF Requests, LoadOlder
  <2> QED BY <2>1, <2>3, <1>10
<1>13. CASE SendMessage
  <2>1. docs' = docs /\ detached' = detached /\ sends' = sends + 1 /\ sends \in Nat /\ MessageIds' = MessageIds
        /\ sends + 1 \in 1..MaxSends
    BY <1>13, SentAre, TimelineNumbers DEF SendMessage, server, MessageIds, TimelineTypeOK
  <2>2. CASE link
    <3>1. Pending' = Pending \cup {sends + 1}
      BY <1>13, <2>1, <2>2, OptimisticFacts DEF SendMessage
    <3>2. PICK f : f = [type |-> "send", temp |-> sends + 1]
      OBVIOUS
    <3>3. f \in Requests /\ f.type = "send" /\ f.temp = sends + 1 /\ outbox' = Append(outbox, f)
      BY <1>13, <2>1, <2>2, <3>2 DEF Requests, SendMessage
    <3>4. /\ Len(outbox) \in Nat /\ DOMAIN outbox = 1..Len(outbox)
          /\ DOMAIN outbox' = 1..(Len(outbox) + 1)
          /\ \A p \in 1..Len(outbox) : outbox'[p] = outbox[p]
          /\ outbox'[Len(outbox) + 1] = f
      BY <3>3, AskFacts
    <3>5. \A p \in DOMAIN outbox : outbox[p].type = "send" => outbox[p] # f /\ outbox[p].temp <= sends + 1
      <4>1. \A p \in DOMAIN outbox : outbox[p].type = "send" => outbox[p].temp <= sends /\ outbox[p].temp \in Nat
        BY SentAre, Kinds DEF UsedOnce
      <4> QED BY <4>1, <3>3, <2>1
    <3>6. \A p \in DOMAIN outbox' : \/ p \in DOMAIN outbox /\ outbox'[p] = outbox[p]
                                    \/ p = Len(outbox) + 1 /\ outbox'[p] = f
      BY <3>4
    <3>7. /\ \A p \in DOMAIN outbox' : outbox'[p].type = "send" => outbox'[p].temp <= sends + 1
          /\ \A p, q \in DOMAIN outbox' : outbox'[p].type = "send" /\ outbox'[p] = outbox'[q] => p = q
      BY <3>3, <3>5, <3>6, <2>1 DEF UsedOnce
    <3>8. /\ \A i \in MessageIds : docs[i].temp <= sends + 1
          /\ detached \subseteq 1..(sends + 1) /\ Pending' \subseteq 1..(sends + 1)
      <4>1. \A i \in MessageIds : docs[i].temp \in Nat /\ docs[i].temp <= sends
        BY DocsAre, TimelineNumbers DEF UsedOnce
      <4>2. detached \subseteq 1..sends /\ Pending \subseteq 1..sends
        BY DEF UsedOnce
      <4>3. 1..sends \subseteq 1..(sends + 1) /\ sends + 1 \in 1..(sends + 1)
        BY <2>1
      <4>4. \A i \in MessageIds : docs[i].temp <= sends + 1
        BY <4>1, <2>1
      <4> QED BY <4>2, <4>3, <4>4, <3>1
    <3> QED BY <2>1, <3>7, <3>8 DEF UsedOnce
  <2>3. CASE ~link
    <3>1. Pending' = {} /\ outbox' = outbox
      BY <1>13, <2>3, UnpendedFacts DEF SendMessage
    <3>2. /\ \A i \in MessageIds : docs[i].temp <= sends + 1
          /\ detached \subseteq 1..(sends + 1)
      BY <2>1, DocsAre DEF UsedOnce
    <3>3. \A p \in DOMAIN outbox : outbox[p].type = "send" => outbox[p].temp <= sends + 1
      BY <2>1, SentAre, Kinds DEF UsedOnce
    <3> QED BY <2>1, <3>1, <3>2, <3>3 DEF UsedOnce
  <2> QED BY <2>2, <2>3
<1>14. CASE Receive
  <2>1. UNCHANGED <<docs, detached, outbox, sends>> /\ MessageIds' = MessageIds
    BY <1>14, ReceiveFacts DEF MessageIds
  <2>2. Pending' \subseteq Pending
    BY <1>14, PendingShrinks
  <2> QED BY <2>1, <2>2, <1>7
<1> QED BY <1>1, <1>2, <1>3, <1>4, <1>5, <1>6, <1>7, <1>8, <1>9, <1>11, <1>12, <1>13, <1>14
        DEF TimelineNext, Handle

LEMMA BaseInit == TimelineInit => Base
<1> SUFFICES ASSUME TimelineInit PROVE Base
  OBVIOUS
<1>1. TimelineTypeOK
  BY TypeInit
<1>2. AllHonest
  BY Kinds DEF TimelineInit, AllHonest, Under, Heard, Honest
<1>3. QuietOffline
  BY DEF TimelineInit, QuietOffline
<1>4. UsedOnce
  <2>1. /\ \A i \in MessageIds : docs[i].temp <= sends
        /\ detached = {} /\ outbox = <<>>
    BY TimelineNumbers DEF TimelineInit, MessageIds
  <2>2. Pending = {}
    BY DEF TimelineInit, Pending
  <2> QED BY <2>1, <2>2 DEF UsedOnce
<1> QED BY <1>1, <1>2, <1>3, <1>4 DEF Base

LEMMA BaseStep == Base /\ [TimelineNext]_timelineVars => Base'
<1> SUFFICES ASSUME Base, [TimelineNext]_timelineVars PROVE Base'
  OBVIOUS
<1>1. TimelineTypeOK'
  BY TypeStep DEF Base
<1>2. CASE TimelineNext
  BY <1>1, <1>2, HonestStep, IdleStep, UsedStep DEF Base
<1>3. CASE UNCHANGED timelineVars
  <2>1. AllHonest'
    BY <1>3 DEF timelineVars, server, net, AllHonest, Honest, Under, Heard, Live, MessageIds, Base
  <2>2. QuietOffline' /\ UsedOnce'
    BY <1>3 DEF timelineVars, server, net, store, counts, QuietOffline, UsedOnce, MessageIds, Pending, Base
  <2> QED BY <1>1, <2>1, <2>2 DEF Base
<1> QED BY <1>2, <1>3

-----------------------------------------------------------------------------
(* No message is listed twice.                                              *)

(* What takes the pending row t away when the tab receives it, or what the  *)
(* server makes of it: the next page, an ERROR, or the echo of t.           *)
Cleans(f, t) ==
  f.type \in {"join", "history", "error"} \/ (f.type \in {"new", "send"} /\ f.temp = t)
CleanIn(q, t) == \E p \in DOMAIN inbox : p < q /\ Cleans(inbox[p], t)
CleanInbox(t) == \E p \in DOMAIN inbox : Cleans(inbox[p], t)
CleanServed(t) == CleanInbox(t) \/ Cleans(job, t)
CleanOut(q, t) == \E p \in DOMAIN outbox : p < q /\ Cleans(outbox[p], t)
CleanAsked(t) == \E p \in DOMAIN outbox : Cleans(outbox[p], t)

(* The page does not have the message of the pending row t, which may not   *)
(* even be stored.                                                          *)
Without(f, t) == \A i \in PageIds(f) : docs[i].temp # t
Unborn(t) == (\A i \in MessageIds : docs[i].temp # t) /\ t \notin detached
SentAfter(p, t) == \E q \in DOMAIN outbox : q > p /\ outbox[q] = [type |-> "send", temp |-> t]

(* Temporary ids in use are apart: one that is still to be stored is in no  *)
(* message, nothing else is under way of the one being announced, and        *)
(* nothing at all of one whose broadcast was lost.                          *)
Asked == {outbox[p].temp : p \in {p \in DOMAIN outbox : outbox[p].type = "send"}}
Temps == {docs[i].temp : i \in MessageIds}
Echoes == {f.temp : f \in {f \in saying \cup Heard : f.type = "new"}}
JobTemp == IF job.type = "new" THEN {job.temp} ELSE {}
Apart ==
  /\ Asked \cap (detached \cup Temps) = {} /\ detached \cap Temps = {}
  /\ (JobTemp \ {0}) \cap (Asked \cup detached \cup Echoes) = {}
  /\ (mute \ {0}) \cap (Asked \cup detached \cup Echoes \cup JobTemp) = {}
  /\ mute \subseteq 0..sends

(* The pending rows, without those whose echo was lost.                     *)
Waiting == Pending \ mute

(* In an open channel every pending row will be taken away, ...             *)
Cleaned == open /\ link => \A t \in Waiting : CleanServed(t) \/ CleanAsked(t)

(* ... and before an older page that has its message arrives.               *)
InboxKeeps ==
  \A t \in Waiting, p \in DOMAIN inbox : inbox[p].type = "more" => Without(inbox[p], t) \/ CleanIn(p, t)
JobKeeps == \A t \in Waiting : job.type = "more" => Without(job, t) \/ CleanInbox(t)
OutboxKeeps ==
  \A t \in Waiting, p \in DOMAIN outbox : outbox[p].type = "more" =>
    CleanServed(t) \/ CleanOut(p, t) \/ (Unborn(t) /\ SentAfter(p, t))

NoTwin == \A i \in Shown, t \in Waiting : docs[i].temp # t

PathKeeps == InboxKeeps /\ JobKeeps /\ OutboxKeeps
RowsKeep == OnceEach /\ NoTwin
OnceInv == Base /\ Apart /\ Cleaned /\ (~stranded => PathKeeps /\ RowsKeep)

LEMMA PagesAre ==
  ASSUME NEW f \in Pages
  PROVE  PageIds(f) \subseteq MessageIds
<1>1. f.rows \in Seq([id : MessageIds, temp : {0}])
  BY Kinds
<1>2. \A k \in DOMAIN f.rows : f.rows[k] \in [id : MessageIds, temp : {0}]
  BY <1>1, LenProperties, ElementOfSeq
<1>3. \A r \in [id : MessageIds, temp : {0}] : r.id \in MessageIds
  OBVIOUS
<1> QED BY <1>2, <1>3 DEF PageIds

LEMMA MuteGrows ==
  ASSUME TimelineTypeOK, TimelineNext
  PROVE  mute \subseteq mute'
BY ReceiveFacts DEF TimelineNext, Handle, PeerSend, PeerDelete, Publish, Lose, HandleJoin, HandleMore,
   HandleSend, Reply, BreakOff, RefuseFrame, HandleDetached, Connect, Drop, OpenChannel, LeaveChannel,
   SendMessage, LoadOlder, history

(* How the temporary ids in use change.                                     *)
LEMMA ApartFacts ==
  ASSUME Base, Apart
  PROVE  /\ Asked \subseteq 1..sends /\ detached \subseteq 1..sends /\ Temps \subseteq 0..sends
         /\ Echoes \subseteq Temps /\ JobTemp \subseteq Temps /\ sends \in Nat
<1>1. TimelineTypeOK /\ AllHonest /\ UsedOnce /\ sends \in Nat
  BY SentAre DEF Base
<1>2. Asked \subseteq 1..sends
  <2>1. \A p \in DOMAIN outbox : outbox[p].type = "send" => outbox[p].temp \in 1..MaxSends
    BY <1>1, SentAre, Kinds
  <2> QED BY <1>1, <2>1, TimelineNumbers DEF Asked, UsedOnce
<1>3. Temps \subseteq 0..sends
  BY <1>1, DocsAre, TimelineNumbers DEF Temps, UsedOnce
<1>4. \A f \in Under : f.type = "new" => f.temp \in Temps
  BY <1>1, UnderAre, Kinds DEF AllHonest, Honest, Temps
<1> QED BY <1>1, <1>2, <1>3, <1>4 DEF UsedOnce, Echoes, JobTemp, Under

LEMMA ApartStep ==
  ASSUME Base, Apart, TimelineNext
  PROVE  Apart'
<1>1. /\ TimelineTypeOK /\ UsedOnce /\ sends \in Nat
      /\ Asked \subseteq 1..sends /\ detached \subseteq 1..sends /\ Temps \subseteq 0..sends
      /\ Echoes \subseteq Temps /\ JobTemp \subseteq Temps
  BY ApartFacts DEF Base
<1>2. ASSUME Asked' \subseteq Asked, detached' = detached, Temps' \subseteq Temps, Echoes' \subseteq Echoes,
             JobTemp' \subseteq JobTemp, mute' = mute, sends' = sends
      PROVE  Apart'
  BY <1>2 DEF Apart
<1>3. ASSUME NEW f \in Frames, f.type # "new", Deliver(f), saying' = saying
      PROVE  Echoes' \subseteq Echoes
  BY <1>1, <1>3, HeardGrows DEF Echoes
<1>4. ASSUME NEW temp \in 0..MaxSends, Insert(temp)
      PROVE  Temps' = Temps \cup {temp}
  BY <1>1, <1>4, InsertFacts DEF Temps
<1>5. ASSUME NEW f \in Requests, f.type # "send", outbox' = Append(outbox, f)
      PROVE  Asked' \subseteq Asked
  BY <1>1, <1>5, AskFacts DEF Asked
<1>6. ASSUME docs' = docs PROVE Temps' = Temps
  BY <1>6 DEF Temps, MessageIds
<1>7. ASSUME outbox # <<>>, Taken PROVE Asked' \subseteq Asked
  <2>1. \A p \in DOMAIN outbox' : p + 1 \in DOMAIN outbox /\ outbox'[p] = outbox[p + 1]
    BY <1>1, <1>7, TakenFacts
  <2> QED BY <2>1 DEF Asked
<1>8. CASE PeerSend
  <2>1. Temps' = Temps \cup {0}
    BY <1>4, <1>8, TimelineNumbers DEF PeerSend
  <2>2. Echoes' \subseteq Echoes \cup {0}
    BY <1>8 DEF PeerSend, Echoes, Heard, New, net
  <2>3. UNCHANGED <<Asked, detached, JobTemp, mute, sends>>
    BY <1>8 DEF PeerSend, Asked, JobTemp, net, counts, history
  <2> QED BY <1>1, <2>1, <2>2, <2>3 DEF Apart
<1>9. ASSUME NEW i \in MessageIds, PeerDelete(i) PROVE Apart'
  <2>1. Temps' \subseteq Temps
    <3>1. MessageIds' = MessageIds /\ \A j \in MessageIds : docs'[j].temp = docs[j].temp
      BY <1>1, <1>9, DeleteFacts DEF PeerDelete
    <3> QED BY <3>1 DEF Temps
  <2>2. Echoes' \subseteq Echoes
    BY <1>9 DEF PeerDelete, Echoes, Heard, Gone, net
  <2>3. UNCHANGED <<Asked, detached, JobTemp, mute, sends>>
    BY <1>9 DEF PeerDelete, Asked, JobTemp, net, history
  <2> QED BY <1>2, <2>1, <2>2, <2>3
<1>10. ASSUME NEW e \in saying, Publish(e) \/ Lose(e) PROVE Apart'
  <2>1. saying' \cup Heard' \subseteq saying \cup Heard
    <3>1. CASE Publish(e)
      <4>1. e \in Frames
        BY <1>1 DEF TimelineTypeOK, Frames
      <4> QED BY <1>1, <3>1, <4>1, HeardGrows DEF Publish
    <3>2. CASE Lose(e)
      BY <3>2 DEF Lose, Heard, net
    <3> QED BY <1>10, <3>1, <3>2
  <2>2. Echoes' \subseteq Echoes
    BY <2>1 DEF Echoes
  <2>3. UNCHANGED <<docs, Asked, detached, JobTemp, mute, sends>>
    BY <1>10 DEF Publish, Lose, Asked, JobTemp, net, counts
  <2> QED BY <1>2, <1>6, <2>2, <2>3
<1>11. CASE HandleJoin \/ HandleMore
  <2>1. Asked' \subseteq Asked
    BY <1>7, <1>11 DEF HandleJoin, HandleMore, Take
  <2>2. JobTemp' = {}
    <3>1. job'.type # "new"
      BY <1>11 DEF HandleJoin, HandleMore, Answer
    <3> QED BY <3>1 DEF JobTemp
  <2>3. UNCHANGED <<docs, Echoes, detached, mute, sends>>
    BY <1>11 DEF HandleJoin, HandleMore, Echoes, Heard, counts, history
  <2> QED BY <1>2, <1>6, <2>1, <2>2, <2>3
<1>12. CASE HandleSend
  <2>1. /\ outbox # <<>> /\ Taken /\ outbox[1] \in Requests /\ outbox[1].type = "send" /\ 1 \in DOMAIN outbox
        /\ Head(outbox) = outbox[1] /\ DOMAIN outbox' = 1..(Len(outbox) - 1) /\ DOMAIN outbox = 1..Len(outbox)
        /\ Len(outbox) \in Nat
        /\ \A p \in 1..(Len(outbox) - 1) : outbox'[p] = outbox[p + 1]
    BY <1>1, <1>12, TakenFacts DEF HandleSend, Take
  <2>2. PICK t \in 0..MaxSends : t = outbox[1].temp /\ outbox[1] = [type |-> "send", temp |-> t] /\ t \in Asked
    BY <2>1, Kinds, TimelineNumbers DEF Asked
  <2>3. Temps' = Temps \cup {t}
    BY <1>4, <1>12, <2>1, <2>2 DEF HandleSend
  <2>4. Asked' \subseteq Asked \ {t}
    <3>1. \A p \in DOMAIN outbox' : p + 1 \in DOMAIN outbox /\ outbox'[p] = outbox[p + 1] /\ p + 1 # 1
      BY <2>1
    <3>2. \A p \in DOMAIN outbox : outbox[p].type = "send" /\ outbox[p].temp = t => p = 1
      BY <1>1, <2>1, <2>2, SentAre, Kinds DEF UsedOnce
    <3> QED BY <3>1, <3>2 DEF Asked
  <2>5. JobTemp' = {t}
    BY <1>12, <2>1, <2>2 DEF HandleSend, New, JobTemp
  <2>6. UNCHANGED <<Echoes, detached, mute, sends>>
    BY <1>12 DEF HandleSend, Echoes, Heard, counts, history
  <2>7. t \notin Temps /\ t \notin detached /\ t \notin Echoes /\ t \notin mute \ {0}
    BY <1>1, <2>2 DEF Apart
  <2>8. Asked' \cap (detached' \cup Temps') = {} /\ detached' \cap Temps' = {}
    BY <2>3, <2>4, <2>6, <2>7 DEF Apart
  <2>9. JobTemp' \cap (Asked' \cup detached' \cup Echoes') = {}
    BY <2>4, <2>5, <2>6, <2>7
  <2>10. (mute' \ {0}) \cap (Asked' \cup detached' \cup Echoes' \cup JobTemp') = {}
    BY <2>4, <2>5, <2>6, <2>7 DEF Apart
  <2> QED BY <2>6, <2>8, <2>9, <2>10 DEF Apart
<1>13. CASE Reply
  <2>1. Echoes' \subseteq Echoes \cup JobTemp
    <3>1. Heard' \subseteq Heard \cup {job} /\ saying' = saying
      BY <1>1, <1>13, JobKinds, HeardGrows DEF Reply
    <3> QED BY <3>1 DEF Echoes, JobTemp
  <2>2. JobTemp' = {}
    BY <1>13, Kinds DEF Reply, JobTemp
  <2>3. UNCHANGED <<docs, Asked, detached, mute, sends>>
    BY <1>13 DEF Reply, Asked, counts
  <2> QED BY <1>1, <1>6, <2>1, <2>2, <2>3 DEF Apart
<1>14. CASE BreakOff
  <2>1. Echoes' \subseteq Echoes
    <3>1. PICK f \in Frames : f = [type |-> "error"]
      BY DEF Frames
    <3>2. Deliver(f) \/ inbox' = inbox
      BY <1>14, <3>1 DEF BreakOff
    <3>3. saying' = saying
      BY <1>14 DEF BreakOff
    <3> QED BY <1>3, <3>1, <3>2, <3>3 DEF Echoes, Heard
  <2>2. JobTemp' = {} /\ mute' \subseteq mute \cup JobTemp
    BY <1>14, Kinds DEF BreakOff, JobTemp
  <2>3. UNCHANGED <<docs, Asked, detached, sends>>
    BY <1>14 DEF BreakOff, Asked
  <2> QED BY <1>1, <1>6, <2>1, <2>2, <2>3 DEF Apart
<1>15. CASE RefuseFrame
  <2>1. PICK f \in Frames : f = [type |-> "error"]
    BY DEF Frames
  <2>2. Deliver(f) /\ outbox # <<>> /\ Taken
    BY <1>15, <2>1 DEF RefuseFrame
  <2>3. UNCHANGED <<docs, saying, JobTemp, detached, mute, sends>>
    BY <1>15 DEF RefuseFrame, JobTemp, server
  <2> QED BY <1>2, <1>3, <1>6, <1>7, <2>1, <2>2, <2>3
<1>16. ASSUME NEW s \in detached, HandleDetached(s) PROVE Apart'
  <2>1. s \in 0..MaxSends /\ detached' = detached \ {s}
    BY <1>1, <1>16, TimelineNumbers DEF TimelineTypeOK, HandleDetached
  <2>2. Temps' = Temps \cup {s}
    BY <1>4, <1>16, <2>1 DEF HandleDetached
  <2>3. Echoes' \subseteq Echoes \cup {s}
    BY <1>16 DEF HandleDetached, Echoes, Heard, New, net
  <2>4. UNCHANGED <<Asked, JobTemp, mute, sends>>
    BY <1>16 DEF HandleDetached, Asked, JobTemp, net, counts, history
  <2> QED BY <1>1, <2>1, <2>2, <2>3, <2>4 DEF Apart
<1>17. CASE Connect
  <2>1. Asked' = {}
    <3>1. \A p \in DOMAIN outbox' : outbox'[p].type # "send"
      BY <1>17, Kinds DEF Connect
    <3> QED BY <3>1 DEF Asked
  <2>2. Echoes' \subseteq Echoes
    BY <1>17 DEF Connect, Echoes, Heard, server
  <2>3. UNCHANGED <<docs, JobTemp, detached, mute, sends>>
    BY <1>17 DEF Connect, JobTemp, server, counts, history
  <2> QED BY <1>2, <1>6, <2>1, <2>2, <2>3
<1>18. CASE Drop
  <2>1. Asked' = {} /\ JobTemp' = {}
    BY <1>18, Kinds DEF Drop, Asked, JobTemp
  <2>2. detached' \subseteq detached \cup Asked
    <3>1. PICK n \in 0..Len(outbox) :
            detached' = detached \cup {outbox[k].temp : k \in {k \in 1..n : outbox[k].type = "send"}}
      BY <1>18 DEF Drop
    <3>2. \A k \in 1..n : k \in DOMAIN outbox
      BY <1>1, LenProperties DEF TimelineTypeOK
    <3> QED BY <3>1, <3>2 DEF Asked
  <2>3. Echoes' \subseteq Echoes \cup JobTemp
    BY <1>18 DEF Drop, Echoes, JobTemp, Heard
  <2>4. UNCHANGED <<docs, mute, sends>>
    BY <1>18 DEF Drop, history
  <2> QED BY <1>1, <1>6, <2>1, <2>2, <2>3, <2>4 DEF Apart
<1>19. CASE OpenChannel \/ LeaveChannel \/ LoadOlder
  <2>1. Asked' \subseteq Asked
    <3>1. Join \in Requests /\ Join.type # "send"
      BY Kinds DEF Requests
    <3>2. LoadOlder => [type |-> "more", before |-> Head(Unpended(items)).id] \in Requests
      BY <1>1, CursorShown, ShownAre DEF Requests
    <3> QED BY <1>5, <1>19, <3>1, <3>2 DEF OpenChannel, LeaveChannel, LoadOlder, net, Asked
  <2>2. UNCHANGED <<docs, Echoes, JobTemp, detached, mute, sends>>
    BY <1>19 DEF OpenChannel, LeaveChannel, LoadOlder, Echoes, Heard, JobTemp, server, net, counts, history
  <2> QED BY <1>2, <1>6, <2>1, <2>2
<1>20. CASE SendMessage
  <2>1. Asked' \subseteq Asked \cup {sends + 1}
    <3>1. CASE outbox' = outbox
      BY <3>1 DEF Asked
    <3>2. CASE outbox' = Append(outbox, [type |-> "send", temp |-> sends + 1])
      <4>1. [type |-> "send", temp |-> sends + 1] \in Requests
        BY <1>1, <1>20, TimelineNumbers DEF SendMessage, TimelineTypeOK, Requests
      <4> QED BY <1>1, <3>2, <4>1, AskFacts DEF Asked
    <3> QED BY <1>20, <3>1, <3>2 DEF SendMessage
  <2>2. UNCHANGED <<docs, Echoes, JobTemp, detached, mute>> /\ sends' = sends + 1
    BY <1>20 DEF SendMessage, Echoes, Heard, JobTemp, server, history
  <2>3. sends + 1 \notin 0..sends /\ 0..sends \subseteq 0..(sends + 1) /\ 1..sends \subseteq 0..sends
    BY <1>1
  <2>4. sends + 1 # 0
    BY <1>1
  <2> HIDE DEF Apart
  <2>5. sends + 1 \notin detached \cup Temps \cup Echoes \cup JobTemp \cup mute
    BY <1>1, <2>3 DEF Apart
  <2> QED BY <1>6, <2>1, <2>2, <2>3, <2>5 DEF Apart
<1>21. CASE Receive
  <2>1. UNCHANGED <<docs, saying, job, outbox, detached, mute, sends>>
    BY <1>1, <1>21, ReceiveFacts
  <2>2. Heard' \subseteq Heard
    <3>1. \A p \in DOMAIN inbox' : p + 1 \in DOMAIN inbox /\ inbox'[p] = inbox[p + 1]
      BY <1>1, <1>21, ReceivedFacts
    <3> QED BY <3>1 DEF Heard
  <2>3. Echoes' \subseteq Echoes /\ JobTemp' = JobTemp /\ Asked' = Asked
    BY <2>1, <2>2 DEF Echoes, JobTemp, Asked
  <2> QED BY <1>2, <1>6, <2>1, <2>3
<1> QED BY <1>8, <1>9, <1>10, <1>11, <1>12, <1>13, <1>14, <1>15, <1>16, <1>17, <1>18, <1>19, <1>20, <1>21
        DEF TimelineNext, Handle

LEMMA WithoutStays ==
  ASSUME TimelineTypeOK, TimelineNext, NEW f \in Frames, f.type = "more", NEW t, Without(f, t)
  PROVE  Without(f, t)'
<1>1. PageIds(f) \subseteq MessageIds
  BY Kinds, PagesAre
<1> QED BY <1>1, DocsEffect DEF Without

LEMMA InboxAre ==
  ASSUME TimelineTypeOK
  PROVE  \A p \in DOMAIN inbox : inbox[p] \in Frames /\ p \in Nat \ {0}
BY LenProperties, ElementOfSeq DEF TimelineTypeOK

LEMMA NothingWithoutLink ==
  ASSUME QuietOffline', ~link'
  PROVE  Cleaned' /\ PathKeeps'
BY Kinds DEF QuietOffline, Cleaned, PathKeeps, InboxKeeps, JobKeeps, OutboxKeeps

(* Rows that do not change stay in order.                                   *)
LEMMA RowsStay ==
  ASSUME TimelineTypeOK, TimelineNext, RowsKeep, UNCHANGED items
  PROVE  RowsKeep'
BY DocsEffect, ShownAre, MuteGrows DEF RowsKeep, OnceEach, NoTwin, Shown, Waiting, Pending

(* Writing a message, or deleting one, disturbs no page that is on its way. *)
LEMMA DocsKeep ==
  ASSUME TimelineTypeOK, TimelineNext, PathKeeps, UNCHANGED <<job, outbox, inbox, items>>,
         \A t \in Waiting : Unborn(t) => Unborn(t)'
  PROVE  PathKeeps'
<1>1. Waiting' \subseteq Waiting
  BY MuteGrows DEF Waiting, Pending
<1>2. InboxKeeps'
  <2> SUFFICES ASSUME NEW t \in Waiting, NEW p \in DOMAIN inbox, inbox[p].type = "more"
               PROVE  Without(inbox[p], t)' \/ CleanIn(p, t)'
    BY <1>1 DEF InboxKeeps
  <2>1. CASE CleanIn(p, t)
    BY <2>1 DEF CleanIn
  <2>2. CASE Without(inbox[p], t)
    <3>1. PICK f \in Frames : f = inbox[p]
      BY InboxAre
    <3>2. Without(f, t)'
      BY <2>2, <3>1, WithoutStays
    <3> QED BY <3>1, <3>2 DEF Without
  <2> QED BY <2>1, <2>2 DEF PathKeeps, InboxKeeps
<1>3. JobKeeps'
  <2> SUFFICES ASSUME NEW t \in Waiting, job.type = "more"
               PROVE  Without(job, t)' \/ CleanInbox(t)'
    BY <1>1 DEF JobKeeps
  <2>1. CASE CleanInbox(t)
    BY <2>1 DEF CleanInbox
  <2>2. CASE Without(job, t)
    <3>1. PICK f \in Frames : f = job
      BY JobKinds, Kinds
    <3>2. Without(f, t)'
      BY <2>2, <3>1, WithoutStays
    <3> QED BY <3>1, <3>2 DEF Without
  <2> QED BY <2>1, <2>2 DEF PathKeeps, JobKeeps
<1>4. OutboxKeeps'
  BY <1>1 DEF PathKeeps, OutboxKeeps, CleanServed, CleanInbox, CleanOut, SentAfter
<1> QED BY <1>2, <1>3, <1>4 DEF PathKeeps

(* A frame is delivered.                                                    *)
LEMMA DeliverKeeps ==
  ASSUME TimelineTypeOK, link, NEW f \in Frames, Deliver(f), docs' = docs, items' = items,
         mute \subseteq mute'
  PROVE  /\ \A t : CleanInbox(t) \/ Cleans(f, t) => CleanInbox(t)'
         /\ InboxKeeps /\ (f.type = "more" => \A t \in Waiting : Without(f, t) \/ CleanInbox(t))
              => InboxKeeps'
<1>1. /\ Len(inbox) \in Nat /\ DOMAIN inbox = 1..Len(inbox)
      /\ DOMAIN inbox' = 1..(Len(inbox) + 1)
      /\ \A p \in 1..Len(inbox) : inbox'[p] = inbox[p]
      /\ inbox'[Len(inbox) + 1] = f
  BY DeliverFacts
<1>2. \A t : CleanInbox(t) \/ Cleans(f, t) => CleanInbox(t)'
  BY <1>1 DEF CleanInbox, Cleans
<1>3. Waiting' \subseteq Waiting
  BY DEF Waiting, Pending
<1>4. ASSUME InboxKeeps, f.type = "more" => \A t \in Waiting : Without(f, t) \/ CleanInbox(t),
             NEW t \in Waiting, NEW p \in DOMAIN inbox', inbox'[p].type = "more"
      PROVE  Without(inbox[p], t)' \/ CleanIn(p, t)'
  <2>1. CASE p \in DOMAIN inbox
    <3>1. inbox'[p] = inbox[p]
      BY <1>1, <2>1
    <3>2. Without(inbox[p], t) \/ CleanIn(p, t)
      BY <1>4, <2>1, <3>1 DEF InboxKeeps
    <3>3. CASE CleanIn(p, t)
      BY <1>1, <3>3 DEF CleanIn, Cleans
    <3>4. CASE Without(inbox[p], t)
      BY <3>1, <3>4 DEF Without
    <3> QED BY <3>2, <3>3, <3>4
  <2>2. CASE p = Len(inbox) + 1
    <3>1. inbox'[p] = f
      BY <1>1, <2>2
    <3>2. CASE Without(f, t)
      BY <3>1, <3>2 DEF Without
    <3>3. CASE CleanInbox(t)
      BY <1>1, <2>2, <3>3 DEF CleanInbox, CleanIn, Cleans
    <3> QED BY <1>4, <3>1, <3>2, <3>3
  <2> QED BY <1>1, <2>1, <2>2
<1> QED BY <1>2, <1>3, <1>4 DEF InboxKeeps

(* The server takes a frame: what it makes of it cleans as much.            *)
LEMMA TakenKeeps ==
  ASSUME TimelineTypeOK, UsedOnce, outbox # <<>>, Taken, items' = items, open' = open, link' = link,
         mute \subseteq mute',
         \A t \in Waiting : /\ CleanServed(t) \/ Cleans(outbox[1], t) => CleanServed(t)'
                            /\ Unborn(t) /\ outbox[1] # [type |-> "send", temp |-> t] => Unborn(t)'
  PROVE  /\ Cleaned => Cleaned'
         /\ OutboxKeeps => OutboxKeeps'
<1>1. /\ Len(outbox) \in Nat \ {0} /\ DOMAIN outbox = 1..Len(outbox)
      /\ DOMAIN outbox' = 1..(Len(outbox) - 1)
      /\ \A p \in 1..(Len(outbox) - 1) : outbox'[p] = outbox[p + 1]
  BY TakenFacts
<1>2. Waiting' \subseteq Waiting
  BY DEF Waiting, Pending
<1>3. ASSUME NEW q \in DOMAIN outbox, q # 1
      PROVE  q - 1 \in DOMAIN outbox' /\ outbox'[q - 1] = outbox[q]
  <2>1. q - 1 \in 1..(Len(outbox) - 1) /\ (q - 1) + 1 = q
    BY <1>1, <1>3
  <2> QED BY <1>1, <2>1
<1>4. ASSUME NEW t \in Waiting, NEW p \in Nat, CleanOut(p + 1, t)
      PROVE  CleanServed(t)' \/ CleanOut(p, t)'
  <2>1. PICK q \in DOMAIN outbox : q < p + 1 /\ Cleans(outbox[q], t)
    BY <1>4 DEF CleanOut
  <2>2. CASE q = 1
    BY <2>1, <2>2
  <2>3. CASE q # 1
    <3>1. q - 1 \in DOMAIN outbox' /\ outbox'[q - 1] = outbox[q] /\ q - 1 < p
      BY <1>1, <1>3, <2>1, <2>3
    <3> QED BY <2>1, <3>1 DEF CleanOut, Cleans
  <2> QED BY <2>2, <2>3
<1>5. ASSUME Cleaned PROVE Cleaned'
  <2> SUFFICES ASSUME open, link, NEW t \in Waiting
               PROVE  CleanServed(t)' \/ CleanAsked(t)'
    BY <1>2 DEF Cleaned
  <2>1. CASE CleanServed(t)
    BY <2>1
  <2>2. ASSUME NEW q \in DOMAIN outbox, Cleans(outbox[q], t)
        PROVE  CleanServed(t)' \/ CleanAsked(t)'
    <3>1. CASE q = 1
      BY <2>2, <3>1
    <3>2. CASE q # 1
      BY <1>3, <2>2, <3>2 DEF CleanAsked, Cleans
    <3> QED BY <3>1, <3>2
  <2> QED BY <1>5, <2>1, <2>2 DEF Cleaned, CleanAsked
<1>6. ASSUME OutboxKeeps, NEW t \in Waiting, NEW p \in DOMAIN outbox', outbox'[p].type = "more"
      PROVE  CleanServed(t)' \/ CleanOut(p, t)' \/ (Unborn(t)' /\ SentAfter(p, t)')
  <2>1. p \in Nat /\ p + 1 \in DOMAIN outbox /\ outbox[p + 1].type = "more"
    BY <1>1, <1>6
  <2>2. CASE CleanServed(t)
    BY <2>2
  <2>3. CASE CleanOut(p + 1, t)
    BY <1>4, <2>1, <2>3
  <2>4. CASE Unborn(t) /\ SentAfter(p + 1, t)
    <3>1. PICK q \in DOMAIN outbox : q > p + 1 /\ outbox[q] = [type |-> "send", temp |-> t]
      BY <2>4 DEF SentAfter
    <3>2. q # 1 /\ q - 1 > p
      BY <1>1, <2>1, <3>1
    <3>3. outbox[1] # [type |-> "send", temp |-> t]
      <4>1. outbox[q].type = "send" /\ 1 \in DOMAIN outbox
        BY <1>1, <3>1
      <4> QED BY <3>1, <3>2, <4>1 DEF UsedOnce
    <3>4. SentAfter(p, t)'
      BY <1>3, <3>1, <3>2 DEF SentAfter
    <3> QED BY <2>4, <3>3, <3>4
  <2> QED BY <1>6, <2>1, <2>2, <2>3, <2>4 DEF OutboxKeeps
<1>7. ASSUME OutboxKeeps PROVE OutboxKeeps'
  BY <1>2, <1>6, <1>7 DEF OutboxKeeps
<1> QED BY <1>5, <1>7

LEMMA OnceOthers ==
  ASSUME OnceInv, TimelineNext,
         \/ PeerSend \/ (\E i \in MessageIds : PeerDelete(i)) \/ (\E t \in detached : HandleDetached(t))
         \/ (\E e \in saying : Lose(e))
  PROVE  Cleaned' /\ (~stranded' => PathKeeps' /\ RowsKeep')
<1>1. UNCHANGED <<job, outbox, inbox, items, link, open, stranded>>
  BY DEF PeerSend, PeerDelete, HandleDetached, Lose, net, store, history
<1>2. Waiting' \subseteq Waiting
  BY <1>1, MuteGrows DEF Waiting, Pending, OnceInv, Base
<1>3. Cleaned'
  BY <1>1, <1>2 DEF OnceInv, Cleaned, CleanServed, CleanInbox, CleanAsked
<1>4. TimelineTypeOK /\ UsedOnce /\ Waiting \subseteq Nat \ {0}
  <2>1. TimelineTypeOK /\ UsedOnce /\ Pending \subseteq Nat \ {0}
    BY SentAre DEF OnceInv, Base, UsedOnce
  <2> QED BY <2>1 DEF Waiting
<1>5. ASSUME NEW t \in Waiting, Unborn(t) PROVE Unborn(t)'
  <2>1. CASE PeerSend
    <3>1. 0 \in 0..MaxSends /\ Insert(0)
      BY <2>1, TimelineNumbers DEF PeerSend
    <3>2. t # 0
      BY <1>4
    <3> QED BY <1>4, <1>5, <2>1, <3>1, <3>2, InsertFacts DEF PeerSend, Unborn
  <2>2. ASSUME NEW i \in MessageIds, PeerDelete(i) PROVE Unborn(t)'
    BY <1>4, <1>5, <2>2, DeleteFacts DEF PeerDelete, Unborn
  <2>4. ASSUME NEW e \in saying, Lose(e) PROVE Unborn(t)'
    BY <1>5, <2>4 DEF Lose, Unborn, MessageIds
  <2>3. ASSUME NEW s \in detached, HandleDetached(s) PROVE Unborn(t)'
    <3>1. s \in 0..MaxSends /\ s # t
      BY <1>4, <1>5, TimelineNumbers DEF TimelineTypeOK, Unborn
    <3> QED BY <1>4, <1>5, <2>3, <3>1, InsertFacts DEF HandleDetached, Unborn
  <2> QED BY <2>1, <2>2, <2>3, <2>4
<1>6. ASSUME ~stranded' PROVE PathKeeps' /\ RowsKeep'
  BY <1>1, <1>4, <1>5, <1>6, DocsKeep, RowsStay DEF OnceInv
<1> QED BY <1>3, <1>6

LEMMA OncePublish ==
  ASSUME OnceInv, TimelineNext, NEW e \in saying, Publish(e), link
  PROVE  Cleaned' /\ (~stranded' => PathKeeps' /\ RowsKeep')
<1>1. TimelineTypeOK /\ e \in Frames /\ e.type # "more" /\ Deliver(e)
  BY Kinds DEF OnceInv, Base, TimelineTypeOK, Frames, Publish
<1>2. UNCHANGED <<docs, job, detached, outbox, items, link, open, stranded>>
  BY DEF Publish, store
<1>3. Waiting' \subseteq Waiting
  BY <1>1, <1>2, MuteGrows DEF Waiting, Pending
<1>4. /\ \A t : CleanInbox(t) => CleanInbox(t)'
      /\ InboxKeeps => InboxKeeps'
  BY <1>1, <1>2, MuteGrows, DeliverKeeps
<1>5. \A t : CleanServed(t) => CleanServed(t)'
  BY <1>2, <1>4 DEF CleanServed, Cleans
<1>6. Cleaned'
  BY <1>2, <1>3, <1>5 DEF OnceInv, Cleaned, CleanAsked, Cleans
<1>7. JobKeeps => JobKeeps'
  BY <1>2, <1>3, <1>4 DEF JobKeeps, Without
<1>8. OutboxKeeps => OutboxKeeps'
  BY <1>2, <1>3, <1>5 DEF OutboxKeeps, CleanOut, Cleans, Unborn, SentAfter, MessageIds
<1>9. ASSUME ~stranded' PROVE PathKeeps' /\ RowsKeep'
  BY <1>1, <1>2, <1>4, <1>7, <1>8, <1>9, RowsStay DEF OnceInv, PathKeeps
<1> QED BY <1>6, <1>9

LEMMA OnceReply ==
  ASSUME OnceInv, TimelineNext, Reply, link
  PROVE  Cleaned' /\ (~stranded' => PathKeeps' /\ RowsKeep')
<1>1. TimelineTypeOK /\ job \in Frames /\ Deliver(job) /\ job' = NoJob
  BY JobKinds DEF OnceInv, Base, Reply
<1>2. UNCHANGED <<docs, detached, outbox, items, link, open, stranded>>
  BY DEF Reply, store
<1>3. Waiting' \subseteq Waiting
  BY <1>1, <1>2, MuteGrows DEF Waiting, Pending
<1>4. /\ \A t : CleanInbox(t) \/ Cleans(job, t) => CleanInbox(t)'
      /\ InboxKeeps /\ (job.type = "more" => \A t \in Waiting : Without(job, t) \/ CleanInbox(t))
           => InboxKeeps'
  BY <1>1, <1>2, MuteGrows, DeliverKeeps
<1>5. \A t : CleanServed(t) => CleanServed(t)'
  BY <1>4 DEF CleanServed
<1>6. Cleaned'
  BY <1>2, <1>3, <1>5 DEF OnceInv, Cleaned, CleanAsked, Cleans
<1>7. JobKeeps'
  BY <1>1, Kinds DEF JobKeeps
<1>8. OutboxKeeps => OutboxKeeps'
  BY <1>2, <1>3, <1>5 DEF OutboxKeeps, CleanOut, Cleans, Unborn, SentAfter, MessageIds
<1>9. ASSUME ~stranded' PROVE PathKeeps' /\ RowsKeep'
  <2>1. InboxKeeps'
    BY <1>2, <1>4, <1>9 DEF OnceInv, PathKeeps, JobKeeps
  <2> QED BY <1>1, <1>2, <1>7, <1>8, <1>9, <2>1, RowsStay DEF OnceInv, PathKeeps
<1> QED BY <1>6, <1>9

LEMMA OnceServe ==
  ASSUME OnceInv, TimelineNext, HandleJoin \/ HandleMore \/ HandleSend
  PROVE  Cleaned' /\ (~stranded' => PathKeeps' /\ RowsKeep')
<1>1. /\ TimelineTypeOK /\ UsedOnce /\ link /\ job = NoJob /\ outbox # <<>> /\ Taken
      /\ UNCHANGED <<inbox, items, link, open, detached, stranded>>
  BY DEF OnceInv, Base, HandleJoin, HandleMore, HandleSend, Take, store, history
<1>2. /\ Head(outbox) = outbox[1] /\ outbox[1] \in Requests /\ 1 \in DOMAIN outbox
  BY <1>1, TakenFacts
<1>3. Waiting' \subseteq Waiting
  BY <1>1, MuteGrows DEF Waiting, Pending
<1>4. \A t : CleanServed(t) <=> CleanInbox(t)
  BY <1>1, Kinds DEF CleanServed, Cleans
<1>5. \A t : CleanInbox(t)' <=> CleanInbox(t)
  BY <1>1 DEF CleanInbox
<1>6. ASSUME NEW t \in Waiting, Cleans(outbox[1], t) PROVE Cleans(job, t)'
  <2>1. CASE HandleJoin
    <3>1. job' = Answer("history", Len(docs) + 1)
      BY <2>1 DEF HandleJoin
    <3> QED BY <3>1 DEF Answer, Cleans
  <2>2. CASE HandleMore
    BY <1>2, <1>6, <2>2 DEF HandleMore, Take, Cleans
  <2>3. CASE HandleSend
    <3>1. job' = New(Len(docs) + 1, outbox[1].temp) /\ outbox[1].type = "send"
      BY <1>2, <2>3 DEF HandleSend, Take
    <3> QED BY <1>6, <3>1 DEF New, Cleans
  <2> QED BY <2>1, <2>2, <2>3
<1>7. ASSUME NEW t \in Waiting, Unborn(t), outbox[1] # [type |-> "send", temp |-> t]
      PROVE  Unborn(t)'
  <2>1. CASE HandleJoin \/ HandleMore
    BY <1>7, <2>1 DEF HandleJoin, HandleMore, Unborn, MessageIds, history
  <2>2. CASE HandleSend
    <3>1. outbox[1].temp \in 0..MaxSends /\ outbox[1].temp # t /\ Insert(outbox[1].temp)
      BY <1>2, <1>7, <2>2, Kinds, TimelineNumbers DEF HandleSend, Take
    <3> QED BY <1>1, <1>7, <3>1, InsertFacts DEF Unborn
  <2> QED BY <2>1, <2>2
<1>8. /\ Cleaned => Cleaned'
      /\ OutboxKeeps => OutboxKeeps'
  BY <1>1, <1>4, <1>5, <1>6, <1>7, MuteGrows, TakenKeeps DEF CleanServed
<1>9. ASSUME InboxKeeps PROVE InboxKeeps'
  <2> SUFFICES ASSUME NEW t \in Waiting, NEW p \in DOMAIN inbox, inbox[p].type = "more"
               PROVE  Without(inbox[p], t)' \/ CleanIn(p, t)'
    BY <1>1, <1>3 DEF InboxKeeps
  <2>1. CASE CleanIn(p, t)
    BY <1>1, <2>1 DEF CleanIn
  <2>2. CASE Without(inbox[p], t)
    <3>1. PICK f \in Frames : f = inbox[p]
      BY <1>1, InboxAre
    <3>2. Without(f, t)'
      BY <1>1, <2>2, <3>1, WithoutStays
    <3> QED BY <1>1, <3>1, <3>2 DEF Without
  <2> QED BY <1>9, <2>1, <2>2 DEF InboxKeeps
<1>10. ASSUME OutboxKeeps PROVE JobKeeps'
  <2> SUFFICES ASSUME NEW t \in Waiting, job'.type = "more"
               PROVE  Without(job, t)' \/ CleanInbox(t)'
    BY <1>3 DEF JobKeeps
  <2>1. CASE HandleJoin
    BY <2>1 DEF HandleJoin, Answer
  <2>2. CASE HandleSend
    BY <2>2 DEF HandleSend, New
  <2>3. CASE HandleMore
    <3>1. outbox[1].type = "more" /\ docs' = docs
      BY <1>2, <2>3 DEF HandleMore, Take, history
    <3>2. PICK n \in Nat : job' = Answer("more", n)
      BY <1>1, <1>2, <2>3, <3>1, Kinds, DocsAre DEF HandleMore
    <3>3. PageIds(job') \subseteq MessageIds
      BY <1>1, <3>2, AnswerFacts, DocsAre DEF Before
    <3>4. CleanServed(t) \/ CleanOut(1, t) \/ Unborn(t)
      BY <1>2, <1>10, <3>1 DEF OutboxKeeps
    <3>5. ~CleanOut(1, t)
      BY <1>1, TakenFacts DEF CleanOut
    <3>6. CASE CleanServed(t)
      BY <1>4, <1>5, <3>6
    <3>7. CASE Unborn(t)
      BY <3>1, <3>3, <3>7 DEF Unborn, Without
    <3> QED BY <3>4, <3>5, <3>6, <3>7
  <2> QED BY <2>1, <2>2, <2>3
<1>11. ASSUME ~stranded' PROVE PathKeeps' /\ RowsKeep'
  BY <1>1, <1>8, <1>9, <1>10, <1>11, RowsStay DEF OnceInv, PathKeeps
<1> QED BY <1>8, <1>11 DEF OnceInv

LEMMA OnceRefuse ==
  ASSUME OnceInv, TimelineNext, RefuseFrame
  PROVE  Cleaned' /\ (~stranded' => PathKeeps' /\ RowsKeep')
<1>1. /\ TimelineTypeOK /\ UsedOnce /\ link /\ job = NoJob /\ outbox # <<>> /\ Taken
      /\ UNCHANGED <<docs, job, items, link, open, detached, stranded>>
  BY DEF OnceInv, Base, RefuseFrame, store, server
<1>2. PICK f \in Frames : f.type = "error" /\ Deliver(f)
  BY DEF RefuseFrame, Frames
<1>3. Waiting' \subseteq Waiting
  BY <1>1, MuteGrows DEF Waiting, Pending
<1>4. /\ \A t : CleanInbox(t)'
      /\ InboxKeeps => InboxKeeps'
  BY <1>1, <1>2, MuteGrows, DeliverKeeps DEF Cleans
<1>5. \A t : Unborn(t) => Unborn(t)'
  BY <1>1 DEF Unborn, MessageIds
<1>6. /\ Cleaned => Cleaned'
      /\ OutboxKeeps => OutboxKeeps'
  BY <1>1, <1>4, <1>5, MuteGrows, TakenKeeps DEF CleanServed
<1>7. JobKeeps'
  BY <1>4 DEF JobKeeps
<1>8. ASSUME ~stranded' PROVE PathKeeps' /\ RowsKeep'
  BY <1>1, <1>4, <1>6, <1>7, <1>8, RowsStay DEF OnceInv, PathKeeps
<1> QED BY <1>6, <1>8 DEF OnceInv

LEMMA OnceBreak ==
  ASSUME OnceInv, TimelineNext, BreakOff
  PROVE  Cleaned' /\ (~stranded' => PathKeeps' /\ RowsKeep')
<1>1. /\ TimelineTypeOK /\ link /\ job.type = "new" /\ job' = NoJob
      /\ UNCHANGED <<docs, items, outbox, link, open, detached, stranded>>
  BY Kinds DEF OnceInv, Base, QuietOffline, BreakOff, store
<1>2. Waiting' \subseteq Waiting
  BY <1>1, MuteGrows DEF Waiting, Pending
<1>3. /\ \A t \in Waiting' : CleanServed(t) => CleanServed(t)'
      /\ InboxKeeps => InboxKeeps'
  <2>1. CASE Deliver([type |-> "error"])
    <3>1. PICK f \in Frames : f.type = "error" /\ Deliver(f)
      BY <2>1 DEF Frames
    <3>2. /\ \A t : CleanInbox(t)'
          /\ InboxKeeps => InboxKeeps'
      BY <1>1, <3>1, MuteGrows, DeliverKeeps DEF Cleans
    <3> QED BY <3>2 DEF CleanServed
  <2>2. CASE mute' = mute \cup {job.temp} /\ inbox' = inbox
    <3>1. \A t \in Waiting' : job.temp # t
      BY <2>2 DEF Waiting
    <3>2. \A t \in Waiting' : CleanServed(t) => CleanServed(t)'
      BY <1>1, <2>2, <3>1 DEF CleanServed, CleanInbox, Cleans
    <3>3. InboxKeeps => InboxKeeps'
      BY <1>1, <1>2, <2>2 DEF InboxKeeps, CleanIn, Without
    <3> QED BY <3>2, <3>3
  <2> QED BY <2>1, <2>2 DEF BreakOff
<1>4. Cleaned'
  BY <1>1, <1>2, <1>3 DEF OnceInv, Cleaned, CleanAsked, Cleans
<1>5. JobKeeps'
  BY <1>1, Kinds DEF JobKeeps
<1>6. OutboxKeeps => OutboxKeeps'
  BY <1>1, <1>2, <1>3 DEF OutboxKeeps, CleanOut, Cleans, Unborn, SentAfter, MessageIds
<1>7. ASSUME ~stranded' PROVE PathKeeps' /\ RowsKeep'
  BY <1>1, <1>3, <1>5, <1>6, <1>7, RowsStay DEF OnceInv, PathKeeps
<1> QED BY <1>4, <1>7

LEMMA OnceOpen ==
  ASSUME OnceInv, TimelineNext, OpenChannel \/ LeaveChannel
  PROVE  link => Cleaned' /\ (~stranded' => PathKeeps' /\ RowsKeep')
<1> SUFFICES ASSUME link PROVE Cleaned' /\ (~stranded' => PathKeeps' /\ RowsKeep')
  OBVIOUS
<1>1. /\ TimelineTypeOK
      /\ UNCHANGED <<docs, job, inbox, items, link, detached, stranded>>
  BY DEF OnceInv, Base, OpenChannel, LeaveChannel, store, server, history, net
<1>2. Waiting' \subseteq Waiting
  BY <1>1, MuteGrows DEF Waiting, Pending
<1>3. CASE LeaveChannel
  <2>1. ~open' /\ outbox' = outbox
    BY <1>3 DEF LeaveChannel, net
  <2>2. Cleaned'
    BY <2>1 DEF Cleaned
  <2>3. ASSUME ~stranded' PROVE PathKeeps' /\ RowsKeep'
    BY <1>1, <2>1, <2>3, DocsKeep, RowsStay DEF OnceInv, Unborn, MessageIds
  <2> QED BY <2>2, <2>3
<1>4. CASE OpenChannel
  <2>1. /\ Len(outbox) \in Nat /\ DOMAIN outbox = 1..Len(outbox)
        /\ DOMAIN outbox' = 1..(Len(outbox) + 1)
        /\ \A p \in 1..Len(outbox) : outbox'[p] = outbox[p]
        /\ outbox'[Len(outbox) + 1] = Join
    <3>1. Join \in Requests /\ outbox' = Append(outbox, Join)
      BY <1>4 DEF OpenChannel, Requests
    <3> QED BY <1>1, <3>1, AskFacts
  <2>2. Cleaned'
    BY <2>1, Kinds DEF Cleaned, CleanAsked, Cleans
  <2>3. InboxKeeps /\ JobKeeps => InboxKeeps' /\ JobKeeps'
    BY <1>1, <1>2 DEF InboxKeeps, JobKeeps, CleanIn, CleanInbox, Without
  <2>4. OutboxKeeps => OutboxKeeps'
    <3> SUFFICES ASSUME OutboxKeeps, NEW t \in Waiting, NEW p \in DOMAIN outbox', outbox'[p].type = "more"
                 PROVE  CleanServed(t)' \/ CleanOut(p, t)' \/ (Unborn(t)' /\ SentAfter(p, t)')
      BY <1>2 DEF OutboxKeeps
    <3>1. p \in DOMAIN outbox /\ outbox'[p] = outbox[p]
      BY <2>1, Kinds
    <3>2. CleanServed(t) => CleanServed(t)'
      BY <1>1 DEF CleanServed, CleanInbox
    <3>3. CleanOut(p, t) => CleanOut(p, t)'
      BY <2>1 DEF CleanOut, Cleans
    <3>4. Unborn(t) /\ SentAfter(p, t) => Unborn(t)' /\ SentAfter(p, t)'
      BY <1>1, <2>1 DEF Unborn, SentAfter, MessageIds
    <3> QED BY <3>1, <3>2, <3>3, <3>4 DEF OutboxKeeps
  <2>5. ASSUME ~stranded' PROVE PathKeeps' /\ RowsKeep'
    BY <1>1, <2>3, <2>4, <2>5, RowsStay DEF OnceInv, PathKeeps
  <2> QED BY <2>2, <2>5
<1> QED BY <1>3, <1>4

LEMMA OnceMore ==
  ASSUME OnceInv, TimelineNext, LoadOlder
  PROVE  Cleaned' /\ (~stranded' => PathKeeps' /\ RowsKeep')
<1>1. /\ TimelineTypeOK /\ open /\ link
      /\ UNCHANGED <<docs, job, inbox, items, link, open, detached, stranded>>
  BY DEF OnceInv, Base, LoadOlder, server
<1>2. Waiting' \subseteq Waiting
  BY <1>1, MuteGrows DEF Waiting, Pending
<1>3. PICK f \in Requests : f.type = "more" /\ outbox' = Append(outbox, f)
  <2>1. [type |-> "more", before |-> Head(Unpended(items)).id] \in Requests
    BY <1>1, CursorShown, ShownAre DEF Requests
  <2> QED BY <2>1 DEF LoadOlder
<1>4. /\ Len(outbox) \in Nat /\ DOMAIN outbox = 1..Len(outbox)
      /\ DOMAIN outbox' = 1..(Len(outbox) + 1)
      /\ \A p \in 1..Len(outbox) : outbox'[p] = outbox[p]
      /\ outbox'[Len(outbox) + 1] = f
  BY <1>1, <1>3, AskFacts
<1>5. \A t : CleanServed(t) => CleanServed(t)'
  BY <1>1 DEF CleanServed, CleanInbox
<1>6. ASSUME NEW t, CleanAsked(t), NEW q, q = Len(outbox) + 1 PROVE CleanOut(q, t)' /\ CleanAsked(t)'
  BY <1>4, <1>6 DEF CleanOut, CleanAsked, Cleans
<1>7. Cleaned'
  <2>1. \A t : CleanAsked(t) => CleanAsked(t)'
    BY <1>6
  <2> QED BY <1>1, <1>2, <1>5, <2>1 DEF OnceInv, Cleaned
<1>8. InboxKeeps /\ JobKeeps => InboxKeeps' /\ JobKeeps'
  BY <1>1, <1>2 DEF InboxKeeps, JobKeeps, CleanIn, CleanInbox, Without
<1>9. OutboxKeeps => OutboxKeeps'
  <2> SUFFICES ASSUME OutboxKeeps, NEW t \in Waiting, NEW p \in DOMAIN outbox', outbox'[p].type = "more"
               PROVE  CleanServed(t)' \/ CleanOut(p, t)' \/ (Unborn(t)' /\ SentAfter(p, t)')
    BY <1>2 DEF OutboxKeeps
  <2>1. CASE p \in DOMAIN outbox
    <3>1. outbox'[p] = outbox[p]
      BY <1>4, <2>1
    <3>2. CleanOut(p, t) => CleanOut(p, t)'
      BY <1>4 DEF CleanOut, Cleans
    <3>3. Unborn(t) /\ SentAfter(p, t) => Unborn(t)' /\ SentAfter(p, t)'
      BY <1>1, <1>4 DEF Unborn, SentAfter, MessageIds
    <3> QED BY <1>5, <2>1, <3>1, <3>2, <3>3 DEF OutboxKeeps
  <2>2. CASE p = Len(outbox) + 1
    <3>1. CleanServed(t) \/ CleanAsked(t)
      BY <1>1 DEF OnceInv, Cleaned
    <3>2. CASE CleanServed(t)
      BY <1>5, <3>2
    <3>3. CASE CleanAsked(t)
      BY <1>6, <2>2, <3>3
    <3> QED BY <3>1, <3>2, <3>3
  <2> QED BY <1>4, <2>1, <2>2
<1>10. ASSUME ~stranded' PROVE PathKeeps' /\ RowsKeep'
  BY <1>1, <1>8, <1>9, <1>10, RowsStay DEF OnceInv, PathKeeps
<1> QED BY <1>7, <1>10

LEMMA OnceSend ==
  ASSUME OnceInv, TimelineNext, SendMessage, link
  PROVE  Cleaned' /\ (~stranded' => PathKeeps' /\ RowsKeep')
<1> PICK s : s = sends + 1
  OBVIOUS
<1>1. /\ TimelineTypeOK /\ UsedOnce /\ s \in 1..MaxSends /\ sends \in Nat /\ s = sends + 1
      /\ UNCHANGED <<docs, job, inbox, link, open, detached, stranded>>
      /\ items' = Append(items, [id |-> 0, temp |-> s])
      /\ outbox' = Append(outbox, [type |-> "send", temp |-> s])
  BY SentAre, TimelineNumbers DEF OnceInv, Base, SendMessage, server, history, TimelineTypeOK
<1>2. s \notin detached /\ s \notin Pending /\ \A i \in MessageIds : docs[i].temp # s
  <2>1. \A i \in MessageIds : docs[i].temp \in Nat /\ docs[i].temp <= sends
    BY <1>1, DocsAre, TimelineNumbers DEF UsedOnce
  <2> QED BY <1>1, <2>1 DEF UsedOnce
<1>3. Pending' = Pending \cup {s} /\ Shown' = Shown /\ (OnceEach => OnceEach')
  BY <1>1, <1>2, OptimisticFacts
<1>4. /\ Len(outbox) \in Nat /\ DOMAIN outbox = 1..Len(outbox)
      /\ DOMAIN outbox' = 1..(Len(outbox) + 1)
      /\ \A p \in 1..Len(outbox) : outbox'[p] = outbox[p]
      /\ outbox'[Len(outbox) + 1] = [type |-> "send", temp |-> s]
  <2>1. [type |-> "send", temp |-> s] \in Requests
    BY <1>1 DEF Requests
  <2> QED BY <1>1, <2>1, AskFacts
<1>w. Waiting' \subseteq Waiting \cup {s}
  BY <1>1, <1>3, MuteGrows DEF Waiting
<1>5. \A t : CleanServed(t) => CleanServed(t)'
  BY <1>1 DEF CleanServed, CleanInbox
<1>6. Cleaned'
  <2>1. \A t : CleanAsked(t) => CleanAsked(t)'
    BY <1>4 DEF CleanAsked, Cleans
  <2>2. CleanAsked(s)'
    BY <1>4 DEF CleanAsked, Cleans
  <2> QED BY <1>1, <1>w, <1>5, <2>1, <2>2 DEF OnceInv, Cleaned
<1>7. ASSUME NEW f, PageIds(f) \subseteq MessageIds PROVE Without(f, s)
  BY <1>2, <1>7 DEF Without
<1>8. \A f \in Pages : PageIds(f) \subseteq MessageIds
  BY PagesAre
<1>9. InboxKeeps => InboxKeeps'
  <2> SUFFICES ASSUME InboxKeeps, NEW t \in Waiting \cup {s}, NEW p \in DOMAIN inbox, inbox[p].type = "more"
               PROVE  Without(inbox[p], t)' \/ CleanIn(p, t)'
    BY <1>1, <1>w DEF InboxKeeps
  <2>1. Without(inbox[p], t) \/ CleanIn(p, t)
    <3>1. inbox[p] \in Pages
      BY <1>1, InboxAre, Kinds
    <3> QED BY <1>7, <1>8, <3>1 DEF InboxKeeps
  <2> QED BY <1>1, <2>1 DEF Without, CleanIn
<1>10. JobKeeps => JobKeeps'
  <2> SUFFICES ASSUME JobKeeps, NEW t \in Waiting \cup {s}, job.type = "more"
               PROVE  Without(job, t)' \/ CleanInbox(t)'
    BY <1>1, <1>w DEF JobKeeps
  <2>1. Without(job, t) \/ CleanInbox(t)
    <3>1. job \in Pages
      BY <1>1, JobKinds
    <3> QED BY <1>7, <1>8, <3>1 DEF JobKeeps
  <2> QED BY <1>1, <2>1 DEF Without, CleanInbox
<1>11. OutboxKeeps => OutboxKeeps'
  <2> SUFFICES ASSUME OutboxKeeps, NEW t \in Waiting \cup {s}, NEW p \in DOMAIN outbox', outbox'[p].type = "more"
               PROVE  CleanServed(t)' \/ CleanOut(p, t)' \/ (Unborn(t)' /\ SentAfter(p, t)')
    BY <1>w DEF OutboxKeeps
  <2>1. p \in DOMAIN outbox /\ outbox'[p] = outbox[p]
    BY <1>4
  <2>2. CASE t = s
    <3>1. Unborn(t)'
      BY <1>1, <1>2, <2>2 DEF Unborn, MessageIds
    <3>2. SentAfter(p, t)'
      BY <1>4, <2>1, <2>2 DEF SentAfter
    <3> QED BY <3>1, <3>2
  <2>3. CASE t \in Waiting
    <3>1. CleanOut(p, t) => CleanOut(p, t)'
      BY <1>4 DEF CleanOut, Cleans
    <3>2. Unborn(t) /\ SentAfter(p, t) => Unborn(t)' /\ SentAfter(p, t)'
      BY <1>1, <1>4 DEF Unborn, SentAfter, MessageIds
    <3> QED BY <1>5, <2>1, <2>3, <3>1, <3>2 DEF OutboxKeeps
  <2> QED BY <2>2, <2>3
<1>12. NoTwin => NoTwin'
  BY <1>1, <1>2, <1>3, <1>w, ShownAre DEF NoTwin
<1>13. ASSUME ~stranded' PROVE PathKeeps' /\ RowsKeep'
  BY <1>1, <1>3, <1>9, <1>10, <1>11, <1>12, <1>13 DEF OnceInv, PathKeeps, RowsKeep
<1> QED BY <1>6, <1>13

(* A frame is received: what cleaned a row that is still pending has not    *)
(* been received, except by a channel that was left.                        *)
LEMMA OnceReceive ==
  ASSUME OnceInv, TimelineNext, Receive
  PROVE  Cleaned' /\ (~stranded' => PathKeeps' /\ RowsKeep')
<1>1. PICK f : f = inbox[1]
  OBVIOUS
<1>2. /\ TimelineTypeOK /\ f \in Frames /\ Honest(f) /\ Pending \subseteq Nat \ {0}
      /\ UNCHANGED <<docs, job, outbox, link, open, detached>>
  <2>1. TimelineTypeOK /\ f \in Frames /\ 1 \in DOMAIN inbox
    BY <1>1, ReceivedFacts DEF OnceInv, Base
  <2>2. f \in Under
    BY <1>1, <2>1 DEF Under, Heard
  <2>3. Honest(f)
    BY <2>2 DEF OnceInv, Base, AllHonest
  <2>4. Pending \subseteq Nat \ {0}
    BY <2>1, SentAre DEF OnceInv, Base, UsedOnce
  <2>5. UNCHANGED <<docs, job, outbox, link, open, detached>>
    BY <2>1, ReceiveFacts
  <2> QED BY <2>1, <2>3, <2>4, <2>5
<1>3. /\ Len(inbox) \in Nat \ {0} /\ DOMAIN inbox = 1..Len(inbox)
      /\ DOMAIN inbox' = 1..(Len(inbox) - 1)
      /\ \A p \in 1..(Len(inbox) - 1) : inbox'[p] = inbox[p + 1]
  BY <1>2, ReceivedFacts
<1>4. Pending' \subseteq Pending /\ Waiting' \subseteq Waiting /\ Waiting' \subseteq Pending'
  BY <1>2, MuteGrows, PendingShrinks DEF Waiting
<1>5. ASSUME NEW t \in Waiting', open \/ ~stranded' PROVE ~Cleans(f, t)
  <2>1. f.type \in {"new", "deleted", "history", "more", "error"}
    BY <1>2, Kinds
  <2>2. f.type # "history"
    BY <1>1, <1>2, <1>4, <1>5, PendingShrinks
  <2>3. f.type = "new" => f.temp # t
    BY <1>1, <1>2, <1>4, <1>5, PendingShrinks
  <2>4. f.type # "error"
    <3>1. CASE open
      BY <1>1, <1>2, <1>4, <1>5, <3>1, PendingShrinks
    <3>2. CASE ~open /\ ~stranded'
      BY <1>1, <1>2, <1>4, <1>5, <3>2, ReceiveFacts
    <3> QED BY <1>5, <3>1, <3>2
  <2> QED BY <2>1, <2>2, <2>3, <2>4 DEF Cleans
<1>6. ASSUME NEW q \in DOMAIN inbox, q # 1
      PROVE  q - 1 \in DOMAIN inbox' /\ inbox'[q - 1] = inbox[q]
  <2>1. q - 1 \in 1..(Len(inbox) - 1) /\ (q - 1) + 1 = q
    BY <1>3, <1>6
  <2> QED BY <1>3, <2>1
<1>7. ASSUME NEW t \in Waiting', open \/ ~stranded' PROVE CleanInbox(t) => CleanInbox(t)'
  <2>1. ASSUME NEW q \in DOMAIN inbox, Cleans(inbox[q], t) PROVE CleanInbox(t)'
    <3>1. q # 1
      BY <1>1, <1>5, <1>7, <2>1
    <3> QED BY <1>6, <2>1, <3>1 DEF CleanInbox, Cleans
  <2> QED BY <2>1 DEF CleanInbox
<1>8. ASSUME NEW t \in Waiting', open \/ ~stranded' PROVE CleanServed(t) => CleanServed(t)'
  BY <1>2, <1>7, <1>8 DEF CleanServed, Cleans
<1>9. Cleaned'
  BY <1>2, <1>4, <1>8 DEF OnceInv, Cleaned, CleanAsked, Cleans
<1>10. ASSUME ~stranded' PROVE PathKeeps' /\ RowsKeep'
  <2>1. CASE f.type = "history"
    <3>1. Pending' = {} /\ (OneRowEach(f) => OnceEach')
      BY <1>1, <1>2, <2>1, ReceiveFacts, HistoryFacts
    <3>2. OneRowEach(f)
      BY <1>2, <2>1 DEF Honest
    <3> QED BY <1>4, <3>1, <3>2 DEF PathKeeps, InboxKeeps, JobKeeps, OutboxKeeps, RowsKeep, NoTwin
  <2>2. CASE f.type # "history"
    <3>1. ~stranded
      BY <1>1, <1>2, <1>10, <2>2, ReceiveFacts
    <3>2. PathKeeps /\ RowsKeep
      BY <3>1 DEF OnceInv
    <3>3. InboxKeeps'
      <4> SUFFICES ASSUME NEW t \in Waiting', NEW p \in DOMAIN inbox', inbox'[p].type = "more"
                   PROVE  Without(inbox[p], t)' \/ CleanIn(p, t)'
        BY DEF InboxKeeps
      <4>1. p \in Nat /\ p + 1 \in DOMAIN inbox /\ inbox'[p] = inbox[p + 1]
        BY <1>3
      <4>2. Without(inbox[p + 1], t) \/ CleanIn(p + 1, t)
        BY <1>4, <3>2, <4>1 DEF PathKeeps, InboxKeeps
      <4>3. CASE Without(inbox[p + 1], t)
        BY <1>2, <4>1, <4>3 DEF Without
      <4>4. ASSUME NEW q \in DOMAIN inbox, q < p + 1, Cleans(inbox[q], t) PROVE CleanIn(p, t)'
        <5>1. q # 1
          BY <1>1, <1>5, <1>10, <4>4
        <5>2. q - 1 \in DOMAIN inbox' /\ inbox'[q - 1] = inbox[q] /\ q - 1 < p
          BY <1>3, <1>6, <4>1, <4>4, <5>1
        <5> QED BY <4>4, <5>2 DEF CleanIn, Cleans
      <4> QED BY <4>2, <4>3, <4>4 DEF CleanIn
    <3>4. JobKeeps'
      BY <1>2, <1>4, <1>7, <1>10, <3>2 DEF PathKeeps, JobKeeps, Without
    <3>5. OutboxKeeps'
      <4> SUFFICES ASSUME NEW t \in Waiting', NEW p \in DOMAIN outbox, outbox[p].type = "more"
                   PROVE  CleanServed(t)' \/ CleanOut(p, t)' \/ (Unborn(t)' /\ SentAfter(p, t)')
        BY <1>2 DEF OutboxKeeps
      <4>1. CleanServed(t) \/ CleanOut(p, t) \/ (Unborn(t) /\ SentAfter(p, t))
        BY <1>4, <3>2 DEF PathKeeps, OutboxKeeps
      <4>2. CleanServed(t) => CleanServed(t)'
        BY <1>8, <1>10
      <4>3. CleanOut(p, t) => CleanOut(p, t)'
        BY <1>2 DEF CleanOut, Cleans
      <4>4. Unborn(t) /\ SentAfter(p, t) => Unborn(t)' /\ SentAfter(p, t)'
        BY <1>2 DEF Unborn, SentAfter, MessageIds
      <4> QED BY <4>1, <4>2, <4>3, <4>4
    <3>6. RowsKeep'
      <4>1. CASE f.type = "new"
        <5>1. f \in News /\ f.temp = docs[f.id].temp
          BY <1>1, <1>2, <4>1, ReceiveFacts DEF Honest
        <5>2. /\ Shown' = Shown \cup {f.id} /\ (f.temp # 0 => f.temp \notin Pending')
              /\ OnceEach /\ (f.temp \in Pending => f.id \notin Shown) => OnceEach'
          BY <1>1, <1>2, <4>1, <5>1, ReceiveFacts, NewFacts
        <5>3. f.temp \notin Pending'
          BY <1>2, <1>4, <5>2
        <5>4. f.temp \in Pending => f.id \notin Shown
          <6>1. f.temp \in Echoes
            BY <1>1, <1>3, <4>1 DEF Echoes, Heard
          <6>2. f.temp \in Pending => f.temp \in Waiting
            BY <1>2, <6>1 DEF OnceInv, Apart, Waiting
          <6> QED BY <3>2, <5>1, <6>2 DEF RowsKeep, NoTwin
        <5> QED BY <1>2, <1>4, <3>2, <5>1, <5>2, <5>3, <5>4 DEF RowsKeep, NoTwin
      <4>2. CASE f.type = "more"
        <5>1. /\ Shown' = Shown \cup PageIds(f) /\ Pending' = Pending
              /\ OnceEach /\ OneRowEach(f) => OnceEach'
          BY <1>1, <1>2, <4>2, ReceiveFacts, OlderFacts
        <5>2. \A t \in Waiting : Without(f, t)
          <6>1. 1 \in DOMAIN inbox /\ \A t : ~CleanIn(1, t)
            BY <1>3 DEF CleanIn
          <6> QED BY <1>1, <3>2, <4>2, <6>1 DEF PathKeeps, InboxKeeps
        <5> QED BY <1>2, <1>4, <3>2, <4>2, <5>1, <5>2 DEF RowsKeep, NoTwin, Without, Honest
      <4>3. CASE f.type = "deleted"
        <5>1. f \in Deletions /\ items' = At(items, {k \in DOMAIN items : items[k].id # f.id})
          BY <1>1, <4>3, <1>2, ReceiveFacts
        <5>2. f.id \in Nat \ {0}
          BY <1>2, <5>1, Kinds, DocsAre
        <5>3. Pending' = Pending /\ Shown' = Shown \ {f.id} /\ (OnceEach => OnceEach')
          BY <1>2, <5>1, <5>2, DeletedFacts
        <5> QED BY <1>2, <1>4, <3>2, <5>3 DEF RowsKeep, NoTwin
      <4>4. CASE f.type = "error"
        <5>1. CASE open
          BY <1>1, <1>2, <1>4, <3>2, <4>4, <5>1, ReceiveFacts, UnpendedFacts DEF RowsKeep, NoTwin
        <5>2. CASE ~open
          <6>1. items' = items
            BY <1>1, <1>2, <4>4, <5>2, ReceiveFacts
          <6> QED BY <1>2, <3>2, <6>1, RowsStay
        <5> QED BY <5>1, <5>2
      <4> QED BY <1>2, <2>2, <4>1, <4>2, <4>3, <4>4, Kinds
    <3> QED BY <3>3, <3>4, <3>5, <3>6 DEF PathKeeps
  <2> QED BY <2>1, <2>2
<1> QED BY <1>9, <1>10

LEMMA OnceConnect ==
  ASSUME OnceInv, TimelineNext, Connect
  PROVE  Cleaned' /\ (~stranded' => PathKeeps' /\ RowsKeep')
<1>1. /\ TimelineTypeOK /\ job = NoJob /\ job' = job /\ inbox' = <<>>
      /\ outbox' = (IF open THEN <<Join>> ELSE <<>>)
      /\ UNCHANGED <<docs, items, open, stranded>>
  BY DEF OnceInv, Base, QuietOffline, Connect, server, store, history
<1>2. Waiting' \subseteq Waiting
  BY <1>1, MuteGrows DEF Waiting, Pending
<1>3. Cleaned'
  <2>1. ASSUME open PROVE \A t : CleanAsked(t)'
    BY <1>1, <2>1, Kinds DEF CleanAsked, Cleans
  <2> QED BY <1>1, <2>1 DEF Cleaned
<1>4. PathKeeps'
  <2>1. \A p \in DOMAIN outbox' : outbox'[p] = Join
    BY <1>1
  <2> QED BY <1>1, <2>1, Kinds DEF PathKeeps, InboxKeeps, JobKeeps, OutboxKeeps
<1>5. ASSUME ~stranded' PROVE RowsKeep'
  BY <1>1, <1>5, RowsStay DEF OnceInv
<1> QED BY <1>3, <1>4, <1>5

(* Without a connection, only the rows are left to keep.                    *)
LEMMA OnceOffline ==
  ASSUME OnceInv, TimelineNext, ~link'
  PROVE  Cleaned' /\ (~stranded' => PathKeeps' /\ RowsKeep')
<1>1. TimelineTypeOK /\ QuietOffline' /\ (~link => inbox = <<>> /\ outbox = <<>> /\ job = NoJob)
  BY IdleStep DEF OnceInv, Base, QuietOffline
<1>2. Cleaned' /\ PathKeeps'
  BY <1>1, NothingWithoutLink
<1>3. ASSUME ~stranded' PROVE RowsKeep'
  <2>1. ~Receive /\ ~Connect
    <3>1. Receive => link' = link /\ inbox # <<>>
      BY <1>1, ReceiveFacts DEF Receive
    <3> QED BY <1>1, <3>1 DEF Connect
  <2>2. stranded' = stranded
    BY <2>1 DEF TimelineNext, Handle, PeerSend, PeerDelete, Publish, Lose, HandleJoin, HandleMore, HandleSend, Reply,
       BreakOff, RefuseFrame, HandleDetached, Drop, OpenChannel, LeaveChannel, SendMessage, LoadOlder, history
  <2>3. OnceEach /\ NoTwin
    BY <1>3, <2>2 DEF OnceInv, RowsKeep
  <2>4. CASE SendMessage
    <3>1. ~link /\ items' = Unpended(items) /\ docs' = docs
      BY <2>4 DEF SendMessage, server
    <3>2. Pending' = {} /\ OnceEach'
      BY <1>1, <2>3, <3>1, UnpendedFacts
    <3> QED BY <3>2 DEF RowsKeep, NoTwin, Waiting
  <2>5. CASE ~SendMessage
    <3>1. items' = items
      BY <2>1, <2>5 DEF TimelineNext, Handle, PeerSend, PeerDelete, Publish, Lose, HandleJoin, HandleMore,
         HandleSend, Reply, BreakOff, RefuseFrame, HandleDetached, Drop, OpenChannel, LeaveChannel, LoadOlder, store
    <3> QED BY <1>1, <2>3, <3>1, RowsStay DEF RowsKeep
  <2> QED BY <2>4, <2>5
<1> QED BY <1>2, <1>3

LEMMA OnceInit ==
  ASSUME TimelineInit
  PROVE  OnceInv
<1>1. Base
  BY TypeInit, BaseInit
<1>2. Pending = {} /\ Shown = {} /\ link = FALSE
  BY DEF TimelineInit, Pending, Shown
<1>3. OnceEach
  BY DEF TimelineInit, OnceEach
<1>4. Apart
  <2>1. /\ outbox = <<>> /\ saying = {} /\ inbox = <<>> /\ job = NoJob /\ detached = {} /\ mute = {}
    BY DEF TimelineInit
  <2> QED BY <2>1, Kinds DEF Apart, Asked, JobTemp
<1> QED BY <1>1, <1>2, <1>3, <1>4
  DEF OnceInv, Cleaned, Waiting, PathKeeps, InboxKeeps, JobKeeps, OutboxKeeps, RowsKeep, NoTwin

LEMMA OnceStep ==
  ASSUME OnceInv, [TimelineNext]_timelineVars
  PROVE  OnceInv'
<1>1. CASE UNCHANGED timelineVars
  <2>1. UNCHANGED <<docs, saying, job, detached, outbox, inbox, link, open, items, hasMore, loadingMore,
                    sends, joins, deletes, faults, missed, reversed, late, torn, stranded, refused, mute>>
    BY <1>1 DEF timelineVars, server, net, store, counts, history
  <2>2. Base'
    BY <1>1, BaseStep DEF OnceInv
  <2>3. Cleaned'
    BY <2>1 DEF OnceInv, Cleaned, CleanServed, CleanInbox, CleanAsked, Waiting, Pending
  <2>5. Apart'
    BY <2>1 DEF OnceInv, Apart, Asked, Temps, Echoes, JobTemp, Heard, MessageIds
  <2>4. ASSUME ~stranded' PROVE PathKeeps' /\ RowsKeep'
    BY <2>1, <2>4 DEF OnceInv, PathKeeps, InboxKeeps, JobKeeps, OutboxKeeps, RowsKeep, OnceEach, NoTwin, Shown,
       Waiting, Pending, CleanServed, CleanInbox, CleanIn, CleanOut, Without, Unborn, SentAfter, MessageIds
  <2> QED BY <2>2, <2>3, <2>4, <2>5 DEF OnceInv
<1>2. CASE TimelineNext
  <2>1. Base' /\ Apart'
    BY <1>2, BaseStep, ApartStep DEF OnceInv
  <2>2. Cleaned' /\ (~stranded' => PathKeeps' /\ RowsKeep')
    <3>1. CASE ~link'
      BY <1>2, <3>1, OnceOffline
    <3>2. CASE link'
      <4>1. CASE Drop \/ Connect
        BY <1>2, <3>2, <4>1, OnceConnect DEF Drop
      <4>2. CASE ~(Drop \/ Connect)
        <5>1. link
          BY <1>2, <3>2, <4>2, ReceiveFacts
          DEF OnceInv, Base, TimelineNext, Handle, PeerSend, PeerDelete, Publish, Lose, HandleJoin, HandleMore,
              HandleSend, Reply, BreakOff, RefuseFrame, HandleDetached, OpenChannel, LeaveChannel, SendMessage, LoadOlder, net
        <5> QED BY <1>2, <4>2, <5>1, OnceOthers, OncePublish, OnceReply, OnceServe, OnceRefuse, OnceBreak, OnceOpen, OnceMore,
                   OnceSend, OnceReceive DEF TimelineNext, Handle
      <4> QED BY <4>1, <4>2
    <3> QED BY <3>1, <3>2
  <2> QED BY <2>1, <2>2 DEF OnceInv
<1> QED BY <1>1, <1>2

(* No message is listed twice, neither as two rows nor as its optimistic    *)
(* copy beside the stored one (socket.ts handleFrame, useAppStore).         *)
THEOREM NothingListedTwice == TimelineSpec => []ListedOnce
<1>1. TimelineInit => OnceInv
  BY OnceInit
<1>2. OnceInv /\ [TimelineNext]_timelineVars => OnceInv'
  BY OnceStep
<1>3. OnceInv => ListedOnce
  <2> SUFFICES ASSUME OnceInv, ~stranded, NEW j \in DOMAIN items, NEW k \in DOMAIN items, j # k
               PROVE  /\ items[j].id = items[k].id => items[j].id = 0 /\ items[j].temp # items[k].temp
                      /\ items[j].id = 0 /\ items[k].id # 0 =>
                           docs[items[k].id].temp # items[j].temp \/ items[j].temp \in mute
    BY DEF ListedOnce
  <2>1. OnceEach /\ NoTwin
    BY DEF OnceInv, RowsKeep
  <2>2. items[j].id = 0 => items[j].temp \in Pending
    BY DEF Pending
  <2>3. items[k].id # 0 => items[k].id \in Shown
    BY DEF Shown
  <2> QED BY <2>1, <2>2, <2>3 DEF OnceEach, NoTwin, Waiting
<1> QED BY <1>1, <1>2, <1>3, PTL DEF TimelineSpec

-----------------------------------------------------------------------------
(* What is shown is what is stored.                                         *)

(* Messages a list must have, and those it must not; a message broadcast    *)
(* while a page was read, after its own deletion, or never, is in neither.  *)
Due == Live \ missed
Dead == (MessageIds \ Live) \ (missed \cup reversed)

(* Messages, and deletions, that will still be heard of after position p of *)
(* the inbox.                                                               *)
Announced == {i \in MessageIds : Unsaid(i)}
Departing == {i \in MessageIds : Gone(i) \in saying}
Coming(p) == Announced \cup
  {i \in MessageIds : \E q \in DOMAIN inbox : q > p /\ inbox[q].type = "new" /\ inbox[q].id = i}
Going(p) == Departing \cup {i \in MessageIds : \E q \in DOMAIN inbox : q > p /\ inbox[q] = Gone(i)}

(* No page that was read comes after position p; the tab keeps up a page it *)
(* has, and no other is asked for.                                          *)
Fixed(p) == job.type # "history" /\ \A q \in DOMAIN inbox : q > p => inbox[q].type # "history"
Following ==
  link /\ open /\ "join" \notin refused /\ (\A q \in DOMAIN outbox : outbox[q] # Join) /\ Fixed(0)

(* From its oldest message on, S has all of D but what is in K; and a page  *)
(* without more to come has all there is.                                   *)
Reaches(S, D, K) == \A j \in S, i \in D : i >= j => i \in S \cup K
Spans(f, D, K) == Reaches(PageIds(f), D, K) /\ (~f.more => D \subseteq PageIds(f) \cup K)

Brings(f) == IF f.type = "new" THEN {f.id}
             ELSE IF f.type \in {"history", "more"} THEN PageIds(f) ELSE {}

(* The deletion of a message is published after its creation, ...           *)
DeadSaid == \A i \in MessageIds \ Live : i \notin reversed /\ Unsaid(i) => Gone(i) \in saying

(* ... and after a page that has the message, which is complete but for     *)
(* what is still to be announced.                                           *)
JobGood ==
  /\ job.type \in {"history", "more"} => PageIds(job) \cap Dead \subseteq Departing
  /\ job.type = "history" => Spans(job, Due, Announced)

(* So it is for every frame on its way, if no other page replaces the list. *)
Right(p) == Brings(inbox[p]) \cap Dead \subseteq Going(p)
Whole(p) == inbox[p].type = "history" => Spans(inbox[p], Due, Coming(p))
InOrder(p) ==
  inbox[p].type = "new" /\ ~late => \A i \in Due : i > inbox[p].id => i \in Coming(p)
GoodAt(p) == Fixed(p) => Right(p) /\ Whole(p) /\ InOrder(p)
InboxGood == \A p \in DOMAIN inbox : GoodAt(p)

(* And for the list, and for the older pages that will be put before it.    *)
Known == Shown \cup Coming(0)
RowsRight == Shown \cap Dead \subseteq Going(0)
RowsWhole == (~hasMore => Due \subseteq Known) /\ (~late => Reaches(Shown, Due, Coming(0)))
KnownFrom(b) == \A i \in Due : i >= b => i \in Known
AskedWhole == \A q \in DOMAIN outbox : outbox[q].type = "more" => KnownFrom(outbox[q].before)
OlderWhole == \A f \in {job} \cup Heard : f.type = "more" => Spans(f, Due, Known)
RowsGood == Following => RowsRight /\ (~torn => RowsWhole /\ AskedWhole /\ OlderWhole)

StoreInv == OnceInv /\ DeadSaid /\ JobGood /\ InboxGood /\ RowsGood

LEMMA ReachesStays ==
  ASSUME NEW S, NEW D, NEW K, NEW DD, NEW KK, Reaches(S, D, K),
         DD \subseteq D \cup KK, K \cap DD \subseteq S \cup KK
  PROVE  Reaches(S, DD, KK)
BY DEF Reaches

LEMMA SpansStays ==
  ASSUME NEW f, NEW D, NEW K, NEW DD, NEW KK, Spans(f, D, K),
         DD \subseteq D \cup KK, K \cap DD \subseteq PageIds(f) \cup KK
  PROVE  Spans(f, DD, KK)
<1>1. Reaches(PageIds(f), DD, KK)
  BY ReachesStays DEF Spans
<1> QED BY <1>1 DEF Spans

LEMMA SetsAre ==
  ASSUME TimelineTypeOK
  PROVE  /\ Due \subseteq MessageIds /\ Dead \subseteq MessageIds
         /\ Announced \subseteq MessageIds /\ Departing \subseteq MessageIds
         /\ \A p : /\ Coming(p) \subseteq MessageIds /\ Going(p) \subseteq MessageIds
                   /\ Announced \subseteq Coming(p) /\ Departing \subseteq Going(p)
BY DocsAre DEF Due, Dead, Announced, Departing, Coming, Going

-----------------------------------------------------------------------------
(* The server: broadcasts still to be published, and the page being read.   *)

LEMMA UnsaidIs ==
  ASSUME TimelineTypeOK
  PROVE  /\ \A e \in saying : e.type \in {"new", "deleted"} /\ e.id \in MessageIds
                              /\ (e.type = "deleted" => e = Gone(e.id))
         /\ \A i : Gone(i).type = "deleted" /\ Gone(i).id = i
         /\ \A i, t : New(i, t).type = "new" /\ New(i, t).id = i
<1>1. \A e \in saying : e \in News \cup Deletions
  BY DEF TimelineTypeOK
<1> QED BY <1>1, Kinds DEF Gone, New

(* What writing a message, by a handler that will announce it, changes.     *)
LEMMA UnsaidWrites ==
  ASSUME TimelineTypeOK, PeerSend \/ HandleSend \/ (\E t \in detached : HandleDetached(t)),
         NEW n, n = Len(docs) + 1
  PROVE  /\ MessageIds' = MessageIds \cup {n} /\ Live' = Live \cup {n} /\ n \notin MessageIds
         /\ Unsaid(n)' /\ \A i \in MessageIds : Unsaid(i)' <=> Unsaid(i)
         /\ \A i \in MessageIds : Gone(i) \in saying' <=> Gone(i) \in saying
         /\ UNCHANGED <<inbox, items, missed, reversed, late, torn, refused, hasMore, open, link>>
<1>1. PICK t \in 0..MaxSends :
        /\ Insert(t)
        /\ \/ saying' = saying \cup {New(n, t)} /\ job' = job
           \/ saying' = saying /\ job = NoJob /\ job' = New(n, t)
        /\ UNCHANGED <<inbox, items, missed, reversed, late, torn, refused, hasMore, open, link>>
  <2>1. CASE PeerSend
    <3>1. 0 \in 0..MaxSends
      BY TimelineNumbers
    <3> QED BY <2>1, <3>1 DEF PeerSend, net, store, history
  <2>2. ASSUME NEW t \in detached, HandleDetached(t)
        PROVE  /\ t \in 0..MaxSends /\ Insert(t) /\ saying' = saying \cup {New(n, t)} /\ job' = job
               /\ UNCHANGED <<inbox, items, missed, reversed, late, torn, refused, hasMore, open, link>>
    BY <2>2, TimelineNumbers DEF HandleDetached, TimelineTypeOK, net, store, history
  <2>3. CASE HandleSend
    <3>1. Head(outbox).temp \in 0..MaxSends
      BY <2>3, TakenFacts, Kinds, TimelineNumbers DEF HandleSend, Take
    <3> QED BY <2>3, <3>1 DEF HandleSend, Take, store, history
  <2> QED BY <2>1, <2>2, <2>3
<1>2. /\ MessageIds' = MessageIds \cup {n} /\ Live' = Live \cup {n} /\ n \notin MessageIds
  BY <1>1, InsertFacts
<1>3. Unsaid(n)'
  BY <1>1, UnsaidIs DEF Unsaid
<1>4. ASSUME NEW i \in MessageIds PROVE Unsaid(i)' <=> Unsaid(i)
  <2>1. i # n /\ NoJob.type # "new" /\ New(n, t).id = n
    BY <1>2, UnsaidIs DEF NoJob
  <2> QED BY <1>1, <2>1 DEF Unsaid
<1>5. \A i \in MessageIds : Gone(i) \in saying' <=> Gone(i) \in saying
  <2>1. \A i : Gone(i) # New(n, t)
    BY UnsaidIs
  <2> QED BY <1>1, <2>1
<1> QED BY <1>1, <1>2, <1>3, <1>4, <1>5

LEMMA DeadSaidStep ==
  ASSUME TimelineTypeOK, QuietOffline, DeadSaid, TimelineNext
  PROVE  DeadSaid'
<1>1. CASE PeerSend \/ HandleSend \/ (\E t \in detached : HandleDetached(t))
  <2>1. PICK n : n = Len(docs) + 1
    OBVIOUS
  <2> QED BY <1>1, <2>1, UnsaidWrites DEF DeadSaid
<1>2. ASSUME NEW j \in MessageIds, PeerDelete(j) PROVE DeadSaid'
  <2>1. MessageIds' = MessageIds /\ Live' = Live \ {j} /\ saying' = saying \cup {Gone(j)}
    BY <1>2, DeleteFacts DEF PeerDelete
  <2>2. \A i : Unsaid(i)' => Unsaid(i)
    BY <1>2, <2>1, UnsaidIs DEF PeerDelete, Unsaid
  <2> QED BY <1>2, <2>1, <2>2 DEF DeadSaid, PeerDelete, history
<1>3. ASSUME NEW e \in saying, Publish(e) \/ Lose(e) PROVE DeadSaid'
  <2>1. MessageIds' = MessageIds /\ Live' = Live /\ saying' = saying \ {e} /\ job' = job
    BY <1>3, DocsStay DEF Publish, Lose
  <2>2. \A i : Unsaid(i)' => Unsaid(i)
    BY <2>1 DEF Unsaid
  <2>3. ASSUME NEW i \in MessageIds \ Live, i \notin reversed', Unsaid(i)
        PROVE  Gone(i) \in saying \ {e}
    <3>1. i \notin reversed /\ ~(e.type = "deleted" /\ Unsaid(e.id) /\ e.id = i)
      BY <1>3, <2>3 DEF Publish, Lose
    <3>2. e # Gone(i)
      BY <2>3, <3>1, UnsaidIs
    <3> QED BY <2>3, <3>1, <3>2 DEF DeadSaid
  <2> QED BY <2>1, <2>2, <2>3 DEF DeadSaid
<1>4. CASE HandleJoin \/ HandleMore \/ Reply \/ BreakOff
  <2>1. MessageIds' = MessageIds /\ Live' = Live /\ saying' = saying /\ reversed' = reversed
    BY <1>4, DocsStay DEF HandleJoin, HandleMore, Reply, BreakOff, history
  <2>2. \A i : Unsaid(i)' => Unsaid(i)
    <3>1. job'.type # "new"
      BY <1>4, Kinds DEF HandleJoin, HandleMore, Reply, BreakOff, Answer
    <3> QED BY <2>1, <3>1 DEF Unsaid
  <2> QED BY <2>1, <2>2 DEF DeadSaid
<1>5. CASE Drop
  <2>1. MessageIds' = MessageIds /\ Live' = Live /\ reversed' = reversed
    BY <1>5, DocsStay DEF Drop, history
  <2>2. saying \subseteq saying' /\ \A i : Unsaid(i)' => Unsaid(i)
    BY <1>5, Kinds DEF Drop, Unsaid
  <2> QED BY <2>1, <2>2 DEF DeadSaid
<1>6. CASE RefuseFrame \/ Connect \/ OpenChannel \/ LeaveChannel \/ SendMessage \/ LoadOlder \/ Receive
  <2>1. docs' = docs /\ saying' = saying /\ job' = job /\ reversed' = reversed
    BY <1>6, ReceiveFacts DEF RefuseFrame, Connect, OpenChannel, LeaveChannel, SendMessage, LoadOlder, server, history
  <2> QED BY <2>1, DocsStay DEF DeadSaid, Unsaid
<1> QED BY <1>1, <1>2, <1>3, <1>4, <1>5, <1>6 DEF TimelineNext, Handle

LEMMA JobGoodStep ==
  ASSUME TimelineTypeOK, DeadSaid, JobGood, TimelineNext
  PROVE  JobGood'
<1>1. ASSUME job'.type \notin {"history", "more"} PROVE JobGood'
  BY <1>1 DEF JobGood
(* The page that is being read stays as it is.                              *)
<1>2. ASSUME job' = job, job.type \in {"history", "more"},
             Dead' \subseteq Dead \cup Departing',
             Departing \cap Dead' \subseteq Departing',
             Due' \subseteq Due \cup Announced', Announced \cap Due' \subseteq Announced'
      PROVE  JobGood'
  <2>1. PageIds(job) \cap Dead' \subseteq Departing'
    BY <1>2 DEF JobGood
  <2>2. ASSUME job.type = "history" PROVE Spans(job, Due', Announced')
    <3>1. Spans(job, Due, Announced)
      BY <2>2 DEF JobGood
    <3> QED BY <1>2, <3>1, SpansStays
  <2> QED BY <1>2, <2>1, <2>2 DEF JobGood
<1>3. CASE HandleJoin
  <2>1. PICK n \in Nat : n = Len(docs) + 1
    BY DocsAre
  <2>2. PICK f : f = Answer("history", n)
    OBVIOUS
  <2>3. job' = f /\ f.type = "history" /\ docs' = docs /\ saying' = saying
    BY <1>3, <2>1, <2>2 DEF HandleJoin, Answer
  <2>4. Before(n) = Live
    BY <2>1, DocsAre DEF Before
  <2>5. PageIds(f) \subseteq Live /\ Spans(f, Live, {})
    BY <2>2, <2>4, AnswerFacts DEF Spans, Reaches
  <2>6. Live' = Live /\ Due' \subseteq Live /\ Dead' \cap Live = {}
    BY <2>3, DocsStay DEF Due, Dead
  <2>7. Spans(f, Due', Announced')
    BY <2>5, <2>6, SpansStays
  <2> QED BY <2>3, <2>5, <2>6, <2>7 DEF JobGood
<1>4. CASE HandleMore
  <2>1. Head(outbox) \in Requests /\ Head(outbox).type = "more"
    BY <1>4, TakenFacts DEF HandleMore, Take
  <2>2. PICK n \in Nat : n = Head(outbox).before
    BY <2>1, Kinds, DocsAre
  <2>3. PICK f : f = Answer("more", n)
    OBVIOUS
  <2>4. job' = f /\ f.type = "more" /\ docs' = docs
    BY <1>4, <2>2, <2>3 DEF HandleMore, Answer
  <2>5. PageIds(f) \subseteq Live
    BY <2>3, AnswerFacts DEF Before
  <2>6. Dead' \cap Live = {}
    BY <2>4, DocsStay DEF Dead
  <2> QED BY <2>4, <2>5, <2>6 DEF JobGood
<1>5. CASE HandleSend \/ Reply \/ BreakOff \/ Drop
  <2>1. job'.type \notin {"history", "more"}
    BY <1>5, Kinds DEF HandleSend, Reply, BreakOff, Drop, New
  <2> QED BY <1>1, <2>1
<1>6. CASE PeerSend \/ (\E t \in detached : HandleDetached(t))
  <2>1. PICK n : n = Len(docs) + 1
    OBVIOUS
  <2>2. job' = job
    BY <1>6 DEF PeerSend, HandleDetached
  <2>3. /\ MessageIds' = MessageIds \cup {n} /\ Live' = Live \cup {n} /\ n \notin MessageIds
        /\ Unsaid(n)' /\ \A i \in MessageIds : Unsaid(i)' <=> Unsaid(i)
        /\ \A i \in MessageIds : Gone(i) \in saying' <=> Gone(i) \in saying
        /\ missed' = missed /\ reversed' = reversed
    BY <1>6, <2>1, UnsaidWrites
  <2> QED BY <1>1, <1>2, <2>2, <2>3 DEF Due, Dead, Announced, Departing
<1>7. ASSUME NEW j \in MessageIds, PeerDelete(j) PROVE JobGood'
  <2>1. /\ MessageIds' = MessageIds /\ Live' = Live \ {j} /\ saying' = saying \cup {Gone(j)}
        /\ job' = job /\ missed' = missed /\ reversed' = reversed
    BY <1>7, DeleteFacts DEF PeerDelete, history
  <2>2. \A i : Unsaid(i)' <=> Unsaid(i)
    BY <2>1, UnsaidIs DEF Unsaid
  <2> QED BY <1>1, <1>2, <2>1, <2>2 DEF Due, Dead, Announced, Departing
<1>8. ASSUME NEW e \in saying, Publish(e) \/ Lose(e) PROVE JobGood'
  <2>1. /\ MessageIds' = MessageIds /\ Live' = Live /\ saying' = saying \ {e} /\ job' = job
        /\ reversed \subseteq reversed'
    BY <1>8, DocsStay DEF Publish, Lose
  <2>2. CASE job.type \in {"history", "more"}
    <3>1. missed' = missed \cup {e.id}
      BY <1>8, <2>2 DEF Publish, Lose
    <3>2. \A i : Unsaid(i) => Unsaid(i)' \/ i = e.id
      BY <2>1 DEF Unsaid
    <3>3. \A i : Gone(i) \in saying => Gone(i) \in saying' \/ i = e.id
      BY <2>1, UnsaidIs
    <3> QED BY <1>2, <2>1, <2>2, <3>1, <3>2, <3>3 DEF Due, Dead, Announced, Departing
  <2> QED BY <1>1, <2>1, <2>2
<1>9. CASE RefuseFrame \/ Connect \/ OpenChannel \/ LeaveChannel \/ SendMessage \/ LoadOlder \/ Receive
  <2>1. docs' = docs /\ saying' = saying /\ job' = job /\ reversed' = reversed /\ missed' = missed
    BY <1>9, ReceiveFacts DEF RefuseFrame, Connect, OpenChannel, LeaveChannel, SendMessage, LoadOlder, server, history
  <2> QED BY <1>1, <1>2, <2>1, DocsStay DEF Due, Dead, Announced, Departing, Unsaid
<1> QED BY <1>3, <1>4, <1>5, <1>6, <1>7, <1>8, <1>9 DEF TimelineNext, Handle

-----------------------------------------------------------------------------
(* What is on its way.                                                      *)

(* Nothing that must be heard of after position p is lost, what happens to  *)
(* a message will be heard of, and no page is lost.                         *)
TrafficAt(p) ==
  /\ Coming(p) \cap Due' \subseteq Coming(p)' /\ Due' \subseteq Due \cup Coming(p)'
  /\ Going(p) \cap Dead' \subseteq Going(p)' /\ Dead' \subseteq Dead \cup Going(p)'
  /\ Fixed(p)' => Fixed(p)

LEMMA TrafficFrom ==
  ASSUME TimelineTypeOK, MessageIds \subseteq MessageIds',
         \A p \in DOMAIN inbox : p \in DOMAIN inbox' /\ inbox'[p] = inbox[p],
         \A i \in Announced \cap Due' : \/ i \in Announced'
                              \/ \E q \in DOMAIN inbox' :
                                   q > Len(inbox) /\ inbox'[q].type = "new" /\ inbox'[q].id = i,
         \A i \in Departing \cap Dead' : \/ i \in Departing'
                              \/ \E q \in DOMAIN inbox' : q > Len(inbox) /\ inbox'[q] = Gone(i),
         job.type = "history" => \/ job'.type = "history"
                                 \/ \E q \in DOMAIN inbox' : q > Len(inbox) /\ inbox'[q].type = "history",
         Due' \subseteq Due \cup Announced', Dead' \subseteq Dead \cup Departing',
         inbox' \in Seq(Frames')
  PROVE  \A p \in 0..Len(inbox) : TrafficAt(p)
<1> SUFFICES ASSUME NEW p \in 0..Len(inbox) PROVE TrafficAt(p)
  OBVIOUS
<1>1. /\ Len(inbox) \in Nat /\ DOMAIN inbox = 1..Len(inbox)
      /\ Len(inbox') \in Nat /\ DOMAIN inbox' = 1..Len(inbox')
  BY LenProperties DEF TimelineTypeOK
<1>2. \A q \in DOMAIN inbox' : q > Len(inbox) => q > p
  BY <1>1
<1>3. Coming(p) \cap Due' \subseteq Coming(p)'
  <2> SUFFICES ASSUME NEW i \in Coming(p) \cap Due' PROVE i \in Coming(p)'
    OBVIOUS
  <2>1. i \in MessageIds'
    BY SetsAre
  <2>2. CASE i \in Announced
    BY <1>2, <2>1, <2>2 DEF Coming
  <2>3. ASSUME NEW q \in DOMAIN inbox, q > p, inbox[q].type = "new", inbox[q].id = i PROVE i \in Coming(p)'
    <3>1. q \in DOMAIN inbox' /\ inbox'[q] = inbox[q]
      OBVIOUS
    <3> QED BY <2>1, <2>3, <3>1 DEF Coming
  <2> QED BY <2>2, <2>3 DEF Coming
<1>4. Going(p) \cap Dead' \subseteq Going(p)'
  <2> SUFFICES ASSUME NEW i \in Going(p) \cap Dead' PROVE i \in Going(p)'
    OBVIOUS
  <2>1. i \in MessageIds'
    BY SetsAre
  <2>2. CASE i \in Departing
    BY <1>2, <2>1, <2>2 DEF Going
  <2>3. ASSUME NEW q \in DOMAIN inbox, q > p, inbox[q] = Gone(i) PROVE i \in Going(p)'
    <3>1. q \in DOMAIN inbox' /\ inbox'[q] = inbox[q]
      OBVIOUS
    <3> QED BY <2>1, <2>3, <3>1 DEF Going
  <2> QED BY <2>2, <2>3 DEF Going
<1>5. Announced' \subseteq Coming(p)' /\ Departing' \subseteq Going(p)'
  BY DEF Coming, Going
<1>6. ASSUME Fixed(p)' PROVE Fixed(p)
  <2>1. job.type # "history"
    BY <1>2, <1>6 DEF Fixed
  <2>2. ASSUME NEW q \in DOMAIN inbox, q > p PROVE inbox[q].type # "history"
    <3>1. q \in DOMAIN inbox' /\ inbox'[q] = inbox[q]
      OBVIOUS
    <3> QED BY <1>6, <2>2, <3>1 DEF Fixed
  <2> QED BY <2>1, <2>2 DEF Fixed
<1> QED BY <1>3, <1>4, <1>5, <1>6 DEF TrafficAt

(* What a delivered frame leaves in the inbox.                              *)
LEMMA Delivered ==
  ASSUME TimelineTypeOK, NEW f \in Frames, Deliver(f), link, docs' = docs
  PROVE  /\ \A p \in DOMAIN inbox : p \in DOMAIN inbox' /\ inbox'[p] = inbox[p]
         /\ \E q \in DOMAIN inbox' : q > Len(inbox) /\ inbox'[q] = f
         /\ \A q \in DOMAIN inbox' : q \in DOMAIN inbox \/ (q = Len(inbox) + 1 /\ inbox'[q] = f)
         /\ inbox' \in Seq(Frames') /\ Len(inbox) \in Nat
BY DeliverFacts, DocsStay

LEMMA TrafficStep ==
  ASSUME TimelineTypeOK, TimelineTypeOK', TimelineNext, link, link', ~Receive, ~HandleJoin
  PROVE  /\ \A p \in 0..Len(inbox) : TrafficAt(p)
         /\ \A p \in DOMAIN inbox : p \in DOMAIN inbox' /\ inbox'[p] = inbox[p]
         /\ late => late'
<1>0. inbox' \in Seq(Frames')
  BY DEF TimelineTypeOK
<1>1. CASE PeerSend \/ HandleSend \/ (\E t \in detached : HandleDetached(t))
  <2>1. PICK n : n = Len(docs) + 1
    OBVIOUS
  <2>2. /\ MessageIds' = MessageIds \cup {n} /\ Live' = Live \cup {n} /\ n \notin MessageIds
        /\ Unsaid(n)' /\ \A i \in MessageIds : Unsaid(i)' <=> Unsaid(i)
        /\ \A i \in MessageIds : Gone(i) \in saying' <=> Gone(i) \in saying
        /\ UNCHANGED <<inbox, missed, reversed, late>>
    BY <1>1, <2>1, UnsaidWrites
  <2>3. job.type # "history" \/ job' = job
    BY <1>1, Kinds DEF PeerSend, HandleSend, Take, HandleDetached
  <2>4. /\ Announced \subseteq Announced' /\ Departing \subseteq Departing'
        /\ Due' \subseteq Due \cup Announced' /\ Dead' \subseteq Dead \cup Departing'
    BY <2>2 DEF Announced, Departing, Due, Dead
  <2>5. \A p \in 0..Len(inbox) : TrafficAt(p)
    BY <1>0, <2>2, <2>3, <2>4, TrafficFrom
  <2> QED BY <2>2, <2>5
<1>2. ASSUME NEW j \in MessageIds, PeerDelete(j)
      PROVE  (\A p \in 0..Len(inbox) : TrafficAt(p)) /\ inbox' = inbox /\ late' = late
  <2>1. /\ MessageIds' = MessageIds /\ Live' = Live \ {j} /\ saying' = saying \cup {Gone(j)}
        /\ UNCHANGED <<job, inbox, missed, reversed, late>>
    BY <1>2, DeleteFacts DEF PeerDelete, history, net
  <2>2. \A i : Unsaid(i)' <=> Unsaid(i)
    BY <2>1, UnsaidIs DEF Unsaid
  <2>3. /\ Announced \subseteq Announced' /\ Departing \subseteq Departing'
        /\ Due' \subseteq Due \cup Announced' /\ Dead' \subseteq Dead \cup Departing'
    BY <2>1, <2>2 DEF Announced, Departing, Due, Dead
  <2> QED BY <1>0, <2>1, <2>3, TrafficFrom
<1>3. ASSUME NEW e \in saying, Publish(e)
      PROVE  /\ \A p \in 0..Len(inbox) : TrafficAt(p)
             /\ \A p \in DOMAIN inbox : p \in DOMAIN inbox' /\ inbox'[p] = inbox[p]
             /\ late => late'
  <2>1. /\ MessageIds' = MessageIds /\ Live' = Live /\ saying' = saying \ {e} /\ job' = job
        /\ reversed \subseteq reversed' /\ missed \subseteq missed' /\ docs' = docs /\ (late => late')
    BY <1>3, DocsStay DEF Publish
  <2>2. e \in Frames
    BY DEF TimelineTypeOK, Frames
  <2>3. /\ \A p \in DOMAIN inbox : p \in DOMAIN inbox' /\ inbox'[p] = inbox[p]
        /\ \E q \in DOMAIN inbox' : q > Len(inbox) /\ inbox'[q] = e
    BY <1>3, <2>1, <2>2, Delivered DEF Publish
  <2>4. \A i \in Announced : i \in Announced' \/ (e.type = "new" /\ e.id = i)
    BY <2>1 DEF Announced, Unsaid
  <2>5. \A i \in Departing : i \in Departing' \/ e = Gone(i)
    BY <2>1 DEF Departing
  <2>6. Due' \subseteq Due /\ Dead' \subseteq Dead
    BY <2>1 DEF Due, Dead
  <2>7. \A p \in 0..Len(inbox) : TrafficAt(p)
    BY <1>0, <2>1, <2>3, <2>4, <2>5, <2>6, TrafficFrom
  <2> QED BY <2>1, <2>3, <2>7
<1>4. CASE Reply
  <2>1. /\ MessageIds' = MessageIds /\ Live' = Live /\ saying' = saying /\ job' = NoJob
        /\ UNCHANGED <<docs, missed, reversed>> /\ (late => late')
    BY <1>4, DocsStay DEF Reply
  <2>2. job \in Frames
    BY <1>4, JobKinds DEF Reply
  <2>3. /\ \A p \in DOMAIN inbox : p \in DOMAIN inbox' /\ inbox'[p] = inbox[p]
        /\ \E q \in DOMAIN inbox' : q > Len(inbox) /\ inbox'[q] = job
    BY <1>4, <2>1, <2>2, Delivered DEF Reply
  <2>4. \A i \in Announced : i \in Announced' \/ (job.type = "new" /\ job.id = i)
    BY <2>1 DEF Announced, Unsaid
  <2>5. Departing' = Departing /\ Due' = Due /\ Dead' = Dead
    BY <2>1 DEF Departing, Due, Dead
  <2>6. \A p \in 0..Len(inbox) : TrafficAt(p)
    BY <1>0, <2>1, <2>3, <2>4, <2>5, TrafficFrom
  <2> QED BY <2>1, <2>3, <2>6
<1>6. ASSUME NEW e \in saying, Lose(e)
      PROVE  (\A p \in 0..Len(inbox) : TrafficAt(p)) /\ inbox' = inbox /\ late' = late
  <2>1. /\ MessageIds' = MessageIds /\ Live' = Live /\ saying' = saying \ {e} /\ missed' = missed \cup {e.id}
        /\ reversed \subseteq reversed' /\ UNCHANGED <<job, inbox, late>>
    BY <1>6, DocsStay DEF Lose, net
  <2>2. \A i \in Announced : i \in Announced' \/ i \in missed'
    BY <2>1 DEF Announced, Unsaid
  <2>3. \A i \in Departing : i \in Departing' \/ i \in missed'
    BY <2>1, UnsaidIs DEF Departing
  <2>4. Due' \subseteq Due /\ Dead' \subseteq Dead /\ Due' \cap missed' = {} /\ Dead' \cap missed' = {}
    BY <2>1 DEF Due, Dead
  <2>5. \A p \in 0..Len(inbox) : TrafficAt(p)
    BY <1>0, <2>1, <2>2, <2>3, <2>4, TrafficFrom
  <2> QED BY <2>1, <2>5
<1>7. CASE BreakOff
  <2>1. /\ MessageIds' = MessageIds /\ Live' = Live /\ saying' = saying /\ missed' = missed \cup {job.id}
        /\ job.type = "new" /\ UNCHANGED <<docs, reversed, late>>
    BY <1>7, DocsStay DEF BreakOff
  <2>2. \A p \in DOMAIN inbox : p \in DOMAIN inbox' /\ inbox'[p] = inbox[p]
    <3>1. CASE Deliver([type |-> "error"])
      <4>1. [type |-> "error"] \in Frames
        BY DEF Frames
      <4> QED BY <2>1, <3>1, <4>1, Delivered
    <3> QED BY <1>7, <3>1 DEF BreakOff
  <2>3. \A i \in Announced : i \in Announced' \/ i \in missed'
    BY <2>1 DEF Announced, Unsaid
  <2>4. Departing' = Departing
    BY <2>1 DEF Departing
  <2>5. Due' \subseteq Due /\ Dead' \subseteq Dead /\ Due' \cap missed' = {}
    BY <2>1 DEF Due, Dead
  <2>6. \A p \in 0..Len(inbox) : TrafficAt(p)
    BY <1>0, <2>1, <2>2, <2>3, <2>4, <2>5, TrafficFrom
  <2> QED BY <2>1, <2>2, <2>6
<1>5. CASE RefuseFrame \/ HandleMore \/ OpenChannel \/ LeaveChannel \/ SendMessage \/ LoadOlder
  <2>1. /\ UNCHANGED <<docs, saying, missed, reversed, late>> /\ (job.type = "history" => job' = job)
        /\ (job' = job \/ job = NoJob)
    BY <1>5, Kinds
    DEF RefuseFrame, HandleMore, Take, OpenChannel, LeaveChannel, SendMessage, LoadOlder, server, history
  <2>2. \A p \in DOMAIN inbox : p \in DOMAIN inbox' /\ inbox'[p] = inbox[p]
    <3>1. CASE RefuseFrame
      <4>1. [type |-> "error"] \in Frames /\ Deliver([type |-> "error"])
        BY <3>1 DEF RefuseFrame, Frames
      <4> QED BY <2>1, <4>1, Delivered
    <3>2. CASE ~RefuseFrame
      BY <1>5, <3>2 DEF HandleMore, OpenChannel, LeaveChannel, SendMessage, LoadOlder, net
    <3> QED BY <3>1, <3>2
  <2>3. MessageIds' = MessageIds /\ Due' = Due /\ Dead' = Dead /\ Departing' = Departing
    BY <2>1, DocsStay DEF Due, Dead, Departing
  <2>4. Announced \subseteq Announced'
    BY <2>1, <2>3, Kinds DEF Announced, Unsaid
  <2>5. \A p \in 0..Len(inbox) : TrafficAt(p)
    BY <1>0, <2>1, <2>2, <2>3, <2>4, TrafficFrom
  <2> QED BY <2>1, <2>2, <2>5
<1> QED BY <1>1, <1>2, <1>3, <1>4, <1>5, <1>6, <1>7 DEF TimelineNext, Handle, Connect, Drop

(* A page that replaces the list begins with a JOIN_CHANNEL.                *)
LEMMA FollowingBefore ==
  ASSUME TimelineTypeOK, TimelineTypeOK', TimelineNext, link, link', ~Receive, ~HandleJoin, Following'
  PROVE  Following
<1>1. Fixed(0)
  <2>1. 0 \in 0..Len(inbox)
    BY LenProperties DEF TimelineTypeOK
  <2> QED BY <2>1, TrafficStep DEF Following, TrafficAt
<1>2. open /\ "join" \notin refused /\ \A q \in DOMAIN outbox : outbox[q] # Join
  <2>1. CASE HandleMore \/ HandleSend \/ RefuseFrame
    <3>1. /\ Len(outbox) \in Nat \ {0} /\ DOMAIN outbox = 1..Len(outbox)
          /\ DOMAIN outbox' = 1..(Len(outbox) - 1) /\ Head(outbox) = outbox[1]
          /\ \A p \in 1..(Len(outbox) - 1) : outbox'[p] = outbox[p + 1]
      BY <2>1, TakenFacts DEF HandleMore, HandleSend, RefuseFrame, Take
    <3>2. open' = open /\ refused \subseteq refused' /\ outbox[1] # Join
      BY <2>1, <3>1, Kinds, ZenonT(30) DEF HandleMore, HandleSend, RefuseFrame, Take, Following, Join, history
    <3>3. ASSUME NEW q \in DOMAIN outbox, q # 1 PROVE outbox[q] # Join
      <4>1. q - 1 \in 1..(Len(outbox) - 1) /\ (q - 1) + 1 = q
        BY <3>1, <3>3
      <4> QED BY <3>1, <4>1 DEF Following
    <3> QED BY <3>2, <3>3 DEF Following
  <2>2. CASE SendMessage \/ LoadOlder \/ OpenChannel
    <3>1. PICK f \in Requests : outbox' = Append(outbox, f) /\ (OpenChannel => f = Join)
      <4>1. CASE SendMessage
        <5>1. [type |-> "send", temp |-> sends + 1] \in Requests
          BY <4>1, SentAre, TimelineNumbers DEF SendMessage, Requests
        <5> QED BY <4>1, <5>1 DEF SendMessage, OpenChannel
      <4>2. CASE LoadOlder
        <5>1. [type |-> "more", before |-> Head(Unpended(items)).id] \in Requests
          BY <4>2, CursorShown, ShownAre DEF Requests
        <5> QED BY <4>2, <5>1 DEF LoadOlder, OpenChannel
      <4>3. CASE OpenChannel
        BY <4>3 DEF OpenChannel, Requests
      <4> QED BY <2>2, <4>1, <4>2, <4>3
    <3>2. /\ Len(outbox) \in Nat /\ DOMAIN outbox = 1..Len(outbox)
          /\ DOMAIN outbox' = 1..(Len(outbox) + 1)
          /\ \A p \in 1..Len(outbox) : outbox'[p] = outbox[p]
          /\ outbox'[Len(outbox) + 1] = f
      BY <3>1, AskFacts
    <3>3. ~OpenChannel
      BY <3>1, <3>2 DEF Following
    <3>4. open' = open /\ refused' = refused
      BY <2>2, <3>3 DEF SendMessage, LoadOlder, history
    <3> QED BY <3>2, <3>4 DEF Following
  <2>3. CASE ~(HandleMore \/ HandleSend \/ RefuseFrame \/ SendMessage \/ LoadOlder \/ OpenChannel)
    <3>1. outbox' = outbox /\ refused \subseteq refused' /\ (open' => open)
      BY <2>3 DEF TimelineNext, Handle, PeerSend, PeerDelete, Publish, Lose, Reply, BreakOff, HandleDetached, Connect, Drop,
         LeaveChannel, net, history
    <3> QED BY <3>1 DEF Following
  <2> QED BY <2>1, <2>2, <2>3
<1> QED BY <1>1, <1>2 DEF Following

-----------------------------------------------------------------------------
(* The frames on their way stay as good as they are.                        *)
LEMMA GoodStays ==
  ASSUME TimelineTypeOK, NEW p \in DOMAIN inbox, GoodAt(p), TrafficAt(p), late => late',
         inbox'[p] = inbox[p]
  PROVE  GoodAt(p)'
<1> SUFFICES ASSUME Fixed(p)' PROVE Right(p)' /\ Whole(p)' /\ InOrder(p)'
  BY DEF GoodAt
<1>1. Right(p) /\ Whole(p) /\ InOrder(p)
  BY DEF GoodAt, TrafficAt
<1>2. PICK f : f = inbox[p]
  OBVIOUS
<1>3. Right(p)'
  BY <1>1 DEF Right, TrafficAt
<1>4. Whole(p)'
  <2>1. ASSUME f.type = "history" PROVE Spans(f, Due', Coming(p)')
    <3>1. Spans(f, Due, Coming(p))
      BY <1>1, <1>2, <2>1 DEF Whole
    <3> QED BY <3>1, SpansStays DEF TrafficAt
  <2> QED BY <1>2, <2>1 DEF Whole
<1>5. InOrder(p)'
  BY <1>1 DEF InOrder, TrafficAt
<1> QED BY <1>3, <1>4, <1>5

(* So does the list, if it does not change.                                 *)
LEMMA RowsGoodStay ==
  ASSUME TimelineTypeOK, TrafficAt(0), late => late', Shown' = Shown, hasMore' = hasMore
  PROVE  /\ RowsRight => RowsRight'
         /\ RowsWhole => RowsWhole'
         /\ \A b : KnownFrom(b) => KnownFrom(b)'
         /\ \A f : Spans(f, Due, Known) => Spans(f, Due', Known')
<1>1. Known \cap Due' \subseteq Known' /\ Due' \subseteq Due \cup Known' /\ Coming(0) \cap Due' \subseteq Coming(0)'
      /\ Due' \subseteq Due \cup Coming(0)'
  BY DEF Known, TrafficAt
<1>2. RowsRight => RowsRight'
  BY DEF RowsRight, TrafficAt
<1>3. RowsWhole => RowsWhole'
  <2>1. ASSUME Reaches(Shown, Due, Coming(0)) PROVE Reaches(Shown, Due', Coming(0)')
    BY <1>1, <2>1, ReachesStays
  <2> QED BY <1>1, <2>1 DEF RowsWhole
<1>4. \A b : KnownFrom(b) => KnownFrom(b)'
  BY <1>1 DEF KnownFrom
<1>5. ASSUME NEW f, Spans(f, Due, Known) PROVE Spans(f, Due', Known')
  BY <1>1, <1>5, SpansStays
<1> QED BY <1>2, <1>3, <1>4, <1>5

(* A step that puts nothing new under way, or puts it at the end.           *)
LEMMA StoreKeeps ==
  ASSUME StoreInv, TimelineTypeOK', TimelineNext, link, link', ~Receive, ~HandleJoin,
         Shown' = Shown, hasMore' = hasMore, torn => torn'
  PROVE  /\ \A p \in DOMAIN inbox : GoodAt(p)'
         /\ Following' => /\ Following /\ RowsRight'
                          /\ ~torn' => /\ RowsWhole' /\ RowsWhole
                                       /\ \A b : KnownFrom(b) => KnownFrom(b)'
                                       /\ \A f \in {job} \cup Heard : f.type = "more" => Spans(f, Due', Known')
                                       /\ \A b : \A q \in DOMAIN outbox :
                                            outbox[q].type = "more" /\ outbox[q].before = b => KnownFrom(b)'
<1>1. TimelineTypeOK /\ InboxGood /\ RowsGood
  BY DEF StoreInv, OnceInv, Base
<1>2. /\ \A p \in 0..Len(inbox) : TrafficAt(p)
      /\ \A p \in DOMAIN inbox : p \in DOMAIN inbox' /\ inbox'[p] = inbox[p]
      /\ late => late'
  BY <1>1, TrafficStep
<1>3. DOMAIN inbox \subseteq 0..Len(inbox) /\ 0 \in 0..Len(inbox)
  BY <1>1, LenProperties, SMTT(30) DEF TimelineTypeOK
<1>4. \A p \in DOMAIN inbox : GoodAt(p)'
  BY <1>1, <1>2, <1>3, GoodStays DEF InboxGood
<1>5. ASSUME Following'
      PROVE  /\ Following /\ RowsRight'
             /\ ~torn' => /\ RowsWhole' /\ RowsWhole
                          /\ \A b : KnownFrom(b) => KnownFrom(b)'
                          /\ \A f \in {job} \cup Heard : f.type = "more" => Spans(f, Due', Known')
                          /\ \A b : \A q \in DOMAIN outbox :
                               outbox[q].type = "more" /\ outbox[q].before = b => KnownFrom(b)'
  <2>1. Following
    BY <1>1, <1>5, FollowingBefore
  <2>2. TrafficAt(0)
    BY <1>2, <1>3
  <2>3. /\ RowsRight => RowsRight'
        /\ RowsWhole => RowsWhole'
        /\ \A b : KnownFrom(b) => KnownFrom(b)'
        /\ \A f : Spans(f, Due, Known) => Spans(f, Due', Known')
    BY <1>1, <1>2, <2>2, RowsGoodStay
  <2>4. RowsRight /\ (~torn => RowsWhole /\ AskedWhole /\ OlderWhole)
    BY <1>1, <2>1 DEF RowsGood
  <2>5. ASSUME ~torn' PROVE \A f \in {job} \cup Heard : f.type = "more" => Spans(f, Due', Known')
    BY <2>3, <2>4, <2>5 DEF OlderWhole
  <2>6. ASSUME ~torn', NEW q \in DOMAIN outbox, NEW b, outbox[q].type = "more", outbox[q].before = b
        PROVE  KnownFrom(b)'
    <3>1. KnownFrom(b)
      BY <2>4, <2>6 DEF AskedWhole
    <3> QED BY <2>3, <3>1
  <2> QED BY <2>1, <2>3, <2>4, <2>5, <2>6
<1> QED BY <1>4, <1>5

-----------------------------------------------------------------------------
(* The steps.                                                               *)

LEMMA StoreWrites ==
  ASSUME StoreInv, TimelineTypeOK', TimelineNext, link, link',
         PeerSend \/ HandleSend \/ (\E i \in MessageIds : PeerDelete(i))
         \/ (\E t \in detached : HandleDetached(t)) \/ (\E e \in saying : Lose(e))
         \/ LeaveChannel \/ OpenChannel \/ SendMessage
  PROVE  InboxGood' /\ RowsGood'
<1>0. TimelineTypeOK
  BY DEF StoreInv, OnceInv, Base
<1>1. /\ inbox' = inbox /\ hasMore' = hasMore /\ torn' = torn
      /\ job' = job \/ job'.type = "new"
  BY Kinds DEF PeerSend, PeerDelete, HandleSend, HandleDetached, Lose, LeaveChannel, OpenChannel, SendMessage,
     New, net, store, server, history
<1>2. Shown' = Shown
  <2>1. CASE SendMessage
    <3>1. sends + 1 \in 1..MaxSends /\ items' = Append(items, [id |-> 0, temp |-> sends + 1])
      BY <2>1, <1>0, SentAre, TimelineNumbers DEF SendMessage
    <3> QED BY <1>0, <3>1, OptimisticFacts
  <2>2. CASE ~SendMessage
    BY <2>2 DEF PeerSend, PeerDelete, HandleSend, HandleDetached, Lose, LeaveChannel, OpenChannel, Shown, store
  <2> QED BY <2>1, <2>2
<1>3. ~Receive /\ ~HandleJoin
  <2>1. Receive => inbox # <<>> /\ inbox' = Tail(inbox)
    BY DEF Receive
  <2>2. inbox # <<>> => Tail(inbox) # inbox
    <3>1. inbox # <<>> => Len(inbox) \in Nat /\ Len(Tail(inbox)) = Len(inbox) - 1
      BY <1>0, QueueTail DEF TimelineTypeOK
    <3> QED BY <3>1
  <2>3. ~HandleJoin
    BY <1>0, <1>1, JobKinds DEF HandleJoin, Answer, Take
  <2> QED BY <1>1, <2>1, <2>2, <2>3
<1>4. /\ \A p \in DOMAIN inbox : GoodAt(p)'
      /\ Following' => /\ Following /\ RowsRight'
                       /\ ~torn' => /\ RowsWhole' /\ RowsWhole
                                    /\ \A f \in {job} \cup Heard : f.type = "more" => Spans(f, Due', Known')
                                    /\ \A b : \A q \in DOMAIN outbox :
                                         outbox[q].type = "more" /\ outbox[q].before = b => KnownFrom(b)'
  BY <1>1, <1>2, <1>3, StoreKeeps
<1>5. InboxGood'
  BY <1>1, <1>4 DEF InboxGood
<1>6. ASSUME Following', ~torn' PROVE OlderWhole'
  BY <1>1, <1>4, <1>6 DEF OlderWhole, Heard
<1>7. ASSUME NEW q \in DOMAIN outbox', outbox'[q].type = "more"
      PROVE  \E r \in DOMAIN outbox : outbox[r] = outbox'[q]
  <2>1. CASE HandleSend
    <3>1. /\ Len(outbox) \in Nat \ {0} /\ DOMAIN outbox = 1..Len(outbox)
          /\ DOMAIN outbox' = 1..(Len(outbox) - 1)
          /\ \A p \in 1..(Len(outbox) - 1) : outbox'[p] = outbox[p + 1]
      BY <1>0, <2>1, TakenFacts DEF HandleSend, Take
    <3> QED BY <1>7, <3>1
  <2>2. CASE SendMessage \/ OpenChannel
    <3>1. PICK f \in Requests : outbox' = Append(outbox, f) /\ f.type # "more"
      <4>1. CASE SendMessage
        <5>1. [type |-> "send", temp |-> sends + 1] \in Requests
          BY <1>0, <4>1, SentAre, TimelineNumbers DEF SendMessage, Requests
        <5> QED BY <4>1, <5>1 DEF SendMessage
      <4>2. CASE OpenChannel
        BY <4>2 DEF OpenChannel, Requests, Join
      <4> QED BY <2>2, <4>1, <4>2
    <3>2. /\ DOMAIN outbox = 1..Len(outbox) /\ Len(outbox) \in Nat
          /\ DOMAIN outbox' = 1..(Len(outbox) + 1)
          /\ \A p \in 1..Len(outbox) : outbox'[p] = outbox[p]
          /\ outbox'[Len(outbox) + 1] = f
      BY <1>0, <3>1, AskFacts
    <3> QED BY <1>7, <3>1, <3>2
  <2>3. CASE ~(HandleSend \/ SendMessage \/ OpenChannel)
    BY <1>7, <2>3 DEF PeerSend, PeerDelete, HandleDetached, Lose, LeaveChannel, net
  <2> QED BY <2>1, <2>2, <2>3
<1>8. ASSUME Following', ~torn' PROVE AskedWhole'
  <2> SUFFICES ASSUME NEW q \in DOMAIN outbox', outbox'[q].type = "more"
               PROVE  \A b : b = outbox'[q].before => KnownFrom(b)'
    BY DEF AskedWhole, KnownFrom
  <2> QED BY <1>4, <1>7, <1>8
<1> QED BY <1>4, <1>5, <1>6, <1>8 DEF RowsGood

(* A frame is delivered that is as good as those before it.                 *)
LEMMA DeliveredGood ==
  ASSUME TimelineTypeOK, NEW f \in Frames, Deliver(f), link, docs' = docs,
         \A p \in DOMAIN inbox : GoodAt(p)',
         Brings(f) \cap Dead' \subseteq Departing',
         f.type = "history" => Spans(f, Due', Announced'),
         f.type = "new" /\ ~late' => \A i \in Due' : i > f.id => i \in Announced'
  PROVE  InboxGood'
<1> SUFFICES ASSUME NEW p \in DOMAIN inbox', p \notin DOMAIN inbox PROVE GoodAt(p)'
  BY DEF InboxGood
<1>1. inbox'[p] = f
  BY Delivered
<1>2. Departing' \subseteq Going(p)' /\ Announced' \subseteq Coming(p)'
  BY DEF Going, Coming
<1>3. Right(p)'
  BY <1>1, <1>2 DEF Right
<1>4. Whole(p)'
  <2>1. ASSUME f.type = "history" PROVE Spans(f, Due', Coming(p)')
    BY <1>2, <2>1, SpansStays
  <2> QED BY <1>1, <2>1 DEF Whole
<1>5. InOrder(p)'
  BY <1>1, <1>2 DEF InOrder
<1> QED BY <1>3, <1>4, <1>5 DEF GoodAt

LEMMA StorePublish ==
  ASSUME StoreInv, TimelineTypeOK', TimelineNext, link, link', NEW e \in saying, Publish(e)
  PROVE  InboxGood' /\ RowsGood'
<1>0. TimelineTypeOK /\ DeadSaid
  BY DEF StoreInv, OnceInv, Base
<1>1. /\ UNCHANGED <<docs, job, outbox, items, hasMore, torn>> /\ Deliver(e) /\ saying' = saying \ {e}
      /\ reversed \subseteq reversed' /\ missed \subseteq missed' /\ (Late(e) => late')
  BY DEF Publish, store
<1>2. e \in Frames /\ e.type \in {"new", "deleted"} /\ Shown' = Shown
  BY <1>0, <1>1, UnsaidIs, SMTT(30) DEF TimelineTypeOK, Frames, Shown
<1>3. MessageIds' = MessageIds /\ Live' = Live /\ Dead' \subseteq Dead /\ Due' \subseteq Due
  BY <1>1, DocsStay DEF Dead, Due
<1>4. ~Receive /\ ~HandleJoin
  <2>1. HandleJoin => job'.type = "history" /\ job = NoJob
    BY DEF HandleJoin, Answer, Take
  <2>2. ~HandleJoin
    BY <1>1, <2>1, Kinds
  <2>3. Receive => saying' = saying
    BY <1>0, ReceiveFacts
  <2> QED BY <1>1, <2>2, <2>3
<1>5. /\ \A p \in DOMAIN inbox : GoodAt(p)'
      /\ Following' => /\ Following /\ RowsRight'
                       /\ ~torn' => /\ RowsWhole'
                                    /\ \A f \in {job} \cup Heard : f.type = "more" => Spans(f, Due', Known')
                                    /\ \A b : \A q \in DOMAIN outbox :
                                         outbox[q].type = "more" /\ outbox[q].before = b => KnownFrom(b)'
  BY <1>1, <1>2, <1>4, StoreKeeps
<1>6. Brings(e) \cap Dead' \subseteq Departing'
  <2>1. CASE e.type = "new"
    <3> SUFFICES ASSUME e.id \in Dead' PROVE e.id \in Departing'
      BY <2>1 DEF Brings
    <3>1. e.id \in MessageIds \ Live /\ e.id \notin reversed /\ Unsaid(e.id)
      BY <1>3, <2>1 DEF Dead, Unsaid
    <3>2. Gone(e.id) \in saying /\ Gone(e.id) # e
      BY <1>0, <2>1, <3>1, UnsaidIs DEF DeadSaid
    <3>3. PICK i : i = e.id
      OBVIOUS
    <3>4. Gone(i) \in saying' /\ i \in MessageIds'
      BY <1>1, <1>3, <3>1, <3>2, <3>3
    <3> QED BY <3>3, <3>4 DEF Departing
  <2>2. CASE e.type = "deleted"
    BY <2>2 DEF Brings
  <2> QED BY <1>2, <2>1, <2>2
<1>7. ASSUME e.type = "new", ~late', NEW i \in Due', i > e.id PROVE i \in Announced'
  <2>1. i \in MessageIds /\ i # e.id /\ Unsaid(i)
    <3>1. i \in MessageIds /\ e.id \in MessageIds /\ MessageIds \subseteq Nat
      BY <1>0, <1>2, <1>3, DocsAre, UnsaidIs DEF Due
    <3> QED BY <1>1, <1>7, <3>1 DEF Late
  <2>2. Unsaid(i)'
    BY <1>1, <2>1 DEF Unsaid
  <2> QED BY <1>3, <2>1, <2>2 DEF Announced
<1>8. InboxGood'
  BY <1>0, <1>1, <1>2, <1>5, <1>6, <1>7, DeliveredGood
<1>9. ASSUME Following', ~torn' PROVE OlderWhole'
  <2>1. Heard' \subseteq Heard \cup {e}
    BY <1>0, <1>1, <1>2, HeardGrows
  <2> QED BY <1>1, <1>2, <1>5, <1>9, <2>1 DEF OlderWhole
<1>10. ASSUME Following', ~torn' PROVE AskedWhole'
  <2> SUFFICES ASSUME NEW q \in DOMAIN outbox, outbox[q].type = "more"
               PROVE  \A b : b = outbox[q].before => KnownFrom(b)'
    BY <1>1 DEF AskedWhole, KnownFrom
  <2> QED BY <1>5, <1>10
<1> QED BY <1>5, <1>8, <1>9, <1>10 DEF RowsGood

LEMMA StoreReply ==
  ASSUME StoreInv, TimelineTypeOK', TimelineNext, link, link', Reply
  PROVE  InboxGood' /\ RowsGood'
<1>0. TimelineTypeOK /\ DeadSaid /\ JobGood
  BY DEF StoreInv, OnceInv, Base
<1>1. /\ UNCHANGED <<docs, saying, outbox, items, hasMore, torn, missed, reversed>> /\ Deliver(job)
      /\ job # NoJob /\ job' = NoJob /\ (Late(job) => late')
  BY DEF Reply, store
<1>2. job \in Frames /\ job.type \in {"new", "history", "more"} /\ Shown' = Shown /\ NoJob.type = "none"
  BY <1>0, <1>1, JobKinds, Kinds DEF Shown
<1>3. MessageIds' = MessageIds /\ Live' = Live /\ Dead' = Dead /\ Due' = Due /\ Departing' = Departing
  BY <1>1, DocsStay DEF Dead, Due, Departing
<1>4. ~Receive /\ ~HandleJoin
  <2>1. HandleJoin => job = NoJob
    BY DEF HandleJoin, Take
  <2>2. Receive => job' = job
    BY <1>0, ReceiveFacts
  <2> QED BY <1>1, <2>1, <2>2
<1>5. /\ \A p \in DOMAIN inbox : GoodAt(p)'
      /\ Following' => /\ Following /\ RowsRight'
                       /\ ~torn' => /\ RowsWhole'
                                    /\ \A f \in {job} \cup Heard : f.type = "more" => Spans(f, Due', Known')
                                    /\ \A b : \A q \in DOMAIN outbox :
                                         outbox[q].type = "more" /\ outbox[q].before = b => KnownFrom(b)'
  BY <1>1, <1>2, <1>4, StoreKeeps
<1>6. Brings(job) \cap Dead \subseteq Departing
  <2>1. CASE job.type = "new"
    <3> SUFFICES ASSUME job.id \in Dead PROVE job.id \in Departing
      BY <2>1 DEF Brings
    <3>1. job.id \in MessageIds \ Live /\ job.id \notin reversed /\ Unsaid(job.id)
      BY <2>1 DEF Dead, Unsaid
    <3> QED BY <1>0, <3>1 DEF DeadSaid, Departing
  <2>2. CASE job.type \in {"history", "more"}
    BY <1>0, <2>2 DEF Brings, JobGood
  <2> QED BY <1>2, <2>1, <2>2
<1>7. ASSUME job.type = "new", ~late', NEW i \in Due', i > job.id PROVE i \in Announced'
  <2>1. i \in MessageIds /\ i # job.id /\ Unsaid(i)
    <3>1. job \in News
      BY <1>0, <1>7, JobKinds
    <3>2. i \in MessageIds /\ job.id \in MessageIds /\ MessageIds \subseteq Nat
      BY <1>0, <1>3, <3>1, Kinds, DocsAre DEF Due
    <3> QED BY <1>1, <1>7, <3>2 DEF Late
  <2>2. Unsaid(i)'
    BY <1>1, <2>1 DEF Unsaid
  <2> QED BY <1>3, <2>1, <2>2 DEF Announced
<1>8. ASSUME job.type = "history" PROVE Spans(job, Due', Announced')
  <2>1. Announced \subseteq Announced'
    BY <1>1, <1>3, <1>8 DEF Announced, Unsaid
  <2>2. Spans(job, Due, Announced)
    BY <1>0, <1>8 DEF JobGood
  <2> QED BY <1>3, <2>1, <2>2, SpansStays
<1>9. InboxGood'
  BY <1>0, <1>1, <1>2, <1>3, <1>5, <1>6, <1>7, <1>8, DeliveredGood
<1>10. ASSUME Following', ~torn' PROVE OlderWhole'
  <2>1. Heard' \subseteq Heard \cup {job}
    BY <1>0, <1>1, <1>2, HeardGrows
  <2> QED BY <1>1, <1>2, <1>5, <1>10, <2>1 DEF OlderWhole
<1>11. ASSUME Following', ~torn' PROVE AskedWhole'
  <2> SUFFICES ASSUME NEW q \in DOMAIN outbox, outbox[q].type = "more"
               PROVE  \A b : b = outbox[q].before => KnownFrom(b)'
    BY <1>1 DEF AskedWhole, KnownFrom
  <2> QED BY <1>5, <1>11
<1> QED BY <1>5, <1>9, <1>10, <1>11 DEF RowsGood

LEMMA StoreRefuse ==
  ASSUME StoreInv, TimelineTypeOK', TimelineNext, link, link', RefuseFrame
  PROVE  InboxGood' /\ RowsGood'
<1>0. TimelineTypeOK
  BY DEF StoreInv, OnceInv, Base
<1>1. PICK f \in Frames : f = [type |-> "error"] /\ Deliver(f) /\ f.type = "error"
  BY DEF RefuseFrame, Frames
<1>2. /\ UNCHANGED <<docs, saying, job, items, hasMore, torn, Shown>> /\ outbox # <<>> /\ Taken
  BY DEF RefuseFrame, server, store, Shown
<1>3. ~Receive /\ ~HandleJoin
  <2>1. HandleJoin => job'.type = "history" /\ job = NoJob
    BY DEF HandleJoin, Answer, Take
  <2>2. Receive => outbox' = outbox
    BY <1>0, ReceiveFacts
  <2>3. Len(outbox) \in Nat /\ Len(outbox') = Len(outbox) - 1
    BY <1>0, <1>2, TakenFacts
  <2> QED BY <1>2, <2>1, <2>2, <2>3, Kinds
<1>4. /\ \A p \in DOMAIN inbox : GoodAt(p)'
      /\ Following' => /\ Following /\ RowsRight'
                       /\ ~torn' => /\ RowsWhole'
                                    /\ \A g \in {job} \cup Heard : g.type = "more" => Spans(g, Due', Known')
                                    /\ \A b : \A q \in DOMAIN outbox :
                                         outbox[q].type = "more" /\ outbox[q].before = b => KnownFrom(b)'
  BY <1>2, <1>3, StoreKeeps
<1>5. InboxGood'
  <2>1. Brings(f) = {}
    BY <1>1 DEF Brings
  <2> QED BY <1>0, <1>1, <1>2, <1>4, <2>1, DeliveredGood
<1>6. ASSUME Following', ~torn' PROVE OlderWhole'
  <2>1. Heard' \subseteq Heard \cup {f}
    BY <1>0, <1>1, HeardGrows
  <2> QED BY <1>1, <1>2, <1>4, <1>6, <2>1 DEF OlderWhole
<1>7. ASSUME Following', ~torn' PROVE AskedWhole'
  <2> SUFFICES ASSUME NEW q \in DOMAIN outbox', outbox'[q].type = "more"
               PROVE  \A b : b = outbox'[q].before => KnownFrom(b)'
    BY DEF AskedWhole, KnownFrom
  <2>1. q + 1 \in DOMAIN outbox /\ outbox[q + 1] = outbox'[q]
    <3>1. /\ Len(outbox) \in Nat \ {0} /\ DOMAIN outbox = 1..Len(outbox)
          /\ DOMAIN outbox' = 1..(Len(outbox) - 1)
          /\ \A p \in 1..(Len(outbox) - 1) : outbox'[p] = outbox[p + 1]
      BY <1>0, <1>2, TakenFacts
    <3> QED BY <3>1
  <2> QED BY <1>4, <1>7, <2>1
<1> QED BY <1>4, <1>5, <1>6, <1>7 DEF RowsGood

LEMMA StoreBreak ==
  ASSUME StoreInv, TimelineTypeOK', TimelineNext, link, link', BreakOff
  PROVE  InboxGood' /\ RowsGood'
<1>0. TimelineTypeOK
  BY DEF StoreInv, OnceInv, Base
<1>1. /\ UNCHANGED <<docs, saying, outbox, items, hasMore, torn, Shown>> /\ job.type = "new" /\ job' = NoJob
      /\ NoJob.type = "none"
  BY Kinds DEF BreakOff, store, Shown
<1>2. ~Receive /\ ~HandleJoin
  <2>1. HandleJoin => job = NoJob
    BY DEF HandleJoin, Take
  <2>2. Receive => job' = job
    BY <1>0, ReceiveFacts
  <2> QED BY <1>1, <2>1, <2>2
<1>3. /\ \A p \in DOMAIN inbox : GoodAt(p)'
      /\ Following' => /\ Following /\ RowsRight'
                       /\ ~torn' => /\ RowsWhole'
                                    /\ \A g \in {job} \cup Heard : g.type = "more" => Spans(g, Due', Known')
                                    /\ \A b : \A q \in DOMAIN outbox :
                                         outbox[q].type = "more" /\ outbox[q].before = b => KnownFrom(b)'
  BY <1>1, <1>2, StoreKeeps
<1>4. PICK f \in Frames : f = [type |-> "error"] /\ f.type = "error"
  <2>1. [type |-> "error"] \in Frames
    BY DEF Frames
  <2>2. [type |-> "error"].type = "error"
    OBVIOUS
  <2> QED BY <2>1, <2>2
<1>5. Deliver(f) \/ inbox' = inbox
  BY <1>4 DEF BreakOff
<1>6. InboxGood'
  <2>1. CASE Deliver(f)
    <3>1. Brings(f) = {}
      BY <1>4 DEF Brings
    <3> QED BY <1>0, <1>1, <1>3, <1>4, <2>1, <3>1, DeliveredGood
  <2>2. CASE inbox' = inbox
    BY <1>3, <2>2 DEF InboxGood
  <2> QED BY <1>5, <2>1, <2>2
<1>7. ASSUME Following', ~torn' PROVE OlderWhole'
  <2>1. Heard' \subseteq Heard \cup {f}
    BY <1>0, <1>5, HeardGrows DEF Heard
  <2> QED BY <1>1, <1>3, <1>4, <1>7, <2>1 DEF OlderWhole
<1>8. ASSUME Following', ~torn' PROVE AskedWhole'
  <2> SUFFICES ASSUME NEW q \in DOMAIN outbox, outbox[q].type = "more"
               PROVE  \A b : b = outbox[q].before => KnownFrom(b)'
    BY <1>1 DEF AskedWhole, KnownFrom
  <2> QED BY <1>3, <1>8
<1> QED BY <1>3, <1>6, <1>7, <1>8 DEF RowsGood

LEMMA StoreMore ==
  ASSUME StoreInv, TimelineTypeOK', TimelineNext, link, link', HandleMore
  PROVE  InboxGood' /\ RowsGood'
<1>0. TimelineTypeOK
  BY DEF StoreInv, OnceInv, Base
<1>1. /\ UNCHANGED <<docs, saying, inbox, items, hasMore, torn, missed, reversed, Shown>>
      /\ outbox # <<>> /\ Taken /\ job = NoJob /\ Head(outbox).type = "more"
      /\ job' = Answer("more", Head(outbox).before)
  BY DEF HandleMore, Take, store, history, Shown
<1>2. /\ Len(outbox) \in Nat \ {0} /\ DOMAIN outbox = 1..Len(outbox) /\ Head(outbox) = outbox[1]
      /\ DOMAIN outbox' = 1..(Len(outbox) - 1) /\ outbox[1] \in Requests
      /\ \A p \in 1..(Len(outbox) - 1) : outbox'[p] = outbox[p + 1]
  BY <1>0, <1>1, TakenFacts
<1>3. ~Receive /\ ~HandleJoin
  <2>1. Receive => outbox' = outbox
    BY <1>0, ReceiveFacts
  <2>2. Len(outbox) \in Nat /\ Len(outbox') = Len(outbox) - 1
    BY <1>0, <1>1, TakenFacts
  <2> QED BY <1>1, <2>1, <2>2 DEF HandleJoin, Take
<1>4. /\ \A p \in DOMAIN inbox : GoodAt(p)'
      /\ Following' => /\ Following /\ RowsRight'
                       /\ ~torn' => /\ RowsWhole'
                                    /\ \A g \in {job} \cup Heard : g.type = "more" => Spans(g, Due', Known')
                                    /\ \A b : \A q \in DOMAIN outbox :
                                         outbox[q].type = "more" /\ outbox[q].before = b => KnownFrom(b)'
  BY <1>1, <1>3, StoreKeeps
<1>5. InboxGood'
  BY <1>1, <1>4 DEF InboxGood
<1>6. ASSUME Following', ~torn' PROVE AskedWhole'
  <2> SUFFICES ASSUME NEW q \in DOMAIN outbox', outbox'[q].type = "more"
               PROVE  \A b : b = outbox'[q].before => KnownFrom(b)'
    BY DEF AskedWhole, KnownFrom
  <2>1. q + 1 \in DOMAIN outbox /\ outbox[q + 1] = outbox'[q]
    BY <1>2
  <2> QED BY <1>4, <1>6, <2>1
<1>7. ASSUME Following', ~torn' PROVE OlderWhole'
  <2>1. PICK b \in Nat : b = outbox[1].before
    BY <1>0, <1>1, <1>2, Kinds, DocsAre
  <2>2. PICK f : f = Answer("more", b)
    OBVIOUS
  <2>3. KnownFrom(b)'
    BY <1>1, <1>2, <1>4, <1>7, <2>1
  <2>4. /\ PageIds(f) \subseteq Before(b)
        /\ \A j \in PageIds(f), i \in Before(b) : i >= j => i \in PageIds(f)
        /\ ~f.more => PageIds(f) = Before(b)
    BY <1>0, <2>2, AnswerFacts
  <2>5. \A i \in Due' : i \in Live /\ i \in Nat
    BY <1>0, <1>1, DocsStay, DocsAre DEF Due
  <2>6. \A i \in Due' : i \in Before(b) \/ i >= b
    BY <2>5 DEF Before
  <2>7. \A i \in Due' : i \in Before(b) \/ i \in Known'
    BY <2>3, <2>6 DEF KnownFrom
  <2>8. Spans(f, Due', Known')
    BY <2>4, <2>7 DEF Spans, Reaches
  <2>9. job' = f /\ Heard' = Heard
    BY <1>1, <1>2, <2>1, <2>2 DEF Heard
  <2> QED BY <1>4, <1>7, <2>8, <2>9 DEF OlderWhole
<1> QED BY <1>4, <1>5, <1>6, <1>7 DEF RowsGood

LEMMA StoreLoad ==
  ASSUME StoreInv, TimelineTypeOK', TimelineNext, link, link', LoadOlder
  PROVE  InboxGood' /\ RowsGood'
<1>0. TimelineTypeOK
  BY DEF StoreInv, OnceInv, Base
<1>1. /\ UNCHANGED <<job, inbox, items, hasMore, Shown>> /\ torn' = (torn \/ late)
  BY DEF LoadOlder, server, Shown
<1>2. PICK b : b = Head(Unpended(items)).id
  OBVIOUS
<1>3. PICK f \in Requests : f = [type |-> "more", before |-> b] /\ f.before = b
  <2>1. [type |-> "more", before |-> b] \in Requests
    BY <1>0, <1>2, CursorShown, ShownAre DEF Requests
  <2> QED BY <2>1
<1>4. /\ Len(outbox) \in Nat /\ DOMAIN outbox = 1..Len(outbox)
      /\ DOMAIN outbox' = 1..(Len(outbox) + 1)
      /\ \A p \in 1..Len(outbox) : outbox'[p] = outbox[p]
      /\ outbox'[Len(outbox) + 1] = f
  BY <1>0, <1>2, <1>3, AskFacts DEF LoadOlder
<1>5. ~Receive /\ ~HandleJoin
  <2>1. Receive => outbox' = outbox
    BY <1>0, ReceiveFacts
  <2>2. HandleJoin => job = NoJob /\ job'.type = "history"
    BY DEF HandleJoin, Answer, Take
  <2>3. outbox' # outbox
    BY <1>4
  <2> QED BY <1>1, <2>1, <2>2, <2>3, Kinds
<1>6. /\ \A p \in DOMAIN inbox : GoodAt(p)'
      /\ Following' => /\ Following /\ RowsRight'
                       /\ ~torn' => /\ RowsWhole' /\ RowsWhole
                                    /\ \A c : KnownFrom(c) => KnownFrom(c)'
                                    /\ \A g \in {job} \cup Heard : g.type = "more" => Spans(g, Due', Known')
                                    /\ \A c : \A q \in DOMAIN outbox :
                                         outbox[q].type = "more" /\ outbox[q].before = c => KnownFrom(c)'
  BY <1>1, <1>5, StoreKeeps
<1>7. InboxGood'
  BY <1>1, <1>6 DEF InboxGood
<1>8. ASSUME Following', ~torn' PROVE KnownFrom(b)'
  <2>1. Reaches(Shown, Due, Coming(0))
    BY <1>1, <1>6, <1>8 DEF RowsWhole
  <2>2. b \in Shown
    BY <1>0, <1>2, CursorShown
  <2>3. KnownFrom(b)
    BY <2>1, <2>2 DEF Reaches, KnownFrom, Known
  <2> QED BY <1>6, <1>8, <2>3
<1>9. ASSUME Following', ~torn' PROVE AskedWhole'
  <2> SUFFICES ASSUME NEW q \in DOMAIN outbox', outbox'[q].type = "more"
               PROVE  \A c : c = outbox'[q].before => KnownFrom(c)'
    BY DEF AskedWhole, KnownFrom
  <2>1. CASE q \in DOMAIN outbox
    <3>1. outbox'[q] = outbox[q]
      BY <1>4, <2>1
    <3> QED BY <1>6, <1>9, <2>1, <3>1
  <2>2. CASE q = Len(outbox) + 1
    BY <1>3, <1>4, <1>8, <1>9, <2>2
  <2> QED BY <1>4, <2>1, <2>2
<1>10. ASSUME Following', ~torn' PROVE OlderWhole'
  <2>1. Heard' = Heard
    BY <1>1 DEF Heard
  <2> QED BY <1>1, <1>6, <1>10, <2>1 DEF OlderWhole
<1> QED BY <1>6, <1>7, <1>9, <1>10 DEF RowsGood

(* A page is being read: the list will be replaced.                         *)
LEMMA StoreJoin ==
  ASSUME HandleJoin
  PROVE  InboxGood' /\ RowsGood'
<1>1. job'.type = "history"
  BY DEF HandleJoin, Answer
<1>2. \A p : ~Fixed(p)'
  BY <1>1 DEF Fixed
<1>3. InboxGood'
  BY <1>2 DEF InboxGood, GoodAt
<1>4. ~Following'
  BY <1>2 DEF Following
<1> QED BY <1>3, <1>4 DEF RowsGood

(* Without a connection nothing is shown that will not be replaced.         *)
LEMMA StoreOffline ==
  ASSUME QuietOffline, QuietOffline', TimelineNext, ~link' \/ ~link
  PROVE  InboxGood' /\ RowsGood'
<1>1. CASE ~link'
  <2>1. inbox' = <<>>
    BY <1>1 DEF QuietOffline
  <2> QED BY <1>1, <2>1 DEF InboxGood, RowsGood, Following
<1>2. CASE Connect
  <2>1. inbox' = <<>> /\ (open' => outbox' = <<Join>>)
    BY <1>2 DEF Connect
  <2>2. ~Following'
    BY <2>1 DEF Following
  <2> QED BY <2>1, <2>2 DEF InboxGood, RowsGood
<1>3. CASE ~link /\ ~Connect
  <2>1. ~link'
    BY <1>3 DEF QuietOffline, TimelineNext, Handle, PeerSend, PeerDelete, Publish, Lose, HandleJoin, HandleMore,
       HandleSend, Reply, BreakOff, Take, RefuseFrame, HandleDetached, Drop, OpenChannel, LeaveChannel,
       SendMessage, LoadOlder, Receive, net
  <2> QED BY <1>1, <2>1
<1> QED BY <1>1, <1>2, <1>3

(* The tab receives a frame.                                                *)
LEMMA ReceivedTraffic ==
  ASSUME TimelineTypeOK, Receive
  PROVE  /\ Due' = Due /\ Dead' = Dead /\ Announced' = Announced /\ Departing' = Departing
         /\ \A p \in Nat : /\ Coming(p)' = Coming(p + 1) /\ Going(p)' = Going(p + 1)
                           /\ Fixed(p)' <=> Fixed(p + 1)
         /\ \A p \in DOMAIN inbox' : /\ p \in Nat /\ p + 1 \in DOMAIN inbox
                                     /\ inbox'[p] = inbox[p + 1]
<1>1. /\ UNCHANGED <<docs, saying, job, missed, reversed>>
      /\ Len(inbox) \in Nat \ {0} /\ DOMAIN inbox = 1..Len(inbox)
      /\ DOMAIN inbox' = 1..(Len(inbox) - 1)
      /\ \A p \in 1..(Len(inbox) - 1) : inbox'[p] = inbox[p + 1]
  BY ReceivedFacts, ReceiveFacts
<1>2. /\ MessageIds' = MessageIds /\ Due' = Due /\ Dead' = Dead /\ Departing' = Departing
      /\ Announced' = Announced
  BY <1>1, DocsStay DEF Due, Dead, Departing, Announced, Unsaid
<1>3. \A p \in DOMAIN inbox' : p \in Nat /\ p + 1 \in DOMAIN inbox /\ inbox'[p] = inbox[p + 1]
  BY <1>1
<1>4. ASSUME NEW p \in Nat, NEW q \in DOMAIN inbox, q > p + 1
      PROVE  q - 1 \in DOMAIN inbox' /\ inbox'[q - 1] = inbox[q] /\ q - 1 > p
  <2>1. q - 1 \in 1..(Len(inbox) - 1) /\ (q - 1) + 1 = q /\ q - 1 > p
    BY <1>1, <1>4
  <2> QED BY <1>1, <2>1
<1>5. ASSUME NEW p \in Nat, NEW q \in DOMAIN inbox', q > p
      PROVE  q + 1 \in DOMAIN inbox /\ inbox[q + 1] = inbox'[q] /\ q + 1 > p + 1
  BY <1>3, <1>5
<1>6. ASSUME NEW p \in Nat PROVE Coming(p)' = Coming(p + 1)
  <2>1. ASSUME NEW i \in Coming(p)' PROVE i \in Coming(p + 1)
    BY <1>2, <1>5, <2>1 DEF Coming
  <2>2. ASSUME NEW i \in Coming(p + 1) PROVE i \in Coming(p)'
    BY <1>2, <1>4, <2>2 DEF Coming
  <2> QED BY <2>1, <2>2
<1>7. ASSUME NEW p \in Nat PROVE Going(p)' = Going(p + 1)
  <2>1. ASSUME NEW i \in Going(p)' PROVE i \in Going(p + 1)
    BY <1>2, <1>5, <2>1 DEF Going
  <2>2. ASSUME NEW i \in Going(p + 1) PROVE i \in Going(p)'
    BY <1>2, <1>4, <2>2 DEF Going
  <2> QED BY <2>1, <2>2
<1>8. ASSUME NEW p \in Nat PROVE Fixed(p)' <=> Fixed(p + 1)
  <2>1. Fixed(p)' => Fixed(p + 1)
    BY <1>1, <1>4 DEF Fixed
  <2>2. Fixed(p + 1) => Fixed(p)'
    BY <1>1, <1>5 DEF Fixed
  <2> QED BY <2>1, <2>2
<1> QED BY <1>2, <1>3, <1>6, <1>7, <1>8

(* What the first frame is good for.                                        *)
LEMMA FirstFrame ==
  ASSUME TimelineTypeOK, inbox # <<>>, NEW f, f = inbox[1]
  PROVE  /\ 1 \in DOMAIN inbox /\ f \in Frames
         /\ Coming(0) \subseteq Coming(1) \cup (IF f.type = "new" THEN {f.id} ELSE {})
         /\ Going(0) \subseteq Going(1) \cup (IF f.type = "deleted" THEN {f.id} ELSE {})
         /\ f.type # "history" => (Fixed(1) => Fixed(0))
<1>1. /\ 1 \in DOMAIN inbox /\ f \in Frames /\ \A q \in DOMAIN inbox : q > 0 => q = 1 \/ q > 1
  <2>1. /\ 1 \in DOMAIN inbox /\ inbox[1] \in Frames /\ Len(inbox) \in Nat /\ DOMAIN inbox = 1..Len(inbox)
    BY QueueTail DEF TimelineTypeOK
  <2> QED BY <2>1
<1>2. Coming(0) \subseteq Coming(1) \cup (IF f.type = "new" THEN {f.id} ELSE {})
  BY <1>1 DEF Coming
<1>3. Going(0) \subseteq Going(1) \cup (IF f.type = "deleted" THEN {f.id} ELSE {})
  BY <1>1, UnsaidIs DEF Going
<1>4. f.type # "history" => (Fixed(1) => Fixed(0))
  BY <1>1 DEF Fixed
<1> QED BY <1>1, <1>2, <1>3, <1>4

LEMMA StoreReceive ==
  ASSUME StoreInv, TimelineNext, Receive
  PROVE  InboxGood' /\ RowsGood'
<1>0. TimelineTypeOK /\ AllHonest /\ InboxGood /\ RowsGood
  BY DEF StoreInv, OnceInv, Base
<1>1. PICK f : f = inbox[1]
  OBVIOUS
<1>2. /\ Due' = Due /\ Dead' = Dead
      /\ \A p \in Nat : /\ Coming(p)' = Coming(p + 1) /\ Going(p)' = Going(p + 1)
                        /\ Fixed(p)' <=> Fixed(p + 1)
      /\ \A p \in DOMAIN inbox' : p \in Nat /\ p + 1 \in DOMAIN inbox /\ inbox'[p] = inbox[p + 1]
  BY <1>0, ReceivedTraffic
<1>3. /\ 1 \in DOMAIN inbox /\ f \in Frames
      /\ Coming(0) \subseteq Coming(1) \cup (IF f.type = "new" THEN {f.id} ELSE {})
      /\ Going(0) \subseteq Going(1) \cup (IF f.type = "deleted" THEN {f.id} ELSE {})
      /\ f.type # "history" => (Fixed(1) => Fixed(0))
  <2>1. inbox # <<>>
    BY DEF Receive
  <2> QED BY <1>0, <1>1, <2>1, FirstFrame
<1>4. Coming(0)' = Coming(1) /\ Going(0)' = Going(1) /\ (Fixed(0)' <=> Fixed(1))
  BY <1>2, 0 + 1 = 1
<1>5. InboxGood'
  <2> SUFFICES ASSUME NEW p \in DOMAIN inbox', Fixed(p)' PROVE Right(p)' /\ Whole(p)' /\ InOrder(p)'
    BY DEF InboxGood, GoodAt
  <2>1. PICK r : r = p + 1
    OBVIOUS
  <2>2. /\ r \in DOMAIN inbox /\ inbox'[p] = inbox[r] /\ Coming(p)' = Coming(r) /\ Going(p)' = Going(r)
        /\ Fixed(r)
    BY <1>2, <2>1
  <2>3. Right(r) /\ Whole(r) /\ InOrder(r)
    BY <1>0, <2>2 DEF InboxGood, GoodAt
  <2>4. late' = late
    BY <1>0, ReceiveFacts
  <2> QED BY <1>2, <2>2, <2>3, <2>4 DEF Right, Whole, InOrder
<1> SUFFICES ASSUME Following'
             PROVE  RowsRight' /\ (~torn' => RowsWhole' /\ AskedWhole' /\ OlderWhole')
  BY <1>5 DEF RowsGood
<1>6. /\ Right(1) /\ Whole(1) /\ InOrder(1)
      /\ UNCHANGED <<docs, job, outbox, link, open, late, refused>>
  <2>1. Fixed(1)
    BY <1>4 DEF Following
  <2> QED BY <1>0, <1>3, <2>1, ReceiveFacts DEF InboxGood, GoodAt
<1>7. Heard' \subseteq Heard
  BY <1>2 DEF Heard
<1>8. CASE f.type = "history"
  <2>1. f \in Pages /\ items' = f.rows /\ hasMore' = f.more /\ torn' = MoreUnderWay
    BY <1>0, <1>1, <1>8, ReceiveFacts
  <2>2. Shown' = PageIds(f)
    BY <1>0, <2>1, HistoryFacts
  <2>3. RowsRight'
    BY <1>1, <1>2, <1>4, <1>6, <1>8, <2>2 DEF RowsRight, Right, Brings
  <2>4. Spans(f, Due, Coming(1))
    BY <1>1, <1>6, <1>8 DEF Whole
  <2>5. RowsWhole'
    BY <1>2, <1>4, <2>1, <2>2, <2>4 DEF RowsWhole, Known, Spans
  <2>6. ASSUME ~torn' PROVE AskedWhole' /\ OlderWhole'
    <3>1. /\ \A q \in DOMAIN outbox : outbox[q].type # "more"
          /\ \A g \in {job} \cup Heard : g.type # "more"
      BY <2>1, <2>6 DEF MoreUnderWay, Heard
    <3> QED BY <1>6, <1>7, <3>1 DEF AskedWhole, OlderWhole
  <2> QED BY <2>3, <2>5, <2>6
<1>9. CASE f.type # "history"
  <2>1. Following /\ torn' = torn
    <3>1. Fixed(0)
      BY <1>3, <1>4, <1>9 DEF Following
    <3>2. torn' = torn
      BY <1>0, <1>1, <1>9, ReceiveFacts
    <3> QED BY <1>6, <3>1, <3>2 DEF Following
  <2>2. RowsRight /\ (~torn => RowsWhole /\ AskedWhole /\ OlderWhole)
    BY <1>0, <2>1 DEF RowsGood
  (* It suffices to look at what is shown.                                  *)
  <2>3. ASSUME RowsRight', ~torn => RowsWhole', Known \cap Due \subseteq Known'
        PROVE  RowsRight' /\ (~torn' => RowsWhole' /\ AskedWhole' /\ OlderWhole')
    <3>1. ASSUME ~torn PROVE OlderWhole'
      <4> SUFFICES ASSUME NEW g \in {job} \cup Heard, g.type = "more" PROVE Spans(g, Due', Known')
        BY <1>6, <1>7 DEF OlderWhole
      <4>1. Spans(g, Due, Known)
        BY <2>2, <3>1 DEF OlderWhole
      <4> QED BY <1>2, <2>3, <4>1, SpansStays
    <3>2. ASSUME ~torn PROVE AskedWhole'
      BY <1>2, <1>6, <2>2, <2>3, <3>2 DEF AskedWhole, KnownFrom
    <3> QED BY <2>1, <2>3, <3>1, <3>2
  <2>4. CASE f.type = "new"
    <3>1. f \in News /\ items' = ApplyNew(f) /\ hasMore' = hasMore
      BY <1>0, <1>1, <2>4, ReceiveFacts
    <3>2. Shown' = Shown \cup {f.id}
      BY <1>0, <3>1, NewFacts
    <3>3. RowsRight'
      BY <1>1, <1>2, <1>3, <1>4, <1>6, <2>2, <2>4, <3>2 DEF RowsRight, Right, Brings
    <3>4. Known \subseteq Known'
      BY <1>3, <1>4, <2>4, <3>2 DEF Known
    <3>5. ASSUME ~torn, ~late PROVE Reaches(Shown', Due', Coming(0)')
      <4> SUFFICES ASSUME NEW j \in Shown', NEW i \in Due, i >= j PROVE i \in Shown' \cup Coming(1)
        BY <1>2, <1>4 DEF Reaches
      <4>1. CASE j \in Shown
        <5>1. i \in Shown \cup Coming(0)
          BY <2>2, <3>5, <4>1 DEF RowsWhole, Reaches
        <5> QED BY <1>3, <2>4, <3>2, <5>1
      <4>2. CASE j = f.id
        <5>1. i = f.id \/ i > f.id
          <6>1. i \in Nat /\ f.id \in Nat
            BY <1>0, <3>1, SetsAre, DocsAre, Kinds
          <6> QED BY <4>2, <6>1
        <5> QED BY <1>1, <1>6, <2>4, <3>2, <3>5, <5>1 DEF InOrder
      <4> QED BY <3>2, <4>1, <4>2
    <3>6. ASSUME ~torn PROVE RowsWhole'
      BY <1>2, <1>6, <2>2, <3>1, <3>4, <3>5, <3>6 DEF RowsWhole
    <3> QED BY <2>3, <3>3, <3>4, <3>6
  <2>5. CASE f.type = "more"
    <3>1. /\ f \in Pages /\ hasMore' = f.more
          /\ items' = At(f.rows, {k \in DOMAIN f.rows : f.rows[k].id \notin Shown}) \o items
      BY <1>0, <1>1, <2>5, ReceiveFacts
    <3>2. Shown' = Shown \cup PageIds(f)
      BY <1>0, <3>1, OlderFacts
    <3>3. RowsRight'
      BY <1>1, <1>2, <1>3, <1>4, <1>6, <2>2, <2>5, <3>2 DEF RowsRight, Right, Brings
    <3>4. Coming(0) \subseteq Coming(1) /\ Known \subseteq Known'
      BY <1>3, <1>4, <2>5, <3>2 DEF Known
    <3>5. ASSUME ~torn PROVE Spans(f, Due, Known)
      <4>1. f \in Heard
        BY <1>1, <1>3 DEF Heard
      <4> QED BY <2>2, <2>5, <3>5, <4>1 DEF OlderWhole
    <3>6. ASSUME ~torn, ~late PROVE Reaches(Shown', Due', Coming(0)')
      <4> SUFFICES ASSUME NEW j \in Shown', NEW i \in Due, i >= j PROVE i \in Shown' \cup Coming(1)
        BY <1>2, <1>4 DEF Reaches
      <4>1. CASE j \in Shown
        BY <2>2, <3>2, <3>4, <3>6, <4>1 DEF RowsWhole, Reaches
      <4>2. CASE j \in PageIds(f)
        BY <3>2, <3>4, <3>5, <3>6, <4>2 DEF Spans, Reaches, Known
      <4> QED BY <3>2, <4>1, <4>2
    <3>7. ASSUME ~torn, ~f.more PROVE Due' \subseteq Known'
      <4>1. Due \subseteq PageIds(f) \cup Known
        BY <3>5, <3>7, Zenon DEF Spans
      <4> QED BY <1>2, <3>2, <3>4, <4>1 DEF Known
    <3>8. ASSUME ~torn PROVE RowsWhole'
      <4>1. (~hasMore)' => ~f.more
        BY <3>1
      <4> QED BY <1>6, <3>6, <3>7, <3>8, <4>1 DEF RowsWhole
    <3> QED BY <2>3, <3>3, <3>4, <3>8
  <2>6. CASE f.type = "deleted"
    <3>1. f \in Deletions /\ items' = At(items, {k \in DOMAIN items : items[k].id # f.id}) /\ hasMore' = hasMore
      BY <1>0, <1>1, <2>6, ReceiveFacts
    <3>2. f.id \in Nat \ {0}
      BY <1>0, <3>1, Kinds, DocsAre
    <3>3. Shown' = Shown \ {f.id}
      BY <1>0, <3>1, <3>2, DeletedFacts
    <3>4. f.id \notin Due
      <4>1. f \in Under
        BY <1>1, <1>3 DEF Under, Heard
      <4> QED BY <1>0, <2>6, <4>1 DEF AllHonest, Honest, Due
    <3>5. RowsRight'
      BY <1>2, <1>3, <1>4, <2>2, <2>6, <3>3 DEF RowsRight
    <3>6. Coming(0) \subseteq Coming(1) /\ Known \cap Due \subseteq Known'
      BY <1>3, <1>4, <2>6, <3>3, <3>4 DEF Known
    <3>7. ASSUME ~torn, ~late PROVE Reaches(Shown', Due', Coming(0)')
      BY <1>2, <1>4, <2>2, <3>3, <3>4, <3>6, <3>7 DEF RowsWhole, Reaches
    <3>8. ASSUME ~torn PROVE RowsWhole'
      BY <1>2, <1>6, <2>2, <3>1, <3>6, <3>7, <3>8 DEF RowsWhole
    <3> QED BY <2>3, <3>5, <3>6, <3>8
  <2>7. CASE f.type = "error"
    <3>1. Shown' = Shown /\ hasMore' = hasMore
      <4>1. (open => items' = Unpended(items)) /\ (~open => items' = items) /\ hasMore' = hasMore
        BY <1>0, <1>1, <2>7, ReceiveFacts
      <4>2. CASE open
        BY <1>0, <4>1, <4>2, UnpendedFacts
      <4>3. CASE ~open
        BY <4>1, <4>3 DEF Shown
      <4> QED BY <4>1, <4>2, <4>3
    <3>2. Coming(0) \subseteq Coming(1) /\ Going(0) \subseteq Going(1) /\ Known \subseteq Known'
      BY <1>3, <1>4, <2>7, <3>1 DEF Known
    <3>3. RowsRight'
      BY <1>2, <1>4, <2>2, <3>1, <3>2 DEF RowsRight
    <3>4. ASSUME ~torn PROVE RowsWhole'
      <4>1. ASSUME ~late PROVE Reaches(Shown', Due', Coming(0)')
        BY <1>2, <1>4, <2>2, <3>1, <3>2, <3>4, <4>1 DEF RowsWhole, Reaches
      <4> QED BY <1>2, <1>6, <2>2, <3>1, <3>2, <3>4, <4>1 DEF RowsWhole
    <3> QED BY <2>3, <3>2, <3>3, <3>4
  <2> QED BY <1>3, <1>9, <2>4, <2>5, <2>6, <2>7, Kinds
<1> QED BY <1>8, <1>9

-----------------------------------------------------------------------------

LEMMA StoreInit ==
  ASSUME TimelineInit
  PROVE  StoreInv
<1>1. /\ saying = {} /\ job = NoJob /\ inbox = <<>> /\ link = FALSE /\ NoJob.type = "none"
  BY Kinds DEF TimelineInit
<1>2. DeadSaid
  BY <1>1 DEF DeadSaid, Unsaid
<1>3. JobGood /\ InboxGood /\ RowsGood
  BY <1>1 DEF JobGood, InboxGood, RowsGood, Following
<1> QED BY <1>2, <1>3, OnceInit DEF StoreInv

LEMMA StoreStutters ==
  ASSUME UNCHANGED timelineVars, DeadSaid, JobGood, InboxGood, RowsGood
  PROVE  DeadSaid' /\ JobGood' /\ InboxGood' /\ RowsGood'
<1>1. UNCHANGED <<docs, saying, job, outbox, inbox, link, open, items, hasMore, missed, reversed,
                  late, torn, refused>>
  BY DEF timelineVars, server, net, store, history
<1>2. /\ UNCHANGED <<MessageIds, Live, Due, Dead, Departing, Announced, Shown, Heard>>
      /\ \A i : Unsaid(i)' <=> Unsaid(i)
  BY <1>1 DEF MessageIds, Live, Due, Dead, Departing, Announced, Shown, Heard, Unsaid
<1>3. \A p : Coming(p)' = Coming(p) /\ Going(p)' = Going(p) /\ (Fixed(p)' <=> Fixed(p))
  BY <1>1, <1>2 DEF Coming, Going, Fixed
<1>4. DeadSaid'
  BY <1>1, <1>2 DEF DeadSaid
<1>5. JobGood'
  BY <1>1, <1>2 DEF JobGood
<1>6. InboxGood'
  BY <1>1, <1>2, <1>3 DEF InboxGood, GoodAt, Right, Whole, InOrder
<1>7. RowsGood'
  <2>1. Known' = Known /\ (Following' <=> Following)
    BY <1>1, <1>2, <1>3 DEF Known, Following
  <2> QED BY <1>1, <1>2, <1>3, <2>1 DEF RowsGood, RowsRight, RowsWhole, AskedWhole, KnownFrom, OlderWhole
<1> QED BY <1>4, <1>5, <1>6, <1>7

LEMMA StoreStep ==
  ASSUME StoreInv, [TimelineNext]_timelineVars
  PROVE  StoreInv'
<1>1. OnceInv'
  BY OnceStep DEF StoreInv
<1>2. CASE UNCHANGED timelineVars
  BY <1>1, <1>2, StoreStutters DEF StoreInv
<1>3. CASE TimelineNext
  <2>1. TimelineTypeOK /\ QuietOffline /\ TimelineTypeOK' /\ QuietOffline'
    BY <1>1 DEF StoreInv, OnceInv, Base
  <2>2. DeadSaid' /\ JobGood'
    BY <1>3, <2>1, DeadSaidStep, JobGoodStep DEF StoreInv
  <2>3. InboxGood' /\ RowsGood'
    <3>1. CASE ~link' \/ ~link
      BY <1>3, <2>1, <3>1, StoreOffline
    <3>2. CASE link /\ link'
      BY <1>3, <2>1, <3>2, StoreWrites, StorePublish, StoreReply, StoreRefuse, StoreBreak, StoreMore, StoreLoad,
         StoreJoin, StoreReceive DEF TimelineNext, Handle, Connect, Drop
    <3> QED BY <3>1, <3>2
  <2> QED BY <1>1, <2>2, <2>3 DEF StoreInv
<1> QED BY <1>2, <1>3

(* When everything has arrived, the open channel shows what MongoDB has     *)
(* from the oldest message on that it has loaded, and nothing as being sent *)
(* (socket.ts handleFrame, useAppStore, fetchChannelHistory), but for the   *)
(* races, the lost broadcasts and the refusals that the history variables   *)
(* name.                                                                    *)
THEOREM ShownAsStored == TimelineSpec => []ListMatchesStore
<1>1. TimelineInit => StoreInv
  BY StoreInit
<1>2. StoreInv /\ [TimelineNext]_timelineVars => StoreInv'
  BY StoreStep
<1>3. StoreInv => ListMatchesStore
  <2> SUFFICES ASSUME StoreInv, Settled PROVE
        /\ \A k \in DOMAIN items : items[k].id # 0 \/ items[k].temp \in mute
        /\ "join" \notin refused => \A i \in MessageIds \ (missed \cup reversed) :
             /\ i \in Shown => i \in Live
             /\ ~torn /\ i \in Live /\ (~hasMore \/ (~late /\ \E j \in Shown : j < i)) => i \in Shown
    BY DEF ListMatchesStore
  <2>1. /\ link /\ open /\ inbox = <<>> /\ outbox = <<>> /\ saying = {} /\ job = NoJob
        /\ NoJob.type = "none" /\ TimelineTypeOK
    BY Kinds DEF Settled, StoreInv, OnceInv, Base
  <2>2. \A k \in DOMAIN items : items[k].id # 0 \/ items[k].temp \in mute
    <3>1. \A t : ~CleanServed(t) /\ ~CleanAsked(t)
      BY <2>1 DEF CleanServed, CleanInbox, CleanAsked, Cleans
    <3>2. Waiting = {}
      BY <2>1, <3>1 DEF StoreInv, OnceInv, Cleaned
    <3> QED BY <3>2 DEF Pending, Waiting
  <2>3. ASSUME "join" \notin refused, NEW i \in MessageIds \ (missed \cup reversed)
        PROVE  /\ i \in Shown => i \in Live
               /\ ~torn /\ i \in Live /\ (~hasMore \/ (~late /\ \E j \in Shown : j < i)) => i \in Shown
    <3>1. Following
      BY <2>1, <2>3 DEF Following, Fixed
    <3>2. Coming(0) = {} /\ Going(0) = {}
      BY <2>1 DEF Coming, Going, Announced, Departing, Unsaid
    <3>3. RowsRight /\ (~torn => RowsWhole)
      BY <3>1 DEF StoreInv, RowsGood
    <3>4. i \in Shown => i \in Live
      BY <2>3, <3>2, <3>3 DEF RowsRight, Dead
    <3>5. ASSUME ~torn, i \in Live, ~hasMore \/ (~late /\ \E j \in Shown : j < i) PROVE i \in Shown
      <4>1. i \in Due /\ Known = Shown
        BY <2>3, <3>2, <3>5 DEF Due, Known
      <4>2. CASE ~hasMore
        BY <3>3, <3>5, <4>1, <4>2 DEF RowsWhole
      <4>3. ASSUME ~late, NEW j \in Shown, j < i PROVE i \in Shown
        <5>1. i >= j
          <6>1. i \in Nat /\ j \in Nat
            BY <2>1, ShownAre, DocsAre
          <6> QED BY <4>3, <6>1
        <5> QED BY <3>2, <3>3, <3>5, <4>1, <4>3, <5>1 DEF RowsWhole, Reaches
      <4> QED BY <3>5, <4>2, <4>3
    <3> QED BY <3>4, <3>5
  <2> QED BY <2>2, <2>3
<1> QED BY <1>1, <1>2, <1>3, PTL DEF TimelineSpec
=============================================================================
