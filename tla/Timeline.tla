------------------------------ MODULE Timeline ------------------------------
(***************************************************************************)
(* The message list of ONE channel in ONE browser tab, and how it is kept  *)
(* in step with MongoDB: JOIN_CHANNEL answers with the latest page,        *)
(* broadcasts change the list, LOAD_MORE_MESSAGES prepends older pages,    *)
(* own messages are shown before the server has them, and the socket drops  *)
(* and reconnects.  Other users (and other tabs) create and delete         *)
(* messages; every await between a write and its broadcast, and between    *)
(* the read of a page and its answer, is a step boundary.                  *)
(*                                                                         *)
(* A connected tab is subscribed to the channel (Subscriptions); message   *)
(* ids are the numbers 1, 2, ... in the order of creation; replies, edits, *)
(* reactions and receipts are left out here (MessageDoc).                  *)
(***************************************************************************)
EXTENDS Naturals, Sequences, FiniteSets

CONSTANTS
  PageSize,   \* MESSAGE_PAGE_SIZE
  Backlog,    \* messages there are at the start
  MaxOthers,  \* messages of others, the backlog included
  MaxSends,   \* messages the tab sends
  MaxJoins,   \* how often the channel is opened
  MaxDeletes,
  MaxFaults   \* how often the connection or a broadcast is lost, or a frame answered with ERROR

ASSUME PageAssumption == 
  /\ PageSize \in Nat \ {0} /\ Backlog \in Nat /\ MaxOthers \in Nat /\ Backlog <= MaxOthers
  /\ MaxSends \in Nat /\ MaxJoins \in Nat /\ MaxDeletes \in Nat /\ MaxFaults \in Nat

VARIABLES
  docs,       \* MongoDB: [live, temp] of every message; temp is 0 for others'
  saying,     \* broadcasts written about but not yet published, by other handlers
  job,        \* the answer the tab's own handler is about to give
  outbox,     \* frames of the tab the server has not handled
  inbox,      \* frames on their way to the tab
  link, open, \* is the socket connected; is the channel the active one
  items,      \* ChannelMessages.items: [id, temp]; a pending row has id 0
  hasMore, loadingMore,
  detached,   \* messages a lost socket had sent and the server still handles
  sends, joins, deletes, faults,
  missed,     \* history: messages broadcast between the read of a page and its answer, or never
  reversed,   \* history: messages whose deletion was broadcast before they were
  late,       \* history: a message was announced after a newer one, since the page was read
  torn,       \* history: an older page was asked for that does not continue the list
  stranded,   \* history: an ERROR found the channel left, with optimistic rows in its list
  refused,    \* history: types of frames answered with ERROR; of joins, the last one
  mute        \* history: own messages of which the tab gets neither the echo nor an ERROR

server == <<docs, saying, job, detached>>
net == <<outbox, inbox, link>>
store == <<items, hasMore, loadingMore>>
counts == <<sends, joins, deletes, faults>>
history == <<missed, reversed, late, torn, stranded, refused, mute>>
timelineVars == <<server, net, open, store, counts, history>>

MessageIds == 1..Len(docs)
Live == {i \in MessageIds : docs[i].live}
Shown == {items[k].id : k \in DOMAIN items} \ {0}
Pending == {items[k].temp : k \in {k \in DOMAIN items : items[k].id = 0}}
NoJob == [type |-> "none"]

(* The k-th smallest of a set of numbers; the elements of s at positions I. *)
Nth(I, k) == CHOOSE i \in I : Cardinality({j \in I : j <= i}) = k
At(s, I) == [k \in 1..Cardinality(I) |-> s[Nth(I, k)]]

(* fetchChannelHistory: the newest live messages before the cursor.         *)
Before(cursor) == {i \in Live : i < cursor}
Newest(ids) == {i \in ids : Cardinality({j \in ids : j >= i}) <= PageSize}
RowsOf(ids) == [k \in 1..Cardinality(ids) |-> [id |-> Nth(ids, k), temp |-> 0]]
Answer(type, cursor) ==
  [type |-> type, rows |-> RowsOf(Newest(Before(cursor))),
   more |-> Cardinality(Before(cursor)) > PageSize]

New(i, temp) == [type |-> "new", id |-> i, temp |-> temp]

Gone(i) == [type |-> "deleted", id |-> i]

TimelineInit ==
  /\ docs = [i \in 1..Backlog |-> [live |-> TRUE, temp |-> 0]]
  /\ saying = {} /\ job = NoJob /\ detached = {}
  /\ outbox = <<>> /\ inbox = <<>> /\ link = FALSE /\ open = FALSE
  /\ items = <<>> /\ hasMore = FALSE /\ loadingMore = FALSE
  /\ sends = 0 /\ joins = 0 /\ deletes = 0 /\ faults = 0
  /\ missed = {} /\ reversed = {} /\ refused = {} /\ torn = FALSE /\ late = FALSE
  /\ stranded = FALSE /\ mute = {}

-----------------------------------------------------------------------------
(* Other sockets.                                                           *)

Insert(temp) == docs' = Append(docs, [live |-> TRUE, temp |-> temp])

PeerSend ==
  /\ Cardinality({i \in MessageIds : docs[i].temp = 0}) < MaxOthers
  /\ Insert(0)
  /\ saying' = saying \cup {New(Len(docs) + 1, 0)}
  /\ UNCHANGED <<job, detached, net, open, store, counts, history>>

PeerDelete(i) ==
  /\ i \in Live /\ deletes < MaxDeletes
  /\ docs' = [docs EXCEPT ![i].live = FALSE]
  /\ saying' = saying \cup {Gone(i)}
  /\ deletes' = deletes + 1
  /\ UNCHANGED <<job, detached, net, open, store, sends, joins, faults, history>>

Unsaid(i) == (\E e \in saying : e.type = "new" /\ e.id = i) \/ (job.type = "new" /\ job.id = i)
Late(f) == f.type = "new" /\ \E j \in MessageIds : j > f.id /\ ~Unsaid(j)
Deliver(f) == inbox' = IF link THEN Append(inbox, f) ELSE inbox

Publish(e) ==
  /\ e \in saying
  /\ saying' = saying \ {e}
  /\ Deliver(e)
  /\ missed' = IF job.type \in {"history", "more"} THEN missed \cup {e.id} ELSE missed
  /\ reversed' = IF e.type = "deleted" /\ Unsaid(e.id) THEN reversed \cup {e.id} ELSE reversed
  /\ late' = (late \/ Late(e))
  /\ UNCHANGED <<docs, job, detached, outbox, link, open, store, counts, torn, stranded, refused,
                 mute>>

(* It is never published: Redis does not take it, which publishBroadcast    *)
(* only logs, or the handler fails or dies after the write.                 *)
Lose(e) ==
  /\ faults < MaxFaults /\ faults' = faults + 1
  /\ e \in saying
  /\ saying' = saying \ {e}
  /\ missed' = missed \cup {e.id}
  /\ reversed' = IF e.type = "deleted" /\ Unsaid(e.id) THEN reversed \cup {e.id} ELSE reversed
  /\ UNCHANGED <<docs, job, detached, net, open, store, sends, joins, deletes, late, torn, stranded,
                 refused, mute>>

-----------------------------------------------------------------------------
(* The handlers of the tab's socket: one frame at a time.                   *)

Take(type) == link /\ job = NoJob /\ outbox # <<>> /\ Head(outbox).type = type
Taken == outbox' = Tail(outbox)

HandleJoin ==
  /\ Take("join") /\ Taken
  /\ job' = Answer("history", Len(docs) + 1)
  /\ missed' = {} /\ late' = FALSE /\ refused' = refused \ {"join"}
  /\ UNCHANGED <<docs, saying, detached, inbox, link, open, store, counts, reversed, torn, stranded,
                 mute>>

HandleMore ==
  /\ Take("more") /\ Taken
  /\ job' = Answer("more", Head(outbox).before)
  /\ UNCHANGED <<docs, saying, detached, inbox, link, open, store, counts, history>>

HandleSend ==
  /\ Take("send") /\ Taken
  /\ Insert(Head(outbox).temp)
  /\ job' = New(Len(docs) + 1, Head(outbox).temp)
  /\ UNCHANGED <<saying, detached, inbox, link, open, store, counts, history>>

(* The answer or the broadcast that ends a handler.                         *)
Reply ==
  /\ job # NoJob
  /\ Deliver(job)
  /\ job' = NoJob
  /\ late' = (late \/ Late(job))
  /\ UNCHANGED <<docs, saying, detached, outbox, link, open, store, counts, missed, reversed,
                 torn, stranded, refused, mute>>

(* The message is stored but never announced: the handler fails before the   *)
(* broadcast (hydrateMessages), which is answered with ERROR like any other  *)
(* failure, or Redis does not take it, which nobody is told.                *)
BreakOff ==
  /\ faults < MaxFaults /\ faults' = faults + 1
  /\ job.type = "new" /\ job' = NoJob
  /\ missed' = missed \cup {job.id}
  /\ \/ Deliver([type |-> "error"]) /\ refused' = refused \cup {"send"} /\ UNCHANGED mute
     \/ mute' = mute \cup {job.temp} /\ UNCHANGED <<inbox, refused>>
  /\ UNCHANGED <<docs, saying, detached, outbox, link, open, store, sends, joins, deletes,
                 reversed, late, torn, stranded>>

(* The frame is refused: rate limit, a channel the user lost, a failure     *)
(* before anything is written.                                              *)
RefuseFrame ==
  /\ faults < MaxFaults /\ faults' = faults + 1
  /\ link /\ job = NoJob /\ outbox # <<>> /\ Taken
  /\ Deliver([type |-> "error"])
  /\ refused' = refused \cup {Head(outbox).type}
  /\ UNCHANGED <<server, link, open, store, sends, joins, deletes, missed, reversed, late,
                 torn, stranded, mute>>

(* A message of a socket that is gone is handled all the same.              *)
HandleDetached(temp) ==
  /\ temp \in detached
  /\ detached' = detached \ {temp}
  /\ Insert(temp)
  /\ saying' = saying \cup {New(Len(docs) + 1, temp)}
  /\ UNCHANGED <<job, net, open, store, counts, history>>

-----------------------------------------------------------------------------
(* The connection.                                                          *)

Join == [type |-> "join"]

(* Mutant: the shell does not join again after a reconnect.                 *)
ConnectSilent ==
  /\ ~link /\ link' = TRUE
  /\ outbox' = <<>> /\ inbox' = <<>>
  /\ UNCHANGED <<server, open, store, counts, history>>

(* open, CONNECTED, and the effect of the shell that joins again.           *)
Connect ==
  /\ ~link /\ link' = TRUE
  /\ outbox' = IF open THEN <<Join>> ELSE <<>>
  /\ inbox' = <<>>
  /\ UNCHANGED <<server, open, store, counts, history>>

(* Frames already at the server are still handled; its answers are lost.    *)
Drop ==
  /\ link /\ faults < MaxFaults
  /\ link' = FALSE /\ faults' = faults + 1
  /\ \E n \in 0..Len(outbox) :
       detached' = detached \cup {outbox[k].temp : k \in {k \in 1..n : outbox[k].type = "send"}}
  /\ saying' = IF job.type = "new" THEN saying \cup {job} ELSE saying
  /\ outbox' = <<>> /\ inbox' = <<>> /\ job' = NoJob
  /\ UNCHANGED <<docs, open, store, sends, joins, deletes, history>>

-----------------------------------------------------------------------------
(* The tab.                                                                 *)

OpenChannel ==
  /\ ~open /\ joins < MaxJoins
  /\ open' = TRUE /\ joins' = joins + 1
  /\ outbox' = IF link THEN Append(outbox, Join) ELSE outbox
  /\ UNCHANGED <<server, inbox, link, store, sends, deletes, faults, history>>

LeaveChannel ==
  /\ open /\ joins < MaxJoins
  /\ open' = FALSE
  /\ UNCHANGED <<server, net, store, counts, history>>

Unpended(rs) == At(rs, {k \in DOMAIN rs : rs[k].id # 0})

(* sendChatMessage: an optimistic row and a frame; without a connection the *)
(* pending rows of the channel are dropped again.                           *)
SendMessage ==
  /\ open /\ sends < MaxSends
  /\ sends' = sends + 1
  /\ IF link
       THEN /\ items' = Append(items, [id |-> 0, temp |-> sends + 1])
            /\ outbox' = Append(outbox, [type |-> "send", temp |-> sends + 1])
       ELSE items' = Unpended(items) /\ UNCHANGED outbox
  /\ UNCHANGED <<server, inbox, link, open, hasMore, loadingMore, joins, deletes, faults, history>>

LoadOlder ==
  /\ open /\ link /\ hasMore /\ ~loadingMore /\ Shown # {}
  /\ loadingMore' = TRUE
  /\ outbox' = Append(outbox, [type |-> "more", before |-> Head(Unpended(items)).id])
  /\ torn' = (torn \/ late)
  /\ UNCHANGED <<server, inbox, link, open, items, hasMore, counts, missed, reversed, late,
                 stranded, refused, mute>>

(* Mutant: the echo is appended without looking for the id.                 *)
ApplyNewUnseen(f) ==
  LET pending == {k \in DOMAIN items : f.temp # 0 /\ items[k] = [id |-> 0, temp |-> f.temp]}
      row == [id |-> f.id, temp |-> f.temp]
  IN IF pending # {} THEN [k \in DOMAIN items |-> IF k \in pending THEN row ELSE items[k]]
     ELSE Append(items, row)

ApplyNew(f) ==
  LET pending == {k \in DOMAIN items : f.temp # 0 /\ items[k] = [id |-> 0, temp |-> f.temp]}
      row == [id |-> f.id, temp |-> f.temp]
  IN IF pending # {} THEN [k \in DOMAIN items |-> IF k \in pending THEN row ELSE items[k]]
     ELSE IF f.id \in Shown THEN items ELSE Append(items, row)

(* Mutant: older messages are prepended but the spinner stays.              *)
ApplyOlderOnly(f) ==
  /\ items' = At(f.rows, {k \in DOMAIN f.rows : f.rows[k].id \notin Shown}) \o items
  /\ hasMore' = f.more /\ UNCHANGED loadingMore

ApplyOlder(f) ==
  /\ items' = At(f.rows, {k \in DOMAIN f.rows : f.rows[k].id \notin Shown}) \o items
  /\ hasMore' = f.more /\ loadingMore' = FALSE

ApplyHistory(f) == items' = f.rows /\ hasMore' = f.more /\ loadingMore' = FALSE

MoreUnderWay ==
  LET frames == {outbox[k] : k \in DOMAIN outbox} \cup {job} \cup {inbox[k] : k \in DOMAIN inbox}
  IN \E f \in frames : f.type = "more"

(* handleFrame and the reducers of the store.                               *)
Receive ==
  LET f == Head(inbox)
  IN /\ inbox # <<>>
     /\ inbox' = Tail(inbox)
     /\ CASE f.type = "history" -> ApplyHistory(f)
          [] f.type = "more"    -> ApplyOlder(f)
          [] f.type = "new"     -> items' = ApplyNew(f) /\ UNCHANGED <<hasMore, loadingMore>>
          [] f.type = "deleted" -> /\ items' = At(items, {k \in DOMAIN items : items[k].id # f.id})
                                   /\ UNCHANGED <<hasMore, loadingMore>>
          [] f.type = "error"   -> /\ items' = IF open THEN Unpended(items) ELSE items
                                   /\ UNCHANGED <<hasMore, loadingMore>>
     /\ torn' = IF f.type = "history" THEN MoreUnderWay ELSE torn
     /\ stranded' = IF f.type = "history" THEN FALSE
                    ELSE stranded \/ (f.type = "error" /\ ~open /\ Pending # {})
     /\ UNCHANGED <<server, outbox, link, open, counts, missed, reversed, late, refused,
                    mute>>

Handle == HandleJoin \/ HandleMore \/ HandleSend \/ Reply

TimelineNext ==
  \/ PeerSend \/ (\E i \in MessageIds : PeerDelete(i)) \/ (\E e \in saying : Publish(e) \/ Lose(e))
  \/ Handle \/ BreakOff \/ RefuseFrame \/ (\E t \in detached : HandleDetached(t))
  \/ Connect \/ Drop
  \/ OpenChannel \/ LeaveChannel \/ SendMessage \/ LoadOlder \/ Receive

TimelineSpec == TimelineInit /\ [][TimelineNext]_timelineVars

(* The retry timer fires, and what has been sent is handled and delivered.  *)
TimelineFairness ==
  /\ WF_timelineVars(Connect) /\ WF_timelineVars(Handle) /\ WF_timelineVars(Receive)
  /\ WF_timelineVars(\E e \in saying : Publish(e))
TimelineFairSpec == TimelineSpec /\ TimelineFairness

-----------------------------------------------------------------------------
(* Properties.                                                              *)

(* Type invariant.                                                          *)
News == [type : {"new"}, id : MessageIds, temp : 0..MaxSends]
Deletions == [type : {"deleted"}, id : MessageIds]
Pages == [type : {"history", "more"}, rows : Seq([id : MessageIds, temp : {0}]), more : BOOLEAN]
Frames == News \cup Deletions \cup Pages \cup {[type |-> "error"]}
Requests == {Join} \cup [type : {"more"}, before : MessageIds] \cup [type : {"send"}, temp : 1..MaxSends]

TimelineTypeOK ==
  /\ docs \in Seq([live : BOOLEAN, temp : 0..MaxSends])
  /\ saying \subseteq News \cup Deletions
  /\ job \in {NoJob} \cup News \cup Pages
  /\ detached \subseteq 1..MaxSends
  /\ outbox \in Seq(Requests)
  /\ inbox \in Seq(Frames)
  /\ link \in BOOLEAN /\ open \in BOOLEAN
  /\ items \in Seq([id : 0..Len(docs), temp : 0..MaxSends])
  /\ hasMore \in BOOLEAN /\ loadingMore \in BOOLEAN
  /\ sends \in 0..MaxSends /\ joins \in 0..MaxJoins /\ deletes \in 0..MaxDeletes
  /\ faults \in 0..MaxFaults
  /\ missed \subseteq MessageIds /\ reversed \subseteq MessageIds /\ refused \subseteq {"join", "more", "send"}
  /\ mute \subseteq 0..MaxSends
  /\ late \in BOOLEAN /\ torn \in BOOLEAN /\ stranded \in BOOLEAN

(* No message is listed twice, neither as two rows of one id nor as its     *)
(* optimistic copy beside the stored one, although a page, an older page    *)
(* and the echo may all bring it.  Only after an ERROR that found the       *)
(* channel left, so that the optimistic rows in its list stayed, or when    *)
(* its own broadcast was lost, may one of them stand beside its message,    *)
(* until the next page.                                                     *)
ListedOnce ==
  ~stranded => \A j, k \in DOMAIN items : j # k =>
    /\ items[j].id = items[k].id => items[j].id = 0 /\ items[j].temp # items[k].temp
    /\ items[j].id = 0 /\ items[k].id # 0 =>
         docs[items[k].id].temp # items[j].temp \/ items[j].temp \in mute

Settled == /\ link /\ open /\ inbox = <<>> /\ outbox = <<>>
           /\ job = NoJob /\ saying = {} /\ detached = {}

(* When everything has arrived, the open channel shows only live messages,  *)
(* none of them as being sent, and all of them from the oldest one on that  *)
(* it has loaded, whatever was lost with a connection.  Only a message      *)
(* whose broadcast was lost, never made because its handler failed after    *)
(* the write, or overtook a page, or whose deletion overtook its creation,  *)
(* may be wrong until the next page; messages are missing when the server   *)
(* refused the JOIN_CHANNEL, when one announced after a newer one is the    *)
(* oldest row, or when an older page does not continue the list: it was     *)
(* asked for from such a row, or by the list before a reconnect.            *)
ListMatchesStore ==
  Settled =>
    /\ \A k \in DOMAIN items : items[k].id # 0 \/ items[k].temp \in mute
    /\ "join" \notin refused => \A i \in MessageIds \ (missed \cup reversed) :
         /\ i \in Shown => i \in Live
         /\ ~torn /\ i \in Live /\ (~hasMore \/ (~late /\ \E j \in Shown : j < i)) => i \in Shown

(* "Loading older messages" ends, whatever happens to the connection, unless *)
(* the server refused the older page, or the JOIN_CHANNEL after a reconnect. *)
LoadingEnds == (loadingMore /\ open) ~> (~loadingMore \/ ~open \/ refused \cap {"more", "join"} # {})
=============================================================================
