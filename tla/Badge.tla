-------------------------------- MODULE Badge --------------------------------
(***************************************************************************)
(* The notification list and its badge in one browser tab.  The list has   *)
(* three sources that nothing orders: the NOTIFICATION frames of the       *)
(* socket, the answer of GET /notifications, which React Query fetches when*)
(* the shell mounts and after every CONNECTED frame, and the answer of     *)
(* POST /notifications/read.                                               *)
(*                                                                         *)
(* Who is notified of what is Notify's subject: here a row simply appears, *)
(* and is announced afterwards.  The lengths of the lists (30 fetched, 50  *)
(* kept) are not reached.  NotifyProofs extends this module beside Notify: *)
(* names both would have, Init, Next, Spec, carry the prefix Badge here.   *)
(***************************************************************************)
EXTENDS Integers, Sequences, FiniteSets

CONSTANTS MaxRows,   \* bound: notifications
          MaxMarks,  \* bound: requests of this tab to mark something as read
          MaxFaults  \* bound: drops, lost pushes, failed requests, reads elsewhere

ASSUME BadgeBounds == {MaxRows, MaxMarks, MaxFaults} \subseteq Nat

Rows  == 1..MaxRows
Marks == 1..MaxMarks
Flag  == {"none", "unread", "read"}
Lists == [Rows -> Flag]
Nothing   == [n \in Rows |-> "none"]
Greeting  == 0                        \* the CONNECTED frame
Unread(l) == Cardinality({n \in Rows : l[n] = "unread"})

VARIABLES docs,      \* the Notification documents of the user
          announced, \* those whose notification-created was published
          conn,      \* the socket: "off", "registered" or "greeted"
          wire,      \* frames on their way to the tab
          fetch,     \* the query in flight
          data,      \* what React Query has cached
          mark,      \* the mutations, by number: several may be in flight
          list,      \* the store: notifications
          badge,     \* the store: notificationUnread
          crossed,   \* history: the store missed a change, or took an answer that one crossed
          marks, faults

serverVars == <<docs, announced>>
storeVars  == <<list, badge>>
bounds     == <<marks, faults>>
badgeVars  == <<serverVars, conn, wire, fetch, data, mark, storeVars, crossed, bounds>>

\* A request: what it has read so far, and whether something changed meanwhile.
NoFetch  == [sent |-> FALSE, items |-> Nothing, itemsRead |-> FALSE,
             count |-> 0, countRead |-> FALSE, crossed |-> FALSE]
NewFetch == [NoFetch EXCEPT !.sent = TRUE]
NoMark   == [at |-> "idle", ids |-> {}, count |-> 0, crossed |-> FALSE]

FetchState == [sent: BOOLEAN, items: Lists, itemsRead: BOOLEAN,
               count: 0..MaxRows, countRead: BOOLEAN, crossed: BOOLEAN]
MarkState  == [at: {"idle", "sent", "written", "counted"}, ids: SUBSET Rows,
               count: 0..MaxRows, crossed: BOOLEAN]

BadgeTypeOK ==
  /\ docs \in Lists /\ announced \subseteq Rows
  /\ conn \in {"off", "registered", "greeted"}
  /\ wire \in Seq(Rows \cup {Greeting})
  /\ fetch \in FetchState /\ mark \in [Marks -> MarkState]
  /\ data \in [known: BOOLEAN, items: Lists, count: 0..MaxRows]
  /\ list \in Lists /\ badge \in Nat /\ crossed \in BOOLEAN
  /\ marks \in 0..MaxMarks /\ faults \in 0..MaxFaults

\* The shell has mounted: the query runs and the socket connects.
BadgeInit ==
  /\ docs = Nothing /\ announced = {}
  /\ conn = "off" /\ wire = <<>>
  /\ fetch = NewFetch /\ mark = [k \in Marks |-> NoMark]
  /\ data = [known |-> FALSE, items |-> Nothing, count |-> 0]
  /\ list = Nothing /\ badge = 0 /\ crossed = FALSE
  /\ marks = 0 /\ faults = 0

Fault == faults < MaxFaults /\ faults' = faults + 1

\* Any change between the reads of a request and its answer crosses it.
Reading    == fetch.itemsRead \/ fetch.countRead
CrossFetch == IF Reading THEN [fetch EXCEPT !.crossed = TRUE] ELSE fetch
Marked(k)  == mark[k].at \in {"written", "counted"}
CrossMark  == [k \in Marks |-> IF Marked(k) THEN [mark[k] EXCEPT !.crossed = TRUE] ELSE mark[k]]
Crossing   == fetch' = CrossFetch /\ mark' = CrossMark

\* Rows whose frame the tab may still get: an answer that has them counts them early.
Underway == {n \in Rows : docs[n] # "none" /\ (n \notin announced \/ \E i \in DOMAIN wire : wire[i] = n)}

(***************************************************************************)
(* The worker and the WebSocket tier.                                      *)
(***************************************************************************)
Notify(n) ==
  /\ docs[n] = "none" /\ (n > 1 => docs[n - 1] # "none")
  /\ docs' = [docs EXCEPT ![n] = "unread"]
  /\ Crossing
  /\ UNCHANGED <<announced, conn, wire, data, storeVars, crossed, bounds>>

\* The event is pushed to the sockets the user has at that moment.
AnnounceCreated(n) ==
  /\ docs[n] # "none" /\ n \notin announced
  /\ announced' = announced \cup {n}
  /\ wire' = IF conn = "off" THEN wire ELSE Append(wire, n)
  /\ UNCHANGED <<docs, conn, fetch, data, mark, storeVars, crossed, bounds>>

\* publishEvent fails and is only logged: nothing but a fetch brings the row.
AnnounceLost(n) ==
  /\ docs[n] # "none" /\ n \notin announced /\ Fault
  /\ announced' = announced \cup {n}
  /\ crossed' = TRUE
  /\ UNCHANGED <<docs, conn, wire, fetch, data, mark, storeVars, marks>>

Register ==
  /\ conn = "off"
  /\ conn' = "registered"
  /\ UNCHANGED <<serverVars, wire, fetch, data, mark, storeVars, crossed, bounds>>

\* CONNECTED is sent after the snapshot is read: pushes may precede it.
Greet ==
  /\ conn = "registered"
  /\ conn' = "greeted"
  /\ wire' = Append(wire, Greeting)
  /\ UNCHANGED <<serverVars, fetch, data, mark, storeVars, crossed, bounds>>

Drop ==
  /\ conn # "off" /\ Fault
  /\ conn' = "off" /\ wire' = <<>>
  /\ UNCHANGED <<serverVars, fetch, data, mark, storeVars, crossed, marks>>

(***************************************************************************)
(* The tab's socket.                                                       *)
(***************************************************************************)
\* invalidateQueries cancels the fetch in flight and starts another, unless no
\* answer ever came: then the first fetch stands.  Mutant: nothing is fetched.
NoRefetch == fetch
Refetch == IF fetch.sent /\ ~data.known THEN fetch ELSE NewFetch

OnConnected(f) ==
  /\ wire # <<>> /\ Head(wire) = Greeting
  /\ wire' = Tail(wire)
  /\ fetch' = f
  /\ UNCHANGED <<serverVars, conn, data, mark, storeVars, crossed, bounds>>

\* notificationReceived: the list is free of duplicates, the badge only counts.
OnNotification ==
  /\ wire # <<>> /\ Head(wire) # Greeting
  /\ wire' = Tail(wire)
  /\ list' = [list EXCEPT ![Head(wire)] = "unread"]
  /\ badge' = badge + 1
  /\ Crossing
  /\ UNCHANGED <<serverVars, conn, data, crossed, bounds>>

(***************************************************************************)
(* GET /notifications and useNotificationsSync.                            *)
(***************************************************************************)
\* The two reads run side by side and are no snapshot.
ReadItems ==
  /\ fetch.sent /\ ~fetch.itemsRead
  /\ fetch' = [fetch EXCEPT !.items = docs, !.itemsRead = TRUE,
                            !.crossed = @ \/ Underway # {}]
  /\ UNCHANGED <<serverVars, conn, wire, data, mark, storeVars, crossed, bounds>>

ReadCount ==
  /\ fetch.sent /\ ~fetch.countRead
  /\ fetch' = [fetch EXCEPT !.count = Unread(docs), !.countRead = TRUE,
                            !.crossed = @ \/ Underway # {}]
  /\ UNCHANGED <<serverVars, conn, wire, data, mark, storeVars, crossed, bounds>>

\* The effect runs only when the answer differs from the cached one: React Query
\* keeps the old object when the two are deeply equal.
FetchAnswered ==
  /\ fetch.itemsRead /\ fetch.countRead
  /\ fetch' = NoFetch
  /\ data' = [known |-> TRUE, items |-> fetch.items, count |-> fetch.count]
  /\ IF data' = data
     THEN /\ crossed' = (crossed \/ fetch.crossed)
          /\ UNCHANGED <<list, badge>>
     ELSE /\ list' = fetch.items /\ badge' = fetch.count
          /\ crossed' = fetch.crossed
  /\ mark' = CrossMark
  /\ UNCHANGED <<serverVars, conn, wire, bounds>>

FetchFailed ==
  /\ fetch.sent /\ Fault
  /\ fetch' = NoFetch /\ crossed' = TRUE
  /\ UNCHANGED <<serverVars, conn, wire, data, mark, storeVars, marks>>

(***************************************************************************)
(* NotificationsMenu, useMarkNotificationsRead, POST /notifications/read.  *)
(***************************************************************************)
\* "Mark all read", or a click on one unread notification.
Shown == {n \in Rows : list[n] = "unread"}

Mark(k, ids) ==
  /\ marks = k - 1 /\ mark[k] = NoMark
  /\ \/ ids = Rows /\ badge > 0
     \/ \E n \in Shown : ids = {n}
  /\ marks' = k
  /\ mark' = [mark EXCEPT ![k] = [NoMark EXCEPT !.at = "sent", !.ids = ids]]
  /\ UNCHANGED <<serverVars, conn, wire, fetch, data, storeVars, crossed, faults>>

ReadBy(l, ids) == [n \in Rows |-> IF n \in ids /\ l[n] = "unread" THEN "read" ELSE l[n]]

\* Something not shown, or whose push is under way, may be marked as well.
MarkWrite(k) ==
  /\ mark[k].at = "sent"
  /\ docs' = ReadBy(docs, mark[k].ids)
  /\ fetch' = CrossFetch
  /\ mark' = [CrossMark EXCEPT ![k] = [mark[k] EXCEPT !.at = "written", !.crossed = Underway # {}]]
  /\ UNCHANGED <<announced, conn, wire, data, storeVars, crossed, bounds>>

MarkCount(k) ==
  /\ mark[k].at = "written"
  /\ mark' = [mark EXCEPT ![k].at = "counted", ![k].count = Unread(docs)]
  /\ UNCHANGED <<serverVars, conn, wire, fetch, data, storeVars, crossed, bounds>>

MarkAnswered(k) ==
  /\ mark[k].at = "counted"
  /\ list' = ReadBy(list, mark[k].ids)
  /\ badge' = mark[k].count
  /\ crossed' = (crossed \/ mark[k].crossed)
  /\ fetch' = CrossFetch
  /\ mark' = [mark EXCEPT ![k] = NoMark]
  /\ UNCHANGED <<serverVars, conn, wire, data, bounds>>

\* The request fails, is answered with an error (updateMany, countDocuments), or
\* its answer is lost: the mutation has no onError, and what was written is not
\* shown.
MarkFails(k) ==
  /\ mark[k].at # "idle" /\ Fault
  /\ crossed' = (crossed \/ Marked(k))
  /\ mark' = [mark EXCEPT ![k] = NoMark]
  /\ UNCHANGED <<serverVars, conn, wire, fetch, data, storeVars, marks>>

\* Another tab or device of the user marks it: this tab is not told.
ReadElsewhere(n) ==
  /\ docs[n] = "unread" /\ Fault
  /\ docs' = [docs EXCEPT ![n] = "read"]
  /\ crossed' = TRUE
  /\ Crossing
  /\ UNCHANGED <<announced, conn, wire, data, storeVars, marks>>

BadgeNext ==
  \/ \E n \in Rows : Notify(n) \/ AnnounceCreated(n) \/ AnnounceLost(n) \/ ReadElsewhere(n)
  \/ Register \/ Greet \/ Drop
  \/ OnConnected(Refetch) \/ OnNotification
  \/ ReadItems \/ ReadCount \/ FetchAnswered \/ FetchFailed
  \/ \E k \in Marks : \/ \E ids \in SUBSET Rows : Mark(k, ids)
                      \/ MarkWrite(k) \/ MarkCount(k) \/ MarkAnswered(k) \/ MarkFails(k)

BadgeSpec == BadgeInit /\ [][BadgeNext]_badgeVars

(***************************************************************************)
(* Properties.                                                             *)
(***************************************************************************)
Settled == /\ conn = "greeted" /\ wire = <<>>
           /\ ~fetch.sent /\ \A k \in Marks : mark[k].at = "idle"
           /\ \A n \in Rows : docs[n] # "none" => n \in announced

\* When the tab is connected and nothing is under way, the list shows the user's
\* notifications as they are and the badge is the number of unread ones, also
\* after drops that lost pushes; unless the last answer the store took crossed a
\* change, a push or another request, or the tab was not told of a change since:
\* a push lost, a refetch failed, a read elsewhere, or a mark of its own that was
\* written but not answered.
BadgeRight == Settled /\ ~crossed => list = docs /\ badge = Unread(docs)

\* A refetch repairs the badge; it does not when its answer is the cached one.
RefetchRepairs == Settled => badge = Unread(docs)
=============================================================================
