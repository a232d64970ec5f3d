------------------------------- MODULE Notify -------------------------------
(***************************************************************************)
(* The worker tier.  A message-created event on Redis Pub/Sub reaches      *)
(* every replica; in each, one handler per service claims the event with   *)
(* SET NX and the winner does the work: a row in a feed, an audit job, or  *)
(* one notification job per person to be told.  BullMQ runs the jobs, again*)
(* after an error or when the replica that held one died.  A replica may   *)
(* crash, and is shut down and started again by a deployment.              *)
(*                                                                         *)
(* What is said is not modelled, nor how long a job waits.  Whether a      *)
(* person is online when the mention email is decided is a free choice:    *)
(* Presence is the model of that answer.                                   *)
(***************************************************************************)
EXTENDS Integers, FiniteSets

CONSTANTS Replicas, Msgs, Users,
          Shapes,      \* the message-created events the run may publish
          Feeds,       \* the services that write one row for an event
          Attempts,    \* attempts a job gets
          MaxTroubles  \* bound: crashes, shutdowns and failed commands, together

NoReplica == "no replica"   \* nobody holds the job
NoUser    == "no user"
Services  == Feeds \cup {"notification", "audit"}

\* A published event, as far as the services look at it.
Event == [author: Users, isDM: BOOLEAN, mentioned: SUBSET Users,
          recipients: SUBSET Users, isReply: BOOLEAN, parentAuthor: Users \cup {NoUser}]

ASSUME ShapesAreEvents == Shapes \subseteq Event
ASSUME BoundsAreNaturals == /\ Attempts \in Nat \ {0}
                            /\ MaxTroubles \in Nat
ASSUME NobodyIsNoReplica == NoReplica \notin Replicas

None == [author |-> NoUser]

\* Jobs.  The id of a notification job is made of what it is about; an audit job
\* gets a fresh one from BullMQ, here the replica that added it.
ForMessage == [kind: {"message"}, msg: Msgs, to: Users]
AuditJobs  == [kind: {"audit"}, msg: Msgs, from: Replicas]
Jobs       == ForMessage \cup AuditJobs

VARIABLES up,        \* per replica: "up", "draining" or "down"
          event,     \* what was published for a message
          todo,      \* per replica: handlers that are about to claim
          work,      \* per replica: <<service, message>> claimed, not done
          left,      \* per replica and message: people still to be enqueued
          claims,    \* the evt:<service>:<id> keys in Redis
          feed,      \* <<feed, message>>: rows written
          jobs,      \* BullMQ: state, holder, next step, attempts, stalls
          rows,      \* per job: documents it created
          mails,     \* per job: mention emails it enqueued
          reruns,    \* history, per job: runs cut short after the document
          lost,      \* history: messages whose work a crash, a deployment or a fault cut
          lostJobs,  \* history: jobs that were not added or were given up
          troubles   \* crashes, shutdowns and failed commands so far

busVars  == <<event, todo, work, left, claims, feed>>
jobVars  == <<jobs, rows, mails, reruns>>
histVars == <<lost, lostJobs>>
vars     == <<up, busVars, jobVars, histVars, troubles>>

NoJob == [state |-> "none", by |-> NoReplica, step |-> "create", tried |-> 0, stalls |-> 0]

JobState == [state: {"none", "waiting", "active", "completed", "failed"},
             by: Replicas \cup {NoReplica}, step: {"create", "publish", "email", "end"},
             tried: 0..Attempts, stalls: 0..2]

TypeOK == /\ up \in [Replicas -> {"up", "draining", "down"}]
          /\ event \in [Msgs -> Shapes \cup {None}]
          /\ todo \in [Replicas -> SUBSET (Services \X Msgs)]
          /\ work \in [Replicas -> SUBSET (Services \X Msgs)]
          /\ left \in [Replicas \X Msgs -> SUBSET Users]
          /\ claims \subseteq Services \X Msgs
          /\ feed \in [Feeds \X Msgs -> Nat]
          /\ jobs \in [Jobs -> JobState]
          /\ rows \in [Jobs -> Nat] /\ mails \in [Jobs -> Nat] /\ reruns \in [Jobs -> Nat]
          /\ lost \subseteq Msgs /\ lostJobs \subseteq Jobs
          /\ troubles \in 0..MaxTroubles

Init == /\ up = [r \in Replicas |-> "up"]
        /\ event = [m \in Msgs |-> None]
        /\ todo = [r \in Replicas |-> {}] /\ work = [r \in Replicas |-> {}]
        /\ left = [x \in Replicas \X Msgs |-> {}]
        /\ claims = {} /\ feed = [x \in Feeds \X Msgs |-> 0]
        /\ jobs = [j \in Jobs |-> NoJob]
        /\ rows = [j \in Jobs |-> 0] /\ mails = rows /\ reruns = rows
        /\ lost = {} /\ lostJobs = {}
        /\ troubles = 0

Trouble == troubles < MaxTroubles /\ troubles' = troubles + 1

(***************************************************************************)
(* The event bus and the services.                                         *)
(***************************************************************************)
\* planNotifications: who is told of a message, and who of them as a mention.
\* Mutant: direct messages are left to their mentions.
Mentioned(e) == (e.mentioned \cap e.recipients) \ {e.author}
Replied(e)   == ({e.parentAuthor} \cap e.recipients) \ {e.author}
PlannedInChannels(e) == Mentioned(e) \cup Replied(e)
Planned(e) == Mentioned(e) \cup Replied(e) \cup (IF e.isDM THEN e.recipients ELSE {})

\* The feeds return before they claim for direct messages and for replies.
Handling(e) == {"notification", "audit"} \cup (IF e.isDM \/ e.isReply THEN {} ELSE Feeds)

\* The message is stored and broadcast; its event is published to whoever
\* listens at that moment, and a failed publish is only logged.
Publish(m, e) ==
  /\ event[m] = None
  /\ event' = [event EXCEPT ![m] = e]
  /\ \/ /\ todo' = [r \in Replicas |-> IF up[r] = "up" THEN todo[r] \cup (Handling(e) \X {m})
                                                       ELSE todo[r]]
        /\ lost' = IF \E r \in Replicas : up[r] = "up" THEN lost ELSE lost \cup {m}
        /\ UNCHANGED troubles
     \/ /\ Trouble
        /\ lost' = lost \cup {m}
        /\ UNCHANGED todo
  /\ UNCHANGED <<up, work, left, claims, feed, jobVars, lostJobs>>

\* claim(): SET NX.  Mutant: a plain SET, which every replica wins.
WonBySet(x) == TRUE
Won(x) == x \notin claims

Claim(r, x) ==
  /\ x \in todo[r]
  /\ todo' = [todo EXCEPT ![r] = @ \ {x}]
  /\ claims' = claims \cup {x}
  /\ IF Won(x)
     THEN /\ work' = [work EXCEPT ![r] = @ \cup {x}]
          /\ left' = IF x[1] = "notification" THEN [left EXCEPT ![<<r, x[2]>>] = Planned(event[x[2]])]
                                              ELSE left
     ELSE UNCHANGED <<work, left>>
  /\ UNCHANGED <<up, event, feed, jobVars, histVars, troubles>>

\* The SET fails, or its answer is lost: the handler throws and is logged.
ClaimThrows(r, x) ==
  /\ x \in todo[r] /\ Trouble
  /\ todo' = [todo EXCEPT ![r] = @ \ {x}]
  /\ claims' \in {claims, claims \cup {x}}
  /\ lost' = lost \cup {x[2]}
  /\ UNCHANGED <<up, event, work, left, feed, jobVars, lostJobs>>

\* Activity.create, or the MULTI of analytics.
WriteFeed(r, x) ==
  /\ x \in work[r] /\ x[1] \in Feeds
  /\ work' = [work EXCEPT ![r] = @ \ {x}]
  /\ feed' = [feed EXCEPT ![x] = @ + 1]
  /\ UNCHANGED <<up, event, todo, left, claims, jobVars, histVars, troubles>>

\* Queue.add: BullMQ drops a job whose id it still holds.
Fresh(j)  == jobs[j].state = "none"
Added(j)  == IF Fresh(j) THEN [jobs EXCEPT ![j].state = "waiting"] ELSE jobs
AuditJob(m, r)   == [kind |-> "audit", msg |-> m, from |-> r]
NotifyJob(m, u) == [kind |-> "message", msg |-> m, to |-> u]

\* enqueueAudit and enqueueNotification log a failure and go on.
Enqueue(j) == \/ jobs' = Added(j) /\ UNCHANGED <<lost, lostJobs, troubles>>
              \/ /\ Trouble
                 /\ lostJobs' = lostJobs \cup {j}
                 /\ lost' = IF j.kind = "message" THEN lost \cup {j.msg} ELSE lost
                 /\ UNCHANGED jobs

EnqueueAudit(r, m) ==
  /\ <<"audit", m>> \in work[r]
  /\ work' = [work EXCEPT ![r] = @ \ {<<"audit", m>>}]
  /\ Enqueue(AuditJob(m, r))
  /\ UNCHANGED <<up, event, todo, left, claims, feed, rows, mails, reruns>>

EnqueueNext(r, m, u) ==
  /\ <<"notification", m>> \in work[r] /\ u \in left[r, m]
  /\ left' = [left EXCEPT ![<<r, m>>] = @ \ {u}]
  /\ Enqueue(NotifyJob(m, u))
  /\ UNCHANGED <<up, event, todo, work, claims, feed, rows, mails, reruns>>

EnqueuedAll(r, m) ==
  /\ <<"notification", m>> \in work[r] /\ left[r, m] = {}
  /\ work' = [work EXCEPT ![r] = @ \ {<<"notification", m>>}]
  /\ UNCHANGED <<up, event, todo, left, claims, feed, jobVars, histVars, troubles>>

(***************************************************************************)
(* The queue workers.                                                      *)
(***************************************************************************)
Active(r) == {j \in Jobs : jobs[j].state = "active" /\ jobs[j].by = r}

Take(r, j) ==
  /\ up[r] = "up" /\ jobs[j].state = "waiting"
  /\ jobs' = [jobs EXCEPT ![j].state = "active", ![j].by = r, ![j].step = "create"]
  /\ UNCHANGED <<up, busVars, rows, mails, reruns, histVars, troubles>>

\* Notification.create or AuditLog.create.
Create(r, j) ==
  /\ j \in Active(r) /\ jobs[j].step = "create"
  /\ rows' = [rows EXCEPT ![j] = @ + 1]
  /\ jobs' = [jobs EXCEPT ![j].step = IF j \in ForMessage THEN "publish" ELSE "end"]
  /\ UNCHANGED <<up, busVars, mails, reruns, histVars, troubles>>

\* notification-created: the WebSocket tier pushes it to the person's sockets, which
\* Badge is about; a failed publish is only logged, and the run goes on.
Announce(r, j) ==
  /\ j \in Active(r) /\ jobs[j].step = "publish"
  /\ jobs' = [jobs EXCEPT ![j].step = IF j.to \in Mentioned(event[j.msg])
                                      THEN "email" ELSE "end"]
  /\ UNCHANGED <<up, busVars, rows, mails, reruns, histVars, troubles>>

\* A mention of someone who is away is mailed as well.
Mail(r, j) ==
  /\ j \in Active(r) /\ jobs[j].step = "email"
  /\ mails' \in {mails, [mails EXCEPT ![j] = @ + 1]}
  /\ jobs' = [jobs EXCEPT ![j].step = "end"]
  /\ UNCHANGED <<up, busVars, rows, reruns, histVars, troubles>>

Complete(r, j) ==
  /\ j \in Active(r) /\ jobs[j].step = "end"
  /\ jobs' = [jobs EXCEPT ![j].state = "completed", ![j].by = NoReplica]
  /\ UNCHANGED <<up, busVars, rows, mails, reruns, histVars, troubles>>

CutShort(S) == [j \in Jobs |-> reruns[j] + (IF j \in S /\ jobs[j].step # "create" THEN 1 ELSE 0)]

\* A command of the processor throws (the create, isOnline or User.findById):
\* the job is tried again, or given up.
Throws(r, j) ==
  /\ j \in Active(r) /\ jobs[j].step \in {"create", "email"} /\ Trouble
  /\ reruns' = CutShort({j})
  /\ IF jobs[j].tried + 1 < Attempts
     THEN /\ jobs' = [jobs EXCEPT ![j].state = "waiting", ![j].by = NoReplica, ![j].tried = @ + 1]
          /\ UNCHANGED lostJobs
     ELSE /\ jobs' = [jobs EXCEPT ![j].state = "failed", ![j].by = NoReplica, ![j].tried = @ + 1]
          /\ lostJobs' = lostJobs \cup {j}
  /\ UNCHANGED <<up, busVars, rows, mails, lost>>

\* BullMQ finds that nobody renews the job's lock; the second time it fails it.
Stall(j) ==
  /\ jobs[j].state = "active" /\ jobs[j].by = NoReplica
  /\ IF jobs[j].stalls = 0
     THEN /\ jobs' = [jobs EXCEPT ![j].state = "waiting", ![j].stalls = 1]
          /\ UNCHANGED lostJobs
     ELSE /\ jobs' = [jobs EXCEPT ![j].state = "failed"]
          /\ lostJobs' = lostJobs \cup {j}
  /\ UNCHANGED <<up, busVars, rows, mails, reruns, lost, troubles>>

(***************************************************************************)
(* Crashes and deployments.                                                *)
(***************************************************************************)
Orphaned(r) == [j \in Jobs |-> IF j \in Active(r) THEN [jobs[j] EXCEPT !.by = NoReplica] ELSE jobs[j]]

Down(r) == /\ up' = [up EXCEPT ![r] = "down"]
           /\ todo' = [todo EXCEPT ![r] = {}]
           /\ work' = [work EXCEPT ![r] = {}]
           /\ left' = [x \in Replicas \X Msgs |-> IF x[1] = r THEN {} ELSE left[x]]
           /\ lost' = lost \cup {x[2] : x \in todo[r] \cup work[r]}
           /\ jobs' = Orphaned(r)

Crash(r) ==
  /\ up[r] # "down" /\ Trouble
  /\ Down(r)
  /\ reruns' = CutShort(Active(r))
  /\ UNCHANGED <<event, claims, feed, rows, mails, lostJobs>>

\* SIGTERM: the subscriber disconnects, the workers stop taking jobs.
Shutdown(r) ==
  /\ up[r] = "up" /\ Trouble
  /\ up' = [up EXCEPT ![r] = "draining"]
  /\ UNCHANGED <<busVars, jobVars, histVars>>

\* worker.close() has waited for the jobs in flight; nothing waits for the event
\* handlers.  Mutant: the process does not wait for its jobs.
DrainedNow(r) == TRUE
Drained(r) == Active(r) = {}

Exit(r) ==
  /\ up[r] = "draining" /\ Drained(r)
  /\ Down(r)
  /\ UNCHANGED <<event, claims, feed, rows, mails, reruns, lostJobs, troubles>>

Restart(r) ==
  /\ up[r] = "down"
  /\ up' = [up EXCEPT ![r] = "up"]
  /\ UNCHANGED <<busVars, jobVars, histVars, troubles>>

Handle(r)  == \/ \E x \in todo[r] : Claim(r, x)
              \/ \E x \in work[r] : \/ WriteFeed(r, x)
                                    \/ EnqueueAudit(r, x[2])
                                    \/ \E u \in left[r, x[2]] : EnqueueNext(r, x[2], u)
                                    \/ EnqueuedAll(r, x[2])
Process(r) == \E j \in Active(r) : Create(r, j) \/ Announce(r, j) \/ Mail(r, j) \/ Complete(r, j)
Environment == \/ \E m \in Msgs, e \in Shapes : Publish(m, e)
               \/ \E r \in Replicas : Crash(r) \/ Shutdown(r)
               \/ \E r \in Replicas : \E x \in todo[r] : ClaimThrows(r, x)
               \/ \E r \in Replicas : \E j \in Active(r) : Throws(r, j)

System == \/ \E r \in Replicas : Handle(r) \/ Process(r) \/ Exit(r) \/ Restart(r)
          \/ \E r \in Replicas, j \in Jobs : Take(r, j)
          \/ \E j \in Jobs : Stall(j)

Next == Environment \/ System

Spec == Init /\ [][Next]_vars

\* The event loop runs every handler on, BullMQ hands out waiting and stalled
\* jobs, and Docker's restart policy starts a replica that went down.  Each of
\* these steps is taken once, so it is enough that some step is always taken.
FairSpec == Spec /\ WF_vars(System)

(***************************************************************************)
(* Properties.                                                             *)
(***************************************************************************)
\* However many replicas hear an event, each feed has at most one row for it and
\* there is at most one audit job (services/claim.ts).
EffectsOnce == \A m \in Msgs : /\ \A f \in Feeds : feed[f, m] <= 1
                               /\ Cardinality({r \in Replicas : ~Fresh(AuditJob(m, r))}) <= 1

\* A person gets one notification per message, an audit job writes one entry, and
\* a mention is mailed once at most.  The exception is a run that an error or a
\* crash cut short after the document was written: shutting a replica down never
\* repeats anything.
RowsOnce == \A j \in Jobs : rows[j] <= 1 + reruns[j] /\ mails[j] <= 1 + reruns[j]

\* Whom a message is meant to notify: the people it mentions, the other side of a
\* direct message, the author of the message replied to; never its own author.
MeantFor(e) == {u \in e.recipients \ {e.author} : e.isDM \/ u \in e.mentioned \cup {e.parentAuthor}}

\* Whoever a message is meant to notify has the notification in the end, also
\* when replicas crash or are replaced while the job waits or runs; unless the
\* event or the enqueueing was cut, or the job was given up.
ToldInTheEnd == \A m \in Msgs :
  event[m] # None ~> /\ event[m] # None
                     /\ \A u \in MeantFor(event[m]) :
                          rows[NotifyJob(m, u)] >= 1 \/ m \in lost \/ NotifyJob(m, u) \in lostJobs

\* What the comment on the job id says: replays never notify twice.
NeverTwice == \A j \in ForMessage : rows[j] <= 1
=============================================================================
