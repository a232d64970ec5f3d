---------------------------- MODULE NotifyProofs ----------------------------
(***************************************************************************)
(* A notification, first in the worker tier: it does each thing once, for  *)
(* any number of replicas, messages, people, feeds, attempts and troubles: *)
(* one winner per claim, one row and one mail per job but for the runs     *)
(* that were cut short.  Then in the tab: for any number of rows, marks    *)
(* and faults, the list and its badge are the server's when all is quiet.  *)
(* The two machines share nothing.                                         *)
(***************************************************************************)
EXTENDS Notify, Badge, FiniteSetTheorems, TLAPS

-----------------------------------------------------------------------------
(* One job *)

(* What a job has done in the run that counts: a row once it is past the    *)
(* create, a mail once it is past the email.  Of a run that lost its        *)
(* replica nothing counts any more: the crash has entered it in reruns.     *)
Runs(J) == J.state = "active" /\ J.by \in Replicas
Written(J) == IF J.state = "completed" \/ (Runs(J) /\ J.step # "create") THEN 1 ELSE 0
Mailed(J)  == IF J.state = "completed" \/ (Runs(J) /\ J.step = "end") THEN 1 ELSE 0

JobFits(J, n, e, c) ==
  /\ J \in JobState /\ n \in Nat /\ e \in Nat /\ c \in Nat
  /\ J.state \in {"none", "waiting", "active"} => J.tried < Attempts
  /\ n <= c + Written(J)
  /\ e <= c + Mailed(J)

JobsFit ==
  /\ DOMAIN jobs = Jobs /\ DOMAIN rows = Jobs /\ DOMAIN mails = Jobs /\ DOMAIN reruns = Jobs
  /\ jobs = [j \in Jobs |-> jobs[j]] /\ rows = [j \in Jobs |-> rows[j]]
  /\ mails = [j \in Jobs |-> mails[j]] /\ reruns = [j \in Jobs |-> reruns[j]]
  /\ \A j \in Jobs : JobFits(jobs[j], rows[j], mails[j], reruns[j])

(* Only an enqueueing makes a job that was not there.                       *)
SameJobs == \A j \in Jobs : Fresh(j)' <=> Fresh(j)

LEMMA JobsStay == JobsFit /\ UNCHANGED jobVars => JobsFit' /\ SameJobs
BY DEF JobsFit, jobVars, SameJobs, Fresh

(* A step of one job.                                                       *)
LEMMA OneJob ==
  ASSUME JobsFit, NEW j \in Jobs, NEW J, NEW n, NEW e, NEW c,
         jobs' = [jobs EXCEPT ![j] = J], rows' = [rows EXCEPT ![j] = n],
         mails' = [mails EXCEPT ![j] = e], reruns' = [reruns EXCEPT ![j] = c],
         JobFits(J, n, e, c)
  PROVE  /\ JobsFit'
         /\ (J.state = "none" <=> jobs[j].state = "none") => SameJobs
         /\ \A k \in Jobs \ {j} : jobs'[k] = jobs[k]
         /\ jobs'[j] = J
<1>1. \A k \in Jobs : /\ jobs'[k] = (IF k = j THEN J ELSE jobs[k])
                      /\ rows'[k] = (IF k = j THEN n ELSE rows[k])
                      /\ mails'[k] = (IF k = j THEN e ELSE mails[k])
                      /\ reruns'[k] = (IF k = j THEN c ELSE reruns[k])
  BY DEF JobsFit
<1>2. /\ DOMAIN jobs' = Jobs /\ DOMAIN rows' = Jobs /\ DOMAIN mails' = Jobs /\ DOMAIN reruns' = Jobs
      /\ jobs' = [k \in Jobs |-> jobs'[k]] /\ rows' = [k \in Jobs |-> rows'[k]]
      /\ mails' = [k \in Jobs |-> mails'[k]] /\ reruns' = [k \in Jobs |-> reruns'[k]]
  BY DEF JobsFit
<1>3. \A k \in Jobs : JobFits(jobs'[k], rows'[k], mails'[k], reruns'[k])
  BY <1>1 DEF JobsFit
<1>4. JobsFit'
  BY <1>2, <1>3 DEF JobsFit
<1> QED BY <1>1, <1>4 DEF SameJobs, Fresh

LEMMA TakeFits ==
  ASSUME JobsFit, NEW r \in Replicas, NEW j \in Jobs, Take(r, j)
  PROVE  JobsFit' /\ SameJobs
<1> DEFINE J == [jobs[j] EXCEPT !.state = "active", !.by = r, !.step = "create"]
<1>1. JobFits(jobs[j], rows[j], mails[j], reruns[j])
  BY DEF JobsFit
<1>2. J \in JobState /\ J.state = "active" /\ J.by = r /\ J.step = "create"
      /\ J.tried = jobs[j].tried
  BY <1>1 DEF JobFits, JobState
<1>3. jobs' = [jobs EXCEPT ![j] = J] /\ jobs[j].state = "waiting"
  BY DEF Take
<1>4. rows' = [rows EXCEPT ![j] = rows[j]] /\ mails' = [mails EXCEPT ![j] = mails[j]]
      /\ reruns' = [reruns EXCEPT ![j] = reruns[j]]
  BY DEF Take, JobsFit
<1> HIDE DEF J
<1>5. JobFits(J, rows[j], mails[j], reruns[j])
  BY <1>1, <1>2, <1>3 DEF JobFits, Written, Mailed, Runs
<1> QED BY <1>2, <1>3, <1>4, <1>5, OneJob
(* The steps of a run that write nothing: the announcement and the end.     *)
LEMMA QuietStepFits ==
  ASSUME JobsFit, NEW r \in Replicas, NEW j \in Jobs, Announce(r, j) \/ Complete(r, j)
  PROVE  JobsFit' /\ SameJobs
<1>1. JobFits(jobs[j], rows[j], mails[j], reruns[j])
  BY DEF JobsFit
<1>2. rows' = [rows EXCEPT ![j] = rows[j]] /\ mails' = [mails EXCEPT ![j] = mails[j]]
      /\ reruns' = [reruns EXCEPT ![j] = reruns[j]]
  BY DEF Announce, Complete, JobsFit
<1>3. jobs[j].state = "active" /\ jobs[j].by = r
  BY DEF Announce, Complete, Active
<1>4. CASE Announce(r, j)
  <2>1. PICK step \in {"email", "end"} : jobs' = [jobs EXCEPT ![j].step = step]
    BY <1>4 DEF Announce
  <2> DEFINE J == [jobs[j] EXCEPT !.step = step]
  <2>2. J \in JobState /\ J.state = "active" /\ J.by = r /\ J.step = step
        /\ J.tried = jobs[j].tried
    BY <1>1, <1>3 DEF JobFits, JobState
  <2>3. jobs' = [jobs EXCEPT ![j] = J] /\ jobs[j].step = "publish"
    BY <1>4, <2>1 DEF Announce
  <2> HIDE DEF J
  <2>4. JobFits(J, rows[j], mails[j], reruns[j])
    BY <1>1, <1>3, <2>2, <2>3 DEF JobFits, Written, Mailed, Runs
  <2> QED BY <1>2, <1>3, <2>2, <2>3, <2>4, OneJob
<1>5. CASE Complete(r, j)
  <2> DEFINE J == [jobs[j] EXCEPT !.state = "completed", !.by = NoReplica]
  <2>1. J \in JobState /\ J.state = "completed"
    BY <1>1 DEF JobFits, JobState
  <2>2. jobs' = [jobs EXCEPT ![j] = J] /\ jobs[j].step = "end"
    BY <1>5 DEF Complete
  <2> HIDE DEF J
  <2>3. JobFits(J, rows[j], mails[j], reruns[j])
    BY <1>1, <1>3, <2>1, <2>2 DEF JobFits, Written, Mailed, Runs
  <2> QED BY <1>2, <1>3, <2>1, <2>2, <2>3, OneJob
<1> QED BY <1>4, <1>5

LEMMA CreateFits ==
  ASSUME JobsFit, NEW r \in Replicas, NEW j \in Jobs, Create(r, j)
  PROVE  JobsFit' /\ SameJobs
<1>1. JobFits(jobs[j], rows[j], mails[j], reruns[j])
  BY DEF JobsFit
<1>2. PICK step \in {"publish", "end"} : jobs' = [jobs EXCEPT ![j].step = step]
  BY DEF Create
<1> DEFINE J == [jobs[j] EXCEPT !.step = step]
<1>3. jobs[j].state = "active" /\ jobs[j].by = r /\ jobs[j].step = "create"
  BY DEF Create, Active
<1>4. J \in JobState /\ J.state = "active" /\ J.by = r /\ J.step = step
      /\ J.tried = jobs[j].tried
  BY <1>1, <1>3 DEF JobFits, JobState
<1>5. /\ jobs' = [jobs EXCEPT ![j] = J] /\ rows' = [rows EXCEPT ![j] = rows[j] + 1]
      /\ mails' = [mails EXCEPT ![j] = mails[j]] /\ reruns' = [reruns EXCEPT ![j] = reruns[j]]
  BY <1>2 DEF Create, JobsFit
<1> HIDE DEF J
<1>6. JobFits(J, rows[j] + 1, mails[j], reruns[j])
  BY <1>1, <1>3, <1>4 DEF JobFits, Written, Mailed, Runs
<1> QED BY <1>3, <1>4, <1>5, <1>6, OneJob

LEMMA MailFits ==
  ASSUME JobsFit, NEW r \in Replicas, NEW j \in Jobs, Mail(r, j)
  PROVE  JobsFit' /\ SameJobs
<1> DEFINE J == [jobs[j] EXCEPT !.step = "end"]
<1>1. JobFits(jobs[j], rows[j], mails[j], reruns[j])
  BY DEF JobsFit
<1>2. jobs[j].state = "active" /\ jobs[j].by = r /\ jobs[j].step = "email"
  BY DEF Mail, Active
<1>3. J \in JobState /\ J.state = "active" /\ J.by = r /\ J.step = "end"
      /\ J.tried = jobs[j].tried
  BY <1>1, <1>2 DEF JobFits, JobState
<1>4. /\ jobs' = [jobs EXCEPT ![j] = J] /\ rows' = [rows EXCEPT ![j] = rows[j]]
      /\ reruns' = [reruns EXCEPT ![j] = reruns[j]]
  BY DEF Mail, JobsFit
<1>5. PICK e \in {mails[j], mails[j] + 1} : mails' = [mails EXCEPT ![j] = e]
  BY DEF Mail, JobsFit
<1> HIDE DEF J
<1>6. JobFits(J, rows[j], e, reruns[j])
  BY <1>1, <1>2, <1>3, <1>5 DEF JobFits, Written, Mailed, Runs
<1> QED BY <1>2, <1>3, <1>4, <1>5, <1>6, OneJob

(* A run that is cut short after its document was written enters reruns, so *)
(* the next run may write again.                                            *)
LEMMA ThrowsFits ==
  ASSUME JobsFit, NEW r \in Replicas, NEW j \in Jobs, Throws(r, j)
  PROVE  JobsFit' /\ SameJobs
<1> DEFINE c == reruns[j] + (IF jobs[j].step # "create" THEN 1 ELSE 0)
<1>1. JobFits(jobs[j], rows[j], mails[j], reruns[j])
  BY DEF JobsFit
<1>2. jobs[j].state = "active" /\ jobs[j].by = r
  BY DEF Throws, Active
<1>3. PICK state \in {"waiting", "failed"} :
        /\ jobs' = [jobs EXCEPT ![j].state = state, ![j].by = NoReplica, ![j].tried = @ + 1]
        /\ state = "waiting" => jobs[j].tried + 1 < Attempts
  BY DEF Throws
<1> DEFINE J == [jobs[j] EXCEPT !.state = state, !.by = NoReplica, !.tried = @ + 1]
<1>4. jobs[j].tried \in Nat /\ jobs[j].tried < Attempts
  BY <1>1, <1>2, BoundsAreNaturals DEF JobFits, JobState
<1>5. jobs[j].tried + 1 \in 0..Attempts
  BY <1>4, BoundsAreNaturals
<1>6. J \in JobState /\ J.state = state /\ J.tried = jobs[j].tried + 1
  BY <1>1, <1>5 DEF JobFits, JobState
<1>7. /\ jobs' = [jobs EXCEPT ![j] = J] /\ rows' = [rows EXCEPT ![j] = rows[j]]
      /\ mails' = [mails EXCEPT ![j] = mails[j]]
  BY <1>3 DEF Throws, JobsFit
<1>8. reruns' = [reruns EXCEPT ![j] = c]
  <2>1. reruns' = [k \in Jobs |-> reruns[k] + (IF k = j /\ jobs[k].step # "create" THEN 1 ELSE 0)]
    BY DEF Throws, CutShort
  <2>2. reruns = [k \in Jobs |-> reruns[k]] /\ \A k \in Jobs : reruns[k] \in Nat
    BY DEF JobsFit, JobFits
  <2> QED BY <2>1, <2>2
<1> HIDE DEF J
<1>9. JobFits(J, rows[j], mails[j], c)
  BY <1>1, <1>2, <1>3, <1>6 DEF JobFits, Written, Mailed, Runs
<1>10. J.state # "none" /\ jobs[j].state # "none"
  BY <1>2, <1>3, <1>6
<1> HIDE DEF c
<1> QED BY <1>7, <1>8, <1>9, <1>10, OneJob

LEMMA StallFits ==
  ASSUME JobsFit, NEW j \in Jobs, Stall(j)
  PROVE  JobsFit' /\ SameJobs
<1>1. JobFits(jobs[j], rows[j], mails[j], reruns[j])
  BY DEF JobsFit
<1>2. /\ rows' = [rows EXCEPT ![j] = rows[j]] /\ mails' = [mails EXCEPT ![j] = mails[j]]
      /\ reruns' = [reruns EXCEPT ![j] = reruns[j]]
      /\ jobs[j].state = "active" /\ ~Runs(jobs[j])
  BY NobodyIsNoReplica DEF Stall, JobsFit, Runs
<1>3. CASE jobs' = [jobs EXCEPT ![j].state = "waiting", ![j].stalls = 1]
  <2> DEFINE J == [jobs[j] EXCEPT !.state = "waiting", !.stalls = 1]
  <2>1. J \in JobState /\ J.state = "waiting" /\ J.tried = jobs[j].tried
    <3>1. jobs[j] \in JobState /\ 1 \in 0..2
      BY <1>1 DEF JobFits
    <3> QED BY <3>1 DEF JobState
  <2>2. jobs' = [jobs EXCEPT ![j] = J]
    BY <1>3
  <2> HIDE DEF J
  <2>3. JobFits(J, rows[j], mails[j], reruns[j])
    BY <1>1, <1>2, <2>1 DEF JobFits, Written, Mailed, Runs
  <2> QED BY <1>2, <2>1, <2>2, <2>3, OneJob
<1>4. CASE jobs' = [jobs EXCEPT ![j].state = "failed"]
  <2> DEFINE J == [jobs[j] EXCEPT !.state = "failed"]
  <2>1. J \in JobState /\ J.state = "failed"
    BY <1>1 DEF JobFits, JobState
  <2>2. jobs' = [jobs EXCEPT ![j] = J]
    BY <1>4
  <2> HIDE DEF J
  <2>3. JobFits(J, rows[j], mails[j], reruns[j])
    BY <1>1, <1>2, <2>1 DEF JobFits, Written, Mailed, Runs
  <2> QED BY <1>2, <2>1, <2>2, <2>3, OneJob
<1> QED BY <1>3, <1>4 DEF Stall

(* BullMQ takes a job it does not hold, once.                               *)
SameRows == UNCHANGED <<rows, mails, reruns>>
LEMMA AddedFits ==
  ASSUME JobsFit, NEW j \in Jobs, jobs' = Added(j), SameRows
  PROVE  JobsFit' /\ \A k \in Jobs \ {j} : jobs'[k] = jobs[k]
<1>1. JobFits(jobs[j], rows[j], mails[j], reruns[j])
  BY DEF JobsFit
<1>2. /\ rows' = [rows EXCEPT ![j] = rows[j]] /\ mails' = [mails EXCEPT ![j] = mails[j]]
      /\ reruns' = [reruns EXCEPT ![j] = reruns[j]]
  BY DEF JobsFit, SameRows
<1>3. CASE Fresh(j)
  <2> DEFINE J == [jobs[j] EXCEPT !.state = "waiting"]
  <2>1. J \in JobState /\ J.state = "waiting" /\ J.tried = jobs[j].tried
    BY <1>1 DEF JobFits, JobState
  <2>2. jobs' = [jobs EXCEPT ![j] = J] /\ jobs[j].state = "none"
    BY <1>3 DEF Added, Fresh
  <2> HIDE DEF J
  <2>3. JobFits(J, rows[j], mails[j], reruns[j])
    BY <1>1, <2>1, <2>2 DEF JobFits, Written, Mailed, Runs
  <2>4. JobsFit'
    BY <1>2, <2>2, <2>3, OneJob
  <2>5. \A k \in Jobs \ {j} : jobs'[k] = jobs[k]
    BY <2>2 DEF JobsFit
  <2> QED BY <2>4, <2>5
<1>4. CASE ~Fresh(j)
  BY <1>4, JobsStay DEF Added, SameRows, jobVars
<1> QED BY <1>3, <1>4

(* A replica goes down: its jobs wait to be found stalled, and the runs that *)
(* had written are entered in reruns, unless there is none to enter.        *)
LEMMA DownFits ==
  ASSUME JobsFit, NEW r \in Replicas, jobs' = Orphaned(r), UNCHANGED <<rows, mails>>,
         reruns' = CutShort(Active(r))
  PROVE  JobsFit' /\ SameJobs
<1>1. ASSUME NEW j \in Jobs
      PROVE  /\ JobFits(jobs'[j], rows'[j], mails'[j], reruns'[j])
             /\ jobs'[j].state = jobs[j].state
  <2>1. JobFits(jobs[j], rows[j], mails[j], reruns[j])
    BY DEF JobsFit
  <2>2. CASE j \in Active(r)
    <3> DEFINE J == [jobs[j] EXCEPT !.by = NoReplica]
    <3>1. jobs[j].state = "active" /\ jobs[j].by = r
      BY <2>2 DEF Active
    <3>2. J \in JobState /\ J.state = "active" /\ J.by = NoReplica /\ J.tried = jobs[j].tried
      BY <2>1, <3>1 DEF JobFits, JobState
    <3>3. jobs'[j] = J
      BY <2>2 DEF Orphaned
    <3>4. reruns'[j] = reruns[j] + (IF jobs[j].step # "create" THEN 1 ELSE 0)
      BY <2>2 DEF CutShort
    <3> HIDE DEF J
    <3> QED BY <2>1, <3>1, <3>2, <3>3, <3>4, NobodyIsNoReplica DEF JobFits, Written, Mailed, Runs
  <2>3. CASE j \notin Active(r)
    <3>1. jobs'[j] = jobs[j]
      BY <2>3 DEF Orphaned
    <3>2. reruns'[j] = reruns[j] + 0
      BY <2>3 DEF CutShort
    <3> QED BY <2>1, <3>1, <3>2 DEF JobFits
  <2> QED BY <2>2, <2>3
<1>2. /\ DOMAIN jobs' = Jobs /\ DOMAIN rows' = Jobs /\ DOMAIN mails' = Jobs /\ DOMAIN reruns' = Jobs
      /\ jobs' = [k \in Jobs |-> jobs'[k]] /\ rows' = [k \in Jobs |-> rows'[k]]
      /\ mails' = [k \in Jobs |-> mails'[k]] /\ reruns' = [k \in Jobs |-> reruns'[k]]
  BY DEF JobsFit, Orphaned, CutShort
<1> QED BY <1>1, <1>2 DEF JobsFit, SameJobs, Fresh

(* Shutting a replica down waits for its jobs, so nothing is cut short.     *)
LEMMA ExitCutsNothing ==
  ASSUME JobsFit, NEW r \in Replicas, Drained(r), UNCHANGED reruns
  PROVE  reruns' = CutShort(Active(r))
<1>1. Active(r) = {}
  BY DEF Drained
<1>2. reruns = [k \in Jobs |-> reruns[k]] /\ \A k \in Jobs : reruns[k] + 0 = reruns[k]
  BY DEF JobsFit, JobFits
<1> QED BY <1>1, <1>2 DEF CutShort
-----------------------------------------------------------------------------
(* The claims *)

BusTyped ==
  /\ up \in [Replicas -> {"up", "draining", "down"}]
  /\ event \in [Msgs -> Shapes \cup {None}]
  /\ todo \in [Replicas -> SUBSET (Services \X Msgs)]
  /\ work \in [Replicas -> SUBSET (Services \X Msgs)]
  /\ left \in [Replicas \X Msgs -> SUBSET Users]
  /\ claims \subseteq Services \X Msgs
  /\ feed \in [Feeds \X Msgs -> Nat]
  /\ lost \subseteq Msgs /\ lostJobs \subseteq Jobs /\ troubles \in 0..MaxTroubles

(* A handler waits for an event that was published.                         *)
Published == \A r \in Replicas : \A x \in todo[r] : event[x[2]] \in Shapes

(* The key in Redis has one winner, and never another.                      *)
OneWinner ==
  \A r \in Replicas : \A x \in work[r] :
    x \in claims /\ \A q \in Replicas \ {r} : x \notin work[q]

(* What the winner has done for the claim, nobody is doing any more.        *)
Idle(x) == x \in claims /\ \A r \in Replicas : x \notin work[r]
FeedsOnce == \A x \in Feeds \X Msgs : feed[x] = 0 \/ (feed[x] = 1 /\ Idle(x))
AuditsOnce ==
  \A m \in Msgs, r \in Replicas : ~Fresh(AuditJob(m, r)) =>
    Idle(<<"audit", m>>) /\ \A q \in Replicas \ {r} : Fresh(AuditJob(m, q))

ClaimsFit == BusTyped /\ Published /\ OneWinner /\ FeedsOnce /\ AuditsOnce

LEMMA PlannedAreUsers == \A e \in Shapes : Planned(e) \in SUBSET Users
BY ShapesAreEvents DEF Event, Planned, Mentioned, Replied

LEMMA AuditIsJob == \A m \in Msgs, r \in Replicas : AuditJob(m, r) \in Jobs
BY DEF AuditJob, Jobs, AuditJobs

LEMMA NotifyIsJob ==
  \A m \in Msgs, u \in Users : /\ NotifyJob(m, u) \in Jobs
                               /\ \A n \in Msgs, r \in Replicas : AuditJob(n, r) # NotifyJob(m, u)
<1> TAKE m \in Msgs, u \in Users
<1>1. NotifyJob(m, u) \in Jobs /\ NotifyJob(m, u).kind = "message"
  BY DEF NotifyJob, Jobs, ForMessage
<1>2. \A n \in Msgs, r \in Replicas : AuditJob(n, r).kind = "audit"
  BY DEF AuditJob
<1> QED BY <1>1, <1>2

(* A step that claims nothing and does no claimed work.                     *)
LEMMA ClaimsKept ==
  ASSUME ClaimsFit, UNCHANGED <<event, feed>>, SameJobs,
         up' \in [Replicas -> {"up", "draining", "down"}],
         todo' \in [Replicas -> SUBSET (Services \X Msgs)],
         work' \in [Replicas -> SUBSET (Services \X Msgs)],
         left' \in [Replicas \X Msgs -> SUBSET Users],
         \A r \in Replicas : todo'[r] \subseteq todo[r] /\ work'[r] \subseteq work[r],
         claims \subseteq claims', claims' \subseteq Services \X Msgs,
         lost' \subseteq Msgs, lostJobs' \subseteq Jobs, troubles' \in 0..MaxTroubles
  PROVE  ClaimsFit'
<1> USE DEF ClaimsFit
<1>1. BusTyped'
  BY DEF BusTyped
<1>2. Published' /\ OneWinner'
  BY DEF Published, OneWinner
<1>3. FeedsOnce'
  BY DEF FeedsOnce, Idle
<1>4. \A m \in Msgs, r \in Replicas : Fresh(AuditJob(m, r))' <=> Fresh(AuditJob(m, r))
  BY AuditIsJob DEF SameJobs, Fresh
<1>5. AuditsOnce'
  BY <1>4 DEF AuditsOnce, Idle
<1> QED BY <1>1, <1>2, <1>3, <1>5

LEMMA TroubleTyped == BusTyped /\ Trouble => troubles' \in 0..MaxTroubles
BY BoundsAreNaturals DEF BusTyped, Trouble

(* The handlers of the services.                                            *)
LEMMA PublishKeeps ==
  ASSUME ClaimsFit, JobsFit, NEW m \in Msgs, NEW e \in Shapes, Publish(m, e)
  PROVE  ClaimsFit' /\ JobsFit'
<1> USE DEF ClaimsFit
<1>1. JobsFit' /\ SameJobs
  BY JobsStay DEF Publish
<1>2. /\ event[m] = None /\ event' = [event EXCEPT ![m] = e]
      /\ UNCHANGED <<up, work, left, claims, feed, jobs, lostJobs>>
  BY DEF Publish, jobVars
<1>3. event' \in [Msgs -> Shapes \cup {None}] /\ event'[m] = e
      /\ \A n \in Msgs : event[n] \in Shapes => event'[n] \in Shapes
  BY <1>2 DEF BusTyped
<1>4. Handling(e) \X {m} \subseteq Services \X Msgs
  BY DEF Handling, Services
<1>5. \/ todo' = todo
      \/ todo' = [r \in Replicas |-> IF up[r] = "up" THEN todo[r] \cup (Handling(e) \X {m})
                                                      ELSE todo[r]]
  BY DEF Publish
<1>6. todo' \in [Replicas -> SUBSET (Services \X Msgs)]
      /\ \A r \in Replicas : \A x \in todo'[r] : x \in todo[r] \/ x[2] = m
  BY <1>4, <1>5 DEF BusTyped
<1>7. lost' \subseteq Msgs /\ troubles' \in 0..MaxTroubles
  BY TroubleTyped DEF Publish, BusTyped
<1>8. BusTyped'
  BY <1>2, <1>3, <1>6, <1>7 DEF BusTyped
<1>9. Published'
  BY <1>3, <1>6 DEF Published, BusTyped
<1>10. OneWinner' /\ FeedsOnce' /\ AuditsOnce'
  BY <1>2 DEF OneWinner, FeedsOnce, AuditsOnce, Idle, Fresh
<1> QED BY <1>1, <1>8, <1>9, <1>10

LEMMA ClaimKeeps ==
  ASSUME ClaimsFit, JobsFit, NEW r \in Replicas, NEW x \in todo[r],
         Claim(r, x) \/ ClaimThrows(r, x)
  PROVE  ClaimsFit' /\ JobsFit'
<1> USE DEF ClaimsFit
<1>1. JobsFit' /\ SameJobs
  BY JobsStay DEF Claim, ClaimThrows
<1>2. x \in Services \X Msgs /\ x[2] \in Msgs
  BY DEF BusTyped
<1>3. todo' = [todo EXCEPT ![r] = @ \ {x}] /\ claims' \subseteq claims \cup {x}
      /\ claims \subseteq claims' /\ UNCHANGED <<up, event, feed, jobs, lostJobs>>
  BY DEF Claim, ClaimThrows, jobVars, histVars
<1>4. /\ todo' \in [Replicas -> SUBSET (Services \X Msgs)]
      /\ \A q \in Replicas : todo'[q] \subseteq todo[q]
      /\ claims' \subseteq Services \X Msgs
  BY <1>2, <1>3 DEF BusTyped
<1>5. lost' \subseteq Msgs /\ troubles' \in 0..MaxTroubles
  BY <1>2, TroubleTyped DEF Claim, ClaimThrows, histVars, BusTyped
<1>6. CASE UNCHANGED <<work, left>>
  BY <1>1, <1>3, <1>4, <1>5, <1>6, ClaimsKept DEF BusTyped
<1>7. CASE /\ Won(x) /\ work' = [work EXCEPT ![r] = @ \cup {x}] /\ x \in claims'
           /\ left' = IF x[1] = "notification" THEN [left EXCEPT ![<<r, x[2]>>] = Planned(event[x[2]])]
                                               ELSE left
  <2>1. /\ x \notin claims /\ work' \in [Replicas -> SUBSET (Services \X Msgs)]
        /\ work'[r] = work[r] \cup {x} /\ \A q \in Replicas \ {r} : work'[q] = work[q]
    BY <1>2, <1>7 DEF Won, BusTyped
  <2>2. event[x[2]] \in Shapes
    BY DEF Published
  <2>3. left' \in [Replicas \X Msgs -> SUBSET Users]
    BY <1>7, <2>2, PlannedAreUsers DEF BusTyped
  <2>4. BusTyped'
    BY <1>3, <1>4, <1>5, <2>1, <2>3 DEF BusTyped
  <2>5. Published'
    BY <1>3, <1>4 DEF Published
  <2>6. OneWinner'
    BY <1>3, <1>7, <2>1 DEF OneWinner
  <2>7. \A y : Idle(y) => Idle(y)'
    BY <1>3, <2>1 DEF Idle
  <2>8. FeedsOnce' /\ AuditsOnce'
    BY <1>3, <2>7 DEF FeedsOnce, AuditsOnce, Fresh
  <2> QED BY <1>1, <2>4, <2>5, <2>6, <2>8
<1> QED BY <1>6, <1>7 DEF Claim, ClaimThrows

LEMMA FeedKeeps ==
  ASSUME ClaimsFit, JobsFit, NEW r \in Replicas, NEW x \in work[r], WriteFeed(r, x)
  PROVE  ClaimsFit' /\ JobsFit'
<1> USE DEF ClaimsFit
<1>1. JobsFit' /\ SameJobs
  BY JobsStay DEF WriteFeed
<1>2. x \in Feeds \X Msgs
  BY DEF WriteFeed, BusTyped
<1>3. /\ work' = [work EXCEPT ![r] = @ \ {x}] /\ feed' = [feed EXCEPT ![x] = @ + 1]
      /\ UNCHANGED <<up, event, todo, left, claims, jobs, lost, lostJobs, troubles>>
  BY DEF WriteFeed, jobVars, histVars
<1>4. feed[x] = 0 /\ x \in claims /\ \A q \in Replicas \ {r} : x \notin work[q]
  BY <1>2 DEF FeedsOnce, Idle, OneWinner
<1>5. work' \in [Replicas -> SUBSET (Services \X Msgs)] /\ work'[r] = work[r] \ {x}
      /\ \A q \in Replicas \ {r} : work'[q] = work[q]
  BY <1>3 DEF BusTyped
<1>6. BusTyped'
  BY <1>2, <1>3, <1>5 DEF BusTyped
<1>7. Published' /\ OneWinner'
  BY <1>3, <1>5 DEF Published, OneWinner
<1>8. \A y : Idle(y) => Idle(y)'
  BY <1>3, <1>5 DEF Idle
<1>9. Idle(x)'
  BY <1>3, <1>4, <1>5 DEF Idle
<1>10. feed'[x] = 1 /\ \A y \in (Feeds \X Msgs) \ {x} : feed'[y] = feed[y]
  BY <1>2, <1>3, <1>4 DEF BusTyped
<1>11. FeedsOnce' /\ AuditsOnce'
  BY <1>3, <1>8, <1>9, <1>10 DEF FeedsOnce, AuditsOnce, Fresh
<1> QED BY <1>1, <1>6, <1>7, <1>11

LEMMA AuditKeeps ==
  ASSUME ClaimsFit, JobsFit, NEW r \in Replicas, NEW m \in Msgs, EnqueueAudit(r, m)
  PROVE  ClaimsFit' /\ JobsFit'
<1> USE DEF ClaimsFit
<1> DEFINE x == <<"audit", m>>
           j == AuditJob(m, r)
<1>1. /\ x \in work[r] /\ work' = [work EXCEPT ![r] = @ \ {x}]
      /\ UNCHANGED <<up, event, todo, left, claims, feed>> /\ SameRows
  BY DEF EnqueueAudit, SameRows
<1>2. lost' \subseteq Msgs /\ lostJobs' \subseteq Jobs /\ troubles' \in 0..MaxTroubles
  <2>1. j \in Jobs /\ j.kind # "message"
    BY AuditIsJob DEF AuditJob
  <2> HIDE DEF j
  <2> QED BY <2>1, TroubleTyped DEF EnqueueAudit, Enqueue, BusTyped, j
<1>3. work' \in [Replicas -> SUBSET (Services \X Msgs)] /\ work'[r] = work[r] \ {x}
      /\ \A q \in Replicas \ {r} : work'[q] = work[q]
  BY <1>1 DEF BusTyped
<1>4. CASE UNCHANGED jobs
  <2>1. JobsFit' /\ SameJobs
    BY <1>1, <1>4, JobsStay DEF SameRows, jobVars
  <2>2. \A q \in Replicas : work'[q] \subseteq work[q]
    BY <1>3
  <2> QED BY <1>1, <1>2, <1>3, <2>1, <2>2, ClaimsKept DEF BusTyped
<1>5. CASE jobs' = Added(j)
  <2>1. j \in Jobs
    BY AuditIsJob
  <2>2. JobsFit' /\ \A k \in Jobs \ {j} : jobs'[k] = jobs[k]
    BY <1>1, <1>5, <2>1, AddedFits
  <2>3. BusTyped'
    BY <1>1, <1>2, <1>3 DEF BusTyped
  <2>4. Published' /\ OneWinner'
    BY <1>1, <1>3 DEF Published, OneWinner
  <2>5. \A y : Idle(y) => Idle(y)'
    BY <1>1, <1>3 DEF Idle
  <2>6. Idle(x)'
    BY <1>1, <1>3 DEF Idle, OneWinner
  <2>7. FeedsOnce'
    BY <1>1, <2>5 DEF FeedsOnce
  <2>8. \A q \in Replicas : Fresh(AuditJob(m, q))
    BY <1>1 DEF AuditsOnce, Idle
  <2>9. \A n \in Msgs, q \in Replicas : AuditJob(n, q) = j => n = m /\ q = r
    BY DEF AuditJob
  <2>10. \A n \in Msgs, q \in Replicas : n # m \/ q # r =>
           (Fresh(AuditJob(n, q))' <=> Fresh(AuditJob(n, q)))
    BY <2>2, <2>9, AuditIsJob DEF Fresh
  <2>11. AuditsOnce'
    <3> SUFFICES ASSUME NEW n \in Msgs, NEW q \in Replicas, ~Fresh(AuditJob(n, q))'
                 PROVE  /\ Idle(<<"audit", n>>)'
                        /\ \A p \in Replicas \ {q} : Fresh(AuditJob(n, p))'
      BY DEF AuditsOnce
    <3>1. CASE n = m
      <4>1. q = r
        BY <2>8, <2>10, <3>1
      <4> QED BY <2>6, <2>8, <2>10, <3>1, <4>1
    <3>2. CASE n # m
      BY <2>5, <2>10, <3>2 DEF AuditsOnce
    <3> QED BY <3>1, <3>2
  <2> QED BY <2>2, <2>3, <2>4, <2>7, <2>11
<1> QED BY <1>4, <1>5 DEF EnqueueAudit, Enqueue

LEMMA NotifyKeeps ==
  ASSUME ClaimsFit, JobsFit, NEW r \in Replicas, NEW m \in Msgs, NEW u \in left[<<r, m>>],
         EnqueueNext(r, m, u)
  PROVE  ClaimsFit' /\ JobsFit'
<1> USE DEF ClaimsFit
<1> DEFINE j == NotifyJob(m, u)
<1>1. /\ left' = [left EXCEPT ![<<r, m>>] = @ \ {u}]
      /\ UNCHANGED <<up, event, todo, work, claims, feed>> /\ SameRows
  BY DEF EnqueueNext, SameRows
<1>2. u \in Users /\ left' \in [Replicas \X Msgs -> SUBSET Users]
  BY <1>1 DEF BusTyped
<1>3. j \in Jobs /\ j.msg = m /\ \A n \in Msgs, q \in Replicas : AuditJob(n, q) # j
  BY <1>2, NotifyIsJob DEF NotifyJob
<1>4. Enqueue(j)
  BY DEF EnqueueNext
<1> HIDE DEF j
<1>5. lost' \subseteq Msgs /\ lostJobs' \subseteq Jobs /\ troubles' \in 0..MaxTroubles
  BY <1>3, <1>4, TroubleTyped DEF Enqueue, BusTyped
<1>6. JobsFit' /\ \A k \in Jobs \ {j} : jobs'[k] = jobs[k]
  <2>1. CASE UNCHANGED jobs
    BY <1>1, <2>1, JobsStay DEF SameRows, jobVars
  <2>2. CASE jobs' = Added(j)
    BY <1>1, <1>3, <2>2, AddedFits
  <2> QED BY <1>4, <2>1, <2>2 DEF Enqueue
<1>7. BusTyped'
  BY <1>1, <1>2, <1>5 DEF BusTyped
<1>8. Published' /\ OneWinner' /\ FeedsOnce'
  BY <1>1 DEF Published, OneWinner, FeedsOnce, Idle
<1>9. \A n \in Msgs, q \in Replicas : Fresh(AuditJob(n, q))' <=> Fresh(AuditJob(n, q))
  BY <1>3, <1>6, AuditIsJob DEF Fresh
<1>10. AuditsOnce'
  BY <1>1, <1>9 DEF AuditsOnce, Idle
<1> QED BY <1>6, <1>7, <1>8, <1>10

LEMMA EndKeeps ==
  ASSUME ClaimsFit, JobsFit, NEW r \in Replicas, NEW m \in Msgs, EnqueuedAll(r, m)
  PROVE  ClaimsFit' /\ JobsFit'
<1>1. JobsFit' /\ SameJobs
  BY JobsStay DEF EnqueuedAll
<1>2. /\ work' \in [Replicas -> SUBSET (Services \X Msgs)]
      /\ \A q \in Replicas : work'[q] \subseteq work[q]
  BY DEF EnqueuedAll, ClaimsFit, BusTyped
<1>3. UNCHANGED <<up, event, todo, left, claims, feed, lost, lostJobs, troubles>>
  BY DEF EnqueuedAll, histVars
<1> QED BY <1>1, <1>2, <1>3, ClaimsKept DEF ClaimsFit, BusTyped
(* The queue workers have no part in the claims.                            *)
LEMMA WorkerKeeps ==
  ASSUME ClaimsFit, JobsFit, NEW j \in Jobs,
         \/ Stall(j)
         \/ \E r \in Replicas : \/ Take(r, j) \/ Create(r, j) \/ Announce(r, j)
                                \/ Mail(r, j) \/ Complete(r, j) \/ Throws(r, j)
  PROVE  ClaimsFit' /\ JobsFit'
<1>1. JobsFit' /\ SameJobs
  BY TakeFits, CreateFits, QuietStepFits, MailFits, ThrowsFits, StallFits
<1>2. UNCHANGED <<up, event, todo, work, left, claims, feed, lost>>
  BY DEF Stall, Take, Create, Announce, Mail, Complete, Throws, busVars, histVars
<1>3. lostJobs' \subseteq Jobs /\ troubles' \in 0..MaxTroubles
  BY TroubleTyped DEF Stall, Take, Create, Announce, Mail, Complete, Throws, histVars,
                      ClaimsFit, BusTyped
<1> QED BY <1>1, <1>2, <1>3, ClaimsKept DEF ClaimsFit, BusTyped

(* A replica that goes down drops its handlers; their claims stay in Redis. *)
LEMMA ReplicaKeeps ==
  ASSUME ClaimsFit, JobsFit, NEW r \in Replicas,
         Crash(r) \/ Exit(r) \/ Shutdown(r) \/ Restart(r)
  PROVE  ClaimsFit' /\ JobsFit'
<1>1. up' \in [Replicas -> {"up", "draining", "down"}]
  BY DEF Crash, Exit, Shutdown, Restart, Down, ClaimsFit, BusTyped
<1>2. UNCHANGED <<event, claims, feed, lostJobs>>
  BY DEF Crash, Exit, Shutdown, Restart, busVars, histVars
<1>3. troubles' \in 0..MaxTroubles
  BY TroubleTyped DEF Crash, Exit, Shutdown, Restart, ClaimsFit, BusTyped
<1>4. CASE Crash(r) \/ Exit(r)
  <2>1. Down(r) /\ UNCHANGED <<rows, mails>>
    BY <1>4 DEF Crash, Exit
  <2>2. reruns' = CutShort(Active(r))
    BY <1>4, ExitCutsNothing DEF Crash, Exit
  <2>3. JobsFit' /\ SameJobs
    BY <2>1, <2>2, DownFits DEF Down
  <2>4. /\ todo' \in [Replicas -> SUBSET (Services \X Msgs)]
        /\ work' \in [Replicas -> SUBSET (Services \X Msgs)]
        /\ \A q \in Replicas : todo'[q] \subseteq todo[q] /\ work'[q] \subseteq work[q]
    BY <2>1 DEF Down, ClaimsFit, BusTyped
  <2>5. left' \in [Replicas \X Msgs -> SUBSET Users]
    BY <2>1 DEF Down, ClaimsFit, BusTyped
  <2>6. lost' \subseteq Msgs
    <3>1. \A x \in todo[r] \cup work[r] : x[2] \in Msgs
      BY DEF ClaimsFit, BusTyped
    <3> QED BY <2>1, <3>1 DEF Down, ClaimsFit, BusTyped
  <2> QED BY <1>1, <1>2, <1>3, <2>3, <2>4, <2>5, <2>6, ClaimsKept DEF ClaimsFit, BusTyped
<1>5. CASE Shutdown(r) \/ Restart(r)
  <2>1. JobsFit' /\ SameJobs
    BY <1>5, JobsStay DEF Shutdown, Restart
  <2>2. UNCHANGED <<todo, work, left, lost>>
    BY <1>5 DEF Shutdown, Restart, busVars, histVars
  <2> QED BY <1>1, <1>2, <1>3, <2>1, <2>2, ClaimsKept DEF ClaimsFit, BusTyped
<1> QED BY <1>4, <1>5

-----------------------------------------------------------------------------
(* The worker tier *)

NotifyInv == ClaimsFit /\ JobsFit

LEMMA Initially == Init => NotifyInv
<1> SUFFICES ASSUME Init PROVE NotifyInv
  OBVIOUS
<1>1. \A j \in Jobs : jobs[j] = NoJob /\ rows[j] = 0 /\ mails[j] = 0 /\ reruns[j] = 0
  BY DEF Init
<1>2. NoJob \in JobState /\ NoJob.state = "none" /\ NoJob.tried = 0
  <2>1. 0 \in 0..Attempts /\ 0 \in 0..2
    BY BoundsAreNaturals
  <2> QED BY <2>1 DEF NoJob, JobState
<1> HIDE DEF NoJob
<1>3. JobFits(NoJob, 0, 0, 0)
  BY <1>2, BoundsAreNaturals DEF JobFits, Written, Mailed
<1>4. JobsFit
  BY <1>1, <1>3 DEF Init, JobsFit
<1>5. BusTyped
  BY BoundsAreNaturals DEF Init, BusTyped
<1>6. Published /\ OneWinner
  BY DEF Init, Published, OneWinner
<1>7. FeedsOnce
  BY DEF Init, FeedsOnce
<1>8. AuditsOnce
  BY <1>1, <1>2, AuditIsJob DEF AuditsOnce, Fresh
<1> QED BY <1>4, <1>5, <1>6, <1>7, <1>8 DEF NotifyInv, ClaimsFit

LEMMA Preserved == NotifyInv /\ [Next]_vars => NotifyInv'
<1> SUFFICES ASSUME NotifyInv, [Next]_vars PROVE NotifyInv'
  OBVIOUS
<1> USE DEF NotifyInv
<1>1. CASE UNCHANGED vars
  <2>1. JobsFit' /\ SameJobs
    BY <1>1, JobsStay DEF vars
  <2>2. UNCHANGED <<up, event, todo, work, left, claims, feed, lost, lostJobs, troubles>>
    BY <1>1 DEF vars, busVars, histVars
  <2> QED BY <2>1, <2>2, ClaimsKept DEF ClaimsFit, BusTyped
<1>2. CASE Environment
  <2>1. \A r \in Replicas : Active(r) \subseteq Jobs
    BY DEF Active
  <2> QED BY <1>2, <2>1, PublishKeeps, ReplicaKeeps, ClaimKeeps, WorkerKeeps DEF Environment
<1>3. ASSUME NEW r \in Replicas, Handle(r) PROVE NotifyInv'
  <2>1. CASE \E x \in todo[r] : Claim(r, x)
    BY <2>1, ClaimKeeps
  <2>2. ASSUME NEW x \in work[r],
               \/ WriteFeed(r, x) \/ EnqueueAudit(r, x[2])
               \/ \E u \in left[<<r, x[2]>>] : EnqueueNext(r, x[2], u)
               \/ EnqueuedAll(r, x[2])
        PROVE  NotifyInv'
    <3>1. x[2] \in Msgs
      BY DEF ClaimsFit, BusTyped
    <3> QED BY <2>2, <3>1, FeedKeeps, AuditKeeps, NotifyKeeps, EndKeeps
  <2> QED BY <1>3, <2>1, <2>2 DEF Handle
<1>4. ASSUME NEW r \in Replicas, Process(r) \/ Exit(r) \/ Restart(r) PROVE NotifyInv'
  <2>1. Active(r) \subseteq Jobs
    BY DEF Active
  <2> QED BY <1>4, <2>1, WorkerKeeps, ReplicaKeeps DEF Process
<1>5. CASE System
  BY <1>3, <1>4, <1>5, WorkerKeeps DEF System
<1> QED BY <1>1, <1>2, <1>5 DEF Next

LEMMA Always == Spec => []NotifyInv
BY Initially, Preserved, PTL DEF Spec

(* The state is always of its type; a job that can still run has attempts   *)
(* left.                                                                    *)
THEOREM TypeCorrect == Spec => []TypeOK
<1>1. NotifyInv => TypeOK
  <2> SUFFICES ASSUME NotifyInv PROVE TypeOK
    OBVIOUS
  <2>1. BusTyped /\ JobsFit
    BY DEF NotifyInv, ClaimsFit
  <2>2. \A j \in Jobs : jobs[j] \in JobState /\ rows[j] \in Nat /\ mails[j] \in Nat /\ reruns[j] \in Nat
    BY <2>1 DEF JobsFit, JobFits
  <2>3. /\ jobs \in [Jobs -> JobState]
        /\ rows \in [Jobs -> Nat] /\ mails \in [Jobs -> Nat] /\ reruns \in [Jobs -> Nat]
    BY <2>1, <2>2 DEF JobsFit
  <2> QED BY <2>1, <2>3 DEF BusTyped, TypeOK
<1> QED BY <1>1, Always, PTL

(* A feed has one row for an event and its audit job is one, for any number *)
(* of replicas that hear the event, crash or are replaced.                  *)
THEOREM ClaimsWork == Spec => []EffectsOnce
<1>1. NotifyInv => EffectsOnce
  <2> SUFFICES ASSUME NotifyInv, NEW m \in Msgs
               PROVE  /\ \A f \in Feeds : feed[<<f, m>>] <= 1
                      /\ Cardinality({r \in Replicas : ~Fresh(AuditJob(m, r))}) <= 1
    BY DEF EffectsOnce
  <2>1. \A f \in Feeds : feed[<<f, m>>] <= 1
    BY DEF NotifyInv, ClaimsFit, FeedsOnce
  <2> DEFINE A == {r \in Replicas : ~Fresh(AuditJob(m, r))}
  <2>2. CASE A = {}
    BY <2>1, <2>2, FS_EmptySet
  <2>3. CASE A # {}
    <3>1. PICK r \in A : TRUE
      BY <2>3
    <3>2. A = {r}
      BY DEF NotifyInv, ClaimsFit, AuditsOnce
    <3>3. Cardinality(A) = 1
      BY <3>2, FS_Singleton
    <3> QED BY <2>1, <3>3
  <2> QED BY <2>2, <2>3
<1> QED BY <1>1, Always, PTL

(* No job writes its document or mails twice, unless a run was cut short    *)
(* after the document: a deployment repeats nothing.                        *)
THEOREM JobsWriteOnce == Spec => []RowsOnce
<1>1. NotifyInv => RowsOnce
  BY DEF NotifyInv, JobsFit, JobFits, Written, Mailed, RowsOnce
<1> QED BY <1>1, Always, PTL

-----------------------------------------------------------------------------
(* The tab's list and badge: the inductive invariant                        *)

Frames == Rows \cup {Greeting}
OnWire(f) == \E i \in DOMAIN wire : wire[i] = f
Once == \A i, j \in DOMAIN wire : wire[i] = wire[j] /\ wire[i] # Greeting => i = j

Told ==
  /\ \A n \in announced : docs[n] # "none"
  /\ \A n \in Rows : OnWire(n) => n \in announced
  /\ Once

(* Rows only go from none to unread to read: an old answer is behind.       *)
Behind(l) == \A n \in Rows : /\ l[n] = "unread" => docs[n] # "none"
                             /\ l[n] = "read" => docs[n] = "read"
Aging == Behind(fetch.items) /\ Behind(data.items)

(* What a request has read that nothing crossed is still so.                *)
FetchTrue ==
  ~fetch.crossed =>
    /\ fetch.itemsRead => fetch.items = docs
    /\ fetch.countRead => fetch.count = Unread(docs)
    /\ Reading => Underway = {}
MarkTrue ==
  \A k \in Marks :
    /\ ~Marked(k) => ~mark[k].crossed
    /\ Marked(k) /\ ~mark[k].crossed =>
         /\ Underway = {}
         /\ \A n \in mark[k].ids : docs[n] # "unread"
         /\ mark[k].at = "counted" => mark[k].count = Unread(docs)
         /\ \A j \in Marks \ {k} : Marked(j) => mark[j].crossed

(* An answer that is still the state of the server was shown.               *)
CacheShown ==
  ~crossed /\ data.known /\ data.items = docs /\ data.count = Unread(docs) =>
    list = docs /\ badge = Unread(docs) /\ Underway = {}

(* Without a fetch to come, the store is right but for the pushes under way *)
(* and the mark about to be answered: of two, the second has crossed the    *)
(* first.                                                                   *)
Awaited == conn # "greeted" \/ fetch.sent \/ OnWire(Greeting)
Read == UNION {mark[k].ids : k \in {k \in Marks : Marked(k)}}
Coming == ReadBy(list, Read)
Plain == \A k \in Marks : ~mark[k].crossed
Quiet == \A k \in Marks : ~Marked(k)
Followed ==
  ~crossed /\ ~Awaited /\ Plain =>
    /\ \A n \in Rows \ Underway : Coming[n] = docs[n]
    /\ \A n \in Underway : list[n] = "none" /\ docs[n] = "unread"
    /\ Quiet => badge + Cardinality(Underway) = Unread(docs)

BadgeInv ==
  BadgeTypeOK /\ Told /\ Aging /\ FetchTrue /\ MarkTrue /\ CacheShown /\ Followed

-----------------------------------------------------------------------------
(* The tab: what a step does to the wire and to what is under way           *)

LEMMA BadgeBound == MaxRows \in Nat /\ MaxMarks \in Nat /\ MaxFaults \in Nat
BY BadgeBounds

(* Counting.                                                                *)
LEMMA SomeRows ==
  ASSUME NEW S \in SUBSET Rows
  PROVE  IsFiniteSet(S) /\ Cardinality(S) \in 0..MaxRows
<1>1. IsFiniteSet(Rows) /\ Cardinality(Rows) = MaxRows
  BY BadgeBound, FS_Interval DEF Rows
<1>2. IsFiniteSet(S) /\ Cardinality(S) <= Cardinality(Rows)
  BY <1>1, FS_Subset
<1>3. Cardinality(S) \in Nat
  BY <1>2, FS_CardinalityType
<1> QED BY <1>1, <1>2, <1>3, BadgeBound

LEMMA OneMoreRow ==
  ASSUME NEW S \in SUBSET Rows, NEW n \in Rows, n \notin S
  PROVE  Cardinality(S \cup {n}) = Cardinality(S) + 1
BY SomeRows, FS_AddElement

LEMMA UnreadType == ASSUME NEW l PROVE Unread(l) \in 0..MaxRows
BY SomeRows DEF Unread

LEMMA UnreadGrows ==
  ASSUME NEW l \in Lists, NEW n \in Rows, l[n] = "none"
  PROVE  Unread([l EXCEPT ![n] = "unread"]) = Unread(l) + 1
<1> DEFINE U == {m \in Rows : l[m] = "unread"}
           V == {m \in Rows : [l EXCEPT ![n] = "unread"][m] = "unread"}
<1>1. V = U \cup {n}
  BY DEF Lists
<1>2. n \notin U /\ U \in SUBSET Rows
  OBVIOUS
<1>3. Cardinality(V) = Cardinality(U) + 1
  BY <1>1, <1>2, OneMoreRow
<1> QED BY <1>3 DEF Unread

LEMMA NothingUnread == Unread(Nothing) = 0
<1>1. {n \in Rows : Nothing[n] = "unread"} = {}
  BY DEF Nothing
<1> QED BY <1>1, FS_EmptySet DEF Unread

LEMMA ReadByType ==
  ASSUME NEW l \in Lists, NEW ids
  PROVE  /\ ReadBy(l, ids) \in Lists
         /\ \A n \in Rows : /\ (ReadBy(l, ids)[n] = "none") <=> (l[n] = "none")
                            /\ l[n] = "read" => ReadBy(l, ids)[n] = "read"
                            /\ ReadBy(l, ids)[n] = "unread" => l[n] = "unread" /\ n \notin ids
                            /\ n \notin ids \/ l[n] # "unread" => ReadBy(l, ids)[n] = l[n]
BY DEF ReadBy, Lists, Flag

(* The wire.                                                                *)

LEMMA WireGrows ==
  ASSUME wire \in Seq(Frames), NEW g \in Frames, wire' = Append(wire, g)
  PROVE  \A f : OnWire(f)' <=> OnWire(f) \/ f = g
<1> SUFFICES ASSUME NEW f PROVE OnWire(f)' <=> OnWire(f) \/ f = g
  OBVIOUS
<1>1. Len(wire') = Len(wire) + 1 /\ wire'[Len(wire) + 1] = g /\ DOMAIN wire' = 1..(Len(wire) + 1)
  OBVIOUS
<1>2. \A i \in DOMAIN wire : i \in DOMAIN wire' /\ wire'[i] = wire[i]
  OBVIOUS
<1>3. \A i \in DOMAIN wire' : i \in DOMAIN wire \/ i = Len(wire) + 1
  BY <1>1
<1>4. Len(wire) + 1 \in DOMAIN wire'
  BY <1>1
<1> QED BY <1>1, <1>2, <1>3, <1>4 DEF OnWire

(* A row is announced once, so its frame is on the wire at most once.       *)
LEMMA OnceGrows ==
  ASSUME wire \in Seq(Frames), NEW g \in Frames, wire' = Append(wire, g), Once,
         g = Greeting \/ ~OnWire(g)
  PROVE  Once'
<1> SUFFICES ASSUME NEW i \in DOMAIN wire', NEW j \in DOMAIN wire',
                    wire'[i] = wire'[j], wire'[i] # Greeting
             PROVE  i = j
  BY DEF Once
<1>1. Len(wire') = Len(wire) + 1 /\ wire'[Len(wire) + 1] = g /\ DOMAIN wire' = 1..(Len(wire) + 1)
  OBVIOUS
<1>2. \A k \in DOMAIN wire' : (k \in DOMAIN wire /\ wire'[k] = wire[k]) \/ (k = Len(wire) + 1 /\ wire'[k] = g)
  BY <1>1
<1> QED BY <1>2 DEF Once, OnWire

LEMMA WireShrinks ==
  ASSUME wire \in Seq(Frames), wire # <<>>, wire' = Tail(wire), Once
  PROVE  /\ Head(wire) \in Frames /\ OnWire(Head(wire))
         /\ \A f \in Frames \ {Head(wire)} : OnWire(f)' <=> OnWire(f)
         /\ \A f : f = Head(wire) /\ f # Greeting => ~OnWire(f)'
         /\ OnWire(Greeting)' => OnWire(Greeting)
         /\ Once'
<1>1. /\ Len(wire) \in Nat /\ Len(wire) > 0 /\ Len(wire') = Len(wire) - 1
      /\ DOMAIN wire = 1..Len(wire) /\ DOMAIN wire' = 1..(Len(wire) - 1)
      /\ \A i \in 1..(Len(wire) - 1) : wire'[i] = wire[i + 1]
      /\ Head(wire) = wire[1] /\ wire' \in Seq(Frames)
  OBVIOUS
<1>2. \A i \in DOMAIN wire' : i + 1 \in DOMAIN wire /\ wire'[i] = wire[i + 1] /\ i + 1 # 1 /\ i \in Nat
  BY <1>1
<1>3. \A i \in DOMAIN wire : i = 1 \/ (i - 1 \in DOMAIN wire' /\ wire'[i - 1] = wire[i])
  BY <1>1
<1>4. Head(wire) \in Frames /\ OnWire(Head(wire)) /\ 1 \in DOMAIN wire
  BY <1>1 DEF OnWire
<1>5. ASSUME NEW f PROVE OnWire(f)' => OnWire(f)
  BY <1>2 DEF OnWire
<1>6. ASSUME NEW f \in Frames \ {Head(wire)}, OnWire(f) PROVE OnWire(f)'
  BY <1>6, <1>3, <1>1 DEF OnWire
<1>7. ASSUME NEW f, f = Head(wire), f # Greeting PROVE ~OnWire(f)'
  <2> SUFFICES ASSUME NEW i \in DOMAIN wire', wire'[i] = f PROVE FALSE
    BY DEF OnWire
  <2> QED BY <1>1, <1>2, <1>4, <1>7 DEF Once
<1>8. Once'
  <2> SUFFICES ASSUME NEW i \in DOMAIN wire', NEW j \in DOMAIN wire',
                      wire'[i] = wire'[j], wire'[i] # Greeting
               PROVE  i = j
    BY DEF Once
  <2>1. i + 1 = j + 1
    BY <1>2 DEF Once
  <2> QED BY <2>1, <1>2
<1> QED BY <1>4, <1>5, <1>6, <1>7, <1>8

(* What a change does to the requests in flight.                            *)
LEMMA CrossEffect ==
  ASSUME BadgeTypeOK
  PROVE  /\ CrossFetch \in FetchState
         /\ CrossFetch.sent = fetch.sent /\ CrossFetch.items = fetch.items
         /\ CrossFetch.count = fetch.count
         /\ CrossFetch.itemsRead = fetch.itemsRead /\ CrossFetch.countRead = fetch.countRead
         /\ CrossFetch.crossed <=> fetch.crossed \/ fetch.itemsRead \/ fetch.countRead
BY Zenon, SMT DEF BadgeTypeOK, FetchState, CrossFetch, Reading

LEMMA MarksCrossed ==
  ASSUME BadgeTypeOK
  PROVE  /\ CrossMark \in [Marks -> MarkState]
         /\ \A k \in Marks : /\ CrossMark[k].at = mark[k].at /\ CrossMark[k].ids = mark[k].ids
                             /\ CrossMark[k].count = mark[k].count
                             /\ Marked(k) => CrossMark[k].crossed
                             /\ ~Marked(k) => CrossMark[k] = mark[k]
<1>1. ASSUME NEW k \in Marks
      PROVE  /\ CrossMark[k] \in MarkState
             /\ CrossMark[k].at = mark[k].at /\ CrossMark[k].ids = mark[k].ids
             /\ CrossMark[k].count = mark[k].count
             /\ Marked(k) => CrossMark[k].crossed
             /\ ~Marked(k) => CrossMark[k] = mark[k]
  <2>1. mark[k] \in MarkState
    BY DEF BadgeTypeOK
  <2>2. CASE Marked(k)
    <3>1. CrossMark[k] = [mark[k] EXCEPT !.crossed = TRUE]
      BY <2>2 DEF CrossMark
    <3> QED BY <2>1, <2>2, <3>1 DEF MarkState
  <2>3. CASE ~Marked(k)
    <3>1. CrossMark[k] = mark[k]
      BY <2>3 DEF CrossMark
    <3> QED BY <2>1, <2>3, <3>1
  <2> QED BY <2>2, <2>3
<1>2. CrossMark \in [Marks -> MarkState]
  BY <1>1 DEF CrossMark
<1> QED BY <1>1, <1>2

(* One mark changes, the others do not.                                     *)
LEMMA MarkSet ==
  ASSUME NEW M \in [Marks -> MarkState], NEW k \in Marks, NEW m \in MarkState,
         mark' = [M EXCEPT ![k] = m]
  PROVE  /\ mark' \in [Marks -> MarkState] /\ mark'[k] = m
         /\ \A j \in Marks \ {k} : mark'[j] = M[j]
OBVIOUS

LEMMA Blank ==
  /\ Nothing \in Lists /\ \A n \in Rows : Nothing[n] = "none"
  /\ NoFetch \in FetchState /\ NewFetch \in FetchState /\ NoMark \in MarkState
  /\ NewFetch.items = Nothing /\ NewFetch.sent /\ ~NewFetch.itemsRead /\ ~NewFetch.countRead
  /\ ~NewFetch.crossed
  /\ NoFetch.items = Nothing /\ ~NoFetch.sent /\ ~NoFetch.itemsRead /\ ~NoFetch.countRead
  /\ ~NoFetch.crossed /\ NoMark.at = "idle" /\ ~NoMark.crossed
<1>1. Nothing \in Lists /\ \A n \in Rows : Nothing[n] = "none"
  BY DEF Nothing, Lists, Flag
<1>2. 0 \in 0..MaxRows
  BY BadgeBound
<1>3. NoFetch \in FetchState
  BY <1>1, <1>2 DEF NoFetch, FetchState
<1>4. /\ NoFetch.items = Nothing /\ NoFetch.sent = FALSE /\ NoFetch.itemsRead = FALSE
      /\ NoFetch.countRead = FALSE /\ NoFetch.crossed = FALSE
  BY DEF NoFetch
<1>5. NewFetch \in FetchState
  BY <1>3 DEF NewFetch, FetchState
<1>6. /\ NewFetch.items = Nothing /\ NewFetch.sent = TRUE /\ NewFetch.itemsRead = FALSE
      /\ NewFetch.countRead = FALSE /\ NewFetch.crossed = FALSE
  BY <1>3, <1>4 DEF NewFetch, FetchState
<1>7. NoMark \in MarkState /\ NoMark.at = "idle" /\ NoMark.crossed = FALSE
  BY <1>2 DEF NoMark, MarkState
<1> QED BY <1>1, <1>3, <1>4, <1>5, <1>6, <1>7

LEMMA RefetchEffect ==
  ASSUME BadgeTypeOK
  PROVE  Refetch \in FetchState /\ Refetch.sent /\ (Refetch = fetch \/ Refetch = NewFetch)
BY Blank DEF Refetch, BadgeTypeOK

(* What the steps of a mark do to it.                                       *)
LEMMA MarkEffect ==
  ASSUME BadgeTypeOK, NEW k \in Marks, NEW ids \in SUBSET Rows, Mark(k, ids)
  PROVE  /\ mark' \in [Marks -> MarkState] /\ mark'[k].at = "sent" /\ ~mark'[k].crossed
         /\ mark[k] = NoMark
         /\ \A j \in Marks \ {k} : mark'[j] = mark[j]
<1>1. PICK m : m = [NoMark EXCEPT !.at = "sent", !.ids = ids]
  OBVIOUS
<1>2. NoMark \in MarkState /\ ~NoMark.crossed
  BY Blank
<1>3. m \in MarkState /\ m.at = "sent" /\ ~m.crossed
  BY <1>1, <1>2 DEF MarkState
<1>4. mark' = [mark EXCEPT ![k] = m] /\ mark[k] = NoMark /\ mark \in [Marks -> MarkState]
  BY <1>1 DEF Mark, BadgeTypeOK
<1> QED BY <1>3, <1>4, MarkSet

LEMMA WriteEffect ==
  ASSUME BadgeTypeOK, NEW k \in Marks, MarkWrite(k)
  PROVE  /\ mark' \in [Marks -> MarkState] /\ mark[k] \in MarkState
         /\ mark'[k].at = "written" /\ mark'[k].ids = mark[k].ids
         /\ mark'[k].crossed <=> Underway # {}
         /\ \A j \in Marks \ {k} : mark'[j] = CrossMark[j]
<1>1. PICK m : m = [mark[k] EXCEPT !.at = "written", !.crossed = Underway # {}]
  OBVIOUS
<1>2. mark[k] \in MarkState
  BY DEF BadgeTypeOK
<1>3. m \in MarkState /\ m.at = "written" /\ m.ids = mark[k].ids /\ (m.crossed <=> Underway # {})
  BY <1>1, <1>2 DEF MarkState
<1>4. mark' = [CrossMark EXCEPT ![k] = m] /\ CrossMark \in [Marks -> MarkState]
  BY <1>1, MarksCrossed DEF MarkWrite
<1> QED BY <1>2, <1>3, <1>4, MarkSet

LEMMA CountEffect ==
  ASSUME BadgeTypeOK, NEW k \in Marks, MarkCount(k)
  PROVE  /\ mark' \in [Marks -> MarkState] /\ mark[k].at = "written"
         /\ mark'[k].at = "counted" /\ mark'[k].ids = mark[k].ids
         /\ mark'[k].count = Unread(docs) /\ mark'[k].crossed = mark[k].crossed
         /\ \A j \in Marks \ {k} : mark'[j] = mark[j]
<1>1. PICK m : m = [mark[k] EXCEPT !.at = "counted", !.count = Unread(docs)]
  OBVIOUS
<1>2. mark \in [Marks -> MarkState] /\ mark[k] \in MarkState /\ Unread(docs) \in 0..MaxRows
  BY UnreadType DEF BadgeTypeOK
<1>3. /\ m \in MarkState /\ m.at = "counted" /\ m.ids = mark[k].ids
      /\ m.count = Unread(docs) /\ m.crossed = mark[k].crossed
  BY <1>1, <1>2 DEF MarkState
<1>4. mark' = [mark EXCEPT ![k] = m] /\ mark[k].at = "written"
  BY <1>1, <1>2 DEF MarkCount
<1> QED BY <1>2, <1>3, <1>4, MarkSet

LEMMA DoneEffect ==
  ASSUME BadgeTypeOK, NEW k \in Marks, mark' = [mark EXCEPT ![k] = NoMark]
  PROVE  /\ mark' \in [Marks -> MarkState] /\ mark'[k].at = "idle" /\ ~mark'[k].crossed
         /\ \A j \in Marks \ {k} : mark'[j] = mark[j]
<1>1. mark \in [Marks -> MarkState] /\ NoMark \in MarkState /\ NoMark.at = "idle" /\ ~NoMark.crossed
  BY Blank DEF BadgeTypeOK
<1> QED BY <1>1, MarkSet

LEMMA TypeStays ==
  ASSUME BadgeTypeOK, [BadgeNext]_badgeVars
  PROVE  BadgeTypeOK'
<1>1. CASE UNCHANGED badgeVars
  BY <1>1 DEF badgeVars, serverVars, storeVars, bounds, BadgeTypeOK
<1>2. ASSUME NEW n \in Rows, Notify(n) PROVE BadgeTypeOK'
  BY <1>2, CrossEffect, MarksCrossed, BadgeBound DEF Notify, storeVars, bounds, Crossing, BadgeTypeOK, Lists,
      Flag
<1>3. ASSUME NEW n \in Rows, AnnounceCreated(n) PROVE BadgeTypeOK'
  BY <1>3, CrossEffect, MarksCrossed, BadgeBound DEF AnnounceCreated, storeVars, bounds, BadgeTypeOK
<1>4. ASSUME NEW n \in Rows, AnnounceLost(n) PROVE BadgeTypeOK'
  BY <1>4, CrossEffect, MarksCrossed, BadgeBound DEF AnnounceLost, storeVars, Fault, BadgeTypeOK
<1>5. ASSUME NEW n \in Rows, ReadElsewhere(n) PROVE BadgeTypeOK'
  BY <1>5, CrossEffect, MarksCrossed, BadgeBound DEF ReadElsewhere, storeVars, Fault, Crossing, BadgeTypeOK,
      Lists, Flag
<1>6. ASSUME Register PROVE BadgeTypeOK'
  BY <1>6, CrossEffect, MarksCrossed, BadgeBound DEF Register, serverVars, storeVars, bounds, BadgeTypeOK
<1>7. ASSUME Greet PROVE BadgeTypeOK'
  BY <1>7, CrossEffect, MarksCrossed, BadgeBound DEF Greet, serverVars, storeVars, bounds, BadgeTypeOK, Greeting
<1>8. ASSUME Drop PROVE BadgeTypeOK'
  BY <1>8, CrossEffect, MarksCrossed, BadgeBound DEF Drop, serverVars, storeVars, Fault, BadgeTypeOK
<1>9. ASSUME OnConnected(Refetch) PROVE BadgeTypeOK'
  BY <1>9, CrossEffect, MarksCrossed, BadgeBound, RefetchEffect DEF OnConnected, serverVars, storeVars, bounds,
      BadgeTypeOK
<1>10. ASSUME OnNotification PROVE BadgeTypeOK'
  BY <1>10, CrossEffect, MarksCrossed, BadgeBound DEF OnNotification, serverVars, bounds, Crossing, BadgeTypeOK,
      Lists, Flag, Greeting
<1>11. ASSUME ReadItems PROVE BadgeTypeOK'
  BY <1>11, CrossEffect, MarksCrossed, BadgeBound DEF ReadItems, serverVars, storeVars, bounds, BadgeTypeOK,
      FetchState
<1>12. ASSUME ReadCount PROVE BadgeTypeOK'
  BY <1>12, CrossEffect, MarksCrossed, BadgeBound, UnreadType DEF ReadCount, serverVars, storeVars, bounds,
      BadgeTypeOK, FetchState
<1>13. ASSUME FetchAnswered PROVE BadgeTypeOK'
  <2>1. fetch' \in FetchState /\ mark' \in [Marks -> MarkState]
    BY <1>13, Blank, CrossEffect, MarksCrossed DEF FetchAnswered, BadgeTypeOK
  <2>2. fetch.items \in Lists /\ fetch.count \in 0..MaxRows /\ fetch.crossed \in BOOLEAN
    BY DEF BadgeTypeOK, FetchState
  <2>3. data' \in [known: BOOLEAN, items: Lists, count: 0..MaxRows]
    BY <1>13, <2>2 DEF FetchAnswered
  <2>4. list' \in Lists /\ badge' \in Nat
    BY <1>13, <2>2, BadgeBound DEF FetchAnswered, BadgeTypeOK
  <2>5. crossed' \in BOOLEAN
    BY Zenon, <1>13, <2>2 DEF FetchAnswered, BadgeTypeOK
  <2> QED BY <1>13, <2>1, <2>3, <2>4, <2>5 DEF FetchAnswered, serverVars, bounds, BadgeTypeOK
<1>14. ASSUME FetchFailed PROVE BadgeTypeOK'
  BY <1>14, CrossEffect, MarksCrossed, BadgeBound, Blank DEF FetchFailed, serverVars, storeVars, Fault,
      BadgeTypeOK
<1>15. ASSUME NEW k \in Marks, NEW ids \in SUBSET Rows, Mark(k, ids) PROVE BadgeTypeOK'
  <2>1. mark' \in [Marks -> MarkState]
    BY <1>15, MarkEffect DEF BadgeTypeOK
  <2>2. marks' \in 0..MaxMarks
    BY <1>15, BadgeBound DEF Mark, Marks
  <2> QED BY <1>15, <2>1, <2>2 DEF Mark, serverVars, storeVars, BadgeTypeOK
<1>16. ASSUME NEW k \in Marks, MarkWrite(k) PROVE BadgeTypeOK'
  <2>1. mark' \in [Marks -> MarkState]
    BY <1>16, WriteEffect
  <2>2. docs' \in Lists /\ fetch' \in FetchState
    BY <1>16, ReadByType, CrossEffect DEF MarkWrite, BadgeTypeOK
  <2> QED BY <1>16, <2>1, <2>2 DEF MarkWrite, storeVars, bounds, BadgeTypeOK
<1>17. ASSUME NEW k \in Marks, MarkCount(k) PROVE BadgeTypeOK'
  <2>1. mark' \in [Marks -> MarkState]
    BY <1>17, CountEffect
  <2> QED BY <1>17, <2>1 DEF MarkCount, serverVars, storeVars, bounds, BadgeTypeOK
<1>18. ASSUME NEW k \in Marks, MarkAnswered(k) PROVE BadgeTypeOK'
  <2>1. mark' \in [Marks -> MarkState] /\ mark[k] \in MarkState
    BY <1>18, DoneEffect DEF MarkAnswered, BadgeTypeOK
  <2>2. list' \in Lists /\ fetch' \in FetchState
    BY <1>18, ReadByType, CrossEffect DEF MarkAnswered, BadgeTypeOK
  <2>3. badge' \in Nat /\ crossed' \in BOOLEAN
    BY <1>18, <2>1, BadgeBound DEF MarkAnswered, MarkState
  <2> QED BY <1>18, <2>1, <2>2, <2>3 DEF MarkAnswered, serverVars, bounds, BadgeTypeOK
<1>19. ASSUME NEW k \in Marks, MarkFails(k) PROVE BadgeTypeOK'
  <2>1. mark' \in [Marks -> MarkState]
    BY <1>19, DoneEffect DEF MarkFails
  <2>2. crossed' \in BOOLEAN
    BY <1>19 DEF MarkFails
  <2>3. faults' \in 0..MaxFaults
    BY <1>19, BadgeBound DEF MarkFails, Fault, BadgeTypeOK
  <2> QED BY <1>19, <2>1, <2>2, <2>3 DEF MarkFails, serverVars, storeVars, BadgeTypeOK
<1> QED BY <1>1, <1>2, <1>3, <1>4, <1>5, <1>6, <1>7, <1>8, <1>9, <1>10, <1>11, <1>12, <1>13,
    <1>14, <1>15, <1>16, <1>17, <1>18, <1>19 DEF BadgeNext

LEMMA WireTyped == BadgeTypeOK => wire \in Seq(Frames)
BY DEF BadgeTypeOK, Frames

LEMMA WireStays ==
  ASSUME wire' = wire PROVE (\A f : OnWire(f)' <=> OnWire(f)) /\ (Once => Once')
BY DEF OnWire, Once

LEMMA WireCut ==
  ASSUME wire' = <<>> PROVE (\A f : ~OnWire(f)') /\ Once'
BY DEF OnWire, Once

LEMMA ToldStays ==
  ASSUME BadgeTypeOK, Told, [BadgeNext]_badgeVars
  PROVE  Told'
<1>1. CASE UNCHANGED badgeVars
  BY <1>1 DEF badgeVars, serverVars, storeVars, bounds, Told, OnWire, Once
<1>2. ASSUME NEW n \in Rows, Notify(n) PROVE Told'
  BY <1>2, WireStays DEF Notify, storeVars, bounds, Crossing, Told, BadgeTypeOK, Lists
<1>3. ASSUME NEW n \in Rows, AnnounceCreated(n) PROVE Told'
  <2>1. CASE conn = "off"
    BY <1>3, <2>1, WireStays DEF AnnounceCreated, Told
  <2>2. CASE conn # "off"
    <3>1. wire' = Append(wire, n) /\ n \in Frames /\ ~OnWire(n)
      BY <1>3, <2>2 DEF AnnounceCreated, Frames, Told
    <3>2. Once' /\ \A f : OnWire(f)' <=> OnWire(f) \/ f = n
      BY <3>1, WireTyped, WireGrows, OnceGrows DEF Told
    <3> QED BY <1>3, <3>2 DEF AnnounceCreated, Told
  <2> QED BY <2>1, <2>2
<1>4. ASSUME NEW n \in Rows, AnnounceLost(n) PROVE Told'
  BY <1>4, WireStays DEF AnnounceLost, storeVars, Fault, Told
<1>5. ASSUME NEW n \in Rows, ReadElsewhere(n) PROVE Told'
  BY <1>5, WireStays DEF ReadElsewhere, storeVars, Fault, Crossing, Told, BadgeTypeOK, Lists
<1>6. ASSUME Register PROVE Told'
  BY <1>6, WireStays DEF Register, serverVars, storeVars, bounds, Told
<1>7. ASSUME Greet PROVE Told'
  <2>1. wire' = Append(wire, Greeting) /\ Greeting \in Frames
    BY <1>7 DEF Greet, Frames
  <2>2. Once' /\ \A f : OnWire(f)' <=> OnWire(f) \/ f = Greeting
    BY <2>1, WireTyped, WireGrows, OnceGrows DEF Told
  <2>3. Greeting \notin Rows
    BY BadgeBound DEF Rows, Greeting
  <2> QED BY <1>7, <2>2, <2>3 DEF Greet, serverVars, Told
<1>8. ASSUME Drop PROVE Told'
  BY <1>8, WireCut DEF Drop, serverVars, storeVars, Fault, Told
<1>9. ASSUME OnConnected(Refetch) PROVE Told'
  <2>1. Once' /\ (\A f \in Frames \ {Head(wire)} : OnWire(f)' <=> OnWire(f)) /\ Head(wire) = Greeting
    BY <1>9, WireTyped, WireShrinks DEF OnConnected, Told
  <2>2. Greeting \notin Rows
    BY BadgeBound DEF Rows, Greeting
  <2> QED BY <1>9, <2>1, <2>2 DEF OnConnected, serverVars, Told, Frames
<1>10. ASSUME OnNotification PROVE Told'
  <2>1. /\ Once' /\ (\A f \in Frames \ {Head(wire)} : OnWire(f)' <=> OnWire(f))
        /\ \A f : f = Head(wire) /\ f # Greeting => ~OnWire(f)'
    BY <1>10, WireTyped, WireShrinks DEF OnNotification, Told
  <2> QED BY <1>10, <2>1 DEF OnNotification, serverVars, Told, Frames
<1>11. ASSUME ReadItems PROVE Told'
  BY <1>11, WireStays DEF ReadItems, serverVars, storeVars, bounds, Told
<1>12. ASSUME ReadCount PROVE Told'
  BY <1>12, WireStays DEF ReadCount, serverVars, storeVars, bounds, Told
<1>13. ASSUME FetchAnswered PROVE Told'
  BY <1>13, WireStays DEF FetchAnswered, serverVars, bounds, Told
<1>14. ASSUME FetchFailed PROVE Told'
  BY <1>14, WireStays DEF FetchFailed, serverVars, storeVars, Fault, Told
<1>15. ASSUME NEW k \in Marks, NEW ids \in SUBSET Rows, Mark(k, ids) PROVE Told'
  BY <1>15, WireStays DEF Mark, serverVars, storeVars, Told
<1>16. ASSUME NEW k \in Marks, MarkWrite(k) PROVE Told'
  BY <1>16, WireStays, ReadByType DEF MarkWrite, storeVars, bounds, Told, BadgeTypeOK
<1>17. ASSUME NEW k \in Marks, MarkCount(k) PROVE Told'
  BY <1>17, WireStays DEF MarkCount, serverVars, storeVars, bounds, Told
<1>18. ASSUME NEW k \in Marks, MarkAnswered(k) PROVE Told'
  BY <1>18, WireStays DEF MarkAnswered, serverVars, bounds, Told
<1>19. ASSUME NEW k \in Marks, MarkFails(k) PROVE Told'
  BY <1>19, WireStays DEF MarkFails, serverVars, storeVars, Told
<1> QED BY <1>1, <1>2, <1>3, <1>4, <1>5, <1>6, <1>7, <1>8, <1>9, <1>10, <1>11, <1>12, <1>13,
    <1>14, <1>15, <1>16, <1>17, <1>18, <1>19 DEF BadgeNext

(* What each step does to the rows whose push is under way.                 *)
LEMMA UnderwaySame ==
  ASSUME docs' = docs, announced' = announced, \A n \in Rows : OnWire(n)' <=> OnWire(n)
  PROVE  Underway' = Underway
BY DEF Underway, OnWire

LEMMA NotifyUnderway ==
  ASSUME BadgeTypeOK, Told, NEW n \in Rows, Notify(n)
  PROVE  n \notin Underway /\ Underway' = Underway \cup {n}
<1>1. n \notin announced /\ docs[n] = "none"
  BY DEF Notify, Told
<1>2. docs' = [docs EXCEPT ![n] = "unread"] /\ announced' = announced /\ wire' = wire /\ docs \in Lists
  BY DEF Notify, BadgeTypeOK
<1>3. \A m \in Rows : m \in Underway' <=> m \in Underway \/ m = n
  BY <1>1, <1>2 DEF Underway, Lists
<1> QED BY <1>1, <1>3 DEF Underway

LEMMA AnnounceUnderway ==
  ASSUME BadgeTypeOK, Told, NEW n \in Rows, AnnounceCreated(n)
  PROVE  n \in Underway /\ (conn # "off" => Underway' = Underway)
<1>1. n \in Underway
  BY DEF AnnounceCreated, Underway
<1>2. ASSUME conn # "off" PROVE Underway' = Underway
  <2>1. wire' = Append(wire, n) /\ n \in Frames /\ announced' = announced \cup {n} /\ docs' = docs
    BY <1>2 DEF AnnounceCreated, Frames
  <2>2. \A f : OnWire(f)' <=> OnWire(f) \/ f = n
    BY <2>1, WireTyped, WireGrows
  <2>3. \A m \in Rows : m \in Underway' <=> m \in Underway
    BY <1>1, <2>1, <2>2 DEF Underway, OnWire
  <2> QED BY <2>3 DEF Underway
<1> QED BY <1>1, <1>2

LEMMA WireUnderway ==
  ASSUME BadgeTypeOK, Told, Greet \/ OnConnected(Refetch)
  PROVE  Underway' = Underway
<1>0. Greeting \notin Rows
  BY BadgeBound DEF Rows, Greeting
<1>1. CASE Greet
  BY <1>0, <1>1, WireTyped, WireGrows, UnderwaySame DEF Greet, serverVars, Frames
<1>2. CASE OnConnected(Refetch)
  <2>1. (\A f \in Frames \ {Head(wire)} : OnWire(f)' <=> OnWire(f)) /\ Head(wire) = Greeting
    BY <1>2, WireTyped, WireShrinks DEF OnConnected, Told
  <2> QED BY <1>0, <1>2, <2>1, UnderwaySame DEF OnConnected, serverVars, Frames
<1> QED BY <1>1, <1>2

LEMMA ReceiveUnderway ==
  ASSUME BadgeTypeOK, Told, OnNotification
  PROVE  /\ Head(wire) \in Rows /\ Head(wire) \in Underway
         /\ Underway' = Underway \ {Head(wire)}
<1>1. PICK h : h = Head(wire)
  OBVIOUS
<1>2. /\ h \in Frames /\ OnWire(h) /\ h # Greeting
      /\ \A f \in Frames \ {h} : OnWire(f)' <=> OnWire(f)
      /\ ~OnWire(h)'
  BY <1>1, WireTyped, WireShrinks DEF OnNotification, Told
<1>3. h \in Rows /\ h \in announced /\ docs[h] # "none"
  BY <1>2 DEF Told, Frames
<1>4. h \in Underway
  BY <1>2, <1>3 DEF Underway, OnWire
<1>5. docs' = docs /\ announced' = announced
  BY DEF OnNotification, serverVars
<1>6. \A m \in Rows : m \in Underway' <=> m \in Underway /\ m # h
  <2> SUFFICES ASSUME NEW m \in Rows PROVE m \in Underway' <=> m \in Underway /\ m # h
    OBVIOUS
  <2>1. m \in Underway' <=> docs[m] # "none" /\ (m \notin announced \/ OnWire(m)')
    BY <1>5 DEF Underway, OnWire
  <2>2. m \in Underway <=> docs[m] # "none" /\ (m \notin announced \/ OnWire(m))
    BY DEF Underway, OnWire
  <2> QED BY <1>2, <1>3, <2>1, <2>2 DEF Frames
<1>7. Underway \in SUBSET Rows /\ Underway' \in SUBSET Rows
  BY DEF Underway
<1> QED BY <1>1, <1>3, <1>4, <1>6, <1>7

LEMMA DropUnderway ==
  ASSUME Drop PROVE Underway' \subseteq Underway
BY DEF Drop, serverVars, Underway

LEMMA MarkUnderway ==
  ASSUME BadgeTypeOK, NEW k \in Marks, MarkWrite(k) PROVE Underway' = Underway
<1>1. docs' = ReadBy(docs, mark[k].ids) /\ announced' = announced /\ wire' = wire /\ docs \in Lists
  BY DEF MarkWrite, BadgeTypeOK
<1>2. \A n \in Rows : (docs'[n] = "none") <=> (docs[n] = "none")
  BY <1>1, ReadByType
<1> QED BY <1>1, <1>2 DEF Underway

(* What was read stays behind while rows only grow.                         *)
Growing ==
  \A n \in Rows : /\ docs[n] # "none" => docs'[n] # "none"
                  /\ docs[n] = "read" => docs'[n] = "read"

LEMMA RowsGrow ==
  ASSUME BadgeTypeOK, [BadgeNext]_badgeVars
  PROVE  Growing
<1>1. CASE UNCHANGED badgeVars
  BY <1>1 DEF badgeVars, serverVars, storeVars, bounds, Growing
<1>2. ASSUME NEW n \in Rows, Notify(n) PROVE Growing
  BY <1>2 DEF Notify, storeVars, bounds, Crossing, Growing, BadgeTypeOK, Lists
<1>3. ASSUME NEW n \in Rows, AnnounceCreated(n) PROVE Growing
  BY <1>3 DEF AnnounceCreated, storeVars, bounds, Growing
<1>4. ASSUME NEW n \in Rows, AnnounceLost(n) PROVE Growing
  BY <1>4 DEF AnnounceLost, storeVars, Fault, Growing
<1>5. ASSUME NEW n \in Rows, ReadElsewhere(n) PROVE Growing
  BY <1>5 DEF ReadElsewhere, storeVars, Fault, Crossing, Growing, BadgeTypeOK, Lists
<1>6. ASSUME Register PROVE Growing
  BY <1>6 DEF Register, serverVars, storeVars, bounds, Growing
<1>7. ASSUME Greet PROVE Growing
  BY <1>7 DEF Greet, serverVars, storeVars, bounds, Growing
<1>8. ASSUME Drop PROVE Growing
  BY <1>8 DEF Drop, serverVars, storeVars, Fault, Growing
<1>9. ASSUME OnConnected(Refetch) PROVE Growing
  BY <1>9 DEF OnConnected, serverVars, storeVars, bounds, Growing
<1>10. ASSUME OnNotification PROVE Growing
  BY <1>10 DEF OnNotification, serverVars, bounds, Crossing, Growing
<1>11. ASSUME ReadItems PROVE Growing
  BY <1>11 DEF ReadItems, serverVars, storeVars, bounds, Growing
<1>12. ASSUME ReadCount PROVE Growing
  BY <1>12 DEF ReadCount, serverVars, storeVars, bounds, Growing
<1>13. ASSUME FetchAnswered PROVE Growing
  BY <1>13 DEF FetchAnswered, serverVars, bounds, Growing
<1>14. ASSUME FetchFailed PROVE Growing
  BY <1>14 DEF FetchFailed, serverVars, storeVars, Fault, Growing
<1>15. ASSUME NEW k \in Marks, NEW ids \in SUBSET Rows, Mark(k, ids) PROVE Growing
  BY <1>15 DEF Mark, serverVars, storeVars, Growing
<1>16. ASSUME NEW k \in Marks, MarkWrite(k) PROVE Growing
  BY <1>16, ReadByType DEF MarkWrite, storeVars, bounds, Growing, BadgeTypeOK, Lists
<1>17. ASSUME NEW k \in Marks, MarkCount(k) PROVE Growing
  BY <1>17 DEF MarkCount, serverVars, storeVars, bounds, Growing
<1>18. ASSUME NEW k \in Marks, MarkAnswered(k) PROVE Growing
  BY <1>18 DEF MarkAnswered, serverVars, bounds, Growing
<1>19. ASSUME NEW k \in Marks, MarkFails(k) PROVE Growing
  BY <1>19 DEF MarkFails, serverVars, storeVars, Growing
<1> QED BY <1>1, <1>2, <1>3, <1>4, <1>5, <1>6, <1>7, <1>8, <1>9, <1>10, <1>11, <1>12, <1>13,
    <1>14, <1>15, <1>16, <1>17, <1>18, <1>19 DEF BadgeNext

LEMMA AgingStays ==
  ASSUME BadgeTypeOK, Aging, [BadgeNext]_badgeVars
  PROVE  Aging'
<1>1. CASE UNCHANGED badgeVars
  BY <1>1 DEF badgeVars, serverVars, storeVars, bounds, Growing, Aging, Behind
<1>2. ASSUME NEW n \in Rows, Notify(n) PROVE Aging'
  BY <1>2, CrossEffect, RowsGrow DEF Notify, storeVars, bounds, Crossing, Growing, Aging, Behind
<1>3. ASSUME NEW n \in Rows, AnnounceCreated(n) PROVE Aging'
  BY <1>3, CrossEffect, RowsGrow DEF AnnounceCreated, storeVars, bounds, Growing, Aging, Behind
<1>4. ASSUME NEW n \in Rows, AnnounceLost(n) PROVE Aging'
  BY <1>4, CrossEffect, RowsGrow DEF AnnounceLost, storeVars, Fault, Growing, Aging, Behind
<1>5. ASSUME NEW n \in Rows, ReadElsewhere(n) PROVE Aging'
  BY <1>5, CrossEffect, RowsGrow DEF ReadElsewhere, storeVars, Fault, Crossing, Growing, Aging,
      Behind
<1>6. ASSUME Register PROVE Aging'
  BY <1>6, CrossEffect, RowsGrow DEF Register, serverVars, storeVars, bounds, Growing, Aging,
      Behind
<1>7. ASSUME Greet PROVE Aging'
  BY <1>7, CrossEffect, RowsGrow DEF Greet, serverVars, storeVars, bounds, Growing, Aging, Behind
<1>8. ASSUME Drop PROVE Aging'
  BY <1>8, CrossEffect, RowsGrow DEF Drop, serverVars, storeVars, Fault, Growing, Aging, Behind
<1>9. ASSUME OnConnected(Refetch) PROVE Aging'
  BY <1>9, CrossEffect, RowsGrow, RefetchEffect, Blank DEF OnConnected, serverVars, storeVars,
      bounds, Growing, Aging, Behind
<1>10. ASSUME OnNotification PROVE Aging'
  BY <1>10, CrossEffect, RowsGrow DEF OnNotification, serverVars, bounds, Crossing, Growing,
      Aging, Behind
<1>11. ASSUME ReadItems PROVE Aging'
  BY <1>11, CrossEffect, RowsGrow DEF ReadItems, serverVars, storeVars, bounds, Growing, Aging,
      Behind, BadgeTypeOK, FetchState, Lists, Flag
<1>12. ASSUME ReadCount PROVE Aging'
  BY <1>12, CrossEffect, RowsGrow DEF ReadCount, serverVars, storeVars, bounds, Growing, Aging,
      Behind, BadgeTypeOK, FetchState
<1>13. ASSUME FetchAnswered PROVE Aging'
  BY <1>13, CrossEffect, RowsGrow, Blank DEF FetchAnswered, serverVars, bounds, Growing, Aging,
      Behind
<1>14. ASSUME FetchFailed PROVE Aging'
  BY <1>14, CrossEffect, RowsGrow, Blank DEF FetchFailed, serverVars, storeVars, Fault, Growing,
      Aging, Behind
<1>15. ASSUME NEW k \in Marks, NEW ids \in SUBSET Rows, Mark(k, ids) PROVE Aging'
  BY <1>15, RowsGrow DEF Mark, serverVars, storeVars, Growing, Aging, Behind
<1>16. ASSUME NEW k \in Marks, MarkWrite(k) PROVE Aging'
  BY <1>16, CrossEffect, RowsGrow DEF MarkWrite, storeVars, bounds, Growing, Aging, Behind
<1>17. ASSUME NEW k \in Marks, MarkCount(k) PROVE Aging'
  BY <1>17, RowsGrow DEF MarkCount, serverVars, storeVars, bounds, Growing, Aging, Behind
<1>18. ASSUME NEW k \in Marks, MarkAnswered(k) PROVE Aging'
  BY <1>18, CrossEffect, RowsGrow DEF MarkAnswered, serverVars, bounds, Growing, Aging, Behind
<1>19. ASSUME NEW k \in Marks, MarkFails(k) PROVE Aging'
  BY <1>19, RowsGrow DEF MarkFails, serverVars, storeVars, Growing, Aging, Behind
<1> QED BY <1>1, <1>2, <1>3, <1>4, <1>5, <1>6, <1>7, <1>8, <1>9, <1>10, <1>11, <1>12, <1>13,
    <1>14, <1>15, <1>16, <1>17, <1>18, <1>19 DEF BadgeNext

LEMMA UnderwayStays ==
  UNCHANGED <<docs, announced, wire>> => Underway' = Underway
BY DEF Underway

LEMMA ReadEffect ==
  ASSUME BadgeTypeOK
  PROVE  /\ ReadItems => /\ fetch'.items = docs /\ fetch'.itemsRead = TRUE
                         /\ fetch'.count = fetch.count
                         /\ fetch'.countRead = fetch.countRead /\ fetch'.sent = fetch.sent
                         /\ fetch'.crossed <=> fetch.crossed \/ Underway # {}
         /\ ReadCount => /\ fetch'.count = Unread(docs) /\ fetch'.countRead = TRUE
                         /\ fetch'.items = fetch.items
                         /\ fetch'.itemsRead = fetch.itemsRead /\ fetch'.sent = fetch.sent
                         /\ fetch'.crossed <=> fetch.crossed \/ Underway # {}
BY Zenon, SMT DEF BadgeTypeOK, FetchState, ReadItems, ReadCount

(* A change crosses a fetch that has begun to read.                         *)
LEMMA CrossedFetch ==
  ASSUME BadgeTypeOK, fetch' = CrossFetch PROVE FetchTrue'
<1>1. ~CrossFetch.crossed => ~CrossFetch.itemsRead /\ ~CrossFetch.countRead
  BY CrossEffect
<1>2. ~fetch'.crossed => ~fetch'.itemsRead /\ ~fetch'.countRead
  BY <1>1
<1> QED BY <1>2 DEF FetchTrue, Reading

(* It stays true while the rows and what is under way do not change.        *)
LEMMA FetchTrueStays ==
  ASSUME FetchTrue, fetch' = fetch, docs' = docs, Underway' \subseteq Underway
  PROVE  FetchTrue'
<1>1. Underway = {} => Underway' = {}
  OBVIOUS
<1> QED BY <1>1 DEF FetchTrue, Reading

LEMMA FreshFetch ==
  ASSUME ~fetch'.itemsRead, ~fetch'.countRead PROVE FetchTrue'
BY DEF FetchTrue, Reading

LEMMA FetchStaysTrue ==
  ASSUME BadgeTypeOK, Told, FetchTrue, [BadgeNext]_badgeVars
  PROVE  FetchTrue'
<1>1. CASE UNCHANGED badgeVars
  BY <1>1 DEF badgeVars, serverVars, storeVars, bounds, FetchTrue, Reading, Underway
<1>2. ASSUME NEW n \in Rows, Notify(n) PROVE FetchTrue'
  BY <1>2, CrossedFetch DEF Notify, Crossing
<1>3. ASSUME NEW n \in Rows, AnnounceCreated(n) PROVE FetchTrue'
  <2>1. ~fetch.crossed => ~fetch.itemsRead /\ ~fetch.countRead
    BY <1>3, AnnounceUnderway DEF FetchTrue, Reading
  <2> QED BY <1>3, <2>1 DEF AnnounceCreated, FetchTrue, Reading
<1>4. ASSUME NEW n \in Rows, AnnounceLost(n) PROVE FetchTrue'
  <2>1. n \in Underway
    BY <1>4 DEF AnnounceLost, Underway
  <2>2. ~fetch.crossed => ~fetch.itemsRead /\ ~fetch.countRead
    BY <2>1 DEF FetchTrue, Reading
  <2> QED BY <1>4, <2>2 DEF AnnounceLost, FetchTrue, Reading
<1>5. ASSUME NEW n \in Rows, ReadElsewhere(n) PROVE FetchTrue'
  BY <1>5, CrossedFetch DEF ReadElsewhere, Crossing
<1>6. ASSUME Register PROVE FetchTrue'
  BY <1>6, UnderwayStays, FetchTrueStays DEF Register, serverVars
<1>7. ASSUME Greet PROVE FetchTrue'
  BY <1>7, WireUnderway, FetchTrueStays DEF Greet, serverVars
<1>8. ASSUME Drop PROVE FetchTrue'
  BY <1>8, DropUnderway, FetchTrueStays DEF Drop, serverVars
<1>9. ASSUME OnConnected(Refetch) PROVE FetchTrue'
  <2>1. Underway' = Underway /\ docs' = docs /\ fetch' = Refetch
    BY <1>9, WireUnderway DEF OnConnected, serverVars
  <2>2. CASE fetch' = fetch
    BY <2>1, <2>2, FetchTrueStays
  <2>3. CASE fetch' = NewFetch
    BY <2>3, Blank, FreshFetch
  <2> QED BY <2>1, <2>2, <2>3, RefetchEffect
<1>10. ASSUME OnNotification PROVE FetchTrue'
  BY <1>10, CrossedFetch DEF OnNotification, Crossing
<1>11. ASSUME ReadItems PROVE FetchTrue'
  <2>1. Underway' = Underway /\ docs' = docs
    BY <1>11, UnderwayStays DEF ReadItems, serverVars
  <2> QED BY <1>11, <2>1, ReadEffect DEF FetchTrue, Reading
<1>12. ASSUME ReadCount PROVE FetchTrue'
  <2>1. Underway' = Underway /\ docs' = docs
    BY <1>12, UnderwayStays DEF ReadCount, serverVars
  <2> QED BY <1>12, <2>1, ReadEffect DEF FetchTrue, Reading
<1>13. ASSUME FetchAnswered PROVE FetchTrue'
  BY <1>13, Blank, FreshFetch DEF FetchAnswered
<1>14. ASSUME FetchFailed PROVE FetchTrue'
  BY <1>14, Blank, FreshFetch DEF FetchFailed
<1>15. ASSUME NEW k \in Marks, NEW ids \in SUBSET Rows, Mark(k, ids) PROVE FetchTrue'
  BY <1>15, UnderwayStays, FetchTrueStays DEF Mark, serverVars
<1>16. ASSUME NEW k \in Marks, MarkWrite(k) PROVE FetchTrue'
  BY <1>16, CrossedFetch DEF MarkWrite
<1>17. ASSUME NEW k \in Marks, MarkCount(k) PROVE FetchTrue'
  BY <1>17, UnderwayStays, FetchTrueStays DEF MarkCount, serverVars
<1>18. ASSUME NEW k \in Marks, MarkAnswered(k) PROVE FetchTrue'
  BY <1>18, CrossedFetch DEF MarkAnswered
<1>19. ASSUME NEW k \in Marks, MarkFails(k) PROVE FetchTrue'
  BY <1>19, UnderwayStays, FetchTrueStays DEF MarkFails, serverVars
<1> QED BY <1>1, <1>2, <1>3, <1>4, <1>5, <1>6, <1>7, <1>8, <1>9, <1>10, <1>11, <1>12, <1>13,
    <1>14, <1>15, <1>16, <1>17, <1>18, <1>19 DEF BadgeNext

LEMMA MarkTrueStays ==
  ASSUME MarkTrue, mark' = mark, docs' = docs, Underway' \subseteq Underway
  PROVE  MarkTrue'
<1>1. Underway = {} => Underway' = {}
  OBVIOUS
<1> QED BY <1>1 DEF MarkTrue, Marked

LEMMA CrossedMark ==
  ASSUME BadgeTypeOK, MarkTrue, mark' = CrossMark PROVE MarkTrue'
<1>1. \A k \in Marks : /\ Marked(k)' <=> Marked(k)
                       /\ Marked(k) => mark'[k].crossed
                       /\ ~Marked(k) => mark'[k] = mark[k]
  BY MarksCrossed DEF Marked
<1> QED BY <1>1 DEF MarkTrue

(* One mark takes a step that keeps the others as they are.                 *)
LEMMA OtherMarks ==
  ASSUME MarkTrue, NEW k \in Marks, docs' = docs, Underway' = Underway,
         \A j \in Marks \ {k} : mark'[j] = mark[j], ~Marked(k)', ~mark'[k].crossed
  PROVE  MarkTrue'
<1>1. \A j \in Marks \ {k} : (Marked(j)' <=> Marked(j)) /\ mark'[j] = mark[j]
  BY DEF Marked
<1> QED BY <1>1 DEF MarkTrue

LEMMA MarkStaysTrue ==
  ASSUME BadgeTypeOK, Told, MarkTrue, [BadgeNext]_badgeVars
  PROVE  MarkTrue'
<1>1. CASE UNCHANGED badgeVars
  BY <1>1 DEF badgeVars, serverVars, storeVars, bounds, MarkTrue, Marked, Underway
<1>2. ASSUME NEW n \in Rows, Notify(n) PROVE MarkTrue'
  BY <1>2, CrossedMark DEF Notify, Crossing
<1>3. ASSUME NEW n \in Rows, AnnounceCreated(n) PROVE MarkTrue'
  BY <1>3, AnnounceUnderway DEF AnnounceCreated, MarkTrue, Marked
<1>4. ASSUME NEW n \in Rows, AnnounceLost(n) PROVE MarkTrue'
  <2>1. n \in Underway
    BY <1>4 DEF AnnounceLost, Underway
  <2> QED BY <1>4, <2>1 DEF AnnounceLost, MarkTrue, Marked
<1>5. ASSUME NEW n \in Rows, ReadElsewhere(n) PROVE MarkTrue'
  BY <1>5, CrossedMark DEF ReadElsewhere, Crossing
<1>6. ASSUME Register PROVE MarkTrue'
  BY <1>6, UnderwayStays, MarkTrueStays DEF Register, serverVars
<1>7. ASSUME Greet PROVE MarkTrue'
  BY <1>7, WireUnderway, MarkTrueStays DEF Greet, serverVars
<1>8. ASSUME Drop PROVE MarkTrue'
  BY <1>8, DropUnderway, MarkTrueStays DEF Drop, serverVars
<1>9. ASSUME OnConnected(Refetch) PROVE MarkTrue'
  BY <1>9, WireUnderway, MarkTrueStays DEF OnConnected, serverVars
<1>10. ASSUME OnNotification PROVE MarkTrue'
  BY <1>10, CrossedMark DEF OnNotification, Crossing
<1>11. ASSUME ReadItems PROVE MarkTrue'
  BY <1>11, UnderwayStays, MarkTrueStays DEF ReadItems, serverVars
<1>12. ASSUME ReadCount PROVE MarkTrue'
  BY <1>12, UnderwayStays, MarkTrueStays DEF ReadCount, serverVars
<1>13. ASSUME FetchAnswered PROVE MarkTrue'
  BY <1>13, CrossedMark DEF FetchAnswered
<1>14. ASSUME FetchFailed PROVE MarkTrue'
  BY <1>14, UnderwayStays, MarkTrueStays DEF FetchFailed, serverVars
<1>15. ASSUME NEW k \in Marks, NEW ids \in SUBSET Rows, Mark(k, ids) PROVE MarkTrue'
  <2>1. ~Marked(k)' /\ ~mark'[k].crossed /\ \A j \in Marks \ {k} : mark'[j] = mark[j]
    BY <1>15, MarkEffect DEF Marked
  <2>2. docs' = docs /\ Underway' = Underway
    BY <1>15, UnderwayStays DEF Mark, serverVars
  <2> QED BY <2>1, <2>2, OtherMarks
<1>16. ASSUME NEW k \in Marks, MarkWrite(k) PROVE MarkTrue'
  <2>1. /\ mark'[k].at = "written" /\ mark'[k].ids = mark[k].ids
        /\ mark'[k].crossed <=> Underway # {}
        /\ mark[k] \in MarkState
        /\ \A j \in Marks \ {k} : mark'[j] = CrossMark[j]
    BY <1>16, WriteEffect
  <2>2. \A j \in Marks \ {k} : /\ Marked(j)' <=> Marked(j)
                               /\ Marked(j) => mark'[j].crossed
                               /\ ~Marked(j) => mark'[j] = mark[j]
    BY <2>1, MarksCrossed DEF Marked
  <2>3. Underway' = Underway
    BY <1>16, MarkUnderway
  <2>4. \A n \in mark'[k].ids : docs'[n] # "unread"
    BY <1>16, <2>1, ReadByType DEF MarkWrite, BadgeTypeOK, MarkState
  <2>5. Marked(k)' /\ ~Marked(k) /\ mark'[k].at # "counted"
    BY <1>16, <2>1 DEF MarkWrite, Marked
  <2> SUFFICES ASSUME NEW i \in Marks
               PROVE  /\ ~Marked(i)' => ~mark'[i].crossed
                      /\ Marked(i)' /\ ~mark'[i].crossed =>
                           /\ Underway' = {}
                           /\ \A n \in mark'[i].ids : docs'[n] # "unread"
                           /\ mark'[i].at = "counted" => mark'[i].count = Unread(docs')
                           /\ \A j \in Marks \ {i} : Marked(j)' => mark'[j].crossed
    BY DEF MarkTrue
  <2>6. CASE i = k
    BY <2>1, <2>2, <2>3, <2>4, <2>5, <2>6
  <2>7. CASE i # k
    <3>1. ~Marked(i)' => ~mark'[i].crossed
      BY <2>2, <2>7 DEF MarkTrue
    <3>2. Marked(i)' => mark'[i].crossed
      BY <2>2, <2>7
    <3> QED BY <3>1, <3>2
  <2> QED BY <2>6, <2>7
<1>17. ASSUME NEW k \in Marks, MarkCount(k) PROVE MarkTrue'
  <2>1. /\ mark'[k].at = "counted" /\ mark'[k].ids = mark[k].ids /\ mark'[k].count = Unread(docs)
        /\ mark'[k].crossed = mark[k].crossed /\ mark[k].at = "written"
        /\ \A j \in Marks \ {k} : mark'[j] = mark[j]
    BY <1>17, CountEffect
  <2>2. docs' = docs /\ Underway' = Underway
    BY <1>17, UnderwayStays DEF MarkCount, serverVars
  <2>3. \A j \in Marks : Marked(j)' <=> Marked(j)
    BY <2>1 DEF Marked
  <2>4. \A j \in Marks : mark'[j].crossed = mark[j].crossed /\ mark'[j].ids = mark[j].ids
    BY <2>1
  <2> QED BY <2>1, <2>2, <2>3, <2>4 DEF MarkTrue
<1>18. ASSUME NEW k \in Marks, MarkAnswered(k) PROVE MarkTrue'
  <2>1. ~Marked(k)' /\ ~mark'[k].crossed /\ \A j \in Marks \ {k} : mark'[j] = mark[j]
    BY <1>18, DoneEffect DEF MarkAnswered, Marked
  <2>2. docs' = docs /\ Underway' = Underway
    BY <1>18, UnderwayStays DEF MarkAnswered, serverVars
  <2> QED BY <2>1, <2>2, OtherMarks
<1>19. ASSUME NEW k \in Marks, MarkFails(k) PROVE MarkTrue'
  <2>1. ~Marked(k)' /\ ~mark'[k].crossed /\ \A j \in Marks \ {k} : mark'[j] = mark[j]
    BY <1>19, DoneEffect DEF MarkFails, Marked
  <2>2. docs' = docs /\ Underway' = Underway
    BY <1>19, UnderwayStays DEF MarkFails, serverVars
  <2> QED BY <2>1, <2>2, OtherMarks
<1> QED BY <1>1, <1>2, <1>3, <1>4, <1>5, <1>6, <1>7, <1>8, <1>9, <1>10, <1>11, <1>12, <1>13,
    <1>14, <1>15, <1>16, <1>17, <1>18, <1>19 DEF BadgeNext

LEMMA NothingToRead ==
  ASSUME NEW l \in Lists, NEW ids, \A n \in Rows : n \in ids => l[n] # "unread"
  PROVE  ReadBy(l, ids) = l
<1>1. \A n \in Rows : ReadBy(l, ids)[n] = l[n]
  BY DEF ReadBy
<1> QED BY <1>1 DEF ReadBy, Lists

LEMMA CacheShownStays ==
  ASSUME CacheShown, data' = data, docs' = docs, list' = list, badge' = badge,
         ~crossed' => ~crossed, Underway' \subseteq Underway
  PROVE  CacheShown'
<1>1. Underway = {} => Underway' = {}
  OBVIOUS
<1> QED BY <1>1 DEF CacheShown

LEMMA CacheStaysShown ==
  ASSUME BadgeTypeOK, Told, Aging, FetchTrue, MarkTrue, CacheShown, [BadgeNext]_badgeVars
  PROVE  CacheShown'
<1>1. CASE UNCHANGED badgeVars
  BY <1>1 DEF badgeVars, serverVars, storeVars, bounds, CacheShown, Underway
<1>2. ASSUME NEW n \in Rows, Notify(n) PROVE CacheShown'
  <2>1. docs[n] = "none" /\ docs'[n] = "unread" /\ data' = data
    BY <1>2 DEF Notify, BadgeTypeOK, Lists
  <2>2. data.items[n] \in Flag
    BY DEF BadgeTypeOK, Lists
  <2>3. data.items[n] = "none"
    BY <2>1, <2>2 DEF Aging, Behind, Flag
  <2> QED BY <2>1, <2>3 DEF CacheShown
<1>3. ASSUME NEW n \in Rows, AnnounceCreated(n) PROVE CacheShown'
  <2>1. n \in Underway
    BY <1>3, AnnounceUnderway
  <2> QED BY <1>3, <2>1 DEF AnnounceCreated, storeVars, CacheShown
<1>4. ASSUME NEW n \in Rows, AnnounceLost(n) PROVE CacheShown'
  BY <1>4 DEF AnnounceLost, CacheShown
<1>5. ASSUME NEW n \in Rows, ReadElsewhere(n) PROVE CacheShown'
  BY <1>5 DEF ReadElsewhere, CacheShown
<1>6. ASSUME Register PROVE CacheShown'
  BY <1>6, UnderwayStays, CacheShownStays DEF Register, serverVars, storeVars
<1>7. ASSUME Greet PROVE CacheShown'
  BY <1>7, WireUnderway, CacheShownStays DEF Greet, serverVars, storeVars
<1>8. ASSUME Drop PROVE CacheShown'
  BY <1>8, DropUnderway, CacheShownStays DEF Drop, serverVars, storeVars
<1>9. ASSUME OnConnected(Refetch) PROVE CacheShown'
  BY <1>9, WireUnderway, CacheShownStays DEF OnConnected, serverVars, storeVars
<1>10. ASSUME OnNotification PROVE CacheShown'
  <2>1. Underway # {}
    BY <1>10, ReceiveUnderway
  <2> QED BY <1>10, <2>1 DEF OnNotification, serverVars, CacheShown
<1>11. ASSUME ReadItems PROVE CacheShown'
  BY <1>11, UnderwayStays, CacheShownStays DEF ReadItems, serverVars, storeVars
<1>12. ASSUME ReadCount PROVE CacheShown'
  BY <1>12, UnderwayStays, CacheShownStays DEF ReadCount, serverVars, storeVars
<1>13. ASSUME FetchAnswered PROVE CacheShown'
  <2>1. Underway' = Underway /\ docs' = docs
    BY <1>13, UnderwayStays DEF FetchAnswered, serverVars
  <2>2. CASE data' = data
    BY <1>13, <2>1, <2>2, CacheShownStays DEF FetchAnswered
  <2>3. CASE data' # data
    <3>1. list' = fetch.items /\ badge' = fetch.count /\ crossed' = fetch.crossed
      BY <1>13, <2>3 DEF FetchAnswered
    <3>2. ~fetch.crossed => fetch.items = docs /\ fetch.count = Unread(docs) /\ Underway = {}
      BY <1>13 DEF FetchAnswered, FetchTrue, Reading
    <3> QED BY <2>1, <3>1, <3>2 DEF CacheShown
  <2> QED BY <2>2, <2>3
<1>14. ASSUME FetchFailed PROVE CacheShown'
  BY <1>14 DEF FetchFailed, CacheShown
<1>15. ASSUME NEW k \in Marks, NEW ids \in SUBSET Rows, Mark(k, ids) PROVE CacheShown'
  BY <1>15, UnderwayStays, CacheShownStays DEF Mark, serverVars, storeVars
<1>16. ASSUME NEW k \in Marks, MarkWrite(k) PROVE CacheShown'
  <2>1. Underway' = Underway
    BY <1>16, MarkUnderway
  <2>2. docs' = ReadBy(docs, mark[k].ids) /\ docs \in Lists /\ docs' \in Lists
    BY <1>16, ReadByType DEF MarkWrite, BadgeTypeOK
  <2>3. ASSUME data.items = docs' PROVE docs' = docs
    <3>1. ASSUME NEW n \in Rows PROVE docs'[n] = docs[n]
      <4>1. docs'[n] = IF n \in mark[k].ids /\ docs[n] = "unread" THEN "read" ELSE docs[n]
        BY <2>2 DEF ReadBy
      <4>2. docs'[n] = "read" => docs[n] = "read"
        BY <2>3 DEF Aging, Behind
      <4> QED BY <4>1, <4>2
    <3> QED BY <2>2, <3>1 DEF Lists
  <2> QED BY <1>16, <2>1, <2>3 DEF MarkWrite, storeVars, CacheShown
<1>17. ASSUME NEW k \in Marks, MarkCount(k) PROVE CacheShown'
  BY <1>17, UnderwayStays, CacheShownStays DEF MarkCount, serverVars, storeVars
<1>18. ASSUME NEW k \in Marks, MarkAnswered(k) PROVE CacheShown'
  <2>1. Underway' = Underway /\ docs' = docs /\ data' = data
    BY <1>18, UnderwayStays DEF MarkAnswered, serverVars
  <2>2. list' = ReadBy(list, mark[k].ids) /\ badge' = mark[k].count /\ mark[k].at = "counted"
    BY <1>18 DEF MarkAnswered
  <2>3. ~crossed' => ~crossed /\ ~mark[k].crossed
    BY <1>18 DEF MarkAnswered
  <2>4. ASSUME ~mark[k].crossed, list = docs PROVE list' = docs /\ badge' = Unread(docs)
    <3>1. (\A n \in mark[k].ids : docs[n] # "unread") /\ mark[k].count = Unread(docs)
      BY <2>2, <2>4 DEF MarkTrue, Marked
    <3>2. ReadBy(docs, mark[k].ids) = docs
      BY <3>1, NothingToRead DEF BadgeTypeOK
    <3> QED BY <2>2, <2>4, <3>1, <3>2
  <2> QED BY <2>1, <2>3, <2>4 DEF CacheShown
<1>19. ASSUME NEW k \in Marks, MarkFails(k) PROVE CacheShown'
  BY <1>19, UnderwayStays, CacheShownStays DEF MarkFails, serverVars, storeVars
<1> QED BY <1>1, <1>2, <1>3, <1>4, <1>5, <1>6, <1>7, <1>8, <1>9, <1>10, <1>11, <1>12, <1>13,
    <1>14, <1>15, <1>16, <1>17, <1>18, <1>19 DEF BadgeNext

LEMMA FollowedStays ==
  ASSUME Followed, docs' = docs, mark' = mark, list' = list, badge' = badge,
         Underway' = Underway, ~crossed' /\ ~Awaited' => ~crossed /\ ~Awaited
  PROVE  Followed'
<1>1. (Plain' <=> Plain) /\ (Quiet' <=> Quiet) /\ Coming' = Coming
  BY DEF Marked, Coming, Read, Plain, Quiet
<1> QED BY <1>1 DEF Followed

(* A change leaves no mark plain that has been written.                     *)
LEMMA CrossedPlain ==
  ASSUME BadgeTypeOK, mark' = CrossMark
  PROVE  /\ Plain' => Plain /\ Quiet /\ Quiet'
         /\ Read' = Read
<1>1. \A k \in Marks : /\ Marked(k)' <=> Marked(k)
                       /\ Marked(k) => mark'[k].crossed
                       /\ ~Marked(k) => mark'[k] = mark[k]
                       /\ mark'[k].ids = mark[k].ids
  BY MarksCrossed DEF Marked
<1>2. {k \in Marks : Marked(k)}' = {k \in Marks : Marked(k)}
  BY <1>1
<1>3. Read' = Read
  BY <1>1, <1>2 DEF Read
<1> QED BY <1>1, <1>3 DEF Plain, Quiet

LEMMA QuietReads ==
  /\ Quiet => Coming = [n \in Rows |-> list[n]]
  /\ Quiet' => Coming' = [n \in Rows |-> list'[n]]
<1>1. (Quiet => Read = {}) /\ (Quiet' => Read' = {})
  BY DEF Quiet, Read
<1> QED BY <1>1 DEF Coming, ReadBy

(* A step of one mark that is neither a write nor an answer.                *)
LEMMA SameReads ==
  ASSUME NEW k \in Marks, \A j \in Marks \ {k} : mark'[j] = mark[j],
         mark'[k].crossed <=> mark[k].crossed, Marked(k)' <=> Marked(k),
         Marked(k) => mark'[k].ids = mark[k].ids
  PROVE  (Plain' <=> Plain) /\ (Quiet' <=> Quiet) /\ Read' = Read
<1>1. \A j \in Marks : /\ mark'[j].crossed <=> mark[j].crossed
                       /\ Marked(j)' <=> Marked(j)
                       /\ Marked(j) => mark'[j].ids = mark[j].ids
  BY DEF Marked
<1>2. {j \in Marks : Marked(j)}' = {j \in Marks : Marked(j)}
  BY <1>1
<1>3. Read' = Read
  BY <1>1, <1>2 DEF Read
<1> QED BY <1>1, <1>3 DEF Plain, Quiet

(* A plain mark that has been written is the only one.                      *)
LEMMA OnePlain ==
  ASSUME MarkTrue, Plain, NEW k \in Marks, Marked(k)
  PROVE  Read = mark[k].ids
<1>1. \A j \in Marks : Marked(j) => j = k
  BY DEF MarkTrue, Plain
<1> QED BY <1>1 DEF Read

LEMMA StillAwaited ==
  ASSUME conn' = conn, fetch'.sent = fetch.sent, OnWire(Greeting)' <=> OnWire(Greeting)
  PROVE  Awaited' <=> Awaited
BY DEF Awaited

LEMMA GreetingIsNoRow == Greeting \notin Rows /\ Greeting \in Frames
BY BadgeBound DEF Rows, Greeting, Frames

LEMMA FollowedKept ==
  ASSUME BadgeTypeOK, Told, FetchTrue, MarkTrue, CacheShown, Followed, [BadgeNext]_badgeVars
  PROVE  Followed'
<1>1. CASE UNCHANGED badgeVars
  BY <1>1 DEF badgeVars, serverVars, storeVars, bounds, Followed, Underway, Coming, Read, Plain,
      Quiet, Marked, Awaited, OnWire
<1>2. ASSUME NEW n \in Rows, Notify(n) PROVE Followed'
  <2>1. n \notin Underway /\ Underway' = Underway \cup {n}
    BY <1>2, NotifyUnderway
  <2>2. Awaited' <=> Awaited
    BY <1>2, CrossEffect, WireStays, StillAwaited DEF Notify, Crossing
  <2>3. Plain' => Plain /\ Quiet /\ Quiet'
    BY <1>2, CrossedPlain DEF Notify, Crossing
  <2>4. /\ crossed' = crossed /\ list' = list /\ badge' = badge /\ docs \in Lists
        /\ docs[n] = "none" /\ docs' = [docs EXCEPT ![n] = "unread"]
    BY <1>2 DEF Notify, storeVars, BadgeTypeOK
  <2>5. Unread(docs') = Unread(docs) + 1 /\ Unread(docs) \in Nat
    <3>1. Unread([docs EXCEPT ![n] = "unread"]) = Unread(docs) + 1
      BY <2>4, UnreadGrows
    <3>2. Unread(docs) \in Nat
      BY UnreadType
    <3> QED BY <2>4, <3>1, <3>2
  <2>6. Underway \in SUBSET Rows /\ badge \in Nat
    BY DEF Underway, BadgeTypeOK
  <2>7. Cardinality(Underway') = Cardinality(Underway) + 1 /\ Cardinality(Underway) \in Nat
    BY <2>1, <2>6, SomeRows, OneMoreRow
  <2>8. ASSUME ~crossed', ~Awaited', Plain'
        PROVE  /\ \A m \in Rows \ Underway' : Coming'[m] = docs'[m]
               /\ \A m \in Underway' : list'[m] = "none" /\ docs'[m] = "unread"
               /\ badge' + Cardinality(Underway') = Unread(docs')
    <3>1. ~crossed /\ ~Awaited /\ Plain /\ Quiet /\ Quiet'
      BY <2>2, <2>3, <2>4, <2>8
    <3>2. /\ \A m \in Rows \ Underway : list[m] = docs[m]
          /\ \A m \in Underway : list[m] = "none" /\ docs[m] = "unread"
          /\ badge + Cardinality(Underway) = Unread(docs)
      BY <3>1, QuietReads DEF Followed
    <3>3. \A m \in Rows : Coming'[m] = list[m]
      BY <2>4, <3>1, QuietReads
    <3>4. docs'[n] = "unread" /\ \A m \in Rows \ {n} : docs'[m] = docs[m]
      BY <2>4 DEF Lists
    <3>5. list[n] = "none"
      BY <2>1, <2>4, <3>2
    <3>6. badge' + Cardinality(Underway') = Unread(docs')
      BY <2>4, <2>5, <2>6, <2>7, <3>2
    <3> QED BY <2>1, <2>4, <2>6, <3>2, <3>3, <3>4, <3>5, <3>6
  <2> QED BY <2>8 DEF Followed
<1>3. ASSUME NEW n \in Rows, AnnounceCreated(n) PROVE Followed'
  <2>1. CASE conn = "off"
    BY <1>3, <2>1 DEF AnnounceCreated, Followed, Awaited
  <2>2. CASE conn # "off"
    <3>1. Underway' = Underway /\ wire' = Append(wire, n) /\ n \in Frames
      BY <1>3, <2>2, AnnounceUnderway DEF AnnounceCreated, Frames
    <3>2. OnWire(Greeting)' <=> OnWire(Greeting)
      BY <3>1, WireTyped, WireGrows, GreetingIsNoRow
    <3>3. Awaited' <=> Awaited
      BY <1>3, <3>2, StillAwaited DEF AnnounceCreated
    <3> QED BY <1>3, <3>1, <3>3, FollowedStays DEF AnnounceCreated, storeVars
  <2> QED BY <2>1, <2>2
<1>4. ASSUME NEW n \in Rows, AnnounceLost(n) PROVE Followed'
  BY <1>4 DEF AnnounceLost, Followed
<1>5. ASSUME NEW n \in Rows, ReadElsewhere(n) PROVE Followed'
  BY <1>5 DEF ReadElsewhere, Followed
<1>6. ASSUME Register PROVE Followed'
  BY <1>6 DEF Register, Followed, Awaited
<1>7. ASSUME Greet PROVE Followed'
  <2>1. OnWire(Greeting)'
    BY <1>7, WireTyped, WireGrows, GreetingIsNoRow DEF Greet
  <2> QED BY <2>1 DEF Followed, Awaited
<1>8. ASSUME Drop PROVE Followed'
  BY <1>8 DEF Drop, Followed, Awaited
<1>9. ASSUME OnConnected(Refetch) PROVE Followed'
  BY <1>9, RefetchEffect DEF OnConnected, Followed, Awaited
<1>10. ASSUME OnNotification PROVE Followed'
  <2>1. PICK h : h = Head(wire)
    OBVIOUS
  <2>2. h \in Rows /\ h \in Underway /\ Underway' = Underway \ {h}
    BY <1>10, <2>1, ReceiveUnderway
  <2>3. OnWire(Greeting)' <=> OnWire(Greeting)
    BY <1>10, WireTyped, WireShrinks, GreetingIsNoRow DEF OnNotification, Told
  <2>4. Awaited' <=> Awaited
    BY <1>10, <2>3, CrossEffect, StillAwaited DEF OnNotification, Crossing
  <2>5. Plain' => Plain /\ Quiet /\ Quiet'
    BY <1>10, CrossedPlain DEF OnNotification, Crossing
  <2>6. /\ crossed' = crossed /\ docs' = docs /\ badge' = badge + 1 /\ badge \in Nat
        /\ list \in Lists /\ list' = [list EXCEPT ![h] = "unread"]
    BY <1>10, <2>1 DEF OnNotification, serverVars, BadgeTypeOK
  <2>7. Cardinality(Underway) = Cardinality(Underway') + 1 /\ Cardinality(Underway') \in Nat
    <3>1. Underway' \in SUBSET Rows /\ h \notin Underway' /\ Underway = Underway' \cup {h}
      BY <2>2 DEF Underway
    <3> QED BY <2>2, <3>1, SomeRows, OneMoreRow
  <2>8. ASSUME ~crossed', ~Awaited', Plain'
        PROVE  /\ \A m \in Rows \ Underway' : Coming'[m] = docs'[m]
               /\ \A m \in Underway' : list'[m] = "none" /\ docs'[m] = "unread"
               /\ badge' + Cardinality(Underway') = Unread(docs')
    <3>1. ~crossed /\ ~Awaited /\ Plain /\ Quiet /\ Quiet'
      BY <2>4, <2>5, <2>6, <2>8
    <3>2. /\ \A m \in Rows \ Underway : list[m] = docs[m]
          /\ \A m \in Underway : list[m] = "none" /\ docs[m] = "unread"
          /\ badge + Cardinality(Underway) = Unread(docs)
      BY <3>1, QuietReads DEF Followed
    <3>3. \A m \in Rows : Coming'[m] = list'[m]
      BY <3>1, QuietReads
    <3>4. list'[h] = "unread" /\ \A m \in Rows \ {h} : list'[m] = list[m]
      BY <2>2, <2>6 DEF Lists
    <3>5. badge' + Cardinality(Underway') = Unread(docs')
      BY <2>6, <2>7, <3>2
    <3>6. \A m \in Rows \ Underway' : list'[m] = docs[m]
      BY <2>2, <3>2, <3>4
    <3>7. \A m \in Underway' : m \in Rows \ {h} /\ m \in Underway
      BY <2>2 DEF Underway
    <3> QED BY <2>6, <3>2, <3>3, <3>4, <3>5, <3>6, <3>7
  <2> QED BY <2>8 DEF Followed
<1>11. ASSUME ReadItems PROVE Followed'
  BY <1>11, ReadEffect DEF ReadItems, Followed, Awaited
<1>12. ASSUME ReadCount PROVE Followed'
  BY <1>12, ReadEffect DEF ReadCount, Followed, Awaited
<1>13. ASSUME FetchAnswered PROVE Followed'
  <2>1. Underway' = Underway /\ docs' = docs
    BY <1>13, UnderwayStays DEF FetchAnswered, serverVars
  <2>2. Plain' => Quiet'
    BY <1>13, CrossedPlain DEF FetchAnswered
  <2>3. ASSUME ~crossed' PROVE list' = docs /\ badge' = Unread(docs) /\ Underway = {}
    <3>1. ~fetch.crossed
      BY <1>13, <2>3 DEF FetchAnswered
    <3>2. fetch.items = docs /\ fetch.count = Unread(docs) /\ Underway = {}
      BY <1>13, <3>1 DEF FetchAnswered, FetchTrue, Reading
    <3>3. data'.known /\ data'.items = docs /\ data'.count = Unread(docs)
      BY <1>13, <3>2 DEF FetchAnswered
    <3>4. CASE data' = data
      <4>1. ~crossed /\ list' = list /\ badge' = badge
        BY <1>13, <2>3, <3>4 DEF FetchAnswered
      <4> QED BY <3>3, <3>4, <4>1 DEF CacheShown
    <3>5. CASE data' # data
      BY <1>13, <3>2, <3>5 DEF FetchAnswered
    <3> QED BY <3>4, <3>5
  <2>4. Quiet' => \A m \in Rows : Coming'[m] = list'[m]
    BY QuietReads
  <2>5. Cardinality({}) = 0 /\ Unread(docs) \in Nat
    BY UnreadType, FS_EmptySet
  <2> QED BY <2>1, <2>2, <2>3, <2>4, <2>5 DEF Followed
<1>14. ASSUME FetchFailed PROVE Followed'
  BY <1>14 DEF FetchFailed, Followed
<1>15. ASSUME NEW k \in Marks, NEW ids \in SUBSET Rows, Mark(k, ids) PROVE Followed'
  <2>1. /\ mark'[k].at = "sent" /\ ~mark'[k].crossed /\ mark[k] = NoMark
        /\ \A j \in Marks \ {k} : mark'[j] = mark[j]
    BY <1>15, MarkEffect
  <2>2. ~Marked(k)' /\ ~Marked(k) /\ ~mark[k].crossed
    BY <2>1, Blank DEF Marked
  <2>3. Underway' = Underway /\ docs' = docs /\ list' = list /\ badge' = badge /\ crossed' = crossed
    BY <1>15, UnderwayStays DEF Mark, serverVars, storeVars
  <2>4. Awaited' <=> Awaited
    BY <1>15, WireStays, StillAwaited DEF Mark
  <2>5. (Plain' <=> Plain) /\ (Quiet' <=> Quiet) /\ Read' = Read
    BY <2>1, <2>2, SameReads
  <2>6. Coming' = Coming
    BY <2>3, <2>5 DEF Coming
  <2> QED BY <2>3, <2>4, <2>5, <2>6 DEF Followed
<1>16. ASSUME NEW k \in Marks, MarkWrite(k) PROVE Followed'
  <2>1. /\ mark'[k].at = "written" /\ mark'[k].ids = mark[k].ids
        /\ mark'[k].crossed <=> Underway # {}
        /\ \A j \in Marks \ {k} : mark'[j] = CrossMark[j]
    BY <1>16, WriteEffect
  <2>2. Underway' = Underway /\ docs' = ReadBy(docs, mark[k].ids)
    BY <1>16, MarkUnderway DEF MarkWrite
  <2>3. Awaited' <=> Awaited
    BY <1>16, CrossEffect, WireStays, StillAwaited DEF MarkWrite
  <2>4. list' = list /\ crossed' = crossed /\ Marked(k)' /\ ~Marked(k) /\ ~mark[k].crossed
    BY <1>16, <2>1 DEF MarkWrite, Marked, MarkTrue, storeVars
  <2>5. \A j \in Marks \ {k} : /\ Marked(j)' <=> Marked(j)
                               /\ Marked(j) => mark'[j].crossed
                               /\ ~Marked(j) => mark'[j] = mark[j]
    BY <2>1, MarksCrossed DEF Marked
  <2>6. ~Quiet'
    BY <2>4 DEF Quiet
  <2>7. ASSUME ~crossed', ~Awaited', Plain'
        PROVE  Underway' = {} /\ \A m \in Rows \ Underway' : Coming'[m] = docs'[m]
    <3>1. Plain /\ Quiet /\ Underway = {}
      BY <2>1, <2>4, <2>5, <2>7 DEF Plain, Quiet
    <3>2. \A m \in Rows : list[m] = docs[m]
      BY <2>3, <2>4, <2>7, <3>1, QuietReads DEF Followed
    <3>3. MarkTrue'
      BY MarkStaysTrue
    <3>4. \A j \in Marks : Marked(j)' => j = k
      BY <2>4, <2>7, <3>3 DEF MarkTrue, Plain
    <3>5. Read' = mark'[k].ids
      BY <2>4, <3>4 DEF Read
    <3>6. Coming' = ReadBy(list, mark[k].ids)
      BY <2>1, <2>4, <3>5 DEF Coming
    <3>7. \A m \in Rows : ReadBy(list, mark[k].ids)[m] = ReadBy(docs, mark[k].ids)[m]
      BY <3>2 DEF ReadBy
    <3> QED BY <2>2, <3>1, <3>6, <3>7
  <2> QED BY <2>6, <2>7 DEF Followed
<1>17. ASSUME NEW k \in Marks, MarkCount(k) PROVE Followed'
  <2>1. /\ mark'[k].at = "counted" /\ mark'[k].ids = mark[k].ids /\ mark[k].at = "written"
        /\ mark'[k].crossed = mark[k].crossed
        /\ \A j \in Marks \ {k} : mark'[j] = mark[j]
    BY <1>17, CountEffect
  <2>2. Underway' = Underway /\ docs' = docs /\ list' = list /\ badge' = badge /\ crossed' = crossed
    BY <1>17, UnderwayStays DEF MarkCount, serverVars, storeVars
  <2>3. Awaited' <=> Awaited
    BY <1>17, WireStays, StillAwaited DEF MarkCount
  <2>4. (Plain' <=> Plain) /\ (Quiet' <=> Quiet) /\ Read' = Read
    BY <2>1, SameReads DEF Marked
  <2>5. Coming' = Coming
    BY <2>2, <2>4 DEF Coming
  <2> QED BY <2>2, <2>3, <2>4, <2>5 DEF Followed
<1>18. ASSUME NEW k \in Marks, MarkAnswered(k) PROVE Followed'
  <2>1. Underway' = Underway /\ docs' = docs
    BY <1>18, UnderwayStays DEF MarkAnswered, serverVars
  <2>2. /\ list' = ReadBy(list, mark[k].ids) /\ badge' = mark[k].count /\ mark[k].at = "counted"
        /\ ~crossed' => ~crossed /\ ~mark[k].crossed
    BY <1>18 DEF MarkAnswered
  <2>3. /\ ~Marked(k)' /\ ~mark'[k].crossed /\ Marked(k)
        /\ \A j \in Marks \ {k} : mark'[j] = mark[j]
    BY <1>18, <2>2, DoneEffect DEF MarkAnswered, Marked
  <2>4. Awaited' <=> Awaited
    BY <1>18, CrossEffect, WireStays, StillAwaited DEF MarkAnswered
  <2>5. ASSUME ~crossed', ~Awaited', Plain'
        PROVE  /\ Underway = {} /\ badge' = Unread(docs)
               /\ \A m \in Rows : Coming'[m] = docs[m]
    <3>1. ~crossed /\ ~mark[k].crossed /\ ~Awaited
      BY <2>2, <2>4, <2>5
    <3>2. Plain
      BY <2>3, <2>5, <3>1 DEF Plain
    <3>3. Read = mark[k].ids /\ Underway = {} /\ mark[k].count = Unread(docs)
      BY <2>2, <2>3, <3>1, <3>2, OnePlain DEF MarkTrue
    <3>4. \A m \in Rows : Coming[m] = docs[m]
      BY <3>1, <3>2, <3>3 DEF Followed
    <3>5. \A j \in Marks : Marked(j) => j = k
      BY <2>3, <3>2 DEF MarkTrue, Plain
    <3>6. Quiet'
      BY <2>3, <3>5 DEF Quiet, Marked
    <3>7. Coming = list'
      BY <2>2, <3>3 DEF Coming
    <3>8. \A m \in Rows : Coming'[m] = list'[m]
      BY <3>6, QuietReads
    <3> QED BY <2>2, <3>3, <3>4, <3>7, <3>8
  <2>6. Cardinality({}) = 0 /\ Unread(docs) \in Nat
    BY UnreadType, FS_EmptySet
  <2> QED BY <2>1, <2>5, <2>6 DEF Followed
<1>19. ASSUME NEW k \in Marks, MarkFails(k) PROVE Followed'
  <2>1. /\ ~Marked(k)' /\ ~mark'[k].crossed
        /\ \A j \in Marks \ {k} : mark'[j] = mark[j]
    BY <1>19, DoneEffect DEF MarkFails, Marked
  <2>2. Underway' = Underway /\ docs' = docs /\ list' = list /\ badge' = badge
    BY <1>19, UnderwayStays DEF MarkFails, serverVars, storeVars
  <2>3. Awaited' <=> Awaited
    BY <1>19, WireStays, StillAwaited DEF MarkFails
  <2>4. ~crossed' => ~crossed /\ ~Marked(k) /\ ~mark[k].crossed
    BY <1>19 DEF MarkFails, MarkTrue
  <2>5. ~crossed' => (Plain' <=> Plain) /\ (Quiet' <=> Quiet) /\ Read' = Read
    BY <2>1, <2>4, SameReads
  <2>6. ~crossed' => Coming' = Coming
    BY <2>2, <2>5 DEF Coming
  <2> QED BY <2>2, <2>3, <2>4, <2>5, <2>6 DEF Followed
<1> QED BY <1>1, <1>2, <1>3, <1>4, <1>5, <1>6, <1>7, <1>8, <1>9, <1>10, <1>11, <1>12, <1>13,
    <1>14, <1>15, <1>16, <1>17, <1>18, <1>19 DEF BadgeNext

LEMMA BadgeInitially == BadgeInit => BadgeInv
<1> SUFFICES ASSUME BadgeInit PROVE BadgeInv
  OBVIOUS
<1>1. BadgeTypeOK
  <2>1. 0 \in 0..MaxRows /\ 0 \in 0..MaxMarks /\ 0 \in 0..MaxFaults
    BY BadgeBound
  <2>2. data \in [known: BOOLEAN, items: Lists, count: 0..MaxRows]
    BY <2>1, Blank DEF BadgeInit
  <2>3. wire \in Seq(Rows \cup {Greeting})
    BY DEF BadgeInit
  <2> QED BY <2>1, <2>2, <2>3, Blank DEF BadgeInit, BadgeTypeOK
<1>2. Told
  BY DEF BadgeInit, Told, OnWire, Once
<1>3. Aging
  BY Blank DEF BadgeInit, Aging, Behind
<1>4. FetchTrue /\ MarkTrue
  BY Blank DEF BadgeInit, FetchTrue, MarkTrue, Marked, Reading
<1>5. CacheShown /\ Followed
  BY DEF BadgeInit, CacheShown, Followed, Awaited
<1> QED BY <1>1, <1>2, <1>3, <1>4, <1>5 DEF BadgeInv

LEMMA BadgeKept == BadgeInv /\ [BadgeNext]_badgeVars => BadgeInv'
<1> SUFFICES ASSUME BadgeInv, [BadgeNext]_badgeVars PROVE BadgeInv'
  OBVIOUS
<1>1. BadgeTypeOK /\ Told /\ Aging /\ FetchTrue /\ MarkTrue /\ CacheShown /\ Followed
  BY DEF BadgeInv
<1>2. BadgeTypeOK' /\ Told' /\ Aging'
  BY <1>1, TypeStays, ToldStays, AgingStays
<1>3. FetchTrue' /\ MarkTrue' /\ CacheShown' /\ Followed'
  BY <1>1, FetchStaysTrue, MarkStaysTrue, CacheStaysShown, FollowedKept
<1> QED BY <1>2, <1>3 DEF BadgeInv

LEMMA BadgeAlways == BadgeSpec => []BadgeInv
BY BadgeInitially, BadgeKept, PTL DEF BadgeSpec

(* The state of the tab's notification list is well formed.                 *)
THEOREM BadgeTyped == BadgeSpec => []BadgeTypeOK
<1>1. BadgeInv => BadgeTypeOK
  BY DEF BadgeInv
<1> QED BY <1>1, BadgeAlways, PTL

(* Connected and with nothing under way, the tab shows the user's           *)
(* notifications and counts the unread ones, also after drops that lost     *)
(* pushes, unless the store was last written by an answer that a change had *)
(* crossed (useNotificationsSync, the handlers of CONNECTED and             *)
(* NOTIFICATION, the answer of POST /notifications/read).                   *)
THEOREM TabShowsTruth == BadgeSpec => []BadgeRight
<1>1. BadgeInv => BadgeRight
  <2> SUFFICES ASSUME BadgeInv, Settled, ~crossed PROVE list = docs /\ badge = Unread(docs)
    BY DEF BadgeRight
  <2>1. Underway = {}
    BY DEF Settled, Underway
  <2>2. Quiet /\ Plain
    BY DEF Settled, Marked, BadgeInv, MarkTrue, Quiet, Plain
  <2>3. ~Awaited
    BY DEF Settled, Awaited, OnWire
  <2>4. (\A n \in Rows : list[n] = docs[n]) /\ badge + Cardinality({}) = Unread(docs)
    BY <2>1, <2>2, <2>3, QuietReads DEF BadgeInv, Followed
  <2>5. list \in Lists /\ docs \in Lists /\ badge \in Nat
    BY DEF BadgeInv, BadgeTypeOK
  <2>6. Cardinality({}) = 0
    BY FS_EmptySet
  <2> QED BY <2>4, <2>5, <2>6 DEF Lists
<1> QED BY <1>1, BadgeAlways, PTL
=============================================================================
