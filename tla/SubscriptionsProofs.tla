------------------------- MODULE SubscriptionsProofs -------------------------
(***************************************************************************)
(* For any number of users, sockets, channels, concurrent calls and        *)
(* changes: the registry never leaks by itself (its two indexes mirror each*)
(* other, a socket that closes with no call in flight leaves nothing), and *)
(* once all is handled a socket receives what its user may see, and no     *)
(* more, but for the races the two properties name.                        *)
(***************************************************************************)
EXTENDS Subscriptions, FiniteSetTheorems, SequenceTheorems, TLAPS

(* SetToSeq enumerates a finite set. *)
LEMMA SetToSeqType ==
  ASSUME NEW S, IsFiniteSet(S)
  PROVE  SetToSeq(S) \in Seq(S)
<1> DEFINE n == Cardinality(S)
<1>1. n \in Nat /\ ExistsBijection(1..n, S)
  BY FS_CardinalityType
<1>2. \E f \in [1..n -> S] : IsInjective(f)
  BY <1>1 DEF ExistsBijection, Bijection, Injection
<1>3. SetToSeq(S) \in [1..n -> S]
  BY <1>2 DEF SetToSeq
<1> QED
  BY <1>1, <1>3

(* The frames a request publishes are well-formed announcements. *)
LEMMA EventTypes ==
  /\ \A U \in SUBSET User : RescopeEach(U) \in Seq(Event)
  /\ \A U \in SUBSET User, c \in Channel : UnsubscribeEach(U, c) \in Seq(Event)
<1> SUFFICES ASSUME NEW U \in SUBSET User
             PROVE  /\ RescopeEach(U) \in Seq(Event)
                    /\ \A c \in Channel : UnsubscribeEach(U, c) \in Seq(Event)
  OBVIOUS
<1> DEFINE q == SetToSeq(U)
<1>1. q \in Seq(U)
  BY SetToSeqType, FS_Subset, UserAssumption
<1>2. PICK k \in Nat : DOMAIN q = 1..k
  BY <1>1
<1>3. \A n \in 1..k : q[n] \in User
  BY <1>1, <1>2
<1>4. RescopeEach(U) = [n \in 1..k |-> Rescope(q[n])]
  BY <1>2 DEF RescopeEach
<1>5. \A c \in Channel : UnsubscribeEach(U, c) = [n \in 1..k |-> Unsubscribe(q[n], c)]
  BY <1>2 DEF UnsubscribeEach
<1> HIDE DEF q
<1>6. \A n \in 1..k : Rescope(q[n]) \in Event
  BY <1>3 DEF Rescope, Event
<1>7. \A c \in Channel : \A n \in 1..k : Unsubscribe(q[n], c) \in Event
  BY <1>3 DEF Unsubscribe, Event
<1> QED
  BY <1>4, <1>5, <1>6, <1>7

-----------------------------------------------------------------------------
(* Type correctness *)

LEMMA InitType == Init => TypeOK
<1> SUFFICES ASSUME Init PROVE TypeOK
  OBVIOUS
<1>1. bus \in Seq(Event) /\ changes \in 0..MaxChanges
  BY MaxChangesAssumption DEF Init
<1>2. /\ conn \in [Socket -> {"none", "open", "closed"}]
      /\ connections \in [User -> SUBSET Socket]
      /\ subscribers \in [Channel -> SUBSET Socket]
      /\ channels \in [Socket -> SUBSET Channel]
  BY DEF Init
<1>3. member \subseteq User /\ status \in [Channel -> {"new", "live", "gone"}]
  BY DEF Init
<1> QED
  BY <1>1, <1>2, <1>3 DEF Init, TypeOK

(* Requests of the API and their announcements *)
LEMMA ApiType == TypeOK /\ ApiStep => TypeOK'
<1> SUFFICES ASSUME TypeOK, ApiStep PROVE TypeOK'
  OBVIOUS
<1> USE MaxChangesAssumption, KindAssumption, OwnerAssumption
<1>1. ASSUME NEW U \in SUBSET User, NEW es \in Seq(Event), Request(U, es),
             member' \subseteq User,
             status' \in [Channel -> {"new", "live", "gone"}],
             memberIds' \in [Channel -> SUBSET User],
             untold' \subseteq Socket \X Channel
      PROVE  TypeOK'
  <2>1. changes' \in 0..MaxChanges
    BY <1>1 DEF Request, TypeOK
  <2>2. \A r \in outbox' : r.n \in 0..MaxChanges /\ r.users \subseteq User /\ r.events \in Seq(Event)
    BY <1>1 DEF Request, TypeOK
  <2>3. raced' \subseteq Socket /\ crossed' \subseteq User
    BY <1>1 DEF Request, TypeOK
  <2> QED
    BY <1>1, <2>1, <2>2, <2>3 DEF Request, TypeOK, registry
<1>2. \A u \in User : <<Rescope(u)>> \in Seq(Event)
  BY DEF Rescope, Event
<1>3. \A u \in User, c \in Channel : <<Unsubscribe(u, c)>> \in Seq(Event)
  BY DEF Unsubscribe, Event
<1>4. ASSUME NEW u \in User, AddMember(u) PROVE TypeOK'
  <2>1. {u} \in SUBSET User /\ Request({u}, <<Rescope(u)>>)
    BY <1>4 DEF AddMember
  <2> QED BY <1>1, <1>2, <1>4, <2>1 DEF AddMember, TypeOK
<1>5. ASSUME NEW u \in User, RemoveMember(u) PROVE TypeOK'
  <2>1. {u} \in SUBSET User /\ Request({u}, <<Rescope(u)>>)
    BY <1>5 DEF RemoveMember
  <2> QED BY <1>1, <1>2, <1>5, <2>1 DEF RemoveMember, TypeOK
<1>6. ASSUME NEW c \in Channel, CreatePublic(c) PROVE TypeOK'
  <2>1. <<[kind |-> "subscribe", chan |-> c]>> \in Seq(Event)
    BY DEF Event
  <2>2. member \in SUBSET User /\ Request(member, <<[kind |-> "subscribe", chan |-> c]>>)
    BY <1>6 DEF CreatePublic, TypeOK
  <2> QED BY <1>1, <1>6, <2>1, <2>2 DEF CreatePublic, Create, TypeOK
<1>7. ASSUME NEW c \in Channel, NEW M \in SUBSET User, CreatePrivate(c, M) PROVE TypeOK'
  <2>1. Request(M, RescopeEach(M)) /\ RescopeEach(M) \in Seq(Event)
    BY <1>7, EventTypes DEF CreatePrivate
  <2> QED BY <1>1, <1>7, <2>1 DEF CreatePrivate, Create, TypeOK
<1>8. ASSUME NEW c \in Channel, NEW u \in User \cup {Elsewhere}, NEW v \in User \cup {Elsewhere},
             OpenDm(c, u, v)
      PROVE  TypeOK'
  <2> DEFINE U == {u, v} \cap User
  <2>1. U \in SUBSET User /\ Request(U, Tell(v))
    BY <1>8 DEF OpenDm
  <2>2. Tell(v) \in Seq(Event)
    <3>1. <<>> \in Seq(Event)
      OBVIOUS
    <3> QED BY <1>2, <3>1 DEF Tell
  <2>3. memberIds' \in [Channel -> SUBSET User] /\ untold' \subseteq Socket \X Channel
    BY <1>8 DEF OpenDm, SocketsAs, TypeOK
  <2>4. member' \subseteq User /\ status' \in [Channel -> {"new", "live", "gone"}]
    BY <1>8 DEF OpenDm, Create, TypeOK
  <2> QED BY <1>1, <2>1, <2>2, <2>3, <2>4
<1>9. ASSUME NEW c \in Channel, NEW u \in User, AddToPrivate(c, u) PROVE TypeOK'
  <2> DEFINE es == RescopeEach(memberIds'[c]) \o <<Rescope(u)>>
  <2>1. memberIds' \in [Channel -> SUBSET User]
    BY <1>9 DEF AddToPrivate, TypeOK
  <2>2. es \in Seq(Event)
    BY <1>2, <2>1, EventTypes
  <2>3. {u} \in SUBSET User /\ Request({u}, es)
    BY <1>9 DEF AddToPrivate
  <2> QED BY <1>1, <1>9, <2>1, <2>2, <2>3 DEF AddToPrivate, TypeOK
<1>10. ASSUME NEW c \in Channel, NEW u \in User, RemoveFromPrivate(c, u) PROVE TypeOK'
  <2> DEFINE es == RescopeEach(memberIds[c]) \o <<Unsubscribe(u, c)>>
  <2>1. memberIds' \in [Channel -> SUBSET User] /\ memberIds[c] \in SUBSET User
    BY <1>10 DEF RemoveFromPrivate, TypeOK
  <2>2. es \in Seq(Event)
    BY <1>3, <2>1, EventTypes
  <2>3. {u} \in SUBSET User /\ Request({u}, es)
    BY <1>10 DEF RemoveFromPrivate
  <2> QED BY <1>1, <1>10, <2>1, <2>2, <2>3 DEF RemoveFromPrivate, TypeOK
<1>11. ASSUME NEW c \in Channel, DeleteChannel(c) PROVE TypeOK'
  <2> DEFINE es == IF Kind[c] = "public" THEN <<[kind |-> "drop", chan |-> c]>>
                                          ELSE UnsubscribeEach(memberIds[c], c)
  <2> DEFINE U == {u \in User : c \in Accessible(u)}
  <2>1. memberIds[c] \in SUBSET User
    BY DEF TypeOK
  <2>2. es \in Seq(Event)
    <3>1. [kind |-> "drop", chan |-> c] \in Event
      BY DEF Event
    <3>2. <<[kind |-> "drop", chan |-> c]>> \in Seq(Event)
      BY <3>1
    <3> QED BY <2>1, <3>2, EventTypes
  <2>3. U \in SUBSET User /\ Request(U, es)
    BY <1>11 DEF DeleteChannel
  <2> QED BY <1>1, <1>11, <2>2, <2>3 DEF DeleteChannel, TypeOK
<1>12. CASE DeleteWorkspace
  <2>1. member \in SUBSET User /\ Request(member, <<>>) /\ <<>> \in Seq(Event)
    BY <1>12 DEF DeleteWorkspace, TypeOK
  <2> QED BY <1>1, <1>12, <2>1 DEF DeleteWorkspace, TypeOK
<1>13. ASSUME NEW r \in outbox, Publish(r) PROVE TypeOK'
  BY <1>13 DEF Publish, TypeOK, db, registry, history
<1> QED
  BY <1>4, <1>5, <1>6, <1>7, <1>8, <1>9, <1>10, <1>11, <1>12, <1>13 DEF ApiStep

(* Calls in flight keep their shape from phase to phase. *)
LEMMA JobTypes ==
  /\ \A s \in Socket, n \in Slot, call \in {"setup", "update", "join"} : NewJob(s, n, call) \in Job
  /\ \A s \in Socket, n \in Slot, c \in Channel :
       [NewJob(s, n, "join") EXCEPT !.phase = "check", !.scope = {c}] \in Job
  /\ \A j \in Job, b \in BOOLEAN : [j EXCEPT !.phase = "channels", !.inside = b] \in Job
  /\ \A j \in Job, C \in SUBSET Channel, b \in BOOLEAN :
       [j EXCEPT !.phase = "apply", !.scope = C, !.inside = b] \in Job
  /\ \A j \in Job : [j EXCEPT !.phase = "apply"] \in Job
  /\ \A j \in Job : j.sock \in Socket /\ j.scope \subseteq Channel
BY DEF Job, NewJob

(* The registry's operations keep its two indexes within their types. *)
LEMMA RegistryTypes ==
  ASSUME TypeOK
  PROVE  /\ \A T \in SUBSET Socket, c \in Channel :
              SubscribeAll(T, c) \/ UnsubscribeAll(T, c) =>
                /\ subscribers' \in [Channel -> SUBSET Socket]
                /\ channels' \in [Socket -> SUBSET Channel]
         /\ \A c \in Channel : DropChannel(c) =>
                /\ subscribers' \in [Channel -> SUBSET Socket]
                /\ channels' \in [Socket -> SUBSET Channel]
         /\ \A s \in Socket, C \in SUBSET Channel : SetScope(s, C) =>
                /\ subscribers' \in [Channel -> SUBSET Socket]
                /\ channels' \in [Socket -> SUBSET Channel]
<1>1. ASSUME NEW T \in SUBSET Socket, NEW c \in Channel, SubscribeAll(T, c)
      PROVE  subscribers' \in [Channel -> SUBSET Socket] /\ channels' \in [Socket -> SUBSET Channel]
  BY <1>1 DEF TypeOK, SubscribeAll
<1>2. ASSUME NEW T \in SUBSET Socket, NEW c \in Channel, UnsubscribeAll(T, c)
      PROVE  subscribers' \in [Channel -> SUBSET Socket] /\ channels' \in [Socket -> SUBSET Channel]
  BY <1>2 DEF TypeOK, UnsubscribeAll
<1>3. ASSUME NEW c \in Channel, DropChannel(c)
      PROVE  subscribers' \in [Channel -> SUBSET Socket] /\ channels' \in [Socket -> SUBSET Channel]
  BY <1>3 DEF TypeOK, DropChannel
<1>4. ASSUME NEW s \in Socket, NEW C \in SUBSET Channel, SetScope(s, C)
      PROVE  subscribers' \in [Channel -> SUBSET Socket] /\ channels' \in [Socket -> SUBSET Channel]
  <2>1. channels' \in [Socket -> SUBSET Channel]
    BY <1>4 DEF TypeOK, SetScope
  <2>2. ASSUME NEW c \in Channel PROVE subscribers'[c] \in SUBSET Socket
    <3>1. subscribers[c] \in SUBSET Socket
      BY DEF TypeOK
    <3>2. subscribers'[c] \in {subscribers[c], subscribers[c] \cup {s}, subscribers[c] \ {s}}
      BY <1>4 DEF SetScope
    <3> QED BY <3>1, <3>2
  <2> QED BY <1>4, <2>1, <2>2 DEF SetScope
<1> QED BY <1>1, <1>2, <1>3, <1>4

(* What clients do *)
LEMMA ClientType == TypeOK /\ ClientStep => TypeOK'
<1> SUFFICES ASSUME TypeOK, NEW s \in Socket,
                    \/ Connect(s) \/ Close(s)
                    \/ \E c \in Channel : Join(s, c) \/ Leave(s, c)
             PROVE  TypeOK'
  BY DEF ClientStep
<1> USE OwnerAssumption
<1>1. CASE Connect(s)
  <2>1. jobs' \subseteq Job
    <3>1. PICK n \in Slot : jobs' = jobs \cup {NewJob(s, n, "setup")}
      BY <1>1 DEF Connect
    <3> QED BY <3>1, JobTypes DEF TypeOK
  <2>2. conn' \in [Socket -> {"none", "open", "closed"}]
    BY <1>1 DEF Connect, TypeOK
  <2> QED BY <1>1, <2>1, <2>2 DEF Connect, TypeOK, api, db, registry, history
<1>2. CASE Close(s)
  <2>1. /\ subscribers' \in [Channel -> SUBSET Socket]
        /\ channels' \in [Socket -> SUBSET Channel]
    BY <1>2, RegistryTypes DEF Close
  <2> QED BY <1>2, <2>1 DEF Close, TypeOK, api, db
<1>3. ASSUME NEW c \in Channel, Join(s, c) PROVE TypeOK'
  <2>1. jobs' \subseteq Job
    <3> DEFINE NewJoin(n) == [NewJob(s, n, "join") EXCEPT !.phase = "check", !.scope = {c}]
    <3>1. \A n \in Slot : NewJoin(n) \in Job
      BY JobTypes
    <3>2. \E n \in Slot : Free(n, s) /\ jobs' = jobs \cup {NewJoin(n)}
      BY <1>3 DEF Join
    <3> HIDE DEF NewJoin
    <3> QED BY <3>1, <3>2 DEF TypeOK
  <2> QED BY <1>3, <2>1 DEF Join, TypeOK, api, db, registry, history
<1>4. ASSUME NEW c \in Channel, Leave(s, c) PROVE TypeOK'
  <2>1. /\ subscribers' \in [Channel -> SUBSET Socket]
        /\ channels' \in [Socket -> SUBSET Channel]
    BY <1>4, RegistryTypes DEF Leave
  <2> QED BY <1>4, <2>1 DEF Leave, TypeOK, api, db
<1> QED BY <1>1, <1>2, <1>3, <1>4

(* Calls in flight *)
LEMMA JobType == TypeOK /\ JobStep => TypeOK'
<1> SUFFICES ASSUME TypeOK, NEW j \in jobs,
                    \/ ReadWorkspaces(j) \/ ReadChannels(j) \/ ApplyScope(j)
                    \/ JoinCheck(j) \/ JoinApply(j) \/ CallFails(j)
             PROVE  TypeOK'
  BY DEF JobStep
<1> USE OwnerAssumption
<1>0. j \in Job /\ j.sock \in Socket /\ j.scope \subseteq Channel
  BY JobTypes DEF TypeOK
<1>1. CASE ReadWorkspaces(j)
  <2>1. [j EXCEPT !.phase = "channels", !.inside = (Owner[j.sock] \in member)] \in Job
    <3> DEFINE b == Owner[j.sock] \in member
    <3>1. b \in BOOLEAN
      OBVIOUS
    <3> HIDE DEF b
    <3>2. [j EXCEPT !.phase = "channels", !.inside = b] \in Job
      BY <1>0, <3>1, JobTypes
    <3> QED BY <3>2 DEF b
  <2>2. jobs' \subseteq Job
    BY <1>1, <2>1 DEF ReadWorkspaces, Advance, TypeOK
  <2> QED BY <1>1, <2>2 DEF ReadWorkspaces, TypeOK, api, db, registry, history
<1>2. CASE ReadChannels(j)
  <2>1. Visible(Owner[j.sock], j.inside) \subseteq Channel
    BY DEF Visible
  <2>2. PICK now \in {j.inside, Owner[j.sock] \in member} :
          Advance(j, [j EXCEPT !.phase = "apply", !.scope = Visible(Owner[j.sock], j.inside), !.inside = now])
    BY <1>2 DEF ReadChannels
  <2>3. j.inside \in BOOLEAN /\ (Owner[j.sock] \in member) \in BOOLEAN
    BY <1>0 DEF Job
  <2>4. now \in BOOLEAN
    BY <2>3
  <2>5. jobs' \subseteq Job
    <3> DEFINE C == Visible(Owner[j.sock], j.inside)
    <3>1. C \in SUBSET Channel
      BY <2>1
    <3> HIDE DEF C
    <3>2. [j EXCEPT !.phase = "apply", !.scope = C, !.inside = now] \in Job
      BY <1>0, <2>4, <3>1, JobTypes
    <3>3. jobs' = (jobs \ {j}) \cup {[j EXCEPT !.phase = "apply", !.scope = C, !.inside = now]}
      BY <2>2 DEF Advance, C
    <3> QED BY <3>2, <3>3 DEF TypeOK
  <2> QED BY <1>2, <2>5 DEF ReadChannels, TypeOK, api, db, registry, history
<1>3. CASE ApplyScope(j)
  <2>1. /\ subscribers' \in [Channel -> SUBSET Socket]
        /\ channels' \in [Socket -> SUBSET Channel]
    BY <1>0, <1>3, RegistryTypes DEF ApplyScope
  <2> QED BY <1>0, <1>3, <2>1 DEF ApplyScope, Finish, TypeOK, api, db, history
<1>4. CASE JoinCheck(j)
  BY <1>0, <1>4, JobTypes, ZenonT(30) DEF JoinCheck, Advance, Finish, TypeOK, api, db, registry, history
<1>5. CASE JoinApply(j)
  <2>1. /\ subscribers' \in [Channel -> SUBSET Socket]
        /\ channels' \in [Socket -> SUBSET Channel]
    BY <1>0, <1>5, RegistryTypes DEF JoinApply
  <2> QED BY <1>0, <1>5, <2>1 DEF JoinApply, Finish, TypeOK, api, db, history
<1>6. CASE CallFails(j)
  BY <1>0, <1>6 DEF CallFails, Finish, TypeOK, api, db, registry
<1> QED BY <1>1, <1>2, <1>3, <1>4, <1>5, <1>6

(* Announcements *)
LEMMA BusType == TypeOK /\ BusStep => TypeOK'
<1> SUFFICES ASSUME TypeOK, BusStep PROVE TypeOK'
  OBVIOUS
<1>1. bus # <<>> /\ bus' = Tail(bus)
  BY DEF BusStep, OnRescope, OnCreated, OnRemoved, OnDropped, Handle
<1>2. Head(bus) \in Event /\ bus' \in Seq(Event)
  BY <1>1 DEF TypeOK
<1>3. CASE OnRescope
  <2>1. Head(bus).kind = "rescope"
    BY <1>3 DEF OnRescope, Handle
  <2>2. Head(bus).user \in User
    BY <1>2, <2>1 DEF Event
  <2>3. connections[Head(bus).user] \subseteq Socket
    BY <2>2 DEF TypeOK
  <2>4. jobs' \subseteq Job
    BY <1>3, <2>3, JobTypes DEF OnRescope, TypeOK
  <2> QED BY <1>2, <1>3, <2>4 DEF OnRescope, TypeOK, api, db, registry, history
<1>4. ASSUME NEW T \in SUBSET Socket, NEW c \in Channel,
             SubscribeAll(T, c) \/ UnsubscribeAll(T, c) \/ DropChannel(c),
             UNCHANGED <<api, conn, ready, connections, inWorkspace, jobs, history>>
      PROVE  TypeOK'
  <2>1. /\ subscribers' \in [Channel -> SUBSET Socket]
        /\ channels' \in [Socket -> SUBSET Channel]
    BY <1>4, RegistryTypes
  <2> QED BY <1>2, <1>4, <2>1 DEF TypeOK, api, db, history
<1>5. ASSUME Head(bus).kind # "rescope" PROVE Head(bus).chan \in Channel
  BY <1>2, <1>5 DEF Event
<1>6. CASE OnCreated
  <2>1. Head(bus).kind = "subscribe" /\ SubscribeAll(Registered \cap inWorkspace, Head(bus).chan)
    BY <1>6 DEF OnCreated, Handle
  <2>2. Registered \cap inWorkspace \in SUBSET Socket
    BY DEF TypeOK
  <2> QED BY <1>4, <1>5, <1>6, <2>1, <2>2 DEF OnCreated
<1>7. CASE OnRemoved
  <2>1. Head(bus).kind = "unsubscribe"
    BY <1>7 DEF OnRemoved, Handle
  <2>2. Head(bus).user \in User
    BY <1>2, <2>1 DEF Event
  <2>3. connections[Head(bus).user] \in SUBSET Socket
    BY <2>2 DEF TypeOK
  <2> QED BY <1>4, <1>5, <1>7, <2>1, <2>3 DEF OnRemoved
<1>8. CASE OnDropped
  <2>1. Head(bus).kind = "drop"
    BY <1>8 DEF OnDropped, Handle
  <2> QED BY <1>4, <1>5, <1>8, <2>1 DEF OnDropped, TypeOK
<1> QED BY <1>3, <1>6, <1>7, <1>8 DEF BusStep

(* Every reachable state is well typed. *)
THEOREM TypeCorrect == Spec => []TypeOK
<1>1. TypeOK /\ UNCHANGED vars => TypeOK'
  BY DEF TypeOK, vars, api, db, registry, history
<1>2. TypeOK /\ [Next]_vars => TypeOK'
  BY <1>1, ApiType, ClientType, JobType, BusType DEF Next
<1> QED
  BY InitType, <1>2, PTL DEF Spec

-----------------------------------------------------------------------------
(* The indexes mirror each other *)

LEMMA RegistrySymmetry ==
  ASSUME TypeOK, IndexSymmetry
  PROVE  /\ \A T \in SUBSET Socket, c \in Channel :
              SubscribeAll(T, c) \/ UnsubscribeAll(T, c) => IndexSymmetry'
         /\ \A c \in Channel : DropChannel(c) => IndexSymmetry'
         /\ \A s \in Socket, C \in SUBSET Channel : SetScope(s, C) => IndexSymmetry'
<1>1. ASSUME NEW T \in SUBSET Socket, NEW c \in Channel, SubscribeAll(T, c)
      PROVE  IndexSymmetry'
  BY <1>1 DEF TypeOK, IndexSymmetry, SubscribeAll
<1>2. ASSUME NEW T \in SUBSET Socket, NEW c \in Channel, UnsubscribeAll(T, c)
      PROVE  IndexSymmetry'
  BY <1>2 DEF TypeOK, IndexSymmetry, UnsubscribeAll
<1>3. ASSUME NEW c \in Channel, DropChannel(c) PROVE IndexSymmetry'
  BY <1>3 DEF TypeOK, IndexSymmetry, DropChannel
<1>4. ASSUME NEW s \in Socket, NEW C \in SUBSET Channel, SetScope(s, C) PROVE IndexSymmetry'
  <2> SUFFICES ASSUME NEW t \in Socket, NEW c \in Channel
               PROVE  t \in subscribers'[c] <=> c \in channels'[t]
    BY DEF IndexSymmetry
  <2>1. t \in subscribers[c] <=> c \in channels[t]
    BY DEF IndexSymmetry
  <2>2. channels'[t] = IF t = s THEN C ELSE channels[t]
    BY <1>4 DEF SetScope, TypeOK
  <2>3. CASE c \in C
    BY <1>4, <2>1, <2>2, <2>3 DEF SetScope
  <2>4. CASE c \in channels[s] \ C
    BY <1>4, <2>1, <2>2, <2>4 DEF SetScope
  <2>5. CASE c \notin C /\ c \notin channels[s]
    <3>1. subscribers'[c] = subscribers[c]
      BY <1>4, <2>5 DEF SetScope
    <3> QED BY <2>1, <2>2, <2>5, <3>1
  <2> QED BY <2>3, <2>4, <2>5
<1> QED BY <1>1, <1>2, <1>3, <1>4

(* No step touches one index without the other. *)
LEMMA SymmetryStep == TypeOK /\ IndexSymmetry /\ [Next]_vars => IndexSymmetry'
<1> SUFFICES ASSUME TypeOK, IndexSymmetry, [Next]_vars PROVE IndexSymmetry'
  OBVIOUS
<1>0. ASSUME UNCHANGED <<subscribers, channels>> PROVE IndexSymmetry'
  BY <1>0 DEF IndexSymmetry
<1>1. CASE ApiStep
  BY <1>0, <1>1, ZenonT(30) DEF ApiStep, AddMember, RemoveMember, CreatePublic, CreatePrivate, OpenDm, AddToPrivate,
     RemoveFromPrivate, DeleteChannel, DeleteWorkspace, Publish, Request, registry
<1>2. CASE JobStep
  <2>1. PICK j \in jobs : \/ ReadWorkspaces(j) \/ ReadChannels(j) \/ ApplyScope(j)
                          \/ JoinCheck(j) \/ JoinApply(j) \/ CallFails(j)
    BY <1>2 DEF JobStep
  <2>2. j.sock \in Socket /\ j.scope \subseteq Channel
    BY JobTypes DEF TypeOK
  <2>3. CASE ApplyScope(j)
    BY <2>2, <2>3, RegistrySymmetry DEF ApplyScope
  <2>4. CASE JoinApply(j)
    BY <2>2, <2>4, RegistrySymmetry DEF JoinApply
  <2> QED
    BY <1>0, <2>1, <2>3, <2>4 DEF ReadWorkspaces, ReadChannels, JoinCheck, CallFails, registry
<1>3. CASE ClientStep
  <2>1. PICK s \in Socket : \/ Connect(s) \/ Close(s)
                            \/ \E c \in Channel : Join(s, c) \/ Leave(s, c)
    BY <1>3 DEF ClientStep
  <2>2. CASE Close(s)
    BY <2>2, RegistrySymmetry DEF Close
  <2>3. ASSUME NEW c \in Channel, Leave(s, c) PROVE IndexSymmetry'
    BY <2>3, RegistrySymmetry DEF Leave
  <2> QED
    BY <1>0, <2>1, <2>2, <2>3 DEF Connect, Join, registry
<1>4. CASE BusStep
  <2>1. ASSUME bus # <<>>, Head(bus).kind # "rescope" PROVE Head(bus).chan \in Channel
    BY <2>1 DEF TypeOK, Event
  <2>2. ASSUME bus # <<>>, Head(bus).kind = "unsubscribe"
        PROVE  connections[Head(bus).user] \in SUBSET Socket
    BY <2>2 DEF TypeOK, Event
  <2>3. Registered \cap inWorkspace \in SUBSET Socket
    BY DEF TypeOK
  <2>4. CASE OnRescope
    BY <1>0, <2>4 DEF OnRescope, registry
  <2>5. CASE OnCreated
    BY <2>1, <2>3, <2>5, RegistrySymmetry DEF OnCreated, Handle
  <2>6. CASE OnRemoved
    BY <2>1, <2>2, <2>6, RegistrySymmetry DEF OnRemoved, Handle
  <2>7. CASE OnDropped
    BY <2>1, <2>7, RegistrySymmetry DEF OnDropped, Handle
  <2> QED BY <1>4, <2>4, <2>5, <2>6, <2>7 DEF BusStep
<1>5. CASE UNCHANGED vars
  BY <1>0, <1>5 DEF vars, registry
<1> QED BY <1>1, <1>2, <1>3, <1>4, <1>5 DEF Next

(* channelSubscribers and ws.channels mirror each other in every reachable  *)
(* state: no index keeps a socket the other has forgotten.                  *)
THEOREM IndexesMirror == Spec => []IndexSymmetry
<1>1. Init => IndexSymmetry
  BY DEF Init, IndexSymmetry
<1> QED
  BY <1>1, TypeCorrect, SymmetryStep, PTL DEF Spec

-----------------------------------------------------------------------------
(* A quiet close leaves nothing *)

(* A socket is only ever registered under the user it belongs to, so that   *)
(* onClose finds it again.                                                  *)
OwnSockets == \A u \in User : \A s \in connections[u] : u = Owner[s]

Inv == TypeOK /\ IndexSymmetry /\ OwnSockets /\ QuietCloseLeavesNothing

LEMMA OwnSocketsStep == TypeOK /\ OwnSockets /\ [Next]_vars => OwnSockets'
<1> SUFFICES ASSUME TypeOK, OwnSockets, [Next]_vars PROVE OwnSockets'
  OBVIOUS
<1> USE OwnerAssumption
<1>0. ASSUME UNCHANGED connections PROVE OwnSockets'
  BY <1>0 DEF OwnSockets
<1>1. CASE ApiStep
  BY <1>0, <1>1 DEF ApiStep, AddMember, RemoveMember, CreatePublic, CreatePrivate, OpenDm, AddToPrivate,
     RemoveFromPrivate, DeleteChannel, DeleteWorkspace, Publish, Request, registry
<1>2. CASE JobStep
  <2>1. PICK j \in jobs : \/ ReadWorkspaces(j) \/ ReadChannels(j) \/ ApplyScope(j)
                          \/ JoinCheck(j) \/ JoinApply(j) \/ CallFails(j)
    BY <1>2 DEF JobStep
  <2>2. CASE ApplyScope(j)
    <3>1. j.sock \in Socket
      BY JobTypes DEF TypeOK
    <3>2. connections' \in {connections, [connections EXCEPT ![Owner[j.sock]] = @ \cup {j.sock}]}
      BY <2>2 DEF ApplyScope
    <3> QED BY <3>1, <3>2 DEF OwnSockets, TypeOK
  <2> QED
    BY <1>0, <2>1, <2>2 DEF ReadWorkspaces, ReadChannels, JoinCheck, JoinApply, CallFails, registry
<1>3. CASE ClientStep
  <2>1. PICK s \in Socket : \/ Connect(s) \/ Close(s)
                            \/ \E c \in Channel : Join(s, c) \/ Leave(s, c)
    BY <1>3 DEF ClientStep
  <2>2. CASE Close(s)
    BY <2>2 DEF Close, OwnSockets, TypeOK
  <2> QED
    BY <1>0, <2>1, <2>2 DEF Connect, Join, Leave, registry
<1>4. CASE BusStep
  BY <1>0, <1>4 DEF BusStep, OnRescope, OnCreated, OnRemoved, OnDropped, registry
<1>5. CASE UNCHANGED vars
  BY <1>0, <1>5 DEF vars, registry
<1> QED BY <1>1, <1>2, <1>3, <1>4, <1>5 DEF Next

Quiet(s) == conn[s] = "closed" /\ s \notin busyAtClose
Traceless(s) == ~InIndex(s) /\ ~Busy(s)

(* A socket that is nowhere stays nowhere while nobody names it. *)
LEMMA StaysTraceless ==
  ASSUME NEW s \in Socket, Traceless(s),
         \A u \in User : s \in connections'[u] => s \in connections[u],
         \A c \in Channel : s \in subscribers'[c] => s \in subscribers[c],
         \A j \in jobs' : j.sock = s => \E k \in jobs : k.sock = s
  PROVE  Traceless(s)'
BY DEF Traceless, InIndex, Busy, Registered, SocketsOf

(* The step in which a socket closes without a call in flight.              *)
LEMMA QuietClose ==
  ASSUME TypeOK, IndexSymmetry, OwnSockets, NEW s \in Socket, Close(s), s \notin busyAtClose'
  PROVE  Traceless(s)'
<1> USE OwnerAssumption
<1>1. ~Busy(s)'
  BY DEF Close, Busy
<1>2. \A u \in User : s \notin connections'[u]
  BY DEF Close, OwnSockets, TypeOK
<1>3. \A c \in Channel : s \notin subscribers'[c]
  BY DEF Close, SetScope, IndexSymmetry
<1> QED BY <1>1, <1>2, <1>3 DEF Traceless, InIndex, Registered, SocketsOf

LEMMA QuietStep == Inv /\ [Next]_vars => QuietCloseLeavesNothing'
<1> SUFFICES ASSUME Inv, [Next]_vars, NEW s \in Socket, Quiet(s)'
             PROVE  Traceless(s)'
  BY DEF QuietCloseLeavesNothing, Quiet, Traceless
<1> USE OwnerAssumption
<1>0. TypeOK /\ IndexSymmetry /\ OwnSockets
  BY DEF Inv
<1>1. Quiet(s) => Traceless(s)
  BY DEF Inv, QuietCloseLeavesNothing, Quiet, Traceless
<1>2. ASSUME UNCHANGED <<conn, connections, subscribers, busyAtClose>>,
             \A j \in jobs' : j.sock = s => \E k \in jobs : k.sock = s
      PROVE  Traceless(s)'
  BY <1>1, <1>2, StaysTraceless DEF Quiet
<1>3. CASE ApiStep
  <2>1. UNCHANGED <<conn, connections, subscribers, busyAtClose, jobs>>
    BY <1>3 DEF ApiStep, AddMember, RemoveMember, CreatePublic, CreatePrivate, OpenDm, AddToPrivate,
       RemoveFromPrivate, DeleteChannel, DeleteWorkspace, Publish, Request, registry, history
  <2> QED BY <1>2, <2>1
<1>4. CASE JobStep
  <2>1. PICK j \in jobs : \/ ReadWorkspaces(j) \/ ReadChannels(j) \/ ApplyScope(j)
                          \/ JoinCheck(j) \/ JoinApply(j) \/ CallFails(j)
    BY <1>4 DEF JobStep
  <2>2. \A k \in jobs' : k \in jobs \/ k.sock = j.sock
    <3>1. j \in Job
      BY <1>0 DEF TypeOK
    <3>2. CASE ReadWorkspaces(j)
      BY <3>1, <3>2 DEF ReadWorkspaces, Advance, Job
    <3>3. CASE ReadChannels(j)
      BY <3>1, <3>3 DEF ReadChannels, Advance, Job
    <3>4. CASE JoinCheck(j)
      BY <3>1, <3>4 DEF JoinCheck, Advance, Finish, Job
    <3> QED BY <2>1, <3>2, <3>3, <3>4 DEF ApplyScope, JoinApply, CallFails, Finish
  <2>3. UNCHANGED <<conn, busyAtClose>>
    BY <2>1 DEF ReadWorkspaces, ReadChannels, ApplyScope, JoinCheck, JoinApply, CallFails, history
  <2>4. Traceless(s) /\ j.sock # s
    BY <1>1, <2>1, <2>3 DEF Quiet, Traceless, Busy
  <2>5. j.sock \in Socket /\ j.scope \subseteq Channel
    BY <1>0, JobTypes DEF TypeOK
  <2>6. CASE ApplyScope(j)
    <3>1. \A u \in User : s \in connections'[u] => s \in connections[u]
      BY <1>0, <2>4, <2>5, <2>6 DEF ApplyScope, TypeOK
    <3>2. \A c \in Channel : s \in subscribers'[c] => s \in subscribers[c]
      BY <1>0, <2>4, <2>6 DEF ApplyScope, SetScope, TypeOK
    <3> QED BY <2>2, <2>4, <3>1, <3>2, StaysTraceless
  <2>7. CASE JoinApply(j)
    <3>1. \A c \in Channel : s \in subscribers'[c] => s \in subscribers[c]
      BY <1>0, <2>4, <2>7 DEF JoinApply, SubscribeAll, TypeOK
    <3> QED BY <2>2, <2>4, <2>7, <3>1, StaysTraceless DEF JoinApply
  <2> QED
    BY <2>1, <2>2, <2>4, <2>6, <2>7, StaysTraceless
       DEF ReadWorkspaces, ReadChannels, JoinCheck, CallFails, registry
<1>5. CASE ClientStep
  <2>1. PICK t \in Socket : \/ Connect(t) \/ Close(t)
                            \/ \E c \in Channel : Join(t, c) \/ Leave(t, c)
    BY <1>5 DEF ClientStep
  <2>2. CASE Connect(t)
    <3>1. t # s /\ conn'[s] = conn[s]
      BY <1>0, <2>2 DEF Connect, TypeOK, Quiet
    <3>2. \A k \in jobs' : k \in jobs \/ k.sock = t
      BY <2>2 DEF Connect, NewJob
    <3> QED BY <1>1, <2>2, <3>1, <3>2, StaysTraceless DEF Connect, Quiet, registry, history
  <2>3. CASE Close(t)
    <3>1. CASE t = s
      BY <1>0, <2>3, <3>1, QuietClose DEF Quiet
    <3>2. CASE t # s
      <4>1. Quiet(s)
        BY <1>0, <2>3, <3>2 DEF Close, Quiet, TypeOK
      <4>2. \A u \in User : s \in connections'[u] => s \in connections[u]
        BY <1>0, <2>3 DEF Close, TypeOK
      <4>3. \A c \in Channel : s \in subscribers'[c] => s \in subscribers[c]
        BY <1>0, <2>3 DEF Close, SetScope, TypeOK
      <4> QED BY <1>1, <2>3, <4>1, <4>2, <4>3, StaysTraceless DEF Close
    <3> QED BY <3>1, <3>2
  <2>4. ASSUME NEW c \in Channel, Join(t, c) PROVE Traceless(s)'
    <3>1. t # s /\ Quiet(s)
      BY <2>4 DEF Join, Quiet, history
    <3>2. PICK n \in Slot :
            jobs' = jobs \cup {[NewJob(t, n, "join") EXCEPT !.phase = "check", !.scope = {c}]}
      BY <2>4, Zenon DEF Join
    <3>3. \A k \in jobs' : k \in jobs \/ k.sock = t
      BY <3>2 DEF NewJob
    <3> QED BY <1>1, <2>4, <3>1, <3>3, StaysTraceless DEF Join, registry
  <2>5. ASSUME NEW c \in Channel, Leave(t, c) PROVE Traceless(s)'
    <3>1. \A d \in Channel : s \in subscribers'[d] => s \in subscribers[d]
      BY <1>0, <2>5 DEF Leave, UnsubscribeAll, TypeOK
    <3> QED BY <1>1, <2>5, <3>1, StaysTraceless DEF Leave, Quiet
  <2> QED BY <2>1, <2>2, <2>3, <2>4, <2>5
<1>6. CASE BusStep
  <2>1. Traceless(s)
    BY <1>1, <1>6 DEF BusStep, OnRescope, OnCreated, OnRemoved, OnDropped, history, Quiet
  <2>2. s \notin Registered
    BY <2>1 DEF Traceless, InIndex
  <2>3. CASE OnRescope
    <3>1. Head(bus).user \in User
      <4>1. bus # <<>> /\ Head(bus).kind = "rescope"
        BY <2>3 DEF OnRescope, Handle
      <4>2. Head(bus) \in Event
        BY <1>0, <4>1 DEF TypeOK
      <4> QED BY <4>1, <4>2 DEF Event
    <3>2. s \notin connections[Head(bus).user]
      BY <2>2, <3>1 DEF Registered, SocketsOf
    <3>3. \A k \in jobs' : k \in jobs \/ k.sock # s
      <4>1. PICK n \in Slot :
              jobs' = jobs \cup {NewJob(x, n, "update") : x \in connections[Head(bus).user]}
        BY <2>3 DEF OnRescope
      <4>2. \A x \in Socket : NewJob(x, n, "update").sock = x
        BY DEF NewJob
      <4>3. connections[Head(bus).user] \subseteq Socket
        BY <1>0, <3>1 DEF TypeOK
      <4> QED BY <3>2, <4>1, <4>2, <4>3
    <3> QED BY <2>1, <2>3, <3>3, StaysTraceless DEF OnRescope, registry
  <2>4. CASE OnCreated
    <3>1. \A c \in Channel : s \in subscribers'[c] => s \in subscribers[c]
      BY <1>0, <2>2, <2>4 DEF OnCreated, SubscribeAll, TypeOK
    <3> QED BY <2>1, <2>4, <3>1, StaysTraceless DEF OnCreated
  <2>5. CASE OnRemoved
    <3>1. \A c \in Channel : s \in subscribers'[c] => s \in subscribers[c]
      BY <1>0, <2>5 DEF OnRemoved, UnsubscribeAll, TypeOK
    <3> QED BY <2>1, <2>5, <3>1, StaysTraceless DEF OnRemoved
  <2>6. CASE OnDropped
    <3>1. \A c \in Channel : s \in subscribers'[c] => s \in subscribers[c]
      BY <1>0, <2>6 DEF OnDropped, DropChannel, TypeOK
    <3> QED BY <2>1, <2>6, <3>1, StaysTraceless DEF OnDropped
  <2> QED BY <1>6, <2>3, <2>4, <2>5, <2>6 DEF BusStep
<1>7. CASE UNCHANGED vars
  BY <1>2, <1>7 DEF vars, registry, history
<1> QED BY <1>3, <1>4, <1>5, <1>6, <1>7 DEF Next

(* A socket that closed with no call in flight is in no index and in no     *)
(* call, for good: onClose's clean-up is complete unless a set-up, a scope  *)
(* refresh or a join is still running.                                      *)
THEOREM QuietCloseIsComplete == Spec => []QuietCloseLeavesNothing
<1>1. Init => OwnSockets /\ QuietCloseLeavesNothing
  BY DEF Init, OwnSockets, QuietCloseLeavesNothing
<1>2. Inv /\ [Next]_vars => OwnSockets' /\ QuietCloseLeavesNothing'
  BY OwnSocketsStep, QuietStep DEF Inv
<1> QED
  BY <1>1, <1>2, TypeCorrect, IndexesMirror, PTL DEF Spec, Inv

-----------------------------------------------------------------------------
(* What a settled socket receives: the invariant                            *)

Subscribe(c) == [kind |-> "subscribe", chan |-> c]

(* What has been announced, or is about to be, and is not handled yet.      *)
Ahead == Range(bus) \cup UNION {Range(r.events) : r \in outbox}
(* The scope of a socket is about to be read again.                         *)
Awaited(s) == Rescope(Owner[s]) \in Ahead \/ \E j \in jobs : j.sock = s /\ j.call = "update"

(* Private channels are for members of the workspace.                       *)
PrivateInside == \A c \in Channel : Live(c, "private") => memberIds[c] \subseteq member

(* Announcements are true for good: channels neither come back nor change kind. *)
EventTrue(e) ==
  /\ e.kind = "subscribe" => Kind[e.chan] = "public" /\ status[e.chan] # "new"
  /\ e.kind = "unsubscribe" => Kind[e.chan] = "private"
  /\ e.kind = "drop" => status[e.chan] = "gone"
EventsTrue == \A e \in Ahead : EventTrue(e)

(* Nobody is in a channel that is yet to be created.                        *)
NoneNew ==
  /\ \A s \in Socket : \A c \in channels[s] : status[c] # "new"
  /\ \A j \in jobs : j.phase = "apply" => \A c \in j.scope : status[c] # "new"

(* What a call has read is still true, unless its socket has raced.         *)
JobCurrent(j) ==
  LET u == Owner[j.sock] IN
  /\ j.phase \in {"workspaces", "channels"} => j.call # "join"
  /\ j.phase = "check" => j.call = "join"
  /\ j.sock \notin raced =>
       /\ j.phase = "channels" => j.inside = (u \in member)
       /\ j.phase = "apply" /\ j.call # "join" => j.scope = Accessible(u) /\ j.inside = (u \in member)
       /\ j.phase = "apply" => j.scope \subseteq Accessible(u)
JobsCurrent == \A j \in jobs : JobCurrent(j)

Tracked(s) == s \in connections[Owner[s]] /\ s \notin raced

(* A tracked socket holds no more than its user may see, or will be told.   *)
NoMore(s) ==
  LET u == Owner[s] IN
  /\ \A c \in channels[s] :
       status[c] = "live" => c \in Accessible(u) \/ Awaited(s) \/ Unsubscribe(u, c) \in Ahead
  /\ s \in inWorkspace =>
       u \in member \/ Awaited(s) \/ \A c \in Channel : Kind[c] = "public" => status[c] = "gone"

(* ... and no less.                                                         *)
NoLess(s) ==
  LET u == Owner[s] IN
  /\ \A c \in Accessible(u) \ channels[s] :
       <<s, c>> \in left \cup untold \/ Awaited(s) \/ Subscribe(c) \in Ahead
  /\ u \in member => s \in inWorkspace \/ Awaited(s)

(* Who may see a channel again is told so after it was told to leave.       *)
Ordered(u, c) ==
  /\ \A n \in DOMAIN bus : bus[n] = Unsubscribe(u, c) =>
       \/ \E m \in DOMAIN bus : m > n /\ bus[m] = Rescope(u)
       \/ \E r \in outbox : Rescope(u) \in Range(r.events)
  /\ \A r \in outbox : Unsubscribe(u, c) \notin Range(r.events)
Named == \A r \in outbox : \A e \in Range(r.events) :
           e.kind = "unsubscribe" => e.user \in r.users \/ status[e.chan] = "gone"

MoreInv == PrivateInside /\ EventsTrue /\ NoneNew /\ JobsCurrent /\ \A s \in Socket : Tracked(s) => NoMore(s)
LessInv ==
  /\ Named
  /\ \A u \in User \ crossed : \A c \in Accessible(u) : Ordered(u, c)
  /\ \A s \in Socket : Tracked(s) /\ Owner[s] \notin crossed => NoLess(s)

-----------------------------------------------------------------------------
(* Sequences and the sets they list                                         *)

LEMMA RangeFacts ==
  /\ Range(<<>>) = {}
  /\ \A e \in Event : Range(<<e>>) = {e}
  /\ \A p, q \in Seq(Event) : Range(p \o q) = Range(p) \cup Range(q)
  /\ \A q \in Seq(Event) : q # <<>> => Range(q) = {Head(q)} \cup Range(Tail(q))
  /\ \A q \in Seq(Event) : Range(q) \subseteq Event
<1>1. Range(<<>>) = {}
  BY DEF Range
<1>2. \A e \in Event : Range(<<e>>) = {e}
  BY DEF Range
<1>3. ASSUME NEW p \in Seq(Event), NEW q \in Seq(Event)
      PROVE  Range(p \o q) = Range(p) \cup Range(q)
  <2> DEFINE pq == p \o q
  <2>1. /\ DOMAIN p = 1..Len(p) /\ DOMAIN q = 1..Len(q) /\ Len(p) \in Nat /\ Len(q) \in Nat
        /\ DOMAIN pq = 1..(Len(p) + Len(q))
        /\ \A i \in 1..(Len(p) + Len(q)) : pq[i] = IF i <= Len(p) THEN p[i] ELSE q[i - Len(p)]
    BY ConcatProperties, LenProperties
  <2> HIDE DEF pq
  <2>2. ASSUME NEW e \in Range(pq) PROVE e \in Range(p) \cup Range(q)
    <3>1. PICK i \in 1..(Len(p) + Len(q)) : e = pq[i]
      BY <2>1, <2>2 DEF Range
    <3>2. CASE i <= Len(p)
      BY <2>1, <3>1, <3>2 DEF Range
    <3>3. CASE ~(i <= Len(p))
      <4>1. i - Len(p) \in 1..Len(q) /\ e = q[i - Len(p)]
        BY <2>1, <3>1, <3>3
      <4> QED BY <2>1, <4>1 DEF Range
    <3> QED BY <3>2, <3>3
  <2>3. ASSUME NEW i \in 1..Len(p) PROVE p[i] \in Range(pq)
    <3>1. i \in 1..(Len(p) + Len(q)) /\ i <= Len(p)
      BY <2>1
    <3> QED BY <2>1, <3>1 DEF Range
  <2>4. ASSUME NEW i \in 1..Len(q) PROVE q[i] \in Range(pq)
    <3>1. i + Len(p) \in 1..(Len(p) + Len(q)) /\ ~(i + Len(p) <= Len(p)) /\ (i + Len(p)) - Len(p) = i
      BY <2>1
    <3> QED BY <2>1, <3>1 DEF Range
  <2>5. Range(p) \subseteq Range(pq) /\ Range(q) \subseteq Range(pq)
    BY <2>1, <2>3, <2>4 DEF Range
  <2> QED BY <2>2, <2>5 DEF pq
<1>4. ASSUME NEW q \in Seq(Event), q # <<>>
      PROVE  Range(q) = {Head(q)} \cup Range(Tail(q))
  <2> DEFINE r == Tail(q)
  <2>1. /\ DOMAIN q = 1..Len(q) /\ Len(q) \in Nat \ {0} /\ Head(q) = q[1]
        /\ DOMAIN r = 1..Len(r) /\ Len(r) = Len(q) - 1
        /\ \A i \in 1..Len(r) : r[i] = q[i + 1]
    BY <1>4, HeadTailProperties, LenProperties, EmptySeq
  <2> HIDE DEF r
  <2>2. ASSUME NEW i \in 1..Len(q) PROVE q[i] \in {Head(q)} \cup Range(r)
    <3>1. CASE i = 1
      BY <2>1, <3>1
    <3>2. CASE i # 1
      <4>1. i - 1 \in 1..Len(r) /\ (i - 1) + 1 = i
        BY <2>1, <3>2
      <4> QED BY <2>1, <4>1 DEF Range
    <3> QED BY <3>1, <3>2
  <2>3. ASSUME NEW i \in 1..Len(r) PROVE r[i] \in Range(q)
    <3>1. i + 1 \in 1..Len(q)
      BY <2>1
    <3> QED BY <2>1, <3>1 DEF Range
  <2>4. Head(q) \in Range(q)
    <3>1. 1 \in 1..Len(q)
      BY <2>1
    <3> QED BY <2>1, <3>1 DEF Range
  <2>5. Range(q) \subseteq {Head(q)} \cup Range(r)
    BY <2>1, <2>2 DEF Range
  <2>6. Range(r) \subseteq Range(q)
    BY <2>1, <2>3 DEF Range
  <2> QED BY <2>4, <2>5, <2>6 DEF r
<1>5. \A q \in Seq(Event) : Range(q) \subseteq Event
  BY DEF Range
<1> QED BY <1>1, <1>2, <1>3, <1>4, <1>5

LEMMA SetToSeqRange ==
  ASSUME NEW S, IsFiniteSet(S)
  PROVE  Range(SetToSeq(S)) = S
<1> DEFINE n == Cardinality(S)
           q == SetToSeq(S)
<1>1. n \in Nat /\ ExistsBijection(1..n, S)
  BY FS_CardinalityType
<1>2. \E f \in [1..n -> S] : IsInjective(f)
  BY <1>1 DEF ExistsBijection, Bijection, Injection
<1>3. q \in [1..n -> S] /\ IsInjective(q)
  BY <1>2 DEF SetToSeq
<1>4. q \in Injection(1..n, S)
  BY <1>3 DEF Injection
<1>5. IsFiniteSet(1..n) /\ Cardinality(1..n) = n
  BY <1>1, FS_Interval
<1> HIDE DEF q
<1>6. q \in Surjection(1..n, S)
  BY <1>4, <1>5, FS_Injection
<1>7. Range(q) = S
  BY <1>6 DEF Surjection, Range
<1> QED BY <1>7 DEF q

LEMMA EachRange ==
  /\ \A U \in SUBSET User : Range(RescopeEach(U)) = {Rescope(u) : u \in U}
  /\ \A U \in SUBSET User, c \in Channel :
       Range(UnsubscribeEach(U, c)) = {Unsubscribe(u, c) : u \in U}
<1> SUFFICES ASSUME NEW U \in SUBSET User
             PROVE  /\ Range(RescopeEach(U)) = {Rescope(u) : u \in U}
                    /\ \A c \in Channel : Range(UnsubscribeEach(U, c)) = {Unsubscribe(u, c) : u \in U}
  OBVIOUS
<1> DEFINE q == SetToSeq(U)
<1>1. Range(q) = U
  BY SetToSeqRange, FS_Subset, UserAssumption
<1>2. RescopeEach(U) = [n \in DOMAIN q |-> Rescope(q[n])]
  BY DEF RescopeEach
<1>3. \A c \in Channel : UnsubscribeEach(U, c) = [n \in DOMAIN q |-> Unsubscribe(q[n], c)]
  BY DEF UnsubscribeEach
<1> HIDE DEF q
<1> QED BY <1>1, <1>2, <1>3 DEF Range

LEMMA EventFacts ==
  /\ \A u \in User : /\ Rescope(u) \in Event /\ Rescope(u).kind = "rescope" /\ Rescope(u).user = u
  /\ \A u \in User, c \in Channel :
       /\ Unsubscribe(u, c) \in Event /\ Unsubscribe(u, c).kind = "unsubscribe"
       /\ Unsubscribe(u, c).user = u /\ Unsubscribe(u, c).chan = c
  /\ \A c \in Channel : /\ Subscribe(c) \in Event /\ Subscribe(c).kind = "subscribe"
                        /\ Subscribe(c).chan = c
  /\ \A e \in Event : /\ e.kind \in {"rescope", "unsubscribe", "subscribe", "drop"}
                      /\ e.kind = "rescope" => e.user \in User /\ e = Rescope(e.user)
                      /\ e.kind = "unsubscribe" => /\ e.user \in User /\ e.chan \in Channel
                                                   /\ e = Unsubscribe(e.user, e.chan)
                      /\ e.kind = "subscribe" => e.chan \in Channel /\ e = Subscribe(e.chan)
                      /\ e.kind = "drop" => e.chan \in Channel
BY DEF Rescope, Unsubscribe, Subscribe, Event

-----------------------------------------------------------------------------
(* What a request of the API announces                                      *)

LEMMA Sees ==
  \A u \in User, c \in Channel :
    c \in Accessible(u) <=> /\ status[c] = "live"
                            /\ IF Kind[c] = "public" THEN u \in member ELSE u \in memberIds[c]
BY DEF Accessible, Visible

LEMMA SeesNext ==
  \A u \in User, c \in Channel :
    c \in Accessible(u)' <=> /\ status'[c] = "live"
                             /\ IF Kind[c] = "public" THEN u \in member' ELSE u \in memberIds'[c]
BY DEF Accessible, Visible

(* The announcements es and the users U of a request fit what it writes.    *)
Lives ==
  \A c \in Channel : /\ status[c] = "gone" => status'[c] = "gone"
                     /\ status[c] # "new" => status'[c] # "new"
                     /\ status'[c] = "live" => status[c] \in {"new", "live"}
Names(U, es) ==
  /\ \A w \in User \ U : Accessible(w)' = Accessible(w) /\ (w \in member' <=> w \in member)
  /\ \A e \in Range(es) : e.kind = "unsubscribe" => e.user \in U \/ status'[e.chan] = "gone"
Truthful(es) ==
  \A e \in Range(es) : /\ EventTrue(e)'
                       /\ e.kind = "unsubscribe" => e.chan \notin Accessible(e.user)'
TellsLoss(es) ==
  /\ \A u \in User, c \in Channel :
       c \in Accessible(u) /\ c \notin Accessible(u)' /\ status'[c] = "live" =>
         Rescope(u) \in Range(es) \/ Unsubscribe(u, c) \in Range(es)
  /\ \A u \in User :
       u \in member /\ u \notin member' =>
         Rescope(u) \in Range(es) \/ \A c \in Channel : Kind[c] = "public" => status'[c] = "gone"
TellsGain(es) ==
  /\ \A u \in User, c \in Channel :
       c \in Accessible(u)' /\ c \notin Accessible(u) =>
         \/ Rescope(u) \in Range(es)
         \/ Subscribe(c) \in Range(es) /\ Kind[c] = "public"
         \/ Kind[c] = "dm" /\ \A s \in Socket : Owner[s] = u => <<s, c>> \in untold'
  /\ \A u \in User : u \in member' /\ u \notin member => Rescope(u) \in Range(es)

Announces(U, es) ==
  /\ U \in SUBSET User /\ es \in Seq(Event) /\ Request(U, es)
  /\ Lives /\ Names(U, es) /\ Truthful(es) /\ TellsLoss(es) /\ TellsGain(es)
  /\ PrivateInside' /\ untold \subseteq untold'

LEMMA AddMemberAnnounces ==
  ASSUME TypeOK, PrivateInside, NEW u \in User, AddMember(u)
  PROVE  Announces({u}, <<Rescope(u)>>)
<1> DEFINE es == <<Rescope(u)>>
<1>1. es \in Seq(Event) /\ Range(es) = {Rescope(u)} /\ Rescope(u).kind = "rescope"
  BY EventFacts, RangeFacts
<1>2. member' = member \cup {u} /\ UNCHANGED <<status, memberIds, untold>> /\ Request({u}, es)
  BY DEF AddMember
<1> HIDE DEF es
<1>3. Lives /\ PrivateInside'
  BY <1>2 DEF Lives, PrivateInside, Live
<1>4. \A w \in User \ {u} : Accessible(w)' = Accessible(w)
  BY <1>2 DEF Accessible, Visible
<1>5. Names({u}, es) /\ Truthful(es)
  BY <1>1, <1>2, <1>4 DEF Names, Truthful, EventTrue
<1>6. TellsLoss(es)
  BY <1>2, Sees, SeesNext DEF TellsLoss
<1>7. TellsGain(es)
  BY <1>1, <1>2, Sees, SeesNext DEF TellsGain
<1> QED BY <1>1, <1>2, <1>3, <1>5, <1>6, <1>7 DEF Announces, es

LEMMA RemoveMemberAnnounces ==
  ASSUME TypeOK, PrivateInside, NEW u \in User, RemoveMember(u)
  PROVE  Announces({u}, <<Rescope(u)>>)
<1> DEFINE es == <<Rescope(u)>>
<1>1. es \in Seq(Event) /\ Range(es) = {Rescope(u)} /\ Rescope(u).kind = "rescope"
  BY EventFacts, RangeFacts
<1>2. member' = member \ {u} /\ UNCHANGED <<status, untold>> /\ Request({u}, es)
      /\ memberIds' = [c \in Channel |-> IF Kind[c] = "private" THEN memberIds[c] \ {u} ELSE memberIds[c]]
  BY DEF RemoveMember
<1> HIDE DEF es
<1>3. Lives /\ PrivateInside'
  BY <1>2 DEF Lives, PrivateInside, Live
<1>4. \A w \in User \ {u} : Accessible(w)' = Accessible(w)
  BY <1>2 DEF Accessible, Visible
<1>5. Names({u}, es) /\ Truthful(es)
  BY <1>1, <1>2, <1>4 DEF Names, Truthful, EventTrue
<1>6. \A w \in User : w # u => Accessible(w)' = Accessible(w) /\ (w \in member' <=> w \in member)
  BY <1>2, <1>4
<1>7. TellsLoss(es)
  BY <1>1, <1>6 DEF TellsLoss
<1>8. TellsGain(es)
  BY <1>1, <1>6 DEF TellsGain
<1> QED BY <1>1, <1>2, <1>3, <1>5, <1>7, <1>8 DEF Announces, es

LEMMA CreatePublicAnnounces ==
  ASSUME TypeOK, PrivateInside, NEW c \in Channel, CreatePublic(c)
  PROVE  Announces(member, <<Subscribe(c)>>)
<1> DEFINE es == <<Subscribe(c)>>
<1>1. es \in Seq(Event) /\ Range(es) = {Subscribe(c)} /\ Subscribe(c).kind = "subscribe" /\ Subscribe(c).chan = c
  BY EventFacts, RangeFacts
<1>2. /\ status' = [status EXCEPT ![c] = "live"] /\ status[c] = "new" /\ Kind[c] = "public"
      /\ UNCHANGED <<member, memberIds, untold>> /\ Request(member, es)
  BY DEF CreatePublic, Create, Subscribe
<1> HIDE DEF es
<1>3. status'[c] = "live" /\ \A d \in Channel \ {c} : status'[d] = status[d]
  BY <1>2 DEF TypeOK
<1>4. Lives /\ PrivateInside'
  BY <1>2, <1>3 DEF Lives, PrivateInside, Live
<1>5. \A w \in User \ member : Accessible(w)' = Accessible(w)
  BY <1>2, <1>3 DEF Accessible, Visible
<1>6. Names(member, es) /\ Truthful(es)
  BY <1>1, <1>2, <1>3, <1>5 DEF Names, Truthful, EventTrue
<1>7. TellsLoss(es)
  BY <1>2, <1>3, Sees, SeesNext DEF TellsLoss
<1>8. TellsGain(es)
  BY <1>1, <1>2, <1>3, Sees, SeesNext DEF TellsGain
<1>9. member \in SUBSET User
  BY DEF TypeOK
<1> QED BY <1>1, <1>2, <1>4, <1>6, <1>7, <1>8, <1>9 DEF Announces, es

LEMMA CreatePrivateAnnounces ==
  ASSUME TypeOK, PrivateInside, NEW c \in Channel, NEW M \in SUBSET User, CreatePrivate(c, M)
  PROVE  Announces(M, RescopeEach(M))
<1> DEFINE es == RescopeEach(M)
<1>1. es \in Seq(Event) /\ Range(es) = {Rescope(u) : u \in M} /\ \A e \in Range(es) : e.kind = "rescope"
  BY EventTypes, EachRange, EventFacts
<1>2. /\ status' = [status EXCEPT ![c] = "live"] /\ status[c] = "new" /\ Kind[c] = "private"
      /\ memberIds' = [memberIds EXCEPT ![c] = M] /\ M \subseteq member
      /\ UNCHANGED <<member, untold>> /\ Request(M, es)
  BY DEF CreatePrivate, Create
<1> HIDE DEF es
<1>3. /\ status'[c] = "live" /\ memberIds'[c] = M
      /\ \A d \in Channel \ {c} : status'[d] = status[d] /\ memberIds'[d] = memberIds[d]
  BY <1>2 DEF TypeOK
<1>4. Lives /\ PrivateInside'
  BY <1>2, <1>3 DEF Lives, PrivateInside, Live
<1>5. \A w \in User \ M : Accessible(w)' = Accessible(w)
  BY <1>2, <1>3 DEF Accessible, Visible
<1>6. Names(M, es) /\ Truthful(es)
  BY <1>1, <1>2, <1>3, <1>5 DEF Names, Truthful, EventTrue
<1>7. TellsLoss(es)
  BY <1>2, <1>3, Sees, SeesNext DEF TellsLoss
<1>8. TellsGain(es)
  BY <1>1, <1>2, <1>3, Sees, SeesNext DEF TellsGain
<1> QED BY <1>1, <1>2, <1>4, <1>6, <1>7, <1>8 DEF Announces, es

LEMMA OpenDmAnnounces ==
  ASSUME TypeOK, PrivateInside, NEW c \in Channel, NEW u \in User \cup {Elsewhere},
         NEW v \in User \cup {Elsewhere}, OpenDm(c, u, v)
  PROVE  Announces({u, v} \cap User, Tell(v))
<1> DEFINE es == Tell(v)
           U == {u, v} \cap User
<1>1. es \in Seq(Event) /\ Range(es) = {Rescope(p) : p \in {v} \cap User} /\ \A e \in Range(es) : e.kind = "rescope"
  <2>1. CASE v \in User
    BY <2>1, EventFacts, RangeFacts DEF Tell
  <2>2. CASE v \notin User
    BY <2>2, RangeFacts DEF Tell
  <2> QED BY <2>1, <2>2
<1>2. /\ status' = [status EXCEPT ![c] = "live"] /\ status[c] = "new" /\ Kind[c] = "dm"
      /\ memberIds' = [memberIds EXCEPT ![c] = U]
      /\ untold' = untold \cup (SocketsAs(u) \X {c}) /\ UNCHANGED member /\ Request(U, es)
  BY DEF OpenDm, Create
<1>3. \A w \in U : w = u \/ w = v
  OBVIOUS
<1> HIDE DEF es
<1>4. /\ status'[c] = "live" /\ memberIds'[c] = U
      /\ \A d \in Channel \ {c} : status'[d] = status[d] /\ memberIds'[d] = memberIds[d]
  BY <1>2 DEF TypeOK
<1>5. U \in SUBSET User
  OBVIOUS
<1> HIDE DEF U
<1>6. Lives /\ PrivateInside'
  BY <1>2, <1>4 DEF Lives, PrivateInside, Live
<1>7. \A w \in User \ U : Accessible(w)' = Accessible(w)
  BY <1>2, <1>4 DEF Accessible, Visible
<1>8. Names(U, es) /\ Truthful(es)
  BY <1>1, <1>2, <1>4, <1>7 DEF Names, Truthful, EventTrue
<1>9. TellsLoss(es)
  BY <1>2, <1>4, Sees, SeesNext DEF TellsLoss
<1>10. TellsGain(es)
  <2>1. ASSUME NEW w \in User, NEW d \in Channel, d \in Accessible(w)', d \notin Accessible(w)
        PROVE  \/ Rescope(w) \in Range(es)
               \/ Kind[d] = "dm" /\ \A s \in Socket : Owner[s] = w => <<s, d>> \in untold'
    <3>1. d = c /\ w \in U
      BY <1>2, <1>4, <2>1, Sees, SeesNext
    <3>2. CASE w = v
      BY <1>1, <3>2
    <3>3. CASE w = u
      BY <1>2, <3>1, <3>3 DEF SocketsAs
    <3> QED BY <1>3, <3>1, <3>2, <3>3
  <2>2. \A w \in User : w \in member' <=> w \in member
    BY <1>2
  <2> QED BY <2>1, <2>2 DEF TellsGain
<1>11. untold \subseteq untold'
  BY <1>2
<1> QED BY <1>1, <1>2, <1>5, <1>6, <1>8, <1>9, <1>10, <1>11 DEF Announces, es, U

LEMMA AddToPrivateAnnounces ==
  ASSUME TypeOK, PrivateInside, NEW c \in Channel, NEW u \in User, AddToPrivate(c, u)
  PROVE  \E es \in Seq(Event) : Announces({u}, es)
<1> DEFINE es == RescopeEach(memberIds'[c]) \o <<Rescope(u)>>
<1>1. memberIds'[c] \in SUBSET User /\ memberIds' = [memberIds EXCEPT ![c] = @ \cup {u}]
  BY DEF AddToPrivate, TypeOK
<1>2. /\ es \in Seq(Event) /\ Rescope(u) \in Range(es)
      /\ \A e \in Range(es) : e.kind = "rescope"
  <2>1. RescopeEach(memberIds'[c]) \in Seq(Event) /\ <<Rescope(u)>> \in Seq(Event)
    BY <1>1, EventTypes, EventFacts
  <2>2. Range(RescopeEach(memberIds'[c])) = {Rescope(w) : w \in memberIds'[c]}
    BY <1>1, EachRange
  <2>3. Range(<<Rescope(u)>>) = {Rescope(u)}
    BY EventFacts, RangeFacts
  <2>4. Range(es) = Range(RescopeEach(memberIds'[c])) \cup Range(<<Rescope(u)>>)
    BY <2>1, RangeFacts
  <2>5. \A w \in memberIds'[c] : Rescope(w).kind = "rescope"
    BY <1>1, EventFacts
  <2>6. Rescope(u).kind = "rescope" /\ es \in Seq(Event)
    BY <2>1, EventFacts
  <2> HIDE DEF es
  <2> QED BY <2>2, <2>3, <2>4, <2>5, <2>6
<1>3. UNCHANGED <<member, status, untold>> /\ Request({u}, es) /\ u \in member /\ Kind[c] = "private"
  BY DEF AddToPrivate, Live
<1> HIDE DEF es
<1>4. memberIds'[c] = memberIds[c] \cup {u} /\ \A d \in Channel \ {c} : memberIds'[d] = memberIds[d]
  BY <1>1 DEF TypeOK
<1>5. Lives /\ PrivateInside'
  BY <1>3, <1>4 DEF Lives, PrivateInside, Live
<1>6. \A w \in User \ {u} : Accessible(w)' = Accessible(w)
  BY <1>3, <1>4 DEF Accessible, Visible
<1>7. Names({u}, es) /\ Truthful(es)
  BY <1>2, <1>3, <1>6 DEF Names, Truthful, EventTrue
<1>8. TellsLoss(es)
  BY <1>3, <1>4, Sees, SeesNext DEF TellsLoss
<1>9. TellsGain(es)
  BY <1>2, <1>3, <1>6 DEF TellsGain
<1> QED BY <1>2, <1>3, <1>5, <1>7, <1>8, <1>9 DEF Announces

LEMMA RemoveFromPrivateAnnounces ==
  ASSUME TypeOK, PrivateInside, NEW c \in Channel, NEW u \in User, RemoveFromPrivate(c, u)
  PROVE  \E es \in Seq(Event) : Announces({u}, es)
<1> DEFINE es == RescopeEach(memberIds[c]) \o <<Unsubscribe(u, c)>>
<1>1. memberIds[c] \in SUBSET User /\ memberIds' = [memberIds EXCEPT ![c] = @ \ {u}]
  BY DEF RemoveFromPrivate, TypeOK
<1>2. /\ es \in Seq(Event) /\ Unsubscribe(u, c) \in Range(es)
      /\ \A e \in Range(es) : e.kind = "rescope" \/ e = Unsubscribe(u, c)
  <2>1. RescopeEach(memberIds[c]) \in Seq(Event) /\ <<Unsubscribe(u, c)>> \in Seq(Event)
    BY <1>1, EventTypes, EventFacts
  <2>2. Range(RescopeEach(memberIds[c])) = {Rescope(w) : w \in memberIds[c]}
    BY <1>1, EachRange
  <2>3. Range(<<Unsubscribe(u, c)>>) = {Unsubscribe(u, c)}
    BY EventFacts, RangeFacts
  <2>4. Range(es) = Range(RescopeEach(memberIds[c])) \cup Range(<<Unsubscribe(u, c)>>)
    BY <2>1, RangeFacts
  <2>5. \A w \in memberIds[c] : Rescope(w).kind = "rescope"
    BY <1>1, EventFacts
  <2>6. Rescope(u).kind = "rescope" /\ es \in Seq(Event)
    BY <2>1, EventFacts
  <2> HIDE DEF es
  <2> QED BY <2>2, <2>3, <2>4, <2>5, <2>6
<1>3. UNCHANGED <<member, status, untold>> /\ Request({u}, es) /\ Kind[c] = "private"
  BY DEF RemoveFromPrivate, Live
<1> HIDE DEF es
<1>4. memberIds'[c] = memberIds[c] \ {u} /\ \A d \in Channel \ {c} : memberIds'[d] = memberIds[d]
  BY <1>1 DEF TypeOK
<1>5. Lives /\ PrivateInside'
  BY <1>3, <1>4 DEF Lives, PrivateInside, Live
<1>6. \A w \in User \ {u} : Accessible(w)' = Accessible(w)
  BY <1>3, <1>4 DEF Accessible, Visible
<1>7. /\ Unsubscribe(u, c).kind = "unsubscribe" /\ Unsubscribe(u, c).user = u /\ Unsubscribe(u, c).chan = c
      /\ c \notin Accessible(u)'
  BY <1>3, <1>4, EventFacts, SeesNext
<1>8. Names({u}, es) /\ Truthful(es)
  BY <1>2, <1>3, <1>6, <1>7 DEF Names, Truthful, EventTrue
<1>9. TellsLoss(es)
  BY <1>2, <1>3, <1>4, Sees, SeesNext DEF TellsLoss
<1>10. TellsGain(es)
  BY <1>3, <1>4, Sees, SeesNext DEF TellsGain
<1> QED BY <1>2, <1>3, <1>5, <1>8, <1>9, <1>10 DEF Announces

LEMMA DeleteChannelAnnounces ==
  ASSUME TypeOK, PrivateInside, NEW c \in Channel, DeleteChannel(c)
  PROVE  \E U \in SUBSET User, es \in Seq(Event) : Announces(U, es)
<1> DEFINE drop == [kind |-> "drop", chan |-> c]
           es == IF Kind[c] = "public" THEN <<drop>> ELSE UnsubscribeEach(memberIds[c], c)
           U == {u \in User : c \in Accessible(u)}
<1>1. memberIds[c] \in SUBSET User /\ drop \in Event
  BY DEF TypeOK, Event
<1>2. /\ es \in Seq(Event)
      /\ \A e \in Range(es) : /\ e.chan = c /\ e.kind \in {"drop", "unsubscribe"}
                              /\ e.kind = "unsubscribe" => Kind[c] # "public"
  <2>1. CASE Kind[c] = "public"
    <3>1. es = <<drop>> /\ Range(es) = {drop}
      BY <1>1, <2>1, RangeFacts
    <3>2. drop.kind = "drop" /\ drop.chan = c
      OBVIOUS
    <3>3. <<drop>> \in Seq(Event)
      BY <1>1
    <3> HIDE DEF drop, es
    <3> QED BY <3>1, <3>2, <3>3
  <2>2. CASE Kind[c] # "public"
    <3>1. es = UnsubscribeEach(memberIds[c], c) /\ Range(es) = {Unsubscribe(u, c) : u \in memberIds[c]}
      BY <1>1, <2>2, EachRange
    <3> QED BY <1>1, <2>2, <3>1, EventTypes, EventFacts
  <2> QED BY <2>1, <2>2
<1>3. /\ UNCHANGED <<member, memberIds, untold>> /\ Request(U, es) /\ status[c] = "live"
      /\ Kind[c] \in {"public", "private"} /\ status' = [status EXCEPT ![c] = "gone"]
  BY DEF DeleteChannel, Live
<1>4. U \in SUBSET User /\ \A w \in User \ U : c \notin Accessible(w)
  OBVIOUS
<1> HIDE DEF es, U
<1>5. status'[c] = "gone" /\ \A d \in Channel \ {c} : status'[d] = status[d]
  BY <1>3 DEF TypeOK
<1>6. Lives /\ PrivateInside'
  BY <1>3, <1>5 DEF Lives, PrivateInside, Live
<1>7. \A w \in User \ U : Accessible(w)' = Accessible(w)
  BY <1>3, <1>4, <1>5 DEF Accessible, Visible
<1>8. \A w \in User : c \notin Accessible(w)'
  BY <1>5, SeesNext
<1>9. Names(U, es) /\ Truthful(es)
  <2>1. Names(U, es)
    BY <1>2, <1>3, <1>5, <1>7 DEF Names
  <2>2. ASSUME NEW e \in Range(es)
        PROVE  EventTrue(e)' /\ (e.kind = "unsubscribe" => e.chan \notin Accessible(e.user)')
    <3>1. e \in Event /\ e.chan = c
      BY <1>2, RangeFacts
    <3>2. e.kind = "unsubscribe" => e.user \in User
      BY <3>1, EventFacts
    <3> QED BY <1>2, <1>3, <1>5, <1>8, <3>1, <3>2 DEF EventTrue
  <2> QED BY <2>1, <2>2 DEF Truthful
<1>10. TellsLoss(es)
  BY <1>3, <1>5, Sees, SeesNext DEF TellsLoss
<1>11. TellsGain(es)
  BY <1>3, <1>5, Sees, SeesNext DEF TellsGain
<1> QED BY <1>2, <1>3, <1>4, <1>6, <1>9, <1>10, <1>11 DEF Announces

LEMMA DeleteWorkspaceAnnounces ==
  ASSUME TypeOK, PrivateInside, DeleteWorkspace
  PROVE  Announces(member, <<>>)
<1> DEFINE es == <<>>
<1>1. <<>> \in Seq(Event) /\ Range(<<>>) = {}
  BY RangeFacts
<1>2. /\ member' = {} /\ UNCHANGED <<memberIds, untold>> /\ Request(member, <<>>)
      /\ \A c \in Channel : status'[c] = IF Kind[c] = "dm" THEN status[c] ELSE "gone"
  BY DEF DeleteWorkspace
<1>3. Lives /\ PrivateInside'
  BY <1>2 DEF Lives, PrivateInside, Live
<1>4. ASSUME NEW w \in User \ member PROVE Accessible(w)' = Accessible(w)
  <2>1. \A c \in Channel : c \in Accessible(w)' <=> c \in Accessible(w)
    BY <1>2, Sees, SeesNext, KindAssumption DEF PrivateInside, Live
  <2>2. Accessible(w) \subseteq Channel /\ Accessible(w)' \subseteq Channel
    BY DEF Accessible, Visible
  <2> QED BY <2>1, <2>2
<1>5. Names(member, <<>>) /\ Truthful(<<>>)
  BY <1>1, <1>2, <1>4 DEF Names, Truthful
<1>6. TellsLoss(<<>>)
  BY <1>1, <1>2, Sees, SeesNext DEF TellsLoss
<1>7. TellsGain(<<>>)
  BY <1>1, <1>2, Sees, SeesNext DEF TellsGain
<1>8. member \in SUBSET User
  BY DEF TypeOK
<1> QED BY <1>1, <1>2, <1>3, <1>5, <1>6, <1>7, <1>8 DEF Announces

LEMMA RequestAnnounces ==
  ASSUME TypeOK, PrivateInside, ApiStep
  PROVE  (\E U \in SUBSET User, es \in Seq(Event) : Announces(U, es)) \/ (\E r \in outbox : Publish(r))
<1>1. ASSUME NEW U, NEW es, Announces(U, es)
      PROVE  \E V \in SUBSET User, fs \in Seq(Event) : Announces(V, fs)
  BY <1>1 DEF Announces
<1> QED
  BY <1>1, AddMemberAnnounces, RemoveMemberAnnounces, CreatePublicAnnounces, CreatePrivateAnnounces,
     OpenDmAnnounces, AddToPrivateAnnounces, RemoveFromPrivateAnnounces, DeleteChannelAnnounces,
     DeleteWorkspaceAnnounces DEF ApiStep

-----------------------------------------------------------------------------
(* A request keeps the invariant                                            *)

LEMMA AheadFacts ==
  TypeOK => /\ Ahead \subseteq Event
            /\ \A e : e \in Ahead <=> e \in Range(bus) \/ \E r \in outbox : e \in Range(r.events)
BY RangeFacts DEF TypeOK, Ahead

LEMMA UnderAnnounces ==
  ASSUME TypeOK, NEW U, NEW es, Announces(U, es)
  PROVE  /\ Ahead' = Ahead \cup Range(es)
         /\ UNCHANGED <<bus, connections, subscribers, channels, inWorkspace, jobs, left>>
         /\ \A s \in Socket : s \notin raced' =>
              s \notin raced /\ \A j \in jobs : j.sock = s => ~Affected(Owner[s])
         /\ \A u \in User : u \notin crossed' =>
              u \notin crossed /\ (u \in U => \A r \in outbox : u \notin r.users)
         /\ \A r \in outbox' : r \in outbox \/ (r.users = U /\ r.events = es)
         /\ outbox \subseteq outbox' /\ \E r \in outbox' : r.events = es
<1> DEFINE r0 == [n |-> changes, users |-> U, events |-> es]
<1>1. /\ outbox' = outbox \cup {r0} /\ UNCHANGED <<bus, jobs, left, registry>>
      /\ raced' = raced \cup {s \in Socket : Owner[s] \in U /\ Busy(s) /\ Affected(Owner[s])}
      /\ crossed' = crossed \cup (U \cap UNION {r.users : r \in outbox})
  BY DEF Announces, Request
<1>2. r0.users = U /\ r0.events = es
  OBVIOUS
<1> HIDE DEF r0
<1>3. Ahead' = Ahead \cup Range(es)
  BY <1>1, <1>2 DEF Ahead
<1>4. \A u \in User : Affected(u) => u \in U
  BY DEF Announces, Names, Affected
<1> QED BY <1>1, <1>2, <1>3, <1>4, OwnerAssumption DEF registry, Busy

LEMMA AnnouncesMore ==
  ASSUME TypeOK, MoreInv, NEW U, NEW es, Announces(U, es)
  PROVE  MoreInv'
<1>0. /\ Ahead' = Ahead \cup Range(es)
      /\ UNCHANGED <<connections, channels, inWorkspace, jobs>>
      /\ \A s \in Socket : s \notin raced' =>
           s \notin raced /\ \A j \in jobs : j.sock = s => ~Affected(Owner[s])
  BY UnderAnnounces
<1>1. PrivateInside' /\ Lives /\ Names(U, es) /\ Truthful(es) /\ TellsLoss(es)
  BY DEF Announces
<1>2. \A j \in jobs : j.sock \in Socket /\ Owner[j.sock] \in User /\ j.scope \subseteq Channel
  BY JobTypes, OwnerAssumption DEF TypeOK
<1>3. EventsTrue'
  <2>1. ASSUME NEW e \in Ahead PROVE EventTrue(e)'
    <3>1. EventTrue(e) /\ e \in Event
      BY <2>1, AheadFacts DEF MoreInv, EventsTrue
    <3>2. e.kind \in {"subscribe", "drop"} => e.chan \in Channel
      BY <3>1, EventFacts
    <3> QED BY <1>1, <3>1, <3>2 DEF EventTrue, Lives
  <2> QED BY <1>0, <1>1, <2>1 DEF EventsTrue, Truthful
<1>4. NoneNew'
  BY <1>0, <1>1, <1>2 DEF MoreInv, NoneNew, Lives, TypeOK
<1>5. JobsCurrent'
  <2> SUFFICES ASSUME NEW j \in jobs PROVE JobCurrent(j)'
    BY <1>0 DEF JobsCurrent
  <2>1. JobCurrent(j)
    BY DEF MoreInv, JobsCurrent
  <2>2. CASE j.sock \in raced'
    BY <2>1, <2>2 DEF JobCurrent
  <2>3. CASE j.sock \notin raced'
    <3>1. ~Affected(Owner[j.sock]) /\ j.sock \notin raced
      BY <1>0, <1>2, <2>3
    <3>2. Accessible(Owner[j.sock])' = Accessible(Owner[j.sock])
          /\ (Owner[j.sock] \in member' <=> Owner[j.sock] \in member)
      BY <3>1 DEF Affected
    <3> QED BY <2>1, <3>1, <3>2 DEF JobCurrent
  <2> QED BY <2>2, <2>3
<1>6. ASSUME NEW s \in Socket, Tracked(s)' PROVE NoMore(s)'
  <2>1. Tracked(s) /\ NoMore(s) /\ Owner[s] \in User
    BY <1>0, <1>6, OwnerAssumption DEF Tracked, MoreInv
  <2>2. /\ Awaited(s) => Awaited(s)'
        /\ Rescope(Owner[s]) \in Range(es) => Awaited(s)'
    BY <1>0 DEF Awaited
  <2>3. ASSUME NEW c \in channels'[s], status'[c] = "live"
        PROVE  c \in Accessible(Owner[s])' \/ Awaited(s)' \/ Unsubscribe(Owner[s], c) \in Ahead'
    <3>1. c \in channels[s] /\ c \in Channel
      BY <1>0, <2>3 DEF TypeOK
    <3>2. status[c] = "live"
      BY <1>1, <2>3, <3>1 DEF Lives, MoreInv, NoneNew
    <3>3. c \in Accessible(Owner[s]) \/ Awaited(s) \/ Unsubscribe(Owner[s], c) \in Ahead
      BY <2>1, <3>1, <3>2 DEF NoMore
    <3> QED BY <1>0, <1>1, <2>1, <2>2, <2>3, <3>1, <3>3 DEF TellsLoss
  <2>4. ASSUME s \in inWorkspace'
        PROVE  Owner[s] \in member' \/ Awaited(s)' \/ \A c \in Channel : Kind[c] = "public" => status'[c] = "gone"
    <3>1. Owner[s] \in member \/ Awaited(s) \/ \A c \in Channel : Kind[c] = "public" => status[c] = "gone"
      BY <1>0, <2>1, <2>4 DEF NoMore
    <3> QED BY <1>1, <2>1, <2>2, <3>1 DEF TellsLoss, Lives
  <2> QED BY <2>3, <2>4 DEF NoMore
<1> QED BY <1>1, <1>3, <1>4, <1>5, <1>6 DEF MoreInv

LEMMA AnnouncesLess ==
  ASSUME TypeOK, MoreInv, LessInv, NEW U, NEW es, Announces(U, es)
  PROVE  LessInv'
<1>0. /\ Ahead' = Ahead \cup Range(es)
      /\ UNCHANGED <<bus, connections, channels, inWorkspace, jobs, left>>
      /\ \A s \in Socket : s \notin raced' => s \notin raced
      /\ \A u \in User : u \notin crossed' =>
           u \notin crossed /\ (u \in U => \A r \in outbox : u \notin r.users)
      /\ \A r \in outbox' : r \in outbox \/ (r.users = U /\ r.events = es)
      /\ outbox \subseteq outbox' /\ \E r \in outbox' : r.events = es
  BY UnderAnnounces
<1>1. Lives /\ Names(U, es) /\ Truthful(es) /\ TellsGain(es) /\ untold \subseteq untold'
  BY DEF Announces
<1>2. \A r \in outbox : Range(r.events) \subseteq Ahead
  BY AheadFacts
<1>3. Named'
  <2>1. ASSUME NEW r \in outbox, NEW e \in Range(r.events), e.kind = "unsubscribe"
        PROVE  e.user \in r.users \/ status'[e.chan] = "gone"
    <3>1. e \in Event
      BY <1>2, <2>1, AheadFacts
    <3>2. e.chan \in Channel
      BY <2>1, <3>1, EventFacts
    <3> QED BY <1>1, <2>1, <3>2 DEF LessInv, Named, Lives
  <2> QED BY <1>0, <1>1, <2>1 DEF Named, Names
<1>4. ASSUME NEW u \in User \ crossed', NEW c \in Accessible(u)' PROVE Ordered(u, c)'
  <2>1. c \in Channel /\ u \notin crossed /\ status'[c] = "live"
    BY <1>0, SeesNext DEF Accessible, Visible
  <2>2. Unsubscribe(u, c) \notin Range(es)
    BY <1>1, <2>1, EventFacts DEF Truthful
  <2>3. CASE c \in Accessible(u)
    <3>1. Ordered(u, c)
      BY <2>1, <2>3 DEF LessInv
    <3> QED BY <1>0, <2>2, <3>1 DEF Ordered
  <2>4. CASE c \notin Accessible(u)
    <3>1. u \in U
      BY <1>1, <2>4 DEF Names
    <3>2. \A r \in outbox : Unsubscribe(u, c) \notin Range(r.events)
      <4>1. SUFFICES ASSUME NEW r \in outbox, Unsubscribe(u, c) \in Range(r.events) PROVE FALSE
        OBVIOUS
      <4>2. u \in r.users \/ status[c] = "gone"
        BY <2>1, <4>1, EventFacts DEF LessInv, Named
      <4> QED BY <1>0, <1>1, <2>1, <3>1, <4>2 DEF Lives
    <3>3. CASE Rescope(u) \in Range(es)
      BY <1>0, <2>2, <3>2, <3>3 DEF Ordered
    <3>4. CASE Rescope(u) \notin Range(es)
      <4>1. Kind[c] # "private"
        BY <1>1, <2>1, <2>4, <3>4 DEF TellsGain
      <4>2. Unsubscribe(u, c) \notin Ahead
        BY <2>1, <4>1, EventFacts DEF MoreInv, EventsTrue, EventTrue
      <4>3. \A n \in DOMAIN bus : bus[n] # Unsubscribe(u, c)
        BY <4>2, AheadFacts DEF Range
      <4> QED BY <1>0, <2>2, <3>2, <4>3 DEF Ordered
    <3> QED BY <3>3, <3>4
  <2> QED BY <2>3, <2>4
<1>5. ASSUME NEW s \in Socket, Tracked(s)', Owner[s] \notin crossed' PROVE NoLess(s)'
  <2>1. NoLess(s) /\ Owner[s] \in User
    BY <1>0, <1>5, OwnerAssumption DEF Tracked, LessInv
  <2>2. /\ Awaited(s) => Awaited(s)'
        /\ Rescope(Owner[s]) \in Range(es) => Awaited(s)'
    BY <1>0 DEF Awaited
  <2>3. ASSUME NEW c \in Accessible(Owner[s])' \ channels'[s]
        PROVE  <<s, c>> \in left' \cup untold' \/ Awaited(s)' \/ Subscribe(c) \in Ahead'
    <3>1. c \in Channel
      BY DEF Accessible, Visible
    <3>2. CASE c \in Accessible(Owner[s])
      BY <1>0, <1>1, <2>1, <2>2, <2>3, <3>2 DEF NoLess
    <3>3. CASE c \notin Accessible(Owner[s])
      BY <1>0, <1>1, <2>1, <2>2, <2>3, <3>1, <3>3 DEF TellsGain
    <3> QED BY <3>2, <3>3
  <2>4. Owner[s] \in member' => s \in inWorkspace' \/ Awaited(s)'
    BY <1>0, <1>1, <2>1, <2>2 DEF NoLess, TellsGain
  <2> QED BY <2>3, <2>4 DEF NoLess
<1> QED BY <1>3, <1>4, <1>5 DEF LessInv

LEMMA PublishKeeps ==
  ASSUME TypeOK, MoreInv, LessInv, NEW r \in outbox, Publish(r)
  PROVE  MoreInv' /\ LessInv'
<1>1. /\ bus' = bus \o r.events /\ outbox' = outbox \ {r}
      /\ UNCHANGED <<member, status, memberIds, connections, channels, inWorkspace, jobs, raced, crossed, left, untold>>
  BY DEF Publish, db, registry, history
<1>2. bus \in Seq(Event) /\ r.events \in Seq(Event)
  BY DEF TypeOK
<1>3. Range(bus') = Range(bus) \cup Range(r.events)
  BY <1>1, <1>2, RangeFacts
<1>4. Ahead' = Ahead
  BY <1>1, <1>3 DEF Ahead
<1>5. \A u \in User : Accessible(u)' = Accessible(u)
  BY <1>1 DEF Accessible, Visible
<1>6. Owner \in [Socket -> User] /\ \A j \in jobs : Owner[j.sock] \in User
  BY JobTypes, OwnerAssumption DEF TypeOK
<1>7. \A s \in Socket : Awaited(s)' = Awaited(s) /\ Tracked(s)' = Tracked(s)
  BY <1>1, <1>4 DEF Awaited, Tracked
<1>8. MoreInv'
  <2>1. PrivateInside' /\ EventsTrue' /\ NoneNew'
    BY <1>1, <1>4 DEF MoreInv, PrivateInside, Live, EventsTrue, EventTrue, NoneNew
  <2>2. JobsCurrent'
    BY <1>1, <1>5, <1>6 DEF MoreInv, JobsCurrent, JobCurrent
  <2>3. \A s \in Socket : Tracked(s)' => NoMore(s)'
    BY <1>1, <1>4, <1>5, <1>6, <1>7 DEF MoreInv, NoMore
  <2> QED BY <2>1, <2>2, <2>3 DEF MoreInv
<1>9. Named'
  BY <1>1 DEF LessInv, Named
<1>10. ASSUME NEW u \in User \ crossed', NEW c \in Accessible(u)' PROVE Ordered(u, c)'
  <2>1. Ordered(u, c) /\ Unsubscribe(u, c) \notin Range(r.events)
    BY <1>1, <1>5, <1>10 DEF LessInv, Ordered
  <2>2. /\ DOMAIN bus = 1..Len(bus) /\ Len(bus) \in Nat
        /\ DOMAIN r.events = 1..Len(r.events) /\ Len(r.events) \in Nat
        /\ DOMAIN bus' = 1..(Len(bus) + Len(r.events))
        /\ \A i \in 1..(Len(bus) + Len(r.events)) :
             bus'[i] = IF i <= Len(bus) THEN bus[i] ELSE r.events[i - Len(bus)]
    BY <1>1, <1>2, ConcatProperties, LenProperties
  <2>3. ASSUME NEW n \in DOMAIN bus', bus'[n] = Unsubscribe(u, c)
        PROVE  n \in DOMAIN bus /\ bus[n] = Unsubscribe(u, c)
    <3>1. CASE n <= Len(bus)
      BY <2>2, <2>3, <3>1
    <3>2. CASE ~(n <= Len(bus))
      <4>1. n - Len(bus) \in 1..Len(r.events) /\ r.events[n - Len(bus)] = Unsubscribe(u, c)
        BY <2>2, <2>3, <3>2
      <4> QED BY <2>1, <2>2, <4>1 DEF Range
    <3> QED BY <3>1, <3>2
  <2>4. ASSUME NEW n \in DOMAIN bus, NEW m \in DOMAIN bus, m > n, bus[m] = Rescope(u)
        PROVE  \E k \in DOMAIN bus' : k > n /\ bus'[k] = Rescope(u)
    <3>1. m \in 1..(Len(bus) + Len(r.events)) /\ m <= Len(bus)
      BY <2>2, <2>4
    <3> QED BY <2>2, <2>4, <3>1
  <2>5. ASSUME NEW n \in DOMAIN bus, Rescope(u) \in Range(r.events)
        PROVE  \E k \in DOMAIN bus' : k > n /\ bus'[k] = Rescope(u)
    <3>1. PICK i \in 1..Len(r.events) : r.events[i] = Rescope(u)
      BY <2>2, <2>5 DEF Range
    <3> DEFINE k == Len(bus) + i
    <3>2. /\ k \in 1..(Len(bus) + Len(r.events)) /\ ~(k <= Len(bus)) /\ k - Len(bus) = i /\ k > n
      BY <2>2, <2>5, <3>1
    <3>3. bus'[k] = Rescope(u)
      BY <2>2, <3>1, <3>2
    <3> QED BY <2>2, <3>2, <3>3
  <2>6. ASSUME NEW n \in DOMAIN bus', bus'[n] = Unsubscribe(u, c)
        PROVE  \/ \E m \in DOMAIN bus' : m > n /\ bus'[m] = Rescope(u)
               \/ \E q \in outbox' : Rescope(u) \in Range(q.events)
    <3>1. n \in DOMAIN bus /\ bus[n] = Unsubscribe(u, c)
      BY <2>3, <2>6
    <3>2. \/ \E m \in DOMAIN bus : m > n /\ bus[m] = Rescope(u)
          \/ \E q \in outbox : Rescope(u) \in Range(q.events)
      BY <2>1, <3>1 DEF Ordered
    <3>3. CASE \E m \in DOMAIN bus : m > n /\ bus[m] = Rescope(u)
      BY <2>4, <3>1, <3>3
    <3>4. CASE \E q \in outbox : Rescope(u) \in Range(q.events)
      BY <1>1, <2>5, <3>1, <3>4
    <3> QED BY <3>2, <3>3, <3>4
  <2>7. \A q \in outbox' : Unsubscribe(u, c) \notin Range(q.events)
    BY <1>1, <2>1 DEF Ordered
  <2> QED BY <2>6, <2>7 DEF Ordered
<1>11. \A s \in Socket : Tracked(s)' /\ Owner[s] \notin crossed' => NoLess(s)'
  BY <1>1, <1>4, <1>5, <1>6, <1>7 DEF LessInv, NoLess
<1> QED BY <1>8, <1>9, <1>10, <1>11 DEF LessInv

-----------------------------------------------------------------------------
(* The steps of the instance keep the invariant                             *)

LEMMA ApiStill ==
  UNCHANGED api => \A u : Accessible(u)' = Accessible(u)
BY DEF api, db, Accessible, Visible

LEMMA JobOwners ==
  TypeOK => \A j \in jobs : j \in Job /\ j.sock \in Socket /\ Owner[j.sock] \in User /\ j.scope \subseteq Channel
BY JobTypes, OwnerAssumption DEF TypeOK

(* What is said of a socket survives a step that leaves it alone, ...       *)
LEMMA SocketStill ==
  ASSUME NEW s \in Socket, UNCHANGED api, Tracked(s) => NoMore(s) /\ (Owner[s] \notin crossed => NoLess(s)),
         Ahead' = Ahead, crossed' = crossed, left \subseteq left', untold \subseteq untold',
         channels'[s] = channels[s], s \in inWorkspace' <=> s \in inWorkspace,
         Tracked(s)' => Tracked(s) /\ (Awaited(s) => Awaited(s)')
  PROVE  Tracked(s)' => NoMore(s)' /\ (Owner[s] \notin crossed' => NoLess(s)')
<1> SUFFICES ASSUME Tracked(s)' PROVE NoMore(s)' /\ (Owner[s] \notin crossed' => NoLess(s)')
  OBVIOUS
<1>1. Accessible(Owner[s])' = Accessible(Owner[s]) /\ UNCHANGED <<member, status>>
  BY ApiStill DEF api, db
<1>2. NoMore(s)'
  BY <1>1 DEF NoMore
<1>3. Owner[s] \notin crossed' => NoLess(s)'
  BY <1>1 DEF NoLess
<1> QED BY <1>2, <1>3

(* ... and holds of a socket whose scope is exact.                          *)
LEMMA SocketExact ==
  ASSUME NEW s \in Socket, UNCHANGED api, channels'[s] = Accessible(Owner[s]),
         s \in inWorkspace' <=> Owner[s] \in member
  PROVE  NoMore(s)' /\ NoLess(s)'
<1>1. Accessible(Owner[s])' = Accessible(Owner[s]) /\ UNCHANGED member
  BY ApiStill DEF api, db
<1> QED BY <1>1 DEF NoMore, NoLess

Sockets == \A s \in Socket : Tracked(s) => NoMore(s) /\ (Owner[s] \notin crossed => NoLess(s))

LEMMA InvSockets == MoreInv /\ LessInv => Sockets
BY DEF MoreInv, LessInv, Sockets

LEMMA LocalKeeps ==
  ASSUME MoreInv, LessInv, UNCHANGED <<api, bus, crossed>>, NoneNew', JobsCurrent', Sockets'
  PROVE  MoreInv' /\ LessInv'
<1>1. UNCHANGED <<member, status, memberIds, outbox, bus, crossed>>
  BY DEF api, db
<1>2. Ahead' = Ahead
  BY <1>1 DEF Ahead
<1>3. PrivateInside' /\ EventsTrue' /\ Named'
  BY <1>1, <1>2 DEF MoreInv, LessInv, PrivateInside, Live, EventsTrue, EventTrue, Named
<1>4. \A u \in User \ crossed' : \A c \in Accessible(u)' : Ordered(u, c)'
  BY <1>1, ApiStill DEF LessInv, Ordered
<1> QED BY <1>3, <1>4 DEF MoreInv, LessInv, Sockets

(* Calls that only read, end, or begin.                                     *)
LEMMA CallKeeps ==
  ASSUME TypeOK, MoreInv, LessInv, UNCHANGED <<api, bus, registry, crossed, left, untold>>,
         raced \subseteq raced',
         \A k \in jobs' : k \in jobs \/ (JobCurrent(k)' /\ (k.phase = "apply" => \A c \in k.scope : status[c] # "new")),
         \A j \in jobs : j.call = "update" /\ j \notin jobs' =>
           j.sock \in raced' \/ \E k \in jobs' : k.sock = j.sock /\ k.call = "update"
  PROVE  MoreInv' /\ LessInv'
<1>1. UNCHANGED <<member, status, memberIds, outbox, connections, channels, inWorkspace>>
  BY DEF api, db, registry
<1>2. Ahead' = Ahead
  BY <1>1 DEF Ahead
<1>3. NoneNew'
  BY <1>1 DEF MoreInv, NoneNew
<1>4. JobsCurrent'
  <2> SUFFICES ASSUME NEW k \in jobs', k \in jobs PROVE JobCurrent(k)'
    BY DEF JobsCurrent
  <2>1. JobCurrent(k) /\ Accessible(Owner[k.sock])' = Accessible(Owner[k.sock])
    BY ApiStill DEF MoreInv, JobsCurrent
  <2> QED BY <1>1, <2>1 DEF JobCurrent
<1>5. ASSUME NEW s \in Socket
      PROVE  Tracked(s)' => NoMore(s)' /\ (Owner[s] \notin crossed' => NoLess(s)')
  <2>1. Tracked(s)' => Tracked(s)
    BY <1>1 DEF Tracked
  <2>2. ASSUME Tracked(s)', Awaited(s) PROVE Awaited(s)'
    <3>1. CASE Rescope(Owner[s]) \in Ahead
      BY <1>2, <3>1 DEF Awaited
    <3>2. ASSUME NEW j \in jobs, j.sock = s, j.call = "update" PROVE Awaited(s)'
      BY <2>2, <3>2 DEF Awaited, Tracked
    <3> QED BY <2>2, <3>1, <3>2 DEF Awaited
  <2> QED BY <1>1, <1>2, <2>1, <2>2, InvSockets, SocketStill DEF Sockets
<1> QED BY <1>3, <1>4, <1>5, LocalKeeps DEF Sockets

LEMMA ReadKeeps ==
  ASSUME TypeOK, MoreInv, LessInv, NEW j \in jobs,
         ReadWorkspaces(j) \/ ReadChannels(j) \/ JoinCheck(j) \/ CallFails(j)
  PROVE  MoreInv' /\ LessInv'
<1> DEFINE u == Owner[j.sock]
<1>0. j \in Job /\ u \in User /\ JobCurrent(j) /\ j.sock \in Socket
  BY JobOwners DEF MoreInv, JobsCurrent
<1>1. UNCHANGED <<api, bus, registry, crossed, left, untold>> /\ raced \subseteq raced'
  BY DEF ReadWorkspaces, ReadChannels, JoinCheck, CallFails, history
<1>2. Accessible(u)' = Accessible(u) /\ UNCHANGED <<member, status>>
  BY <1>1, ApiStill DEF api, db
<1>3. CASE CallFails(j)
  <2>1. jobs' = jobs \ {j} /\ (j.call = "update" => j.sock \in raced')
    BY <1>3 DEF CallFails, Finish
  <2> QED BY <1>1, <2>1, CallKeeps
<1>4. CASE JoinCheck(j)
  <2> DEFINE k == [j EXCEPT !.phase = "apply"]
  <2>1. j.call = "join" /\ raced' = raced
    BY <1>0, <1>4 DEF JoinCheck, JobCurrent, history
  <2>2. CASE jobs' = jobs \ {j}
    BY <1>1, <2>1, <2>2, CallKeeps
  <2>3. CASE jobs' = (jobs \ {j}) \cup {k} /\ j.scope \subseteq Accessible(u)
    <3>1. k.phase = "apply" /\ k.call = "join" /\ k.sock = j.sock /\ k.scope = j.scope
      BY <1>0, <2>1 DEF Job
    <3>2. \A c \in j.scope : status[c] # "new"
      BY <2>3 DEF Accessible, Visible
    <3> HIDE DEF k
    <3>3. JobCurrent(k)'
      BY <1>2, <2>3, <3>1 DEF JobCurrent
    <3> QED BY <1>1, <2>1, <2>3, <3>1, <3>2, <3>3, CallKeeps
  <2> QED BY <1>4, <2>2, <2>3 DEF JoinCheck, Advance, Finish
<1>5. CASE ReadWorkspaces(j)
  <2>1. \E k : /\ k = [j EXCEPT !.phase = "channels", !.inside = (u \in member)]
               /\ jobs' = (jobs \ {j}) \cup {k}
    BY <1>5 DEF ReadWorkspaces, Advance
  <2>2. PICK k : /\ jobs' = (jobs \ {j}) \cup {k} /\ k.phase = "channels" /\ k.call = j.call
                 /\ k.sock = j.sock /\ k.inside = (u \in member)
    BY <1>0, <2>1 DEF Job
  <2>3. j.call # "join"
    BY <1>0, <1>5 DEF ReadWorkspaces, JobCurrent
  <2>4. JobCurrent(k)'
    BY <1>2, <2>2, <2>3 DEF JobCurrent
  <2> QED BY <1>1, <2>2, <2>4, CallKeeps
<1>6. CASE ReadChannels(j)
  <2>1. PICK now \in {j.inside, u \in member} :
          Advance(j, [j EXCEPT !.phase = "apply", !.scope = Visible(u, j.inside), !.inside = now])
    BY <1>6 DEF ReadChannels
  <2>2. \E k : /\ k = [j EXCEPT !.phase = "apply", !.scope = Visible(u, j.inside), !.inside = now]
               /\ jobs' = (jobs \ {j}) \cup {k}
    BY <2>1 DEF Advance
  <2>3. PICK k : /\ jobs' = (jobs \ {j}) \cup {k} /\ k.phase = "apply" /\ k.call = j.call
                 /\ k.sock = j.sock /\ k.scope = Visible(u, j.inside) /\ k.inside = now
    BY <1>0, <2>2 DEF Job
  <2>4. j.call # "join" /\ j.phase = "channels" /\ raced' = raced
    BY <1>0, <1>6 DEF ReadChannels, JobCurrent, history
  <2>5. j.sock \notin raced => Visible(u, j.inside) = Accessible(u) /\ now = (u \in member)
    BY <1>0, <2>4 DEF JobCurrent, Accessible
  <2>6. JobCurrent(k)'
    BY <1>2, <2>3, <2>4, <2>5 DEF JobCurrent
  <2>7. \A c \in k.scope : status[c] # "new"
    BY <2>3 DEF Visible
  <2> QED BY <1>1, <2>3, <2>6, <2>7, CallKeeps
<1> QED BY <1>3, <1>4, <1>5, <1>6

LEMMA ApplyKeeps ==
  ASSUME TypeOK, MoreInv, LessInv, NEW j \in jobs, ApplyScope(j)
  PROVE  MoreInv' /\ LessInv'
<1> DEFINE s == j.sock
<1>0. /\ JobCurrent(j) /\ s \in Socket /\ Owner[s] \in User /\ j.scope \subseteq Channel
      /\ j.phase = "apply" /\ j.call # "join"
  BY JobOwners DEF MoreInv, JobsCurrent, ApplyScope
<1>1. /\ UNCHANGED <<api, bus, raced, crossed, left, untold>> /\ jobs' = jobs \ {j}
      /\ channels' = [channels EXCEPT ![s] = j.scope]
      /\ inWorkspace' = IF j.inside THEN inWorkspace \cup {s} ELSE inWorkspace \ {s}
      /\ connections' \in {connections, [connections EXCEPT ![Owner[s]] = @ \cup {s}]}
  BY DEF ApplyScope, SetScope, Finish, history
<1>2. channels'[s] = j.scope /\ \A t \in Socket \ {s} : channels'[t] = channels[t]
  BY <1>0, <1>1 DEF TypeOK
<1>3. \A t \in Socket \ {s} : t \in connections'[Owner[t]] => t \in connections[Owner[t]]
  <2>1. \A v \in User : connections'[v] \subseteq connections[v] \cup {s}
    <3>1. CASE connections' = connections
      BY <3>1
    <3>2. CASE connections' = [connections EXCEPT ![Owner[s]] = @ \cup {s}]
      BY <3>2 DEF TypeOK
    <3> QED BY <1>1, <3>1, <3>2
  <2> QED BY <2>1, OwnerAssumption
<1>4. Ahead' = Ahead /\ UNCHANGED <<status, member>>
  BY <1>1 DEF Ahead, api, db
<1>5. NoneNew'
  <2>1. \A c \in j.scope : status[c] # "new"
    BY <1>0 DEF MoreInv, NoneNew
  <2>2. \A t \in Socket : \A c \in channels'[t] : status'[c] # "new"
    BY <1>2, <1>4, <2>1 DEF MoreInv, NoneNew
  <2> QED BY <1>1, <1>4, <2>2 DEF MoreInv, NoneNew
<1>6. JobsCurrent'
  <2> SUFFICES ASSUME NEW k \in jobs PROVE JobCurrent(k)'
    BY <1>1 DEF JobsCurrent
  <2>1. JobCurrent(k) /\ Accessible(Owner[k.sock])' = Accessible(Owner[k.sock])
    BY <1>1, ApiStill DEF MoreInv, JobsCurrent
  <2> QED BY <1>1, <1>4, <2>1 DEF JobCurrent
<1>7. ASSUME NEW t \in Socket
      PROVE  Tracked(t)' => NoMore(t)' /\ (Owner[t] \notin crossed' => NoLess(t)')
  <2>1. CASE t = s
    <3>1. s \notin raced => j.scope = Accessible(Owner[s]) /\ j.inside = (Owner[s] \in member)
      BY <1>0 DEF JobCurrent
    <3> QED BY <1>0, <1>1, <1>2, <2>1, <3>1, SocketExact DEF Tracked
  <2>2. CASE t # s
    <3>1. Tracked(t)' => Tracked(t)
      BY <1>1, <1>3, <2>2 DEF Tracked
    <3>2. Awaited(t) => Awaited(t)'
      BY <1>1, <1>4, <2>2 DEF Awaited
    <3> QED BY <1>1, <1>2, <1>4, <2>2, <3>1, <3>2, InvSockets, SocketStill DEF Sockets
  <2> QED BY <2>1, <2>2
<1> QED BY <1>1, <1>5, <1>6, <1>7, LocalKeeps DEF Sockets

LEMMA JoinKeeps ==
  ASSUME TypeOK, MoreInv, LessInv, NEW j \in jobs, JoinApply(j)
  PROVE  MoreInv' /\ LessInv'
<1> DEFINE s == j.sock
<1>0. /\ JobCurrent(j) /\ s \in Socket /\ Owner[s] \in User /\ j.scope \subseteq Channel
      /\ j.phase = "apply" /\ j.call = "join"
  BY JobOwners DEF MoreInv, JobsCurrent, JoinApply
<1>1. PICK c \in j.scope : SubscribeAll({s}, c)
  BY DEF JoinApply
<1>2. /\ UNCHANGED <<api, bus, connections, inWorkspace, raced, crossed, left, untold>> /\ jobs' = jobs \ {j}
      /\ \A t \in Socket : channels'[t] = IF t = s THEN channels[t] \cup {c} ELSE channels[t]
  BY <1>1 DEF JoinApply, SubscribeAll, Finish, history
<1>3. Ahead' = Ahead /\ UNCHANGED <<status, member>>
  BY <1>2 DEF Ahead, api, db
<1>4. NoneNew'
  BY <1>0, <1>2, <1>3, ZenonT(30) DEF MoreInv, NoneNew
<1>5. JobsCurrent'
  <2> SUFFICES ASSUME NEW k \in jobs PROVE JobCurrent(k)'
    BY <1>2 DEF JobsCurrent
  <2>1. JobCurrent(k) /\ Accessible(Owner[k.sock])' = Accessible(Owner[k.sock])
    BY <1>2, ApiStill DEF MoreInv, JobsCurrent
  <2> QED BY <1>2, <1>3, <2>1 DEF JobCurrent
<1>6. ASSUME NEW t \in Socket
      PROVE  Tracked(t)' => NoMore(t)' /\ (Owner[t] \notin crossed' => NoLess(t)')
  <2>1. (Tracked(t)' => Tracked(t)) /\ (Awaited(t) => Awaited(t)')
    BY <1>0, <1>2, <1>3 DEF Tracked, Awaited
  <2>2. CASE t # s
    BY <1>2, <1>3, <2>1, <2>2, InvSockets, SocketStill DEF Sockets
  <2>3. CASE t = s
    <3> SUFFICES ASSUME Tracked(t)' PROVE NoMore(t)' /\ (Owner[t] \notin crossed' => NoLess(t)')
      OBVIOUS
    <3>1. Accessible(Owner[t])' = Accessible(Owner[t])
      BY <1>2, ApiStill
    <3>2. c \in Accessible(Owner[t])
      BY <1>0, <2>1, <2>3 DEF JobCurrent, Tracked
    <3>3. NoMore(t) /\ (Owner[t] \notin crossed => NoLess(t))
      BY <2>1, InvSockets DEF Sockets
    <3>4. NoMore(t)'
      BY <1>2, <1>3, <2>1, <3>1, <3>2, <3>3 DEF NoMore
    <3>5. Owner[t] \notin crossed' => NoLess(t)'
      BY <1>2, <1>3, <2>1, <3>1, <3>3 DEF NoLess
    <3> QED BY <3>4, <3>5
  <2> QED BY <2>2, <2>3
<1> QED BY <1>2, <1>4, <1>5, <1>6, LocalKeeps DEF Sockets

LEMMA ClientKeeps ==
  ASSUME TypeOK, IndexSymmetry, MoreInv, LessInv, ClientStep
  PROVE  MoreInv' /\ LessInv'
<1>1. PICK s \in Socket : Connect(s) \/ Close(s) \/ \E c \in Channel : Join(s, c) \/ Leave(s, c)
  BY DEF ClientStep
<1>2. CASE Connect(s)
  <2>1. \A n : NewJob(s, n, "setup").phase = "workspaces" /\ NewJob(s, n, "setup").call = "setup"
    BY DEF NewJob
  <2>2. PICK k : jobs' = jobs \cup {k} /\ k.phase = "workspaces" /\ k.call = "setup"
    BY <1>2, <2>1 DEF Connect
  <2>3. JobCurrent(k)'
    BY <2>2 DEF JobCurrent
  <2> QED BY <1>2, <2>2, <2>3, CallKeeps DEF Connect, history
<1>3. ASSUME NEW c \in Channel, Join(s, c) PROVE MoreInv' /\ LessInv'
  <2>1. \A n : LET k == [NewJob(s, n, "join") EXCEPT !.phase = "check", !.scope = {c}]
               IN  k.phase = "check" /\ k.call = "join"
    BY DEF NewJob
  <2>2. PICK k : /\ jobs' = jobs \cup {k} /\ k.phase = "check" /\ k.call = "join"
    BY <1>3, <2>1 DEF Join
  <2>3. JobCurrent(k)'
    BY <2>2 DEF JobCurrent
  <2> QED BY <1>3, <2>2, <2>3, CallKeeps DEF Join, history
<1>4. ASSUME UNCHANGED <<api, bus, raced, crossed, untold, inWorkspace, jobs>>, left \subseteq left',
             \A t \in Socket \ {s} : channels'[t] = channels[t],
             channels'[s] \subseteq channels[s],
             \A t \in Socket : t \in connections'[Owner[t]] => t \in connections[Owner[t]],
             Tracked(s)' => \A c \in channels[s] \ channels'[s] : <<s, c>> \in left'
      PROVE  MoreInv' /\ LessInv'
  <2>1. Ahead' = Ahead /\ UNCHANGED <<status, member>>
    BY <1>4 DEF Ahead, api, db
  <2>2. NoneNew'
    BY <1>4, <2>1 DEF MoreInv, NoneNew
  <2>3. JobsCurrent'
    BY <1>4, <2>1, ApiStill DEF MoreInv, JobsCurrent, JobCurrent
  <2>4. ASSUME NEW t \in Socket
        PROVE  Tracked(t)' => NoMore(t)' /\ (Owner[t] \notin crossed' => NoLess(t)')
    <3>1. (Tracked(t)' => Tracked(t)) /\ (Awaited(t) => Awaited(t)')
      BY <1>4, <2>1 DEF Tracked, Awaited
    <3>2. CASE t # s
      BY <1>4, <2>1, <3>1, <3>2, InvSockets, SocketStill DEF Sockets
    <3>3. CASE t = s
      <4> SUFFICES ASSUME Tracked(t)' PROVE NoMore(t)' /\ (Owner[t] \notin crossed' => NoLess(t)')
        OBVIOUS
      <4>1. Accessible(Owner[t])' = Accessible(Owner[t])
        BY <1>4, ApiStill
      <4>2. NoMore(t) /\ (Owner[t] \notin crossed => NoLess(t))
        BY <3>1, InvSockets DEF Sockets
      <4>3. NoMore(t)'
        BY <1>4, <2>1, <3>1, <3>3, <4>1, <4>2 DEF NoMore
      <4>4. Owner[t] \notin crossed' => NoLess(t)'
        BY <1>4, <2>1, <3>1, <3>3, <4>1, <4>2 DEF NoLess
      <4> QED BY <4>3, <4>4
    <3> QED BY <3>2, <3>3
  <2> QED BY <1>4, <2>2, <2>3, <2>4, LocalKeeps DEF Sockets
<1>5. CASE Close(s)
  <2>1. /\ UNCHANGED <<api, bus, raced, crossed, untold, inWorkspace, jobs, left>>
        /\ channels' = [channels EXCEPT ![s] = {}]
        /\ connections' = [connections EXCEPT ![Owner[s]] = @ \ {s}]
    BY <1>5 DEF Close, SetScope
  <2>2. /\ channels'[s] = {} /\ \A t \in Socket \ {s} : channels'[t] = channels[t]
        /\ \A t \in Socket : t \in connections'[Owner[t]] => t \in connections[Owner[t]]
        /\ s \notin connections'[Owner[s]]
    BY <2>1, OwnerAssumption DEF TypeOK
  <2> QED BY <1>4, <2>1, <2>2 DEF Tracked
<1>6. ASSUME NEW c \in Channel, Leave(s, c) PROVE MoreInv' /\ LessInv'
  <2>1. /\ UNCHANGED <<api, bus, raced, crossed, untold, inWorkspace, jobs, connections>>
        /\ left' = left \cup {<<s, c>>}
        /\ \A t \in Socket : channels'[t] = IF t \in {s} THEN channels[t] \ {c} ELSE channels[t]
    BY <1>6 DEF Leave, UnsubscribeAll
  <2>2. /\ channels'[s] \subseteq channels[s] /\ channels[s] \ channels'[s] \subseteq {c}
        /\ \A t \in Socket \ {s} : channels'[t] = channels[t]
    BY <2>1
  <2> QED BY <1>4, <2>1, <2>2
<1> QED BY <1>1, <1>2, <1>3, <1>5, <1>6

-----------------------------------------------------------------------------
(* Handling an announcement keeps the invariant                             *)

LEMMA AheadTail ==
  ASSUME TypeOK, bus # <<>>, bus' = Tail(bus), UNCHANGED outbox
  PROVE  /\ Head(bus) \in Event /\ Head(bus) \in Ahead /\ Ahead' \subseteq Ahead
         /\ \A e \in Ahead : e = Head(bus) \/ e \in Ahead'
<1>1. bus \in Seq(Event) /\ Head(bus) \in Event
  BY DEF TypeOK
<1>2. Range(bus) = {Head(bus)} \cup Range(bus')
  BY <1>1, RangeFacts
<1> QED BY <1>1, <1>2 DEF Ahead

LEMMA OrderedTail ==
  ASSUME TypeOK, bus # <<>>, bus' = Tail(bus), UNCHANGED outbox, NEW u, NEW c, Ordered(u, c)
  PROVE  /\ Ordered(u, c)'
         /\ Head(bus) = Unsubscribe(u, c) => Rescope(u) \in Ahead'
<1>1. bus \in Seq(Event)
  BY DEF TypeOK
<1>2. /\ Len(bus) \in Nat /\ Len(bus) >= 1 /\ DOMAIN bus = 1..Len(bus) /\ Head(bus) = bus[1]
      /\ bus' \in Seq(Event) /\ Len(bus') = Len(bus) - 1 /\ DOMAIN bus' = 1..Len(bus')
  BY <1>1, HeadTailProperties, LenProperties, EmptySeq
<1>3. \A n \in 1..Len(bus') : bus'[n] = bus[n + 1]
  BY <1>1, HeadTailProperties
<1>4. ASSUME NEW n \in DOMAIN bus, NEW m \in DOMAIN bus, m > n
      PROVE  m - 1 \in DOMAIN bus' /\ bus'[m - 1] = bus[m]
  <2>1. m - 1 \in 1..Len(bus') /\ (m - 1) + 1 = m
    BY <1>2, <1>4
  <2>2. bus'[m - 1] = bus[(m - 1) + 1]
    BY <1>3, <2>1
  <2> QED BY <1>2, <2>1, <2>2
<1>5. ASSUME NEW n \in DOMAIN bus', bus'[n] = Unsubscribe(u, c)
      PROVE  \/ \E m \in DOMAIN bus' : m > n /\ bus'[m] = Rescope(u)
             \/ \E r \in outbox' : Rescope(u) \in Range(r.events)
  <2>1. n \in Nat /\ n + 1 \in DOMAIN bus /\ bus[n + 1] = Unsubscribe(u, c)
    BY <1>2, <1>3, <1>5
  <2>2. ASSUME NEW m \in DOMAIN bus, m > n + 1, bus[m] = Rescope(u)
        PROVE  \E k \in DOMAIN bus' : k > n /\ bus'[k] = Rescope(u)
    <3>1. m - 1 \in DOMAIN bus' /\ bus'[m - 1] = Rescope(u)
      BY <1>4, <2>1, <2>2
    <3>2. m - 1 > n
      BY <1>2, <2>1, <2>2
    <3> QED BY <3>1, <3>2
  <2> QED BY <2>1, <2>2 DEF Ordered
<1>6. ASSUME Head(bus) = Unsubscribe(u, c) PROVE Rescope(u) \in Ahead'
  <2>1. 1 \in DOMAIN bus /\ bus[1] = Unsubscribe(u, c)
    BY <1>2, <1>6
  <2>2. ASSUME NEW m \in DOMAIN bus, m > 1, bus[m] = Rescope(u) PROVE Rescope(u) \in Range(bus')
    <3>1. m - 1 \in DOMAIN bus' /\ bus'[m - 1] = Rescope(u)
      BY <1>4, <2>1, <2>2
    <3> QED BY <3>1 DEF Range
  <2>3. ASSUME NEW r \in outbox, Rescope(u) \in Range(r.events) PROVE Rescope(u) \in Ahead'
    BY <2>3 DEF Ahead
  <2> QED BY <2>1, <2>2, <2>3 DEF Ordered, Ahead
<1> QED BY <1>5, <1>6 DEF Ordered

LEMMA TailKeeps ==
  ASSUME TypeOK, MoreInv, LessInv, bus # <<>>, bus' = Tail(bus), UNCHANGED <<api, crossed>>,
         NoneNew', JobsCurrent', Sockets'
  PROVE  MoreInv' /\ LessInv'
<1>1. UNCHANGED <<member, status, memberIds, outbox, crossed>>
  BY DEF api, db
<1>2. Ahead' \subseteq Ahead
  BY <1>1, AheadTail
<1>3. PrivateInside' /\ EventsTrue' /\ Named'
  BY <1>1, <1>2 DEF MoreInv, LessInv, PrivateInside, Live, EventsTrue, EventTrue, Named
<1>4. \A u \in User \ crossed' : \A c \in Accessible(u)' : Ordered(u, c)'
  BY <1>1, ApiStill, OrderedTail DEF LessInv
<1> QED BY <1>3, <1>4 DEF MoreInv, LessInv, Sockets

(* Calls read on as before when only the announcement is gone.              *)
LEMMA TailJobs ==
  ASSUME MoreInv, UNCHANGED <<api, raced>>,
         \A k \in jobs' : k \in jobs \/ (k.phase = "workspaces" /\ k.call = "update")
  PROVE  JobsCurrent'
<1> SUFFICES ASSUME NEW k \in jobs' PROVE JobCurrent(k)'
  BY DEF JobsCurrent
<1>1. CASE k.phase = "workspaces" /\ k.call = "update"
  BY <1>1 DEF JobCurrent
<1>2. CASE k \in jobs
  <2>1. JobCurrent(k) /\ Accessible(Owner[k.sock])' = Accessible(Owner[k.sock])
    BY <1>2, ApiStill DEF MoreInv, JobsCurrent
  <2> QED BY <2>1 DEF JobCurrent, api, db
<1> QED BY <1>1, <1>2

LEMMA RescopeKeeps ==
  ASSUME TypeOK, MoreInv, LessInv, OnRescope
  PROVE  MoreInv' /\ LessInv'
<1> DEFINE w == Head(bus).user
<1>1. /\ bus # <<>> /\ Head(bus).kind = "rescope" /\ bus' = Tail(bus)
      /\ UNCHANGED <<api, connections, channels, inWorkspace, raced, crossed, left, untold>>
  BY DEF OnRescope, Handle, registry, history
<1>2. /\ Head(bus) \in Event /\ \A e \in Ahead : e = Head(bus) \/ e \in Ahead'
  BY <1>1, AheadTail DEF api, db
<1>3. /\ \A u \in User, c \in Channel : Unsubscribe(u, c) # Head(bus)
      /\ \A c \in Channel : Subscribe(c) # Head(bus)
  BY <1>1 DEF Unsubscribe, Subscribe
<1>4. \A u \in User : u # w => Rescope(u) # Head(bus)
  BY DEF Rescope
<1>5. w \in User
  BY <1>1, <1>2 DEF Event
<1>6. PICK n \in Slot : jobs' = jobs \cup {NewJob(s, n, "update") : s \in connections[w]}
  BY DEF OnRescope
<1>7. \A s : LET k == NewJob(s, n, "update")
             IN  k.phase = "workspaces" /\ k.call = "update" /\ k.sock = s
  BY DEF NewJob
<1>8. \A k \in jobs' : k \in jobs \/ (k.phase = "workspaces" /\ k.call = "update")
  BY <1>6, <1>7
<1>9. UNCHANGED <<member, status>>
  BY <1>1 DEF api, db
<1>10. NoneNew'
  BY <1>1, <1>8, <1>9 DEF MoreInv, NoneNew
<1>11. JobsCurrent'
  BY <1>1, <1>8, TailJobs
<1>12. ASSUME NEW s \in Socket, Tracked(s)'
       PROVE  NoMore(s)' /\ (Owner[s] \notin crossed' => NoLess(s)')
  <2>1. Tracked(s) /\ Owner[s] \in User /\ Accessible(Owner[s])' = Accessible(Owner[s])
    BY <1>1, <1>12, ApiStill, OwnerAssumption DEF Tracked
  <2>2. NoMore(s) /\ (Owner[s] \notin crossed => NoLess(s))
    BY <2>1, InvSockets DEF Sockets
  <2>3. CASE Owner[s] = w
    <3>1. NewJob(s, n, "update") \in jobs'
      BY <1>6, <2>1, <2>3 DEF Tracked
    <3>2. Awaited(s)'
      BY <1>7, <3>1 DEF Awaited
    <3> QED BY <3>2 DEF NoMore, NoLess
  <2>4. CASE Owner[s] # w
    <3>1. Awaited(s) => Awaited(s)'
      BY <1>2, <1>4, <1>6, <2>1, <2>4 DEF Awaited
    <3>2. /\ \A c \in Channel : Unsubscribe(Owner[s], c) \in Ahead => Unsubscribe(Owner[s], c) \in Ahead'
          /\ \A c \in Channel : Subscribe(c) \in Ahead => Subscribe(c) \in Ahead'
      BY <1>2, <1>3, <2>1
    <3>3. channels[s] \subseteq Channel /\ Accessible(Owner[s]) \subseteq Channel
      BY DEF TypeOK, Accessible, Visible
    <3>4. NoMore(s)'
      BY <1>1, <1>9, <2>1, <2>2, <3>1, <3>2, <3>3 DEF NoMore
    <3>5. Owner[s] \notin crossed' => NoLess(s)'
      BY <1>1, <1>9, <2>1, <2>2, <3>1, <3>2, <3>3 DEF NoLess
    <3> QED BY <3>4, <3>5
  <2> QED BY <2>3, <2>4
<1> QED BY <1>1, <1>10, <1>11, <1>12, TailKeeps DEF Sockets

LEMMA CreatedKeeps ==
  ASSUME TypeOK, MoreInv, LessInv, OnCreated
  PROVE  MoreInv' /\ LessInv'
<1> DEFINE c == Head(bus).chan
           T == Registered \cap inWorkspace
<1>1. /\ bus # <<>> /\ Head(bus).kind = "subscribe" /\ bus' = Tail(bus)
      /\ UNCHANGED <<api, connections, inWorkspace, jobs, raced, crossed, left, untold>>
      /\ \A s \in Socket : channels'[s] = IF s \in T THEN channels[s] \cup {c} ELSE channels[s]
  BY DEF OnCreated, Handle, SubscribeAll, history
<1>2. /\ Head(bus) \in Event /\ Head(bus) \in Ahead /\ \A e \in Ahead : e = Head(bus) \/ e \in Ahead'
  BY <1>1, AheadTail DEF api, db
<1>3. c \in Channel /\ Kind[c] = "public" /\ status[c] # "new"
  BY <1>1, <1>2 DEF Event, MoreInv, EventsTrue, EventTrue
<1>4. \A u : Rescope(u) # Head(bus) /\ \A d : Unsubscribe(u, d) # Head(bus)
  BY <1>1 DEF Rescope, Unsubscribe
<1>5. \A d : Subscribe(d) = Head(bus) => d = c
  BY DEF Subscribe
<1>6. UNCHANGED <<member, status>>
  BY <1>1 DEF api, db
<1> HIDE DEF c, T
<1>7. NoneNew'
  BY <1>1, <1>3, <1>6 DEF MoreInv, NoneNew
<1>8. JobsCurrent'
  BY <1>1, TailJobs
<1>9. ASSUME NEW s \in Socket, Tracked(s)'
      PROVE  NoMore(s)' /\ (Owner[s] \notin crossed' => NoLess(s)')
  <2>1. Tracked(s) /\ Owner[s] \in User /\ Accessible(Owner[s])' = Accessible(Owner[s])
    BY <1>1, <1>9, ApiStill, OwnerAssumption DEF Tracked
  <2>2. NoMore(s) /\ (Owner[s] \notin crossed => NoLess(s))
    BY <2>1, InvSockets DEF Sockets
  <2>3. s \in T <=> s \in inWorkspace
    BY <2>1 DEF T, Tracked, Registered, SocketsOf
  <2>4. Awaited(s) => Awaited(s)'
    BY <1>1, <1>2, <1>4 DEF Awaited
  <2>5. c \in Accessible(Owner[s]) <=> status[c] = "live" /\ Owner[s] \in member
    BY <1>3, <2>1, Sees
  <2>6. ASSUME NEW d \in channels'[s], status'[d] = "live"
        PROVE  d \in Accessible(Owner[s])' \/ Awaited(s)' \/ Unsubscribe(Owner[s], d) \in Ahead'
    <3>1. CASE d \in channels[s]
      BY <1>2, <1>4, <1>6, <2>1, <2>2, <2>4, <2>6, <3>1 DEF NoMore
    <3>2. CASE d \notin channels[s]
      <4>1. d = c /\ s \in inWorkspace
        BY <1>1, <2>3, <2>6, <3>2
      <4> QED BY <1>3, <1>6, <2>1, <2>2, <2>4, <2>5, <2>6, <4>1 DEF NoMore
    <3> QED BY <3>1, <3>2
  <2>7. NoMore(s)'
    BY <1>1, <1>6, <2>2, <2>4, <2>6 DEF NoMore
  <2>8. ASSUME Owner[s] \notin crossed, NEW d \in Accessible(Owner[s])', d \notin channels'[s]
        PROVE  <<s, d>> \in left' \cup untold' \/ Awaited(s)' \/ Subscribe(d) \in Ahead'
    <3>1. d \in Accessible(Owner[s]) /\ d \notin channels[s] /\ ~(d = c /\ s \in T)
      BY <1>1, <2>1, <2>8
    <3>2. d = c => Awaited(s)
      BY <2>2, <2>3, <2>5, <2>8, <3>1 DEF NoLess
    <3>3. d # c /\ Subscribe(d) \in Ahead => Subscribe(d) \in Ahead'
      BY <1>2, <1>5
    <3> QED BY <1>1, <2>2, <2>4, <2>8, <3>1, <3>2, <3>3 DEF NoLess
  <2>9. Owner[s] \notin crossed' => NoLess(s)'
    BY <1>1, <1>6, <2>2, <2>4, <2>8 DEF NoLess
  <2> QED BY <2>7, <2>9
<1> QED BY <1>1, <1>7, <1>8, <1>9, TailKeeps DEF Sockets

LEMMA RemovedKeeps ==
  ASSUME TypeOK, OwnSockets, MoreInv, LessInv, OnRemoved
  PROVE  MoreInv' /\ LessInv'
<1> DEFINE c == Head(bus).chan
           w == Head(bus).user
<1>1. /\ bus # <<>> /\ Head(bus).kind = "unsubscribe" /\ bus' = Tail(bus)
      /\ UNCHANGED <<api, connections, inWorkspace, jobs, raced, crossed, left, untold>>
      /\ \A s \in Socket :
           channels'[s] = IF s \in connections[w] THEN channels[s] \ {c} ELSE channels[s]
  BY DEF OnRemoved, Handle, UnsubscribeAll, history
<1>2. /\ Head(bus) \in Event /\ \A e \in Ahead : e = Head(bus) \/ e \in Ahead'
  BY <1>1, AheadTail DEF api, db
<1>3. w \in User /\ c \in Channel /\ Head(bus) = Unsubscribe(w, c)
  BY <1>1, <1>2 DEF Event, Unsubscribe
<1>4. \A u : Rescope(u) # Head(bus) /\ Subscribe(u) # Head(bus)
  BY <1>1 DEF Rescope, Subscribe
<1>5. \A u, d : Unsubscribe(u, d) = Head(bus) => u = w /\ d = c
  BY DEF Unsubscribe
<1>6. UNCHANGED <<member, status, outbox>>
  BY <1>1 DEF api, db
<1> HIDE DEF c, w
<1>7. NoneNew'
  BY <1>1, <1>6 DEF MoreInv, NoneNew
<1>8. JobsCurrent'
  BY <1>1, TailJobs
<1>9. ASSUME NEW s \in Socket, Tracked(s)'
      PROVE  NoMore(s)' /\ (Owner[s] \notin crossed' => NoLess(s)')
  <2>1. Tracked(s) /\ Owner[s] \in User /\ Accessible(Owner[s])' = Accessible(Owner[s])
    BY <1>1, <1>9, ApiStill, OwnerAssumption DEF Tracked
  <2>2. NoMore(s) /\ (Owner[s] \notin crossed => NoLess(s))
    BY <2>1, InvSockets DEF Sockets
  <2>3. s \in connections[w] <=> Owner[s] = w
    BY <1>3, <2>1 DEF Tracked, OwnSockets
  <2>4. Awaited(s) => Awaited(s)'
    BY <1>1, <1>2, <1>4 DEF Awaited
  <2>5. ASSUME NEW d \in channels'[s], status'[d] = "live"
        PROVE  d \in Accessible(Owner[s])' \/ Awaited(s)' \/ Unsubscribe(Owner[s], d) \in Ahead'
    <3>1. d \in channels[s] /\ ~(d = c /\ Owner[s] = w)
      BY <1>1, <2>3, <2>5
    <3> QED BY <1>2, <1>5, <1>6, <2>1, <2>2, <2>4, <2>5, <3>1 DEF NoMore
  <2>6. NoMore(s)'
    BY <1>1, <1>6, <2>2, <2>4, <2>5 DEF NoMore
  <2>7. ASSUME Owner[s] \notin crossed, NEW d \in Accessible(Owner[s])', d \notin channels'[s]
        PROVE  <<s, d>> \in left' \cup untold' \/ Awaited(s)' \/ Subscribe(d) \in Ahead'
    <3>1. d \in Accessible(Owner[s])
      BY <2>1, <2>7
    <3>2. CASE d \in channels[s]
      <4>1. d = c /\ Owner[s] = w
        BY <1>1, <2>3, <2>7, <3>2
      <4>2. Ordered(w, c)
        BY <2>1, <2>7, <3>1, <4>1 DEF LessInv
      <4>3. Rescope(w) \in Ahead'
        BY <1>1, <1>3, <1>6, <4>2, OrderedTail
      <4> QED BY <4>1, <4>3 DEF Awaited
    <3>3. CASE d \notin channels[s]
      BY <1>1, <1>2, <1>4, <2>2, <2>4, <2>7, <3>1, <3>3 DEF NoLess
    <3> QED BY <3>2, <3>3
  <2>8. Owner[s] \notin crossed' => NoLess(s)'
    BY <1>1, <1>6, <2>2, <2>4, <2>7 DEF NoLess
  <2> QED BY <2>6, <2>8
<1> QED BY <1>1, <1>7, <1>8, <1>9, TailKeeps DEF Sockets

LEMMA DroppedKeeps ==
  ASSUME TypeOK, MoreInv, LessInv, OnDropped
  PROVE  MoreInv' /\ LessInv'
<1> DEFINE c == Head(bus).chan
<1>1. /\ bus # <<>> /\ Head(bus).kind = "drop" /\ bus' = Tail(bus)
      /\ UNCHANGED <<api, connections, inWorkspace, jobs, raced, crossed, left, untold>>
      /\ \A s \in Socket : channels'[s] \subseteq channels[s] /\ channels[s] \ channels'[s] \subseteq {c}
  BY DEF OnDropped, Handle, DropChannel, history
<1>2. /\ Head(bus) \in Event /\ Head(bus) \in Ahead /\ \A e \in Ahead : e = Head(bus) \/ e \in Ahead'
  BY <1>1, AheadTail DEF api, db
<1>3. c \in Channel /\ status[c] = "gone"
  BY <1>1, <1>2 DEF Event, MoreInv, EventsTrue, EventTrue
<1>4. \A u : Rescope(u) # Head(bus) /\ Subscribe(u) # Head(bus) /\ \A d : Unsubscribe(u, d) # Head(bus)
  BY <1>1 DEF Rescope, Subscribe, Unsubscribe
<1>5. UNCHANGED <<member, status>>
  BY <1>1 DEF api, db
<1> HIDE DEF c
<1>6. NoneNew'
  BY <1>1, <1>5 DEF MoreInv, NoneNew
<1>7. JobsCurrent'
  BY <1>1, TailJobs
<1>8. ASSUME NEW s \in Socket, Tracked(s)'
      PROVE  NoMore(s)' /\ (Owner[s] \notin crossed' => NoLess(s)')
  <2>1. Tracked(s) /\ Owner[s] \in User /\ Accessible(Owner[s])' = Accessible(Owner[s])
    BY <1>1, <1>8, ApiStill, OwnerAssumption DEF Tracked
  <2>2. NoMore(s) /\ (Owner[s] \notin crossed => NoLess(s))
    BY <2>1, InvSockets DEF Sockets
  <2>3. Awaited(s) => Awaited(s)'
    BY <1>1, <1>2, <1>4 DEF Awaited
  <2>4. c \notin Accessible(Owner[s])
    BY <1>3, <2>1, Sees
  <2>5. NoMore(s)'
    BY <1>1, <1>2, <1>4, <1>5, <2>1, <2>2, <2>3 DEF NoMore
  <2>6. Accessible(Owner[s])' \ channels'[s] \subseteq Accessible(Owner[s]) \ channels[s]
    BY <1>1, <2>1, <2>4
  <2>7. Owner[s] \notin crossed' => NoLess(s)'
    BY <1>1, <1>2, <1>4, <1>5, <2>2, <2>3, <2>6 DEF NoLess
  <2> QED BY <2>5, <2>7
<1> QED BY <1>1, <1>6, <1>7, <1>8, TailKeeps DEF Sockets

-----------------------------------------------------------------------------
(* What a settled socket receives: the theorems                             *)

ScopeInv == Inv /\ MoreInv /\ LessInv

LEMMA InitScope == Init => MoreInv /\ LessInv
<1> SUFFICES ASSUME Init PROVE MoreInv /\ LessInv
  OBVIOUS
<1>1. Ahead = {} /\ jobs = {} /\ outbox = {} /\ DOMAIN bus = {}
  BY RangeFacts DEF Init, Ahead
<1>2. \A s \in Socket : channels[s] = {} /\ s \notin connections[Owner[s]]
  BY OwnerAssumption DEF Init
<1>3. \A c \in Channel : Live(c, "private") => memberIds[c] \in SUBSET member
  BY DEF Init, MembersOf, Live
<1>4. MoreInv
  BY <1>1, <1>2, <1>3 DEF MoreInv, PrivateInside, EventsTrue, NoneNew, JobsCurrent, Tracked
<1>5. LessInv
  BY <1>1, <1>2 DEF LessInv, Named, Ordered, Tracked
<1> QED BY <1>4, <1>5

LEMMA ScopeStep == ScopeInv /\ [Next]_vars => MoreInv' /\ LessInv'
<1> SUFFICES ASSUME TypeOK, IndexSymmetry, OwnSockets, MoreInv, LessInv, [Next]_vars
             PROVE  MoreInv' /\ LessInv'
  BY DEF ScopeInv, Inv
<1>1. CASE ApiStep
  <2>1. \/ \E U \in SUBSET User, es \in Seq(Event) : Announces(U, es)
        \/ \E r \in outbox : Publish(r)
    BY <1>1, RequestAnnounces DEF MoreInv
  <2> QED BY <2>1, AnnouncesMore, AnnouncesLess, PublishKeeps
<1>2. CASE JobStep
  BY <1>2, ReadKeeps, ApplyKeeps, JoinKeeps DEF JobStep
<1>3. CASE ClientStep
  BY <1>3, ClientKeeps
<1>4. CASE BusStep
  BY <1>4, RescopeKeeps, CreatedKeeps, RemovedKeeps, DroppedKeeps DEF BusStep
<1>5. CASE UNCHANGED vars
  <2>1. UNCHANGED <<api, bus, jobs, crossed, raced, left, untold, connections, channels, inWorkspace>>
    BY <1>5 DEF vars, registry, history
  <2>2. UNCHANGED <<registry, status>>
    BY <1>5 DEF vars, api, db
  <2> QED BY <2>1, <2>2, CallKeeps
<1> QED BY <1>1, <1>2, <1>3, <1>4, <1>5 DEF Next

LEMMA ScopeInvariant == Spec => []ScopeInv
<1>1. Init => OwnSockets /\ QuietCloseLeavesNothing
  BY DEF Init, OwnSockets, QuietCloseLeavesNothing
<1>2. ScopeInv /\ [Next]_vars => OwnSockets' /\ QuietCloseLeavesNothing'
  BY OwnSocketsStep, QuietStep DEF ScopeInv, Inv
<1> QED
  BY <1>1, <1>2, InitScope, ScopeStep, TypeCorrect, IndexesMirror, PTL DEF Spec, ScopeInv, Inv

(* A settled socket is tracked, and nothing it waits for is left.           *)
LEMMA SettledFacts ==
  ASSUME TypeOK, OwnSockets, NEW s \in Socket, Settled(s), s \notin raced
  PROVE  Tracked(s) /\ ~Awaited(s) /\ Ahead = {}
<1>1. Ahead = {}
  BY RangeFacts DEF Settled, Ahead
<1>2. s \in connections[Owner[s]]
  BY DEF Settled, Registered, SocketsOf, OwnSockets
<1> QED BY <1>1, <1>2 DEF Tracked, Awaited, Settled, Busy

(* Once every announcement is handled, a socket that no change of access    *)
(* overtook during a call receives no channel its user may not see, however *)
(* applyChannelUpdate, refreshScope, JOIN_CHANNEL and the routes interleave.*)
THEOREM NobodyEavesdrops == Spec => []NoEavesdropping
<1>1. ScopeInv => NoEavesdropping
  <2> SUFFICES ASSUME ScopeInv, NEW s \in Socket, Settled(s), s \notin raced,
                      NEW c \in channels[s], status[c] = "live"
               PROVE  c \in Accessible(Owner[s])
    BY DEF NoEavesdropping
  <2>1. Tracked(s) /\ ~Awaited(s) /\ Ahead = {}
    BY SettledFacts DEF ScopeInv, Inv
  <2> QED BY <2>1 DEF ScopeInv, MoreInv, NoMore
<1> QED BY <1>1, ScopeInvariant, PTL

(* And it receives every channel its user may see, but for those it left,   *)
(* DMs its user opened, and users for whom two requests were announced out  *)
(* of order.                                                                *)
THEOREM NobodyMisses == Spec => []NothingMissed
<1>1. ScopeInv => NothingMissed
  <2> SUFFICES ASSUME ScopeInv, NEW s \in Socket, Settled(s), s \notin raced, Owner[s] \notin crossed,
                      NEW c \in Accessible(Owner[s]) \ channels[s]
               PROVE  <<s, c>> \in left \cup untold
    BY DEF NothingMissed
  <2>1. Tracked(s) /\ ~Awaited(s) /\ Ahead = {}
    BY SettledFacts DEF ScopeInv, Inv
  <2> QED BY <2>1 DEF ScopeInv, LessInv, NoLess
<1> QED BY <1>1, ScopeInvariant, PTL
=============================================================================
