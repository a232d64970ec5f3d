------------------------------ MODULE TabProofs ------------------------------
(***************************************************************************)
(* What a tab shows of others.  First who is typing: the token bucket keeps*)
(* to its rate, and the indicator follows the typist, for any number of    *)
(* tabs, any timeouts in the order the code has them, any bucket, any      *)
(* length of time and any number of losses.  Then the sidebar: for any     *)
(* workspaces, channels, requests and losses, its lists come to be the     *)
(* server's, and what is open is visible.  The two machines share nothing. *)
(***************************************************************************)
EXTENDS Typing, Sidebar, SequenceTheorems, TLAPS

(* What the other screen shows once the broadcasts under way have arrived.  *)
Final == IF bus = <<>> THEN until > 0 ELSE bus[Len(bus)]

(* What a socket was let through and what it has left never exceed what it  *)
(* was given.                                                               *)
Budget == \A t \in Tabs : accepted[t] + tokens[t] <= BucketMax + Refill * now

(* A running timer was armed by a TYPING_START not longer ago than it shows.*)
Armed == \A t \in Tabs : timer[t] # Off => idle + timer[t] <= Timeout

(* A start reaches the screen in the second it was announced in, ...        *)
StartsFresh == \A n \in DOMAIN bus : bus[n] => idle = 0

(* ... which shows it no longer than Net.                                   *)
NetHolds == until > 0 => until + idle <= Net

(* Without a loss, what will be shown has a timer that will take it back.   *)
Backed == faults = 0 /\ Final => \E t \in Tabs : timer[t] # Off

(* Who was announced and not hidden will be shown for the rest of Net.      *)
Promised ==
  \A t \in Tabs : timer[t] # Off /\ ~hidden[t] =>
    IF bus = <<>> THEN until + age[t] >= Net ELSE bus[Len(bus)]

(* What is shown, or will be, follows the timers.                           *)
Shown == Armed /\ StartsFresh /\ NetHolds /\ GoneInTime /\ Backed /\ Promised

-----------------------------------------------------------------------------
(* Types                                                                    *)

LEMMA Numbers ==
  /\ Timeout \in Nat /\ Throttle \in Nat /\ Net \in Nat /\ MaxFaults \in Nat
  /\ BucketMax \in Nat /\ Refill \in Nat /\ MaxTime \in Nat
  /\ Timeout >= 1 /\ Throttle >= 1 /\ BucketMax >= 1
  /\ Timeout < Net /\ Off = Timeout + 1
BY TypingAssumption DEF Off

LEMMA PublishType ==
  ASSUME TypeOK, NEW t \in Tabs, NEW b \in BOOLEAN, Publish(t, b)
  PROVE  bus' \in Seq(BOOLEAN) /\ hidden' \in [Tabs -> BOOLEAN] /\ faults' \in 0..MaxFaults
<1>1. bus' \in Seq(BOOLEAN)
  <2>1. bus \in Seq(BOOLEAN)
    BY DEF TypeOK
  <2>2. Append(bus, b) \in Seq(BOOLEAN)
    BY <2>1, AppendProperties, Zenon
  <2> QED BY <2>1, <2>2 DEF Publish
<1>2. hidden' \in [Tabs -> BOOLEAN]
  <2>1. \A u \in Tabs : (IF b THEN hidden[u] /\ u # t ELSE hidden[u] \/ u # t) \in BOOLEAN
    OBVIOUS
  <2> QED BY <2>1, Zenon DEF Publish
<1>3. faults' \in 0..MaxFaults
  BY Numbers DEF TypeOK, Publish
<1> QED BY <1>1, <1>2, <1>3

LEMMA StartType ==
  ASSUME TypeOK, NEW t \in Tabs, TypingStart(t)
  PROVE  /\ timer' \in [Tabs -> 0..Off] /\ idle' \in 0..(Net + 1) /\ age' \in [Tabs -> 0..Net]
         /\ bus' \in Seq(BOOLEAN) /\ hidden' \in [Tabs -> BOOLEAN] /\ faults' \in 0..MaxFaults
<1>0. 0 \in 0..Net /\ 0 \in 0..(Net + 1) /\ Timeout \in 0..Off
  BY Numbers
<1>1. timer' \in [Tabs -> 0..Off] /\ idle' \in 0..(Net + 1) /\ age' \in [Tabs -> 0..Net]
  <2>1. timer \in [Tabs -> 0..Off] /\ age \in [Tabs -> 0..Net]
    BY DEF TypeOK
  <2> QED BY <1>0, <2>1 DEF TypingStart
<1>2. bus' \in Seq(BOOLEAN) /\ hidden' \in [Tabs -> BOOLEAN] /\ faults' \in 0..MaxFaults
  BY PublishType DEF TypeOK, TypingStart
<1> QED BY <1>1, <1>2

LEMMA StopType ==
  ASSUME TypeOK, NEW t \in Tabs, TypingStop(t)
  PROVE  /\ timer' \in [Tabs -> 0..Off] /\ UNCHANGED <<idle, age>>
         /\ bus' \in Seq(BOOLEAN) /\ hidden' \in [Tabs -> BOOLEAN] /\ faults' \in 0..MaxFaults
<1>1. timer' \in [Tabs -> 0..Off] /\ UNCHANGED <<idle, age>>
  <2>1. timer \in [Tabs -> 0..Off] /\ Off \in 0..Off
    BY Numbers DEF TypeOK
  <2> QED BY <2>1 DEF TypingStop
<1>2. bus' \in Seq(BOOLEAN) /\ hidden' \in [Tabs -> BOOLEAN] /\ faults' \in 0..MaxFaults
  BY PublishType DEF TypeOK, TypingStop
<1> QED BY <1>1, <1>2

LEMMA FrameFacts ==
  ASSUME TypeOK, NEW t \in Tabs, Handle(t)
  PROVE  /\ pipe[t] # <<>> /\ Head(pipe[t]) \in {"start", "stop", "other"}
         /\ pipe' \in [Tabs -> Seq({"start", "stop", "other"})]
         /\ \/ TypingStart(t) \/ TypingStop(t)
            \/ UNCHANGED <<timer, idle, age, hidden, bus, faults>>
BY DEF TypeOK, Handle

LEMMA TypeStep == TypeOK /\ [Next]_vars => TypeOK'
<1> SUFFICES ASSUME TypeOK, [Next]_vars PROVE TypeOK'
  OBVIOUS
<1> USE Numbers
<1>1. CASE Show
  <2>1. bus' \in Seq(BOOLEAN) /\ Head(bus) \in BOOLEAN /\ until' \in 0..Net
    <3>1. bus \in Seq(BOOLEAN) /\ bus # <<>>
      BY <1>1 DEF TypeOK, Show
    <3>2. Tail(bus) \in Seq(BOOLEAN) /\ Head(bus) \in BOOLEAN
      BY <3>1, HeadTailProperties
    <3>3. bus' = Tail(bus) /\ until' \in {0, Net}
      BY <1>1 DEF Show
    <3> QED BY <3>2, <3>3
  <2> QED BY <1>1, <2>1 DEF TypeOK, Show, clock, server
<1>2. CASE Tick
  <2>1. now' \in 0..MaxTime /\ until' \in 0..Net /\ idle' \in 0..(Net + 1)
    BY <1>2 DEF TypeOK, Tick, Capped
  <2>2. announced' \in [Tabs -> 0..Throttle]
    BY <1>2 DEF TypeOK, Tick
  <2>3. tokens' \in [Tabs -> 0..BucketMax]
    BY <1>2 DEF TypeOK, Tick, Refilled, Capped
  <2>4. timer' \in [Tabs -> 0..Off] /\ age' \in [Tabs -> 0..Net]
    BY <1>2, SMTT(30) DEF TypeOK, Tick, Capped
  <2> QED BY <1>2, <2>1, <2>2, <2>3, <2>4 DEF TypeOK, Tick
<1>3. ASSUME NEW t \in Tabs, Key(t) \/ Empty(t) \/ Other(t) PROVE TypeOK'
  <2>1. pipe' \in [Tabs -> Seq({"start", "stop", "other"})]
    <3>1. PICK f \in {"start", "stop", "other"} : pipe' = [pipe EXCEPT ![t] = Append(@, f)]
      BY <1>3 DEF Key, Empty, Other, Send
    <3>2. pipe \in [Tabs -> Seq({"start", "stop", "other"})]
      BY DEF TypeOK
    <3>3. Append(pipe[t], f) \in Seq({"start", "stop", "other"})
      BY <3>2, AppendProperties
    <3> QED BY <3>1, <3>2, <3>3
  <2>2. announced' \in [Tabs -> 0..Throttle]
    <3>1. announced \in [Tabs -> 0..Throttle] /\ 0 \in 0..Throttle /\ 1 \in 0..Throttle
      BY DEF TypeOK
    <3>2. announced' \in {announced, [announced EXCEPT ![t] = 0], [announced EXCEPT ![t] = 1]}
      BY <1>3 DEF Key, Empty, Other, clock
    <3> QED BY <3>1, <3>2
  <2> QED BY <1>3, <2>1, <2>2 DEF TypeOK, Key, Empty, Other, clock, server, screen
<1>4. ASSUME NEW t \in Tabs, Handle(t) PROVE TypeOK'
  <2>1. tokens' \in [Tabs -> 0..BucketMax] /\ accepted' \in [Tabs -> Nat]
    <3>1. tokens \in [Tabs -> 0..BucketMax] /\ accepted \in [Tabs -> Nat]
      BY DEF TypeOK
    <3>2. \/ /\ tokens' = [tokens EXCEPT ![t] = IF @ = 0 THEN 0 ELSE @ - 1]
             /\ accepted' = [accepted EXCEPT ![t] = @ + 1]
          \/ UNCHANGED <<tokens, accepted>>
      BY <1>4 DEF Handle
    <3> QED BY <3>1, <3>2
  <2>2. pipe' \in [Tabs -> Seq({"start", "stop", "other"})]
    BY <1>4, FrameFacts
  <2>3. /\ timer' \in [Tabs -> 0..Off] /\ idle' \in 0..(Net + 1) /\ age' \in [Tabs -> 0..Net]
        /\ bus' \in Seq(BOOLEAN) /\ hidden' \in [Tabs -> BOOLEAN] /\ faults' \in 0..MaxFaults
    BY <1>4, FrameFacts, StartType, StopType DEF TypeOK
  <2> QED BY <1>4, <2>1, <2>2, <2>3 DEF TypeOK, Handle, clock
<1>5. ASSUME NEW t \in Tabs, Expire(t) PROVE TypeOK'
  <2>1. bus' \in Seq(BOOLEAN) /\ hidden' \in [Tabs -> BOOLEAN] /\ faults' \in 0..MaxFaults
    BY <1>5, PublishType DEF Expire
  <2>2. timer' \in [Tabs -> 0..Off]
    <3>1. timer \in [Tabs -> 0..Off] /\ Off \in 0..Off
      BY DEF TypeOK
    <3> QED BY <1>5, <3>1 DEF Expire
  <2> QED BY <1>5, <2>1, <2>2 DEF TypeOK, Expire, clock
<1>6. ASSUME NEW t \in Tabs, Close(t) PROVE TypeOK'
  BY <1>6, StopType DEF TypeOK, Close, clock
<1>7. CASE UNCHANGED vars
  BY <1>7 DEF TypeOK, vars, clock, server, screen
<1> QED BY <1>1, <1>2, <1>3, <1>4, <1>5, <1>6, <1>7 DEF Next

(* Every reachable state of Typing is well typed.                           *)
THEOREM TypeCorrect == Spec => []TypeOK
<1>1. Init => TypeOK
  BY Numbers DEF Init, TypeOK
<1> QED BY <1>1, TypeStep, PTL DEF Spec

-----------------------------------------------------------------------------
(* The bucket                                                               *)

LEMMA BudgetStep == TypeOK /\ Budget /\ [Next]_vars => Budget'
<1> SUFFICES ASSUME TypeOK, Budget, [Next]_vars, NEW t \in Tabs
             PROVE  accepted'[t] + tokens'[t] <= BucketMax + Refill * now'
  BY DEF Budget
<1>1. /\ accepted[t] \in Nat /\ tokens[t] \in Nat /\ now \in Nat /\ Refill \in Nat /\ BucketMax \in Nat
      /\ accepted[t] + tokens[t] <= BucketMax + Refill * now
  BY Numbers DEF TypeOK, Budget
<1>2. ASSUME UNCHANGED <<accepted, tokens, now>>
      PROVE  accepted'[t] + tokens'[t] <= BucketMax + Refill * now'
  BY <1>1, <1>2
<1>3. CASE Tick
  <2>1. accepted'[t] = accepted[t] /\ now' = now + 1 /\ tokens'[t] <= tokens[t] + Refill
    BY <1>1, <1>3 DEF Tick, Refilled, Capped
  <2>2. Refill * (now + 1) = Refill * now + Refill
    BY <1>1
  <2> DEFINE given == Refill * now
  <2>3. given \in Nat
    BY <1>1
  <2>4. tokens'[t] \in Nat
    BY <1>1, <1>3 DEF Tick, Refilled, Capped
  <2>5. Refill * now' = given + Refill
    BY <2>1, <2>2
  <2> HIDE DEF given
  <2>6. accepted[t] + tokens[t] <= BucketMax + given
    BY <1>1 DEF given
  <2> QED BY <1>1, <2>1, <2>3, <2>4, <2>5, <2>6
<1>4. ASSUME NEW u \in Tabs, Handle(u)
      PROVE  accepted'[t] + tokens'[t] <= BucketMax + Refill * now'
  <2>1. now' = now /\ accepted'[t] + tokens'[t] = accepted[t] + tokens[t]
    <3>1. tokens \in [Tabs -> 0..BucketMax] /\ accepted \in [Tabs -> Nat]
      BY DEF TypeOK
    <3>2. \/ /\ tokens[u] >= 1
             /\ tokens' = [tokens EXCEPT ![u] = IF @ = 0 THEN 0 ELSE @ - 1]
             /\ accepted' = [accepted EXCEPT ![u] = @ + 1]
          \/ UNCHANGED <<tokens, accepted>>
      BY <1>4 DEF Handle, Allow
    <3>3. now' = now
      BY <1>4 DEF Handle, clock
    <3> QED BY <3>1, <3>2, <3>3, Numbers
  <2> QED BY <1>1, <2>1
<1> QED
  BY <1>2, <1>3, <1>4 DEF Next, Show, Key, Empty, Other, Expire, Close, vars, clock, server

(* However the frames of a socket are spread over time, no more of them are *)
(* dispatched than the burst and what takeToken has refilled since.         *)
THEOREM BucketHolds == Spec => []AtMostBurst
<1>1. Init => Budget
  <2>1. Refill * 0 = 0
    BY Numbers
  <2>2. ASSUME Init, NEW t \in Tabs PROVE accepted[t] + tokens[t] <= BucketMax + Refill * now
    <3>1. accepted[t] = 0 /\ tokens[t] = BucketMax /\ Refill * now = 0
      BY <2>1, <2>2 DEF Init
    <3> QED BY <3>1, Numbers
  <2> QED BY <2>2 DEF Budget
<1>2. TypeOK /\ Budget => AtMostBurst
  <2> SUFFICES ASSUME TypeOK, Budget, NEW t \in Tabs PROVE accepted[t] <= BucketMax + Refill * now
    BY DEF AtMostBurst
  <2> DEFINE given == BucketMax + Refill * now
  <2>1. accepted[t] \in Nat /\ tokens[t] \in Nat /\ given \in Nat
    <3>1. accepted[t] \in Nat /\ tokens[t] \in Nat /\ now \in Nat
      BY Numbers DEF TypeOK
    <3>2. Refill * now \in Nat
      BY <3>1, Numbers
    <3> QED BY <3>1, <3>2, Numbers
  <2>2. accepted[t] + tokens[t] <= given
    BY DEF Budget
  <2> HIDE DEF given
  <2>3. accepted[t] <= given
    BY <2>1, <2>2
  <2> QED BY <2>3 DEF given
<1> QED BY <1>1, <1>2, BudgetStep, TypeCorrect, PTL DEF Spec

-----------------------------------------------------------------------------
(* The indicator                                                            *)

LEMMA Ranges ==
  ASSUME TypeOK
  PROVE  /\ idle \in Nat /\ until \in Nat /\ faults \in Nat
         /\ \A t \in Tabs : timer[t] \in 0..Off /\ age[t] \in 0..Net
         /\ until <= Net
BY Numbers DEF TypeOK

(* A broadcast joins the end of the queue, or is lost.                      *)
LEMMA Published ==
  ASSUME TypeOK, NEW t \in Tabs, NEW b \in BOOLEAN, Publish(t, b)
  PROVE  \/ /\ bus' # <<>> /\ bus'[Len(bus')] = b /\ UNCHANGED faults
            /\ \A n \in DOMAIN bus' : (n \in DOMAIN bus /\ bus'[n] = bus[n]) \/ bus'[n] = b
            /\ \A u \in Tabs : ~hidden'[u] => (IF b THEN u = t \/ ~hidden[u] ELSE u = t)
         \/ /\ faults' > 0 /\ UNCHANGED bus
            /\ \A u \in Tabs : hidden'[u]
<1>1. CASE bus' = Append(bus, b)
           /\ hidden' = [u \in Tabs |-> IF b THEN hidden[u] /\ u # t ELSE hidden[u] \/ u # t]
           /\ UNCHANGED faults
  <2>1. bus \in Seq(BOOLEAN)
    BY DEF TypeOK
  <2>2. /\ Len(bus) \in Nat /\ DOMAIN bus = 1..Len(bus)
        /\ Len(Append(bus, b)) = Len(bus) + 1 /\ DOMAIN Append(bus, b) = 1..(Len(bus) + 1)
        /\ Append(bus, b)[Len(bus) + 1] = b
        /\ \A n \in 1..Len(bus) : Append(bus, b)[n] = bus[n]
    BY <2>1, AppendProperties, LenProperties
  <2>3. bus' # <<>> /\ bus'[Len(bus')] = b
    BY <1>1, <2>1, <2>2, AppendProperties
  <2>4. \A n \in DOMAIN bus' : (n \in DOMAIN bus /\ bus'[n] = bus[n]) \/ bus'[n] = b
    BY <1>1, <2>2
  <2>5. \A u \in Tabs : ~hidden'[u] => (IF b THEN u = t \/ ~hidden[u] ELSE u = t)
    BY <1>1
  <2> QED BY <1>1, <2>3, <2>4, <2>5
<1>2. CASE faults' = faults + 1 /\ hidden' = [u \in Tabs |-> TRUE] /\ UNCHANGED bus
  <2>1. faults' > 0
    BY <1>2, Ranges
  <2> QED BY <1>2, <2>1
<1> QED BY <1>1, <1>2 DEF Publish

(* A stop, an expiry, a close.                                              *)
LEMMA OffKeeps ==
  ASSUME TypeOK, Shown, NEW t \in Tabs, timer' = [timer EXCEPT ![t] = Off], Publish(t, FALSE),
         UNCHANGED <<idle, age, until>>
  PROVE  Shown'
<1>1. /\ timer'[t] = Off
      /\ \A u \in Tabs : timer'[u] # Off => u # t /\ timer[u] # Off /\ timer'[u] = timer[u]
  BY DEF TypeOK
<1>2. Armed'
  BY <1>1 DEF Shown, Armed
<1>3. StartsFresh'
  BY Published DEF Shown, StartsFresh
<1>4. NetHolds'
  BY DEF Shown, NetHolds
<1>5. GoneInTime'
  <2>1. until > 0 => idle <= Net
    BY Ranges, Numbers DEF Shown, NetHolds
  <2>2. faults' = 0 => faults = 0
    <3>1. UNCHANGED faults \/ faults' > 0
      BY Published, Zenon
    <3> QED BY <3>1, Numbers
  <2> QED BY <2>1, <2>2 DEF Shown, GoneInTime
<1>6. Backed'
  <2>1. (bus' # <<>> /\ bus'[Len(bus')] = FALSE) \/ faults' > 0
    BY Published, Zenon
  <2>2. ~(faults' = 0 /\ Final')
    BY <2>1 DEF Final
  <2> QED BY <2>2 DEF Backed
<1>7. Promised'
  BY <1>1, Published DEF Promised
<1> QED BY <1>2, <1>3, <1>4, <1>5, <1>6, <1>7 DEF Shown

LEMMA StopKeeps ==
  ASSUME TypeOK, Shown, NEW t \in Tabs, TypingStop(t), UNCHANGED until
  PROVE  Shown'
<1>1. CASE timer[t] = Off
  BY <1>1 DEF TypingStop, Shown, Armed, StartsFresh, NetHolds, GoneInTime, Backed, Final, Promised
<1>2. CASE timer[t] # Off
  BY <1>2, OffKeeps DEF TypingStop
<1> QED BY <1>1, <1>2

LEMMA StartKeeps ==
  ASSUME TypeOK, Shown, NEW t \in Tabs, TypingStart(t), UNCHANGED until
  PROVE  Shown'
<1>1. /\ timer'[t] = Timeout /\ idle' = 0 /\ \A u \in Tabs : u # t => timer'[u] = timer[u]
  BY DEF TypingStart, TypeOK
<1>2. Armed'
  <2> SUFFICES ASSUME NEW u \in Tabs, timer'[u] # Off PROVE idle' + timer'[u] <= Timeout
    BY DEF Armed
  <2>1. timer[u] \in 0..Off /\ (u # t => timer'[u] = timer[u])
    BY <1>1, Ranges
  <2>2. idle \in Nat
    BY Ranges
  <2> QED BY <1>1, <2>1, <2>2, Numbers
<1>3. StartsFresh'
  BY <1>1 DEF StartsFresh
<1>4. NetHolds' /\ GoneInTime'
  BY <1>1, Ranges, Numbers DEF NetHolds, GoneInTime
<1>5. Backed'
  BY <1>1, Numbers DEF Backed
<1>6. Promised'
  <2>1. CASE timer[t] # Off
    BY <1>1, <2>1 DEF TypingStart, Shown, Promised
  <2>2. CASE timer[t] = Off
    <3>1. Publish(t, TRUE) /\ age' = [age EXCEPT ![t] = 0]
      BY <2>2 DEF TypingStart
    <3> QED BY <3>1, Published DEF Promised
  <2> QED BY <2>1, <2>2
<1> QED BY <1>2, <1>3, <1>4, <1>5, <1>6 DEF Shown

LEMMA TailFacts ==
  ASSUME NEW S, NEW q \in Seq(S), q # <<>>
  PROVE  /\ Head(q) = q[1] /\ 1 \in DOMAIN q
         /\ \A n \in DOMAIN Tail(q) : n + 1 \in DOMAIN q /\ Tail(q)[n] = q[n + 1]
         /\ Tail(q) = <<>> => q[Len(q)] = Head(q)
         /\ Tail(q) # <<>> => Tail(q)[Len(Tail(q))] = q[Len(q)]
<1>1. /\ Len(q) \in Nat /\ Len(q) # 0 /\ DOMAIN q = 1..Len(q) /\ Head(q) = q[1]
      /\ Tail(q) \in Seq(S) /\ Len(Tail(q)) = Len(q) - 1 /\ DOMAIN Tail(q) = 1..Len(Tail(q))
  BY HeadTailProperties, LenProperties, EmptySeq
<1>2. \A n \in 1..Len(Tail(q)) : Tail(q)[n] = q[n + 1]
  BY HeadTailProperties
<1>3. \A n \in DOMAIN Tail(q) : n + 1 \in DOMAIN q /\ Tail(q)[n] = q[n + 1]
  BY <1>1, <1>2
<1>4. ASSUME Tail(q) = <<>> PROVE q[Len(q)] = Head(q)
  <2>1. Len(Tail(q)) = 0
    BY <1>4, EmptySeq
  <2>2. Len(q) - 1 = 0
    BY <1>1, <2>1, Zenon
  <2>3. Len(q) = 1
    <3>1. \A n \in Nat : n - 1 = 0 => n = 1
      OBVIOUS
    <3> QED BY <1>1, <2>2, <3>1, Zenon
  <2> QED BY <1>1, <2>3, Zenon
<1>5. ASSUME Tail(q) # <<>> PROVE Tail(q)[Len(Tail(q))] = q[Len(q)]
  <2>1. Len(Tail(q)) # 0
    BY <1>1, <1>5, EmptySeq
  <2>2. Len(Tail(q)) \in 1..Len(Tail(q)) /\ Len(Tail(q)) + 1 = Len(q)
    BY <1>1, <2>1
  <2> QED BY <1>2, <2>2
<1> QED BY <1>1, <1>3, <1>4, <1>5

LEMMA ShowKeeps ==
  ASSUME TypeOK, Shown, Show
  PROVE  Shown'
<1>1. /\ bus # <<>> /\ bus' = Tail(bus) /\ until' = IF Head(bus) THEN Net ELSE 0
      /\ UNCHANGED <<timer, idle, age, hidden, faults>>
  BY DEF Show, server
<1>2. bus \in Seq(BOOLEAN)
  BY DEF TypeOK
<1>3. /\ Head(bus) = bus[1] /\ 1 \in DOMAIN bus
      /\ \A n \in DOMAIN bus' : n + 1 \in DOMAIN bus /\ bus'[n] = bus[n + 1]
      /\ bus' = <<>> => bus[Len(bus)] = Head(bus)
      /\ bus' # <<>> => bus'[Len(bus')] = bus[Len(bus)]
  BY <1>1, <1>2, TailFacts, Zenon
<1>4. Head(bus) => idle = 0
  BY <1>3, Zenon DEF Shown, StartsFresh
<1>5. Armed' /\ StartsFresh'
  BY <1>1, <1>3 DEF Shown, Armed, StartsFresh
<1>6. until' = Net \/ until' = 0
  BY <1>1
<1>7. until' # 0 => Head(bus)
  BY <1>1
<1>8. NetHolds' /\ GoneInTime'
  <2>1. CASE until' = 0
    BY <2>1 DEF NetHolds, GoneInTime
  <2>2. CASE until' # 0
    <3>1. until' = Net /\ idle' = 0
      BY <1>1, <1>4, <1>6, <1>7, <2>2
    <3> QED BY <3>1, Numbers DEF NetHolds, GoneInTime
  <2> QED BY <2>1, <2>2
<1>9. until' > 0 => until' # 0
  BY <1>6, Numbers
<1>10. Backed'
  <2>1. Final' => bus[Len(bus)]
    BY <1>3, <1>7, <1>9, Zenon DEF Final
  <2> QED BY <1>1, <2>1 DEF Shown, Backed, Final
<1>11. Promised'
  <2> SUFFICES ASSUME NEW t \in Tabs, timer'[t] # Off, ~hidden'[t]
               PROVE  IF bus' = <<>> THEN until' + age'[t] >= Net ELSE bus'[Len(bus')]
    BY DEF Promised
  <2>1. bus[Len(bus)]
    BY <1>1 DEF Shown, Promised
  <2>2. CASE bus' = <<>>
    <3>1. until' = Net /\ age'[t] \in 0..Net
      BY <1>1, <1>3, <2>1, <2>2, Ranges
    <3> QED BY <2>2, <3>1, Numbers
  <2>3. CASE bus' # <<>>
    BY <1>3, <2>1, <2>3, Zenon
  <2> QED BY <2>2, <2>3
<1> QED BY <1>5, <1>8, <1>10, <1>11 DEF Shown

LEMMA TickKeeps ==
  ASSUME TypeOK, Shown, Tick
  PROVE  Shown'
<1>1. /\ bus = <<>> /\ UNCHANGED <<bus, faults, hidden>> /\ idle' = Capped(idle + 1, Net + 1)
      /\ until' = IF until = 0 THEN 0 ELSE until - 1
      /\ \A t \in Tabs : /\ timer[t] # 0 /\ timer'[t] = IF timer[t] = Off THEN Off ELSE timer[t] - 1
                         /\ age'[t] = Capped(age[t] + 1, Net)
  BY DEF Tick
<1>2. idle' <= idle + 1 /\ idle' \in Nat
  BY <1>1, Ranges, Numbers DEF Capped
<1>3. \A t \in Tabs : timer'[t] # Off <=> timer[t] # Off
  BY <1>1, Ranges, Numbers
<1>4. Armed'
  <2> SUFFICES ASSUME NEW t \in Tabs, timer'[t] # Off PROVE idle' + timer'[t] <= Timeout
    BY DEF Armed
  <2>1. timer[t] \in Nat /\ timer[t] # 0 /\ timer'[t] = timer[t] - 1 /\ idle + timer[t] <= Timeout
    BY <1>1, <1>3, Ranges, Numbers DEF Shown, Armed
  <2> QED BY <1>2, <2>1, Ranges, Numbers
<1>5. StartsFresh'
  BY <1>1 DEF StartsFresh
<1>6. NetHolds'
  BY <1>1, <1>2, Ranges, Numbers DEF Shown, NetHolds
<1>7. Backed'
  BY <1>1, <1>3, Ranges DEF Shown, Backed, Final
<1>8. GoneInTime'
  <2> SUFFICES ASSUME until' > 0 PROVE idle' <= (IF faults' = 0 THEN Timeout ELSE Net)
    BY DEF GoneInTime
  <2>1. CASE faults' # 0
    BY <1>2, <1>6, <2>1, Ranges, Numbers, <1>1 DEF NetHolds
  <2>2. CASE faults' = 0
    <3>1. PICK t \in Tabs : timer'[t] # Off
      BY <1>1, <1>7, <2>2 DEF Backed, Final
    <3>2. idle' + timer'[t] <= Timeout /\ timer'[t] >= 0 /\ timer'[t] \in Int
      BY <1>1, <1>3, <1>4, <3>1, Ranges, Numbers DEF Armed
    <3> QED BY <1>2, <2>2, <3>2, Numbers
  <2> QED BY <2>1, <2>2
<1>9. Promised'
  <2> SUFFICES ASSUME NEW t \in Tabs, timer'[t] # Off, ~hidden'[t]
               PROVE  until' + age'[t] >= Net
    BY <1>1 DEF Promised
  <2>1. until + age[t] >= Net
    BY <1>1, <1>3 DEF Shown, Promised
  <2>2. age[t] \in 0..Net /\ until \in Nat
    BY Ranges
  <2> QED BY <1>1, <2>1, <2>2, Numbers DEF Capped
<1> QED BY <1>4, <1>5, <1>6, <1>7, <1>8, <1>9 DEF Shown

LEMMA ShownStep == TypeOK /\ Shown /\ [Next]_vars => Shown'
<1> SUFFICES ASSUME TypeOK, Shown, [Next]_vars PROVE Shown'
  OBVIOUS
<1>1. ASSUME UNCHANGED <<timer, idle, age, hidden, bus, until, faults>> PROVE Shown'
  BY <1>1 DEF Shown, Armed, StartsFresh, NetHolds, GoneInTime, Backed, Final, Promised
<1>2. ASSUME NEW t \in Tabs, Handle(t) PROVE Shown'
  <2>1. UNCHANGED until
    BY <1>2 DEF Handle
  <2> QED BY <1>1, <1>2, <2>1, FrameFacts, StartKeeps, StopKeeps
<1>3. ASSUME NEW t \in Tabs, Expire(t) PROVE Shown'
  BY <1>3, OffKeeps DEF Expire
<1>4. ASSUME NEW t \in Tabs, Close(t) PROVE Shown'
  BY <1>4, StopKeeps DEF Close
<1> QED
  BY <1>1, <1>2, <1>3, <1>4, ShowKeeps, TickKeeps
     DEF Next, Key, Empty, Other, server, screen, vars

LEMMA ShownAlways == Spec => []Shown
<1>1. Init => Shown
  BY Numbers DEF Init, Shown, Armed, StartsFresh, NetHolds, GoneInTime, Backed, Final, Promised
<1> QED BY <1>1, ShownStep, TypeCorrect, PTL DEF Spec

(* "X is typing" is gone Timeout after X's last TYPING_START if no          *)
(* broadcast was lost, refused stops and closed sockets included, and Net   *)
(* after it however many were.                                              *)
THEOREM IndicatorGoes == Spec => []GoneInTime
<1>1. Shown => GoneInTime
  BY DEF Shown
<1> QED BY <1>1, ShownAlways, PTL

(* From the announcement on X is shown for Net seconds while a timer of X   *)
(* runs, unless another tab's stop, or a loss, hid it.                      *)
THEOREM IndicatorComes == Spec => []ShownAtFirst
<1>1. TypeOK /\ Shown => ShownAtFirst
  <2> SUFFICES ASSUME TypeOK, Shown, NEW t \in Tabs, timer[t] # Off, bus = <<>>, ~hidden[t], age[t] < Net
               PROVE  until > 0
    BY DEF ShownAtFirst
  <2>1. until + age[t] >= Net
    BY DEF Shown, Promised
  <2> QED BY <2>1, Ranges, Numbers
<1> QED BY <1>1, ShownAlways, TypeCorrect, PTL

-----------------------------------------------------------------------------
(* The sidebar: the inductive invariant                                     *)

(* What a list may hold, and a request ask for.                             *)
Listable(k) == IF k = Rail THEN Workspaces ELSE Channels
Entries == [known: BOOLEAN, ok: BOOLEAN, stale: BOOLEAN, ids: SUBSET (Workspaces \cup Channels)]
Turned  == [at |-> "refused"]
Fetches == {Idle, Sent, Turned} \cup [at: {"read"}, ids: SUBSET (Workspaces \cup Channels)]
OnWorkspace == {"create", "join", "leave", "destroy"}
OnRoom      == {"room", "close", "quit"}
Asks == [at: {"sent", "served"}, op: OnWorkspace \cup OnRoom \cup {"dm"},
         on: Workspaces \cup Channels]
Asked == /\ ask \in Asks
         /\ ask.op \in OnWorkspace => ask.on \in Workspaces
         /\ ask.op \in OnRoom => ask.on \in Channels /\ Home[ask.on] \in Workspaces
         /\ ask.op = "dm" => ask.on \in DirectMessages

Queries == /\ cache \in [Keys -> Entries] /\ fetch \in [Keys -> Fetches]
           /\ \A k \in Keys : /\ cache[k].ids \subseteq Listable(k)
                              /\ fetch[k].at = "read" => fetch[k].ids \subseteq Listable(k)
                              /\ fetch[k] = Turned => k \in Workspaces
           /\ cache[Rail].known /\ cache[Dms].known
           /\ cache[Rail].ids \subseteq used
           /\ fetch[Rail].at = "read" => fetch[Rail].ids \subseteq used

(* The server's side.  A workspace that was never there is unknown to the   *)
(* tab; the user is in every direct message.                                *)
Places == /\ member \subseteq alive /\ alive \subseteq Workspaces
          /\ exists \subseteq Channels /\ mine \subseteq exists
          /\ alive \cup exists \subseteq used
          /\ \A c \in used \cap Channels : Home[c] \in used \cup {None}
          /\ \A c \in exists : Home[c] = None => c \in mine
Link == conn \in BOOLEAN /\ wire \subseteq Frames
Unseen(k) == fetch[k] = Idle /\ ~cache[k].known /\ k \notin Observed
Store == /\ mounted \in (Workspaces \cap used) \cup {None} /\ activeWs \in Workspaces \cup {None}
         /\ activeCh \in Channels \cup {None}
         /\ missed \subseteq Keys /\ strayed \in BOOLEAN
         /\ ask = NoAsk \/ Asked
Foreign == \A w \in Workspaces \ used : Unseen(w)
Typed == Queries /\ Places /\ Link /\ Store /\ Foreign

(* A list is right, or will be fetched after the change it misses: a frame, *)
(* the answer to an own request or a read still to come invalidates it.     *)
Told(k) == \E f \in wire : k \in KeysOf(f)
Own(k) == /\ ask.at = "served"
          /\ \/ ask.op \in {"create", "destroy"} /\ k = Rail
             \/ ask.op = "dm" /\ k = Dms
Brought(k) == fetch[k] = Sent \/ (fetch[k].at = "read" /\ fetch[k].ids = Listing(k))
Kept(k) == /\ fetch[k] = Idle
           /\ cache[k].ids = Listing(k) \/ (k \notin Observed /\ (cache[k].stale \/ ~cache[k].known))
Good(k) == Told(k) \/ Own(k) \/ Brought(k) \/ Kept(k)
Wanted(k) == k \notin missed /\ k \notin Workspaces \ member
Fine == \A k \in Keys : Wanted(k) => Good(k)

(* The last answer of the list of workspaces was good, or one is missed.    *)
RailOk == cache[Rail].ok \/ Rail \in missed \/ fetch[Rail] = Sent \/ fetch[Rail].at = "read"

(* What is open is seen, or will be closed: by a frame, or with the         *)
(* workspace.                                                               *)
Closing == \E f \in wire : f.change = "deleted" /\ f.ch = activeCh
Seen(c) == Sees(c) \/ Closing \/ Home[c] \in Workspaces \ member
Inside == ~strayed /\ activeCh # None =>
            activeCh \in used /\ Home[activeCh] \in {None, activeWs} /\ Seen(activeCh)

SidebarInv == Typed /\ Fine /\ RailOk /\ Inside

-----------------------------------------------------------------------------
(* Names and kinds.                                                         *)
LEMMA KeyKinds ==
  /\ Rail \in Keys /\ Dms \in Keys /\ Rail # Dms /\ Rail \notin Workspaces /\ Dms \notin Workspaces
  /\ None \notin Workspaces /\ \A w \in Workspaces : w \in Keys /\ w \notin Channels
  /\ \A c \in Channels : Home[c] \in Workspaces \cup {None}
  /\ Home \in [Channels -> Workspaces \cup {None}]
BY HomeOfChannels, IdsApart DEF Keys, Rail, Dms

LEMMA FetchKinds ==
  \A x \in Fetches : /\ x.at = "idle" <=> x = Idle
                     /\ x.at = "sent" <=> x = Sent
                     /\ x.at = "refused" <=> x = Turned
                     /\ x.at \in {"idle", "sent", "read", "refused"}
BY DEF Fetches, Idle, Sent, Turned

(* Frames.                                                                  *)
LEMMA FrameKeys ==
  \A f \in Frames : KeysOf(f) \subseteq Keys
BY KeyKinds DEF Frames, KeysOf, Keys

LEMMA FramesMade ==
  /\ \A w \in Workspaces : /\ Frame("members", None, w) \in Frames
                           /\ KeysOf(Frame("members", None, w)) = {w, Rail}
  /\ \A c \in Channels, w \in Workspaces :
       /\ Frame("created", c, w) \in Frames /\ KeysOf(Frame("created", c, w)) = {w}
       /\ Frame("deleted", c, w) \in Frames /\ KeysOf(Frame("deleted", c, w)) = {w}
       /\ Frame("members", c, w) \in Frames
       /\ Frame("deleted", c, w).change = "deleted" /\ Frame("deleted", c, w).ch = c
  /\ \A c \in Channels : /\ Frame("created", c, None) \in Frames
                         /\ KeysOf(Frame("created", c, None)) = {Dms}
BY KeyKinds DEF Frame, Frames, KeysOf

LEMMA TellEffect ==
  ASSUME Typed, NEW fs \in SUBSET Frames, NEW u \in BOOLEAN, TellOr(fs, u)
  PROVE  /\ wire' \subseteq Frames /\ missed' \subseteq Keys /\ strayed' \in BOOLEAN
         /\ wire \subseteq wire' /\ missed \subseteq missed' /\ (strayed => strayed') /\ (u => strayed')
         /\ \A f \in fs : \A k \in KeysOf(f) : k \in missed' \/ Told(k)'
         /\ \A f \in fs : f.change = "deleted" /\ f.ch = activeCh =>
              strayed' \/ \E g \in wire' : g.change = "deleted" /\ g.ch = activeCh
<1>0. missed \subseteq Keys /\ wire \subseteq Frames /\ strayed \in BOOLEAN
  BY DEF Typed, Store, Link
<1>1. CASE conn
  BY <1>0, <1>1 DEF TellOr, Told
<1>2. CASE ~conn
  <2>1. wire' = wire /\ missed' = Missing(fs) /\ (strayed' <=> Straying(fs) \/ u) /\ strayed' \in BOOLEAN
    BY <1>0, <1>2, Zenon DEF TellOr, Straying
  <2>2. missed' \subseteq Keys
    BY <1>0, <2>1, FrameKeys DEF Missing
  <2>3. \A f \in fs : KeysOf(f) \subseteq missed'
    BY <2>1 DEF Missing
  <2>4. missed \subseteq missed'
    BY <2>1 DEF Missing
  <2>5. (strayed => strayed') /\ (u => strayed')
    BY <2>1 DEF Straying
  <2>6. \A f \in fs : f.change = "deleted" /\ f.ch = activeCh => strayed'
    BY <2>1 DEF Straying
  <2> QED BY <1>0, <2>1, <2>2, <2>3, <2>4, <2>5, <2>6
<1> QED BY <1>1, <1>2

(* Lists.                                                                   *)
LEMMA ListingStays ==
  ASSUME NEW k \in Keys, k = Rail => member' = member,
         k = Dms => \A c \in DirectMessages : Sees(c)' <=> Sees(c),
         k \in Workspaces => \A c \in InWorkspace(k) : Sees(c)' <=> Sees(c)
  PROVE  Listing(k)' = Listing(k)
<1>1. CASE k = Rail
  BY <1>1, KeyKinds DEF Listing
<1>2. CASE k = Dms
  BY <1>2, KeyKinds DEF Listing, MyDms
<1>3. CASE k \in Workspaces
  BY <1>3, KeyKinds DEF Listing, ChannelsOf
<1> QED BY <1>1, <1>2, <1>3 DEF Keys

LEMMA ListingSame ==
  UNCHANGED serverVars => \A k \in Keys : Listing(k)' = Listing(k)
BY DEF serverVars, Listing, MyDms, ChannelsOf, Sees

LEMMA ListingKind ==
  ASSUME Places, NEW k \in Keys
  PROVE  Listing(k) \subseteq Listable(k) /\ (k = Rail => Listing(k) \subseteq used)
<1>1. CASE k = Rail
  BY <1>1, KeyKinds DEF Listing, Listable, Places
<1>2. CASE k # Rail
  BY <1>2, KeyKinds DEF Listing, Listable, MyDms, ChannelsOf, DirectMessages, InWorkspace
<1> QED BY <1>1, <1>2

-----------------------------------------------------------------------------
(* What each request does on the server, whoever sends it.                  *)
Request(w, c, b) ==
  \/ /\ w \in Workspaces
     /\ AddMember(w) \/ RemoveMember(w) \/ CreateWorkspace(w) \/ DeleteWorkspace(w, b)
  \/ /\ c \in Channels
     /\ CreateRoom(c, b) \/ DeleteRoom(c) \/ AddToRoom(c) \/ TakeFromRoom(c) \/ OpenDm(c, b)

LEMMA NoneTold ==
  ASSUME TellNobody PROVE wire' = wire /\ missed' = missed /\ strayed' = strayed
BY DEF TellNobody

LEMMA PlacesKept ==
  ASSUME Typed, NEW w, NEW c, NEW b \in BOOLEAN, Request(w, c, b)
  PROVE  Places' /\ used \subseteq used'
<1>0. Places
  BY DEF Typed
<1>1. CASE w \in Workspaces /\ AddMember(w)
  BY <1>0, <1>1 DEF AddMember, Places
<1>2. CASE w \in Workspaces /\ RemoveMember(w)
  BY <1>0, <1>2, KeyKinds DEF RemoveMember, Places, InWorkspace
<1>3. CASE w \in Workspaces /\ CreateWorkspace(w)
  BY <1>0, <1>3, KeyKinds DEF CreateWorkspace, Places, InWorkspace
<1>4. CASE w \in Workspaces /\ DeleteWorkspace(w, b)
  BY <1>0, <1>4, KeyKinds DEF DeleteWorkspace, Places, InWorkspace
<1>5. CASE c \in Channels /\ CreateRoom(c, b)
  BY <1>0, <1>5, KeyKinds DEF CreateRoom, Places
<1>6. CASE c \in Channels /\ DeleteRoom(c)
  BY <1>0, <1>6, KeyKinds DEF DeleteRoom, Places
<1>7. CASE c \in Channels /\ AddToRoom(c)
  BY <1>0, <1>7, KeyKinds DEF AddToRoom, Places
<1>8. CASE c \in Channels /\ TakeFromRoom(c)
  BY <1>0, <1>8, KeyKinds DEF TakeFromRoom, Places
<1>9. CASE c \in Channels /\ OpenDm(c, b)
  BY <1>0, <1>9, KeyKinds DEF OpenDm, Places
<1> QED BY <1>1, <1>2, <1>3, <1>4, <1>5, <1>6, <1>7, <1>8, <1>9 DEF Request

(* Outside of own, the tab is told of every list that changes and that it   *)
(* may still read, or never asked for it.                                   *)
Same(k) == \/ k \in Workspaces \ member'
           \/ Listing(k)' = Listing(k) /\ (k \in member' => k \in member)
Informed(own) ==
  /\ wire' \subseteq Frames /\ missed' \subseteq Keys /\ strayed' \in BOOLEAN
  /\ wire \subseteq wire' /\ missed \subseteq missed'
  /\ \A k \in Keys \ own : k \in missed' \/ Told(k)' \/ Unseen(k) \/ Same(k)

LEMMA AddMemberInforms ==
  ASSUME Typed, NEW w \in Workspaces, AddMember(w)
  PROVE  Informed({})
<1> DEFINE fs == {Frame("members", None, w)}
<1>1. PICK u \in BOOLEAN : TellOr(fs, u)
  BY DEF AddMember
<1>2. fs \in SUBSET Frames /\ \A f \in fs : KeysOf(f) = {w, Rail}
  BY FramesMade
<1> HIDE DEF fs
<1>3. ASSUME NEW k \in Keys, k \notin {w, Rail} PROVE Same(k)
  <2>1. Listing(k)' = Listing(k)
    BY <1>3, ListingStays, KeyKinds DEF AddMember, Sees, DirectMessages, InWorkspace
  <2> QED BY <1>3, <2>1 DEF AddMember, Same
<1>4. fs # {}
  BY DEF fs
<1> QED BY <1>1, <1>2, <1>3, <1>4, TellEffect DEF Informed

LEMMA RemoveMemberInforms ==
  ASSUME Typed, NEW w \in Workspaces, RemoveMember(w)
  PROVE  Informed({})
<1> DEFINE fs == {Frame("members", None, w)}
<1>1. TellOr(fs, FALSE)
  BY DEF RemoveMember, Tell
<1>2. fs \in SUBSET Frames /\ \A f \in fs : KeysOf(f) = {w, Rail}
  BY FramesMade
<1> HIDE DEF fs
<1>3. ASSUME NEW k \in Keys, k \notin {w, Rail} PROVE Same(k)
  <2>1. Listing(k)' = Listing(k)
    BY <1>3, ListingStays, KeyKinds DEF RemoveMember, Sees, DirectMessages, InWorkspace
  <2> QED BY <1>3, <2>1 DEF RemoveMember, Same
<1>4. fs # {}
  BY DEF fs
<1> QED BY <1>1, <1>2, <1>3, <1>4, TellEffect DEF Informed

LEMMA CreateWorkspaceInforms ==
  ASSUME Typed, NEW w \in Workspaces, CreateWorkspace(w)
  PROVE  Informed({Rail})
<1>1. wire' = wire /\ missed' = missed /\ strayed' = strayed
  BY NoneTold DEF CreateWorkspace
<1>2. wire \subseteq Frames /\ missed \subseteq Keys /\ strayed \in BOOLEAN
  BY DEF Typed, Link, Store
<1>3. Unseen(w)
  BY DEF Typed, Foreign, CreateWorkspace
<1>4. ASSUME NEW k \in Keys, k \notin {w, Rail} PROVE Same(k)
  <2>1. Listing(k)' = Listing(k)
    BY <1>4, ListingStays, KeyKinds DEF CreateWorkspace, Sees, DirectMessages, InWorkspace
  <2> QED BY <1>4, <2>1 DEF CreateWorkspace, Same
<1> QED BY <1>1, <1>2, <1>3, <1>4 DEF Informed

LEMMA DeleteWorkspaceInforms ==
  ASSUME Typed, NEW w \in Workspaces, NEW byMe \in BOOLEAN, DeleteWorkspace(w, byMe)
  PROVE  Informed(IF byMe THEN {Rail} ELSE {})
<1>1. wire \subseteq Frames /\ missed \subseteq Keys /\ strayed \in BOOLEAN
  BY DEF Typed, Link, Store
<1>2. ASSUME NEW k \in Keys, k \notin {w, Rail} PROVE Same(k)
  <2>1. Listing(k)' = Listing(k)
    BY <1>2, ListingStays, KeyKinds DEF DeleteWorkspace, Sees, DirectMessages, InWorkspace
  <2> QED BY <1>2, <2>1 DEF DeleteWorkspace, Same
<1>3. Same(w)
  BY DEF DeleteWorkspace, Same
<1> QED BY <1>1, <1>2, <1>3, KeyKinds DEF Informed, DeleteWorkspace

LEMMA CreateRoomInforms ==
  ASSUME Typed, NEW c \in Channels, NEW withMe \in BOOLEAN, CreateRoom(c, withMe)
  PROVE  Informed({})
<1> DEFINE fs == IF Home[c] \in member /\ (c \in Private => withMe)
                 THEN {Frame("created", c, Home[c])} ELSE {}
<1>1. TellOr(fs, FALSE)
  BY DEF CreateRoom, Tell
<1>2. Home[c] \in Workspaces /\ c \notin exists /\ c \notin mine
  BY DEF CreateRoom, Typed, Places
<1>3. fs \in SUBSET Frames /\ \A f \in fs : KeysOf(f) = {Home[c]}
  BY <1>2, FramesMade
<1>4. ASSUME NEW k \in Keys, k # Home[c] \/ fs = {} PROVE Same(k)
  <2>1. \A d \in Channels \ {c} : Sees(d)' <=> Sees(d)
    BY DEF CreateRoom, Sees
  <2>2. CASE k # Home[c]
    <3>1. Listing(k)' = Listing(k)
      BY <1>2, <2>1, <2>2, ListingStays, KeyKinds DEF CreateRoom, DirectMessages, InWorkspace
    <3> QED BY <3>1 DEF CreateRoom, Same
  <2>3. CASE fs = {}
    <3>1. ~(Home[c] \in member /\ (c \in Private => withMe))
      BY <2>3
    <3>2. ~Sees(c) /\ ~Sees(c)'
      BY <1>2, <3>1, KeyKinds DEF CreateRoom, Sees
    <3>3. Listing(k)' = Listing(k)
      BY <2>1, <3>2, ListingStays, KeyKinds DEF CreateRoom, DirectMessages, InWorkspace
    <3> QED BY <3>3 DEF CreateRoom, Same
  <2> QED BY <1>4, <2>2, <2>3
<1> HIDE DEF fs
<1> QED BY <1>1, <1>3, <1>4, TellEffect DEF Informed

LEMMA DeleteRoomInforms ==
  ASSUME Typed, NEW c \in Channels, DeleteRoom(c)
  PROVE  Informed({})
<1> DEFINE fs == IF Sees(c) THEN {Frame("deleted", c, Home[c])} ELSE {}
<1>1. TellOr(fs, FALSE)
  BY DEF DeleteRoom, Tell
<1>2. Home[c] \in Workspaces
  BY KeyKinds DEF DeleteRoom
<1>3. fs \in SUBSET Frames /\ \A f \in fs : KeysOf(f) = {Home[c]}
  BY <1>2, FramesMade
<1>4. ASSUME NEW k \in Keys, k # Home[c] \/ fs = {} PROVE Same(k)
  <2>1. \A d \in Channels \ {c} : Sees(d)' <=> Sees(d)
    BY DEF DeleteRoom, Sees
  <2>2. CASE k # Home[c]
    <3>1. Listing(k)' = Listing(k)
      BY <1>2, <2>1, <2>2, ListingStays, KeyKinds DEF DeleteRoom, DirectMessages, InWorkspace
    <3> QED BY <3>1 DEF DeleteRoom, Same
  <2>3. CASE fs = {}
    <3>1. ~Sees(c)
      BY <2>3
    <3>2. ~Sees(c)'
      BY DEF DeleteRoom, Sees
    <3>3. Listing(k)' = Listing(k)
      BY <2>1, <3>1, <3>2, ListingStays, KeyKinds DEF DeleteRoom, DirectMessages, InWorkspace
    <3> QED BY <3>3 DEF DeleteRoom, Same
  <2> QED BY <1>4, <2>2, <2>3
<1> HIDE DEF fs
<1> QED BY <1>1, <1>3, <1>4, TellEffect DEF Informed

LEMMA RoomMemberInforms ==
  ASSUME Typed, NEW c \in Channels, AddToRoom(c) \/ TakeFromRoom(c)
  PROVE  Informed({})
<1>1. PICK what \in {"created", "deleted"} :
        TellOr({Frame("members", c, Home[c]), Frame(what, c, Home[c])}, FALSE)
  BY DEF AddToRoom, TakeFromRoom, Tell
<1> DEFINE fs == {Frame("members", c, Home[c]), Frame(what, c, Home[c])}
<1>2. Home[c] \in Workspaces
  BY KeyKinds DEF AddToRoom, TakeFromRoom, Typed, Places
<1>3. fs \in SUBSET Frames /\ \E f \in fs : Home[c] \in KeysOf(f)
  BY <1>2, FramesMade
<1>4. ASSUME NEW k \in Keys, k # Home[c] PROVE Same(k)
  <2>1. \A d \in Channels \ {c} : Sees(d)' <=> Sees(d)
    BY DEF AddToRoom, TakeFromRoom, Sees
  <2>2. Listing(k)' = Listing(k)
    BY <1>2, <1>4, <2>1, ListingStays, KeyKinds DEF AddToRoom, TakeFromRoom, DirectMessages,
        InWorkspace
  <2> QED BY <2>2 DEF AddToRoom, TakeFromRoom, Same
<1>5. TellOr(fs, FALSE)
  BY <1>1
<1> HIDE DEF fs
<1> QED BY <1>3, <1>4, <1>5, TellEffect DEF Informed

LEMMA OpenDmInforms ==
  ASSUME Typed, NEW c \in Channels, NEW byMe \in BOOLEAN, OpenDm(c, byMe)
  PROVE  Informed(IF byMe THEN {Dms} ELSE {})
<1> DEFINE fs == IF c \in exists \/ byMe THEN {} ELSE {Frame("created", c, None)}
<1>1. TellOr(fs, FALSE)
  BY DEF OpenDm, Tell
<1>2. fs \in SUBSET Frames /\ \A f \in fs : KeysOf(f) = {Dms}
  BY FramesMade
<1>3. ASSUME NEW k \in Keys, k # Dms \/ c \in exists PROVE Same(k)
  <2>1. \A d \in Channels \ {c} : Sees(d)' <=> Sees(d)
    BY DEF OpenDm, Sees
  <2>2. c \in exists => (Sees(c)' <=> Sees(c))
    BY DEF OpenDm, Sees, Typed, Places
  <2>3. Listing(k)' = Listing(k)
    BY <1>3, <2>1, <2>2, ListingStays, KeyKinds DEF OpenDm, DirectMessages, InWorkspace
  <2> QED BY <2>3 DEF OpenDm, Same
<1>4. ~byMe /\ c \notin exists => fs # {}
  OBVIOUS
<1> HIDE DEF fs
<1> QED BY <1>1, <1>2, <1>3, <1>4, TellEffect, KeyKinds DEF Informed

LEMMA InformedFine ==
  ASSUME Typed, Fine, NEW own, Informed(own), UNCHANGED <<queryVars, mounted>>,
         \A k \in Keys : (k \in own => Own(k)') /\ (Own(k) => Own(k)')
  PROVE  Fine'
<1> SUFFICES ASSUME NEW k \in Keys, Wanted(k)' PROVE Good(k)'
  BY DEF Fine
<1>0. cache' = cache /\ fetch' = fetch /\ Observed' = Observed
  BY DEF queryVars, Observed
<1>1. CASE k \in own
  BY <1>1 DEF Good
<1>2. CASE Told(k)'
  BY <1>2 DEF Good
<1>3. CASE Unseen(k)
  BY <1>0, <1>3 DEF Good, Kept, Unseen
<1>4. CASE Same(k)
  <2>1. Listing(k)' = Listing(k) /\ Wanted(k)
    BY <1>4 DEF Same, Wanted, Informed
  <2>2. Told(k) => Told(k)'
    BY DEF Told, Informed
  <2>3. (Brought(k) => Brought(k)') /\ (Kept(k) => Kept(k)')
    BY <1>0, <2>1 DEF Brought, Kept
  <2> QED BY <2>1, <2>2, <2>3 DEF Fine, Good
<1> QED BY <1>1, <1>2, <1>3, <1>4 DEF Informed, Wanted

(* The open channel stays in view, or the tab is told, or it strays.        *)
LEMMA SeenStays ==
  ASSUME NEW a, Seen(a), activeCh' = activeCh, wire \subseteq wire',
         Sees(a) => Sees(a)', Home[a] \in member' => Home[a] \in member
  PROVE  Seen(a)'
BY DEF Seen, Closing

LEMMA ClosingTold ==
  ASSUME Typed, NEW a \in Channels, a = activeCh, Home[a] \in Workspaces, ~strayed',
         NEW fs, fs \in {{Frame("deleted", a, Home[a])},
                        {Frame("members", a, Home[a]), Frame("deleted", a, Home[a])}},
         TellOr(fs, FALSE)
  PROVE  \E g \in wire' : g.change = "deleted" /\ g.ch = a
<1>1. fs \in SUBSET Frames
  BY FramesMade
<1>2. PICK f \in fs : f.change = "deleted" /\ f.ch = a
  BY FramesMade
<1> QED BY <1>1, <1>2, TellEffect

LEMMA SeenKept ==
  ASSUME Typed, NEW w, NEW d, NEW b \in BOOLEAN,
         Request(w, d, b), activeCh' = activeCh, wire \subseteq wire', ~strayed',
         NEW a \in Channels, a = activeCh, a # None, a \in used, Seen(a)
  PROVE  Seen(a)'
<1>0. Places
  BY DEF Typed
<1>1. CASE w \in Workspaces /\ AddMember(w)
  <2>1. PICK u \in BOOLEAN : /\ u <=> Home[a] = w /\ a \notin exists \ Private
                             /\ TellOr({Frame("members", None, w)}, u)
    BY <1>1 DEF AddMember
  <2>2. {Frame("members", None, w)} \in SUBSET Frames
    BY <1>1, FramesMade
  <2>22. ~u
    BY <2>1, <2>2, TellEffect
  <2>3. CASE Home[a] = w
    BY <1>1, <2>1, <2>22, <2>3, KeyKinds DEF AddMember, Seen, Sees
  <2>4. CASE Home[a] # w
    BY <1>1, <2>4, SeenStays DEF AddMember, Sees
  <2> QED BY <2>3, <2>4
<1>2. CASE w \in Workspaces /\ (RemoveMember(w) \/ DeleteWorkspace(w, b))
  <2>1. CASE Home[a] = w
    BY <1>2, <2>1 DEF RemoveMember, DeleteWorkspace, Seen
  <2>2. CASE Home[a] # w
    BY <1>2, <2>2, SeenStays DEF RemoveMember, DeleteWorkspace, Sees, InWorkspace
  <2> QED BY <2>1, <2>2
<1>3. CASE w \in Workspaces /\ CreateWorkspace(w)
  <2>1. Home[a] # w
    BY <1>0, <1>3, KeyKinds DEF CreateWorkspace, Places
  <2> QED BY <1>3, <2>1, SeenStays DEF CreateWorkspace, Sees
<1>4. CASE d \in Channels /\ CreateRoom(d, b)
  BY <1>4, SeenStays DEF CreateRoom, Sees
<1>5. CASE d \in Channels /\ DeleteRoom(d)
  <2>1. CASE a = d /\ Sees(a)
    <3>1. Home[a] \in Workspaces
      BY <1>5, <2>1, KeyKinds DEF DeleteRoom
    <3>2. TellOr({Frame("deleted", a, Home[a])}, FALSE)
      BY <1>5, <2>1 DEF DeleteRoom, Tell
    <3>3. \E g \in wire' : g.change = "deleted" /\ g.ch = a
      BY <3>1, <3>2, ClosingTold
    <3> QED BY <3>3 DEF Seen, Closing
  <2>2. CASE a # d \/ ~Sees(a)
    BY <1>5, <2>2, SeenStays DEF DeleteRoom, Sees
  <2> QED BY <2>1, <2>2
<1>6. CASE d \in Channels /\ (AddToRoom(d) \/ OpenDm(d, b))
  BY <1>6, SeenStays DEF AddToRoom, OpenDm, Sees
<1>7. CASE d \in Channels /\ TakeFromRoom(d)
  <2>1. CASE a = d
    <3>1. Home[a] \in Workspaces
      BY <1>7, <2>1, KeyKinds DEF TakeFromRoom
    <3>2. TellOr({Frame("members", a, Home[a]), Frame("deleted", a, Home[a])}, FALSE)
      BY <1>7, <2>1 DEF TakeFromRoom, Tell
    <3>3. \E g \in wire' : g.change = "deleted" /\ g.ch = a
      BY <3>1, <3>2, ClosingTold
    <3> QED BY <3>3 DEF Seen, Closing
  <2>2. CASE a # d
    BY <1>7, <2>2, SeenStays DEF TakeFromRoom, Sees
  <2> QED BY <2>1, <2>2
<1> QED BY <1>1, <1>2, <1>3, <1>4, <1>5, <1>6, <1>7 DEF Request

LEMMA InsideKept ==
  ASSUME Typed, Inside, NEW w, NEW d, NEW b \in BOOLEAN,
         Request(w, d, b), NEW own, Informed(own), UNCHANGED <<activeWs, activeCh>>,
         strayed => strayed'
  PROVE  Inside'
<1> SUFFICES ASSUME ~strayed', activeCh # None
             PROVE  activeCh \in used' /\ Home[activeCh] \in {None, activeWs} /\ Seen(activeCh)'
  BY DEF Inside
<1>1. PICK a : a = activeCh
  OBVIOUS
<1>2. a \in Channels /\ a \in used /\ Home[a] \in {None, activeWs} /\ Seen(a)
  BY <1>1 DEF Inside, Typed, Store
<1>3. used \subseteq used'
  BY PlacesKept
<1>4. Seen(a)'
  BY <1>1, <1>2, SeenKept DEF Informed
<1> QED BY <1>1, <1>2, <1>3, <1>4

-----------------------------------------------------------------------------
(* Steps that leave the server alone.                                       *)
LEMMA ServerSame ==
  ASSUME UNCHANGED serverVars
  PROVE  /\ Places' <=> Places
         /\ \A k \in Keys : Listing(k)' = Listing(k)
         /\ used' = used /\ member' = member
         /\ \A c : Sees(c)' <=> Sees(c)
BY ListingSame DEF serverVars, Places, Sees

LEMMA InvalidateEffect ==
  ASSUME Queries, NEW ks \in SUBSET Keys, Invalidate(ks), missed \subseteq Keys
  PROVE  /\ cache' \in [Keys -> Entries] /\ fetch' \in [Keys -> Fetches]
         /\ missed \subseteq missed' /\ missed' \subseteq Keys
         /\ \A k \in Keys : /\ cache'[k].ids = cache[k].ids /\ cache'[k].known = cache[k].known
                            /\ cache'[k].ok = cache[k].ok /\ (cache'[k].stale <=> cache[k].stale \/ k \in ks)
                            /\ fetch'[k] = fetch[k] \/ (fetch'[k] = Sent /\ k \in Observed)
                            /\ k \notin ks => fetch'[k] = fetch[k]
                            /\ k \in ks => \/ k \in missed' \/ fetch'[k] = Sent
                                           \/ fetch'[k] = Idle /\ k \notin Observed
<1>1. \A k \in Keys : cache[k] \in Entries /\ fetch[k] \in Fetches
  BY DEF Queries
<1>2. cache' = [k \in Keys |-> [cache[k] EXCEPT !.stale = cache[k].stale \/ k \in ks]]
  BY DEF Invalidate
<1>3. ASSUME NEW k \in Keys
      PROVE  /\ [cache[k] EXCEPT !.stale = cache[k].stale \/ k \in ks] \in Entries
             /\ cache'[k].ids = cache[k].ids /\ cache'[k].known = cache[k].known
             /\ cache'[k].ok = cache[k].ok /\ (cache'[k].stale <=> cache[k].stale \/ k \in ks)
  <2>1. cache[k] \in Entries
    BY <1>1
  <2>2. cache'[k] = [cache[k] EXCEPT !.stale = cache[k].stale \/ k \in ks]
    BY <1>2
  <2>3. (cache[k].stale \/ k \in ks) \in BOOLEAN
    BY <2>1 DEF Entries
  <2> QED BY <2>1, <2>2 DEF Entries
<1>4. cache' \in [Keys -> Entries]
  BY <1>2, <1>3
<1>5. ASSUME NEW k \in Keys
      PROVE  /\ fetch'[k] \in Fetches
             /\ fetch'[k] = fetch[k] \/ (fetch'[k] = Sent /\ k \in Observed)
             /\ k \notin ks => fetch'[k] = fetch[k]
             /\ k \in ks => \/ k \in missed' \/ fetch'[k] = Sent
                            \/ fetch'[k] = Idle /\ k \notin Observed
  <2>1. fetch'[k] = IF k \in Refetched(ks) THEN Sent ELSE fetch[k]
    BY DEF Invalidate
  <2>2. CASE k \in Refetched(ks)
    BY <2>1, <2>2 DEF Refetched, Fetches
  <2>3. CASE k \notin Refetched(ks)
    <3>1. fetch'[k] = fetch[k] /\ fetch[k] \in Fetches
      BY <1>1, <2>1, <2>3
    <3>2. k \in ks => k \in missed' \/ fetch[k].at \notin {"read", "refused"}
      BY <2>3 DEF Invalidate
    <3>3. k \in ks /\ fetch[k] = Idle => k \notin Observed
      BY <2>3 DEF Refetched
    <3> QED BY <3>1, <3>2, <3>3, FetchKinds
  <2> QED BY <2>2, <2>3
<1>6. fetch' = [k \in Keys |-> IF k \in Refetched(ks) THEN Sent ELSE fetch[k]]
  BY DEF Invalidate
<1>7. fetch' \in [Keys -> Fetches]
  BY <1>5, <1>6
<1>8. missed \subseteq missed' /\ missed' \subseteq Keys
  BY DEF Invalidate
<1> QED BY <1>3, <1>4, <1>5, <1>7, <1>8

LEMMA InvalidateKeeps ==
  ASSUME Typed, Fine, RailOk, NEW ks \in SUBSET Keys, Invalidate(ks),
         UNCHANGED <<serverVars, mounted>>,
         \A k \in Keys \ ks : (Told(k) => Told(k)') /\ (Own(k) => Own(k)')
  PROVE  Queries' /\ Places' /\ Foreign' /\ Fine' /\ RailOk' /\ missed \subseteq missed' /\ missed' \subseteq Keys
<1>0. Queries /\ Places /\ missed \subseteq Keys
  BY DEF Typed, Store
<1>1. Observed' = Observed /\ mounted' = mounted
  BY DEF Observed
<1>2. /\ cache' \in [Keys -> Entries] /\ fetch' \in [Keys -> Fetches]
      /\ missed \subseteq missed' /\ missed' \subseteq Keys
  BY <1>0, InvalidateEffect
<1>3. ASSUME NEW k \in Keys
      PROVE  /\ cache'[k].ids = cache[k].ids /\ cache'[k].known = cache[k].known
             /\ cache'[k].ok = cache[k].ok /\ (cache'[k].stale <=> cache[k].stale \/ k \in ks)
             /\ fetch'[k] = fetch[k] \/ (fetch'[k] = Sent /\ k \in Observed)
             /\ k \notin ks => fetch'[k] = fetch[k]
             /\ k \in ks => \/ k \in missed' \/ fetch'[k] = Sent
                            \/ fetch'[k] = Idle /\ k \notin Observed
  BY <1>0, InvalidateEffect
<1>4. Places' /\ used' = used /\ member' = member /\ \A k \in Keys : Listing(k)' = Listing(k)
  BY <1>0, ServerSame
<1>5. Queries'
  <2>1. ASSUME NEW k \in Keys
        PROVE  /\ cache'[k].ids \subseteq Listable(k)
               /\ fetch'[k].at = "read" => fetch'[k].ids \subseteq Listable(k)
               /\ fetch'[k] = Turned => k \in Workspaces
    BY <1>0, <1>3 DEF Queries, Sent, Turned
  <2>2. cache'[Rail].known /\ cache'[Dms].known /\ cache'[Rail].ids \subseteq used'
    BY <1>0, <1>3, <1>4, KeyKinds DEF Queries
  <2>3. fetch'[Rail].at = "read" => fetch'[Rail].ids \subseteq used'
    BY <1>0, <1>3, <1>4, KeyKinds DEF Queries, Sent
  <2> QED BY <1>2, <2>1, <2>2, <2>3 DEF Queries, Listable
<1>6. Foreign'
  BY <1>1, <1>3, <1>4, KeyKinds DEF Typed, Foreign, Unseen
<1>7. RailOk'
  BY <1>2, <1>3, KeyKinds DEF RailOk, Sent
<1>8. ASSUME NEW k \in Keys, Wanted(k)' PROVE Good(k)'
  <2>1. k \notin missed' /\ k \notin missed /\ Wanted(k)
    BY <1>2, <1>4, <1>8 DEF Wanted
  <2>2. CASE k \in ks
    <3>1. CASE fetch'[k] = Sent
      BY <3>1 DEF Good, Brought
    <3>2. CASE fetch'[k] = Idle /\ k \notin Observed
      BY <1>1, <1>3, <2>2, <3>2 DEF Good, Kept
    <3> QED BY <1>3, <2>1, <2>2, <3>1, <3>2
  <2>3. CASE k \notin ks
    <3>1. Good(k)
      BY <2>1 DEF Fine
    <3>2. fetch'[k] = fetch[k] /\ Listing(k)' = Listing(k)
      BY <1>3, <1>4, <2>3
    <3>3. Brought(k) => Brought(k)'
      BY <3>2 DEF Brought
    <3>4. Kept(k) => Kept(k)'
      BY <1>1, <1>3, <3>2, <2>3 DEF Kept
    <3> QED BY <2>3, <3>1, <3>3, <3>4 DEF Good
  <2> QED BY <2>2, <2>3
<1> QED BY <1>2, <1>4, <1>5, <1>6, <1>7, <1>8 DEF Fine

(* The queries stay; what is no longer to come is known to be missed.       *)
LEMMA QueriesRest ==
  ASSUME Typed, Fine, RailOk, UNCHANGED <<serverVars, queryVars, mounted>>,
         missed \subseteq missed',
         \A k \in Keys : (Told(k) => Told(k)' \/ k \in missed') /\ (Own(k) => Own(k)' \/ k \in missed')
  PROVE  Queries' /\ Places' /\ Foreign' /\ Fine' /\ RailOk'
<1>0. Queries /\ Places /\ Foreign
  BY DEF Typed
<1>1. Observed' = Observed /\ cache' = cache /\ fetch' = fetch
  BY DEF Observed, queryVars
<1>2. Places' /\ used' = used /\ member' = member /\ \A k \in Keys : Listing(k)' = Listing(k)
  BY <1>0, ServerSame
<1>3. Queries' /\ Foreign' /\ RailOk'
  BY <1>0, <1>1, <1>2 DEF Queries, Listable, Foreign, Unseen, RailOk
<1>4. ASSUME NEW k \in Keys, Wanted(k)' PROVE Good(k)'
  <2>1. k \notin missed' /\ Good(k)
    BY <1>2, <1>4 DEF Wanted, Fine
  <2>2. (Brought(k) => Brought(k)') /\ (Kept(k) => Kept(k)')
    BY <1>1, <1>2 DEF Brought, Kept
  <2> QED BY <2>1, <2>2 DEF Good
<1> QED BY <1>2, <1>3, <1>4 DEF Fine

LEMMA InsideStays ==
  ASSUME Inside, UNCHANGED <<serverVars, activeWs, activeCh>>, strayed => strayed',
         Closing => Closing' \/ strayed'
  PROVE  Inside'
<1>1. used' = used /\ member' = member /\ \A c : Sees(c)' <=> Sees(c)
  BY ServerSame
<1>2. Sees(activeCh)' <=> Sees(activeCh)
  BY <1>1 DEF Sees
<1> QED BY <1>1, <1>2 DEF Inside, Seen

LEMMA OpenedInside ==
  ASSUME Places, UNCHANGED serverVars, NEW c, Opened(c, activeWs')
  PROVE  Inside'
<1>1. activeCh' = c
  BY DEF Opened
<1> SUFFICES ASSUME ~strayed', c # None
             PROVE  c \in used' /\ Home[c] \in {None, activeWs'} /\ Seen(c)'
  BY <1>1 DEF Inside
<1>2. Sees(c) /\ Home[c] \in {None, activeWs'}
  BY DEF Opened
<1>3. Sees(c)' /\ used' = used
  BY <1>2, ServerSame
<1>4. c \in used
  BY <1>2 DEF Sees, Places
<1> QED BY <1>2, <1>3, <1>4 DEF Seen

-----------------------------------------------------------------------------
(* Each step keeps the invariant.  First what the server does.              *)
LEMMA ServerKeeps ==
  ASSUME SidebarInv, NEW w, NEW c, NEW b \in BOOLEAN, Request(w, c, b), NEW own, Informed(own),
         strayed => strayed', ask' = NoAsk \/ Asked',
         UNCHANGED <<conn, queryVars, mounted, activeWs, activeCh>>,
         \A k \in Keys : (k \in own => Own(k)') /\ (Own(k) => Own(k)')
  PROVE  SidebarInv'
<1>0. Typed /\ Fine /\ RailOk /\ Inside
  BY DEF SidebarInv
<1>1. Places' /\ used \subseteq used'
  BY <1>0, PlacesKept
<1>2. Fine'
  BY <1>0, InformedFine
<1>3. Inside'
  BY <1>0, InsideKept
<1>4. cache' = cache /\ fetch' = fetch /\ mounted' = mounted /\ Observed' = Observed
  BY DEF queryVars, Observed
<1>5. Queries'
  BY <1>0, <1>1, <1>4 DEF Typed, Queries, Listable
<1>6. Link' /\ Store' /\ Foreign'
  BY <1>0, <1>1, <1>4 DEF Typed, Link, Store, Informed, Foreign, Unseen
<1>7. RailOk'
  BY <1>0, <1>4 DEF RailOk, Informed
<1> QED BY <1>1, <1>2, <1>3, <1>5, <1>6, <1>7 DEF SidebarInv, Typed

LEMMA RequestStrays ==
  ASSUME Typed, NEW w, NEW c, NEW b \in BOOLEAN, Request(w, c, b)
  PROVE  strayed => strayed'
<1>1. CASE w \in Workspaces /\ (AddMember(w) \/ RemoveMember(w))
  <2>1. {Frame("members", None, w)} \in SUBSET Frames
    BY <1>1, FramesMade
  <2> QED BY <1>1, <2>1, TellEffect DEF AddMember, RemoveMember, Tell, TellOr, Straying
<1>2. CASE w \in Workspaces /\ (CreateWorkspace(w) \/ DeleteWorkspace(w, b))
  BY <1>2 DEF CreateWorkspace, DeleteWorkspace, TellNobody
<1>3. CASE c \in Channels /\ (CreateRoom(c, b) \/ DeleteRoom(c) \/ AddToRoom(c) \/ TakeFromRoom(c) \/ OpenDm(c, b))
  BY <1>3 DEF CreateRoom, DeleteRoom, AddToRoom, TakeFromRoom, OpenDm, Tell, TellOr, Straying
<1> QED BY <1>1, <1>2, <1>3 DEF Request

LEMMA ElsewhereKeeps ==
  ASSUME SidebarInv, Elsewhere
  PROVE  SidebarInv'
<1>0. Typed
  BY DEF SidebarInv
<1>1. PICK w, c, b : b \in BOOLEAN /\ Request(w, c, b) /\ Informed({})
  <2>1. CASE \E w \in Workspaces : AddMember(w) \/ RemoveMember(w) \/ DeleteWorkspace(w, FALSE)
    <3>1. PICK w \in Workspaces : AddMember(w) \/ RemoveMember(w) \/ DeleteWorkspace(w, FALSE)
      BY <2>1
    <3>2. Request(w, None, FALSE)
      BY <3>1 DEF Request
    <3>3. Informed({})
      BY <1>0, <3>1, AddMemberInforms, RemoveMemberInforms, DeleteWorkspaceInforms
    <3> QED BY <3>2, <3>3
  <2>2. CASE \E c \in Channels : \/ \E b \in BOOLEAN : CreateRoom(c, b)
                                \/ DeleteRoom(c) \/ AddToRoom(c) \/ TakeFromRoom(c) \/ OpenDm(c, FALSE)
    <3>1. PICK c \in Channels, b \in BOOLEAN :
            \/ CreateRoom(c, b)
            \/ DeleteRoom(c) \/ AddToRoom(c) \/ TakeFromRoom(c) \/ OpenDm(c, FALSE)
      BY <2>2
    <3>2. Request(None, c, b) \/ Request(None, c, FALSE)
      BY <3>1 DEF Request
    <3>3. Informed({})
      BY <1>0, <3>1, CreateRoomInforms, DeleteRoomInforms, RoomMemberInforms, OpenDmInforms
    <3> QED BY <3>2, <3>3
  <2> QED BY <2>1, <2>2 DEF Elsewhere
<1>2. strayed => strayed'
  BY <1>0, <1>1, RequestStrays
<1>3. ask' = ask /\ UNCHANGED <<conn, queryVars, mounted, activeWs, activeCh>>
  BY DEF Elsewhere
<1>4. (ask' = NoAsk \/ Asked') /\ \A k \in Keys : Own(k) => Own(k)'
  BY <1>0, <1>3 DEF Typed, Store, Asked, Own
<1> QED BY <1>1, <1>2, <1>3, <1>4, ServerKeeps

LEMMA ServeKeeps ==
  ASSUME SidebarInv, Serve
  PROVE  SidebarInv'
<1>0. Typed
  BY DEF SidebarInv
<1>1. Asked /\ ask.at = "sent" /\ Did(ask.op, ask.on)
  BY <1>0 DEF Serve, Typed, Store, NoAsk
<1>2. PICK op, x : op = ask.op /\ x = ask.on
  OBVIOUS
<1>3. /\ ask' \in Asks /\ ask'.op = op /\ ask'.on = x /\ ask'.at = "served"
      /\ UNCHANGED <<conn, queryVars, mounted, activeWs, activeCh>>
  BY <1>1, <1>2 DEF Serve, Asked, Asks
<1>4. Asked'
  BY <1>1, <1>2, <1>3 DEF Asked, DirectMessages
<1>5. Did(op, x)
  BY <1>1, <1>2
<1>6. x \in Workspaces \cup Channels /\ (op \in OnWorkspace => x \in Workspaces)
      /\ (op \notin OnWorkspace => x \in Channels)
  BY <1>1, <1>2 DEF Asked, Asks, DirectMessages
<1> DEFINE own == IF op \in {"create", "destroy"} THEN {Rail} ELSE IF op = "dm" THEN {Dms} ELSE {}
<1>7. Request(x, x, TRUE) /\ Informed(own)
  <2>1. CASE op = "create" /\ CreateWorkspace(x)
    BY <1>0, <1>6, <2>1, CreateWorkspaceInforms DEF Request, OnWorkspace
  <2>2. CASE op = "join" /\ AddMember(x)
    BY <1>0, <1>6, <2>2, AddMemberInforms DEF Request, OnWorkspace
  <2>3. CASE op = "leave" /\ RemoveMember(x)
    BY <1>0, <1>6, <2>3, RemoveMemberInforms DEF Request, OnWorkspace
  <2>4. CASE op = "destroy" /\ DeleteWorkspace(x, TRUE)
    BY <1>0, <1>6, <2>4, DeleteWorkspaceInforms DEF Request, OnWorkspace
  <2>5. CASE op = "room" /\ CreateRoom(x, TRUE)
    BY <1>0, <1>6, <2>5, CreateRoomInforms DEF Request, OnWorkspace
  <2>6. CASE op = "close" /\ DeleteRoom(x)
    BY <1>0, <1>6, <2>6, DeleteRoomInforms DEF Request, OnWorkspace
  <2>7. CASE op = "quit" /\ TakeFromRoom(x)
    BY <1>0, <1>6, <2>7, RoomMemberInforms DEF Request, OnWorkspace
  <2>8. CASE op = "dm" /\ OpenDm(x, TRUE)
    BY <1>0, <1>6, <2>8, OpenDmInforms DEF Request, OnWorkspace
  <2> QED BY <1>5, <2>1, <2>2, <2>3, <2>4, <2>5, <2>6, <2>7, <2>8 DEF Did
<1>8. \A k \in Keys : (k \in own => Own(k)') /\ (Own(k) => Own(k)')
  BY <1>1, <1>3 DEF Own
<1> HIDE DEF own
<1>9. strayed => strayed'
  BY <1>0, <1>7, RequestStrays
<1> QED BY <1>3, <1>4, <1>7, <1>8, <1>9, ServerKeeps

(* Frames, and the connection.                                              *)
LEMMA PresenceKeeps ==
  ASSUME SidebarInv, PresenceFlips
  PROVE  SidebarInv'
<1>0. Typed /\ Fine /\ RailOk /\ Inside
  BY DEF SidebarInv
<1>1. Invalidate({Dms}) /\ {Dms} \in SUBSET Keys /\ UNCHANGED <<serverVars, linkVars, mounted, storeVars, ask>>
  BY KeyKinds DEF PresenceFlips
<1>2. \A k \in Keys : (Told(k) => Told(k)') /\ (Own(k) => Own(k)')
  BY <1>1 DEF linkVars, Told, Own
<1>3. Queries' /\ Places' /\ Foreign' /\ Fine' /\ RailOk' /\ missed' \subseteq Keys
  BY <1>0, <1>1, <1>2, InvalidateKeeps
<1>4. Inside'
  BY <1>0, <1>1, InsideStays DEF linkVars, storeVars, Closing
<1>5. Link' /\ Store'
  BY <1>0, <1>1, <1>3, ServerSame DEF linkVars, storeVars, Typed, Link, Store, Asked
<1> QED BY <1>3, <1>4, <1>5 DEF SidebarInv, Typed

LEMMA DeliverKeeps ==
  ASSUME SidebarInv, NEW f \in wire, OnFrame(f)
  PROVE  SidebarInv'
<1>0. Typed /\ Fine /\ RailOk /\ Inside /\ f \in Frames /\ Places
  BY DEF SidebarInv, Typed, Link
<1>1. /\ Invalidate(KeysOf(f)) /\ KeysOf(f) \in SUBSET Keys /\ wire' = wire \ {f}
      /\ UNCHANGED <<serverVars, conn, mounted, ask>>
  BY <1>0, FrameKeys DEF OnFrame
<1>2. \A k \in Keys \ KeysOf(f) : (Told(k) => Told(k)') /\ (Own(k) => Own(k)')
  BY <1>1 DEF Told, Own
<1>3. Queries' /\ Places' /\ Foreign' /\ Fine' /\ RailOk' /\ missed' \subseteq Keys
  BY <1>0, <1>1, <1>2, InvalidateKeeps
<1>4. CASE f.change = "deleted" /\ f.ch = activeCh
  <2>1. Opened(None, activeWs) /\ activeWs' = activeWs
    BY <1>4 DEF OnFrame, SetActiveChannel
  <2>2. Inside'
    BY <2>1 DEF Opened, Inside
  <2>3. Link' /\ Store'
    BY <1>0, <1>1, <1>3, <2>1, ServerSame DEF Opened, Typed, Link, Store, Asked
  <2> QED BY <1>3, <2>2, <2>3 DEF SidebarInv, Typed
<1>5. CASE ~(f.change = "deleted" /\ f.ch = activeCh)
  <2>1. UNCHANGED storeVars
    BY <1>5 DEF OnFrame
  <2>2. Closing => Closing'
    BY <1>1, <1>5, <2>1 DEF storeVars, Closing
  <2>3. Inside'
    BY <1>0, <1>1, <2>1, <2>2, InsideStays DEF storeVars
  <2>4. Link' /\ Store'
    BY <1>0, <1>1, <1>3, <2>1, ServerSame DEF storeVars, Typed, Link, Store, Asked
  <2> QED BY <1>3, <2>3, <2>4 DEF SidebarInv, Typed
<1> QED BY <1>4, <1>5

LEMMA LostKeeps ==
  ASSUME SidebarInv, NEW fs \in SUBSET wire, wire' = wire \ fs, conn' \in BOOLEAN,
         missed' = Missing(fs), strayed' = Straying(fs),
         UNCHANGED <<serverVars, queryVars, mounted, activeWs, activeCh, ask>>
  PROVE  SidebarInv'
<1>0. Typed /\ Fine /\ RailOk /\ Inside /\ fs \subseteq Frames /\ Places
  BY DEF SidebarInv, Typed, Link
<1>1. missed \subseteq missed' /\ missed' \subseteq Keys
  BY <1>0, FrameKeys DEF Missing, Typed, Store
<1>2. \A f \in fs : KeysOf(f) \subseteq missed'
  BY DEF Missing
<1>3. \A k \in Keys : (Told(k) => Told(k)' \/ k \in missed') /\ (Own(k) => Own(k)' \/ k \in missed')
  BY <1>2 DEF Told, Own
<1>4. Queries' /\ Places' /\ Foreign' /\ Fine' /\ RailOk'
  BY <1>0, <1>1, <1>3, QueriesRest
<1>5. (strayed => strayed') /\ (Closing => Closing' \/ strayed')
  BY DEF Straying, Closing
<1>6. Inside'
  BY <1>0, <1>5, InsideStays
<1>7. strayed' \in BOOLEAN
  BY <1>0 DEF Straying, Typed, Store
<1>8. Link' /\ Store'
  BY <1>0, <1>1, <1>7, ServerSame DEF Typed, Link, Store, Asked
<1> QED BY <1>4, <1>6, <1>8 DEF SidebarInv, Typed

LEMMA PublishLostKeeps ==
  ASSUME SidebarInv, NEW f \in wire, PublishLost(f)
  PROVE  SidebarInv'
<1>1. conn' \in BOOLEAN
  BY DEF SidebarInv, Typed, Link, PublishLost
<1> QED BY <1>1, LostKeeps DEF PublishLost

LEMMA DropKeeps ==
  ASSUME SidebarInv, Drop
  PROVE  SidebarInv'
<1>1. wire' = wire \ wire /\ conn' \in BOOLEAN
  BY DEF Drop
<1> QED BY <1>1, LostKeeps DEF Drop

(* A step of the store alone.                                               *)
LEMMA StoreKeeps ==
  ASSUME SidebarInv, UNCHANGED <<serverVars, wire, queryVars, mounted>>, conn' \in BOOLEAN,
         missed \subseteq missed', missed' \subseteq Keys,
         activeWs' \in Workspaces \cup {None}, activeCh' \in Channels \cup {None}, strayed' \in BOOLEAN,
         ask' = NoAsk \/ Asked', \A k \in Keys : Own(k) => Own(k)' \/ k \in missed', Inside'
  PROVE  SidebarInv'
<1>0. Typed /\ Fine /\ RailOk /\ Places
  BY DEF SidebarInv, Typed
<1>1. \A k \in Keys : Told(k) => Told(k)'
  BY DEF Told
<1>2. Queries' /\ Places' /\ Foreign' /\ Fine' /\ RailOk'
  BY <1>0, <1>1, QueriesRest
<1>3. Link' /\ Store'
  BY <1>0, ServerSame DEF Typed, Link, Store
<1> QED BY <1>2, <1>3 DEF SidebarInv, Typed

LEMMA AskStays ==
  ASSUME Typed, ask' = ask
  PROVE  (ask' = NoAsk \/ Asked') /\ \A k \in Keys : Own(k) => Own(k)'
BY DEF Typed, Store, Asked, Own

LEMMA ConnectKeeps ==
  ASSUME SidebarInv, Connect
  PROVE  SidebarInv'
<1>0. Typed /\ Inside
  BY DEF SidebarInv
<1>1. Inside'
  BY <1>0, InsideStays DEF Connect, storeVars, Closing
<1> QED BY <1>0, <1>1, AskStays, StoreKeeps DEF Connect, storeVars, Typed, Store

(* Requests for a list.                                                     *)
LEMMA QueryStep ==
  ASSUME SidebarInv, UNCHANGED <<serverVars, linkVars, storeVars, ask>>,
         mounted' \in (Workspaces \cap used) \cup {None},
         missed' \subseteq Keys, Queries', Foreign', RailOk',
         \A q \in Keys : Wanted(q)' => \/ Brought(q)' \/ Kept(q)' \/ Told(q) \/ Own(q)
                                      \/ /\ Good(q) /\ fetch'[q] = fetch[q] /\ Kept(q) = Kept(q)'
  PROVE  SidebarInv'
<1>0. Typed /\ Fine /\ RailOk /\ Inside /\ Places
  BY DEF SidebarInv, Typed
<1>1. Places' /\ used' = used /\ \A k \in Keys : Listing(k)' = Listing(k)
  BY <1>0, ServerSame
<1>2. ASSUME NEW k \in Keys, Wanted(k)' PROVE Good(k)'
  <2>1. CASE Brought(k)' \/ Kept(k)'
    BY <2>1 DEF Good
  <2>2. (Told(k) => Told(k)') /\ (Own(k) => Own(k)')
    BY DEF linkVars, Told, Own
  <2>3. CASE Good(k) /\ fetch'[k] = fetch[k] /\ Kept(k) = Kept(k)'
    <3>1. Brought(k) => Brought(k)'
      BY <1>1, <2>3 DEF Brought
    <3> QED BY <2>2, <2>3, <3>1 DEF Good
  <2> QED BY <1>2, <2>1, <2>2, <2>3 DEF Good
<1>3. Inside'
  BY <1>0, InsideStays DEF linkVars, storeVars, Closing
<1>4. Link' /\ Store'
  BY <1>0, <1>1 DEF linkVars, storeVars, Typed, Link, Store, Asked
<1> QED BY <1>1, <1>2, <1>3, <1>4 DEF SidebarInv, Typed, Fine

(* A request for the list q goes on from x, and its cached answer from y.   *)
LEMMA OneQuery ==
  ASSUME Typed, NEW k \in Keys, NEW x \in Fetches, NEW y \in Entries, fetch[k] # Idle,
         fetch' = [fetch EXCEPT ![k] = x], cache' = [cache EXCEPT ![k] = y],
         UNCHANGED <<serverVars, mounted>>,
         y.ids \subseteq Listable(k), x.at = "read" => x.ids \subseteq Listable(k),
         x = Turned => k \in Workspaces, cache[k].known => y.known,
         k = Rail => y.ids \subseteq used /\ (x.at = "read" => x.ids \subseteq used)
  PROVE  /\ Queries' /\ Foreign' /\ fetch'[k] = x /\ cache'[k] = y /\ Observed' = Observed
         /\ \A q \in Keys \ {k} : /\ fetch'[q] = fetch[q] /\ cache'[q] = cache[q]
                                  /\ Kept(q) = Kept(q)'
<1>0. Queries /\ Foreign
  BY DEF Typed
<1>1. Observed' = Observed /\ used' = used
  BY DEF Observed, serverVars
<1>2. fetch'[k] = x /\ cache'[k] = y
  BY <1>0 DEF Queries
<1>3. \A q \in Keys \ {k} : fetch'[q] = fetch[q] /\ cache'[q] = cache[q]
  BY <1>0 DEF Queries
<1>4. \A q \in Keys \ {k} : Kept(q) = Kept(q)'
  BY <1>1, <1>3, ListingSame DEF Kept
<1>5. cache' \in [Keys -> Entries] /\ fetch' \in [Keys -> Fetches]
  BY <1>0 DEF Queries
<1>6. \A q \in Keys : /\ cache'[q].ids \subseteq Listable(q)
                      /\ fetch'[q].at = "read" => fetch'[q].ids \subseteq Listable(q)
                      /\ fetch'[q] = Turned => q \in Workspaces
  BY <1>0, <1>2, <1>3 DEF Queries
<1>7. cache'[Rail].known /\ cache'[Dms].known
  BY <1>0, <1>2, <1>3, KeyKinds DEF Queries
<1>8. cache'[Rail].ids \subseteq used' /\ (fetch'[Rail].at = "read" => fetch'[Rail].ids \subseteq used')
  BY <1>0, <1>1, <1>2, <1>3, KeyKinds DEF Queries
<1>9. Queries'
  BY <1>5, <1>6, <1>7, <1>8 DEF Queries, Listable
<1>10. Foreign'
  BY <1>0, <1>1, <1>3, KeyKinds DEF Foreign, Unseen
<1> QED BY <1>1, <1>2, <1>3, <1>4, <1>9, <1>10

LEMMA ReadKeeps ==
  ASSUME SidebarInv, NEW k \in Keys, Read(k)
  PROVE  SidebarInv'
<1>0. Typed /\ Fine /\ RailOk /\ Queries /\ Places /\ Store
  BY DEF SidebarInv, Typed
<1>1. /\ UNCHANGED <<serverVars, linkVars, storeVars, ask, mounted>> /\ cache' = cache
      /\ fetch[k] = Sent
  BY DEF Read
<1> DEFINE x == IF k \in Workspaces \ member THEN Turned ELSE [at |-> "read", ids |-> Listing(k)]
<1>2. Listing(k) \subseteq Listable(k) /\ (k = Rail => Listing(k) \subseteq used)
      /\ Listable(k) \subseteq Workspaces \cup Channels
  BY <1>0, ListingKind DEF Listable
<1>3. fetch' = [fetch EXCEPT ![k] = x] /\ x \in Fetches
  BY <1>2 DEF Read, Turned, Fetches
<1>4. /\ x.at = "read" => x.ids = Listing(k)
      /\ x = Turned => k \in Workspaces \ member
      /\ k \notin Workspaces \ member => x.at = "read"
  BY DEF Turned
<1> HIDE DEF x
<1>5. cache[k] \in Entries /\ cache' = [cache EXCEPT ![k] = cache[k]] /\ cache[k].ids \subseteq Listable(k)
      /\ (k = Rail => cache[k].ids \subseteq used) /\ fetch[k] # Idle
  BY <1>0, <1>1 DEF Queries, Idle, Sent
<1>6. /\ Queries' /\ Foreign' /\ fetch'[k] = x /\ cache'[k] = cache[k]
      /\ \A q \in Keys \ {k} : fetch'[q] = fetch[q] /\ cache'[q] = cache[q] /\ Kept(q) = Kept(q)'
  BY <1>0, <1>1, <1>2, <1>3, <1>4, <1>5, OneQuery, ZenonT(30)
<1>7. missed' \subseteq missed /\ missed \subseteq missed' \cup {k}
  BY DEF Read
<1>8. RailOk'
  BY <1>0, <1>4, <1>6, <1>7, KeyKinds DEF RailOk
<1>9. ASSUME NEW q \in Keys, Wanted(q)'
      PROVE  \/ Brought(q)'
             \/ /\ Good(q) /\ fetch'[q] = fetch[q] /\ Kept(q) = Kept(q)'
  <2>1. CASE q = k
    <3>1. k \notin Workspaces \ member /\ Listing(k)' = Listing(k)
      BY <1>1, <1>9, <2>1, ServerSame DEF Wanted
    <3>2. Brought(k)'
      BY <1>4, <1>6, <3>1 DEF Brought
    <3> QED BY <2>1, <3>2
  <2>2. CASE q # k
    <3>1. Wanted(q)
      BY <1>1, <1>7, <1>9, <2>2, ServerSame DEF Wanted
    <3> QED BY <1>0, <1>6, <2>2, <3>1 DEF Fine
  <2> QED BY <2>1, <2>2
<1>10. missed' \subseteq Keys /\ mounted' \in (Workspaces \cap used) \cup {None}
  BY <1>0, <1>1, <1>7 DEF Store
<1> QED BY <1>1, <1>6, <1>8, <1>9, <1>10, QueryStep

LEMMA FailKeeps ==
  ASSUME SidebarInv, NEW k \in Keys, fetch[k] # Idle, Fail(k), missed \subseteq missed', missed' \subseteq Keys,
         k \in missed' \/ fetch[k] = Turned
  PROVE  SidebarInv'
<1>0. Typed /\ Fine /\ RailOk /\ Queries /\ Store
  BY DEF SidebarInv, Typed
<1>1. /\ UNCHANGED <<serverVars, linkVars, storeVars, ask, mounted>>
      /\ fetch' = [fetch EXCEPT ![k] = Idle]
  BY DEF Fail
<1> DEFINE y == [cache[k] EXCEPT !.ok = FALSE, !.stale = TRUE]
<1>2. cache' = [cache EXCEPT ![k] = y]
  BY DEF Fail
<1>3. cache[k] \in Entries
  BY <1>0 DEF Queries
<1>4. y \in Entries /\ y.ids = cache[k].ids /\ y.known = cache[k].known /\ y.stale = TRUE
  BY <1>3 DEF Entries
<1> HIDE DEF y
<1>5. cache[k].ids \subseteq Listable(k) /\ (k = Rail => cache[k].ids \subseteq used)
      /\ (fetch[k] = Turned => k \in Workspaces)
  BY <1>0 DEF Queries
<1>6. Idle \in Fetches /\ Idle.at = "idle" /\ Idle # Turned
  BY DEF Fetches, Idle, Turned
<1>7. /\ Queries' /\ Foreign' /\ fetch'[k] = Idle /\ cache'[k] = y
      /\ \A q \in Keys \ {k} : fetch'[q] = fetch[q] /\ cache'[q] = cache[q] /\ Kept(q) = Kept(q)'
  BY <1>0, <1>1, <1>2, <1>4, <1>5, <1>6, OneQuery
<1>8. RailOk'
  BY <1>0, <1>5, <1>7, KeyKinds DEF RailOk
<1>9. ASSUME NEW q \in Keys, Wanted(q)'
      PROVE  \/ Told(q) \/ Own(q)
             \/ /\ Good(q) /\ fetch'[q] = fetch[q] /\ Kept(q) = Kept(q)'
  <2>1. CASE q = k
    <3>1. fetch[k] = Turned /\ Wanted(k)
      BY <1>1, <1>9, <2>1, ServerSame DEF Wanted
    <3>2. Good(k) /\ ~Brought(k) /\ ~Kept(k)
      BY <1>0, <3>1 DEF Fine, Brought, Kept, Turned, Sent, Idle
    <3> QED BY <2>1, <3>2 DEF Good
  <2>2. CASE q # k
    <3>1. Wanted(q)
      BY <1>1, <1>9, <2>2, ServerSame DEF Wanted
    <3> QED BY <1>0, <1>7, <2>2, <3>1 DEF Fine
  <2> QED BY <2>1, <2>2
<1>10. mounted' \in (Workspaces \cap used) \cup {None}
  BY <1>0, <1>1 DEF Store
<1> QED BY <1>1, <1>7, <1>8, <1>9, <1>10, QueryStep

LEMMA RefusedKeeps ==
  ASSUME SidebarInv, NEW k \in Keys, Refused(k)
  PROVE  SidebarInv'
<1>1. missed' = missed /\ missed \subseteq Keys /\ fetch[k] \in Fetches
  BY DEF Refused, SidebarInv, Typed, Store, Queries
<1>2. fetch[k] = Turned /\ fetch[k] # Idle
  BY <1>1, FetchKinds DEF Refused, Turned, Idle
<1> QED BY <1>1, <1>2, FailKeeps DEF Refused

LEMMA FailedKeeps ==
  ASSUME SidebarInv, NEW k \in Keys, Failed(k)
  PROVE  SidebarInv'
<1>1. missed' = missed \cup {k} /\ missed \subseteq Keys
  BY DEF Failed, SidebarInv, Typed, Store
<1>2. fetch[k] # Idle
  BY DEF Failed, Sent, Idle
<1> QED BY <1>1, <1>2, FailKeeps DEF Failed

LEMMA AnsweredKeeps ==
  ASSUME SidebarInv, NEW k \in Keys, Answered(k)
  PROVE  SidebarInv'
<1>0. Typed /\ Fine /\ RailOk /\ Queries /\ Store
  BY DEF SidebarInv, Typed
<1>1. /\ UNCHANGED <<serverVars, linkVars, storeVars, ask, mounted, missed>>
      /\ fetch' = [fetch EXCEPT ![k] = Idle] /\ fetch[k].at = "read"
  BY DEF Answered
<1> DEFINE y == [known |-> TRUE, ok |-> TRUE, stale |-> FALSE, ids |-> fetch[k].ids]
<1>2. cache' = [cache EXCEPT ![k] = y]
  BY DEF Answered
<1>3. fetch[k] \in Fetches /\ fetch[k] # Idle /\ fetch[k] # Sent
  BY <1>0, <1>1 DEF Queries, Idle, Sent
<1>4. fetch[k].ids \subseteq Listable(k) /\ fetch[k].ids \subseteq Workspaces \cup Channels
      /\ (k = Rail => fetch[k].ids \subseteq used)
  BY <1>0, <1>1 DEF Queries, Listable
<1>5. y \in Entries /\ y.ids = fetch[k].ids /\ y.known = TRUE /\ y.ok = TRUE
  BY <1>4 DEF Entries
<1> HIDE DEF y
<1>6. Idle \in Fetches /\ Idle.at = "idle" /\ Idle # Turned
  BY DEF Fetches, Idle, Turned
<1>7. /\ Queries' /\ Foreign' /\ fetch'[k] = Idle /\ cache'[k] = y
      /\ \A q \in Keys \ {k} : fetch'[q] = fetch[q] /\ cache'[q] = cache[q] /\ Kept(q) = Kept(q)'
  BY <1>0, <1>1, <1>2, <1>3, <1>4, <1>5, <1>6, OneQuery, ZenonT(30)
<1>8. RailOk'
  BY <1>0, <1>1, <1>5, <1>7, KeyKinds DEF RailOk
<1>9. ASSUME NEW q \in Keys, Wanted(q)'
      PROVE  \/ Kept(q)' \/ Told(q) \/ Own(q)
             \/ /\ Good(q) /\ fetch'[q] = fetch[q] /\ Kept(q) = Kept(q)'
  <2>1. Wanted(q)
    BY <1>1, <1>9, ServerSame DEF Wanted
  <2>2. CASE q = k
    <3>1. Good(k) /\ ~Kept(k) /\ Listing(k)' = Listing(k)
      BY <1>0, <1>1, <1>3, <2>1, <2>2, ServerSame DEF Fine, Kept
    <3>2. Brought(k) => Kept(k)'
      BY <1>3, <1>5, <1>7, <3>1 DEF Brought, Kept
    <3> QED BY <2>2, <3>1, <3>2 DEF Good
  <2>3. CASE q # k
    BY <1>0, <1>7, <2>1, <2>3 DEF Fine
  <2> QED BY <2>2, <2>3
<1>10. missed' \subseteq Keys /\ mounted' \in (Workspaces \cap used) \cup {None}
  BY <1>0, <1>1 DEF Store
<1> QED BY <1>1, <1>7, <1>8, <1>9, <1>10, QueryStep

LEMMA ViewKind ==
  ASSUME Typed
  PROVE  /\ InView \in (Workspaces \cap used) \cup {None}
         /\ InView # None => InView \in Workspaces /\ InView \in Keys /\ cache[InView].ids \subseteq Channels
         /\ cache[Dms].ids \subseteq Channels /\ cache[Rail].ids \subseteq Workspaces
<1>1. cache[Rail].ids \subseteq Workspaces /\ cache[Rail].ids \subseteq used /\ cache[Dms].ids \subseteq Channels
  BY KeyKinds DEF Typed, Queries, Listable
<1>2. InView \in (Workspaces \cap used) \cup {None}
  BY <1>1 DEF InView
<1> QED BY <1>1, <1>2, KeyKinds DEF Typed, Queries, Listable

LEMMA MountKeeps ==
  ASSUME SidebarInv, Mount
  PROVE  SidebarInv'
<1>0. Typed /\ Fine /\ RailOk /\ Queries /\ Store /\ Foreign
  BY DEF SidebarInv, Typed
<1>1. /\ UNCHANGED <<serverVars, linkVars, storeVars, ask, missed>> /\ cache' = cache
      /\ mounted' = InView
  BY DEF Mount
<1>2. PICK v : v = InView
  OBVIOUS
<1>3. mounted' = v /\ v \in (Workspaces \cap used) \cup {None} /\ Observed' = {Rail, Dms, v}
  BY <1>0, <1>1, <1>2, ViewKind DEF Observed
<1>4. PICK old \in BOOLEAN :
        fetch' = [k \in Keys |-> IF k = v /\ fetch[k] = Idle /\ (~cache[k].known \/ cache[k].stale \/ old)
                                 THEN Sent ELSE fetch[k]]
  BY <1>2 DEF Mount
<1>5. \A k \in Keys : /\ fetch'[k] = fetch[k] \/ fetch'[k] = Sent
                      /\ k # v => fetch'[k] = fetch[k]
                      /\ fetch'[k] = Idle => fetch[k] = Idle
                      /\ fetch'[k] = Idle /\ k = v => cache[k].known /\ ~cache[k].stale
  BY <1>4 DEF Sent, Idle
<1>6. fetch' \in [Keys -> Fetches]
  BY <1>0, <1>4 DEF Queries, Fetches
<1>7. Queries'
  <2>1. ASSUME NEW k \in Keys
        PROVE  /\ fetch'[k].at = "read" => fetch'[k].ids \subseteq Listable(k)
               /\ fetch'[k] = Turned => k \in Workspaces
    BY <1>0, <1>5 DEF Queries, Sent, Turned
  <2>2. fetch'[Rail].at = "read" => fetch'[Rail].ids \subseteq used'
    BY <1>0, <1>1, <1>5, KeyKinds DEF Queries, Sent, serverVars
  <2> QED BY <1>0, <1>1, <1>6, <2>1, <2>2 DEF Queries, Listable, serverVars
<1>8. Foreign'
  BY <1>0, <1>1, <1>3, <1>5, KeyKinds DEF Foreign, Unseen, serverVars
<1>9. RailOk'
  BY <1>0, <1>1, <1>5, KeyKinds DEF RailOk
<1>10. ASSUME NEW k \in Keys, Wanted(k)' PROVE Brought(k)' \/ Kept(k)' \/ Told(k) \/ Own(k)
  <2>1. Good(k) /\ Listing(k)' = Listing(k)
    BY <1>0, <1>1, <1>10, ServerSame DEF Wanted, Fine
  <2>2. CASE fetch'[k] = Sent
    BY <2>2 DEF Brought
  <2>3. CASE fetch'[k] = fetch[k] /\ Brought(k)
    BY <2>1, <2>3 DEF Brought
  <2>4. CASE fetch'[k] = fetch[k] /\ Kept(k)
    <3>1. fetch'[k] = Idle
      BY <2>4 DEF Kept
    <3>2. CASE cache[k].ids = Listing(k)
      BY <1>1, <2>1, <3>1, <3>2 DEF Kept
    <3>3. CASE k \notin Observed /\ (cache[k].stale \/ ~cache[k].known)
      BY <1>1, <1>3, <1>5, <3>1, <3>3 DEF Kept, Observed
    <3> QED BY <2>4, <3>2, <3>3 DEF Kept
  <2> QED BY <1>5, <2>1, <2>2, <2>3, <2>4 DEF Good
<1> QED BY <1>0, <1>1, <1>3, <1>7, <1>8, <1>9, <1>10, QueryStep DEF Store

(* The store and the user.                                                  *)
LEMMA ClosedInside ==
  ASSUME activeCh' = None PROVE Inside'
BY DEF Inside

LEMMA ActiveWorkspaceKeeps ==
  ASSUME SidebarInv, NEW w \in Workspaces \cup {None}, SetActiveWorkspace(w),
         UNCHANGED <<serverVars, linkVars, queryVars, mounted, ask, missed>>
  PROVE  SidebarInv'
<1>0. Typed
  BY DEF SidebarInv
<1>1. Inside'
  BY ClosedInside DEF SetActiveWorkspace
<1> QED BY <1>0, <1>1, AskStays, StoreKeeps DEF SetActiveWorkspace, linkVars, Typed, Link, Store

LEMMA ActiveChannelKeeps ==
  ASSUME SidebarInv, NEW c \in Channels \cup {None}, Opened(c, activeWs'),
         activeWs' \in Workspaces \cup {None},
         UNCHANGED <<serverVars, linkVars, queryVars, mounted, ask, missed>>
  PROVE  SidebarInv'
<1>0. Typed /\ Places
  BY DEF SidebarInv, Typed
<1>1. Inside'
  BY <1>0, OpenedInside
<1>2. activeCh' = c /\ strayed' \in BOOLEAN
  BY DEF Opened
<1> QED BY <1>0, <1>1, <1>2, AskStays, StoreKeeps DEF linkVars, Typed, Link, Store

LEMMA PickWorkspaceKeeps ==
  ASSUME SidebarInv, PickWorkspace
  PROVE  SidebarInv'
<1>1. PICK w \in Workspaces \cup {None} : SetActiveWorkspace(w)
  BY ViewKind DEF PickWorkspace, SidebarInv
<1> QED BY <1>1, ActiveWorkspaceKeeps DEF PickWorkspace

LEMMA PickChannelKeeps ==
  ASSUME SidebarInv, PickChannel
  PROVE  SidebarInv'
<1>1. PICK c \in cache[InView].ids : SetActiveChannel(c)
  BY DEF PickChannel
<1>2. c \in Channels
  BY <1>1, ViewKind DEF PickChannel, NoneOpen, SidebarInv
<1>3. Opened(c, activeWs') /\ activeWs' \in Workspaces \cup {None}
  BY <1>1 DEF SetActiveChannel, Opened, SidebarInv, Typed, Store
<1> QED BY <1>2, <1>3, ActiveChannelKeeps DEF PickChannel

LEMMA ClickKeeps ==
  ASSUME SidebarInv,
         \/ \E w \in Workspaces : SelectWorkspace(w)
         \/ \E c \in Channels : SelectChannel(c) \/ OpenNotification(c)
  PROVE  SidebarInv'
<1>1. CASE \E w \in Workspaces : SelectWorkspace(w)
  BY <1>1, ActiveWorkspaceKeeps DEF SelectWorkspace, Click
<1>2. CASE \E c \in Channels : SelectChannel(c) \/ OpenNotification(c)
  <2>1. PICK c \in Channels : SelectChannel(c) \/ OpenNotification(c)
    BY <1>2
  <2>2. UNCHANGED <<serverVars, linkVars, queryVars, mounted, ask, missed>>
    BY <2>1 DEF SelectChannel, OpenNotification, Click
  <2>3. Opened(c, activeWs') /\ activeWs' \in Workspaces \cup {None}
    BY <2>1, KeyKinds DEF SelectChannel, OpenNotification, SetActiveChannel, OpenIn, Opened,
                          SidebarInv, Typed, Store
  <2> QED BY <2>2, <2>3, ActiveChannelKeeps
<1> QED BY <1>1, <1>2

(* The tab's own requests.                                                  *)
LEMMA AskingKeeps ==
  ASSUME SidebarInv, Asking
  PROVE  SidebarInv'
<1>0. Typed /\ Inside
  BY DEF SidebarInv
<1>1. PICK op \in OnWorkspace \cup OnRoom \cup {"dm"}, x \in Workspaces \cup Channels :
        /\ Ask(op, x) /\ (op \in OnWorkspace => x \in Workspaces)
        /\ op \in OnRoom => x \in Channels /\ Home[x] \in Workspaces
        /\ op = "dm" => x \in DirectMessages
  <2>1. CASE \E w \in Workspaces : Ask("create", w) \/ Ask("join", w)
    BY <2>1 DEF OnWorkspace, OnRoom
  <2>2. CASE LeaveOrDestroy
    BY <1>0, <2>2, ViewKind DEF LeaveOrDestroy, OnWorkspace, OnRoom
  <2>3. CASE CreateChannelModal
    BY <1>0, <2>3, ViewKind DEF CreateChannelModal, InWorkspace, OnWorkspace, OnRoom
  <2>4. CASE ChannelSettings
    BY <1>0, <2>4, ViewKind DEF ChannelSettings, Listed, OnWorkspace, OnRoom
  <2>5. CASE NewDmModal
    BY <2>5 DEF NewDmModal, DirectMessages, OnWorkspace, OnRoom
  <2> QED BY <2>1, <2>2, <2>3, <2>4, <2>5 DEF Asking, CreateWorkspaceModal, JoinWorkspaceModal
<1>2. /\ UNCHANGED <<serverVars, linkVars, queryVars, mounted, storeVars, missed>>
      /\ ask = NoAsk /\ ask' = [at |-> "sent", op |-> op, on |-> x]
  BY <1>1 DEF Ask
<1>3. Asked'
  BY <1>1, <1>2 DEF Asked, Asks, DirectMessages
<1>4. \A k \in Keys : ~Own(k)
  BY <1>2 DEF Own, NoAsk
<1>5. Inside'
  BY <1>0, <1>2, InsideStays DEF linkVars, storeVars, Closing
<1> QED BY <1>0, <1>2, <1>3, <1>4, <1>5, StoreKeeps DEF linkVars, storeVars, Typed, Link, Store

LEMMA AskRefusedKeeps ==
  ASSUME SidebarInv, AskRefused
  PROVE  SidebarInv'
<1>0. Typed /\ Inside
  BY DEF SidebarInv
<1>1. ask' = NoAsk /\ UNCHANGED <<serverVars, linkVars, queryVars, mounted, storeVars, missed>>
  BY DEF AskRefused
<1>2. \A k \in Keys : ~Own(k)
  BY DEF AskRefused, Own
<1>3. Inside'
  BY <1>0, <1>1, InsideStays DEF linkVars, storeVars, Closing
<1> QED BY <1>0, <1>1, <1>2, <1>3, StoreKeeps DEF linkVars, storeVars, Typed, Link, Store

LEMMA AnswerLostKeeps ==
  ASSUME SidebarInv, AnswerLost
  PROVE  SidebarInv'
<1>0. Typed /\ Inside /\ Asked
  BY DEF SidebarInv, AnswerLost, Typed, Store, NoAsk
<1>1. ask' = NoAsk /\ UNCHANGED <<serverVars, linkVars, queryVars, mounted, storeVars>>
  BY DEF AnswerLost
<1>2. /\ missed \subseteq missed' /\ missed' \subseteq missed \cup {Rail, Dms} \cup (Keys \cap {ask.on})
      /\ \A k \in Keys : Own(k) => k \in missed'
  <2>1. CASE ask.op \in {"create", "destroy"}
    <3>1. ask.on \in Keys
      BY <1>0, <2>1, KeyKinds DEF Asked, OnWorkspace
    <3>2. missed' = missed \cup {Rail, ask.on}
      BY <2>1 DEF AnswerLost
    <3> QED BY <2>1, <3>1, <3>2 DEF Own
  <2>2. CASE ask.op = "dm"
    BY <2>2 DEF AnswerLost, Own
  <2>3. CASE ask.op \notin {"create", "destroy", "dm"}
    BY <2>3 DEF AnswerLost, Own
  <2> QED BY <2>1, <2>2, <2>3
<1>3. missed' \subseteq Keys
  BY <1>0, <1>2, KeyKinds DEF Typed, Store
<1>4. Inside'
  BY <1>0, <1>1, InsideStays DEF linkVars, storeVars, Closing
<1> QED BY <1>0, <1>1, <1>2, <1>3, <1>4, StoreKeeps DEF linkVars, storeVars, Typed, Link, Store

LEMMA AskAnsweredKeeps ==
  ASSUME SidebarInv, AskAnswered
  PROVE  SidebarInv'
<1>0. Typed /\ Fine /\ RailOk /\ Inside /\ Places /\ Link /\ Store /\ Asked
  BY DEF SidebarInv, AskAnswered, Typed, Store, NoAsk
<1>1. PICK op, x : op = ask.op /\ x = ask.on
  OBVIOUS
<1>2. /\ op \in OnWorkspace \cup OnRoom \cup {"dm"}
      /\ op \in OnWorkspace => x \in Workspaces
      /\ op \in OnRoom => x \in Channels /\ Home[x] \in Workspaces
      /\ op = "dm" => x \in Channels
  BY <1>0, <1>1 DEF Asked, Asks, DirectMessages
<1>3. ask' = NoAsk /\ UNCHANGED <<serverVars, linkVars, mounted>>
  BY DEF AskAnswered
<1>4. PICK ks \in SUBSET Keys : Invalidate(ks) /\ \A k \in Keys : Own(k) => k \in ks
  <2>1. CASE op \in OnWorkspace
    BY <1>1, <2>1, KeyKinds DEF AskAnswered, Own, OnWorkspace
  <2>2. CASE op \in OnRoom
    BY <1>1, <1>2, <2>2, KeyKinds DEF AskAnswered, Own, OnRoom
  <2>3. CASE op = "dm"
    BY <1>1, <2>3, KeyKinds DEF AskAnswered, Own
  <2> QED BY <1>2, <2>1, <2>2, <2>3
<1>5. \A k \in Keys \ ks : (Told(k) => Told(k)') /\ (Own(k) => Own(k)')
  BY <1>3, <1>4 DEF Told, linkVars
<1>6. Queries' /\ Places' /\ Foreign' /\ Fine' /\ RailOk' /\ missed' \subseteq Keys
  BY <1>0, <1>3, <1>4, <1>5, InvalidateKeeps
<1>7. Inside' /\ activeWs' \in Workspaces \cup {None} /\ activeCh' \in Channels \cup {None}
      /\ strayed' \in BOOLEAN
  <2>1. CASE \E w \in Workspaces \cup {None} : SetActiveWorkspace(w)
    BY <2>1, ClosedInside DEF SetActiveWorkspace
  <2>2. CASE \E c \in Channels \cup {None} : SetActiveChannel(c)
    <3>1. PICK c \in Channels \cup {None} : SetActiveChannel(c)
      BY <2>2
    <3>2. Opened(c, activeWs') /\ activeWs' = activeWs
      BY <3>1 DEF SetActiveChannel
    <3>3. Inside'
      BY <1>0, <1>3, <3>2, OpenedInside
    <3> QED BY <1>0, <3>2, <3>3 DEF Opened, Store
  <2>3. CASE UNCHANGED storeVars
    <3>1. Inside'
      BY <1>0, <1>3, <2>3, InsideStays DEF linkVars, storeVars, Closing
    <3> QED BY <1>0, <2>3, <3>1 DEF storeVars, Store
  <2>4. CASE op \in OnWorkspace
    BY <1>1, <1>2, <2>1, <2>4 DEF AskAnswered, OnWorkspace
  <2>5. CASE op \in OnRoom
    BY <1>1, <1>2, <2>2, <2>3, <2>5 DEF AskAnswered, OnRoom
  <2>6. CASE op = "dm"
    BY <1>1, <1>2, <2>2, <2>6 DEF AskAnswered
  <2> QED BY <1>2, <2>4, <2>5, <2>6
<1>8. Link' /\ Store'
  BY <1>0, <1>3, <1>6, <1>7, ServerSame DEF linkVars, Link, Store
<1> QED BY <1>6, <1>7, <1>8 DEF SidebarInv, Typed

-----------------------------------------------------------------------------
LEMMA SidebarStarts == SidebarInit => SidebarInv
<1> SUFFICES ASSUME SidebarInit PROVE SidebarInv
  OBVIOUS
<1>1. Places
  BY PrivateAreChannels, KeyKinds DEF SidebarInit, Places
<1>2. \A k \in Keys : Listing(k) \subseteq Listable(k) /\ (k = Rail => Listing(k) \subseteq used)
  BY <1>1, ListingKind
<1>3. \A k \in Keys : /\ k \in Workspaces => cache[k] = Unknown
                      /\ k \notin Workspaces =>
                           cache[k] = [known |-> TRUE, ok |-> TRUE, stale |-> FALSE, ids |-> Listing(k)]
                      /\ fetch[k] = Idle
  BY DEF SidebarInit
<1>4. Unknown \in Entries /\ Unknown.ids = {} /\ Unknown.known = FALSE /\ Idle \in Fetches
      /\ Idle.at = "idle" /\ Idle # Turned
  BY DEF Unknown, Entries, Idle, Fetches, Turned
<1>5. \A k \in Keys : /\ cache[k] \in Entries
                      /\ k \notin Workspaces => cache[k].ids = Listing(k) /\ cache[k].known /\ cache[k].ok
                      /\ k \in Workspaces => cache[k].ids = {} /\ ~cache[k].known
  <2> SUFFICES ASSUME NEW k \in Keys
               PROVE  /\ cache[k] \in Entries
                      /\ k \notin Workspaces => cache[k].ids = Listing(k) /\ cache[k].known /\ cache[k].ok
                      /\ k \in Workspaces => cache[k].ids = {} /\ ~cache[k].known
    OBVIOUS
  <2>1. CASE k \in Workspaces
    BY <1>3, <1>4, <2>1
  <2>2. CASE k \notin Workspaces
    <3>1. cache[k] = [known |-> TRUE, ok |-> TRUE, stale |-> FALSE, ids |-> Listing(k)]
      BY <1>3, <2>2
    <3>2. Listing(k) \in SUBSET (Workspaces \cup Channels)
      BY <1>2 DEF Listable
    <3> QED BY <2>2, <3>1, <3>2 DEF Entries
  <2> QED BY <2>1, <2>2
<1>6. cache \in [Keys -> Entries] /\ fetch \in [Keys -> Fetches]
  BY <1>3, <1>4, <1>5 DEF SidebarInit
<1>7. Queries
  BY <1>2, <1>3, <1>4, <1>5, <1>6, KeyKinds DEF Queries
<1>8. mounted = None /\ Observed = {Rail, Dms, None}
  BY DEF SidebarInit, Observed
<1>9. Foreign
  BY <1>3, <1>5, <1>8, KeyKinds DEF Foreign, Unseen
<1>10. Link /\ Store
  BY <1>1 DEF SidebarInit, Link, Store, Places
<1>11. Fine
  BY <1>3, <1>5, <1>8, KeyKinds DEF Fine, Good, Kept, Keys
<1>12. RailOk /\ Inside
  BY <1>5, KeyKinds DEF SidebarInit, RailOk, Inside
<1> QED BY <1>1, <1>7, <1>9, <1>10, <1>11, <1>12 DEF SidebarInv, Typed

LEMMA SidebarSteps == SidebarInv /\ [SidebarNext]_sidebarVars => SidebarInv'
<1> SUFFICES ASSUME SidebarInv, [SidebarNext]_sidebarVars PROVE SidebarInv'
  OBVIOUS
<1>1. CASE Elsewhere \/ Serve
  BY <1>1, ElsewhereKeeps, ServeKeeps
<1>2. CASE PresenceFlips \/ Connect \/ Drop
  BY <1>2, PresenceKeeps, ConnectKeeps, DropKeeps
<1>3. CASE \E f \in wire : OnFrame(f) \/ PublishLost(f)
  BY <1>3, DeliverKeeps, PublishLostKeeps
<1>4. CASE \E k \in Keys : Read(k) \/ Refused(k) \/ Failed(k) \/ Answered(k)
  BY <1>4, ReadKeeps, RefusedKeeps, FailedKeeps, AnsweredKeeps
<1>5. CASE Effects
  BY <1>5, MountKeeps, PickWorkspaceKeeps, PickChannelKeeps DEF Effects
<1>6. CASE (\E w \in Workspaces : SelectWorkspace(w))
           \/ (\E c \in Channels : SelectChannel(c) \/ OpenNotification(c))
  BY <1>6, ClickKeeps
<1>7. CASE Asking \/ AskRefused \/ AskAnswered \/ AnswerLost
  BY <1>7, AskingKeeps, AskRefusedKeeps, AskAnsweredKeeps, AnswerLostKeeps
<1>8. CASE UNCHANGED sidebarVars
  <2>1. UNCHANGED <<serverVars, linkVars, storeVars, ask, queryVars, mounted, missed>>
    BY <1>8 DEF sidebarVars
  <2>2. Typed /\ Inside
    BY DEF SidebarInv
  <2>3. Inside'
    BY <2>1, <2>2, InsideStays DEF linkVars, storeVars, Closing
  <2> QED BY <2>1, <2>2, <2>3, AskStays, StoreKeeps DEF linkVars, storeVars, Typed, Link, Store
<1> QED BY <1>1, <1>2, <1>3, <1>4, <1>5, <1>6, <1>7, <1>8 DEF SidebarNext

LEMMA SidebarHolds == SidebarSpec => []SidebarInv
<1> QED BY SidebarStarts, SidebarSteps, PTL DEF SidebarSpec

(* The types of the tab's lists, fetches, requests and what is open; and,   *)
(* with them, that no channel exists outside the ids ever given.            *)
THEOREM SidebarTyped == SidebarSpec => []SidebarTypeOK
<1>1. SidebarInv => SidebarTypeOK
  <2> SUFFICES ASSUME SidebarInv PROVE SidebarTypeOK
    OBVIOUS
  <2>1. Queries /\ Places /\ Link /\ Store
    BY DEF SidebarInv, Typed
  <2>2. \A k \in Keys : cache[k].ids \subseteq Workspaces \cup Channels
    BY <2>1 DEF Queries, Entries
  <2>3. \A k \in Keys : fetch[k].at \in {"idle", "sent", "read", "refused"}
    BY <2>1, FetchKinds DEF Queries
  <2>4. ask.at \in {"idle", "sent", "served"}
    BY <2>1 DEF Store, Asked, Asks, NoAsk
  <2> QED BY <2>1, <2>2, <2>3, <2>4 DEF SidebarTypeOK, Places, Link, Store
<1> QED BY <1>1, SidebarHolds, PTL

(* SidebarRight: when the tab is connected and nothing is under way, each   *)
(* list the shell observes (lib/queries.ts) is the one the API would answer;*)
(* but for changes that no push or answer could bring.                      *)
THEOREM ListsAreRight == SidebarSpec => []SidebarRight
<1>1. SidebarInv => SidebarRight
  <2> SUFFICES ASSUME SidebarInv, Settled, NEW k \in (Observed \cap Keys) \ Excused
               PROVE  cache[k].ids = Listing(k)
    BY DEF SidebarRight
  <2>1. Fine /\ Typed /\ Places /\ Store /\ Queries
    BY DEF SidebarInv, Typed
  <2>2. wire = {} /\ ask = NoAsk /\ (\A q \in Keys : fetch[q] = Idle) /\ mounted = InView
    BY DEF Settled, Stale
  <2>3. \A q \in Keys : ~Told(q) /\ ~Own(q) /\ ~Brought(q)
    BY <2>2 DEF Told, Own, NoAsk, Brought, Idle, Sent
  <2>4. \A q \in Observed \cap Keys : Wanted(q) => cache[q].ids = Listing(q)
    BY <2>1, <2>3 DEF Fine, Good, Kept
  <2>5. Wanted(k)
    <3> SUFFICES ASSUME k \in Workspaces \ member PROVE FALSE
      BY DEF Excused, Wanted
    <3>1. Rail \notin missed
      BY DEF Excused
    <3>2. cache[Rail].ids = member
      BY <2>4, <3>1, KeyKinds DEF Wanted, Observed, Listing
    <3>3. k = mounted /\ mounted \in cache[Rail].ids
      BY <2>2, KeyKinds DEF Observed, InView
    <3> QED BY <3>2, <3>3
  <2> QED BY <2>4, <2>5
<1> QED BY <1>1, SidebarHolds, PTL

(* OpenIsVisible: the open channel is then one the user can see, in the open*)
(* workspace: the frames that close it and the effect of Shell.tsx that     *)
(* leaves a lost workspace leave no gap between them.                       *)
THEOREM OpenChannelIsSeen == SidebarSpec => []OpenIsVisible
<1>1. SidebarInv => OpenIsVisible
  <2> SUFFICES ASSUME SidebarInv, Settled, missed = {}, ~strayed, activeCh # None
               PROVE  Sees(activeCh) /\ Home[activeCh] \in {None, activeWs}
    BY DEF OpenIsVisible
  <2>1. Fine /\ RailOk /\ Typed /\ Store /\ Inside
    BY DEF SidebarInv, Typed
  <2>2. wire = {} /\ ask = NoAsk /\ (\A q \in Keys : fetch[q] = Idle) /\ ~Astray
    BY DEF Settled
  <2>3. Home[activeCh] \in {None, activeWs} /\ Seen(activeCh)
    BY <2>1 DEF Inside
  <2>4. ~Closing
    BY <2>2 DEF Closing
  <2>5. Home[activeCh] \notin Workspaces \ member
    <3> SUFFICES ASSUME Home[activeCh] \in Workspaces \ member PROVE FALSE
      OBVIOUS
    <3>1. activeWs \in Workspaces \ member /\ activeWs # None
      BY <2>3, KeyKinds
    <3>2. Kept(Rail)
      BY <2>1, <2>2, KeyKinds DEF Fine, Good, Wanted, Told, Own, NoAsk, Brought, Idle, Sent
    <3>3. cache[Rail].ids = member
      BY <3>2, KeyKinds DEF Kept, Observed, Listing
    <3>4. cache[Rail].ok
      BY <2>1, <2>2, KeyKinds DEF RailOk, Idle, Sent
    <3> QED BY <2>2, <3>1, <3>3, <3>4 DEF Astray
  <2> QED BY <2>3, <2>4, <2>5 DEF Seen
<1> QED BY <1>1, SidebarHolds, PTL
=============================================================================
