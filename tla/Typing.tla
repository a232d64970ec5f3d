------------------------------- MODULE Typing -------------------------------
(***************************************************************************)
(* "X is typing" in one channel: the composer of X's tabs, the token       *)
(* bucket every frame of a socket must pass, the timer the server keeps    *)
(* for each socket, the broadcasts, and the indicator on another screen.   *)
(*                                                                         *)
(* Time is in seconds; frames and broadcasts take less than one, and what  *)
(* is due in a second happens before the next begins.                      *)
(***************************************************************************)
EXTENDS Naturals, Sequences

CONSTANTS
  Tabs,       \* sockets of X, subscribed to the channel
  Timeout,    \* TYPING_TIMEOUT_MS
  Throttle,   \* the composer announces at most once in this time
  Net,        \* after this the other screen drops an entry by itself
  BucketMax, Refill,
  MaxTime, MaxFaults

ASSUME TypingAssumption ==
  /\ {Timeout, Throttle, Net, BucketMax, Refill, MaxTime} \subseteq Nat \ {0}
  /\ MaxFaults \in Nat
  /\ Throttle < Timeout /\ Timeout < Net

VARIABLES
  now,
  open,       \* is the tab's socket open
  announced,  \* lastTypingAt: 0 for never or long ago, else the time since, + 1
  pipe,       \* frames of the tab on their way
  tokens,     \* ws.tokens
  timer,      \* what is left of the tab's typing timer; Off, or 0 when due
  bus,        \* TYPING_UPDATE broadcasts on their way to the other screen
  until,      \* typing[channel][X].until of the other screen, as time left
  faults,
  accepted,   \* history: frames of the tab that passed the bucket
  idle,       \* history: time since a TYPING_START was last handled
  age,        \* history: time since the tab's typing was announced
  hidden      \* history: was another tab's stop, or a loss, published since

Off == Timeout + 1
clock == <<now, announced>>
server == <<tokens, timer, accepted, idle, age, hidden>>
screen == <<bus, until>>
vars == <<clock, open, pipe, server, screen, faults>>

Capped(n, cap) == IF n < cap THEN n ELSE cap

Init ==
  /\ now = 0
  /\ open = [t \in Tabs |-> TRUE] /\ announced = [t \in Tabs |-> 0]
  /\ pipe = [t \in Tabs |-> <<>>]
  /\ tokens = [t \in Tabs |-> BucketMax] /\ timer = [t \in Tabs |-> Off]
  /\ bus = <<>> /\ until = 0 /\ faults = 0
  /\ accepted = [t \in Tabs |-> 0] /\ idle = Net + 1
  /\ age = [t \in Tabs |-> 0] /\ hidden = [t \in Tabs |-> FALSE]

-----------------------------------------------------------------------------
(* The composer.                                                            *)

Send(t, frame) == pipe' = [pipe EXCEPT ![t] = Append(@, frame)]

(* A key, with text in the box: at most one TYPING_START per Throttle.      *)
Key(t) ==
  /\ open[t] /\ pipe[t] = <<>> /\ announced[t] = 0
  /\ announced' = [announced EXCEPT ![t] = 1]
  /\ Send(t, "start")
  /\ UNCHANGED <<now, open, server, screen, faults>>

(* The box is emptied, or sent: TYPING_STOP.                                *)
Empty(t) ==
  /\ open[t] /\ pipe[t] = <<>>
  /\ announced' = [announced EXCEPT ![t] = 0]
  /\ Send(t, "stop")
  /\ UNCHANGED <<now, open, server, screen, faults>>

(* Any other frame; it only counts against the bucket here.                 *)
Other(t) ==
  /\ open[t] /\ pipe[t] = <<>>
  /\ Send(t, "other")
  /\ UNCHANGED <<clock, open, server, screen, faults>>

-----------------------------------------------------------------------------
(* The server.                                                              *)

(* publish: broadcastToChannel, without X; Redis may not take it.           *)
Publish(t, isTyping) ==
  \/ /\ bus' = Append(bus, isTyping)
     /\ hidden' = [u \in Tabs |-> IF isTyping THEN hidden[u] /\ u # t ELSE hidden[u] \/ u # t]
     /\ UNCHANGED faults
  \/ /\ faults < MaxFaults /\ faults' = faults + 1
     /\ hidden' = [u \in Tabs |-> TRUE]
     /\ UNCHANGED bus

TypingStart(t) ==
  /\ timer' = [timer EXCEPT ![t] = Timeout]
  /\ idle' = 0
  /\ IF timer[t] = Off THEN Publish(t, TRUE) /\ age' = [age EXCEPT ![t] = 0]
                       ELSE UNCHANGED <<bus, hidden, faults, age>>

(* Mutant: the stop of a socket leaves its timer's entry in the map.        *)
TypingStopKept(t) ==
  /\ IF timer[t] = Off THEN UNCHANGED <<timer, bus, hidden, faults>>
                       ELSE Publish(t, FALSE) /\ UNCHANGED timer
  /\ UNCHANGED <<idle, age>>

(* Mutant: the timer is cleared and the stop is not published.              *)
TypingStopSilent(t) ==
  /\ timer' = [timer EXCEPT ![t] = Off]
  /\ UNCHANGED <<idle, age, bus, hidden, faults>>

TypingStop(t) ==
  /\ IF timer[t] = Off THEN UNCHANGED <<timer, bus, hidden, faults>>
                       ELSE timer' = [timer EXCEPT ![t] = Off] /\ Publish(t, FALSE)
  /\ UNCHANGED <<idle, age>>

(* Mutant: a frame is refused only when the bucket is below empty.          *)
AllowAtZero(t) == tokens[t] >= 0

(* allow: is there a token for this frame.                                  *)
Allow(t) == tokens[t] >= 1

(* handleRawMessage: refuse the frame, or take a token and dispatch it.     *)
Handle(t) ==
  /\ pipe[t] # <<>>
  /\ pipe' = [pipe EXCEPT ![t] = Tail(@)]
  /\ IF Allow(t) THEN /\ tokens' = [tokens EXCEPT ![t] = IF @ = 0 THEN 0 ELSE @ - 1]
                      /\ accepted' = [accepted EXCEPT ![t] = @ + 1]
                 ELSE UNCHANGED <<tokens, accepted>>
  /\ CASE Allow(t) /\ open[t] /\ Head(pipe[t]) = "start" -> TypingStart(t)
       [] Allow(t) /\ Head(pipe[t]) = "stop" -> TypingStop(t)
       [] OTHER -> UNCHANGED <<timer, idle, age, hidden, bus, faults>>
  /\ UNCHANGED <<clock, open, until>>

(* Auto-timeout: no TYPING_START for Timeout.                               *)
Expire(t) ==
  /\ timer[t] = 0
  /\ timer' = [timer EXCEPT ![t] = Off]
  /\ Publish(t, FALSE)
  /\ UNCHANGED <<clock, open, pipe, tokens, accepted, idle, age, until>>

(* onClose: clearTypingFor, then the socket is subscribed to nothing.       *)
Close(t) ==
  /\ open[t]
  /\ open' = [open EXCEPT ![t] = FALSE]
  /\ TypingStop(t)
  /\ UNCHANGED <<clock, pipe, tokens, accepted, until>>

-----------------------------------------------------------------------------
(* The other screen: setTyping, and the indicator's own clock.              *)

Show ==
  /\ bus # <<>>
  /\ bus' = Tail(bus)
  /\ until' = IF Head(bus) THEN Net ELSE 0
  /\ UNCHANGED <<clock, open, pipe, server, faults>>

Refilled(t) == Capped(tokens[t] + Refill, BucketMax)

(* A second passes.                                                         *)
Tick ==
  /\ now < MaxTime /\ bus = <<>> /\ \A t \in Tabs : pipe[t] = <<>> /\ timer[t] # 0
  /\ now' = now + 1
  /\ announced' = [t \in Tabs |-> IF announced[t] \in {0, Throttle} THEN 0 ELSE announced[t] + 1]
  /\ tokens' = [t \in Tabs |-> Refilled(t)]
  /\ timer' = [t \in Tabs |-> IF timer[t] = Off THEN Off ELSE timer[t] - 1]
  /\ until' = IF until = 0 THEN 0 ELSE until - 1
  /\ idle' = Capped(idle + 1, Net + 1)
  /\ age' = [t \in Tabs |-> Capped(age[t] + 1, Net)]
  /\ UNCHANGED <<open, pipe, bus, faults, accepted, hidden>>

Next ==
  \/ Show \/ Tick
  \/ \E t \in Tabs : Key(t) \/ Empty(t) \/ Other(t) \/ Handle(t) \/ Expire(t) \/ Close(t)

Spec == Init /\ [][Next]_vars

-----------------------------------------------------------------------------
(* Properties.                                                              *)

(* Type invariant.                                                          *)
TypeOK ==
  /\ now \in 0..MaxTime /\ faults \in 0..MaxFaults
  /\ open \in [Tabs -> BOOLEAN] /\ announced \in [Tabs -> 0..Throttle]
  /\ pipe \in [Tabs -> Seq({"start", "stop", "other"})]
  /\ tokens \in [Tabs -> 0..BucketMax] /\ timer \in [Tabs -> 0..Off]
  /\ bus \in Seq(BOOLEAN) /\ until \in 0..Net
  /\ accepted \in [Tabs -> Nat] /\ idle \in 0..(Net + 1)
  /\ age \in [Tabs -> 0..Net] /\ hidden \in [Tabs -> BOOLEAN]

(* "~20 frames/sec sustained, bursts up to 40": however the frames are      *)
(* spread, a socket never gets more than the burst and what was refilled.   *)
AtMostBurst == \A t \in Tabs : accepted[t] <= BucketMax + Refill * now

(* "X is typing" never outlives X's last keystrokes: without a lost         *)
(* broadcast it is gone Timeout after the last TYPING_START, even when the  *)
(* TYPING_STOP is refused by the bucket or the socket closes; with a lost   *)
(* one it is gone after Net.                                                *)
GoneInTime == until > 0 => idle <= (IF faults = 0 THEN Timeout ELSE Net)

(* While X types it is shown, unless the stop of another tab or a loss hid  *)
(* it, or it was announced longer than Net ago.                             *)
ShownAtFirst ==
  \A t \in Tabs : timer[t] # Off /\ bus = <<>> /\ ~hidden[t] /\ age[t] < Net => until > 0

(* useAppStore.ts: "6s is a safety net".  Violated: repeated TYPING_STARTs  *)
(* only extend the server's timer, so the net drops whoever types longer.   *)
ShownWhileTyping ==
  \A t \in Tabs : timer[t] # Off /\ bus = <<>> /\ ~hidden[t] => until > 0
=============================================================================
