-------------------------- MODULE GatewayUplink_proofs --------------------------
(***************************************************************************)
(* Theorems about GatewayUplink, for any number of senders and uplinks:    *)
(* types, lost wakeups, crashes, and the order of the uplinks.             *)
(***************************************************************************)
EXTENDS GatewayUplink, TLAPS

\* The actions of the handlers, which touch no uplink but those Setup discards.
Handlers == AddGateway \/ StopRunning \/ HandlerGoesOn

USE DEF bufferVars, senderVars

\* A step is one of the actions.
LEMMA NextCases ==
  ASSUME [Next]_vars
  PROVE  \/ Push
         \/ \E s \in Sender : \/ PopWaits(s) \/ PopTakes(s) \/ CheckStops(s)
                              \/ CheckGoesOn(s) \/ Send(s)
         \/ ReceiverStep \/ Handlers
         \/ UNCHANGED vars
  BY DEF Next, SenderStep, Handlers

----------------------------------------------------------------------------
(* Types. *)

\* What Pop leaves of the buffer and hands out.
LEMMA TakeType ==
  ASSUME TypeOK, NEW s \in Sender, Take(s)
  PROVE  /\ uplinks' \in Seq(Uplink)
         /\ hand' \in [Sender -> Uplink \cup {NoUplink}]
<1>1. uplinks \in Seq(Uplink) /\ hand \in [Sender -> Uplink \cup {NoUplink}]
  BY DEF TypeOK
<1>2. CASE uplinks = <<>>
  BY <1>1, <1>2 DEF Take
<1>3. CASE uplinks # <<>>
  <2>1. Head(uplinks) \in Uplink /\ Tail(uplinks) \in Seq(Uplink)
    BY <1>1, <1>3
  <2> QED
    BY <1>1, <1>3, <2>1 DEF Take
<1> QED
  BY <1>2, <1>3

LEMMA EmptyBuffer == <<>> \in Seq(Uplink)
  OBVIOUS

\* Buffer, hands and histories hold uplinks, and every goroutine is somewhere.
THEOREM TypeCorrect == Spec => []TypeOK
<1>1. Init => TypeOK
  <2> SUFFICES ASSUME Init PROVE TypeOK
    OBVIOUS
  <2>1. next \in 1 .. MaxUplinks + 1
    BY GatewayUplinkAssumption DEF Init
  <2>2. stage \in [Sender -> SenderStage] /\ hand \in [Sender -> Uplink \cup {NoUplink}]
    BY DEF Init, SenderStage
  <2> QED
    BY <2>1, <2>2, EmptyBuffer DEF Init, TypeOK, HandlerStage
<1>2. TypeOK /\ [Next]_vars => TypeOK'
  <2> SUFFICES ASSUME TypeOK, [Next]_vars PROVE TypeOK'
    OBVIOUS
  <2> USE DEF TypeOK
  <2>1. CASE Push
    <3>1. next \in Uplink /\ next + 1 \in 1 .. MaxUplinks + 1
      BY <2>1, GatewayUplinkAssumption DEF Push, Uplink
    <3>2. uplinks' \in Seq(Uplink)
      BY <2>1, <3>1 DEF Push, Queued
    <3>3. stage' \in [Sender -> SenderStage] /\ crashed' \in BOOLEAN
      BY <2>1 DEF Push, Broadcast, SenderStage
    <3> QED
      BY <2>1, <3>1, <3>2, <3>3 DEF Push
  <2>2. ASSUME NEW s \in Sender, PopWaits(s)
        PROVE  TypeOK'
    BY <2>2 DEF PopWaits, SenderStage
  <2>3. ASSUME NEW s \in Sender, PopTakes(s)
        PROVE  TypeOK'
    <3>1. stage' \in [Sender -> SenderStage]
      BY <2>3 DEF PopTakes, SenderStage
    <3> QED
      BY <2>3, <3>1, TakeType DEF PopTakes
  <2>4. ASSUME NEW s \in Sender, CheckStops(s) \/ CheckGoesOn(s)
        PROVE  TypeOK'
    BY <2>4 DEF CheckStops, CheckGoesOn, SenderStage
  <2>5. ASSUME NEW s \in Sender, Send(s)
        PROVE  TypeOK'
    <3>1. sent' \in Seq(Uplink) /\ empty' \in BOOLEAN
      <4>1. hand[s] # NoUplink => Append(sent, hand[s]) \in Seq(Uplink)
        OBVIOUS
      <4> QED
        BY <2>5, <4>1 DEF Send
    <3>2. stage' \in [Sender -> SenderStage]
      BY <2>5 DEF Send, SenderStage
    <3>3. hand' \in [Sender -> Uplink \cup {NoUplink}]
      BY <2>5 DEF Send
    <3> QED
      BY <2>5, <3>1, <3>2, <3>3 DEF Send
  <2>6. CASE ReceiverStep
    BY <2>6 DEF ReceiverStep, Loop, Handle, ReadPacket, ReadError, ReceiverTurns
  <2>7. CASE Handlers
    <3>1. CASE SetupBuffer
      BY <3>1, EmptyBuffer DEF SetupBuffer, SenderStage, HandlerStage
    <3>2. CASE StartGoroutines
      BY <3>2 DEF StartGoroutines, SenderStage, HandlerStage
    <3>3. CASE Signal
      BY <3>3 DEF Signal, Broadcast, SenderStage, HandlerStage
    <3>4. CASE \/ AddGateway \/ StopRunning \/ SetupNotify \/ StartRunning
               \/ CloseConnection \/ ReceiverIsDone
      <4>1. CASE AddGateway
        BY <4>1 DEF AddGateway, HandlerStage
      <4>2. CASE StopRunning
        BY <4>2 DEF StopRunning, HandlerStage
      <4>3. CASE SetupNotify
        BY <4>3 DEF SetupNotify, HandlerStage
      <4>4. CASE StartRunning
        BY <4>4 DEF StartRunning, HandlerStage
      <4>5. CASE CloseConnection
        BY <4>5 DEF CloseConnection, HandlerStage
      <4>6. CASE ReceiverIsDone
        BY <4>6 DEF ReceiverIsDone, HandlerStage
      <4> QED
        BY <3>4, <4>1, <4>2, <4>3, <4>4, <4>5, <4>6
    <3> QED
      BY <2>7, <3>1, <3>2, <3>3, <3>4 DEF Handlers, HandlerGoesOn
  <2>8. CASE UNCHANGED vars
    BY <2>8 DEF vars
  <2> QED
    BY <2>1, <2>2, <2>3, <2>4, <2>5, <2>6, <2>7, <2>8, NextCases
<1> QED
  BY <1>1, <1>2, PTL DEF Spec

----------------------------------------------------------------------------
(* No lost wakeup: Push wakes the senders for the first uplink, and nobody *)
(* waits on a buffer that holds one.                                        *)

\* No sender sleeps while the buffer holds uplinks, although Push tells nobody
\* about the second one.
THEOREM NoLostWakeup == Spec => []NoSleepOnUplinks
<1>1. Init => NoSleepOnUplinks
  BY DEF Init, NoSleepOnUplinks
<1>2. NoSleepOnUplinks /\ TypeOK /\ [Next]_vars => NoSleepOnUplinks'
  <2> SUFFICES ASSUME NoSleepOnUplinks, TypeOK, [Next]_vars PROVE NoSleepOnUplinks'
    OBVIOUS
  <2> USE DEF NoSleepOnUplinks, TypeOK
  <2>1. CASE Push
    <3>1. CASE Wakes
      BY <2>1, <3>1 DEF Push, Broadcast
    <3>2. CASE ~Wakes
      <4>1. uplinks # <<>>
        BY <3>2 DEF Wakes
      <4> QED
        BY <2>1, <3>2, <4>1 DEF Push
    <3> QED
      BY <3>1, <3>2
  <2>2. ASSUME NEW s \in Sender, PopWaits(s)
        PROVE  NoSleepOnUplinks'
    BY <2>2 DEF PopWaits
  <2>3. ASSUME NEW s \in Sender, PopTakes(s)
        PROVE  NoSleepOnUplinks'
    <3>1. uplinks = <<>> => uplinks' = <<>>
      BY <2>3 DEF PopTakes, Take
    <3>2. \A t \in Sender : stage'[t] = "wait" => stage[t] = "wait"
      BY <2>3 DEF PopTakes
    <3> QED
      BY <3>1, <3>2
  <2>4. ASSUME NEW s \in Sender, CheckStops(s) \/ CheckGoesOn(s) \/ Send(s)
        PROVE  NoSleepOnUplinks'
    BY <2>4 DEF CheckStops, CheckGoesOn, Send
  <2>5. CASE ReceiverStep \/ UNCHANGED vars
    BY <2>5 DEF ReceiverStep, Loop, Handle, ReadPacket, ReadError, ReceiverTurns, vars
  <2>6. CASE Handlers
    BY <2>6 DEF Handlers, HandlerGoesOn, AddGateway, StopRunning, SetupBuffer,
      SetupNotify, StartRunning, StartGoroutines, Signal, Broadcast, CloseConnection,
      ReceiverIsDone
  <2> QED
    BY <2>1, <2>2, <2>3, <2>4, <2>5, <2>6, NextCases
<1> QED
  BY <1>1, <1>2, TypeCorrect, PTL DEF Spec

----------------------------------------------------------------------------
(* Crashes. *)

\* Without its condition variable the buffer is in the hands of Setup, or has
\* never been published and has no sender.
NotifyInv ==
  \/ notify
  \/ op \in {"linked", "reset"}
  \/ op = "off" /\ ~linked /\ \A s \in Sender : stage[s] = "none"

LEMMA NotifyStep ==
  ASSUME NotifyInv, TypeOK, [Next]_vars
  PROVE  NotifyInv'
<1> USE DEF NotifyInv, TypeOK
<1>1. CASE Push
  BY <1>1 DEF Push
<1>2. ASSUME NEW s \in Sender,
             PopWaits(s) \/ PopTakes(s) \/ CheckStops(s) \/ CheckGoesOn(s) \/ Send(s)
      PROVE  NotifyInv'
  BY <1>2 DEF PopWaits, PopTakes, CheckStops, CheckGoesOn, Send
<1>3. CASE ReceiverStep \/ UNCHANGED vars
  BY <1>3 DEF ReceiverStep, Loop, Handle, ReadPacket, ReadError, ReceiverTurns, vars
<1>4. CASE Handlers
  BY <1>4 DEF Handlers, HandlerGoesOn, AddGateway, StopRunning, SetupBuffer,
    SetupNotify, StartRunning, StartGoroutines, Signal, CloseConnection, ReceiverIsDone
<1> QED
  BY <1>1, <1>2, <1>3, <1>4, NextCases

\* Nothing but Setup, which replaces the buffer under those who use it, makes
\* the program panic.
THEOREM OnlySetupCrashes == Spec => CrashesOnlyInSetup
<1>1. Init => NotifyInv
  BY DEF Init, NotifyInv
<1>2. NotifyInv /\ TypeOK /\ [Next]_vars => [crashed' => crashed \/ op \in {"linked", "reset"}]_vars
  <2> SUFFICES ASSUME NotifyInv, TypeOK, [Next]_vars, crashed', ~crashed
               PROVE  op \in {"linked", "reset"}
    OBVIOUS
  <2> USE DEF NotifyInv
  <2>1. CASE Push
    BY <2>1 DEF Push
  <2>2. ASSUME NEW s \in Sender,
               PopWaits(s) \/ PopTakes(s) \/ CheckStops(s) \/ CheckGoesOn(s) \/ Send(s)
        PROVE  op \in {"linked", "reset"}
    BY <2>2 DEF PopWaits, PopTakes, CheckStops, CheckGoesOn, Send
  <2>3. CASE ReceiverStep \/ UNCHANGED vars
    BY <2>3 DEF ReceiverStep, Loop, Handle, ReadPacket, ReadError, ReceiverTurns, vars
  <2>4. CASE Handlers
    BY <2>4 DEF Handlers, HandlerGoesOn, AddGateway, StopRunning, SetupBuffer,
      SetupNotify, StartRunning, StartGoroutines, Signal, CloseConnection, ReceiverIsDone
  <2> QED
    BY <2>1, <2>2, <2>3, <2>4, NextCases
<1> QED
  BY <1>1, <1>2, NotifyStep, TypeCorrect, PTL DEF Spec, CrashesOnlyInSetup

----------------------------------------------------------------------------
(* Once each: an uplink is in the buffer, in one sender's hands, or among  *)
(* those that were sent.                                                   *)

\* The buffer is in the order of Push, and every number is below the next.
Rising ==
  /\ \A i, j \in DOMAIN uplinks : i < j => uplinks[i] < uplinks[j]
  /\ \A i \in DOMAIN uplinks : uplinks[i] < next
  /\ \A s \in Sender : hand[s] < next
  /\ \A i \in DOMAIN sent : sent[i] < next

\* What a sender holds is nowhere else, and what was sent is not in the buffer.
Apart ==
  /\ \A s \in Sender, i \in DOMAIN uplinks : hand[s] # uplinks[i]
  /\ \A s, t \in Sender : s # t /\ hand[s] # NoUplink => hand[s] # hand[t]
  /\ \A i \in DOMAIN sent, s \in Sender : sent[i] # hand[s]
  /\ \A i \in DOMAIN sent, j \in DOMAIN uplinks : sent[i] # uplinks[j]

OnceInv ==
  /\ Rising
  /\ Apart
  /\ \A i, j \in DOMAIN sent : sent[i] = sent[j] => i = j

\* As long as no sender outlives its run there is one, which drops nothing but
\* what it takes when it has been stopped, and everything is in order.
OneSender ==
  /\ \A s, t \in Sender : Alive(s) /\ Alive(t) => s = t
  /\ op = "started" => \A s \in Sender : ~Alive(s)
  /\ \A s \in Sender : stage[s] = "woken" /\ uplinks = <<>> => state = "Stopped"
  /\ \A s \in Sender : stage[s] = "check" /\ hand[s] = NoUplink => state = "Stopped"
  /\ \A s \in Sender : stage[s] = "send" => hand[s] # NoUplink
  /\ ~empty

Ordered ==
  /\ \A i, j \in DOMAIN sent : i < j => sent[i] < sent[j]
  /\ \A i \in DOMAIN sent, j \in DOMAIN uplinks : sent[i] < uplinks[j]
  /\ \A s \in Sender, i \in DOMAIN sent : hand[s] # NoUplink => sent[i] < hand[s]
  /\ \A s \in Sender, j \in DOMAIN uplinks : hand[s] # NoUplink => hand[s] < uplinks[j]

OrderInv ==
  /\ op \notin {"started", "on"} => state = "Stopped"
  /\ \A s \in Sender : stage[s] \notin {"check", "send"} => hand[s] = NoUplink
  /\ ~overlap => OneSender /\ Ordered

\* The types the arithmetic needs.
LEMMA Numbers ==
  ASSUME TypeOK
  PROVE  /\ next \in Nat /\ next > 0
         /\ DOMAIN uplinks = 1 .. Len(uplinks) /\ Len(uplinks) \in Nat
         /\ DOMAIN sent = 1 .. Len(sent) /\ Len(sent) \in Nat
         /\ \A i \in DOMAIN uplinks : uplinks[i] \in Nat /\ uplinks[i] > 0
         /\ \A i \in DOMAIN sent : sent[i] \in Nat /\ sent[i] > 0
         /\ \A s \in Sender : hand[s] \in Nat
         /\ hand = [s \in Sender |-> hand[s]] /\ stage = [s \in Sender |-> stage[s]]
<1>1. Uplink \subseteq Nat /\ \A n \in Uplink : n > 0
  BY GatewayUplinkAssumption DEF Uplink
<1>2. /\ uplinks \in Seq(Uplink) /\ sent \in Seq(Uplink)
      /\ hand \in [Sender -> Uplink \cup {NoUplink}] /\ stage \in [Sender -> SenderStage]
      /\ next \in 1 .. MaxUplinks + 1
  BY DEF TypeOK
<1>3. next \in Nat /\ next > 0
  BY <1>2, GatewayUplinkAssumption
<1>4. /\ DOMAIN uplinks = 1 .. Len(uplinks) /\ Len(uplinks) \in Nat
      /\ DOMAIN sent = 1 .. Len(sent) /\ Len(sent) \in Nat
      /\ \A i \in DOMAIN uplinks : uplinks[i] \in Uplink
      /\ \A i \in DOMAIN sent : sent[i] \in Uplink
  BY <1>2
<1>5. \A s \in Sender : hand[s] \in Nat
  <2>1. NoUplink \in Nat
    BY DEF NoUplink
  <2> QED
    BY <1>1, <1>2, <2>1
<1> QED
  BY <1>1, <1>2, <1>3, <1>4, <1>5

\* Push appends a number above all others.
LEMMA PushShape ==
  ASSUME TypeOK, Push
  PROVE  /\ next' = next + 1
         /\ \A i \in DOMAIN uplinks' :
              \/ i \in DOMAIN uplinks /\ uplinks'[i] = uplinks[i]
              \/ i = Len(uplinks) + 1 /\ uplinks'[i] = next
         /\ \A i \in DOMAIN uplinks : i < Len(uplinks) + 1
         /\ uplinks' # <<>>
         /\ UNCHANGED <<hand, sent, state, op, empty, overlap>>
<1>1. uplinks' = Append(uplinks, next) /\ next \in Uplink /\ uplinks \in Seq(Uplink)
  BY GatewayUplinkAssumption DEF Push, Queued, TypeOK, Uplink
<1>2. /\ next' = next + 1
      /\ UNCHANGED <<hand, sent, state, op, empty, overlap>>
  BY DEF Push
<1> QED
  BY <1>1, <1>2

\* Take leaves the tail and hands out what was before it.
TakesFirst(s) ==
  /\ 1 \in DOMAIN uplinks
  /\ \A i \in DOMAIN uplinks' :
       /\ i \in Nat /\ i + 1 \in DOMAIN uplinks /\ 1 < i + 1
       /\ uplinks'[i] = uplinks[i + 1]
  /\ hand'[s] = uplinks[1]
  /\ \A t \in Sender : t # s => hand'[t] = hand[t]

LEMMA TakeShape ==
  ASSUME TypeOK, NEW s \in Sender, Take(s), uplinks # <<>>
  PROVE  TakesFirst(s)
<1>1. DOMAIN uplinks = 1 .. Len(uplinks) /\ Len(uplinks) \in Nat /\ Len(uplinks) > 0
  BY Numbers
<1>2. uplinks' = Tail(uplinks) /\ hand' = [hand EXCEPT ![s] = Head(uplinks)]
  BY DEF Take
<1>3. DOMAIN uplinks' = 1 .. Len(uplinks) - 1
      /\ \A i \in 1 .. Len(uplinks) - 1 : uplinks'[i] = uplinks[i + 1]
  BY <1>1, <1>2, Numbers
<1> QED
  BY <1>1, <1>2, <1>3, Numbers DEF TakesFirst

\* What is written is appended to what was.
Writes(s) ==
  /\ hand'[s] = NoUplink
  /\ \A t \in Sender : t # s => hand'[t] = hand[t]
  /\ UNCHANGED <<uplinks, next, state, op, overlap>>
  /\ \/ UNCHANGED sent /\ (UNCHANGED empty \/ hand[s] = NoUplink)
     \/ /\ hand[s] # NoUplink /\ UNCHANGED empty
        /\ \A i \in DOMAIN sent' :
             \/ i \in DOMAIN sent /\ sent'[i] = sent[i]
             \/ i = Len(sent) + 1 /\ sent'[i] = hand[s]
        /\ \A i \in DOMAIN sent : i < Len(sent) + 1

LEMMA SendShape ==
  ASSUME TypeOK, NEW s \in Sender, Send(s)
  PROVE  Writes(s)
<1>1. /\ hand'[s] = NoUplink
      /\ \A t \in Sender : t # s => hand'[t] = hand[t]
      /\ UNCHANGED <<uplinks, next, state, op, overlap>>
  BY Numbers DEF Send
<1>2. CASE UNCHANGED sent
  BY <1>1, <1>2 DEF Send, Writes
<1>3. CASE sent' # sent
  <2>1. sent' = Append(sent, hand[s]) /\ hand[s] # NoUplink /\ UNCHANGED empty
    BY <1>3 DEF Send
  <2>2. sent \in Seq(Uplink) /\ hand[s] \in Uplink
    BY <2>1 DEF TypeOK
  <2> QED
    BY <1>1, <2>1, <2>2 DEF Writes
<1> QED
  BY <1>1, <1>2, <1>3 DEF Writes

\* Handlers and the receiver touch no uplink but those Setup discards.
LEMMA OtherShape ==
  ASSUME TypeOK, ReceiverStep \/ Handlers \/ UNCHANGED vars
  PROVE  /\ UNCHANGED <<hand, next, sent, empty>>
         /\ UNCHANGED uplinks \/ uplinks' = <<>>
  BY DEF ReceiverStep, Loop, Handle, ReadPacket, ReadError, ReceiverTurns, Handlers,
    HandlerGoesOn, AddGateway, StopRunning, SetupBuffer, SetupNotify, StartRunning,
    StartGoroutines, Signal, Broadcast, CloseConnection, ReceiverIsDone, vars

LEMMA OnceStep ==
  ASSUME OnceInv, TypeOK, [Next]_vars
  PROVE  OnceInv'
<1> USE DEF OnceInv, Rising, Apart
<1>1. CASE Push
  <2>1. Rising'
    <3>1. \A i, j \in DOMAIN uplinks' : i < j => uplinks'[i] < uplinks'[j]
      BY <1>1, PushShape, Numbers, SMTT(30)
    <3>2. \A i \in DOMAIN uplinks' : uplinks'[i] < next'
      BY <1>1, PushShape, Numbers, SMTT(30)
    <3>3. \A s \in Sender : hand'[s] < next'
      BY <1>1, PushShape, Numbers
    <3>4. \A i \in DOMAIN sent' : sent'[i] < next'
      BY <1>1, PushShape, Numbers
    <3> QED
      BY <3>1, <3>2, <3>3, <3>4
  <2>2. Apart'
    BY <1>1, PushShape, Numbers
  <2>3. \A i, j \in DOMAIN sent' : sent'[i] = sent'[j] => i = j
    BY <1>1, PushShape
  <2> QED
    BY <2>1, <2>2, <2>3
<1>2. ASSUME NEW s \in Sender, PopWaits(s) \/ CheckGoesOn(s)
      PROVE  OnceInv'
  BY <1>2 DEF PopWaits, CheckGoesOn
<1>3. ASSUME NEW s \in Sender, PopTakes(s)
      PROVE  OnceInv'
  <2>1. Take(s) /\ UNCHANGED <<next, sent>>
    BY <1>3 DEF PopTakes
  <2>2. CASE uplinks = <<>>
    BY <2>1, <2>2, Numbers DEF Take, NoUplink
  <2>3. CASE uplinks # <<>>
    <3> TakesFirst(s)
      BY <2>1, <2>3, TakeShape
    <3> USE DEF TakesFirst
    <3>1. Rising'
      <4>1. \A i, j \in DOMAIN uplinks' : i < j => uplinks'[i] < uplinks'[j]
        OBVIOUS
      <4>2. \A i \in DOMAIN uplinks' : uplinks'[i] < next'
        BY <2>1
      <4>3. \A t \in Sender : hand'[t] < next'
        BY <2>1
      <4> QED
        BY <2>1, <4>1, <4>2, <4>3
    <3>2. Apart'
      <4>1. ASSUME NEW t \in Sender, NEW i \in DOMAIN uplinks'
            PROVE  hand'[t] # uplinks'[i]
        <5>1. i + 1 \in DOMAIN uplinks /\ 1 < i + 1 /\ uplinks'[i] = uplinks[i + 1]
          OBVIOUS
        <5>2. uplinks[1] < uplinks[i + 1] /\ uplinks[1] \in Nat /\ uplinks[i + 1] \in Nat
          BY <5>1, Numbers
        <5>3. CASE t = s
          BY <5>1, <5>2, <5>3
        <5>4. CASE t # s
          BY <5>1, <5>4
        <5> QED
          BY <5>3, <5>4
      <4>2. \A t, u \in Sender : t # u /\ hand'[t] # NoUplink => hand'[t] # hand'[u]
        BY <2>1, <2>3, Numbers
      <4>3. ASSUME NEW i \in DOMAIN sent', NEW t \in Sender
            PROVE  sent'[i] # hand'[t]
        <5>1. i \in DOMAIN sent /\ sent'[i] = sent[i]
          BY <2>1
        <5>2. CASE t = s
          BY <5>1, <5>2
        <5>3. CASE t # s
          BY <5>1, <5>3
        <5> QED
          BY <5>2, <5>3
      <4>4. \A i \in DOMAIN sent', j \in DOMAIN uplinks' : sent'[i] # uplinks'[j]
        BY <2>1, <2>3, Numbers
      <4> QED
        BY <4>1, <4>2, <4>3, <4>4 DEF Apart
    <3> QED
      BY <2>1, <3>1, <3>2
  <2> QED
    BY <2>2, <2>3
<1>4. ASSUME NEW s \in Sender, CheckStops(s)
      PROVE  OnceInv'
  BY <1>4, Numbers DEF CheckStops, NoUplink
<1>5. ASSUME NEW s \in Sender, Send(s)
      PROVE  OnceInv'
  <2> Writes(s)
    BY <1>5, SendShape
  <2> USE DEF Writes
  <2>1. Rising'
    BY Numbers DEF NoUplink
  <2>2. CASE UNCHANGED sent
    BY <2>1, <2>2, Numbers DEF NoUplink
  <2>3. CASE ~UNCHANGED sent
    <3>1. /\ hand[s] # NoUplink
          /\ \A i \in DOMAIN sent' :
               \/ i \in DOMAIN sent /\ sent'[i] = sent[i]
               \/ i = Len(sent) + 1 /\ sent'[i] = hand[s]
      BY <2>3
    <3>2. \A i \in DOMAIN sent', t \in Sender : sent'[i] # hand'[t]
      BY <3>1, Numbers DEF NoUplink
    <3>3. \A i \in DOMAIN sent', j \in DOMAIN uplinks' : sent'[i] # uplinks'[j]
      BY <3>1
    <3>4. /\ \A t \in Sender, i \in DOMAIN uplinks' : hand'[t] # uplinks'[i]
          /\ \A t, u \in Sender : t # u /\ hand'[t] # NoUplink => hand'[t] # hand'[u]
      BY Numbers DEF NoUplink
    <3>5. \A i, j \in DOMAIN sent' : sent'[i] = sent'[j] => i = j
      BY <3>1
    <3> QED
      BY <2>1, <3>2, <3>3, <3>4, <3>5
  <2> QED
    BY <2>2, <2>3
<1>6. CASE ReceiverStep \/ Handlers \/ UNCHANGED vars
  BY <1>6, OtherShape
<1> QED
  BY <1>1, <1>2, <1>3, <1>4, <1>5, <1>6, NextCases

LEMMA OrderStep ==
  ASSUME OrderInv, OnceInv, TypeOK, [Next]_vars
  PROVE  OrderInv'
<1> USE DEF OrderInv, OneSender, Ordered, Alive
<1>1. CASE Push
  <2>1. \A s \in Sender : \/ stage'[s] = stage[s]
                          \/ stage[s] = "wait" /\ stage'[s] = "woken"
    BY <1>1, Numbers DEF Push, Broadcast
  <2> QED
    <3>1. ~overlap => OneSender'
      BY <1>1, <2>1, PushShape, Numbers, SMTT(30)
    <3>2. ~overlap => Ordered'
      BY <1>1, PushShape, Numbers, SMTT(30) DEF OnceInv, Rising
    <3> QED
      BY <1>1, <2>1, <3>1, <3>2, PushShape
<1>2. ASSUME NEW s \in Sender, PopWaits(s) \/ CheckGoesOn(s)
      PROVE  OrderInv'
  <2>1. /\ \/ stage[s] = "pop" /\ stage'[s] = "wait"
           \/ stage[s] = "check" /\ stage'[s] = "send" /\ state = "Running"
        /\ \A t \in Sender : t # s => stage'[t] = stage[t]
        /\ UNCHANGED <<uplinks, hand, sent, state, op, empty, overlap>>
    BY <1>2, Numbers DEF PopWaits, CheckGoesOn
  <2> QED
    BY <2>1
<1>3. ASSUME NEW s \in Sender, PopTakes(s)
      PROVE  OrderInv'
  <2>1. /\ Take(s) /\ UNCHANGED <<next, sent, state, op, empty, overlap>>
        /\ stage[s] = "woken" \/ (stage[s] = "pop" /\ uplinks # <<>>)
        /\ stage'[s] = "check"
        /\ \A t \in Sender : t # s => stage'[t] = stage[t]
    BY <1>3, Numbers DEF PopTakes
  <2>2. CASE uplinks = <<>>
    <3>1. UNCHANGED uplinks /\ hand'[s] = NoUplink
          /\ \A t \in Sender : t # s => hand'[t] = hand[t]
      BY <2>1, <2>2, Numbers DEF Take
    <3> QED
      BY <2>1, <2>2, <3>1
  <2>3. CASE uplinks # <<>>
    <3> TakesFirst(s)
      BY <2>1, <2>3, TakeShape
    <3> USE DEF TakesFirst
    <3>1. ASSUME ~overlap PROVE OneSender'
      <4>1. \A t \in Sender : Alive(t) => t = s
        BY <2>1, <3>1
      <4>2. \A t \in Sender : Alive(t)' => t = s
        BY <2>1, <4>1
      <4>3. hand'[s] # NoUplink
        BY Numbers DEF NoUplink
      <4> QED
        BY <2>1, <3>1, <4>1, <4>2, <4>3
    <3>2. ASSUME ~overlap PROVE Ordered'
      <4>1. \A t \in Sender : hand'[t] # NoUplink => t = s
        BY <2>1, <3>2
      <4>2. \A i \in DOMAIN sent' : sent'[i] < hand'[s]
        BY <2>1, <3>2
      <4>3. \A j \in DOMAIN uplinks' : hand'[s] < uplinks'[j]
        BY DEF OnceInv, Rising
      <4>4. \A i \in DOMAIN sent', j \in DOMAIN uplinks' : sent'[i] < uplinks'[j]
        BY <2>1, <3>2
      <4> QED
        BY <2>1, <3>2, <4>1, <4>2, <4>3, <4>4
    <3>3. \A t \in Sender : stage'[t] \notin {"check", "send"} => hand'[t] = NoUplink
      BY <2>1, <2>3
    <3> QED
      BY <2>1, <3>1, <3>2, <3>3
  <2> QED
    BY <2>2, <2>3
<1>4. ASSUME NEW s \in Sender, CheckStops(s)
      PROVE  OrderInv'
  BY <1>4, Numbers DEF CheckStops
<1>5. ASSUME NEW s \in Sender, Send(s)
      PROVE  OrderInv'
  <2> Writes(s)
    BY <1>5, SendShape
  <2> USE DEF Writes
  <2>1. /\ stage[s] = "send" /\ stage'[s] = "pop"
        /\ \A t \in Sender : t # s => stage'[t] = stage[t]
    BY <1>5, Numbers DEF Send
  <2> QED
    <3>1. ~overlap => OneSender'
      BY <2>1
    <3>2. ASSUME ~overlap PROVE Ordered'
      <4>1. \A t \in Sender : hand'[t] = NoUplink
        BY <2>1, <3>2
      <4>2. CASE UNCHANGED sent
        BY <3>2, <4>1, <4>2
      <4>3. CASE ~UNCHANGED sent
        <5>1. /\ hand[s] # NoUplink
              /\ \A i \in DOMAIN sent' :
                   \/ i \in DOMAIN sent /\ sent'[i] = sent[i]
                   \/ i = Len(sent) + 1 /\ sent'[i] = hand[s]
              /\ \A i \in DOMAIN sent : i < Len(sent) + 1
          BY <4>3
        <5>2. \A i, j \in DOMAIN sent' : i < j => sent'[i] < sent'[j]
          BY <3>2, <5>1, Numbers
        <5>3. \A i \in DOMAIN sent', j \in DOMAIN uplinks' : sent'[i] < uplinks'[j]
          BY <3>2, <5>1
        <5> QED
          BY <4>1, <5>2, <5>3
      <4> QED
        BY <4>2, <4>3
    <3> QED
      BY <2>1, <3>1, <3>2
<1>6. CASE ReceiverStep \/ UNCHANGED vars
  BY <1>6 DEF ReceiverStep, Loop, Handle, ReadPacket, ReadError, ReceiverTurns, vars
<1>7. CASE Handlers
  <2>1. CASE SetupBuffer
    BY <2>1, Numbers DEF SetupBuffer
  <2>2. CASE StartRunning
    BY <2>2 DEF StartRunning
  <2>3. CASE StartGoroutines
    BY <2>3, Numbers DEF StartGoroutines
  <2>4. CASE Signal
    <3>1. \A s \in Sender : \/ stage'[s] = stage[s]
                            \/ stage[s] = "wait" /\ stage'[s] = "woken"
      BY <2>4, Numbers DEF Signal, Broadcast
    <3> QED
      BY <2>4, <3>1 DEF Signal
  <2>5. CASE \/ AddGateway \/ StopRunning \/ SetupNotify \/ CloseConnection
             \/ ReceiverIsDone
    BY <2>5 DEF AddGateway, StopRunning, SetupNotify, CloseConnection, ReceiverIsDone
  <2> QED
    BY <1>7, <2>1, <2>2, <2>3, <2>4, <2>5 DEF Handlers, HandlerGoesOn
<1> QED
  BY <1>1, <1>2, <1>3, <1>4, <1>5, <1>6, <1>7, NextCases

LEMMA OrderHolds == Spec => [](OnceInv /\ OrderInv)
<1>1. Init => OnceInv /\ OrderInv
  BY DEF Init, OnceInv, Rising, Apart, OrderInv, OneSender, Ordered, NoUplink, Alive
<1>2. OnceInv /\ OrderInv /\ TypeOK /\ [Next]_vars => (OnceInv /\ OrderInv)'
  BY OnceStep, OrderStep
<1> QED
  BY <1>1, <1>2, TypeCorrect, PTL DEF Spec

\* Whatever senders of earlier runs do, no uplink is written twice; and as long
\* as none of them lives on, all are written in order and no empty packet is.
THEOREM UplinksInOrder == Spec => []SentOnceInOrder
<1>1. OnceInv /\ OrderInv => SentOnceInOrder
  BY DEF OnceInv, OrderInv, OneSender, Ordered, SentOnceInOrder
<1> QED
  BY <1>1, OrderHolds, PTL

----------------------------------------------------------------------------
(* The queue the gateway implements.                                       *)

\* What is on its way, by where it is.
LEMMA WaitingIs ==
  ASSUME NEW u
  PROVE  u \in Waiting <=> \/ \E i \in DOMAIN uplinks : uplinks[i] = u
                           \/ u # NoUplink /\ \E s \in Sender : hand[s] = u
BY Zenon DEF Waiting

LEMMA WaitingStays ==
  ASSUME UNCHANGED <<uplinks, hand>>
  PROVE  Waiting' = Waiting
BY DEF Waiting

\* What a sender gives up was on its way only in its hands.
LEMMA LetsGo ==
  ASSUME TypeOK, OnceInv, NEW s \in Sender, hand[s] # NoUplink,
         UNCHANGED uplinks, hand'[s] = NoUplink,
         \A t \in Sender : t # s => hand'[t] = hand[t]
  PROVE  Waiting' = Waiting \ {hand[s]} /\ hand[s] \in Waiting
<1>1. hand[s] \in Waiting
  BY WaitingIs
<1>2. ASSUME NEW u
      PROVE  u \in Waiting' <=> u \in Waiting /\ u # hand[s]
  <2>1. u \in Waiting' <=> \/ \E i \in DOMAIN uplinks : uplinks[i] = u
                           \/ u # NoUplink /\ \E t \in Sender : hand'[t] = u
    BY Zenon DEF Waiting
  <2>2. /\ \A i \in DOMAIN uplinks : uplinks[i] # hand[s]
        /\ \A t \in Sender : t # s => hand[t] # hand[s]
    BY DEF OnceInv, Apart
  <2> QED
    BY <2>1, <2>2, WaitingIs
<1> QED
  BY <1>1, <1>2

\* A step of the gateway is one of the queue, or none.
LEMMA DeliveryStep ==
  ASSUME TypeOK, OnceInv, OrderInv, [Next]_vars
  PROVE  [Delivery!Next]_(Delivery!queueVars)
<1> USE DEF Delivery!queueVars
<1>1. CASE Push
  <2>1. /\ uplinks' = Append(uplinks, next) /\ next' = next + 1
        /\ UNCHANGED <<hand, sent, overlap>>
    BY <1>1 DEF Push, Queued
  <2>2. /\ Len(uplinks) \in Nat /\ DOMAIN uplinks = 1 .. Len(uplinks)
        /\ DOMAIN uplinks' = 1 .. Len(uplinks) + 1
        /\ \A i \in 1 .. Len(uplinks) : uplinks'[i] = uplinks[i]
        /\ uplinks'[Len(uplinks) + 1] = next
    BY <2>1, Numbers DEF TypeOK
  <2>3. ASSUME NEW u
        PROVE  u \in Waiting' <=> u \in Waiting \/ u = next
    <3>1. u \in Waiting' <=> \/ \E i \in DOMAIN uplinks' : uplinks'[i] = u
                             \/ u # NoUplink /\ \E t \in Sender : hand'[t] = u
      BY Zenon DEF Waiting
    <3>2. (\E i \in DOMAIN uplinks' : uplinks'[i] = u)
            <=> (\E i \in DOMAIN uplinks : uplinks[i] = u) \/ u = next
      BY <2>2
    <3> QED
      BY <2>1, <3>1, <3>2, WaitingIs
  <2>4. Waiting' = Waiting \cup {next}
    BY <2>3
  <2>5. Delivery!Accept
    BY <2>1, <2>4 DEF Delivery!Accept
  <2> QED
    BY <2>5 DEF Delivery!Next
<1>2. ASSUME NEW s \in Sender, PopWaits(s) \/ CheckGoesOn(s)
      PROVE  [Delivery!Next]_(Delivery!queueVars)
  BY <1>2, WaitingStays DEF PopWaits, CheckGoesOn
<1>3. ASSUME NEW s \in Sender, PopTakes(s)
      PROVE  [Delivery!Next]_(Delivery!queueVars)
  <2>1. Take(s) /\ UNCHANGED <<next, sent, overlap>> /\ hand[s] = NoUplink
    BY <1>3 DEF PopTakes, OrderInv
  <2>2. CASE uplinks = <<>>
    <3>1. UNCHANGED <<uplinks, hand>>
      BY <2>1, <2>2, Numbers DEF Take
    <3> QED
      BY <2>1, <3>1, WaitingStays
  <2>3. CASE uplinks # <<>>
    <3>1. TakesFirst(s)
      BY <2>1, <2>3, TakeShape
    <3>2. \A i \in DOMAIN uplinks : i = 1 \/ (i - 1 \in DOMAIN uplinks' /\ i - 1 + 1 = i)
      <4>1. uplinks' = Tail(uplinks) /\ uplinks \in Seq(Uplink)
        BY <2>1, <2>3 DEF Take, TypeOK
      <4> QED
        BY <2>3, <4>1
    <3>3. uplinks[1] # NoUplink
      BY <3>1, Numbers DEF TakesFirst, NoUplink
    <3>4. \A i \in DOMAIN uplinks : i = 1 \/ \E j \in DOMAIN uplinks' : uplinks'[j] = uplinks[i]
      BY <3>1, <3>2 DEF TakesFirst
    <3>5. ASSUME NEW u
          PROVE  u \in Waiting' <=> u \in Waiting
      <4>1. u \in Waiting' <=> \/ \E i \in DOMAIN uplinks' : uplinks'[i] = u
                               \/ u # NoUplink /\ \E t \in Sender : hand'[t] = u
        BY Zenon DEF Waiting
      <4> QED
        BY <2>1, <3>1, <3>3, <3>4, <4>1, WaitingIs DEF TakesFirst
    <3> QED
      BY <2>1, <3>5
  <2> QED
    BY <2>2, <2>3
<1>4. ASSUME NEW s \in Sender, CheckStops(s)
      PROVE  [Delivery!Next]_(Delivery!queueVars)
  <2>1. /\ UNCHANGED <<uplinks, next, sent, overlap>>
        /\ hand'[s] = NoUplink /\ \A t \in Sender : t # s => hand'[t] = hand[t]
        /\ hand' = [hand EXCEPT ![s] = NoUplink]
    BY <1>4, Numbers DEF CheckStops
  <2>2. CASE hand[s] = NoUplink
    <3>1. hand' = hand
      BY <2>1, <2>2, Numbers
    <3> QED
      BY <2>1, <3>1, WaitingStays
  <2>3. CASE hand[s] # NoUplink
    <3>1. Waiting' = Waiting \ {hand[s]} /\ hand[s] \in Waiting
      BY <2>1, <2>3, LetsGo
    <3>2. Delivery!Lose({hand[s]})
      BY <2>1, <3>1 DEF Delivery!Lose
    <3> QED
      BY <3>1, <3>2 DEF Delivery!Next
  <2> QED
    BY <2>2, <2>3
<1>5. ASSUME NEW s \in Sender, Send(s)
      PROVE  [Delivery!Next]_(Delivery!queueVars)
  <2>1. /\ UNCHANGED <<uplinks, next, overlap>> /\ stage[s] = "send"
        /\ hand'[s] = NoUplink /\ \A t \in Sender : t # s => hand'[t] = hand[t]
        /\ hand' = [hand EXCEPT ![s] = NoUplink]
        /\ UNCHANGED sent \/ (hand[s] # NoUplink /\ sent' = Append(sent, hand[s]))
    BY <1>5, Numbers DEF Send
  <2>2. CASE hand[s] = NoUplink
    <3>1. hand' = hand
      BY <2>1, <2>2, Numbers
    <3> QED
      BY <2>1, <2>2, <3>1, WaitingStays
  <2>3. CASE hand[s] # NoUplink
    <3>1. Waiting' = Waiting \ {hand[s]} /\ hand[s] \in Waiting
      BY <2>1, <2>3, LetsGo
    <3>2. CASE UNCHANGED sent
      <4>1. Delivery!Lose({hand[s]})
        BY <2>1, <3>1, <3>2 DEF Delivery!Lose
      <4> QED
        BY <3>1, <4>1 DEF Delivery!Next
    <3>3. CASE sent' = Append(sent, hand[s])
      <4>1. ASSUME ~overlap, NEW v \in Waiting
            PROVE  hand[s] <= v
        <5>1. OneSender /\ Ordered
          BY <4>1 DEF OrderInv
        <5>2. \A t \in Sender : hand[t] # NoUplink => t = s
          BY <2>1, <5>1 DEF OneSender, OrderInv, Alive
        <5>3. \A i \in DOMAIN uplinks : hand[s] <= uplinks[i]
          BY <2>3, <5>1, Numbers DEF Ordered
        <5> QED
          BY <5>2, <5>3, WaitingIs, Numbers
      <4>2. overlap \/ \A v \in Waiting : hand[s] <= v
        BY <4>1
      <4>3. Delivery!Write(hand[s])
        BY <2>1, <3>1, <3>3, <4>2, Zenon DEF Delivery!Write
      <4> QED
        BY <3>1, <4>3 DEF Delivery!Next
    <3> QED
      BY <2>1, <3>2, <3>3
  <2> QED
    BY <2>2, <2>3
<1>6. CASE SetupBuffer
  <2>1. uplinks' = <<>> /\ UNCHANGED <<hand, next, sent, overlap>>
    BY <1>6 DEF SetupBuffer
  <2> DEFINE lost == {uplinks[i] : i \in DOMAIN uplinks}
  <2>2. lost \subseteq Waiting
    BY DEF Waiting
  <2>3. Waiting' = Waiting \ lost
    <3>1. \A s \in Sender : hand[s] \notin lost
      BY DEF OnceInv, Apart
    <3>2. Waiting' = {hand[s] : s \in Sender} \ {NoUplink}
      BY <2>1 DEF Waiting
    <3> QED
      BY <3>1, <3>2 DEF Waiting
  <2> HIDE DEF lost
  <2>4. Delivery!Lose(lost)
    BY <2>1, <2>3 DEF Delivery!Lose
  <2> QED
    BY <2>2, <2>4 DEF Delivery!Next
<1>7. CASE StartRunning
  <2>1. UNCHANGED <<uplinks, hand, next, sent>> /\ (overlap' = TRUE \/ UNCHANGED overlap)
    BY <1>7 DEF StartRunning, TypeOK
  <2>2. Waiting' = Waiting
    BY <2>1, WaitingStays
  <2> QED
    BY <2>1, <2>2 DEF Delivery!Next, Delivery!Mix
<1>8. CASE ReceiverStep \/ AddGateway \/ StopRunning \/ UNCHANGED vars
  BY <1>8, WaitingStays
  DEF ReceiverStep, Loop, Handle, ReadPacket, ReadError, ReceiverTurns, AddGateway,
      StopRunning, vars
<1>9. CASE SetupNotify \/ StartGoroutines \/ Signal \/ CloseConnection \/ ReceiverIsDone
  BY <1>9, WaitingStays
  DEF SetupNotify, StartGoroutines, Signal, CloseConnection, ReceiverIsDone
<1> QED
  BY <1>1, <1>2, <1>3, <1>4, <1>5, <1>6, <1>7, <1>8, <1>9, NextCases
  DEF Handlers, HandlerGoesOn

\* For any number of senders, runs and uplinks, buffer, senders and handlers are
\* a queue that may lose uplinks, repeats none, and keeps their order until a
\* sender has outlived its run.
THEOREM GatewayImplementsQueue == Spec => ImplementsDelivery
<1>1. Init => Delivery!Init
  BY DEF Init, Delivery!Init, Waiting, NoUplink
<1>2. TypeOK /\ OnceInv /\ OrderInv /\ [Next]_vars => [Delivery!Next]_(Delivery!queueVars)
  BY DeliveryStep
<1> QED
  BY <1>1, <1>2, TypeCorrect, OrderHolds, PTL DEF Spec, ImplementsDelivery, Delivery!Spec

================================================================================
