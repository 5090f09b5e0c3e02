------------------------------ MODULE GatewayUplink ------------------------------
(***************************************************************************)
(* The uplink path of one gateway: what the forwarder pushes into its      *)
(* BufferUplink, the sender goroutines that pop from it, the receiver, and *)
(* the handlers that turn the gateway on and off.  A sender is told to     *)
(* stop by a state it looks at only after Pop, so one of a former run may  *)
(* meet the buffer and the state of the next.  Push, Pop and Signal hold   *)
(* the mutex of the buffer and are one step each; Pop is two where it      *)
(* waits.  The keep-alive goroutine and the statistics touch none of this. *)
(* That the address of the network server resolves is assumed.             *)
(***************************************************************************)
EXTENDS Naturals, Sequences

CONSTANTS
  Sender,     \* the goroutines that may run SenderVirtual or SenderReal
  MaxUplinks  \* bound: uplinks the devices send

ASSUME GatewayUplinkAssumption == MaxUplinks \in Nat

VARIABLES
  state,     \* Gateway.State
  op,        \* where the handler that turns the gateway on or off is
  conn,      \* InfoGateway.Connection
  linked,    \* BufferUplink is in DevToGw of a device
  uplinks,   \* BufferUplink.Uplinks
  notify,    \* BufferUplink.Notify is not nil
  stage,     \* stage[s]: where sender s is
  hand,      \* hand[s]: the uplink it got from Pop
  receiver,  \* where the goroutine of Receiver is
  crashed,   \* the program has panicked
  next,      \* history: the number of the next uplink
  sent,      \* history: the uplinks written to the network server
  empty,     \* history: an empty packet was
  overlap    \* history: the gateway was turned on with a sender still alive

bufferVars == <<uplinks, notify>>
senderVars == <<stage, hand>>
vars == <<state, op, conn, linked, bufferVars, senderVars, receiver, crashed, next, sent, empty,
          overlap>>

NoUplink == 0   \* the empty RXPK; the uplinks are numbered from 1

Uplink == 1 .. MaxUplinks

\* "orphan": waiting on a condition variable that Setup has replaced.
SenderStage == {"none", "pop", "wait", "orphan", "woken", "check", "send"}

HandlerStage == {"off", "linked", "reset", "set", "started", "on", "stopped", "signalled",
                 "closed"}

TypeOK ==
  /\ state \in {"Stopped", "Running"}
  /\ op \in HandlerStage
  /\ conn \in {"open", "closed"}
  /\ linked \in BOOLEAN
  /\ uplinks \in Seq(Uplink)
  /\ notify \in BOOLEAN
  /\ stage \in [Sender -> SenderStage]
  /\ hand \in [Sender -> Uplink \cup {NoUplink}]
  /\ receiver \in {"none", "loop", "read", "handle"}
  /\ crashed \in BOOLEAN
  /\ next \in 1 .. MaxUplinks + 1
  /\ sent \in Seq(Uplink) /\ empty \in BOOLEAN
  /\ overlap \in BOOLEAN

\* A gateway from gateways.json has no condition variable yet; one created
\* while the simulator runs went through Setup in SetGateway.
Init ==
  /\ state = "Stopped" /\ op = "off" /\ conn = "closed"
  /\ linked = FALSE
  /\ uplinks = <<>> /\ notify \in BOOLEAN
  /\ stage = [s \in Sender |-> "none"]
  /\ hand = [s \in Sender |-> NoUplink]
  /\ receiver = "none" /\ crashed = FALSE
  /\ next = 1 /\ sent = <<>> /\ empty = FALSE /\ overlap = FALSE

Alive(s) == stage[s] \notin {"none", "orphan"}

--------------------------------------------------------------------------------
(* BufferUplink. *)

\* Every sender in Wait goes on.
Broadcast == stage' = [s \in Sender |-> IF stage[s] = "wait" THEN "woken" ELSE stage[s]]

\* Mutant of Wakes: the length is tested before the append.
MutantWakesOnSecond == Len(uplinks) = 1

\* Push tells the senders only about the first uplink.
Wakes == Len(uplinks) = 0

Queued == Append(uplinks, next)

\* A device's uplink: Forwarder.Uplink pushes it into the buffers it is linked
\* with.  Without a condition variable the first Push panics.
Push ==
  /\ ~crashed
  /\ linked /\ next <= MaxUplinks
  /\ uplinks' = Queued
  /\ next' = next + 1
  /\ IF Wakes THEN Broadcast /\ crashed' = ~notify
              ELSE UNCHANGED <<stage, crashed>>
  /\ UNCHANGED <<state, op, conn, linked, notify, hand, receiver, sent, empty, overlap>>

\* Mutant of Take: the last uplink is not taken off.
MutantTakeKeepsLast(s) ==
  IF uplinks = <<>> THEN hand' = [hand EXCEPT ![s] = NoUplink] /\ UNCHANGED uplinks
  ELSE /\ hand' = [hand EXCEPT ![s] = Head(uplinks)]
       /\ uplinks' = IF Len(uplinks) = 1 THEN uplinks ELSE Tail(uplinks)

\* Mutant of Take: the last uplink is taken off, not the first.
MutantTakeNewest(s) ==
  IF uplinks = <<>> THEN hand' = [hand EXCEPT ![s] = NoUplink] /\ UNCHANGED uplinks
  ELSE /\ hand' = [hand EXCEPT ![s] = uplinks[Len(uplinks)]]
       /\ uplinks' = SubSeq(uplinks, 1, Len(uplinks) - 1)

\* The switch of Pop on the length.
Take(s) ==
  IF uplinks = <<>> THEN hand' = [hand EXCEPT ![s] = NoUplink] /\ UNCHANGED uplinks
                    ELSE hand' = [hand EXCEPT ![s] = Head(uplinks)] /\ uplinks' = Tail(uplinks)

--------------------------------------------------------------------------------
(* SenderVirtual, SenderReal. *)

\* Pop, up to Wait when there is nothing.
PopWaits(s) ==
  /\ stage[s] = "pop" /\ uplinks = <<>>
  /\ stage' = [stage EXCEPT ![s] = "wait"]
  /\ crashed' = ~notify
  /\ UNCHANGED <<state, op, conn, linked, bufferVars, hand, receiver, next, sent, empty,
                 overlap>>

\* Wait is left only for a Broadcast, and not entered again.
PopTakes(s) ==
  /\ stage[s] = "woken" \/ (stage[s] = "pop" /\ uplinks # <<>>)
  /\ Take(s)
  /\ stage' = [stage EXCEPT ![s] = "check"]
  /\ UNCHANGED <<state, op, conn, linked, notify, receiver, crashed, next, sent, empty,
                 overlap>>

\* CanExecute: a sender told to stop drops what it holds.
CheckStops(s) ==
  /\ stage[s] = "check" /\ state = "Stopped"
  /\ stage' = [stage EXCEPT ![s] = "none"]
  /\ hand' = [hand EXCEPT ![s] = NoUplink]
  /\ UNCHANGED <<state, op, conn, linked, bufferVars, receiver, crashed, next, sent, empty,
                 overlap>>

CheckGoesOn(s) ==
  /\ stage[s] = "check" /\ state = "Running"
  /\ stage' = [stage EXCEPT ![s] = "send"]
  /\ UNCHANGED <<state, op, conn, linked, bufferVars, hand, receiver, crashed, next, sent,
                 empty,
                 overlap>>

\* The packet is written, or the connection answers with an error.
Send(s) ==
  /\ stage[s] = "send"
  /\ \/ /\ conn = "open"
        /\ IF hand[s] = NoUplink THEN empty' = TRUE /\ UNCHANGED sent
                                 ELSE sent' = Append(sent, hand[s]) /\ UNCHANGED empty
     \/ UNCHANGED <<sent, empty>>
  /\ stage' = [stage EXCEPT ![s] = "pop"]
  /\ hand' = [hand EXCEPT ![s] = NoUplink]
  /\ UNCHANGED <<state, op, conn, linked, bufferVars, receiver, crashed, next, overlap>>

--------------------------------------------------------------------------------
(* Receiver, as far as it decides when it ends. *)

ReceiverTurns(from, to) ==
  /\ receiver = from
  /\ receiver' = IF state = "Stopped" THEN "none" ELSE to
  /\ UNCHANGED <<state, op, conn, linked, bufferVars, senderVars, crashed, next, sent, empty,
                 overlap>>

\* The head of its loop; back there once a packet is handled.
Loop   == ReceiverTurns("loop", "read")
Handle == ReceiverTurns("handle", "loop")

\* ReadFromUDP brings a packet, or an error once the connection is closed.
ReadPacket == conn = "open" /\ ReceiverTurns("read", "handle")
ReadError  == conn = "closed" /\ ReceiverTurns("read", "loop")

--------------------------------------------------------------------------------
(* turnONGateway. *)

AddGateway ==
  /\ op = "off"
  /\ \E s \in Sender : stage[s] = "none"
  /\ op' = "linked" /\ linked' = TRUE
  /\ UNCHANGED <<state, conn, bufferVars, senderVars, receiver, crashed, next, sent, empty,
                 overlap>>

\* Setup overwrites the buffer, its mutex included, while the forwarder and a
\* sender may be at it: if one of them holds the mutex, its Unlock is fatal.
SetupBuffer ==
  /\ op = "linked"
  /\ op' = "reset" /\ state' = "Stopped"
  /\ uplinks' = <<>> /\ notify' = FALSE
  /\ stage' = [s \in Sender |-> IF stage[s] = "wait" THEN "orphan" ELSE stage[s]]
  /\ crashed' \in BOOLEAN
  /\ UNCHANGED <<conn, linked, hand, receiver, next, sent, empty, overlap>>

\* Mutant of SetupNotify: no new condition variable.
MutantSetupWithoutNotify ==
  /\ op = "reset"
  /\ op' = "set"
  /\ UNCHANGED <<state, conn, linked, bufferVars, senderVars, receiver, crashed, next, sent,
                 empty, overlap>>

SetupNotify ==
  /\ op = "reset"
  /\ op' = "set" /\ notify' = TRUE
  /\ UNCHANGED <<state, conn, linked, uplinks, senderVars, receiver, crashed, next, sent,
                 empty, overlap>>

\* TurnON: the state first, so that a sender of the last run sees it.
StartRunning ==
  /\ op = "set"
  /\ op' = "started" /\ state' = "Running"
  /\ overlap' = (overlap \/ \E s \in Sender : Alive(s))
  /\ UNCHANGED <<conn, linked, bufferVars, senderVars, receiver, crashed, next,
                 sent, empty>>

\* A sender that has ended is what the new one is called.
StartGoroutines ==
  /\ op = "started"
  /\ op' = "on" /\ conn' = "open" /\ receiver' = "loop"
  /\ \E s \in Sender : stage[s] = "none" /\ stage' = [stage EXCEPT ![s] = "pop"]
  /\ UNCHANGED <<state, linked, bufferVars, hand, crashed, next, sent, empty, overlap>>

--------------------------------------------------------------------------------
(* turnOFFGateway, and Stop for every gateway. *)

StopRunning ==
  /\ op = "on"
  /\ op' = "stopped" /\ state' = "Stopped"
  /\ UNCHANGED <<conn, linked, bufferVars, senderVars, receiver, crashed, next, sent, empty,
                 overlap>>

Signal ==
  /\ op = "stopped"
  /\ op' = "signalled"
  /\ Broadcast
  /\ UNCHANGED <<state, conn, linked, bufferVars, hand, receiver, crashed, next, sent, empty,
                 overlap>>

\* Mutant of CloseConnection: it stays open.
MutantKeepsConnection ==
  /\ op = "signalled"
  /\ op' = "closed"
  /\ UNCHANGED <<state, conn, linked, bufferVars, senderVars, receiver, crashed, next, sent,
                 empty, overlap>>

CloseConnection ==
  /\ op = "signalled"
  /\ op' = "closed" /\ conn' = "closed"
  /\ UNCHANGED <<state, linked, bufferVars, senderVars, receiver, crashed, next, sent, empty,
                 overlap>>

\* ExitGroup.Wait returns once the receiver has ended; nobody waits for the
\* sender.  DeleteGateway then misses the gateway, and the link stays.
ReceiverIsDone ==
  /\ op = "closed" /\ receiver = "none"
  /\ op' = "off"
  /\ UNCHANGED <<state, conn, linked, bufferVars, senderVars, receiver, crashed, next, sent,
                 empty, overlap>>

--------------------------------------------------------------------------------

SenderStep(s) == PopWaits(s) \/ PopTakes(s) \/ CheckStops(s) \/ CheckGoesOn(s) \/ Send(s)

ReceiverStep == Loop \/ Handle \/ ReadPacket \/ ReadError

\* What a handler does once it has begun.
HandlerGoesOn ==
  \/ SetupBuffer \/ SetupNotify \/ StartRunning \/ StartGoroutines
  \/ Signal \/ CloseConnection \/ ReceiverIsDone

Next ==
  \/ Push
  \/ /\ ~crashed
     /\ \/ \E s \in Sender : SenderStep(s)
        \/ ReceiverStep
        \/ AddGateway
        \/ StopRunning
        \/ HandlerGoesOn

Spec == Init /\ [][Next]_vars

\* Goroutines and handlers run; devices, operators and the server owe nothing.
Fairness ==
  /\ \A s \in Sender : WF_vars(~crashed /\ SenderStep(s))
  /\ WF_vars(~crashed /\ (Loop \/ Handle \/ ReadError))
  /\ WF_vars(~crashed /\ HandlerGoesOn)

FairSpec == Spec /\ Fairness

--------------------------------------------------------------------------------
(* Properties. *)

\* No uplink is written twice, however many senders share the buffer; and as long
\* as no sender outlives the run it was started for, the uplinks go out in the
\* order they came in, and no empty packet does.
SentOnceInOrder ==
  /\ \A i, j \in DOMAIN sent : sent[i] = sent[j] => i = j
  /\ ~overlap => ~empty /\ \A i, j \in DOMAIN sent : i < j => sent[i] < sent[j]

\* The uplinks on their way: in the buffer or in the hands of a sender.
Waiting == {uplinks[i] : i \in DOMAIN uplinks} \cup ({hand[s] : s \in Sender} \ {NoUplink})

Delivery == INSTANCE UplinkDelivery WITH waiting <- Waiting, mixed <- overlap

\* Buffer, senders and handlers are a queue that loses uplinks at most: what was
\* discarded by Setup, dropped by a sender told to stop or refused by a closed
\* connection never comes back, and the oldest leaves first while no sender
\* outlives its run.
ImplementsDelivery == Delivery!Spec

\* No sender sleeps on a buffer that holds uplinks: Push need not tell anybody
\* about the second one.
NoSleepOnUplinks == \A s \in Sender : stage[s] = "wait" => uplinks = <<>>

\* The buffer is without its condition variable only while the gateway is being
\* turned on: nothing else makes the program panic.
CrashesOnlyInSetup == [][crashed' => crashed \/ op \in {"linked", "reset"}]_vars

\* TurnOFF gets its wait group back from the receiver, whatever that was doing.
TurnOffReturns == op \in {"stopped", "signalled", "closed"} ~> op = "off"

\* Uplinks do not stay in the buffer of a gateway that is on.
BufferDrains == op = "on" /\ uplinks # <<>> ~> uplinks = <<>> \/ op # "on"

================================================================================
