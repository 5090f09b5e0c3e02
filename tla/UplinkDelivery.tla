----------------------------- MODULE UplinkDelivery -----------------------------
(***************************************************************************)
(* What a gateway promises the devices, without its buffer, senders and    *)
(* handlers: a queue that may lose uplinks but neither repeats one nor     *)
(* brings a lost one back, and that is first in, first out until a sender  *)
(* has outlived its run.                                                   *)
(***************************************************************************)
EXTENDS Naturals, Sequences

VARIABLES
  next,     \* the number of the next uplink
  waiting,  \* the uplinks accepted, neither written nor lost
  sent,     \* the uplinks written
  mixed     \* the order is not kept any more

queueVars == <<next, waiting, sent, mixed>>

Init == next = 1 /\ waiting = {} /\ sent = <<>> /\ mixed = FALSE

Accept ==
  /\ next' = next + 1
  /\ waiting' = waiting \cup {next}
  /\ UNCHANGED <<sent, mixed>>

Write(u) ==
  /\ u \in waiting
  /\ mixed \/ \A v \in waiting : u <= v
  /\ waiting' = waiting \ {u}
  /\ sent' = Append(sent, u)
  /\ UNCHANGED <<next, mixed>>

Lose(lost) ==
  /\ waiting' = waiting \ lost
  /\ UNCHANGED <<next, sent, mixed>>

Mix ==
  /\ mixed' = TRUE
  /\ UNCHANGED <<next, waiting, sent>>

Next ==
  \/ Accept
  \/ \E u \in waiting : Write(u)
  \/ \E lost \in SUBSET waiting : Lose(lost)
  \/ Mix

Spec == Init /\ [][Next]_queueVars

=================================================================================
