---------------------------- MODULE DownlinkDelivery ----------------------------
(***************************************************************************)
(* What the chain gateway receiver - forwarder - mailbox - receive window  *)
(* promises, without any of them: a downlink of the network server lands   *)
(* in the one-place slot of some of the devices, all at once, where it may *)
(* overwrite an older one; a device takes what its slot holds, and never   *)
(* takes the same downlink twice.                                          *)
(***************************************************************************)

CONSTANTS Dev, Msg, NoMsg

VARIABLES
  sent,     \* the downlinks sent so far
  slot,     \* slot[d]: the downlink waiting for d, or NoMsg
  received  \* received[d]: the downlinks d has taken

deliveryVars == <<sent, slot, received>>

Init ==
  /\ sent = {}
  /\ slot = [d \in Dev |-> NoMsg]
  /\ received = [d \in Dev |-> {}]

Send(m, D) ==
  /\ m \notin sent
  /\ sent' = sent \cup {m}
  /\ slot' = [d \in Dev |-> IF d \in D THEN m ELSE slot[d]]
  /\ UNCHANGED received

Take(d) ==
  /\ slot[d] # NoMsg
  /\ slot[d] \notin received[d]
  /\ slot' = [slot EXCEPT ![d] = NoMsg]
  /\ received' = [received EXCEPT ![d] = @ \cup {slot[d]}]
  /\ UNCHANGED sent

Next ==
  \/ \E m \in Msg, D \in SUBSET Dev : Send(m, D)
  \/ \E d \in Dev : Take(d)

Spec == Init /\ [][Next]_deliveryVars
=================================================================================
