--------------------------- MODULE ReceivedDownlink ---------------------------
(***************************************************************************)
(* The one-slot downlink mailbox of every device                           *)
(* (device/frames/downlink/receivedDownlink.go).  A gateway goroutine      *)
(* Pushes, the device goroutine Pulls, timer goroutines Signal.  Each      *)
(* method runs under the mailbox mutex and is one step, except Pull, which *)
(* gives the mutex up in Notify.Wait() and takes it again in a later step. *)
(***************************************************************************)

CONSTANTS
  Dev,      \* the devices
  Msg,      \* the downlinks the network server may send, each one once
  NoMsg     \* the nil pointer of an empty mailbox

ASSUME NoMsgAssumption == NoMsg \notin Msg

VARIABLES
  isOpen,   \* isOpen[d]:   the IsOpen flag
  downlink, \* downlink[d]: the Downlink pointer
  waiter    \* waiter[d]:   the device goroutine inside Pull

mailboxVars == <<isOpen, downlink, waiter>>

\* No goroutine in Wait; blocked in Wait; notified, but without the mutex yet.
WaiterState == {"none", "asleep", "woken"}

MailboxTypeOK ==
  /\ isOpen   \in [Dev -> BOOLEAN]
  /\ downlink \in [Dev -> Msg \cup {NoMsg}]
  /\ waiter   \in [Dev -> WaiterState]

MailboxInit ==
  /\ isOpen   = [d \in Dev |-> FALSE]
  /\ downlink = [d \in Dev |-> NoMsg]
  /\ waiter   = [d \in Dev |-> "none"]

\* Broadcast on the condition variables of the devices of D.
Broadcast(D) ==
  waiter' = [d \in Dev |->
               IF d \in D /\ waiter[d] = "asleep" THEN "woken" ELSE waiter[d]]

\* Push of m into the mailboxes of D: a closed one refuses it, an open one
\* overwrites what it held.
Push(D, m) ==
  LET accepting == {d \in D : isOpen[d]} IN
    /\ downlink' = [d \in Dev |-> IF d \in accepting THEN m ELSE downlink[d]]
    /\ Broadcast(accepting)
    /\ UNCHANGED isOpen

Signal(d) ==
  /\ Broadcast({d})
  /\ UNCHANGED <<isOpen, downlink>>

SetOpen(d, open) ==
  /\ isOpen' = [isOpen EXCEPT ![d] = open]
  /\ UNCHANGED <<downlink, waiter>>

\* Mutant of PullBlocks: Wait without testing the slot first.
MutantPullWaitsAlways(d) ==
  /\ waiter' = [waiter EXCEPT ![d] = "asleep"]
  /\ UNCHANGED <<isOpen, downlink>>

\* Pull on an empty mailbox: Notify.Wait().
PullBlocks(d) ==
  /\ downlink[d] = NoMsg
  /\ waiter' = [waiter EXCEPT ![d] = "asleep"]
  /\ UNCHANGED <<isOpen, downlink>>

\* Mutant of PullTakes: no reset of the slot.
MutantPullKeeps(d) ==
  /\ waiter' = [waiter EXCEPT ![d] = "none"]
  /\ UNCHANGED <<isOpen, downlink>>

\* The tail of Pull: take whatever is there, possibly nothing, and reset.
PullTakes(d) ==
  /\ downlink' = [downlink EXCEPT ![d] = NoMsg]
  /\ waiter'   = [waiter EXCEPT ![d] = "none"]
  /\ UNCHANGED isOpen

===============================================================================
