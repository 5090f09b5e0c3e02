----------------------------- MODULE ReceiveWindows -----------------------------
(***************************************************************************)
(* The devices' receive windows over the forwarder.  A device goroutine    *)
(* sends an uplink, then runs ReceiveWindows (classes/classA.go, classB.go *)
(* alike): RX1 and, if it brought nothing, RX2, each one Register, a       *)
(* delay, OpenWindow, UnRegister.  OpenWindow starts a timer goroutine     *)
(* that Signals the mailbox after DurationOpen and is never cancelled.     *)
(* Meanwhile gateways deliver downlinks, and the operator's handlers move  *)
(* devices and turn devices and gateways on and off.                       *)
(***************************************************************************)
EXTENDS Forwarder, Integers

CONSTANTS
  MaxStale,   \* bound: timers of earlier windows still running, per device
  EarlyTimer  \* may a window's timer fire before its Pull waits?

ASSUME WindowAssumption == MaxStale \in Nat /\ EarlyTimer \in BOOLEAN

VARIABLES
  pc,         \* pc[d]:    where the device goroutine is
  window,     \* window[d]: 1 in RX1, 2 in RX2
  freq,       \* freq[d]:  the frequency of that window
  resp,       \* resp[d]:  what OpenWindow returned
  timer,      \* timer[d]: this window's timer goroutine is pending
  stale,      \* stale[d]: the pending timers of earlier windows
  on,         \* on[d]:    Device.State is Running
  gwOn,       \* gwOn[g]:  Gateway.State is Running
  sent,       \* history:  the downlinks the network server has sent
  received,   \* history:  received[d], those OpenWindow returned to d
  orphan      \* history:  orphan[d], the registrations whose link was removed
              \*           after Register had used it

deviceVars  == <<pc, window, freq, resp, timer, stale>>
powerVars   == <<on, gwOn>>
historyVars == <<sent, received, orphan>>
vars == <<mailboxVars, tableVars, deviceVars, powerVars, historyVars>>

\* The stages of the device goroutine, in the order it goes through them.
Stage == {"off",       \* no goroutine
          "idle",      \* in the select of Run
          "register",  \* about to Register a window
          "delay",     \* registered, before the window's delay has elapsed
          "opened",    \* timer goroutine started, Pull not entered
          "pull",      \* inside Pull, blocked or just notified
          "tail",      \* Pull has returned, UnRegister is next
          "leaving"}   \* Exit was received, Forwarder.DeleteDevice is next

InWindow(d) == pc[d] \in {"delay", "opened", "pull", "tail"}

TypeOK ==
  /\ MailboxTypeOK
  /\ ForwarderTypeOK
  /\ pc       \in [Dev -> Stage]
  /\ window   \in [Dev -> {1, 2}]
  /\ freq     \in [Dev -> Freq]
  /\ resp     \in [Dev -> Msg \cup {NoMsg}]
  /\ timer    \in [Dev -> BOOLEAN]
  /\ stale    \in [Dev -> 0 .. MaxStale]
  /\ on       \in [Dev -> BOOLEAN]
  /\ gwOn     \in [Gw -> BOOLEAN]
  /\ sent     \subseteq Msg
  /\ received \in [Dev -> SUBSET Msg]
  /\ orphan   \in [Dev -> SUBSET (Freq \X Gw)]

Init ==
  /\ MailboxInit
  /\ ForwarderInit
  /\ pc       = [d \in Dev |-> "off"]
  /\ window   = [d \in Dev |-> 1]
  /\ freq     \in [Dev -> Freq]
  /\ resp     = [d \in Dev |-> NoMsg]
  /\ timer    = [d \in Dev |-> FALSE]
  /\ stale    = [d \in Dev |-> 0]
  /\ on       = [d \in Dev |-> FALSE]
  /\ gwOn     = [g \in Gw |-> FALSE]
  /\ sent     = {}
  /\ received = [d \in Dev |-> {}]
  /\ orphan   = [d \in Dev |-> {}]

--------------------------------------------------------------------------------
(* The device goroutine. *)

Goto(d, stage) == pc' = [pc EXCEPT ![d] = stage]

\* The uplink itself changes no state of this module.
SendData(d) ==
  /\ pc[d] = "idle"
  /\ Goto(d, "register")
  /\ window' = [window EXCEPT ![d] = 1]
  /\ UNCHANGED <<mailboxVars, tableVars, freq, resp, timer, stale, powerVars, historyVars>>

\* MAC commands change the windows' frequencies between any two windows.
RegisterWindow(d) ==
  /\ pc[d] = "register"
  /\ \E f \in Freq :
       /\ freq' = [freq EXCEPT ![d] = f]
       /\ Register(f, d)
       /\ orphan' = [orphan EXCEPT ![d] = @ \ ({f} \X devToGw[d])]
  /\ Goto(d, "delay")
  /\ UNCHANGED <<window, resp, timer, stale, powerVars, sent, received>>

\* Mutant of OpenWindow: only RX1 starts a timer.
MutantTimerForRX1Only(d) ==
  /\ pc[d] = "delay"
  /\ timer[d] => stale[d] < MaxStale
  /\ stale' = [stale EXCEPT ![d] = IF timer[d] THEN @ + 1 ELSE @]
  /\ timer' = [timer EXCEPT ![d] = window[d] = 1]
  /\ Goto(d, "opened")
  /\ UNCHANGED <<mailboxVars, tableVars, window, freq, resp, powerVars, historyVars>>

\* The delay elapses; OpenWindow starts the timer goroutine.
OpenWindow(d) ==
  /\ pc[d] = "delay"
  /\ timer[d] => stale[d] < MaxStale
  /\ stale' = [stale EXCEPT ![d] = IF timer[d] THEN @ + 1 ELSE @]
  /\ timer' = [timer EXCEPT ![d] = TRUE]
  /\ Goto(d, "opened")
  /\ UNCHANGED <<mailboxVars, tableVars, window, freq, resp, powerVars, historyVars>>

Return(d) ==
  /\ PullTakes(d)
  /\ resp' = [resp EXCEPT ![d] = downlink[d]]
  /\ received' = [received EXCEPT ![d] = @ \cup ({downlink[d]} \ {NoMsg})]
  /\ Goto(d, "tail")
  /\ UNCHANGED <<tableVars, window, freq, timer, stale, powerVars, sent, orphan>>

PullFull(d) ==
  /\ pc[d] = "opened"
  /\ downlink[d] # NoMsg
  /\ Return(d)

PullEmpty(d) ==
  /\ pc[d] = "opened"
  /\ PullBlocks(d)
  /\ Goto(d, "pull")
  /\ UNCHANGED <<tableVars, window, freq, resp, timer, stale, powerVars, historyVars>>

PullWakes(d) ==
  /\ pc[d] = "pull"
  /\ waiter[d] = "woken"
  /\ Return(d)

\* Mutant of UnRegisterWindow: the loop over the windows runs once too often.
MutantThirdWindow(d) ==
  /\ pc[d] = "tail"
  /\ UnRegister(freq[d], d)
  /\ orphan' = [orphan EXCEPT ![d] = @ \ ({freq[d]} \X devToGw[d])]
  /\ IF resp[d] # NoMsg \/ window[d] = 3
       THEN Goto(d, "idle") /\ UNCHANGED window
       ELSE Goto(d, "register") /\ window' = [window EXCEPT ![d] = @ + 1]
  /\ resp' = [resp EXCEPT ![d] = NoMsg]
  /\ UNCHANGED <<freq, timer, stale, powerVars, sent, received>>

\* A downlink ends ReceiveWindows; an empty RX1 is followed by RX2.
UnRegisterWindow(d) ==
  /\ pc[d] = "tail"
  /\ UnRegister(freq[d], d)
  /\ orphan' = [orphan EXCEPT ![d] = @ \ ({freq[d]} \X devToGw[d])]
  /\ IF resp[d] # NoMsg \/ window[d] = 2
       THEN Goto(d, "idle") /\ UNCHANGED window
       ELSE Goto(d, "register") /\ window' = [window EXCEPT ![d] = 2]
  /\ resp' = [resp EXCEPT ![d] = NoMsg]
  /\ UNCHANGED <<freq, timer, stale, powerVars, sent, received>>

\* Run receives the Exit message of TurnOFF.
ReceiveExit(d) ==
  /\ pc[d] = "idle"
  /\ ~on[d]
  /\ Goto(d, "leaving")
  /\ UNCHANGED <<mailboxVars, tableVars, window, freq, resp, timer, stale, powerVars,
                 historyVars>>

--------------------------------------------------------------------------------
(* The timer goroutines. *)

\* Mutant of TimerFires: the goroutine ends without its Signal.
MutantTimerIsMute(d) ==
  /\ timer[d]
  /\ timer' = [timer EXCEPT ![d] = FALSE]
  /\ UNCHANGED <<mailboxVars, tableVars, pc, window, freq, resp, stale, powerVars,
                 historyVars>>

TimerFires(d) ==
  /\ timer[d]
  /\ EarlyTimer \/ pc[d] # "opened"
  /\ timer' = [timer EXCEPT ![d] = FALSE]
  /\ Signal(d)
  /\ UNCHANGED <<tableVars, pc, window, freq, resp, stale, powerVars, historyVars>>

StaleTimerFires(d) ==
  /\ stale[d] > 0
  /\ stale' = [stale EXCEPT ![d] = @ - 1]
  /\ Signal(d)
  /\ UNCHANGED <<tableVars, pc, window, freq, resp, timer, powerVars, historyVars>>

--------------------------------------------------------------------------------
(* The gateways' receivers and the operator's handlers. *)

SendDownlink(g) ==
  /\ gwOn[g]
  /\ \E m \in Msg \ sent, f \in Freq :
       /\ Downlink(m, f, g)
       /\ sent' = sent \cup {m}
  /\ UNCHANGED <<deviceVars, powerVars, received, orphan>>

\* The registrations of d that the links L no longer lead to.
LosesLinks(d, L) ==
  orphan' = [orphan EXCEPT ![d] = @ \cup {r \in gwToDev[d] : r[2] \notin L}]

TurnOnDevice(d) ==
  /\ pc[d] = "off"
  /\ ~on[d]
  /\ on' = [on EXCEPT ![d] = TRUE]
  /\ \E p \in Place :
       /\ AddDevice(d, p)
       /\ LosesLinks(d, GatewaysAround(p))
  /\ Goto(d, "idle")
  /\ UNCHANGED <<window, freq, resp, timer, stale, gwOn, sent, received>>

\* TurnOFF sets the state, then blocks until Run is back in its select.
TurnOffDevice(d) ==
  /\ on[d]
  /\ on' = [on EXCEPT ![d] = FALSE]
  /\ UNCHANGED <<mailboxVars, tableVars, deviceVars, gwOn, historyVars>>

ForgetDevice(d) ==
  /\ pc[d] = "leaving"
  /\ DeleteDevice(d)
  /\ LosesLinks(d, {})
  /\ Goto(d, "off")
  /\ UNCHANGED <<window, freq, resp, timer, stale, powerVars, sent, received>>

ChangeLocation(d) ==
  /\ on[d]
  /\ \E p \in Place :
       /\ AddDevice(d, p)
       /\ LosesLinks(d, GatewaysAround(p))
  /\ UNCHANGED <<deviceVars, powerVars, sent, received>>

TurnOnGateway(g) ==
  /\ ~gwOn[g]
  /\ gwOn' = [gwOn EXCEPT ![g] = TRUE]
  /\ \E p \in Place : AddGateway(g, p)
  /\ UNCHANGED <<deviceVars, on, historyVars>>

\* turnOFFGateway describes the gateway to delete without its MAC address.
TurnOffGateway(g) ==
  /\ gwOn[g]
  /\ gwOn' = [gwOn EXCEPT ![g] = FALSE]
  /\ DeleteGateway(ZeroMAC)
  /\ UNCHANGED <<deviceVars, on, historyVars>>

--------------------------------------------------------------------------------

DeviceStep(d) ==
  \/ SendData(d)
  \/ RegisterWindow(d)
  \/ OpenWindow(d)
  \/ PullFull(d)
  \/ PullEmpty(d)
  \/ PullWakes(d)
  \/ UnRegisterWindow(d)
  \/ ReceiveExit(d)

TimerStep(d) == TimerFires(d) \/ StaleTimerFires(d)

OperatorStep(d) ==
  \/ TurnOnDevice(d)
  \/ TurnOffDevice(d)
  \/ ForgetDevice(d)
  \/ ChangeLocation(d)

GatewayStep(g) == SendDownlink(g) \/ TurnOnGateway(g) \/ TurnOffGateway(g)

Next ==
  \/ \E d \in Dev : DeviceStep(d) \/ TimerStep(d) \/ OperatorStep(d)
  \/ \E g \in Gw : GatewayStep(g)

Spec == Init /\ [][Next]_vars

\* The Go scheduler runs every runnable goroutine and every timer expires;
\* neither the operator nor the network server owes anyone a step.
Fairness ==
  \A d \in Dev : /\ WF_vars(DeviceStep(d))
                 /\ WF_vars(TimerFires(d))
                 /\ WF_vars(StaleTimerFires(d))

FairSpec == Spec /\ Fairness

--------------------------------------------------------------------------------
(* Properties. *)

\* The inductive form of WindowScoped.  The registrations of a device are those
\* its current window made and UnRegister will find, and the orphans; an open
\* mailbox has a registration, whose removal will close it.
RegistrationInv ==
  \A d \in Dev :
    /\ gwToDev[d] \ orphan[d] \subseteq
         IF InWindow(d) THEN {freq[d]} \X devToGw[d] ELSE {}
    /\ orphan[d] \subseteq gwToDev[d]
    /\ isOpen[d] => gwToDev[d] # {}

\* Between its windows a device hears nothing: unless links of it were removed
\* in the middle of a window (ChangeLocation), ReceiveWindows leaves neither a
\* registration in GwtoDev nor an open mailbox behind (forwarder/api.go
\* Register and UnRegister, each walking the links of its own moment).
WindowScoped ==
  \A d \in Dev : ~InWindow(d) /\ orphan[d] = {} => gwToDev[d] = {} /\ ~isOpen[d]

\* No lost wakeup: a device never sleeps in Pull on a mailbox that holds a
\* downlink, and nothing else than Pull ever waits on the mailbox
\* (receivedDownlink.go: Push and the test of Pull run under one mutex).
NoSleepOnFull ==
  \A d \in Dev : /\ waiter[d] # "none" => pc[d] = "pull"
                 /\ waiter[d] = "asleep" => downlink[d] = NoMsg

\* A sleeping device has a timer of its own window still to wake it, so no
\* stale timer can have used up the only wakeup (windows.go OpenWindow).
SleeperHasTimer ==
  \A d \in Dev : waiter[d] = "asleep" => timer[d]

\* The forwarder links a device it knows with every known gateway in its range,
\* in whatever order devices and gateways were added and moved (AddDevice,
\* AddGateway; the converse does not hold, a moved gateway keeps its links).
LinksCoverRange ==
  \A d \in Dev : Known(d) => GatewaysAround(devices[d]) \subseteq devToGw[d]

\* A mailbox accepts a downlink only during a window of its device and only on
\* that window's frequency, as long as no registration of the device has been
\* orphaned by a relocation (Forwarder.Downlink against Register, UnRegister).
AcceptedInWindow ==
  [][\A d \in Dev, f \in Freq, g \in Gw, m \in Msg :
       Downlink(m, f, g) /\ downlink'[d] = m /\ downlink[d] # m /\ orphan[d] = {}
         => InWindow(d) /\ f = freq[d] /\ g \in devToGw[d]]_vars

\* Every receive window closes: a registered device gets back to its loop,
\* whatever stale timers, relocations and downlinks come in between.
WindowCloses == \A d \in Dev : InWindow(d) ~> ~InWindow(d)

\* A downlink a mailbox accepted, be it too late for the window it was accepted
\* in, is returned by this or a later window, or overwritten by a later one, or
\* the device is turned off.
AcceptedLeaves ==
  \A d \in Dev, m \in Msg : downlink[d] = m ~> downlink[d] # m \/ ~on[d]

\* What a mailbox holds was sent and was not returned before, so a downlink is
\* returned to a device at most once (the reset in Pull).
HeldIsFresh ==
  \A d \in Dev : /\ downlink[d] \in (sent \ received[d]) \cup {NoMsg}
                 /\ received[d] \subseteq sent

\* Windows, mailboxes and forwarder together implement at-most-once delivery
\* through a one-place slot (module DownlinkDelivery).
Delivery == INSTANCE DownlinkDelivery WITH slot <- downlink

ImplementsDelivery == Delivery!Spec
================================================================================
