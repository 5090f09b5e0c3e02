------------------------------- MODULE Lifecycle -------------------------------
(***************************************************************************)
(* Starting and stopping the simulator and turning its components on and   *)
(* off, by handlers of the web server that run concurrently and share a    *)
(* wait group, the maps of active components and the counter               *)
(* ComponentsInactiveTmp without a lock.  The web page sends a toggle only *)
(* while it believes the simulator runs, and hides its start button until  *)
(* a stop was answered; edits come at any time.  What the goroutines do    *)
(* between their start and their end is the matter of the other modules.   *)
(***************************************************************************)
EXTENDS Integers, FiniteSets

CONSTANTS
  Device, Gateway,  \* identifiers of components
  Handler,          \* requests that may be served at once
  MaxRoutines,      \* bound: goroutines of one component
  MaxInactive       \* bound on ComponentsInactiveTmp

ASSUME LifecycleAssumption ==
  /\ Device \cap Gateway = {} /\ IsFiniteSet(Device \cup Gateway)
  /\ MaxRoutines \in Nat \ {0} /\ MaxInactive \in Nat \ {0}

Component == Device \cup Gateway

VARIABLES
  simState,  \* Simulator.State
  page,      \* StateSimulator of the web page
  saved,     \* saved[c]: the component exists, and its flag Active
  state,     \* state[c]: Device.State or Gateway.State
  active,    \* ActiveDevices and ActiveGateways
  inactive,  \* ComponentsInactiveTmp
  routines,  \* routines[c]: goroutines of Device.Run or Gateway.Receiver in their loop
  ending,    \* ending[c]: those that left it, before ExitGroup.Done
  group,     \* the counter of ExitGroup
  pc,        \* pc[h]: where handler h is
  job,       \* job[h]: what it was called for
  target,    \* target[h]: the component it is at
  todo,      \* todo[h]: the components its loop has not seen
  crashed,   \* the program has panicked
  clash,     \* history: two handlers were at one component
  reused     \* history: a Wait found the wait group in use again

simVars == <<simState, page, saved>>
groupVars == <<ending, group>>
handlerVars == <<job, target, todo>>
historyVars == <<clash, reused>>
vars == <<simVars, state, active, inactive, routines, groupVars, pc, handlerVars, crashed,
          historyVars>>

Stage == {"idle", "setup", "turnOn", "activate", "count", "add", "turnOff", "exit", "lost",
          "wait", "blocked", "woken", "forget", "uncount", "loop", "sum", "reset"}

TypeOK ==
  /\ simState \in {"Stopped", "Running"} /\ page \in BOOLEAN
  /\ saved \in [Component -> {"absent", "inactive", "active"}]
  /\ state \in [Component -> {"Stopped", "Running"}]
  /\ active \subseteq Component
  /\ inactive \in 0 .. MaxInactive
  /\ routines \in [Component -> 0 .. MaxRoutines]
  /\ ending \in [Component -> Nat]
  /\ group \in Nat
  /\ pc \in [Handler -> Stage]
  /\ job \in [Handler -> {"on", "off", "run", "stop"}]
  /\ target \in [Handler -> Component]
  /\ todo \in [Handler -> SUBSET Component]
  /\ crashed \in BOOLEAN /\ clash \in BOOLEAN /\ reused \in BOOLEAN

\* GetIstance, with what the files hold.
Init ==
  /\ simState = "Stopped" /\ page = FALSE
  /\ saved \in [Component -> {"absent", "inactive", "active"}]
  /\ state = [c \in Component |-> "Stopped"]
  /\ active = {} /\ inactive = 0
  /\ routines = [c \in Component |-> 0]
  /\ ending = [c \in Component |-> 0] /\ group = 0
  /\ pc = [h \in Handler |-> "idle"]
  /\ job = [h \in Handler |-> "on"]
  /\ target \in [Handler -> Component]
  /\ todo = [h \in Handler |-> {}]
  /\ crashed = FALSE /\ clash = FALSE /\ reused = FALSE

Calm == ~clash /\ ~reused

Busy(h) == pc[h] # "idle"
AtComponent(c) == \E h \in Handler : Busy(h) /\ job[h] \in {"on", "off"} /\ target[h] = c
AtAll == \E h \in Handler : Busy(h) /\ job[h] \in {"run", "stop"}

Exists(c) == saved[c] # "absent"
IsOn(c) == state[c] = "Running"

Goto(h, l) == pc' = [pc EXCEPT ![h] = l]

\* Bound: no request begins after a clash; the properties end there.
Begin(h, j, c, l) ==
  /\ ~Busy(h) /\ Calm
  /\ Goto(h, l)
  /\ job' = [job EXCEPT ![h] = j]
  /\ target' = [target EXCEPT ![h] = c]

\* A handler returns, or goes on with its loop.
Returns(h) == Goto(h, IF job[h] \in {"run", "stop"} THEN "loop" ELSE "idle")

--------------------------------------------------------------------------------
(* ToggleStateDevice, ToggleStateGateway, SetDevice, SetGateway, Delete... *)

Toggle(h, c) ==
  /\ page /\ Exists(c)
  /\ IF IsOn(c) THEN Begin(h, "off", c, "count")
                ELSE Begin(h, "on", c, "setup")
  /\ clash' = (clash \/ AtComponent(c))
  /\ UNCHANGED <<simVars, state, active, inactive, routines, groupVars, todo, crashed, reused>>

\* Mutant of MayEdit: a running component is edited.
MutantMayEditAny(c) == TRUE

\* A component that does not exist yet is off.
MayEdit(c) == ~IsOn(c)

\* A new component, or a new version of one, saved as active.
SetActive(h, c) ==
  /\ MayEdit(c)
  /\ saved' = [saved EXCEPT ![c] = "active"]
  /\ active' = active \cup {c}
  /\ IF simState = "Running" THEN Begin(h, "on", c, "setup")
                             ELSE Calm /\ UNCHANGED <<pc, job, target>>
  /\ clash' = (clash \/ AtComponent(c) \/ AtAll)
  /\ UNCHANGED <<simState, page, state, inactive, routines, groupVars, todo, crashed, reused>>

\* One saved as not active, or deleted.
SetOrDelete(c, s) ==
  /\ Calm /\ MayEdit(c)
  /\ saved' = [saved EXCEPT ![c] = s]
  /\ active' = active \ {c}
  /\ clash' = (clash \/ AtComponent(c) \/ AtAll)
  /\ UNCHANGED <<simState, page, state, inactive, routines, groupVars, pc, handlerVars, crashed,
                 reused>>

Edit(h) ==
  \E c \in Component :
    \/ SetActive(h, c)
    \/ \E s \in {"inactive", "absent"} : SetOrDelete(c, s)

--------------------------------------------------------------------------------
(* turnONDevice, turnONGateway. *)

\* A handler in TurnOFF of the device keeps sending to the channel Setup replaces.
Setup(h) ==
  LET c == target[h] IN
  /\ pc[h] = "setup"
  /\ state' = [state EXCEPT ![c] = "Stopped"]
  /\ pc' = [k \in Handler |-> IF k = h THEN "turnOn"
                              ELSE IF pc[k] = "exit" /\ target[k] = c THEN "lost"
                              ELSE pc[k]]
  /\ UNCHANGED <<simVars, active, inactive, routines, groupVars, handlerVars, crashed,
                 historyVars>>

TurnOn(h) ==
  LET c == target[h] IN
  /\ pc[h] = "turnOn" /\ routines[c] < MaxRoutines
  /\ state' = [state EXCEPT ![c] = "Running"]
  /\ routines' = [routines EXCEPT ![c] = @ + 1]
  /\ Goto(h, "activate")
  /\ UNCHANGED <<simVars, active, inactive, groupVars, handlerVars, crashed, historyVars>>

Activate(h) ==
  /\ pc[h] = "activate"
  /\ active' = active \cup {target[h]}
  /\ Returns(h)
  /\ UNCHANGED <<simVars, state, inactive, routines, groupVars, handlerVars, crashed, historyVars>>

--------------------------------------------------------------------------------
(* turnOFFDevice, turnOFFGateway, and what Stop shares with them. *)

Count(h) ==
  /\ pc[h] = "count" /\ inactive < MaxInactive
  /\ inactive' = inactive + 1
  /\ Goto(h, "add")
  /\ UNCHANGED <<simVars, state, active, routines, groupVars, handlerVars, crashed, historyVars>>

\* Mutant of Add: the goroutine is not counted.
MutantAddNothing(h) ==
  /\ pc[h] = "add"
  /\ Goto(h, "turnOff")
  /\ UNCHANGED <<simVars, state, active, inactive, routines, groupVars, handlerVars, crashed,
                 historyVars>>

Add(h) ==
  /\ pc[h] = "add"
  /\ group' = group + 1
  /\ Goto(h, "turnOff")
  /\ UNCHANGED <<simVars, state, active, inactive, routines, ending, handlerVars, crashed,
                 historyVars>>

AfterTurnOff(h) == IF job[h] = "stop" THEN "loop" ELSE "wait"

\* TurnOFF of a device blocks on its Exit channel; that of a gateway closes the
\* connection of the receiver.
TurnOff(h) ==
  LET c == target[h] IN
  /\ pc[h] = "turnOff"
  /\ state' = [state EXCEPT ![c] = "Stopped"]
  /\ Goto(h, IF c \in Device THEN "exit" ELSE AfterTurnOff(h))
  /\ UNCHANGED <<simVars, active, inactive, routines, groupVars, handlerVars, crashed,
                 historyVars>>

\* Mutant of Wait: it returns at once.
MutantWaitReturns(h) ==
  /\ pc[h] = "wait"
  /\ Goto(h, IF job[h] = "stop" THEN "reset" ELSE "forget")
  /\ UNCHANGED <<simVars, state, active, inactive, routines, groupVars, handlerVars, crashed,
                 historyVars>>

AfterWait(h) == IF job[h] = "stop" THEN "reset" ELSE "forget"

\* ExitGroup.Wait.
Wait(h) ==
  /\ pc[h] = "wait"
  /\ Goto(h, IF group = 0 THEN AfterWait(h) ELSE "blocked")
  /\ UNCHANGED <<simVars, state, active, inactive, routines, groupVars, handlerVars, crashed,
                 historyVars>>

WaitReturns(h) ==
  /\ pc[h] = "woken" /\ group = 0
  /\ Goto(h, AfterWait(h))
  /\ UNCHANGED <<simVars, state, active, inactive, routines, groupVars, handlerVars, crashed,
                 historyVars>>

\* "WaitGroup is reused before previous Wait has returned": the web server
\* recovers from the panic of a request, or does not.
WaitPanics(h) ==
  /\ pc[h] = "woken" /\ group # 0
  /\ Goto(h, "idle")
  /\ crashed' \in BOOLEAN /\ reused' = TRUE
  /\ UNCHANGED <<simVars, state, active, inactive, routines, groupVars, handlerVars, clash>>

Forget(h) ==
  /\ pc[h] = "forget"
  /\ active' = active \ {target[h]}
  /\ Goto(h, "uncount")
  /\ UNCHANGED <<simVars, state, inactive, routines, groupVars, handlerVars, crashed, historyVars>>

\* Mutant of Uncount: it is left out.
MutantUncountNot(h) ==
  /\ pc[h] = "uncount"
  /\ Returns(h)
  /\ UNCHANGED <<simVars, state, active, inactive, routines, groupVars, handlerVars, crashed,
                 historyVars>>

Uncount(h) ==
  /\ pc[h] = "uncount"
  /\ inactive' = inactive - 1
  /\ Returns(h)
  /\ UNCHANGED <<simVars, state, active, routines, groupVars, handlerVars, crashed, historyVars>>

--------------------------------------------------------------------------------
(* Run, Stop. *)

\* The start button, unless the simulator runs already; Run as far as its loops.
Run(h) ==
  /\ ~page /\ ~AtAll
  /\ simState = "Stopped"
  /\ Begin(h, "run", target[h], "loop")
  /\ simState' = "Running"
  /\ state' = [d \in Component |-> "Stopped"]
  /\ active' = active \cup {d \in Component : saved[d] = "active"}
  /\ todo' = [todo EXCEPT ![h] = active']
  /\ clash' = (clash \/ \E k \in Handler : Busy(k))
  /\ UNCHANGED <<page, saved, inactive, routines, groupVars, crashed, reused>>

\* The stop button.  Nobody counts on other handlers at this moment, except for
\* gateways that are being turned off: ComponentsInactiveTmp is there for them.
Stop(h) ==
  /\ page /\ simState = "Running"
  /\ Begin(h, "stop", target[h], "sum")
  /\ simState' = "Stopped" /\ page' = FALSE
  /\ clash' = (clash \/ \E k \in Handler : Busy(k) /\ (job[k] # "off" \/ target[k] \in Device))
  /\ UNCHANGED <<saved, state, active, inactive, routines, groupVars, todo, crashed, reused>>

\* Mutant of Stopping: those being turned off are counted again.
MutantStoppingAll == Cardinality(active)

Stopping == Cardinality(active) - inactive

\* ExitGroup.Add; negative, it panics.  A handler that has not counted its
\* gateway yet, or already taken it out of the map, spoils the sum.
Sum(h) ==
  /\ pc[h] = "sum"
  /\ crashed' = (group + Stopping < 0)
  /\ group' = IF crashed' THEN group ELSE group + Stopping
  /\ todo' = [todo EXCEPT ![h] = active]
  /\ clash' = (clash \/ \E k \in Handler : pc[k] \in {"count", "add", "uncount"})
  /\ Goto(h, "loop")
  /\ UNCHANGED <<simVars, state, active, inactive, routines, ending, job, target, reused>>

\* The loops go over the gateways first.
Visit(h, c) ==
  /\ pc[h] = "loop"
  /\ c \in todo[h] \cap active
  /\ c \in Device => todo[h] \cap active \cap Gateway = {}
  /\ target' = [target EXCEPT ![h] = c]
  /\ todo' = [todo EXCEPT ![h] = @ \ {c}]
  /\ Goto(h, IF job[h] = "run" THEN "setup" ELSE "turnOff")
  /\ UNCHANGED <<simVars, state, active, inactive, routines, groupVars, job, crashed, historyVars>>

\* Run ends and the page hears of it, or Stop comes to its Wait.
LoopEnds(h) ==
  /\ pc[h] = "loop" /\ todo[h] \cap active = {}
  /\ todo' = [todo EXCEPT ![h] = {}]
  /\ IF job[h] = "run" THEN page' = TRUE /\ Goto(h, "idle")
                       ELSE UNCHANGED page /\ Goto(h, "wait")
  /\ UNCHANGED <<simState, saved, state, active, inactive, routines, groupVars, job, target,
                 crashed, historyVars>>

Reset(h) ==
  /\ pc[h] = "reset"
  /\ active' = {}
  /\ Goto(h, "idle")
  /\ UNCHANGED <<simVars, state, inactive, routines, groupVars, handlerVars, crashed, historyVars>>

--------------------------------------------------------------------------------
(* The goroutines. *)

Leaves(c) ==
  /\ routines[c] > 0
  /\ routines' = [routines EXCEPT ![c] = @ - 1]
  /\ ending' = [ending EXCEPT ![c] = @ + 1]

\* Device.Run takes what a handler sends on Exit, which lets that handler go on.
DeviceExits(h) ==
  /\ pc[h] = "exit"
  /\ Leaves(target[h])
  /\ Goto(h, AfterTurnOff(h))
  /\ UNCHANGED <<simVars, state, active, inactive, group, handlerVars, crashed, historyVars>>

\* Gateway.Receiver sees that it may not execute.
ReceiverExits(c) ==
  /\ c \in Gateway /\ ~IsOn(c)
  /\ Leaves(c)
  /\ UNCHANGED <<simVars, state, active, inactive, group, pc, handlerVars, crashed, historyVars>>

\* ExitGroup.Done, deferred.
Done(c) ==
  /\ ending[c] > 0
  /\ ending' = [ending EXCEPT ![c] = @ - 1]
  /\ IF group = 0
     THEN crashed' = TRUE /\ UNCHANGED <<group, pc>>
     ELSE /\ group' = group - 1
          /\ pc' = [h \in Handler |-> IF group' = 0 /\ pc[h] = "blocked" THEN "woken" ELSE pc[h]]
          /\ UNCHANGED crashed
  /\ UNCHANGED <<simVars, state, active, inactive, routines, handlerVars, historyVars>>

--------------------------------------------------------------------------------

HandlerGoesOn(h) ==
  \/ Setup(h) \/ TurnOn(h) \/ Activate(h)
  \/ Count(h) \/ Add(h) \/ TurnOff(h)
  \/ Wait(h) \/ WaitReturns(h) \/ WaitPanics(h) \/ Forget(h) \/ Uncount(h)
  \/ Sum(h) \/ (\E c \in Component : Visit(h, c)) \/ LoopEnds(h) \/ Reset(h)

RoutineEnds(c) == ReceiverExits(c) \/ Done(c)

Next ==
  /\ ~crashed
  /\ \/ \E h \in Handler :
          \/ \E c \in Component : Toggle(h, c)
          \/ Edit(h) \/ Run(h) \/ Stop(h)
          \/ HandlerGoesOn(h) \/ DeviceExits(h)
     \/ \E c \in Component : RoutineEnds(c)

Spec == Init /\ [][Next]_vars

\* Handlers and goroutines that can run do; requests are not owed.
Fairness ==
  /\ \A h \in Handler : WF_vars(~crashed /\ (HandlerGoesOn(h) \/ DeviceExits(h)))
  /\ \A c \in Component : WF_vars(~crashed /\ ReceiverExits(c)) /\ WF_vars(~crashed /\ Done(c))

FairSpec == Spec /\ Fairness

--------------------------------------------------------------------------------
(* Properties. *)

Quiet == \A h \in Handler : ~Busy(h)

\* The wait group never goes negative as long as no two handlers are at one
\* component, not even when the simulator is stopped while gateways are being
\* turned off.
CalmNeverCrashes == Calm => ~crashed

\* No component has two goroutines, whatever requests one after the other, or two
\* at a time at different components, leave behind in Active, State and the maps;
\* two at one component do start two, and end this property.
OneRoutine == Calm => \A c \in Component : routines[c] + ending[c] <= 1

\* Between requests the maps, the states of the components and their goroutines
\* agree while the simulator runs, and nothing runs or is counted once it is
\* stopped.
StatesAgree ==
  Calm /\ Quiet =>
    IF simState = "Running"
    THEN \A c \in Component : /\ c \in active <=> IsOn(c)
                              /\ IsOn(c) <=> routines[c] = 1
    ELSE /\ group = 0 /\ inactive = 0
         /\ \A c \in Component : ~IsOn(c) /\ routines[c] + ending[c] = 0

\* A handler past its Wait finds the goroutine of its component gone; Stop finds
\* all of them gone.
WaitedForAll ==
  Calm => \A h \in Handler :
    /\ pc[h] \in {"forget", "uncount"} => routines[target[h]] + ending[target[h]] = 0
    /\ pc[h] = "reset" => \A c \in Component : routines[c] + ending[c] = 0

\* Every request is answered, although a handler that turns one component off
\* waits for those others turn off, too.
HandlersReturn == \A h \in Handler : Busy(h) /\ Calm ~> ~Busy(h) \/ ~Calm

================================================================================
