# LWN-Simulator in TLA+

LWN-Simulator runs virtual LoRaWAN devices and gateways against a real network
server. A device is a goroutine that sends uplinks and listens in receive
windows; a gateway is a set of goroutines that exchange UDP packets with the
server; the forwarder between them is a table of who can hear whom. The hard
part of the program is what these goroutines, their timers and the web
handlers do to each other's state. This directory holds the models of that
part, what TLC checks about them on small instances, and what TLAPS proves
about them for every instance.

The repository has no tests of its own. Everything below refers to the Go code
under `src/`; `simulator/` stands for `src/simulator/`.

## 1. The system

| Component | State | Operations | Talks to |
|---|---|---|---|
| Downlink mailbox (`device/frames/downlink/receivedDownlink.go`) | one slot, `IsOpen`, a condition variable | `Push`, `Pull`, `Signal`, `Open`, `Close`, `Wait` | gateways push through the forwarder, the device pulls, timers signal |
| Receive windows (`features/windows.go`, `classes/classA.go`, `classB.go`) | window, its frequency, its timer goroutine | `ReceiveWindows`, `OpenWindow` | forwarder (`Register`, `UnRegister`), mailbox |
| Forwarder (`components/forwarder`) | `Devices`, `Gateways`, `DevToGw`, `GwtoDev` under one mutex | `AddDevice`, `AddGateway`, `DeleteDevice`, `DeleteGateway`, `UpdateDevice`, `Register`, `UnRegister`, `Uplink`, `Downlink` | called by devices, gateways and web handlers |
| Device (`device.go`, `functionality.go`, `otaa.go`, `uplinks.go`, `downlinks.go`) | `State`, `Status` (mode, join state, counters, data rate, buffered uplinks), keys | `Run`, `OtaaActivation`, `Execute`, `FPendingProcedure`, `ADRProcedure`, `SwitchChannel`, `ProcessDownlink`, repetitions | windows, forwarder, its own exit channel |
| ADR back-off (`features/adr`) | `ADRACKCnt`, `ADRACKReq` | `ADRProcedure`, `Reset` | device, region |
| MAC commands (`executeMAC.go`, `macCommands/`, `frames/uplink`) | queued answers, `FOpts`, frame counter | thirteen `execute...`, `GetFrame`, `loadFOpts` | device status, channels |
| Regions and channels (`regional_parameters/`, `verify.go`) | channel lists, tables | `SetupRX1`, `LinkAdrReq`, `SwitchChannel`, `setChannel` | device configuration |
| Class C (`classes/classC.go`, `device/classC.go`) | `Open`, three condition variables, one downlink | `RX2`, `DownlinkReceivedRX2ClassC` | mailbox, device |
| Gateway (`components/gateway`, `resources/communication/buffer`) | `State`, uplink buffer, UDP connection, statistics | `TurnON`, `TurnOFF`, `Receiver`, `Sender...`, `KeepAlive` | forwarder, network server |
| Lifecycle (`simulator/api.go`, `simulator.go`) | maps of components and of the active ones, wait group | `Run`, `Stop`, toggles, `SetDevice`, `SetGateway`, deletions | every component |
| Persistence (`util/manageFile.go`, `saveStatus`) | three JSON files | load, save | lifecycle |
| Packet formats, web server, console | none that outlives a call | encoding, printing | |

### What is hard, and what must hold

* **Windows and mailbox.** Three kinds of goroutine meet in one slot. A timer
  is never cancelled, so the signal of a finished window reaches a later one.
  `UnRegister` walks the links of its own moment and not those `Register`
  walked. Must hold: a device never sleeps on a full mailbox; it hears nothing
  outside its windows; nothing is delivered twice; every window closes.
* **Forwarder.** Devices and gateways come, go and move in any order, in the
  middle of windows. Must hold: whoever is in range is linked.
* **Device.** `Mode` is set in seven places, procedures return early on errors
  and when the device is turned off, and the ADR procedure may unjoin and join
  again in the middle of `Execute`. Must hold: `CreateUplink` always finds a
  payload; repetitions are bounded and stop with an acknowledgement; a device
  that cannot join is never unjoined; no downlink counts twice; `TurnOFF`
  always gets through.
* **ADR back-off.** An 8-bit counter compared with `==` and `%`. Must hold: a
  data rate falls, and a session is given up, only after long silence.
* **Gateway.** A sender is told to stop by a state it looks at only after
  `Pop`, and turning a gateway on replaces the buffer under the forwarder and
  the senders of earlier runs. Must hold: no uplink is written twice; the
  buffer of a running gateway drains; `TurnOFF` gets its wait group back; apart
  from `Setup`, nothing crashes.
* **Class C.** `Run` and `RX2` listen through one mailbox, and a third goroutine
  is to execute what `RX2` heard; a flag, three condition variables and one
  mutex are to keep them apart. Must hold: each downlink is taken once; neither
  loses the wakeup it needs; what `RX2` heard is executed (it is not, section 6);
  a device that is turned off stops.
* **Frames and MAC commands.** Handlers append to queues the device's goroutine
  takes from, without a lock; answers wait in one queue and, some of them, until
  a downlink comes. Must hold: what is queued leaves once and in order; the
  fragments of a payload make it up again.
* **Regions and channels.** Ten regions with tables of their own; masks, rates
  and channels come from the server and are checked in some places only. Must
  hold: reserved channels stay; every lookup of a channel succeeds; the device
  switches to channels it may use.
* **Lifecycle.** Handlers run concurrently; a wait group counts goroutines that
  another handler may be stopping. Must hold, unless two handlers are at one
  component: goroutines, states and maps agree, the wait group is never
  negative, a handler that waited finds its component gone, and every handler
  returns.
* **Persistence.** Files are written one after the other, not atomically.

`PROJECT.json` lists every hazard at its line, with the property that guards
against it or the reason why none does yet.

## 2. Modules

| Module | Models | Notes |
|---|---|---|
| `ReceivedDownlink` | the mailbox | state `isOpen`, `downlink`, `waiter`; one operator per method. `Pull` is two steps, because it gives its mutex up in `Wait` |
| `Forwarder` | the routing tables | one operator per method, each one step under the mutex. `gwToDev[d]` is the set of `<<frequency, gateway>>` keys under which the mailbox of `d` is registered |
| `ReceiveWindows` | the device goroutine inside `ReceiveWindows`, timers, gateways' downlinks, relocations, toggles | composes the two above; device goroutines step through `register`, `delay`, `opened`, `pull`, `tail` |
| `DownlinkDelivery` | the abstract promise: at-most-once delivery through a one-place slot | `ReceiveWindows` implements it (`ImplementsDelivery`) |
| `ReceiveWindows_proofs` | theorems about `ReceiveWindows` | section 5 |
| `Adr` | the back-off and `DecrementDataRate` as operators | counter width, limit and period are parameters |
| `Device` | the goroutine of `Run`: OTAA, `Execute`, FPending, ADR, repetitions | classes A and B |
| `Device_proofs` | theorems about `Device` | section 5 |
| `AdrBackoff` | the back-off with the constants of the code, 64, 32 and an `int8`, under frames, repetitions and downlinks in any order | extends `Adr`; the order of the calls is the matter of `Device` |
| `AdrBackoff_proofs` | theorems about `AdrBackoff` | section 5 |
| `GatewayUplink` | one gateway: `BufferUplink`, `SenderVirtual`/`SenderReal`, the end of `Receiver`, `turnONGateway`, `turnOFFGateway` | `stage[s]` is the place of sender goroutine `s`, `op` that of the handler; `Push` is `Forwarder.Uplink` |
| `UplinkDelivery` | the abstract promise of a gateway: a queue that may lose uplinks | `GatewayUplink` implements it (its `ImplementsDelivery`): what waits there is what is in the buffer or in the hands of a sender |
| `Lifecycle` | `Run`, `Stop`, toggles, edits and deletions as handlers over `ExitGroup`, the maps of active components and `ComponentsInactiveTmp` | `pc[h]` is the place of handler `h`, `job[h]` what it was called for; a goroutine is a count, in its loop (`routines`) or before `Done` (`ending`) |
| `Regions` | the ten regions as records: channels, rates, offsets of RX1; the operators of the Go interface `Region` that compute with them | no state |
| `Channels` | a class A device's channels and data rate: `SwitchChannel`, `SetupRX1`, join accepts, the MAC commands that configure a radio | extends `Regions`; `stage` follows `Execute`, `pending` says that it is in `FPendingProcedure`; `masksHeard` is history |
| `Frames` | `BufferUplinks`, fragmentation, `FOpts`, the answers that are kept, the time of `AlignCurrentTime`, `GetFrame`, `SendEmptyFrame`, and the web handlers that append to both queues | a handler reads a queue in one step and writes it in another |
| `ClassC` | the goroutines of class C: `Run`, `RX2`, `DownlinkReceivedRX2ClassC`, over the mailbox, `Open` and `InfoClassC` | `stage`, `rx2[o]`, `exec[o]` are their places; `o` numbers the `TypeC` objects, of which a device that joins again leaves one behind; `stopper` is in the middle of a `CanExecute` that stops them |
| `GatewayUplink_proofs`, `ClassC_proofs`, `Channels_proofs`, `Lifecycle_proofs`, `Frames_proofs` | theorems about `GatewayUplink`, `ClassC`, `Channels`, `Lifecycle`, `Frames` | section 5 |
| `MCReceiveWindows`, `MCDevice`, `MCAdrBackoff`, `MCGatewayUplink`, `MCLifecycle`, `MCChannels`, `MCFrames`, `MCClassC` | instances for TLC | |

Where a step ends. Methods that hold a mutex throughout are one step. The
device goroutine is cut where it blocks and where it reads state another
goroutine may write: in `ReceiveWindows` between registering, the start of the
timer, `Pull` and unregistering; in `Device` before every `CanExecute`, at the
receive windows, before `ADRProcedure` and before the repetitions.

In `GatewayUplink`, `Push`, `Pop` and `Signal` hold the mutex of the buffer;
`Pop` is cut where it waits, `Setup` between the new buffer and its condition
variable. `Setup` overwrites a mutex others may hold; whether the program dies
of that is left open (`crashed' \in BOOLEAN`). A sender whose condition variable
was replaced waits for ever and has the stage `"orphan"`.

In `Lifecycle` a handler is cut wherever it touches something another one
reads. What the web page allows is part of the model (`page`): toggles are sent
only while it shows a running simulator, and start is hidden until a stop was
answered. One browser is assumed, with any number of its requests in flight.
The maps are Go maps, whose simultaneous use by two goroutines may also abort
the program; that outcome of the data race is left out.

`ReceiveWindows` and `Device` look at one device goroutine at different depths.
`ReceiveWindows` refines "the windows bring something or nothing" and leaves
out what the device does with it. `Device` takes what `DownlinkDelivery`
promises, and weakens it further: a downlink that was sent may be heard late,
again or never. `Channels` and `Frames` look at the same `Execute` again, one at
what it sets up the radio with and one at what it sends; whether it repeats,
asks for an answer or unjoins is left open there and decided in `Device`.
`ClassC` has its own windows over the mailbox and leaves open what comes of a
downlink.

In `Channels` an uplink with its windows is two steps, what is sent and what is
heard, since every variable of it belongs to the device's goroutine. A downlink
brings one command or one block of `LinkADRReq`. The channel drawn at random is
any that the loop of `SwitchChannel` may end with: it draws without putting
back until it finds one or has tested as many as it wants. A panic is the
variable `crashed`, after which nothing happens. The Go slice of channels that
`LinkAdrReq` works on is an alias of the device's, so a refused request has
changed it already; the operators return the channels they leave behind beside
the answer.

In `Frames` answers are numbered in the order in which they are made, and have
the size of their encoding; a payload is its number and length, a part of it a
range. With `AlignCurrentTime` four bytes of time are appended to a part. The part is a
Go slice of the payload, so the time is written over the bytes behind it, which
are those of the next part: `spoilt` says which, and `periodic` keeps it for the
payload that is sent again and again. What a last part is followed by depends on
how much was allocated, and is left open. `Chosen` is what `SelectSeq` would return, written as a function of
positions so that proofs can use it. `loadFOpts` is `Loaded`, which fills a frame, and `Unloaded`, which takes
what was loaded from the queue.

In `ClassC` a step ends where a goroutine takes or gives up a mutex, waits, or
looks at `Open`. `RX2` gives the mutex back between looking at `Open` and waiting
on its condition variable, so the two are steps of their own. `CanExecute` of a
stopped device closes `RX2` (`Stops`) before it takes the mutex of `InfoClassC`
twice (`WakesUp`), with the mutex of the device in its hands all the while. As in
`ReceiveWindows` without early timers, a window's timer expires when `Run` is in
its `Pull`.

What is abstracted. Frames are what their receiver looks at: a counter, the
acknowledgement and FPending flags; one under keys the device does not have is
noise, whoever sent it.
Locations are a set of places with a relation `Near` for `inRange`. In `Device` the channel
`SwitchChannel` picks appears only through the data rate it may change, and a
`LinkADRReq` through the rate and the number of repetitions it leaves, the 255 and
the 0 of the code among them. The
flag `ADRACKReq`, which only the server reads, and all printing are left out.

History variables (`sent`, `received`, `orphan` in `ReceiveWindows`; `tries`,
`acked`, `heard` in `Device`) record what happened and guard nothing, except
that a downlink of `Msg` is sent once. An *orphan* is a registration whose link
was removed after `Register` used it; a relocation in the middle of a window
makes one, and the code never removes it. The properties say what holds
without orphans, the model shows what happens with them.

## 3. Runs

| Run | Instance | Shows |
|---|---|---|
| `window_safety` | 1 device, 2 gateways, 2 places, 2 frequencies, 2 downlinks, 1 stale timer | `WindowScoped`, `NoSleepOnFull`, `LinksCoverRange`, `HeldIsFresh`, `AcceptedInWindow`, refinement of `DownlinkDelivery` |
| `window_live` | 1 device, 1 gateway, 2 places, no symmetry, fairness | `SleeperHasTimer`, `WindowCloses`, `AcceptedLeaves` |
| `device` | OTAA, ADR, 1 repetition, sessions of 2 downlinks, counters modulo 2, one queued uplink, one data rate of the region, fairness | `UplinkModes`, `RepetitionsBounded`, `AckStopsRepetition`, `NoReplay`, `TurnOffCompletes` |
| `adr_backoff` | 64, 32 and 128, three data rates from 0, uplinks of 1, 2 or 5 frames, 400 frames without an answer | `RequestAfterSilence`, `SilenceBeforeBackOff`, `AdrNeverLowersRate` |
| `gateway_uplink` | 3 senders, 2 uplinks at a time, fairness | `SentOnceInOrder`, refinement of `UplinkDelivery`, `NoSleepOnUplinks`, `CrashesOnlyInSetup`, `TurnOffReturns`, `BufferDrains` |
| `lifecycle` | 1 device, 1 gateway, 2 handlers, components absent, inactive or active in the files, fairness | `CalmNeverCrashes`, `OneRoutine`, `StatesAgree`, `WaitedForAll`, `HandlersReturn` |
| `channels` | all ten regions, three of them (`FullRegions`, one per kind of mask) with every request, the others with one of each kind | `ReservedIntact`, `ChannelsExist`, `Rx1Decodable`, `SwitchPicksUsable` |
| `frames` | limits of 2 commands and 5 bytes, payloads of 3, frames with room for 2, 1 or nothing, 2 uplinks, 3 answers; four configurations, in which every two of class, fragments and `AlignCurrentTime` come in every combination | `SentOnceInOrder`, `Reassembles` |
| `class_c` | one `TypeC` object, one restart, windows on one frequency and on two, 2 downlinks, fairness | `OneTaker`, `Rx1Closes`, `Rx2WakesAgain`, `StopReturns` |
| `class_c_rx2` | as `class_c`, without a restart, one downlink | finding, section 6 |
| `repetitions_restart` | sessions of one downlink, counters modulo 3, two data rates | finding, section 6 |
| `answers_at_limit` | limits of 15 and 15 as in the code, 15 answers from the console | finding, section 6 |

**Bounds.** In `ReceiveWindows` two places and two gateways suffice to gain and
lose links in every order; two frequencies separate a window from the next; two
downlinks allow one to overwrite another; one stale timer is what a window that
ended early leaves behind, and further ones only repeat its signal. Two devices
share nothing but the forwarder's mutex; that one downlink may fill two slots is
covered by the theorems, which are for any number of devices. In `Device` one
repetition already puts every carry-over in reach (a repetition across a
restart, across a new join, across an FPending procedure); a `LinkADRReq` asks
for two repetitions or sets them to 0. One data rate, and the 255 outside the
region's, make the back-off lower the rate or unjoin; no property of the run
asks for more of it. The number of sessions needs no bound, since all that
matters of them is whether device and server have the same keys. Two downlinks
in one session are enough to skip one and to repeat one. The ADR counter is
scaled down (limit 1, period 1, wrap at 3, for 64, 32 and 128) so that the
search passes the limit, the back-off and the wrap. `adr_backoff` has the real
constants; its 400 frames take the counter through one and a half turns of the
`int8`. In `gateway_uplink` two senders are enough to share a buffer and a third
one to have a sender asleep for ever on a replaced condition variable besides;
two uplinks tell the one that wakes the senders from the one behind it. A sender
that has ended is reused for the next run, so that the gateway can be turned on
and off without end; one more than `Sender` has members cannot be alive at once.
In `lifecycle` two handlers are a stop, or an edit, in the middle of a toggle; a
device and a gateway differ in how `TurnOFF` waits, and two components are
enough for one handler to wait for the other's. No request begins after two
handlers met at one component, because no property speaks of what follows.

In `channels` a device may have eight channels (`MaxChannels`): the three
reserved ones of EU868 with a `CFList` of five, or with channels of
`NewChannelReq` behind a gap. `Draws` narrows the channels drawn to one in eight
for the regions with 80 channels and two for CN470; which one of a group is
drawn tells no two of them apart but for the last of its pass. What the server
may send is in `MCChannels`: masks of defined and undefined channels in commands
and in join accepts, rates of the region, of few channels and of none, frequencies inside and outside, an
offset the region knows and one it does not. The three full regions are one for
each way of masking, AU915 standing for US915 there; the seven others answer
through the same code and differ in `Regions`.

In `frames` a limit of two commands is met by the third answer, and five bytes
do not hold the answers a downlink may ask for; a payload of three takes two
frames, three, or does not fit. `answers_at_limit` has the code's own numbers.
In `class_c` the frequencies are fixed for a run (`FreqPairs`), one timer is
pending at a time, an uplink is one frame, a join is one step and there is one
gateway; two downlinks
are one for each listener, and one restart is what leaves goroutines of an old
run behind. A second `TypeC` object (`MaxObj`) does not fit into the run.

Every bound is a named constant: `MaxStale`, `MaxDown`,
`MaxQueue`, `MaxSilence`, `MaxUplinks`, `MaxAnswers`, `MaxRoutines`,
`MaxInactive`, `MaxChannels`, `Draws`, `MaxObj`, `MaxStarts`, and the sets of
goroutines, messages, requests and lengths.

**Fairness.** `FairSpec` of `ReceiveWindows` assumes that a runnable device
goroutine runs and that timers expire, as the Go scheduler and runtime provide;
operators, gateways and the server owe nothing. `EarlyTimer = FALSE` in the
liveness run says that a window is open longer than the step from starting its
timer to `Wait`. The code relies on this: a timer that expires before `Wait`
signals nobody, and the device then sleeps until a downlink arrives. The safety
run keeps `EarlyTimer = TRUE`. `FairSpec` of `Device` assumes that its
goroutine runs and that its windows close, which is `WindowCloses` of the
other module.

`FairSpec` of `GatewayUplink`
assumes that senders, the receiver and a handler that has begun run;
packets from the server are not owed.

`FairSpec` of `Lifecycle`
assumes that handlers and goroutines run, `Device.Run` taking the Exit message
included (`TurnOffCompletes` of `Device`); requests are not owed.

`Fairness` of `ClassC` assumes that the three kinds of goroutine run and that
timers expire; the tickers are part of `Run`. Downlinks and switches of the
operator are not owed.

Deadlock is checked except where the system may stop: in `GatewayUplink` and
`Lifecycle` the program may have crashed, senders may sleep for ever, and handlers
may wait for each other; in `Channels` and `Frames` it may have crashed, or all
that was bounded has been used up; in `ClassC` everyone may be waiting for the
mutex an executor has locked twice, or the device has been turned off for good.

## 4. Properties worth a word

* `RegistrationInv` accounts for every registration: it belongs to the current
  window on the current frequency and over a current link, or it is an orphan,
  and an open mailbox has one. It is inductive and everything about scoping
  follows from it.
* `NoSleepOnFull` is the absence of lost wakeups. The code tests the slot with
  `if`, not `for`; what keeps it right is that test and `Wait` share the mutex
  with `Push`.
* `SleeperHasTimer` says that a stale timer can close a window early but can
  never use up the wakeup a later window needs.
* `UplinkModes` stands for the absence of a nil dereference: in the modes
  `FPending` and `Activation`, `CreateUplink` would truncate a nil payload.
* `RepetitionsBounded` counts the transmissions the code counts. It does not
  count those followed by a downlink in error, where `Execute` returns early;
  there the code repeats without bound.
* `NoReplay`: what was accepted stays below the counter expected next, across
  frames of other types, which advance the counter, and new sessions, which do
  not reset it. Its other side, a device that is deaf for the rest of a session
  after one lost downlink, is in the model and no document denies it.

* `SilenceBeforeBackOff` counts silence in a variable the counter cannot reach:
  the counter steps over values when an uplink is cut into several frames, and
  wraps. `AdrNeverLowersRate` is a consequence of the wrap that the code does
  not seem to intend: 96 is the only count that divides by 32, exceeds 64 and
  fits an `int8`, and with ADR it is taken by the first `switch`.
* `SentOnceInOrder` of `GatewayUplink`: the order holds only until a sender
  outlives its run. Two senders on one buffer are reachable: one that is sending
  while the gateway is turned off and on sees `Running` again. They may write
  uplinks out of order, and one that `Signal` woke too late writes an empty
  packet. Nothing is sent twice nevertheless. `ImplementsDelivery` says the rest
  of it: what `Setup` discarded, a stopped sender dropped or a closed connection
  refused never comes back.
* `NoSleepOnUplinks` is what makes it right that `Push` wakes the senders for
  the first uplink only: since `Broadcast` wakes all of them and a sender waits
  only on an empty buffer, nobody sleeps on a second one.
* `CrashesOnlyInSetup` bounds a crash the model does contain: `turnONGateway`
  publishes the buffer before `Setup` gives it a condition variable.

* The properties of `Lifecycle` hold while it is `Calm`: no two handlers at one
  component, and no `Wait` that found the wait group in use again. Both happen
  in the model: two toggles of a device leave one handler at its Exit channel
  for ever, and a toggle that comes while an earlier one is on its way out of
  `Wait` makes that one panic. Stopping the simulator while a gateway is being
  turned off is calm, except in the moments where the gateway is in one of
  map, counter and wait group but not yet in the others: that is what
  `ComponentsInactiveTmp` achieves, and for devices it does not, because `Stop`
  sends a second Exit message nobody takes.

* `ReservedIntact` is about requests that are refused as well: they change
  channels through the alias before they are. Where masks are by channel no command
  touches a reserved one; in the other regions masks and `DLChannelReq` do. The
  masks of a join accept are applied whatever the region (`ApplyMasks`): they panic
  at a channel the device does not have, and where they do not, they may disable a
  reserved one (`masksHeard`), but change nothing else of it.
* `SwitchPicksUsable` has the exceptions of the code: AU915
  and CN470 fall back to channel 0 whatever the masks say, US915 goes on to
  channel 71 without looking, and the other regions fall back to channel 0, which
  is enabled unless a join accept has masked it.
* `Rx1Decodable` assumes a rate of the region. A block of `LinkADRReq` answered
  with an error leaves the rate at `uint8(-1)`, from which the next window
  inherits.
* `SentOnceInOrder` of `Frames` speaks of queues no handler has overwritten
  (`stale`) and, for answers, of frames below the limit (`full`). Beyond either
  the code does send things twice, which the model shows.
* `Reassembles` speaks of the parts frames are cut from. That their bytes are
  those of the payload it says without `AlignCurrentTime` only: with it, time has
  taken the place of up to four bytes at the head of each later part.
* `Rx2DownlinkExecuted` says that class C works, and is a finding (section 6). The
  other properties of `ClassC` say what works nevertheless.
* `StopReturns` crosses `Run`, the windows and `CanExecute`, which wakes the others with
  the device's mutex in its hands and needs a second one for it. Its exception is
  an executor that has locked that one twice, which takes a restart: one that the
  stop woke and that looks at the state only when the device runs again.
* `Rx2WakesAgain` bounds the lost wakeup of `RX2`, which looks at `Open` before
  it waits: the next window wakes it.

## 5. Proofs

`ReceiveWindows_proofs`, for all sets of devices, gateways, places,
frequencies and downlinks, and all bounds:

* `TypeCorrect`: `Spec => []TypeOK`. The mailbox operators are typed once, in
  lemmas, and `TypeStep` goes through the actions.
* `RegistrationsAccounted`: `RegistrationInv` is inductive relative to
  `TypeOK`. `WindowScoped` itself is not: it says nothing about the middle of a
  window. `RegistrationInv` says which registrations a window has and that they
  are those `UnRegister` will find; `WindowsAreScoped` follows at once.
* `NoLostWakeup`: inductive together with `TypeOK`.
* `HeldDownlinksAreFresh` and `WindowsImplementDelivery`: the lemma `SlotSteps`
  says that every step either leaves slots and histories alone, or sends a new
  downlink into some slots, or takes one slot's content. Freshness and the
  refinement are both read off it.
* `SleepersWake` (`SleeperHasTimer`), for instances without early timers: the
  theorem has `~EarlyTimer` as its hypothesis, since with early timers the
  property is false (section 3, fairness). `TimerInv` adds that a device about
  to wait has a timer too.
* `RangeIsCovered` (`LinksCoverRange`) is inductive together with `TypeOK`. It
  says that whoever is in range is linked, not that whoever is linked is in range,
  which is false: a relocation can leave links behind.
* `AcceptedOnlyInWindow` (`AcceptedInWindow`), an action property: without
  orphans `RegistrationInv` says whose key `Downlink` found.

`Device_proofs`, for all parameters:

* `DeviceTypeCorrect`, `PayloadsExist` (`UplinkModes`), `RepetitionsStayBounded`
  (`RepetitionsBounded`), `AckedIsNotRepeated` (`AckStopsRepetition`),
  `AbpStaysJoined` (`AbpNeverUnjoined`, which no run checks: its devices have OTAA) and `NothingAcceptedTwice` (`NoReplay`),
  each `Spec => []...`. The rate in `DeviceTypeCorrect` is one of the region or
  255, which a `LinkADRReq` with errors leaves. `RepetitionsStayBounded` has the
  scope of its property (section 4).
* They follow from one invariant, `DeviceInv`. Of its parts only `NoReplay` and
  `AbpNeverUnjoined` are inductive as the runs state them. `ModeInv` says what
  the modes are at the other stages, down to the join loop inside `Execute`: a
  device that was turned off may have any mode, but then does not get to
  `CreateUplink`. `TriesInv` ties the number of transmissions to the repetition
  counters, with a different offset between two calls of `Execute` and within
  one; that the counter of confirmed repetitions may be too high after a restart
  does not hurt it, which is why the bound holds and the finding of section 6
  does too. `AckInv` says that an accepted acknowledgement is still in
  `Execute`'s hands when it decides about the repetition.
* `NextCases` splits a step into the actions once; each part of the invariant
  has a lemma with one step per action.

`AdrBackoff_proofs`, for every region, data rate and bound, with the three
constants fixed by `Int8Counter`: `RequestsAreDue` (`RequestAfterSilence`),
`BackOffIsDue` (`SilenceBeforeBackOff`) and `AdrSparesRate`
(`AdrNeverLowersRate`). The invariant adds to `TypeOK` that the counter is
`silent`, wrapped to an `int8` (`CntInv`): the wrap can only delay the back-off.

`GatewayUplink_proofs`, for any number of senders and uplinks:

* `TypeCorrect`: `Spec => []TypeOK`.
* `NoLostWakeup` (`NoSleepOnUplinks`): inductive together with `TypeOK`.
* `OnlySetupCrashes` (`CrashesOnlyInSetup`). The invariant `NotifyInv` says
  when the buffer has no condition variable: in `Setup`, and before the gateway
  was first turned on, when nobody can reach it.
* `UplinksInOrder` (`SentOnceInOrder`). That nothing is written twice is
  `OnceInv`, which holds with any number of senders: the buffer is in the order
  of `Push` (`Rising`), and an uplink is in the buffer, in the hands of one
  sender, or written (`Apart`). The order is `OrderInv`: while no sender
  outlives its run there is one (`OneSender`), and what it holds lies between
  what was written and what is in the buffer (`Ordered`).
* `GatewayImplementsQueue` (`ImplementsDelivery`): initial states map to initial
  states, and `DeliveryStep` maps each action to a step of `UplinkDelivery` or
  none. `Apart` makes what a sender writes or drops leave the queue, and
  `Ordered` makes it the oldest.

`ClassC_proofs`, for any number of objects, restarts and downlinks:

* `EachTakenOnce` (`OneTaker`). It rests on `SlotInv`: what is in the slot was
  sent and not taken yet.
* `ExecutionNeedsRestart`: before the device is started a second time no executor
  executes anything (`NothingExecuted`). It is the reason behind the finding
  `class_c_rx2`, for all parameters. The invariant `ExecInv`
  follows the executors of the first run: only the stop of the device wakes
  one, and one that wakes finds the device off and ends, unless it was started
  again.

`Channels_proofs`, for every table of regions that meets `ParametersAssumption`
and everything the server may send that meets `InputsAssumption`:

* `ReservedChannelsStay` (`ReservedIntact`) and `ChannelsAlwaysExist`
  (`ChannelsExist`) follow from one invariant, `CoreInv`: the channels are at
  least those of the region, the reserved ones among them unspoilt (`Intact`),
  and the current channel is one of them. Neither property is inductive alone:
  that a switch stays within the channels needs their number, and that
  `DLChannelReq` spares the reserved ones needs them to be the first three
  where masks are by channel.
* Each operator on the channels has a lemma saying that it keeps them intact
  (`EnableKeeps`, `LinkAdrReqKeeps`, `SetChannelKeeps`, `ApplyFrequenciesKeeps`
  and so on); the steps cite these.
* `InputsAssumption` gives the types of the fields in a frame, and of a block of
  `LinkADRReq` that it has one or two requests. Join accepts may bring lists of
  frequencies or of masks in every region.

* `TypesHold` (`TypeOK`) adds the types of the intermediate results: what a pass
  of `SwitchChannel` has tried, what each MAC command leaves.
* `FirstWindowDecodes` (`Rx1Decodable`) needs the invariant only for the device's
  configuration; the rest is `Rx1Rate`: each way in which a region computes the
  rate of the first window stays in the region's rates. `RatesOK`, a part of
  `ParametersAssumption` that TLC evaluates for the ten regions, says what the
  code's tables have in common for that.
* `SwitchesToUsable` (`SwitchPicksUsable`), an action property. A drawn channel is
  usable by the test that ends the loop; for the fallbacks `ReservedChannel` and
  `FallBackFits` derive from `CoreInv` that channel 0 is active and takes the rate.

`Lifecycle_proofs`, for any number of devices, gateways and handlers:
`NeverCrashes` (`CalmNeverCrashes`), `NoSecondRoutine` (`OneRoutine`), `WaitsForAll`
(`WaitedForAll`) and `QuietStatesAgree` (`StatesAgree`). All follow from one
invariant, `IInv`: types, and in a calm state an accounting of the wait group.
`Counted` are the components whose goroutine has not ended and which somebody has
added to the group, the handler that turns one off or a `Stop` past its sum;
`TurningOff` are those a handler has put into `ComponentsInactiveTmp`. `Sums`
says that the two counters are the sizes of the two sets; that `Stop` adds just
what is missing, active components less those being turned off, is `SumKeeps`,
the heart of the proof. Around it, `Alone` says which handlers can be busy
together, `Pages` what the page shows meanwhile, `Knows` what each handler may
rely on where it is, `Routines` that only a counted goroutine outlives its
component's state, `Maps` and `Loops` when the maps agree with the states, and
`Still` that a stopped simulator has no goroutine. Each action has a lemma.
`Calm` cannot be dropped: on the instance of the run TLC finds each of the four
violated without it.

`Frames_proofs`, for all limits, requests, lengths and sizes:

* `LeaveOnceInOrder` (`SentOnceInOrder`). `UplinksInv` says that queued numbers
  rise from above the last one that left, with the one being cut in between, up
  to the one a handler holds; `AnswersInv` says it of the answers. Each holds
  until a handler overwrites what was taken, the latter also until a frame is at
  the limit. `GetFrameOrder` is the step both orders depend on: short of the
  limit a frame takes all that waits.
* `FramesReassemble` (`Reassembles`). The invariant `PiecesInv` looks at the parts
  that left and those that wait as one sequence, which `CreateFrame` does not
  change (`PiecesStay`). `FragmentationIs` and `TruncateIs` say that a payload is
  cut without gap or overlap, with the division of the code. `OwnBytes` says that
  without `AlignCurrentTime` no byte of a payload is ever time, the periodic one
  included.
* `ChosenIsSeq`, that selecting from a sequence gives a sequence, needs that some
  member of a set of numbers is its k-th (`KthExists`), which follows from the
  least number principle (`Least`).

The proofs use the named assumptions of the modules and nothing else. The
inductive invariants were checked by TLC on the instances of section 3 before
they were proved. All invariants and action properties the runs check are
proved, and so are both refinements. Only model-checked are the liveness
properties (`WindowCloses`, `AcceptedLeaves`, `TurnOffCompletes`, `TurnOffReturns`,
`BufferDrains`, `HandlersReturn`, `Rx1Closes`, `Rx2WakesAgain`, `StopReturns`), which need
fairness and `ENABLED` and are out of the prover's reach.

## 6. Findings

* `repetitions_restart`: `Setup` resets the repetition counter of unconfirmed
  uplinks (`device/api.go:49`) but not that of confirmed ones. Turned off
  during a repetition and on again, a device gives its next confirmed uplink up
  too early and unjoins.
* `answers_at_limit`: `loadFOpts` cuts the queue of answers by what is left of
  the limit after it has filled the frame (`frames/uplink/uplink.go:72-73`), which
  at the limit is nothing, although the line says `//reset`. Fifteen answers that
  wait at once go into every later frame and are never taken from the queue.

* `class_c_rx2`: the repository's README says that it "Implements class A,C and
  partially even the B class". `RX2` hands what it heard over and waits for the
  executor (`classes/classC.go:186-187`), but the executor waits for a
  `WakeUpDevice` that only `CanExecute` of a stopped device calls
  (`verify.go:17-24`). In a device that runs, no downlink of `RX2` is ever
  executed, and from the first one on `RX2` listens no more.

What the models also show, without a document that says otherwise, is listed
under `hazards` in `PROJECT.json`: among others that `ADRProcedure` does not look
at `SupportedADR`, that refused requests take effect, that some requests and join
accepts of the server make the program panic, and that `AlignCurrentTime`
overwrites the payload it is appended to.

## 7. Plan

Done: the mailbox, forwarder and windows; the device's main loop; the ADR
back-off; the uplink path of a gateway; channels and regions; class C; the
lifecycle; frames and answers. Each has a module of proofs, and windows and
gateway implement an abstract specification.

Next, in order:

1. `GatewayUplink`: the keep-alive goroutine and the loop that connects again.
2. `Lifecycle`: several browsers.
3. `Persistence`: the three files, crashes between writes, recovery.
4. Proofs: what the liveness arguments rest on, as invariants (a device that
   sleeps, a handler that waits and a sender that waits each have someone who
   will wake them); that `Device` weakens what `DownlinkDelivery` promises.

Not modelled, and not planned: packet formats, JSON encodings, the web server's
routing and the console, which keep no state of their own; of the MAC commands
what is only written and never read (RX2's parameters, transmission power,
delays, class B's ping slots and beacons); the tables of payload sizes, which
are the constant `Sizes` of `Frames`.
