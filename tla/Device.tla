--------------------------------- MODULE Device ---------------------------------
(***************************************************************************)
(* One device of class A or B: the goroutine of Run with OtaaActivation,   *)
(* Execute, FPendingProcedure, ADRProcedure and the repetitions, against   *)
(* the operator's handlers and a network server.  A step ends where the    *)
(* goroutine blocks (a tick, the receive windows) or reads Device.State,   *)
(* which TurnOFF may change at any moment.  What the receive windows may   *)
(* bring is a downlink the server sent, late, again or never.  Timers,     *)
(* prints and the contents of frames are left out.                         *)
(***************************************************************************)
EXTENDS Adr, Sequences

CONSTANTS
  SupportedOtaa,     \* Configuration.SupportedOtaa
  SupportedADR,      \* Configuration.SupportedADR
  DataRateInitial,   \* Configuration.DataRateInitial
  DisableFCntDown,   \* Configuration.DisableFCntDown
  NbRepConfirmed,    \* Configuration.NbRepConfirmedDataUp
  NbReps,            \* the NbRep values a LinkADRReq may carry
  Fragments,         \* the numbers of frames an uplink may be cut into
  MAXFCNTGAP,        \* the modulus of the frame counters
  MaxDown,           \* bound: downlinks the server sends in one session
  MaxQueue           \* bound: uplinks waiting in BufferUplinks

ASSUME DeviceAssumption ==
  /\ SupportedOtaa \in BOOLEAN /\ SupportedADR \in BOOLEAN /\ DisableFCntDown \in BOOLEAN
  /\ NbRepConfirmed \in Nat /\ NbReps \subseteq Nat /\ Fragments \subseteq Nat
  /\ MAXFCNTGAP \in Nat \ {0} /\ DataRateInitial \in DataRates
  /\ MaxDown \in Nat /\ MaxQueue \in Nat

VARIABLES
  state,       \* Device.State
  pc,          \* where the goroutine of Run is
  caller,      \* the stage that called OtaaActivation, while that runs
  mode,        \* Status.Mode
  joined,      \* Status.Joined
  sameKeys,    \* the keys the device holds are those of the server's session
  mtype,       \* Status.MType, set from the UI
  lastMType,   \* Status.LastMType
  queue,       \* Status.BufferUplinks, the message type of each
  cntC,        \* Status.CounterRepConfirmedDataUp
  cntU,        \* Status.CounterRepUnConfirmedDataUp
  nbRepU,      \* Configuration.NbRepUnconfirmedDataUp
  dr,          \* Status.DataRate
  doSwitch,    \* Status.DoSwitchChannel
  adrCnt,      \* DataUplink.ADR.ADRACKCnt
  fcntDown,    \* Status.FCntDown
  down,        \* the local variable downlink of Execute
  fdown,       \* the parameter downlink of FPendingProcedure
  started,     \* its local variable startProcedure
  srvDown,     \* the counter of its next downlink
  inFlight,    \* counters of downlinks of this session that may still be heard
  lateJoin,    \* a join accept of an earlier join request may still be heard
  tries,       \* history: transmissions of the last uplink whose windows
               \*          brought no downlink the device had to reject
  acked,       \* history: Execute has accepted an ACK of the last uplink
  heard        \* history: the last counter accepted in the server's session
               \*          since fcntDown was last 0, or -1

controlVars == <<state, pc, caller>>
statusVars  == <<mode, joined, sameKeys, mtype, lastMType, queue>>
repVars     == <<cntC, cntU, nbRepU, dr, doSwitch>>
localVars   == <<down, fdown, started>>
serverVars  == <<srvDown, inFlight, lateJoin, heard>>
historyVars == <<tries, acked>>
vars == <<controlVars, statusVars, repVars, adrCnt, fcntDown, localVars, serverVars,
          historyVars>>

Confirmed   == "ConfirmedDataUp"
Unconfirmed == "UnconfirmedDataUp"
NoMType     == "JoinRequest"   \* the zero value of a message type

Mode == {"Normal", "Retransmission", "FPending", "Activation"}

\* What Execute and FPendingProcedure look at in an accepted downlink.
Downlink == [confirmed : BOOLEAN, ack : BOOLEAN, fpending : BOOLEAN]
NoDown   == [none |-> TRUE]
JoinDown == [confirmed |-> FALSE, ack |-> FALSE, fpending |-> FALSE]

Stage == {"off",           \* no goroutine
          "idle",          \* in the select of Run
          "otaa",          \* at the head of the loop of OtaaActivation
          "joinWindows",   \* a join request is sent, the windows are open
          "create",        \* at the top of Execute
          "windows",       \* the uplink is sent, the windows are open
          "pendingStart",  \* at the top of FPendingProcedure
          "pending",       \* at the head of its loop
          "pendingWindows",\* its windows are open
          "pendingAdr",    \* before the ADRProcedure of its loop
          "adr",           \* before the ADRProcedure of Execute
          "repeat"}        \* before the switch on LastMType

TypeOK ==
  /\ state \in {"Stopped", "Running"}
  /\ pc \in Stage
  /\ caller \in {"start", "idle", "adr", "pendingAdr"}
  /\ mode \in Mode
  /\ joined \in BOOLEAN
  /\ sameKeys \in BOOLEAN
  /\ mtype \in {Confirmed, Unconfirmed}
  /\ lastMType \in {Confirmed, Unconfirmed, NoMType}
  /\ queue \in Seq({Confirmed, Unconfirmed}) /\ Len(queue) <= MaxQueue
  /\ cntC \in 0 .. NbRepConfirmed
  /\ cntU \in Nat
  /\ nbRepU \in NbReps \cup {0, 1}
  /\ dr \in DeviceRates /\ doSwitch \in BOOLEAN
  /\ adrCnt \in AdrCounts
  /\ fcntDown \in 0 .. MAXFCNTGAP - 1
  /\ down \in Downlink \cup {NoDown}
  /\ fdown \in Downlink \cup {NoDown}
  /\ started \in BOOLEAN
  /\ srvDown \in 0 .. MaxDown
  /\ inFlight \subseteq 0 .. MaxDown - 1 /\ heard \in -1 .. MaxDown - 1
  /\ lateJoin \in BOOLEAN
  /\ tries \in Nat
  /\ acked \in BOOLEAN

\* The device as loaded from devices.json and never run; an ABP device shares
\* its keys with the server from the start.
Init ==
  /\ state = "Stopped" /\ pc = "off" /\ caller = "start"
  /\ mode = "Normal" /\ joined = FALSE
  /\ sameKeys = ~SupportedOtaa
  /\ mtype \in {Confirmed, Unconfirmed}
  /\ lastMType = NoMType /\ queue = <<>>
  /\ cntC = 0 /\ cntU = 1 /\ nbRepU = 1
  /\ dr = DataRateInitial /\ doSwitch = FALSE
  /\ adrCnt = 0 /\ fcntDown = 0
  /\ down = NoDown /\ fdown = NoDown /\ started = FALSE
  /\ srvDown = 0 /\ inFlight = {} /\ lateJoin = FALSE
  /\ tries = 0 /\ acked = FALSE /\ heard = -1

--------------------------------------------------------------------------------
(* The operator's handlers. *)

\* turnONDevice: Setup, TurnON.  The repetitions counted for a confirmed uplink
\* and the frame counters survive it.
TurnON ==
  /\ pc = "off" /\ state = "Stopped"
  /\ state' = "Running" /\ pc' = "otaa" /\ caller' = "start"
  /\ joined' = ~SupportedOtaa
  /\ mode' = IF SupportedOtaa THEN "Activation" ELSE "Normal"
  /\ cntU' = 1 /\ nbRepU' = 1 /\ adrCnt' = 0
  /\ dr' = DataRateInitial
  /\ UNCHANGED <<sameKeys, mtype, lastMType, queue, cntC, doSwitch, fcntDown,
                 localVars, serverVars, historyVars>>

\* TurnOFF: the state first; the Exit message waits for the select of Run.
TurnOFF ==
  /\ state = "Running"
  /\ state' = "Stopped"
  /\ UNCHANGED <<pc, caller, statusVars, repVars, adrCnt, fcntDown, localVars, serverVars,
                 historyVars>>

NewUplink(t) ==
  /\ state = "Running"
  /\ Len(queue) < MaxQueue
  /\ queue' = Append(queue, t)
  /\ UNCHANGED <<controlVars, mode, joined, sameKeys, mtype, lastMType, repVars,
                 adrCnt, fcntDown, localVars, serverVars, historyVars>>

ChangePayload(t) ==
  /\ state = "Running"
  /\ mtype' = t
  /\ UNCHANGED <<controlVars, mode, joined, sameKeys, lastMType, queue, repVars,
                 adrCnt, fcntDown, localVars, serverVars, historyVars>>

--------------------------------------------------------------------------------
(* The network server. *)

\* Without the keys of its session the device would hear noise.
ServerSends ==
  /\ sameKeys /\ srvDown < MaxDown
  /\ srvDown' = srvDown + 1
  /\ inFlight' = inFlight \cup {srvDown}
  /\ UNCHANGED <<controlVars, statusVars, repVars, adrCnt, fcntDown, localVars,
                 lateJoin, heard, historyVars>>

\* From here on the downlink, or the join accept, is not heard any more.
NetworkDrops ==
  /\ \/ \E c \in inFlight : inFlight' = inFlight \ {c} /\ UNCHANGED lateJoin
     \/ lateJoin /\ lateJoin' = FALSE /\ UNCHANGED inFlight
  /\ UNCHANGED <<controlVars, statusVars, repVars, adrCnt, fcntDown, localVars,
                 srvDown, heard, historyVars>>

\* The server or the device has new keys, counters start from zero, and what is
\* under way in the old session will not authenticate any more.
NewKeys(same) ==
  /\ sameKeys' = same
  /\ srvDown' = 0
  /\ inFlight' = {}
  /\ heard' = -1

--------------------------------------------------------------------------------
(* ProcessDownlink, by outcome. *)

\* Mutant of Accepts: any later counter will do.
MutantAcceptsGap(c) == sameKeys /\ (DisableFCntDown \/ c >= fcntDown)

\* GetDownlink: the MIC under the keys of the device, then the exact counter.
Accepts(c) == sameKeys /\ (DisableFCntDown \/ c = fcntDown)

\* FCntDown is counted, a downlink with counter c having been accepted (-1: none).
CountDown(c) ==
  /\ fcntDown' = (fcntDown + 1) % MAXFCNTGAP
  /\ heard' = IF fcntDown' = 0 THEN -1 ELSE IF c = -1 THEN heard ELSE c

\* A data downlink is accepted; whatever SendAck counted, ADR.Reset clears.
AcceptsData ==
  /\ \E c \in inFlight : Accepts(c) /\ CountDown(c)
  /\ adrCnt' = 0
  /\ UNCHANGED <<srvDown, inFlight, lateJoin>>

\* It is in error: wrong MIC (noise, an older session) or wrong counter.
RejectsData == UNCHANGED <<fcntDown, adrCnt, serverVars>>

\* The join accept of an earlier join request: its MIC is right, but the keys
\* the device derives with its new DevNonce are not the server's.
AcceptsLateJoin ==
  /\ lateJoin
  /\ NewKeys(FALSE)
  /\ joined' = TRUE
  /\ UNCHANGED <<fcntDown, lateJoin>>

\* Another message type gets no further than the counter.
CountsOther ==
  /\ CountDown(-1)
  /\ adrCnt' = 0
  /\ UNCHANGED <<srvDown, inFlight, lateJoin>>

HearsNothing == UNCHANGED <<fcntDown, adrCnt, serverVars>>

\* ExecuteMACCommand, as far as this module sees it: a LinkADRReq may set the
\* data rate and the repetitions of unconfirmed uplinks.  When every command of
\* a block is acknowledged and has an error, they are set to what they started
\* with: uint8(-1) and 0.
ExecuteMACCommand ==
  \/ dr' \in DataRates /\ nbRepU' \in NbReps
  \/ dr' = NoRate /\ nbRepU' = 0
  \/ UNCHANGED <<dr, nbRepU>>

--------------------------------------------------------------------------------
(* Run and OtaaActivation. *)

Tick ==
  /\ pc = "idle" /\ state = "Running"
  /\ IF joined THEN pc' = "create" /\ UNCHANGED caller
               ELSE pc' = "otaa" /\ caller' = "idle"
  /\ UNCHANGED <<state, statusVars, repVars, adrCnt, fcntDown, localVars, serverVars,
                 historyVars>>

ReceiveExit ==
  /\ pc = "idle" /\ state = "Stopped"
  /\ pc' = "off"
  /\ UNCHANGED <<state, caller, statusVars, repVars, adrCnt, fcntDown, localVars, serverVars,
                 historyVars>>

\* OtaaActivation returns: to Run, which wants a new channel unless this was
\* its first call, or to ADRProcedure, where an ADR.Reset follows.
ReturnFromOtaa ==
  /\ pc' = CASE caller \in {"start", "idle"} -> "idle"
             [] caller = "adr" -> "repeat"
             [] caller = "pendingAdr" -> "pending"
  /\ caller' = "start"
  /\ adrCnt' = IF caller \in {"adr", "pendingAdr"} THEN 0 ELSE adrCnt
  /\ doSwitch' = (doSwitch \/ caller = "idle")

\* Mutant of OtaaLoop: no CanExecute before the next join request.
MutantOtaaNeverStops ==
  /\ pc = "otaa"
  /\ \/ joined /\ ReturnFromOtaa /\ UNCHANGED mode
     \/ /\ ~joined /\ mode' = "Activation" /\ pc' = "joinWindows"
        /\ UNCHANGED <<caller, adrCnt, doSwitch>>
  /\ UNCHANGED <<state, joined, sameKeys, mtype, lastMType, queue, cntC,
                 cntU, nbRepU, dr, fcntDown, localVars, serverVars, historyVars>>

OtaaLoop ==
  /\ pc = "otaa"
  /\ \/ joined /\ ReturnFromOtaa /\ UNCHANGED mode
     \/ ~joined /\ state = "Stopped" /\ mode' = "Activation" /\ ReturnFromOtaa
     \/ /\ ~joined /\ state = "Running" /\ mode' = "Activation"
        /\ pc' = "joinWindows"
        /\ UNCHANGED <<caller, adrCnt, doSwitch>>
  /\ UNCHANGED <<state, joined, sameKeys, mtype, lastMType, queue, cntC,
                 cntU, nbRepU, dr, fcntDown, localVars, serverVars, historyVars>>

\* A join accept in time sets the keys of the session it opens; Joined is set
\* whatever becomes of its CFList, and neither frame counter is reset.
HearsJoinAccept ==
  \/ NewKeys(TRUE) /\ joined' = TRUE /\ UNCHANGED <<fcntDown, lateJoin>>
  \/ AcceptsLateJoin

JoinAccepted ==
  /\ pc = "joinWindows"
  /\ HearsJoinAccept
  /\ mode' = "Normal"
  /\ ReturnFromOtaa
  /\ UNCHANGED <<state, mtype, lastMType, queue, cntC, cntU, nbRepU, dr,
                 localVars, historyVars>>

\* No answer, a join accept that comes too late, or some other downlink.
JoinFails ==
  /\ pc = "joinWindows"
  /\ \/ HearsNothing /\ UNCHANGED sameKeys
     \/ AcceptsData /\ UNCHANGED sameKeys
     \/ CountsOther /\ UNCHANGED sameKeys
     \/ NewKeys(FALSE) /\ lateJoin' = TRUE /\ UNCHANGED <<fcntDown, adrCnt>>
  /\ pc' = "otaa"
  /\ UNCHANGED <<state, caller, mode, joined, mtype, lastMType, queue, repVars, localVars,
                 historyVars>>

--------------------------------------------------------------------------------
(* Execute up to the answer of the receive windows. *)

\* SwitchChannel: when no other channel it tries supports the data rate, the
\* highest rate of the channel it ends on, which the server may have set.
SwitchChannel == IF doSwitch THEN dr' \in DataRates ELSE UNCHANGED dr

Retransmit ==
  /\ pc = "create" /\ mode = "Retransmission"
  /\ SwitchChannel
  /\ tries' = tries + 1
  /\ pc' = "windows"
  /\ UNCHANGED <<state, caller, statusVars, cntC, cntU, nbRepU, doSwitch, adrCnt, fcntDown,
                 localVars, serverVars, acked>>

CreateUplink ==
  /\ pc = "create" /\ mode = "Normal"
  /\ SwitchChannel
  /\ IF queue # <<>> THEN lastMType' = Head(queue) /\ queue' = Tail(queue)
                     ELSE lastMType' = mtype /\ UNCHANGED queue
  /\ \E n \in Fragments : adrCnt' = CountUp(adrCnt, n)
  /\ tries' = 1 /\ acked' = FALSE
  /\ pc' = "windows"
  /\ UNCHANGED <<state, caller, mode, joined, sameKeys, mtype, cntC, cntU, nbRepU, doSwitch,
                 fcntDown, localVars, serverVars>>

\* Nothing came: after the AckTimeout the device wants another channel.
WindowsEmpty ==
  /\ pc = "windows"
  /\ HearsNothing
  /\ doSwitch' = TRUE
  /\ down' = NoDown
  /\ pc' = "adr"
  /\ UNCHANGED <<state, caller, statusVars, cntC, cntU, nbRepU, dr, fdown, started,
                 historyVars>>

\* Something came: whatever it is, the channel is good.
KeepsChannel == doSwitch' = (doSwitch /\ mode = "Activation")

\* ProcessDownlink fails: Execute returns, skipping ADR and the repetitions.
WindowsReject ==
  /\ pc = "windows"
  /\ RejectsData
  /\ KeepsChannel
  /\ tries' = tries - 1
  /\ pc' = "idle"
  /\ UNCHANGED <<state, caller, statusVars, cntC, cntU, nbRepU, dr, localVars, acked>>

AfterDownlink == pc' = IF mode = "Retransmission" THEN "adr" ELSE "pendingStart"

WindowsAccept ==
  /\ pc = "windows"
  /\ AcceptsData
  /\ KeepsChannel
  /\ \E d \in Downlink : down' = d /\ acked' = (acked \/ d.ack)
  /\ ExecuteMACCommand
  /\ AfterDownlink
  /\ UNCHANGED <<state, caller, statusVars, cntC, cntU, fdown, started, tries>>

\* A join accept is processed even when joined.
WindowsJoinAccept ==
  /\ pc = "windows"
  /\ AcceptsLateJoin
  /\ KeepsChannel
  /\ down' = JoinDown
  /\ AfterDownlink
  /\ UNCHANGED <<state, caller, mode, mtype, lastMType, queue, cntC, cntU, nbRepU,
                 dr, adrCnt, fdown, started, historyVars>>

WindowsOther ==
  /\ pc = "windows"
  /\ CountsOther
  /\ KeepsChannel
  /\ down' = NoDown
  /\ pc' = "adr"
  /\ UNCHANGED <<state, caller, statusVars, cntC, cntU, nbRepU, dr, fdown, started,
                 historyVars>>

--------------------------------------------------------------------------------
(* FPendingProcedure. *)

PendingStart ==
  /\ pc = "pendingStart"
  /\ IF state = "Stopped" THEN pc' = "adr" /\ UNCHANGED <<fdown, started>>
                          ELSE pc' = "pending" /\ fdown' = down /\ started' = FALSE
  /\ UNCHANGED <<state, caller, statusVars, repVars, adrCnt, fcntDown, down, serverVars,
                 historyVars>>

\* FPendingProcedure returns; its variables are gone.
ReturnFromPending ==
  /\ pc' = "adr"
  /\ fdown' = NoDown /\ started' = FALSE

MorePending == fdown # NoDown /\ fdown.fpending

\* More is pending: an empty frame asks for it, unless an acknowledgement was
\* the last thing sent.
PendingNext ==
  /\ pc = "pending"
  /\ MorePending
  /\ mode' = IF started THEN mode ELSE "FPending"
  /\ started' = TRUE
  /\ adrCnt' = IF fdown.confirmed THEN adrCnt ELSE CountUp(adrCnt, 1)
  /\ pc' = "pendingWindows"
  /\ UNCHANGED <<state, caller, joined, sameKeys, mtype, lastMType, queue, repVars,
                 fcntDown, down, fdown, serverVars, historyVars>>

\* Mutant of PendingDone: the mode is not set back.
MutantPendingKeepsMode ==
  /\ pc = "pending"
  /\ ~MorePending
  /\ ReturnFromPending
  /\ UNCHANGED <<state, caller, statusVars, repVars, adrCnt, fcntDown, down, serverVars,
                 historyVars>>

PendingDone ==
  /\ pc = "pending"
  /\ ~MorePending
  /\ mode' = "Normal"
  /\ ReturnFromPending
  /\ UNCHANGED <<state, caller, joined, sameKeys, mtype, lastMType, queue, repVars,
                 adrCnt, fcntDown, down, serverVars, historyVars>>

\* The device was turned off meanwhile: what the windows brought is dropped.
PendingStops ==
  /\ pc = "pendingWindows" /\ state = "Stopped"
  /\ ReturnFromPending
  /\ UNCHANGED <<state, caller, statusVars, repVars, adrCnt, fcntDown, down, serverVars,
                 historyVars>>

PendingBringsNone ==
  /\ pc = "pendingWindows" /\ state = "Running"
  /\ HearsNothing \/ RejectsData \/ CountsOther
  /\ fdown' = NoDown
  /\ pc' = "pendingAdr"
  /\ UNCHANGED <<state, caller, statusVars, repVars, down, started, historyVars>>

PendingAccept ==
  /\ pc = "pendingWindows" /\ state = "Running"
  /\ AcceptsData
  /\ fdown' \in Downlink
  /\ ExecuteMACCommand
  /\ pc' = "pendingAdr"
  /\ UNCHANGED <<state, caller, statusVars, cntC, cntU, doSwitch, down, started, historyVars>>

PendingJoinAccept ==
  /\ pc = "pendingWindows" /\ state = "Running"
  /\ AcceptsLateJoin
  /\ fdown' = JoinDown
  /\ pc' = "pendingAdr"
  /\ UNCHANGED <<state, caller, mode, mtype, lastMType, queue, repVars, adrCnt,
                 down, started, historyVars>>

--------------------------------------------------------------------------------
(* ADRProcedure and the repetitions. *)

\* UnJoined: only an OTAA device can lose its session.
UnJoined == joined' = (joined /\ ~SupportedOtaa)

\* ADRProcedure called at stage pc; a device that is unjoined activates again
\* before anything else happens, the others go on at next.
AdrStep(next) ==
  LET outcome == ADRProcedure(adrCnt, dr, SupportedADR) IN
    /\ dr' = IF outcome.code = NoneError THEN outcome.dr ELSE dr
    /\ IF outcome.code = CodeUnjoined
         THEN /\ UnJoined
              /\ IF SupportedOtaa THEN pc' = "otaa" /\ caller' = pc
                                  ELSE pc' = next /\ UNCHANGED caller
         ELSE /\ pc' = next
              /\ UNCHANGED <<joined, caller>>
    /\ UNCHANGED <<state, mode, sameKeys, mtype, lastMType, queue, cntC, cntU,
                   nbRepU, doSwitch, adrCnt, fcntDown, localVars, serverVars, historyVars>>

PendingAdr == pc = "pendingAdr" /\ AdrStep("pending")
ExecuteAdr == pc = "adr" /\ AdrStep("repeat")

\* Execute returns; its variable is gone.
ReturnFromExecute == pc' = "idle" /\ down' = NoDown

\* Mutant of Repeats: off by one.
MutantRepeatsOnceMore == cntC <= NbRepConfirmed

\* RetransmissionCData.
Repeats == cntC < NbRepConfirmed

Answered == down # NoDown /\ down.ack

\* Mutant of RepeatAcked: the flag ACK of the downlink is not looked at.
MutantAckIgnored ==
  /\ pc = "repeat" /\ lastMType = Confirmed
  /\ Repeats /\ Answered
  /\ mode' = "Retransmission" /\ cntC' = cntC + 1
  /\ dr' = DecrementDataRate(dr)
  /\ ReturnFromExecute
  /\ UNCHANGED <<state, caller, joined, sameKeys, mtype, lastMType, queue, cntU,
                 nbRepU, doSwitch, adrCnt, fcntDown, fdown, started, serverVars, historyVars>>

RepeatAcked ==
  /\ pc = "repeat" /\ lastMType = Confirmed
  /\ Repeats /\ Answered
  /\ mode' = "Normal" /\ cntC' = 0
  /\ ReturnFromExecute
  /\ UNCHANGED <<state, caller, joined, sameKeys, mtype, lastMType, queue, cntU,
                 nbRepU, dr, doSwitch, adrCnt, fcntDown, fdown, started, serverVars, historyVars>>

RepeatUnacked ==
  /\ pc = "repeat" /\ lastMType = Confirmed
  /\ Repeats /\ ~Answered
  /\ mode' = "Retransmission" /\ cntC' = cntC + 1
  /\ dr' = DecrementDataRate(dr)
  /\ ReturnFromExecute
  /\ UNCHANGED <<state, caller, joined, sameKeys, mtype, lastMType, queue, cntU,
                 nbRepU, doSwitch, adrCnt, fcntDown, fdown, started, serverVars, historyVars>>

\* The last repetition is over, acknowledged or not: the error of
\* RetransmissionCData makes Execute unjoin the device.
RepeatExhausted ==
  /\ pc = "repeat" /\ lastMType = Confirmed
  /\ ~Repeats
  /\ mode' = "Normal" /\ cntC' = 0
  /\ UnJoined
  /\ ReturnFromExecute
  /\ UNCHANGED <<state, caller, sameKeys, mtype, lastMType, queue, cntU, nbRepU,
                 dr, doSwitch, adrCnt, fcntDown, fdown, started, serverVars, historyVars>>

\* RetransmissionUnCData.
RepeatUnconfirmed ==
  /\ pc = "repeat" /\ lastMType = Unconfirmed
  /\ IF cntU < nbRepU
       THEN mode' = "Retransmission" /\ cntU' = cntU + 1
       ELSE mode' = (IF mode = "Retransmission" THEN "Normal" ELSE mode) /\ cntU' = 1
  /\ ReturnFromExecute
  /\ UNCHANGED <<state, caller, joined, sameKeys, mtype, lastMType, queue, cntC,
                 nbRepU, dr, doSwitch, adrCnt, fcntDown, fdown, started, serverVars, historyVars>>

--------------------------------------------------------------------------------

WindowsReturn ==
  \/ WindowsEmpty
  \/ WindowsReject
  \/ WindowsAccept
  \/ WindowsJoinAccept
  \/ WindowsOther
  \/ PendingStops
  \/ PendingBringsNone
  \/ PendingAccept
  \/ PendingJoinAccept
  \/ JoinAccepted
  \/ JoinFails

RunStep ==
  \/ Tick
  \/ OtaaLoop
  \/ Retransmit
  \/ CreateUplink
  \/ WindowsReturn
  \/ PendingStart
  \/ PendingNext
  \/ PendingDone
  \/ PendingAdr
  \/ ExecuteAdr
  \/ RepeatAcked
  \/ RepeatUnacked
  \/ RepeatExhausted
  \/ RepeatUnconfirmed

HandlerStep ==
  \/ TurnON
  \/ TurnOFF
  \/ \E t \in {Confirmed, Unconfirmed} : NewUplink(t) \/ ChangePayload(t)

ServerStep == ServerSends \/ NetworkDrops

Next == RunStep \/ ReceiveExit \/ HandlerStep \/ ServerStep

Spec == Init /\ [][Next]_vars

\* The goroutine runs, its timers expire and its windows close; the operator,
\* the server and the network owe it nothing.
FairSpec == Spec /\ WF_vars(RunStep) /\ WF_vars(ReceiveExit)

--------------------------------------------------------------------------------
(* Properties. *)

\* CreateUplink builds a new frame only in mode Normal and repeats the last one
\* only in mode Retransmission; in any other mode it would go on with a nil
\* payload.  Mode is set in seven places, several of which return early.
UplinkModes == pc = "create" => mode \in {"Normal", "Retransmission"}

\* Of an uplink no more transmissions end in silence or in an accepted downlink
\* than its repetitions and one, however downlinks, restarts and new joins fall
\* between them.  Those whose windows bring a downlink in error are left out:
\* Execute returns before it counts them, and nothing bounds them in the code.
RepetitionsBounded ==
  /\ lastMType = Confirmed => tries <= NbRepConfirmed + 1
  /\ lastMType = Unconfirmed => \E n \in NbReps \cup {1} : tries <= n

\* A confirmed uplink whose acknowledgement Execute has accepted is not sent
\* again, whatever FPendingProcedure and ADRProcedure did in between.
AckStopsRepetition ==
  pc = "create" /\ mode = "Retransmission" /\ lastMType = Confirmed => ~acked

\* A device without OTAA is never unjoined, neither by the back-off nor by a
\* confirmed uplink that stays without answer: it could never join again.
AbpNeverUnjoined == ~SupportedOtaa /\ pc # "off" => joined

\* No downlink is accepted twice in a session of the server, although the
\* network loses, delays and repeats them, other frames advance FCntDown and a
\* new session does not reset it: what was accepted stays below the counter
\* expected next, until that wraps.
NoReplay == ~DisableFCntDown => heard < fcntDown

\* TurnOFF always gets its Exit message through: whatever the goroutine of Run
\* is doing, it comes back to its select.
TurnOffCompletes == state = "Stopped" ~> pc = "off"

\* The device gives a confirmed uplink up only after its NbRepConfirmedDataUp
\* retransmissions.
AllRetransmissionsMade == [][RepeatExhausted => tries >= NbRepConfirmed + 1]_vars

================================================================================
