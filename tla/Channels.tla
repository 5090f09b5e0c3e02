-------------------------------- MODULE Channels --------------------------------
(***************************************************************************)
(* The channels of a class A device and its data rate, as uplinks, lost    *)
(* answers, join accepts and MAC commands change them: SwitchChannel of    *)
(* functionality.go, the LinkAdrReq of the regions, and the handlers of    *)
(* executeMAC.go that configure a radio.                                   *)
(*                                                                         *)
(* What is only written is left out: transmission power, RX2's parameters  *)
(* and the delays of the windows.  When the device repeats, asks for an    *)
(* answer or unjoins is the matter of module Device; here it may.          *)
(***************************************************************************)
EXTENDS Regions, FiniteSets

CONSTANTS
  Parameters,    \* the regions considered: name -> record, as in Region
  InitialRates,  \* DataRateInitial of the configuration
  Frequencies,   \* by region: the frequencies the server may name
  LinkADRReqs,   \* by region: the blocks of LinkADRReq the server may send
  NewChannelReqs, DLChannelReqs,  \* by region
  CFLists,       \* by region: the lists a join accept may carry
  Offsets,       \* by region: the RX1DROffset the server may name
  MaxChannels,   \* bound: channels of a device
  Draws          \* bound, by region: residues modulo 8 of the channels drawn

Masked(r)  == r.masks = "channels"
Groups(r)  == r.masks = "groups"
IsUs915(r) == r.rx1 = "us915"

ChannelType ==
  [ Active : BOOLEAN, EnableUplink : BOOLEAN, FrequencyUplink : Nat,
    FrequencyDownlink : Nat, MinDR : 0 .. 15, MaxDR : 0 .. 15 ]

\* Of the rates only those SetupRX1 may come to by way of the others.
RatesOK(r) ==
  CASE r.rx1 = "effective" -> 0 .. 5 \subseteq r.rates
    [] r.rx1 = "us915"     -> 8 .. 13 \subseteq r.rates
    [] r.rx1 = "au915"     -> {0} \cup (8 .. 13) \subseteq r.rates
    [] OTHER               -> \A dr \in r.rates : 0 .. dr \subseteq r.rates

ParametersOK(r) ==
  /\ r.GetChannels \in Seq(ChannelType)
  /\ r.NbReserved \in 2 .. Len(r.GetChannels)
  /\ r.rates \subseteq 0 .. 15
  /\ r.MaxDataRate \in 5 .. 15
  /\ r.masks \in {"channels", "groups", "cn470"}
  /\ Groups(r) => Len(r.GetChannels) = 80 /\ r.NbReserved = 72
  /\ IsUs915(r) => Groups(r)
  /\ r.rx1 = "au915" => Groups(r)
  /\ r.rx1 = "cn470" => Len(r.GetChannels) >= 48
  /\ Masked(r) => r.NbReserved <= 3
  /\ r.request \in Seq(0 .. 15) /\ Len(r.request) \in {1, 2}
  /\ \A i \in 1 .. r.NbReserved : r.GetChannels[i].MinDR <= r.GetChannels[i].MaxDR
  /\ r.GetChannels[1].Active /\ r.GetChannels[1].EnableUplink
  /\ IsUs915(r) => \A i \in 1 .. r.NbReserved : r.GetChannels[i].Active
  /\ RatesOK(r)

ASSUME ParametersAssumption == \A n \in DOMAIN Parameters : ParametersOK(Parameters[n])

ASSUME InputsAssumption ==
  \A n \in DOMAIN Parameters :
    /\ Frequencies[n] \subseteq Nat /\ Offsets[n] \subseteq 0 .. 7
    /\ \A q \in NewChannelReqs[n] :
         q.index \in Nat /\ q.freq \in Nat /\ q.min \in 0 .. 15 /\ q.max \in 0 .. 15
    /\ \A q \in DLChannelReqs[n] : q.index \in Nat /\ q.freq \in Nat
    /\ \A block \in LinkADRReqs[n] :
         /\ block \in Seq([cntl : 0 .. 7, mask : SUBSET (0 .. 15), dr : 0 .. 15])
         /\ Len(block) \in {1, 2}
    /\ CFLists[n].frequencies \subseteq Seq(Nat)
    /\ CFLists[n].masks \subseteq Seq(SUBSET (0 .. 15))

VARIABLES
  region,
  channels,     \* Configuration.Channels
  dataRate,     \* Status.DataRate
  index,        \* Status.IndexchannelActive
  doSwitch,     \* Status.DoSwitchChannel
  firstPass, lastPass,  \* Status.InfoChannelsUS915
  rx1Offset,    \* Configuration.RX1DROffset
  dwell,        \* Status.DataDownlink.DwellTime is 400 ms
  joined,       \* Status.Joined
  stage,        \* where Execute or OtaaActivation is
  uplink,       \* the RXPK of the last uplink, while its windows are open
  pending,      \* the frame or the windows are those of FPendingProcedure
  rx1,          \* what SendData set of RX[0]
  masksHeard,   \* history: a join accept has brought a list of masks
  crashed       \* the process panicked

vars == <<region, channels, dataRate, index, doSwitch, firstPass, lastPass, rx1Offset,
          dwell, joined, stage, uplink, pending, rx1, masksHeard, crashed>>

r == Parameters[region]

NoUplink == "none"
NoRate == 255   \* uint8(-1)

TypeOK ==
  /\ region \in DOMAIN Parameters
  /\ channels \in Seq(ChannelType)
  /\ dataRate \in 0 .. 255
  /\ index \in Nat
  /\ doSwitch \in BOOLEAN /\ firstPass \in BOOLEAN
  /\ DOMAIN lastPass = 0 .. 7
  /\ \A g \in 0 .. 7 : lastPass[g] \in (8 * g .. 8 * g + 7) \cup {-1}
  /\ rx1Offset \in Offsets[region] \cup {0}
  /\ dwell \in BOOLEAN /\ joined \in BOOLEAN /\ crashed \in BOOLEAN
  /\ pending \in BOOLEAN /\ masksHeard \in BOOLEAN
  /\ stage \in {"ready", "send", "windows", "end"}
  /\ stage = "windows" =>
       /\ uplink \in [Channel : Nat, Frequency : Nat, DatR : 0 .. 255]
       /\ rx1 \in [DataRate : 0 .. 255, FrequencyUplink : Nat, FrequencyDownlink : Nat,
                   Channel : Nat]

\* Device.Setup.  A device without OTAA does what this one does after a join
\* accept with offset 0 and no list.
Init ==
  /\ region \in DOMAIN Parameters
  /\ channels = r.GetChannels
  /\ dataRate \in InitialRates \cap r.rates
  /\ index = 0 /\ doSwitch = FALSE
  /\ firstPass = TRUE /\ lastPass = [g \in 0 .. 7 |-> -1]
  /\ rx1Offset = 0 /\ dwell = FALSE
  /\ joined = FALSE
  /\ stage = "ready" /\ uplink = NoUplink /\ pending = FALSE /\ rx1 = NoUplink
  /\ masksHeard = FALSE /\ crashed = FALSE

----------------------------------------------------------------------------
(* SwitchChannel *)

At(i) == channels[i + 1]

Usable(c, dr) == c.Active /\ c.EnableUplink /\ IsSupportedDR(c, dr)

\* The group of eight channels US915 draws from; 8 stands for channel 71.
NextGroup ==
  LET g == index \div 8
  IN CASE g = 0      -> IF firstPass THEN 0 ELSE 1
       [] g \in 1 .. 7 -> g + 1
       [] OTHER      -> 0

\* The channels that may be drawn, and how many the loop wants tested.
Drawn ==
  IF IsUs915(r) THEN (NextGroup * 8 .. NextGroup * 8 + 7) \ {lastPass[NextGroup]}
  ELSE IF Groups(r) THEN 0 .. 7
  ELSE 0 .. Len(channels) - 1

LenChannels == IF Groups(r) THEN 8 ELSE Len(channels)

Pick(i) == i # index /\ Usable(At(i), dataRate)

\* Mutant of Passes: the channel is remembered for the group just left.
MutantPassesLeftGroup(i) ==
  IF IsUs915(r)
  THEN /\ firstPass' = (firstPass /\ index \div 8 # 0)
       /\ lastPass' = [lastPass EXCEPT ![IF index >= 64 THEN 0 ELSE index \div 8] = i]
  ELSE UNCHANGED <<firstPass, lastPass>>

\* The pass over the groups of US915.
Passes(i) ==
  IF IsUs915(r)
  THEN /\ firstPass' = (firstPass /\ index \div 8 # 0)
       /\ lastPass' = [lastPass EXCEPT ![NextGroup] = i]
  ELSE UNCHANGED <<firstPass, lastPass>>

\* From the last group it goes to one channel of 500 kHz, whatever its state.
SwitchToWide ==
  /\ IsUs915(r) /\ NextGroup = 8
  /\ index' = 71
  /\ UNCHANGED <<channels, dataRate, firstPass, lastPass>>

\* Mutant of SwitchToDrawn: whether the channel is enabled is not looked at.
MutantDrawsDisabled ==
  /\ ~(IsUs915(r) /\ NextGroup = 8)
  /\ \E i \in Drawn :
       /\ i # index /\ At(i).Active /\ IsSupportedDR(At(i), dataRate)
       /\ i % 8 \in Draws[region]
       /\ index' = i
       /\ Passes(i)
  /\ UNCHANGED <<channels, dataRate>>

SwitchToDrawn ==
  /\ ~(IsUs915(r) /\ NextGroup = 8)
  /\ \E i \in Drawn :
       /\ Pick(i)
       /\ i % 8 \in Draws[region]
       /\ index' = i
       /\ Passes(i)
  /\ UNCHANGED <<channels, dataRate>>

\* "No channels available": all but one of the channels were drawn, and none
\* of them would do.
FallBack ==
  /\ ~(IsUs915(r) /\ NextGroup = 8)
  /\ Cardinality({i \in Drawn : ~Pick(i)}) >= LenChannels - 1
  /\ index' = IF IsUs915(r) THEN NextGroup * 8 ELSE 0
  /\ channels' = IF IsUs915(r) THEN [channels EXCEPT ![index' + 1].EnableUplink = TRUE]
                 ELSE channels
  /\ dataRate' = At(index').MaxDR
  /\ Passes(index')

SwitchChannel ==
  /\ ~crashed /\ stage = "ready" /\ joined /\ doSwitch
  /\ SwitchToWide \/ SwitchToDrawn \/ FallBack
  /\ stage' = "send"
  /\ UNCHANGED <<region, doSwitch, rx1Offset, dwell, joined, uplink, pending, rx1,
                 masksHeard, crashed>>

KeepChannel ==
  /\ ~crashed /\ stage = "ready" /\ joined /\ ~doSwitch
  /\ stage' = "send"
  /\ UNCHANGED <<region, channels, dataRate, index, doSwitch, firstPass, lastPass,
                 rx1Offset, dwell, joined, uplink, pending, rx1, masksHeard, crashed>>

----------------------------------------------------------------------------
(* Sending.  SendData of class A copies the channel of RX1 but for its     *)
(* FrequencyDownlink, which stays what the configuration says: the console *)
(* sends 0 there.                                                          *)

ConfiguredRX1 == 0

SendData(info) ==
  LET i == RX1Channel(r, index)
  IN /\ uplink' = info
     /\ rx1' = [ DataRate |-> RX1DataRate(r, dataRate, rx1Offset, dwell),
                 FrequencyUplink |-> At(i).FrequencyUplink,
                 FrequencyDownlink |-> ConfiguredRX1, Channel |-> i ]

\* SetInfo of a data frame.
DataInfo == [Channel |-> index, Frequency |-> At(index).FrequencyUplink, DatR |-> dataRate]

SendUplink ==
  /\ ~crashed /\ stage = "send"
  /\ SendData(DataInfo)
  /\ stage' = "windows"
  /\ UNCHANGED <<region, channels, dataRate, index, doSwitch, firstPass, lastPass,
                 rx1Offset, dwell, joined, pending, masksHeard, crashed>>

\* SetInfo of a join request: a rate and a channel of its own, on the
\* frequency of the current channel.
SendJoinRequest ==
  /\ ~crashed /\ stage = "ready" /\ ~joined
  /\ \E q \in SetupInfoRequest(r, index) :
       /\ q.Channel % 8 \in Draws[region]
       /\ SendData([Channel |-> q.Channel, Frequency |-> At(index).FrequencyUplink,
                    DatR |-> q.DatR])
  /\ stage' = "windows"
  /\ UNCHANGED <<region, channels, dataRate, index, doSwitch, firstPass, lastPass,
                 rx1Offset, dwell, joined, pending, masksHeard, crashed>>

----------------------------------------------------------------------------
(* LinkADRReq.  Each region's LinkAdrReq works on the device's own         *)
(* channels, so what it touched stays, whatever it answers.  The results:  *)
(* the channels, the three acknowledgements, whether errors came with      *)
(* them, and whether the caller panics on a nil one.                       *)

Result(chs, acks, errs, panics) ==
  [channels |-> chs, acks |-> acks, errs |-> errs, panics |-> panics]

\* The channels of a set before the first that is undefined or inactive.
Until(chs, S) ==
  { i \in S : \A j \in S : j <= i => j < Len(chs) /\ chs[j + 1].Active }

\* The channels of S are enabled or disabled, as On says.
Enable(chs, S, On) ==
  [ i \in DOMAIN chs |-> IF i - 1 \in S THEN [chs[i] EXCEPT !.EnableUplink = (i - 1 \in On)]
                         ELSE chs[i] ]

SomeSupports(chs, S, dr) == \E i \in S : IsSupportedDR(chs[i + 1], dr)

\* Mutant of LinkADRReqForChannels: the mask is applied as it comes.
MutantMasksReserved(chs, c) ==
  LET touched == Until(chs, c.mask)
      known   == DataRateSupported(r, c.dr)
  IN Result(Enable(chs, 0 .. 15, touched),
            <<TRUE, SomeSupports(chs, touched, c.dr) /\ known, TRUE>>,
            touched # c.mask \/ ~known, FALSE)

\* ChMaskCntl 6 stands for all channels, any other one for the mask; channels
\* are only ever enabled.
LinkADRReqForChannels(chs, c) ==
  LET asked   == (IF c.cntl = 6 THEN 0 .. 15 ELSE c.mask) \ (0 .. r.NbReserved - 1)
      touched == Until(chs, asked)
      known   == DataRateSupported(r, c.dr)
  IN Result(Enable(chs, touched, touched),
            <<TRUE, SomeSupports(chs, touched, c.dr) /\ known, TRUE>>,
            touched # asked \/ (c.cntl = 0 /\ c.mask = {}) \/ ~known, FALSE)

\* The value of a mask, 16 standing for any that is too large.
GroupIndex(mask) ==
  LET bit(k, v) == IF k \in mask THEN v ELSE 0
  IN IF mask \subseteq 0 .. 3 THEN bit(0, 1) + bit(1, 2) + bit(2, 4) + bit(3, 8) ELSE 16

\* ChMaskCntl 5 takes the mask both as a number and as a mask, and refuses,
\* with or without an error.
LinkADRReqForBanks(chs, c) ==
  LET g       == GroupIndex(c.mask)
      bank    == g .. g + 7
      touched == Until(chs, bank)
      wide    == Until(chs, {64 + g})
      no      == <<FALSE, FALSE, FALSE>>
  IN IF g = 16 THEN Result(chs, no, TRUE, FALSE)
     ELSE Result(Enable(chs, touched \cup wide, {g + k : k \in c.mask}), no,
                 touched # bank \/ wide = {}, FALSE)

\* The loop over the mask runs for ChMaskCntl 0 only: for 1 to 4 it starts
\* beyond its end.
LinkADRReqForGroups(chs, c) ==
  LET asked   == CASE c.cntl = 0        -> 0 .. 15
                   [] c.cntl \in {6, 7} -> 0 .. 63
                   [] OTHER             -> {}
      on      == CASE c.cntl = 0 -> c.mask
                   [] c.cntl = 6 -> asked
                   [] OTHER      -> {}
      touched == Until(chs, asked)
      known   == DataRateSupported(r, c.dr)
  IN IF c.cntl = 5 THEN LinkADRReqForBanks(chs, c)
     ELSE Result(Enable(chs, touched, on), <<touched = asked, known, TRUE>>,
                 touched # asked \/ ~known, FALSE)

\* A data rate no touched channel supports is reported with a nil error.
LinkADRReqCn470(chs, c) ==
  LET asked   == CASE c.cntl = 0 -> 0 .. 15
                   [] c.cntl = 6 -> 0 .. Len(chs) - 1
                   [] OTHER      -> {}
      touched == Until(chs, asked)
      known   == DataRateSupported(r, c.dr)
      ok      == known /\ SomeSupports(chs, touched, c.dr)
  IN Result(Enable(chs, touched, c.mask), <<TRUE, ok, TRUE>>,
            touched # asked \/ ~ok, known /\ ~ok)

LinkAdrReq(chs, c) ==
  CASE Masked(r) -> LinkADRReqForChannels(chs, c)
    [] Groups(r) -> LinkADRReqForGroups(chs, c)
    [] OTHER     -> LinkADRReqCn470(chs, c)

AllAcks(res) == res.acks[1] /\ res.acks[2] /\ res.acks[3]

\* The block of a downlink, of one command or two: the rate of the last one
\* without errors, 255 if there is none, is taken when all are acknowledged.
executeLinkADRReq(block) ==
  LET one  == LinkAdrReq(channels, block[1])
      two  == IF Len(block) = 1 THEN one ELSE LinkAdrReq(one.channels, block[2])
      last == block[Len(block)]
  IN /\ channels' = two.channels
     /\ crashed' = (one.panics \/ two.panics)
     /\ dataRate' = IF ~(AllAcks(one) /\ AllAcks(two)) THEN dataRate
                    ELSE IF ~two.errs THEN last.dr
                    ELSE IF ~one.errs THEN block[1].dr
                    ELSE NoRate
     /\ UNCHANGED <<rx1Offset, dwell>>

----------------------------------------------------------------------------
(* The other commands.                                                     *)

\* RXParamSetupReq: the offset is taken if all three parameters are supported.
executeRXParamSetupReq ==
  /\ \E offset \in Offsets[region], freq \in Frequencies[region], dr \in {r.DataRateRX2, 15} :
       rx1Offset' = IF /\ RX1DROffsetSupported(r, offset)
                       /\ FrequencySupported(r, freq)
                       /\ DataRateSupported(r, dr)
                    THEN offset ELSE rx1Offset
  /\ UNCHANGED <<channels, dataRate, dwell, crashed>>

\* An unsupported frequency is refused in the answer but set all the same.  A
\* new channel goes to the end, whatever its index.
setChannel(chs, i, freq, min, max) ==
  IF i < r.NbReserved \/ ~DataRateRangeSupported(r, min, max) THEN chs
  ELSE IF i >= Len(chs) THEN Append(chs, Channel(TRUE, TRUE, freq, min, max))
  ELSE [chs EXCEPT ![i + 1] = UpdateChannel(freq, min, max)]

executeNewChannelReq ==
  /\ ~Groups(r)
  /\ \E q \in NewChannelReqs[region] :
       /\ q.index < Len(channels) \/ Len(channels) < MaxChannels
       /\ channels' = setChannel(channels, q.index, q.freq, q.min, q.max)
  /\ UNCHANGED <<dataRate, rx1Offset, dwell, crashed>>

setFrequencyDownlink(i, freq) ==
  IF At(i).FrequencyUplink = 0 \/ i < 3 THEN channels
  ELSE [channels EXCEPT ![i + 1].FrequencyDownlink = freq]

\* Panics on a channel that is not defined.
executeDLChannelReq ==
  /\ ~Groups(r)
  /\ \E q \in DLChannelReqs[region] :
       /\ FrequencySupported(r, q.freq)
       /\ crashed' = (q.index >= Len(channels))
       /\ channels' = IF q.index >= Len(channels) THEN channels
                      ELSE setFrequencyDownlink(q.index, q.freq)
  /\ UNCHANGED <<dataRate, rx1Offset, dwell>>

executeTXParamSetupReq ==
  /\ region \in {"AU915", "AS923"}
  /\ dwell' \in BOOLEAN
  /\ UNCHANGED <<channels, dataRate, rx1Offset, crashed>>

NoCommand == UNCHANGED <<channels, dataRate, rx1Offset, dwell, crashed>>

ExecuteMACCommand ==
  \/ \E block \in LinkADRReqs[region] : executeLinkADRReq(block)
  \/ executeRXParamSetupReq
  \/ executeNewChannelReq
  \/ executeDLChannelReq
  \/ executeTXParamSetupReq
  \/ NoCommand

----------------------------------------------------------------------------
(* The end of the windows.                                                 *)

AfterWindows == ~crashed /\ stage = "windows" /\ UNCHANGED <<region, index, firstPass, lastPass>>

Forget == uplink' = NoUplink /\ rx1' = NoUplink

\* A data frame, in error or with commands.  With more data pending the device
\* goes on without a switch: it sends an empty frame, or has acknowledged this
\* one, before it executed the commands, and opens its windows.  Only Execute
\* takes what it hears for a sign that the channel is good.
HearDownlink ==
  /\ AfterWindows /\ joined
  /\ doSwitch' = (doSwitch /\ pending)
  /\ ExecuteMACCommand
  /\ \/ stage' = "end" /\ pending' = FALSE /\ Forget
     \/ stage' = "send" /\ pending' = TRUE /\ Forget
     \/ stage' = "windows" /\ pending' = TRUE /\ SendData(DataInfo)
  /\ UNCHANGED <<joined, masksHeard>>

\* Silence makes the device switch, but in FPendingProcedure and when it joins.
HearNothing ==
  /\ AfterWindows
  /\ Forget
  /\ doSwitch' = (doSwitch \/ (joined /\ ~pending))
  /\ pending' = FALSE
  /\ stage' = IF joined THEN "end" ELSE "ready"
  /\ UNCHANGED <<channels, dataRate, rx1Offset, dwell, joined, masksHeard, crashed>>

\* The back-off and the repetitions: either may lower the rate, which by the
\* uint8 of DecrementDataRate is to go to 0, or unjoin the device.
EndExecute ==
  /\ ~crashed /\ stage = "end"
  /\ dataRate' \in {dataRate, 0}
  /\ joined' \in {joined, FALSE}
  /\ stage' = "ready"
  /\ UNCHANGED <<region, channels, index, doSwitch, firstPass, lastPass, rx1Offset, dwell,
                 uplink, pending, rx1, masksHeard, crashed>>

\* A list of channels, from the first that is not reserved.
ApplyFrequencies(freqs) ==
  LET first == r.NbReserved
      len   == IF Len(channels) < first + Len(freqs) THEN first + Len(freqs) ELSE Len(channels)
  IN [ i \in 1 .. len |->
         IF i \notin first + 1 .. first + Len(freqs) THEN channels[i]
         ELSE IF i <= Len(channels) THEN UpdateChannel(freqs[i - first], 0, 5)
         ELSE Channel(TRUE, TRUE, freqs[i - first], 0, 5) ]

\* A list of masks, 16 channels each.  The loop looks every channel up, whatever
\* the region, and panics on the first that is not defined.
ApplyMasks(masks) ==
  LET all == 0 .. 16 * Len(masks) - 1
  IN Enable(channels, all, {i \in all : i % 16 \in masks[i \div 16 + 1]})

\* ProcessJoinAccept takes the offset as it comes.  A join inside Execute goes
\* on to its end, one of Run's loop asks for a switch.
HearJoinAccept ==
  /\ AfterWindows /\ ~joined
  /\ Forget
  /\ joined' = TRUE
  /\ rx1Offset' \in Offsets[region]
  /\ \/ /\ channels' \in {channels}
                         \cup { ApplyFrequencies(l) : l \in CFLists[region].frequencies }
        /\ UNCHANGED <<masksHeard, crashed>>
     \/ \E l \in CFLists[region].masks :
          /\ channels' = ApplyMasks(l)
          /\ masksHeard' = TRUE
          /\ crashed' = (16 * Len(l) > Len(channels))
  /\ \/ doSwitch' \in {doSwitch, TRUE} /\ stage' = "ready"
     \/ stage' = "end" /\ UNCHANGED doSwitch
  /\ UNCHANGED <<dataRate, dwell, pending>>

Next ==
  \/ SwitchChannel \/ KeepChannel
  \/ SendUplink \/ SendJoinRequest
  \/ HearDownlink \/ HearNothing \/ HearJoinAccept
  \/ EndExecute

Spec == Init /\ [][Next]_vars

----------------------------------------------------------------------------
(* Properties. *)

\* No sequence of commands and join accepts changes a reserved channel: where
\* masks are by channel not at all, unless a join accept brought a list of masks,
\* which enables and disables what it likes; elsewhere only by masks and by the
\* frequency of its downlinks.
ReservedIntact ==
  \A i \in 1 .. r.NbReserved :
    /\ i \in DOMAIN channels
    /\ LET was == r.GetChannels[i]
           now == channels[i]
       IN IF Masked(r)
          THEN /\ [now EXCEPT !.EnableUplink = was.EnableUplink] = was
               /\ masksHeard \/ now = was
          ELSE [now EXCEPT !.EnableUplink = was.EnableUplink,
                           !.FrequencyDownlink = was.FrequencyDownlink] = was

\* No uplink panics: the current channel and the one SetupRX1 derives from it
\* exist whenever SetInfo and SendData look them up.
ChannelsExist == index < Len(channels) /\ RX1Channel(r, index) < Len(channels)

\* The rate of the first window is one of the region's whenever the device's
\* own was when it sent, although a join accept brings any offset.
Rx1Decodable ==
  stage = "windows" /\ (IF joined THEN uplink.DatR ELSE dataRate) \in r.rates
    => rx1.DataRate \in r.rates

\* A device that switches takes an active channel that supports its rate, and
\* an enabled one, but where AU915 and CN470, or a device whose channels a join
\* accept has masked, fall back to channel 0 and where US915 goes on to channel
\* 71 without looking.
SwitchPicksUsable ==
  [][ index' # index /\ ~(IsUs915(r) /\ index' = 71) =>
        LET now == channels'[index' + 1]
        IN /\ now.Active /\ IsSupportedDR(now, dataRate')
           /\ \/ now.EnableUplink
              \/ index' = 0 /\ ~IsUs915(r) /\ (Masked(r) => masksHeard) ]_vars

================================================================================
