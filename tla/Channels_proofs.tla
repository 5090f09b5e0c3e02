----------------------------- MODULE Channels_proofs -----------------------------
(***************************************************************************)
(* Theorems about Channels, for every table of regions that meets          *)
(* ParametersAssumption and everything the server may send that meets      *)
(* InputsAssumption.                                                       *)
(***************************************************************************)
EXTENDS Channels, SequenceTheorems, TLAPS

----------------------------------------------------------------------------
(* Channels under the operations on them.                                  *)

\* A channel as a reserved one may become of was: where masks are by channel only
\* a join accept reaches it, and only whether it is enabled; heard says whether
\* one brought masks.
KeptOf(was, now, heard) ==
  IF Masked(r) THEN [now EXCEPT !.EnableUplink = was.EnableUplink] = was /\ (heard \/ now = was)
  ELSE [now EXCEPT !.EnableUplink = was.EnableUplink,
                   !.FrequencyDownlink = was.FrequencyDownlink] = was

\* The channels chs may stand for the device's: none of the first is missing,
\* no reserved one spoilt, and the device is on one of them.
Intact(chs, heard) ==
  /\ chs \in Seq(ChannelType)
  /\ Len(chs) >= Len(r.GetChannels)
  /\ index \in Nat /\ index < Len(chs)
  /\ \A i \in 1 .. r.NbReserved : KeptOf(r.GetChannels[i], chs[i], heard)

\* An operation that touches channels one by one.
Touches(chs, new, heard) ==
  /\ DOMAIN new = 1 .. Len(new) /\ Len(new) \in Nat /\ Len(new) >= Len(chs)
  /\ \A i \in 1 .. Len(new) : new[i] \in ChannelType
  /\ \A i \in 1 .. r.NbReserved :
       \/ new[i] = chs[i]
       \/ /\ Masked(r) => heard
          /\ \E b \in BOOLEAN : new[i] = [chs[i] EXCEPT !.EnableUplink = b]

\* The parameters of the device's region.
LEMMA RegionOK ==
  ASSUME region \in DOMAIN Parameters
  PROVE  /\ ParametersOK(r)
         /\ r.NbReserved \in Nat /\ Len(r.GetChannels) \in Nat
         /\ r.NbReserved <= Len(r.GetChannels) /\ r.NbReserved >= 2
         /\ \A i \in 1 .. Len(r.GetChannels) : r.GetChannels[i] \in ChannelType
<1>1. ParametersOK(r)
  BY ParametersAssumption DEF r
<1>2. r.GetChannels \in Seq(ChannelType) /\ r.NbReserved \in 2 .. Len(r.GetChannels)
  BY <1>1 DEF ParametersOK
<1> QED
  BY <1>1, <1>2

\* A new channel is a channel.
LEMMA ChannelIsChannel ==
  ASSUME NEW a \in BOOLEAN, NEW e \in BOOLEAN, NEW f \in Nat, NEW m \in 0 .. 15,
         NEW n \in 0 .. 15
  PROVE  /\ Channel(a, e, f, m, n) \in ChannelType
         /\ UpdateChannel(f, m, n) \in ChannelType
  BY DEF Channel, UpdateChannel, ChannelType

LEMMA FieldsAreFree ==
  ASSUME NEW c \in ChannelType
  PROVE  /\ \A b \in BOOLEAN : [c EXCEPT !.EnableUplink = b] \in ChannelType
         /\ \A f \in Nat : [c EXCEPT !.FrequencyDownlink = f] \in ChannelType
  BY DEF ChannelType

\* What touches only what may be touched keeps channels intact.
LEMMA TouchesKeeps ==
  ASSUME region \in DOMAIN Parameters, NEW heard, NEW chs, Intact(chs, heard),
         NEW new, Touches(chs, new, heard), new = [i \in DOMAIN new |-> new[i]]
  PROVE  Intact(new, heard)
<1>1. new \in Seq(ChannelType)
  BY SeqDef DEF Touches
<1>2. Len(new) >= Len(r.GetChannels) /\ index \in Nat /\ index < Len(new)
  BY RegionOK DEF Intact, Touches
<1>3. ASSUME NEW i \in 1 .. r.NbReserved
      PROVE  KeptOf(r.GetChannels[i], new[i], heard)
  <2>1. chs[i] \in ChannelType /\ r.GetChannels[i] \in ChannelType
    BY RegionOK DEF Intact
  <2>2. KeptOf(r.GetChannels[i], chs[i], heard)
    BY DEF Intact
  <2>3. CASE new[i] = chs[i]
    BY <2>2, <2>3
  <2>4. ASSUME Masked(r) => heard, NEW b \in BOOLEAN,
               new[i] = [chs[i] EXCEPT !.EnableUplink = b]
        PROVE  KeptOf(r.GetChannels[i], new[i], heard)
    BY <2>1, <2>2, <2>4 DEF KeptOf, ChannelType
  <2> QED
    BY <2>3, <2>4 DEF Touches
<1> QED
  BY <1>1, <1>2, <1>3 DEF Intact

\* Enable keeps channels intact unless it touches reserved ones where masks are
\* by channel and none was heard.
LEMMA EnableKeeps ==
  ASSUME region \in DOMAIN Parameters, NEW heard, NEW chs, Intact(chs, heard),
         NEW S, NEW On, Masked(r) /\ ~heard => S \cap (0 .. r.NbReserved - 1) = {}
  PROVE  Intact(Enable(chs, S, On), heard)
<1> DEFINE new == Enable(chs, S, On)
<1>1. DOMAIN chs = 1 .. Len(chs) /\ Len(chs) \in Nat
      /\ \A i \in 1 .. Len(chs) : chs[i] \in ChannelType
  BY DEF Intact
<1>2. ASSUME NEW i \in 1 .. Len(chs)
      PROVE  /\ new[i] \in ChannelType
             /\ \/ new[i] = chs[i]
                \/ i - 1 \in S /\ \E b \in BOOLEAN : new[i] = [chs[i] EXCEPT !.EnableUplink = b]
  <2>1. new[i] = IF i - 1 \in S THEN [chs[i] EXCEPT !.EnableUplink = (i - 1 \in On)]
                 ELSE chs[i]
    BY <1>1 DEF Enable
  <2>2. (i - 1 \in On) \in BOOLEAN
    OBVIOUS
  <2>3. PICK b \in BOOLEAN : b = (i - 1 \in On)
    BY <2>2
  <2>4. new[i] = IF i - 1 \in S THEN [chs[i] EXCEPT !.EnableUplink = b] ELSE chs[i]
    BY <2>1, <2>3
  <2> HIDE DEF new
  <2> QED
    BY <1>1, <2>4, FieldsAreFree
<1>3. DOMAIN new = 1 .. Len(chs) /\ new = [i \in 1 .. Len(chs) |-> new[i]]
  BY <1>1 DEF Enable
<1>4. Len(new) = Len(chs)
  <2>1. new \in Seq(ChannelType)
    BY <1>1, <1>2, <1>3, SeqDef
  <2> QED
    BY <1>1, <1>3, <2>1
<1>5. ASSUME NEW i \in 1 .. r.NbReserved
      PROVE  \/ new[i] = chs[i]
             \/ (Masked(r) => heard) /\ \E b \in BOOLEAN : new[i] = [chs[i] EXCEPT !.EnableUplink = b]
  <2>1. i \in 1 .. Len(chs) /\ i - 1 \in 0 .. r.NbReserved - 1
    BY RegionOK DEF Intact
  <2> QED
    BY <1>2, <2>1
<1> HIDE DEF new
<1>6. Touches(chs, new, heard)
  <2>1. \A i \in 1 .. Len(new) : new[i] \in ChannelType
    BY <1>2, <1>4
  <2>2. DOMAIN new = 1 .. Len(new) /\ Len(new) \in Nat /\ Len(new) >= Len(chs)
    BY <1>1, <1>3, <1>4
  <2> QED
    BY <1>5, <2>1, <2>2 DEF Touches
<1>7. Intact(new, heard)
  BY <1>3, <1>6, TouchesKeeps
<1> QED
  BY <1>7 DEF new

\* Every region's LinkAdrReq, whatever it answers, leaves the channels intact.
LEMMA LinkAdrReqKeeps ==
  ASSUME region \in DOMAIN Parameters, NEW chs, Intact(chs, masksHeard), NEW c
  PROVE  Intact(LinkAdrReq(chs, c).channels, masksHeard)
<1>1. CASE Masked(r)
  <2> DEFINE asked   == (IF c.cntl = 6 THEN 0 .. 15 ELSE c.mask) \ (0 .. r.NbReserved - 1)
             touched == Until(chs, asked)
  <2>1. LinkAdrReq(chs, c).channels = Enable(chs, touched, touched)
    <3>1. LinkAdrReq(chs, c) = LinkADRReqForChannels(chs, c)
      BY <1>1 DEF LinkAdrReq, Masked, Groups
    <3>2. LinkADRReqForChannels(chs, c).channels = Enable(chs, touched, touched)
      BY Zenon DEF LinkADRReqForChannels, Result
    <3> QED
      BY <3>1, <3>2
  <2>2. touched \cap (0 .. r.NbReserved - 1) = {}
    BY DEF Until
  <2> HIDE DEF touched
  <2> QED
    BY <2>1, <2>2, EnableKeeps
<1>2. CASE ~Masked(r) /\ Groups(r)
  <2>1. CASE c.cntl = 5
    <3>1. LinkAdrReq(chs, c).channels = chs
          \/ \E S, On : LinkAdrReq(chs, c).channels = Enable(chs, S, On)
      BY <1>2, <2>1 DEF LinkAdrReq, LinkADRReqForGroups, LinkADRReqForBanks, Result
    <3> QED
      BY <1>2, <3>1, EnableKeeps
  <2>2. CASE c.cntl # 5
    <3>1. \E S, On : LinkAdrReq(chs, c).channels = Enable(chs, S, On)
      BY <1>2, <2>2 DEF LinkAdrReq, LinkADRReqForGroups, Result
    <3> QED
      BY <1>2, <3>1, EnableKeeps
  <2> QED
    BY <2>1, <2>2
<1>3. CASE ~Masked(r) /\ ~Groups(r)
  <2>1. \E S, On : LinkAdrReq(chs, c).channels = Enable(chs, S, On)
    BY <1>3 DEF LinkAdrReq, LinkADRReqCn470, Result
  <2> QED
    BY <1>3, <2>1, EnableKeeps
<1> QED
  BY <1>1, <1>2, <1>3

\* One channel behind the reserved ones is replaced.
LEMMA ReplaceKeeps ==
  ASSUME region \in DOMAIN Parameters, NEW chs, Intact(chs, masksHeard),
         NEW i \in Nat, i >= r.NbReserved, i < Len(chs), NEW c \in ChannelType
  PROVE  Intact([chs EXCEPT ![i + 1] = c], masksHeard)
<1>1. chs \in Seq(ChannelType) /\ i + 1 \in 1 .. Len(chs) /\ Len(chs) \in Nat
  BY DEF Intact
<1>2. /\ [chs EXCEPT ![i + 1] = c] \in Seq(ChannelType)
      /\ Len([chs EXCEPT ![i + 1] = c]) = Len(chs)
      /\ \A j \in 1 .. Len(chs) : j # i + 1 => [chs EXCEPT ![i + 1] = c][j] = chs[j]
  BY <1>1, ExceptSeq
<1> QED
  BY <1>1, <1>2, RegionOK DEF Intact

LEMMA SetChannelKeeps ==
  ASSUME region \in DOMAIN Parameters, NEW chs, Intact(chs, masksHeard),
         NEW i \in Nat, NEW f \in Nat, NEW m \in 0 .. 15, NEW n \in 0 .. 15
  PROVE  Intact(setChannel(chs, i, f, m, n), masksHeard)
<1>1. CASE i < r.NbReserved \/ ~DataRateRangeSupported(r, m, n)
  BY <1>1 DEF setChannel
<1>2. CASE ~(i < r.NbReserved \/ ~DataRateRangeSupported(r, m, n)) /\ i >= Len(chs)
  <2>1. PICK c \in ChannelType : setChannel(chs, i, f, m, n) = Append(chs, c)
    BY <1>2, ChannelIsChannel DEF setChannel
  <2>2. chs \in Seq(ChannelType) /\ Len(chs) \in Nat
    BY DEF Intact
  <2>3. /\ Append(chs, c) \in Seq(ChannelType)
        /\ Len(Append(chs, c)) = Len(chs) + 1
        /\ \A j \in 1 .. Len(chs) : Append(chs, c)[j] = chs[j]
    BY <2>2
  <2> QED
    BY <2>1, <2>2, <2>3, RegionOK DEF Intact
<1>3. CASE ~(i < r.NbReserved \/ ~DataRateRangeSupported(r, m, n)) /\ i < Len(chs)
  <2>1. setChannel(chs, i, f, m, n) = [chs EXCEPT ![i + 1] = UpdateChannel(f, m, n)]
    <3>1. Len(chs) \in Nat
      BY DEF Intact
    <3>2. ~(i >= Len(chs))
      BY <1>3, <3>1
    <3> QED
      BY <1>3, <3>2, Zenon DEF setChannel
  <2>2. i >= r.NbReserved
    <3>1. r.NbReserved \in Nat
      BY RegionOK
    <3> QED
      BY <1>3, <3>1
  <2>3. UpdateChannel(f, m, n) \in ChannelType
    BY ChannelIsChannel
  <2>4. Intact([chs EXCEPT ![i + 1] = UpdateChannel(f, m, n)], masksHeard)
    BY <1>3, <2>2, <2>3, ReplaceKeeps
  <2> QED
    BY <2>1, <2>4, Zenon
<1> QED
  BY <1>1, <1>2, <1>3, RegionOK DEF Intact

\* A frequency for the downlinks of a channel: not of the first three, which
\* are all that is reserved where masks are by channel.
LEMMA SetFrequencyDownlinkKeeps ==
  ASSUME region \in DOMAIN Parameters, Intact(channels, masksHeard),
         NEW i \in Nat, i < Len(channels), NEW f \in Nat
  PROVE  Intact(setFrequencyDownlink(i, f), masksHeard)
<1>1. CASE At(i).FrequencyUplink = 0 \/ i < 3
  BY <1>1 DEF setFrequencyDownlink
<1>2. CASE ~(At(i).FrequencyUplink = 0 \/ i < 3)
  <2>1. channels \in Seq(ChannelType) /\ i + 1 \in 1 .. Len(channels) /\ Len(channels) \in Nat
    BY DEF Intact
  <2> DEFINE c   == [channels[i + 1] EXCEPT !.FrequencyDownlink = f]
             new == [channels EXCEPT ![i + 1] = c]
  <2>2. c \in ChannelType
    BY <2>1, FieldsAreFree
  <2>3. setFrequencyDownlink(i, f) = new
    BY <1>2 DEF setFrequencyDownlink
  <2> HIDE DEF c
  <2>4. /\ new \in Seq(ChannelType)
        /\ Len(new) = Len(channels)
        /\ \A j \in 1 .. Len(channels) : new[j] = IF j = i + 1 THEN c ELSE channels[j]
    BY <2>1, <2>2, ExceptSeq
  <2> HIDE DEF new
  <2>5. ASSUME NEW j \in 1 .. r.NbReserved
        PROVE  KeptOf(r.GetChannels[j], new[j], masksHeard)
    <3>1. KeptOf(r.GetChannels[j], channels[j], masksHeard) /\ j \in 1 .. Len(channels)
      BY RegionOK DEF Intact
    <3>2. CASE j # i + 1
      BY <2>4, <3>1, <3>2
    <3>3. CASE j = i + 1
      <4>1. ~Masked(r)
        BY <1>2, <3>3, RegionOK DEF ParametersOK
      <4>2. channels[j] \in ChannelType /\ r.GetChannels[j] \in ChannelType
        BY <2>1, <3>1, RegionOK
      <4> QED
        <5>1. new[j] = [channels[j] EXCEPT !.FrequencyDownlink = f]
          BY <2>4, <3>1, <3>3 DEF c
        <5> QED
          BY <3>1, <4>1, <4>2, <5>1 DEF KeptOf, ChannelType
    <3> QED
      BY <3>2, <3>3
  <2> QED
    BY <2>3, <2>4, <2>5 DEF Intact
<1> QED
  BY <1>1, <1>2

\* The frequencies of a join accept go behind the reserved channels.
LEMMA ApplyFrequenciesKeeps ==
  ASSUME region \in DOMAIN Parameters, Intact(channels, masksHeard), NEW freqs \in Seq(Nat)
  PROVE  Intact(ApplyFrequencies(freqs), masksHeard)
<1> DEFINE first == r.NbReserved
           len   == IF Len(channels) < first + Len(freqs) THEN first + Len(freqs)
                    ELSE Len(channels)
           e(i)  == IF i \notin first + 1 .. first + Len(freqs) THEN channels[i]
                    ELSE IF i <= Len(channels) THEN UpdateChannel(freqs[i - first], 0, 5)
                    ELSE Channel(TRUE, TRUE, freqs[i - first], 0, 5)
           new   == [i \in 1 .. len |-> e(i)]
<1>1. /\ Len(channels) \in Nat /\ Len(freqs) \in Nat /\ first \in Nat
      /\ \A i \in 1 .. Len(channels) : channels[i] \in ChannelType
      /\ \A i \in 1 .. Len(freqs) : freqs[i] \in Nat
      /\ first <= Len(channels)
  BY RegionOK DEF Intact
<1>2. ApplyFrequencies(freqs) = new
  BY DEF ApplyFrequencies
<1>3. len \in Nat /\ len >= Len(channels)
  BY <1>1
<1>4. ASSUME NEW i \in 1 .. len
      PROVE  e(i) \in ChannelType
  <2>1. CASE i \in first + 1 .. first + Len(freqs)
    <3>1. freqs[i - first] \in Nat
      BY <1>1, <2>1
    <3>2. \A f \in Nat : /\ UpdateChannel(f, 0, 5) \in ChannelType
                         /\ Channel(TRUE, TRUE, f, 0, 5) \in ChannelType
      BY DEF Channel, UpdateChannel, ChannelType
    <3> QED
      BY <2>1, <3>1, <3>2
  <2>2. CASE i \notin first + 1 .. first + Len(freqs)
    <3>1. i \in 1 .. Len(channels)
      BY <1>1, <2>2
    <3> QED
      BY <1>1, <2>2, <3>1
  <2> QED
    BY <2>1, <2>2
<1>5. ASSUME NEW i \in 1 .. r.NbReserved
      PROVE  i \in 1 .. len /\ e(i) = channels[i]
  <2>1. i \notin first + 1 .. first + Len(freqs)
    BY <1>1
  <2>2. e(i) = channels[i]
    BY <2>1
  <2> HIDE DEF len, e
  <2> QED
    BY <1>1, <1>3, <2>2
<1> HIDE DEF len, e
<1>6. new \in Seq(ChannelType) /\ DOMAIN new = 1 .. len /\ Len(new) = len
  <2>1. new \in [1 .. len -> ChannelType]
    BY <1>4
  <2>2. new \in Seq(ChannelType)
    BY <1>3, <2>1, SeqDef
  <2> QED
    BY <1>3, <2>2
<1>7. \A i \in 1 .. r.NbReserved : new[i] = channels[i]
  BY <1>5
<1> HIDE DEF new
<1>8. Intact(new, masksHeard)
  BY <1>1, <1>3, <1>6, <1>7, RegionOK DEF Intact
<1> QED
  BY <1>2, <1>8

----------------------------------------------------------------------------
(* The channels and the current one, through every step.                   *)

CoreInv == region \in DOMAIN Parameters /\ Intact(channels, masksHeard)

LEMMA CoreFacts ==
  ASSUME CoreInv
  PROVE  /\ region \in DOMAIN Parameters /\ Intact(channels, masksHeard)
         /\ channels \in Seq(ChannelType)
         /\ Len(channels) \in Nat /\ DOMAIN channels = 1 .. Len(channels)
         /\ Len(channels) >= 2
         /\ Groups(r) => Len(channels) >= 80
         /\ index \in 0 .. Len(channels) - 1
<1>1. region \in DOMAIN Parameters /\ Intact(channels, masksHeard)
  BY DEF CoreInv
<1>2. channels \in Seq(ChannelType) /\ Len(channels) >= Len(r.GetChannels)
  BY <1>1 DEF Intact
<1>3. Groups(r) => Len(r.GetChannels) = 80
  BY <1>1, RegionOK DEF ParametersOK
<1>4. Len(channels) \in Nat /\ DOMAIN channels = 1 .. Len(channels)
  BY <1>2
<1>5. Len(channels) >= 2
  <2>1. \A a, b, c \in Nat : b >= 2 /\ b <= a /\ c >= a => c >= 2
    OBVIOUS
  <2> QED
    BY <1>1, <1>2, <1>4, <2>1, RegionOK
<1>6. index \in 0 .. Len(channels) - 1
  BY <1>1, <1>4 DEF Intact
<1>7. Groups(r) => Len(channels) >= 80
  BY <1>2, <1>3
<1> QED
  BY <1>1, <1>2, <1>4, <1>5, <1>6, <1>7

\* While the region stays, intact channels are taken over as they are.
LEMMA IntactNext ==
  ASSUME UNCHANGED <<region, index>>, Intact(channels', masksHeard')
  PROVE  Intact(channels, masksHeard)'
  BY DEF Intact, KeptOf, Masked, r

LEMMA GroupRange ==
  ASSUME index \in Nat
  PROVE  /\ NextGroup \in 0 .. 8
         /\ index \div 8 \in Nat
  BY DEF NextGroup

\* Whatever a switch draws is a channel.
LEMMA SwitchIndex ==
  ASSUME CoreInv, SwitchToWide \/ SwitchToDrawn \/ FallBack
  PROVE  /\ index' \in 0 .. Len(channels) - 1
         /\ channels' # channels =>
              /\ ~Masked(r)
              /\ channels' = [channels EXCEPT ![index' + 1].EnableUplink = TRUE]
<1> USE CoreFacts
<1>1. IsUs915(r) => Groups(r)
  BY RegionOK DEF ParametersOK
<1>2. CASE SwitchToWide
  BY <1>1, <1>2 DEF SwitchToWide
<1>3. CASE SwitchToDrawn
  <2>1. PICK i \in Drawn : index' = i
    BY <1>3 DEF SwitchToDrawn
  <2>2. IsUs915(r) => NextGroup \in 0 .. 7
    BY <1>3, GroupRange DEF SwitchToDrawn
  <2>3. i \in 0 .. Len(channels) - 1
    BY <1>1, <2>1, <2>2 DEF Drawn
  <2> QED
    BY <1>3, <2>1, <2>3 DEF SwitchToDrawn
<1>4. CASE FallBack
  <2>1. IsUs915(r) => NextGroup \in 0 .. 7
    BY <1>4, GroupRange DEF FallBack
  <2>2. index' \in 0 .. Len(channels) - 1
    BY <1>1, <1>4, <2>1 DEF FallBack
  <2>3. Groups(r) => ~Masked(r)
    BY DEF Groups, Masked
  <2> QED
    BY <1>1, <1>4, <2>2, <2>3 DEF FallBack
<1> QED
  BY <1>2, <1>3, <1>4

----------------------------------------------------------------------------
(* Every step.                                                             *)

\* No MAC command spoils the channels.
LEMMA CommandKeeps ==
  ASSUME CoreInv, ExecuteMACCommand
  PROVE  Intact(channels', masksHeard)
<1> USE CoreFacts
<1>1. ASSUME NEW block \in LinkADRReqs[region], executeLinkADRReq(block)
      PROVE  Intact(channels', masksHeard)
  <2> DEFINE one == LinkAdrReq(channels, block[1])
             two == LinkAdrReq(one.channels, block[2])
  <2>1. channels' = IF Len(block) = 1 THEN one.channels ELSE two.channels
    BY <1>1 DEF executeLinkADRReq
  <2>2. Intact(one.channels, masksHeard)
    BY LinkAdrReqKeeps
  <2> HIDE DEF one
  <2>3. Intact(two.channels, masksHeard)
    BY <2>2, LinkAdrReqKeeps
  <2> QED
    BY <2>1, <2>2, <2>3
<1>2. CASE executeNewChannelReq
  <2>1. PICK q \in NewChannelReqs[region] :
          channels' = setChannel(channels, q.index, q.freq, q.min, q.max)
    BY <1>2 DEF executeNewChannelReq
  <2>2. q.index \in Nat /\ q.freq \in Nat /\ q.min \in 0 .. 15 /\ q.max \in 0 .. 15
    BY InputsAssumption
  <2> QED
    BY <2>1, <2>2, SetChannelKeeps
<1>3. CASE executeDLChannelReq
  <2>1. PICK q \in DLChannelReqs[region] :
          channels' = IF q.index >= Len(channels) THEN channels
                      ELSE setFrequencyDownlink(q.index, q.freq)
    BY <1>3 DEF executeDLChannelReq
  <2>2. q.index \in Nat /\ q.freq \in Nat
    BY InputsAssumption
  <2>3. CASE q.index >= Len(channels)
    BY <2>1, <2>3
  <2>4. CASE q.index < Len(channels)
    <3>1. channels' = setFrequencyDownlink(q.index, q.freq)
      BY <2>1, <2>2, <2>4
    <3> QED
      BY <2>2, <2>4, <3>1, SetFrequencyDownlinkKeeps
  <2> QED
    BY <2>2, <2>3, <2>4
<1>4. CASE executeRXParamSetupReq \/ executeTXParamSetupReq \/ NoCommand
  BY <1>4 DEF executeRXParamSetupReq, executeTXParamSetupReq, NoCommand
<1> QED
  BY <1>1, <1>2, <1>3, <1>4 DEF ExecuteMACCommand

\* What may be while no masks were heard may be when some were.
LEMMA HeardAllows ==
  ASSUME NEW chs, Intact(chs, masksHeard), region \in DOMAIN Parameters
  PROVE  Intact(chs, TRUE)
<1>1. \A i \in 1 .. r.NbReserved :
        KeptOf(r.GetChannels[i], chs[i], masksHeard) => KeptOf(r.GetChannels[i], chs[i], TRUE)
  BY Zenon DEF KeptOf
<1> QED
  BY <1>1, Zenon DEF Intact

\* Nor does the list of a join accept, but that masks are heard with it.
LEMMA JoinAcceptKeeps ==
  ASSUME CoreInv, HearJoinAccept
  PROVE  Intact(channels', masksHeard')
<1> USE CoreFacts
<1>1. CASE channels' = channels /\ masksHeard' = masksHeard
  BY <1>1
<1>2. ASSUME NEW l \in CFLists[region].frequencies, channels' = ApplyFrequencies(l),
             masksHeard' = masksHeard
      PROVE  Intact(channels', masksHeard')
  <2>1. l \in Seq(Nat)
    BY InputsAssumption
  <2> QED
    BY <1>2, <2>1, ApplyFrequenciesKeeps
<1>3. ASSUME NEW l \in CFLists[region].masks, channels' = ApplyMasks(l), masksHeard'
      PROVE  Intact(channels', masksHeard')
  <2>1. PICK S, On : channels' = Enable(channels, S, On)
    BY <1>3 DEF ApplyMasks
  <2>2. Intact(channels, TRUE)
    BY HeardAllows
  <2>3. Intact(Enable(channels, S, On), TRUE)
    BY <2>2, EnableKeeps
  <2> QED
    BY <1>3, <2>1, <2>3
<1> QED
  BY <1>1, <1>2, <1>3 DEF HearJoinAccept

\* A switch goes to a channel there is, and enables at most that one.
LEMMA SwitchKeeps ==
  ASSUME CoreInv, SwitchToWide \/ SwitchToDrawn \/ FallBack,
         UNCHANGED <<region, masksHeard>>
  PROVE  CoreInv'
<1> USE CoreFacts
<1>1. index' \in 0 .. Len(channels) - 1
  BY SwitchIndex
<1>2. /\ channels' \in Seq(ChannelType) /\ Len(channels') = Len(channels)
      /\ \A i \in 1 .. r.NbReserved : KeptOf(r.GetChannels[i], channels'[i], masksHeard)
  <2>1. CASE channels' = channels
    BY <2>1 DEF Intact
  <2>2. CASE channels' # channels
    <3>1. ~Masked(r) /\ channels' = [channels EXCEPT ![index' + 1].EnableUplink = TRUE]
      BY <2>2, SwitchIndex
    <3> DEFINE c == [channels[index' + 1] EXCEPT !.EnableUplink = TRUE]
    <3>2. c \in ChannelType /\ index' + 1 \in 1 .. Len(channels)
      <4>1. index' + 1 \in 1 .. Len(channels)
        <5>1. \A n \in Nat : \A i \in 0 .. n - 1 : i + 1 \in 1 .. n
          OBVIOUS
        <5>2. Len(channels) \in Nat
          OBVIOUS
        <5> QED
          BY <1>1, <5>1, <5>2, Zenon
      <4>2. channels[index' + 1] \in ChannelType
        BY <4>1
      <4> QED
        BY <4>1, <4>2, FieldsAreFree
    <3>3. channels' = [channels EXCEPT ![index' + 1] = c]
      BY <3>1
    <3>4. /\ channels' \in Seq(ChannelType) /\ Len(channels') = Len(channels)
          /\ \A i \in 1 .. Len(channels) :
               channels'[i] = IF i = index' + 1 THEN c ELSE channels[i]
      <4> HIDE DEF c
      <4> QED
        BY <3>2, <3>3, ExceptSeq
    <3>5. ASSUME NEW i \in 1 .. r.NbReserved
          PROVE  KeptOf(r.GetChannels[i], channels'[i], masksHeard)
      <4>1. KeptOf(r.GetChannels[i], channels[i], masksHeard) /\ i \in 1 .. Len(channels)
        BY RegionOK DEF Intact
      <4>2. channels[i] \in ChannelType /\ r.GetChannels[i] \in ChannelType
        BY <4>1, RegionOK
      <4>3. CASE i # index' + 1
        <5>1. channels'[i] = channels[i]
          BY <3>4, <4>1, <4>3
        <5> QED
          BY <4>1, <5>1
      <4>4. CASE i = index' + 1
        <5>1. channels'[i] = [channels[i] EXCEPT !.EnableUplink = TRUE]
          BY <3>4, <4>1, <4>4
        <5> QED
          BY <3>1, <4>1, <4>2, <5>1 DEF KeptOf, ChannelType
      <4> QED
        BY <4>3, <4>4
    <3> QED
      BY <3>4, <3>5
  <2> QED
    BY <2>1, <2>2
<1>3. Len(channels) >= Len(r.GetChannels)
  BY DEF Intact
<1>4. r' = r /\ region' \in DOMAIN Parameters
  BY DEF r
<1>5. /\ Len(channels') >= Len(r.GetChannels)
      /\ index' \in Nat /\ index' < Len(channels')
  BY <1>1, <1>2, <1>3
<1>6. masksHeard' = masksHeard
  OBVIOUS
<1>7. (\A i \in 1 .. r.NbReserved : KeptOf(r.GetChannels[i], channels[i], masksHeard))'
  <2>1. (1 .. r.NbReserved)' = 1 .. r.NbReserved
    BY <1>4
  <2>2. ASSUME NEW i \in 1 .. r.NbReserved
        PROVE  KeptOf(r.GetChannels[i], channels[i], masksHeard)'
    <3>1. KeptOf(r.GetChannels[i], channels'[i], masksHeard)
      BY <1>2
    <3> QED
      BY <1>4, <1>6, <3>1 DEF KeptOf, Masked
  <2> QED
    BY <2>1, <2>2, Zenon
<1> QED
  <2>1. Intact(channels, masksHeard)'
    BY <1>2, <1>4, <1>5, <1>6, <1>7, Zenon DEF Intact
  <2> QED
    BY <1>4, <2>1 DEF CoreInv

LEMMA CoreStart == Init => CoreInv
<1> SUFFICES ASSUME Init PROVE CoreInv
  OBVIOUS
<1>1. region \in DOMAIN Parameters /\ channels = r.GetChannels /\ index = 0
  BY DEF Init
<1>2. r.GetChannels \in Seq(ChannelType) /\ Len(r.GetChannels) >= 2
  BY <1>1, RegionOK DEF ParametersOK
<1>3. \A i \in 1 .. r.NbReserved : r.GetChannels[i] \in ChannelType
  BY <1>1, RegionOK
<1>4. \A i \in 1 .. r.NbReserved : KeptOf(r.GetChannels[i], r.GetChannels[i], masksHeard)
  BY <1>3 DEF KeptOf, ChannelType
<1> QED
  BY <1>1, <1>2, <1>4 DEF CoreInv, Intact

LEMMA CoreStep == CoreInv /\ [Next]_vars => CoreInv'
<1> SUFFICES ASSUME CoreInv, [Next]_vars PROVE CoreInv'
  OBVIOUS
<1>1. CASE SwitchChannel
  BY <1>1, SwitchKeeps DEF SwitchChannel
<1>2. CASE HearDownlink
  <2>1. UNCHANGED <<region, index>> /\ ExecuteMACCommand
    BY <1>2 DEF HearDownlink, AfterWindows
  <2>2. masksHeard' = masksHeard
    BY <1>2 DEF HearDownlink
  <2> QED
    BY <2>1, <2>2, CommandKeeps, IntactNext DEF CoreInv
<1>3. CASE HearJoinAccept
  <2>1. UNCHANGED <<region, index>>
    BY <1>3 DEF HearJoinAccept, AfterWindows
  <2> QED
    BY <1>3, <2>1, JoinAcceptKeeps, IntactNext DEF CoreInv
<1>4. CASE KeepChannel \/ SendUplink \/ SendJoinRequest \/ HearNothing \/ EndExecute
           \/ UNCHANGED vars
  <2>1. UNCHANGED <<region, index, channels, masksHeard>>
    BY <1>4 DEF KeepChannel, SendUplink, SendJoinRequest, HearNothing, EndExecute,
                AfterWindows, vars
  <2> QED
    BY <2>1, IntactNext DEF CoreInv
<1> QED
  BY <1>1, <1>2, <1>3, <1>4 DEF Next

LEMMA CoreHolds == Spec => []CoreInv
  BY CoreStart, CoreStep, PTL DEF Spec

\* Whatever the server sends within InputsAssumption, and in any order: the reserved
\* channels keep their frequencies and rates and stay active.  Where masks are by
\* channel they also stay enabled until a join accept brings a list of masks, in
\* any region; where masks are by group, commands may disable them and set the
\* frequency of their downlinks.
THEOREM ReservedChannelsStay == Spec => []ReservedIntact
<1>1. CoreInv => ReservedIntact
  <2> SUFFICES ASSUME CoreInv PROVE ReservedIntact
    OBVIOUS
  <2>1. ASSUME NEW i \in 1 .. r.NbReserved
        PROVE  i \in DOMAIN channels /\ KeptOf(r.GetChannels[i], channels[i], masksHeard)
    BY CoreFacts, RegionOK DEF Intact
  <2> QED
    BY <2>1 DEF ReservedIntact, KeptOf
<1> QED
  BY <1>1, CoreHolds, PTL

\* The channel of the first window exists.
LEMMA Rx1ChannelExists == CoreInv => RX1Channel(r, index) \in 0 .. Len(channels) - 1
<1> SUFFICES ASSUME CoreInv PROVE RX1Channel(r, index) \in 0 .. Len(channels) - 1
  OBVIOUS
<1>1. index \in 0 .. Len(channels) - 1 /\ Len(channels) \in Nat
  BY CoreFacts
<1>2. r.rx1 \in {"us915", "au915"} => Len(channels) >= 80
  BY CoreFacts, RegionOK DEF ParametersOK, IsUs915
<1>3. r.rx1 = "cn470" => Len(channels) >= 48
  BY CoreFacts, RegionOK DEF ParametersOK, Intact
<1>4. index % 8 \in 0 .. 7 /\ index % 48 \in 0 .. 47
  BY <1>1
<1> QED
  BY <1>1, <1>2, <1>3, <1>4 DEF RX1Channel

\* The current channel and that of the first window always exist: setting up
\* an uplink never looks past the end of the channels.
THEOREM ChannelsAlwaysExist == Spec => []ChannelsExist
<1>1. CoreInv => ChannelsExist
  <2> SUFFICES ASSUME CoreInv PROVE ChannelsExist
    OBVIOUS
  <2> DEFINE i == RX1Channel(r, index)
  <2>1. Len(channels) \in Nat /\ index \in 0 .. Len(channels) - 1 /\ i \in 0 .. Len(channels) - 1
    BY CoreFacts, Rx1ChannelExists
  <2> HIDE DEF i
  <2>2. index < Len(channels) /\ i < Len(channels)
    BY <2>1
  <2> QED
    BY <2>2 DEF ChannelsExist, i
<1> QED
  BY <1>1, CoreHolds, PTL

----------------------------------------------------------------------------
(* The rate of the first window.                                           *)

Byte == 0 .. 255

\* SetupRX1 answers a rate of the region with one of the region, whatever the
\* offset; and any rate with a byte.
LEMMA Rx1Rate ==
  ASSUME region \in DOMAIN Parameters, NEW offset \in 0 .. 7, NEW dw \in BOOLEAN
  PROVE  /\ \A dr \in r.rates : RX1DataRate(r, dr, offset, dw) \in r.rates
         /\ \A dr \in Byte : RX1DataRate(r, dr, offset, dw) \in Byte
<1>1. RatesOK(r) /\ r.rates \subseteq 0 .. 15
  BY RegionOK DEF ParametersOK
<1>2. ASSUME NEW dr \in 0 .. 255, NEW lowest \in {0, 2}
      PROVE  RX1Effective(dr, offset, lowest) \in 0 .. 5
  BY DEF RX1Effective, AtMost, AtLeast
<1>3. ASSUME NEW dr \in 0 .. 255
      PROVE  RX1Us915(dr, offset) \in 8 .. 13
  BY DEF RX1Us915, AtLeast
<1>4. ASSUME NEW dr \in 0 .. 15
      PROVE  RX1Au915(dr, offset) \in {0} \cup (8 .. 13)
  BY DEF RX1Au915, AtMost
<1>5. ASSUME NEW dr \in 0 .. 255
      PROVE  RX1Au915(dr, offset) \in 0 .. 13
  <2>1. (dr - offset + 8) % 256 \in 0 .. 255
    OBVIOUS
  <2> QED
    BY <2>1 DEF RX1Au915, AtMost
<1>6. ASSUME NEW dr \in 0 .. 255
      PROVE  RX1Difference(dr, offset) \in 0 .. dr
  BY DEF RX1Difference
<1>7. \A dr \in r.rates : dr \in 0 .. 15 /\ dr \in Byte
  BY <1>1 DEF Byte
<1>8. CASE r.rx1 = "effective"
  <2> DEFINE lowest == IF dw /\ r = As923 THEN 2 ELSE 0
  <2>1. \A dr : RX1DataRate(r, dr, offset, dw) = RX1Effective(dr, offset, lowest)
    BY <1>8 DEF RX1DataRate
  <2>2. lowest \in {0, 2}
    OBVIOUS
  <2>3. 0 .. 5 \subseteq r.rates /\ 0 .. 5 \subseteq 0 .. 255
    <3>1. 0 .. 5 \subseteq r.rates
      BY <1>1, <1>8, SMTT(30) DEF RatesOK
    <3>2. 0 .. 5 \subseteq 0 .. 255
      OBVIOUS
    <3> QED
      BY <3>1, <3>2
  <2> HIDE DEF lowest
  <2>4. ASSUME NEW dr \in 0 .. 255
        PROVE  RX1DataRate(r, dr, offset, dw) \in 0 .. 5
    <3>1. RX1Effective(dr, offset, lowest) \in 0 .. 5
      BY <1>2, <2>2
    <3>2. RX1DataRate(r, dr, offset, dw) = RX1Effective(dr, offset, lowest)
      BY <2>1, Zenon
    <3> QED
      BY <3>1, <3>2, Zenon
  <2> QED
    <3>1. ASSUME NEW dr \in r.rates
          PROVE  RX1DataRate(r, dr, offset, dw) \in r.rates
      <4>1. dr \in 0 .. 255
        <5>1. dr \in Byte
          BY <1>7, Zenon
        <5> QED
          BY <5>1 DEF Byte
      <4>2. RX1DataRate(r, dr, offset, dw) \in 0 .. 5
        BY <4>1, <2>4
      <4>3. 0 .. 5 \subseteq r.rates
        BY <2>3
      <4> QED
        BY <4>2, <4>3
    <3>2. ASSUME NEW dr \in Byte
          PROVE  RX1DataRate(r, dr, offset, dw) \in Byte
      <4>1. dr \in 0 .. 255
        BY DEF Byte
      <4>2. RX1DataRate(r, dr, offset, dw) \in 0 .. 5
        BY <4>1, <2>4
      <4>3. 0 .. 5 \subseteq Byte
        BY <4>1, <2>3 DEF Byte
      <4> QED
        BY <4>2, <4>3
    <3> QED
      BY <3>1, <3>2
<1>9. CASE r.rx1 = "us915"
  <2>1. \A dr : RX1DataRate(r, dr, offset, dw) = RX1Us915(dr, offset)
    BY <1>9 DEF RX1DataRate
  <2>2. 8 .. 13 \subseteq r.rates /\ 8 .. 13 \subseteq 0 .. 255
    <3>1. 8 .. 13 \subseteq r.rates
      BY <1>1, <1>9, SMTT(30) DEF RatesOK
    <3>2. 8 .. 13 \subseteq 0 .. 255
      OBVIOUS
    <3> QED
      BY <3>1, <3>2
  <2>3. ASSUME NEW dr \in 0 .. 255
        PROVE  RX1DataRate(r, dr, offset, dw) \in 8 .. 13
    <3>1. RX1Us915(dr, offset) \in 8 .. 13
      BY <1>3
    <3>2. RX1DataRate(r, dr, offset, dw) = RX1Us915(dr, offset)
      BY <2>1, Zenon
    <3> QED
      BY <3>1, <3>2, Zenon
  <2> QED
    <3>1. ASSUME NEW dr \in r.rates
          PROVE  RX1DataRate(r, dr, offset, dw) \in r.rates
      <4>1. dr \in 0 .. 255
        <5>1. dr \in Byte
          BY <1>7, Zenon
        <5> QED
          BY <5>1 DEF Byte
      <4>2. RX1DataRate(r, dr, offset, dw) \in 8 .. 13
        BY <4>1, <2>3
      <4>3. 8 .. 13 \subseteq r.rates
        BY <2>2
      <4> QED
        BY <4>2, <4>3
    <3>2. ASSUME NEW dr \in Byte
          PROVE  RX1DataRate(r, dr, offset, dw) \in Byte
      <4>1. dr \in 0 .. 255
        BY DEF Byte
      <4>2. RX1DataRate(r, dr, offset, dw) \in 8 .. 13
        BY <4>1, <2>3
      <4>3. 8 .. 13 \subseteq Byte
        BY <4>1, <2>2 DEF Byte
      <4> QED
        BY <4>2, <4>3
    <3> QED
      BY <3>1, <3>2
<1>10. CASE r.rx1 = "au915"
  <2>1. \A dr : RX1DataRate(r, dr, offset, dw) = RX1Au915(dr, offset)
    BY <1>10 DEF RX1DataRate
  <2>2. {0} \cup (8 .. 13) \subseteq r.rates /\ 0 .. 13 \subseteq 0 .. 255
    <3>1. {0} \cup (8 .. 13) \subseteq r.rates
      BY <1>1, <1>10, SMTT(30) DEF RatesOK
    <3>2. 0 .. 13 \subseteq 0 .. 255
      OBVIOUS
    <3> QED
      BY <3>1, <3>2
  <2>3. ASSUME NEW dr \in 0 .. 15
        PROVE  RX1DataRate(r, dr, offset, dw) \in {0} \cup (8 .. 13)
    <3>1. RX1Au915(dr, offset) \in {0} \cup (8 .. 13)
      BY <1>4
    <3>2. RX1DataRate(r, dr, offset, dw) = RX1Au915(dr, offset)
      BY <2>1, Zenon
    <3> QED
      BY <3>1, <3>2, Zenon
  <2>4. ASSUME NEW dr \in 0 .. 255
        PROVE  RX1DataRate(r, dr, offset, dw) \in 0 .. 13
    <3>1. RX1Au915(dr, offset) \in 0 .. 13
      BY <1>5
    <3>2. RX1DataRate(r, dr, offset, dw) = RX1Au915(dr, offset)
      BY <2>1, Zenon
    <3> QED
      BY <3>1, <3>2, Zenon
  <2> QED
    <3>1. ASSUME NEW dr \in r.rates
          PROVE  RX1DataRate(r, dr, offset, dw) \in r.rates
      <4>1. dr \in 0 .. 15
        BY <1>7, Zenon
      <4>2. RX1DataRate(r, dr, offset, dw) \in {0} \cup (8 .. 13)
        BY <4>1, <2>3
      <4>3. {0} \cup (8 .. 13) \subseteq r.rates
        BY <2>2
      <4> QED
        BY <4>2, <4>3
    <3>2. ASSUME NEW dr \in Byte
          PROVE  RX1DataRate(r, dr, offset, dw) \in Byte
      <4>1. dr \in 0 .. 255
        BY DEF Byte
      <4>2. RX1DataRate(r, dr, offset, dw) \in 0 .. 13
        BY <4>1, <2>4
      <4>3. 0 .. 13 \subseteq Byte
        BY <4>1, <2>2 DEF Byte
      <4> QED
        BY <4>2, <4>3
    <3> QED
      BY <3>1, <3>2
<1>11. CASE r.rx1 \notin {"effective", "us915", "au915"}
  <2>1. \A dr : RX1DataRate(r, dr, offset, dw) = RX1Difference(dr, offset)
    BY <1>11 DEF RX1DataRate
  <2>2. \A dr \in r.rates : 0 .. dr \subseteq r.rates
    BY <1>1, <1>11 DEF RatesOK
  <2>3. ASSUME NEW dr \in 0 .. 255
        PROVE  RX1DataRate(r, dr, offset, dw) \in 0 .. dr
    <3>1. RX1Difference(dr, offset) \in 0 .. dr
      BY <1>6
    <3>2. RX1DataRate(r, dr, offset, dw) = RX1Difference(dr, offset)
      BY <2>1, Zenon
    <3> QED
      BY <3>1, <3>2, Zenon
  <2>4. \A dr \in 0 .. 255 : 0 .. dr \subseteq 0 .. 255
    OBVIOUS
  <2> QED
    <3>1. ASSUME NEW dr \in r.rates
          PROVE  RX1DataRate(r, dr, offset, dw) \in r.rates
      <4>1. dr \in 0 .. 255
        <5>1. dr \in Byte
          BY <1>7, Zenon
        <5> QED
          BY <5>1 DEF Byte
      <4>2. RX1DataRate(r, dr, offset, dw) \in 0 .. dr
        BY <4>1, <2>3
      <4>3. 0 .. dr \subseteq r.rates
        BY <2>2
      <4> QED
        BY <4>2, <4>3
    <3>2. ASSUME NEW dr \in Byte
          PROVE  RX1DataRate(r, dr, offset, dw) \in Byte
      <4>1. dr \in 0 .. 255
        BY DEF Byte
      <4>2. RX1DataRate(r, dr, offset, dw) \in 0 .. dr
        BY <4>1, <2>3
      <4>3. 0 .. dr \subseteq Byte
        BY <4>1, <2>4 DEF Byte
      <4> QED
        BY <4>2, <4>3
    <3> QED
      BY <3>1, <3>2
<1> QED
  BY <1>8, <1>9, <1>10, <1>11

----------------------------------------------------------------------------
(* Types.                                                                  *)

Uplinks == [Channel : Nat, Frequency : Nat, DatR : 0 .. 255]
Windows == [DataRate : 0 .. 255, FrequencyUplink : Nat, FrequencyDownlink : Nat, Channel : Nat]

\* What SetupRX1 makes of the device's channel and rate.
LEMMA SendDataSets ==
  ASSUME CoreInv, TypeOK, NEW info, SendData(info)
  PROVE  /\ uplink' = info
         /\ rx1' \in Windows
         /\ rx1'.DataRate = RX1DataRate(r, dataRate, rx1Offset, dwell)
<1> DEFINE i == RX1Channel(r, index)
           dr == RX1DataRate(r, dataRate, rx1Offset, dwell)
<1>1. i \in 0 .. Len(channels) - 1 /\ Len(channels) \in Nat
  BY Rx1ChannelExists, CoreFacts
<1>2. At(i) \in ChannelType
  <2>1. \A n \in Nat : \A k \in 0 .. n - 1 : k + 1 \in 1 .. n
    OBVIOUS
  <2>2. i + 1 \in 1 .. Len(channels)
    BY <1>1, <2>1, Zenon
  <2> HIDE DEF i
  <2> QED
    BY <2>2, CoreFacts DEF At
<1>3. dr \in 0 .. 255
  <2>1. region \in DOMAIN Parameters /\ rx1Offset \in Offsets[region] \cup {0}
        /\ dwell \in BOOLEAN /\ dataRate \in 0 .. 255
    BY DEF TypeOK
  <2>2. rx1Offset \in 0 .. 7
    BY <2>1, InputsAssumption
  <2>3. dataRate \in Byte
    BY <2>1 DEF Byte
  <2>4. dr \in Byte
    BY <2>1, <2>2, <2>3, Rx1Rate, Zenon
  <2> QED
    BY <2>4 DEF Byte
<1>4. /\ uplink' = info
      /\ rx1' = [ DataRate |-> dr, FrequencyUplink |-> At(i).FrequencyUplink,
                  FrequencyDownlink |-> ConfiguredRX1, Channel |-> i ]
  BY DEF SendData
<1>5. At(i).FrequencyUplink \in Nat /\ i \in Nat /\ ConfiguredRX1 \in Nat
  <2> HIDE DEF i
  <2> QED
    BY <1>1, <1>2 DEF ChannelType, ConfiguredRX1
<1> HIDE DEF i, dr
<1> QED
  BY <1>3, <1>4, <1>5 DEF Windows, dr

LEMMA DataInfoType == CoreInv /\ TypeOK => DataInfo \in Uplinks
<1> SUFFICES ASSUME CoreInv, TypeOK PROVE DataInfo \in Uplinks
  OBVIOUS
<1>1. index \in 0 .. Len(channels) - 1 /\ Len(channels) \in Nat
      /\ channels \in Seq(ChannelType) /\ dataRate \in 0 .. 255
  BY CoreFacts DEF TypeOK
<1>2. index + 1 \in 1 .. Len(channels)
  BY <1>1
<1>3. At(index) \in ChannelType
  BY <1>1, <1>2 DEF At
<1> QED
  BY <1>1, <1>3 DEF DataInfo, Uplinks, ChannelType

LEMMA OneOrTwo ==
  ASSUME NEW S, NEW s \in Seq(S), Len(s) \in {1, 2}
  PROVE  s[1] \in S /\ s[Len(s)] \in S /\ (Len(s) = 2 => s[2] \in S)
<1>1. \A k \in 1 .. Len(s) : s[k] \in S
  OBVIOUS
<1>2. 1 \in 1 .. Len(s) /\ Len(s) \in 1 .. Len(s)
  OBVIOUS
<1> QED
  BY <1>1, <1>2

\* What a join request announces.
LEMMA JoinInfoType ==
  ASSUME CoreInv, NEW q \in SetupInfoRequest(r, index)
  PROVE  q.Channel \in Nat /\ q.DatR \in 0 .. 255
<1>1. r.request \in Seq(0 .. 15) /\ Len(r.request) \in {1, 2}
  BY CoreFacts, RegionOK DEF ParametersOK
<1>2. r.NbReserved \in Nat /\ index \in Nat
  BY CoreFacts, RegionOK
<1>3. CASE Len(r.request) = 1
  <2>1. PICK c \in IF index >= r.NbReserved THEN 0 .. r.NbReserved - 1 ELSE {index} :
          q = [DatR |-> r.request[1], Channel |-> c]
    BY <1>3 DEF SetupInfoRequest
  <2>2. r.request[1] \in 0 .. 15
    BY <1>1, <1>3, OneOrTwo
  <2>3. c \in Nat
    BY <1>2, <2>1
  <2>4. 0 .. 15 \subseteq 0 .. 255
    OBVIOUS
  <2> QED
    BY <2>1, <2>2, <2>3, <2>4
<1>4. CASE Len(r.request) = 2
  <2>1. PICK c \in 0 .. r.NbReserved - 1 :
          q = [DatR |-> r.request[IF c >= 64 THEN 2 ELSE 1], Channel |-> c]
    BY <1>4 DEF SetupInfoRequest
  <2>2. r.request[1] \in 0 .. 15 /\ r.request[2] \in 0 .. 15
    BY <1>1, <1>4, OneOrTwo
  <2>3. c \in Nat
    BY <1>2
  <2>4. 0 .. 15 \subseteq 0 .. 255
    OBVIOUS
  <2> QED
    BY <2>1, <2>2, <2>3, <2>4
<1> QED
  BY <1>1, <1>3, <1>4

\* The rate a command or the fallback leaves is a byte.
LEMMA CommandTypes ==
  ASSUME CoreInv, TypeOK, ExecuteMACCommand
  PROVE  /\ dataRate' \in 0 .. 255 /\ rx1Offset' \in Offsets[region] \cup {0}
         /\ dwell' \in BOOLEAN /\ crashed' \in BOOLEAN
<1>0. /\ dataRate \in 0 .. 255 /\ rx1Offset \in Offsets[region] \cup {0}
      /\ dwell \in BOOLEAN /\ crashed \in BOOLEAN
  BY DEF TypeOK
<1> USE <1>0
<1>1. ASSUME NEW block \in LinkADRReqs[region], executeLinkADRReq(block)
      PROVE  /\ dataRate' \in 0 .. 255 /\ crashed' \in BOOLEAN
             /\ UNCHANGED <<rx1Offset, dwell>>
  <2> DEFINE S == [cntl : 0 .. 7, mask : SUBSET (0 .. 15), dr : 0 .. 15]
  <2>1. block \in Seq(S) /\ Len(block) \in {1, 2}
    BY CoreFacts, InputsAssumption
  <2>2. block[1].dr \in 0 .. 15 /\ block[Len(block)].dr \in 0 .. 15
    <3>1. \A c \in S : c.dr \in 0 .. 15
      OBVIOUS
    <3> HIDE DEF S
    <3>2. block[1] \in S /\ block[Len(block)] \in S
      BY <2>1, OneOrTwo
    <3> QED
      BY <3>1, <3>2
  <2>3. dataRate' \in {dataRate, block[1].dr, block[Len(block)].dr, NoRate}
    BY <1>1, Zenon DEF executeLinkADRReq
  <2>4. crashed' \in BOOLEAN /\ UNCHANGED <<rx1Offset, dwell>>
    <3>1. \E a, b : crashed' = (a \/ b)
      BY <1>1, Zenon DEF executeLinkADRReq
    <3> QED
      BY <1>1, <3>1, Zenon DEF executeLinkADRReq
  <2> QED
    <3>1. NoRate \in Byte /\ dataRate \in Byte
      BY DEF NoRate, Byte
    <3>2. dataRate' \in 0 .. 255
      <4>1. \A d \in 0 .. 15 : d \in Byte
        BY DEF Byte
      <4>2. block[1].dr \in Byte /\ block[Len(block)].dr \in Byte
        BY <2>2, <4>1
      <4>3. dataRate' \in Byte
        BY <2>3, <3>1, <4>2, Zenon
      <4> QED
        BY <4>3 DEF Byte
    <3> QED
      BY <2>4, <3>2
<1>2. CASE executeRXParamSetupReq
  BY <1>2 DEF executeRXParamSetupReq
<1>3. CASE executeNewChannelReq
  BY <1>3 DEF executeNewChannelReq
<1>4. CASE executeDLChannelReq
  <2>1. UNCHANGED <<dataRate, rx1Offset, dwell>>
    BY <1>4 DEF executeDLChannelReq
  <2>2. crashed' \in BOOLEAN
    <3>1. PICK q \in DLChannelReqs[region] : crashed' = (q.index >= Len(channels))
      BY <1>4 DEF executeDLChannelReq
    <3>2. CASE q.index >= Len(channels)
      BY <3>1, <3>2
    <3>3. CASE ~(q.index >= Len(channels))
      BY <3>1, <3>3
    <3> QED
      BY <3>2, <3>3
  <2> QED
    BY <2>1, <2>2
<1>5. CASE executeTXParamSetupReq
  BY <1>5 DEF executeTXParamSetupReq
<1>6. CASE NoCommand
  BY <1>6 DEF NoCommand
<1> QED
  BY <1>1, <1>2, <1>3, <1>4, <1>5, <1>6 DEF ExecuteMACCommand

LastPassOK == DOMAIN lastPass = 0 .. 7
              /\ \A g \in 0 .. 7 : lastPass[g] \in (8 * g .. 8 * g + 7) \cup {-1}

LEMMA PassesTypes ==
  ASSUME firstPass \in BOOLEAN, LastPassOK, NEW i, Passes(i),
         IsUs915(r) => NextGroup \in 0 .. 7 /\ i \in 8 * NextGroup .. 8 * NextGroup + 7
  PROVE  firstPass' \in BOOLEAN /\ LastPassOK'
<1>1. CASE IsUs915(r)
  <2>1. firstPass' = (firstPass /\ index \div 8 # 0)
        /\ lastPass' = [lastPass EXCEPT ![NextGroup] = i]
    BY <1>1 DEF Passes
  <2> QED
    BY <1>1, <2>1 DEF LastPassOK
<1>2. CASE ~IsUs915(r)
  BY <1>2 DEF Passes, LastPassOK
<1> QED
  BY <1>1, <1>2

LEMMA SwitchTypes ==
  ASSUME CoreInv, TypeOK, SwitchToWide \/ SwitchToDrawn \/ FallBack
  PROVE  dataRate' \in 0 .. 255 /\ firstPass' \in BOOLEAN /\ LastPassOK'
<1>1. dataRate \in 0 .. 255 /\ firstPass \in BOOLEAN /\ LastPassOK
  BY DEF TypeOK, LastPassOK
<1>2. IsUs915(r) => Groups(r)
  BY CoreFacts, RegionOK DEF ParametersOK
<1>3. NextGroup \in 0 .. 8
  BY CoreFacts, GroupRange
<1>4. CASE SwitchToWide
  BY <1>1, <1>4 DEF SwitchToWide, LastPassOK
<1>5. CASE SwitchToDrawn
  <2>1. PICK i \in Drawn : Passes(i)
    BY <1>5 DEF SwitchToDrawn
  <2>2. IsUs915(r) => NextGroup \in 0 .. 7
    BY <1>3, <1>5 DEF SwitchToDrawn
  <2>3. IsUs915(r) => i \in 8 * NextGroup .. 8 * NextGroup + 7
    BY <1>3, <2>1 DEF Drawn
  <2>4. dataRate' = dataRate
    BY <1>5 DEF SwitchToDrawn
  <2> QED
    BY <1>1, <2>1, <2>2, <2>3, <2>4, PassesTypes
<1>6. CASE FallBack
  <2>1. Passes(index') /\ dataRate' = At(index').MaxDR
    BY <1>6 DEF FallBack
  <2>2. IsUs915(r) => NextGroup \in 0 .. 7
    BY <1>3, <1>6 DEF FallBack
  <2>3. IsUs915(r) => index' \in 8 * NextGroup .. 8 * NextGroup + 7
    BY <1>3, <1>6 DEF FallBack
  <2>4. dataRate' \in 0 .. 255
    <3>1. index' \in 0 .. Len(channels) - 1 /\ Len(channels) \in Nat
      BY SwitchIndex, CoreFacts
    <3>2. index' + 1 \in 1 .. Len(channels)
      <4>1. \A n \in Nat : \A k \in 0 .. n - 1 : k + 1 \in 1 .. n
        OBVIOUS
      <4> QED
        BY <3>1, <4>1, Zenon
    <3>3. At(index') \in ChannelType
      BY <3>2, CoreFacts DEF At
    <3> QED
      BY <2>1, <3>3 DEF ChannelType
  <2> QED
    BY <1>1, <2>1, <2>2, <2>3, <2>4, PassesTypes
<1> QED
  BY <1>4, <1>5, <1>6

\* TypeOK but for what CoreInv says.
Scalars ==
  /\ dataRate \in 0 .. 255
  /\ doSwitch \in BOOLEAN /\ firstPass \in BOOLEAN /\ LastPassOK
  /\ rx1Offset \in Offsets[region] \cup {0}
  /\ dwell \in BOOLEAN /\ joined \in BOOLEAN /\ crashed \in BOOLEAN
  /\ pending \in BOOLEAN /\ masksHeard \in BOOLEAN
  /\ stage \in {"ready", "send", "windows", "end"}

LEMMA TypeOKIs ==
  CoreInv => (TypeOK <=> Scalars /\ (stage = "windows" => uplink \in Uplinks /\ rx1 \in Windows))
  BY CoreFacts, Zenon DEF TypeOK, Scalars, LastPassOK, Uplinks, Windows, CoreInv, Intact

LEMMA TypeStart == Init => TypeOK
<1> SUFFICES ASSUME Init PROVE TypeOK
  OBVIOUS
<1>1. CoreInv
  BY CoreStart
<1>2. r.rates \subseteq 0 .. 15
  BY <1>1, CoreFacts, RegionOK DEF ParametersOK
<1>3. Scalars /\ stage = "ready"
  <2>1. dataRate \in 0 .. 255
    BY <1>2 DEF Init
  <2>2. LastPassOK
    BY DEF Init, LastPassOK
  <2> QED
    BY <2>1, <2>2 DEF Init, Scalars
<1> QED
  BY <1>1, <1>3, TypeOKIs

\* A step that sends leaves a typed uplink and a typed window, any other that
\* touches them closes the windows.
LEMMA TypeStep == CoreInv /\ TypeOK /\ [Next]_vars => TypeOK'
<1> SUFFICES ASSUME CoreInv, TypeOK, [Next]_vars PROVE TypeOK'
  OBVIOUS
<1>1. CoreInv'
  BY CoreStep
<1>2. Scalars /\ (stage = "windows" => uplink \in Uplinks /\ rx1 \in Windows)
  BY TypeOKIs
<1> SUFFICES Scalars' /\ (stage' = "windows" => uplink' \in Uplinks /\ rx1' \in Windows)
  <2>1. (TypeOK <=> Scalars /\ (stage = "windows" => uplink \in Uplinks /\ rx1 \in Windows))'
    BY <1>1, TypeOKIs, PTL
  <2> QED
    BY <2>1 DEF Uplinks, Windows
<1>3. CASE SwitchChannel
  <2>1. dataRate' \in 0 .. 255 /\ firstPass' \in BOOLEAN /\ LastPassOK'
    BY <1>3, SwitchTypes DEF SwitchChannel
  <2> QED
    BY <1>2, <1>3, <2>1 DEF SwitchChannel, Scalars
<1>4. CASE KeepChannel
  BY <1>2, <1>4 DEF KeepChannel, Scalars, LastPassOK
<1>5. CASE SendUplink
  <2>1. uplink' \in Uplinks /\ rx1' \in Windows
    BY <1>5, SendDataSets, DataInfoType DEF SendUplink
  <2> QED
    BY <1>2, <1>5, <2>1 DEF SendUplink, Scalars, LastPassOK
<1>6. CASE SendJoinRequest
  <2>1. PICK q \in SetupInfoRequest(r, index) :
          SendData([Channel |-> q.Channel, Frequency |-> At(index).FrequencyUplink,
                    DatR |-> q.DatR])
    BY <1>6 DEF SendJoinRequest
  <2>2. q.Channel \in Nat /\ q.DatR \in 0 .. 255
    BY JoinInfoType
  <2>3. At(index).FrequencyUplink \in Nat
    BY DataInfoType DEF DataInfo, Uplinks
  <2>4. uplink' \in Uplinks /\ rx1' \in Windows
    BY <2>1, <2>2, <2>3, SendDataSets DEF Uplinks
  <2> QED
    BY <1>2, <1>6, <2>4 DEF SendJoinRequest, Scalars, LastPassOK
<1>7. CASE HearDownlink
  <2>1. /\ dataRate' \in 0 .. 255 /\ rx1Offset' \in Offsets[region] \cup {0}
        /\ dwell' \in BOOLEAN /\ crashed' \in BOOLEAN
    BY <1>7, CommandTypes DEF HearDownlink
  <2>2. UNCHANGED <<region, firstPass, lastPass, joined, masksHeard>>
        /\ doSwitch' \in BOOLEAN /\ pending' \in BOOLEAN
        /\ (stage' \in {"end", "send"} \/ (stage' = "windows" /\ SendData(DataInfo)))
    <3>1. UNCHANGED <<region, firstPass, lastPass, joined, masksHeard>>
          /\ doSwitch' \in BOOLEAN /\ pending' \in BOOLEAN
      BY <1>7 DEF HearDownlink, AfterWindows
    <3>2. stage' \in {"end", "send"} \/ (stage' = "windows" /\ SendData(DataInfo))
      BY <1>7 DEF HearDownlink
    <3> QED
      BY <3>1, <3>2, Zenon
  <2>3. Scalars'
    BY <1>2, <2>1, <2>2 DEF Scalars, LastPassOK
  <2>4. stage' = "windows" => uplink' \in Uplinks /\ rx1' \in Windows
    BY <2>2, SendDataSets, DataInfoType
  <2> QED
    BY <2>3, <2>4
<1>8. CASE HearNothing
  BY <1>2, <1>8 DEF HearNothing, AfterWindows, Scalars, LastPassOK
<1>9. CASE HearJoinAccept
  <2>1. rx1Offset' \in Offsets[region]' \cup {0}
    BY <1>9, Zenon DEF HearJoinAccept, AfterWindows
  <2>2. /\ crashed' \in BOOLEAN /\ masksHeard' \in BOOLEAN /\ doSwitch' \in BOOLEAN
        /\ stage' \in {"ready", "end"}
    <3>1. \A m, n : (16 * m > n) \in BOOLEAN
      OBVIOUS
    <3> QED
      BY <1>2, <1>9, <3>1, Zenon DEF HearJoinAccept, Scalars
  <2> QED
    BY <1>2, <1>9, <2>1, <2>2 DEF HearJoinAccept, AfterWindows, Scalars, LastPassOK
<1>10. CASE EndExecute
  <2>1. dataRate' \in 0 .. 255 /\ joined' \in BOOLEAN
    <3>1. dataRate' \in {dataRate, 0} /\ joined' \in {joined, FALSE}
      BY <1>10, Zenon DEF EndExecute
    <3>2. 0 \in 0 .. 255
      OBVIOUS
    <3> QED
      BY <1>2, <3>1, <3>2, Zenon DEF Scalars
  <2> QED
    BY <1>2, <1>10, <2>1 DEF EndExecute, Scalars, LastPassOK
<1>11. CASE UNCHANGED vars
  BY <1>2, <1>11 DEF vars, Scalars, LastPassOK
<1> QED
  BY <1>3, <1>4, <1>5, <1>6, <1>7, <1>8, <1>9, <1>10, <1>11 DEF Next

\* Every variable keeps its type: no rate leaves a byte, no channel drawn for a
\* group of US915 lies in another.
THEOREM TypesHold == Spec => []TypeOK
  BY TypeStart, TypeStep, CoreHolds, PTL DEF Spec

LEMMA TypesAndCore == Spec => [](CoreInv /\ TypeOK)
  BY CoreHolds, TypesHold, PTL

\* Whenever the device's rate is one of the region's, so is the one its first
\* window listens at, whatever offset the server gave.
THEOREM FirstWindowDecodes == Spec => []Rx1Decodable
<1>1. Init => Rx1Decodable
  BY DEF Init, Rx1Decodable
<1>2. ASSUME CoreInv, TypeOK, Rx1Decodable, [Next]_vars
      PROVE  Rx1Decodable'
  <2>1. rx1Offset \in 0 .. 7 /\ dwell \in BOOLEAN /\ region \in DOMAIN Parameters
    BY <1>2, InputsAssumption DEF TypeOK
  <2>2. \A info : SendData(info) /\ dataRate \in r.rates => rx1'.DataRate \in r.rates
    <3>1. \A dr \in r.rates : RX1DataRate(r, dr, rx1Offset, dwell) \in r.rates
      BY <2>1, Rx1Rate
    <3>2. \A info : SendData(info) =>
            rx1'.DataRate = RX1DataRate(r, dataRate, rx1Offset, dwell)
      BY <1>2, SendDataSets
    <3> QED
      BY <3>1, <3>2, Zenon
  <2>3. CASE SendUplink
    <3>1. uplink'.DatR = dataRate /\ UNCHANGED <<region, dataRate>> /\ SendData(DataInfo)
      BY <2>3 DEF SendUplink, SendData, DataInfo
    <3> QED
      BY <2>2, <3>1 DEF Rx1Decodable, r
  <2>4. CASE SendJoinRequest
    <3>1. ~joined' /\ UNCHANGED <<region, dataRate>> /\ \E info : SendData(info)
      BY <2>4 DEF SendJoinRequest
    <3> QED
      BY <2>2, <3>1 DEF Rx1Decodable, r
  <2>5. CASE HearDownlink
    <3>1. UNCHANGED region /\ joined' = joined /\ joined
      BY <2>5 DEF HearDownlink, AfterWindows
    <3>2. stage' \in {"end", "send"} \/ (stage' = "windows" /\ SendData(DataInfo))
      BY <2>5 DEF HearDownlink
    <3>3. SendData(DataInfo) => uplink'.DatR = dataRate
      BY DEF SendData, DataInfo
    <3> QED
      BY <2>2, <3>1, <3>2, <3>3 DEF Rx1Decodable, r
  <2>6. CASE SwitchChannel \/ KeepChannel \/ HearNothing \/ HearJoinAccept \/ EndExecute
    <3>1. stage' # "windows"
      BY <2>6 DEF SwitchChannel, KeepChannel, HearNothing, HearJoinAccept, EndExecute
    <3> QED
      BY <3>1 DEF Rx1Decodable
  <2>7. CASE UNCHANGED vars
    BY <1>2, <2>7 DEF vars, Rx1Decodable, r
  <2> QED
    BY <1>2, <2>3, <2>4, <2>5, <2>6, <2>7 DEF Next
<1> QED
  BY <1>1, <1>2, TypesAndCore, PTL DEF Spec

----------------------------------------------------------------------------
(* What a switch takes.                                                    *)

\* A reserved channel keeps its rates and stays active; where masks are by
\* channel it stays enabled, unless a join accept brought masks.
LEMMA ReservedChannel ==
  ASSUME CoreInv, NEW i \in 1 .. r.NbReserved
  PROVE  /\ channels[i].Active = r.GetChannels[i].Active
         /\ channels[i].MinDR <= channels[i].MaxDR
         /\ Masked(r) /\ ~masksHeard =>
              channels[i].EnableUplink = r.GetChannels[i].EnableUplink
<1>1. KeptOf(r.GetChannels[i], channels[i], masksHeard) /\ i \in 1 .. Len(channels)
  BY CoreFacts, RegionOK DEF Intact
<1>2. channels[i] \in ChannelType /\ r.GetChannels[i] \in ChannelType
  BY <1>1, CoreFacts, RegionOK
<1>3. r.GetChannels[i].MinDR <= r.GetChannels[i].MaxDR
  BY CoreFacts, RegionOK DEF ParametersOK
<1>4. /\ channels[i].Active = r.GetChannels[i].Active
      /\ channels[i].MinDR = r.GetChannels[i].MinDR
      /\ channels[i].MaxDR = r.GetChannels[i].MaxDR
  BY <1>1, <1>2 DEF KeptOf, ChannelType
<1> QED
  BY <1>1, <1>3, <1>4 DEF KeptOf

\* The channel now used after a switch.
Fit(now, dr, i) ==
  /\ now.Active /\ IsSupportedDR(now, dr)
  /\ now.EnableUplink \/ (i = 0 /\ ~IsUs915(r) /\ (Masked(r) => masksHeard))

LEMMA FallBackFits ==
  ASSUME CoreInv, FallBack
  PROVE  Fit(channels'[index' + 1], dataRate', index')
<1>1. region \in DOMAIN Parameters /\ ParametersOK(r) /\ r.NbReserved \in Nat
      /\ r.NbReserved >= 2
  BY CoreFacts, RegionOK
<1>2. CASE IsUs915(r)
  <2>1. NextGroup \in 0 .. 7 /\ index' = NextGroup * 8 /\ r.NbReserved = 72
    BY <1>1, <1>2, CoreFacts, GroupRange DEF FallBack, ParametersOK
  <2>2. index' + 1 \in 1 .. r.NbReserved /\ index' + 1 \in 1 .. Len(channels)
    <3>1. index' + 1 \in 1 .. 72
      BY <2>1
    <3>2. Len(channels) \in Nat /\ Len(channels) >= 80
      BY <1>1, <1>2, CoreFacts DEF ParametersOK
    <3>3. \A n \in Nat : n >= 80 => 1 .. 72 \subseteq 1 .. n
      OBVIOUS
    <3> QED
      BY <2>1, <3>1, <3>2, <3>3
  <2> DEFINE was == channels[index' + 1]
             now == channels'[index' + 1]
  <2>3. channels' = [channels EXCEPT ![index' + 1].EnableUplink = TRUE] /\ dataRate' = was.MaxDR
    BY <1>2 DEF FallBack, At
  <2>4. was \in ChannelType /\ was.Active /\ was.MinDR <= was.MaxDR
    <3>1. was \in ChannelType
      BY <2>2, CoreFacts
    <3>2. was.Active = r.GetChannels[index' + 1].Active /\ was.MinDR <= was.MaxDR
      BY <2>2, ReservedChannel, Zenon
    <3>3. r.GetChannels[index' + 1].Active
      BY <1>1, <1>2, <2>2, Zenon DEF ParametersOK
    <3> QED
      BY <3>1, <3>2, <3>3
  <2>5. now = [was EXCEPT !.EnableUplink = TRUE]
    BY <2>2, <2>3, CoreFacts
  <2> HIDE DEF was, now
  <2>6. now.Active /\ now.EnableUplink /\ now.MinDR <= was.MaxDR /\ was.MaxDR <= now.MaxDR
    BY <2>4, <2>5 DEF ChannelType
  <2>7. Fit(now, dataRate', index')
    BY <2>3, <2>6 DEF Fit, IsSupportedDR, was
  <2> QED
    BY <2>7 DEF now
<1>3. CASE ~IsUs915(r)
  <2>1. index' = 0 /\ channels' = channels /\ dataRate' = channels[1].MaxDR
    BY <1>3 DEF FallBack, At
  <2>2. 1 \in 1 .. r.NbReserved /\ 1 \in 1 .. Len(channels)
    BY <1>1, CoreFacts
  <2>3. /\ channels[1] \in ChannelType /\ channels[1].Active
        /\ channels[1].MinDR <= channels[1].MaxDR
        /\ Masked(r) /\ ~masksHeard => channels[1].EnableUplink
    BY <1>1, <2>2, CoreFacts, ReservedChannel DEF ParametersOK
  <2>4. channels[1].MaxDR <= channels[1].MaxDR
    BY <2>3 DEF ChannelType
  <2>5. Fit(channels[1], dataRate', index')
    BY <1>3, <2>1, <2>3, <2>4 DEF Fit, IsSupportedDR
  <2> QED
    BY <2>1, <2>5
<1> QED
  BY <1>2, <1>3

\* A device never switches to a channel that is not active, or that does not
\* support the rate it goes on with; and an enabled one but for the two
\* fallbacks and channel 71.
THEOREM SwitchesToUsable == Spec => SwitchPicksUsable
<1> DEFINE Body == index' # index /\ ~(IsUs915(r) /\ index' = 71)
                     => Fit(channels'[index' + 1], dataRate', index')
<1>1. ASSUME CoreInv, SwitchChannel PROVE Body
  <2>1. CASE SwitchToWide
    BY <2>1 DEF SwitchToWide
  <2>2. CASE SwitchToDrawn
    <3>1. PICK i : Pick(i) /\ index' = i
      BY <2>2 DEF SwitchToDrawn
    <3>2. UNCHANGED <<channels, dataRate>>
      BY <2>2 DEF SwitchToDrawn
    <3> QED
      BY <3>1, <3>2 DEF Pick, Usable, At, Fit
  <2>3. CASE FallBack
    BY <1>1, <2>3, FallBackFits
  <2> QED
    BY <1>1, <2>1, <2>2, <2>3 DEF SwitchChannel
<1>2. ASSUME CoreInv, [Next]_vars PROVE [Body]_vars
  <2>1. SwitchChannel \/ UNCHANGED index
    BY <1>2 DEF Next, vars, KeepChannel, SendUplink, SendJoinRequest, HearDownlink, HearNothing,
                HearJoinAccept, EndExecute, AfterWindows
  <2> QED
    BY <1>1, <1>2, <2>1
<1>3. CoreInv /\ [Next]_vars =>
        [ index' # index /\ ~(IsUs915(r) /\ index' = 71) =>
            LET now == channels'[index' + 1]
            IN /\ now.Active /\ IsSupportedDR(now, dataRate')
               /\ \/ now.EnableUplink
                  \/ index' = 0 /\ ~IsUs915(r) /\ (Masked(r) => masksHeard) ]_vars
  BY <1>2, Zenon DEF Fit
<1> QED
  BY <1>3, CoreHolds, PTL DEF Spec, SwitchPicksUsable

================================================================================
