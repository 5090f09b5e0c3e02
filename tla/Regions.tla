-------------------------------- MODULE Regions --------------------------------
(***************************************************************************)
(* The regional parameters (regional_parameters/): one record per region,  *)
(* with what its Setup, GetDataRate, GetChannels and checks amount to, and *)
(* the operators of the Region interface over these records.  Channels are *)
(* numbered from 0 as in the code; channel i is entry i + 1 of a sequence. *)
(* Frequencies are in Hz, data rates are the region's codes.               *)
(***************************************************************************)
EXTENDS Integers, Sequences

AtMost(x, y)  == IF x < y THEN x ELSE y
AtLeast(x, y) == IF x > y THEN x ELSE y

----------------------------------------------------------------------------
(* Channels.  A fresh channel serves one frequency both ways.              *)

Channel(active, enable, freq, min, max) ==
  [ Active |-> active, EnableUplink |-> enable, FrequencyUplink |-> freq,
    FrequencyDownlink |-> freq, MinDR |-> min, MaxDR |-> max ]

IsSupportedDR(c, dr) == c.MinDR <= dr /\ dr <= c.MaxDR

\* UpdateChannel: frequency 0 switches a channel off.
UpdateChannel(freq, min, max) == Channel(freq # 0, freq # 0, freq, min, max)

\* A group of InfoGroupChannels as GetChannels lays it out.
Group(enable, freq, step, min, max, n) ==
  [ i \in 1 .. n |-> Channel(TRUE, enable, freq + step * (i - 1), min, max) ]

\* The groups of CN470 have holes.
Holed(group) ==
  [ i \in DOMAIN group |->
      [ group[i] EXCEPT !.Active = i - 1 \notin (6 .. 38) \cup (45 .. 77) ] ]

----------------------------------------------------------------------------
(* The regions.  DataRateSupported accepts exactly the rates GetDataRate   *)
(* knows, as a range or through the table, so rates stands for both.       *)

Eu868 ==
  [ MinFrequency |-> 863000000, MaxFrequency |-> 870000000,
    FrequencyRX2 |-> 869525000, DataRateRX2 |-> 0,
    rates |-> 0 .. 7, MaxDataRate |-> 7, MaxRX1DROffset |-> 5,
    GetChannels |-> Group(TRUE, 868100000, 200000, 0, 5, 3), NbReserved |-> 3,
    masks |-> "channels", rx1 |-> "difference", request |-> <<5>> ]

Eu433 ==
  [ Eu868 EXCEPT !.MinFrequency = 433050000, !.MaxFrequency = 434790000,
                 !.FrequencyRX2 = 434665000,
                 !.GetChannels = Group(TRUE, 433175000, 200000, 0, 5, 3) ]

Ru864 ==
  [ Eu868 EXCEPT !.MinFrequency = 864000000, !.FrequencyRX2 = 869100000,
                 !.GetChannels = Group(TRUE, 868900000, 200000, 0, 5, 2),
                 !.NbReserved = 2 ]

\* GetChannels uses the first of the two groups Setup declares.
Cn779 ==
  [ Eu868 EXCEPT !.MinFrequency = 779500000, !.MaxFrequency = 786500000,
                 !.FrequencyRX2 = 786000000,
                 !.GetChannels = Group(TRUE, 779500000, 200000, 0, 5, 3) ]

\* Only the first group is reserved.
Kr920 ==
  [ MinFrequency |-> 920900000, MaxFrequency |-> 923300000,
    FrequencyRX2 |-> 921900000, DataRateRX2 |-> 0,
    rates |-> 0 .. 5, MaxDataRate |-> 5, MaxRX1DROffset |-> 5,
    GetChannels |-> Group(TRUE, 922100000, 200000, 0, 5, 3)
                    \o Group(TRUE, 920900000, 200000, 0, 5, 6)
                    \o Group(TRUE, 922700000, 200000, 0, 5, 4),
    NbReserved |-> 3, masks |-> "channels", rx1 |-> "difference", request |-> <<5>> ]

\* GetChannels takes the frequencies of both groups from the first, so that
\* the third channel has the frequency of the first.
In865 ==
  [ MinFrequency |-> 865000000, MaxFrequency |-> 867000000,
    FrequencyRX2 |-> 866550000, DataRateRX2 |-> 2,
    rates |-> (0 .. 5) \cup {7}, MaxDataRate |-> 7, MaxRX1DROffset |-> 7,
    GetChannels |-> Group(TRUE, 865062500, 340000, 0, 5, 2)
                    \o Group(TRUE, 865062500, 340000, 0, 5, 1),
    NbReserved |-> 3, masks |-> "channels", rx1 |-> "effective", request |-> <<5>> ]

As923 ==
  [ MinFrequency |-> 923000000, MaxFrequency |-> 923500000,
    FrequencyRX2 |-> 923200000, DataRateRX2 |-> 2,
    rates |-> 0 .. 7, MaxDataRate |-> 7, MaxRX1DROffset |-> 7,
    GetChannels |-> Group(TRUE, 923200000, 200000, 0, 5, 2), NbReserved |-> 2,
    masks |-> "channels", rx1 |-> "effective", request |-> <<5>> ]

Cn470 ==
  [ MinFrequency |-> 470000000, MaxFrequency |-> 510000000,
    FrequencyRX2 |-> 505300000, DataRateRX2 |-> 0,
    rates |-> 0 .. 5, MaxDataRate |-> 5, MaxRX1DROffset |-> 5,
    GetChannels |-> Holed(Group(TRUE, 470300000, 200000, 0, 5, 96))
                    \o Holed(Group(TRUE, 500300000, 200000, 0, 5, 48)),
    NbReserved |-> 96, masks |-> "cn470", rx1 |-> "cn470", request |-> <<5>> ]

\* The third group is for downlinks.
Us915 ==
  [ MinFrequency |-> 902000000, MaxFrequency |-> 928000000,
    FrequencyRX2 |-> 923300000, DataRateRX2 |-> 8,
    rates |-> (0 .. 4) \cup (8 .. 13), MaxDataRate |-> 13, MaxRX1DROffset |-> 3,
    GetChannels |-> Group(TRUE, 902300000, 200000, 0, 3, 64)
                    \o Group(TRUE, 903000000, 1600000, 4, 4, 8)
                    \o Group(FALSE, 923300000, 600000, 8, 13, 8),
    NbReserved |-> 72, masks |-> "groups", rx1 |-> "us915", request |-> <<0, 4>> ]

Au915 ==
  [ MinFrequency |-> 915000000, MaxFrequency |-> 928000000,
    FrequencyRX2 |-> 923300000, DataRateRX2 |-> 8,
    rates |-> (0 .. 6) \cup (8 .. 13), MaxDataRate |-> 13, MaxRX1DROffset |-> 5,
    GetChannels |-> Group(TRUE, 915200000, 200000, 0, 5, 64)
                    \o Group(TRUE, 915900000, 1600000, 6, 6, 8)
                    \o Group(FALSE, 923300000, 600000, 8, 13, 8),
    NbReserved |-> 72, masks |-> "groups", rx1 |-> "au915", request |-> <<2, 6>> ]

\* regionRegistry.
Region ==
  [ EU868 |-> Eu868, US915 |-> Us915, CN779 |-> Cn779, EU433 |-> Eu433, AU915 |-> Au915,
    CN470 |-> Cn470, AS923 |-> As923, KR920 |-> Kr920, IN865 |-> In865, RU864 |-> Ru864 ]

FrequencySupported(r, freq) == r.MinFrequency <= freq /\ freq <= r.MaxFrequency

DataRateSupported(r, dr) == dr \in r.rates

\* GetMinDataRate is 0 in every region.
DataRateRangeSupported(r, min, max) == min <= max /\ max <= r.MaxDataRate

RX1DROffsetSupported(r, offset) == offset <= r.MaxRX1DROffset

\* SetupInfoRequest: the rate and the channel a join request announces.
SetupInfoRequest(r, i) ==
  IF Len(r.request) = 1
  THEN { [DatR |-> r.request[1], Channel |-> c] :
           c \in IF i >= r.NbReserved THEN 0 .. r.NbReserved - 1 ELSE {i} }
  ELSE { [DatR |-> r.request[IF c >= 64 THEN 2 ELSE 1], Channel |-> c] :
           c \in 0 .. r.NbReserved - 1 }
----------------------------------------------------------------------------
(* SetupRX1: the data rate and the channel of the first window, after an   *)
(* uplink at rate dr on channel i.  Rates are uint8.                       *)

RX1Difference(dr, offset) == IF dr > offset THEN dr - offset ELSE 0

\* Offsets 6 and 7 are -1 and -2.
RX1Effective(dr, offset, lowest) ==
  AtMost(5, AtLeast(lowest, dr - (IF offset > 5 THEN 5 - offset ELSE offset)))

\* Mutant of RX1Us915: the lower bound is forgotten.
MutantRX1Us915NoBound(dr, offset) ==
  CASE dr \in 0 .. 3 -> 10 + dr - offset
    [] dr = 4        -> IF offset = 0 THEN 13 ELSE 14 - offset
    [] OTHER         -> 0

RX1Us915(dr, offset) ==
  AtLeast(8, CASE dr \in 0 .. 3 -> 10 + dr - offset
               [] dr = 4        -> IF offset = 0 THEN 13 ELSE 14 - offset
               [] OTHER         -> 0)

RX1Au915(dr, offset) ==
  IF dr > offset THEN AtMost(13, (dr - offset + 8) % 256) ELSE 0

RX1DataRate(r, dr, offset, dwell) ==
  CASE r.rx1 = "effective" -> RX1Effective(dr, offset, IF dwell /\ r = As923 THEN 2 ELSE 0)
    [] r.rx1 = "us915"     -> RX1Us915(dr, offset)
    [] r.rx1 = "au915"     -> RX1Au915(dr, offset)
    [] OTHER               -> RX1Difference(dr, offset)

\* Mutant of RX1Channel: the downlink channels of US915 are counted from 73.
MutantRX1ChannelFrom73(r, i) ==
  CASE r.rx1 = "us915" -> (i % 8) + 73
    [] r.rx1 = "au915" -> i % 8
    [] r.rx1 = "cn470" -> i % 48
    [] OTHER           -> i

RX1Channel(r, i) ==
  CASE r.rx1 = "us915" -> (i % 8) + 72
    [] r.rx1 = "au915" -> i % 8
    [] r.rx1 = "cn470" -> i % 48
    [] OTHER           -> i

================================================================================
