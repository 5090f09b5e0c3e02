------------------------------- MODULE MCChannels -------------------------------
\* Instances of Channels: all ten regions.  In those of FullRegions the server
\* sends every command, in the others it sends one of each kind.
EXTENDS Channels

CONSTANTS RegionNames, FullRegions

MCParameters == [n \in RegionNames |-> Region[n]]

Top(n) == Region[n].MaxFrequency

MCFrequencies == [n \in RegionNames |-> {0, Top(n), Top(n) + 200000}]

Req(cntl, mask, dr) == [cntl |-> cntl, mask |-> mask, dr |-> dr]

\* One command or two: masks of defined and of undefined channels, a rate of
\* the region, one of none, one of few channels.
MCLinkADRReqs ==
  [n \in RegionNames |->
     IF n \notin FullRegions
     THEN IF Region[n].masks = "groups" THEN { <<Req(7, {}, 3), Req(0, {3}, 3)>> }
          ELSE { <<Req(0, {2, 3}, 5)>> }
     ELSE IF Region[n].masks = "channels"
     THEN { <<Req(0, {2, 3}, 5)>>, <<Req(0, {3, 4}, 5)>>, <<Req(0, {3}, 7)>>,
            <<Req(0, {0}, 3)>>, <<Req(6, {}, 3)>>, <<Req(0, {}, 2), Req(0, {3}, 5)>>,
            <<Req(0, {3}, 5), Req(0, {3, 9}, 15)>> }
     ELSE { <<Req(0, {0, 3}, 3)>>, <<Req(6, {}, 2)>>, <<Req(7, {}, 4)>>,
            <<Req(5, {1, 3}, 3)>>, <<Req(2, {4}, 3)>>, <<Req(7, {}, 3), Req(0, {3}, 3)>>,
            <<Req(0, {1}, 15)>> } ]

New(i, freq, min, max) == [index |-> i, freq |-> freq, min |-> min, max |-> max]

MCNewChannelReqs ==
  [n \in RegionNames |->
     IF n \notin FullRegions THEN { New(3, Top(n), 0, 5) } ELSE
     { New(0, Top(n), 0, 5), New(3, Top(n), 0, 5), New(3, 0, 0, 5), New(9, Top(n), 4, 7),
       New(4, Top(n) + 200000, 0, 5), New(3, Top(n), 5, 2) }]

MCDLChannelReqs ==
  [n \in RegionNames |->
     IF n \notin FullRegions THEN {} ELSE
     { [index |-> 3, freq |-> Top(n) - 200000], [index |-> 1, freq |-> Top(n)] } ]

\* A server sends channels where masks are by channel, and masks of all the
\* channels where they come in groups or in the banks of CN470; masks by mistake
\* to EU868, too.
MCCFLists ==
  [n \in RegionNames |->
     [ frequencies |-> IF Region[n].masks = "channels" /\ n \in FullRegions
                       THEN {<<Top(n), Top(n), 0, 0, 0>>} ELSE {},
       masks       |-> IF n \notin FullRegions THEN {}
                       ELSE IF Region[n].masks = "channels" THEN {<<{0, 1}>>}
                       ELSE IF Region[n].masks = "groups" THEN {<<8 .. 15, {}, {}, {}, {1}>>}
                       ELSE {<<{1}, {}, {}, {3}, {}, 0 .. 15>>} ]]

MCOffsets == [n \in RegionNames |-> IF Region[n].masks = "groups" THEN {7} ELSE {2, 7}]

MCDraws == [n \in RegionNames |-> IF Region[n].masks = "channels" THEN 0 .. 7
                              ELSE IF Region[n].masks = "groups" THEN {3} ELSE {0, 3}]
================================================================================
