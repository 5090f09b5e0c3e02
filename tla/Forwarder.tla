------------------------------- MODULE Forwarder -------------------------------
(***************************************************************************)
(* The forwarder (components/forwarder): the routing tables between the    *)
(* devices and the gateways in their range.  Every method runs under       *)
(* Forwarder.Mutex and is one step; the mailboxes it opens, closes or      *)
(* fills are those of module ReceivedDownlink.                             *)
(***************************************************************************)
EXTENDS ReceivedDownlink

CONSTANTS
  Gw,       \* the gateways, each one its MAC address
  ZeroMAC,  \* the zero value of a MAC address
  Freq,     \* the frequencies receive windows listen on
  Place,    \* where devices and gateways may stand
  Nowhere,  \* the location of what the forwarder does not know
  Near      \* the pairs <<device place, gateway place>> in radio range

ASSUME ForwarderAssumption ==
  /\ ZeroMAC \notin Gw
  /\ Nowhere \notin Place
  /\ Near \subseteq Place \X Place

VARIABLES
  devices,  \* devices[d]:  the location in Forwarder.Devices
  gateways, \* gateways[g]: the location in Forwarder.Gateways
  devToGw,  \* devToGw[d]:  the gateways of the inner map of DevToGw
  gwToDev   \* gwToDev[d]:  the <<frequency, gateway>> keys under which GwtoDev
            \*              holds the mailbox of d

tableVars == <<devices, gateways, devToGw, gwToDev>>

ForwarderTypeOK ==
  /\ devices  \in [Dev -> Place \cup {Nowhere}]
  /\ gateways \in [Gw -> Place \cup {Nowhere}]
  /\ devToGw  \in [Dev -> SUBSET Gw]
  /\ gwToDev  \in [Dev -> SUBSET (Freq \X Gw)]

ForwarderInit ==
  /\ devices  = [d \in Dev |-> Nowhere]
  /\ gateways = [g \in Gw |-> Nowhere]
  /\ devToGw  = [d \in Dev |-> {}]
  /\ gwToDev  = [d \in Dev |-> {}]

Known(d) == devices[d] # Nowhere

InRange(p, q) == <<p, q>> \in Near

\* The gateways a device standing at p is linked with.
GatewaysAround(p) == {g \in Gw : InRange(p, gateways[g])}

\* AddDevice, and UpdateDevice which only calls it: the inner map is rebuilt,
\* the registrations in GwtoDev are not touched.
AddDevice(d, p) ==
  /\ devices' = [devices EXCEPT ![d] = p]
  /\ devToGw' = [devToGw EXCEPT ![d] = GatewaysAround(p)]
  /\ UNCHANGED <<gateways, gwToDev, mailboxVars>>

DeleteDevice(d) ==
  /\ devices' = [devices EXCEPT ![d] = Nowhere]
  /\ devToGw' = [devToGw EXCEPT ![d] = {}]
  /\ UNCHANGED <<gateways, gwToDev, mailboxVars>>

\* Mutant of AddGateway: the devices already known are not linked.
MutantAddGatewayLinksNone(g, p) ==
  /\ gateways' = [gateways EXCEPT ![g] = p]
  /\ UNCHANGED <<devices, devToGw, gwToDev, mailboxVars>>

\* AddGateway only adds links: those g had at an earlier location stay.
AddGateway(g, p) ==
  /\ gateways' = [gateways EXCEPT ![g] = p]
  /\ devToGw'  = [d \in Dev |-> IF InRange(devices[d], p)
                                THEN devToGw[d] \cup {g} ELSE devToGw[d]]
  /\ UNCHANGED <<devices, gwToDev, mailboxVars>>

DeleteGateway(mac) ==
  /\ gateways' = [g \in Gw |-> IF g = mac THEN Nowhere ELSE gateways[g]]
  /\ devToGw'  = [d \in Dev |-> IF Known(d) THEN devToGw[d] \ {mac} ELSE devToGw[d]]
  /\ UNCHANGED <<devices, gwToDev, mailboxVars>>

\* Register opens the mailbox once per linked gateway: with none it stays shut.
Register(f, d) ==
  /\ gwToDev' = [gwToDev EXCEPT ![d] = @ \cup ({f} \X devToGw[d])]
  /\ SetOpen(d, isOpen[d] \/ devToGw[d] # {})
  /\ UNCHANGED <<devices, gateways, devToGw>>

\* Mutant of UnRegister: Close is forgotten.
MutantUnRegisterKeepsOpen(f, d) ==
  /\ gwToDev' = [gwToDev EXCEPT ![d] = @ \ ({f} \X devToGw[d])]
  /\ UNCHANGED <<devices, gateways, devToGw, mailboxVars>>

\* Mutant of UnRegister: the entry of GwtoDev is closed, not deleted.
MutantUnRegisterKeepsEntry(f, d) ==
  /\ SetOpen(d, isOpen[d] /\ ({f} \X devToGw[d]) \cap gwToDev[d] = {})
  /\ UNCHANGED tableVars

\* UnRegister walks the links of now, not those Register walked.
UnRegister(f, d) ==
  LET found == ({f} \X devToGw[d]) \cap gwToDev[d] IN
    /\ gwToDev' = [gwToDev EXCEPT ![d] = @ \ found]
    /\ SetOpen(d, isOpen[d] /\ found = {})
    /\ UNCHANGED <<devices, gateways, devToGw>>

\* Downlink m heard by gateway g on frequency f.
Listeners(f, g) == {d \in Dev : <<f, g>> \in gwToDev[d]}

Downlink(m, f, g) ==
  /\ Push(Listeners(f, g), m)
  /\ UNCHANGED tableVars

================================================================================
