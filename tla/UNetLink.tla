------------------------------ MODULE UNetLink ------------------------------
(***************************************************************************)
(* One direction of the UNet exchange: the sending thread of a node        *)
(* (extensions/UNetUDP/UNetSender.cc), the network and UNetReceiver of the *)
(* other node.                                                             *)
(*                                                                         *)
(* The sender numbers its packets from 1; the number is not stored, so a   *)
(* restarted node begins with 1 again.  The network loses, duplicates and  *)
(* reorders packets, but none is in flight for longer than the sender      *)
(* needs for Flight turns of its loop.                                     *)
(*                                                                         *)
(* At any moment the link may become calm: the node is not restarted any   *)
(* more, its sensors keep their value, the network is a FIFO without loss, *)
(* the receiver's SM stores what it is given, and the receiver has its     *)
(* usual pace: update() is called every UpdateTurns packets at the latest, *)
(* and lostTimeout is the time of LostTurns packets.  With the defaults of *)
(* UNetExchange (sendpause 100, updatepause 100, lostTimeout 200) that is  *)
(* one packet and two packets.                                             *)
(***************************************************************************)
EXTENDS UNetReceiver

CONSTANTS
    Values,     \* values of the sensors that are sent
    FirstValue, \* the one they have at first
    Lives,      \* bound of the model: number of times the node is started
    Flight,     \* turns of the sender a packet may be in flight
    MaxSent,    \* bound of the model: packets sent in one life
    Enough,     \* packets of a calm link that bring the value to SM
    UpdateTurns, LostTurns  \* see above

\* The contents of a packet; life is not transmitted, it is history.
ASSUME SentData == Data = [value : Values, life : 1..Lives]
ASSUME SentPackets == Packets = [num : 1..MaxSent, data : Data]
ASSUME FirstAssumption == FirstValue \in Values
ASSUME LinkAssumption == Lives \in Nat \ {0} /\ Flight \in Nat \ {0} /\ MaxSent \in Nat /\ Enough \in Nat
ASSUME PaceAssumption == UpdateTurns \in Nat \ {0} /\ LostTurns \in Nat

\* What the protocol asks of the network: a packet is late by less than the
\* accepted distance and by less than what makes the ring full.
ASSUME FlightAssumption == Flight <= maxDifferens /\ Flight <= cbufSize - 2

VARIABLES
    value,      \* the sensors in the sender's SM
    packetnum,  \* number of the last packet
    net,        \* packets in flight by age, the oldest first
    life,       \* history: how often the node was started
    calm,       \* see above
    toUpdate,   \* calm packets received since update() was last called
    toLost,     \* and since lostTimeout began to run (capped at LostTurns)
    shown       \* history: number of the packet last handed to SM, or 0

NoPacket == [num |-> 0, data |-> NoData]

sender == <<value, packetnum, life>>
link == <<sender, net, calm>>
pace == <<toUpdate, toLost>>
linkVars == <<vars, link, pace, shown>>

LinkInit ==
    /\ Init
    /\ value = FirstValue
    /\ packetnum = 0
    /\ net = [i \in 1..Flight |-> NoPacket]
    /\ life = 1
    /\ calm = FALSE
    /\ toUpdate = 0
    /\ toLost = 0
    /\ shown = 0

-----------------------------------------------------------------------------
(* send(): one turn of its loop                                            *)

Packet(n) == [num |-> n, data |-> [value |-> value, life |-> life]]

Arriving == {i \in 1..Flight : net[i] # NoPacket}

\* The packets in flight get older; the oldest one, if it was not delivered,
\* is lost.
Aged(p) == [i \in 1..Flight |-> IF i = Flight THEN p ELSE net[i + 1]]

\* updateFromSM() and real_send().  The number is used up even when the
\* socket is not ready for it.  Without a connection and in mode mDisabled
\* the thread only sleeps: it takes no step.
real_send(ready) ==
    /\ packetnum < MaxSent
    /\ calm => ready /\ Arriving = {}
    /\ packetnum' = packetnum + 1
    /\ net' = Aged(IF ready THEN Packet(packetnum + 1) ELSE NoPacket)
    /\ UNCHANGED <<vars, value, life, calm, pace, shown>>

-----------------------------------------------------------------------------
(* The environment of the sender                                           *)

\* The node is started again; its packets may still be in flight.
Restart ==
    /\ ~calm
    /\ life < Lives
    /\ life' = life + 1
    /\ packetnum' = 0
    /\ UNCHANGED <<vars, value, net, calm, pace, shown>>

\* Bound of the model: the sensors change once, just before.
CalmDown(v) ==
    /\ ~calm
    /\ packetnum + Enough <= MaxSent
    /\ calm' = TRUE
    /\ value' = v
    /\ UNCHANGED <<vars, packetnum, life, net, pace, shown>>

-----------------------------------------------------------------------------
(* The network and the receiver                                            *)

Without(i) == [net EXCEPT ![i] = NoPacket]

\* The time of one more packet has passed without update(), without the end
\* of lostTimeout.
OnTime ==
    /\ toUpdate < UpdateTurns
    /\ lostExpired \/ toLost < LostTurns

Deliver(i) ==
    /\ calm => OnTime /\ \A j \in Arriving : i <= j
    /\ Receive(net[i])
    /\ net' = Without(i)
    /\ toUpdate' = IF calm THEN toUpdate + 1 ELSE 0
    /\ toLost' = IF calm THEN AtMost(toLost + 1, LostTurns) ELSE 0
    /\ UNCHANGED <<sender, calm, shown>>

DeliverDuplicate(i) ==
    /\ ~calm
    /\ Receive(net[i])
    /\ UNCHANGED <<link, pace, shown>>

LinkConsumes(ok) ==
    /\ calm => ok
    /\ UpdateConsumes(ok)
    /\ toLost' = 0
    /\ shown' = IF lockUpdate \/ ~mode THEN shown ELSE rnum
    /\ UNCHANGED <<link, toUpdate>>

\* The other handlers of the receiver; nothing asks for a forced update.
EventLoop ==
    /\ \/ UpdateEvent /\ toUpdate' = 0
       \/ (UpdateDrained \/ UpdateWaits \/ UpdateSkipsHole) /\ UNCHANGED toUpdate
    /\ UNCHANGED <<link, toLost, shown>>

TimePasses == LostTimeoutExpires /\ UNCHANGED <<link, pace, shown>>

LinkNext ==
    \/ \E ready \in BOOLEAN : real_send(ready)
    \/ Restart
    \/ \E v \in Values : CalmDown(v)
    \/ \E i \in Arriving : Deliver(i) \/ DeliverDuplicate(i)
    \/ \E ok \in BOOLEAN : LinkConsumes(ok)
    \/ EventLoop
    \/ TimePasses

LinkSpec == LinkInit /\ [][LinkNext]_linkVars

\* The sending thread runs, the receiver's event loop calls its handlers and
\* finishes them, it reads a socket that stays readable, time passes.
LinkFairness ==
    /\ WF_linkVars(\E ready \in BOOLEAN : real_send(ready))
    /\ SF_linkVars(calm /\ \E i \in Arriving : Deliver(i))
    /\ WF_linkVars(EventLoop \/ \E ok \in BOOLEAN : LinkConsumes(ok))
    /\ WF_linkVars(TimePasses)

FairLinkSpec == LinkSpec /\ LinkFairness

-----------------------------------------------------------------------------
(* Properties                                                              *)

\* Types of the link's state; what is in flight is a packet of the sender.
LinkTypeOK ==
    /\ TypeOK
    /\ value \in Values
    /\ packetnum \in 0..MaxSent
    /\ net \in [1..Flight -> Packets \cup {NoPacket}]
    /\ toUpdate \in 0..UpdateTurns
    /\ toLost \in 0..LostTurns

\* The receiver follows the present life of the sender: no packet of a former
\* life is in flight, none with a number that is yet to be sent was taken,
\* and what is to be consumed next is above what SM was given.
Follows ==
    /\ \A i \in Arriving : net[i].data.life = life
    /\ wnum <= packetnum + 1
    /\ shown < rnum \/ shown = 0

\* The receiver follows the sender from its start; while it does, it goes on
\* to do so until the sender is restarted, and hands its packets to SM in the
\* order they were sent, although each may be late, duplicated, lost or force
\* a resynchronisation.
ShownInOrder ==
    /\ Follows
    /\ [][Follows => shown' >= shown /\ (Follows' \/ life' # life)]_linkVars

\* Whatever happened before -- lost numbers, restarts of the sender, a full
\* buffer, an SM that refused the data -- Enough packets of a calm link bring
\* the sender's value to SM, although some of them come while the reader
\* still waits at a hole.  (The ring must not fill up while it waits: a ring
\* that is full before lostTimeout ends resynchronises on the expected number,
\* whose slot is then zeroed, and the wait begins again.)
ValueArrives == calm ~> (sm # NoData /\ sm.value = value)
=============================================================================
