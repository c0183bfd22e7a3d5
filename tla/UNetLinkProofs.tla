--------------------------- MODULE UNetLinkProofs ---------------------------
(***************************************************************************)
(* The receiver inside the link is the receiver of UNetReceiver, so that   *)
(* what is proved there for any network holds for this one; and what the   *)
(* network of the link guarantees about the order of packets.              *)
(***************************************************************************)
EXTENDS UNetLink, UNetReceiverProofs

\* What is in flight is a packet.
NetInv ==
    /\ value \in Values /\ life \in 1..Lives /\ packetnum \in 0..MaxSent
    /\ net \in [1..Flight -> Packets \cup {NoPacket}]
    /\ toUpdate \in 0..UpdateTurns /\ toLost \in 0..LostTurns

\* The initial state satisfies the invariant.
LEMMA InitNet == LinkInit => NetInv
  BY LinkAssumption, FirstAssumption, PaceAssumption DEF LinkInit, NetInv

\* Every step keeps the invariant.
LEMMA NextNet == NetInv /\ [LinkNext]_linkVars => NetInv'
  <1> SUFFICES ASSUME NetInv, [LinkNext]_linkVars PROVE NetInv'
    OBVIOUS
  <1> USE LinkAssumption, PaceAssumption DEF NetInv
  <1>1. ASSUME NEW ready \in BOOLEAN, real_send(ready) PROVE NetInv'
    <2>1. packetnum' = packetnum + 1 /\ packetnum < MaxSent /\ UNCHANGED <<value, life, toUpdate, toLost>>
      BY <1>1 DEF real_send, pace
    <2>2. packetnum + 1 \in 1..MaxSent /\ packetnum' \in 0..MaxSent
      BY <2>1
    <2>3. Packet(packetnum + 1) \in Packets
      BY <2>2, SentData, SentPackets DEF Packet
    <2>4. PICK p \in Packets \cup {NoPacket} : net' = Aged(p)
      BY <1>1, <2>3 DEF real_send
    <2>5. net' \in [1..Flight -> Packets \cup {NoPacket}]
      BY <2>4 DEF Aged
    <2> QED
      BY <2>1, <2>2, <2>5
  <1>2. ASSUME NEW v \in Values, Restart \/ CalmDown(v) PROVE NetInv'
    BY <1>2 DEF Restart, CalmDown, pace
  <1>3. ASSUME NEW i \in Arriving, Deliver(i) PROVE NetInv'
    <2>1. net' = [net EXCEPT ![i] = NoPacket] /\ UNCHANGED <<value, life, packetnum>>
      BY <1>3 DEF Deliver, Without, sender
    <2>2. toUpdate' \in 0..UpdateTurns
      BY <1>3 DEF Deliver, OnTime
    <2>3. toLost' \in 0..LostTurns
      BY <1>3 DEF Deliver, AtMost
    <2> QED
      BY <2>1, <2>2, <2>3
  <1>4. ASSUME UNCHANGED link, toUpdate' \in {0, toUpdate}, toLost' \in {0, toLost} PROVE NetInv'
    BY <1>4 DEF link, sender
  <1>5. /\ \A i \in Arriving : DeliverDuplicate(i) => NetInv'
        /\ \A ok \in BOOLEAN : LinkConsumes(ok) => NetInv'
        /\ EventLoop \/ TimePasses \/ UNCHANGED linkVars => NetInv'
    BY <1>4 DEF DeliverDuplicate, LinkConsumes, EventLoop, TimePasses, linkVars, pace
  <1> QED
    BY <1>1, <1>2, <1>3, <1>5 DEF LinkNext

\* A step of the link is a step of the receiver, or none.
LEMMA StepReceiver == NetInv /\ [LinkNext]_linkVars => [Next]_vars
  <1> SUFFICES ASSUME NetInv, [LinkNext]_linkVars PROVE [Next]_vars
    OBVIOUS
  <1>1. ASSUME NEW i \in Arriving, Deliver(i) \/ DeliverDuplicate(i) PROVE Next
    <2>1. net[i] \in Packets
      BY <1>1 DEF NetInv, Arriving
    <2>2. Receive(net[i])
      BY <1>1 DEF Deliver, DeliverDuplicate
    <2> QED
      BY <2>1, <2>2 DEF Next
  <1>2. ASSUME NEW ok \in BOOLEAN, LinkConsumes(ok) PROVE Next
    BY <1>2 DEF LinkConsumes, Next, Update
  <1>3. EventLoop \/ TimePasses => Next
    BY DEF EventLoop, TimePasses, Next, Update
  <1>4. /\ \A ready \in BOOLEAN : real_send(ready) => UNCHANGED vars
        /\ \A v \in Values : CalmDown(v) => UNCHANGED vars
        /\ Restart \/ UNCHANGED linkVars => UNCHANGED vars
    BY DEF real_send, Restart, CalmDown, linkVars
  <1> QED
    BY <1>1, <1>2, <1>3, <1>4 DEF LinkNext

\* The receiver of a link, whatever its sender and its network do, is the
\* receiver of UNetReceiver: its theorems hold in the link.
THEOREM LinkReceives == LinkSpec => Spec
  <1>1. LinkInit => Init
    BY DEF LinkInit
  <1> QED
    BY <1>1, InitNet, NextNet, StepReceiver, PTL DEF LinkSpec, Spec

\* Types of the link; with TypeCorrect of the receiver.
THEOREM LinkTypes == LinkSpec => []LinkTypeOK
  <1>1. TypeOK /\ NetInv => LinkTypeOK
    BY DEF NetInv, LinkTypeOK
  <1> QED
    BY <1>1, InitNet, NextNet, LinkReceives, TypeCorrect, PTL DEF LinkSpec

-----------------------------------------------------------------------------
(* Order                                                                   *)

\* A packet of the present life is as old as its place in the network says.
AgeInv ==
    \A i \in Arriving : net[i].data.life = life => net[i].num = packetnum - (Flight - i)

\* No packet is from a life to come.
OldInv == \A i \in Arriving : net[i].data.life <= life

\* The reader never passes the writer, from WindowCorrect.
ReaderBehind == rnum <= wnum

\* What the order of packets rests on.
OrderInv ==
    /\ TypeOK
    /\ ReaderBehind
    /\ NetInv
    /\ AgeInv
    /\ OldInv
    /\ shown \in Nat

\* The fields of a packet and of the absent one.
LEMMA PacketFields ==
    /\ \A p \in Packets : p.num \in 1..MaxSent /\ p.data.life \in 1..Lives
    /\ \A n : Packet(n).num = n /\ Packet(n).data.life = life
  BY SentData, SentPackets DEF Packet

\* A turn of the sender makes every packet in flight older by one.
LEMMA SendAges ==
    ASSUME NetInv, AgeInv, OldInv, NEW ready \in BOOLEAN, real_send(ready)
    PROVE  /\ AgeInv' /\ OldInv'
           /\ (\A i \in Arriving : net[i].data.life = life)
                  => (\A i \in Arriving : net[i].data.life = life)'
  <1> DEFINE new == IF ready THEN Packet(packetnum + 1) ELSE NoPacket
  <1>1. net' = [i \in 1..Flight |-> IF i = Flight THEN new ELSE net[i + 1]]
    BY DEF real_send, Aged
  <1>2. packetnum' = packetnum + 1 /\ life' = life /\ packetnum \in Nat /\ Flight \in Nat \ {0}
    BY LinkAssumption DEF real_send, NetInv
  <1>3. ASSUME NEW i \in Arriving'
        PROVE  \/ i = Flight /\ net'[i] = Packet(packetnum + 1)
               \/ i # Flight /\ i + 1 \in Arriving /\ net'[i] = net[i + 1]
    <2>1. i \in 1..Flight /\ net'[i] # NoPacket
      BY <1>3 DEF Arriving
    <2>2. CASE i = Flight
      BY <1>1, <2>1, <2>2
    <2>3. CASE i # Flight
      <3>1. i + 1 \in 1..Flight
        BY <1>2, <2>1, <2>3
      <3> QED
        BY <1>1, <2>1, <2>3, <3>1 DEF Arriving
    <2> QED
      BY <2>2, <2>3
  <1>4. ASSUME NEW i \in Arriving', net'[i].data.life = life
        PROVE  net'[i].num = packetnum' - (Flight - i)
    <2>1. i \in 1..Flight
      BY <1>4 DEF Arriving
    <2>2. CASE i = Flight
      <3>1. net'[i].num = packetnum + 1
        BY <1>3, <2>2, PacketFields
      <3> QED
        BY <1>2, <2>2, <3>1
    <2>3. CASE i # Flight
      <3>1. net'[i].num = packetnum - (Flight - (i + 1))
        BY <1>3, <1>4, <2>3 DEF AgeInv
      <3> QED
        BY <1>2, <2>1, <3>1
    <2> QED
      BY <2>2, <2>3
  <1>5. AgeInv'
    BY <1>2, <1>4 DEF AgeInv
  <1>6. ASSUME \A i \in Arriving : net[i].data.life = life, NEW i \in Arriving'
        PROVE  net'[i].data.life = life'
    BY <1>2, <1>3, <1>6, PacketFields
  <1>7. OldInv'
    <2>1. ASSUME NEW i \in Arriving' PROVE net'[i].data.life <= life'
      BY <1>2, <1>3, PacketFields DEF NetInv, OldInv
    <2> QED
      BY <2>1 DEF OldInv
  <1> QED
    BY <1>5, <1>6, <1>7

\* The network only loses packets in the other steps.
LEMMA NetShrinks ==
    ASSUME NetInv, AgeInv, OldInv, UNCHANGED sender,
           UNCHANGED net \/ \E i \in Arriving : net' = Without(i)
    PROVE  /\ AgeInv' /\ OldInv'
           /\ (\A i \in Arriving : net[i].data.life = life)
                  => (\A i \in Arriving : net[i].data.life = life)'
  <1>1. ASSUME NEW j \in Arriving' PROVE j \in Arriving /\ net'[j] = net[j]
    <2>1. j \in 1..Flight /\ net'[j] # NoPacket
      BY <1>1 DEF Arriving
    <2>2. CASE UNCHANGED net
      BY <2>1, <2>2 DEF Arriving
    <2>3. ASSUME NEW i \in Arriving, net' = Without(i) PROVE j \in Arriving /\ net'[j] = net[j]
      <3>1. net'[j] = IF j = i THEN NoPacket ELSE net[j]
        BY <2>1, <2>3 DEF Without, NetInv
      <3> QED
        BY <2>1, <3>1 DEF Arriving
    <2> QED
      BY <2>2, <2>3
  <1>2. UNCHANGED <<packetnum, life>>
    BY DEF sender
  <1> QED
    BY <1>1, <1>2 DEF AgeInv, OldInv

\* The initial state satisfies the invariant, and the receiver follows the
\* first life of the sender.
LEMMA InitOrder == LinkInit => OrderInv /\ Follows
  <1> SUFFICES ASSUME LinkInit PROVE OrderInv /\ Follows
    OBVIOUS
  <1>1. TypeOK
    BY InitType DEF LinkInit
  <1>2. Arriving = {}
    BY DEF LinkInit, Arriving
  <1>3. NetInv
    BY InitNet
  <1>4. rnum = 0 /\ wnum = 1 /\ shown = 0 /\ packetnum = 0
    BY DEF LinkInit, Init
  <1> QED
    BY <1>1, <1>2, <1>3, <1>4 DEF OrderInv, ReaderBehind, Follows, AgeInv, OldInv

\* Every step keeps the invariant.
LEMMA NextOrder == OrderInv /\ ReaderBehind' /\ [LinkNext]_linkVars => OrderInv'
  <1> SUFFICES ASSUME OrderInv, ReaderBehind', [LinkNext]_linkVars PROVE OrderInv'
    OBVIOUS
  <1> USE DEF OrderInv
  <1>1. TypeOK' /\ NetInv'
    BY NextNet, StepReceiver, NextType
  <1>2. ASSUME NEW ready \in BOOLEAN, real_send(ready) PROVE AgeInv' /\ OldInv' /\ shown' \in Nat
    <2>1. shown' = shown
      BY <1>2 DEF real_send
    <2> QED
      BY <1>2, <2>1, SendAges
  <1>3. ASSUME Restart PROVE AgeInv' /\ OldInv' /\ shown' \in Nat
    <2>1. UNCHANGED <<net, shown>> /\ life' = life + 1 /\ life \in Nat
      BY <1>3, LinkAssumption DEF Restart, NetInv
    <2>2. ASSUME NEW i \in Arriving PROVE net[i].data.life <= life /\ net[i].data.life \in Nat
      BY <2>2, LinkAssumption, PacketFields DEF OldInv, Arriving, NetInv
    <2>3. Arriving' = Arriving
      BY <2>1 DEF Arriving
    <2>4. \A i \in Arriving' : net'[i].data.life # life' /\ net'[i].data.life <= life'
      BY <2>1, <2>2, <2>3
    <2> QED
      BY <2>1, <2>4 DEF AgeInv, OldInv
  <1>4. ASSUME UNCHANGED sender, UNCHANGED net \/ \E i \in Arriving : net' = Without(i),
               shown' = shown \/ shown' = rnum
        PROVE  AgeInv' /\ OldInv' /\ shown' \in Nat
    BY <1>4, NetShrinks DEF TypeOK
  <1>5. ASSUME NEW v \in Values, CalmDown(v) PROVE AgeInv' /\ OldInv' /\ shown' \in Nat
    <2>1. UNCHANGED <<net, shown, packetnum, life>>
      BY <1>5 DEF CalmDown
    <2> QED
      BY <2>1 DEF AgeInv, OldInv, Arriving
  <1>6. ASSUME NEW i \in Arriving, Deliver(i) \/ DeliverDuplicate(i)
        PROVE  AgeInv' /\ OldInv' /\ shown' \in Nat
    BY <1>4, <1>6 DEF Deliver, DeliverDuplicate, link
  <1>7. ASSUME NEW ok \in BOOLEAN, LinkConsumes(ok) PROVE AgeInv' /\ OldInv' /\ shown' \in Nat
    BY <1>4, <1>7 DEF LinkConsumes, link
  <1>8. EventLoop \/ TimePasses \/ UNCHANGED linkVars => AgeInv' /\ OldInv' /\ shown' \in Nat
    BY <1>4 DEF EventLoop, TimePasses, linkVars, link
  <1> QED
    BY <1>1, <1>2, <1>3, <1>5, <1>6, <1>7, <1>8 DEF LinkNext

\* A packet that arrives at a receiver that follows the sender is within
\* Flight of the number the receiver expects, or above it: receive() never
\* takes the reader back, not even when it resynchronises.
LEMMA NeverTakenBack ==
    ASSUME OrderInv, Follows, NEW i \in Arriving, Receive(net[i])
    PROVE  wnum' <= packetnum + 1 /\ (rnum = 0 \/ rnum <= rnum')
  <1> DEFINE p == net[i]
  <1>1. p \in Packets /\ p.num \in 1..MaxSent /\ i \in 1..Flight
    BY PacketFields DEF Arriving, OrderInv, NetInv
  <1>2. p.num = packetnum - (Flight - i)
    BY DEF OrderInv, AgeInv, Follows
  <1>3. /\ packetnum \in Nat /\ wnum \in Nat /\ rnum \in Nat /\ rnum <= wnum
        /\ wnum <= packetnum + 1
        /\ Flight \in Nat /\ maxDifferens \in Nat /\ cbufSize \in Nat /\ MaxSent \in Nat
        /\ Flight <= maxDifferens /\ Flight <= cbufSize - 2
    BY LinkAssumption, FlightAssumption, SizeAssumption, DifferensAssumption
       DEF OrderInv, ReaderBehind, NetInv, TypeOK, Follows
  <1>4. p.num \in Nat /\ p.num <= packetnum /\ wnum - Flight <= p.num
    BY <1>1, <1>2, <1>3
  <1>5. CASE ReceiveDisagree(p)
    <2>1. rnum' = p.num /\ wnum' = p.num + 1
      BY <1>5 DEF ReceiveDisagree
    <2>2. Distance(p.num, wnum) > maxDifferens \/ Distance(wnum, rnum) >= cbufSize - 2
      BY <1>5 DEF ReceiveDisagree, Disagree
    <2>3. CASE Distance(p.num, wnum) > maxDifferens
      BY <1>3, <1>4, <2>1, <2>3 DEF Distance
    <2>4. CASE Distance(wnum, rnum) >= cbufSize - 2
      BY <1>3, <1>4, <2>1, <2>4 DEF Distance
    <2> QED
      BY <2>2, <2>3, <2>4
  <1>6. CASE ReceiveInOrder(p)
    BY <1>3, <1>4, <1>6 DEF ReceiveInOrder
  <1>7. CASE ReceiveOutOfOrder(p)
    BY <1>3, <1>4, <1>7 DEF ReceiveOutOfOrder
  <1> QED
    BY <1>5, <1>6, <1>7 DEF Receive

\* What a step does to a receiver that follows the sender.
LEMMA StepInOrder ==
    ASSUME OrderInv, [LinkNext]_linkVars, Follows
    PROVE  shown' >= shown /\ (Follows' \/ life' # life)
  <1>1. /\ packetnum \in Nat /\ wnum \in Nat /\ rnum \in Nat /\ rnum <= wnum /\ shown \in Nat
        /\ wnum <= packetnum + 1 /\ (shown < rnum \/ shown = 0)
    BY LinkAssumption DEF OrderInv, ReaderBehind, NetInv, TypeOK, Follows
  <1>2. ASSUME NEW ready \in BOOLEAN, real_send(ready) PROVE shown' >= shown /\ Follows'
    <2>1. UNCHANGED <<wnum, rnum, shown>> /\ packetnum' = packetnum + 1
      BY <1>2 DEF real_send, vars, buffer
    <2>2. (\A i \in Arriving : net[i].data.life = life)'
      BY <1>2, SendAges DEF OrderInv, Follows
    <2> QED
      BY <1>1, <2>1, <2>2 DEF Follows
  <1>3. ASSUME Restart PROVE shown' >= shown /\ life' # life
    BY <1>1, <1>3, LinkAssumption DEF Restart, OrderInv, NetInv
  <1>4. ASSUME NEW v \in Values, CalmDown(v) PROVE shown' >= shown /\ Follows'
    BY <1>1, <1>4 DEF CalmDown, Follows, Arriving, vars, buffer
  <1>5. ASSUME UNCHANGED sender, UNCHANGED net \/ \E i \in Arriving : net' = Without(i)
        PROVE  (\A i \in Arriving : net[i].data.life = life)'
    BY <1>5, NetShrinks DEF OrderInv, Follows
  <1>7. ASSUME NEW i \in Arriving, Deliver(i) \/ DeliverDuplicate(i) PROVE shown' >= shown /\ Follows'
    <2>1. UNCHANGED <<shown, packetnum, sender>> /\ Receive(net[i])
      BY <1>7 DEF Deliver, DeliverDuplicate, link, sender
    <2>2. wnum' <= packetnum + 1 /\ (rnum = 0 \/ rnum <= rnum') /\ rnum' \in Nat
      BY <2>1, NeverTakenBack, NextType, StepReceiver DEF OrderInv, TypeOK
    <2>3. (\A j \in Arriving : net[j].data.life = life)'
      BY <1>5, <1>7, <2>1 DEF Deliver, DeliverDuplicate, link
    <2> QED
      BY <1>1, <2>1, <2>2, <2>3 DEF Follows
  <1>8. ASSUME NEW ok \in BOOLEAN, LinkConsumes(ok) PROVE shown' >= shown /\ Follows'
    <2>1. UNCHANGED <<wnum, packetnum, sender, net>> /\ rnum' = rnum + 1 /\ (shown' = shown \/ shown' = rnum)
      BY <1>8 DEF LinkConsumes, UpdateConsumes, link, sender
    <2>2. (\A j \in Arriving : net[j].data.life = life)'
      BY <1>5, <2>1
    <2> QED
      BY <1>1, <2>1, <2>2 DEF Follows
  <1>9. ASSUME EventLoop PROVE shown' >= shown /\ Follows'
    <2>1. UNCHANGED <<wnum, packetnum, sender, net, shown>>
      BY <1>9 DEF EventLoop, UpdateEvent, UpdateDrained, UpdateWaits, UpdateSkipsHole, Leave, buffer, link, sender
    <2>2. rnum' \in Nat /\ rnum' >= rnum
      <3>1. CASE UpdateSkipsHole
        <4>1. rnum < wnum \/ NoPackets
          BY <1>1, <3>1 DEF UpdateSkipsHole, Drained
        <4>2. rnum < wnum
          BY <1>1, <4>1 DEF NoPackets
        <4> QED
          BY <1>1, <3>1, <4>2, RnextAbove DEF UpdateSkipsHole, OrderInv
      <3>2. CASE UpdateEvent \/ UpdateDrained \/ UpdateWaits
        BY <1>1, <3>2 DEF UpdateEvent, UpdateDrained, UpdateWaits, Leave, buffer
      <3> QED
        BY <1>9, <3>1, <3>2 DEF EventLoop
    <2>3. (\A j \in Arriving : net[j].data.life = life)'
      BY <1>5, <2>1
    <2> QED
      BY <1>1, <2>1, <2>2, <2>3 DEF Follows
  <1>10. ASSUME TimePasses \/ UNCHANGED linkVars PROVE shown' >= shown /\ Follows'
    <2>1. UNCHANGED <<wnum, rnum, packetnum, sender, net, shown>>
      BY <1>10 DEF TimePasses, LostTimeoutExpires, buffer, linkVars, vars, link, sender
    <2>2. (\A j \in Arriving : net[j].data.life = life)'
      BY <1>5, <2>1
    <2> QED
      BY <1>1, <2>1, <2>2 DEF Follows
  <1> QED
    BY <1>2, <1>3, <1>4, <1>7, <1>8, <1>9, <1>10 DEF LinkNext

\* ShownInOrder, for every ring and every accepted distance (as large as the
\* ring or larger too), any number of lives and packets and any pace of
\* update(), whenever packets are not late by more than FlightAssumption says:
\* from its start, and again once it follows a restarted sender, the
\* receiver hands packets to SM in the order they were sent.
THEOREM ShownInOrderCorrect == LinkSpec => ShownInOrder
  <1>1. WindowBounded => ReaderBehind
    BY DEF WindowBounded, ReaderBehind
  <1>2. LinkSpec => []ReaderBehind
    BY <1>1, LinkReceives, WindowCorrect, PTL
  <1>3. LinkSpec => []OrderInv
    BY <1>2, InitOrder, NextOrder, PTL DEF LinkSpec
  <1>4. OrderInv /\ [LinkNext]_linkVars
           => [Follows => shown' >= shown /\ (Follows' \/ life' # life)]_linkVars
    BY StepInOrder
  <1> QED
    BY <1>3, <1>4, InitOrder, PTL DEF LinkSpec, ShownInOrder
=============================================================================
