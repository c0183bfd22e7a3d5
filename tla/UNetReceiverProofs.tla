------------------------- MODULE UNetReceiverProofs -------------------------
(***************************************************************************)
(* Proofs about UNetReceiver, for every size of the ring, every accepted   *)
(* distance and every set of packets and junk datagrams.                   *)
(***************************************************************************)
EXTENDS UNetReceiver, TLAPS, WellFoundedInduction

-----------------------------------------------------------------------------
(* Arithmetic of the ring                                                  *)

\* A number has its slot in the ring.
LEMMA IndexType == \A n \in Nat : Index(n) \in 0..(cbufSize - 1)
  BY SizeAssumption DEF Index

\* Different numbers that are less than cbufSize apart have different slots.
LEMMA IndexInjective ==
    ASSUME NEW a \in Nat, NEW b \in Nat, Index(a) = Index(b), a <= b, b - a < cbufSize
    PROVE  a = b
  <1> DEFINE N == cbufSize
  <1> DEFINE qa == a \div N
  <1> DEFINE qb == b \div N
  <1>1. N \in Nat /\ N > 0
    BY SizeAssumption
  <1>2. a = N * qa + (a % N) /\ qa \in Nat /\ (a % N) \in Nat
    BY <1>1
  <1>3. b = N * qb + (b % N) /\ qb \in Nat /\ (b % N) \in Nat
    BY <1>1
  <1>4. a % N = b % N
    BY DEF Index
  <1> HIDE DEF N, qa, qb
  <1>5. b - a = N * (qb - qa)
    BY <1>1, <1>2, <1>3, <1>4
  <1>6. CASE qb > qa
    <2>1. qb - qa \in Nat /\ qb - qa >= 1
      BY <1>2, <1>3, <1>6
    <2>2. N * (qb - qa) >= N
      BY <1>1, <2>1
    <2> QED
      BY <1>1, <1>5, <2>2 DEF N
  <1>7. CASE qb < qa
    <2>1. qa - qb \in Nat /\ qa - qb >= 1
      BY <1>2, <1>3, <1>7
    <2>2. N * (qa - qb) >= N
      BY <1>1, <2>1
    <2>3. N * (qb - qa) = 0 - N * (qa - qb)
      BY <1>1, <1>2, <1>3
    <2> QED
      BY <1>1, <1>2, <1>3, <1>5, <2>2, <2>3
  <1>8. CASE qb = qa
    BY <1>1, <1>2, <1>3, <1>4, <1>8
  <1> QED
    BY <1>2, <1>3, <1>6, <1>7, <1>8

\* A set of numbers has a smallest element.
LEMMA SmallestNumber ==
    ASSUME NEW S, S \subseteq Nat, S # {}
    PROVE  \E i \in S : \A j \in S : i <= j
  <1>1. PICK i \in S : \A j \in S : ~ (<<j, i>> \in OpToRel(<, Nat))
    BY WFMin, NatLessThanWellFounded
  <1>2. \A j \in S : ~ (j < i)
    BY <1>1 DEF OpToRel
  <1> QED
    BY <1>2

\* rnext() answers a number above its argument and not above wnum.
LEMMA RnextAbove ==
    ASSUME TypeOK, NEW n \in Nat, n < wnum
    PROVE  rnext(n) \in Nat /\ n < rnext(n) /\ rnext(n) <= wnum
  <1>1. wnum \in Nat
    BY DEF TypeOK
  <1>2. CASE Later(n) = {}
    BY <1>1, <1>2 DEF rnext
  <1>3. CASE Later(n) # {}
    <2>1. Later(n) \subseteq (n + 1)..(wnum - 1) /\ Later(n) \subseteq Nat
      BY <1>1 DEF Later
    <2>2. \E i \in Later(n) : \A j \in Later(n) : i <= j
      BY <1>3, <2>1, SmallestNumber
    <2>3. rnext(n) \in Later(n)
      BY <1>3, <2>2 DEF rnext
    <2> QED
      BY <1>1, <2>1, <2>3
  <1> QED
    BY <1>2, <1>3

-----------------------------------------------------------------------------
(* Types                                                                   *)

\* A capped counter stays within its cap.
LEMMA AtMostType == \A n \in Nat : AtMost(n, MaxLost) \in 0..MaxLost
  BY LostAssumption DEF AtMost

\* Storing packets into slots keeps the type of the ring.
LEMMA MovedType ==
    ASSUME TypeOK, NEW p \in Packets
    PROVE  Moved(p) \in [0..(cbufSize - 1) -> [num : Nat, data : Data \cup {NoData}]]
  <1>1. p \in [num : Nat, data : Data \cup {NoData}]
    BY PacketsAssumption
  <1>2. [num |-> 0, data |-> p.data] \in [num : Nat, data : Data \cup {NoData}]
    BY <1>1
  <1> QED
    BY <1>1, <1>2 DEF TypeOK, Moved

\* receive() keeps the types: its three outcomes.
LEMMA ReceiveType ==
    ASSUME TypeOK, NEW p \in Packets, Receive(p)
    PROVE  TypeOK'
  <1> DEFINE Ring == [0..(cbufSize - 1) -> [num : Nat, data : Data \cup {NoData}]]
  <1>1. p \in [num : Nat, data : Data \cup {NoData}] /\ p.num \in Nat \ {0}
    BY PacketsAssumption
  <1>2. UNCHANGED <<lostExpired, pc, control, memory>>
    BY DEF Receive
  <1>o. overrun' \in BOOLEAN /\ stepped' \in BOOLEAN
    <2>1. CASE ReceiveDisagree(p)
      BY <2>1 DEF ReceiveDisagree
    <2>2. CASE ReceiveInOrder(p)
      BY <2>2, Zenon DEF ReceiveInOrder, TypeOK
    <2>3. CASE ReceiveOutOfOrder(p)
      BY <2>3, Zenon DEF ReceiveOutOfOrder, TypeOK
    <2> QED
      BY <2>1, <2>2, <2>3 DEF Receive
  <1>3. CASE ReceiveDisagree(p)
    <2>1. cbuf' \in Ring
      BY <1>3, MovedType DEF ReceiveDisagree
    <2>2. lostPackets + LostByResync(p) \in Nat
      BY <1>1, LostAssumption DEF TypeOK, LostByResync
    <2>3. lostPackets' \in 0..MaxLost
      BY <1>3, <2>2, AtMostType DEF ReceiveDisagree
    <2>4. rnum' \in Nat /\ wnum' \in Nat \ {0} /\ applied' \in Nat
      BY <1>1, <1>3 DEF ReceiveDisagree
    <2> QED
      BY <1>2, <1>o, <2>1, <2>3, <2>4 DEF TypeOK, control, memory
  <1>4. CASE ReceiveInOrder(p)
    <2>1. cbuf' \in Ring
      BY <1>1, <1>4 DEF ReceiveInOrder, TypeOK
    <2>2. rnum' \in Nat /\ wnum' \in Nat \ {0} /\ UNCHANGED <<lostPackets, applied>>
      BY <1>1, <1>4 DEF ReceiveInOrder, TypeOK
    <2> QED
      BY <1>2, <1>o, <2>1, <2>2 DEF TypeOK, control, memory
  <1>5. CASE ReceiveOutOfOrder(p)
    <2>1. cbuf' \in Ring
      BY <1>5, MovedType DEF ReceiveOutOfOrder
    <2>2. wnum' \in Nat \ {0} /\ UNCHANGED <<rnum, lostPackets, applied>>
      BY <1>1, <1>5 DEF ReceiveOutOfOrder, TypeOK
    <2> QED
      BY <1>2, <1>o, <2>1, <2>2 DEF TypeOK, control, memory
  <1> QED
    BY <1>3, <1>4, <1>5 DEF Receive

\* A turn of update() that consumes a packet keeps the types.
LEMMA ConsumesType ==
    ASSUME TypeOK, NEW ok \in BOOLEAN, UpdateConsumes(ok)
    PROVE  TypeOK'
  <1> DEFINE d == Slot(rnum).data
  <1>1. Index(rnum) \in 0..(cbufSize - 1)
    BY IndexType DEF TypeOK
  <1>2. d \in Data \cup {NoData}
    BY <1>1 DEF TypeOK, Slot
  <1>3. cache' \in Nat /\ sm' \in Data \cup {NoData} /\ own' \in BOOLEAN
    <2>1. CASE UNCHANGED memory
      BY <2>1 DEF TypeOK, memory
    <2>2. CASE Fresh(d) /\ cache' = CacheAfter(d, ok) /\ (sm' = IF ok THEN d ELSE sm) /\ own' = (ok \/ own)
      <3>1. d \in Data
        BY <1>2, <2>2 DEF Fresh
      <3>2. own' \in BOOLEAN
        BY <2>2, Zenon DEF TypeOK
      <3> QED
        BY <2>2, <3>1, <3>2, DataAssumption DEF CacheAfter, TypeOK
    <2> QED
      BY <2>1, <2>2 DEF UpdateConsumes
  <1>4. applied' \in Nat /\ rnum' \in Nat /\ lostExpired' \in BOOLEAN
    <2>1. rnum' \in Nat
      <3>1. rnum \in Nat /\ rnum' = rnum + 1
        BY DEF UpdateConsumes, TypeOK
      <3> QED
        BY <3>1
    <2>2. applied' \in Nat
      BY Zenon DEF UpdateConsumes, TypeOK
    <2>3. lostExpired' \in BOOLEAN
      BY Zenon DEF UpdateConsumes
    <2> QED
      BY <2>1, <2>2, <2>3
  <1>5. UNCHANGED <<cbuf, wnum, lostPackets, pc, control, overrun, stepped>>
    BY DEF UpdateConsumes
  <1> QED
    BY <1>3, <1>4, <1>5 DEF TypeOK, control

\* A turn of update() that skips a hole keeps the types.
LEMMA SkipsType ==
    ASSUME TypeOK, UpdateSkipsHole
    PROVE  TypeOK'
  <1>1. rnum \in Nat /\ wnum \in Nat /\ rnum < wnum
    BY DEF UpdateSkipsHole, Drained, TypeOK
  <1>2. rnum' \in Nat
    BY <1>1, RnextAbove DEF UpdateSkipsHole
  <1>3. Slot(rnum).num \in Nat
    BY <1>1, IndexType DEF TypeOK, Slot
  <1>4. lostPackets + (IF Slot(rnum).num > rnum THEN Slot(rnum).num - rnum ELSE 1) \in Nat
    BY <1>1, <1>3, LostAssumption DEF TypeOK
  <1>5. lostPackets' \in 0..MaxLost
    BY <1>4, AtMostType DEF UpdateSkipsHole
  <1>6. UNCHANGED <<cbuf, wnum, lostExpired, pc, control, memory, history>>
    BY DEF UpdateSkipsHole
  <1> QED
    BY <1>2, <1>5, <1>6 DEF TypeOK, control, memory, history

\* Every step keeps the types.
LEMMA NextType == TypeOK /\ [Next]_vars => TypeOK'
  <1> SUFFICES ASSUME TypeOK, [Next]_vars PROVE TypeOK'
    OBVIOUS
  <1>1. ASSUME NEW p \in Packets, Receive(p) PROVE TypeOK'
    BY <1>1, ReceiveType
  <1>2. ASSUME NEW p \in Junk, ReceiveBad(p) PROVE TypeOK'
    <2>1. p \in [num : Nat, data : Data \cup {NoData}]
      BY JunkAssumption
    <2> QED
      BY <1>2, <2>1 DEF TypeOK, ReceiveBad, control, memory, history
  <1>3. CASE UpdateEvent
    BY <1>3 DEF TypeOK, UpdateEvent, buffer, control, memory, history
  <1>4. CASE onForceUpdate
    <2>1. rnum' \in Nat
      <3>1. StepBack(rnum) \in Nat
        BY DEF StepBack, TypeOK
      <3> QED
        BY <1>4, <3>1, Zenon DEF onForceUpdate, TypeOK
    <2>2. cache' \in Nat
      BY <1>4 DEF onForceUpdate, TypeOK
    <2>3. /\ pc' \in {"idle", "event", "force"} /\ force' \in BOOLEAN
          /\ overrun' \in BOOLEAN /\ stepped' \in BOOLEAN
      BY <1>4, Zenon DEF onForceUpdate, TypeOK
    <2>4. UNCHANGED <<cbuf, wnum, lostPackets, lostExpired, lockUpdate, mode, trOnMode, sm, own, applied>>
      BY <1>4 DEF onForceUpdate
    <2> QED
      BY <2>1, <2>2, <2>3, <2>4 DEF TypeOK
  <1>5. CASE UpdateDrained \/ UpdateWaits
    <2>1. Leave
      BY <1>5 DEF UpdateDrained, UpdateWaits
    <2> QED
      BY <2>1 DEF TypeOK, Leave, ReadMode, buffer, memory, history
  <1>6. CASE UpdateSkipsHole
    BY <1>6, SkipsType
  <1>7. ASSUME NEW ok \in BOOLEAN, UpdateConsumes(ok) PROVE TypeOK'
    BY <1>7, ConsumesType
  <1>8. CASE LostTimeoutExpires
    BY <1>8 DEF TypeOK, LostTimeoutExpires, buffer, control, memory, history
  <1>9. CASE ForceUpdate
    BY <1>9 DEF TypeOK, ForceUpdate, buffer, memory, history
  <1>10. ASSUME NEW st \in BOOLEAN, setLockUpdate(st) PROVE TypeOK'
    BY <1>10 DEF TypeOK, setLockUpdate, buffer, memory, history
  <1>11. ASSUME NEW p \in Packets, OtherChannelWrites(p) PROVE TypeOK'
    BY <1>11, PacketsAssumption DEF TypeOK, OtherChannelWrites, buffer, control, history
  <1>12. CASE UNCHANGED vars
    BY <1>12 DEF TypeOK, vars, buffer, control, memory, history
  <1> QED
    BY <1>1, <1>2, <1>3, <1>4, <1>5, <1>6, <1>7, <1>8, <1>9, <1>10, <1>11, <1>12 DEF Next, Update

\* The initial state has the types.
LEMMA InitType == Init => TypeOK
  <1> SUFFICES ASSUME Init PROVE TypeOK
    OBVIOUS
  <1>1. cbuf \in [0..(cbufSize - 1) -> [num : Nat, data : Data \cup {NoData}]]
    BY DEF Init
  <1>2. /\ wnum \in Nat \ {0} /\ rnum \in Nat /\ applied \in Nat /\ cache \in Nat
        /\ lostPackets \in 0..MaxLost
    BY LostAssumption DEF Init
  <1>3. /\ lostExpired \in BOOLEAN /\ lockUpdate \in BOOLEAN
        /\ own \in BOOLEAN /\ overrun \in BOOLEAN /\ stepped \in BOOLEAN
        /\ mode \in BOOLEAN /\ trOnMode \in BOOLEAN /\ force \in BOOLEAN
        /\ pc \in {"idle", "event", "force"} /\ sm \in Data \cup {NoData}
    BY Zenon DEF Init
  <1> QED
    BY <1>1, <1>2, <1>3 DEF TypeOK

\* The state of the receiver keeps its types whatever the network, the
\* clock and the exchange do; in particular rnum-- never goes below 0.
THEOREM TypeCorrect == Spec => []TypeOK
  <1> QED
    BY InitType, NextType, PTL DEF Spec
-----------------------------------------------------------------------------
(* The window of the ring, and the slots                                   *)

\* Every step keeps the bound: only receive() takes the writer forward, and
\* not when the reader is already cbufSize - 2 behind.
LEMMA NextWindow == TypeOK /\ WindowBounded /\ [Next]_vars => WindowBounded'
  <1> SUFFICES ASSUME TypeOK, WindowBounded, [Next]_vars PROVE WindowBounded'
    OBVIOUS
  <1> USE DEF WindowBounded
  <1>t. /\ rnum \in Nat /\ wnum \in Nat
        /\ cbufSize \in Nat /\ maxDifferens \in Nat /\ cbufSize > 2
    BY SizeAssumption, DifferensAssumption DEF TypeOK
  <1>1. ASSUME NEW p \in Packets, Receive(p) PROVE WindowBounded'
    <2>1. p.num \in Nat /\ p.num > 0
      BY PacketsAssumption
    <2>2. CASE ReceiveDisagree(p)
      BY <1>t, <2>1, <2>2 DEF ReceiveDisagree
    <2>3. CASE ReceiveInOrder(p)
      BY <1>t, <2>1, <2>3 DEF ReceiveInOrder, Disagree, Distance
    <2>4. CASE ReceiveOutOfOrder(p)
      BY <1>t, <2>1, <2>4 DEF ReceiveOutOfOrder, Disagree, Distance
    <2> QED
      BY <1>1, <2>2, <2>3, <2>4 DEF Receive
  <1>2. CASE onForceUpdate
    <2>1. CASE NoPackets
      BY <1>2, <2>1 DEF onForceUpdate
    <2>2. CASE ~NoPackets
      <3>1. rnum' <= wnum' /\ stepped'
        BY <1>t, <1>2, <2>2 DEF onForceUpdate, StepBack
      <3> QED
        BY <3>1
    <2> QED
      BY <2>1, <2>2
  <1>3. CASE UpdateSkipsHole
    <2>1. rnum < wnum /\ wnum' = wnum /\ stepped' = stepped
      BY <1>t, <1>3 DEF UpdateSkipsHole, Drained, history
    <2>2. rnum' \in Nat /\ rnum < rnum' /\ rnum' <= wnum
      BY <1>t, <1>3, <2>1, RnextAbove DEF UpdateSkipsHole
    <2>3. \A r, s, w, n \in Nat : r < s /\ w - r <= n => w - s <= n
      OBVIOUS
    <2>4. cbufSize + maxDifferens - 2 \in Nat
      BY <1>t
    <2>5. wnum - rnum <= cbufSize + maxDifferens - 2 => wnum - rnum' <= cbufSize + maxDifferens - 2
      BY <1>t, <2>2, <2>3, <2>4
    <2> QED
      BY <2>1, <2>2, <2>5
  <1>4. ASSUME NEW ok \in BOOLEAN, UpdateConsumes(ok) PROVE WindowBounded'
    <2>1. rnum < wnum /\ rnum' = rnum + 1 /\ UNCHANGED <<wnum, stepped>>
      BY <1>t, <1>4 DEF UpdateConsumes, Drained
    <2> QED
      BY <1>t, <2>1
  <1>5. CASE UNCHANGED <<rnum, wnum, stepped>>
    BY <1>5
  <1>6. \A p \in Junk : ReceiveBad(p) => UNCHANGED <<rnum, wnum, stepped>>
    BY DEF ReceiveBad, history
  <1>7. UpdateDrained \/ UpdateWaits \/ UpdateEvent \/ LostTimeoutExpires \/ ForceUpdate \/ UNCHANGED vars
        => UNCHANGED <<rnum, wnum, stepped>>
    BY DEF UpdateDrained, UpdateWaits, Leave, UpdateEvent, LostTimeoutExpires, ForceUpdate, buffer, history, vars
  <1>8. /\ \A b \in BOOLEAN : setLockUpdate(b) => UNCHANGED <<rnum, wnum, stepped>>
        /\ \A p \in Packets : OtherChannelWrites(p) => UNCHANGED <<rnum, wnum, stepped>>
    BY DEF setLockUpdate, OtherChannelWrites, buffer, history
  <1> QED
    BY <1>1, <1>2, <1>3, <1>4, <1>5, <1>6, <1>7, <1>8 DEF Next, Update

\* However late update() is called, the reader is never ahead of the writer,
\* and, if no forced update took it back since the last resynchronisation,
\* never further behind it than cbufSize + maxDifferens - 2; for every ring
\* and every accepted distance, the smaller as well as the larger one.
THEOREM WindowCorrect == Spec => []WindowBounded
  <1>1. Init => WindowBounded
    BY SizeAssumption, DifferensAssumption DEF Init, WindowBounded
  <1> QED
    BY <1>1, InitType, NextType, NextWindow, PTL DEF Spec

\* Every step keeps the slots indexed by the numbers they hold.
LEMMA NextSlots == TypeOK /\ SlotsIndexed /\ [Next]_vars => SlotsIndexed'
  <1> SUFFICES ASSUME TypeOK, SlotsIndexed, [Next]_vars PROVE SlotsIndexed'
    OBVIOUS
  <1> DEFINE Ring == 0..(cbufSize - 1)
  <1>t. /\ cbuf \in [Ring -> [num : Nat, data : Data \cup {NoData}]]
        /\ wnum \in Nat /\ Index(wnum) \in Ring
    BY IndexType DEF TypeOK
  <1>1. ASSUME NEW p \in Packets, Receive(p) PROVE SlotsIndexed'
    <2>1. p.num \in Nat /\ Index(p.num) \in Ring
      BY PacketsAssumption, IndexType
    <2>2. \A i \in Ring : cbuf'[i].num # 0 => Index(cbuf'[i].num) = i
      <3>1. CASE cbuf' = Moved(p)
        BY <1>t, <2>1, <3>1 DEF Moved, SlotsIndexed
      <3>2. CASE p.num = wnum /\ cbuf' = [cbuf EXCEPT ![Index(wnum)] = p]
        BY <1>t, <2>1, <3>2 DEF SlotsIndexed
      <3> QED
        BY <1>1, <3>1, <3>2 DEF Receive, ReceiveDisagree, ReceiveInOrder, ReceiveOutOfOrder
    <2>3. \A i \in Ring : i # Index(wnum)' /\ cbuf'[i].num # 0 => Index(cbuf[i].num)' = i
      BY <2>2 DEF Index
    <2> QED
      BY <2>3 DEF SlotsIndexed
  <1>2. ASSUME NEW p \in Junk, ReceiveBad(p) PROVE SlotsIndexed'
    BY <1>t, <1>2 DEF ReceiveBad, SlotsIndexed, Index
  <1>3. CASE UNCHANGED <<cbuf, wnum>>
    BY <1>3 DEF SlotsIndexed, Index
  <1>4. Update \/ UpdateEvent \/ onForceUpdate \/ LostTimeoutExpires \/ ForceUpdate \/ UNCHANGED vars
        => UNCHANGED <<cbuf, wnum>>
    BY DEF Update, UpdateDrained, UpdateWaits, Leave, UpdateSkipsHole, UpdateConsumes, UpdateEvent,
           onForceUpdate, LostTimeoutExpires, ForceUpdate, buffer, vars
  <1>5. /\ \A b \in BOOLEAN : setLockUpdate(b) => UNCHANGED <<cbuf, wnum>>
        /\ \A p \in Packets : OtherChannelWrites(p) => UNCHANGED <<cbuf, wnum>>
    BY DEF setLockUpdate, OtherChannelWrites, buffer
  <1> QED
    BY <1>1, <1>2, <1>3, <1>4, <1>5 DEF Next

\* Outside the landing slot a packet lies in the slot of its number, whatever
\* arrives and however late update() is called.
THEOREM SlotsCorrect == Spec => []SlotsIndexed
  <1>1. Init => SlotsIndexed
    BY DEF Init, SlotsIndexed
  <1> QED
    BY <1>1, InitType, NextType, NextSlots, PTL DEF Spec
-----------------------------------------------------------------------------
(* While the window fits into the ring                                     *)

PacketData == {NoData} \cup {p.data : p \in Packets}

\* Only the landing slot may hold bytes of a rejected datagram.
BytesInv == \A i \in 0..(cbufSize - 1) : i # Index(wnum) => cbuf[i].data \in PacketData

\* What keeps repeated forced updates from walking back: at the number below
\* rnum the next turn of update() either finds the packet, and consumes it
\* again, or skips the hole at once because lostTimeout has expired.  While a
\* forced update is under way, the same holds for rnum itself.
RereadInv ==
    applied # 0 =>
        \/ /\ applied < rnum
           /\ Slot(rnum - 1).num = rnum - 1 \/ lostExpired
        \/ /\ pc # "idle"
           /\ applied <= rnum
           /\ rnum < wnum
           /\ Slot(rnum).num = rnum \/ lostExpired

\* Since the last resynchronisation the window has fitted into the ring, or
\* this is on record.
RingInv ==
    /\ TypeOK
    /\ WindowBounded
    /\ BytesInv
    /\ ~overrun => Timely /\ RereadInv

\* The packet below rnum and the packets not yet consumed are not in the
\* landing slot.
LEMMA LandingSlotFree ==
    ASSUME TypeOK, Timely, NEW n \in Nat, n < wnum, n + 1 >= rnum
    PROVE  Index(n) # Index(wnum)
  <1>1. /\ rnum \in Nat /\ wnum \in Nat /\ cbufSize \in Nat
        /\ wnum - rnum < cbufSize - 1
    BY SizeAssumption DEF TypeOK, Timely
  <1>2. n <= wnum /\ wnum - n < cbufSize /\ n # wnum
    BY <1>1
  <1> QED
    BY <1>1, <1>2, IndexInjective

\* What receive() does to the ring leaves the number below rnum in its slot.
LEMMA ReceiveKeepsReread ==
    ASSUME maxDifferens <= cbufSize, TypeOK, Timely, Timely', rnum <= wnum, rnum > 0,
           NEW p \in Packets, Receive(p), applied' # 0, Slot(rnum - 1).num = rnum - 1
    PROVE  rnum' = rnum /\ cbuf'[Index(rnum - 1)].num = rnum - 1
  <1> DEFINE n == rnum - 1
  <1>1. /\ rnum \in Nat /\ wnum \in Nat /\ n \in Nat /\ n < wnum /\ n + 1 >= rnum
        /\ cbufSize \in Nat /\ maxDifferens \in Nat /\ maxDifferens <= cbufSize
        /\ p.num \in Nat /\ p.num > 0 /\ wnum - rnum < cbufSize - 1
    BY SizeAssumption, DifferensAssumption, PacketsAssumption DEF TypeOK, Timely
  <1>2. Index(n) # Index(wnum) /\ Index(n) \in 0..(cbufSize - 1) /\ Index(p.num) \in 0..(cbufSize - 1)
    BY <1>1, LandingSlotFree, IndexType
  <1>3. /\ ~Disagree(p) /\ rnum' = rnum
        /\ wnum' = IF p.num >= wnum THEN p.num + 1 ELSE wnum
        /\ cbuf' = Moved(p) \/ cbuf' = [cbuf EXCEPT ![Index(wnum)] = p]
    BY <1>1 DEF Receive, ReceiveDisagree, ReceiveInOrder, ReceiveOutOfOrder
  <1>4. Index(p.num) = Index(n) => p.num = n
    <2> HAVE Index(p.num) = Index(n)
    <2>1. CASE p.num >= wnum
      <3>1. p.num + 1 - rnum < cbufSize - 1
        BY <1>1, <1>3, <2>1 DEF Timely
      <3>2. n <= p.num /\ p.num - n < cbufSize
        BY <1>1, <2>1, <3>1
      <3> HIDE DEF n
      <3> QED
        BY <1>1, <3>2, IndexInjective
    <2>2. CASE p.num < wnum
      <3>1. wnum - p.num <= maxDifferens
        BY <1>1, <1>3, <2>2 DEF Disagree, Distance
      <3>2. CASE p.num <= n
        <4>1. n - p.num < cbufSize
          BY <1>1, <3>1
        <4> HIDE DEF n
        <4> QED
          BY <1>1, <3>2, <4>1, IndexInjective
      <3>3. CASE p.num > n
        <4>1. n <= p.num /\ p.num - n < cbufSize
          BY <1>1, <2>2, <3>3
        <4> HIDE DEF n
        <4> QED
          BY <1>1, <4>1, IndexInjective
      <3> QED
        BY <1>1, <3>2, <3>3
    <2> QED
      BY <1>1, <2>1, <2>2
  <1>5. cbuf[Index(n)].num = n /\ cbuf \in [0..(cbufSize - 1) -> [num : Nat, data : Data \cup {NoData}]]
    BY DEF Slot, TypeOK
  <1> HIDE DEF n
  <1>6. cbuf'[Index(n)].num = n
    BY <1>2, <1>3, <1>4, <1>5 DEF Moved
  <1> QED
    BY <1>3, <1>6 DEF n

\* Every step keeps RereadInv.
LEMMA NextReread ==
    ASSUME maxDifferens <= cbufSize, TypeOK, rnum <= wnum, Timely, RereadInv, [Next]_vars, Timely'
    PROVE  RereadInv'
  <1>t. rnum \in Nat /\ wnum \in Nat /\ applied \in Nat /\ lostExpired \in BOOLEAN
    BY DEF TypeOK
  <1> SUFFICES ASSUME applied' # 0 PROVE RereadInv'
    BY DEF RereadInv
  <1>1. ASSUME NEW p \in Packets, Receive(p) PROVE RereadInv'
    <2>1. applied' = applied /\ pc = "idle" /\ pc' = pc /\ lostExpired' = lostExpired
      BY <1>1 DEF Receive, ReceiveDisagree, ReceiveInOrder, ReceiveOutOfOrder
    <2>2. applied < rnum /\ rnum > 0 /\ (Slot(rnum - 1).num = rnum - 1 \/ lostExpired)
      BY <1>t, <2>1 DEF RereadInv
    <2>3. rnum' = rnum
      BY <1>1, <2>2 DEF Receive, ReceiveDisagree, ReceiveInOrder, ReceiveOutOfOrder
    <2>4. CASE Slot(rnum - 1).num = rnum - 1
      <3>1. cbuf'[Index(rnum - 1)].num = rnum - 1
        BY <1>1, <2>2, <2>4, ReceiveKeepsReread
      <3> QED
        BY <2>1, <2>2, <2>3, <3>1 DEF RereadInv, Slot, Index
    <2>5. CASE lostExpired
      BY <2>1, <2>2, <2>3, <2>5 DEF RereadInv
    <2> QED
      BY <2>2, <2>4, <2>5
  <1>2. ASSUME NEW p \in Junk, ReceiveBad(p) PROVE RereadInv'
    <2>1. UNCHANGED <<wnum, rnum, applied, pc, lostExpired>> /\ pc = "idle"
      BY <1>2 DEF ReceiveBad, history
    <2>2. applied < rnum /\ (Slot(rnum - 1).num = rnum - 1 \/ lostExpired)
      BY <2>1 DEF RereadInv
    <2>3. rnum - 1 \in Nat /\ rnum - 1 < wnum /\ (rnum - 1) + 1 >= rnum
      BY <1>t, <2>2
    <2>4. Index(rnum - 1) # Index(wnum) /\ Index(rnum - 1) \in 0..(cbufSize - 1)
      BY <2>3, LandingSlotFree, IndexType
    <2>5. cbuf'[Index(rnum - 1)] = cbuf[Index(rnum - 1)]
      BY <1>2, <2>4 DEF ReceiveBad, TypeOK
    <2> QED
      BY <2>1, <2>2, <2>5 DEF RereadInv, Slot, Index
  <1>3. CASE onForceUpdate
    <2>1. UNCHANGED <<cbuf, wnum, applied, lostExpired>> /\ pc = "idle"
      BY <1>3 DEF onForceUpdate
    <2>2. applied < rnum /\ (Slot(rnum - 1).num = rnum - 1 \/ lostExpired)
      BY <2>1 DEF RereadInv
    <2>3. ~NoPackets
      BY <1>t, <2>2 DEF NoPackets
    <2>4. rnum' = rnum - 1 /\ pc' = "force"
      BY <1>t, <1>3, <2>2, <2>3 DEF onForceUpdate, StepBack
    <2>5. applied <= rnum - 1 /\ rnum - 1 < wnum
      BY <1>t, <2>2
    <2> QED
      BY <2>1, <2>2, <2>4, <2>5 DEF RereadInv, Slot, Index
  <1>4. CASE UpdateDrained \/ UpdateWaits
    <2>1. Leave /\ (Drained \/ (Hole /\ ~lostExpired))
      BY <1>4 DEF UpdateDrained, UpdateWaits
    <2>2. UNCHANGED <<cbuf, wnum, rnum, lostExpired, applied>>
      BY <2>1 DEF Leave, buffer, memory, history
    <2>3. applied < rnum /\ (Slot(rnum - 1).num = rnum - 1 \/ lostExpired)
      <3>1. Drained => rnum >= wnum \/ rnum = 0
        BY DEF Drained, NoPackets
      <3> QED
        BY <1>t, <2>1, <2>2, <3>1 DEF RereadInv, Hole
    <2> QED
      BY <2>2, <2>3 DEF RereadInv, Slot, Index
  <1>5. CASE UpdateSkipsHole
    <2>1. rnum < wnum /\ lostExpired /\ UNCHANGED <<lostExpired, applied>>
      BY <1>t, <1>5 DEF UpdateSkipsHole, Drained, memory, history
    <2>2. applied <= rnum
      BY <1>t, <2>1 DEF RereadInv
    <2>3. rnum' \in Nat /\ rnum < rnum'
      BY <1>t, <1>5, <2>1, RnextAbove DEF UpdateSkipsHole
    <2>4. applied' < rnum'
      BY <1>t, <2>1, <2>2, <2>3
    <2> QED
      BY <2>1, <2>4 DEF RereadInv
  <1>6. ASSUME NEW ok \in BOOLEAN, UpdateConsumes(ok) PROVE RereadInv'
    <2>1. cbuf' = cbuf /\ rnum' = rnum + 1 /\ Slot(rnum).num = rnum
      BY <1>6 DEF UpdateConsumes, Hole
    <2>2. applied' = applied \/ applied' = rnum
      BY <1>6, Zenon DEF UpdateConsumes
    <2>3. applied' <= rnum
      BY <1>t, <2>2 DEF RereadInv
    <2>4. applied' < rnum' /\ rnum' - 1 = rnum
      BY <1>t, <2>1, <2>2, <2>3
    <2> QED
      BY <2>1, <2>4 DEF RereadInv, Slot, Index
  <1>7. CASE UNCHANGED <<cbuf, wnum, rnum, applied>> /\ (pc = "idle" \/ pc' = pc) /\ (lostExpired => lostExpired')
    <2>1. Slot(rnum - 1)' = Slot(rnum - 1) /\ Slot(rnum)' = Slot(rnum)
      BY <1>7 DEF Slot, Index
    <2>2. rnum' = rnum /\ wnum' = wnum /\ applied' = applied /\ (rnum - 1)' = rnum - 1
      BY <1>7
    <2> QED
      BY <1>7, <2>1, <2>2, Zenon DEF RereadInv
  <1>8. UpdateEvent => UNCHANGED <<cbuf, wnum, rnum, applied>> /\ pc = "idle" /\ lostExpired' = lostExpired
    BY DEF UpdateEvent, buffer, memory, history
  <1>9. LostTimeoutExpires => UNCHANGED <<cbuf, wnum, rnum, applied>> /\ pc' = pc /\ lostExpired'
    BY DEF LostTimeoutExpires, buffer, memory, history
  <1>10. ForceUpdate \/ UNCHANGED vars
         => UNCHANGED <<cbuf, wnum, rnum, applied>> /\ pc' = pc /\ lostExpired' = lostExpired
    BY DEF ForceUpdate, buffer, memory, history, vars
  <1>11. \A b \in BOOLEAN : setLockUpdate(b)
            => UNCHANGED <<cbuf, wnum, rnum, applied>> /\ pc' = pc /\ lostExpired' = lostExpired
    BY DEF setLockUpdate, buffer, history
  <1>12. \A p \in Packets : OtherChannelWrites(p)
            => UNCHANGED <<cbuf, wnum, rnum, applied>> /\ pc' = pc /\ lostExpired' = lostExpired
    BY DEF OtherChannelWrites, buffer, history
  <1> QED
    BY <1>1, <1>2, <1>3, <1>4, <1>5, <1>6, <1>7, <1>8, <1>9, <1>10, <1>11, <1>12 DEF Next, Update

\* Every step keeps BytesInv.
LEMMA NextBytes ==
    ASSUME TypeOK, BytesInv, [Next]_vars
    PROVE  BytesInv'
  <1> DEFINE Ring == 0..(cbufSize - 1)
  <1>t. /\ cbuf \in [Ring -> [num : Nat, data : Data \cup {NoData}]]
        /\ rnum \in Nat /\ wnum \in Nat /\ Index(wnum) \in Ring
    BY IndexType DEF TypeOK
  <1>b. \A i \in Ring : i # Index(wnum) => cbuf[i].data \in PacketData
    BY DEF BytesInv
  <1>1. ASSUME NEW p \in Packets, Receive(p) PROVE BytesInv'
    <2>1. p.num \in Nat /\ Index(p.num) \in Ring /\ p.data \in PacketData
      BY PacketsAssumption, IndexType DEF PacketData
    <2>2. \A i \in Ring : cbuf'[i].data \in PacketData
      <3>1. CASE cbuf' = Moved(p)
        BY <1>t, <1>b, <2>1, <3>1 DEF Moved
      <3>2. CASE cbuf' = [cbuf EXCEPT ![Index(wnum)] = p]
        BY <1>t, <1>b, <2>1, <3>2
      <3> QED
        BY <1>1, <3>1, <3>2 DEF Receive, ReceiveDisagree, ReceiveInOrder, ReceiveOutOfOrder
    <2> QED
      BY <2>2 DEF BytesInv, PacketData
  <1>2. ASSUME NEW p \in Junk, ReceiveBad(p) PROVE BytesInv'
    <2>1. cbuf' = [cbuf EXCEPT ![Index(wnum)] = p] /\ wnum' = wnum
      BY <1>2 DEF ReceiveBad
    <2> QED
      BY <1>t, <1>b, <2>1 DEF BytesInv, PacketData, Index
  <1>3. CASE UNCHANGED <<cbuf, wnum>>
    BY <1>3 DEF BytesInv, PacketData, Index
  <1>4. Update \/ UpdateEvent \/ onForceUpdate \/ LostTimeoutExpires \/ ForceUpdate \/ UNCHANGED vars
        => UNCHANGED <<cbuf, wnum>>
    BY DEF Update, UpdateDrained, UpdateWaits, Leave, UpdateSkipsHole, UpdateConsumes, UpdateEvent,
           onForceUpdate, LostTimeoutExpires, ForceUpdate, buffer, vars
  <1>5. /\ \A b \in BOOLEAN : setLockUpdate(b) => UNCHANGED <<cbuf, wnum>>
        /\ \A p \in Packets : OtherChannelWrites(p) => UNCHANGED <<cbuf, wnum>>
    BY DEF setLockUpdate, OtherChannelWrites, buffer
  <1> QED
    BY <1>1, <1>2, <1>3, <1>4, <1>5 DEF Next

\* The initial state satisfies the invariant.
LEMMA InitRing == Init => RingInv
  <1> SUFFICES ASSUME Init PROVE RingInv
    OBVIOUS
  <1>1. WindowBounded /\ Timely
    BY SizeAssumption, DifferensAssumption DEF Init, Timely, WindowBounded
  <1>2. BytesInv
    BY DEF Init, BytesInv, PacketData
  <1>3. RereadInv
    BY DEF Init, RereadInv
  <1> QED
    BY <1>1, <1>2, <1>3, InitType DEF RingInv

\* The record is complete: a window that fitted and is not on record after a
\* step fits after it, and only a resynchronisation clears the record.
LEMMA OverrunRecorded ==
    ASSUME TypeOK, WindowBounded, ~overrun => Timely, [Next]_vars, ~overrun'
    PROVE  Timely' /\ (~overrun \/ applied' = 0)
  <1>t. rnum \in Nat /\ wnum \in Nat /\ rnum <= wnum /\ cbufSize \in Nat /\ cbufSize > 2
    BY SizeAssumption DEF TypeOK, WindowBounded
  <1>1. ASSUME NEW p \in Packets, Receive(p) PROVE Timely' /\ (~overrun \/ applied' = 0)
    <2>1. p.num \in Nat
      BY PacketsAssumption
    <2>2. CASE ReceiveDisagree(p)
      <3>1. wnum' - rnum' = 1 /\ applied' = 0
        BY <2>1, <2>2 DEF ReceiveDisagree
      <3> QED
        BY <1>t, <3>1 DEF Timely
    <2>3. CASE ReceiveInOrder(p) \/ ReceiveOutOfOrder(p)
      BY <2>3 DEF ReceiveInOrder, ReceiveOutOfOrder
    <2> QED
      BY <1>1, <2>2, <2>3 DEF Receive
  <1>2. CASE onForceUpdate
    <2>1. CASE NoPackets
      BY <1>2, <2>1 DEF onForceUpdate, Timely
    <2>2. CASE ~NoPackets
      BY <1>2, <2>2 DEF onForceUpdate
    <2> QED
      BY <2>1, <2>2
  <1>3. CASE UpdateSkipsHole
    <2>1. rnum < wnum /\ rnum' = rnext(rnum) /\ wnum' = wnum /\ overrun' = overrun
      BY <1>t, <1>3 DEF UpdateSkipsHole, Drained, history
    <2>2. rnum' \in Nat /\ rnum < rnum'
      BY <1>t, <2>1, RnextAbove
    <2>3. \A r, q, w, n \in Nat : r < q /\ w - r < n - 1 => w - q < n - 1
      OBVIOUS
    <2> QED
      BY <1>t, <2>1, <2>2, <2>3 DEF Timely
  <1>4. ASSUME NEW ok \in BOOLEAN, UpdateConsumes(ok) PROVE Timely' /\ ~overrun
    <2>1. rnum' = rnum + 1 /\ wnum' = wnum /\ overrun' = overrun
      BY <1>4 DEF UpdateConsumes
    <2> QED
      BY <1>t, <2>1 DEF Timely
  <1>5. CASE UNCHANGED <<rnum, wnum, overrun>>
    BY <1>5 DEF Timely
  <1>6. \A p \in Junk : ReceiveBad(p) => UNCHANGED <<rnum, wnum, overrun>>
    BY DEF ReceiveBad, history
  <1>7. UpdateDrained \/ UpdateWaits \/ UpdateEvent \/ LostTimeoutExpires \/ ForceUpdate \/ UNCHANGED vars
        => UNCHANGED <<rnum, wnum, overrun>>
    BY DEF UpdateDrained, UpdateWaits, Leave, UpdateEvent, LostTimeoutExpires, ForceUpdate, buffer, history, vars
  <1>8. /\ \A b \in BOOLEAN : setLockUpdate(b) => UNCHANGED <<rnum, wnum, overrun>>
        /\ \A p \in Packets : OtherChannelWrites(p) => UNCHANGED <<rnum, wnum, overrun>>
    BY DEF setLockUpdate, OtherChannelWrites, buffer, history
  <1> QED
    BY <1>1, <1>2, <1>3, <1>4, <1>5, <1>6, <1>7, <1>8 DEF Next, Update

\* Every step keeps the invariant.
LEMMA NextRing ==
    ASSUME maxDifferens <= cbufSize, RingInv, [Next]_vars
    PROVE  RingInv'
  <1>1. TypeOK /\ WindowBounded /\ BytesInv /\ (~overrun => Timely /\ RereadInv)
    BY DEF RingInv
  <1>2. TypeOK' /\ WindowBounded' /\ BytesInv'
    BY <1>1, NextType, NextWindow, NextBytes
  <1>3. ASSUME ~overrun' PROVE Timely' /\ RereadInv'
    <2>1. Timely' /\ (~overrun \/ applied' = 0)
      BY <1>1, <1>3, OverrunRecorded
    <2>2. CASE applied' = 0
      BY <2>1, <2>2 DEF RereadInv
    <2>3. CASE ~overrun
      <3>1. Timely /\ RereadInv /\ rnum <= wnum
        BY <1>1, <2>3 DEF WindowBounded
      <3> QED
        BY <1>1, <2>1, <3>1, NextReread
    <2> QED
      BY <2>1, <2>2, <2>3
  <1> QED
    BY <1>2, <1>3 DEF RingInv

\* Under the invariant no step writes a packet older than the last one.
LEMMA StepNeverRegresses ==
    ASSUME RingInv, [Next]_vars, ~overrun
    PROVE  applied' = 0 \/ applied' >= applied
  <1>t. rnum \in Nat /\ applied \in Nat /\ RereadInv
    BY DEF RingInv, TypeOK
  <1>1. ASSUME NEW ok \in BOOLEAN, UpdateConsumes(ok) PROVE applied' >= applied
    <2>1. applied' = applied \/ applied' = rnum
      BY <1>1, Zenon DEF UpdateConsumes
    <2>2. applied <= rnum
      BY <1>t DEF RereadInv
    <2> QED
      BY <1>t, <2>1, <2>2
  <1>2. ASSUME NEW p \in Packets, Receive(p) PROVE applied' = 0 \/ applied' = applied
    BY <1>2 DEF Receive, ReceiveDisagree, ReceiveInOrder, ReceiveOutOfOrder
  <1>3. \A p \in Junk : ReceiveBad(p) => applied' = applied
    BY DEF ReceiveBad, history
  <1>4. UpdateDrained \/ UpdateWaits \/ UpdateSkipsHole \/ UpdateEvent \/ onForceUpdate
        \/ LostTimeoutExpires \/ ForceUpdate \/ UNCHANGED vars => applied' = applied
    BY DEF UpdateDrained, UpdateWaits, Leave, UpdateSkipsHole, UpdateEvent,
           onForceUpdate, LostTimeoutExpires, ForceUpdate, history, vars
  <1>5. /\ \A b \in BOOLEAN : setLockUpdate(b) => applied' = applied
        /\ \A p \in Packets : OtherChannelWrites(p) => applied' = applied
    BY DEF setLockUpdate, OtherChannelWrites, history
  <1>6. applied' = 0 \/ applied' = applied \/ applied' >= applied
    BY <1>1, <1>2, <1>3, <1>4, <1>5 DEF Next, Update
  <1> QED
    BY <1>t, <1>6

\* Until the window outgrows the ring, SM is never written from a packet
\* older than one already written since the last resynchronisation, whatever
\* the network, the forced updates, the mode and the locks do.  The accepted
\* distance may be as large as the ring, which is what UNetExchange installs.
THEOREM NeverRegressesCorrect ==
    ASSUME maxDifferens <= cbufSize
    PROVE  Spec => NeverRegresses
  <1>1. RingInv /\ [Next]_vars => RingInv'
    BY NextRing
  <1>2. RingInv /\ [Next]_vars => [~overrun => applied' = 0 \/ applied' >= applied]_vars
    BY StepNeverRegresses
  <1> QED
    BY <1>1, <1>2, InitRing, PTL DEF Spec, NeverRegresses

\* What a step writes to SM while the window fits into the ring.
LEMMA StepWritesPackets ==
    ASSUME TypeOK, WindowBounded, BytesInv, [Next]_vars, Timely
    PROVE  sm' \in {sm} \cup {p.data : p \in Packets}
  <1>t. rnum \in Nat /\ wnum \in Nat
    BY DEF TypeOK
  <1>1. ASSUME NEW ok \in BOOLEAN, UpdateConsumes(ok) PROVE sm' \in {sm} \cup {p.data : p \in Packets}
    <2>1. rnum < wnum /\ rnum + 1 >= rnum
      BY <1>t, <1>1 DEF UpdateConsumes, Drained
    <2>2. Index(rnum) # Index(wnum) /\ Index(rnum) \in 0..(cbufSize - 1)
      BY <1>t, <2>1, LandingSlotFree, IndexType
    <2>3. Slot(rnum).data \in PacketData
      BY <2>2 DEF Slot, BytesInv
    <2>4. sm' = sm \/ (sm' = Slot(rnum).data /\ Fresh(Slot(rnum).data))
      BY <1>1, Zenon DEF UpdateConsumes, memory
    <2> QED
      BY <2>3, <2>4 DEF PacketData, Fresh
  <1>2. ASSUME NEW p \in Packets, OtherChannelWrites(p) PROVE sm' \in {q.data : q \in Packets}
    BY <1>2 DEF OtherChannelWrites
  <1>3. /\ \A p \in Packets : Receive(p) => sm' = sm
        /\ \A p \in Junk : ReceiveBad(p) => sm' = sm
        /\ \A b \in BOOLEAN : setLockUpdate(b) => sm' = sm
    BY DEF Receive, ReceiveBad, setLockUpdate, memory
  <1>4. UpdateDrained \/ UpdateWaits \/ UpdateSkipsHole \/ UpdateEvent \/ onForceUpdate
        \/ LostTimeoutExpires \/ ForceUpdate \/ UNCHANGED vars => sm' = sm
    BY DEF UpdateDrained, UpdateWaits, Leave, UpdateSkipsHole, UpdateEvent,
           onForceUpdate, LostTimeoutExpires, ForceUpdate, memory, vars
  <1> QED
    BY <1>1, <1>2, <1>3, <1>4 DEF Next, Update

\* While the window fits into the ring, the bytes of rejected datagrams do
\* not reach SM, for every ring and every accepted distance.
THEOREM JunkCorrect == Spec => JunkNeverWritten
  <1>1. Init => BytesInv /\ TypeOK /\ WindowBounded
    BY InitRing DEF RingInv
  <1>2. BytesInv /\ TypeOK /\ WindowBounded /\ [Next]_vars => (BytesInv /\ TypeOK /\ WindowBounded)'
    BY NextBytes, NextType, NextWindow
  <1>3. BytesInv /\ TypeOK /\ WindowBounded /\ [Next]_vars
           => [Timely => sm' \in {sm} \cup {p.data : p \in Packets}]_vars
    BY StepWritesPackets
  <1> QED
    BY <1>1, <1>2, <1>3, PTL DEF Spec, JunkNeverWritten

-----------------------------------------------------------------------------
(* The checksum cache                                                      *)

\* Every step keeps the cache truthful.
LEMMA NextCache == TypeOK /\ CacheTruthful /\ [Next]_vars => CacheTruthful'
  <1> SUFFICES ASSUME TypeOK, CacheTruthful, [Next]_vars PROVE CacheTruthful'
    OBVIOUS
  <1>1. ASSUME NEW ok \in BOOLEAN, UpdateConsumes(ok) PROVE CacheTruthful'
    <2> DEFINE d == Slot(rnum).data
    <2>1. CASE UNCHANGED memory
      BY <2>1 DEF CacheTruthful, memory
    <2>2. CASE Fresh(d) /\ cache' = CacheAfter(d, ok) /\ (sm' = IF ok THEN d ELSE sm)
      BY <2>2 DEF Fresh, CacheAfter, CacheTruthful
    <2> QED
      BY <1>1, <2>1, <2>2 DEF UpdateConsumes
  <1>2. CASE onForceUpdate
    <2>1. sm' = sm /\ own' = own /\ (cache' = cache \/ cache' = 0)
      BY <1>2, Zenon DEF onForceUpdate
    <2> QED
      BY <2>1 DEF CacheTruthful
  <1>3. CASE UNCHANGED memory
    BY <1>3 DEF CacheTruthful, memory
  <1>4. /\ \A p \in Packets : Receive(p) => UNCHANGED memory
        /\ \A p \in Junk : ReceiveBad(p) => UNCHANGED memory
    BY DEF Receive, ReceiveBad
  <1>5. UpdateDrained \/ UpdateWaits \/ UpdateSkipsHole \/ UpdateEvent
        \/ LostTimeoutExpires \/ ForceUpdate \/ UNCHANGED vars => UNCHANGED memory
    BY DEF UpdateDrained, UpdateWaits, Leave, UpdateSkipsHole, UpdateEvent,
           LostTimeoutExpires, ForceUpdate, vars
  <1>6. \A b \in BOOLEAN : setLockUpdate(b) => UNCHANGED memory
    BY DEF setLockUpdate
  <1>7. ASSUME NEW p \in Packets, OtherChannelWrites(p) PROVE CacheTruthful'
    BY <1>7 DEF OtherChannelWrites, CacheTruthful
  <1> QED
    BY <1>1, <1>2, <1>3, <1>4, <1>5, <1>6, <1>7 DEF Next, Update

\* Until the other channel writes, the checksum that suppresses writing is
\* that of the data SM holds, after failed writes, forced updates and times
\* as the passive channel too.
THEOREM CacheCorrect == Spec => []CacheTruthful
  <1>1. Init => CacheTruthful
    BY DEF Init, CacheTruthful
  <1> QED
    BY <1>1, InitType, NextType, NextCache, PTL DEF Spec
=============================================================================
