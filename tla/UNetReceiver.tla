---------------------------- MODULE UNetReceiver ----------------------------
(***************************************************************************)
(* The receiving end of the UNet protocol (extensions/UNetUDP/UNetReceiver)*)
(*                                                                         *)
(* Datagrams carry a number.  They are put into a ring buffer at the index *)
(* their number gives; update() hands them to the shared memory (SM) in    *)
(* the order of their numbers, waits lostTimeout at a hole, and then skips *)
(* it.  A number too far from the expected one, or a buffer that is nearly *)
(* full, makes receive() resynchronise ("DISAGREE").                       *)
(*                                                                         *)
(* All handlers run in one event loop, so a handler is never interleaved   *)
(* with another one.  update() is a loop; each turn is one step here, with *)
(* pc telling which handler called it, because the timer it polls may      *)
(* expire between two turns.                                               *)
(*                                                                         *)
(* The network is unconstrained: any packet of Packets may arrive at any   *)
(* time, any number of times, in any order, or never.                      *)
(***************************************************************************)
EXTENDS Naturals

CONSTANTS
    cbufSize,      \* size of the ring buffer (100 in the code)
    maxDifferens,  \* largest accepted distance from the expected number (20;
                   \* UNetExchange sets both to 100)
    Data,          \* contents of a packet (the values of all its sensors)
    NoData,        \* what SM and an untouched slot hold before any packet
    Crc,           \* the checksum the sender puts in the header, [Data -> Nat]
    Packets,       \* UNet packets the network may deliver
    Junk,          \* datagrams that are not UNet packets, as the header reads
    Requests,      \* what else happens: forced updates, the two-channel
                   \* exchange locking the receiver, a mode sensor (sidMode)
    MaxLost        \* bound of the model: cap of the lost packets counter

ASSUME SizeAssumption == cbufSize \in Nat /\ cbufSize > 2
ASSUME DifferensAssumption == maxDifferens \in Nat
ASSUME DataAssumption == NoData \notin Data /\ Crc \in [Data -> Nat]
ASSUME PacketsAssumption == Packets \subseteq [num : Nat \ {0}, data : Data]
ASSUME JunkAssumption == Junk \subseteq [num : Nat, data : Data]
ASSUME RequestsAssumption == Requests \subseteq {"force", "lock", "mode"}
ASSUME LostAssumption == MaxLost \in Nat

VARIABLES
    cbuf,        \* the ring buffer: slot -> [num, data], num = 0 for "empty"
    wnum,        \* number of the next expected packet
    rnum,        \* number of the next packet to hand to SM
    lostPackets, \* counter of lost packets (capped at MaxLost)
    lostExpired, \* ptLostTimeout.checkTime()
    pc,          \* "idle", or the handler that is inside update()
    lockUpdate,  \* passive channel: packets are consumed, SM is not written
    mode,        \* sidMode as read last: TRUE for mEnabled
    trOnMode,    \* Trigger on "mode became mEnabled"
    force,       \* an evForceUpdate.send() is outstanding
    cache,       \* crc of the data last written to SM, 0 for none
    sm,          \* what the sensors of the packet hold in SM
    own,         \* history: this receiver was the last to write them
    applied,     \* history: number last written since the last resync, or 0
    overrun,     \* history: ~Timely at some moment since the last resync
    stepped      \* history: a forced update took rnum back since then

buffer == <<cbuf, wnum, rnum, lostPackets>>
control == <<lockUpdate, mode, trOnMode, force>>
memory == <<cache, sm, own>>
history == <<applied, overrun, stepped>>
vars == <<buffer, lostExpired, pc, control, memory, history>>

-----------------------------------------------------------------------------
(* Ring buffer                                                             *)

Index(n) == n % cbufSize

Slot(n) == cbuf[Index(n)]

Distance(a, b) == IF a >= b THEN a - b ELSE b - a

AtMost(n, max) == IF n > max THEN max ELSE n

NoPackets == wnum = 1 /\ rnum = 0

\* The ring has a slot of its own for each number that is not consumed yet,
\* for the one below them, which a forced update reads again, and for the
\* datagram to come.  Nothing in receive() guarantees it: an accepted jump
\* may take wnum further, by one jump when maxDifferens is not smaller than
\* the ring (the 100 and 100 of UNetExchange), by several when update() is
\* late.
Timely == wnum - rnum < cbufSize - 1

\* Numbers rnext looks at, and the one it returns: the first slot after num
\* with a number above num -- not necessarily that slot's own number.
Later(num) == {i \in (num + 1)..(wnum - 1) : Slot(i).num > num}

rnext(num) ==
    IF Later(num) = {} THEN wnum
    ELSE CHOOSE i \in Later(num) : \A j \in Later(num) : i <= j

-----------------------------------------------------------------------------
Init ==
    /\ cbuf = [i \in 0..(cbufSize - 1) |-> [num |-> 0, data |-> NoData]]
    /\ wnum = 1
    /\ rnum = 0
    /\ lostPackets = 0
    /\ lostExpired = FALSE
    /\ pc = "idle"
    /\ lockUpdate = FALSE
    /\ mode = TRUE
    /\ trOnMode = FALSE
    /\ force = FALSE
    /\ cache = 0
    /\ sm = NoData
    /\ own = FALSE
    /\ applied = 0
    /\ overrun = FALSE
    /\ stepped = FALSE

-----------------------------------------------------------------------------
(* receive()                                                               *)

\* Mutant: a number from the past is out of range.
DisagreeBehind(p) ==
    \/ p.num < wnum
    \/ Distance(p.num, wnum) > maxDifferens
    \/ Distance(wnum, rnum) >= cbufSize - 2

\* Mutant: the buffer is never full.
DisagreeFar(p) == Distance(p.num, wnum) > maxDifferens

Disagree(p) ==
    \/ Distance(p.num, wnum) > maxDifferens
    \/ Distance(wnum, rnum) >= cbufSize - 2

\* Mutant: the number in the first slot is not zeroed.
MovedTwice(p) ==
    [cbuf EXCEPT ![Index(p.num)] = p, ![Index(wnum)] = p]

\* The datagram is read into the slot of the expected number, copied to its
\* own slot, and the number in the first slot is zeroed.  When the two slots
\* are the same one, that zeroes the packet itself.
Moved(p) ==
    [cbuf EXCEPT ![Index(p.num)] = p,
                 ![Index(wnum)] = [num |-> 0, data |-> p.data]]

\* Mutant: a number from the past is not told apart.
LostSigned(p) == p.num - wnum - 1

\* What a resynchronisation counts as lost.
LostByResync(p) == IF p.num > wnum THEN p.num - wnum - 1 ELSE 1

\* The number is out of range or the buffer is full: start again from it.
ReceiveDisagree(p) ==
    /\ Disagree(p)
    /\ lostPackets' = AtMost(lostPackets + LostByResync(p), MaxLost)
    /\ rnum' = p.num
    /\ wnum' = p.num + 1
    /\ cbuf' = Moved(p)
    /\ applied' = 0
    /\ overrun' = FALSE
    /\ stepped' = FALSE

ReceiveInOrder(p) ==
    /\ ~Disagree(p)
    /\ p.num = wnum
    /\ cbuf' = [cbuf EXCEPT ![Index(wnum)] = p]
    /\ wnum' = wnum + 1
    /\ rnum' = IF rnum = 0 THEN p.num ELSE rnum
    /\ overrun' = (overrun \/ ~Timely')
    /\ UNCHANGED <<lostPackets, applied, stepped>>

\* rnum = 0 would be set to the number left in the first slot, which is 0.
ReceiveOutOfOrder(p) ==
    /\ ~Disagree(p)
    /\ p.num # wnum
    /\ cbuf' = Moved(p)
    /\ wnum' = IF p.num >= wnum THEN p.num + 1 ELSE wnum
    /\ rnum' = rnum
    /\ overrun' = (overrun \/ ~Timely')
    /\ UNCHANGED <<lostPackets, applied, stepped>>

Receive(p) ==
    /\ pc = "idle"
    /\ \/ ReceiveDisagree(p)
       \/ ReceiveInOrder(p)
       \/ ReceiveOutOfOrder(p)
    /\ UNCHANGED <<lostExpired, pc, control, memory>>

\* Mutant: such a datagram is counted as a packet.
ReceiveBadCounted(p) ==
    /\ pc = "idle"
    /\ cbuf' = [cbuf EXCEPT ![Index(wnum)] = p]
    /\ wnum' = wnum + 1
    /\ UNCHANGED <<rnum, lostPackets, lostExpired, pc, control, memory, history>>

\* A datagram that is not a UNet packet (isOk() fails): its bytes stay in
\* the slot of the expected number.
ReceiveBad(p) ==
    /\ pc = "idle"
    /\ cbuf' = [cbuf EXCEPT ![Index(wnum)] = p]
    /\ UNCHANGED <<wnum, rnum, lostPackets, lostExpired, pc, control, memory, history>>

-----------------------------------------------------------------------------
(* update(), called by updateEvent() and by onForceUpdate()                *)

\* What updateEvent() does after update(): read the mode sensor, which others
\* set as they like, and, when the exchange has just been enabled, ask for a
\* forced update.
ReadMode(sensor) ==
    /\ mode' = sensor
    /\ trOnMode' = sensor
    /\ force' = (force \/ (sensor /\ ~trOnMode))

Leave ==
    /\ pc' = "idle"
    /\ IF pc = "event" /\ "mode" \in Requests
       THEN \E sensor \in BOOLEAN : ReadMode(sensor)
       ELSE UNCHANGED <<mode, trOnMode, force>>
    /\ UNCHANGED <<buffer, lostExpired, lockUpdate, memory, history>>

UpdateEvent ==
    /\ pc = "idle"
    /\ pc' = "event"
    /\ UNCHANGED <<buffer, lostExpired, control, memory, history>>

\* start() on an active receiver (UNetExchange's reaction to WatchDog) calls
\* forceUpdate().
ForceUpdate ==
    /\ force' = TRUE
    /\ UNCHANGED <<buffer, lostExpired, pc, lockUpdate, mode, trOnMode, memory, history>>

\* Mutant: two packets back.
StepTwoBack(n) == IF n > 1 THEN n - 2 ELSE n

\* The last consumed packet is to be consumed once more.
StepBack(n) == IF n > 0 THEN n - 1 ELSE n

onForceUpdate ==
    /\ pc = "idle"
    /\ force
    /\ force' = FALSE
    /\ UNCHANGED <<cbuf, wnum, lostPackets, lostExpired, lockUpdate, mode, trOnMode, sm, own, applied>>
    /\ IF NoPackets
       THEN UNCHANGED <<rnum, cache, pc, overrun, stepped>>
       ELSE /\ cache' = 0
            /\ rnum' = StepBack(rnum)
            /\ pc' = "force"
            /\ overrun' = (overrun \/ ~Timely')
            /\ stepped' = TRUE

Drained == NoPackets \/ rnum >= wnum

Hole == Slot(rnum).num # rnum

UpdateDrained ==
    /\ pc # "idle"
    /\ Drained
    /\ Leave

UpdateWaits ==
    /\ pc # "idle"
    /\ ~Drained
    /\ Hole
    /\ ~lostExpired
    /\ Leave

UpdateSkipsHole ==
    /\ pc # "idle"
    /\ ~Drained
    /\ Hole
    /\ lostExpired
    /\ LET sub == IF Slot(rnum).num > rnum THEN Slot(rnum).num - rnum ELSE 1
       IN  lostPackets' = AtMost(lostPackets + sub, MaxLost)
    /\ rnum' = rnext(rnum)
    /\ UNCHANGED <<cbuf, wnum, lostExpired, pc, control, memory, history>>

\* Data not yet in SM, by the checksum remembered with it.  The packet of an
\* untouched slot has no items, hence nothing to write.
Fresh(d) == d # NoData /\ (Crc[d] = 0 \/ cache # Crc[d])

\* Mutant: the checksum is remembered whether or not the data was written.
CacheAlways(d, ok) == Crc[d]

\* localSetValue() may throw (ok is FALSE): the checksum is forgotten, so
\* that the next packet is written.
CacheAfter(d, ok) == IF ok THEN Crc[d] ELSE 0

\* One turn that consumes packet rnum.
UpdateConsumes(ok) ==
    /\ pc # "idle"
    /\ ~Drained
    /\ ~Hole
    /\ lostExpired' = FALSE
    /\ rnum' = rnum + 1
    /\ LET d == Slot(rnum).data
       IN  IF lockUpdate \/ ~mode \/ ~Fresh(d)
           THEN UNCHANGED memory
           ELSE /\ cache' = CacheAfter(d, ok)
                /\ sm' = IF ok THEN d ELSE sm
                /\ own' = (ok \/ own)
    /\ applied' = IF lockUpdate \/ ~mode THEN applied ELSE rnum
    /\ UNCHANGED <<cbuf, wnum, lostPackets, pc, control, overrun, stepped>>

-----------------------------------------------------------------------------
(* The environment of the receiver                                         *)

\* lostTimeout has passed since the last consumed packet.
LostTimeoutExpires ==
    /\ ~lostExpired
    /\ lostExpired' = TRUE
    /\ UNCHANGED <<buffer, pc, control, memory, history>>

\* UNetExchange::receiverEvent, called from this event loop.
setLockUpdate(st) ==
    /\ pc = "idle"
    /\ lockUpdate' = st
    /\ UNCHANGED <<buffer, lostExpired, pc, mode, trOnMode, force, memory, history>>

\* The receiver of the other channel writes the same sensors while this one
\* is passive; it has a checksum of its own.
OtherChannelWrites(p) ==
    /\ lockUpdate
    /\ pc = "idle"
    /\ sm' = p.data
    /\ own' = FALSE
    /\ UNCHANGED <<buffer, lostExpired, pc, control, cache, history>>

Update ==
    \/ UpdateDrained
    \/ UpdateWaits
    \/ UpdateSkipsHole
    \/ \E ok \in BOOLEAN : UpdateConsumes(ok)

Next ==
    \/ \E p \in Packets : Receive(p)
    \/ \E p \in Junk : ReceiveBad(p)
    \/ UpdateEvent
    \/ onForceUpdate
    \/ Update
    \/ LostTimeoutExpires
    \/ "force" \in Requests /\ ForceUpdate
    \/ "lock" \in Requests /\ \E st \in BOOLEAN : setLockUpdate(st)
    \/ "lock" \in Requests /\ \E p \in Packets : OtherChannelWrites(p)

Spec == Init /\ [][Next]_vars

-----------------------------------------------------------------------------
(* Properties                                                              *)

\* Types of the receiver's state.
TypeOK ==
    /\ cbuf \in [0..(cbufSize - 1) -> [num : Nat, data : Data \cup {NoData}]]
    /\ wnum \in Nat \ {0}
    /\ rnum \in Nat
    /\ lostPackets \in 0..MaxLost
    /\ lostExpired \in BOOLEAN
    /\ pc \in {"idle", "event", "force"}
    /\ lockUpdate \in BOOLEAN
    /\ mode \in BOOLEAN
    /\ trOnMode \in BOOLEAN
    /\ force \in BOOLEAN
    /\ cache \in Nat
    /\ sm \in Data \cup {NoData}
    /\ own \in BOOLEAN
    /\ applied \in Nat
    /\ overrun \in BOOLEAN
    /\ stepped \in BOOLEAN

\* Whatever the network does and however late update() is called, the reader
\* never passes the writer; and unless a forced update took it back since the
\* last resynchronisation, it never lags further than one accepted jump
\* beyond the fullness check of receive() -- which is more than the ring
\* holds as soon as maxDifferens > 2.
WindowBounded ==
    /\ rnum <= wnum
    /\ ~stepped => wnum - rnum <= cbufSize + maxDifferens - 2

\* A slot other than the landing slot of the next datagram holds no packet or
\* a packet whose number belongs to that slot, so update() and rnext() can
\* never take one packet for another.
SlotsIndexed ==
    \A i \in 0..(cbufSize - 1) :
        i # Index(wnum) /\ cbuf[i].num # 0 => Index(cbuf[i].num) = i

\* Between two resynchronisations SM is never written from a packet older
\* than one already written: neither late and duplicated packets nor the
\* step back of a forced update (rnum--) bring old values back, as long as
\* the window has not outgrown the ring since then.  Once it has, a number
\* may have lost its slot to a later one, and repeated forced updates walk
\* back past it.
NeverRegresses == [][~overrun => applied' = 0 \/ applied' >= applied]_vars

\* The bytes of a datagram that isOk() rejected stay in the ring buffer, but
\* do not reach SM while the window fits into the ring.
JunkNeverWritten == [][Timely => sm' \in {sm} \cup {p.data : p \in Packets}]_vars

\* The checksum that suppresses writing "the same" data again is that of
\* the data SM holds, failed writes and forced updates included, until the
\* other channel writes: then it may stand for data SM no longer holds, and
\* the first packet after the way back to this channel is not written.
CacheTruthful == cache # 0 /\ own => sm # NoData /\ cache = Crc[sm]
=============================================================================
