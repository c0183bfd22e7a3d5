---------------------------- MODULE UNetExchange ----------------------------
(***************************************************************************)
(* Two-channel reception of one node's data: UNetExchange's ReceiverInfo,  *)
(* its receivers r1 and r2, and the switching between them.                *)
(*                                                                         *)
(* The handlers of both receivers run in one event loop thread; the step() *)
(* that publishes the state of the channels in SM runs in the thread of    *)
(* the UNetExchange object and reads the receivers' flags one by one.      *)
(*                                                                         *)
(* A receiver's ring buffer is abstracted to the newest packet update()    *)
(* has not consumed yet (UNetReceiver models the buffer).  The sender puts *)
(* the same data into both channels.                                       *)
(***************************************************************************)
EXTENDS Naturals

CONSTANTS
    Values,     \* what the sender's packet may contain; its own checksum
    None,       \* no packet, nothing written, nothing remembered
    ignoreCRC,  \* configuration: write every packet to SM
    Configured, \* the sets of sensors step() may be configured to publish
    MaxSwitch   \* bound of the model: cap of the switch counter

Channels == 1..2

ASSUME NoneAssumption == None \notin Values
ASSUME IgnoreCRCAssumption == ignoreCRC \in BOOLEAN
ASSUME ConfiguredAssumption == Configured \subseteq SUBSET {"respond", "channel"}
ASSUME SwitchAssumption == MaxSwitch \in Nat

VARIABLES
    source,       \* data of the remote node
    up,           \* packets of the channel come more often than recvTimeout
    inbox,        \* newest packet received and not consumed, or None
    recvExpired,  \* ptRecvTimeout.checkTime() of the channel
    prepared,     \* ptPrepare.checkTime() of the channel
    trTimeout,    \* Trigger: the last timeout state that was reported
    lockUpdate,   \* the channel is passive
    cache,        \* checksum of the data the channel last wrote
    initOK,       \* the initPause of a channel is over
    sm,           \* the node's data in SM
    switchCount,  \* channelSwitchCount (capped at MaxSwitch)
    loop,         \* event loop: handler in progress, its channel, the channel
                  \* it switches to, whether for a timeout
    sensors,      \* configuration: the sensors step() publishes
    step,         \* step(): where it is, and what it has read so far
    respond,      \* SM: sidRespond, None before it is first written
    numChannel,   \* SM: sidChannelNum, 0 before it is first written
    switched,     \* history: a switch overlaps the step() in progress
    missed        \* history: a channel lost or regained its link and the
                  \* opposite, without an updateEvent() in between

link == <<source, up>>
receivers == <<inbox, recvExpired, prepared, trTimeout, cache, initOK>>
published == <<sensors, respond, numChannel>>
history == <<switched, missed>>
vars == <<link, receivers, lockUpdate, sm, switchCount, loop, step, published, history>>

Other(c) == 3 - c

isRecvOK(c) == ~recvExpired[c]

Idle == [at |-> "idle", c |-> 1, target |-> 1, timeout |-> FALSE]

Init ==
    /\ source \in Values
    /\ up = [c \in Channels |-> FALSE]
    /\ inbox = [c \in Channels |-> None]
    /\ recvExpired = [c \in Channels |-> FALSE]
    /\ prepared = [c \in Channels |-> FALSE]
    /\ trTimeout = [c \in Channels |-> FALSE]
    /\ lockUpdate = [c \in Channels |-> c = 2]
    /\ cache = [c \in Channels |-> None]
    /\ initOK = FALSE
    /\ sm = None
    /\ switchCount = 0
    /\ loop = Idle
    /\ sensors \in Configured
    /\ step = [at |-> "begin", ok1 |-> FALSE, num |-> 0]
    /\ respond = None
    /\ numChannel = 0
    /\ switched = FALSE
    /\ missed = FALSE

-----------------------------------------------------------------------------
(* The event loop                                                          *)

\* updateEvent() has not seen the present state of the channel's timeout; it
\* reports nothing while prepareTime runs.
Unseen(c) == trTimeout[c] # recvExpired[c]

\* readEvent(): a packet of the channel.
ReadEvent(c) ==
    /\ loop.at = "idle"
    /\ up[c]
    /\ inbox' = [inbox EXCEPT ![c] = source]
    /\ recvExpired' = [recvExpired EXCEPT ![c] = FALSE]
    /\ missed' = (missed \/ (recvExpired[c] /\ Unseen(c)))
    /\ UNCHANGED <<link, prepared, trTimeout, cache, initOK, lockUpdate, sm, switchCount, loop, step, published, switched>>

\* initEvent(): end of the pause for initialisation of the first channel that
\* ends it (step() asks whether one of the two has).
InitEvent ==
    /\ loop.at = "idle"
    /\ ~initOK
    /\ "respond" \in sensors   \* nothing else reads initOK
    /\ initOK' = TRUE
    /\ UNCHANGED <<link, inbox, recvExpired, prepared, trTimeout, cache, lockUpdate, sm, switchCount, loop, step, published, history>>

\* Mutant: a lock is never set again.
OnlyUnlock(c, st) ==
    /\ lockUpdate' = [lockUpdate EXCEPT ![c] = @ /\ st]
    /\ prepared' = [prepared EXCEPT ![c] = st /\ @]

\* setLockUpdate(st) of receiver c: activating it restarts ptPrepare.
SetLockUpdate(c, st) ==
    /\ lockUpdate' = [lockUpdate EXCEPT ![c] = st]
    /\ prepared' = [prepared EXCEPT ![c] = st /\ @]

\* Mutants: a restored link always takes the work; it never does.
SwitchesBack(c) == IF recvExpired[c] THEN isRecvOK(Other(c)) ELSE TRUE

SwitchesOnTimeout(c) == recvExpired[c] /\ isRecvOK(Other(c))

\* receiverEvent(): a timeout of c gives the work to the other channel if
\* that one has a link; a restored link takes it if the other one has none.
Switches(c) ==
    IF recvExpired[c] THEN isRecvOK(Other(c)) ELSE ~isRecvOK(Other(c))

\* Mutant: the next channel, without wrapping around.
TargetNext(c) == IF recvExpired[c] THEN c + 1 ELSE c

Target(c) == IF recvExpired[c] THEN Other(c) ELSE c

Fires(c) == prepared[c] /\ Unseen(c)

\* A timeout always counts, a restored link only after a first switch.
Counted(timeout) ==
    IF (timeout \/ switchCount > 0) /\ switchCount < MaxSwitch
    THEN switchCount + 1 ELSE switchCount

\* updateEvent(), first part: checkConnection().  The lock of r1 is set
\* before that of r2.
CheckConnection(c) ==
    /\ loop.at = "idle"
    /\ trTimeout' = [trTimeout EXCEPT ![c] = IF prepared[c] THEN recvExpired[c] ELSE @]
    /\ IF Fires(c) /\ Switches(c)
       THEN /\ loop' = [at |-> "second", c |-> c, target |-> Target(c), timeout |-> recvExpired[c]]
            /\ SetLockUpdate(1, Target(c) # 1)
            /\ switched' = (step.at \in {"lock2", "publish"})
       ELSE /\ loop' = [Idle EXCEPT !.at = "update", !.c = c]
            /\ UNCHANGED <<lockUpdate, prepared, switched>>
    /\ UNCHANGED <<link, inbox, recvExpired, cache, initOK, sm, switchCount, step, published, missed>>

SecondLock ==
    /\ loop.at = "second"
    /\ SetLockUpdate(2, loop.target # 2)
    /\ switchCount' = Counted(loop.timeout)
    /\ loop' = [Idle EXCEPT !.at = "update", !.c = loop.c]
    /\ UNCHANGED <<link, inbox, recvExpired, trTimeout, cache, initOK, sm, step, published, history>>

\* Mutant: the lock is ignored.
WritesLocked(c) == ignoreCRC \/ cache[c] # inbox[c]

Writes(c) == ~lockUpdate[c] /\ (ignoreCRC \/ cache[c] # inbox[c])

\* updateEvent(), second part: update().
Update(c) ==
    /\ loop.at = "update"
    /\ loop.c = c
    /\ loop' = Idle
    /\ inbox' = [inbox EXCEPT ![c] = None]
    /\ IF inbox[c] # None /\ Writes(c)
       THEN /\ sm' = inbox[c]
            /\ cache' = [cache EXCEPT ![c] = inbox[c]]
       ELSE UNCHANGED <<sm, cache>>
    /\ UNCHANGED <<link, recvExpired, prepared, trTimeout, initOK, lockUpdate, switchCount, step, published, history>>

-----------------------------------------------------------------------------
(* ReceiverInfo::step() in the thread of the UNetExchange object: one step *)
(* per flag it reads.                                                      *)

exchange == <<link, receivers, lockUpdate, sm, switchCount, loop>>

StepRespond1 ==
    /\ step.at = "begin"
    /\ "respond" \in sensors
    /\ step' = [step EXCEPT !.at = "respond2", !.ok1 = isRecvOK(1)]
    /\ UNCHANGED <<exchange, published, history>>

StepRespond2 ==
    /\ step.at = "respond2"
    /\ step' = [step EXCEPT !.at = IF "channel" \in sensors THEN "channel" ELSE "begin", !.ok1 = FALSE]
    /\ respond' = IF initOK THEN step.ok1 \/ isRecvOK(2) ELSE respond
    /\ UNCHANGED <<exchange, sensors, numChannel, history>>

StepLock1 ==
    /\ step.at = IF "respond" \in sensors THEN "channel" ELSE "begin"
    /\ "channel" \in sensors
    /\ step' = [step EXCEPT !.at = "lock2", !.num = IF lockUpdate[1] THEN 0 ELSE 1]
    /\ switched' = (loop.at = "second")
    /\ UNCHANGED <<exchange, published, missed>>

\* Mutant: the second lock overrides the first in both directions.
StepLock2Only ==
    /\ step.at = "lock2"
    /\ step' = [step EXCEPT !.at = "publish", !.num = IF lockUpdate[2] THEN 0 ELSE 2]
    /\ UNCHANGED <<exchange, published, history>>

StepLock2 ==
    /\ step.at = "lock2"
    /\ step' = [step EXCEPT !.at = "publish", !.num = IF lockUpdate[2] THEN @ ELSE 2]
    /\ UNCHANGED <<exchange, published, history>>

StepPublish ==
    /\ step.at = "publish"
    /\ step' = [step EXCEPT !.at = "begin", !.num = 0]
    /\ numChannel' = step.num
    /\ switched' = FALSE
    /\ UNCHANGED <<exchange, sensors, respond, missed>>

-----------------------------------------------------------------------------
(* The environment: the remote node, the links, the clock                  *)

SetSource(v) ==
    /\ source' = v
    /\ UNCHANGED <<up, receivers, lockUpdate, sm, switchCount, loop, step, published, history>>

LinkChanges(c) ==
    /\ up' = [up EXCEPT ![c] = ~@]
    /\ UNCHANGED <<source, receivers, lockUpdate, sm, switchCount, loop, step, published, history>>

RecvTimeout(c) ==
    /\ ~up[c]
    /\ ~recvExpired[c]
    /\ recvExpired' = [recvExpired EXCEPT ![c] = TRUE]
    /\ missed' = (missed \/ Unseen(c))
    /\ UNCHANGED <<link, inbox, prepared, trTimeout, cache, initOK, lockUpdate, sm, switchCount, loop, step, published, switched>>

PrepareElapsed(c) ==
    /\ ~prepared[c]
    /\ prepared' = [prepared EXCEPT ![c] = TRUE]
    /\ UNCHANGED <<link, inbox, recvExpired, trTimeout, cache, initOK, lockUpdate, sm, switchCount, loop, step, published, history>>

EventLoop ==
    \/ \E c \in Channels : ReadEvent(c) \/ CheckConnection(c) \/ Update(c)
    \/ InitEvent \/ SecondLock

Step == StepRespond1 \/ StepRespond2 \/ StepLock1 \/ StepLock2 \/ StepPublish

Environment ==
    \/ \E v \in Values : SetSource(v)
    \/ \E c \in Channels : LinkChanges(c) \/ RecvTimeout(c) \/ PrepareElapsed(c)

Next == EventLoop \/ Step \/ Environment

Spec == Init /\ [][Next]_vars

\* The event loop comes to updateEvent() of either receiver again and again
\* (so it ends the handlers it began), a link that stays up is not taken for
\* dead for ever, and timers expire.
Fairness ==
    \A c \in Channels :
        /\ []<>(~up[c] \/ isRecvOK(c))
        /\ []<><<CheckConnection(c)>>_vars
        /\ WF_vars(RecvTimeout(c))
        /\ WF_vars(PrepareElapsed(c))

FairSpec == Spec /\ Fairness
-----------------------------------------------------------------------------
(* Properties                                                              *)

\* Types of the exchange's state.
TypeOK ==
    /\ source \in Values
    /\ up \in [Channels -> BOOLEAN]
    /\ inbox \in [Channels -> Values \cup {None}]
    /\ recvExpired \in [Channels -> BOOLEAN]
    /\ prepared \in [Channels -> BOOLEAN]
    /\ trTimeout \in [Channels -> BOOLEAN]
    /\ lockUpdate \in [Channels -> BOOLEAN]
    /\ cache \in [Channels -> Values \cup {None}]
    /\ initOK \in BOOLEAN
    /\ sm \in Values \cup {None}
    /\ switchCount \in 0..MaxSwitch
    /\ loop \in [at : {"idle", "second", "update"}, c : Channels, target : Channels, timeout : BOOLEAN]
    /\ sensors \subseteq {"respond", "channel"}
    /\ step \in [at : {"begin", "respond2", "channel", "lock2", "publish"}, ok1 : BOOLEAN, num : 0..2]
    /\ respond \in BOOLEAN \cup {None}
    /\ numChannel \in 0..2
    /\ switched \in BOOLEAN
    /\ missed \in BOOLEAN

\* Except between the two assignments of a switch exactly one of the two
\* channels writes to SM.
OneActive == loop.at # "second" => lockUpdate[1] = ~lockUpdate[2]

\* The channel that works keeps working as long as it has a link: only a
\* channel without one is made passive.
ActiveKeepsWorking ==
    [][\A c \in Channels : lockUpdate'[c] /\ ~lockUpdate[c] => recvExpired[c]]_vars

\* The channel that has the work: the one a switch in progress gives it to.
Active == IF loop.at = "second" THEN loop.target ELSE IF lockUpdate[1] THEN 2 ELSE 1

F == INSTANCE Failover WITH active <- Active, silent <- recvExpired, offered <- inbox, memory <- sm

\* The exchange implements Failover: setting the two locks one after the
\* other is one hand-over, from a channel without a link to one that has it,
\* and SM is written by the channel that has the work only.
ImplementsFailover == F!Spec

\* If from some time on one channel has a link and the other has none, the
\* one with the link does the work in the end -- unless a channel's link once
\* came and went between two of its updateEvent()s.  receiverEvent() is only
\* called for a change that updateEvent() sees: when both links are lost and
\* the second one is back before updateEvent() has looked, nobody gives the
\* work to it, and it stays passive with a link for as long as nothing changes.
FailsOver ==
    \A c \in Channels :
        <>[](up[c] /\ ~up[Other(c)]) => <>[](~lockUpdate[c] /\ lockUpdate[Other(c)]) \/ <>missed

\* The channel number step() publishes is that of the channel that has the
\* work, although step() reads the two locks at different times and publishes
\* later still -- unless a switch overlaps these three steps: then it may be
\* 0 or the number of the channel that has just become passive.
PublishedChannelWorks ==
    [][step.at = "publish" /\ step'.at # "publish" /\ ~switched => numChannel' = Active]_vars
=============================================================================
