------------------------- MODULE UNetExchangeProofs -------------------------
(***************************************************************************)
(* Proofs about UNetExchange, for every set of data values and every       *)
(* configuration of the published sensors and of the checksum cache.       *)
(***************************************************************************)
EXTENDS UNetExchange, TLAPS

-----------------------------------------------------------------------------
(* Types                                                                   *)

LoopRecord == [at : {"idle", "second", "update"}, c : Channels, target : Channels, timeout : BOOLEAN]

StepRecord == [at : {"begin", "respond2", "channel", "lock2", "publish"}, ok1 : BOOLEAN, num : 0..2]

\* What the event loop remembers when it goes on to update() of channel c.
LEMMA UpdatingType ==
    ASSUME NEW c \in Channels
    PROVE  [Idle EXCEPT !.at = "update", !.c = c] \in LoopRecord
  <1>1. Idle \in LoopRecord
    BY DEF Idle, LoopRecord, Channels
  <1> QED
    BY <1>1 DEF LoopRecord

\* The handlers of the event loop keep the types.
LEMMA EventLoopType == TypeOK /\ EventLoop => TypeOK'
  <1> SUFFICES ASSUME TypeOK, EventLoop PROVE TypeOK'
    OBVIOUS
  <1>1. ASSUME NEW c \in Channels, ReadEvent(c) PROVE TypeOK'
    <2>1. missed' \in BOOLEAN
      BY <1>1, Zenon DEF ReadEvent, TypeOK
    <2> QED
      BY <1>1, <2>1 DEF ReadEvent, TypeOK, link, published
  <1>2. CASE InitEvent
    BY <1>2 DEF InitEvent, TypeOK, link, published, history
  <1>3. ASSUME NEW c \in Channels, CheckConnection(c) PROVE TypeOK'
    <2>1. UNCHANGED <<link, inbox, recvExpired, cache, initOK, sm, switchCount, step, published, missed>>
      BY <1>3 DEF CheckConnection
    <2>2. trTimeout' \in [Channels -> BOOLEAN]
      BY <1>3 DEF CheckConnection, TypeOK
    <2>3. Target(c) \in Channels /\ recvExpired[c] \in BOOLEAN
      BY DEF Target, Other, Channels, TypeOK
    <2>4. lockUpdate' \in [Channels -> BOOLEAN] /\ prepared' \in [Channels -> BOOLEAN]
      BY <1>3 DEF CheckConnection, SetLockUpdate, TypeOK
    <2>5. loop' \in LoopRecord
      <3>1. CASE Fires(c) /\ Switches(c)
        <4>1. loop' = [at |-> "second", c |-> c, target |-> Target(c), timeout |-> recvExpired[c]]
          BY <1>3, <3>1 DEF CheckConnection
        <4> QED
          BY <2>3, <4>1 DEF LoopRecord
      <3>2. CASE ~(Fires(c) /\ Switches(c))
        BY <1>3, <3>2, UpdatingType DEF CheckConnection
      <3> QED
        BY <3>1, <3>2
    <2>6. switched' \in BOOLEAN
      <3>1. switched' = (step.at \in {"lock2", "publish"}) \/ switched' = switched
        BY <1>3, Zenon DEF CheckConnection
      <3>2. switched \in BOOLEAN
        BY DEF TypeOK
      <3>3. (step.at \in {"lock2", "publish"}) \in BOOLEAN
        BY SMT
      <3> QED
        BY <3>1, <3>2, <3>3, Zenon
    <2> QED
      BY <2>1, <2>2, <2>4, <2>5, <2>6 DEF TypeOK, LoopRecord, link, published
  <1>4. ASSUME NEW c \in Channels, Update(c) PROVE TypeOK'
    <2>1. UNCHANGED <<link, recvExpired, prepared, trTimeout, initOK, lockUpdate, switchCount, step, published, history>>
      BY <1>4 DEF Update
    <2>2. inbox' \in [Channels -> Values \cup {None}]
      BY <1>4 DEF Update, TypeOK
    <2>3. loop' \in LoopRecord
      BY <1>4 DEF Update, Idle, Channels, LoopRecord
    <2>4. sm' \in Values \cup {None} /\ cache' \in [Channels -> Values \cup {None}]
      BY <1>4 DEF Update, TypeOK
    <2> QED
      BY <2>1, <2>2, <2>3, <2>4 DEF TypeOK, LoopRecord, link, published, history
  <1>5. CASE SecondLock
    <2>1. UNCHANGED <<link, inbox, recvExpired, trTimeout, cache, initOK, sm, step, published, history>>
      BY <1>5 DEF SecondLock
    <2>2. lockUpdate' \in [Channels -> BOOLEAN] /\ prepared' \in [Channels -> BOOLEAN]
      BY <1>5 DEF SecondLock, SetLockUpdate, TypeOK
    <2>3. switchCount' \in 0..MaxSwitch
      BY <1>5, SwitchAssumption DEF SecondLock, Counted, TypeOK
    <2>4. loop' \in LoopRecord
      <3>1. loop.c \in Channels
        BY DEF TypeOK
      <3> QED
        BY <1>5, <3>1, UpdatingType DEF SecondLock
    <2> QED
      BY <2>1, <2>2, <2>3, <2>4 DEF TypeOK, LoopRecord, link, published, history
  <1> QED
    BY <1>1, <1>2, <1>3, <1>4, <1>5 DEF EventLoop

\* step() keeps the types.
LEMMA StepType == TypeOK /\ Step => TypeOK'
  <1> SUFFICES ASSUME TypeOK, Step PROVE TypeOK'
    OBVIOUS
  <1>t. step \in StepRecord /\ respond \in BOOLEAN \cup {None} /\ numChannel \in 0..2 /\ switched \in BOOLEAN
    BY DEF TypeOK, StepRecord
  <1>1. ASSUME step' \in StepRecord, respond' \in BOOLEAN \cup {None}, numChannel' \in 0..2, switched' \in BOOLEAN
        PROVE  TypeOK'
    <2>1. UNCHANGED <<exchange, sensors, missed>>
      BY DEF Step, StepRespond1, StepRespond2, StepLock1, StepLock2, StepPublish, published, history
    <2> QED
      BY <1>1, <2>1 DEF TypeOK, StepRecord, exchange, link, receivers
  <1>3. CASE StepRespond1
    BY <1>t, <1>1, <1>3 DEF StepRespond1, isRecvOK, published, history, StepRecord
  <1>4. CASE StepRespond2
    <2>1. step' \in StepRecord /\ numChannel' = numChannel /\ switched' = switched
      BY <1>t, <1>4 DEF StepRespond2, StepRecord, history
    <2>2. respond' \in BOOLEAN \cup {None}
      BY <1>t, <1>4, Zenon DEF StepRespond2, isRecvOK
    <2> QED
      BY <1>t, <1>1, <2>1, <2>2
  <1>6. CASE StepLock1
    <2>1. PICK n \in 0..2 : step' = [step EXCEPT !.at = "lock2", !.num = n]
      <3>1. (IF lockUpdate[1] THEN 0 ELSE 1) \in 0..2
        OBVIOUS
      <3> QED
        BY <1>6, <3>1 DEF StepLock1
    <2> QED
      BY <1>t, <1>1, <1>6, <2>1 DEF StepLock1, published, StepRecord
  <1>7. CASE StepLock2
    <2>1. PICK n \in 0..2 : step' = [step EXCEPT !.at = "publish", !.num = n]
      <3>1. (IF lockUpdate[2] THEN step.num ELSE 2) \in 0..2
        BY <1>t DEF StepRecord
      <3> QED
        BY <1>7, <3>1 DEF StepLock2
    <2> QED
      BY <1>t, <1>1, <1>7, <2>1 DEF StepLock2, published, history, StepRecord
  <1>8. CASE StepPublish
    <2>1. step' = [step EXCEPT !.at = "begin", !.num = 0] /\ numChannel' = step.num
      BY <1>8, Zenon DEF StepPublish
    <2>3. step' \in StepRecord
      <3>1. [step EXCEPT !.at = "begin", !.num = 0] \in StepRecord
        <4>1. PICK n \in 0..2 : n = 0
          OBVIOUS
        <4> QED
          BY <1>t, <4>1 DEF StepRecord
      <3> QED
        BY <2>1, <3>1, Zenon
    <2>4. numChannel' \in 0..2
      <3>1. step.num \in 0..2
        BY <1>t DEF StepRecord
      <3> QED
        BY <2>1, <3>1, Zenon
    <2>2. respond' = respond /\ switched' \in BOOLEAN
      BY <1>8 DEF StepPublish
    <2> QED
      BY <1>t, <1>1, <2>2, <2>3, <2>4
  <1> QED
    BY <1>3, <1>4, <1>6, <1>7, <1>8 DEF Step

\* The environment keeps the types.
LEMMA EnvironmentType == TypeOK /\ Environment => TypeOK'
  <1> SUFFICES ASSUME TypeOK, Environment PROVE TypeOK'
    OBVIOUS
  <1>1. ASSUME NEW c \in Channels, RecvTimeout(c) PROVE TypeOK'
    <2>1. missed' \in BOOLEAN
      BY <1>1, Zenon DEF RecvTimeout, TypeOK
    <2> QED
      BY <1>1, <2>1 DEF TypeOK, RecvTimeout, link, published
  <1>2. ASSUME \/ \E v \in Values : SetSource(v)
               \/ \E c \in Channels : LinkChanges(c) \/ PrepareElapsed(c)
        PROVE  TypeOK'
    BY <1>2 DEF TypeOK, SetSource, LinkChanges, PrepareElapsed, receivers, link, published, history
  <1> QED
    BY <1>1, <1>2 DEF Environment

\* Every step keeps the types.
LEMMA NextType == TypeOK /\ [Next]_vars => TypeOK'
  <1>1. TypeOK /\ UNCHANGED vars => TypeOK'
    BY DEF TypeOK, vars, link, receivers, published, history
  <1> QED
    BY <1>1, EventLoopType, StepType, EnvironmentType DEF Next

\* The initial states have the types.
LEMMA InitType == Init => TypeOK
  <1> SUFFICES ASSUME Init PROVE TypeOK
    OBVIOUS
  <1>1. /\ inbox \in [Channels -> Values \cup {None}] /\ cache \in [Channels -> Values \cup {None}]
        /\ source \in Values /\ sm \in Values \cup {None}
    BY DEF Init
  <1>2. /\ up \in [Channels -> BOOLEAN] /\ recvExpired \in [Channels -> BOOLEAN]
        /\ prepared \in [Channels -> BOOLEAN] /\ trTimeout \in [Channels -> BOOLEAN]
        /\ initOK \in BOOLEAN /\ lockUpdate \in [Channels -> BOOLEAN]
    BY DEF Init
  <1>3. switchCount \in 0..MaxSwitch /\ numChannel \in 0..2 /\ respond \in BOOLEAN \cup {None}
    BY SwitchAssumption DEF Init
  <1>4. loop \in LoopRecord
    BY DEF Init, Idle, Channels, LoopRecord
  <1>5. step \in StepRecord
    BY DEF Init, StepRecord
  <1>7. switched \in BOOLEAN /\ missed \in BOOLEAN
    BY Zenon DEF Init
  <1>6. sensors \subseteq {"respond", "channel"}
    BY ConfiguredAssumption DEF Init
  <1> QED
    BY <1>1, <1>2, <1>3, <1>4, <1>5, <1>6, <1>7 DEF TypeOK, LoopRecord, StepRecord

\* The state of the exchange keeps its types.
THEOREM TypeCorrect == Spec => []TypeOK
  BY InitType, NextType, PTL DEF Spec

-----------------------------------------------------------------------------
(* Switching                                                               *)

\* While a switch is half done, the first lock already has its new value, and
\* the channel that loses the work has no link: its timer can only be
\* restarted by its readEvent(), which runs in the same event loop.
SwitchInv ==
    /\ OneActive
    /\ loop.at = "second" =>
          /\ lockUpdate[1] = (loop.target # 1)
          /\ loop.target = 1 => recvExpired[2]

\* Every step keeps it.
LEMMA NextSwitch == TypeOK /\ SwitchInv /\ [Next]_vars => SwitchInv'
  <1> SUFFICES ASSUME TypeOK, SwitchInv, [Next]_vars PROVE SwitchInv'
    OBVIOUS
  <1>t. /\ lockUpdate \in [Channels -> BOOLEAN] /\ recvExpired \in [Channels -> BOOLEAN]
        /\ loop.target \in Channels
    BY DEF TypeOK
  <1>c. 1 \in Channels /\ 2 \in Channels /\ \A c \in Channels : c = 1 \/ c = 2
    BY DEF Channels
  <1>1. ASSUME NEW c \in Channels, CheckConnection(c) PROVE SwitchInv'
    <2>1. CASE Fires(c) /\ Switches(c)
      <3>1. /\ loop' = [at |-> "second", c |-> c, target |-> Target(c), timeout |-> recvExpired[c]]
            /\ lockUpdate' = [lockUpdate EXCEPT ![1] = (Target(c) # 1)]
            /\ recvExpired' = recvExpired
        BY <1>1, <2>1 DEF CheckConnection, SetLockUpdate
      <3>2. lockUpdate'[1] = (Target(c) # 1)
        BY <1>t, <1>c, <3>1
      <3>3. Target(c) = 1 => recvExpired[2]
        BY <1>c, <2>1 DEF Target, Switches, Other, isRecvOK
      <3> QED
        BY <3>1, <3>2, <3>3 DEF SwitchInv, OneActive
    <2>2. CASE ~(Fires(c) /\ Switches(c))
      <3>1. loop'.at = "update"
        BY <1>1, <2>2 DEF CheckConnection, Idle
      <3>2. lockUpdate' = lockUpdate /\ loop.at = "idle"
        BY <1>1, <2>2 DEF CheckConnection
      <3> QED
        BY <3>1, <3>2 DEF SwitchInv, OneActive
    <2> QED
      BY <2>1, <2>2
  <1>2. CASE SecondLock
    <2>1. loop.at = "second" /\ lockUpdate' = [lockUpdate EXCEPT ![2] = (loop.target # 2)]
      BY <1>2 DEF SecondLock, SetLockUpdate
    <2>2. loop'.at = "update"
      BY <1>2 DEF SecondLock, Idle
    <2>3. lockUpdate'[1] = (loop.target # 1) /\ lockUpdate'[2] = (loop.target # 2)
      BY <1>t, <1>c, <2>1 DEF SwitchInv
    <2>4. loop.target = 1 \/ loop.target = 2
      BY <1>t, <1>c
    <2>5. lockUpdate'[1] = ~lockUpdate'[2]
      <3>1. (loop.target # 1) <=> ~(loop.target # 2)
        BY <2>4
      <3> QED
        BY <2>3, <3>1, Zenon
    <2> QED
      BY <2>2, <2>5 DEF SwitchInv, OneActive
  <1>3. ASSUME InitEvent \/ \E c \in Channels : ReadEvent(c) \/ Update(c) PROVE SwitchInv'
    <2>1. lockUpdate' = lockUpdate /\ loop.at # "second"
      BY <1>3 DEF ReadEvent, InitEvent, Update
    <2>2. loop'.at # "second"
      BY <1>3 DEF ReadEvent, InitEvent, Update, Idle
    <2> QED
      BY <2>1, <2>2 DEF SwitchInv, OneActive
  <1>4. CASE UNCHANGED <<lockUpdate, loop>> /\ (recvExpired[2] => recvExpired'[2])
    BY <1>4 DEF SwitchInv, OneActive
  <1>5. ASSUME NEW c \in Channels, RecvTimeout(c) PROVE SwitchInv'
    <2>1. UNCHANGED <<lockUpdate, loop>> /\ recvExpired' = [recvExpired EXCEPT ![c] = TRUE]
      BY <1>5 DEF RecvTimeout
    <2>2. recvExpired[2] => recvExpired'[2]
      BY <1>t, <1>c, <2>1
    <2> QED
      BY <1>4, <2>1, <2>2
  <1>6. Step \/ UNCHANGED vars => UNCHANGED <<lockUpdate, loop, recvExpired>>
    BY DEF Step, StepRespond1, StepRespond2, StepLock1, StepLock2, StepPublish,
           exchange, receivers, vars
  <1>7. /\ \A v \in Values : SetSource(v) => UNCHANGED <<lockUpdate, loop, recvExpired>>
        /\ \A c \in Channels : LinkChanges(c) \/ PrepareElapsed(c) => UNCHANGED <<lockUpdate, loop, recvExpired>>
    BY DEF SetSource, LinkChanges, PrepareElapsed, receivers
  <1>8. CASE UNCHANGED <<lockUpdate, loop, recvExpired>>
    BY <1>4, <1>8
  <1> QED
    BY <1>1, <1>2, <1>3, <1>5, <1>6, <1>7, <1>8 DEF Next, EventLoop, Environment

\* The initial states satisfy it.
LEMMA InitSwitch == Init => SwitchInv
  <1> SUFFICES ASSUME Init PROVE SwitchInv
    OBVIOUS
  <1>1. 1 \in Channels /\ 2 \in Channels
    BY DEF Channels
  <1>2. lockUpdate[1] = ~lockUpdate[2]
    <2>1. 1 # 2
      OBVIOUS
    <2>2. lockUpdate[1] = (1 = 2) /\ lockUpdate[2] = (2 = 2)
      BY <1>1, Zenon DEF Init
    <2> QED
      BY <2>1, <2>2, Zenon
  <1>3. loop.at = "idle"
    BY DEF Init, Idle
  <1> QED
    BY <1>2, <1>3, Zenon DEF SwitchInv, OneActive

\* Exactly one of the two channels writes to SM, except between the two
\* assignments of a switch.
THEOREM OneActiveCorrect == Spec => []OneActive
  <1>1. SwitchInv => OneActive
    BY DEF SwitchInv
  <1> QED
    BY <1>1, InitType, NextType, InitSwitch, NextSwitch, PTL DEF Spec

\* Under the invariant only a channel without a link is made passive.
LEMMA StepKeepsWorking ==
    ASSUME TypeOK, SwitchInv, [Next]_vars
    PROVE  \A d \in Channels : lockUpdate'[d] /\ ~lockUpdate[d] => recvExpired[d]
  <1> SUFFICES ASSUME NEW d \in Channels, lockUpdate'[d], ~lockUpdate[d] PROVE recvExpired[d]
    OBVIOUS
  <1>t. lockUpdate \in [Channels -> BOOLEAN] /\ recvExpired \in [Channels -> BOOLEAN] /\ loop.target \in Channels
    BY DEF TypeOK
  <1>c. 1 \in Channels /\ 2 \in Channels /\ \A c \in Channels : c = 1 \/ c = 2
    BY DEF Channels
  <1>1. ASSUME NEW c \in Channels, CheckConnection(c) PROVE recvExpired[d]
    <2>1. Fires(c) /\ Switches(c) /\ lockUpdate' = [lockUpdate EXCEPT ![1] = (Target(c) # 1)]
      BY <1>1 DEF CheckConnection, SetLockUpdate
    <2>2. d = 1 /\ Target(c) # 1
      BY <1>t, <1>c, <2>1
    <2> QED
      BY <1>c, <2>1, <2>2 DEF Target, Switches, Other, isRecvOK
  <1>2. CASE SecondLock
    <2>1. loop.at = "second" /\ lockUpdate' = [lockUpdate EXCEPT ![2] = (loop.target # 2)]
      BY <1>2 DEF SecondLock, SetLockUpdate
    <2>2. d = 2 /\ loop.target # 2
      BY <1>t, <1>c, <2>1
    <2>3. loop.target = 1
      BY <1>t, <1>c, <2>2
    <2> QED
      BY <2>1, <2>2, <2>3 DEF SwitchInv
  <1>3. lockUpdate' # lockUpdate
    OBVIOUS
  <1>4. InitEvent \/ (\E c \in Channels : ReadEvent(c) \/ Update(c)) => lockUpdate' = lockUpdate
    BY DEF ReadEvent, InitEvent, Update
  <1>5. Step \/ UNCHANGED vars => lockUpdate' = lockUpdate
    BY DEF Step, StepRespond1, StepRespond2, StepLock1, StepLock2, StepPublish, exchange, vars
  <1>6. Environment => lockUpdate' = lockUpdate
    BY DEF Environment, SetSource, LinkChanges, RecvTimeout, PrepareElapsed
  <1> QED
    BY <1>1, <1>2, <1>3, <1>4, <1>5, <1>6 DEF Next, EventLoop

\* A channel that works and has a link is never made passive.
THEOREM ActiveKeepsWorkingCorrect == Spec => ActiveKeepsWorking
  <1>1. TypeOK /\ SwitchInv /\ [Next]_vars
        => [\A c \in Channels : lockUpdate'[c] /\ ~lockUpdate[c] => recvExpired[c]]_vars
    BY StepKeepsWorking
  <1> QED
    BY <1>1, InitType, NextType, InitSwitch, NextSwitch, PTL DEF Spec, ActiveKeepsWorking

-----------------------------------------------------------------------------
(* The exchange implements Failover                                        *)

\* Outside a switch the channel that is not locked has the work.
LEMMA ActiveWorks ==
    ASSUME TypeOK, SwitchInv
    PROVE  /\ Active \in Channels
           /\ \A c \in Channels : loop.at # "second" /\ ~lockUpdate[c] => c = Active
  <1>1. loop.target \in Channels /\ 1 \in Channels /\ 2 \in Channels /\ \A c \in Channels : c = 1 \/ c = 2
    BY DEF TypeOK, Channels
  <1>2. Active \in Channels
    BY <1>1 DEF Active
  <1>3. ASSUME NEW c \in Channels, loop.at # "second", ~lockUpdate[c] PROVE c = Active
    <2>1. lockUpdate[1] = ~lockUpdate[2]
      BY <1>3 DEF SwitchInv, OneActive
    <2> QED
      BY <1>1, <1>3, <2>1 DEF Active
  <1> QED
    BY <1>2, <1>3

\* The initial states are initial states of Failover.
LEMMA FailoverInit == Init => F!Init
  <1> SUFFICES ASSUME Init PROVE F!Init
    OBVIOUS
  <1>1. Active \in Channels
    BY ActiveWorks, InitType, InitSwitch
  <1> QED
    BY <1>1 DEF Init, F!Init

\* CheckConnection() hands the work over, or nothing happens.
LEMMA CheckHandsOver ==
    ASSUME TypeOK, SwitchInv, NEW c \in Channels, CheckConnection(c)
    PROVE  F!Next \/ UNCHANGED F!vars
  <1>1. UNCHANGED <<recvExpired, inbox, sm>> /\ loop.at = "idle"
    BY DEF CheckConnection
  <1>2. CASE Fires(c) /\ Switches(c)
    <2>1. Active' = Target(c) /\ Target(c) \in Channels
      <3>1. loop' = [at |-> "second", c |-> c, target |-> Target(c), timeout |-> recvExpired[c]]
        BY <1>2 DEF CheckConnection
      <3> QED
        BY <3>1 DEF Active, Target, Other, Channels
    <2>2. ~recvExpired[Target(c)] /\ \A d \in Channels : d # Target(c) => recvExpired[d]
      BY <1>2 DEF Switches, Target, Other, isRecvOK, Channels
    <2>3. CASE Active = Target(c)
      BY <1>1, <2>1, <2>3 DEF F!vars
    <2>4. CASE Active # Target(c)
      <3>1. F!HandOver(Target(c))
        BY <1>1, <2>1, <2>2, <2>4, ActiveWorks DEF F!HandOver
      <3> QED
        BY <2>1, <3>1 DEF F!Next
    <2> QED
      BY <2>3, <2>4
  <1>3. CASE ~(Fires(c) /\ Switches(c))
    <2>1. loop'.at = "update" /\ lockUpdate' = lockUpdate
      BY <1>3 DEF CheckConnection, Idle
    <2> QED
      BY <1>1, <2>1 DEF F!vars, Active
  <1> QED
    BY <1>2, <1>3

\* update() stores what the active channel has received, or leaves it out.
LEMMA UpdateStores ==
    ASSUME TypeOK, SwitchInv, NEW c \in Channels, Update(c)
    PROVE  F!Next
  <1>1. /\ loop.at = "update" /\ lockUpdate' = lockUpdate /\ recvExpired' = recvExpired
        /\ inbox' = [inbox EXCEPT ![c] = None]
    BY DEF Update
  <1>2. Active' = Active
    <2>1. loop'.at = "idle"
      BY DEF Update, Idle
    <2> QED
      BY <1>1, <2>1 DEF Active
  <1>3. CASE inbox[c] # None /\ Writes(c)
    <2>1. sm' = inbox[c] /\ c = Active
      BY <1>1, <1>3, ActiveWorks DEF Update, Writes
    <2>2. F!Store(c)
      BY <1>1, <1>2, <1>3, <2>1 DEF F!Store
    <2> QED
      BY <2>2 DEF F!Next
  <1>4. CASE ~(inbox[c] # None /\ Writes(c))
    <2>1. sm' = sm
      BY <1>4 DEF Update
    <2>2. F!LeaveOut(c)
      BY <1>1, <1>2, <2>1 DEF F!LeaveOut
    <2> QED
      BY <2>2 DEF F!Next
  <1> QED
    BY <1>3, <1>4

\* Every step is a step of Failover, or none.
LEMMA FailoverStep ==
    ASSUME TypeOK, SwitchInv, [Next]_vars
    PROVE  [F!Next]_(F!vars)
  <1>1. ASSUME NEW c \in Channels, ReadEvent(c) PROVE F!Next
    <2>1. F!Offer(c, source) /\ source \in Values
      BY <1>1 DEF ReadEvent, F!Offer, Active, TypeOK
    <2> QED
      BY <2>1 DEF F!Next
  <1>2. ASSUME NEW c \in Channels, RecvTimeout(c) PROVE F!Next
    <2>1. F!FallSilent(c)
      BY <1>2 DEF RecvTimeout, F!FallSilent, Active
    <2> QED
      BY <2>1 DEF F!Next
  <1>3. CASE SecondLock
    <2>1. UNCHANGED <<recvExpired, inbox, sm>> /\ loop.at = "second" /\ lockUpdate[1] = (loop.target # 1)
      BY <1>3 DEF SecondLock, SwitchInv
    <2>2. loop'.at = "update" /\ lockUpdate' = [lockUpdate EXCEPT ![2] = loop.target # 2]
      BY <1>3 DEF SecondLock, SetLockUpdate, Idle
    <2>3. lockUpdate'[1] = lockUpdate[1]
      BY <2>2 DEF TypeOK, Channels
    <2>4. loop.target = 1 \/ loop.target = 2
      BY DEF TypeOK, Channels
    <2>5. Active' = Active
      BY <2>1, <2>2, <2>3, <2>4 DEF Active
    <2> QED
      BY <2>1, <2>5 DEF F!vars
  <1>4. ASSUME UNCHANGED <<recvExpired, inbox, sm, loop, lockUpdate>> PROVE UNCHANGED F!vars
    BY <1>4 DEF F!vars, Active
  <1>5. Step \/ UNCHANGED vars => UNCHANGED F!vars
    BY <1>4 DEF Step, StepRespond1, StepRespond2, StepLock1, StepLock2, StepPublish,
                exchange, receivers, vars
  <1>6. /\ \A v \in Values : SetSource(v) => UNCHANGED F!vars
        /\ InitEvent => UNCHANGED F!vars
        /\ \A c \in Channels : LinkChanges(c) \/ PrepareElapsed(c) => UNCHANGED F!vars
    BY <1>4 DEF SetSource, InitEvent, LinkChanges, PrepareElapsed, receivers
  <1> QED
    BY <1>1, <1>2, <1>3, <1>5, <1>6, CheckHandsOver, UpdateStores DEF Next, EventLoop, Environment

\* The exchange implements Failover, for every set of values and every
\* configuration.
THEOREM FailoverCorrect == Spec => ImplementsFailover
  BY InitType, NextType, InitSwitch, NextSwitch, FailoverInit, FailoverStep, PTL
  DEF Spec, ImplementsFailover, F!Spec

-----------------------------------------------------------------------------
(* What step() publishes                                                   *)

\* What step() has read of the locks, as long as no switch overlaps it: r1's
\* lock after the first reading, the active channel after the second.
ReadInv ==
    step.at \in {"lock2", "publish"} /\ ~switched =>
        /\ loop.at # "second"
        /\ step.at = "lock2" => step.num = IF lockUpdate[1] THEN 0 ELSE 1
        /\ step.at = "publish" => step.num = Active

\* Every step keeps it: a switch that begins in between raises the flag.
LEMMA NextRead == TypeOK /\ SwitchInv /\ ReadInv /\ [Next]_vars => ReadInv'
  <1> SUFFICES ASSUME TypeOK, SwitchInv, ReadInv, [Next]_vars PROVE ReadInv'
    OBVIOUS
  <1>t. step \in StepRecord
    BY DEF TypeOK, StepRecord
  <1>1. CASE UNCHANGED <<step, switched, lockUpdate>> /\ (loop'.at = "second" <=> loop.at = "second")
                /\ (loop.at = "second" => loop' = loop)
    BY <1>1 DEF ReadInv, Active
  <1>2. ASSUME NEW c \in Channels, CheckConnection(c) PROVE ReadInv'
    <2>1. CASE Fires(c) /\ Switches(c)
      <3>1. switched' = (step.at \in {"lock2", "publish"}) /\ step' = step
        BY <1>2, <2>1 DEF CheckConnection
      <3> QED
        BY <3>1 DEF ReadInv
    <2>2. CASE ~(Fires(c) /\ Switches(c))
      <3>1. UNCHANGED <<step, switched, lockUpdate>> /\ loop.at = "idle"
        BY <1>2, <2>2 DEF CheckConnection
      <3>2. loop'.at = "update"
        BY <1>2, <2>2 DEF CheckConnection, Idle
      <3> QED
        BY <1>1, <3>1, <3>2
    <2> QED
      BY <2>1, <2>2
  <1>3. CASE SecondLock
    <2>1. loop.at = "second" /\ UNCHANGED <<step, switched>>
      BY <1>3 DEF SecondLock, history
    <2> QED
      BY <2>1 DEF ReadInv
  <1>4. CASE StepLock1
    <2>1. switched' = (loop.at = "second") /\ UNCHANGED <<lockUpdate, loop>>
      BY <1>4 DEF StepLock1, exchange
    <2>2. step' = [step EXCEPT !.at = "lock2", !.num = IF lockUpdate[1] THEN 0 ELSE 1]
      BY <1>4 DEF StepLock1
    <2>3. step'.at = "lock2" /\ step'.num = IF lockUpdate[1] THEN 0 ELSE 1
      BY <1>t, <2>2 DEF StepRecord
    <2> QED
      BY <2>1, <2>3 DEF ReadInv
  <1>5. CASE StepLock2
    <2>1. step.at = "lock2" /\ UNCHANGED <<lockUpdate, loop, switched>>
      BY <1>5 DEF StepLock2, exchange, history
    <2>2. step' = [step EXCEPT !.at = "publish", !.num = IF lockUpdate[2] THEN step.num ELSE 2]
      BY <1>5 DEF StepLock2
    <2>3. step'.at = "publish" /\ step'.num = IF lockUpdate[2] THEN step.num ELSE 2
      BY <1>t, <2>2 DEF StepRecord
    <2>4. ASSUME ~switched PROVE loop.at # "second" /\ step'.num = Active
      <3>1. loop.at # "second" /\ step.num = IF lockUpdate[1] THEN 0 ELSE 1
        BY <2>1, <2>4 DEF ReadInv
      <3>2. lockUpdate[1] = ~lockUpdate[2]
        BY <3>1 DEF SwitchInv, OneActive
      <3> QED
        BY <2>3, <3>1, <3>2 DEF Active
    <2>5. Active' = Active
      BY <2>1 DEF Active
    <2> QED
      BY <2>1, <2>3, <2>4, <2>5 DEF ReadInv
  <1>6. CASE StepRespond1 \/ StepRespond2 \/ StepPublish
    <2>1. step'.at \in {"respond2", "channel", "begin"}
      BY <1>t, <1>6 DEF StepRespond1, StepRespond2, StepPublish, StepRecord
    <2> QED
      BY <2>1 DEF ReadInv
  <1>7. ASSUME NEW c \in Channels, Update(c) PROVE ReadInv'
    <2>1. UNCHANGED <<step, switched, lockUpdate>> /\ loop.at = "update"
      BY <1>7 DEF Update, history
    <2>2. loop'.at = "idle"
      BY <1>7 DEF Update, Idle
    <2> QED
      BY <1>1, <2>1, <2>2
  <1>8. InitEvent \/ (\E c \in Channels : ReadEvent(c)) \/ Environment \/ UNCHANGED vars
           => UNCHANGED <<step, switched, lockUpdate, loop>>
    BY DEF InitEvent, ReadEvent, Environment, SetSource, LinkChanges, RecvTimeout, PrepareElapsed, vars, history
  <1> QED
    BY <1>1, <1>2, <1>3, <1>4, <1>5, <1>6, <1>7, <1>8 DEF Next, EventLoop, Step

\* Although step() reads the two locks at different times and publishes later
\* still, the channel number it publishes is that of the channel that has the
\* work, unless a switch overlaps it.
THEOREM PublishedChannelCorrect == Spec => PublishedChannelWorks
  <1>1. Init => ReadInv
    BY DEF Init, ReadInv
  <1>2. TypeOK /\ SwitchInv /\ ReadInv /\ [Next]_vars
        => [step.at = "publish" /\ step'.at # "publish" /\ ~switched => numChannel' = Active]_vars
    <2> SUFFICES ASSUME TypeOK, ReadInv, Next, step.at = "publish", step'.at # "publish", ~switched
                 PROVE  numChannel' = Active
      BY DEF vars
    <2>1. EventLoop \/ Environment => step' = step
      BY DEF EventLoop, ReadEvent, InitEvent, CheckConnection, Update, SecondLock,
             Environment, SetSource, LinkChanges, RecvTimeout, PrepareElapsed
    <2>2. StepPublish
      BY <2>1 DEF Next, Step, StepRespond1, StepRespond2, StepLock1, StepLock2
    <2> QED
      BY <2>2 DEF StepPublish, ReadInv
  <1> QED
    BY <1>1, <1>2, InitType, NextType, InitSwitch, NextSwitch, NextRead, PTL DEF Spec, PublishedChannelWorks
=============================================================================
