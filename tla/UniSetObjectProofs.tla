------------------------- MODULE UniSetObjectProofs -------------------------
(***************************************************************************)
(* Proofs about UniSetObject, for every number of producers and timers,    *)
(* every size of the queues and either strategy, up to the theorem that it *)
(* implements Mailbox.                                                     *)
(***************************************************************************)
EXTENDS UniSetObject, TLAPS, SequenceTheorems, FiniteSetTheorems

-----------------------------------------------------------------------------
(* The queue                                                               *)

QueueOf(S) == [mqueue : Seq(S), lost : Nat]

\* push() makes a queue of a queue, keeps it within its limit, and every
\* message in it was there before or is the new one.
LEMMA PushQueue ==
    ASSUME NEW S, NEW q \in QueueOf(S), NEW m \in S, Len(q.mqueue) <= SizeOfMessageQueue
    PROVE  /\ push(q, m) \in QueueOf(S)
           /\ Len(push(q, m).mqueue) <= SizeOfMessageQueue
           /\ \A i \in 1..Len(push(q, m).mqueue) :
                 \/ push(q, m).mqueue[i] = m
                 \/ \E j \in 1..Len(q.mqueue) : push(q, m).mqueue[i] = q.mqueue[j]
  <1> DEFINE s == q.mqueue
  <1>1. s \in Seq(S) /\ q.lost \in Nat /\ Len(s) \in Nat /\ SizeOfMessageQueue \in Nat /\ SizeOfMessageQueue > 0
    BY SizeAssumption DEF QueueOf
  <1>2. CASE ~Full(q)
    <2>1. push(q, m) = [mqueue |-> Append(s, m), lost |-> q.lost]
      BY <1>2 DEF push, Append1, QueueOf
    <2>2. Len(s) + 1 <= SizeOfMessageQueue
      BY <1>1, <1>2 DEF Full
    <2>3. Append(s, m) \in Seq(S) /\ Len(Append(s, m)) = Len(s) + 1
      BY <1>1
    <2>4. \A i \in 1..(Len(s) + 1) : Append(s, m)[i] = m \/ (i \in 1..Len(s) /\ Append(s, m)[i] = s[i])
      BY <1>1
    <2> HIDE DEF s
    <2> QED
      BY <1>1, <2>1, <2>2, <2>3, <2>4 DEF QueueOf, s
  <1>3. CASE Full(q) /\ lostStrategy = "lostNewData"
    <2>1. push(q, m) = [mqueue |-> s, lost |-> q.lost + 1]
      BY <1>3 DEF push, DropNewest, QueueOf
    <2> QED
      BY <1>1, <2>1 DEF QueueOf
  <1>4. CASE Full(q) /\ lostStrategy = "lostOldData"
    <2>1. push(q, m) = [mqueue |-> Append(Tail(s), m), lost |-> q.lost + 1]
      BY <1>4 DEF push, Append1, DropOldest
    <2>2. Len(s) > 0 /\ s # <<>>
      BY <1>1, <1>4 DEF Full
    <2>3. /\ Tail(s) \in Seq(S) /\ Len(Tail(s)) = Len(s) - 1
          /\ \A i \in 1..Len(Tail(s)) : i + 1 \in 1..Len(s) /\ Tail(s)[i] = s[i + 1]
      BY <1>1, <2>2
    <2>4. Append(Tail(s), m) \in Seq(S) /\ Len(Append(Tail(s), m)) = Len(s)
      BY <1>1, <2>2, <2>3
    <2>5. \A i \in 1..Len(s) : Append(Tail(s), m)[i] = m \/ \E j \in 1..Len(s) : Append(Tail(s), m)[i] = s[j]
      <3> TAKE i \in 1..Len(s)
      <3>1. CASE i = Len(s)
        BY <1>1, <2>3, <3>1
      <3>2. CASE i < Len(s)
        <4>1. Append(Tail(s), m)[i] = Tail(s)[i] /\ i \in 1..Len(Tail(s))
          BY <1>1, <2>3, <3>2
        <4> QED
          BY <2>3, <4>1
      <3> QED
        BY <1>1, <3>1, <3>2
    <2> HIDE DEF s
    <2> QED
      BY <1>1, <2>1, <2>4, <2>5 DEF QueueOf, s
  <1> QED
    BY <1>2, <1>3, <1>4, StrategyAssumption

\* The first message of a queue, and what is left without it.
LEMMA PopQueue ==
    ASSUME NEW S, NEW q \in QueueOf(S), ~empty(q)
    PROVE  /\ front(q) \in S /\ front(q) = q.mqueue[1] /\ 1 \in 1..Len(q.mqueue)
           /\ popped(q) \in QueueOf(S)
           /\ Len(popped(q).mqueue) = Len(q.mqueue) - 1
           /\ \A i \in 1..Len(popped(q).mqueue) :
                 i + 1 \in 1..Len(q.mqueue) /\ popped(q).mqueue[i] = q.mqueue[i + 1]
  <1> DEFINE s == q.mqueue
  <1>1. s \in Seq(S) /\ q.lost \in Nat /\ s # <<>>
    BY DEF QueueOf, empty
  <1>2. Len(s) \in Nat /\ Len(s) > 0 /\ Head(s) \in S /\ Head(s) = s[1]
    BY <1>1
  <1>3. /\ Tail(s) \in Seq(S) /\ Len(Tail(s)) = Len(s) - 1
        /\ \A i \in 1..Len(Tail(s)) : i + 1 \in 1..Len(s) /\ Tail(s)[i] = s[i + 1]
    BY <1>1, <1>2
  <1>4. popped(q) = [mqueue |-> Tail(s), lost |-> q.lost]
    <2>1. \A x : [q EXCEPT !.mqueue = x] = [mqueue |-> x, lost |-> q.lost]
      BY DEF QueueOf
    <2> QED
      BY <2>1, Zenon DEF popped
  <1> QED
    BY <1>1, <1>2, <1>3, <1>4 DEF front, QueueOf

-----------------------------------------------------------------------------
(* Types and bounds                                                        *)

\* The producers' bound, and with it the range of the message numbers.
SentBounded == Len(sent) - fired <= MaxMessages

ObjectInv == TypeOK /\ QueuesBounded /\ SentBounded

ThreadSteps ==
    Priorities \cup {"off", "activated", "created", "start", "loop", "wait", "waiting", "process",
                     "timers", "soon", "fire", "assign", "stop", "notify", "done"}

\* Pushing a message with the next number keeps the invariant's parts about
\* queues and messages.
LEMMA PushKeeps ==
    ASSUME ObjectInv, NEW prio \in Priorities, NEW from \in Producers \cup TimerIds,
           Len(sent) + 1 <= MaxMessages + MaxFired,
           queue' = [queue EXCEPT ![prio] = push(@, [id |-> Len(sent) + 1, from |-> from, prio |-> prio])],
           sent' = Append(sent, [id |-> Len(sent) + 1, from |-> from, prio |-> prio])
    PROVE  /\ [id |-> Len(sent) + 1, from |-> from, prio |-> prio] \in Message
           /\ queue' \in [Priorities -> [mqueue : Seq(Message), lost : Nat]]
           /\ QueuesBounded'
           /\ sent' \in Seq(Message) /\ Len(sent') = Len(sent) + 1
  <1> DEFINE m == [id |-> Len(sent) + 1, from |-> from, prio |-> prio]
  <1>1. sent \in Seq(Message) /\ queue \in [Priorities -> QueueOf(Message)] /\ Len(sent) \in Nat
    BY DEF ObjectInv, TypeOK, QueueOf
  <1>2. Len(sent) + 1 \in 1..(MaxMessages + MaxFired)
    BY <1>1, BoundsAssumption
  <1>3. m \in Message
    BY <1>2 DEF Message
  <1> HIDE DEF m
  <1>4. queue[prio] \in QueueOf(Message) /\ Len(queue[prio].mqueue) <= SizeOfMessageQueue
    BY <1>1 DEF ObjectInv, QueuesBounded
  <1>5. push(queue[prio], m) \in QueueOf(Message) /\ Len(push(queue[prio], m).mqueue) <= SizeOfMessageQueue
    BY <1>3, <1>4, PushQueue
  <1>6. queue' = [queue EXCEPT ![prio] = push(queue[prio], m)] /\ sent' = Append(sent, m)
    BY DEF m
  <1>7. queue' \in [Priorities -> QueueOf(Message)]
    BY <1>1, <1>5, <1>6
  <1>8. QueuesBounded'
    BY <1>1, <1>5, <1>6 DEF ObjectInv, QueuesBounded
  <1>9. sent' \in Seq(Message) /\ Len(sent') = Len(sent) + 1
    BY <1>1, <1>3, <1>6
  <1> QED
    BY <1>3, <1>7, <1>8, <1>9 DEF QueueOf, m

\* A step of deactivate().
Deactivating ==
    \/ DeactivateInactive \/ Deactivate \/ DeactivateTerm \/ DeactivateFails
    \/ WaitFinishNoThread \/ WaitFinish \/ Join

\* The callers of push() and askTimer() keep the invariant.
LEMMA CallersInv ==
    ASSUME ObjectInv,
           \/ \E p \in Producers : TermWaiting(p) \/ \E prio \in Used : Push(p, prio)
           \/ \E t \in TimerIds : AskTimer(t) \/ AskTimerAgain(t) \/ CancelTimer(t)
           \/ AskTimerSleep
           \/ AskTimerReturns
           \/ AskTimerTerm
    PROVE  ObjectInv'
  <1>1. ASSUME NEW p \in Producers, NEW prio \in Used, Push(p, prio) PROVE ObjectInv'
    <2>1. /\ Len(sent) - fired < MaxMessages
          /\ queue' = [queue EXCEPT ![prio] = push(@, [id |-> Len(sent) + 1, from |-> p, prio |-> prio])]
          /\ sent' = Append(sent, [id |-> Len(sent) + 1, from |-> p, prio |-> prio])
          /\ ppc' = [ppc EXCEPT ![p] = "pushed"]
          /\ UNCHANGED <<active, working, terminated, sleepTime, tlst, thread, apc, dpc, fired, begun, got>>
      BY <1>1 DEF Push
    <2>2. Len(sent) \in Nat /\ fired \in 0..MaxFired /\ MaxFired \in Nat /\ MaxMessages \in Nat
      BY BoundsAssumption DEF ObjectInv, TypeOK
    <2>3. Len(sent) + 1 <= MaxMessages + MaxFired
      BY <2>1, <2>2
    <2>4. prio \in Priorities /\ p \in Producers \cup TimerIds
      BY UsedAssumption
    <2>5. /\ queue' \in [Priorities -> [mqueue : Seq(Message), lost : Nat]]
          /\ QueuesBounded' /\ sent' \in Seq(Message) /\ Len(sent') = Len(sent) + 1
      BY <2>1, <2>3, <2>4, PushKeeps
    <2>6. SentBounded'
      BY <2>1, <2>2, <2>5 DEF SentBounded
    <2>7. TypeOK'
      BY <2>1, <2>5 DEF ObjectInv, TypeOK, thread
    <2> QED
      BY <2>5, <2>6, <2>7 DEF ObjectInv
  <1> DEFINE Rest == UNCHANGED <<queue, active, working, thread, dpc, history>>
  <1>2. CASE /\ Rest
             /\ terminated' \in BOOLEAN /\ sleepTime' \in {"forever", "finite"} /\ tlst' \subseteq TimerIds
             /\ ppc' \in [Producers -> {"idle", "pushed"}] /\ apc' \in {"idle", "listed", "stored", "set"}
    BY <1>2 DEF ObjectInv, TypeOK, QueuesBounded, SentBounded, thread, history
  <1>t. /\ terminated \in BOOLEAN /\ sleepTime \in {"forever", "finite"} /\ tlst \subseteq TimerIds
        /\ ppc \in [Producers -> {"idle", "pushed"}] /\ apc \in {"idle", "listed", "stored", "set"}
    BY DEF ObjectInv, TypeOK
  <1>3. ASSUME NEW p \in Producers, TermWaiting(p) PROVE ObjectInv'
    BY <1>2, <1>3, <1>t DEF TermWaiting
  <1>4. ASSUME NEW t \in TimerIds, AskTimer(t) \/ AskTimerAgain(t) \/ CancelTimer(t) PROVE ObjectInv'
    BY <1>2, <1>4, <1>t DEF AskTimer, AskTimerAgain, CancelTimer
  <1>5. CASE AskTimerSleep \/ AskTimerReturns \/ AskTimerTerm
    BY <1>2, <1>5, <1>t DEF AskTimerSleep, AskTimerReturns, AskTimerTerm
  <1> QED
    BY <1>1, <1>3, <1>4, <1>5

\* deactivate() keeps the invariant.
LEMMA DeactivateInv ==
    ASSUME ObjectInv, Deactivating
    PROVE  ObjectInv'
  <1>1. CASE DeactivateInactive
    BY <1>1 DEF DeactivateInactive, ObjectInv, TypeOK, QueuesBounded, SentBounded, vars, thread, others, history
  <1>2. CASE ~DeactivateInactive
    <2>1. /\ UNCHANGED <<queue, working, sleepTime, tlst, thread, ppc, apc, history>>
          /\ active' \in BOOLEAN /\ terminated' \in BOOLEAN
          /\ dpc' \in {"idle", "terminate", "finish", "join", "failed", "unstarted", "done"}
      BY <1>2 DEF Deactivating, ObjectInv, TypeOK, Deactivate, DeactivateTerm, DeactivateFails,
                  WaitFinishNoThread, WaitFinish, Join
    <2> QED
      BY <2>1 DEF ObjectInv, TypeOK, QueuesBounded, SentBounded, thread, history
  <1> QED
    BY <1>1, <1>2

\* activate() keeps the invariant.
LEMMA ActivateInv ==
    ASSUME ObjectInv, Activate
    PROVE  ObjectInv'
  <1>1. /\ UNCHANGED <<queue, terminated, sleepTime, tlst, retry, cur, timeMS, due, others, history>>
        /\ pc' \in ThreadSteps
    BY DEF Activate, SetActive, CreateThread, StartThread, ThreadSteps
  <1>2. active' \in BOOLEAN /\ working' \in BOOLEAN
    <2>1. active \in BOOLEAN /\ working \in BOOLEAN
      BY DEF ObjectInv, TypeOK
    <2> QED
      BY <2>1, Zenon DEF Activate, SetActive, CreateThread, StartThread
  <1> QED
    BY <1>1, <1>2 DEF ObjectInv, TypeOK, QueuesBounded, SentBounded, others, history, ThreadSteps

\* The message thread keeps the invariant.
LEMMA ThreadInv ==
    ASSUME ObjectInv, Thread
    PROVE  ObjectInv'
  <1> DEFINE Idle == UNCHANGED <<queue, active, others, sent, fired, got>>
  <1> DEFINE Typed == /\ working' \in BOOLEAN /\ terminated' \in BOOLEAN /\ retry' \in BOOLEAN
                      /\ sleepTime' \in {"forever", "finite"} /\ timeMS' \in {"forever", "finite"}
                      /\ tlst' \subseteq TimerIds /\ due' \subseteq TimerIds /\ pc' \in ThreadSteps
                      /\ cur' \in Message \cup {NoMessage} /\ begun' \in Nat
  <1>t. /\ working \in BOOLEAN /\ terminated \in BOOLEAN /\ retry \in BOOLEAN
        /\ sleepTime \in {"forever", "finite"} /\ timeMS \in {"forever", "finite"}
        /\ tlst \subseteq TimerIds /\ due \subseteq TimerIds /\ pc \in ThreadSteps
        /\ cur \in Message \cup {NoMessage} /\ begun \in Nat
        /\ sent \in Seq(Message) /\ got \in Seq(Message) /\ Len(sent) \in Nat
        /\ queue \in [Priorities -> QueueOf(Message)]
    BY DEF ObjectInv, TypeOK, ThreadSteps, QueueOf
  <1>1. CASE Idle /\ Typed
    BY <1>1 DEF ObjectInv, TypeOK, QueuesBounded, SentBounded, others, ThreadSteps
  <1>2. CASE ThreadStart \/ ThreadLoop \/ WaitBegins \/ WaitEnds \/ CheckTimersSoon \/ SetSleepTime
             \/ ThreadStop \/ ThreadNotify
    <2>1. Idle /\ tlst' = tlst /\ cur' = cur /\ due' = due
      BY <1>2 DEF ThreadStart, ThreadLoop, WaitBegins, WaitEnds, CheckTimersSoon, SetSleepTime, ThreadStop, ThreadNotify, history
    <2>2. working' \in BOOLEAN /\ terminated' \in BOOLEAN /\ retry' \in BOOLEAN
      BY <1>t, <1>2, Zenon
         DEF ThreadStart, ThreadLoop, WaitBegins, WaitEnds, CheckTimersSoon, SetSleepTime, ThreadStop, ThreadNotify
    <2>3. sleepTime' \in {"forever", "finite"} /\ timeMS' \in {"forever", "finite"} /\ pc' \in ThreadSteps
      BY <1>t, <1>2
         DEF ThreadStart, ThreadLoop, WaitBegins, WaitEnds, CheckTimersSoon, SetSleepTime, ThreadStop, ThreadNotify,
             ThreadSteps, Priorities
    <2>4. begun' \in Nat
      BY <1>t, <1>2
         DEF ThreadStart, ThreadLoop, WaitBegins, WaitEnds, CheckTimersSoon, SetSleepTime, ThreadStop, ThreadNotify, history
    <2> QED
      BY <1>1, <1>t, <2>1, <2>2, <2>3, <2>4
  <1>3. CASE CheckTimersEmpty \/ CheckTimersEnd
    <2>1. Idle /\ UNCHANGED <<working, terminated, retry, cur, begun, tlst, due>>
      BY <1>3 DEF CheckTimersEmpty, CheckTimersEnd, history
    <2>2. sleepTime' \in {"forever", "finite"} /\ timeMS' \in {"forever", "finite"} /\ pc' \in ThreadSteps
      BY <1>t, <1>3 DEF CheckTimersEmpty, CheckTimersEnd, ThreadSteps
    <2> QED
      BY <1>1, <1>t, <2>1, <2>2
  <1>7. ASSUME NEW expired \in SUBSET TimerIds, CheckTimersLock(expired) PROVE ObjectInv'
    <2>1. Idle /\ UNCHANGED <<working, terminated, sleepTime, tlst, retry, cur, timeMS, begun>>
      BY <1>7 DEF CheckTimersLock, history
    <2>2. pc' \in ThreadSteps /\ due' \subseteq TimerIds
      BY <1>7 DEF CheckTimersLock, ThreadSteps
    <2> QED
      BY <1>1, <1>t, <2>1, <2>2
  <1>4. ASSUME NEW prio \in Priorities, Receive(prio) PROVE ObjectInv'
    <2>1. UNCHANGED <<active, working, terminated, sleepTime, tlst, retry, timeMS, due, others, history>>
      BY <1>4 DEF Receive
    <2>2. CASE empty(queue[prio])
      <3>1. pc' = NextQueue(prio) /\ UNCHANGED <<queue, cur>>
        BY <1>4, <2>2 DEF Receive
      <3>2. pc' \in ThreadSteps
        BY <3>1 DEF NextQueue, ThreadSteps, Priorities
      <3> QED
        BY <1>1, <1>t, <2>1, <3>1, <3>2 DEF history
    <2>3. CASE ~empty(queue[prio])
      <3>1. /\ pc' = "process" /\ cur' = front(queue[prio])
            /\ queue' = [queue EXCEPT ![prio] = popped(queue[prio])]
        BY <1>4, <2>3 DEF Receive
      <3>2. /\ cur' \in Message /\ popped(queue[prio]) \in QueueOf(Message)
            /\ Len(popped(queue[prio]).mqueue) = Len(queue[prio].mqueue) - 1
        BY <1>t, <2>3, <3>1, PopQueue
      <3>3. queue' \in [Priorities -> QueueOf(Message)]
        BY <1>t, <3>1, <3>2
      <3>4. QueuesBounded'
        <4>1. \A p \in Priorities : Len(queue[p].mqueue) \in Nat /\ Len(queue[p].mqueue) <= SizeOfMessageQueue
          BY <1>t DEF ObjectInv, QueuesBounded, QueueOf
        <4>2. Len(popped(queue[prio]).mqueue) <= SizeOfMessageQueue
          BY <3>2, <4>1, SizeAssumption
        <4> QED
          BY <1>t, <3>1, <4>1, <4>2 DEF QueuesBounded
      <3>5. pc' \in ThreadSteps /\ SentBounded'
        BY <2>1, <3>1 DEF ThreadSteps, SentBounded, ObjectInv, history
      <3> QED
        BY <2>1, <3>2, <3>3, <3>4, <3>5, SMTT(30) DEF ObjectInv, TypeOK, others, history, ThreadSteps, QueueOf
    <2> QED
      BY <2>2, <2>3
  <1>5. CASE ProcessingMessage
    <2>1. /\ UNCHANGED <<queue, active, working, terminated, sleepTime, tlst, timeMS, due, others, sent, fired>>
          /\ retry' \in BOOLEAN /\ begun' \in Nat
      BY <1>5 DEF ProcessingMessage
    <2>2. got' \in Seq(Message) /\ cur' = NoMessage
      <3>1. CASE cur = NoMessage
        BY <1>t, <1>5, <3>1 DEF ProcessingMessage
      <3>2. CASE cur # NoMessage
        <4>1. cur \in Message /\ got' = Append(got, cur)
          BY <1>t, <1>5, <3>2 DEF ProcessingMessage
        <4>2. cur' = NoMessage
          BY <1>5 DEF ProcessingMessage
        <4> QED
          BY <1>t, <4>1, <4>2
      <3> QED
        BY <3>1, <3>2
    <2>3. pc' \in ThreadSteps
      BY <1>5 DEF ProcessingMessage, ThreadSteps
    <2> QED
      BY <2>1, <2>2, <2>3 DEF ObjectInv, TypeOK, QueuesBounded, SentBounded, others, ThreadSteps
  <1>6. ASSUME NEW t \in TimerIds, NEW last \in BOOLEAN, CheckTimersFire(t, last) PROVE ObjectInv'
    <2>1. /\ fired < MaxFired /\ fired' = fired + 1
          /\ queue' = [queue EXCEPT !["Hi"] = push(@, [id |-> Len(sent) + 1, from |-> t, prio |-> "Hi"])]
          /\ sent' = Append(sent, [id |-> Len(sent) + 1, from |-> t, prio |-> "Hi"])
          /\ UNCHANGED <<active, working, sleepTime, pc, retry, cur, timeMS, others, begun, got>>
      BY <1>6 DEF CheckTimersFire
    <2>2. fired \in 0..MaxFired /\ MaxFired \in Nat /\ MaxMessages \in Nat /\ Len(sent) - fired <= MaxMessages
      BY BoundsAssumption DEF ObjectInv, TypeOK, SentBounded
    <2>3. Len(sent) + 1 <= MaxMessages + MaxFired /\ fired' \in 0..MaxFired
      BY <1>t, <2>1, <2>2
    <2>4. "Hi" \in Priorities /\ t \in Producers \cup TimerIds
      BY DEF Priorities
    <2>5. /\ queue' \in [Priorities -> [mqueue : Seq(Message), lost : Nat]]
          /\ QueuesBounded' /\ sent' \in Seq(Message) /\ Len(sent') = Len(sent) + 1
      BY <2>1, <2>3, <2>4, PushKeeps
    <2>6. SentBounded'
      BY <1>t, <2>1, <2>2, <2>5 DEF SentBounded
    <2>7. terminated' \in BOOLEAN /\ tlst' \subseteq TimerIds /\ due' \subseteq TimerIds
      BY <1>t, <1>6 DEF CheckTimersFire
    <2>8. TypeOK'
      BY <2>1, <2>3, <2>5, <2>7 DEF ObjectInv, TypeOK, others, ThreadSteps
    <2> QED
      BY <2>5, <2>6, <2>8 DEF ObjectInv
  <1> QED
    BY <1>2, <1>3, <1>4, <1>5, <1>6, <1>7 DEF Thread

\* Every step keeps the invariant.
LEMMA NextInv == ObjectInv /\ [Next]_vars => ObjectInv'
  <1>1. ASSUME ObjectInv, UNCHANGED vars PROVE ObjectInv'
    BY <1>1 DEF ObjectInv, TypeOK, QueuesBounded, SentBounded, vars, thread, others, history
  <1> QED
    BY <1>1, CallersInv, DeactivateInv, ActivateInv, ThreadInv DEF Next, Deactivating

\* The initial states satisfy it.
LEMMA InitInv == Init => ObjectInv
  <1> SUFFICES ASSUME Init PROVE ObjectInv
    OBVIOUS
  <1>1. queue \in [Priorities -> [mqueue : Seq(Message), lost : Nat]] /\ QueuesBounded
    BY SizeAssumption DEF Init, EmptyQueue, QueuesBounded
  <1>2. sent \in Seq(Message) /\ got \in Seq(Message) /\ fired \in 0..MaxFired /\ begun \in Nat /\ SentBounded
    BY BoundsAssumption DEF Init, SentBounded
  <1>3. active \in BOOLEAN /\ working \in BOOLEAN /\ terminated \in BOOLEAN /\ retry \in BOOLEAN
    BY Zenon DEF Init
  <1>4. /\ sleepTime \in {"forever", "finite"} /\ timeMS \in {"forever", "finite"} /\ tlst \subseteq TimerIds
        /\ due \subseteq TimerIds /\ pc \in ThreadSteps /\ cur \in Message \cup {NoMessage}
        /\ ppc \in [Producers -> {"idle", "pushed"}] /\ apc \in {"idle", "listed", "stored", "set"}
        /\ dpc \in {"idle", "terminate", "finish", "join", "failed", "unstarted", "done"}
    BY TimersAssumption DEF Init, ThreadSteps
  <1> QED
    BY <1>1, <1>2, <1>3, <1>4 DEF ObjectInv, TypeOK, ThreadSteps

\* The state of the object keeps its types.
THEOREM TypeCorrect == Spec => []TypeOK
  <1>1. ObjectInv => TypeOK
    BY DEF ObjectInv
  <1> QED
    BY <1>1, InitInv, NextInv, PTL DEF Spec

\* No queue grows beyond SizeOfMessageQueue, with any number of producers and
\* either strategy of MQMutex::push().
THEOREM QueuesBoundedCorrect == Spec => []QueuesBounded
  <1>1. ObjectInv => QueuesBounded
    BY DEF ObjectInv
  <1> QED
    BY <1>1, InitInv, NextInv, PTL DEF Spec

-----------------------------------------------------------------------------
(* deactivate() and the message thread                                     *)

\* deactivate() has cleared the flag.
Cleared == dpc \in {"terminate", "finish", "join", "failed", "unstarted", "done"}

\* a_working is set exactly while the thread is started and has not cleared
\* it; once deactivate() has cleared the flag nobody sets it again; join()
\* waits for a thread that has left its loop.
HandlerInv ==
    /\ pc \in {"off", "activated", "created", "notify", "done"} <=> ~working
    /\ pc = "off" => ~active
    /\ Cleared => ~active /\ pc # "off"
    /\ dpc = "join" => pc \in {"notify", "done"}
    /\ NoHandlerAfterDeactivate

\* Every step keeps it.
LEMMA NextHandler == ObjectInv /\ HandlerInv /\ [Next]_vars => HandlerInv'
  <1> SUFFICES ASSUME ObjectInv, HandlerInv, [Next]_vars PROVE HandlerInv'
    OBVIOUS
  <1> USE DEF HandlerInv, NoHandlerAfterDeactivate, Cleared
  <1>1. CASE ThreadStart \/ ThreadLoop \/ ThreadStop \/ ThreadNotify \/ Activate
    BY <1>1 DEF ThreadStart, ThreadLoop, ThreadStop, ThreadNotify, Activate, SetActive, CreateThread, StartThread,
                others, InCallback, Priorities
  <1>2. CASE InCallback /\ UNCHANGED <<active, working, dpc>> /\ pc' \in ThreadSteps
             /\ pc' \notin {"off", "activated", "created", "stop", "notify", "done"}
    BY <1>2 DEF InCallback, Priorities
  <1>3. CASE WaitBegins \/ WaitEnds \/ ProcessingMessage \/ CheckTimersEmpty \/ CheckTimersSoon \/ CheckTimersEnd
             \/ SetSleepTime
    BY <1>2, <1>3 DEF WaitBegins, WaitEnds, ProcessingMessage, CheckTimersEmpty, CheckTimersSoon, CheckTimersEnd,
                SetSleepTime, others, InCallback, Priorities, ThreadSteps
  <1>4. ASSUME NEW prio \in Priorities, Receive(prio) PROVE HandlerInv'
    <2>1. pc = prio /\ UNCHANGED <<active, working, dpc>> /\ pc' \in {NextQueue(prio), "process"}
      BY <1>4 DEF Receive, others
    <2>2. NextQueue(prio) \in {"Medium", "Low", "wait", "process"}
      BY DEF NextQueue, Priorities
    <2> QED
      BY <1>2, <2>1, <2>2 DEF InCallback, ThreadSteps, Priorities
  <1>5. ASSUME NEW expired \in SUBSET TimerIds, CheckTimersLock(expired) PROVE HandlerInv'
    BY <1>2, <1>5 DEF CheckTimersLock, others, InCallback, ThreadSteps
  <1>6. CASE Deactivate \/ DeactivateTerm \/ DeactivateFails \/ WaitFinishNoThread \/ Join
    BY <1>6 DEF Deactivate, DeactivateTerm, DeactivateFails, WaitFinishNoThread, Join, Running, thread,
                InCallback, Priorities
  <1>7. CASE WaitFinish
    BY <1>7 DEF WaitFinish, Running, thread, InCallback, Priorities
  <1>8. CASE UNCHANGED <<pc, dpc, active, working>>
    BY <1>8 DEF InCallback
  <1>9. /\ \A p \in Producers : TermWaiting(p) => UNCHANGED <<pc, dpc, active, working>>
        /\ \A p \in Producers : \A prio \in Used : Push(p, prio) => UNCHANGED <<pc, dpc, active, working>>
        /\ \A t \in TimerIds : AskTimer(t) \/ AskTimerAgain(t) \/ CancelTimer(t) => UNCHANGED <<pc, dpc, active, working>>
        /\ AskTimerSleep \/ AskTimerReturns \/ AskTimerTerm => UNCHANGED <<pc, dpc, active, working>>
        /\ DeactivateInactive \/ UNCHANGED vars => UNCHANGED <<pc, dpc, active, working>>
        /\ \A t \in TimerIds, last \in BOOLEAN : CheckTimersFire(t, last) => UNCHANGED <<pc, dpc, active, working>>
    BY DEF TermWaiting, Push, AskTimer, AskTimerAgain, CancelTimer, AskTimerSleep, AskTimerReturns, AskTimerTerm,
           DeactivateInactive, CheckTimersFire, vars, thread, others
  <1> QED
    BY <1>1, <1>3, <1>4, <1>5, <1>6, <1>7, <1>8, <1>9 DEF Next, Thread

\* The initial states satisfy it.
LEMMA InitHandler == Init => HandlerInv
  BY DEF Init, HandlerInv, Cleared, NoHandlerAfterDeactivate

\* When the deactivate() that has cleared the flag returns true, the message
\* thread has ended, or it was not started yet and will call no handler.
THEOREM NoHandlerCorrect == Spec => []NoHandlerAfterDeactivate
  <1>1. HandlerInv => NoHandlerAfterDeactivate
    BY DEF HandlerInv
  <1> QED
    BY <1>1, InitInv, NextInv, InitHandler, NextHandler, PTL DEF Spec

-----------------------------------------------------------------------------
(* Priorities                                                              *)

\* The queues the current receiveMessage() has found empty.
Passed == IF pc \in Priorities THEN Above(pc) ELSE {}

\* A queue holds messages of its priority only, and a queue that was passed
\* holds only messages pushed after receiveMessage() began.
PriorityInv ==
    /\ begun <= Len(sent)
    /\ \A p \in Priorities : \A i \in 1..Len(queue[p].mqueue) : queue[p].mqueue[i].prio = p
    /\ \A p \in Passed : \A i \in 1..Len(queue[p].mqueue) : queue[p].mqueue[i].id > begun

\* Only queues of a priority are passed.
LEMMA PassedType == Passed \subseteq Priorities
  BY DEF Passed, Above, Priorities

\* Pushing the next message keeps what is said about queues.
LEMMA PushPriority ==
    ASSUME ObjectInv, PriorityInv, NEW prio \in Priorities, NEW from \in Producers \cup TimerIds,
           Len(sent) + 1 <= MaxMessages + MaxFired,
           queue' = [queue EXCEPT ![prio] = push(@, [id |-> Len(sent) + 1, from |-> from, prio |-> prio])],
           sent' = Append(sent, [id |-> Len(sent) + 1, from |-> from, prio |-> prio])
    PROVE  /\ begun <= Len(sent')
           /\ \A p \in Priorities : \A i \in 1..Len(queue'[p].mqueue) : queue'[p].mqueue[i].prio = p
           /\ \A p \in Passed : \A i \in 1..Len(queue'[p].mqueue) : queue'[p].mqueue[i].id > begun
  <1> DEFINE m == [id |-> Len(sent) + 1, from |-> from, prio |-> prio]
  <1>1. /\ m \in Message /\ Len(sent') = Len(sent) + 1
        /\ queue \in [Priorities -> QueueOf(Message)] /\ Len(sent) \in Nat /\ begun \in Nat
    <2>1. m \in Message /\ Len(sent') = Len(sent) + 1
      BY PushKeeps
    <2>2. queue \in [Priorities -> QueueOf(Message)] /\ Len(sent) \in Nat /\ begun \in Nat
      BY DEF ObjectInv, TypeOK, QueueOf
    <2> QED
      BY <2>1, <2>2
  <1>2. begun <= Len(sent)
    BY DEF PriorityInv
  <1>3. begun <= Len(sent') /\ m.id > begun /\ m.prio = prio
    BY <1>1, <1>2
  <1>4. queue' = [queue EXCEPT ![prio] = push(queue[prio], m)]
    OBVIOUS
  <1> HIDE DEF m
  <1>5. queue[prio] \in QueueOf(Message) /\ Len(queue[prio].mqueue) <= SizeOfMessageQueue
    BY <1>1 DEF ObjectInv, QueuesBounded
  <1>6. \A i \in 1..Len(push(queue[prio], m).mqueue) :
           \/ push(queue[prio], m).mqueue[i] = m
           \/ \E j \in 1..Len(queue[prio].mqueue) : push(queue[prio], m).mqueue[i] = queue[prio].mqueue[j]
    BY <1>1, <1>5, PushQueue
  <1>7. queue'[prio] = push(queue[prio], m) /\ \A p \in Priorities \ {prio} : queue'[p] = queue[p]
    BY <1>1, <1>4
  <1>8. \A i \in 1..Len(queue'[prio].mqueue) :
           /\ queue'[prio].mqueue[i].prio = prio
           /\ prio \in Passed => queue'[prio].mqueue[i].id > begun
    BY <1>3, <1>6, <1>7 DEF PriorityInv
  <1>9. \A p \in Priorities \ {prio} : \A i \in 1..Len(queue'[p].mqueue) :
           /\ queue'[p].mqueue[i].prio = p
           /\ p \in Passed => queue'[p].mqueue[i].id > begun
    BY <1>7 DEF PriorityInv
  <1> QED
    BY <1>3, <1>8, <1>9, PassedType

\* The message thread keeps the invariant.
LEMMA ThreadPriority ==
    ASSUME ObjectInv, PriorityInv, Thread
    PROVE  PriorityInv'
  <1>t. /\ queue \in [Priorities -> QueueOf(Message)] /\ Len(sent) \in Nat /\ begun \in Nat
    BY DEF ObjectInv, TypeOK, QueueOf
  <1>1. CASE UNCHANGED <<queue, sent>> /\ begun' \in {begun, Len(sent), 0} /\ pc' \notin {"Medium", "Low"}
    <2>1. Passed' = {}
      BY <1>1 DEF Passed, Above, Priorities
    <2>2. begun' <= Len(sent)
      BY <1>t, <1>1 DEF PriorityInv
    <2> QED
      BY <1>1, <2>1, <2>2 DEF PriorityInv
  <1>2. CASE ThreadStart \/ ThreadLoop \/ WaitBegins \/ WaitEnds \/ ProcessingMessage \/ SetSleepTime \/ ThreadStop
             \/ ThreadNotify
    BY <1>1, <1>2 DEF ThreadStart, ThreadLoop, WaitBegins, WaitEnds, ProcessingMessage, SetSleepTime, ThreadStop,
                ThreadNotify, history
  <1>3. CASE CheckTimersEmpty \/ CheckTimersSoon \/ CheckTimersEnd
             \/ \E expired \in SUBSET TimerIds : CheckTimersLock(expired)
    BY <1>1, <1>3 DEF CheckTimersEmpty, CheckTimersSoon, CheckTimersEnd, CheckTimersLock, history
  <1>4. ASSUME NEW t \in TimerIds, NEW last \in BOOLEAN, CheckTimersFire(t, last) PROVE PriorityInv'
    <2>1. /\ fired < MaxFired
          /\ queue' = [queue EXCEPT !["Hi"] = push(@, [id |-> Len(sent) + 1, from |-> t, prio |-> "Hi"])]
          /\ sent' = Append(sent, [id |-> Len(sent) + 1, from |-> t, prio |-> "Hi"])
          /\ begun' = begun /\ pc' = "fire"
      BY <1>4 DEF CheckTimersFire
    <2>2. fired \in 0..MaxFired /\ MaxFired \in Nat /\ MaxMessages \in Nat /\ Len(sent) - fired <= MaxMessages
      BY BoundsAssumption DEF ObjectInv, TypeOK, SentBounded
    <2>3. Len(sent) + 1 <= MaxMessages + MaxFired
      BY <1>t, <2>1, <2>2
    <2>4. "Hi" \in Priorities /\ t \in Producers \cup TimerIds /\ Passed' = {}
      BY <2>1 DEF Priorities, Passed
    <2> QED
      BY <2>1, <2>3, <2>4, PushPriority DEF PriorityInv
  <1>5. ASSUME NEW prio \in Priorities, Receive(prio) PROVE PriorityInv'
    <2>1. pc = prio /\ UNCHANGED <<sent, begun, retry>>
      BY <1>5 DEF Receive, history
    <2>2. CASE empty(queue[prio])
      <3>1. pc' = NextQueue(prio) /\ queue' = queue
        BY <1>5, <2>2 DEF Receive
      <3>2. Passed' \subseteq Passed \cup {prio}
        BY <2>1, <3>1 DEF Passed, Above, NextQueue, Priorities
      <3>3. Len(queue[prio].mqueue) = 0
        BY <2>2 DEF empty
      <3>4. \A i \in 1..Len(queue[prio].mqueue) : queue[prio].mqueue[i].id > begun
        BY <3>3
      <3> QED
        BY <2>1, <3>1, <3>2, <3>4 DEF PriorityInv
    <2>3. CASE ~empty(queue[prio])
      <3>1. pc' = "process" /\ queue' = [queue EXCEPT ![prio] = popped(queue[prio])]
        BY <1>5, <2>3 DEF Receive
      <3>2. \A i \in 1..Len(popped(queue[prio]).mqueue) :
               i + 1 \in 1..Len(queue[prio].mqueue) /\ popped(queue[prio]).mqueue[i] = queue[prio].mqueue[i + 1]
        BY <1>t, <2>3, PopQueue
      <3>3. Passed' = {}
        BY <3>1 DEF Passed, Priorities
      <3>4. \A p \in Priorities : \A i \in 1..Len(queue'[p].mqueue) : queue'[p].mqueue[i].prio = p
        BY <1>t, <3>1, <3>2, SMTT(30) DEF PriorityInv
      <3> QED
        BY <2>1, <3>3, <3>4 DEF PriorityInv
    <2> QED
      BY <2>2, <2>3
  <1> QED
    BY <1>2, <1>3, <1>4, <1>5 DEF Thread

\* Every step keeps the invariant.
LEMMA NextPriority == ObjectInv /\ PriorityInv /\ [Next]_vars => PriorityInv'
  <1> SUFFICES ASSUME ObjectInv, PriorityInv, [Next]_vars PROVE PriorityInv'
    OBVIOUS
  <1>1. CASE Thread
    BY <1>1, ThreadPriority
  <1>2. ASSUME NEW p \in Producers, NEW prio \in Used, Push(p, prio) PROVE PriorityInv'
    <2>1. /\ Len(sent) - fired < MaxMessages
          /\ queue' = [queue EXCEPT ![prio] = push(@, [id |-> Len(sent) + 1, from |-> p, prio |-> prio])]
          /\ sent' = Append(sent, [id |-> Len(sent) + 1, from |-> p, prio |-> prio])
          /\ pc' = pc /\ begun' = begun
      BY <1>2 DEF Push, thread
    <2>2. Len(sent) \in Nat /\ fired \in 0..MaxFired /\ MaxFired \in Nat /\ MaxMessages \in Nat
      BY BoundsAssumption DEF ObjectInv, TypeOK
    <2>3. Len(sent) + 1 <= MaxMessages + MaxFired /\ prio \in Priorities /\ p \in Producers \cup TimerIds
      BY <2>1, <2>2, UsedAssumption
    <2>4. Passed' = Passed
      BY <2>1 DEF Passed, Above
    <2> QED
      BY <2>1, <2>3, <2>4, PushPriority DEF PriorityInv
  <1>3. CASE UNCHANGED <<queue, sent, begun, pc>>
    BY <1>3 DEF PriorityInv, Passed, Above
  <1>4. /\ \A p \in Producers : TermWaiting(p) => UNCHANGED <<queue, sent, begun, pc>>
        /\ \A t \in TimerIds : AskTimer(t) \/ AskTimerAgain(t) \/ CancelTimer(t) => UNCHANGED <<queue, sent, begun, pc>>
        /\ AskTimerSleep \/ AskTimerReturns \/ AskTimerTerm \/ UNCHANGED vars => UNCHANGED <<queue, sent, begun, pc>>
        /\ Deactivating => UNCHANGED <<queue, sent, begun, pc>>
        /\ Activate => UNCHANGED <<queue, sent, begun>> /\ pc \notin Priorities /\ pc' \notin Priorities
    BY DEF TermWaiting, AskTimer, AskTimerAgain, CancelTimer, AskTimerSleep, AskTimerReturns, AskTimerTerm,
           Deactivating, DeactivateInactive, Deactivate, DeactivateTerm, DeactivateFails, WaitFinishNoThread, WaitFinish, Join,
           Activate, SetActive, CreateThread, StartThread, Priorities, vars, thread, history
  <1>5. CASE UNCHANGED <<queue, sent, begun>> /\ pc \notin Priorities /\ pc' \notin Priorities
    BY <1>5 DEF PriorityInv, Passed
  <1> QED
    BY <1>1, <1>2, <1>3, <1>4, <1>5 DEF Next, Deactivating

\* Under the invariant receiveMessage() takes no message while one of a
\* higher priority waits that was there when it began.
LEMMA StepPriority ==
    ASSUME ObjectInv, PriorityInv, [Next]_vars, cur' # cur, cur' # NoMessage
    PROVE  \A p \in Above(cur'.prio) : \A i \in 1..Len(queue[p].mqueue) : queue[p].mqueue[i].id > begun
  <1>1. PICK prio \in Priorities : Receive(prio)
    <2>1. ThreadStart \/ ThreadLoop \/ WaitBegins \/ WaitEnds \/ SetSleepTime \/ ThreadStop
          \/ ThreadNotify \/ CheckTimersEmpty \/ CheckTimersSoon \/ CheckTimersEnd \/ Activate => cur' = cur
      BY DEF ThreadStart, ThreadLoop, WaitBegins, WaitEnds, SetSleepTime, ThreadStop, ThreadNotify,
             CheckTimersEmpty, CheckTimersSoon, CheckTimersEnd, Activate, SetActive, CreateThread, StartThread
    <2>2. ~ProcessingMessage
      BY DEF ProcessingMessage
    <2>3. /\ \A t \in TimerIds, last \in BOOLEAN : CheckTimersFire(t, last) => cur' = cur
          /\ \A expired \in SUBSET TimerIds : CheckTimersLock(expired) => cur' = cur
      BY DEF CheckTimersFire, CheckTimersLock
    <2>4. /\ \A p \in Producers : TermWaiting(p) => cur' = cur
          /\ \A p \in Producers : \A prio \in Used : Push(p, prio) => cur' = cur
          /\ \A t \in TimerIds : AskTimer(t) \/ AskTimerAgain(t) \/ CancelTimer(t) => cur' = cur
          /\ AskTimerSleep \/ AskTimerReturns \/ AskTimerTerm \/ UNCHANGED vars => cur' = cur
          /\ Deactivating => cur' = cur
      BY DEF TermWaiting, Push, AskTimer, AskTimerAgain, CancelTimer, AskTimerSleep, AskTimerReturns, AskTimerTerm,
             Deactivating, DeactivateInactive, Deactivate, DeactivateTerm, DeactivateFails, WaitFinishNoThread, WaitFinish, Join, vars, thread
    <2> QED
      BY <2>1, <2>2, <2>3, <2>4 DEF Next, Thread, Deactivating
  <1>2. pc = prio /\ ~empty(queue[prio]) /\ cur' = front(queue[prio])
    BY <1>1 DEF Receive
  <1>3. queue[prio] \in QueueOf(Message)
    BY DEF ObjectInv, TypeOK, QueueOf
  <1>4. cur' = queue[prio].mqueue[1] /\ 1 \in 1..Len(queue[prio].mqueue)
    BY <1>2, <1>3, PopQueue
  <1>5. cur'.prio = prio
    BY <1>4 DEF PriorityInv
  <1>6. Passed = Above(cur'.prio)
    BY <1>2, <1>5 DEF Passed
  <1> QED
    BY <1>6 DEF PriorityInv

\* A message is not taken while one of a higher priority waits that was in
\* its queue when receiveMessage() began to look at the queues.
THEOREM PriorityCorrect == Spec => PriorityRespected
  <1>1. Init => PriorityInv
    BY DEF Init, PriorityInv, EmptyQueue, Passed, Priorities
  <1>2. ObjectInv /\ PriorityInv /\ [Next]_vars
        => [cur' # cur /\ cur' # NoMessage =>
              \A p \in Above(cur'.prio) : \A i \in 1..Len(queue[p].mqueue) : queue[p].mqueue[i].id > begun]_vars
    BY StepPriority
  <1> QED
    BY <1>1, <1>2, InitInv, NextInv, NextPriority, PTL DEF Spec, PriorityRespected

-----------------------------------------------------------------------------
(* What the queues hold, as sets                                           *)

Elements(q) == {q.mqueue[i] : i \in 1..Len(q.mqueue)}

Sorted(q) == \A i, j \in 1..Len(q.mqueue) : i < j => q.mqueue[i].id < q.mqueue[j].id

\* push() of a message newer than the others: it is added, or one message of
\* the queue, or itself, is dropped for it and counted; the order is kept.
LEMMA PushElements ==
    ASSUME NEW q \in QueueOf(Message), NEW m \in Message, Sorted(q),
           \A x \in Elements(q) : x.id < m.id
    PROVE  /\ Sorted(push(q, m))
           /\ \/ Elements(push(q, m)) = Elements(q) \cup {m} /\ push(q, m).lost = q.lost
              \/ \E x \in Elements(q) \cup {m} :
                    /\ Elements(push(q, m)) = (Elements(q) \cup {m}) \ {x}
                    /\ push(q, m).lost = q.lost + 1
  <1> DEFINE s == q.mqueue
  <1>1. s \in Seq(Message) /\ q.lost \in Nat /\ Len(s) \in Nat /\ SizeOfMessageQueue \in Nat /\ SizeOfMessageQueue > 0
    BY SizeAssumption DEF QueueOf
  <1>2. m.id \in Nat /\ \A i \in 1..Len(s) : s[i].id \in Nat /\ s[i].id < m.id
    <2>1. \A x \in Message : x.id \in Nat
      BY BoundsAssumption DEF Message
    <2> QED
      BY <1>1, <2>1 DEF Elements
  <1>3. CASE ~Full(q)
    <2>1. push(q, m) = [mqueue |-> Append(s, m), lost |-> q.lost]
      BY <1>3 DEF push, Append1, QueueOf
    <2>2. /\ Len(Append(s, m)) = Len(s) + 1 /\ Append(s, m)[Len(s) + 1] = m
          /\ \A i \in 1..Len(s) : Append(s, m)[i] = s[i]
      BY <1>1
    <2> HIDE DEF s
    <2>3. Sorted(push(q, m))
      BY <1>1, <1>2, <2>1, <2>2 DEF Sorted, s
    <2>4. Elements(push(q, m)) = Elements(q) \cup {m}
      BY <1>1, <2>1, <2>2 DEF Elements, s
    <2>5. push(q, m).lost = q.lost
      BY <2>1
    <2> QED
      BY <2>3, <2>4, <2>5, Zenon
  <1>4. CASE Full(q) /\ lostStrategy = "lostNewData"
    <2>1. push(q, m) = [mqueue |-> s, lost |-> q.lost + 1]
      BY <1>4 DEF push, DropNewest, QueueOf
    <2>2. m \notin Elements(q)
      BY <1>2 DEF Elements
    <2>3. Elements(push(q, m)) = (Elements(q) \cup {m}) \ {m}
      BY <2>1, <2>2 DEF Elements
    <2> QED
      BY <2>1, <2>3 DEF Sorted
  <1>5. CASE Full(q) /\ lostStrategy = "lostOldData"
    <2>1. push(q, m) = [mqueue |-> Append(Tail(s), m), lost |-> q.lost + 1]
      BY <1>5 DEF push, Append1, DropOldest
    <2>2. Len(s) > 0 /\ s # <<>>
      BY <1>1, <1>5 DEF Full
    <2>3. /\ Tail(s) \in Seq(Message) /\ Len(Tail(s)) = Len(s) - 1
          /\ \A i \in 1..(Len(s) - 1) : Tail(s)[i] = s[i + 1]
      BY <1>1, <2>2
    <2>4. /\ Len(Append(Tail(s), m)) = Len(s) /\ Append(Tail(s), m)[Len(s)] = m
          /\ \A i \in 1..(Len(s) - 1) : Append(Tail(s), m)[i] = s[i + 1]
      BY <1>1, <2>2, <2>3
    <2> HIDE DEF s
    <2>5. Sorted(push(q, m))
      <3> SUFFICES ASSUME NEW i \in 1..Len(s), NEW j \in 1..Len(s), i < j
                   PROVE  Append(Tail(s), m)[i].id < Append(Tail(s), m)[j].id
        BY <2>1, <2>4 DEF Sorted
      <3>1. i \in 1..(Len(s) - 1) /\ i + 1 \in 1..Len(s) /\ Append(Tail(s), m)[i] = s[i + 1]
        BY <1>1, <2>4
      <3>2. CASE j = Len(s)
        BY <1>2, <2>4, <3>1, <3>2
      <3>3. CASE j # Len(s)
        <4>1. j + 1 \in 1..Len(s) /\ Append(Tail(s), m)[j] = s[j + 1] /\ i + 1 < j + 1
          BY <1>1, <2>4, <3>3
        <4> QED
          BY <3>1, <4>1 DEF Sorted, s
      <3> QED
        BY <3>2, <3>3
    <2>6. \A i \in 1..(Len(s) - 1) : s[i + 1] # s[1]
      <3> TAKE i \in 1..(Len(s) - 1)
      <3>1. 1 \in 1..Len(s) /\ i + 1 \in 1..Len(s) /\ 1 < i + 1
        BY <1>1
      <3>2. s[1].id < s[i + 1].id /\ s[1].id \in Nat
        BY <1>2, <3>1 DEF Sorted, s
      <3> QED
        BY <3>2
    <2>7. m # s[1] /\ s[1] \in Elements(q)
      BY <1>1, <1>2, <2>2 DEF Elements, s
    <2>8. Elements(push(q, m)) = (Elements(q) \cup {m}) \ {s[1]}
      <3>1. Elements(push(q, m)) = {Append(Tail(s), m)[i] : i \in 1..Len(s)}
        <4>1. push(q, m).mqueue = Append(Tail(s), m)
          BY <2>1
        <4> QED
          BY <2>4, <4>1, Zenon DEF Elements
      <3>2. ASSUME NEW x \in Elements(push(q, m)) PROVE x \in (Elements(q) \cup {m}) \ {s[1]}
        <4>1. PICK i \in 1..Len(s) : x = Append(Tail(s), m)[i]
          BY <3>1, <3>2
        <4>2. CASE i = Len(s)
          BY <2>4, <2>7, <4>1, <4>2
        <4>3. CASE i # Len(s)
          <5>1. i \in 1..(Len(s) - 1) /\ i + 1 \in 1..Len(s) /\ x = s[i + 1]
            BY <1>1, <2>4, <4>1, <4>3
          <5> QED
            BY <2>6, <5>1 DEF Elements, s
        <4> QED
          BY <4>2, <4>3
      <3>3. ASSUME NEW x \in (Elements(q) \cup {m}) \ {s[1]} PROVE x \in Elements(push(q, m))
        <4>1. CASE x = m
          <5>1. Len(s) \in 1..Len(s)
            BY <1>1, <2>2
          <5> QED
            BY <2>4, <3>1, <4>1, <5>1, Zenon
        <4>2. CASE x \in Elements(q)
          <5>1. PICK j \in 1..Len(s) : x = s[j]
            BY <4>2 DEF Elements, s
          <5>2. j - 1 \in 1..(Len(s) - 1) /\ j - 1 \in 1..Len(s) /\ j = (j - 1) + 1
            BY <1>1, <3>3, <5>1
          <5>3. x = Append(Tail(s), m)[j - 1]
            BY <2>4, <5>1, <5>2
          <5> QED
            BY <3>1, <5>2, <5>3
        <4> QED
          BY <3>3, <4>1, <4>2
      <3> QED
        BY <3>2, <3>3
    <2>9. push(q, m).lost = q.lost + 1
      BY <2>1
    <2> QED
      BY <2>5, <2>7, <2>8, <2>9, Zenon
  <1> QED
    BY <1>3, <1>4, <1>5, StrategyAssumption

\* top() of a sorted queue: the oldest message leaves it.
LEMMA PopElements ==
    ASSUME NEW q \in QueueOf(Message), ~empty(q), Sorted(q)
    PROVE  /\ Sorted(popped(q)) /\ popped(q).lost = q.lost
           /\ front(q) \in Elements(q)
           /\ Elements(popped(q)) = Elements(q) \ {front(q)}
           /\ \A x \in Elements(q) : front(q).id <= x.id
           /\ \A x \in Elements(popped(q)) : front(q).id < x.id
  <1> DEFINE s == q.mqueue
             t == popped(q).mqueue
  <1>1. /\ s \in Seq(Message) /\ Len(s) \in Nat /\ front(q) = s[1] /\ 1 \in 1..Len(s) /\ Len(t) = Len(s) - 1
        /\ \A i \in 1..Len(t) : i + 1 \in 1..Len(s) /\ t[i] = s[i + 1]
    <2>1. s \in Seq(Message) /\ Len(s) \in Nat
      BY DEF QueueOf
    <2> QED
      BY <2>1, PopQueue, Zenon
  <1>2. \A i \in 1..Len(s) : s[i].id \in Nat
    <2>1. \A x \in Message : x.id \in Nat
      BY BoundsAssumption DEF Message
    <2> QED
      BY <1>1, <2>1
  <1>3. popped(q).lost = q.lost
    BY DEF popped, QueueOf
  <1> HIDE DEF s, t
  <1>4. \A i, j \in 1..Len(s) : i < j => s[i].id < s[j].id
    BY DEF Sorted, s
  <1>5. \A i \in 1..Len(s) : i # 1 => s[1].id < s[i].id
    BY <1>1, <1>4
  <1>6. Sorted(popped(q))
    <2> SUFFICES ASSUME NEW i \in 1..Len(t), NEW j \in 1..Len(t), i < j PROVE t[i].id < t[j].id
      BY DEF Sorted, t
    <2>1. i + 1 < j + 1
      BY <1>1
    <2> QED
      BY <1>1, <1>4, <2>1
  <1>7. \A x \in Elements(popped(q)) : x \in Elements(q) /\ s[1].id < x.id
    <2> SUFFICES ASSUME NEW i \in 1..Len(t) PROVE t[i] \in Elements(q) /\ s[1].id < t[i].id
      BY DEF Elements, t
    <2>1. i + 1 \in 1..Len(s) /\ t[i] = s[i + 1] /\ i + 1 # 1
      BY <1>1
    <2> QED
      BY <1>5, <2>1 DEF Elements, s
  <1>8. ASSUME NEW x \in Elements(q), x # s[1] PROVE x \in Elements(popped(q))
    <2>1. PICK j \in 1..Len(s) : x = s[j]
      BY <1>8 DEF Elements, s
    <2>2. j - 1 \in 1..Len(t) /\ t[j - 1] = s[j]
      BY <1>1, <1>8, <2>1
    <2> QED
      BY <2>1, <2>2 DEF Elements, t
  <1>9. s[1] \in Elements(q)
    BY <1>1 DEF Elements, s
  <1>10. Elements(popped(q)) = Elements(q) \ {s[1]}
    BY <1>1, <1>2, <1>7, <1>8
  <1>11. \A x \in Elements(q) : s[1].id <= x.id
    BY <1>1, <1>2, <1>5 DEF Elements, s
  <1> QED
    BY <1>1, <1>3, <1>6, <1>7, <1>9, <1>10, <1>11

\* A message waits if some queue holds it.
LEMMA QueuedElements == \A x : x \in Queued <=> \E p \in Priorities : x \in Elements(queue[p])
  BY Zenon DEF Queued, Elements

\* What waits after one queue has changed.
LEMMA QueueChanges ==
    ASSUME queue \in [Priorities -> QueueOf(Message)], NEW prio \in Priorities, NEW r,
           queue' = [queue EXCEPT ![prio] = r]
    PROVE  \A x : x \in Queued' <=> x \in Elements(r) \/ \E p \in Priorities \ {prio} : x \in Elements(queue[p])
  <1>1. queue'[prio] = r /\ \A p \in Priorities \ {prio} : queue'[p] = queue[p]
    OBVIOUS
  <1>2. Queued' = UNION {{queue'[p].mqueue[i] : i \in 1..Len(queue'[p].mqueue)} : p \in Priorities}
    BY DEF Queued, Priorities
  <1>3. \A x : x \in Queued' <=> \E p \in Priorities : x \in Elements(queue'[p])
    BY <1>2, Zenon DEF Elements
  <1> QED
    BY <1>1, <1>3

-----------------------------------------------------------------------------
(* The invariant                                                           *)

\* The queues are sorted by age, and what has been taken from them is older
\* than what still waits at the same priority.
OrderInv ==
    /\ \A p \in Priorities : Sorted(queue[p])
    /\ \A x \in Queued : x.id <= Len(sent)
    /\ \A k \in 1..Len(got) :
          /\ got[k].id <= Len(sent)
          /\ \A x \in Queued : x.prio = got[k].prio => got[k].id < x.id
    /\ cur # NoMessage =>
          /\ pc = "process"
          /\ cur.id <= Len(sent)
          /\ \A x \in Queued : x.prio = cur.prio => cur.id < x.id
          /\ \A k \in 1..Len(got) : got[k].prio = cur.prio => got[k].id < cur.id
    /\ OrderKept

\* What waits is a message of the priority of its queue.
LEMMA WaitingType ==
    ASSUME ObjectInv, PriorityInv
    PROVE  /\ \A p \in Priorities : \A x \in Elements(queue[p]) : x \in Message /\ x.prio = p
           /\ \A x \in Queued : x \in Message
           /\ \A x \in Message : x.id \in Nat /\ x.prio \in Priorities /\ x # NoMessage
  <1>1. queue \in [Priorities -> QueueOf(Message)]
    BY DEF ObjectInv, TypeOK, QueueOf
  <1>2. ASSUME NEW p \in Priorities, NEW x \in Elements(queue[p]) PROVE x \in Message /\ x.prio = p
    <2>1. queue[p].mqueue \in Seq(Message)
      BY <1>1 DEF QueueOf
    <2>2. PICK i \in 1..Len(queue[p].mqueue) : x = queue[p].mqueue[i]
      BY <1>2 DEF Elements
    <2>3. x \in Message
      BY <2>1, <2>2
    <2> QED
      BY <2>2, <2>3 DEF PriorityInv
  <1>3. \A x \in Message : x.id \in Nat /\ x.prio \in Priorities /\ x # NoMessage
    BY BoundsAssumption DEF Message, NoMessage
  <1> QED
    BY <1>2, <1>3, QueuedElements

\* The counter of all queues, when one of them changes.
LEMMA LostChanges ==
    ASSUME ObjectInv, NEW prio \in Priorities, NEW r \in QueueOf(Message), NEW n \in {0, 1},
           queue' = [queue EXCEPT ![prio] = r], r.lost = queue[prio].lost + n
    PROVE  Lost' = Lost + n /\ Lost \in Nat
  <1>1. queue \in [Priorities -> QueueOf(Message)]
    BY DEF ObjectInv, TypeOK, QueueOf
  <1>2. \A p \in Priorities : queue[p].lost \in Nat
    BY <1>1 DEF QueueOf
  <1>3. \A p \in Priorities : queue'[p].lost = IF p = prio THEN queue[p].lost + n ELSE queue[p].lost
    BY <1>1
  <1> QED
    BY <1>2, <1>3 DEF Lost, Priorities

-----------------------------------------------------------------------------
(* The steps of the object, seen from outside                              *)

\* deactivate() has returned true.
Returned == dpc \in {"unstarted", "done"}

\* What of a step shows outside, when a message is pushed ...
PushStep(m) ==
    /\ m.id = Len(sent) + 1 /\ m \notin Queued
    /\ Len(sent') = Len(sent) + 1
    /\ \A p \in Priorities : Sorted(queue'[p])
    /\ \/ Queued' = Queued \cup {m} /\ Lost' = Lost
       \/ \E x \in Queued \cup {m} :
             x.prio = m.prio /\ Queued' = (Queued \cup {m}) \ {x} /\ Lost' = Lost + 1
    /\ cur' = cur /\ got' = got /\ Returned' = Returned
    /\ cur # NoMessage => pc' = "process"

\* ... when it is taken from its queue ...
TakeStep(m) ==
    /\ cur = NoMessage /\ InCallback /\ pc' = "process"
    /\ cur' = m
    /\ Queued' = Queued \ {m}
    /\ \A p \in Priorities : Sorted(queue'[p])
    /\ \A x \in Queued : x.prio = m.prio => m.id <= x.id
    /\ \A x \in Queued' : x.prio = m.prio => m.id < x.id
    /\ Lost' = Lost /\ sent' = sent /\ got' = got /\ dpc' = dpc

\* ... when it has been handled ...
HandleStep ==
    /\ cur # NoMessage /\ InCallback
    /\ got' = Append(got, cur)
    /\ cur' = NoMessage
    /\ UNCHANGED <<queue, sent, dpc>>

\* ... when deactivate() succeeds, and in all other cases.
CloseStep ==
    /\ ~InCallback /\ pc' = pc /\ Returned'
    /\ UNCHANGED <<queue, sent, cur, got>>

QuietStep ==
    /\ UNCHANGED <<queue, sent, cur, got>>
    /\ Returned' = Returned
    /\ cur # NoMessage => pc' = "process"

\* push() by a producer or by checkTimers().
LEMMA PushIsPush ==
    ASSUME ObjectInv, PriorityInv, OrderInv, NEW prio \in Priorities, NEW from \in Producers \cup TimerIds,
           Len(sent) + 1 <= MaxMessages + MaxFired,
           queue' = [queue EXCEPT ![prio] = push(@, [id |-> Len(sent) + 1, from |-> from, prio |-> prio])],
           sent' = Append(sent, [id |-> Len(sent) + 1, from |-> from, prio |-> prio]),
           UNCHANGED <<cur, got, dpc>>, cur # NoMessage => pc' = "process"
    PROVE  \E m \in Message : PushStep(m)
  <1>a. PICK m : m = [id |-> Len(sent) + 1, from |-> from, prio |-> prio]
    OBVIOUS
  <1>b. m.id = Len(sent) + 1 /\ m.prio = prio
    BY <1>a
  <1>c. queue' = [queue EXCEPT ![prio] = push(@, m)] /\ sent' = Append(sent, m)
    BY <1>a
  <1>1. m \in Message /\ Len(sent') = Len(sent) + 1
    BY <1>a, PushKeeps
  <1>2. queue \in [Priorities -> QueueOf(Message)] /\ Len(sent) \in Nat /\ m.id = Len(sent) + 1 /\ m.prio = prio
    BY <1>b DEF ObjectInv, TypeOK, QueueOf
  <1> DEFINE r == push(queue[prio], m)
  <1>3. queue' = [queue EXCEPT ![prio] = r]
    BY <1>c
  <1>4. queue[prio] \in QueueOf(Message) /\ Len(queue[prio].mqueue) <= SizeOfMessageQueue /\ Sorted(queue[prio])
    BY <1>2 DEF ObjectInv, QueuesBounded, OrderInv
  <1>5. \A x \in Queued : x.id \in Nat /\ x.id < m.id
    BY <1>2, WaitingType DEF OrderInv
  <1>6. \A x \in Elements(queue[prio]) : x \in Queued /\ x.id < m.id
    BY <1>5, QueuedElements
  <1>7. r \in QueueOf(Message)
    BY <1>1, <1>4, PushQueue
  <1>8. /\ Sorted(r)
        /\ \/ Elements(r) = Elements(queue[prio]) \cup {m} /\ r.lost = queue[prio].lost
           \/ \E x \in Elements(queue[prio]) \cup {m} :
                 Elements(r) = (Elements(queue[prio]) \cup {m}) \ {x} /\ r.lost = queue[prio].lost + 1
    BY <1>1, <1>4, <1>6, PushElements
  <1> HIDE DEF r
  <1>9. queue'[prio] = r /\ \A p \in Priorities \ {prio} : queue'[p] = queue[p]
    BY <1>2, <1>3
  <1>10. \A p \in Priorities : Sorted(queue'[p])
    BY <1>8, <1>9 DEF OrderInv
  <1>11. m \notin Queued
    BY <1>5
  <1>12. \A x : x \in Queued' <=> x \in Elements(r) \/ \E p \in Priorities \ {prio} : x \in Elements(queue[p])
    BY <1>2, <1>3, QueueChanges
  <1>13. queue[prio].lost \in Nat
    BY <1>4 DEF QueueOf
  <1>13a. cur' = cur /\ got' = got /\ Returned' = Returned
    BY DEF Returned
  <1>14. CASE Elements(r) = Elements(queue[prio]) \cup {m} /\ r.lost = queue[prio].lost
    <2>1. Queued' = Queued \cup {m}
      BY <1>12, <1>14, QueuedElements
    <2>2. r.lost = queue[prio].lost + 0
      BY <1>13, <1>14
    <2>3. Lost' = Lost + 0 /\ Lost \in Nat
      BY <1>3, <1>7, <2>2, LostChanges
    <2>4. Lost' = Lost
      BY <2>3
    <2> QED
      BY <1>1, <1>2, <1>10, <1>11, <1>13a, <2>1, <2>4, Zenon DEF PushStep
  <1>15. ASSUME NEW x \in Elements(queue[prio]) \cup {m},
                Elements(r) = (Elements(queue[prio]) \cup {m}) \ {x}, r.lost = queue[prio].lost + 1
         PROVE  PushStep(m)
    <2>1. x \in Queued \cup {m} /\ x.prio = prio
      BY <1>2, <1>6, <1>15, WaitingType
    <2>2. \A p \in Priorities \ {prio} : x \notin Elements(queue[p])
      BY <2>1, WaitingType
    <2>3. Queued' = (Queued \cup {m}) \ {x}
      BY <1>12, <1>15, <2>2, QueuedElements
    <2>4. Lost' = Lost + 1
      BY <1>3, <1>7, <1>15, LostChanges
    <2> QED
      BY <1>1, <1>2, <1>10, <1>11, <1>13a, <2>1, <2>3, <2>4, Zenon DEF PushStep
  <1> QED
    BY <1>1, <1>8, <1>14, <1>15

\* receiveMessage() of a queue that is not empty.
LEMMA ReceiveIsTake ==
    ASSUME ObjectInv, PriorityInv, OrderInv, NEW prio \in Priorities, Receive(prio), ~empty(queue[prio])
    PROVE  \E m \in Queued : TakeStep(m)
  <1>1. queue \in [Priorities -> QueueOf(Message)]
    BY DEF ObjectInv, TypeOK, QueueOf
  <1> DEFINE r == popped(queue[prio])
             m == front(queue[prio])
  <1>2. queue[prio] \in QueueOf(Message) /\ Sorted(queue[prio])
    BY <1>1 DEF OrderInv
  <1>3. r \in QueueOf(Message) /\ m \in Message
    BY <1>2, PopQueue
  <1>4. /\ Sorted(r) /\ r.lost = queue[prio].lost
        /\ m \in Elements(queue[prio])
        /\ Elements(r) = Elements(queue[prio]) \ {m}
        /\ \A x \in Elements(queue[prio]) : m.id <= x.id
        /\ \A x \in Elements(r) : m.id < x.id
    BY <1>2, PopElements
  <1>5. pc = prio /\ pc' = "process" /\ cur' = m /\ queue' = [queue EXCEPT ![prio] = r] /\ UNCHANGED <<sent, got, dpc>>
    BY DEF Receive, history, others
  <1> HIDE DEF r, m
  <1>6. cur = NoMessage /\ InCallback
    BY <1>5 DEF OrderInv, Priorities, InCallback
  <1>7. m.prio = prio /\ m \in Queued
    BY <1>4, WaitingType, QueuedElements
  <1>8. \A p \in Priorities \ {prio} : m \notin Elements(queue[p])
    BY <1>7, WaitingType
  <1>9. Queued' = Queued \ {m}
    <2>1. \A x : x \in Queued' <=> x \in Elements(r) \/ \E p \in Priorities \ {prio} : x \in Elements(queue[p])
      BY <1>1, <1>5, QueueChanges
    <2> QED
      BY <1>4, <1>8, <2>1, QueuedElements
  <1>10. \A x \in Queued : x.prio = prio => x \in Elements(queue[prio])
    BY WaitingType, QueuedElements
  <1>11. \A x \in Queued : x.prio = m.prio => m.id <= x.id
    BY <1>4, <1>7, <1>10
  <1>12. \A x \in Queued' : x.prio = m.prio => m.id < x.id
    BY <1>4, <1>7, <1>9, <1>10
  <1>13. \A p \in Priorities : Sorted(queue'[p])
    BY <1>1, <1>4, <1>5 DEF OrderInv
  <1>14. Lost' = Lost
    <2>1. queue[prio].lost \in Nat
      BY <1>2 DEF QueueOf
    <2>2. r.lost = queue[prio].lost + 0
      BY <1>4, <2>1
    <2>3. Lost' = Lost + 0 /\ Lost \in Nat
      BY <1>3, <1>5, <2>2, LostChanges
    <2> QED
      BY <2>3
  <1> QED
    BY <1>5, <1>6, <1>7, <1>9, <1>11, <1>12, <1>13, <1>14 DEF TakeStep

\* The steps of the message thread.
LEMMA ThreadShows ==
    ASSUME ObjectInv, PriorityInv, OrderInv, Thread
    PROVE  \/ \E m \in Message : PushStep(m)
           \/ \E m \in Queued : TakeStep(m)
           \/ HandleStep
           \/ QuietStep
  <1>1. cur # NoMessage => pc = "process"
    BY DEF OrderInv
  <1>2. CASE ThreadStart \/ ThreadLoop \/ WaitBegins \/ WaitEnds \/ SetSleepTime \/ ThreadStop \/ ThreadNotify
    BY <1>1, <1>2 DEF ThreadStart, ThreadLoop, WaitBegins, WaitEnds, SetSleepTime, ThreadStop, ThreadNotify,
                history, others, QuietStep, Returned
  <1>3. CASE CheckTimersEmpty \/ CheckTimersSoon \/ CheckTimersEnd
             \/ \E expired \in SUBSET TimerIds : CheckTimersLock(expired)
    BY <1>1, <1>3 DEF CheckTimersEmpty, CheckTimersSoon, CheckTimersEnd, CheckTimersLock, history, others,
                QuietStep, Returned
  <1>4. CASE ProcessingMessage
    <2>1. CASE cur = NoMessage
      BY <1>4, <2>1 DEF ProcessingMessage, others, QuietStep, Returned
    <2>2. CASE cur # NoMessage
      BY <1>4, <2>2 DEF ProcessingMessage, others, HandleStep, InCallback
    <2> QED
      BY <2>1, <2>2
  <1>5. ASSUME NEW t \in TimerIds, NEW last \in BOOLEAN, CheckTimersFire(t, last) PROVE \E m \in Message : PushStep(m)
    <2>1. /\ fired < MaxFired
          /\ queue' = [queue EXCEPT !["Hi"] = push(@, [id |-> Len(sent) + 1, from |-> t, prio |-> "Hi"])]
          /\ sent' = Append(sent, [id |-> Len(sent) + 1, from |-> t, prio |-> "Hi"])
          /\ UNCHANGED <<cur, got, dpc>> /\ pc = "fire"
      BY <1>5 DEF CheckTimersFire, others
    <2>2. /\ fired \in 0..MaxFired /\ MaxFired \in Nat /\ MaxMessages \in Nat
          /\ Len(sent) - fired <= MaxMessages /\ Len(sent) \in Nat
      BY BoundsAssumption DEF ObjectInv, TypeOK, SentBounded
    <2>3. Len(sent) + 1 <= MaxMessages + MaxFired
      BY <2>1, <2>2
    <2>4. "Hi" \in Priorities /\ t \in Producers \cup TimerIds /\ cur = NoMessage
      BY <1>1, <2>1 DEF Priorities
    <2> QED
      BY <2>1, <2>3, <2>4, PushIsPush
  <1>6. ASSUME NEW prio \in Priorities, Receive(prio)
        PROVE  QuietStep \/ \E m \in Queued : TakeStep(m)
    <2>1. CASE empty(queue[prio])
      <3>1. pc = prio /\ UNCHANGED <<queue, sent, cur, got, dpc>>
        BY <1>6, <2>1 DEF Receive, history, others
      <3> QED
        BY <1>1, <3>1 DEF QuietStep, Returned, Priorities
    <2>2. CASE ~empty(queue[prio])
      BY <1>6, <2>2, ReceiveIsTake
    <2> QED
      BY <2>1, <2>2
  <1> QED
    BY <1>2, <1>3, <1>4, <1>5, <1>6 DEF Thread

\* Every step of the object is one of the mailbox, or shows nothing.
LEMMA Steps ==
    ASSUME ObjectInv, PriorityInv, OrderInv, [Next]_vars
    PROVE  \/ \E m \in Message : PushStep(m)
           \/ \E m \in Queued : TakeStep(m)
           \/ HandleStep
           \/ CloseStep
           \/ QuietStep
  <1>1. cur # NoMessage => pc = "process"
    BY DEF OrderInv
  <1>2. CASE Thread
    BY <1>2, ThreadShows
  <1>3. ASSUME NEW p \in Producers, NEW prio \in Used, Push(p, prio) PROVE \E m \in Message : PushStep(m)
    <2>1. /\ Len(sent) - fired < MaxMessages
          /\ queue' = [queue EXCEPT ![prio] = push(@, [id |-> Len(sent) + 1, from |-> p, prio |-> prio])]
          /\ sent' = Append(sent, [id |-> Len(sent) + 1, from |-> p, prio |-> prio])
          /\ UNCHANGED <<cur, got, dpc>> /\ pc' = pc
      BY <1>3 DEF Push, thread
    <2>2. Len(sent) \in Nat /\ fired \in 0..MaxFired /\ MaxFired \in Nat /\ MaxMessages \in Nat
      BY BoundsAssumption DEF ObjectInv, TypeOK
    <2>3. Len(sent) + 1 <= MaxMessages + MaxFired /\ prio \in Priorities /\ p \in Producers \cup TimerIds
      BY <2>1, <2>2, UsedAssumption
    <2> QED
      BY <1>1, <2>1, <2>3, PushIsPush
  <1>4. /\ \A p \in Producers : TermWaiting(p) => QuietStep
        /\ \A t \in TimerIds : AskTimer(t) \/ AskTimerAgain(t) \/ CancelTimer(t) => QuietStep
        /\ AskTimerSleep \/ AskTimerReturns \/ AskTimerTerm \/ UNCHANGED vars => QuietStep
        /\ DeactivateInactive \/ Deactivate \/ DeactivateTerm \/ DeactivateFails => QuietStep
    BY <1>1 DEF TermWaiting, AskTimer, AskTimerAgain, CancelTimer, AskTimerSleep, AskTimerReturns, AskTimerTerm,
           DeactivateInactive, Deactivate, DeactivateTerm, DeactivateFails, vars, thread, history, others,
           QuietStep, Returned
  <1>5. CASE Activate
    BY <1>1, <1>5 DEF Activate, SetActive, CreateThread, StartThread, history, others, QuietStep, Returned
  <1>6. CASE WaitFinishNoThread \/ Join
    BY <1>6 DEF WaitFinishNoThread, Join, Running, CloseStep, Returned, InCallback, Priorities, thread, history
  <1>7. CASE WaitFinish
    <2>1. CASE Running
      BY <1>1, <1>7, <2>1 DEF WaitFinish, QuietStep, Returned, thread, history
    <2>2. CASE ~Running
      BY <1>7, <2>2 DEF WaitFinish, Running, CloseStep, Returned, InCallback, Priorities, thread, history
    <2> QED
      BY <2>1, <2>2
  <1> QED
    BY <1>2, <1>3, <1>4, <1>5, <1>6, <1>7 DEF Next

-----------------------------------------------------------------------------
(* Messages of one priority are handled in the order they were pushed      *)

\* Every step keeps the invariant.
LEMMA NextOrder == ObjectInv /\ PriorityInv /\ OrderInv /\ [Next]_vars => OrderInv'
  <1> SUFFICES ASSUME ObjectInv, PriorityInv, OrderInv, [Next]_vars PROVE OrderInv'
    OBVIOUS
  <1>1. /\ Len(sent) \in Nat /\ got \in Seq(Message) /\ Len(got) \in Nat
        /\ \A k \in 1..Len(got) : got[k] \in Message
        /\ cur # NoMessage => cur \in Message
    BY DEF ObjectInv, TypeOK
  <1>2. /\ \A x \in Queued : x \in Message
        /\ \A x \in Message : x.id \in Nat /\ x.prio \in Priorities /\ x # NoMessage
    BY WaitingType
  <1>3. CASE \E m \in Message : PushStep(m)
    <2>1. PICK m \in Message : PushStep(m)
      BY <1>3
    <2>2. /\ m.id = Len(sent) + 1 /\ Len(sent') = Len(sent) + 1
          /\ cur' = cur /\ got' = got /\ (cur # NoMessage => pc' = "process")
          /\ \A p \in Priorities : Sorted(queue'[p])
      BY <2>1 DEF PushStep
    <2>3. Queued' \subseteq Queued \cup {m}
      BY <2>1 DEF PushStep
    <2>4. /\ \A x \in Queued : x.id <= Len(sent)
          /\ \A k \in 1..Len(got) : /\ got[k].id <= Len(sent)
                                    /\ \A x \in Queued : x.prio = got[k].prio => got[k].id < x.id
          /\ cur # NoMessage => /\ pc = "process" /\ cur.id <= Len(sent)
                                /\ \A x \in Queued : x.prio = cur.prio => cur.id < x.id
                                /\ \A k \in 1..Len(got) : got[k].prio = cur.prio => got[k].id < cur.id
          /\ OrderKept
      BY DEF OrderInv
    <2>5. \A x \in Queued' : x.id <= Len(sent')
      BY <1>1, <1>2, <2>2, <2>3, <2>4
    <2>6. \A k \in 1..Len(got') : /\ got'[k].id <= Len(sent')
                                  /\ \A x \in Queued' : x.prio = got'[k].prio => got'[k].id < x.id
      BY <1>1, <1>2, <2>2, <2>3, <2>4
    <2>7. cur' # NoMessage => /\ pc' = "process" /\ cur'.id <= Len(sent')
                              /\ \A x \in Queued' : x.prio = cur'.prio => cur'.id < x.id
                              /\ \A k \in 1..Len(got') : got'[k].prio = cur'.prio => got'[k].id < cur'.id
      BY <1>1, <1>2, <2>2, <2>3, <2>4, SMTT(30)
    <2>8. OrderKept'
      BY <2>2, <2>4 DEF OrderKept
    <2> QED
      BY <2>2, <2>5, <2>6, <2>7, <2>8 DEF OrderInv
  <1>4. CASE \E m \in Queued : TakeStep(m)
    <2>1. PICK m \in Queued : TakeStep(m)
      BY <1>4
    <2>2. /\ cur' = m /\ pc' = "process" /\ Queued' = Queued \ {m} /\ UNCHANGED <<sent, got>>
          /\ \A p \in Priorities : Sorted(queue'[p])
          /\ \A x \in Queued' : x.prio = m.prio => m.id < x.id
      BY <2>1 DEF TakeStep
    <2> QED
      BY <1>1, <1>2, <2>2 DEF OrderInv, OrderKept
  <1>5. CASE HandleStep
    <2>1. /\ cur # NoMessage /\ cur' = NoMessage /\ got' = Append(got, cur) /\ UNCHANGED <<queue, sent>>
      BY <1>5 DEF HandleStep
    <2>2. /\ Len(got') = Len(got) + 1 /\ got'[Len(got) + 1] = cur
          /\ \A k \in 1..Len(got) : got'[k] = got[k]
      BY <1>1, <2>1
    <2>3. Queued' = Queued
      BY <2>1 DEF Queued
    <2>4. \A k \in 1..Len(got') : k \in 1..Len(got) \/ k = Len(got) + 1
      BY <1>1, <2>2
    <2>5. \A p \in Priorities : Sorted(queue'[p])
      BY <2>1 DEF OrderInv
    <2>6. \A x \in Queued' : x.id <= Len(sent')
      BY <2>1, <2>3 DEF OrderInv
    <2>7. \A k \in 1..Len(got') :
             /\ got'[k].id <= Len(sent')
             /\ \A x \in Queued' : x.prio = got'[k].prio => got'[k].id < x.id
      BY <2>1, <2>2, <2>3, <2>4 DEF OrderInv
    <2>8. OrderKept'
      <3> SUFFICES ASSUME NEW i \in 1..Len(got'), NEW j \in 1..Len(got'), i < j, got'[i].prio = got'[j].prio
                   PROVE  got'[i].id < got'[j].id
        BY DEF OrderKept
      <3>1. i \in 1..Len(got) /\ got'[i] = got[i]
        BY <1>1, <2>2
      <3>2. CASE j \in 1..Len(got)
        BY <2>2, <3>1, <3>2 DEF OrderInv, OrderKept
      <3>3. CASE j = Len(got) + 1
        BY <2>1, <2>2, <3>1, <3>3 DEF OrderInv
      <3> QED
        BY <2>4, <3>2, <3>3
    <2> QED
      BY <2>1, <2>5, <2>6, <2>7, <2>8 DEF OrderInv
  <1>6. CASE CloseStep \/ QuietStep
    <2>1. UNCHANGED <<queue, sent, cur, got>> /\ (cur # NoMessage => pc' = "process")
      BY <1>6 DEF CloseStep, QuietStep, OrderInv, InCallback
    <2>2. Queued' = Queued
      BY <2>1 DEF Queued
    <2> QED
      BY <2>1, <2>2 DEF OrderInv, OrderKept
  <1> QED
    BY <1>3, <1>4, <1>5, <1>6, Steps

\* At the start nothing waits.
LEMMA InitEmpty == Init => Queued = {} /\ Lost = 0
  <1> SUFFICES ASSUME Init PROVE Queued = {} /\ Lost = 0
    OBVIOUS
  <1>1. \A p \in Priorities : queue[p].mqueue = <<>> /\ queue[p].lost = 0
    BY DEF Init, EmptyQueue
  <1>2. \A p \in Priorities : Elements(queue[p]) = {}
    BY <1>1 DEF Elements
  <1> QED
    BY <1>1, <1>2, QueuedElements DEF Lost, Priorities

\* The initial state satisfies the invariant.
LEMMA InitOrder == Init => OrderInv
  <1> SUFFICES ASSUME Init PROVE OrderInv
    OBVIOUS
  <1>1. \A p \in Priorities : queue[p].mqueue = <<>>
    BY DEF Init, EmptyQueue
  <1>2. \A p \in Priorities : Sorted(queue[p])
    BY <1>1 DEF Sorted
  <1>3. got = <<>> /\ cur = NoMessage
    BY DEF Init
  <1> QED
    BY <1>2, <1>3, InitEmpty DEF OrderInv, OrderKept

\* The invariants of UniSetObject's message thread together.
LEMMA Invariant == Spec => [](ObjectInv /\ PriorityInv /\ OrderInv /\ HandlerInv)
  <1>1. Init => PriorityInv
    BY DEF Init, PriorityInv, EmptyQueue, Passed, Priorities
  <1> QED
    BY <1>1, InitInv, InitOrder, InitHandler, NextInv, NextPriority, NextOrder, NextHandler, PTL DEF Spec

\* processingMessage() sees the messages of one priority in the order of the
\* calls of push(), and none of them twice: for any number of producers and
\* timers, and any overflow of the queues.
THEOREM OrderCorrect == Spec => []OrderKept
  <1>1. OrderInv => OrderKept
    BY DEF OrderInv
  <1> QED
    BY <1>1, Invariant, PTL

-----------------------------------------------------------------------------
(* No message vanishes unnoticed                                           *)

CountInv == IsFiniteSet(Queued) /\ Conservation

\* Every step keeps the balance of messages.
LEMMA NextCount == ObjectInv /\ PriorityInv /\ OrderInv /\ CountInv /\ [Next]_vars => CountInv'
  <1> SUFFICES ASSUME ObjectInv, PriorityInv, OrderInv, CountInv, [Next]_vars PROVE CountInv'
    OBVIOUS
  <1> DEFINE c == Cardinality(Queued)
  <1>1. Len(sent) \in Nat /\ got \in Seq(Message) /\ Len(got) \in Nat /\ Lost \in Nat
    <2>1. queue \in [Priorities -> QueueOf(Message)]
      BY DEF ObjectInv, TypeOK, QueueOf
    <2>2. \A p \in Priorities : queue[p].lost \in Nat
      BY <2>1 DEF QueueOf
    <2>3. Lost \in Nat
      BY <2>2 DEF Lost, Priorities
    <2> QED
      BY <2>3 DEF ObjectInv, TypeOK
  <1>2. IsFiniteSet(Queued) /\ c \in Nat
    BY FS_CardinalityType DEF CountInv
  <1>3. Len(sent) = c + Len(got) + (IF cur = NoMessage THEN 0 ELSE 1) + Lost
    BY DEF CountInv, Conservation
  <1> HIDE DEF c
  <1>4. \A x \in Message : x # NoMessage
    BY WaitingType
  <1>5. CASE \E m \in Message : PushStep(m)
    <2>1. PICK m \in Message : PushStep(m)
      BY <1>5
    <2>2. Len(sent') = Len(sent) + 1 /\ cur' = cur /\ got' = got /\ m \notin Queued
      BY <2>1 DEF PushStep
    <2>3. IsFiniteSet(Queued \cup {m}) /\ Cardinality(Queued \cup {m}) = c + 1
      BY <1>2, <2>2, FS_AddElement DEF c
    <2>4. CASE Queued' = Queued \cup {m} /\ Lost' = Lost
      BY <1>1, <1>2, <1>3, <2>2, <2>3, <2>4 DEF CountInv, Conservation
    <2>5. CASE \E x \in Queued \cup {m} : Queued' = (Queued \cup {m}) \ {x} /\ Lost' = Lost + 1
      <3>1. PICK x \in Queued \cup {m} : Queued' = (Queued \cup {m}) \ {x} /\ Lost' = Lost + 1
        BY <2>5
      <3>2. IsFiniteSet(Queued') /\ Cardinality(Queued') = c
        <4>1. IsFiniteSet(Queued') /\ Cardinality(Queued') = Cardinality(Queued \cup {m}) - 1
          BY <2>3, <3>1, FS_RemoveElement
        <4> QED
          BY <1>2, <2>3, <4>1
      <3> QED
        BY <1>1, <1>2, <1>3, <2>2, <3>1, <3>2 DEF CountInv, Conservation
    <2> QED
      BY <2>1, <2>4, <2>5 DEF PushStep
  <1>6. CASE \E m \in Queued : TakeStep(m)
    <2>1. PICK m \in Queued : TakeStep(m)
      BY <1>6
    <2>2. /\ cur = NoMessage /\ cur' = m /\ m # NoMessage /\ Queued' = Queued \ {m} /\ UNCHANGED <<sent, got>>
          /\ Lost' = Lost
      BY <1>4, <2>1, WaitingType DEF TakeStep
    <2>3. IsFiniteSet(Queued') /\ Cardinality(Queued') = c - 1
      BY <1>2, <2>2, FS_RemoveElement DEF c
    <2> QED
      BY <1>1, <1>2, <1>3, <2>2, <2>3 DEF CountInv, Conservation
  <1>7. CASE HandleStep
    <2>1. cur # NoMessage /\ cur' = NoMessage /\ got' = Append(got, cur) /\ UNCHANGED <<queue, sent>>
      BY <1>7 DEF HandleStep
    <2>2. Queued' = Queued /\ Lost' = Lost
      BY <2>1 DEF Queued, Lost
    <2>3. Len(got') = Len(got) + 1
      BY <1>1, <2>1
    <2> QED
      BY <1>1, <1>2, <1>3, <2>1, <2>2, <2>3 DEF CountInv, Conservation, c
  <1>8. CASE CloseStep \/ QuietStep
    <2>1. UNCHANGED <<queue, sent, cur, got>>
      BY <1>8 DEF CloseStep, QuietStep
    <2>2. Queued' = Queued /\ Lost' = Lost
      BY <2>1 DEF Queued, Lost
    <2> QED
      BY <2>1, <2>2 DEF CountInv, Conservation
  <1> QED
    BY <1>5, <1>6, <1>7, <1>8, Steps

\* Every pushed message waits, is in work, has been handled, or is counted
\* as lost.
THEOREM ConservationCorrect == Spec => []Conservation
  <1>1. Init => CountInv
    <2> SUFFICES ASSUME Init PROVE CountInv
      OBVIOUS
    <2>1. sent = <<>> /\ got = <<>> /\ cur = NoMessage
      BY DEF Init
    <2> QED
      BY <2>1, InitEmpty, FS_EmptySet DEF CountInv, Conservation
  <1>2. CountInv => Conservation
    BY DEF CountInv
  <1> QED
    BY <1>1, <1>2, Invariant, NextCount, PTL DEF Spec

-----------------------------------------------------------------------------
(* The refinement                                                          *)

\* Every step of the object is a step of the mailbox or leaves it unchanged.
LEMMA StepRefines ==
    ASSUME ObjectInv, PriorityInv, OrderInv, HandlerInv, [Next]_vars
    PROVE  [M!Next]_(M!mailbox)
  <1>r. InCallback => ~Returned
    BY DEF HandlerInv, NoHandlerAfterDeactivate, Returned, InCallback, Priorities
  <1> USE DEF Returned
  <1>1. CASE \E m \in Message : PushStep(m)
    <2>1. PICK m \in Message : PushStep(m)
      BY <1>1
    <2>2. CASE Queued' = Queued \cup {m} /\ Lost' = Lost
      <3>1. M!Send(m)
        BY <2>1, <2>2 DEF PushStep, M!Send
      <3> QED
        BY <3>1 DEF M!Next
    <2>3. CASE \E x \in Queued \cup {m} :
                  x.prio = m.prio /\ Queued' = (Queued \cup {m}) \ {x} /\ Lost' = Lost + 1
      <3>1. M!SendDropping(m)
        BY <2>1, <2>3 DEF PushStep, M!SendDropping
      <3> QED
        BY <3>1 DEF M!Next
    <2> QED
      BY <2>1, <2>2, <2>3 DEF PushStep
  <1>2. CASE \E m \in Queued : TakeStep(m)
    <2>1. PICK m \in Queued : TakeStep(m)
      BY <1>2
    <2>2. M!Take(m)
      BY <1>r, <2>1 DEF TakeStep, M!Take, M!Oldest
    <2> QED
      BY <2>2 DEF M!Next
  <1>3. CASE HandleStep
    <2>1. Queued' = Queued /\ Lost' = Lost
      BY <1>3 DEF HandleStep, Queued, Lost
    <2>2. M!Handle
      BY <1>3, <1>r, <2>1 DEF HandleStep, M!Handle
    <2> QED
      BY <2>2 DEF M!Next
  <1>4. CASE CloseStep
    <2>1. Queued' = Queued /\ Lost' = Lost
      BY <1>4 DEF CloseStep, Queued, Lost
    <2>2. cur = NoMessage
      BY <1>4 DEF CloseStep, OrderInv, InCallback
    <2>3. M!Close
      BY <1>4, <2>1, <2>2 DEF CloseStep, M!Close
    <2> QED
      BY <2>3 DEF M!Next
  <1>5. CASE QuietStep
    <2>1. Queued' = Queued /\ Lost' = Lost
      BY <1>5 DEF QuietStep, Queued, Lost
    <2> QED
      BY <1>5, <2>1 DEF QuietStep, M!mailbox
  <1> QED
    BY <1>1, <1>2, <1>3, <1>4, <1>5, Steps

\* The queues, the thread, the timers and deactivate() of UniSetObject.cc
\* implement the mailbox, for any number of producers and timers, any size
\* of the queues and either strategy of overflow.
THEOREM MailboxCorrect == Spec => ImplementsMailbox
  <1>1. Init => M!Init
    BY InitEmpty DEF Init, M!Init
  <1>2. ObjectInv /\ PriorityInv /\ OrderInv /\ HandlerInv /\ [Next]_vars => [M!Next]_(M!mailbox)
    BY StepRefines
  <1> QED
    BY <1>1, <1>2, Invariant, PTL DEF Spec, M!Spec, ImplementsMailbox
=============================================================================
