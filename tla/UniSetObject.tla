---------------------------- MODULE UniSetObject ----------------------------
(***************************************************************************)
(* The message thread of an object (src/Core/UniSetObject.cc): three       *)
(* queues by priority, callers of push() in other threads, the local       *)
(* timers (LT_Object), the timer the thread sleeps on (PassiveCondTimer),  *)
(* the end of activate(), which starts the thread, and deactivate().       *)
(*                                                                         *)
(* One step is one critical section: an operation of a queue, wait() taking *)
(* the mutex, terminate(), one reading of a flag.                          *)
(***************************************************************************)
EXTENDS MQMutex, FiniteSets

CONSTANTS
    Producers,     \* threads that call push() of this object
    Used,          \* priorities the producers use
    MaxMessages,   \* bound of the model: messages pushed by producers
    TimerIds,      \* timers another thread may ask for
    InitTimers,    \* timers asked for before the thread starts, for ever
    MaxFired,      \* bound of the model: timer messages, one of each timer
                   \* and none of InitTimers, which only keep the waits finite
    MayDeactivate  \* somebody deactivates the object

Priorities == {"Hi", "Medium", "Low"}

ASSUME UsedAssumption == Used \subseteq Priorities
ASSUME BoundsAssumption == MaxMessages \in Nat /\ MaxFired \in Nat
ASSUME TimersAssumption == InitTimers \subseteq TimerIds
ASSUME DeactivateAssumption == MayDeactivate \in BOOLEAN

VARIABLES
    queue,       \* priority -> MQMutex
    active,      \* the flag isActive()
    working,     \* a_working
    terminated,  \* PassiveCondTimer::terminated
    sleepTime,   \* "forever" (WaitUpTime) or "finite"
    tlst,        \* LT_Object: timers asked for
    pc,          \* activate() until it starts the message thread, then the thread
    retry,       \* it is in the second receiveMessage() of waitMessage()
    cur,         \* the message it has taken, or NoMessage
    timeMS,      \* argument of its waitMessage(), result of its checkTimers()
    due,         \* the expired timers its checkTimers() has still to fire
    ppc,         \* producer -> "idle" or "pushed" (before termWaiting())
    apc,         \* a thread calling askTimer(): "idle", "listed", "stored", "set"
    dpc,         \* the thread calling deactivate()
    sent,        \* history: messages pushed, in order
    fired,       \* history: how many of them are timer messages
    begun,       \* history: Len(sent) when receiveMessage() began, 0 outside it
    got          \* history: messages handed to processingMessage()

NoMessage == [id |-> 0, from |-> "none", prio |-> "Low"]

thread == <<pc, retry, cur, timeMS, due>>
others == <<ppc, apc, dpc>>
history == <<sent, fired, begun, got>>
vars == <<queue, active, working, terminated, sleepTime, tlst, thread, others, history>>

Init ==
    /\ queue = [p \in Priorities |-> EmptyQueue]
    /\ active = FALSE
    /\ working = FALSE
    /\ terminated = TRUE
    /\ sleepTime = IF InitTimers = {} THEN "forever" ELSE "finite"
    /\ tlst = InitTimers
    /\ pc = "off"
    /\ retry = FALSE
    /\ cur = NoMessage
    /\ timeMS = "forever"
    /\ due = {}
    /\ ppc = [p \in Producers |-> "idle"]
    /\ apc = "idle"
    /\ dpc = "idle"
    /\ sent = <<>>
    /\ fired = 0
    /\ begun = 0
    /\ got = <<>>

-----------------------------------------------------------------------------
(* push() in another thread: the queue first, then termWaiting()           *)

Push(p, prio) ==
    /\ ppc[p] = "idle"
    /\ Len(sent) - fired < MaxMessages
    /\ LET m == [id |-> Len(sent) + 1, from |-> p, prio |-> prio]
       IN  /\ queue' = [queue EXCEPT ![prio] = push(@, m)]
           /\ sent' = Append(sent, m)
    /\ ppc' = [ppc EXCEPT ![p] = "pushed"]
    /\ UNCHANGED <<active, working, terminated, sleepTime, tlst, thread, apc, dpc, fired, begun, got>>

TermWaiting(p) ==
    /\ ppc[p] = "pushed"
    /\ terminated' = TRUE
    /\ ppc' = [ppc EXCEPT ![p] = "idle"]
    /\ UNCHANGED <<queue, active, working, sleepTime, tlst, thread, apc, dpc, history>>

-----------------------------------------------------------------------------
(* askTimer() in another thread: the list, sleepTime, then termWaiting()   *)

\* The list is locked while checkTimers() fires the timers.
Unlocked == pc # "fire"

AskTimer(t) ==
    /\ apc = "idle"
    /\ Unlocked
    /\ t \notin tlst
    /\ tlst' = tlst \cup {t}
    /\ apc' = "listed"
    /\ UNCHANGED <<queue, active, working, terminated, sleepTime, thread, ppc, dpc, history>>

\* The timer is in the list already: its timing is set anew.  The timers of
\* InitTimers are asked for once, and never cancelled.
AskTimerAgain(t) ==
    /\ apc = "idle"
    /\ Unlocked
    /\ t \in tlst \ InitTimers
    /\ apc' = IF sleepTime = "forever" THEN "idle" ELSE "set"
    /\ UNCHANGED <<queue, active, working, terminated, sleepTime, tlst, thread, ppc, dpc, history>>

\* askTimer(t, 0).
CancelTimer(t) ==
    /\ apc = "idle"
    /\ Unlocked
    /\ t \in tlst \ InitTimers
    /\ tlst' = tlst \ {t}
    /\ apc' = "listed"
    /\ UNCHANGED <<queue, active, working, terminated, sleepTime, thread, ppc, dpc, history>>

AskTimerSleep ==
    /\ apc = "listed"
    /\ Unlocked
    /\ sleepTime' = IF tlst = {} THEN "forever" ELSE "finite"
    /\ apc' = "stored"
    /\ UNCHANGED <<queue, active, working, terminated, tlst, thread, ppc, dpc, history>>

\* sleepTime is read again after the lock is released; callback() may have
\* overwritten it, and then there is no termWaiting().
AskTimerReturns ==
    /\ apc = "stored"
    /\ apc' = IF sleepTime = "forever" THEN "idle" ELSE "set"
    /\ UNCHANGED <<queue, active, working, terminated, sleepTime, tlst, thread, ppc, dpc, history>>

AskTimerTerm ==
    /\ apc = "set"
    /\ terminated' = TRUE
    /\ apc' = "idle"
    /\ UNCHANGED <<queue, active, working, sleepTime, tlst, thread, ppc, dpc, history>>

-----------------------------------------------------------------------------
(* The end of activate(): the flag, the thread object, then a_working and  *)
(* the start of the thread in one section of m_working                     *)

SetActive ==
    /\ pc = "off"
    /\ pc' = "activated"
    /\ active' = TRUE
    /\ UNCHANGED <<queue, working, terminated, sleepTime, tlst, retry, cur, timeMS, due, others, history>>

CreateThread ==
    /\ pc = "activated"
    /\ pc' = "created"
    /\ UNCHANGED <<queue, active, working, terminated, sleepTime, tlst, retry, cur, timeMS, due, others, history>>

StartThread ==
    /\ pc = "created"
    /\ pc' = "start"
    /\ working' = TRUE
    /\ UNCHANGED <<queue, active, terminated, sleepTime, tlst, retry, cur, timeMS, due, others, history>>

Activate == SetActive \/ CreateThread \/ StartThread

-----------------------------------------------------------------------------
(* The message thread: work(), callback(), waitMessage(), receiveMessage() *)

ThreadStart ==
    /\ pc = "start"
    /\ pc' = "loop"
    /\ working' = TRUE
    /\ UNCHANGED <<queue, active, terminated, sleepTime, tlst, retry, cur, timeMS, due, others, history>>

\* Mutant: the thread does not look at the flag.
ThreadLoopForever ==
    /\ pc = "loop"
    /\ pc' = "Hi"
    /\ timeMS' = sleepTime
    /\ begun' = Len(sent)
    /\ UNCHANGED <<queue, active, working, terminated, sleepTime, tlst, retry, cur, due, others, sent, fired, got>>

ThreadLoop ==
    /\ pc = "loop"
    /\ pc' = IF active THEN "Hi" ELSE "stop"
    /\ timeMS' = sleepTime
    /\ begun' = Len(sent)
    /\ UNCHANGED <<queue, active, working, terminated, sleepTime, tlst, retry, cur, due, others, sent, fired, got>>

\* Mutant: the queue of low priority before that of medium priority.
NextQueueSwapped(prio) ==
    CASE prio = "Hi" -> "Low"
      [] prio = "Low" -> "Medium"
      [] prio = "Medium" -> IF retry THEN "process" ELSE "wait"

\* Where receiveMessage() goes from an empty queue.  When all of them are
\* empty waitMessage() waits, and tries once more after that.
NextQueue(prio) ==
    CASE prio = "Hi" -> "Medium"
      [] prio = "Medium" -> "Low"
      [] prio = "Low" -> IF retry THEN "process" ELSE "wait"

\* receiveMessage(): one queue after the other, each under its own mutex.
Receive(prio) ==
    /\ pc = prio
    /\ IF empty(queue[prio])
       THEN /\ pc' = NextQueue(prio)
            /\ UNCHANGED <<queue, cur>>
       ELSE /\ pc' = "process"
            /\ cur' = front(queue[prio])
            /\ queue' = [queue EXCEPT ![prio] = popped(@)]
    /\ UNCHANGED <<active, working, terminated, sleepTime, tlst, retry, timeMS, due, others, history>>

\* PassiveCondTimer::wait() takes the mutex and clears the flag.
WaitBegins ==
    /\ pc = "wait"
    /\ pc' = "waiting"
    /\ terminated' = FALSE
    /\ UNCHANGED <<queue, active, working, sleepTime, tlst, retry, cur, timeMS, due, others, history>>

\* Mutant: its timeout does not end it.
WaitEndsTerminated ==
    /\ pc = "waiting"
    /\ terminated
    /\ pc' = "Hi"
    /\ retry' = TRUE
    /\ begun' = Len(sent)
    /\ UNCHANGED <<queue, active, working, terminated, sleepTime, tlst, cur, timeMS, due, others, sent, fired, got>>

\* It ends after terminate(), or by its timeout unless that is WaitUpTime.
WaitEnds ==
    /\ pc = "waiting"
    /\ terminated \/ timeMS = "finite"
    /\ pc' = "Hi"
    /\ terminated' = TRUE
    /\ retry' = TRUE
    /\ begun' = Len(sent)
    /\ UNCHANGED <<queue, active, working, sleepTime, tlst, cur, timeMS, due, others, sent, fired, got>>

ProcessingMessage ==
    /\ pc = "process"
    /\ pc' = IF active THEN "timers" ELSE "loop"
    /\ got' = IF cur = NoMessage THEN got ELSE Append(got, cur)
    /\ cur' = NoMessage
    /\ retry' = FALSE
    /\ begun' = 0
    /\ UNCHANGED <<queue, active, working, terminated, sleepTime, tlst, timeMS, due, others, sent, fired>>

\* checkTimers(), the section under the read lock.
CheckTimersEmpty ==
    /\ pc = "timers"
    /\ IF tlst = {}
       THEN /\ sleepTime' = "forever"
            /\ timeMS' = "forever"
            /\ pc' = "assign"
       ELSE /\ pc' = "soon"
            /\ UNCHANGED <<sleepTime, timeMS>>
    /\ UNCHANGED <<queue, active, working, terminated, tlst, retry, cur, due, others, history>>

\* checkTimers() was called less than MinQuantityTime ago.
CheckTimersSoon ==
    /\ pc = "soon"
    /\ pc' = "assign"
    /\ sleepTime' = "finite"
    /\ timeMS' = "finite"
    /\ UNCHANGED <<queue, active, working, terminated, tlst, retry, cur, due, others, history>>

\* The timer has sent its message.
Fired(t) == \E i \in 1..Len(sent) : sent[i].from = t

\* checkTimers() locks the list for writing; the timers of expired are due.
CheckTimersLock(expired) ==
    /\ pc = "soon"
    /\ expired \subseteq tlst \ InitTimers
    /\ \A t \in expired : ~Fired(t)
    /\ fired + Cardinality(expired) <= MaxFired
    /\ pc' = "fire"
    /\ due' = expired
    /\ UNCHANGED <<queue, active, working, terminated, sleepTime, tlst, retry, cur, timeMS, others, history>>

\* An expired timer: its message goes into the object's own queue (at the
\* priority askTimer() gives it by default); after the last of its ticks the
\* timer is removed.
CheckTimersFire(t, last) ==
    /\ pc = "fire"
    /\ t \in due
    /\ fired < MaxFired
    /\ LET m == [id |-> Len(sent) + 1, from |-> t, prio |-> "Hi"]
       IN  /\ queue' = [queue EXCEPT !["Hi"] = push(@, m)]
           /\ sent' = Append(sent, m)
    /\ fired' = fired + 1
    /\ terminated' = TRUE
    /\ due' = due \ {t}
    /\ tlst' = IF last THEN tlst \ {t} ELSE tlst
    /\ UNCHANGED <<active, working, sleepTime, pc, retry, cur, timeMS, others, begun, got>>


\* The whole list has been looked at; sleepTime is the time to its next timer.
CheckTimersEnd ==
    /\ pc = "fire"
    /\ due = {}
    /\ sleepTime' = IF tlst = {} THEN "forever" ELSE "finite"
    /\ timeMS' = sleepTime'
    /\ pc' = "assign"
    /\ UNCHANGED <<queue, active, working, terminated, tlst, retry, cur, due, others, history>>

\* callback() stores the result of checkTimers().
SetSleepTime ==
    /\ pc = "assign"
    /\ pc' = "loop"
    /\ sleepTime' = timeMS
    /\ UNCHANGED <<queue, active, working, terminated, tlst, retry, cur, timeMS, due, others, history>>

ThreadStop ==
    /\ pc = "stop"
    /\ pc' = "notify"
    /\ working' = FALSE
    /\ UNCHANGED <<queue, active, terminated, sleepTime, tlst, retry, cur, timeMS, due, others, history>>

\* notify_all(), the last thing the thread does with the object.
ThreadNotify ==
    /\ pc = "notify"
    /\ pc' = "done"
    /\ UNCHANGED <<queue, active, working, terminated, sleepTime, tlst, retry, cur, timeMS, due, others, history>>

-----------------------------------------------------------------------------
(* deactivate(): clear the flag, wake the thread, wait for it to finish    *)

\* The object is not active, or no more: deactivate() returns true at once.
DeactivateInactive ==
    /\ MayDeactivate
    /\ ~active
    /\ UNCHANGED vars

Deactivate ==
    /\ dpc = "idle"
    /\ MayDeactivate
    /\ active
    /\ active' = FALSE
    /\ dpc' = "terminate"
    /\ UNCHANGED <<queue, working, terminated, sleepTime, tlst, thread, ppc, apc, history>>

DeactivateTerm ==
    /\ dpc = "terminate"
    /\ terminated' = TRUE
    /\ dpc' = "finish"
    /\ UNCHANGED <<queue, active, working, sleepTime, tlst, thread, ppc, apc, history>>

\* An exception on the way: deactivate() returns false without waiting.
DeactivateFails ==
    /\ dpc = "finish"
    /\ dpc' = "failed"
    /\ UNCHANGED <<queue, active, working, terminated, sleepTime, tlst, thread, ppc, apc, history>>

Running == pc \notin {"off", "activated", "created", "done"}

\* waitFinish() of an object whose thread is not created yet ...
WaitFinishNoThread ==
    /\ dpc = "finish"
    /\ pc \in {"off", "activated"}
    /\ dpc' = "unstarted"
    /\ UNCHANGED <<queue, active, working, terminated, sleepTime, tlst, thread, ppc, apc, history>>

\* ... or else waits until a_working is cleared, and joins the thread if that
\* is running.  It holds m_working, so activate() starts no thread meanwhile.
WaitFinish ==
    /\ dpc = "finish"
    /\ pc \notin {"off", "activated"}
    /\ ~working
    /\ dpc' = IF Running THEN "join" ELSE IF pc = "created" THEN "unstarted" ELSE "done"
    /\ UNCHANGED <<queue, active, working, terminated, sleepTime, tlst, thread, ppc, apc, history>>

\* Mutant: the thread is not joined.
NoJoin ==
    /\ dpc = "join"
    /\ dpc' = "done"
    /\ UNCHANGED <<queue, active, working, terminated, sleepTime, tlst, thread, ppc, apc, history>>

Join ==
    /\ dpc = "join"
    /\ ~Running
    /\ dpc' = "done"
    /\ UNCHANGED <<queue, active, working, terminated, sleepTime, tlst, thread, ppc, apc, history>>

-----------------------------------------------------------------------------
Thread ==
    \/ ThreadStart
    \/ ThreadLoop
    \/ \E prio \in Priorities : Receive(prio)
    \/ WaitBegins
    \/ WaitEnds
    \/ ProcessingMessage
    \/ CheckTimersEmpty
    \/ CheckTimersSoon
    \/ \E expired \in SUBSET TimerIds : CheckTimersLock(expired)
    \/ \E t \in TimerIds, last \in BOOLEAN : CheckTimersFire(t, last)
    \/ CheckTimersEnd
    \/ SetSleepTime
    \/ ThreadStop
    \/ ThreadNotify

Next ==
    \/ \E p \in Producers : TermWaiting(p) \/ \E prio \in Used : Push(p, prio)
    \/ \E t \in TimerIds : AskTimer(t) \/ AskTimerAgain(t) \/ CancelTimer(t)
    \/ AskTimerSleep
    \/ AskTimerReturns
    \/ AskTimerTerm
    \/ Activate
    \/ Thread
    \/ DeactivateInactive
    \/ Deactivate
    \/ DeactivateTerm
    \/ DeactivateFails
    \/ WaitFinishNoThread
    \/ WaitFinish
    \/ Join

Spec == Init /\ [][Next]_vars

\* Every started thread is scheduled; nobody has to activate, to push or to
\* deactivate.  A timer that stays asked for expires in the end.
Fairness ==
    /\ \A p \in Producers : WF_vars(TermWaiting(p))
    /\ WF_vars(AskTimerSleep)
    /\ WF_vars(AskTimerReturns)
    /\ WF_vars(AskTimerTerm)
    /\ WF_vars(CreateThread \/ StartThread)
    /\ WF_vars(Thread)
    /\ \A t \in TimerIds : SF_vars(\E expired \in SUBSET TimerIds : t \in expired /\ CheckTimersLock(expired))
    /\ WF_vars(DeactivateTerm)
    /\ WF_vars(WaitFinishNoThread \/ WaitFinish)
    /\ WF_vars(Join)

FairSpec == Spec /\ Fairness

-----------------------------------------------------------------------------
(* Properties                                                              *)

Message == [id : 1..(MaxMessages + MaxFired), from : Producers \cup TimerIds, prio : Priorities]

Queued == UNION {{queue[p].mqueue[i] : i \in 1..Len(queue[p].mqueue)} : p \in Priorities}

Lost == queue["Hi"].lost + queue["Medium"].lost + queue["Low"].lost

\* Types of the object's state.
TypeOK ==
    /\ queue \in [Priorities -> [mqueue : Seq(Message), lost : Nat]]
    /\ active \in BOOLEAN
    /\ working \in BOOLEAN
    /\ terminated \in BOOLEAN
    /\ sleepTime \in {"forever", "finite"}
    /\ tlst \subseteq TimerIds
    /\ pc \in Priorities \cup {"off", "activated", "created", "start", "loop", "wait", "waiting", "process",
                              "timers", "soon", "fire", "assign", "stop", "notify", "done"}
    /\ retry \in BOOLEAN
    /\ cur \in Message \cup {NoMessage}
    /\ timeMS \in {"forever", "finite"}
    /\ due \subseteq TimerIds
    /\ ppc \in [Producers -> {"idle", "pushed"}]
    /\ apc \in {"idle", "listed", "stored", "set"}
    /\ dpc \in {"idle", "terminate", "finish", "join", "failed", "unstarted", "done"}
    /\ sent \in Seq(Message)
    /\ fired \in 0..MaxFired
    /\ begun \in Nat
    /\ got \in Seq(Message)

\* No message vanishes unnoticed: each one is queued, in work, processed, or
\* counted as lost.
Conservation ==
    Len(sent) = Cardinality(Queued) + Len(got) + (IF cur = NoMessage THEN 0 ELSE 1) + Lost

\* A queue never grows beyond its limit.
QueuesBounded == \A p \in Priorities : Len(queue[p].mqueue) <= SizeOfMessageQueue

\* Messages of one priority are processed in the order they were pushed, and
\* none of them twice.
OrderKept ==
    \A i, j \in 1..Len(got) :
        i < j /\ got[i].prio = got[j].prio => got[i].id < got[j].id

Above(prio) == CASE prio = "Hi" -> {} [] prio = "Medium" -> {"Hi"} [] prio = "Low" -> {"Hi", "Medium"}

\* A message is not taken while one of a higher priority waits that was
\* there when receiveMessage() began.
PriorityRespected ==
    [][cur' # cur /\ cur' # NoMessage =>
          \A p \in Above(cur'.prio) : \A i \in 1..Len(queue[p].mqueue) : queue[p].mqueue[i].id > begun]_vars

\* The thread is in callback(): it may be in a handler of the object.
InCallback ==
    pc \in Priorities \cup {"wait", "waiting", "process", "timers", "soon", "fire", "assign"}

\* When the deactivate() that has cleared the flag returns true, the message
\* thread has ended, or activate() had not started it yet: then it may start
\* later, but calls no handler.  (A deactivate() that finds the flag cleared
\* returns true at once, whatever the thread does.)
NoHandlerAfterDeactivate ==
    /\ dpc = "done" => pc = "done"
    /\ dpc = "unstarted" => ~InCallback

\* "the wait is interrupted by the arrival of a message": whenever a message
\* is in a queue of an active object, the thread takes a message in the end --
\* not always that one: messages of higher priorities go first, and while
\* they keep coming it has to wait.
MessagesProcessed == Queued # {} ~> (cur # NoMessage \/ ~active)


\* The mailbox the object implements: see MODULE Mailbox.
M == INSTANCE Mailbox WITH
        Letters <- Message, None <- NoMessage,
        last <- Len(sent), waiting <- Queued, current <- cur, handled <- got,
        dropped <- Lost, closed <- (dpc \in {"unstarted", "done"})

\* Queues, timers, threads and deactivate() together implement the mailbox:
\* whatever the interleaving, a message is handled at most once and in the
\* order of its priority, every loss is a counted overflow, and a successful
\* deactivate() closes the mailbox.
ImplementsMailbox == M!Spec

\* deactivate() ends the message thread and returns.
DeactivateReturns == (dpc = "terminate") ~> (dpc \in {"unstarted", "done", "failed"})
=============================================================================
