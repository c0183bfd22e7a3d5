------------------------- MODULE IONotifyController -------------------------
(***************************************************************************)
(* Notification about one sensor (src/Processes/IONotifyController.cc):    *)
(* threads that store, freeze, block and undefine the sensor's value, the  *)
(* consumers that asked for it, the delivery of messages to them, and a    *)
(* threshold of the sensor.                                                *)
(*                                                                         *)
(* localSetValue() reads the previous value, stores the new one, compares, *)
(* and notifies in critical sections of their own; each one is a step.     *)
(* send() runs with the value read-locked and the list of consumers        *)
(* write-locked, so that a whole round of messages is one step.            *)
(***************************************************************************)
EXTENDS IOController

CONSTANTS
    Threads,       \* threads that change the sensor
    Operations,    \* what they do
    Consumers,     \* objects that ask for the sensor
    Commands,      \* how they ask
    maxAttempts,   \* failed attempts after which a consumer is removed
    sendAttempts,  \* attempts of one send()
    NoValue,       \* a consumer was told nothing yet
    lowLimit, hiLimit, invert,  \* the threshold
    Configured     \* it is in the configuration, otherwise created on demand

ASSUME OperationsAssumption == Operations \subseteq {"set", "freeze", "undefine", "depend"}
ASSUME CommandsAssumption ==
    Commands \subseteq {"UIONotify", "UIONotifyChange", "UIONotifyFirstNotNull", "UIODontNotify"}
ASSUME AttemptsAssumption == maxAttempts \in Nat \ {0} /\ sendAttempts \in Nat \ {0}
ASSUME LimitsAssumption == lowLimit \in Nat /\ hiLimit \in Nat /\ lowLimit <= hiLimit
ASSUME FlagsAssumption == invert \in BOOLEAN /\ Configured \in BOOLEAN
ASSUME NoValueAssumption == NoValue \notin Values

VARIABLES
    usi,      \* the sensor
    permit,   \* the sensor it depends on has the permitting value
    th,       \* thread -> where it is, for which operation, its locals
    attempt,  \* consumer -> attempts left, 0 when it is not in the list
    reach,    \* consumer -> push() to it succeeds
    apc,      \* consumer -> inside its askSensor(), before the first message
    want,     \* history: consumer -> it has asked and not cancelled, and its
              \* lost mark was not taken back by an ask for something else
    lost,     \* lostConsumers[c].lost, one mark for all that c has asked for
    view,     \* history: consumer -> the value it believes the sensor has
    state,    \* of the threshold, or "none"
    tsensor,  \* the discrete sensor bound to the threshold
    task,     \* an object inside askThreshold(), and the value it has read
    tview     \* that object, not one of Consumers, as a consumer of the threshold:
              \* not in its list, in it but told nothing yet, or told last that
              \* it is on or off

clients == <<attempt, reach, apc, want, lost, view>>
threshold == <<state, tsensor, task, tview>>
vars == <<usi, permit, th, clients, threshold>>

Resting == [at |-> "idle", op |-> "set", val |-> 0, prev |-> 0, cur |-> 0]

NoTask == [cmd |-> "none", val |-> 0]

-----------------------------------------------------------------------------
(* The threshold                                                           *)

\* Mutant: released only below the lower limit.
ThresholdStateBelow(v, s) ==
    IF ~invert
    THEN IF v < lowLimit THEN "NormalThreshold" ELSE IF v >= hiLimit THEN "HiThreshold" ELSE s
    ELSE IF v >= hiLimit THEN "NormalThreshold" ELSE IF v <= lowLimit THEN "LowThreshold" ELSE s

\* The state after value v, with hysteresis between the limits.
ThresholdState(v, s) ==
    IF ~invert
    THEN IF v <= lowLimit THEN "NormalThreshold" ELSE IF v >= hiLimit THEN "HiThreshold" ELSE s
    ELSE IF v >= hiLimit THEN "NormalThreshold" ELSE IF v <= lowLimit THEN "LowThreshold" ELSE s

Triggered(s) == s # "NormalThreshold"

OnOff(b) == IF b THEN "on" ELSE "off"

Init ==
    /\ usi = NewSensor
    /\ permit = TRUE
    /\ th = [t \in Threads |-> Resting]
    /\ attempt = [c \in Consumers |-> 0]
    /\ reach = [c \in Consumers |-> TRUE]
    /\ apc = [c \in Consumers |-> "idle"]
    /\ want = [c \in Consumers |-> FALSE]
    /\ lost = [c \in Consumers |-> FALSE]
    /\ view = [c \in Consumers |-> NoValue]
    /\ state = IF Configured THEN ThresholdState(0, "NormalThreshold") ELSE "none"
    /\ tsensor = (Configured /\ Triggered(state))
    /\ task = NoTask
    /\ tview = "unlisted"

-----------------------------------------------------------------------------
(* send() to the consumers in the set to                                   *)

\* Mutants: the consumer is not removed; a failure does not count.
AfterSendKept(c) == IF reach[c] THEN maxAttempts ELSE attempt[c] - sendAttempts

AfterSendForgiven(c) == IF reach[c] THEN maxAttempts ELSE attempt[c]

\* Attempts left after one send() to a consumer.
AfterSend(c) ==
    IF reach[c] THEN maxAttempts
    ELSE IF attempt[c] > sendAttempts THEN attempt[c] - sendAttempts ELSE 0

send(to) ==
    LET listed == {c \in to : attempt[c] > 0}
    IN  /\ attempt' = [c \in Consumers |-> IF c \in listed THEN AfterSend(c) ELSE attempt[c]]
        /\ lost' = [c \in Consumers |-> lost[c] \/ (c \in listed /\ AfterSend(c) = 0)]
        /\ view' = [c \in Consumers |-> IF c \in listed /\ reach[c] THEN usi.value ELSE view[c]]

-----------------------------------------------------------------------------
(* Threads that change the sensor                                          *)

Go(t, at) == th' = [th EXCEPT ![t].at = at]

Done(t) == th' = [th EXCEPT ![t] = Resting]

\* setValue(): IONotifyController::localSetValue(v).
SetValue(t, v) ==
    /\ th[t].at = "idle"
    /\ th' = [th EXCEPT ![t].at = "prev", ![t].op = "set", ![t].val = v]
    /\ UNCHANGED <<usi, permit, clients, threshold>>

\* freezeValue(set, v), up to its call of localSetValue().
FreezeValue(t, set, v) ==
    /\ th[t].at = "idle"
    /\ usi' = FreezeFlag(usi, set, v)
    /\ th' = [th EXCEPT ![t].at = "prev", ![t].op = "freeze", ![t].val = usi.real_value]
    /\ UNCHANGED <<permit, clients, threshold>>

\* The sensor this one depends on changes, and its signal calls checkDepend().
SetParent(t, b) ==
    /\ th[t].at = "idle"
    /\ permit' = b
    /\ th' = [th EXCEPT ![t].at = "depend", ![t].op = "depend"]
    /\ UNCHANGED <<usi, clients, threshold>>

\* The signal is emitted under that sensor's changeMutex.
Emitting(t) == th[t].op = "depend" /\ th[t].at \notin {"idle", "depend"}

CheckDepend(t) ==
    /\ th[t].at = "depend"
    /\ \A u \in Threads : ~Emitting(u)
    /\ usi' = DependFlag(usi, permit)
    /\ IF usi'.blocked # usi.blocked THEN Go(t, "real") ELSE Done(t)
    /\ UNCHANGED <<permit, clients, threshold>>

\* checkDepend() reads real_value after it has released the lock.
ReadReal(t) ==
    /\ th[t].at = "real"
    /\ th' = [th EXCEPT ![t].at = "prev", ![t].val = usi.real_value]
    /\ UNCHANGED <<usi, permit, clients, threshold>>

ReadPrev(t) ==
    /\ th[t].at = "prev"
    /\ th' = [th EXCEPT ![t].at = "ret", ![t].prev = usi.value]
    /\ UNCHANGED <<usi, permit, clients, threshold>>

\* IOController::localSetValue() reads what it returns when nothing changes.
ReadRet(t) ==
    /\ th[t].at = "ret"
    /\ th' = [th EXCEPT ![t].at = "set", ![t].cur = usi.value]
    /\ UNCHANGED <<usi, permit, clients, threshold>>

StoreValue(t) ==
    /\ th[t].at = "set"
    /\ usi' = localSetValue(usi, th[t].val)
    /\ LET cur == IF Changes(usi, th[t].val) THEN usi'.value ELSE th[t].cur
       IN  IF cur = th[t].prev THEN Done(t) ELSE Go(t, "notify")
    /\ UNCHANGED <<permit, clients, threshold>>

Notify(t) ==
    /\ th[t].at = "notify"
    /\ send(Consumers)
    /\ Go(t, "threshold")
    /\ UNCHANGED <<usi, permit, reach, apc, want, threshold>>

\* checkThreshold(): the bound sensor and the threshold's consumers follow a
\* change of its state.
CheckThreshold(t) ==
    /\ th[t].at = "threshold"
    /\ IF state = "none" \/ ThresholdState(usi.value, state) = state
       THEN UNCHANGED <<state, tsensor, tview>>
       ELSE /\ state' = ThresholdState(usi.value, state)
            /\ tsensor' = IF Configured THEN Triggered(state') ELSE tsensor
            /\ tview' = IF tview = "unlisted" THEN tview ELSE OnOff(Triggered(state'))
    /\ Done(t)
    /\ UNCHANGED <<usi, permit, clients, task>>

\* setUndefinedState(): no localSetValue(), only a signal if the flag changed.
SetUndefinedState(t, b) ==
    /\ th[t].at = "idle"
    /\ usi' = localSetUndefinedState(usi, b)
    /\ IF usi.undefined # b
       THEN th' = [th EXCEPT ![t].at = "undefined", ![t].op = "undefine"]
       ELSE UNCHANGED th
    /\ UNCHANGED <<permit, clients, threshold>>

onChangeUndefinedState(t) ==
    /\ th[t].at = "undefined"
    /\ send(Consumers)
    /\ Done(t)
    /\ UNCHANGED <<usi, permit, reach, apc, want, threshold>>

-----------------------------------------------------------------------------
(* Consumers                                                               *)

\* askSensor(), first half: the list.  Until a message comes a consumer that
\* asked for changes only relies on the value at that time, one that wants
\* the first message unless it is 0 relies on 0.
Ask(c, cmd) ==
    /\ apc[c] = "idle"
    /\ reach[c]
    /\ attempt' = [attempt EXCEPT ![c] = IF cmd = "UIODontNotify" THEN 0 ELSE maxAttempts]
    /\ want' = [want EXCEPT ![c] = cmd # "UIODontNotify"]
    /\ lost' = [lost EXCEPT ![c] = IF cmd = "UIODontNotify" THEN @ ELSE FALSE]
    /\ view' = [view EXCEPT ![c] =
                  CASE cmd = "UIONotifyChange" -> usi.value
                    [] cmd = "UIONotifyFirstNotNull" -> 0
                    [] OTHER -> NoValue]
    /\ apc' = [apc EXCEPT ![c] = IF cmd \in {"UIONotify", "UIONotifyFirstNotNull"} THEN cmd ELSE "idle"]
    /\ UNCHANGED <<usi, permit, th, reach, threshold>>

\* askSensor(), second half: the first message.
AskFirst(c) ==
    /\ apc[c] # "idle"
    /\ IF apc[c] = "UIONotify" \/ usi.value # 0
       THEN send({c})
       ELSE UNCHANGED <<attempt, lost, view>>
    /\ apc' = [apc EXCEPT ![c] = "idle"]
    /\ UNCHANGED <<usi, permit, th, reach, want, threshold>>

\* A consumer that was dropped asks for another sensor or for a threshold:
\* addConsumer() takes its mark back, and it is still not in this list.
AskOther(c) ==
    /\ apc[c] = "idle"
    /\ reach[c] /\ lost[c]
    /\ lost' = [lost EXCEPT ![c] = FALSE]
    /\ want' = [want EXCEPT ![c] = FALSE]
    /\ UNCHANGED <<usi, permit, th, attempt, reach, apc, view, threshold>>

\* The consumer's process stops answering, or answers again.
ReachChanges(c) ==
    /\ reach' = [reach EXCEPT ![c] = ~@]
    /\ UNCHANGED <<usi, permit, th, attempt, apc, want, lost, view, threshold>>

\* askThreshold(): the value is read before trshMutex is taken.
AskThreshold(cmd) ==
    /\ task = NoTask
    /\ task' = [cmd |-> cmd, val |-> IF usi.undefined THEN 0 ELSE usi.value]
    /\ UNCHANGED <<usi, permit, th, clients, state, tsensor, tview>>

\* The section under trshMutex.  The first message compares that value with
\* the limits; the state of the threshold is left as it is.
AskThresholdLocked ==
    /\ task # NoTask
    /\ state' = IF state = "none" /\ task.cmd # "UIODontNotify" THEN "NormalThreshold" ELSE state
    /\ tview' = CASE task.cmd = "UIONotify" -> OnOff(task.val > lowLimit /\ task.val >= hiLimit)
                  [] task.cmd = "UIONotifyChange" -> IF tview = "unlisted" THEN "listed" ELSE tview
                  [] task.cmd = "UIODontNotify" -> "unlisted"
    /\ task' = NoTask
    /\ UNCHANGED <<usi, permit, th, clients, tsensor>>

-----------------------------------------------------------------------------
Change(t) ==
    \/ "set" \in Operations /\ \E v \in Values : SetValue(t, v)
    \/ "freeze" \in Operations /\ \E set \in BOOLEAN, v \in Values : FreezeValue(t, set, v)
    \/ "depend" \in Operations /\ \E b \in BOOLEAN : SetParent(t, b)
    \/ "undefine" \in Operations /\ \E b \in BOOLEAN : SetUndefinedState(t, b)

Continue(t) ==
    \/ CheckDepend(t)
    \/ ReadReal(t)
    \/ ReadPrev(t)
    \/ ReadRet(t)
    \/ StoreValue(t)
    \/ Notify(t)
    \/ CheckThreshold(t)
    \/ onChangeUndefinedState(t)

Next ==
    \/ \E t \in Threads : Change(t) \/ Continue(t)
    \/ \E c \in Consumers :
          AskFirst(c) \/ AskOther(c) \/ ReachChanges(c) \/ \E cmd \in Commands : Ask(c, cmd)
    \/ \E cmd \in Commands \ {"UIONotifyFirstNotNull"} : AskThreshold(cmd)
    \/ AskThresholdLocked

Spec == Init /\ [][Next]_vars

-----------------------------------------------------------------------------
(* Properties                                                              *)

States == {"none", "NormalThreshold", "HiThreshold", "LowThreshold"}

\* Types of the controller's state.
TypeOK ==
    /\ usi \in Sensor
    /\ permit \in BOOLEAN
    /\ th \in [Threads ->
                 [at : {"idle", "depend", "real", "prev", "ret", "set", "notify", "threshold", "undefined"},
                  op : Operations \cup {"set"}, val : Values, prev : Values, cur : Values]]
    /\ attempt \in [Consumers -> 0..maxAttempts]
    /\ reach \in [Consumers -> BOOLEAN]
    /\ apc \in [Consumers -> {"idle", "UIONotify", "UIONotifyFirstNotNull"}]
    /\ want \in [Consumers -> BOOLEAN]
    /\ lost \in [Consumers -> BOOLEAN]
    /\ view \in [Consumers -> Values \cup {NoValue}]
    /\ state \in States
    /\ tsensor \in BOOLEAN
    /\ task \in [cmd : Commands \cup {"none"}, val : Values]
    /\ tview \in {"unlisted", "listed", "on", "off"}

Quiet == \A t \in Threads : th[t].at = "idle"

\* When no change is under way, a consumer that wants the sensor knows its
\* value, or is known to have missed a message: it is marked lost, or some of
\* its attempts are used up.  A consumer that was dropped and then asked for
\* something else is outside the claim: its mark is gone (AskOther).
SubscribersInformed ==
    Quiet =>
        \A c \in Consumers :
            want[c] /\ apc[c] = "idle" =>
                view[c] = usi.value \/ lost[c] \/ attempt[c] \in 1..(maxAttempts - 1)

\* The undefined flag is not followed by a store: where it is used, what is
\* shown may be due to its former value.
UndefinedBefore == IF "undefine" \in Operations THEN BOOLEAN ELSE {usi.undefined}

\* When no change is under way, the sensor shows what freezing, blocking and
\* the stored value say, whatever the order in which threads froze, blocked
\* and stored (unless a value is configured for the undefined sensor, which
\* is shown whatever they say).
ValueFollowsFlags ==
    Quiet /\ undef_value = NotSpecified =>
        \E un \in UndefinedBefore : usi.value = Shown([usi EXCEPT !.undefined = un])

\* When no change is under way, the threshold is on beyond one limit and off
\* beyond the other, and the sensor bound to it says so.
ThresholdFollowsValue ==
    Quiet /\ Configured /\ lowLimit < hiLimit =>
        /\ usi.value <= lowLimit => Triggered(state) = invert
        /\ usi.value >= hiLimit => Triggered(state) = ~invert
        /\ tsensor = Triggered(state)
=============================================================================
