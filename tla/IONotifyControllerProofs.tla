---------------------- MODULE IONotifyControllerProofs ----------------------
(***************************************************************************)
(* Proofs about IONotifyController for every set of values, threads and    *)
(* consumers: its types and, whatever the interleaving of the threads, the *)
(* value a sensor shows; with one thread that writes, what the threshold   *)
(* and the consumers know of the value.                                    *)
(***************************************************************************)
EXTENDS IONotifyController, TLAPS

Places == {"idle", "depend", "real", "prev", "ret", "set", "notify", "threshold", "undefined"}

ThreadState ==
    [at : Places, op : Operations \cup {"set"}, val : Values, prev : Values, cur : Values]

-----------------------------------------------------------------------------
(* The sensor's record                                                     *)

\* localSetValue() gives a sensor again, with its flags unchanged.
LEMMA StoreTypes ==
    ASSUME NEW u \in Sensor, NEW v \in Values
    PROVE  /\ localSetValue(u, v) \in Sensor
           /\ localSetValue(u, v).frozen = u.frozen
           /\ localSetValue(u, v).blocked = u.blocked
           /\ localSetValue(u, v).undefined = u.undefined
           /\ localSetValue(u, v).frozen_value = u.frozen_value
BY OffAssumption DEF localSetValue, Sensor

\* localFreezeValue() sets flag and frozen value, and nothing else.
LEMMA FreezeTypes ==
    ASSUME NEW u \in Sensor, NEW set \in BOOLEAN, NEW v \in Values
    PROVE  /\ FreezeFlag(u, set, v) \in Sensor
           /\ FreezeFlag(u, set, v).value = u.value
           /\ FreezeFlag(u, set, v).real_value = u.real_value
           /\ FreezeFlag(u, set, v).blocked = u.blocked
           /\ FreezeFlag(u, set, v).undefined = u.undefined
BY DEF FreezeFlag, Sensor

\* checkDepend() sets "blocked", and nothing else.
LEMMA DependTypes ==
    ASSUME NEW u \in Sensor, NEW p \in BOOLEAN
    PROVE  /\ DependFlag(u, p) \in Sensor
           /\ DependFlag(u, p).value = u.value
           /\ DependFlag(u, p).real_value = u.real_value
           /\ DependFlag(u, p).frozen = u.frozen
           /\ DependFlag(u, p).frozen_value = u.frozen_value
           /\ DependFlag(u, p).undefined = u.undefined
BY DEF DependFlag, Sensor

\* localSetUndefinedState() sets "undefined", and the value if one is
\* configured for it.
LEMMA UndefinedTypes ==
    ASSUME NEW u \in Sensor, NEW b \in BOOLEAN
    PROVE  /\ localSetUndefinedState(u, b) \in Sensor
           /\ localSetUndefinedState(u, b).real_value = u.real_value
           /\ localSetUndefinedState(u, b).frozen = u.frozen
           /\ localSetUndefinedState(u, b).frozen_value = u.frozen_value
           /\ localSetUndefinedState(u, b).blocked = u.blocked
           /\ undef_value = NotSpecified => localSetUndefinedState(u, b).value = u.value
BY UndefAssumption DEF localSetUndefinedState, Sensor

-----------------------------------------------------------------------------
(* Types                                                                   *)

ThType == th \in [Threads -> ThreadState]

ClientsType ==
    /\ attempt \in [Consumers -> 0..maxAttempts]
    /\ reach \in [Consumers -> BOOLEAN]
    /\ apc \in [Consumers -> {"idle", "UIONotify", "UIONotifyFirstNotNull"}]
    /\ want \in [Consumers -> BOOLEAN]
    /\ lost \in [Consumers -> BOOLEAN]
    /\ view \in [Consumers -> Values \cup {NoValue}]

ThresholdType ==
    /\ state \in States
    /\ tsensor \in BOOLEAN
    /\ task \in [cmd : Commands \cup {"none"}, val : Values]
    /\ tview \in {"unlisted", "listed", "on", "off"}

\* The type invariant is the conjunction of its parts.
LEMMA TypeParts ==
    TypeOK <=> usi \in Sensor /\ permit \in BOOLEAN /\ ThType /\ ClientsType /\ ThresholdType
BY DEF TypeOK, ThType, ThreadState, Places, ClientsType, ThresholdType

\* The same in the next state.
LEMMA TypePartsNext ==
    TypeOK' <=> usi' \in Sensor /\ permit' \in BOOLEAN /\ ThType' /\ ClientsType' /\ ThresholdType'
BY DEF TypeOK, ThType, ThreadState, Places, ClientsType, ThresholdType

\* A thread that goes on or rests has the type of a thread.
LEMMA GoTypes ==
    ASSUME ThType, NEW t \in Threads, NEW p \in Places, Go(t, p) \/ Done(t)
    PROVE  ThType'
BY ValuesAssumption DEF ThType, ThreadState, Go, Done, Resting, Places

\* So has one that begins an operation with value v.
LEMMA BeginTypes ==
    ASSUME ThType, NEW t \in Threads, NEW p \in Places, NEW op \in Operations \cup {"set"},
           NEW v \in Values, th' = [th EXCEPT ![t].at = p, ![t].op = op, ![t].val = v]
    PROVE  ThType'
<1>1. th[t] \in ThreadState
  BY DEF ThType
<1>2. [th[t] EXCEPT !.at = p, !.op = op, !.val = v] \in ThreadState
  BY <1>1 DEF ThreadState
<1>3. th' = [th EXCEPT ![t] = [th[t] EXCEPT !.at = p, !.op = op, !.val = v]]
  BY DEF ThType
<1> QED
  BY <1>2, <1>3 DEF ThType

\* A round of messages keeps the types of what the controller keeps of the
\* consumers.
LEMMA SendTypes ==
    ASSUME usi \in Sensor, ClientsType, NEW to, send(to), UNCHANGED <<reach, apc, want>>
    PROVE  ClientsType'
<1> DEFINE listed == {c \in to : attempt[c] > 0}
<1>1. \A c \in Consumers : AfterSend(c) \in 0..maxAttempts
  BY AttemptsAssumption DEF AfterSend, ClientsType
<1>2. attempt' \in [Consumers -> 0..maxAttempts]
  BY <1>1 DEF send, ClientsType
<1>3. lost' \in [Consumers -> BOOLEAN]
  BY DEF send, ClientsType
<1>4. view' \in [Consumers -> Values \cup {NoValue}]
  BY DEF send, ClientsType, Sensor
<1> QED
  BY <1>2, <1>3, <1>4 DEF ClientsType

\* The threshold's state after any value.
LEMMA ThresholdStateTypes ==
    ASSUME NEW v \in Values, NEW s \in States
    PROVE  ThresholdState(v, s) \in States
BY DEF ThresholdState, States

\* The initial state has the types of TypeOK.
LEMMA InitTypes == Init => TypeOK
<1> SUFFICES ASSUME Init PROVE TypeOK
  OBVIOUS
<1>1. usi \in Sensor /\ permit \in BOOLEAN
  BY ValuesAssumption DEF Init, NewSensor, Sensor
<1>2. ThType
  BY ValuesAssumption DEF Init, ThType, ThreadState, Resting, Places
<1>3. ClientsType
  BY AttemptsAssumption DEF Init, ClientsType
<1>4. state \in States
  BY DEF Init, ThresholdState, States
<1>5. tsensor \in BOOLEAN
  BY FlagsAssumption DEF Init
<1>6. ThresholdType
  BY <1>4, <1>5, ValuesAssumption DEF Init, ThresholdType, NoTask
<1> QED
  BY <1>1, <1>2, <1>3, <1>6, TypeParts

\* Every step of a thread that changes the sensor keeps the types.
LEMMA ThreadTypes ==
    ASSUME TypeOK, NEW t \in Threads, Change(t) \/ Continue(t)
    PROVE  TypeOK'
<1>0. usi \in Sensor /\ permit \in BOOLEAN /\ ThType /\ ClientsType /\ ThresholdType
  BY TypeParts
<1> USE <1>0
<1>1. ASSUME NEW v \in Values, SetValue(t, v) PROVE TypeOK'
  <2>1. ThType'
    BY <1>1, BeginTypes DEF SetValue, Places
  <2> QED
    BY <1>1, <2>1, TypePartsNext DEF SetValue, clients, threshold, ClientsType, ThresholdType
<1>2. ASSUME "freeze" \in Operations, NEW set \in BOOLEAN, NEW v \in Values, FreezeValue(t, set, v)
      PROVE TypeOK'
  <2>1. usi.real_value \in Values
    BY DEF Sensor
  <2>2. ThType'
    BY <1>2, <2>1, BeginTypes DEF FreezeValue, Places
  <2>3. usi' \in Sensor
    BY <1>2, FreezeTypes DEF FreezeValue
  <2> QED
    BY <1>2, <2>2, <2>3, TypePartsNext DEF FreezeValue, clients, threshold, ClientsType, ThresholdType
<1>3. ASSUME "depend" \in Operations, NEW b \in BOOLEAN, SetParent(t, b) PROVE TypeOK'
  <2>1. ThType'
    BY <1>3, ZenonT(60) DEF SetParent, ThType, ThreadState, Places
  <2> QED
    BY <1>3, <2>1, TypePartsNext DEF SetParent, clients, threshold, ClientsType, ThresholdType
<1>4. ASSUME "undefine" \in Operations, NEW b \in BOOLEAN, SetUndefinedState(t, b) PROVE TypeOK'
  <2>1. ThType'
    BY <1>4 DEF SetUndefinedState, ThType, ThreadState, Places
  <2>2. usi' \in Sensor
    BY <1>4, UndefinedTypes DEF SetUndefinedState
  <2> QED
    BY <1>4, <2>1, <2>2, TypePartsNext DEF SetUndefinedState, clients, threshold, ClientsType, ThresholdType
<1>5. CASE CheckDepend(t)
  <2>1. ThType'
    BY <1>5, GoTypes DEF CheckDepend, Places
  <2>2. usi' \in Sensor
    BY <1>5, DependTypes DEF CheckDepend
  <2> QED
    BY <1>5, <2>1, <2>2, TypePartsNext DEF CheckDepend, clients, threshold, ClientsType, ThresholdType
<1>6. CASE ReadReal(t)
  <2>1. usi.real_value \in Values
    BY DEF Sensor
  <2>2. ThType'
    BY <1>6, <2>1, ZenonT(60) DEF ReadReal, ThType, ThreadState, Places
  <2> QED
    BY <1>6, <2>2, TypePartsNext DEF ReadReal, clients, threshold, ClientsType, ThresholdType
<1>7. CASE ReadPrev(t)
  <2>1. usi.value \in Values
    BY DEF Sensor
  <2>2. ThType'
    BY <1>7, <2>1, ZenonT(60) DEF ReadPrev, ThType, ThreadState, Places
  <2> QED
    BY <1>7, <2>2, TypePartsNext DEF ReadPrev, clients, threshold, ClientsType, ThresholdType
<1>8. CASE ReadRet(t)
  <2>1. usi.value \in Values
    BY DEF Sensor
  <2>2. ThType'
    BY <1>8, <2>1, ZenonT(60) DEF ReadRet, ThType, ThreadState, Places
  <2> QED
    BY <1>8, <2>2, TypePartsNext DEF ReadRet, clients, threshold, ClientsType, ThresholdType
<1>9. CASE StoreValue(t)
  <2>1. th[t].val \in Values
    BY DEF ThType, ThreadState
  <2>2. usi' \in Sensor
    BY <1>9, <2>1, StoreTypes DEF StoreValue
  <2>3. ThType'
    BY <1>9, GoTypes DEF StoreValue, Places
  <2> QED
    BY <1>9, <2>2, <2>3, TypePartsNext DEF StoreValue, clients, threshold, ClientsType, ThresholdType
<1>10. CASE Notify(t)
  <2>1. ThType'
    BY <1>10, GoTypes DEF Notify, Places
  <2>2. ClientsType'
    BY <1>10, SendTypes DEF Notify
  <2> QED
    BY <1>10, <2>1, <2>2, TypePartsNext DEF Notify, threshold, ThresholdType
<1>11. CASE CheckThreshold(t)
  <2>1. ThType'
    BY <1>11, GoTypes DEF CheckThreshold, Places
  <2>2. usi.value \in Values
    BY DEF Sensor
  <2>3. state' \in States
    BY <1>11, <2>2, ThresholdStateTypes DEF CheckThreshold, ThresholdType
  <2>4. tsensor' \in BOOLEAN /\ tview' \in {"unlisted", "listed", "on", "off"}
    BY <1>11 DEF CheckThreshold, ThresholdType, Triggered, OnOff
  <2>5. ThresholdType'
    BY <1>11, <2>3, <2>4 DEF CheckThreshold, ThresholdType
  <2> QED
    BY <1>11, <2>1, <2>5, TypePartsNext DEF CheckThreshold, clients, ClientsType
<1>12. CASE onChangeUndefinedState(t)
  <2>1. ThType'
    BY <1>12, GoTypes DEF onChangeUndefinedState, Places
  <2>2. ClientsType'
    BY <1>12, SendTypes DEF onChangeUndefinedState
  <2> QED
    BY <1>12, <2>1, <2>2, TypePartsNext DEF onChangeUndefinedState, threshold, ThresholdType
<1> QED
  BY <1>1, <1>2, <1>3, <1>4, <1>5, <1>6, <1>7, <1>8, <1>9, <1>10, <1>11, <1>12 DEF Change, Continue

\* A consumer inside askThreshold() has asked in one of three ways.
TaskKnown == task = NoTask \/ task.cmd \in {"UIONotify", "UIONotifyChange", "UIODontNotify"}

\* Every step of a consumer keeps the types.
LEMMA ConsumerTypes ==
    ASSUME TypeOK, TaskKnown,
           \/ \E c \in Consumers :
                 AskFirst(c) \/ AskOther(c) \/ ReachChanges(c) \/ \E cmd \in Commands : Ask(c, cmd)
           \/ \E cmd \in Commands \ {"UIONotifyFirstNotNull"} : AskThreshold(cmd)
           \/ AskThresholdLocked
    PROVE  TypeOK'
<1>0. usi \in Sensor /\ permit \in BOOLEAN /\ ThType /\ ClientsType /\ ThresholdType
  BY TypeParts
<1> USE <1>0
<1>v. usi.value \in Values
  BY DEF Sensor
<1>1. ASSUME NEW c \in Consumers, AskFirst(c) PROVE TypeOK'
  <2>1. ClientsType'
    <3>1. CASE UNCHANGED <<attempt, lost, view>>
      BY <1>1, <3>1 DEF AskFirst, ClientsType
    <3>2. CASE send({c})
      <4> DEFINE listed == {d \in {c} : attempt[d] > 0}
      <4>1. \A d \in Consumers : AfterSend(d) \in 0..maxAttempts
        BY AttemptsAssumption DEF AfterSend, ClientsType
      <4>2. attempt' \in [Consumers -> 0..maxAttempts]
        BY <3>2, <4>1 DEF send, ClientsType
      <4>3. lost' \in [Consumers -> BOOLEAN]
        BY <3>2 DEF send, ClientsType
      <4>4. view' \in [Consumers -> Values \cup {NoValue}]
        BY <3>2, <1>v DEF send, ClientsType
      <4> QED
        BY <1>1, <4>2, <4>3, <4>4 DEF AskFirst, ClientsType
    <3> QED
      BY <1>1, <3>1, <3>2 DEF AskFirst
  <2> QED
    BY <1>1, <2>1, TypePartsNext DEF AskFirst, threshold, ThType, ThresholdType
<1>2. ASSUME NEW c \in Consumers, ReachChanges(c) PROVE TypeOK'
  <2>1. ClientsType'
    BY <1>2 DEF ReachChanges, ClientsType
  <2> QED
    BY <1>2, <2>1, TypePartsNext DEF ReachChanges, threshold, ThType, ThresholdType
<1>3. ASSUME NEW c \in Consumers, NEW cmd \in Commands, Ask(c, cmd) PROVE TypeOK'
  <2>1. attempt' \in [Consumers -> 0..maxAttempts] /\ want' \in [Consumers -> BOOLEAN]
    BY <1>3, AttemptsAssumption DEF Ask, ClientsType
  <2>2. lost' \in [Consumers -> BOOLEAN]
    BY <1>3 DEF Ask, ClientsType
  <2>3. (CASE cmd = "UIONotifyChange" -> usi.value
           [] cmd = "UIONotifyFirstNotNull" -> 0
           [] OTHER -> NoValue) \in Values \cup {NoValue}
    BY <1>v, ValuesAssumption
  <2>4. view' \in [Consumers -> Values \cup {NoValue}]
    BY <1>3, <2>3 DEF Ask, ClientsType
  <2>5. apc' \in [Consumers -> {"idle", "UIONotify", "UIONotifyFirstNotNull"}]
    BY <1>3 DEF Ask, ClientsType
  <2>6. ClientsType'
    BY <1>3, <2>1, <2>2, <2>4, <2>5 DEF Ask, ClientsType
  <2> QED
    BY <1>3, <2>6, TypePartsNext DEF Ask, threshold, ThType, ThresholdType
<1>4. ASSUME NEW cmd \in Commands \ {"UIONotifyFirstNotNull"}, AskThreshold(cmd) PROVE TypeOK'
  <2>1. ThresholdType'
    BY <1>4, <1>v, ValuesAssumption DEF AskThreshold, ThresholdType
  <2> QED
    BY <1>4, <2>1, TypePartsNext DEF AskThreshold, clients, ThType, ClientsType
<1>5. CASE AskThresholdLocked
  <2>1. state' \in States
    BY <1>5 DEF AskThresholdLocked, ThresholdType, States
  <2>2. task' \in [cmd : Commands \cup {"none"}, val : Values]
    BY <1>5, ValuesAssumption DEF AskThresholdLocked, NoTask
  <2>3. task.cmd \in {"UIONotify", "UIONotifyChange", "UIODontNotify"}
    BY <1>5 DEF AskThresholdLocked, TaskKnown
  <2>4. tview' \in {"unlisted", "listed", "on", "off"}
    BY <1>5, <2>3 DEF AskThresholdLocked, ThresholdType, OnOff
  <2>5. ThresholdType'
    BY <1>5, <2>1, <2>2, <2>4 DEF AskThresholdLocked, ThresholdType
  <2> QED
    BY <1>5, <2>5, TypePartsNext DEF AskThresholdLocked, clients, ThType, ClientsType
<1>6. ASSUME NEW c \in Consumers, AskOther(c) PROVE TypeOK'
  <2>1. lost' \in [Consumers -> BOOLEAN] /\ want' \in [Consumers -> BOOLEAN]
    BY <1>6 DEF AskOther, ClientsType
  <2>2. ClientsType'
    BY <1>6, <2>1 DEF AskOther, ClientsType
  <2> QED
    BY <1>6, <2>2, TypePartsNext DEF AskOther, threshold, ThType, ThresholdType
<1> QED
  BY <1>1, <1>2, <1>3, <1>4, <1>5, <1>6

\* No step leaves a consumer inside askThreshold() in another way.
LEMMA TaskStep == TaskKnown /\ [Next]_vars => TaskKnown'
<1> SUFFICES ASSUME TaskKnown, [Next]_vars PROVE TaskKnown'
  OBVIOUS
<1>1. ASSUME NEW cmd \in Commands \ {"UIONotifyFirstNotNull"}, AskThreshold(cmd) PROVE TaskKnown'
  BY <1>1, CommandsAssumption DEF AskThreshold, TaskKnown
<1>2. CASE AskThresholdLocked
  BY <1>2 DEF AskThresholdLocked, TaskKnown
<1>3. CASE UNCHANGED task
  BY <1>3 DEF TaskKnown
<1>4. ASSUME NEW t \in Threads, Change(t) \/ Continue(t) PROVE UNCHANGED task
  BY <1>4 DEF Change, Continue, SetValue, FreezeValue, SetParent, SetUndefinedState, CheckDepend,
              ReadReal, ReadPrev, ReadRet, StoreValue, Notify, CheckThreshold,
              onChangeUndefinedState, threshold
<1>5. ASSUME NEW c \in Consumers,
             AskFirst(c) \/ AskOther(c) \/ ReachChanges(c) \/ \E cmd \in Commands : Ask(c, cmd)
      PROVE UNCHANGED task
  BY <1>5 DEF AskFirst, AskOther, ReachChanges, Ask, threshold
<1> QED
  BY <1>1, <1>2, <1>3, <1>4, <1>5 DEF Next, vars, threshold

\* The types are kept by every step.
LEMMA TypesStep == TypeOK /\ TaskKnown /\ [Next]_vars => TypeOK'
<1> SUFFICES ASSUME TypeOK, TaskKnown, [Next]_vars PROVE TypeOK'
  OBVIOUS
<1>1. CASE UNCHANGED vars
  BY <1>1 DEF TypeOK, vars, clients, threshold
<1>2. CASE Next
  BY <1>2, ThreadTypes, ConsumerTypes DEF Next
<1> QED
  BY <1>1, <1>2

\* All behaviours of the controller have the types of TypeOK, whatever the
\* threads, consumers and values.
THEOREM NotifyTypes == Spec => []TypeOK
<1>1. Init => TypeOK /\ TaskKnown
  BY InitTypes DEF Init, TaskKnown
<1>2. TypeOK /\ TaskKnown /\ [Next]_vars => (TypeOK /\ TaskKnown)'
  BY TypesStep, TaskStep
<1> QED
  BY <1>1, <1>2, PTL DEF Spec

-----------------------------------------------------------------------------
(* The value shown, with any number of threads                             *)

\* The thread will store the value again.
Pending(t) == th[t].at \in {"real", "prev", "ret", "set"}

\* The value of a sensor that is not frozen is one the tests of
\* localSetValue() tell apart: what it shows is wrong only where they see it.
Recomputable(u) == ~u.frozen => u.value \in {d_off_value, u.frozen_value, u.real_value}

ShowsFlags == \E un \in UndefinedBefore : usi.value = Shown([usi EXCEPT !.undefined = un])

\* The inductive invariant: a value that does not follow the flags is about
\* to be recomputed by some thread.
ValueInv ==
    undef_value = NotSpecified =>
        Recomputable(usi) /\ (ShowsFlags \/ \E t \in Threads : Pending(t))

\* After localSetValue() the sensor shows what its flags say, even if the
\* tests found nothing to do.
LEMMA StoreShows ==
    ASSUME NEW u \in Sensor, NEW v \in Values, Recomputable(u)
    PROVE  /\ localSetValue(u, v).value = Shown(localSetValue(u, v))
           /\ Recomputable(localSetValue(u, v))
<1>1. CASE Changes(u, v)
  BY <1>1, OffAssumption DEF localSetValue, Shown, Blocked, Recomputable, Sensor
<1>2. CASE ~Changes(u, v)
  <2>1. u.value = Shown(u)
    BY <1>2 DEF Changes, Shown, Blocked, Recomputable, Sensor
  <2> QED
    BY <1>2, <2>1 DEF localSetValue
<1> QED
  BY <1>1, <1>2

\* A sensor that shows what its flags say satisfies ShowsFlags.
LEMMA ShownFollows == ASSUME usi \in Sensor, usi.value = Shown(usi) PROVE ShowsFlags
<1>1. usi.undefined \in UndefinedBefore
  BY DEF UndefinedBefore, Sensor
<1>2. [usi EXCEPT !.undefined = usi.undefined] = usi
  BY DEF Sensor
<1> QED
  BY <1>1, <1>2 DEF ShowsFlags

\* A step of thread t that leaves the sensor alone and ends no pending store
\* keeps the invariant.
LEMMA ValueKept ==
    ASSUME ThType, ValueInv, UNCHANGED usi, NEW t \in Threads,
           Pending(t) => Pending(t)', \A s \in Threads \ {t} : th'[s] = th[s]
    PROVE  ValueInv'
<1>1. (\E s \in Threads : Pending(s)) => (\E s \in Threads : Pending(s)')
  BY DEF Pending
<1>2. ShowsFlags => ShowsFlags'
  BY DEF ShowsFlags, UndefinedBefore
<1>3. Recomputable(usi) => Recomputable(usi)'
  BY DEF Recomputable
<1> QED
  BY <1>1, <1>2, <1>3 DEF ValueInv

\* Every step of a thread keeps the invariant.
LEMMA ThreadValue ==
    ASSUME TypeOK, ValueInv, NEW t \in Threads, Change(t) \/ Continue(t)
    PROVE  ValueInv'
<1>0. usi \in Sensor /\ ThType
  BY TypeParts
<1> USE <1>0
<1>o. t \in DOMAIN th /\ \A s \in Threads : th[s] \in ThreadState
  BY DEF ThType
<1>1. ASSUME NEW v \in Values, SetValue(t, v) PROVE ValueInv'
  BY <1>1, ValueKept DEF SetValue, Pending, ThType
<1>2. ASSUME NEW set \in BOOLEAN, NEW v \in Values, FreezeValue(t, set, v) PROVE ValueInv'
  <2>1. th'[t].at = "prev"
    BY <1>2, <1>o DEF FreezeValue, ThType, ThreadState
  <2>2. Recomputable(FreezeFlag(usi, set, v))
    BY DEF Recomputable, FreezeFlag, Sensor
  <2>3. Recomputable(usi)'
    BY <1>2, <2>2 DEF FreezeValue, Recomputable
  <2> QED
    BY <2>1, <2>3 DEF ValueInv, Pending
<1>3. ASSUME NEW b \in BOOLEAN, SetParent(t, b) PROVE ValueInv'
  BY <1>3, ValueKept DEF SetParent, Pending, ThType
<1>4. ASSUME "undefine" \in Operations, NEW b \in BOOLEAN, SetUndefinedState(t, b) PROVE ValueInv'
  <2> SUFFICES ASSUME undef_value = NotSpecified PROVE ValueInv'
    BY DEF ValueInv
  <2>1. usi' = [usi EXCEPT !.undefined = b]
    BY <1>4 DEF SetUndefinedState, localSetUndefinedState, Sensor
  <2>2. Recomputable(usi)'
    BY <2>1 DEF ValueInv, Recomputable, Sensor
  <2>3. ShowsFlags => ShowsFlags'
    <3>1. \A un \in BOOLEAN : [usi' EXCEPT !.undefined = un] = [usi EXCEPT !.undefined = un]
      BY <2>1 DEF Sensor
    <3>2. usi'.value = usi.value
      BY <2>1 DEF Sensor
    <3> QED
      BY <3>1, <3>2, <1>4 DEF ShowsFlags, UndefinedBefore
  <2>4. (\E s \in Threads : Pending(s)) => (\E s \in Threads : Pending(s)')
    BY <1>4 DEF SetUndefinedState, Pending, ThType
  <2> QED
    BY <2>2, <2>3, <2>4 DEF ValueInv
<1>5. CASE CheckDepend(t)
  <2>1. CASE usi'.blocked # usi.blocked
    <3>0. Go(t, "real")
      BY <1>5, <2>1 DEF CheckDepend
    <3>1. th'[t].at = "real"
      BY <3>0, <1>o DEF Go, ThType, ThreadState
    <3>2. Recomputable(DependFlag(usi, permit)) <=> Recomputable(usi)
      BY DEF Recomputable, DependFlag, Sensor
    <3>3. Recomputable(usi)' <=> Recomputable(usi)
      BY <1>5, <3>2 DEF CheckDepend, Recomputable
    <3> QED
      BY <3>1, <3>3 DEF ValueInv, Pending
  <2>2. CASE usi'.blocked = usi.blocked
    <3>1. usi' = usi
      BY <1>5, <2>2 DEF CheckDepend, DependFlag, Sensor
    <3> QED
      BY <1>5, <2>2, <3>1, ValueKept DEF CheckDepend, Done, Pending, ThType
  <2> QED
    BY <2>1, <2>2
<1>6. CASE ReadReal(t)
  BY <1>6, ValueKept DEF ReadReal, Pending, ThType
<1>7. CASE ReadPrev(t)
  BY <1>7, ValueKept DEF ReadPrev, Pending, ThType
<1>8. CASE ReadRet(t)
  BY <1>8, ValueKept DEF ReadRet, Pending, ThType
<1>9. CASE StoreValue(t)
  <2> SUFFICES ASSUME undef_value = NotSpecified PROVE ValueInv'
    BY DEF ValueInv
  <2>1. th[t].val \in Values
    BY DEF ThType, ThreadState
  <2>2. usi' = localSetValue(usi, th[t].val)
    BY <1>9 DEF StoreValue
  <2>3. usi' \in Sensor /\ usi'.value = Shown(usi)' /\ Recomputable(usi)'
    BY <2>1, <2>2, StoreShows, StoreTypes DEF ValueInv, Shown, Recomputable, Blocked
  <2>4. usi'.undefined \in UndefinedBefore'
    BY <2>3 DEF UndefinedBefore, Sensor
  <2>5. [usi' EXCEPT !.undefined = usi'.undefined] = usi'
    BY <2>3 DEF Sensor
  <2>6. ShowsFlags'
    BY <2>3, <2>4, <2>5 DEF ShowsFlags, Shown, Blocked
  <2> QED
    BY <2>3, <2>6 DEF ValueInv
<1>10. CASE Notify(t)
  BY <1>10, ValueKept DEF Notify, Go, Pending, ThType
<1>11. CASE CheckThreshold(t)
  BY <1>11, ValueKept DEF CheckThreshold, Done, Pending, ThType
<1>12. CASE onChangeUndefinedState(t)
  BY <1>12, ValueKept DEF onChangeUndefinedState, Done, Pending, ThType
<1> QED
  BY <1>1, <1>2, <1>3, <1>4, <1>5, <1>6, <1>7, <1>8, <1>9, <1>10, <1>11, <1>12 DEF Change, Continue

\* Steps of consumers, and stuttering, leave sensor and threads alone.
LEMMA OtherSteps ==
    ASSUME [Next]_vars
    PROVE  (\E t \in Threads : Change(t) \/ Continue(t)) \/ UNCHANGED <<usi, th>>
BY DEF Next, vars, AskFirst, AskOther, ReachChanges, Ask, AskThreshold, AskThresholdLocked

\* Whatever the interleaving of any number of threads that store, freeze and
\* block, a sensor at rest shows what its flags and its stored value say.
THEOREM ValueCorrect == Spec => []ValueFollowsFlags
<1>1. Init => ValueInv
  <2> SUFFICES ASSUME Init PROVE ValueInv
    OBVIOUS
  <2>1. usi \in Sensor /\ usi.value = Shown(usi) /\ Recomputable(usi)
    BY ValuesAssumption DEF Init, NewSensor, Sensor, Shown, Blocked, Recomputable
  <2> QED
    BY <2>1, ShownFollows DEF ValueInv
<1>2. TypeOK /\ ValueInv /\ [Next]_vars => ValueInv'
  <2> SUFFICES ASSUME TypeOK, ValueInv, [Next]_vars PROVE ValueInv'
    OBVIOUS
  <2>1. CASE UNCHANGED <<usi, th>>
    BY <2>1 DEF ValueInv, Recomputable, ShowsFlags, UndefinedBefore, Pending
  <2> QED
    BY <2>1, ThreadValue, OtherSteps
<1>3. ValueInv => ValueFollowsFlags
  BY DEF ValueInv, ValueFollowsFlags, Quiet, Pending, ShowsFlags
<1> QED
  BY <1>1, <1>2, <1>3, NotifyTypes, PTL DEF Spec

-----------------------------------------------------------------------------
(* The threshold and the consumers, with one thread that writes            *)

OneWriter == \A s, t \in Threads : s = t

\* What localSetValue() has read before it stores is still true.
ReadTrue ==
    \A t \in Threads :
        /\ th[t].at \in {"ret", "set"} => th[t].prev = usi.value
        /\ th[t].at = "set" => th[t].cur = usi.value

\* A thread is past its store of a new value and before the step p.
Before(p) == \E t \in Threads : th[t].at \in p

\* What a step of the only thread t does to the value: it stays, or a store
\* changes it and the thread goes on to notify.
LEMMA WriterStep ==
    ASSUME TypeOK, ReadTrue, OneWriter, undef_value = NotSpecified,
           NEW t \in Threads, Change(t) \/ Continue(t)
    PROVE  /\ ReadTrue'
           /\ usi'.value = usi.value \/ (th[t].at = "set" /\ th'[t].at = "notify")
           /\ th[t].at = "notify" /\ th'[t].at # "notify" => Notify(t)
           /\ th[t].at \in {"notify", "threshold"} /\ th'[t].at \notin {"notify", "threshold"}
                 => CheckThreshold(t)
<1>0. usi \in Sensor /\ ThType /\ th[t] \in ThreadState
  BY TypeParts DEF ThType
<1> USE <1>0
<1>r. (\A s \in Threads : s = t) /\ (\A s \in Threads : th'[s] = th'[t])
  BY DEF OneWriter
<1> DEFINE Goal == /\ ReadTrue'
                   /\ usi'.value = usi.value \/ (th[t].at = "set" /\ th'[t].at = "notify")
                   /\ th[t].at = "notify" /\ th'[t].at # "notify" => Notify(t)
                   /\ th[t].at \in {"notify", "threshold"} /\ th'[t].at \notin {"notify", "threshold"}
                        => CheckThreshold(t)
<1>q. ASSUME th[t].at \notin {"notify", "threshold"}, usi'.value = usi.value,
             th'[t].at \notin {"ret", "set"}
      PROVE Goal
  BY <1>q, <1>r DEF ReadTrue
<1>1. ASSUME NEW v \in Values, SetValue(t, v) PROVE Goal
  <2>1. th[t].at = "idle" /\ th'[t].at = "prev" /\ usi'.value = usi.value
    BY <1>1 DEF SetValue, ThType, ThreadState
  <2> QED
    BY <2>1, <1>q
<1>2. ASSUME NEW set \in BOOLEAN, NEW v \in Values, FreezeValue(t, set, v) PROVE Goal
  <2>1. th[t].at = "idle" /\ th'[t].at = "prev"
    BY <1>2 DEF FreezeValue, ThType, ThreadState
  <2>2. usi'.value = usi.value
    BY <1>2, FreezeTypes DEF FreezeValue
  <2> QED
    BY <2>1, <2>2, <1>q
<1>3. ASSUME NEW b \in BOOLEAN, SetParent(t, b) PROVE Goal
  <2>1. th[t].at = "idle" /\ th'[t].at = "depend" /\ usi'.value = usi.value
    BY <1>3 DEF SetParent, ThType, ThreadState
  <2> QED
    BY <2>1, <1>q
<1>4. ASSUME NEW b \in BOOLEAN, SetUndefinedState(t, b) PROVE Goal
  <2>1. th[t].at = "idle" /\ th'[t].at \in {"idle", "undefined"}
    BY <1>4 DEF SetUndefinedState, ThType, ThreadState
  <2>2. usi'.value = usi.value
    BY <1>4, UndefinedTypes DEF SetUndefinedState
  <2> QED
    BY <2>1, <2>2, <1>q
<1>5. CASE CheckDepend(t)
  <2>1. permit \in BOOLEAN
    BY TypeParts
  <2>2. usi'.value = usi.value
    BY <1>5, <2>1, DependTypes DEF CheckDepend
  <2>3. Go(t, "real") => th'[t].at = "real"
    BY DEF Go, ThType, ThreadState
  <2>4. Done(t) => th'[t].at = "idle"
    BY DEF Done, Resting, ThType
  <2>5. th[t].at = "depend" /\ (Go(t, "real") \/ Done(t))
    BY <1>5 DEF CheckDepend
  <2> QED
    BY <2>2, <2>3, <2>4, <2>5, <1>q
<1>6. CASE ReadReal(t)
  <2>1. th[t].at = "real" /\ th'[t].at = "prev" /\ usi'.value = usi.value
    BY <1>6 DEF ReadReal, ThType, ThreadState
  <2> QED
    BY <2>1, <1>q
<1>7. CASE ReadPrev(t)
  <2>1. th[t].at = "prev" /\ th'[t].at = "ret" /\ th'[t].prev = usi'.value /\ usi' = usi
    BY <1>7 DEF ReadPrev, ThType, ThreadState
  <2> QED
    BY <2>1, <1>r DEF ReadTrue
<1>8. CASE ReadRet(t)
  <2>1. /\ th[t].at = "ret" /\ th'[t].at = "set" /\ usi' = usi
        /\ th'[t].cur = usi'.value /\ th'[t].prev = th[t].prev
    BY <1>8 DEF ReadRet, ThType, ThreadState
  <2> QED
    BY <2>1, <1>r DEF ReadTrue
<1>9. CASE StoreValue(t)
  <2>1. th[t].at = "set" /\ th[t].prev = usi.value /\ th[t].cur = usi.value
    BY <1>9 DEF StoreValue, ReadTrue
  <2>2. ~Changes(usi, th[t].val) => usi'.value = usi.value
    BY <1>9 DEF StoreValue, localSetValue
  <2>3. Go(t, "notify") => th'[t].at = "notify"
    BY DEF Go, ThType, ThreadState
  <2>4. Done(t) => th'[t].at = "idle"
    BY DEF Done, Resting, ThType
  <2>5. \/ usi'.value = usi.value /\ Done(t)
        \/ Go(t, "notify")
    BY <1>9, <2>1, <2>2 DEF StoreValue
  <2> QED
    BY <2>1, <2>3, <2>4, <2>5, <1>q, <1>r DEF ReadTrue
<1>10. CASE Notify(t)
  <2>1. th[t].at = "notify" /\ th'[t].at = "threshold" /\ usi' = usi
    BY <1>10 DEF Notify, Go, ThType, ThreadState
  <2> QED
    BY <1>10, <2>1, <1>r DEF ReadTrue
<1>11. CASE CheckThreshold(t)
  <2>1. th[t].at = "threshold" /\ th'[t].at = "idle" /\ usi' = usi
    BY <1>11 DEF CheckThreshold, Done, Resting, ThType, ThreadState
  <2> QED
    BY <1>11, <2>1, <1>r DEF ReadTrue
<1>12. CASE onChangeUndefinedState(t)
  <2>1. th[t].at = "undefined" /\ th'[t].at = "idle" /\ usi'.value = usi.value
    BY <1>12 DEF onChangeUndefinedState, Done, Resting, ThType, ThreadState
  <2> QED
    BY <2>1, <1>q
<1> QED
  BY <1>1, <1>2, <1>3, <1>4, <1>5, <1>6, <1>7, <1>8, <1>9, <1>10, <1>11, <1>12 DEF Change, Continue

\* ReadTrue holds from the beginning, and steps of consumers keep it.
LEMMA ReadTrueInv ==
    ASSUME OneWriter, undef_value = NotSpecified
    PROVE  Spec => []ReadTrue
<1>1. Init => ReadTrue
  BY DEF Init, ReadTrue, Resting
<1>2. TypeOK /\ ReadTrue /\ [Next]_vars => ReadTrue'
  <2> SUFFICES ASSUME TypeOK, ReadTrue, [Next]_vars PROVE ReadTrue'
    OBVIOUS
  <2>1. CASE UNCHANGED <<usi, th>>
    BY <2>1 DEF ReadTrue
  <2> QED
    BY <2>1, OtherSteps, WriterStep
<1> QED
  BY <1>1, <1>2, NotifyTypes, PTL DEF Spec

\* The inductive invariant: a configured threshold has the state the value
\* calls for, unless the thread is still on its way to checkThreshold().
ThresholdInv ==
    Configured =>
        /\ state # "none"
        /\ tsensor = Triggered(state)
        /\ ThresholdState(usi.value, state) = state \/ Before({"notify", "threshold"})

\* checkThreshold() for the same value again changes nothing.
LEMMA ThresholdSettles ==
    ASSUME NEW v \in Values, NEW s \in States
    PROVE  /\ ThresholdState(v, ThresholdState(v, s)) = ThresholdState(v, s)
           /\ s # "none" => ThresholdState(v, s) # "none"
BY ValuesAssumption, LimitsAssumption DEF ThresholdState, States

\* Only checkThreshold() and askThreshold() change the threshold.
LEMMA ThresholdUnchanged ==
    ASSUME NEW t \in Threads, Change(t) \/ Continue(t), ~CheckThreshold(t)
    PROVE  UNCHANGED <<state, tsensor>>
BY DEF Change, Continue, SetValue, FreezeValue, SetParent, SetUndefinedState, CheckDepend,
       ReadReal, ReadPrev, ReadRet, StoreValue, Notify, onChangeUndefinedState, threshold

\* Every step of the only thread keeps the invariant of the threshold.
LEMMA ThresholdStep ==
    ASSUME TypeOK, ReadTrue, OneWriter, undef_value = NotSpecified, ThresholdInv,
           NEW t \in Threads, Change(t) \/ Continue(t)
    PROVE  ThresholdInv'
<1> SUFFICES ASSUME Configured PROVE ThresholdInv'
  BY DEF ThresholdInv
<1>0. usi \in Sensor /\ ThType /\ usi.value \in Values /\ state \in States
  BY TypeParts DEF Sensor, ThresholdType
<1>1. CASE CheckThreshold(t)
  <2>1. state' = ThresholdState(usi.value, state)
    BY <1>1 DEF CheckThreshold, ThresholdInv
  <2>2. tsensor' = Triggered(state')
    BY <1>1 DEF CheckThreshold, ThresholdInv
  <2>3. usi' = usi
    BY <1>1 DEF CheckThreshold
  <2>4. state' # "none" /\ ThresholdState(usi.value, state') = state'
    BY <1>0, <2>1, ThresholdSettles DEF ThresholdInv
  <2> QED
    BY <2>2, <2>3, <2>4 DEF ThresholdInv, Triggered, ThresholdState
<1>2. CASE ~CheckThreshold(t)
  <2>1. UNCHANGED <<state, tsensor>>
    BY <1>2, ThresholdUnchanged
  <2>2. usi'.value = usi.value \/ Before({"notify", "threshold"})'
    BY WriterStep DEF Before
  <2>3. \A s \in Threads : s = t
    BY DEF OneWriter
  <2>4. Before({"notify", "threshold"}) => Before({"notify", "threshold"})'
    BY <1>2, <2>3, WriterStep DEF Before
  <2> QED
    BY <2>1, <2>2, <2>4 DEF ThresholdInv, Triggered, ThresholdState
<1> QED
  BY <1>1, <1>2

\* With one thread that writes, and no value configured for the undefined
\* sensor, a configured threshold at rest is on beyond one limit, off beyond
\* the other, and its sensor says so.
THEOREM ThresholdCorrect ==
    ASSUME OneWriter, undef_value = NotSpecified
    PROVE  Spec => []ThresholdFollowsValue
<1>1. Init => ThresholdInv
  <2> SUFFICES ASSUME Init, Configured PROVE ThresholdInv
    BY DEF ThresholdInv
  <2>1. state = ThresholdState(0, "NormalThreshold") /\ usi.value = 0
    BY DEF Init, NewSensor
  <2>2. tsensor = Triggered(state)
    BY DEF Init, Triggered
  <2>3. 0 \in Values /\ "NormalThreshold" \in States
    BY ValuesAssumption DEF States
  <2> QED
    BY <2>1, <2>2, <2>3, ThresholdSettles DEF ThresholdInv
<1>2. TypeOK /\ TypeOK' /\ ReadTrue /\ ThresholdInv /\ [Next]_vars => ThresholdInv'
  <2> SUFFICES ASSUME TypeOK, ReadTrue, ThresholdInv, [Next]_vars PROVE ThresholdInv'
    OBVIOUS
  <2>1. CASE \E t \in Threads : Change(t) \/ Continue(t)
    BY <2>1, ThresholdStep
  <2>2. CASE UNCHANGED <<usi, th, state, tsensor>>
    BY <2>2 DEF ThresholdInv, Triggered, ThresholdState, Before
  <2>3. CASE AskThresholdLocked
    <3>1. UNCHANGED <<usi, th, tsensor>>
      BY <2>3 DEF AskThresholdLocked
    <3>2. state # "none" => state' = state
      BY <2>3 DEF AskThresholdLocked
    <3> QED
      BY <3>1, <3>2 DEF ThresholdInv, Triggered, ThresholdState, Before
  <2>4. ASSUME NEW c \in Consumers,
               AskFirst(c) \/ AskOther(c) \/ ReachChanges(c) \/ \E cmd \in Commands : Ask(c, cmd)
        PROVE UNCHANGED <<usi, th, state, tsensor>>
    BY <2>4 DEF AskFirst, AskOther, ReachChanges, Ask, threshold
  <2>5. ASSUME NEW cmd \in Commands \ {"UIONotifyFirstNotNull"}, AskThreshold(cmd)
        PROVE UNCHANGED <<usi, th, state, tsensor>>
    BY <2>5 DEF AskThreshold
  <2>6. UNCHANGED vars => UNCHANGED <<usi, th, state, tsensor>>
    BY DEF vars, threshold
  <2> QED
    BY <2>1, <2>2, <2>3, <2>4, <2>5, <2>6 DEF Next
<1>3. TypeOK /\ ThresholdInv => ThresholdFollowsValue
  <2> SUFFICES ASSUME TypeOK, ThresholdInv, Quiet, Configured, lowLimit < hiLimit
               PROVE  /\ usi.value <= lowLimit => Triggered(state) = invert
                      /\ usi.value >= hiLimit => Triggered(state) = ~invert
                      /\ tsensor = Triggered(state)
    BY DEF ThresholdFollowsValue
  <2>1. ThresholdState(usi.value, state) = state /\ tsensor = Triggered(state)
    BY DEF ThresholdInv, Quiet, Before
  <2>2. usi.value \in Nat /\ lowLimit \in Nat /\ hiLimit \in Nat
    BY ValuesAssumption, LimitsAssumption, TypeParts DEF Sensor
  <2>3. invert => /\ usi.value <= lowLimit => state = "LowThreshold"
                  /\ usi.value >= hiLimit => state = "NormalThreshold"
    BY <2>1, <2>2 DEF ThresholdState
  <2>4. ~invert => /\ usi.value <= lowLimit => state = "NormalThreshold"
                   /\ usi.value >= hiLimit => state = "HiThreshold"
    BY <2>1, <2>2 DEF ThresholdState
  <2>5. usi.value <= lowLimit => (state # "NormalThreshold") = invert
    BY <2>3, <2>4, FlagsAssumption
  <2>6. usi.value >= hiLimit => (state # "NormalThreshold") = ~invert
    BY <2>3, <2>4, FlagsAssumption
  <2> QED
    BY <2>1, <2>5, <2>6 DEF Triggered
<1> QED
  BY <1>1, <1>2, <1>3, NotifyTypes, ReadTrueInv, PTL DEF Spec

\* What SubscribersInformed asks for one consumer.
Informed(c) == view[c] = usi.value \/ lost[c] \/ attempt[c] \in 1..(maxAttempts - 1)

\* A consumer out of the list that still wants the sensor is marked lost.
OutIsLost == \A c \in Consumers : want[c] /\ attempt[c] = 0 => lost[c]

\* The inductive invariant: a consumer not informed waits for its first
\* message, and will get it, unless the thread is about to notify everybody.
AllInformed ==
    \A c \in Consumers :
        want[c] => \/ apc[c] = "UIONotify"
                   \/ apc[c] = "UIONotifyFirstNotNull" /\ usi.value # 0
                   \/ Informed(c)

SubscribersInv == OutIsLost /\ (AllInformed \/ Before({"notify"}))

\* After a round of messages to the consumers in "to" each of these that
\* wants the sensor is informed, and the lost ones are marked.
LEMMA SendInforms ==
    ASSUME usi \in Sensor, ClientsType, OutIsLost, NEW to, send(to), UNCHANGED <<usi, want>>
    PROVE  /\ OutIsLost'
           /\ \A c \in Consumers : want[c] /\ c \in to => Informed(c)'
           /\ \A c \in Consumers : c \notin to =>
                 view'[c] = view[c] /\ lost'[c] = lost[c] /\ attempt'[c] = attempt[c]
<1> DEFINE listed == {c \in to : attempt[c] > 0}
<1>1. \A c \in Consumers :
        /\ attempt'[c] = IF c \in listed THEN AfterSend(c) ELSE attempt[c]
        /\ lost'[c] = (lost[c] \/ (c \in listed /\ AfterSend(c) = 0))
        /\ view'[c] = IF c \in listed /\ reach[c] THEN usi.value ELSE view[c]
  BY DEF send
<1>2. \A c \in Consumers : c \in listed /\ ~reach[c] =>
        AfterSend(c) = 0 \/ AfterSend(c) \in 1..(maxAttempts - 1)
  BY AttemptsAssumption DEF AfterSend, ClientsType
<1>3. ASSUME NEW c \in Consumers, want[c], attempt'[c] = 0 PROVE lost'[c]
  <2>1. CASE c \in listed
    BY <1>1, <1>3, <2>1
  <2>2. CASE c \notin listed
    BY <1>1, <1>3, <2>2 DEF OutIsLost
  <2> QED
    BY <2>1, <2>2
<1>4. ASSUME NEW c \in Consumers, want[c], c \in to PROVE Informed(c)'
  <2>1. CASE c \in listed /\ reach[c]
    BY <1>1, <2>1 DEF Informed
  <2>2. CASE c \in listed /\ ~reach[c]
    BY <1>1, <1>2, <2>2 DEF Informed
  <2>3. CASE c \notin listed
    <3>1. attempt[c] = 0
      BY <1>4, <2>3 DEF ClientsType
    <3> QED
      BY <1>1, <1>4, <2>3, <3>1 DEF OutIsLost, Informed
  <2> QED
    BY <2>1, <2>2, <2>3
<1>5. ASSUME NEW c \in Consumers, c \notin to
      PROVE  view'[c] = view[c] /\ lost'[c] = lost[c] /\ attempt'[c] = attempt[c]
  <2>1. c \notin listed
    BY <1>5
  <2>2. lost[c] \in BOOLEAN
    BY DEF ClientsType
  <2> QED
    BY <1>1, <2>1, <2>2
<1> QED
  BY <1>3, <1>4, <1>5 DEF OutIsLost

\* Only a round of messages, or the consumer, changes what is kept of it.
LEMMA ClientsUnchanged ==
    ASSUME NEW t \in Threads, Change(t) \/ Continue(t),
           ~Notify(t), ~onChangeUndefinedState(t)
    PROVE  UNCHANGED clients
BY DEF Change, Continue, SetValue, FreezeValue, SetParent, SetUndefinedState, CheckDepend,
       ReadReal, ReadPrev, ReadRet, StoreValue, CheckThreshold

\* Every step of the only thread keeps the invariant of the consumers.
LEMMA SubscribersThread ==
    ASSUME TypeOK, ReadTrue, OneWriter, undef_value = NotSpecified, SubscribersInv,
           NEW t \in Threads, Change(t) \/ Continue(t)
    PROVE  SubscribersInv'
<1>0. usi \in Sensor /\ ThType /\ ClientsType
  BY TypeParts
<1>r. \A s \in Threads : s = t
  BY DEF OneWriter
<1>1. CASE Notify(t) \/ onChangeUndefinedState(t)
  <2>1. send(Consumers) /\ UNCHANGED <<usi, want, apc>>
    BY <1>1 DEF Notify, onChangeUndefinedState
  <2>2. OutIsLost' /\ \A c \in Consumers : want[c] => Informed(c)'
    BY <1>0, <2>1, SendInforms DEF SubscribersInv
  <2> QED
    BY <2>1, <2>2 DEF SubscribersInv, AllInformed
<1>2. CASE ~(Notify(t) \/ onChangeUndefinedState(t))
  <2>1. UNCHANGED <<attempt, reach, apc, want, lost, view>>
    BY <1>2, ClientsUnchanged DEF clients
  <2>2. OutIsLost'
    BY <2>1 DEF SubscribersInv, OutIsLost
  <2>3. Before({"notify"}) => Before({"notify"})'
    BY <1>2, <1>r, WriterStep DEF Before
  <2>4. usi'.value = usi.value \/ Before({"notify"})'
    BY WriterStep DEF Before
  <2>5. usi'.value = usi.value /\ AllInformed => AllInformed'
    BY <2>1 DEF AllInformed, Informed
  <2> QED
    BY <2>2, <2>3, <2>4, <2>5 DEF SubscribersInv
<1> QED
  BY <1>1, <1>2

\* Every step of a consumer keeps the invariant.
LEMMA SubscribersAsk ==
    ASSUME TypeOK, SubscribersInv, NEW c \in Consumers,
           AskFirst(c) \/ AskOther(c) \/ ReachChanges(c) \/ \E cmd \in Commands : Ask(c, cmd)
    PROVE  SubscribersInv'
<1>0. usi \in Sensor /\ ThType /\ ClientsType
  BY TypeParts
<1>n. UNCHANGED <<usi, th>>
  BY DEF AskFirst, AskOther, ReachChanges, Ask
<1>b. Before({"notify"}) => Before({"notify"})'
  BY <1>n DEF Before
<1>1. CASE AskFirst(c)
  <2>1. UNCHANGED <<want, reach>> /\ apc' = [apc EXCEPT ![c] = "idle"] /\ apc[c] # "idle"
    BY <1>1 DEF AskFirst
  <2>2. CASE send({c})
    <3>1. /\ OutIsLost'
          /\ want[c] => Informed(c)'
          /\ \A d \in Consumers : d # c =>
                view'[d] = view[d] /\ lost'[d] = lost[d] /\ attempt'[d] = attempt[d]
      BY <1>0, <1>n, <2>1, <2>2, SendInforms DEF SubscribersInv
    <3>2. ASSUME AllInformed PROVE AllInformed'
      <4> SUFFICES ASSUME NEW d \in Consumers, want[d]
                   PROVE  \/ apc'[d] = "UIONotify"
                          \/ apc'[d] = "UIONotifyFirstNotNull" /\ usi'.value # 0
                          \/ Informed(d)'
        BY <2>1 DEF AllInformed
      <4>1. CASE d = c
        BY <3>1, <4>1
      <4>2. CASE d # c
        <5>1. apc'[d] = apc[d]
          BY <2>1, <4>2, <1>0 DEF ClientsType
        <5> QED
          BY <3>1, <3>2, <4>2, <5>1, <1>n DEF AllInformed, Informed
      <4> QED
        BY <4>1, <4>2
    <3> QED
      BY <3>1, <3>2, <1>b DEF SubscribersInv
  <2>3. CASE UNCHANGED <<attempt, lost, view>> /\ ~(apc[c] = "UIONotify" \/ usi.value # 0)
    <3>1. OutIsLost'
      BY <2>1, <2>3 DEF OutIsLost, SubscribersInv
    <3>2. \A d \in Consumers : apc'[d] = IF d = c THEN "idle" ELSE apc[d]
      BY <2>1, <1>0 DEF ClientsType
    <3>3. AllInformed => AllInformed'
      BY <2>1, <2>3, <3>2, <1>n DEF AllInformed, Informed
    <3> QED
      BY <3>1, <3>3, <1>b DEF SubscribersInv
  <2> QED
    BY <1>1, <2>2, <2>3 DEF AskFirst
<1>2. CASE ReachChanges(c)
  <2>1. UNCHANGED <<usi, th, attempt, apc, want, lost, view>>
    BY <1>2 DEF ReachChanges
  <2> QED
    BY <2>1, <1>b DEF SubscribersInv, OutIsLost, AllInformed, Informed
<1>4. CASE AskOther(c)
  <2>1. UNCHANGED <<usi, th, attempt, apc, view>>
    BY <1>4 DEF AskOther
  <2>2. \A d \in Consumers : want'[d] => want[d] /\ lost'[d] = lost[d]
    BY <1>4, <1>0 DEF AskOther, ClientsType
  <2> QED
    BY <2>1, <2>2, <1>b DEF SubscribersInv, OutIsLost, AllInformed, Informed
<1>3. ASSUME NEW cmd \in Commands, Ask(c, cmd) PROVE SubscribersInv'
  <2>1. \A d \in Consumers : d # c =>
          /\ attempt'[d] = attempt[d] /\ want'[d] = want[d] /\ lost'[d] = lost[d]
          /\ view'[d] = view[d] /\ apc'[d] = apc[d]
    BY <1>3, <1>0 DEF Ask, ClientsType
  <2>2. /\ want'[c] = (cmd # "UIODontNotify")
        /\ cmd # "UIODontNotify" => attempt'[c] = maxAttempts
        /\ apc'[c] = IF cmd \in {"UIONotify", "UIONotifyFirstNotNull"} THEN cmd ELSE "idle"
    BY <1>3, <1>0 DEF Ask, ClientsType
  <2>3. /\ cmd = "UIONotifyChange" => view'[c] = usi.value
        /\ cmd = "UIONotifyFirstNotNull" => view'[c] = 0
    BY <1>3, <1>0 DEF Ask, ClientsType
  <2>4. OutIsLost'
    BY <2>1, <2>2, AttemptsAssumption DEF SubscribersInv, OutIsLost
  <2>5. cmd \in {"UIONotify", "UIONotifyChange", "UIONotifyFirstNotNull", "UIODontNotify"}
    BY CommandsAssumption
  <2>6. want'[c] => \/ apc'[c] = "UIONotify"
                    \/ apc'[c] = "UIONotifyFirstNotNull" /\ usi'.value # 0
                    \/ Informed(c)'
    BY <2>2, <2>3, <2>5, <1>n DEF Informed
  <2>7. AllInformed => AllInformed'
    BY <2>1, <2>6, <1>n DEF AllInformed, Informed
  <2> QED
    BY <2>4, <2>7, <1>b DEF SubscribersInv
<1> QED
  BY <1>1, <1>2, <1>3, <1>4

\* With one thread that writes, and no value configured for the undefined
\* sensor, a consumer at rest knows the sensor's value, or is known to have
\* missed a message.
THEOREM SubscribersCorrect ==
    ASSUME OneWriter, undef_value = NotSpecified
    PROVE  Spec => []SubscribersInformed
<1>1. Init => SubscribersInv
  BY DEF Init, SubscribersInv, OutIsLost, AllInformed
<1>2. TypeOK /\ ReadTrue /\ SubscribersInv /\ [Next]_vars => SubscribersInv'
  <2> SUFFICES ASSUME TypeOK, ReadTrue, SubscribersInv, [Next]_vars PROVE SubscribersInv'
    OBVIOUS
  <2>1. CASE \E t \in Threads : Change(t) \/ Continue(t)
    BY <2>1, SubscribersThread
  <2>2. CASE \E c \in Consumers :
               AskFirst(c) \/ AskOther(c) \/ ReachChanges(c) \/ \E cmd \in Commands : Ask(c, cmd)
    BY <2>2, SubscribersAsk
  <2>3. CASE UNCHANGED <<usi, th, attempt, apc, want, lost, view>>
    BY <2>3 DEF SubscribersInv, OutIsLost, AllInformed, Informed, Before
  <2>4. ASSUME \/ \E cmd \in Commands \ {"UIONotifyFirstNotNull"} : AskThreshold(cmd)
               \/ AskThresholdLocked \/ UNCHANGED vars
        PROVE UNCHANGED <<usi, th, attempt, apc, want, lost, view>>
    BY <2>4 DEF AskThreshold, AskThresholdLocked, vars, clients
  <2> QED
    BY <2>1, <2>2, <2>3, <2>4 DEF Next
<1>3. SubscribersInv => SubscribersInformed
  BY DEF SubscribersInv, AllInformed, Informed, Before, Quiet, SubscribersInformed
<1> QED
  BY <1>1, <1>2, <1>3, NotifyTypes, ReadTrueInv, PTL DEF Spec

=============================================================================
