------------------------ MODULE MBTCPMultiMasterProofs ------------------------
(***************************************************************************)
(* For any number of gates and any length of the ignore timeout: the state *)
(* of the two threads is well typed, and they never exchange through one   *)
(* client at the same time (its forced disconnection apart).               *)
(***************************************************************************)
EXTENDS MBTCPMultiMaster, TLAPS

\* Who is inside check() or init() holds the gate's mutex, and the gate that
\* the check thread asks is not in use.
MutexHeld ==
    /\ cpc \in {"query", "torn"} => owner[cur] = "check" /\ ~use[cur]
    /\ ppc \in {"query", "connect"} => owner[at] = "poll"

\* The poll thread asks the current gate, which is in use.
CurrentInUse == ppc = "poll" /\ mb # None => use[mb] /\ mbi = mb

\* Without the check thread there is always a current gate.
AlwaysCurrent == ~checktime => ppc = "poll" /\ mbi # None /\ cpc = "start"

IInv == TypeOK /\ MutexHeld /\ CurrentInUse /\ AlwaysCurrent

\* Checking a delay timer and letting its delay pass give a delay timer.
LEMMA DelayTypes ==
    ASSUME NEW t \in DelayTimers, NEW st \in BOOLEAN
    PROVE  /\ DelayCheck(t, st, Delayed) \in DelayTimers
           /\ DelayPasses(t) \in DelayTimers
  BY DEF DelayTimers, DelayCheck, DelayPasses, Delayed

\* The invariant holds at the start.
LEMMA InitIInv == Init => IInv
  <1> SUFFICES ASSUME Init PROVE IInv
    OBVIOUS
  <1> USE GatesAssumption DEF Init
  <1>1. NGates \in Gates /\ 1 \in Gates
    BY DEF Gates
  <1>2. DelayReset \in DelayTimers
    BY DEF DelayReset, DelayTimers
  <1>3. use \in [Gates -> BOOLEAN]
    BY Zenon
  <1>4. ignoring \in [Gates -> 0 .. IgnoreTicks]
    BY IgnoreTicks \in 0 .. IgnoreTicks
  <1>5. respondDelay \in [Gates -> DelayTimers] /\ owner \in [Gates -> {"none", "poll", "check"}]
    BY <1>2
  <1>6. /\ respond \in [Gates -> BOOLEAN] /\ ignore \in [Gates -> BOOLEAN]
        /\ respond_init \in [Gates -> BOOLEAN] /\ initOK \in [Gates -> BOOLEAN]
        /\ sensor \in [Gates -> BOOLEAN]
    OBVIOUS
  <1>7. /\ link \in [Gates -> Links] /\ checktime \in BOOLEAN
        /\ changes \in 0 .. MaxChanges
    OBVIOUS
  <1>8. TypeOK
    <2>1. mbi \in Gates \cup {None} /\ mb \in Gates \cup {None}
      BY <1>1
    <2>2. quiet = "no" /\ ppc = "poll" /\ cpc = "start"
      OBVIOUS
    <2>3. pass \in 0 .. 2 /\ at \in Gates /\ cur \in Gates
      BY <1>1
    <2>4. reopen \in BOOLEAN /\ r \in BOOLEAN /\ timer \in BOOLEAN
      BY Zenon
    <2> HIDE DEF Init
    <2> QED
      BY <1>3, <1>4, <1>5, <1>6, <1>7, <2>1, <2>2, <2>3, <2>4 DEF TypeOK
  <1> QED
    BY <1>1, <1>8 DEF IInv, MutexHeld, CurrentInUse, AlwaysCurrent, Gates, None

\* What setUse() leaves behind: it runs when nobody is inside check() or
\* init() of the gate.
LEMMA SetUse ==
    ASSUME IInv, NEW c \in Gates, NEW b \in BOOLEAN, setUse(c, b)
    PROVE  /\ use' \in [Gates -> BOOLEAN] /\ respond_init' \in [Gates -> BOOLEAN]
           /\ use'[c] = b /\ \A d \in Gates \ {c} : use'[d] = use[d]
           /\ cpc \in {"query", "torn"} => cur # c
  BY DEF IInv, TypeOK, MutexHeld, setUse, CanLock

\* Going on to the next gate ends in the scan or with no channel.
LEMMA NextGateTypes ==
    ASSUME IInv, NextGate
    PROVE  /\ ppc' \in {"scan", "poll"} /\ pass' \in 0 .. 2 /\ at' \in Gates
           /\ reopen' \in BOOLEAN
           /\ mbi' \in Gates \cup {None} /\ mb' \in Gates \cup {None}
           /\ ppc' = "poll" => mb' = None
  <1> USE GatesAssumption DEF NextGate, Return
  <1>1. pass' \in 0 .. 2 /\ at' \in Gates
    BY SMTT(30) DEF IInv, TypeOK, Gates
  <1> QED
    BY <1>1 DEF IInv, TypeOK, None

\* The poll thread keeps the invariant.
LEMMA PollStep == IInv /\ PollThread => IInv'
  <1> SUFFICES ASSUME IInv, PollThread PROVE IInv'
    OBVIOUS
  <1> USE GatesAssumption
  <1>1. CASE Poll
    BY <1>1 DEF Poll, IInv, TypeOK, MutexHeld, CurrentInUse, AlwaysCurrent, net,
                gates, checker
  <1>2. ASSUME RoundRobin, ppc = "poll", ~checktime, UNCHANGED <<net, checker>>
        PROVE  IInv'
    <2>1. PICK c \in Gates : c = IF mbi = 1 THEN NGates ELSE mbi - 1
      BY <1>2 DEF IInv, TypeOK, AlwaysCurrent, Gates, None
    <2>2. setUse(c, TRUE) /\ mbi' = c /\ mb' = c
      BY <1>2, <2>1 DEF RoundRobin
    <2>3. initOK' \in [Gates -> BOOLEAN]
      BY <1>2 DEF RoundRobin, IInv, TypeOK
    <2>11. reopen' \in BOOLEAN
      BY <1>2, Zenon DEF RoundRobin, Return
    <2>4. /\ ppc' = "poll" /\ pass' \in 0 .. 2 /\ at' \in Gates
          /\ quiet' \in {"no", "waiting", "due"}
          /\ UNCHANGED <<respond, ignore, ignoring, owner>>
      BY <1>2 DEF RoundRobin, Return, Restarted, IInv, TypeOK, Gates
    <2>5. use' \in [Gates -> BOOLEAN] /\ respond_init' \in [Gates -> BOOLEAN]
      BY <2>2, SetUse
    <2>6. use'[c] = TRUE
      BY <2>2, SetUse, Zenon
    <2>7. c # None
      BY DEF Gates, None
    <2>8. TypeOK'
      <3>1. UNCHANGED <<link, changes, checktime, respondDelay, sensor, cpc, cur, r, timer>>
        BY <1>2 DEF net, checker
      <3>2. mbi' \in Gates \cup {None} /\ mb' \in Gates \cup {None}
        BY <2>2
      <3> QED
        BY <2>3, <2>4, <2>5, <2>11, <3>1, <3>2 DEF IInv, TypeOK
    <2>9. MutexHeld' /\ AlwaysCurrent'
      BY <1>2, <2>2, <2>4, <2>7 DEF IInv, MutexHeld, AlwaysCurrent, net, checker
    <2>10. CurrentInUse'
      BY <2>2, <2>6 DEF CurrentInUse
    <2> QED
      BY <2>8, <2>9, <2>10 DEF IInv
  <1>3. ASSUME NEW b \in BOOLEAN, RenewIgnore(b), ppc = "poll", checktime,
               UNCHANGED <<net, checker>>
        PROVE  IInv'
    <2>1. /\ use' \in [Gates -> BOOLEAN] /\ respond_init' \in [Gates -> BOOLEAN]
          /\ cpc \in {"query", "torn"} => use'[cur] = use[cur]
      <3>1. CASE b /\ mbi # None
        <4>1. mbi \in Gates /\ setUse(mbi, FALSE)
          BY <1>3, <3>1 DEF RenewIgnore, IInv, TypeOK
        <4> QED
          BY <4>1, SetUse DEF IInv, TypeOK
      <3>2. CASE ~(b /\ mbi # None)
        BY <1>3, <3>2 DEF RenewIgnore, IInv, TypeOK
      <3> QED
        BY <3>1, <3>2
    <2>2. ignore' \in [Gates -> BOOLEAN] /\ ignoring' \in [Gates -> 0 .. IgnoreTicks]
      BY <1>3 DEF RenewIgnore, IInv, TypeOK
    <2>3. /\ reopen' = b /\ ppc' = "judge" /\ quiet' \in {"no", "waiting", "due"}
          /\ UNCHANGED <<respond, initOK, owner, mbi, mb, pass, at>>
      BY <1>3 DEF RenewIgnore, Restarted, IInv, TypeOK
    <2> QED
      BY <1>3, <2>1, <2>2, <2>3
         DEF IInv, TypeOK, MutexHeld, CurrentInUse, AlwaysCurrent, net, checker
  <1>4. CASE PollInits
    BY <1>2, <1>3, <1>4 DEF PollInits, IInv, TypeOK
  <1>5. CASE PollReopens
    BY <1>2, <1>3, <1>5 DEF PollReopens, IInv, TypeOK
  <1>6. CASE Judge
    BY <1>6 DEF Judge, IInv, TypeOK, MutexHeld, CurrentInUse, AlwaysCurrent, net,
                gates, checker, None, Gates
  <1>7. CASE Scan
    BY <1>7, NextGateTypes
       DEF Scan, IInv, TypeOK, MutexHeld, CurrentInUse, AlwaysCurrent, net, gates,
           checker
  <1>8. CASE CheckUsed
    BY <1>8, NextGateTypes
       DEF CheckUsed, Checked, IInv, TypeOK, MutexHeld, CurrentInUse, AlwaysCurrent,
           net, checker
  <1>9. CASE CheckLocks
    BY <1>9 DEF CheckLocks, IInv, TypeOK, MutexHeld, CurrentInUse, AlwaysCurrent,
                net, checker
  <1>10. CASE CheckEnds
    BY <1>10, NextGateTypes
       DEF CheckEnds, Checked, Answers, Connects, IInv, TypeOK, MutexHeld,
           CurrentInUse, AlwaysCurrent, net, checker
  <1>11. CASE Unuse
    <2>1. at \in Gates /\ setUse(at, FALSE)
      BY <1>11 DEF Unuse, IInv, TypeOK
    <2>2. /\ use' \in [Gates -> BOOLEAN] /\ respond_init' \in [Gates -> BOOLEAN]
          /\ cpc \in {"query", "torn"} => use'[cur] = use[cur]
      BY <2>1, SetUse DEF IInv, TypeOK
    <2>3. at' \in Gates
      BY <1>11 DEF Unuse, Gates
    <2> QED
      BY <1>11, <2>2, <2>3
         DEF Unuse, IInv, TypeOK, MutexHeld, CurrentInUse, AlwaysCurrent, net, checker
  <1>15. CASE Disconnect
    BY <1>15 DEF Disconnect, IInv, TypeOK, MutexHeld, CurrentInUse, AlwaysCurrent, net, gates
  <1>12. CASE InitLocks
    BY <1>12 DEF InitLocks, IInv, TypeOK, MutexHeld, CurrentInUse, AlwaysCurrent,
                 net, checker
  <1>13. CASE InitEnds
    BY <1>13, NextGateTypes
       DEF InitEnds, Connects, IInv, TypeOK, MutexHeld, CurrentInUse, AlwaysCurrent,
           net, checker
  <1>14. CASE Take
    <2>1. at \in Gates /\ setUse(at, TRUE) /\ mbi' = at /\ mb' = at
      BY <1>14 DEF Take, IInv, TypeOK
    <2>2. /\ use' \in [Gates -> BOOLEAN] /\ respond_init' \in [Gates -> BOOLEAN]
          /\ use'[at] = TRUE
          /\ cpc \in {"query", "torn"} => use'[cur] = use[cur]
      BY <2>1, SetUse DEF IInv, TypeOK
    <2>9. reopen' \in BOOLEAN
      BY <1>14, Zenon DEF Take, Return
    <2>3. ppc' = "poll" /\ pass' \in 0 .. 2 /\ at' \in Gates
      BY <1>14 DEF Take, Return, Gates
    <2>4. quiet' \in {"no", "waiting", "due"} /\ ignore' \in [Gates -> BOOLEAN]
      BY <1>14 DEF Take, Restarted, IInv, TypeOK
    <2>5. ppc = "take" /\ UNCHANGED <<net, respond, initOK, ignoring, owner, checker>>
      BY <1>14 DEF Take
    <2>6. TypeOK'
      <3>1. UNCHANGED <<link, changes, checktime, respondDelay, sensor, cpc, cur, r, timer>>
        BY <2>5 DEF net, checker
      <3>2. mbi' \in Gates \cup {None} /\ mb' \in Gates \cup {None}
        BY <2>1
      <3> QED
        BY <2>2, <2>3, <2>4, <2>5, <2>9, <3>1, <3>2 DEF IInv, TypeOK
    <2>7. MutexHeld'
      BY <2>2, <2>3, <2>5 DEF IInv, MutexHeld, checker
    <2>8. CurrentInUse' /\ AlwaysCurrent'
      BY <2>1, <2>2, <2>3, <2>5 DEF IInv, CurrentInUse, AlwaysCurrent, net, checker
    <2> QED
      BY <2>6, <2>7, <2>8 DEF IInv
  <1> QED
    BY <1>1, <1>4, <1>5, <1>6, <1>7, <1>8, <1>9, <1>10, <1>11, <1>12, <1>13, <1>14,
       <1>15 DEF PollThread

\* The check thread keeps the invariant.
LEMMA CheckStep == IInv /\ CheckThread => IInv'
  <1> SUFFICES ASSUME IInv, CheckThread PROVE IInv'
    OBVIOUS
  <1> USE GatesAssumption
  <1>1. CASE ReadTimer
    BY <1>1 DEF ReadTimer, IInv, TypeOK, MutexHeld, CurrentInUse, AlwaysCurrent,
                net, gates, poller
  <1>2. CASE StoreIgnore
    BY <1>2, ZenonT(60) DEF StoreIgnore, IInv, TypeOK, MutexHeld, CurrentInUse, AlwaysCurrent,
                net, poller
  <1>3. CASE Query
    BY <1>3 DEF Query, Answers, Connects, IInv, TypeOK, MutexHeld, CurrentInUse,
                AlwaysCurrent, net, poller
  <1>4. CASE Publish
    <2>1. PICK d : d = IF respond_init[cur]
                          THEN DelayCheck(respondDelay[cur], r, Delayed)
                          ELSE respondDelay[cur]
      OBVIOUS
    <2>2. d \in DelayTimers
      BY <2>1, DelayTypes DEF IInv, TypeOK
    <2>3. respondDelay' \in [Gates -> DelayTimers]
      BY <1>4, <2>1, <2>2 DEF Publish, IInv, TypeOK
    <2>4. PICK st \in BOOLEAN : st = IF respond_init[cur] THEN d.state ELSE r
      BY <2>2 DEF IInv, TypeOK, DelayTimers
    <2>5. sensor' \in [Gates -> BOOLEAN] /\ respond' \in [Gates -> BOOLEAN]
      BY <1>4, <2>1, <2>4 DEF Publish, IInv, TypeOK
    <2>6. respond_init' \in [Gates -> BOOLEAN]
      BY <1>4 DEF Publish, IInv, TypeOK
    <2>7. cur' \in Gates
      BY <1>4 DEF Publish, IInv, TypeOK, Gates
    <2>8. /\ cpc = "publish" /\ cpc' = "start" /\ r' = FALSE
          /\ UNCHANGED <<net, use, ignore, initOK, ignoring, owner, poller, timer>>
      BY <1>4 DEF Publish
    <2> HIDE <1>4
    <2> QED
      BY <2>3, <2>5, <2>6, <2>7, <2>8, ZenonT(60)
         DEF IInv, TypeOK, MutexHeld, CurrentInUse, AlwaysCurrent, net, poller
  <1>5. CASE QueryTorn
    BY <1>5 DEF QueryTorn, IInv, TypeOK, MutexHeld, CurrentInUse, AlwaysCurrent, net, poller
  <1>6. CASE QueryCrash
    <2>1. reopen' \in BOOLEAN
      BY <1>6, Zenon DEF QueryCrash
    <2>2. pass' \in 0 .. 2 /\ at' \in Gates
      BY <1>6 DEF QueryCrash, Gates
    <2> QED
      BY <1>6, <2>1, <2>2 DEF QueryCrash, IInv, TypeOK, MutexHeld, CurrentInUse, AlwaysCurrent,
                        net, gates
  <1> QED
    BY <1>1, <1>2, <1>3, <1>4, <1>5, <1>6 DEF CheckThread

\* No step of either thread breaks the invariant.
LEMMA NextIInv == IInv /\ [Next]_vars => IInv'
  <1> SUFFICES ASSUME IInv, [Next]_vars PROVE IInv'
    OBVIOUS
  <1> USE GatesAssumption
  <1>1. CASE PollThread
    BY <1>1, PollStep
  <1>2. CASE CheckThread
    BY <1>2, CheckStep
  <1>3. CASE Tick
    <2>1. respondDelay' \in [Gates -> DelayTimers]
      BY <1>3, DelayTypes DEF Tick, IInv, TypeOK
    <2> QED
      BY <1>3, <2>1 DEF Tick, IInv, TypeOK, MutexHeld, CurrentInUse, AlwaysCurrent,
                        net
  <1>4. CASE \E c \in Gates : LinkChanges(c)
    BY <1>4 DEF LinkChanges, IInv, TypeOK, MutexHeld, CurrentInUse, AlwaysCurrent,
                gates, poller, checker, Links
  <1>5. CASE UNCHANGED vars
    BY <1>5 DEF vars, net, gates, poller, checker, IInv, TypeOK, MutexHeld,
                CurrentInUse, AlwaysCurrent
  <1> QED
    BY <1>1, <1>2, <1>3, <1>4, <1>5 DEF Next

\* Every reachable state of the two threads and the list of gates is well
\* typed, for any number of gates.
THEOREM MasterTypes == Spec => []TypeOK
  <1>1. IInv => TypeOK
    BY DEF IInv
  <1> QED
    BY InitIInv, NextIInv, <1>1, PTL DEF Spec

\* The poll thread never polls, checks or connects a gate while the check
\* thread is inside check() of it: setUse() waits for mutInit and check() reads
\* "use" under it.  forceDisconnect() of initMB() is outside the claim.
THEOREM MasterExclusive == Spec => []ExchangeExclusive
  <1>1. IInv => ExchangeExclusive
    BY DEF IInv, TypeOK, Gates, None, MutexHeld, CurrentInUse, ExchangeExclusive
  <1> QED
    BY InitIInv, NextIInv, <1>1, PTL DEF Spec

===============================================================================
