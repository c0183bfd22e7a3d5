------------------------- MODULE ProcessManagerProofs -------------------------
(***************************************************************************)
(* Proofs about ProcessManager, for every number of processes and groups,  *)
(* every dependency graph, every configuration in which a process belongs  *)
(* to one group, and every number of deaths.                               *)
(***************************************************************************)
EXTENDS ProcessManager, TLAPS

-------------------------------------------------------------------------------
(* The inductive invariant                                                   *)

\* The places of the loops over the groups of a start order r and their
\* processes.
Place(r, k, j) == k \in 1 .. Len(r) /\ j \in 1 .. Len(Members[r[k]])
At(r, k, j) == Members[r[k]][j]
Listed(r, p) == \E k, j \in Nat : Place(r, k, j) /\ At(r, k, j) = p

\* No process is listed twice in the groups of a start order.
ListedOnce(r) ==
    \A k, l \in 1 .. Len(r) :
        \A i \in 1 .. Len(Members[r[k]]), j \in 1 .. Len(Members[r[l]]) :
            Members[r[k]][i] = Members[r[l]][j] => k = l /\ i = j

\* What the search knows: the black groups are the ones listed and the grey
\* ones those on the path, each once, and what a listed group depends on is
\* listed before it.
Search == [ok : BOOLEAN, visited : [Groups -> {"White", "Gray", "Black"}],
           path : Seq(Groups), result : Seq(Groups)]
Distinct(seq) == \A k, l \in 1 .. Len(seq) : seq[k] = seq[l] => k = l
InOrder(d, seq) ==
    \A k \in 1 .. Len(seq) : \A h \in d[seq[k]] : \E l \in 1 .. (k - 1) : seq[l] = h
Searched(d, r) ==
    /\ \A g \in Groups : r.visited[g] = "Black" <=> \E k \in 1 .. Len(r.result) : r.result[k] = g
    /\ \A g \in Groups : r.visited[g] = "Gray" <=> \E k \in 1 .. Len(r.path) : r.path[k] = g
    /\ Distinct(r.result) /\ Distinct(r.path)
    /\ InOrder(d, r.result)

\* The search has found an order of all groups when startAll() starts them;
\* an exception leaves no list.
SearchInv ==
    /\ order.ok => Searched(depends, order)
    /\ ~order.ok => order.result = <<>>
    /\ main \in {"startAll", "resolve"} => order.ok
    /\ main \in {"starting", "calling", "startMonitoring"} =>
          order.ok /\ \A g \in Groups : order.visited[g] = "Black"

\* When the monitor and startProcessWithUnlock() can be at work.
PhaseInv ==
    /\ main \in {"startAll", "resolve", "starting", "calling", "startMonitoring"} => ~running /\ mon = "off"
    /\ ~running => mon = "off" \/ main = "join"
    /\ main \in {"stopAll", "stopping", "done"} => mon = "off"
    /\ mon \in {"off", "loop"} => exits = {} /\ healths = {}
    /\ start.step # "idle" <=> main = "calling" \/ mon = "calling"

\* Only listed processes are started, watched and restarted.
ListedInv ==
    /\ \A p \in Processes :
          pid[p] # "none" \/ state[p] = "Running" \/ p \in exits \/ p \in healths => Listed(order.result, p)
    /\ main = "calling" => Place(order.result, gi, pi) /\ start.p = At(order.result, gi, pi)
    /\ start.step # "idle" \/ mon \in {"giveup", "delay"} => start.p \in Processes /\ Listed(order.result, start.p)

\* startAll() has not yet touched the processes in front of it.
AheadInv ==
    /\ main \in {"startAll", "resolve"} =>
          /\ gi = 1 /\ pi = 1
          /\ \A p \in Processes : pid[p] = "none" /\ launches[p] = 0 /\ state[p] = "Stopped"
    /\ main \in {"starting", "calling"} =>
          \A k, j \in Nat :
             /\ Place(order.result, k, j)
             /\ k > gi \/ (k = gi /\ (j > pi \/ (j = pi /\ main = "starting")))
             => pid[At(order.result, k, j)] = "none" /\ launches[At(order.result, k, j)] = 0

\* The critical processes behind startAll() are ready, and it does not end
\* before the last group unless it is told to stop.
IsReady(p) == state[p] \in {"Running", "Completed"}
ReadyInv ==
    /\ main \in {"starting", "calling", "startMonitoring"} =>
          /\ gi >= 1 /\ pi >= 1
          /\ \A k, j \in Nat :
                LET p == At(order.result, k, j)
                IN  /\ Place(order.result, k, j)
                    /\ k < gi \/ (k = gi /\ j < pi)
                    /\ conf[p].critical /\ conf[p].starts
                    => IsReady(p)
    /\ start.step = "ok" => IsReady(start.p)
    /\ main = "startMonitoring" /\ ~stopping => gi > Len(order.result)

\* doStopAll() has stopped the processes behind it.
BehindInv ==
    main = "stopping" =>
       /\ gi <= Len(order.result) /\ pi >= 1
       /\ \A k, j \in Nat : Place(order.result, k, j) /\ (k > gi \/ (k = gi /\ j < pi)) => pid[At(order.result, k, j)] = "none"

\* Nobody is started while the child of its pid lives.
ChildInv ==
    /\ orphans = {}
    /\ start.step \in {"launch", "delay"} \/ mon \in {"giveup", "delay"} => pid[start.p] # "alive"
    /\ \A p \in exits : pid[p] # "alive"
    /\ mon \in {"giveup", "delay", "calling"} => start.p \notin exits
    /\ main = "done" => \A p \in Processes : pid[p] = "none"

\* p is about to be started at the cost of its budget.
Charging(p) ==
    start.p = p /\ ((start.step \in {"launch", "delay"} /\ ~start.free) \/ mon = "delay")

BudgetInv ==
    \A p \in Processes : conf[p].maxRestarts > 0 =>
        /\ launches[p] <= restartCount[p] + 1
        /\ Charging(p) => launches[p] <= restartCount[p]

IInv == /\ TypeOK /\ SearchInv /\ ListedOnce(order.result)
        /\ PhaseInv /\ ListedInv /\ AheadInv /\ ReadyInv /\ BehindInv /\ ChildInv /\ BudgetInv

-------------------------------------------------------------------------------
(* Phases and types                                                          *)

\* Outside resolve(), neither the configuration nor the order changes.
LEMMA Fixed ==
    ASSUME [Next]_vars, ~ResolveGroups
    PROVE  UNCHANGED config
  <1>1. CASE StartProcess
    BY <1>1 DEF StartProcess, Launch, OneshotEnds, Ready, NotReady, RetryDelay
  <1>2. CASE MainThread
    BY <1>2 DEF MainThread, StartAll, StartsEnd, NextGroup, NextProcess, Started, StartMonitoring,
                Poll, StopMonitoring, JoinMonitor, StopAll, StopNext, StopNextGroup, Exit
  <1>3. CASE MonitorThread
    BY <1>3 DEF MonitorThread, Scan, MonitorEnds, HandleExit, GiveUp, RestartDelay, HealthRestart,
                Restarted, MonitorSleeps
  <1>4. CASE Signal \/ \E p \in Processes : Crash(p) \/ WindowPasses(p)
    BY <1>4 DEF Signal, Crash, WindowPasses
  <1> QED
    BY <1>1, <1>2, <1>3, <1>4 DEF Next, vars

\* A process in the hands of startProcessWithUnlock() is one of ours, and so
\* are the ones at the places of the loops.
LEMMA Handled ==
    ASSUME TypeOK
    PROVE  /\ ListedInv /\ start.step # "idle" => start.p \in Processes
           /\ \A k, j : Place(order.result, k, j) => At(order.result, k, j) \in Processes
           /\ AtProcess => Process \in Processes /\ Place(order.result, gi, pi)
                        /\ Process = At(order.result, gi, pi)
  <1>1. ASSUME NEW k, NEW j, Place(order.result, k, j) PROVE At(order.result, k, j) \in Processes
    <2>1. order.result \in Seq(Groups) /\ k \in 1 .. Len(order.result)
      BY <1>1 DEF TypeOK, Place
    <2>2. order.result[k] \in Groups
      BY <2>1
    <2>3. Members[order.result[k]] \in Seq(Processes)
      BY <2>2, LauncherAssumption
    <2> QED
      BY <1>1, <2>3 DEF Place, At
  <1> QED
    BY <1>1 DEF ListedInv, AtProcess, AtGroup, Process, Place, At

\* The monitor runs only while startAll() and stopAll() do not, and
\* startProcessWithUnlock() has one caller at a time.
LEMMA NextPhase ==
    ASSUME TypeOK, PhaseInv, [Next]_vars, ~ResolveGroups
    PROVE  PhaseInv'
  <1> USE DEF TypeOK, PhaseInv
  <1>1. CASE Launch
    BY <1>1 DEF Launch, monitor
  <1>2. CASE OneshotEnds
    BY <1>2 DEF OneshotEnds, monitor
  <1>3. CASE Ready
    BY <1>3 DEF Ready, monitor
  <1>4. CASE NotReady
    BY <1>4 DEF NotReady, monitor
  <1>5. CASE RetryDelay
    BY <1>5 DEF RetryDelay, monitor
  <1>6. CASE StartAll
    BY <1>6 DEF StartAll, starter, monitor
  <1>7. CASE StartsEnd
    BY <1>7 DEF StartsEnd, starter, monitor
  <1>8. CASE NextGroup
    BY <1>8 DEF NextGroup, starter, monitor
  <1>9. CASE NextProcess
    BY <1>9 DEF NextProcess, starter, monitor, Calls
  <1>10. CASE Started
    BY <1>10 DEF Started, monitor, Returned
  <1>11. CASE StartMonitoring
    BY <1>11 DEF StartMonitoring, starter
  <1>12. CASE Poll
    BY <1>12 DEF Poll, starter, monitor
  <1>13. CASE StopMonitoring
    BY <1>13 DEF StopMonitoring, starter, monitor
  <1>14. CASE JoinMonitor
    BY <1>14 DEF JoinMonitor, starter, monitor
  <1>15. CASE StopAll
    BY <1>15 DEF StopAll, starter, monitor
  <1>16. CASE StopNext
    BY <1>16 DEF StopNext, starter, monitor
  <1>17. CASE StopNextGroup
    BY <1>17 DEF StopNextGroup, starter, monitor
  <1>18. CASE Exit
    BY <1>18 DEF Exit, starter, monitor
  <1>19. CASE Scan
    BY <1>19 DEF Scan, starter
  <1>20. CASE MonitorEnds
    BY <1>20 DEF MonitorEnds, starter
  <1>21. CASE HandleExit
    BY <1>21 DEF HandleExit
  <1>22. CASE GiveUp
    BY <1>22 DEF GiveUp, starter
  <1>23. CASE RestartDelay
    BY <1>23 DEF RestartDelay, Calls
  <1>24. CASE HealthRestart
    BY <1>24 DEF HealthRestart, Calls
  <1>25. CASE Restarted
    BY <1>25 DEF Restarted, Returned
  <1>26. CASE MonitorSleeps
    BY <1>26 DEF MonitorSleeps, starter
  <1>27. CASE Signal
    BY <1>27 DEF Signal, starter, monitor
  <1>28. CASE \E p \in Processes : Crash(p) \/ WindowPasses(p)
    BY <1>28 DEF Crash, WindowPasses, starter, monitor
  <1>29. CASE UNCHANGED vars
    BY <1>29 DEF vars, starter, monitor
  <1> QED
    BY <1>1, <1>2, <1>3, <1>4, <1>5, <1>6, <1>7, <1>8, <1>9, <1>10, <1>11, <1>12, <1>13, <1>14, <1>15,
       <1>16, <1>17, <1>18, <1>19, <1>20, <1>21, <1>22, <1>23, <1>24, <1>25, <1>26, <1>27, <1>28, <1>29
    DEF Next, StartProcess, MainThread, MonitorThread

\* One more attempt, if it is allowed, stays within the limit.
LEMMA ChargedTypes ==
    ASSUME TypeOK, NEW p \in Processes, NEW n \in Nat, n <= Most(p), conf[p].maxRestarts >= 0, CanRestart(p, n)
    PROVE  Charged(p, n) \in Nat /\ Charged(p, n) <= Most(p)
  <1>1. conf[p].maxRestarts \in Int
    BY DEF TypeOK, Conf
  <1> QED
    BY <1>1 DEF Charged, Most, CanRestart

\* A step of startProcessWithUnlock() keeps the types.
LEMMA StartTypes ==
    ASSUME TypeOK, ListedInv, StartProcess, UNCHANGED config
    PROVE  TypeOK'
  <1>0. start.p \in Processes /\ conf \in [Processes -> Conf] /\ conf' = conf
    BY Handled DEF StartProcess, Launch, OneshotEnds, Ready, NotReady, RetryDelay, TypeOK, config
  <1>1. CASE Launch
    <2> DEFINE p == start.p
    <2>4. /\ old' \in [Processes -> BOOLEAN] /\ state' \in [Processes -> States]
      <3>1. old' \in [Processes -> BOOLEAN]
        BY <1>0, <1>1 DEF Launch, TypeOK
      <3>2. state[p] \in States /\ state \in [Processes -> States]
        BY <1>0 DEF TypeOK
      <3>3. PICK x \in States : state' = [state EXCEPT ![p] = x]
        BY <1>1, <3>2 DEF Launch, States
      <3>4. state' \in [Processes -> States]
        BY <3>2, <3>3
      <3> QED
        BY <3>1, <3>4
    <2>5. start' \in [step : {"idle", "launch", "oneshot", "wait", "delay", "ok", "failed"},
                      p : Processes \cup {0}, free : BOOLEAN]
      BY <1>1 DEF Launch, TypeOK
    <2>1. /\ UNCHANGED <<config, main, gi, pi, monitor, running, stopping, erased, sig, restartCount, healthFailCount, crashes>>
      BY <1>1 DEF Launch, States
    <2>2. pid' \in [Processes -> {"none", "alive", "dead"}] /\ orphans' \subseteq Processes
      BY <1>0, <1>1 DEF Launch, Forks, TypeOK
    <2>3. launches' \in [Processes -> Nat]
      BY <1>0, <1>1 DEF Launch, Forks, TypeOK
    <2> HIDE DEF p
    <2> QED
      BY <1>0, <2>1, <2>2, <2>3, <2>4, <2>5 DEF TypeOK, Most, config, monitor
  <1>2. CASE OneshotEnds
    BY <1>0, <1>2 DEF OneshotEnds, TypeOK, Most, States, config, monitor
  <1>4. CASE Ready \/ RetryDelay
    <2>1. state' \in [Processes -> States]
      <3>1. CASE Ready
        BY <1>0, <3>1 DEF Ready, TypeOK, States
      <3>2. CASE RetryDelay
        BY <1>0, <3>2 DEF RetryDelay, TypeOK, States
      <3> QED
        BY <1>4, <3>1, <3>2
    <2>2. start' \in [step : {"idle", "launch", "oneshot", "wait", "delay", "ok", "failed"},
                      p : Processes \cup {0}, free : BOOLEAN]
      <3>1. CASE Ready
        BY <3>1 DEF Ready, TypeOK
      <3>2. CASE RetryDelay
        BY <3>2 DEF RetryDelay, TypeOK
      <3> QED
        BY <1>4, <3>1, <3>2
    <2>3. UNCHANGED <<config, main, gi, pi, monitor, running, stopping, erased, sig,
                      restartCount, healthFailCount, old, children>>
      <3>1. CASE Ready
        BY <3>1 DEF Ready
      <3>2. CASE RetryDelay
        BY <3>2 DEF RetryDelay
      <3> QED
        BY <1>4, <3>1, <3>2
    <2> QED
      BY <1>0, <2>1, <2>2, <2>3 DEF TypeOK, Most, config, monitor, children
  <1>3. CASE NotReady
    <2>1. restartCount' \in [Processes -> Nat] /\ \A q \in Processes : restartCount'[q] <= Most(q)
      <3>1. CASE restartCount' = restartCount
        BY <3>1 DEF TypeOK
      <3>2. CASE restartCount' # restartCount
        <4>1. /\ restartCount' = [restartCount EXCEPT ![start.p] = Charged(start.p, restartCount[start.p])]
              /\ conf[start.p].maxRestarts >= 0 /\ CanRestart(start.p, restartCount[start.p])
          BY <1>3, <3>2 DEF NotReady
        <4>2. restartCount[start.p] \in Nat /\ restartCount[start.p] <= Most(start.p)
          BY <1>0 DEF TypeOK
        <4>3. Charged(start.p, restartCount[start.p]) \in Nat /\ Charged(start.p, restartCount[start.p]) <= Most(start.p)
          BY <1>0, <4>1, <4>2, ChargedTypes
        <4> QED
          BY <1>0, <4>1, <4>3 DEF TypeOK
      <3> QED
        BY <3>1, <3>2
    <2>2. state' \in [Processes -> States]
      BY <1>3, <1>0 DEF NotReady, TypeOK, States
    <2>3. pid' \in [Processes -> {"none", "alive", "dead"}]
      BY <1>3, <1>0 DEF NotReady, Killed, TypeOK
    <2>4. start' \in [step : {"idle", "launch", "oneshot", "wait", "delay", "ok", "failed"},
                      p : Processes \cup {0}, free : BOOLEAN]
      BY <1>3 DEF NotReady, TypeOK
    <2>5. UNCHANGED <<config, main, gi, pi, monitor, running, stopping, erased, sig,
                      healthFailCount, old, orphans, launches, crashes>>
      BY <1>3 DEF NotReady
    <2> QED
      BY <1>0, <2>1, <2>2, <2>3, <2>4, <2>5 DEF TypeOK, Most, config, monitor
  <1> QED
    BY <1>1, <1>2, <1>3, <1>4 DEF StartProcess

\* A step of the main thread keeps the types.
LEMMA MainTypes ==
    ASSUME TypeOK, MainThread, ~ResolveGroups, UNCHANGED config
    PROVE  TypeOK'
  <1>1. CASE StartAll \/ StartsEnd \/ NextGroup
    BY <1>1 DEF StartAll, StartsEnd, NextGroup, TypeOK, Most, config, starter, monitor, info, children
  <1>2. CASE NextProcess
    <2>1. Process \in Processes
      BY <1>2, Handled DEF NextProcess
    <2>2. /\ start' \in [step : {"idle", "launch", "oneshot", "wait", "delay", "ok", "failed"},
                         p : Processes \cup {0}, free : BOOLEAN]
          /\ main' \in {"calling", "starting"} /\ pi' \in Nat
      <3>1. CASE conf[Process].starts
        <4>1. start' = [step |-> "launch", p |-> Process, free |-> FALSE] /\ main' = "calling" /\ pi' = pi
          BY <1>2, <3>1 DEF NextProcess, Calls
        <4> QED
          BY <2>1, <4>1 DEF TypeOK
      <3>2. CASE ~conf[Process].starts
        BY <1>2, <3>2 DEF NextProcess, TypeOK
      <3> QED
        BY <3>1, <3>2
    <2>3. UNCHANGED <<config, gi, monitor, running, stopping, erased, sig, info, children>>
      BY <1>2 DEF NextProcess
    <2> QED
      BY <2>2, <2>3 DEF TypeOK, Most, config, monitor, info, children
  <1>3. CASE Started
    <2>1. start' \in [step : {"idle", "launch", "oneshot", "wait", "delay", "ok", "failed"},
                      p : Processes \cup {0}, free : BOOLEAN]
      BY <1>3 DEF Started, TypeOK
    <2>2. /\ main' \in {"shutdown", "starting"} /\ pi' \in Nat
          /\ UNCHANGED <<config, gi, monitor, running, stopping, erased, sig, info, children>>
      BY <1>3 DEF Started, TypeOK
    <2> QED
      BY <2>1, <2>2 DEF TypeOK, Most, config, monitor, info, children
  <1>4. CASE StartMonitoring \/ Poll \/ StopMonitoring \/ JoinMonitor
    BY <1>4 DEF StartMonitoring, Poll, StopMonitoring, JoinMonitor, TypeOK, Most, config, starter, monitor, info, children
  <1>5. CASE StopAll
    BY <1>5 DEF StopAll, LastGroup, TypeOK, Most, States, config, starter, monitor, children
  <1>6. CASE StopNext
    <2>1. Process \in Processes
      BY <1>6, Handled DEF StopNext
    <2>2. pid' \in [Processes -> {"none", "alive", "dead"}] /\ state' \in [Processes -> States]
      BY <1>6, <2>1 DEF StopNext, Killed, TypeOK, States
    <2>3. /\ pi' \in Nat
          /\ UNCHANGED <<config, main, gi, starter, monitor, running, stopping, erased, sig,
                         restartCount, healthFailCount, old, orphans, launches, crashes>>
      BY <1>6 DEF StopNext, TypeOK
    <2> QED
      BY <2>2, <2>3 DEF TypeOK, Most, config, starter, monitor
  <1>7. CASE StopNextGroup
    BY <1>7 DEF StopNextGroup, AtGroup, TypeOK, Most, config, starter, monitor, info, children
  <1>8. CASE Exit
    <2>1. stopping' \in BOOLEAN
      BY <1>8 DEF Exit, shutdownRequested
    <2>2. main' = "done" /\ UNCHANGED <<config, gi, pi, starter, monitor, running, erased, sig, info, children>>
      BY <1>8 DEF Exit
    <2> QED
      BY <2>1, <2>2 DEF TypeOK, Most, config, starter, monitor, info, children
  <1> QED
    BY <1>1, <1>2, <1>3, <1>4, <1>5, <1>6, <1>7, <1>8 DEF MainThread

\* A step of the monitor keeps the types.
LEMMA MonitorTypes ==
    ASSUME TypeOK, ListedInv, MonitorThread, UNCHANGED config
    PROVE  TypeOK'
  <1>1. CASE Scan
    <2>1. exits' \subseteq Processes /\ healths' \subseteq Processes
      BY <1>1 DEF Scan, Died, Checked
    <2>2. healthFailCount' \in [Processes -> Nat]
      BY <1>1 DEF Scan, TypeOK
    <2>3. mon' = "handle" /\ UNCHANGED <<config, main, gi, pi, starter, running, stopping, erased, sig,
                                         state, restartCount, old, children>>
      BY <1>1 DEF Scan
    <2> QED
      BY <2>1, <2>2, <2>3 DEF TypeOK, Most, config, starter, children
  <1>2. CASE MonitorEnds \/ MonitorSleeps \/ GiveUp
    <2>1. stopping' \in BOOLEAN
      <3>1. CASE GiveUp
        <4>1. start.p \in Processes /\ conf \in [Processes -> Conf]
          BY <3>1 DEF GiveUp, ListedInv, TypeOK
        <4> QED
          BY <3>1, <4>1 DEF GiveUp, Conf
      <3>2. CASE MonitorEnds \/ MonitorSleeps
        BY <3>2 DEF MonitorEnds, MonitorSleeps, TypeOK
      <3> QED
        BY <1>2, <3>1, <3>2
    <2>2. /\ mon' \in {"off", "loop", "handle"}
          /\ UNCHANGED <<config, main, gi, pi, starter, exits, healths, running, sig, info, children>>
      BY <1>2 DEF MonitorEnds, MonitorSleeps, GiveUp
    <2>3. erased' \in BOOLEAN
      <3>1. CASE GiveUp
        BY <3>1, Zenon DEF GiveUp
      <3>2. CASE MonitorEnds \/ MonitorSleeps
        BY <3>2 DEF MonitorEnds, MonitorSleeps, TypeOK
      <3> QED
        BY <1>2, <3>1, <3>2
    <2> QED
      BY <2>1, <2>2, <2>3 DEF TypeOK, Most, config, starter, info, children
  <1>3. CASE HandleExit
    <2>1. PICK p \in exits :
             /\ exits' = exits \ {p}
             /\ LET looks == ~stopping /\ conf[p].maxRestarts >= 0
                    again == looks /\ CanRestart(p, Count(p))
                IN  /\ state' = [state EXCEPT ![p] = IF again THEN "Restarting" ELSE "Failed"]
                    /\ restartCount' = [restartCount EXCEPT ![p] =
                          IF again THEN Charged(p, Count(p)) ELSE IF looks THEN Count(p) ELSE @]
                    /\ launches' = [launches EXCEPT ![p] = IF looks /\ old[p] THEN 0 ELSE @]
                    /\ start' = [start EXCEPT !.p = p]
      BY <1>3 DEF HandleExit
    <2>2. p \in Processes /\ restartCount[p] \in Nat /\ restartCount[p] <= Most(p) /\ Count(p) \in Nat
      BY <2>1 DEF TypeOK, Count
    <2>3. conf[p].maxRestarts \in Int
      BY <2>2 DEF TypeOK, Conf
    <2>4. 0 <= Most(p) /\ Count(p) <= Most(p)
      BY <2>2, <2>3 DEF Most, Count
    <2>5. PICK n \in Nat : n <= Most(p) /\ restartCount' = [restartCount EXCEPT ![p] = n]
      BY <2>1, <2>2, <2>4, ChargedTypes
    <2>6. restartCount' \in [Processes -> Nat] /\ \A q \in Processes : restartCount'[q] <= Most(q)
      BY <2>2, <2>5 DEF TypeOK
    <2>7. state' \in [Processes -> States] /\ launches' \in [Processes -> Nat]
      BY <2>1, <2>2 DEF TypeOK, States
    <2>8. start' \in [step : {"idle", "launch", "oneshot", "wait", "delay", "ok", "failed"},
                      p : Processes \cup {0}, free : BOOLEAN]
      BY <2>1, <2>2 DEF TypeOK
    <2>9. /\ mon' \in {"handle", "giveup", "delay"} /\ exits' \subseteq Processes
          /\ UNCHANGED <<config, main, gi, pi, healths, running, stopping, erased, sig,
                         healthFailCount, old, pid, orphans, crashes>>
      BY <1>3, <2>1 DEF HandleExit, TypeOK
    <2> QED
      BY <2>6, <2>7, <2>8, <2>9 DEF TypeOK, Most, config
  <1>4. CASE RestartDelay \/ Restarted
    <2>1. start' \in [step : {"idle", "launch", "oneshot", "wait", "delay", "ok", "failed"},
                      p : Processes \cup {0}, free : BOOLEAN]
      <3>1. CASE Restarted
        BY <3>1 DEF Restarted, TypeOK
      <3>2. CASE RestartDelay
        <4>1. start.p \in Processes \cup {0}
          BY DEF TypeOK
        <4>2. CASE start' = start
          BY <4>2 DEF TypeOK
        <4>3. CASE start' = [step |-> "launch", p |-> start.p, free |-> FALSE]
          BY <4>1, <4>3
        <4> QED
          BY <3>2, <4>2, <4>3 DEF RestartDelay, Calls
      <3> QED
        BY <1>4, <3>1, <3>2
    <2>2. /\ mon' \in {"handle", "calling"}
          /\ UNCHANGED <<config, main, gi, pi, exits, healths, running, stopping, erased, sig, info, children>>
      BY <1>4 DEF RestartDelay, Restarted
    <2> QED
      BY <2>1, <2>2 DEF TypeOK, Most, config, info, children
  <1>5. CASE HealthRestart
    <2>0. healths \subseteq Processes
      BY DEF TypeOK
    <2>1. PICK p \in healths : /\ healths' = healths \ {p} /\ pid' = Killed(p)
                               /\ state' = [state EXCEPT ![p] = "Restarting"]
                               /\ start' = Calls(p, TRUE)
      BY <1>5 DEF HealthRestart
    <2>5. p \in Processes /\ healths' \subseteq Processes
      BY <2>0, <2>1
    <2>6. pid' \in [Processes -> {"none", "alive", "dead"}]
      BY <2>1, <2>5 DEF Killed, TypeOK
    <2>2. state' \in [Processes -> States]
      BY <2>1, <2>5 DEF TypeOK, States
    <2>3. start' \in [step : {"idle", "launch", "oneshot", "wait", "delay", "ok", "failed"},
                      p : Processes \cup {0}, free : BOOLEAN]
      BY <2>1, <2>5 DEF Calls
    <2>4. /\ mon' = "calling"
          /\ UNCHANGED <<config, main, gi, pi, exits, running, stopping, erased, sig,
                         restartCount, healthFailCount, old, orphans, launches, crashes>>
      BY <1>5 DEF HealthRestart
    <2> QED
      BY <2>2, <2>3, <2>4, <2>5, <2>6 DEF TypeOK, Most, config
  <1> QED
    BY <1>1, <1>2, <1>3, <1>4, <1>5 DEF MonitorThread

\* Every step keeps the types.
LEMMA NextTypes ==
    ASSUME TypeOK, ListedInv, [Next]_vars, ~ResolveGroups
    PROVE  TypeOK'
  <1>1. CASE StartProcess \/ MainThread \/ MonitorThread
    BY <1>1, Fixed, StartTypes, MainTypes, MonitorTypes
  <1>2. CASE Signal
    BY <1>2 DEF Signal, TypeOK, Most, config, starter, monitor, info, children
  <1>3. ASSUME NEW p \in Processes, Crash(p) PROVE TypeOK'
    <2>1. pid' \in [Processes -> {"none", "alive", "dead"}] /\ crashes' \in 0 .. Crashes
      BY <1>3, LauncherAssumption DEF Crash, TypeOK
    <2>2. UNCHANGED <<config, main, gi, pi, starter, monitor, running, stopping, erased, sig, info, orphans, launches>>
      BY <1>3 DEF Crash
    <2> QED
      BY <2>1, <2>2 DEF TypeOK, Most, config, starter, monitor, info
  <1>4. ASSUME NEW p \in Processes, WindowPasses(p) PROVE TypeOK'
    BY <1>4 DEF WindowPasses, TypeOK, Most, config, starter, monitor, children
  <1>5. CASE UNCHANGED vars
    BY <1>5 DEF vars, TypeOK, Most, config, starter, monitor, info, children
  <1> QED
    BY <1>1, <1>2, <1>3, <1>4, <1>5 DEF Next

\* Only listed processes come into play.
LEMMA NextListed ==
    ASSUME IInv, [Next]_vars, ~ResolveGroups
    PROVE  ListedInv'
  <1>0. order' = order /\ conf' = conf
    BY Fixed DEF config
  <1> USE <1>0
  <1>a. AtProcess => Process \in Processes /\ Place(order.result, gi, pi) /\ Process = At(order.result, gi, pi)
                       /\ Listed(order.result, Process)
    BY Handled DEF IInv, TypeOK, Listed
  <1>1. CASE Launch
    <2>1. start.step # "idle" /\ start'.step # "idle" /\ start'.p = start.p
      BY <1>1 DEF Launch, IInv, TypeOK
    <2>2. start.p \in Processes /\ Listed(order.result, start.p)
      BY <2>1 DEF IInv, ListedInv
    <2>3. ASSUME NEW p \in Processes, p # start.p PROVE pid'[p] = pid[p] /\ state'[p] = state[p]
      BY <1>1, <2>3 DEF Launch, Forks, IInv, TypeOK
    <2>4. UNCHANGED <<main, gi, pi, mon, exits, healths>>
      BY <1>1 DEF Launch, monitor
    <2> QED
      BY <2>1, <2>2, <2>3, <2>4 DEF IInv, ListedInv
  <1> USE DEF IInv, TypeOK, PhaseInv, ListedInv, starter, monitor, info, children
  <1>2. CASE OneshotEnds
    BY <1>2 DEF OneshotEnds
  <1>3. CASE Ready
    BY <1>3 DEF Ready
  <1>4. CASE NotReady
    BY <1>4 DEF NotReady, Killed
  <1>5. CASE RetryDelay
    BY <1>5 DEF RetryDelay
  <1>6. CASE StartAll
    BY <1>6 DEF StartAll
  <1>7. CASE StartsEnd
    BY <1>7 DEF StartsEnd
  <1>8. CASE NextGroup
    BY <1>8 DEF NextGroup
  <1>9. CASE NextProcess
    BY <1>9, <1>a DEF NextProcess, Calls
  <1>10. CASE Started
    BY <1>10 DEF Started, Returned
  <1>11. CASE StartMonitoring
    BY <1>11 DEF StartMonitoring
  <1>12. CASE Poll
    BY <1>12 DEF Poll
  <1>13. CASE StopMonitoring
    BY <1>13 DEF StopMonitoring
  <1>14. CASE JoinMonitor
    BY <1>14 DEF JoinMonitor
  <1>15. CASE StopAll
    BY <1>15 DEF StopAll
  <1>16. CASE StopNext
    BY <1>16, <1>a DEF StopNext, Killed
  <1>17. CASE StopNextGroup
    BY <1>17 DEF StopNextGroup
  <1>18. CASE Exit
    BY <1>18 DEF Exit
  <1>19. CASE Scan
    BY <1>19 DEF Scan, Died, Checked, Watched
  <1>20. CASE MonitorEnds
    BY <1>20 DEF MonitorEnds
  <1>21. CASE HandleExit
    BY <1>21 DEF HandleExit
  <1>22. CASE GiveUp
    BY <1>22 DEF GiveUp
  <1>23. CASE RestartDelay
    BY <1>23 DEF RestartDelay, Calls
  <1>24. CASE HealthRestart
    BY <1>24 DEF HealthRestart, Calls, Killed
  <1>25. CASE Restarted
    BY <1>25 DEF Restarted, Returned
  <1>26. CASE MonitorSleeps
    BY <1>26 DEF MonitorSleeps
  <1>27. CASE Signal
    BY <1>27 DEF Signal
  <1>28. ASSUME NEW p \in Processes, Crash(p) \/ WindowPasses(p) PROVE ListedInv'
    BY <1>28 DEF Crash, WindowPasses
  <1>29. CASE UNCHANGED vars
    BY <1>29 DEF vars
  <1> QED
    BY <1>1, <1>2, <1>3, <1>4, <1>5, <1>6, <1>7, <1>8, <1>9, <1>10, <1>11, <1>12, <1>13, <1>14, <1>15,
       <1>16, <1>17, <1>18, <1>19, <1>20, <1>21, <1>22, <1>23, <1>24, <1>25, <1>26, <1>27, <1>28, <1>29
    DEF Next, StartProcess, MainThread, MonitorThread

\* startAll() touches one process after the other.
LEMMA NextAhead ==
    ASSUME IInv, [Next]_vars, ~ResolveGroups
    PROVE  AheadInv'
  <1>0. order' = order /\ conf' = conf
    BY Fixed DEF config
  <1> USE <1>0
  <1>b. \A k, j : Place(order.result, k, j) => At(order.result, k, j) \in Processes
    BY Handled DEF IInv
  <1>a. AtProcess => Process \in Processes /\ Place(order.result, gi, pi) /\ Process = At(order.result, gi, pi)
    BY Handled DEF IInv
  <1>1. CASE Launch
    <2>1. UNCHANGED <<main, gi, pi>> /\ \A p \in Processes : p # start.p => pid'[p] = pid[p] /\ launches'[p] = launches[p]
      BY <1>1 DEF Launch, Forks, IInv, TypeOK
    <2>2. CASE main \in {"starting", "resolve", "startAll"}
      BY <1>1, <2>2 DEF Launch, IInv, PhaseInv
    <2>3. CASE main = "calling"
      <3>1. Place(order.result, gi, pi) /\ start.p = At(order.result, gi, pi)
        BY <2>3 DEF IInv, ListedInv
      <3>2. ASSUME NEW k \in Nat, NEW j \in Nat, Place(order.result, k, j), k > gi \/ (k = gi /\ j > pi)
            PROVE  At(order.result, k, j) # start.p
        <4>1. ListedOnce(order.result)
          BY DEF IInv
        <4>2. At(order.result, k, j) = At(order.result, gi, pi) => k = gi /\ j = pi
          BY <3>1, <3>2, <4>1 DEF ListedOnce, Place, At
        <4>3. gi \in Nat /\ pi \in Nat
          BY DEF IInv, TypeOK
        <4> QED
          BY <3>1, <3>2, <4>2, <4>3
      <3> QED
        BY <1>b, <2>1, <2>3, <3>2 DEF IInv, AheadInv
    <2>4. CASE main \notin {"startAll", "resolve", "starting", "calling"}
      BY <2>1, <2>4 DEF AheadInv
    <2> QED
      BY <2>2, <2>3, <2>4
  <1>2. ASSUME NEW p \in Processes, Crash(p) \/ WindowPasses(p) PROVE AheadInv'
    <2>1. /\ UNCHANGED <<main, gi, pi, launches, state>>
          /\ \A q \in Processes : pid[q] = "none" => pid'[q] = "none"
      BY <1>2 DEF Crash, WindowPasses, IInv, TypeOK, children, info
    <2> QED
      BY <1>b, <2>1 DEF IInv, AheadInv
  <1> USE DEF IInv, TypeOK, PhaseInv, ListedInv, AheadInv, starter, monitor, info, children
  <1>3. CASE OneshotEnds
    BY <1>3 DEF OneshotEnds
  <1>4. CASE Ready
    BY <1>4 DEF Ready
  <1>5. CASE NotReady
    BY <1>5 DEF NotReady, Killed
  <1>6. CASE RetryDelay
    BY <1>6 DEF RetryDelay
  <1>7. CASE StartAll
    BY <1>7, <1>b DEF StartAll
  <1>8. CASE StartsEnd
    BY <1>8 DEF StartsEnd
  <1>9. CASE NextGroup
    BY <1>9 DEF NextGroup, Place, AtProcess, AtGroup
  <1>10. CASE NextProcess
    <2>1. /\ main = "starting" /\ UNCHANGED <<gi, pid, launches>>
          /\ (main' = "calling" /\ pi' = pi) \/ (main' = "starting" /\ pi' = pi + 1)
      BY <1>10 DEF NextProcess
    <2> QED
      BY <2>1 DEF AheadInv
  <1>11. CASE Started
    BY <1>11 DEF Started, Returned
  <1>12. CASE StartMonitoring
    BY <1>12 DEF StartMonitoring
  <1>13. CASE Poll
    BY <1>13 DEF Poll
  <1>14. CASE StopMonitoring
    BY <1>14 DEF StopMonitoring
  <1>15. CASE JoinMonitor
    BY <1>15 DEF JoinMonitor
  <1>16. CASE StopAll
    BY <1>16 DEF StopAll
  <1>17. CASE StopNext
    BY <1>17 DEF StopNext, Killed
  <1>18. CASE StopNextGroup
    BY <1>18 DEF StopNextGroup
  <1>19. CASE Exit
    BY <1>19 DEF Exit
  <1>20. CASE Scan
    BY <1>20 DEF Scan
  <1>21. CASE MonitorEnds
    BY <1>21 DEF MonitorEnds
  <1>22. CASE HandleExit
    BY <1>22 DEF HandleExit
  <1>23. CASE GiveUp
    BY <1>23 DEF GiveUp
  <1>24. CASE RestartDelay
    BY <1>24 DEF RestartDelay
  <1>25. CASE HealthRestart
    BY <1>25 DEF HealthRestart, Killed
  <1>26. CASE Restarted
    BY <1>26 DEF Restarted
  <1>27. CASE MonitorSleeps
    BY <1>27 DEF MonitorSleeps
  <1>28. CASE Signal
    BY <1>28 DEF Signal
  <1>29. CASE UNCHANGED vars
    BY <1>29 DEF vars
  <1> QED
    BY <1>1, <1>2, <1>3, <1>4, <1>5, <1>6, <1>7, <1>8, <1>9, <1>10, <1>11, <1>12, <1>13, <1>14, <1>15,
       <1>16, <1>17, <1>18, <1>19, <1>20, <1>21, <1>22, <1>23, <1>24, <1>25, <1>26, <1>27, <1>28, <1>29
    DEF Next, StartProcess, MainThread, MonitorThread

\* doStopAll() leaves nothing alive behind it.
LEMMA NextBehind ==
    ASSUME IInv, [Next]_vars, ~ResolveGroups
    PROVE  BehindInv'
  <1>0. order' = order /\ conf' = conf
    BY Fixed DEF config
  <1> USE <1>0
  <1>b. \A k, j : Place(order.result, k, j) => At(order.result, k, j) \in Processes
    BY Handled DEF IInv
  <1>a. AtProcess => Process \in Processes /\ Place(order.result, gi, pi) /\ Process = At(order.result, gi, pi)
    BY Handled DEF IInv
  <1>1. ASSUME NEW p \in Processes, Crash(p) \/ WindowPasses(p) PROVE BehindInv'
    <2>1. /\ UNCHANGED <<main, gi, pi, launches>>
          /\ \A q \in Processes : pid[q] = "none" => pid'[q] = "none"
      BY <1>1 DEF Crash, WindowPasses, IInv, TypeOK, children
    <2> QED
      BY <1>b, <2>1 DEF IInv, BehindInv
  <1> USE DEF IInv, TypeOK, PhaseInv, ListedInv, BehindInv, starter, monitor, info, children
  <1>2. CASE Launch
    BY <1>2 DEF Launch, Forks
  <1>3. CASE OneshotEnds
    BY <1>3 DEF OneshotEnds
  <1>4. CASE Ready
    BY <1>4 DEF Ready
  <1>5. CASE NotReady
    BY <1>5 DEF NotReady, Killed
  <1>6. CASE RetryDelay
    BY <1>6 DEF RetryDelay
  <1>7. CASE StartAll
    BY <1>7 DEF StartAll
  <1>8. CASE StartsEnd
    BY <1>8 DEF StartsEnd
  <1>9. CASE NextGroup
    BY <1>9 DEF NextGroup
  <1>10. CASE NextProcess
    BY <1>10 DEF NextProcess
  <1>11. CASE Started
    BY <1>11 DEF Started
  <1>12. CASE StartMonitoring
    BY <1>12 DEF StartMonitoring
  <1>13. CASE Poll
    BY <1>13 DEF Poll
  <1>14. CASE StopMonitoring
    BY <1>14 DEF StopMonitoring
  <1>15. CASE JoinMonitor
    BY <1>15 DEF JoinMonitor
  <1>16. CASE StopAll
    BY <1>16 DEF StopAll, LastGroup, Place
  <1>17. CASE StopNext
    BY <1>17, <1>a DEF StopNext, Killed
  <1>18. CASE StopNextGroup
    BY <1>18 DEF StopNextGroup, Place, AtProcess, AtGroup
  <1>19. CASE Exit
    BY <1>19 DEF Exit
  <1>20. CASE Scan
    BY <1>20 DEF Scan
  <1>21. CASE MonitorEnds
    BY <1>21 DEF MonitorEnds
  <1>22. CASE HandleExit
    BY <1>22 DEF HandleExit
  <1>23. CASE GiveUp
    BY <1>23 DEF GiveUp
  <1>24. CASE RestartDelay
    BY <1>24 DEF RestartDelay
  <1>25. CASE HealthRestart
    BY <1>25 DEF HealthRestart
  <1>26. CASE Restarted
    BY <1>26 DEF Restarted
  <1>27. CASE MonitorSleeps
    BY <1>27 DEF MonitorSleeps
  <1>28. CASE Signal
    BY <1>28 DEF Signal
  <1>29. CASE UNCHANGED vars
    BY <1>29 DEF vars
  <1> QED
    BY <1>1, <1>2, <1>3, <1>4, <1>5, <1>6, <1>7, <1>8, <1>9, <1>10, <1>11, <1>12, <1>13, <1>14, <1>15,
       <1>16, <1>17, <1>18, <1>19, <1>20, <1>21, <1>22, <1>23, <1>24, <1>25, <1>26, <1>27, <1>28, <1>29
    DEF Next, StartProcess, MainThread, MonitorThread

\* Nobody is started while its child lives.
LEMMA NextChild ==
    ASSUME IInv, [Next]_vars, ~ResolveGroups
    PROVE  ChildInv'
  <1>0. order' = order /\ conf' = conf
    BY Fixed DEF config
  <1> USE <1>0
  <1>a. AtProcess => Process \in Processes /\ Place(order.result, gi, pi) /\ Process = At(order.result, gi, pi)
    BY Handled DEF IInv
  <1>1. CASE Exit
    <2>1. gi = 0 /\ UNCHANGED <<start, mon, exits, pid, orphans>> /\ main = "stopping"
      BY <1>1 DEF Exit, IInv, TypeOK, BehindInv, AtGroup, starter, monitor, children
    <2>2. ASSUME NEW p \in Processes PROVE pid[p] = "none"
      <3>1. ASSUME NEW k \in Nat, NEW j \in Nat, Place(order.result, k, j) PROVE pid[At(order.result, k, j)] = "none"
        BY <2>1, <3>1 DEF IInv, BehindInv, Place
      <3> QED
        BY <3>1 DEF IInv, ListedInv, Listed
    <2> QED
      BY <2>1, <2>2 DEF IInv, ChildInv
  <1>2. CASE Launch
    <2>1. /\ start.step = "launch" /\ start'.step \in {"oneshot", "wait", "failed"} /\ start'.p = start.p
          /\ UNCHANGED <<main, mon, exits>> /\ start.p \in Processes
      BY <1>2, Handled DEF Launch, monitor, IInv, TypeOK
    <2>2. mon \notin {"giveup", "delay"} /\ start.p \notin exits /\ main # "done" /\ pid[start.p] # "alive"
      BY <2>1 DEF IInv, PhaseInv, ChildInv
    <2>3. orphans' = orphans /\ \A p \in Processes : p # start.p => pid'[p] = pid[p]
      BY <1>2, <2>1, <2>2 DEF Launch, Forks, IInv, TypeOK
    <2>4. exits \subseteq Processes
      BY DEF IInv, TypeOK
    <2> QED
      BY <2>1, <2>2, <2>3, <2>4 DEF IInv, ChildInv
  <1> USE DEF IInv, TypeOK, PhaseInv, ListedInv, AheadInv, ChildInv, starter, monitor, info, children
  <1>3. CASE OneshotEnds
    BY <1>3 DEF OneshotEnds
  <1>4. CASE Ready
    BY <1>4 DEF Ready
  <1>5. CASE NotReady
    BY <1>5 DEF NotReady, Killed
  <1>6. CASE RetryDelay
    BY <1>6 DEF RetryDelay
  <1>7. CASE StartAll
    BY <1>7 DEF StartAll
  <1>8. CASE StartsEnd
    BY <1>8 DEF StartsEnd
  <1>9. CASE NextGroup
    BY <1>9 DEF NextGroup
  <1>10. CASE NextProcess
    BY <1>10, <1>a DEF NextProcess, Calls
  <1>11. CASE Started
    BY <1>11 DEF Started, Returned
  <1>12. CASE StartMonitoring
    BY <1>12 DEF StartMonitoring
  <1>13. CASE Poll
    BY <1>13 DEF Poll
  <1>14. CASE StopMonitoring
    BY <1>14 DEF StopMonitoring
  <1>15. CASE JoinMonitor
    BY <1>15 DEF JoinMonitor
  <1>16. CASE StopAll
    BY <1>16 DEF StopAll
  <1>17. CASE StopNext
    BY <1>17 DEF StopNext, Killed
  <1>18. CASE StopNextGroup
    BY <1>18 DEF StopNextGroup
  <1>19. CASE Scan
    BY <1>19 DEF Scan, Died, Watched
  <1>20. CASE MonitorEnds
    BY <1>20 DEF MonitorEnds
  <1>21. CASE HandleExit
    BY <1>21 DEF HandleExit
  <1>22. CASE GiveUp
    BY <1>22 DEF GiveUp
  <1>23. CASE RestartDelay
    BY <1>23 DEF RestartDelay, Calls
  <1>24. CASE HealthRestart
    BY <1>24 DEF HealthRestart, Calls, Killed
  <1>25. CASE Restarted
    BY <1>25 DEF Restarted, Returned
  <1>26. CASE MonitorSleeps
    BY <1>26 DEF MonitorSleeps
  <1>27. CASE Signal
    BY <1>27 DEF Signal
  <1>28. ASSUME NEW p \in Processes, Crash(p) \/ WindowPasses(p) PROVE ChildInv'
    BY <1>28 DEF Crash, WindowPasses
  <1>29. CASE UNCHANGED vars
    BY <1>29 DEF vars
  <1> QED
    BY <1>1, <1>2, <1>3, <1>4, <1>5, <1>6, <1>7, <1>8, <1>9, <1>10, <1>11, <1>12, <1>13, <1>14, <1>15,
       <1>16, <1>17, <1>18, <1>19, <1>20, <1>21, <1>22, <1>23, <1>24, <1>25, <1>26, <1>27, <1>28, <1>29
    DEF Next, StartProcess, MainThread, MonitorThread

\* No start goes beyond the budget.
LEMMA NextBudget ==
    ASSUME IInv, [Next]_vars, ~ResolveGroups
    PROVE  BudgetInv'
  <1>0. order' = order /\ conf' = conf
    BY Fixed DEF config
  <1> USE <1>0
  <1>a. AtProcess => Process \in Processes /\ Place(order.result, gi, pi) /\ Process = At(order.result, gi, pi)
    BY Handled DEF IInv
  <1>1. CASE Launch
    <2>1. /\ start.step = "launch" /\ start'.step \in {"oneshot", "wait", "failed"} /\ start'.p = start.p
          /\ UNCHANGED <<mon, restartCount>> /\ start.p \in Processes /\ mon # "delay"
      BY <1>1, Handled DEF Launch, monitor, IInv, TypeOK, PhaseInv
    <2>2. ASSUME NEW p \in Processes, conf[p].maxRestarts > 0
          PROVE  launches'[p] <= restartCount[p] + 1 /\ ~Charging(p)'
      <3>1. launches[p] \in Nat /\ restartCount[p] \in Nat /\ launches[p] <= restartCount[p] + 1
        BY <2>2 DEF IInv, TypeOK, BudgetInv
      <3>2. ~Charging(p)'
        BY <2>1 DEF Charging
      <3>3. CASE launches'[p] = launches[p]
        BY <3>1, <3>2, <3>3
      <3>4. CASE launches'[p] # launches[p]
        <4>1. p = start.p /\ ~start.free /\ launches'[p] = launches[p] + 1
          BY <1>1, <2>1, <3>4 DEF Launch, Forks, IInv, TypeOK
        <4>2. launches[p] <= restartCount[p]
          BY <2>1, <2>2, <4>1 DEF IInv, BudgetInv, Charging
        <4> QED
          BY <3>1, <3>2, <4>1, <4>2
      <3> QED
        BY <3>3, <3>4
    <2> QED
      BY <2>1, <2>2 DEF BudgetInv
  <1> USE DEF IInv, TypeOK, PhaseInv, ListedInv, AheadInv, BudgetInv, Charging, Conf, starter, monitor, info, children
  <1>2. CASE OneshotEnds
    BY <1>2 DEF OneshotEnds
  <1>3. CASE Ready
    BY <1>3 DEF Ready
  <1>4. CASE NotReady
    BY <1>4 DEF NotReady, Charged, CanRestart
  <1>5. CASE RetryDelay
    BY <1>5 DEF RetryDelay
  <1>6. CASE StartAll
    BY <1>6 DEF StartAll
  <1>7. CASE StartsEnd
    BY <1>7 DEF StartsEnd
  <1>8. CASE NextGroup
    BY <1>8 DEF NextGroup
  <1>9. CASE NextProcess
    BY <1>9, <1>a DEF NextProcess, Calls
  <1>10. CASE Started
    BY <1>10 DEF Started, Returned
  <1>11. CASE StartMonitoring
    BY <1>11 DEF StartMonitoring
  <1>12. CASE Poll
    BY <1>12 DEF Poll
  <1>13. CASE StopMonitoring
    BY <1>13 DEF StopMonitoring
  <1>14. CASE JoinMonitor
    BY <1>14 DEF JoinMonitor
  <1>15. CASE StopAll
    BY <1>15 DEF StopAll
  <1>16. CASE StopNext
    BY <1>16 DEF StopNext
  <1>17. CASE StopNextGroup
    BY <1>17 DEF StopNextGroup
  <1>18. CASE Exit
    BY <1>18 DEF Exit
  <1>19. CASE Scan
    BY <1>19 DEF Scan
  <1>20. CASE MonitorEnds
    BY <1>20 DEF MonitorEnds
  <1>21. CASE HandleExit
    BY <1>21 DEF HandleExit, Charged, CanRestart, Count
  <1>22. CASE GiveUp
    BY <1>22 DEF GiveUp
  <1>23. CASE RestartDelay
    BY <1>23 DEF RestartDelay, Calls
  <1>24. CASE HealthRestart
    BY <1>24 DEF HealthRestart, Calls
  <1>25. CASE Restarted
    BY <1>25 DEF Restarted, Returned
  <1>26. CASE MonitorSleeps
    BY <1>26 DEF MonitorSleeps
  <1>27. CASE Signal
    BY <1>27 DEF Signal
  <1>28. ASSUME NEW p \in Processes, Crash(p) \/ WindowPasses(p) PROVE BudgetInv'
    BY <1>28 DEF Crash, WindowPasses
  <1>29. CASE UNCHANGED vars
    BY <1>29 DEF vars
  <1> QED
    BY <1>1, <1>2, <1>3, <1>4, <1>5, <1>6, <1>7, <1>8, <1>9, <1>10, <1>11, <1>12, <1>13, <1>14, <1>15,
       <1>16, <1>17, <1>18, <1>19, <1>20, <1>21, <1>22, <1>23, <1>24, <1>25, <1>26, <1>27, <1>28, <1>29
    DEF Next, StartProcess, MainThread, MonitorThread

-------------------------------------------------------------------------------
(* The search for an order                                                   *)

\* A search with another value of one field.
LEMMA SearchFields ==
    ASSUME NEW r \in Search
    PROVE  /\ [r EXCEPT !.ok = FALSE] \in Search
           /\ \A v \in [Groups -> {"White", "Gray", "Black"}] : [r EXCEPT !.visited = v] \in Search
           /\ \A seq \in Seq(Groups) : [r EXCEPT !.path = seq] \in Search /\ [r EXCEPT !.result = seq] \in Search
  BY DEF Search

\* dfs() is called for a white group.
LEMMA EnterSearched ==
    ASSUME NEW d, NEW r \in Search, Searched(d, r), NEW g \in Groups, r.visited[g] = "White"
    PROVE  /\ Enter(r, g) \in Search /\ Searched(d, Enter(r, g))
           /\ Enter(r, g).ok = r.ok /\ Enter(r, g).result = r.result
  <1> DEFINE e == Enter(r, g)
  <1>1. /\ r.visited \in [Groups -> {"White", "Gray", "Black"}]
        /\ r.path \in Seq(Groups) /\ r.result \in Seq(Groups)
    BY DEF Search
  <1>2. /\ e.ok = r.ok /\ e.result = r.result /\ e.path = Append(r.path, g)
        /\ e.visited = [r.visited EXCEPT ![g] = "Gray"] /\ e \in Search
    <2> DEFINE v == [r.visited EXCEPT ![g] = "Gray"]
               path == Append(r.path, g)
    <2>1. v \in [Groups -> {"White", "Gray", "Black"}] /\ path \in Seq(Groups)
      BY <1>1
    <2>2. e.ok = r.ok /\ e.result = r.result /\ e.path = path /\ e.visited = v
      BY DEF Search, Enter
    <2>3. e = [[r EXCEPT !.visited = v] EXCEPT !.path = path]
      BY DEF Search, Enter
    <2> HIDE DEF v, path, e
    <2>4. [r EXCEPT !.visited = v] \in Search
      BY <2>1, SearchFields
    <2>5. e \in Search
      BY <2>1, <2>3, <2>4, SearchFields
    <2> QED
      BY <2>2, <2>5 DEF v, path
  <1> HIDE DEF e
  <1>3. Len(e.path) = Len(r.path) + 1 /\ Len(r.path) \in Nat /\ e.path[Len(r.path) + 1] = g
        /\ \A k \in 1 .. Len(r.path) : e.path[k] = r.path[k]
    BY <1>1, <1>2
  <1>4. \A k \in 1 .. Len(r.path) : r.path[k] # g
    BY DEF Searched
  <1>5. Distinct(e.path)
    BY <1>3, <1>4 DEF Searched, Distinct
  <1>6. ASSUME NEW h \in Groups
        PROVE  e.visited[h] = "Gray" <=> \E k \in 1 .. Len(e.path) : e.path[k] = h
    BY <1>1, <1>2, <1>3 DEF Searched
  <1>7. ASSUME NEW h \in Groups
        PROVE  e.visited[h] = "Black" <=> \E k \in 1 .. Len(e.result) : e.result[k] = h
    BY <1>1, <1>2 DEF Searched
  <1>8. Searched(d, e)
    BY <1>2, <1>5, <1>6, <1>7 DEF Searched
  <1> QED
    BY <1>2, <1>8 DEF e

\* dfs() returns from a group whose dependencies are all black.
LEMMA ReturnSearched ==
    ASSUME NEW d, NEW r \in Search, Searched(d, r), r.path # <<>>,
           d[Visiting(r)] \subseteq Groups, \A h \in d[Visiting(r)] : r.visited[h] = "Black"
    PROVE  Return(r) \in Search /\ Searched(d, Return(r)) /\ Return(r).ok = r.ok
  <1> DEFINE e == Return(r)
             g == Visiting(r)
             n == Len(r.path)
             m == Len(r.result)
  <1>1. /\ r.visited \in [Groups -> {"White", "Gray", "Black"}]
        /\ r.path \in Seq(Groups) /\ r.result \in Seq(Groups)
    BY DEF Search
  <1>2. n \in Nat \ {0} /\ m \in Nat /\ g \in Groups /\ g = r.path[n]
    BY <1>1 DEF Visiting
  <1>3. /\ e.ok = r.ok /\ e.result = Append(r.result, g) /\ e.path = SubSeq(r.path, 1, n - 1)
        /\ e.visited = [r.visited EXCEPT ![g] = "Black"] /\ e \in Search
    <2> DEFINE v == [r.visited EXCEPT ![g] = "Black"]
               path == SubSeq(r.path, 1, n - 1)
               result == Append(r.result, g)
    <2>1. v \in [Groups -> {"White", "Gray", "Black"}] /\ path \in Seq(Groups) /\ result \in Seq(Groups)
      BY <1>1, <1>2
    <2>2. e.ok = r.ok /\ e.result = result /\ e.path = path /\ e.visited = v
      BY DEF Search, Return
    <2>3. e = [[[r EXCEPT !.visited = v] EXCEPT !.path = path] EXCEPT !.result = result]
      BY DEF Search, Return
    <2> HIDE DEF v, path, result, e
    <2>4. [r EXCEPT !.visited = v] \in Search
      BY <2>1, SearchFields
    <2>5. [[r EXCEPT !.visited = v] EXCEPT !.path = path] \in Search
      BY <2>1, <2>4, SearchFields
    <2>6. e \in Search
      BY <2>1, <2>3, <2>5, SearchFields
    <2> QED
      BY <2>2, <2>6 DEF v, path, result
  <1>4. Len(e.path) = n - 1 /\ \A k \in 1 .. (n - 1) : e.path[k] = r.path[k]
    BY <1>1, <1>2, <1>3
  <1>5. Len(e.result) = m + 1 /\ e.result[m + 1] = g /\ \A k \in 1 .. m : e.result[k] = r.result[k]
    BY <1>1, <1>2, <1>3
  <1>6. r.visited[g] = "Gray"
    BY <1>2 DEF Searched
  <1>7. \A k \in 1 .. m : r.result[k] # g
    BY <1>2, <1>6 DEF Searched
  <1> HIDE DEF e, g, n, m
  <1>8. Distinct(e.path)
    BY <1>2, <1>4 DEF Searched, Distinct, n
  <1>9. Distinct(e.result)
    <2>1. Distinct(r.result)
      BY DEF Searched
    <2> QED
      BY <1>2, <1>5, <1>7, <2>1 DEF Distinct, m
  <1>10. ASSUME NEW h \in Groups
         PROVE  e.visited[h] = "Gray" <=> \E k \in 1 .. Len(e.path) : e.path[k] = h
    <2>1. r.visited[h] = "Gray" <=> \E k \in 1 .. n : r.path[k] = h
      BY DEF Searched, n
    <2>2. \A k, l \in 1 .. n : r.path[k] = r.path[l] => k = l
      BY DEF Searched, Distinct, n
    <2>3. CASE h = g
      <3>1. e.visited[h] = "Black"
        BY <1>1, <1>3, <2>3
      <3>2. \A k \in 1 .. (n - 1) : r.path[k] # r.path[n]
        BY <1>2, <2>2
      <3> QED
        BY <1>2, <1>4, <2>3, <3>1, <3>2
    <2>4. CASE h # g
      <3>1. e.visited[h] = r.visited[h]
        BY <1>1, <1>3, <2>4
      <3>2. (\E k \in 1 .. n : r.path[k] = h) <=> (\E k \in 1 .. (n - 1) : r.path[k] = h)
        BY <1>2, <2>4
      <3> QED
        BY <1>4, <2>1, <3>1, <3>2
    <2> QED
      BY <2>3, <2>4
  <1>11. ASSUME NEW h \in Groups
         PROVE  e.visited[h] = "Black" <=> \E k \in 1 .. Len(e.result) : e.result[k] = h
    <2>1. r.visited[h] = "Black" <=> \E k \in 1 .. m : r.result[k] = h
      BY DEF Searched, m
    <2>2. e.visited[h] = IF h = g THEN "Black" ELSE r.visited[h]
      BY <1>1, <1>3
    <2> QED
      BY <1>2, <1>5, <2>1, <2>2
  <1>12. InOrder(d, e.result)
    <2>1. ASSUME NEW k \in 1 .. (m + 1), NEW h \in d[e.result[k]]
          PROVE  \E l \in 1 .. (k - 1) : e.result[l] = h
      <3>1. CASE k = m + 1
        <4>1. h \in Groups /\ r.visited[h] = "Black"
          BY <1>5, <2>1, <3>1 DEF g
        <4>2. PICK l \in 1 .. m : r.result[l] = h
          BY <4>1 DEF Searched, m
        <4> QED
          BY <1>2, <1>5, <3>1, <4>2
      <3>2. CASE k # m + 1
        <4>1. k \in 1 .. m /\ h \in d[r.result[k]]
          BY <1>2, <1>5, <2>1, <3>2
        <4>2. PICK l \in 1 .. (k - 1) : r.result[l] = h
          BY <4>1 DEF Searched, InOrder, m
        <4> QED
          BY <1>2, <1>5, <4>1, <4>2
      <3> QED
        BY <3>1, <3>2
    <2> QED
      BY <1>5, <2>1 DEF InOrder
  <1>13. Searched(d, e)
    BY <1>8, <1>9, <1>10, <1>11, <1>12 DEF Searched
  <1> QED
    BY <1>3, <1>13 DEF e

\* A list without repetition lists no process twice.
LEMMA DistinctOnce ==
    ASSUME NEW seq \in Seq(Groups), Distinct(seq)
    PROVE  ListedOnce(seq)
  <1>1. \A k \in 1 .. Len(seq) : seq[k] \in Groups
    OBVIOUS
  <1> QED
    BY <1>1, OnceAssumption DEF Distinct, ListedOnce

\* Whatever group g needs is listed before it.
LEMMA NeedsListed ==
    ASSUME NEW k \in 1 .. Len(order.result), order.result \in Seq(Groups),
           InOrder(depends, order.result), NEW h \in Needs(order.result[k])
    PROVE  \E l \in 1 .. (k - 1) : order.result[l] = h
  <1> DEFINE S == {order.result[l] : l \in 1 .. (k - 1)}
  <1>1. S \in SUBSET Groups
    OBVIOUS
  <1>2. depends[order.result[k]] \subseteq S
    BY DEF InOrder
  <1>3. ASSUME NEW x \in S PROVE depends[x] \subseteq S
    <2>1. PICK l \in 1 .. (k - 1) : x = order.result[l]
      OBVIOUS
    <2>2. l \in 1 .. Len(order.result)
      OBVIOUS
    <2>3. ASSUME NEW y \in depends[x] PROVE y \in S
      <3>1. PICK i \in 1 .. (l - 1) : order.result[i] = y
        BY <2>1, <2>2, <2>3 DEF InOrder
      <3>2. i \in 1 .. (k - 1)
        BY <2>1
      <3> QED
        BY <3>1, <3>2
    <2> QED
      BY <2>3
  <1>4. h \in S
    BY <1>1, <1>2, <1>3 DEF Needs
  <1> QED
    BY <1>4

\* What is left of a step of resolve() when the order is set aside.
LEMMA ResolveOnly ==
    ASSUME ResolveGroups
    PROVE  /\ main = "resolve" /\ main' \in {"resolve", "starting", "shutdown"}
           /\ UNCHANGED <<depends, conf, gi, pi, starter, monitor, running, stopping, erased, sig, info, children>>
  BY DEF ResolveGroups, ResolveThrows, ResolveVisits, ResolveReturns

\* A step of resolve() goes on with the search, has found the order of all
\* groups, or leaves no list.
LEMMA ResolveSearch ==
    ASSUME IInv, ResolveGroups
    PROVE  order' \in Search /\ SearchInv' /\ ListedOnce(order'.result)
  <1>1. /\ order \in Search /\ order.ok /\ Searched(depends, order) /\ main = "resolve"
        /\ depends \in [Groups -> SUBSET Nat] /\ depends' = depends
    BY ResolveOnly DEF IInv, TypeOK, SearchInv, Search
  <1>2. ASSUME order' \in Search, order'.ok, Searched(depends, order'), main' = "resolve"
        PROVE  SearchInv' /\ ListedOnce(order'.result)
    <2>1. order'.result \in Seq(Groups) /\ Distinct(order'.result)
      BY <1>2 DEF Search, Searched
    <2> QED
      BY <1>1, <1>2, <2>1, DistinctOnce DEF SearchInv
  <1>3. CASE ResolveThrows
    <2>1. order'.ok = FALSE /\ order'.result = <<>> /\ order' \in Search
      <3>1. order' = Throw(order)
        BY <1>3 DEF ResolveThrows
      <3>2. order'.ok = FALSE /\ order'.result = <<>>
        BY <1>1, <3>1 DEF Throw, Search
      <3>3. Throw(order) = [[[order EXCEPT !.ok = FALSE] EXCEPT !.path = <<>>] EXCEPT !.result = <<>>]
        BY <1>1 DEF Throw, Search
      <3>4. [order EXCEPT !.ok = FALSE] \in Search /\ <<>> \in Seq(Groups)
        BY <1>1, SearchFields
      <3>5. [[order EXCEPT !.ok = FALSE] EXCEPT !.path = <<>>] \in Search
        BY <3>4, SearchFields
      <3>6. Throw(order) \in Search
        BY <3>3, <3>4, <3>5, SearchFields
      <3> QED
        BY <3>1, <3>2, <3>6
    <2>2. main' = "shutdown"
      BY <1>3 DEF ResolveThrows
    <2> QED
      BY <2>1, <2>2 DEF SearchInv, ListedOnce
  <1>4. CASE ResolveVisits
    <2>1. PICK g \in Groups : order.visited[g] = "White" /\ order' = Enter(order, g)
      BY <1>4 DEF ResolveVisits
    <2>2. main' = main
      BY <1>4 DEF ResolveVisits
    <2> QED
      BY <1>1, <1>2, <2>1, <2>2, EnterSearched
  <1>5. CASE ResolveReturns
    <2>1. Pending(depends, order) = {} /\ AllKnown(depends)
      BY <1>5 DEF ResolveReturns
    <2>2. CASE order.path # <<>>
      <3>1. order' = Return(order) /\ main' = main
        BY <1>5, <2>2 DEF ResolveReturns
      <3>2. Visiting(order) \in Groups
        BY <1>1, <2>2 DEF Visiting, Search
      <3>3. depends[Visiting(order)] \subseteq Groups
        BY <1>1, <2>1, <3>2 DEF AllKnown
      <3>4. \A h \in depends[Visiting(order)] : order.visited[h] = "Black"
        BY <2>1, <2>2 DEF Pending, Loop
      <3> QED
        BY <1>1, <1>2, <2>2, <3>1, <3>3, <3>4, ReturnSearched
    <2>3. CASE order.path = <<>>
      <3>1. order' = order /\ main' = "starting"
        BY <1>5, <2>3 DEF ResolveReturns
      <3>2. \A g \in Groups : order.visited[g] = "Black"
        BY <1>1, <2>1, <2>3 DEF Pending, Loop
      <3> QED
        BY <1>1, <3>1, <3>2 DEF SearchInv, IInv
    <2> QED
      BY <2>2, <2>3
  <1> QED
    BY <1>3, <1>4, <1>5 DEF ResolveGroups

\* A step of resolve() keeps the invariant: no process has been touched.
LEMMA ResolveIInv == IInv /\ ResolveGroups => IInv'
  <1> SUFFICES ASSUME IInv, ResolveGroups PROVE IInv'
    OBVIOUS
  <1>1. /\ main = "resolve" /\ main' \in {"resolve", "starting", "shutdown"}
        /\ UNCHANGED <<depends, conf, gi, pi, start, mon, exits, healths, running, stopping, erased, sig, state,
                       restartCount, healthFailCount, old, pid, orphans, launches, crashes>>
    BY ResolveOnly DEF starter, monitor, info, children
  <1>2. order' \in Search /\ SearchInv' /\ ListedOnce(order'.result)
    BY ResolveSearch
  <1>3. TypeOK'
    BY <1>1, <1>2 DEF IInv, TypeOK, Search, Most
  <1>4. PhaseInv' /\ mon = "off" /\ start.step = "idle" /\ exits = {} /\ healths = {}
    BY <1>1 DEF IInv, PhaseInv
  <1>5. gi = 1 /\ pi = 1 /\ \A p \in Processes : pid[p] = "none" /\ launches[p] = 0 /\ state[p] = "Stopped"
    BY <1>1 DEF IInv, AheadInv
  <1>6. \A k, j : Place(order'.result, k, j) => At(order'.result, k, j) \in Processes
    <2>1. ASSUME NEW k, NEW j, Place(order'.result, k, j) PROVE At(order'.result, k, j) \in Processes
      <3>1. order'.result[k] \in Groups
        BY <1>2, <2>1 DEF Search, Place
      <3>2. Members[order'.result[k]] \in Seq(Processes)
        BY <3>1, LauncherAssumption
      <3> QED
        BY <2>1, <3>2 DEF Place, At
    <2> QED
      BY <2>1
  <1>7. ListedInv'
    BY <1>1, <1>4, <1>5 DEF ListedInv
  <1>8. AheadInv'
    BY <1>1, <1>5, <1>6 DEF AheadInv
  <1>9. ReadyInv'
    BY <1>1, <1>4, <1>5 DEF ReadyInv, Place
  <1>10. BehindInv'
    BY <1>1 DEF BehindInv
  <1>11. ChildInv' /\ BudgetInv'
    BY <1>1, <1>4 DEF IInv, ChildInv, BudgetInv, Charging
  <1> QED
    BY <1>2, <1>3, <1>4, <1>7, <1>8, <1>9, <1>10, <1>11 DEF IInv

\* The order is not touched by anything else, and nothing begins without it.
LEMMA NextSearch ==
    ASSUME IInv, [Next]_vars, ~ResolveGroups
    PROVE  SearchInv'
  <1>0. order' = order /\ depends' = depends
    BY Fixed DEF config
  <1>1. main' = main \/ main' \notin {"startAll", "resolve", "starting", "calling", "startMonitoring"}
        \/ (main = "startAll" /\ main' = "resolve")
        \/ (main \in {"starting", "calling"} /\ main' \in {"starting", "calling", "startMonitoring"})
    <2>1. CASE StartProcess
      BY <2>1 DEF StartProcess, Launch, OneshotEnds, Ready, NotReady, RetryDelay
    <2>2. CASE MainThread
      BY <2>2 DEF MainThread, StartAll, StartsEnd, NextGroup, NextProcess, Started, StartMonitoring,
                  Poll, StopMonitoring, JoinMonitor, StopAll, StopNext, StopNextGroup, Exit
    <2>3. CASE MonitorThread
      BY <2>3 DEF MonitorThread, Scan, MonitorEnds, HandleExit, GiveUp, RestartDelay, HealthRestart,
                  Restarted, MonitorSleeps
    <2>4. CASE Signal \/ \E p \in Processes : Crash(p) \/ WindowPasses(p)
      BY <2>4 DEF Signal, Crash, WindowPasses
    <2> QED
      BY <2>1, <2>2, <2>3, <2>4 DEF Next, vars
  <1> QED
    BY <1>0, <1>1 DEF IInv, SearchInv

\* startAll() leaves no critical process behind that is not ready.
LEMMA NextReady ==
    ASSUME IInv, [Next]_vars, ~ResolveGroups
    PROVE  ReadyInv'
  <1>0. order' = order /\ conf' = conf
    BY Fixed DEF config
  <1> USE <1>0
  <1>a. AtProcess => Process \in Processes /\ Place(order.result, gi, pi) /\ Process = At(order.result, gi, pi)
    BY Handled DEF IInv
  <1>b. \A k, j : Place(order.result, k, j) => At(order.result, k, j) \in Processes
    BY Handled DEF IInv
  <1>c. start.step # "idle" => start.p \in Processes
    BY Handled DEF IInv
  <1>d. gi \in Nat /\ pi \in Nat /\ ListedOnce(order.result)
    BY DEF IInv, TypeOK
  <1>1. ASSUME StartProcess PROVE ReadyInv'
    <2>1. /\ UNCHANGED <<main, gi, pi, stopping, mon>> /\ start.step # "idle"
          /\ \A p \in Processes : p # start.p => state'[p] = state[p]
      BY <1>1 DEF StartProcess, Launch, OneshotEnds, Ready, NotReady, RetryDelay, monitor, IInv, TypeOK
    <2>2. start'.step = "ok" => IsReady(start.p)' /\ start'.p = start.p
      BY <1>1, <1>c, <2>1
      DEF StartProcess, Launch, OneshotEnds, Ready, NotReady, RetryDelay, IInv, TypeOK, IsReady
    <2>3. main = "calling" \/ main \notin {"starting", "startMonitoring"}
      BY <2>1 DEF IInv, PhaseInv
    <2>4. CASE main = "calling"
      <3>1. Place(order.result, gi, pi) /\ start.p = At(order.result, gi, pi)
        BY <2>4 DEF IInv, ListedInv
      <3>2. ASSUME NEW k \in Nat, NEW j \in Nat, Place(order.result, k, j), k < gi \/ (k = gi /\ j < pi)
            PROVE  At(order.result, k, j) # start.p
        <4>1. At(order.result, k, j) = At(order.result, gi, pi) => k = gi /\ j = pi
          BY <1>d, <3>1, <3>2 DEF ListedOnce, Place, At
        <4> QED
          BY <1>d, <3>1, <3>2, <4>1
      <3> QED
        BY <1>b, <2>1, <2>2, <2>4, <3>2 DEF IInv, ReadyInv, IsReady
    <2>5. CASE main \notin {"starting", "startMonitoring", "calling"}
      BY <2>1, <2>2, <2>5 DEF ReadyInv, IsReady
    <2> QED
      BY <2>3, <2>4, <2>5
  <1>2. ASSUME NextGroup PROVE ReadyInv'
    <2>1. /\ main = "starting" /\ AtGroup /\ ~AtProcess /\ gi' = gi + 1 /\ pi' = 1
          /\ UNCHANGED <<main, start, state, stopping>>
      BY <1>2 DEF NextGroup, starter, info
    <2>2. ASSUME NEW k \in Nat, NEW j \in Nat, Place(order.result, k, j), k < gi'
          PROVE  k < gi \/ (k = gi /\ j < pi)
      BY <1>d, <2>1, <2>2 DEF IInv, ReadyInv, AtProcess, AtGroup, Place
    <2> QED
      BY <1>d, <2>1, <2>2 DEF IInv, ReadyInv, IsReady, Place
  <1>3. ASSUME NextProcess PROVE ReadyInv'
    <2>1. /\ main = "starting" /\ AtProcess /\ gi' = gi /\ UNCHANGED <<state, stopping>>
          /\ main' \in {"starting", "calling"}
          /\ start'.step = "ok" => start' = start
          /\ pi' = pi \/ (pi' = pi + 1 /\ ~conf[Process].starts)
      BY <1>3 DEF NextProcess, Calls, info
    <2>2. ASSUME NEW k \in Nat, NEW j \in Nat, Place(order.result, k, j), k < gi \/ (k = gi /\ j < pi'),
                 conf[At(order.result, k, j)].starts
          PROVE  k < gi \/ (k = gi /\ j < pi)
      BY <1>a, <1>d, <2>1, <2>2
    <2> QED
      BY <1>d, <2>1, <2>2 DEF IInv, ReadyInv, IsReady
  <1>4. ASSUME Started PROVE ReadyInv'
    <2>1. /\ main = "calling" /\ start.step \in {"ok", "failed"} /\ start'.step = "idle"
          /\ gi' = gi /\ pi' = pi + 1 /\ UNCHANGED <<state, stopping>>
          /\ main' = IF start.step = "failed" /\ conf[start.p].critical THEN "shutdown" ELSE "starting"
      BY <1>4 DEF Started, Returned, info, IInv, TypeOK
    <2>2. start.p = At(order.result, gi, pi)
      BY <2>1 DEF IInv, ListedInv
    <2>3. main' = "starting" => IsReady(start.p) \/ ~conf[start.p].critical
      BY <2>1 DEF IInv, ReadyInv
    <2>4. ASSUME NEW k \in Nat, NEW j \in Nat, k < gi \/ (k = gi /\ j < pi')
          PROVE  k < gi \/ (k = gi /\ j < pi) \/ (k = gi /\ j = pi)
      BY <1>d, <2>1, <2>4
    <2> QED
      BY <1>d, <2>1, <2>2, <2>3, <2>4 DEF IInv, ReadyInv, IsReady
  <1>5. ASSUME StartsEnd PROVE ReadyInv'
    <2>1. /\ main = "starting" /\ (stopping \/ ~AtGroup) /\ UNCHANGED <<gi, pi, start, state, stopping>>
          /\ main' = "startMonitoring"
      BY <1>5 DEF StartsEnd, starter, info
    <2>2. ~stopping => gi > Len(order.result)
      BY <1>d, <2>1 DEF IInv, ReadyInv, AtGroup, TypeOK
    <2> QED
      BY <2>1, <2>2 DEF IInv, ReadyInv, IsReady
  <1>6. ASSUME main' \notin {"starting", "calling", "startMonitoring"},
               start'.step = "ok" => start'.p = start.p /\ start.step = "ok" /\ state'[start.p] = state[start.p]
        PROVE  ReadyInv'
    BY <1>6 DEF IInv, ReadyInv, IsReady
  <1>7. ASSUME StartAll \/ StartMonitoring \/ Poll \/ StopMonitoring \/ JoinMonitor \/ Exit \/ StopNextGroup
        PROVE  ReadyInv'
    BY <1>6, <1>7 DEF StartAll, StartMonitoring, Poll, StopMonitoring, JoinMonitor, Exit, StopNextGroup, starter, info
  <1>8. ASSUME StopAll \/ StopNext PROVE ReadyInv'
    <2>1. mon = "off" /\ start.step = "idle" /\ start' = start /\ main' = "stopping"
      BY <1>8 DEF StopAll, StopNext, IInv, PhaseInv, starter
    <2> QED
      BY <1>6, <2>1
  <1>9. ASSUME MonitorThread PROVE ReadyInv'
    <2>1. mon # "off" /\ main' = main
      BY <1>9 DEF MonitorThread, Scan, MonitorEnds, HandleExit, GiveUp, RestartDelay, HealthRestart,
                  Restarted, MonitorSleeps
    <2>2. main' \notin {"starting", "calling", "startMonitoring"}
      BY <2>1 DEF IInv, PhaseInv
    <2>3. CASE HandleExit
      <3>1. start.step = "idle" /\ start'.step = start.step
        BY <2>2, <2>1, <2>3 DEF HandleExit, IInv, PhaseInv, TypeOK
      <3> QED
        BY <1>6, <2>2, <3>1
    <2>4. CASE RestartDelay \/ HealthRestart
      <3>1. start.step = "idle" /\ (start' = start \/ start'.step = "launch")
        BY <2>2, <2>1, <2>4 DEF RestartDelay, HealthRestart, Calls, IInv, PhaseInv
      <3> QED
        BY <1>6, <2>2, <3>1
    <2>5. CASE Restarted
      <3>1. start'.step = "idle"
        BY <2>5 DEF Restarted, IInv, TypeOK
      <3> QED
        BY <1>6, <2>2, <3>1
    <2>6. CASE Scan \/ MonitorEnds \/ GiveUp \/ MonitorSleeps
      <3>1. start' = start /\ state' = state
        BY <2>6 DEF Scan, MonitorEnds, GiveUp, MonitorSleeps, starter, info
      <3> QED
        BY <1>6, <2>2, <3>1
    <2> QED
      BY <1>9, <2>3, <2>4, <2>5, <2>6 DEF MonitorThread
  <1>10. ASSUME Signal \/ (\E p \in Processes : Crash(p) \/ WindowPasses(p)) \/ UNCHANGED vars PROVE ReadyInv'
    <2>1. UNCHANGED <<main, gi, pi, start, state>>
      BY <1>10 DEF Signal, Crash, WindowPasses, vars, starter, info
    <2>2. stopping' = stopping \/ stopping' = (stopping \/ sig = 2)
      BY <1>10 DEF Signal, Crash, WindowPasses, vars
    <2>3. ~stopping' => ~stopping
      BY <2>2
    <2> QED
      BY <2>1, <2>3 DEF IInv, ReadyInv, IsReady
  <1> QED
    BY <1>1, <1>2, <1>3, <1>4, <1>5, <1>7, <1>8, <1>9, <1>10 DEF Next, MainThread

-------------------------------------------------------------------------------
(* The theorems                                                              *)

\* It holds at the start, whatever the configuration.
LEMMA InitIInv == Init => IInv
  <1> SUFFICES ASSUME Init PROVE IInv
    OBVIOUS
  <1>1. PICK s \in Setups : conf = s.conf /\ depends = s.depends
    BY DEF Init
  <1>2. conf \in [Processes -> Conf] /\ depends \in [Groups -> SUBSET Nat]
    BY <1>1, LauncherAssumption
  <1>4. order.ok /\ order.path = <<>> /\ order.result = <<>> /\ order.visited = [g \in Groups |-> "White"]
        /\ order \in Search
    BY DEF Init, Unresolved, Search
  <1>5. ListedOnce(order.result) /\ Searched(depends, order)
    BY <1>4 DEF ListedOnce, Searched, Distinct, InOrder
  <1>3. TypeOK
    <2>1. \A p \in Processes : Most(p) \in Int /\ 0 <= Most(p)
      BY <1>2 DEF Most, Conf
    <2>2. start \in [step : {"idle", "launch", "oneshot", "wait", "delay", "ok", "failed"},
                     p : Processes \cup {0}, free : BOOLEAN]
      BY DEF Init
    <2>3. /\ state \in [Processes -> States] /\ healthFailCount \in [Processes -> Nat]
          /\ old \in [Processes -> BOOLEAN] /\ pid \in [Processes -> {"none", "alive", "dead"}]
          /\ launches \in [Processes -> Nat]
      BY DEF Init, States
    <2>4. restartCount \in [Processes -> Nat] /\ \A p \in Processes : restartCount[p] <= Most(p)
      BY <2>1 DEF Init
    <2>5. orphans \subseteq Processes /\ exits \subseteq Processes /\ healths \subseteq Processes
      BY DEF Init
    <2>6. crashes \in 0 .. Crashes /\ gi \in Nat /\ pi \in Nat /\ sig \in 0 .. 3
      BY LauncherAssumption DEF Init
    <2> QED
      BY <1>2, <1>4, <2>2, <2>3, <2>4, <2>5, <2>6 DEF Init, TypeOK, Search
  <1> QED
    BY <1>2, <1>3, <1>4, <1>5 DEF Init, IInv, SearchInv, PhaseInv, ListedInv, AheadInv, ReadyInv, BehindInv, ChildInv, BudgetInv, Charging

\* No step breaks it.
LEMMA NextIInv == IInv /\ [Next]_vars => IInv'
  <1> SUFFICES ASSUME IInv, [Next]_vars PROVE IInv'
    OBVIOUS
  <1>1. CASE ResolveGroups
    BY <1>1, ResolveIInv
  <1>2. CASE ~ResolveGroups
    <2>1. order' = order
      BY <1>2, Fixed DEF config
    <2> QED
      BY <1>2, <2>1, NextTypes, NextPhase, NextListed, NextAhead, NextReady, NextBehind, NextChild,
         NextBudget, NextSearch DEF IInv
  <1> QED
    BY <1>1, <1>2

\* The invariant holds in every reachable state.
LEMMA SpecIInv == Spec => []IInv
  BY InitIInv, NextIInv, PTL DEF Spec

\* Every variable keeps its type: no loop leaves its list, and restartCount
\* never exceeds the limit.
THEOREM LauncherTypes == Spec => []TypeOK
  <1>1. IInv => TypeOK
    BY DEF IInv
  <1> QED
    BY <1>1, SpecIInv, PTL

\* Neither startProcessWithUnlock() nor the monitor ever forgets the pid of a
\* living child, and stopAll() leaves none, for every configuration.
THEOREM LauncherNoOrphans == Spec => []NoOrphans
  <1>1. IInv => NoOrphans
    BY DEF IInv, ChildInv, NoOrphans
  <1> QED
    BY <1>1, SpecIInv, PTL

\* Deaths and failed ready checks together start a process at most
\* maxRestarts times more, for every limit.
THEOREM LauncherBudget == Spec => []RestartBudget
  <1>1. ASSUME IInv PROVE RestartBudget
    <2>1. ASSUME NEW p \in Processes, conf[p].maxRestarts > 0 PROVE launches[p] <= conf[p].maxRestarts + 1
      <3>1. conf[p].maxRestarts \in Int /\ launches[p] \in Nat /\ restartCount[p] \in Nat
        BY <1>1 DEF IInv, TypeOK, Conf
      <3>2. launches[p] <= restartCount[p] + 1 /\ restartCount[p] <= conf[p].maxRestarts
        BY <1>1, <2>1 DEF IInv, TypeOK, BudgetInv, Most
      <3> QED
        BY <3>1, <3>2
    <2> QED
      BY <2>1 DEF RestartBudget
  <1> QED
    BY <1>1, SpecIInv, PTL

\* p at its place in the order, with its group.
LEMMA GroupOf ==
    ASSUME IInv, NEW k \in Nat, NEW j \in Nat, Place(order.result, k, j),
           NEW g \in Groups, In(At(order.result, k, j), g)
    PROVE  g = order.result[k]
  <1>1. order.result[k] \in Groups
    BY DEF IInv, TypeOK, Place
  <1> QED
    BY <1>1, OnceAssumption DEF Place, At, In

\* The search has listed groups in the order of their dependencies.
LEMMA OrderFound ==
    ASSUME IInv
    PROVE  /\ order.result \in Seq(Groups) /\ Len(order.result) \in Nat
           /\ InOrder(depends, order.result) /\ Distinct(order.result)
  <1>1. order.result \in Seq(Groups) /\ order.ok \in BOOLEAN
    BY DEF IInv, TypeOK
  <1>2. CASE order.ok
    BY <1>1, <1>2 DEF IInv, SearchInv, Searched
  <1>3. CASE ~order.ok
    BY <1>1, <1>3 DEF IInv, SearchInv, InOrder, Distinct
  <1> QED
    BY <1>1, <1>2, <1>3

\* A process that the one at place (k, i) needs has its place in an earlier
\* group.
LEMMA NeededEarlier ==
    ASSUME IInv, NEW k \in Nat, NEW i \in Nat, Place(order.result, k, i),
           NEW q \in Processes, NeedsProcess(At(order.result, k, i), q)
    PROVE  \E l, j \in Nat : Place(order.result, l, j) /\ l < k /\ At(order.result, l, j) = q
  <1>1. PICK g \in Groups : In(At(order.result, k, i), g) /\ \E h \in Needs(g) : In(q, h)
    BY DEF NeedsProcess
  <1>2. g = order.result[k]
    BY <1>1, GroupOf
  <1>3. PICK h \in Needs(g) : In(q, h)
    BY <1>1
  <1>4. k \in 1 .. Len(order.result)
    BY DEF Place
  <1>5. PICK l \in 1 .. (k - 1) : order.result[l] = h
    BY <1>2, <1>3, <1>4, OrderFound, NeedsListed
  <1>6. PICK j \in 1 .. Len(Members[h]) : Members[h][j] = q
    BY <1>3 DEF In
  <1>7. h \in Groups /\ Len(Members[h]) \in Nat
    BY <1>3, LauncherAssumption DEF Needs
  <1>8. l \in Nat /\ j \in Nat /\ l < k /\ l \in 1 .. Len(order.result)
    BY <1>4, <1>5, <1>6, <1>7, OrderFound
  <1> QED
    BY <1>5, <1>6, <1>8 DEF Place, At

\* startAll() starts a process after everything its group needs, directly or
\* not, for every dependency graph, and ends with all critical processes
\* ready, with a failure, or because it is told to stop.
THEOREM LauncherStartOrder == Spec => []StartOrder
  <1>1. ASSUME IInv PROVE StartOrder
    <2>1. ASSUME main = "calling", start.step = "launch", NEW q \in Processes,
                 NeedsProcess(start.p, q), conf[q].critical, conf[q].starts
          PROVE  q # start.p /\ state[q] \in {"Running", "Completed"}
      <3>1. Place(order.result, gi, pi) /\ start.p = At(order.result, gi, pi) /\ gi \in Nat /\ pi \in Nat
        BY <1>1, <2>1 DEF IInv, ListedInv, TypeOK
      <3>2. PICK l, j \in Nat : Place(order.result, l, j) /\ l < gi /\ At(order.result, l, j) = q
        BY <1>1, <2>1, <3>1, NeededEarlier
      <3>3. IsReady(q)
        BY <1>1, <2>1, <3>2 DEF IInv, ReadyInv
      <3>4. ListedOnce(order.result)
        BY <1>1 DEF IInv
      <3>5. q = start.p => l = gi
        BY <3>1, <3>2, <3>4 DEF ListedOnce, Place, At
      <3> QED
        BY <3>1, <3>2, <3>3, <3>5 DEF IsReady
    <2>2. ASSUME main = "startMonitoring", ~stopping, NEW q \in Processes, NEW g \in Groups, In(q, g),
                 conf[q].critical, conf[q].starts
          PROVE  state[q] \in {"Running", "Completed"}
      <3>1. gi > Len(order.result) /\ order.ok /\ order.visited[g] = "Black" /\ gi \in Nat
        BY <1>1, <2>2 DEF IInv, ReadyInv, SearchInv, TypeOK
      <3>2. PICK k \in 1 .. Len(order.result) : order.result[k] = g
        BY <1>1, <3>1 DEF IInv, SearchInv, Searched
      <3>3. PICK j \in 1 .. Len(Members[g]) : Members[g][j] = q
        BY <2>2 DEF In
      <3>4. Len(Members[g]) \in Nat /\ Len(order.result) \in Nat
        BY <1>1, LauncherAssumption, OrderFound
      <3>5. Place(order.result, k, j) /\ At(order.result, k, j) = q /\ k \in Nat /\ j \in Nat /\ k < gi
        BY <3>1, <3>2, <3>3, <3>4 DEF Place, At
      <3> QED
        BY <1>1, <2>2, <3>5 DEF IInv, ReadyInv, IsReady
    <2> QED
      BY <2>1, <2>2 DEF StartOrder
  <1> QED
    BY <1>1, SpecIInv, PTL

\* stopAll() stops a living process only when nobody who needs it is alive,
\* for every dependency graph.
THEOREM LauncherStopOrder == Spec => StopOrder
  <1> DEFINE Fair == main = "stopping" =>
         \A p, q \in Processes :
            NeedsProcess(q, p) /\ pid[p] = "alive" /\ pid'[p] = "none" => pid[q] # "alive"
  <1>1. ASSUME IInv, [Next]_vars PROVE Fair
    <2> SUFFICES ASSUME main = "stopping", NEW p \in Processes, NEW q \in Processes,
                        NeedsProcess(q, p), pid[p] = "alive", pid'[p] = "none", pid[q] = "alive"
                 PROVE  FALSE
      OBVIOUS
    <2>1. StopNext
      <3>1. mon = "off" /\ start.step = "idle"
        BY <1>1 DEF IInv, PhaseInv
      <3>2. ~StartProcess /\ ~MonitorThread
        BY <3>1 DEF StartProcess, Launch, OneshotEnds, Ready, NotReady, RetryDelay, MonitorThread, Scan,
                    MonitorEnds, HandleExit, GiveUp, RestartDelay, HealthRestart, Restarted, MonitorSleeps
      <3>3. ASSUME NEW r \in Processes, Crash(r) \/ WindowPasses(r) PROVE FALSE
        <4>1. pid'[p] \in {"dead", pid[p]}
          BY <1>1, <3>3 DEF Crash, WindowPasses, children, IInv, TypeOK
        <4> QED
          BY <4>1
      <3>4. ASSUME MainThread, ~StopNext PROVE FALSE
        <4>1. pid' = pid
          BY <3>4 DEF MainThread, ResolveGroups, ResolveThrows, ResolveVisits, ResolveReturns, StartAll,
                      StartsEnd, NextGroup, NextProcess, Started, StartMonitoring, Poll, StopMonitoring,
                      JoinMonitor, StopAll, StopNextGroup, Exit, children
        <4> QED
          BY <4>1
      <3>5. Signal \/ UNCHANGED vars => pid' = pid
        BY DEF Signal, vars, children
      <3> QED
        BY <1>1, <3>2, <3>3, <3>4, <3>5 DEF Next
    <2>2. /\ Place(order.result, gi, pi) /\ gi \in Nat /\ pi \in Nat
          /\ pid' = [pid EXCEPT ![At(order.result, gi, pi)] = "none"]
      BY <1>1, <2>1, Handled DEF StopNext, Killed, IInv, TypeOK
    <2>3. p = At(order.result, gi, pi)
      BY <1>1, <2>2 DEF IInv, TypeOK
    <2>4. PICK k, i \in Nat : Place(order.result, k, i) /\ At(order.result, k, i) = q
      BY <1>1 DEF IInv, ListedInv, Listed
    <2>5. PICK l, j \in Nat : Place(order.result, l, j) /\ l < k /\ At(order.result, l, j) = p
      BY <1>1, <2>4, NeededEarlier
    <2>6. l = gi
      <3>1. ListedOnce(order.result)
        BY <1>1 DEF IInv
      <3> QED
        BY <2>2, <2>3, <2>5, <3>1 DEF ListedOnce, Place, At
    <2>7. pid[q] = "none"
      BY <1>1, <2>4, <2>5, <2>6 DEF IInv, BehindInv
    <2> QED
      BY <2>7
  <1>2. IInv /\ [Next]_vars => [Fair]_vars
    BY <1>1
  <1> QED
    BY <1>2, SpecIInv, PTL DEF Spec, StopOrder

===============================================================================
