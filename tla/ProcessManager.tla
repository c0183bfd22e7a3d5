---------------------------- MODULE ProcessManager ----------------------------
(***************************************************************************)
(* The launcher (extensions/Launcher: ProcessManager.cc and main.cc): it   *)
(* starts the processes of a node group by group, watches them, restarts   *)
(* the ones that die or hang, and stops them all when it is told to or     *)
(* when a critical process cannot be kept running.                         *)
(*                                                                         *)
(* The main thread starts, polls and stops; the monitor thread restarts;   *)
(* the signal handler stores three flags one after the other.  Both        *)
(* threads use startProcessWithUnlock(), never at the same time: the       *)
(* monitor begins after startAll() and is joined before stopAll().  A      *)
(* child may die at any moment; a ready check may fail whatever the child  *)
(* does.  Modelled without the control requests of the REST interface,     *)
(* which are off unless a token is configured.                             *)
(***************************************************************************)
EXTENDS Integers, Sequences, DependencyResolver

CONSTANTS NProcesses,   \* processes, numbered in the order of their names
          NGroups,      \* groups, numbered in the order of their names
          Members,      \* the list of processes of every group
          Setups,       \* configurations: [depends, conf] (see Init)
          Crashes       \* bound: how many times children die by themselves

Processes == 1 .. NProcesses
Groups == 1 .. NGroups

\* What the configuration says of a process: critical (not ignoreFail),
\* maxRestarts (-1: never, 0: any number), oneshot, whether startAll() starts
\* it (no skip, no manual, this node), whether it has a ready check, the
\* threshold of its health check (0: none), and whether fork() may fail.
Conf == [critical : BOOLEAN, maxRestarts : Int, oneshot : BOOLEAN, starts : BOOLEAN,
         readyCheck : BOOLEAN, healthFailThreshold : Nat, forkFails : BOOLEAN]

ASSUME LauncherAssumption ==
    /\ NProcesses \in Nat /\ NGroups \in Nat /\ Crashes \in Nat
    /\ Members \in [Groups -> Seq(Processes)]
    /\ \A s \in Setups : s.conf \in [Processes -> Conf] /\ s.depends \in [Groups -> SUBSET Nat]

\* A process has one name and belongs to one group.
ASSUME OnceAssumption ==
    \A g, h \in Groups : \A i \in 1 .. Len(Members[g]), j \in 1 .. Len(Members[h]) :
        Members[g][i] = Members[h][j] => g = h /\ i = j

VARIABLES
    depends, conf,   \* the configuration
    order,           \* resolve(): the search for a start order and its result
    main, gi, pi,    \* main thread; its place in the loops over groups and processes
    start,           \* startProcessWithUnlock(): its place and its process
    mon, exits, healths,  \* monitor: its place, processesToRestart, ...ToHealthRestart
    running, stopping,    \* running_, stopping_
    erased,          \* history: giving up a process has lowered stopping_
    sig,             \* flags the handler has set: g_shutdown, shutdownRequested_, stopping_
    state, restartCount, healthFailCount,   \* fields of ProcessInfo
    old,             \* more than restartWindow since lastStartTime
    pid,             \* pid = 0 ("none"), or the child it names is "alive" or "dead"
    orphans,         \* history: processes with a living child whose pid is forgotten
    launches,        \* history: starts since the restart budget was renewed, where there is one
    crashes          \* how many children have died by themselves

config == <<depends, conf, order>>
starter == <<start>>
monitor == <<mon, exits, healths>>
children == <<pid, orphans, launches, crashes>>
info == <<state, restartCount, healthFailCount, old>>
vars == <<config, main, gi, pi, starter, monitor, running, stopping, erased, sig, info, children>>

States == {"Stopped", "Starting", "Running", "Completed", "Failed", "Stopping", "Restarting"}

\* restartCount of a process with unlimited restarts is counted up to 1: only
\* the length of a delay depends on more.
Most(p) == IF conf[p].maxRestarts > 0 THEN conf[p].maxRestarts ELSE 1

TypeOK ==
    /\ conf \in [Processes -> Conf] /\ depends \in [Groups -> SUBSET Nat]
    /\ order \in [ok : BOOLEAN, visited : [Groups -> {"White", "Gray", "Black"}],
                  path : Seq(Groups), result : Seq(Groups)]
    /\ main \in {"startAll", "resolve", "starting", "calling", "startMonitoring", "poll", "shutdown",
                 "join", "stopAll", "stopping", "done"}
    /\ gi \in Nat /\ pi \in Nat
    /\ start \in [step : {"idle", "launch", "oneshot", "wait", "delay", "ok", "failed"},
                  p : Processes \cup {0}, free : BOOLEAN]
    /\ mon \in {"off", "loop", "handle", "giveup", "delay", "calling"}
    /\ exits \subseteq Processes /\ healths \subseteq Processes
    /\ running \in BOOLEAN /\ stopping \in BOOLEAN /\ erased \in BOOLEAN /\ sig \in 0 .. 3
    /\ state \in [Processes -> States]
    /\ restartCount \in [Processes -> Nat] /\ \A p \in Processes : restartCount[p] <= Most(p)
    /\ healthFailCount \in [Processes -> Nat]
    /\ old \in [Processes -> BOOLEAN]
    /\ pid \in [Processes -> {"none", "alive", "dead"}]
    /\ orphans \subseteq Processes /\ launches \in [Processes -> Nat]
    /\ crashes \in 0 .. Crashes

g_shutdown == sig >= 1
shutdownRequested == sig >= 2

\* The group of a process.
In(p, g) == \E k \in 1 .. Len(Members[g]) : Members[g][k] = p

Init ==
    /\ \E s \in Setups : depends = s.depends /\ conf = s.conf
    /\ order = Unresolved(Groups)
    /\ main = "startAll" /\ gi = 1 /\ pi = 1
    /\ start = [step |-> "idle", p |-> 0, free |-> FALSE]
    /\ mon = "off" /\ exits = {} /\ healths = {}
    /\ running = FALSE /\ stopping = FALSE /\ erased = FALSE /\ sig = 0
    /\ state = [p \in Processes |-> "Stopped"]
    /\ restartCount = [p \in Processes |-> 0]
    /\ healthFailCount = [p \in Processes |-> 0]
    /\ old = [p \in Processes |-> FALSE]
    /\ pid = [p \in Processes |-> "none"]
    /\ orphans = {} /\ launches = [p \in Processes |-> 0] /\ crashes = 0

-------------------------------------------------------------------------------
\* startProcessWithUnlock() and startOneshotWithUnlock()

\* The call begins; free says that the start is not charged to the budget.
Calls(p, free) == [step |-> "launch", p |-> p, free |-> free]

Returned == start.step \in {"ok", "failed"}

\* Poco::Process::launch(): a new child, whose pid replaces the old one.
Forks(p) ==
    /\ pid' = [pid EXCEPT ![p] = "alive"]
    /\ orphans' = IF pid[p] = "alive" THEN orphans \cup {p} ELSE orphans
    /\ launches' = [launches EXCEPT ![p] = IF start.free \/ conf[p].maxRestarts <= 0 THEN @ ELSE @ + 1]

Launch ==
    LET p == start.p IN
    /\ start.step = "launch"
    /\ old' = [old EXCEPT ![p] = FALSE]
    /\ \/ /\ Forks(p)
          /\ state' = [state EXCEPT ![p] = IF @ = "Restarting" THEN @ ELSE "Starting"]
          /\ start' = [start EXCEPT !.step = IF conf[p].oneshot THEN "oneshot" ELSE "wait"]
       \/ /\ conf[p].forkFails
          /\ state' = [state EXCEPT ![p] = "Failed"]
          /\ start' = [start EXCEPT !.step = "failed"]
          /\ UNCHANGED <<pid, orphans, launches>>
    /\ UNCHANGED <<config, main, gi, pi, monitor, running, stopping, erased, sig,
                   restartCount, healthFailCount, crashes>>

\* The oneshot ends by itself, or is killed when oneshotTimeout has passed.
OneshotEnds ==
    LET p == start.p IN
    /\ start.step = "oneshot"
    /\ pid' = [pid EXCEPT ![p] = "none"]
    /\ \E ok \in BOOLEAN :
          /\ state' = [state EXCEPT ![p] = IF ok THEN "Completed" ELSE "Failed"]
          /\ start' = [start EXCEPT !.step = IF ok THEN "ok" ELSE "failed"]
    /\ UNCHANGED <<config, main, gi, pi, monitor, running, stopping, erased, sig,
                   restartCount, healthFailCount, old, orphans, launches, crashes>>

\* waitForReady() succeeds, or there is no ready check.  The afterRun hook,
\* which is run without the mutex before the state is set, is left out.
Ready ==
    /\ start.step = "wait"
    /\ state' = [state EXCEPT ![start.p] = "Running"]
    /\ start' = [start EXCEPT !.step = "ok"]
    /\ UNCHANGED <<config, main, gi, pi, monitor, running, stopping, erased, sig,
                   restartCount, healthFailCount, old, children>>

\* Mutant: one attempt more than configured.
CanRestartOnceMore(p, count) == conf[p].maxRestarts = 0 \/ count <= conf[p].maxRestarts

\* Mutant: 0 is taken for a limit.
CanRestartLimited(p, count) == count < conf[p].maxRestarts

\* maxRestarts: -1 = no retry, 0 = infinite, > 0 = limited.
CanRestart(p, count) == conf[p].maxRestarts = 0 \/ count < conf[p].maxRestarts

\* One more attempt is charged.
Charged(p, count) == IF conf[p].maxRestarts = 0 THEN 1 ELSE count + 1

\* stopProcess() and stopProcessTree(): SIGTERM, then SIGKILL, and the pid is
\* forgotten.  The child is taken to be dead by then: one that outlives SIGKILL
\* by the kill timeout, or whose signal throws, is only logged, and its pid is
\* forgotten as well.
Killed(p) == [pid EXCEPT ![p] = "none"]

\* waitForReady() has timed out or was cancelled: the child is killed, and
\* there is another attempt if the budget allows one and nobody wants to stop.
NotReady ==
    LET p == start.p
        canRetry == conf[p].maxRestarts >= 0 /\ ~stopping /\ CanRestart(p, restartCount[p])
    IN
    /\ start.step = "wait" /\ conf[p].readyCheck
    /\ pid' = Killed(p)
    /\ restartCount' = IF canRetry THEN [restartCount EXCEPT ![p] = Charged(p, @)] ELSE restartCount
    /\ state' = [state EXCEPT ![p] = IF canRetry THEN "Restarting" ELSE "Failed"]
    /\ start' = [start EXCEPT !.step = IF canRetry THEN "delay" ELSE "failed", !.free = FALSE]
    /\ UNCHANGED <<config, main, gi, pi, monitor, running, stopping, erased, sig,
                   healthFailCount, old, orphans, launches, crashes>>

\* interruptibleSleep() before the next attempt.
RetryDelay ==
    /\ start.step = "delay"
    /\ state' = IF stopping THEN [state EXCEPT ![start.p] = "Failed"] ELSE state
    /\ start' = [start EXCEPT !.step = IF stopping THEN "failed" ELSE "launch"]
    /\ UNCHANGED <<config, main, gi, pi, monitor, running, stopping, erased, sig,
                   restartCount, healthFailCount, old, children>>

StartProcess == Launch \/ OneshotEnds \/ Ready \/ NotReady \/ RetryDelay

-------------------------------------------------------------------------------
\* The main thread

\* startAll() refuses to begin, or asks for the order of the groups.
StartAll ==
    /\ main = "startAll"
    /\ main' = IF stopping THEN "shutdown" ELSE "resolve"
    /\ UNCHANGED <<config, gi, pi, starter, monitor, running, stopping, erased, sig, info, children>>

\* resolve() throws, because of an unknown group or of one that is being
\* visited: startAll() returns false.
ResolveThrows ==
    /\ main = "resolve"
    /\ \/ ~AllKnown(depends)
       \/ \E g \in Groups : First(Pending(depends, order), g) /\ order.visited[g] = "Gray"
    /\ order' = Throw(order)
    /\ main' = "shutdown"
    /\ UNCHANGED <<depends, conf, gi, pi, starter, monitor, running, stopping, erased, sig, info, children>>

ResolveVisits ==
    /\ main = "resolve" /\ AllKnown(depends)
    /\ \E g \in Groups : /\ First(Pending(depends, order), g)
                         /\ order.visited[g] = "White"
                         /\ order' = Enter(order, g)
    /\ UNCHANGED <<depends, conf, main, gi, pi, starter, monitor, running, stopping, erased, sig, info,
                   children>>

\* A loop ends: dfs() returns, or resolve() itself.
ResolveReturns ==
    /\ main = "resolve" /\ AllKnown(depends)
    /\ Pending(depends, order) = {}
    /\ IF order.path # <<>>
          THEN order' = Return(order) /\ UNCHANGED main
          ELSE main' = "starting" /\ UNCHANGED order
    /\ UNCHANGED <<depends, conf, gi, pi, starter, monitor, running, stopping, erased, sig, info, children>>

ResolveGroups == ResolveThrows \/ ResolveVisits \/ ResolveReturns

\* Is there a group at gi, and a process at pi in it?
AtGroup == gi \in 1 .. Len(order.result)
AtProcess == AtGroup /\ pi \in 1 .. Len(Members[order.result[gi]])
Process == Members[order.result[gi]][pi]

\* The loops over groups and processes end.
StartsEnd ==
    /\ main = "starting"
    /\ stopping \/ ~AtGroup
    /\ main' = "startMonitoring"
    /\ UNCHANGED <<config, gi, pi, starter, monitor, running, stopping, erased, sig, info, children>>

\* The next group.
NextGroup ==
    /\ main = "starting" /\ ~stopping /\ AtGroup /\ ~AtProcess
    /\ gi' = gi + 1 /\ pi' = 1
    /\ UNCHANGED <<config, main, starter, monitor, running, stopping, erased, sig, info, children>>

\* The next process is started, or skipped.
NextProcess ==
    /\ main = "starting" /\ ~stopping /\ AtProcess
    /\ IF conf[Process].starts
          THEN main' = "calling" /\ start' = Calls(Process, FALSE) /\ pi' = pi
          ELSE pi' = pi + 1 /\ UNCHANGED <<main, start>>
    /\ UNCHANGED <<config, gi, monitor, running, stopping, erased, sig, info, children>>

\* A critical process that could not be started ends startAll().
Started ==
    /\ main = "calling" /\ Returned
    /\ start' = [start EXCEPT !.step = "idle"]
    /\ main' = IF start.step = "failed" /\ conf[start.p].critical THEN "shutdown" ELSE "starting"
    /\ pi' = pi + 1
    /\ UNCHANGED <<config, gi, monitor, running, stopping, erased, sig, info, children>>

StartMonitoring ==
    /\ main = "startMonitoring"
    /\ running' = TRUE /\ mon' = "loop" /\ main' = "poll"
    /\ UNCHANGED <<config, gi, pi, starter, exits, healths, stopping, erased, sig, info, children>>

anyCriticalFailed == \E p \in Processes : conf[p].critical /\ state[p] = "Failed"

\* The main loop ends: g_shutdown, or a critical process has failed.  The
\* mutex keeps anyCriticalFailed() out of the middle of a decision.
Poll ==
    /\ main = "poll"
    /\ g_shutdown \/ (mon # "giveup" /\ anyCriticalFailed)
    /\ main' = "shutdown"
    /\ UNCHANGED <<config, gi, pi, starter, monitor, running, stopping, erased, sig, info, children>>

\* Mutant: the monitor is not joined.
StopMonitoringAtOnce ==
    /\ main = "shutdown"
    /\ main' = "stopAll"
    /\ running' = FALSE
    /\ UNCHANGED <<config, gi, pi, starter, monitor, stopping, erased, sig, info, children>>


StopMonitoring ==
    /\ main = "shutdown"
    /\ main' = IF running THEN "join" ELSE "stopAll"
    /\ running' = FALSE
    /\ UNCHANGED <<config, gi, pi, starter, monitor, stopping, erased, sig, info, children>>

JoinMonitor ==
    /\ main = "join" /\ mon = "off"
    /\ main' = "stopAll"
    /\ UNCHANGED <<config, gi, pi, starter, monitor, running, stopping, erased, sig, info, children>>

\* Mutant: groups are stopped in the order they were started.
FirstToStop == 1
\* resolveReverse(): the last group comes first.
LastGroup == Len(order.result)

\* stopAll() and the first part of doStopAll(): everything with a pid is
\* going to be stopped, group by group.
StopAll ==
    /\ main = "stopAll"
    /\ stopping' = TRUE
    /\ state' = [p \in Processes |->
                    IF pid[p] # "none" /\ (\E k \in 1 .. Len(order.result) : In(p, order.result[k]))
                                       /\ state[p] # "Restarting"
                       THEN "Stopping" ELSE state[p]]
    /\ main' = "stopping" /\ gi' = LastGroup /\ pi' = 1
    /\ UNCHANGED <<config, starter, monitor, running, erased, sig, restartCount, healthFailCount, old,
                   children>>

\* The next process is stopped; one without a pid is not in the list.
StopNext ==
    /\ main = "stopping" /\ AtProcess
    /\ LET p == Process IN
          /\ pid' = Killed(p)
          /\ state' = [state EXCEPT ![p] = IF pid[p] = "none" \/ @ = "Restarting" THEN @ ELSE "Stopped"]
    /\ pi' = pi + 1
    /\ UNCHANGED <<config, main, gi, starter, monitor, running, stopping, erased, sig,
                   restartCount, healthFailCount, old, orphans, launches, crashes>>

StopNextGroup ==
    /\ main = "stopping" /\ AtGroup /\ ~AtProcess
    /\ gi' = gi - 1 /\ pi' = 1
    /\ UNCHANGED <<config, main, starter, monitor, running, stopping, erased, sig, info, children>>

\* The end of stopAll() and of main().
Exit ==
    /\ main = "stopping" /\ ~AtGroup
    /\ stopping' = shutdownRequested
    /\ main' = "done"
    /\ UNCHANGED <<config, gi, pi, starter, monitor, running, erased, sig, info, children>>

MainThread == \/ StartAll \/ ResolveGroups \/ StartsEnd \/ NextGroup \/ NextProcess \/ Started
              \/ StartMonitoring \/ Poll \/ StopMonitoring \/ JoinMonitor
              \/ StopAll \/ StopNext \/ StopNextGroup \/ Exit

-------------------------------------------------------------------------------
\* The monitor thread

Watched(p) == ~conf[p].oneshot /\ state[p] = "Running"

\* Children that have died.
Died == {p \in Processes : Watched(p) /\ pid[p] # "alive"}

\* A health check is made of living children only.
Checked == {p \in Processes : Watched(p) /\ p \notin Died /\ conf[p].healthFailThreshold > 0}

\* Failing for the healthFailThreshold-th time in a row.
Exceeds(p) == healthFailCount[p] + 1 >= conf[p].healthFailThreshold

\* One round: which children have died, which do not answer the health check.
Scan ==
    /\ mon = "loop" /\ running
    /\ exits' = Died
    /\ \E fail \in SUBSET Checked :
          /\ healths' = {p \in fail : Exceeds(p)}
          /\ healthFailCount' = [p \in Processes |->
                CASE p \notin Checked -> healthFailCount[p]
                  [] p \in fail /\ ~Exceeds(p) -> healthFailCount[p] + 1
                  [] OTHER -> 0]
    /\ mon' = "handle"
    /\ UNCHANGED <<config, main, gi, pi, starter, running, stopping, erased, sig,
                   state, restartCount, old, children>>

MonitorEnds ==
    /\ mon = "loop" /\ ~running
    /\ mon' = "off"
    /\ UNCHANGED <<config, main, gi, pi, starter, exits, healths, running, stopping, erased, sig, info,
                   children>>

\* The attempts already charged when a child dies: none if it has lived
\* longer than restartWindow.
Count(p) == IF old[p] THEN 0 ELSE restartCount[p]

\* handleProcessExitByName(), under the lock: nothing is done for it any
\* more, it is given up, or it will be restarted.
HandleExit ==
    /\ mon = "handle"
    /\ \E p \in exits :
          /\ First(exits, p)
          /\ exits' = exits \ {p}
          /\ LET looks == ~stopping /\ conf[p].maxRestarts >= 0
                 again == looks /\ CanRestart(p, Count(p))
             IN  /\ mon' = IF stopping THEN "handle" ELSE IF again THEN "delay" ELSE "giveup"
                 /\ state' = [state EXCEPT ![p] = IF again THEN "Restarting" ELSE "Failed"]
                 /\ restartCount' = [restartCount EXCEPT ![p] =
                       IF again THEN Charged(p, Count(p)) ELSE IF looks THEN Count(p) ELSE @]
                 /\ launches' = [launches EXCEPT ![p] = IF looks /\ old[p] THEN 0 ELSE @]
                 /\ start' = [start EXCEPT !.p = p]
    /\ UNCHANGED <<config, main, gi, pi, healths, running, stopping, erased, sig,
                   healthFailCount, old, pid, orphans, crashes>>

\* A critical process that is given up stops the launcher.  The store comes
\* after the test of stopping_ and overwrites what the signal handler has
\* stored in between.
GiveUp ==
    /\ mon = "giveup"
    /\ stopping' = conf[start.p].critical
    /\ erased' = (erased \/ (stopping /\ ~stopping'))
    /\ mon' = "handle"
    /\ UNCHANGED <<config, main, gi, pi, starter, exits, healths, running, sig, info, children>>

\* interruptibleSleep() before the restart; the process is left as it is if
\* the launcher is stopping.
RestartDelay ==
    /\ mon = "delay"
    /\ mon' = IF stopping THEN "handle" ELSE "calling"
    /\ start' = IF stopping THEN start ELSE Calls(start.p, FALSE)
    /\ UNCHANGED <<config, main, gi, pi, exits, healths, running, stopping, erased, sig, info, children>>

\* A process that does not answer is stopped and started.
HealthRestart ==
    /\ mon = "handle" /\ exits = {}
    /\ \E p \in healths :
          /\ First(healths, p)
          /\ healths' = healths \ {p}
          /\ pid' = Killed(p)
          /\ state' = [state EXCEPT ![p] = "Restarting"]
          /\ start' = Calls(p, TRUE)
    /\ mon' = "calling"
    /\ UNCHANGED <<config, main, gi, pi, exits, running, stopping, erased, sig,
                   restartCount, healthFailCount, old, orphans, launches, crashes>>

Restarted ==
    /\ mon = "calling" /\ Returned
    /\ start' = [start EXCEPT !.step = "idle"]
    /\ mon' = "handle"
    /\ UNCHANGED <<config, main, gi, pi, exits, healths, running, stopping, erased, sig, info, children>>

\* interruptibleSleep() between two rounds; stopping_ ends the thread.
MonitorSleeps ==
    /\ mon = "handle" /\ exits = {} /\ healths = {}
    /\ mon' = IF stopping THEN "off" ELSE "loop"
    /\ UNCHANGED <<config, main, gi, pi, starter, exits, healths, running, stopping, erased, sig, info,
                   children>>

MonitorThread == \/ Scan \/ MonitorEnds \/ HandleExit \/ GiveUp \/ RestartDelay
                 \/ HealthRestart \/ Restarted \/ MonitorSleeps

-------------------------------------------------------------------------------
\* Signals, children and time

\* SIGTERM: the handler sets g_shutdown, shutdownRequested_ and stopping_,
\* in this order.
Signal ==
    /\ main # "done" /\ sig < 3
    /\ sig' = sig + 1
    /\ stopping' = (stopping \/ sig = 2)
    /\ UNCHANGED <<config, main, gi, pi, starter, monitor, running, erased, info, children>>

\* A daemon dies by itself.
Crash(p) ==
    /\ pid[p] = "alive" /\ ~conf[p].oneshot /\ crashes < Crashes
    /\ pid' = [pid EXCEPT ![p] = "dead"]
    /\ crashes' = crashes + 1
    /\ UNCHANGED <<config, main, gi, pi, starter, monitor, running, stopping, erased, sig, info,
                   orphans, launches>>

\* restartWindow has passed since the last start (told apart only where there
\* is a limit).
WindowPasses(p) ==
    /\ state[p] = "Running" /\ ~old[p] /\ conf[p].maxRestarts > 0
    /\ old' = [old EXCEPT ![p] = TRUE]
    /\ UNCHANGED <<config, main, gi, pi, starter, monitor, running, stopping, erased, sig,
                   state, restartCount, healthFailCount, children>>

Next == \/ StartProcess \/ MainThread \/ MonitorThread
        \/ Signal
        \/ \E p \in Processes : Crash(p) \/ WindowPasses(p)

Spec == Init /\ [][Next]_vars

\* Threads run, waits have an end, and a signal that has come is handled to
\* its end.  Nothing makes a process ready.
Fairness == /\ WF_vars(MainThread) /\ WF_vars(MonitorThread) /\ WF_vars(StartProcess)
            /\ WF_vars(sig > 0 /\ Signal)

FairSpec == Spec /\ Fairness

-------------------------------------------------------------------------------
\* Properties

\* No child is ever forgotten while it lives: every start, retry, restart
\* and health restart replaces only a pid whose process is dead, and when
\* the launcher is gone, so are all its children, provided that SIGKILL ends a
\* child within the kill timeout (see Killed).
NoOrphans ==
    /\ orphans = {}
    /\ main = "done" => \A p \in Processes : pid[p] # "alive"

\* A process with a limit is not started more than maxRestarts times after
\* its first start, failed ready checks and deaths taken together, until it
\* has lived longer than restartWindow (starts after failed health checks are
\* free).
RestartBudget ==
    \A p \in Processes : conf[p].maxRestarts > 0 => launches[p] <= conf[p].maxRestarts + 1

\* The groups that group g needs, directly or not: the smallest set that
\* holds its dependencies and theirs.
Needs(g) ==
    {h \in Groups : \A S \in SUBSET Groups :
        depends[g] \subseteq S /\ (\A k \in S : depends[k] \subseteq S) => h \in S}

\* q belongs to a group that the group of p needs.
NeedsProcess(p, q) == \E g \in Groups : In(p, g) /\ \E h \in Needs(g) : In(q, h)

\* startAll() starts a process only when every critical process of the groups
\* it needs has been found ready, whatever order the names have, and nothing
\* at all if the dependencies contain a cycle or an unknown group; unless it
\* is told to stop, it ends with all critical processes ready or with a failure.
StartOrder ==
    /\ main = "calling" /\ start.step = "launch" =>
          \A q \in Processes :
             NeedsProcess(start.p, q) /\ conf[q].critical /\ conf[q].starts =>
                 q # start.p /\ state[q] \in {"Running", "Completed"}
    /\ main = "startMonitoring" /\ ~stopping =>
          \A q \in Processes :
             (\E g \in Groups : In(q, g)) /\ conf[q].critical /\ conf[q].starts =>
                 state[q] \in {"Running", "Completed"}

\* stopAll() takes a living process away from nobody: when a process is
\* stopped, the processes that need it are not alive any more.
StopOrder ==
    [][main = "stopping" =>
         \A p, q \in Processes :
            NeedsProcess(q, p) /\ pid[p] = "alive" /\ pid'[p] = "none" => pid[q] # "alive"]_vars

\* The monitor is starting a process that has a ready check and may be retried
\* for ever, and giving up another one has erased a request to stop.
StopForgotten ==
    /\ erased /\ mon = "calling"
    /\ conf[start.p].maxRestarts = 0 /\ conf[start.p].readyCheck


\* A daemon with unlimited restarts that has died runs again, unless the
\* launcher is told to stop or a critical process has failed, provided that
\* ready checks made again and again succeed at last: the one monitor thread
\* does not leave a process before it is ready.
ComesBack ==
    SF_vars(Ready) => \A p \in Processes :
        (Watched(p) /\ pid[p] = "dead" /\ conf[p].maxRestarts = 0 /\ ~conf[p].forkFails)
            ~> (state[p] = "Running" /\ pid[p] = "alive") \/ sig > 0 \/ anyCriticalFailed

===============================================================================
