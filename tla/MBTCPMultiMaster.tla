--------------------------- MODULE MBTCPMultiMaster ---------------------------
(***************************************************************************)
(* The Modbus master that reaches one slave through several TCP gates      *)
(* (extensions/ModbusMaster/MBTCPMultiMaster.cc and poll() of              *)
(* MBExchange.cc).  Two threads share the list of gates: the poll thread   *)
(* exchanges through the gate it has chosen and chooses another one when   *)
(* no reply comes for the channel timeout; the check thread looks every    *)
(* checktime whether the gates that are not used accept a connection and   *)
(* keeps each gate's respond flag and respond sensor.  The two meet in the *)
(* fields of MBSlaveInfo and in its mutex mutInit.                         *)
(*                                                                         *)
(* Time is counted in channel timeouts: a Tick lets the channel timeout    *)
(* and the off-delays that run pass, and takes one from the ignore         *)
(* timeouts.                                                               *)
(***************************************************************************)
EXTENDS Integers, DelayTimer

CONSTANTS NGates,       \* length of mblist; gate NGates has the top priority
          IgnoreTicks,  \* ptIgnoreTimeout, in channel timeouts
          MaxChanges    \* bound: how often a link changes

ASSUME GatesAssumption == /\ NGates \in Nat \ {0}
                          /\ IgnoreTicks \in Nat /\ MaxChanges \in Nat

Gates == 1 .. NGates
None == 0               \* mblist.rend(), a null mb

VARIABLES
    link,        \* what the network does with a gate: "down", "connects"
                 \* (it accepts a connection and never replies) or "ok"
    changes,     \* how often the links have changed
    checktime,   \* > 0: the check thread runs
    respond, use, ignore, respond_init, initOK,   \* fields of MBSlaveInfo
    ignoring,    \* ptIgnoreTimeout: channel timeouts left
    respondDelay,\* the off-delay of the respond sensor
    sensor,      \* the gate's respond sensor in SharedMemory
    owner,       \* who holds mutInit: "none", "poll" or "check"
    mbi, mb,     \* the current gate and the client the poll thread asks
    quiet,       \* trReopen and ptReopen: "no", "waiting" or "due"
    ppc, pass, at, reopen,  \* poll thread: where it is in poll() and initMB()
    cpc, cur, r, timer      \* check thread: where it is, gate, local values

net   == <<link, changes, checktime>>
gates == <<respond, use, ignore, respond_init, initOK, ignoring, owner>>
poller == <<mbi, mb, quiet, ppc, pass, at, reopen>>
checker == <<respondDelay, sensor, cpc, cur, r, timer>>
vars == <<net, gates, poller, checker>>

Links == {"down", "connects", "ok"}

TypeOK ==
    /\ link \in [Gates -> Links] /\ changes \in 0 .. MaxChanges
    /\ checktime \in BOOLEAN
    /\ respond \in [Gates -> BOOLEAN] /\ use \in [Gates -> BOOLEAN]
    /\ ignore \in [Gates -> BOOLEAN] /\ respond_init \in [Gates -> BOOLEAN]
    /\ initOK \in [Gates -> BOOLEAN] /\ ignoring \in [Gates -> 0 .. IgnoreTicks]
    /\ respondDelay \in [Gates -> DelayTimers] /\ sensor \in [Gates -> BOOLEAN]
    /\ owner \in [Gates -> {"none", "poll", "check"}]
    /\ mbi \in Gates \cup {None} /\ mb \in Gates \cup {None}
    /\ quiet \in {"no", "waiting", "due"}
    /\ ppc \in {"poll", "judge", "check", "query", "unuse", "drop", "scan",
                "init", "connect", "take", "dead"}
    /\ pass \in 0 .. 2 /\ at \in Gates /\ reopen \in BOOLEAN
    /\ cpc \in {"start", "store", "query", "torn", "publish", "dead"} /\ cur \in Gates
    /\ r \in BOOLEAN /\ timer \in BOOLEAN

-------------------------------------------------------------------------------
\* MBSlaveInfo

\* A gate accepts a connection.
Connects(c) == link[c] # "down"

\* check() of a gate that is not used: a connection is opened and closed.
Answers(c) == Connects(c)

\* The mistake of setting the flag without the mutex.
setUseUnlocked(c, st) ==
    /\ respond_init' = [respond_init EXCEPT ![c] = ~(st /\ ~use[c])]
    /\ use' = [use EXCEPT ![c] = st]

\* setUse(st), run under mutInit.  respond_init is lowered when a gate comes
\* into use, so that the check thread publishes its state at once.
CanLock(c) == owner[c] = "none"
setUse(c, st) ==
    /\ CanLock(c)
    /\ respond_init' = [respond_init EXCEPT ![c] = ~(st /\ ~use[c])]
    /\ use' = [use EXCEPT ![c] = st]

\* initGateList(): the gates in the order of priority, the last one current
\* and in use, every ignore timeout running.
Init ==
    /\ link \in [Gates -> Links] /\ changes = 0 /\ checktime \in BOOLEAN
    /\ respond = [c \in Gates |-> FALSE] /\ ignore = [c \in Gates |-> FALSE]
    /\ use = [c \in Gates |-> c = NGates]
    /\ respond_init = [c \in Gates |-> FALSE]
    /\ initOK = [c \in Gates |-> FALSE]
    /\ ignoring = [c \in Gates |-> IgnoreTicks]
    /\ respondDelay = [c \in Gates |-> DelayReset]
    /\ sensor = [c \in Gates |-> FALSE]
    /\ owner = [c \in Gates |-> "none"]
    /\ mbi = NGates /\ mb = None /\ quiet = "no"
    /\ ppc = "poll" /\ pass = 0 /\ at = NGates /\ reopen = FALSE
    /\ cpc = "start" /\ cur = 1 /\ r = FALSE /\ timer = FALSE

-------------------------------------------------------------------------------
\* The poll thread: poll() and the start of initMB()

\* Every register is asked for; one reply is enough.  The first poll without
\* a reply starts ptReopen (trReopen.hi).
Poll ==
    /\ ppc = "poll" /\ mb # None
    /\ link[mb] = "ok" \/ quiet # "due"
    /\ quiet' = (IF link[mb] = "ok" THEN "no" ELSE "waiting")
    /\ UNCHANGED <<net, gates, checker, mbi, mb, ppc, pass, at, reopen>>

\* initMB() returns: its local variables are gone.
Return == ppc' = "poll" /\ pass' = 0 /\ at' = NGates /\ reopen' = FALSE

\* setTiming() of ptReopen when a gate is selected
Restarted == IF quiet = "due" THEN "waiting" ELSE quiet

\* checktime <= 0: the next gate in the order of priority, whatever it does.
RoundRobin ==
    /\ LET c == IF mbi = 1 THEN NGates ELSE mbi - 1 IN
         /\ setUse(c, TRUE)
         /\ initOK' = [initOK EXCEPT ![c] = TRUE]
         /\ mbi' = c /\ mb' = c
    /\ quiet' = Restarted /\ Return
    /\ UNCHANGED <<respond, ignore, ignoring, owner>>

\* The mistake of not ignoring the gate that does not reply.
RenewForgiving(again) ==
    /\ ignore' = [c \in Gates |-> ignoring[c] > 0]
    /\ IF again /\ mbi # None
          THEN setUse(mbi, FALSE) ELSE UNCHANGED <<use, respond_init>>
    /\ reopen' = again /\ ppc' = "judge" /\ quiet' = Restarted
    /\ UNCHANGED <<respond, initOK, ignoring, owner, mbi, mb, pass, at>>

\* checktime > 0: the ignore flags are renewed; after a reopen the current
\* gate is given up and ignored for the ignore timeout.
RenewIgnore(again) ==
    /\ LET old == again /\ mbi # None IN
         /\ ignore' = [c \in Gates |-> ignoring[c] > 0 \/ (old /\ c = mbi)]
         /\ ignoring' = [c \in Gates |->
                           IF old /\ c = mbi THEN IgnoreTicks ELSE ignoring[c]]
         /\ IF old THEN setUse(mbi, FALSE) ELSE UNCHANGED <<use, respond_init>>
    /\ reopen' = again /\ ppc' = "judge" /\ quiet' = Restarted
    /\ UNCHANGED <<respond, initOK, owner, mbi, mb, pass, at>>

\* if( !mb ) mb = initMB(false)
PollInits ==
    /\ ppc = "poll" /\ mb = None
    /\ IF checktime THEN RenewIgnore(FALSE) ELSE RoundRobin
    /\ UNCHANGED <<net, checker>>

\* A poll without a reply that finds ptReopen expired: mb = initMB(true)
PollReopens ==
    /\ ppc = "poll" /\ mb # None
    /\ link[mb] # "ok" /\ quiet = "due"
    /\ IF checktime THEN RenewIgnore(TRUE) ELSE RoundRobin
    /\ UNCHANGED <<net, checker>>

-------------------------------------------------------------------------------
\* The poll thread: the choice of a gate in initMB()

\* Pass 0 looks at the current gate, pass 1 at the gates that respond and are
\* not ignored, pass 2 at all that respond, both from the top priority down.
Judge ==
    /\ ppc = "judge"
    /\ IF mbi # None /\ ~ignore[mbi] /\ respond[mbi]
          THEN ppc' = "check" /\ pass' = 0 /\ at' = mbi
          ELSE /\ ppc' = (IF mbi = None THEN "scan" ELSE "drop")
               /\ pass' = 1 /\ at' = NGates
    /\ UNCHANGED <<net, gates, checker, mbi, mb, quiet, reopen>>

\* The mistake of running past the end of the list.
NextGatePast ==
    IF at >= 1 THEN ppc' = "scan" /\ at' = at - 1 /\ UNCHANGED <<pass, mbi, mb, reopen>>
               ELSE mbi' = None /\ mb' = None /\ Return

\* The loop goes on after gate "at"; at the end of the second loop there is
\* no channel.
NextGate ==
    CASE at > 1 -> /\ ppc' = "scan" /\ at' = at - 1
                   /\ UNCHANGED <<pass, mbi, mb, reopen>>
      [] at = 1 /\ pass = 1 -> /\ ppc' = "scan" /\ pass' = 2 /\ at' = NGates
                               /\ UNCHANGED <<mbi, mb, reopen>>
      [] OTHER -> mbi' = None /\ mb' = None /\ Return

Scan ==
    /\ ppc = "scan"
    /\ IF respond[at] /\ (pass = 1 => ~ignore[at])
          THEN /\ ppc' = (IF pass = 1 THEN "init" ELSE "check")
               /\ UNCHANGED <<pass, at, mbi, mb, reopen>>
          ELSE NextGate
    /\ UNCHANGED <<net, gates, checker, quiet>>

\* What follows a check() that returned ok: in pass 0 the gate's respond flag
\* takes the result, and a connection that is still open is kept as it is.
Checked(ok) ==
    /\ respond' = (IF pass = 0 THEN [respond EXCEPT ![at] = ok] ELSE respond)
    /\ IF ok
          THEN /\ ppc' \in (IF pass = 0 THEN {"init", "take"} ELSE {"init"})
               /\ UNCHANGED <<pass, at, mbi, mb, reopen>>
          ELSE IF pass = 0
                  THEN ppc' = "unuse" /\ UNCHANGED <<pass, at, mbi, mb, reopen>>
                  ELSE NextGate

\* check(): when the mutex is taken, or the gate is in use, the answer is the
\* use flag; else the gate is asked under the mutex.
CheckUsed ==
    /\ ppc = "check" /\ (use[at] \/ owner[at] # "none")
    /\ Checked(use[at])
    /\ UNCHANGED <<net, use, ignore, respond_init, initOK, ignoring,
                   owner, quiet, checker>>

CheckLocks ==
    /\ ppc = "check" /\ ~use[at] /\ owner[at] = "none"
    /\ owner' = [owner EXCEPT ![at] = "poll"] /\ ppc' = "query"
    /\ UNCHANGED <<net, respond, use, ignore, respond_init, initOK,
                   ignoring, mbi, mb, quiet, pass, at, reopen, checker>>

CheckEnds ==
    /\ ppc = "query"
    /\ owner' = [owner EXCEPT ![at] = "none"]
    /\ Checked(Answers(at))
    /\ UNCHANGED <<net, use, ignore, respond_init, initOK, ignoring,
                   quiet, checker>>

\* The current gate no longer answers: setUse(false).
Unuse ==
    /\ ppc = "unuse" /\ setUse(at, FALSE)
    /\ ppc' = "drop" /\ pass' = 1 /\ at' = NGates
    /\ UNCHANGED <<net, respond, ignore, initOK, ignoring, owner, mbi,
                   mb, quiet, reopen, checker>>

\* (*mbi)->mbtcp->forceDisconnect(), made without mutInit: setUse(false) may
\* have let the check thread into the client that loses its stream here.
Disconnect ==
    /\ ppc = "drop" /\ ppc' = "scan"
    /\ cpc' = (IF cpc = "query" /\ cur = mbi THEN "torn" ELSE cpc)
    /\ UNCHANGED <<net, gates, respondDelay, sensor, cur, r, timer,
                   mbi, mb, quiet, pass, at, reopen>>

\* init(): connect under the mutex.  The first call returns true whatever
\* came of the connection.
InitLocks ==
    /\ ppc = "init" /\ owner[at] = "none"
    /\ owner' = [owner EXCEPT ![at] = "poll"] /\ ppc' = "connect"
    /\ UNCHANGED <<net, respond, use, ignore, respond_init, initOK,
                   ignoring, mbi, mb, quiet, pass, at, reopen, checker>>

InitEnds ==
    /\ ppc = "connect"
    /\ owner' = [owner EXCEPT ![at] = "none"]
    /\ initOK' = [initOK EXCEPT ![at] = TRUE]
    /\ IF ~initOK[at] \/ Connects(at)
          THEN ppc' = "take" /\ UNCHANGED <<pass, at, mbi, mb, reopen>>
          ELSE IF pass = 0
                  THEN ppc' = "unuse" /\ UNCHANGED <<pass, at, mbi, mb, reopen>>
                  ELSE NextGate
    /\ UNCHANGED <<net, respond, use, ignore, respond_init, ignoring,
                   quiet, checker>>

\* SELECT CHANNEL
Take ==
    /\ ppc = "take" /\ setUse(at, TRUE)
    /\ ignore' = (IF pass = 2 THEN [ignore EXCEPT ![at] = FALSE] ELSE ignore)
    /\ mbi' = at /\ mb' = at /\ quiet' = Restarted /\ Return
    /\ UNCHANGED <<net, respond, initOK, ignoring, owner, checker>>

PollThread ==
    \/ Poll \/ PollInits \/ PollReopens \/ Judge \/ Scan
    \/ CheckUsed \/ CheckLocks \/ CheckEnds \/ Unuse \/ Disconnect
    \/ InitLocks \/ InitEnds \/ Take

-------------------------------------------------------------------------------
\* The check thread: check_thread()

\* ignore = !ptIgnoreTimeout.checkTime(): read the timer ...
ReadTimer ==
    /\ checktime /\ cpc = "start"
    /\ timer' = (ignoring[cur] > 0) /\ cpc' = "store"
    /\ UNCHANGED <<net, gates, poller, respondDelay, sensor, cur, r>>

\* ... and store the flag.  A gate in use, or whose mutex is taken, is not
\* asked; its use flag is the answer.
StoreIgnore ==
    /\ cpc = "store"
    /\ ignore' = [ignore EXCEPT ![cur] = timer] /\ timer' = FALSE
    /\ IF use[cur] \/ owner[cur] # "none"
          THEN r' = use[cur] /\ cpc' = "publish" /\ UNCHANGED owner
          ELSE /\ cpc' = "query" /\ owner' = [owner EXCEPT ![cur] = "check"]
               /\ UNCHANGED r
    /\ UNCHANGED <<net, respond, use, respond_init, initOK, ignoring,
                   poller, respondDelay, sensor, cur>>

Query ==
    /\ cpc = "query"
    /\ r' = Answers(cur) /\ cpc' = "publish"
    /\ owner' = [owner EXCEPT ![cur] = "none"]
    /\ UNCHANGED <<net, respond, use, ignore, respond_init, initOK,
                   ignoring, poller, respondDelay, sensor, cur, timer>>

\* The stream of the client was taken away in the middle of check(), a data
\* race on a pointer: the query goes on over a new connection, fails ...
QueryTorn ==
    /\ cpc = "torn"
    /\ r' \in BOOLEAN /\ cpc' = "publish"
    /\ owner' = [owner EXCEPT ![cur] = "none"]
    /\ UNCHANGED <<net, respond, use, ignore, respond_init, initOK,
                   ignoring, poller, respondDelay, sensor, cur, timer>>

\* ... or goes through the null pointer, which ends the process.
QueryCrash ==
    /\ cpc = "torn" /\ cpc' = "dead"
    /\ ppc' = "dead" /\ pass' = 0 /\ at' = NGates /\ reopen' = FALSE
    /\ UNCHANGED <<net, gates, mbi, mb, quiet,
                   respondDelay, sensor, cur, r, timer>>

\* The off-delay, then the sensor when the state is new or the gate has just
\* come into use, then the flag.  The code raises respond_init under mutInit;
\* as nobody who holds the mutex for long reads what is written here, waiting
\* for it makes no difference.
Delayed == [st \in BOOLEAN |-> ~st]
Publish ==
    /\ cpc = "publish"
    /\ LET d == IF respond_init[cur] THEN DelayCheck(respondDelay[cur], r, Delayed)
                                     ELSE respondDelay[cur]
           st == IF respond_init[cur] THEN d.state ELSE r
           set == ~respond_init[cur] \/ st # respond[cur]
       IN /\ respondDelay' = [respondDelay EXCEPT ![cur] = d]
          /\ sensor' = [sensor EXCEPT ![cur] = IF set THEN st ELSE @]
          /\ respond_init' = [respond_init EXCEPT ![cur] = @ \/ set]
          /\ respond' = [respond EXCEPT ![cur] = st]
    /\ cur' = (cur % NGates) + 1 /\ cpc' = "start" /\ r' = FALSE
    /\ UNCHANGED <<net, use, ignore, initOK, ignoring, owner, poller,
                   timer>>

CheckThread ==
    ReadTimer \/ StoreIgnore \/ Query \/ QueryTorn \/ QueryCrash \/ Publish

-------------------------------------------------------------------------------
\* The environment

\* A gate or the network to it fails, comes back, or hangs.
LinkChanges(c) ==
    /\ changes < MaxChanges /\ changes' = changes + 1
    /\ \E l \in Links \ {link[c]} : link' = [link EXCEPT ![c] = l]
    /\ UNCHANGED <<checktime, gates, poller, checker>>

\* A channel timeout passes.  Choosing a gate after a reopen takes less.
Tick ==
    /\ ppc = "poll" \/ ~reopen
    /\ quiet' = (IF quiet = "waiting" THEN "due" ELSE quiet)
    /\ ignoring' = [c \in Gates |-> IF ignoring[c] > 0 THEN ignoring[c] - 1 ELSE 0]
    /\ respondDelay' = [c \in Gates |-> DelayPasses(respondDelay[c])]
    /\ UNCHANGED <<net, respond, use, ignore, respond_init, initOK,
                   owner, mbi, mb, ppc, pass, at, reopen, sensor, cpc, cur, r,
                   timer>>

Next == PollThread \/ CheckThread \/ Tick \/ \E c \in Gates : LinkChanges(c)

Spec == Init /\ [][Next]_vars

\* Both threads run in loops and time passes.  The check thread sleeps between
\* its rounds, so it neither takes mutInit whenever the poll thread wants it
\* nor stands between the halves of its ignore update at every single reopen.
Fairness ==
    /\ SF_vars(PollThread) /\ WF_vars(CheckThread) /\ WF_vars(Tick)
    /\ SF_vars(PollReopens /\ cpc # "store")

FairSpec == Spec /\ Fairness

-------------------------------------------------------------------------------
\* The two threads never exchange through one ModbusTCPMaster at a time: the
\* poll thread polls a gate, checks it or connects it only while the check
\* thread is not inside check() of that gate.  mutInit excludes check(), init()
\* and setUse() from each other; "use" keeps check() away once setUse() has
\* returned.  forceDisconnect() of initMB() is the one use of a client that is
\* not covered: nothing keeps it out of a check (Disconnect).
ExchangeExclusive ==
    cpc \in {"query", "torn"} =>
        /\ ppc = "poll" => mb # cur
        /\ ppc \in {"query", "connect"} => at # cur

\* Once the links have stopped changing and some gate replies, replies come
\* again and again: whatever the other gates do, the poll thread finds it,
\* unless forceDisconnect() has ended the process (QueryCrash).
Recovers ==
    []<>(\/ ppc = "dead"
         \/ (\E c \in Gates : link[c] = "ok") => mb # None /\ link[mb] = "ok")

\* "происходит периодическая проверка связи по всем "пассивным"(резервным) в
\* данный момент каналам": a gate that is down for good and that the poll
\* thread does not exchange through is reported as not responding.
PassiveGateReported ==
    \A c \in Gates :
        <>[](link[c] = "down" /\ mb \notin {c, None} /\ ppc # "dead") => <>[](~sensor[c])

===============================================================================
