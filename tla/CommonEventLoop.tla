--------------------------- MODULE CommonEventLoop ---------------------------
(***************************************************************************)
(* One libev loop for many watchers (src/Processes/CommonEventLoop.cc).    *)
(* The first async_evrun() starts the loop's thread, the evstop() of the   *)
(* last watcher ends it.  A watcher must be prepared inside the loop's     *)
(* thread: async_evrun() leaves it in wprep, wakes the loop and waits.     *)
(* Every watcher is started and stopped by a thread of its own, so calls   *)
(* of async_evrun() for different watchers may overlap.                    *)
(***************************************************************************)
EXTENDS Naturals, FiniteSets

CONSTANTS Watchers,
          None,       \* a null pointer
          MaxRuns     \* bound: calls of async_evrun()

ASSUME LoopAssumption ==
    /\ IsFiniteSet(Watchers) /\ None \notin Watchers
    /\ MaxRuns \in Nat

VARIABLES
    pc,         \* where a watcher's thread is in async_evrun() or evstop()
    added,      \* what its last async_evrun() returned, until evstop()
    prepared,   \* watchers prepared in the loop: evprepare() without evfinish()
    wlist, wprep, prep_notify, cancelled, isrunning,
    thr,        \* the thread object: "none" or "some"
    wlocked,    \* wlist_mutex is held by an evstop() that joins
    tlocked,    \* thr_mutex is held by a call that waits for the loop
    lpc,        \* the loop's thread: "off", "start", "while", "run"
    term, prep, \* evterm and evprep have been sent and not handled
    handling,   \* onPrepare() has left its mutex and not yet notified
    runs,
    met         \* history: watchers whose last async_evrun() overlapped another

calls == <<pc, added, runs, met>>
loop  == <<lpc, term, prep, handling>>
vars == <<calls, prepared, wlist, wprep, prep_notify, cancelled, isrunning, thr,
          wlocked, tlocked, loop>>

TypeOK ==
    /\ pc \in [Watchers -> {"idle", "loop", "started", "activate", "wait", "send", "join"}]
    /\ added \in [Watchers -> BOOLEAN] /\ runs \in 0 .. MaxRuns /\ met \subseteq Watchers
    /\ prepared \subseteq Watchers /\ wlist \subseteq Watchers
    /\ wprep \in Watchers \cup {None}
    /\ prep_notify \in BOOLEAN /\ cancelled \in BOOLEAN /\ isrunning \in BOOLEAN
    /\ thr \in {"none", "some"} /\ wlocked \in BOOLEAN /\ tlocked \in BOOLEAN
    /\ lpc \in {"off", "start", "while", "run"}
    /\ term \in BOOLEAN /\ prep \in BOOLEAN /\ handling \in BOOLEAN

Init ==
    /\ pc = [w \in Watchers |-> "idle"] /\ added = [w \in Watchers |-> FALSE]
    /\ runs = 0 /\ met = {} /\ prepared = {} /\ wlist = {} /\ wprep = None
    /\ prep_notify = FALSE /\ cancelled = FALSE /\ isrunning = FALSE
    /\ thr = "none" /\ wlocked = FALSE /\ tlocked = FALSE
    /\ lpc = "off" /\ term = FALSE /\ prep = FALSE /\ handling = FALSE

Goto(w, p) == pc' = [pc EXCEPT ![w] = p]

-------------------------------------------------------------------------------
\* async_evrun()

\* Inside async_evrun()
Calling == {"loop", "started", "activate", "wait"}

\* The watcher is put on the list.
async_evrun(w) ==
    /\ pc[w] = "idle" /\ w \notin wlist /\ ~wlocked
    /\ runs < MaxRuns /\ runs' = runs + 1
    /\ LET others == {v \in Watchers : pc[v] \in Calling} IN
          met' = (IF others = {} THEN met \ {w} ELSE met \cup others \cup {w})
    /\ wlist' = wlist \cup {w} /\ Goto(w, "loop")
    /\ UNCHANGED <<added, prepared, wprep, prep_notify, cancelled, isrunning, thr,
                   wlocked, tlocked, loop>>

\* runDefaultLoop(): a thread that is there is taken to be the loop; else one
\* is created and waited for, with thr_mutex held.
LoopThere(w) ==
    /\ pc[w] = "loop" /\ ~tlocked /\ thr = "some"
    /\ Goto(w, "activate")
    /\ UNCHANGED <<added, runs, met, prepared, wlist, wprep, prep_notify, cancelled,
                   isrunning, thr, wlocked, tlocked, loop>>

LoopStarts(w) ==
    /\ pc[w] = "loop" /\ ~tlocked /\ thr = "none"
    /\ thr' = "some" /\ lpc' = "start" /\ tlocked' = TRUE /\ Goto(w, "started")
    /\ UNCHANGED <<added, runs, met, prepared, wlist, wprep, prep_notify, cancelled,
                   isrunning, wlocked, term, prep, handling>>

LoopRunning(w) ==
    /\ pc[w] = "started" /\ isrunning
    /\ tlocked' = FALSE /\ Goto(w, "activate")
    /\ UNCHANGED <<added, runs, met, prepared, wlist, wprep, prep_notify, cancelled,
                   isrunning, thr, wlocked, loop>>

LoopTimeout(w) ==
    /\ pc[w] = "started" /\ ~isrunning
    /\ tlocked' = FALSE /\ Goto(w, "idle")
    /\ UNCHANGED <<added, runs, met, prepared, wlist, wprep, prep_notify, cancelled,
                   isrunning, thr, wlocked, loop>>

\* activateWatcher(): under prep_mutex up to the wait, which gives it up.
activateWatcher(w) ==
    /\ pc[w] = "activate"
    /\ wprep' = w /\ prep_notify' = FALSE /\ prep' = TRUE /\ Goto(w, "wait")
    /\ UNCHANGED <<added, runs, met, prepared, wlist, cancelled, isrunning, thr,
                   wlocked, tlocked, lpc, term, handling>>

\* The wait ends, told by the loop or by its timeout: the watcher counts as
\* prepared when wprep is null.
Activated(w) ==
    /\ pc[w] = "wait"
    /\ prep_notify' = FALSE /\ wprep' = None
    /\ added' = [added EXCEPT ![w] = wprep = None] /\ Goto(w, "idle")
    /\ UNCHANGED <<runs, met, prepared, wlist, cancelled, isrunning, thr, wlocked,
                   tlocked, loop>>

-------------------------------------------------------------------------------
\* evstop(), under wlist_mutex

\* Mutant: the loop is cancelled although other watchers remain.
EvstopAlways(w) ==
    /\ pc[w] = "idle" /\ ~wlocked
    /\ prepared' = prepared \ {w} /\ added' = [added EXCEPT ![w] = FALSE]
    /\ wlist' = wlist \ {w}
    /\ IF isrunning \/ ~cancelled
          THEN cancelled' = TRUE /\ wlocked' = TRUE /\ Goto(w, "send")
          ELSE UNCHANGED <<cancelled, wlocked, pc>>
    /\ UNCHANGED <<runs, met, wprep, prep_notify, isrunning, thr, tlocked, loop>>

\* The watcher is finished and taken off the list, if it is there.  When the
\* list is empty then, the loop is cancelled ...
evstop(w) ==
    /\ pc[w] = "idle" /\ ~wlocked
    /\ prepared' = prepared \ {w} /\ added' = [added EXCEPT ![w] = FALSE]
    /\ wlist' = wlist \ {w}
    /\ IF wlist' = {} /\ (isrunning \/ ~cancelled)
          THEN cancelled' = TRUE /\ wlocked' = TRUE /\ Goto(w, "send")
          ELSE UNCHANGED <<cancelled, wlocked, pc>>
    /\ UNCHANGED <<runs, met, wprep, prep_notify, isrunning, thr, tlocked, loop>>

\* Mutant: the loop is cancelled and not woken.
WakeSilent(w) ==
    /\ pc[w] = "send"
    /\ IF thr # "none"
          THEN Goto(w, "join") /\ UNCHANGED wlocked
          ELSE Goto(w, "idle") /\ wlocked' = FALSE
    /\ UNCHANGED <<added, runs, met, prepared, wlist, wprep, prep_notify, cancelled,
                   isrunning, thr, tlocked, loop>>

\* ... and woken, and its thread joined if there is one.  Without a thread
\* "cancelled" stays raised.
Wake(w) ==
    /\ pc[w] = "send" /\ term' = TRUE
    /\ IF thr # "none"
          THEN Goto(w, "join") /\ UNCHANGED wlocked
          ELSE Goto(w, "idle") /\ wlocked' = FALSE
    /\ UNCHANGED <<added, runs, met, prepared, wlist, wprep, prep_notify, cancelled,
                   isrunning, thr, tlocked, lpc, prep, handling>>

Joined(w) ==
    /\ pc[w] = "join" /\ lpc = "off"
    /\ thr' = "none" /\ cancelled' = FALSE /\ wlocked' = FALSE /\ Goto(w, "idle")
    /\ UNCHANGED <<added, runs, met, prepared, wlist, wprep, prep_notify, isrunning,
                   tlocked, loop>>

-------------------------------------------------------------------------------
\* The loop's thread: defaultLoop()

\* evterm.start(): what was sent before it is forgotten.
LoopBegins ==
    /\ lpc = "start" /\ lpc' = "while" /\ term' = FALSE
    /\ UNCHANGED <<calls, prepared, wlist, wprep, prep_notify, cancelled, isrunning,
                   thr, wlocked, tlocked, prep, handling>>

\* while( !cancelled ) loop.run(0)
LoopTest ==
    /\ lpc = "while"
    /\ IF cancelled
          THEN lpc' = "off" /\ isrunning' = FALSE /\ term' = FALSE /\ prep' = FALSE
          ELSE lpc' = "run" /\ UNCHANGED <<isrunning, term, prep>>
    /\ UNCHANGED <<calls, prepared, wlist, wprep, prep_notify, cancelled, thr, wlocked,
                   tlocked, handling>>

\* onLoopOK(): the one-shot timer
onLoopOK ==
    /\ lpc = "run" /\ ~isrunning /\ isrunning' = TRUE
    /\ UNCHANGED <<calls, prepared, wlist, wprep, prep_notify, cancelled, thr, wlocked,
                   tlocked, loop>>

\* Mutant: wprep is not tested.
PreparesAny ==
    prepared' = prepared \cup {wprep} /\ wprep' = None

\* evprepare() of the waiting watcher, if there is one.
Prepares ==
    prepared' = prepared \cup ({wprep} \ {None}) /\ wprep' = None

\* onPrepare(): under prep_mutex the waiting watcher is prepared, or its
\* evprepare() throws and wprep stays as it is ...
onPrepare ==
    /\ lpc = "run" /\ prep /\ ~handling
    /\ prep' = FALSE /\ prep_notify' = FALSE /\ handling' = TRUE
    /\ Prepares \/ (wprep # None /\ UNCHANGED <<prepared, wprep>>)
    /\ UNCHANGED <<calls, wlist, cancelled, isrunning, thr, wlocked, tlocked, lpc, term>>

\* ... then everybody who waits is told.
onPrepareNotifies ==
    /\ handling /\ handling' = FALSE /\ prep_notify' = TRUE
    /\ UNCHANGED <<calls, prepared, wlist, wprep, cancelled, isrunning, thr, wlocked,
                   tlocked, lpc, term, prep>>

\* onStop(): every watcher is finished and the loop is left.
onStop ==
    /\ lpc = "run" /\ term /\ ~handling
    /\ term' = FALSE /\ prep' = FALSE /\ prepared' = prepared \ wlist /\ lpc' = "while"
    /\ UNCHANGED <<calls, wlist, wprep, prep_notify, cancelled, isrunning, thr, wlocked,
                   tlocked, handling>>

LoopThread ==
    LoopBegins \/ LoopTest \/ onLoopOK \/ onPrepare \/ onPrepareNotifies \/ onStop

Continue(w) ==
    \/ LoopThere(w) \/ LoopStarts(w) \/ LoopRunning(w) \/ LoopTimeout(w)
    \/ activateWatcher(w) \/ Activated(w) \/ Wake(w) \/ Joined(w)

Next == LoopThread \/ \E w \in Watchers : async_evrun(w) \/ evstop(w) \/ Continue(w)

Spec == Init /\ [][Next]_vars

\* The loop's thread handles what is pending and the calls go on.
FairSpec ==
    Spec /\ WF_vars(LoopThread) /\ \A w \in Watchers : WF_vars(Continue(w))

-------------------------------------------------------------------------------
\* The watcher is prepared in a loop that runs and is not being stopped.
Served(w) == w \in prepared /\ lpc = "run" /\ ~cancelled

\* "\return TRUE - если всё удалось": a watcher whose async_evrun() has returned
\* true is served, whoever else calls ("готовящийся Watcher.  Он может быть
\* только один в единицу времени, это гарантирует prep_mutex").
AddedIsServed == \A w \in Watchers : added[w] => Served(w)

\* A watcher whose async_evrun() has returned true and overlapped no other call
\* is served until its evstop(), whatever calls for other watchers do then:
\* overlap, time out, or stop the loop and start it again.
AloneIsServed == \A w \in Watchers : added[w] /\ w \notin met => Served(w)

\* async_evrun() and evstop() return: no wake-up is lost, whatever stands
\* between raising "cancelled", sending evterm and entering loop.run().
CallsReturn == \A w \in Watchers : pc[w] # "idle" ~> pc[w] = "idle"

===============================================================================
