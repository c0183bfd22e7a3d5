----------------------- MODULE CommonEventLoopProofs ------------------------
(***************************************************************************)
(* Proofs about CommonEventLoop for every set of watchers: its types, and  *)
(* that a watcher whose call of async_evrun() returned true and overlapped *)
(* no other one is served by a running loop.                               *)
(***************************************************************************)
EXTENDS CommonEventLoop, TLAPS

-----------------------------------------------------------------------------
(* Types                                                                   *)

\* Every step of the loop's thread and of the callers keeps the types.
LEMMA TypesStep == TypeOK /\ [Next]_vars => TypeOK'
<1> SUFFICES ASSUME TypeOK, [Next]_vars PROVE TypeOK'
  OBVIOUS
<1> USE LoopAssumption DEF TypeOK, Goto, calls, loop
<1>1. ASSUME NEW w \in Watchers, async_evrun(w) PROVE TypeOK'
  BY <1>1 DEF async_evrun
<1>2. ASSUME NEW w \in Watchers, LoopThere(w) PROVE TypeOK'
  BY <1>2 DEF LoopThere
<1>3. ASSUME NEW w \in Watchers, LoopStarts(w) PROVE TypeOK'
  BY <1>3 DEF LoopStarts
<1>4. ASSUME NEW w \in Watchers, LoopRunning(w) PROVE TypeOK'
  BY <1>4, ZenonT(60) DEF LoopRunning
<1>5. ASSUME NEW w \in Watchers, LoopTimeout(w) PROVE TypeOK'
  BY <1>5, ZenonT(60) DEF LoopTimeout
<1>6. ASSUME NEW w \in Watchers, activateWatcher(w) PROVE TypeOK'
  BY <1>6 DEF activateWatcher
<1>7. ASSUME NEW w \in Watchers, Activated(w) PROVE TypeOK'
  BY <1>7, ZenonT(60) DEF Activated
<1>8. ASSUME NEW w \in Watchers, evstop(w) PROVE TypeOK'
  BY <1>8, ZenonT(60) DEF evstop
<1>9. ASSUME NEW w \in Watchers, Wake(w) PROVE TypeOK'
  BY <1>9, ZenonT(60) DEF Wake
<1>10. ASSUME NEW w \in Watchers, Joined(w) PROVE TypeOK'
  BY <1>10 DEF Joined
<1>11. CASE LoopBegins
  BY <1>11 DEF LoopBegins
<1>12. CASE LoopTest
  BY <1>12, ZenonT(60) DEF LoopTest
<1>13. CASE onLoopOK
  BY <1>13 DEF onLoopOK
<1>14. CASE onPrepare
  BY <1>14 DEF onPrepare, Prepares
<1>15. CASE onPrepareNotifies
  BY <1>15, ZenonT(60) DEF onPrepareNotifies
<1>16. CASE onStop
  BY <1>16 DEF onStop
<1>17. CASE UNCHANGED vars
  BY <1>17 DEF vars
<1> QED
  BY <1>1, <1>2, <1>3, <1>4, <1>5, <1>6, <1>7, <1>8, <1>9, <1>10, <1>11, <1>12, <1>13,
     <1>14, <1>15, <1>16, <1>17 DEF Next, LoopThread, Continue

\* The initial state has the types of TypeOK.
LEMMA InitTypes == Init => TypeOK
<1> SUFFICES ASSUME Init PROVE TypeOK
  OBVIOUS
<1>1. /\ pc \in [Watchers -> {"idle", "loop", "started", "activate", "wait", "send", "join"}]
      /\ runs \in 0 .. MaxRuns /\ met \subseteq Watchers /\ prepared \subseteq Watchers /\ wlist \subseteq Watchers
      /\ wprep \in Watchers \cup {None} /\ thr \in {"none", "some"}
      /\ lpc \in {"off", "start", "while", "run"}
  BY LoopAssumption DEF Init
<1>2. added \in [Watchers -> BOOLEAN]
  BY DEF Init
<1>3. /\ prep_notify \in BOOLEAN /\ cancelled \in BOOLEAN /\ isrunning \in BOOLEAN
      /\ wlocked \in BOOLEAN /\ tlocked \in BOOLEAN
      /\ term \in BOOLEAN /\ prep \in BOOLEAN /\ handling \in BOOLEAN
  BY Zenon DEF Init
<1> QED
  BY <1>1, <1>2, <1>3 DEF TypeOK

\* All behaviours have the types of TypeOK, calls that overlap included.
THEOREM LoopTypes == Spec => []TypeOK
<1> QED
  BY InitTypes, TypesStep, PTL DEF Spec

-----------------------------------------------------------------------------
(* A watcher that was added is served                                      *)

Ending == {"send", "join"}

\* Calls of async_evrun() that overlap are known to.
OverlapMet ==
    \A v, w \in Watchers : pc[v] \in Calling /\ pc[w] \in Calling => v = w \/ w \in met

\* A watcher that is being added, or was added, is on the list.
Listed == \A w \in Watchers : pc[w] \in Calling \/ added[w] => w \in wlist

\* An evstop() that ends the loop holds wlist_mutex and found no watcher.
Stopping ==
    /\ \A w \in Watchers : pc[w] \in Ending => wlocked /\ wlist = {} /\ cancelled
    /\ \A v, w \in Watchers : pc[v] \in Ending /\ pc[w] \in Ending => v = w

\* While the loop's thread is there evstop() finds it.
ThreadThere == lpc # "off" => thr = "some"

\* The loop is told to stop only after "cancelled" is raised.
TermCancels == lpc \in {"while", "run"} /\ term => cancelled

\* A running loop is cancelled only by an evstop() that found no watcher
\* and still holds wlist_mutex.
CancelledEmpty == lpc = "run" /\ cancelled => wlocked /\ wlist = {}

\* A watcher that waits for its preparation, and met no other, is in wprep, or
\* prepared.
WaitingServed ==
    \A w \in Watchers : pc[w] = "wait" /\ w \notin met =>
        wprep = w \/ (wprep = None /\ Served(w))

IInv ==
    /\ TypeOK /\ OverlapMet /\ Listed /\ Stopping /\ ThreadThere
    /\ TermCancels /\ CancelledEmpty /\ AloneIsServed /\ WaitingServed

\* Every step keeps the inductive invariant.
LEMMA ServedStep ==
    ASSUME IInv, [Next]_vars
    PROVE  IInv'
<1>t. TypeOK'
  BY TypesStep DEF IInv
<1> USE <1>t, LoopAssumption DEF IInv, TypeOK, OverlapMet, Listed, Stopping, ThreadThere, TermCancels,
        CancelledEmpty, AloneIsServed, WaitingServed, Served, Calling, Ending, Goto, calls, loop
<1>1. ASSUME NEW w \in Watchers, async_evrun(w) PROVE IInv'
  BY <1>1 DEF async_evrun
<1>2. ASSUME NEW w \in Watchers, LoopThere(w) PROVE IInv'
  BY <1>2 DEF LoopThere
<1>3. ASSUME NEW w \in Watchers, LoopStarts(w) PROVE IInv'
  BY <1>3 DEF LoopStarts
<1>4. ASSUME NEW w \in Watchers, LoopRunning(w) PROVE IInv'
  BY <1>4 DEF LoopRunning
<1>5. ASSUME NEW w \in Watchers, LoopTimeout(w) PROVE IInv'
  BY <1>5 DEF LoopTimeout
<1>6. ASSUME NEW w \in Watchers, activateWatcher(w) PROVE IInv'
  BY <1>6 DEF activateWatcher
<1>7. ASSUME NEW w \in Watchers, Activated(w) PROVE IInv'
  BY <1>7 DEF Activated
<1>8. ASSUME NEW w \in Watchers, evstop(w) PROVE IInv'
  BY <1>8 DEF evstop
<1>9. ASSUME NEW w \in Watchers, Wake(w) PROVE IInv'
  BY <1>9 DEF Wake
<1>10. ASSUME NEW w \in Watchers, Joined(w) PROVE IInv'
  BY <1>10 DEF Joined
<1>11. CASE LoopBegins
  BY <1>11 DEF LoopBegins
<1>12. CASE LoopTest
  BY <1>12 DEF LoopTest
<1>13. CASE onLoopOK
  BY <1>13 DEF onLoopOK
<1>14. CASE onPrepare
  BY <1>14 DEF onPrepare, Prepares
<1>15. CASE onPrepareNotifies
  BY <1>15 DEF onPrepareNotifies
<1>16. CASE onStop
  BY <1>16 DEF onStop
<1>17. CASE UNCHANGED vars
  BY <1>17 DEF vars
<1> QED
  BY <1>1, <1>2, <1>3, <1>4, <1>5, <1>6, <1>7, <1>8, <1>9, <1>10, <1>11, <1>12, <1>13,
     <1>14, <1>15, <1>16, <1>17 DEF Next, LoopThread, Continue

\* A watcher whose call of async_evrun() returned true and overlapped no other
\* call is prepared in a loop that runs and is not cancelled, however other
\* watchers are added, one over another, and stopped afterwards.
THEOREM AloneServed == Spec => []AloneIsServed
<1>1. Init => IInv
  BY InitTypes DEF Init, IInv, OverlapMet, Listed, Stopping, ThreadThere, TermCancels,
                   CancelledEmpty, AloneIsServed, WaitingServed, Calling, Ending
<1>2. IInv /\ [Next]_vars => IInv'
  BY ServedStep
<1>3. IInv => AloneIsServed
  BY DEF IInv
<1> QED
  BY <1>1, <1>2, <1>3, PTL DEF Spec

=============================================================================
