--------------------------- MODULE MCProcessManager ---------------------------
(***************************************************************************)
(* ProcessManager for TLC: three groups of one process each, under several *)
(* configurations.                                                         *)
(***************************************************************************)
EXTENDS ProcessManager

MCMembers == <<<<1>>, <<2>>, <<3>>>>

Daemon == [critical |-> TRUE, maxRestarts |-> 0, oneshot |-> FALSE, starts |-> TRUE,
           readyCheck |-> FALSE, healthFailThreshold |-> 0, forkFails |-> FALSE]

Oneshot == [Daemon EXCEPT !.oneshot = TRUE]

\* Every process may be restarted any number of times.
Unlimited == <<[Daemon EXCEPT !.readyCheck = TRUE], Oneshot,
               [Daemon EXCEPT !.critical = FALSE, !.healthFailThreshold = 2]>>

\* Every process may be given up.
Limited == <<[Daemon EXCEPT !.maxRestarts = 1],
             [Daemon EXCEPT !.critical = FALSE, !.maxRestarts = -1],
             [Daemon EXCEPT !.critical = FALSE, !.maxRestarts = 2, !.readyCheck = TRUE,
                            !.healthFailThreshold = 1, !.forkFails = TRUE]>>

\* A process that is not started here, and a oneshot that may fail.
Partial == <<[Daemon EXCEPT !.starts = FALSE], [Oneshot EXCEPT !.critical = FALSE],
             [Daemon EXCEPT !.maxRestarts = -1]>>

\* A process that is given up at once, then one that is retried for ever.
Mixed == <<[Daemon EXCEPT !.critical = FALSE, !.maxRestarts = -1],
           [Daemon EXCEPT !.readyCheck = TRUE],
           [Daemon EXCEPT !.starts = FALSE]>>

\* Who depends on whom: a chain against the order of names.
Chain == <<{2}, {3}, {}>>
\* All dependencies between three groups, and one on a group that is not there.
AllGraphs == [1 .. 3 -> SUBSET (1 .. 3)] \cup {<<{2}, {0}, {}>>}

MCSetups == [depends : {Chain}, conf : {Unlimited, Limited, Mixed}]
            \cup [depends : AllGraphs, conf : {Partial}]

===============================================================================
