------------------------------ MODULE Mailbox -------------------------------
(***************************************************************************)
(* What an object promises to those who push messages to it, without the   *)
(* queues, the threads and the timers of UniSetObject: a message is        *)
(* handled at most once, messages of one priority in the order they were   *)
(* sent; only a message that still waits may be dropped, one for one sent, *)
(* and every loss is counted; after close() nothing is handled.            *)
(***************************************************************************)
EXTENDS Naturals, Sequences

CONSTANTS
    Letters,  \* messages: records with the fields id and prio
    None      \* no message

VARIABLES
    last,     \* number of messages sent so far; messages are numbered by it
    waiting,  \* messages that wait
    current,  \* the message that is being handled, or None
    handled,  \* messages handled, in order
    dropped,  \* number of messages dropped
    closed    \* nothing is handled any more

mailbox == <<last, waiting, current, handled, dropped, closed>>

Init ==
    /\ last = 0
    /\ waiting = {}
    /\ current = None
    /\ handled = <<>>
    /\ dropped = 0
    /\ closed = FALSE

Send(m) ==
    /\ m.id = last + 1
    /\ last' = last + 1
    /\ waiting' = waiting \cup {m}
    /\ UNCHANGED <<current, handled, dropped, closed>>

\* The mailbox is full: m or a waiting message of its priority is dropped.
SendDropping(m) ==
    /\ m.id = last + 1
    /\ last' = last + 1
    /\ \E x \in waiting \cup {m} :
          /\ x.prio = m.prio
          /\ waiting' = (waiting \cup {m}) \ {x}
    /\ dropped' = dropped + 1
    /\ UNCHANGED <<current, handled, closed>>

Oldest(m) == \A x \in waiting : x.prio = m.prio => m.id <= x.id

Take(m) ==
    /\ ~closed
    /\ current = None
    /\ Oldest(m)
    /\ waiting' = waiting \ {m}
    /\ current' = m
    /\ UNCHANGED <<last, handled, dropped, closed>>

Handle ==
    /\ ~closed
    /\ current # None
    /\ handled' = Append(handled, current)
    /\ current' = None
    /\ UNCHANGED <<last, waiting, dropped, closed>>

Close ==
    /\ current = None
    /\ closed' = TRUE
    /\ UNCHANGED <<last, waiting, current, handled, dropped>>

Next ==
    \/ \E m \in Letters : Send(m) \/ SendDropping(m)
    \/ \E m \in waiting : Take(m)
    \/ Handle
    \/ Close

Spec == Init /\ [][Next]_mailbox
=============================================================================
