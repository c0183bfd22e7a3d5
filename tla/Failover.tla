------------------------------ MODULE Failover ------------------------------
(***************************************************************************)
(* What the two-channel reception of UNetExchange promises: one channel is *)
(* active; it hands the work over only when it has fallen silent, and only *)
(* to a channel that has not; the memory gets the data of the active       *)
(* channel and of no other.  Data may be left out (they are when they are  *)
(* taken for what was written last).                                       *)
(***************************************************************************)
CONSTANTS Channels, Values, None

VARIABLES
    active,   \* the channel whose data are stored
    silent,   \* per channel: nothing has come for too long
    offered,  \* per channel: the newest data not looked at yet, or None
    memory    \* what was stored last, or None

vars == <<active, silent, offered, memory>>

Init ==
    /\ active \in Channels
    /\ silent = [c \in Channels |-> FALSE]
    /\ offered = [c \in Channels |-> None]
    /\ memory = None

Offer(c, v) ==
    /\ offered' = [offered EXCEPT ![c] = v]
    /\ silent' = [silent EXCEPT ![c] = FALSE]
    /\ UNCHANGED <<active, memory>>

FallSilent(c) ==
    /\ silent' = [silent EXCEPT ![c] = TRUE]
    /\ UNCHANGED <<active, offered, memory>>

HandOver(c) ==
    /\ silent[active] /\ ~silent[c]
    /\ active' = c
    /\ UNCHANGED <<silent, offered, memory>>

Store(c) ==
    /\ c = active /\ offered[c] # None
    /\ memory' = offered[c]
    /\ offered' = [offered EXCEPT ![c] = None]
    /\ UNCHANGED <<active, silent>>

LeaveOut(c) ==
    /\ offered' = [offered EXCEPT ![c] = None]
    /\ UNCHANGED <<active, silent, memory>>

Next ==
    \E c \in Channels :
        \/ \E v \in Values : Offer(c, v)
        \/ FallSilent(c) \/ HandOver(c) \/ Store(c) \/ LeaveOut(c)

Spec == Init /\ [][Next]_vars
=============================================================================
