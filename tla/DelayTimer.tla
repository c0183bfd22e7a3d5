------------------------------ MODULE DelayTimer ------------------------------
(***************************************************************************)
(* DelayTimer of include/DelayTimer.h: a signal that follows its input     *)
(* only after the input has kept its new value for the on- or off-delay.   *)
(* The passive timer inside is a flag "due" that the passing of time sets. *)
(***************************************************************************)

DelayTimers == [state : BOOLEAN, waiting : {"none", "on", "off"}, due : BOOLEAN]

\* A timer just constructed or reset: low and not waiting.
DelayReset == [state |-> FALSE, waiting |-> "none", due |-> FALSE]

\* check(st): the timer after the call; what the call returns is its state.
\* "delayed" says, for st going high and going low, whether the delay is
\* more than zero.
DelayCheck(t, st, delayed) ==
    CASE t.waiting # "none" /\ t.due ->
            [state |-> IF st = (t.waiting = "on") THEN st ELSE t.state,
             waiting |-> "none", due |-> FALSE]
      [] t.waiting # "none" /\ ~t.due ->
            [t EXCEPT !.waiting = IF st = t.state THEN "none" ELSE @]
      [] t.waiting = "none" /\ t.state # st ->
            IF delayed[st]
               THEN [t EXCEPT !.waiting = IF st THEN "on" ELSE "off"]
               ELSE [t EXCEPT !.state = st]
      [] OTHER -> t

\* The delay has passed since the timer was started.
DelayPasses(t) == [t EXCEPT !.due = t.waiting # "none"]

===============================================================================
