---------------------------- MODULE IOController ----------------------------
(***************************************************************************)
(* The value of one sensor (src/Processes/IOController.cc, USensorInfo):   *)
(* the value that was stored last, and the value that is shown, which may  *)
(* be forced by freezing, by a dependence on another sensor, or by the     *)
(* "undefined" flag.  Each operator is what one critical section under     *)
(* val_lock makes of the sensor's record.                                  *)
(***************************************************************************)
EXTENDS Naturals

CONSTANTS
    Values,       \* values of the sensor
    d_off_value,  \* what a blocked sensor shows
    undef_value,  \* what an undefined sensor shows, or NotSpecified
    NotSpecified

ASSUME ValuesAssumption == 0 \in Values /\ Values \subseteq Nat
ASSUME OffAssumption == d_off_value \in Values
ASSUME UndefAssumption == undef_value \in Values \cup {NotSpecified} /\ NotSpecified \notin Values

Sensor ==
    [value : Values, real_value : Values, blocked : BOOLEAN, frozen : BOOLEAN,
     frozen_value : Values, undefined : BOOLEAN]

NewSensor ==
    [value |-> 0, real_value |-> 0, blocked |-> FALSE, frozen |-> FALSE,
     frozen_value |-> 0, undefined |-> FALSE]

Blocked(u) == u.blocked \/ u.undefined

\* Mutant: the end of freezing is not noticed.
ChangesNotFrozen(u, v) ==
    \/ u.real_value # v
    \/ Blocked(u) # (u.value = d_off_value)

\* The value is recomputed when a new one is stored, and when what is shown
\* looks as if blocking or freezing had changed since.
Changes(u, v) ==
    \/ u.real_value # v
    \/ Blocked(u) # (u.value = d_off_value)
    \/ u.frozen # (u.value = u.frozen_value)

localSetValue(u, v) ==
    IF ~Changes(u, v) THEN u
    ELSE [u EXCEPT !.real_value = v,
                   !.value = IF u.frozen THEN u.frozen_value
                             ELSE IF Blocked(u) THEN d_off_value ELSE v]

\* First half of localFreezeValue(); it then stores real_value once more.
FreezeFlag(u, set, v) ==
    [u EXCEPT !.frozen = set, !.frozen_value = IF set THEN v ELSE u.value]

\* First half of checkDepend(); it then stores real_value once more.
DependFlag(u, permitted) == [u EXCEPT !.blocked = ~permitted]

localSetUndefinedState(u, undefined) ==
    [u EXCEPT !.undefined = undefined,
              !.value = IF undef_value = NotSpecified THEN @
                        ELSE IF undefined THEN undef_value ELSE u.real_value]

\* What is to be shown: a frozen value before the value of a blocked sensor
\* before the stored one.
Shown(u) ==
    IF u.frozen THEN u.frozen_value ELSE IF Blocked(u) THEN d_off_value ELSE u.real_value
=============================================================================
