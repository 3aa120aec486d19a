---------------------------- MODULE PeriodicTimers ----------------------------
(***************************************************************************)
(* What a timer module promises for repeated timers: once started, a timer *)
(* runs its handler one interval later and then again every interval.  A   *)
(* handler never runs early; it may run up to Late ticks after its time,   *)
(* but that moves none of its later times.                                 *)
(***************************************************************************)
EXTENDS Integers

CONSTANTS
    Timer,
    Interval, \* of each timer, in ticks
    Late

VARIABLES
    on,  \* timers that were started
    left \* ticks until each of them is due, negative when it is late

Init == on = {} /\ left = [t \in Timer |-> 0]

Start ==
    \E t \in Timer \ on :
        /\ on' = on \cup {t}
        /\ left' = [left EXCEPT ![t] = Interval[t]]

Pass ==
    /\ \A t \in on : left[t] > -Late
    /\ left' = [t \in Timer |-> IF t \in on THEN left[t] - 1 ELSE left[t]]
    /\ UNCHANGED on

(* Handlers of one or more timers that are due run. *)
Run ==
    \E due \in SUBSET {t \in on : left[t] <= 0} :
        /\ left' = [t \in Timer |-> IF t \in due THEN left[t] + Interval[t] ELSE left[t]]
        /\ UNCHANGED on

Next == Start \/ Pass \/ Run

Spec == Init /\ [][Next]_<<on, left>>
=============================================================================
