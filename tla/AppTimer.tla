-------------------------------- MODULE AppTimer --------------------------------
(***************************************************************************)
(* The timer library of the SDK (app_timer.c) as both programs use it:     *)
(* repeated timers, started in thread mode and never stopped.              *)
(*                                                                         *)
(* A counter of ticks and one compare register raise the RTC1 interrupt,   *)
(* whose handler runs the handlers of the timers that are due and queues   *)
(* the ticks it has dealt with.  The SWI interrupt takes them, puts the    *)
(* timers back into a list in which each says how many ticks it is due     *)
(* after the one before it, and sets the compare register again.  Both     *)
(* interrupts have the same priority, RTC1 goes first.  The SWI handler is *)
(* cut where it looks at the counter while it sets the register: ticks     *)
(* pass in between.                                                        *)
(***************************************************************************)
EXTENDS Integers, Sequences, FiniteSets, SequencesExt

CONSTANTS
    Timer,
    Interval,    \* of each timer, in ticks
    CounterRange,\* number of values of the counter, 2^24
    QueueSlots,  \* APP_TIMER_OP_QUEUE_SIZE + 1, 5
    MaxLag,      \* ticks that pass at most between two steps of interrupt handlers
    CallTicks,   \* ticks that a call of app_timer_start takes at most
    Late         \* ticks a handler may run late

APP_TIMER_MIN_TIMEOUT_TICKS == 5
CONTEXT_QUEUE_SIZE_MAX == 2   \* one more than can wait
Nobody == "nobody"

(* Half of the counter's range is more than any time between two events.    *)
(* A handler is as late as four steps of interrupt handlers can make it, or *)
(* two and the distance the compare register has to keep from the counter; *)
(* no interval is so short that a timer is due again before the handlers   *)
(* have dealt with it, or due before the call that started it has ended.   *)
ASSUME AppTimerAssumption ==
    /\ CounterRange \in Nat \ {0} /\ QueueSlots \in Nat \ {0, 1}
    /\ MaxLag \in Nat \ {0} /\ CallTicks \in Nat \ {0}
    /\ Late \in Nat /\ Late >= 4 * MaxLag - 1 /\ Late >= 2 * MaxLag + 2
    /\ Nobody \notin Timer
    /\ \A t \in Timer : /\ Interval[t] \in Nat
                        /\ Interval[t] >= APP_TIMER_MIN_TIMEOUT_TICKS
                        /\ Interval[t] > Late /\ Interval[t] > CallTicks + MaxLag
                        /\ Interval[t] + Late + MaxLag < (CounterRange - 1) \div 2

VARIABLES
    rtc,            \* the counter, its compare register and its interrupt
    timer_list,     \* mp_timer_id_head: the timers in the list, each with ticks_to_expire
    is_running,
    m_ticks_latest, \* the counter when the ticks queued last were dealt with
    m_ticks_elapsed,\* the queue of ticks from one handler to the other
    ops,            \* the start operations of thread mode that are queued
    swi,            \* the SWI interrupt and how far its handler has come
    thread,         \* the operation that app_timer_start has yet to queue
    lag,            \* ticks since the last step of an interrupt handler that is due
    on,             \* history: timers that were started
    left            \* history: ticks until each is due, counted to one beyond Late

timerVars == <<rtc, timer_list, is_running, m_ticks_latest, m_ticks_elapsed, ops, swi, thread,
              lag, on, left>>

Ticks == 0 .. CounterRange - 1
NoOp == [timer |-> Nobody, at_start |-> 0]
Op == [timer : Timer, at_start : Ticks]

TimerTypeOK ==
    /\ rtc \in [counter : Ticks, cc : Ticks, missed : BOOLEAN, running : BOOLEAN, pending : BOOLEAN]
    /\ timer_list \in Seq([timer : Timer, ticks_to_expire : Ticks])
    /\ is_running \in [Timer -> BOOLEAN]
    /\ m_ticks_latest \in Ticks
    /\ m_ticks_elapsed \in Seq(Ticks) /\ Len(m_ticks_elapsed) < CONTEXT_QUEUE_SIZE_MAX
    /\ ops \in Seq(Op) /\ Len(ops) < QueueSlots
    /\ swi \in [pending : BOOLEAN, at : {"idle", "write", "check"}, pre : Ticks]
    /\ thread \in Op \cup {NoOp}
    /\ lag \in 0 .. MaxLag
    /\ on \subseteq Timer
    /\ \A t \in Timer : left[t] \in -(Late + 1) .. Interval[t]

StoppedRtc ==
    [counter |-> 0, cc |-> 0, missed |-> FALSE, running |-> FALSE, pending |-> FALSE]

(* After app_timer_init. *)
TimerInit ==
    /\ rtc = StoppedRtc
    /\ timer_list = <<>>
    /\ is_running = [t \in Timer |-> FALSE]
    /\ m_ticks_latest = 0
    /\ m_ticks_elapsed = <<>>
    /\ ops = <<>>
    /\ swi = [pending |-> FALSE, at |-> "idle", pre |-> 0]
    /\ thread = NoOp
    /\ lag = 0
    /\ on = {} /\ left = [t \in Timer |-> 0]

InterruptDue == rtc.pending \/ swi.pending \/ swi.at # "idle"

-----------------------------------------------------------------------------
(* ticks_diff_get *)
Diff(now, old) == (now - old + CounterRange) % CounterRange

(* Ticks from m_ticks_latest until the first i timers of a list are due. *)
Due(list, i) ==
    LET due[j \in 0 .. i] == IF j = 0 THEN 0 ELSE due[j - 1] + list[j].ticks_to_expire
    IN  due[i]

(* The timers at the head that are due when so many ticks have elapsed. *)
DueCount(list, elapsed) == Cardinality({i \in DOMAIN list : Due(list, i) <= elapsed})

(* timer_list_insert: behind the timers that are due earlier; the one       *)
(* behind it counts on from it.                                            *)
InsertedUncorrected(list, node) ==   \* slip
    LET before == Cardinality({i \in DOMAIN list : Due(list, i) < node.ticks_to_expire})
        rest   == node.ticks_to_expire - Due(list, before)
    IN  InsertAt(list, before + 1, [node EXCEPT !.ticks_to_expire = rest])
Inserted(list, node) ==
    LET before == Cardinality({i \in DOMAIN list : Due(list, i) < node.ticks_to_expire})
        rest   == node.ticks_to_expire - Due(list, before)
        behind == IF before = Len(list) THEN list
                  ELSE [list EXCEPT ![before + 1].ticks_to_expire = @ - rest]
    IN  InsertAt(behind, before + 1, [node EXCEPT !.ticks_to_expire = rest])

(* list_insertions_handler: how many ticks after m_ticks_latest a timer is  *)
(* due that was started, or restarted, at a value of the counter before it *)
(* or after it.                                                            *)
ToExpire(at_start, interval, latest) ==
    IF Diff(at_start, latest) < (CounterRange - 1) \div 2
    THEN Diff(at_start, latest) + interval
    ELSE IF interval > Diff(latest, at_start) THEN interval - Diff(latest, at_start) ELSE 0

InsertAll(list, starts, latest) ==
    LET node(start) == [timer |-> start.timer,
                        ticks_to_expire |->
                            ToExpire(start.at_start, Interval[start.timer], latest)]
        with[i \in 0 .. Len(starts)] ==
            IF i = 0 THEN list ELSE Inserted(with[i - 1], node(starts[i]))
    IN  with[Len(starts)]

-----------------------------------------------------------------------------
(* The counter.  Interrupt handlers that are due make a step at least every *)
(* MaxLag ticks, and thread mode ends a call of app_timer_start within      *)
(* CallTicks; a compare value that is reached raises the interrupt.        *)
Tick ==
    /\ rtc.running
    /\ InterruptDue => lag < MaxLag
    /\ thread # NoOp => Interval[thread.timer] - left[thread.timer] < CallTicks
    /\ lag' = IF InterruptDue THEN lag + 1 ELSE 0
    /\ LET now == (rtc.counter + 1) % CounterRange IN
       rtc' = [rtc EXCEPT !.counter = now,
                          !.missed = FALSE,
                          !.pending = @ \/ (rtc.cc = now /\ ~rtc.missed)]
    /\ left' = [t \in Timer |-> IF t \in on /\ left[t] >= -Late THEN left[t] - 1 ELSE left[t]]
    /\ UNCHANGED <<timer_list, is_running, m_ticks_latest, m_ticks_elapsed, ops, swi, thread, on>>

-----------------------------------------------------------------------------
(* app_timer_start in thread mode: timer_start_op_schedule takes a free     *)
(* slot of the queue and the value of the counter, ...                     *)
StartTimer(t) ==
    /\ ~InterruptDue /\ thread = NoOp
    /\ t \notin on
    /\ Len(ops) + 1 < QueueSlots
    /\ thread' = [timer |-> t, at_start |-> rtc.counter]
    /\ on' = on \cup {t}
    /\ left' = [left EXCEPT ![t] = Interval[t]]
    /\ UNCHANGED <<rtc, timer_list, is_running, m_ticks_latest, m_ticks_elapsed, ops, swi, lag>>

(* ... then makes the operation visible and calls for the SWI handler.      *)
EnqueueStart ==
    /\ ~InterruptDue /\ thread # NoOp
    /\ ops' = Append(ops, thread)
    /\ swi' = [swi EXCEPT !.pending = TRUE]
    /\ thread' = NoOp
    /\ lag' = 0
    /\ UNCHANGED <<rtc, timer_list, is_running, m_ticks_latest, m_ticks_elapsed, on, left>>

-----------------------------------------------------------------------------
(* RTC1_IRQHandler, timer_timeouts_check: runs the handlers of the timers   *)
(* that are due and queues the ticks up to the last of them.                *)
(* Ticks that the other handler has not taken yet are replaced. *)
Queued(ticks) ==
    IF Len(m_ticks_elapsed) + 1 < CONTEXT_QUEUE_SIZE_MAX THEN Append(m_ticks_elapsed, ticks)
    ELSE [m_ticks_elapsed EXCEPT ![Len(m_ticks_elapsed)] = ticks]

Timeouts ==
    /\ rtc.pending /\ swi.at = "idle"
    /\ rtc' = [rtc EXCEPT !.pending = FALSE]
    /\ IF timer_list = <<>>
       THEN UNCHANGED <<is_running, m_ticks_elapsed, swi, left>>
       ELSE LET count == DueCount(timer_list, Diff(rtc.counter, m_ticks_latest))
                due   == {timer_list[i].timer : i \in 1 .. count}
            IN  /\ is_running' = [t \in Timer |-> is_running[t] /\ t \notin due]
                /\ left' = [t \in Timer |-> IF t \in due /\ is_running[t]
                                            THEN left[t] + Interval[t] ELSE left[t]]
                /\ m_ticks_elapsed' = Queued(Due(timer_list, count))
                /\ swi' = [swi EXCEPT !.pending = TRUE]
    /\ lag' = 0
    /\ UNCHANGED <<timer_list, m_ticks_latest, ops, thread, on>>

(* elapsed_ticks_acquire *)
HaveElapsed == m_ticks_elapsed # <<>>
Elapsed == IF HaveElapsed THEN Head(m_ticks_elapsed) ELSE 0

(* expired_timers_handler: the timers that leave the list, the last one     *)
(* first, to be started again from when they were due; the others.         *)
RestartedFrom(i) == (m_ticks_latest + Due(timer_list, i)) % CounterRange

Expired == IF HaveElapsed THEN DueCount(timer_list, Elapsed) ELSE 0
Restarts == Reverse([i \in 1 .. Expired |-> [timer |-> timer_list[i].timer,
                                             at_start |-> RestartedFrom(i)]])
Remaining ==
    LET rest == SubSeq(timer_list, Expired + 1, Len(timer_list))
    IN  IF rest = <<>> THEN rest
        ELSE [rest EXCEPT ![1].ticks_to_expire = @ - (Elapsed - Due(timer_list, Expired))]

StartedBy(starts) == {starts[i].timer : i \in DOMAIN starts}
HeadOf(list) == IF list = <<>> THEN Nobody ELSE Head(list).timer

(* timer_list_handler up to compare_reg_update, which is called when ticks  *)
(* were dealt with or the list has another head, and begins with a look at *)
(* the counter and, for the first timer, the start of it.                  *)
TimerListHandler ==
    /\ swi.pending /\ swi.at = "idle" /\ ~rtc.pending
    /\ m_ticks_latest' = (m_ticks_latest + Elapsed) % CounterRange
    /\ timer_list' = InsertAll(Remaining, Restarts \o ops, m_ticks_latest')
    /\ is_running' = [t \in Timer |-> is_running[t] \/ t \in StartedBy(Restarts \o ops)]
    /\ IF HaveElapsed \/ HeadOf(timer_list') # HeadOf(timer_list)
       THEN /\ swi' = [pending |-> FALSE, at |-> "write", pre |-> rtc.counter]
            /\ rtc' = [rtc EXCEPT !.running = TRUE]
       ELSE /\ swi' = [swi EXCEPT !.pending = FALSE]
            /\ UNCHANGED rtc
    /\ m_ticks_elapsed' = IF HaveElapsed THEN Tail(m_ticks_elapsed) ELSE m_ticks_elapsed
    /\ ops' = <<>>
    /\ lag' = 0
    /\ UNCHANGED <<thread, on, left>>

RTC_COMPARE_OFFSET_MIN == 3

(* compare_reg_update: the value for the compare register, for the timer at *)
(* the head or as soon as the counter can still be caught.                  *)
CompareValueAtDue ==   \* slip
    (m_ticks_latest + Head(timer_list).ticks_to_expire) % CounterRange
CompareValue ==
    LET soonest == Diff(swi.pre, m_ticks_latest) + RTC_COMPARE_OFFSET_MIN
        due     == Head(timer_list).ticks_to_expire
    IN  (m_ticks_latest + IF soonest < due THEN due ELSE soonest) % CounterRange

(* The hardware compares when the counter moves on; a value that is the     *)
(* next one when it is written may be missed until the counter has wrapped. *)
WriteCompare ==
    /\ swi.at = "write"
    /\ \E missed \in BOOLEAN :
        /\ missed => Diff(CompareValue, rtc.counter) = 1
        /\ rtc' = [rtc EXCEPT !.cc = CompareValue, !.missed = missed]
    /\ swi' = [swi EXCEPT !.at = "check"]
    /\ lag' = 0
    /\ UNCHANGED <<timer_list, is_running, m_ticks_latest, m_ticks_elapsed, ops, thread, on, left>>

TooCloseNever == FALSE   \* slip
TooClose ==
    Diff(rtc.counter, swi.pre) + RTC_COMPARE_OFFSET_MIN > Diff(rtc.cc, swi.pre)

(* ... and a second look: if the counter has come too close to it, the      *)
(* interrupt is raised by hand.                                            *)
CheckCompare ==
    /\ swi.at = "check"
    /\ rtc' = IF TooClose
              THEN [rtc EXCEPT !.cc = rtc.counter, !.missed = FALSE, !.pending = TRUE]
              ELSE rtc
    /\ swi' = [swi EXCEPT !.at = "idle", !.pre = 0]
    /\ lag' = 0
    /\ UNCHANGED <<timer_list, is_running, m_ticks_latest, m_ticks_elapsed, ops, thread, on, left>>

Handlers == Timeouts \/ TimerListHandler \/ WriteCompare \/ CheckCompare
Thread == EnqueueStart \/ \E t \in Timer : StartTimer(t)

TimerNext == Tick \/ Handlers \/ Thread

(* The counter counts, interrupts that are due are served, and a call that   *)
(* has begun ends.                                                         *)
TimerSpec ==
    /\ TimerInit /\ [][TimerNext]_timerVars
    /\ WF_timerVars(Tick) /\ WF_timerVars(Handlers) /\ WF_timerVars(EnqueueStart)

-----------------------------------------------------------------------------
(* Timers run on time: never early, at most Late ticks late, and a late     *)
(* one does not put off its later times.                                   *)
Abstract == INSTANCE PeriodicTimers
ImplementsPeriodicTimers == Abstract!Spec

(* The list says when each timer is due, whatever was started, and however  *)
(* late it was looked at: ticks from m_ticks_latest, the timers in front   *)
(* included.                                                               *)
ListIsSchedule ==
    \A i \in DOMAIN timer_list :
        LET t == timer_list[i].timer IN
        is_running[t] =>
            (m_ticks_latest + Due(timer_list, i) - rtc.counter - left[t]) % CounterRange = 0

(* While a timer is in the list and no handler is due, the counter runs and *)
(* will meet the compare register, no later than Late ticks after the first *)
(* timer is due: not a whole turn of the counter later.                    *)
WillWake ==
    timer_list # <<>> /\ ~InterruptDue =>
        /\ rtc.running
        /\ rtc.cc # rtc.counter
        /\ rtc.missed => Diff(rtc.cc, rtc.counter) > 1
        /\ Diff(rtc.cc, rtc.counter) <= left[Head(timer_list).timer] + Late
=============================================================================
