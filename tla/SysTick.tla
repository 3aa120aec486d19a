-------------------------------- MODULE SysTick --------------------------------
(***************************************************************************)
(* The application's clock and its one user: sys_tick.c counts             *)
(* milliseconds in an unsigned integer, a tick at a time, from the timer   *)
(* interrupt; ResetMcuTask (system_config.c), called in every pass of the  *)
(* main loop, restarts the device ten seconds after it was asked to.       *)
(*                                                                         *)
(* Times are what the counter counts: the tick under way when a timeout    *)
(* starts counts as a whole one.                                           *)
(***************************************************************************)
EXTENDS Integers

CONSTANTS
    TimeRange,     \* number of values of the counter, 2^32
    TickTime,      \* milliseconds of a tick, 50
    Delay,         \* milliseconds from request to restart, 10000
    MaxTicksInPass \* ticks that fit into one pass of the main loop

(* The counter does not come round again while the main loop is in a pass. *)
ASSUME SysTickAssumption ==
    /\ TimeRange \in Nat /\ Delay \in Nat \ {0}
    /\ TickTime \in Nat \ {0} /\ MaxTicksInPass \in Nat \ {0}
    /\ Delay + (MaxTicksInPass + 1) * TickTime < TimeRange

VARIABLES
    sysTickCounter32,
    sysResetMcuFlag,
    tMcuResetTimeout,
    elapsed,    \* history: time since the timeout was started, while it runs
    ticksInPass \* history: ticks in the current pass of the main loop

tickVars == <<sysTickCounter32, sysResetMcuFlag, tMcuResetTimeout, elapsed, ticksInPass>>

Times == 0 .. TimeRange - 1

TickTypeOK ==
    /\ sysTickCounter32 \in Times
    /\ sysResetMcuFlag \in {"NONE", "AFTER_10_SEC", "IS_WAITING"}
    /\ tMcuResetTimeout \in [start_time : Times, timeout : {0, Delay}, crc : Times]
    /\ elapsed \in 0 .. Delay + (MaxTicksInPass + 1) * TickTime
    /\ ticksInPass \in 0 .. MaxTicksInPass

TickInit ==
    /\ sysTickCounter32 = 0
    /\ sysResetMcuFlag = "NONE"
    /\ tMcuResetTimeout = [start_time |-> 0, timeout |-> 0, crc |-> 0]
    /\ elapsed = 0 /\ ticksInPass = 0

-----------------------------------------------------------------------------
(* Sums of unsigned integers. *)
Plus(a, b) == IF a + b < TimeRange THEN a + b ELSE a + b - TimeRange

InitTimeout(timeout) ==
    [start_time |-> sysTickCounter32, timeout |-> timeout, crc |-> Plus(sysTickCounter32, timeout)]

(* One less than it was once the counter has wrapped. *)
PassedUnwrapped(t) ==   \* slip
    IF sysTickCounter32 >= t.start_time
    THEN sysTickCounter32 - t.start_time
    ELSE t.start_time - sysTickCounter32
PassedSinceWrap(t) ==   \* slip
    IF sysTickCounter32 >= t.start_time
    THEN sysTickCounter32 - t.start_time
    ELSE sysTickCounter32
Passed(t) ==
    IF sysTickCounter32 >= t.start_time
    THEN sysTickCounter32 - t.start_time
    ELSE (TimeRange - 1 - t.start_time) + sysTickCounter32

(* CheckTimeout returns SYSTICK_TIMEOUT; a damaged record counts as over. *)
TimedOut(t) ==
    \/ Plus(t.start_time, t.timeout) # t.crc
    \/ Passed(t) >= t.timeout

-----------------------------------------------------------------------------
(* SysTick_Task(50), from the handler of the timer. *)
SysTick_Task ==
    /\ ticksInPass < MaxTicksInPass
    /\ ticksInPass' = ticksInPass + 1
    /\ sysTickCounter32' = Plus(sysTickCounter32, TickTime)
    /\ elapsed' = IF sysResetMcuFlag = "IS_WAITING" THEN elapsed + TickTime ELSE 0
    /\ UNCHANGED <<sysResetMcuFlag, tMcuResetTimeout>>

(* A pass in which a download is completed: ResetMcuSet, then ResetMcuTask  *)
(* starts the timeout, again if it was running.                            *)
ResetMcuSet ==
    /\ sysResetMcuFlag' = "AFTER_10_SEC"
    /\ elapsed' = 0
    /\ UNCHANGED <<sysTickCounter32, tMcuResetTimeout, ticksInPass>>

NothingToReset ==
    /\ sysResetMcuFlag = "NONE"
    /\ ticksInPass' = 0
    /\ UNCHANGED <<sysTickCounter32, sysResetMcuFlag, tMcuResetTimeout, elapsed>>

StartWaitingEveryPass ==   \* slip
    /\ sysResetMcuFlag = "AFTER_10_SEC"
    /\ tMcuResetTimeout' = InitTimeout(Delay)
    /\ elapsed' = 0 /\ ticksInPass' = 0
    /\ UNCHANGED <<sysTickCounter32, sysResetMcuFlag>>
StartWaiting ==
    /\ sysResetMcuFlag = "AFTER_10_SEC"
    /\ tMcuResetTimeout' = InitTimeout(Delay)
    /\ sysResetMcuFlag' = "IS_WAITING"
    /\ elapsed' = 0 /\ ticksInPass' = 0
    /\ UNCHANGED sysTickCounter32

KeepWaiting ==
    /\ sysResetMcuFlag = "IS_WAITING" /\ ~TimedOut(tMcuResetTimeout)
    /\ ticksInPass' = 0
    /\ UNCHANGED <<sysTickCounter32, sysResetMcuFlag, tMcuResetTimeout, elapsed>>

(* NVIC_SystemReset: all of RAM starts over. *)
Restart ==
    /\ sysResetMcuFlag = "IS_WAITING" /\ TimedOut(tMcuResetTimeout)
    /\ sysTickCounter32' = 0
    /\ sysResetMcuFlag' = "NONE"
    /\ tMcuResetTimeout' = [start_time |-> 0, timeout |-> 0, crc |-> 0]
    /\ elapsed' = 0 /\ ticksInPass' = 0

ResetMcuTask == NothingToReset \/ StartWaiting \/ KeepWaiting \/ Restart

TickNext == SysTick_Task \/ ResetMcuSet \/ ResetMcuTask

(* The timer ticks and the main loop goes round. *)
TickSpec == TickInit /\ [][TickNext]_tickVars /\ WF_tickVars(SysTick_Task) /\ WF_tickVars(ResetMcuTask)

-----------------------------------------------------------------------------
(* The device never restarts before the time is up, however the counter     *)
(* wraps meanwhile: the reply to the last packet has left it by then       *)
(* (CheckTimeout).                                                         *)
NeverEarly == [][Restart => elapsed >= Delay]_tickVars

(* Where the counter wraps it restarts one tick late, never more: a pass of  *)
(* the main loop goes on waiting only if less than a tick over the delay    *)
(* has passed.                                                             *)
AtMostOneTickLate == [][KeepWaiting => elapsed < Delay + TickTime]_tickVars

(* A device that has been asked to restart does so, unless it is asked again *)
(* and again.                                                              *)
EventuallyRestarts ==
    <>[][~ResetMcuSet]_tickVars => (sysResetMcuFlag # "NONE" ~> sysResetMcuFlag = "NONE")
=============================================================================
