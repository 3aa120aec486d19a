---------------------------- MODULE MainLoops_proofs ----------------------------
(***************************************************************************)
(* Proofs about SysTick, and about the three components of MCMainLoops     *)
(* side by side.                                                           *)
(*                                                                         *)
(* SysTick: for every range of the counter, tick, delay and length of a    *)
(* pass that SysTickAssumption admits, the restart comes neither early nor *)
(* late.  The invariant: while the timeout runs, the counter is where it   *)
(* started plus the time that has passed, or that less one turn, and what  *)
(* has passed exceeds the delay by no more than the ticks of the current   *)
(* pass.                                                                   *)
(*                                                                         *)
(* Side by side: each component makes its own steps or none, so that what  *)
(* is proved of each holds of the three together.                          *)
(***************************************************************************)
EXTENDS MCMainLoops, AppUart_proofs, AppScheduler_proofs

Waiting == sysResetMcuFlag = "IS_WAITING"

CounterFollows ==
    \/ sysTickCounter32 = tMcuResetTimeout.start_time + elapsed
    \/ sysTickCounter32 = tMcuResetTimeout.start_time + elapsed - TimeRange

OnTime ==
    /\ tMcuResetTimeout.timeout = Delay
    /\ tMcuResetTimeout.crc = Plus(tMcuResetTimeout.start_time, Delay)
    /\ CounterFollows
    /\ elapsed <= Delay + ticksInPass * TickTime

TickInv ==
    /\ TickTypeOK
    /\ Waiting => OnTime
    /\ ~Waiting => elapsed = 0

-----------------------------------------------------------------------------
(* The assumption, and what it says of products. *)
LEMMA Constants ==
    /\ TimeRange \in Nat /\ Delay \in Nat /\ Delay >= 1
    /\ TickTime \in Nat /\ TickTime >= 1
    /\ MaxTicksInPass \in Nat /\ MaxTicksInPass >= 1
    /\ Delay + (MaxTicksInPass + 1) * TickTime < TimeRange
BY SysTickAssumption

LEMMA Products ==
    ASSUME NEW n \in Nat, n <= MaxTicksInPass
    PROVE  /\ n * TickTime \in Nat
           /\ (n + 1) * TickTime = n * TickTime + TickTime
           /\ n * TickTime + TickTime <= (MaxTicksInPass + 1) * TickTime
           /\ TickTime <= (MaxTicksInPass + 1) * TickTime
           /\ (MaxTicksInPass + 1) * TickTime \in Nat
<1> DEFINE d == MaxTicksInPass - n
<1>1. d \in Nat /\ MaxTicksInPass + 1 = n + 1 + d
  BY Constants
<1>2. d * TickTime \in Nat /\ n * TickTime \in Nat /\ MaxTicksInPass * TickTime \in Nat
  BY <1>1, Constants
<1>3. (n + 1 + d) * TickTime = n * TickTime + TickTime + d * TickTime
  BY <1>1, Constants
<1> QED
  BY <1>1, <1>2, <1>3, Constants

(* A sum of unsigned integers is one. *)
LEMMA PlusInTimes ==
    ASSUME NEW a \in Times, NEW b \in Nat, b < TimeRange
    PROVE  Plus(a, b) \in Times
BY Constants DEF Times, Plus

-----------------------------------------------------------------------------
(* What CheckTimeout decides while the timeout runs. *)
LEMMA WhenTimedOut ==
    ASSUME TickInv, Waiting
    PROVE  /\ TimedOut(tMcuResetTimeout) => elapsed >= Delay
           /\ ~TimedOut(tMcuResetTimeout) => elapsed <= Delay
<1> DEFINE start == tMcuResetTimeout.start_time
<1>1. /\ OnTime
      /\ start \in Times /\ sysTickCounter32 \in Times
      /\ elapsed \in Nat /\ elapsed <= Delay + (MaxTicksInPass + 1) * TickTime
  BY Products, Constants, MaxTicksInPass <= MaxTicksInPass DEF TickInv, TickTypeOK
<1>2. elapsed < TimeRange
  BY <1>1, Products, Constants
<1>3. \/ Passed(tMcuResetTimeout) = elapsed
      \/ Passed(tMcuResetTimeout) = elapsed - 1
  BY <1>1, <1>2, Constants DEF Passed, OnTime, CounterFollows, Times
<1>4. TimedOut(tMcuResetTimeout) <=> Passed(tMcuResetTimeout) >= Delay
  BY <1>1 DEF TimedOut, OnTime
<1> QED
  BY <1>1, <1>3, <1>4, Constants

-----------------------------------------------------------------------------
LEMMA TickInitInv == TickInit => TickInv
BY Constants, Products, MaxTicksInPass <= MaxTicksInPass
   DEF TickInit, TickInv, TickTypeOK, Waiting, Times

(* A tick adds the same to the counter and to the time passed. *)
LEMMA TickKeepsInv ==
    ASSUME TickInv, SysTick_Task
    PROVE  TickInv'
<1> USE DEF TickInv
<1> DEFINE n == ticksInPass
<1>1. n \in Nat /\ n + 1 <= MaxTicksInPass /\ ticksInPass' = n + 1
  BY Constants DEF SysTick_Task, TickTypeOK
<1>2. /\ n * TickTime \in Nat /\ (n + 1) * TickTime = n * TickTime + TickTime
      /\ (n + 1) * TickTime <= (MaxTicksInPass + 1) * TickTime
      /\ TickTime <= (MaxTicksInPass + 1) * TickTime
      /\ (MaxTicksInPass + 1) * TickTime \in Nat
  BY <1>1, Products, Constants
<1>3. sysTickCounter32' \in Times
  BY <1>2, PlusInTimes, Constants DEF SysTick_Task, TickTypeOK
<1>4. CASE Waiting
  <2>1. OnTime /\ elapsed' = elapsed + TickTime /\ Waiting'
    BY <1>4 DEF SysTick_Task, Waiting
  <2>2. elapsed \in Nat /\ elapsed <= Delay + n * TickTime
    BY <2>1, <1>2, Constants DEF OnTime, TickTypeOK
  <2>3. elapsed' \in Nat /\ elapsed' <= Delay + (n + 1) * TickTime
    BY <2>1, <2>2, <1>2, Constants
  <2>4. elapsed' <= Delay + (MaxTicksInPass + 1) * TickTime /\ elapsed' < TimeRange
    BY <2>3, <1>2, Constants
  <2>5. CounterFollows'
    <3> DEFINE start == tMcuResetTimeout.start_time
    <3>1. start \in Times /\ sysTickCounter32 \in Times /\ start' = start
      BY DEF SysTick_Task, TickTypeOK
    <3>2. sysTickCounter32' = IF sysTickCounter32 + TickTime < TimeRange
                              THEN sysTickCounter32 + TickTime
                              ELSE sysTickCounter32 + TickTime - TimeRange
      BY DEF SysTick_Task, Plus
    <3> QED
      BY <3>1, <3>2, <2>1, <2>2, <2>4, Constants DEF OnTime, CounterFollows, Times
  <2>6. OnTime'
    BY <2>1, <2>3, <2>5, <1>1, Constants DEF OnTime, SysTick_Task, Plus
  <2> QED
    BY <1>1, <1>3, <2>1, <2>3, <2>4, <2>6, Constants DEF TickTypeOK, SysTick_Task
<1>5. CASE ~Waiting
  BY <1>1, <1>2, <1>3, <1>5, Constants DEF TickTypeOK, SysTick_Task, Waiting
<1> QED
  BY <1>4, <1>5

(* A pass of the main loop starts, keeps or ends the timeout. *)
LEMMA PassKeepsInv ==
    ASSUME TickInv, ResetMcuSet \/ ResetMcuTask
    PROVE  TickInv'
<1> USE DEF TickInv
<1>1. /\ 0 * TickTime = 0 /\ (MaxTicksInPass + 1) * TickTime \in Nat
      /\ 0 \in 0 .. Delay + (MaxTicksInPass + 1) * TickTime
  BY Products, Constants, MaxTicksInPass <= MaxTicksInPass
<1>2. CASE ResetMcuSet
  BY <1>1, <1>2 DEF ResetMcuSet, TickTypeOK, Waiting
<1>3. CASE NothingToReset
  BY <1>1, <1>3, Constants DEF NothingToReset, TickTypeOK, Waiting
<1>4. CASE StartWaiting
  <2>1. Plus(sysTickCounter32, Delay) \in Times
    BY <1>1, PlusInTimes, Constants DEF TickTypeOK
  <2>2. tMcuResetTimeout' = [start_time |-> sysTickCounter32, timeout |-> Delay,
                             crc |-> Plus(sysTickCounter32, Delay)]
    BY <1>4 DEF StartWaiting, InitTimeout
  <2>3. TickTypeOK'
    BY <1>1, <1>4, <2>1, <2>2, Constants DEF StartWaiting, TickTypeOK
  <2>4. Waiting' /\ OnTime'
    <3>1. Plus(sysTickCounter32, Delay)' = Plus(sysTickCounter32, Delay)
      BY <1>4 DEF StartWaiting, Plus
    <3> QED
      BY <1>1, <1>4, <2>2, <3>1, Constants
         DEF StartWaiting, Waiting, OnTime, CounterFollows, Plus, TickTypeOK, Times
  <2> QED
    BY <2>3, <2>4
<1>5. CASE KeepWaiting
  <2>1. OnTime /\ elapsed <= Delay
    BY <1>5, WhenTimedOut DEF KeepWaiting, Waiting
  <2>2. OnTime'
    BY <1>1, <1>5, <2>1, Constants DEF KeepWaiting, OnTime, CounterFollows, Plus, TickTypeOK
  <2> QED
    BY <1>1, <1>5, <2>2, Constants DEF KeepWaiting, TickTypeOK, Waiting
<1>6. CASE Restart
  BY <1>1, <1>6, Constants DEF Restart, TickTypeOK, Waiting, Times
<1> QED
  BY <1>2, <1>3, <1>4, <1>5, <1>6 DEF ResetMcuTask

LEMMA TickInvariant == TickInit /\ [][TickNext]_tickVars => []TickInv
<1>1. TickInv /\ [TickNext]_tickVars => TickInv'
  <2> SUFFICES ASSUME TickInv, [TickNext]_tickVars PROVE TickInv'
    OBVIOUS
  <2>1. CASE UNCHANGED tickVars
    BY <2>1 DEF tickVars, TickInv, TickTypeOK, Waiting, OnTime, CounterFollows, Plus
  <2> QED
    BY <2>1, TickKeepsInv, PassKeepsInv DEF TickNext
<1> QED
  BY <1>1, TickInitInv, PTL

-----------------------------------------------------------------------------
(* Clock, request and timeout stay what the code's types can hold, however  *)
(* often the counter wraps (SysTick_Task, InitTimeout).                    *)
THEOREM TickTypeCorrect == TickSpec => []TickTypeOK
<1>1. TickInv => TickTypeOK
  BY DEF TickInv
<1> QED
  BY <1>1, TickInvariant, PTL DEF TickSpec

(* No restart comes before its time (CheckTimeout in ResetMcuTask). *)
THEOREM RestartsNotEarly == TickSpec => NeverEarly
<1>1. TickInv => [Restart => elapsed >= Delay]_tickVars
  BY WhenTimedOut DEF Restart, Waiting
<1> QED
  BY <1>1, TickInvariant, PTL DEF TickSpec, NeverEarly

(* No pass of the main loop waits on when the delay is over by a tick       *)
(* (CheckTimeout in ResetMcuTask).                                         *)
THEOREM WaitsNotLong == TickSpec => AtMostOneTickLate
<1>1. TickInv => [KeepWaiting => elapsed < Delay + TickTime]_tickVars
  <2> SUFFICES ASSUME TickInv, KeepWaiting PROVE elapsed < Delay + TickTime
    OBVIOUS
  <2>1. elapsed <= Delay
    BY WhenTimedOut DEF KeepWaiting, Waiting
  <2>2. elapsed \in Nat
    BY Products, Constants, MaxTicksInPass <= MaxTicksInPass DEF TickInv, TickTypeOK
  <2> QED
    BY <2>1, <2>2, Constants
<1> QED
  BY <1>1, TickInvariant, PTL DEF TickSpec, AtMostOneTickLate
-----------------------------------------------------------------------------
(* The three components together *)

LEMMA LoopsBegin == MCInit => UartInit /\ TickInit /\ SchedInit
BY DEF MCInit

(* A step of one component leaves the other two alone. *)
LEMMA LoopsStep ==
    [MCNext]_allVars =>
        [UartNext]_uartVars /\ [TickNext]_tickVars /\ [SchedNext]_schedVars
<1> SUFFICES ASSUME [MCNext]_allVars
             PROVE  [UartNext]_uartVars /\ [TickNext]_tickVars /\ [SchedNext]_schedVars
  OBVIOUS
<1>1. CASE InUart(UartNext)
  BY <1>1 DEF InUart
<1>2. CASE InClock(TickNext)
  BY <1>2 DEF InClock
<1>3. CASE InEvents(SchedNext)
  BY <1>3 DEF InEvents
<1>4. CASE UNCHANGED allVars
  BY <1>4 DEF allVars
<1> QED
  BY <1>1, <1>2, <1>3, <1>4 DEF MCNext

LEMMA EachLoopOnItsOwn ==
    MCInit /\ [][MCNext]_allVars =>
        /\ UartInit /\ [][UartNext]_uartVars
        /\ TickInit /\ [][TickNext]_tickVars
        /\ SchedInit /\ [][SchedNext]_schedVars
BY LoopsBegin, LoopsStep, PTL

(* Positions, indices and times stay within the range of the code's         *)
(* integers, whichever component runs and however often they wrap          *)
(* (app_fifo.c, sys_tick.c, app_scheduler.c).                              *)
THEOREM LoopsTypeCorrect == MCSpec => []LoopsTypeOK
<1>1. UartInv /\ TickInv /\ SchedInv => LoopsTypeOK
  BY DEF UartInv, TickInv, SchedInv, LoopsTypeOK
<1> QED
  BY <1>1, EachLoopOnItsOwn, UartInvariant, TickInvariant, SchedInvariant, PTL DEF MCSpec
=============================================================================
