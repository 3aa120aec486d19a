------------------------------ MODULE MCMainLoops ------------------------------
(***************************************************************************)
(* Bounds for AppUart, SysTick and AppScheduler, where interrupts meet a   *)
(* main loop.  The three share nothing and are checked side by side: the   *)
(* initial state chooses the one that runs, the other two rest and no      *)
(* fairness is asked of them.                                              *)
(***************************************************************************)
EXTENDS AppUart, SysTick, AppScheduler

(* Positions wrap around with nine bytes; the other side waits for the main *)
(* loop, fills the FIFO exactly or sends more than it holds; with errors.  *)
AllTraffics ==
    {[rx |-> 9, tx |-> 6, ahead |-> 2, errors |-> FALSE],
     [rx |-> 9, tx |-> 2, ahead |-> BufSize, errors |-> FALSE],
     [rx |-> 9, tx |-> 2, ahead |-> BufSize + 3, errors |-> FALSE],
     [rx |-> 3, tx |-> 1, ahead |-> BufSize, errors |-> TRUE]}

(* One kind of traffic for the run of GetsOnlyReceived. *)
FaultyTraffic == {[rx |-> 5, tx |-> 2, ahead |-> BufSize, errors |-> TRUE]}

VARIABLE component

allVars == <<component, uartVars, tickVars, schedVars>>

MCInit ==
    /\ component \in {"uart", "clock", "events"}
    /\ UartInit /\ TickInit /\ SchedInit
    /\ component # "uart" => traffic = CHOOSE t \in Traffics : TRUE

InUart(A)   == component = "uart" /\ A /\ UNCHANGED <<component, tickVars, schedVars>>
InClock(A)  == component = "clock" /\ A /\ UNCHANGED <<component, uartVars, schedVars>>
InEvents(A) == component = "events" /\ A /\ UNCHANGED <<component, uartVars, tickVars>>

MCNext == InUart(UartNext) \/ InClock(TickNext) \/ InEvents(SchedNext)

(* The fairness of each specification, while it is the one that runs. *)
MCFairness ==
    /\ WF_allVars(InUart(Kept(MainLoop))) /\ WF_allVars(InUart(Kept(ByteSent)))
    /\ WF_allVars(InUart(Kept(RxDone))) /\ WF_allVars(InUart(Kept(CommError)))
    /\ WF_allVars(InUart(Kept(TxDone)))
    /\ WF_allVars(InClock(SysTick_Task)) /\ WF_allVars(InClock(ResetMcuTask))
    /\ WF_allVars(InEvents(BootLoop)) /\ WF_allVars(InEvents(SoftDeviceIrq))
    /\ WF_allVars(InEvents(FlashDone))

MCSpec == MCInit /\ [][MCNext]_allVars /\ MCFairness

(* Positions, indices and times stay within the range of the code's        *)
(* integers, however they wrap (app_fifo.c, sys_tick.c, app_scheduler.c).  *)
LoopsTypeOK == UartTypeOK /\ TickTypeOK /\ SchedTypeOK
=============================================================================
