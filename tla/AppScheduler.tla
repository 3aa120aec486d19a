------------------------------ MODULE AppScheduler ------------------------------
(***************************************************************************)
(* How interrupts reach the main loop of the bootloader: the event queue   *)
(* of app_scheduler.c, the handler that fetches the SoftDevice's events    *)
(* (softdevice_handler.c) and the loop of main.c, which sleeps until there *)
(* was an interrupt, runs the events that are queued and takes one step of *)
(* the update.                                                             *)
(*                                                                         *)
(* Two interrupts of the same priority put events into the queue: the one  *)
(* of the timers, with data, and the one of the SoftDevice, without.  The  *)
(* loop is cut where they come in between: when it has taken an event out  *)
(* of the queue, when it has looked at the event's slot, and before each   *)
(* call of sd_evt_get.                                                     *)
(***************************************************************************)
EXTENDS Integers, Sequences

CONSTANTS
    Timeout,     \* what timer events carry: a handler and its context
    QueueSize,   \* SCHED_QUEUE_SIZE, 20
    Burst,       \* events that come while the loop never finds the queue empty
    MaxTimeouts, \* timer events in a behaviour
    MaxRequests  \* flash operations in a behaviour

ASSUME QueueSizeAssumption == QueueSize \in Nat \ {0} /\ Burst \in Nat
ASSUME BoundsAssumption == MaxTimeouts \in Nat /\ MaxRequests \in Nat

VARIABLES
    m_queue,  \* the slots, each with the event put into it last
    m_queue_start_index, m_queue_end_index,
    loop,     \* where the main loop is and the slot of the event it runs
    event,    \* m_event_handler and data as the loop has read them
    wake,     \* an interrupt happened since sd_app_evt_wait was called last
    soc,      \* a flash operation under way, finished ones not yet fetched
    irq,      \* the SoftDevice's interrupt is pending
    failed,   \* an event found the queue full: APP_ERROR_CHECK resets
    ran,      \* history: the events whose handlers were called, in order
    counts    \* history: events since the queue was found empty, timeouts, operations

schedVars == <<m_queue, m_queue_start_index, m_queue_end_index, loop, event, wake, soc, irq,
              failed, ran, counts>>

queue == <<m_queue, m_queue_start_index, m_queue_end_index>>

FetchEvents == "softdevice_evt_get"   \* the handler the SoftDevice's interrupt puts
Free == "free"
ASSUME NamesAssumption == FetchEvents \notin Timeout /\ Free \notin Timeout

Event == Timeout \cup {FetchEvents}
Slots == 0 .. QueueSize

SchedTypeOK ==
    /\ m_queue \in [Slots -> Event \cup {Free}]
    /\ m_queue_start_index \in Slots /\ m_queue_end_index \in Slots
    /\ loop \in [at : {"wait", "execute", "taken", "run", "fetch", "step"}, slot : Slots]
    /\ event \in Event \cup {Free}
    /\ wake \in BOOLEAN /\ irq \in BOOLEAN /\ failed \in BOOLEAN
    /\ soc \in [busy : BOOLEAN, events : 0 .. MaxRequests]
    /\ ran \in Seq(Event)
    /\ counts \in [burst : 0 .. Burst, timeouts : 0 .. MaxTimeouts, requests : 0 .. MaxRequests]

SchedInit ==
    /\ m_queue = [s \in Slots |-> Free]
    /\ m_queue_start_index = 0 /\ m_queue_end_index = 0
    /\ loop = [at |-> "wait", slot |-> 0]
    /\ event = Free
    /\ wake = FALSE /\ irq = FALSE /\ failed = FALSE
    /\ soc = [busy |-> FALSE, events |-> 0]
    /\ ran = <<>>
    /\ counts = [burst |-> 0, timeouts |-> 0, requests |-> 0]

-----------------------------------------------------------------------------
(* The queue *)

SlotsShort(index) == IF index + 1 < QueueSize THEN index + 1 ELSE 0   \* slip
next_index(index) == IF index < QueueSize THEN index + 1 ELSE 0

(* One slot stays free: the one whose event may be running. *)
QueueFullNever == FALSE   \* slip
QueueFull  == next_index(m_queue_end_index) = m_queue_start_index
QueueEmpty == m_queue_end_index = m_queue_start_index

PutOrDrop(e) ==   \* slip
    /\ UNCHANGED failed
    /\ IF QueueFull THEN UNCHANGED queue
       ELSE /\ m_queue' = [m_queue EXCEPT ![m_queue_end_index] = e]
            /\ m_queue_end_index' = next_index(m_queue_end_index)
            /\ UNCHANGED m_queue_start_index
(* app_sched_event_put.  Its callers check the result: failure resets. *)
Put(e) ==
    IF QueueFull
    THEN failed' = TRUE /\ UNCHANGED queue
    ELSE /\ m_queue' = [m_queue EXCEPT ![m_queue_end_index] = e]
         /\ m_queue_end_index' = next_index(m_queue_end_index)
         /\ UNCHANGED <<m_queue_start_index, failed>>

-----------------------------------------------------------------------------
(* The interrupts *)

(* A timer is due: timeout_handler_exec puts its handler into the queue. *)
TimerIrq ==
    /\ ~failed
    /\ counts.burst < Burst /\ counts.timeouts < MaxTimeouts
    /\ \E e \in Timeout : Put(e)
    /\ wake' = TRUE
    /\ counts' = [counts EXCEPT !.burst = @ + 1, !.timeouts = @ + 1]
    /\ UNCHANGED <<loop, event, soc, irq, ran>>

(* The SoftDevice has finished what it was asked for. *)
FlashDone ==
    /\ ~failed
    /\ soc.busy
    /\ soc' = [busy |-> FALSE, events |-> soc.events + 1]
    /\ irq' = TRUE
    /\ UNCHANGED <<queue, loop, event, wake, failed, ran, counts>>

(* SOFTDEVICE_EVT_IRQHandler *)
SoftDeviceIrq ==
    /\ ~failed
    /\ irq /\ counts.burst < Burst
    /\ irq' = FALSE
    /\ Put(FetchEvents)
    /\ wake' = TRUE
    /\ counts' = [counts EXCEPT !.burst = @ + 1]
    /\ UNCHANGED <<loop, event, soc, ran>>

-----------------------------------------------------------------------------
(* The main loop *)

At(place) == ~failed /\ loop.at = place
GoTo(place) == loop' = [loop EXCEPT !.at = place]

(* A flash operation is asked for when none is under way. *)
MayAsk ==
    \/ UNCHANGED <<soc, counts>>
    \/ /\ ~soc.busy /\ soc.events = 0 /\ counts.requests < MaxRequests
       /\ soc' = [soc EXCEPT !.busy = TRUE]
       /\ counts' = [counts EXCEPT !.requests = @ + 1]

(* sd_app_evt_wait returns at once if there was an interrupt since it was   *)
(* called last.                                                            *)
Wait ==
    /\ At("wait") /\ wake
    /\ wake' = FALSE
    /\ GoTo("execute")
    /\ UNCHANGED <<queue, event, soc, irq, failed, ran, counts>>

(* app_sched_event_get up to the new start of the queue. *)
GetEvent ==
    /\ At("execute") /\ ~QueueEmpty
    /\ loop' = [at |-> "taken", slot |-> m_queue_start_index]
    /\ m_queue_start_index' = next_index(m_queue_start_index)
    /\ UNCHANGED <<m_queue, m_queue_end_index, event, wake, soc, irq, failed, ran, counts>>

(* ... and the event's header.  Its data stays in the slot. *)
ReadHeader ==
    /\ At("taken")
    /\ event' = m_queue[loop.slot]
    /\ GoTo(IF event' = FetchEvents THEN "fetch" ELSE "run")
    /\ ran' = IF event' = FetchEvents THEN Append(ran, event') ELSE ran
    /\ UNCHANGED <<queue, wake, soc, irq, failed, counts>>

(* app_timer_evt_get reads the data and calls the timeout handler. *)
RunTimeout ==
    /\ At("run")
    /\ ran' = Append(ran, m_queue[loop.slot])
    /\ event' = Free
    /\ GoTo("execute")
    /\ UNCHANGED <<queue, wake, soc, irq, failed, counts>>

(* intern_softdevice_events_execute: events are fetched until there are     *)
(* none.  pstorage, which handles them, may ask for the next operation.    *)
FetchEvent ==
    /\ At("fetch") /\ soc.events > 0
    /\ \/ /\ soc' = [soc EXCEPT !.events = @ - 1]
          /\ UNCHANGED counts
       \/ /\ ~soc.busy /\ soc.events = 1 /\ counts.requests < MaxRequests
          /\ soc' = [busy |-> TRUE, events |-> 0]
          /\ counts' = [counts EXCEPT !.requests = @ + 1]
    /\ UNCHANGED <<queue, loop, event, wake, irq, failed, ran>>

FetchNone ==
    /\ At("fetch") /\ soc.events = 0
    /\ event' = Free
    /\ GoTo("execute")
    /\ UNCHANGED <<queue, wake, soc, irq, failed, ran, counts>>

(* The queue is found empty: app_sched_execute returns. *)
AllExecuted ==
    /\ At("execute") /\ QueueEmpty
    /\ counts' = [counts EXCEPT !.burst = 0]
    /\ GoTo("step")
    /\ UNCHANGED <<queue, event, wake, soc, irq, failed, ran>>

UpdateForgetful ==   \* slip
    /\ At("step")
    /\ MayAsk
    /\ wake' = FALSE
    /\ GoTo("wait")
    /\ UNCHANGED <<queue, event, irq, failed, ran>>
(* update_new_application_start, which may ask for a flash operation; then  *)
(* the loop sleeps.                                                        *)
Update ==
    /\ At("step")
    /\ MayAsk
    /\ GoTo("wait")
    /\ UNCHANGED <<queue, event, wake, irq, failed, ran>>

BootLoop == \/ Wait
            \/ GetEvent
            \/ ReadHeader
            \/ RunTimeout
            \/ FetchEvent
            \/ FetchNone
            \/ AllExecuted
            \/ Update

SchedNext == TimerIrq \/ FlashDone \/ SoftDeviceIrq \/ BootLoop

(* The processor runs the loop and serves the interrupt; the SoftDevice     *)
(* finishes what it began.  Nothing makes a timer due.                     *)
SchedSpec ==
    /\ SchedInit /\ [][SchedNext]_schedVars
    /\ WF_schedVars(BootLoop) /\ WF_schedVars(SoftDeviceIrq) /\ WF_schedVars(FlashDone)

-----------------------------------------------------------------------------
(* Properties *)

QueueLength ==
    IF m_queue_start_index <= m_queue_end_index
    THEN m_queue_end_index - m_queue_start_index
    ELSE m_queue_end_index - m_queue_start_index + QueueSize + 1

(* The slot of the i-th event in the queue. *)
SlotOf(i) ==
    IF m_queue_start_index + i - 1 <= QueueSize
    THEN m_queue_start_index + i - 1
    ELSE m_queue_start_index + i - 1 - (QueueSize + 1)

QueuedEvents == [i \in 1 .. QueueLength |-> m_queue[SlotOf(i)]]
Taken == IF loop.at \in {"taken", "run"} THEN <<m_queue[loop.slot]>> ELSE <<>>

(* The main loop runs every event that was put, in that order, once and     *)
(* with its own data: an interrupt never writes to the slot of the event   *)
(* that is running, though that slot is already out of the queue.          *)
(* (m_queue_start_index moves on before the slot is read.)                 *)
Events == INSTANCE Stream WITH
    Item <- Event, lossy <- FALSE, pending <- Taken \o QueuedEvents, taken <- ran
ImplementsStream == Events!Spec

(* An event of the SoftDevice that nobody has fetched is on the way to the  *)
(* loop: its interrupt is pending, the handler that fetches is queued, or  *)
(* it is running and has not yet been told that there is nothing.  (One    *)
(* interrupt may stand for several events, one run may fetch several.)     *)
NothingStranded ==
    soc.events > 0 /\ ~failed =>
        \/ irq
        \/ \E i \in 1 .. QueueLength : QueuedEvents[i] = FetchEvents
        \/ loop.at = "taken" /\ m_queue[loop.slot] = FetchEvents
        \/ loop.at = "fetch"

(* The loop does not sleep over an event that came after it had found the   *)
(* queue empty.  (sd_app_evt_wait behind app_sched_execute, without a lock *)
(* between them.)                                                          *)
WakesForEvents == loop.at = "wait" /\ ~QueueEmpty /\ ~failed => wake

(* The queue takes as many events as its size says, while one is running:   *)
(* only a burst of more makes it reset.                                    *)
NeverFull == failed => counts.burst > QueueSize

(* Every event of the SoftDevice is fetched and the queue is emptied, so    *)
(* that every event in it runs, unless the queue overflows.                *)
AllServed ==
    ~QueueEmpty \/ soc.events > 0 ~> (QueueEmpty /\ soc.events = 0) \/ failed
=============================================================================
