-------------------------- MODULE AppScheduler_proofs --------------------------
(***************************************************************************)
(* Proofs about AppScheduler: for every size of the queue and any number   *)
(* of events.                                                              *)
(*                                                                         *)
(* The inductive invariant says which slots are in use and what is in      *)
(* them: those from the start index to the end index, around the end of    *)
(* the array, and the one just before the start while its event runs.      *)
(***************************************************************************)
EXTENDS AppScheduler, SequenceTheorems, TLAPS

(* The slots of the events in the queue. *)
Queued(s) ==
    IF m_queue_start_index <= m_queue_end_index
    THEN m_queue_start_index <= s /\ s < m_queue_end_index
    ELSE m_queue_start_index <= s \/ s < m_queue_end_index

Running == loop.at \in {"taken", "run"}

(* The event that runs lies in the slot before the start of the queue. *)
RunningSlot ==
    /\ Running => next_index(loop.slot) = m_queue_start_index
    /\ Running => m_queue[loop.slot] \in Event
    /\ loop.at = "run" => m_queue[loop.slot] # FetchEvents

QueuedSlots == \A s \in Slots : Queued(s) => m_queue[s] \in Event

(* No more events are under way than operations were asked for. *)
Operations == soc.events + (IF soc.busy THEN 1 ELSE 0) <= counts.requests

(* Events come while the loop is at work, or they wake it. *)
Woken == loop.at \in {"step", "wait"} /\ ~QueueEmpty /\ ~failed => wake

(* The queue holds no more events than came since it was found empty. *)
Counted == ~failed => QueueLength <= counts.burst

FetchQueued == \E s \in Slots : Queued(s) /\ m_queue[s] = FetchEvents

Fetched ==
    soc.events > 0 /\ ~failed =>
        \/ irq
        \/ FetchQueued
        \/ loop.at = "taken" /\ m_queue[loop.slot] = FetchEvents
        \/ loop.at = "fetch"

SchedInv ==
    /\ SchedTypeOK
    /\ RunningSlot /\ QueuedSlots
    /\ Operations /\ Woken /\ Counted /\ NeverFull /\ Fetched

-----------------------------------------------------------------------------
(* The ring of slots *)

LEMMA QueueSizes == QueueSize \in Nat /\ QueueSize >= 1 /\ Burst \in Nat
BY QueueSizeAssumption

LEMMA NextIndex ==
    /\ \A s \in Slots : next_index(s) \in Slots /\ next_index(s) # s
    /\ \A s, t \in Slots : next_index(s) = next_index(t) => s = t
BY QueueSizes DEF Slots, next_index

(* The slot an event is put into is neither queued nor that of the event    *)
(* that runs; afterwards it is queued.                                     *)
LEMMA PutSlot ==
    ASSUME SchedTypeOK, ~QueueFull, m_queue_end_index' = next_index(m_queue_end_index),
           m_queue_start_index' = m_queue_start_index
    PROVE  /\ ~Queued(m_queue_end_index)
           /\ \A s \in Slots : Queued(s)' <=> Queued(s) \/ s = m_queue_end_index
           /\ QueueLength' = QueueLength + 1
           /\ next_index(m_queue_end_index) # m_queue_start_index
BY QueueSizes DEF SchedTypeOK, QueueFull, Slots, Queued, QueueLength, next_index

(* Taking an event out frees the first slot and none else. *)
LEMMA GetSlot ==
    ASSUME SchedTypeOK, ~QueueEmpty, m_queue_start_index' = next_index(m_queue_start_index),
           m_queue_end_index' = m_queue_end_index
    PROVE  /\ Queued(m_queue_start_index)
           /\ \A s \in Slots : Queued(s)' <=> Queued(s) /\ s # m_queue_start_index
           /\ QueueLength' = QueueLength - 1
BY QueueSizes DEF SchedTypeOK, QueueEmpty, Slots, Queued, QueueLength, next_index

LEMMA LengthOfQueue ==
    ASSUME SchedTypeOK
    PROVE  /\ QueueLength \in 0 .. QueueSize
           /\ QueueFull <=> QueueLength = QueueSize
           /\ QueueEmpty <=> QueueLength = 0
BY QueueSizes DEF SchedTypeOK, QueueFull, QueueEmpty, Slots, QueueLength, next_index

(* The slots of the queue, one by one. *)
LEMMA SlotsOfQueue ==
    ASSUME SchedTypeOK
    PROVE  /\ \A i \in 1 .. QueueLength : SlotOf(i) \in Slots /\ Queued(SlotOf(i))
           /\ \A s \in Slots : Queued(s) => \E i \in 1 .. QueueLength : SlotOf(i) = s
<1>1. \A i \in 1 .. QueueLength : SlotOf(i) \in Slots /\ Queued(SlotOf(i))
  BY QueueSizes DEF SchedTypeOK, Slots, QueueLength, SlotOf, Queued
<1>2. ASSUME NEW s \in Slots, Queued(s) PROVE \E i \in 1 .. QueueLength : SlotOf(i) = s
  <2>1. CASE m_queue_start_index <= s
    <3>1. s - m_queue_start_index + 1 \in 1 .. QueueLength
      BY <1>2, <2>1, QueueSizes DEF SchedTypeOK, Slots, QueueLength, Queued
    <3>2. SlotOf(s - m_queue_start_index + 1) = s
      BY <2>1, QueueSizes DEF SchedTypeOK, Slots, SlotOf
    <3> QED
      BY <3>1, <3>2
  <2>2. CASE ~(m_queue_start_index <= s)
    <3>1. s - m_queue_start_index + QueueSize + 2 \in 1 .. QueueLength
      BY <1>2, <2>2, QueueSizes DEF SchedTypeOK, Slots, QueueLength, Queued
    <3>2. SlotOf(s - m_queue_start_index + QueueSize + 2) = s
      BY <2>2, QueueSizes DEF SchedTypeOK, Slots, SlotOf
    <3> QED
      BY <3>1, <3>2
  <2> QED
    BY <2>1, <2>2
<1> QED
  BY <1>1, <1>2

-----------------------------------------------------------------------------
LEMMA SchedInitHolds == SchedInit => SchedInv
<1> SUFFICES ASSUME SchedInit PROVE SchedInv
  OBVIOUS
<1>1. SchedTypeOK
  <2>1. 0 \in Slots /\ 0 \in 0 .. Burst /\ 0 \in 0 .. MaxTimeouts /\ 0 \in 0 .. MaxRequests
    BY QueueSizes, BoundsAssumption DEF Slots
  <2>2. m_queue \in [Slots -> Event \cup {Free}]
    BY DEF SchedInit
  <2>3. ran \in Seq(Event)
    BY DEF SchedInit
  <2> QED
    BY <2>1, <2>2, <2>3 DEF SchedInit, SchedTypeOK
<1>2. QueueEmpty /\ QueueLength = 0 /\ \A s \in Slots : ~Queued(s)
  BY QueueSizes DEF SchedInit, QueueEmpty, QueueLength, Queued, Slots
<1> QED
  BY <1>1, <1>2
     DEF SchedInit, SchedInv, RunningSlot, QueuedSlots, Operations, Woken, Counted, NeverFull,
         Fetched, Running

LEMMA FetchIsEvent == FetchEvents \in Event /\ Free \notin Event /\ Timeout \subseteq Event
BY NamesAssumption DEF Event, FetchEvents, Free

(* An interrupt puts an event into the queue. *)
LEMMA PutKeeps ==
    ASSUME SchedInv, NEW e \in Event, ~failed, counts.burst < Burst, Put(e),
           loop' = loop, counts'.burst = counts.burst + 1
    PROVE  /\ m_queue' \in [Slots -> Event \cup {Free}]
           /\ m_queue_start_index' \in Slots /\ m_queue_end_index' \in Slots
           /\ failed' \in BOOLEAN
           /\ RunningSlot' /\ QueuedSlots' /\ Counted' /\ NeverFull'
           /\ ~failed' /\ FetchQueued => FetchQueued'
           /\ ~failed' /\ e = FetchEvents => FetchQueued'
           /\ loop.at = "taken" => m_queue'[loop.slot] = m_queue[loop.slot]
<1> USE DEF SchedInv
<1>1. /\ m_queue \in [Slots -> Event \cup {Free}] /\ loop.slot \in Slots
      /\ m_queue_start_index \in Slots /\ m_queue_end_index \in Slots
      /\ counts.burst \in Nat /\ failed \in BOOLEAN
  BY DEF SchedTypeOK
<1>2. CASE QueueFull
  <2>1. failed' = TRUE /\ UNCHANGED queue
    BY <1>2 DEF Put
  <2>2. counts'.burst > QueueSize
    BY <1>1, <1>2, LengthOfQueue, QueueSizes DEF Counted
  <2>3. RunningSlot' /\ QueuedSlots'
    BY <2>1 DEF RunningSlot, QueuedSlots, Running, Queued, queue, next_index, Slots
  <2> QED
    BY <1>1, <2>1, <2>2, <2>3 DEF Counted, NeverFull, queue
<1>3. CASE ~QueueFull
  <2>1. /\ m_queue' = [m_queue EXCEPT ![m_queue_end_index] = e]
        /\ m_queue_end_index' = next_index(m_queue_end_index)
        /\ m_queue_start_index' = m_queue_start_index
        /\ failed' = FALSE
    BY <1>1, <1>3 DEF Put
  <2>2. /\ ~Queued(m_queue_end_index)
        /\ \A s \in Slots : Queued(s)' <=> Queued(s) \/ s = m_queue_end_index
        /\ QueueLength' = QueueLength + 1
        /\ next_index(m_queue_end_index) # m_queue_start_index
    BY <1>3, <2>1, PutSlot
  <2>3. /\ m_queue'[m_queue_end_index] = e
        /\ \A s \in Slots : s # m_queue_end_index => m_queue'[s] = m_queue[s]
    BY <1>1, <2>1
  <2>4. Running => loop.slot # m_queue_end_index
    BY <2>2 DEF RunningSlot
  <2>5. RunningSlot'
    BY <1>1, <2>1, <2>3, <2>4 DEF RunningSlot, Running, next_index
  <2>6. QueuedSlots'
    BY <2>2, <2>3 DEF QueuedSlots, Slots
  <2>7. Counted' /\ NeverFull'
    BY <1>1, <2>1, <2>2, LengthOfQueue, QueueSizes DEF Counted, NeverFull
  <2>8. /\ FetchQueued => FetchQueued'
        /\ e = FetchEvents => FetchQueued'
    BY <1>1, <2>2, <2>3 DEF FetchQueued, Slots
  <2>9. loop.at = "taken" => m_queue'[loop.slot] = m_queue[loop.slot]
    BY <1>1, <2>3, <2>4 DEF Running
  <2>10. m_queue' \in [Slots -> Event \cup {Free}] /\ m_queue_end_index' \in Slots
    BY <1>1, <2>1, NextIndex
  <2> QED
    BY <1>1, <2>1, <2>5, <2>6, <2>7, <2>8, <2>9, <2>10
<1> QED
  BY <1>2, <1>3

LEMMA TimerIrqKeeps ==
    ASSUME SchedInv, TimerIrq
    PROVE  SchedInv'
<1>1. PICK e \in Timeout : Put(e)
  BY DEF TimerIrq
<1>2. /\ ~failed /\ counts.burst < Burst /\ counts.timeouts < MaxTimeouts
      /\ wake' = TRUE
      /\ counts' = [counts EXCEPT !.burst = @ + 1, !.timeouts = @ + 1]
      /\ UNCHANGED <<loop, event, soc, irq, ran>>
  BY DEF TimerIrq
<1>3. counts \in [burst : 0 .. Burst, timeouts : 0 .. MaxTimeouts, requests : 0 .. MaxRequests]
  BY DEF SchedInv, SchedTypeOK
<1>4. /\ counts' \in [burst : 0 .. Burst, timeouts : 0 .. MaxTimeouts, requests : 0 .. MaxRequests]
      /\ counts'.burst = counts.burst + 1 /\ counts'.requests = counts.requests
  <2>1. /\ counts.burst \in 0 .. Burst /\ counts.timeouts \in 0 .. MaxTimeouts
        /\ counts.requests \in 0 .. MaxRequests
    BY <1>3
  <2>2. counts.burst + 1 \in 0 .. Burst /\ counts.timeouts + 1 \in 0 .. MaxTimeouts
    BY <1>2, <2>1, QueueSizes, BoundsAssumption
  <2> QED
    BY <1>2, <1>3, <2>1, <2>2
<1>5. /\ m_queue' \in [Slots -> Event \cup {Free}]
      /\ m_queue_start_index' \in Slots /\ m_queue_end_index' \in Slots
      /\ failed' \in BOOLEAN
      /\ RunningSlot' /\ QueuedSlots' /\ Counted' /\ NeverFull'
      /\ ~failed' /\ FetchQueued => FetchQueued'
      /\ loop.at = "taken" => m_queue'[loop.slot] = m_queue[loop.slot]
  BY <1>1, <1>2, <1>4, PutKeeps, FetchIsEvent
<1>6. SchedTypeOK'
  BY <1>2, <1>4, <1>5 DEF SchedInv, SchedTypeOK
<1>7. Operations' /\ Woken'
  BY <1>2, <1>4 DEF SchedInv, Operations, Woken
<1>8. Fetched'
  BY <1>2, <1>5 DEF SchedInv, Fetched
<1> QED
  BY <1>5, <1>6, <1>7, <1>8 DEF SchedInv

LEMMA SoftDeviceIrqKeeps ==
    ASSUME SchedInv, SoftDeviceIrq
    PROVE  SchedInv'
<1>2. /\ ~failed /\ counts.burst < Burst /\ Put(FetchEvents)
      /\ wake' = TRUE /\ irq' = FALSE
      /\ counts' = [counts EXCEPT !.burst = @ + 1]
      /\ UNCHANGED <<loop, event, soc, ran>>
  BY DEF SoftDeviceIrq
<1>3. counts \in [burst : 0 .. Burst, timeouts : 0 .. MaxTimeouts, requests : 0 .. MaxRequests]
  BY DEF SchedInv, SchedTypeOK
<1>4. /\ counts' \in [burst : 0 .. Burst, timeouts : 0 .. MaxTimeouts, requests : 0 .. MaxRequests]
      /\ counts'.burst = counts.burst + 1 /\ counts'.requests = counts.requests
  BY <1>2, <1>3, QueueSizes
<1>5. /\ m_queue' \in [Slots -> Event \cup {Free}]
      /\ m_queue_start_index' \in Slots /\ m_queue_end_index' \in Slots
      /\ failed' \in BOOLEAN
      /\ RunningSlot' /\ QueuedSlots' /\ Counted' /\ NeverFull'
      /\ ~failed' => FetchQueued'
  BY <1>2, <1>4, PutKeeps, FetchIsEvent
<1>6. SchedTypeOK'
  BY <1>2, <1>4, <1>5 DEF SchedInv, SchedTypeOK
<1>7. Operations' /\ Woken'
  BY <1>2, <1>4 DEF SchedInv, Operations, Woken
<1>8. Fetched'
  BY <1>5 DEF Fetched
<1> QED
  BY <1>5, <1>6, <1>7, <1>8 DEF SchedInv

(* Steps that leave the queue alone. *)
LEMMA QueueUntouched ==
    ASSUME SchedInv, UNCHANGED <<queue, failed>>, counts'.burst = counts.burst
    PROVE  /\ QueuedSlots' /\ Counted' /\ NeverFull'
           /\ FetchQueued' = FetchQueued /\ QueueEmpty' = QueueEmpty
           /\ (loop'.slot = loop.slot /\ loop'.at \notin {"taken", "run"}) => RunningSlot'
BY DEF SchedInv, QueuedSlots, Counted, NeverFull, FetchQueued, QueueEmpty, QueueLength, Queued,
       Slots, queue, RunningSlot, Running

LEMMA FlashDoneKeeps ==
    ASSUME SchedInv, FlashDone
    PROVE  SchedInv'
<1>1. /\ soc \in [busy : BOOLEAN, events : 0 .. MaxRequests] /\ counts.requests \in 0 .. MaxRequests
      /\ soc.busy /\ soc' = [busy |-> FALSE, events |-> soc.events + 1] /\ irq' = TRUE
      /\ UNCHANGED <<queue, loop, event, wake, failed, ran, counts>>
  BY DEF FlashDone, SchedInv, SchedTypeOK
<1>2. soc'.events <= counts.requests /\ soc' \in [busy : BOOLEAN, events : 0 .. MaxRequests]
  BY <1>1, BoundsAssumption DEF SchedInv, Operations
<1>3. Operations'
  BY <1>1, <1>2 DEF Operations
<1>4. SchedTypeOK' /\ Woken' /\ Fetched' /\ RunningSlot'
  BY <1>1, <1>2
     DEF SchedInv, SchedTypeOK, Woken, Fetched, RunningSlot, Running, QueueEmpty, queue, next_index
<1> QED
  BY <1>1, <1>3, <1>4, QueueUntouched DEF SchedInv

LEMMA WaitKeeps ==
    ASSUME SchedInv, Wait
    PROVE  SchedInv'
<1>1. /\ loop.at = "wait" /\ loop' = [loop EXCEPT !.at = "execute"] /\ wake' = FALSE
      /\ UNCHANGED <<queue, event, soc, irq, failed, ran, counts>>
  BY DEF Wait, At, GoTo
<1>2. loop'.at = "execute" /\ loop'.slot = loop.slot /\ SchedTypeOK'
  BY <1>1 DEF SchedInv, SchedTypeOK, queue
<1>3. Operations' /\ Woken' /\ Fetched'
  BY <1>1, <1>2, QueueUntouched DEF SchedInv, Operations, Woken, Fetched
<1> QED
  BY <1>1, <1>2, <1>3, QueueUntouched DEF SchedInv

(* The first event leaves the queue, its slot is the one that runs. *)
LEMMA GetEventKeeps ==
    ASSUME SchedInv, GetEvent
    PROVE  SchedInv'
<1>1. /\ loop.at = "execute" /\ ~failed /\ ~QueueEmpty
      /\ loop' = [at |-> "taken", slot |-> m_queue_start_index]
      /\ m_queue_start_index' = next_index(m_queue_start_index)
      /\ UNCHANGED <<m_queue, m_queue_end_index, event, wake, soc, irq, failed, ran, counts>>
  BY DEF GetEvent, At
<1>2. /\ m_queue_start_index \in Slots
      /\ Queued(m_queue_start_index)
      /\ \A s \in Slots : Queued(s)' <=> Queued(s) /\ s # m_queue_start_index
      /\ QueueLength' = QueueLength - 1
  BY <1>1, GetSlot DEF SchedInv, SchedTypeOK
<1>3. SchedTypeOK'
  BY <1>1, <1>2, NextIndex DEF SchedInv, SchedTypeOK
<1>4. RunningSlot'
  BY <1>1, <1>2 DEF SchedInv, RunningSlot, QueuedSlots, Running, next_index
<1>5. QueuedSlots'
  BY <1>1, <1>2 DEF SchedInv, QueuedSlots, Slots
<1>6. Operations' /\ Woken' /\ NeverFull'
  BY <1>1 DEF SchedInv, Operations, Woken, NeverFull
<1>7. Counted'
  <2>1. QueueLength \in Int /\ counts.burst \in Nat /\ QueueLength <= counts.burst
    BY <1>1, LengthOfQueue DEF SchedInv, SchedTypeOK, Counted
  <2> QED
    BY <1>1, <1>2, <2>1 DEF Counted
<1>8. Fetched'
  <2>1. CASE \E s \in Slots : Queued(s) /\ s # m_queue_start_index /\ m_queue[s] = FetchEvents
    BY <1>1, <1>2, <2>1 DEF Fetched, FetchQueued, Slots
  <2>2. CASE m_queue[m_queue_start_index] = FetchEvents
    BY <1>1, <2>2 DEF Fetched
  <2>3. CASE ~FetchQueued
    BY <1>1, <2>3 DEF SchedInv, Fetched
  <2> QED
    BY <2>1, <2>2, <2>3 DEF FetchQueued
<1> QED
  BY <1>3, <1>4, <1>5, <1>6, <1>7, <1>8 DEF SchedInv

LEMMA ReadHeaderKeeps ==
    ASSUME SchedInv, ReadHeader
    PROVE  SchedInv'
<1>1. /\ loop.at = "taken" /\ ~failed
      /\ event' = m_queue[loop.slot]
      /\ loop' = [loop EXCEPT !.at = IF event' = FetchEvents THEN "fetch" ELSE "run"]
      /\ ran' = IF event' = FetchEvents THEN Append(ran, event') ELSE ran
      /\ UNCHANGED <<queue, wake, soc, irq, failed, counts>>
  BY DEF ReadHeader, At, GoTo
<1>2. event' \in Event
  BY <1>1 DEF SchedInv, RunningSlot, Running
<1>3. /\ loop'.at = IF event' = FetchEvents THEN "fetch" ELSE "run"
      /\ loop'.slot = loop.slot
  BY <1>1 DEF SchedInv, SchedTypeOK
<1>4. SchedTypeOK'
  BY <1>1, <1>2, <1>3 DEF SchedInv, SchedTypeOK, queue
<1>5. RunningSlot'
  BY <1>1, <1>2, <1>3 DEF SchedInv, RunningSlot, Running, queue, next_index
<1>6. Operations' /\ Woken' /\ Fetched'
  BY <1>1, <1>3, QueueUntouched DEF SchedInv, Operations, Woken, Fetched
<1> QED
  BY <1>1, <1>4, <1>5, <1>6, QueueUntouched DEF SchedInv

LEMMA RunTimeoutKeeps ==
    ASSUME SchedInv, RunTimeout
    PROVE  SchedInv'
<1>1. /\ loop.at = "run" /\ ~failed
      /\ ran' = Append(ran, m_queue[loop.slot]) /\ event' = Free
      /\ loop' = [loop EXCEPT !.at = "execute"]
      /\ UNCHANGED <<queue, wake, soc, irq, failed, counts>>
  BY DEF RunTimeout, At, GoTo
<1>2. m_queue[loop.slot] \in Event
  BY <1>1 DEF SchedInv, RunningSlot, Running
<1>3. loop'.at = "execute" /\ loop'.slot = loop.slot
  BY <1>1 DEF SchedInv, SchedTypeOK
<1>4. SchedTypeOK'
  <2>1. ran' \in Seq(Event)
    BY <1>1, <1>2 DEF SchedInv, SchedTypeOK
  <2>2. loop' \in [at : {"execute"}, slot : Slots] /\ event' \in Event \cup {Free}
    BY <1>1 DEF SchedInv, SchedTypeOK
  <2> QED
    BY <1>1, <2>1, <2>2 DEF SchedInv, SchedTypeOK, queue
<1>5. Operations' /\ Woken' /\ Fetched'
  BY <1>1, <1>3, QueueUntouched DEF SchedInv, Operations, Woken, Fetched
<1> QED
  BY <1>1, <1>3, <1>4, <1>5, QueueUntouched DEF SchedInv

LEMMA FetchEventKeeps ==
    ASSUME SchedInv, FetchEvent
    PROVE  SchedInv'
<1>1. /\ loop.at = "fetch" /\ soc.events > 0
      /\ UNCHANGED <<queue, loop, event, wake, irq, failed, ran>>
  BY DEF FetchEvent, At
<1>2. /\ soc \in [busy : BOOLEAN, events : 0 .. MaxRequests]
      /\ counts \in [burst : 0 .. Burst, timeouts : 0 .. MaxTimeouts, requests : 0 .. MaxRequests]
      /\ counts.requests \in 0 .. MaxRequests /\ soc.events \in 0 .. MaxRequests
  BY DEF SchedInv, SchedTypeOK
<1>3. /\ soc' \in [busy : BOOLEAN, events : 0 .. MaxRequests]
      /\ counts' \in [burst : 0 .. Burst, timeouts : 0 .. MaxTimeouts, requests : 0 .. MaxRequests]
      /\ counts'.burst = counts.burst
      /\ Operations'
  <2>1. CASE soc' = [soc EXCEPT !.events = @ - 1] /\ UNCHANGED counts
    <3>1. soc'.events = soc.events - 1 /\ soc'.busy = soc.busy
      BY <1>2, <2>1
    <3>2. Operations'
      BY <1>2, <2>1, <3>1 DEF SchedInv, Operations
    <3>3. soc.events - 1 \in 0 .. MaxRequests
      BY <1>1, <1>2, BoundsAssumption
    <3> QED
      BY <1>2, <2>1, <3>2, <3>3
  <2>2. CASE /\ ~soc.busy /\ counts.requests < MaxRequests
             /\ soc' = [busy |-> TRUE, events |-> 0]
             /\ counts' = [counts EXCEPT !.requests = @ + 1]
    <3>1. counts.requests + 1 \in 0 .. MaxRequests /\ counts'.requests = counts.requests + 1
      BY <1>2, <2>2, BoundsAssumption
    <3>2. 0 \in 0 .. MaxRequests
      BY BoundsAssumption
    <3> QED
      BY <1>2, <2>2, <3>1, <3>2 DEF Operations
  <2> QED
    BY <2>1, <2>2 DEF FetchEvent
<1>4. SchedTypeOK'
  BY <1>1, <1>3 DEF SchedInv, SchedTypeOK, queue
<1>5. Woken' /\ Fetched' /\ RunningSlot'
  BY <1>1, QueueUntouched, <1>3 DEF SchedInv, Woken, Fetched, RunningSlot, Running
<1> QED
  BY <1>1, <1>3, <1>4, <1>5, QueueUntouched DEF SchedInv

LEMMA FetchNoneKeeps ==
    ASSUME SchedInv, FetchNone
    PROVE  SchedInv'
<1>1. /\ loop.at = "fetch" /\ soc.events = 0 /\ event' = Free
      /\ loop' = [loop EXCEPT !.at = "execute"]
      /\ UNCHANGED <<queue, wake, soc, irq, failed, ran, counts>>
  BY DEF FetchNone, At, GoTo
<1>2. loop'.at = "execute" /\ loop'.slot = loop.slot /\ SchedTypeOK'
  BY <1>1 DEF SchedInv, SchedTypeOK, queue
<1>3. Operations' /\ Woken' /\ Fetched'
  BY <1>1, <1>2 DEF SchedInv, Operations, Woken, Fetched
<1> QED
  BY <1>1, <1>2, <1>3, QueueUntouched DEF SchedInv

(* The queue is empty: a new count begins. *)
LEMMA AllExecutedKeeps ==
    ASSUME SchedInv, AllExecuted
    PROVE  SchedInv'
<1>1. /\ loop.at = "execute" /\ ~failed /\ QueueEmpty
      /\ loop' = [loop EXCEPT !.at = "step"]
      /\ counts' = [counts EXCEPT !.burst = 0]
      /\ UNCHANGED <<queue, event, wake, soc, irq, failed, ran>>
  BY DEF AllExecuted, At, GoTo
<1>2. /\ loop'.at = "step" /\ loop'.slot = loop.slot
      /\ counts'.burst = 0 /\ counts'.requests = counts.requests
      /\ 0 \in 0 .. Burst
  BY <1>1, QueueSizes DEF SchedInv, SchedTypeOK
<1>3. SchedTypeOK'
  BY <1>1, <1>2 DEF SchedInv, SchedTypeOK, queue
<1>4. QueueLength' = 0 /\ QueueEmpty'
  BY <1>1, LengthOfQueue DEF SchedInv, QueueLength, QueueEmpty, queue
<1>5. Counted' /\ NeverFull' /\ Woken' /\ Operations'
  BY <1>1, <1>2, <1>4 DEF SchedInv, Counted, NeverFull, Woken, Operations
<1>6. QueuedSlots' /\ RunningSlot' /\ Fetched'
  BY <1>1, <1>2
     DEF SchedInv, QueuedSlots, RunningSlot, Fetched, FetchQueued, Queued, Running, Slots, queue
<1> QED
  BY <1>3, <1>5, <1>6 DEF SchedInv

LEMMA UpdateKeeps ==
    ASSUME SchedInv, Update
    PROVE  SchedInv'
<1>1. /\ loop.at = "step" /\ MayAsk
      /\ loop' = [loop EXCEPT !.at = "wait"]
      /\ UNCHANGED <<queue, event, wake, irq, failed, ran>>
  BY DEF Update, At, GoTo
<1>2. loop'.at = "wait" /\ loop'.slot = loop.slot /\ loop' \in [at : {"wait"}, slot : Slots]
  BY <1>1 DEF SchedInv, SchedTypeOK
<1>3. /\ soc \in [busy : BOOLEAN, events : 0 .. MaxRequests]
      /\ counts \in [burst : 0 .. Burst, timeouts : 0 .. MaxTimeouts, requests : 0 .. MaxRequests]
      /\ counts.requests \in 0 .. MaxRequests
  BY DEF SchedInv, SchedTypeOK
<1>4. /\ soc' \in [busy : BOOLEAN, events : 0 .. MaxRequests]
      /\ counts' \in [burst : 0 .. Burst, timeouts : 0 .. MaxTimeouts, requests : 0 .. MaxRequests]
      /\ counts'.burst = counts.burst /\ soc'.events = soc.events
      /\ Operations'
  <2>1. CASE UNCHANGED <<soc, counts>>
    BY <1>3, <2>1 DEF SchedInv, Operations
  <2>2. CASE /\ soc.events = 0 /\ counts.requests < MaxRequests
             /\ soc' = [soc EXCEPT !.busy = TRUE]
             /\ counts' = [counts EXCEPT !.requests = @ + 1]
    <3>1. counts.requests + 1 \in 0 .. MaxRequests /\ counts'.requests = counts.requests + 1
      BY <1>3, <2>2, BoundsAssumption
    <3>2. soc'.busy /\ soc'.events = soc.events /\ soc' \in [busy : BOOLEAN, events : 0 .. MaxRequests]
      BY <1>3, <2>2
    <3>3. /\ counts' \in [burst : 0 .. Burst, timeouts : 0 .. MaxTimeouts, requests : 0 .. MaxRequests]
          /\ counts'.burst = counts.burst
      BY <1>3, <2>2, <3>1
    <3>4. Operations'
      BY <1>3, <2>2, <3>1, <3>2 DEF Operations
    <3> QED
      BY <3>2, <3>3, <3>4
  <2> QED
    BY <1>1, <2>1, <2>2 DEF MayAsk
<1>5. SchedTypeOK'
  BY <1>1, <1>2, <1>4 DEF SchedInv, SchedTypeOK, queue
<1>6. Woken' /\ Fetched'
  BY <1>1, <1>2, <1>4, QueueUntouched DEF SchedInv, Woken, Fetched
<1> QED
  BY <1>1, <1>2, <1>4, <1>5, <1>6, QueueUntouched DEF SchedInv

LEMMA SchedInvariant == SchedInit /\ [][SchedNext]_schedVars => []SchedInv
<1>1. SchedInv /\ [SchedNext]_schedVars => SchedInv'
  <2> SUFFICES ASSUME SchedInv, [SchedNext]_schedVars PROVE SchedInv'
    OBVIOUS
  <2>1. CASE UNCHANGED schedVars
    <3>1. /\ UNCHANGED <<queue, failed, counts>>
          /\ UNCHANGED <<loop, event, wake, soc, irq, ran>>
      BY <2>1 DEF schedVars, queue
    <3>2. SchedTypeOK' /\ RunningSlot' /\ Operations' /\ Woken'
      BY <3>1 DEF SchedInv, SchedTypeOK, RunningSlot, Running, Operations, Woken, QueueEmpty,
                  queue, next_index
    <3>3. Fetched'
      BY <3>1, QueueUntouched DEF SchedInv, Fetched, queue
    <3> QED
      BY <3>1, <3>2, <3>3, QueueUntouched DEF SchedInv
  <2> QED
    BY <2>1, TimerIrqKeeps, FlashDoneKeeps, SoftDeviceIrqKeeps, WaitKeeps, GetEventKeeps,
       ReadHeaderKeeps, RunTimeoutKeeps, FetchEventKeeps, FetchNoneKeeps, AllExecutedKeeps,
       UpdateKeeps
       DEF SchedNext, BootLoop
<1> QED
  BY <1>1, SchedInitHolds, PTL

(* Whatever is in the slots, the indices and the loop are values the code   *)
(* can hold, and nobody asks for more operations than there are.           *)
THEOREM SchedTypeCorrect == SchedSpec => []SchedTypeOK
<1>1. SchedInv => SchedTypeOK
  BY DEF SchedInv
<1> QED
  BY <1>1, SchedInvariant, PTL DEF SchedSpec

(* app_sched_event_put refuses no event unless more came than the queue has *)
(* room for since the loop found it empty, also while an event runs.       *)
THEOREM RefusesBurstsOnly == SchedSpec => []NeverFull
<1>1. SchedInv => NeverFull
  BY DEF SchedInv
<1> QED
  BY <1>1, SchedInvariant, PTL DEF SchedSpec

(* The loop does not go to sleep over an event that came between its look   *)
(* at the queue and sd_app_evt_wait.                                       *)
THEOREM SleepsOnlyWhenEmpty == SchedSpec => []WakesForEvents
<1>1. SchedInv => WakesForEvents
  BY DEF SchedInv, Woken, WakesForEvents
<1> QED
  BY <1>1, SchedInvariant, PTL DEF SchedSpec

(* An event of the SoftDevice that nobody has fetched is on the way: its    *)
(* interrupt is pending, its handler is queued or has not yet finished.    *)
THEOREM StrandsNothing == SchedSpec => []NothingStranded
<1>1. SchedInv => NothingStranded
  <2> SUFFICES ASSUME SchedInv PROVE NothingStranded
    OBVIOUS
  <2>1. FetchQueued => \E i \in 1 .. QueueLength : QueuedEvents[i] = FetchEvents
    BY SlotsOfQueue DEF SchedInv, FetchQueued, QueuedEvents
  <2> QED
    BY <2>1 DEF SchedInv, Fetched, NothingStranded
<1> QED
  BY <1>1, SchedInvariant, PTL DEF SchedSpec

-----------------------------------------------------------------------------
(* The order of the events *)

LEMMA QueueIsSeq ==
    ASSUME SchedInv
    PROVE  /\ QueuedEvents \in Seq(Event) /\ Len(QueuedEvents) = QueueLength
           /\ \A i \in 1 .. QueueLength : QueuedEvents[i] = m_queue[SlotOf(i)]
           /\ QueueLength \in Nat
<1>1. QueueLength \in Nat
  BY LengthOfQueue, QueueSizes DEF SchedInv
<1>2. \A i \in 1 .. QueueLength : m_queue[SlotOf(i)] \in Event
  BY SlotsOfQueue DEF SchedInv, QueuedSlots
<1> QED
  BY <1>1, <1>2 DEF QueuedEvents

LEMMA TakenIsSeq ==
    ASSUME SchedInv
    PROVE  Taken \in Seq(Event)
BY DEF SchedInv, RunningSlot, Running, Taken

(* A put appends an event. *)
LEMMA EventPut ==
    ASSUME SchedInv, NEW e \in Event, Put(e), ~QueueFull
    PROVE  QueuedEvents' = Append(QueuedEvents, e)
<1>1. /\ m_queue' = [m_queue EXCEPT ![m_queue_end_index] = e]
      /\ m_queue_end_index' = next_index(m_queue_end_index)
      /\ m_queue_start_index' = m_queue_start_index
      /\ QueueLength' = QueueLength + 1
      /\ ~Queued(m_queue_end_index)
  BY PutSlot DEF SchedInv, Put
<1>2. /\ m_queue \in [Slots -> Event \cup {Free}]
      /\ m_queue_start_index \in Slots /\ m_queue_end_index \in Slots
  BY DEF SchedInv, SchedTypeOK
<1>3. /\ SlotOf(QueueLength + 1) = m_queue_end_index
      /\ \A i : SlotOf(i)' = SlotOf(i)
  BY <1>1, <1>2, QueueSizes DEF Slots, SlotOf, QueueLength
<1>4. \A i \in 1 .. QueueLength : m_queue'[SlotOf(i)] = m_queue[SlotOf(i)]
  BY <1>1, <1>2, SlotsOfQueue DEF SchedInv
<1>5. m_queue'[SlotOf(QueueLength + 1)] = e
  BY <1>1, <1>2, <1>3
<1>6. QueuedEvents' = [i \in 1 .. QueueLength + 1 |-> m_queue'[SlotOf(i)]]
  BY <1>1, <1>3 DEF QueuedEvents
<1>7. /\ Append(QueuedEvents, e) \in Seq(Event) /\ Len(Append(QueuedEvents, e)) = QueueLength + 1
      /\ \A i \in 1 .. QueueLength : Append(QueuedEvents, e)[i] = QueuedEvents[i]
      /\ Append(QueuedEvents, e)[QueueLength + 1] = e
  BY QueueIsSeq, AppendProperties
<1>8. \A i \in 1 .. QueueLength + 1 : m_queue'[SlotOf(i)] \in Event
  BY <1>4, <1>5, QueueIsSeq, SlotsOfQueue DEF SchedInv, QueuedSlots
<1>9. QueuedEvents' \in Seq(Event) /\ Len(QueuedEvents') = QueueLength + 1
  BY <1>6, <1>8, QueueIsSeq
<1>10. \A i \in 1 .. QueueLength + 1 : QueuedEvents'[i] = Append(QueuedEvents, e)[i]
  BY <1>4, <1>5, <1>6, <1>7, QueueIsSeq
<1> QED
  BY <1>7, <1>9, <1>10, SeqEqual

(* Taking the first event out leaves the others. *)
LEMMA EventTaken ==
    ASSUME SchedInv, ~QueueEmpty, UNCHANGED <<m_queue, m_queue_end_index>>,
           m_queue_start_index' = next_index(m_queue_start_index)
    PROVE  QueuedEvents = <<m_queue[m_queue_start_index]>> \o QueuedEvents'
<1>1. QueueLength' = QueueLength - 1 /\ QueueLength \in Nat /\ QueueLength > 0
  BY GetSlot, LengthOfQueue, QueueSizes DEF SchedInv
<1>2. m_queue_start_index \in Slots /\ m_queue_end_index \in Slots
  BY DEF SchedInv, SchedTypeOK
<1>3. /\ SlotOf(1) = m_queue_start_index
      /\ \A i \in 1 .. QueueLength - 1 : SlotOf(i)' = SlotOf(i + 1)
  <2>1. QueueLength <= QueueSize
    BY LengthOfQueue, QueueSizes DEF SchedInv
  <2>2. SlotOf(1) = m_queue_start_index
    BY <1>2, QueueSizes DEF Slots, SlotOf
  <2>3. ASSUME NEW i \in 1 .. QueueLength - 1 PROVE SlotOf(i)' = SlotOf(i + 1)
    <3>1. i \in Int /\ i >= 1
      BY <1>1
    <3> QED
      BY <1>1, <1>2, <2>1, <3>1, QueueSizes DEF Slots, SlotOf, next_index
  <2> QED
    BY <2>2, <2>3
<1>4. QueuedEvents' = [i \in 1 .. QueueLength - 1 |-> m_queue[SlotOf(i + 1)]]
  BY <1>1, <1>3 DEF QueuedEvents
<1>5. \A i \in 1 .. QueueLength : m_queue[SlotOf(i)] \in Event
  BY SlotsOfQueue DEF SchedInv, QueuedSlots
<1>6. QueuedEvents' \in Seq(Event) /\ Len(QueuedEvents') = QueueLength - 1
  BY <1>1, <1>4, <1>5
<1>7. <<m_queue[m_queue_start_index]>> \in Seq(Event)
  BY <1>1, <1>3, <1>5
<1> DEFINE both == <<m_queue[m_queue_start_index]>> \o QueuedEvents'
<1>8. /\ both \in Seq(Event) /\ Len(both) = QueueLength
      /\ \A i \in 1 .. QueueLength :
           both[i] = IF i <= 1 THEN m_queue[m_queue_start_index] ELSE QueuedEvents'[i - 1]
  BY <1>1, <1>6, <1>7, ConcatProperties
<1>9. \A i \in 1 .. QueueLength : both[i] = QueuedEvents[i]
  BY <1>1, <1>3, <1>4, <1>8, QueueIsSeq
<1> HIDE DEF both
<1>10. both = QueuedEvents
  BY <1>8, <1>9, QueueIsSeq, SeqEqual
<1> QED
  BY <1>10 DEF both

Pending == Taken \o QueuedEvents

(* The event that has come out of the queue first comes out of the stream. *)
LEMMA FirstOut ==
    ASSUME SchedInv, loop.at \in {"taken", "run"}, UNCHANGED queue, Taken' = <<>>,
           ran' = Append(ran, m_queue[loop.slot])
    PROVE  Events!Take
<1>1. Taken = <<m_queue[loop.slot]>> /\ m_queue[loop.slot] \in Event
  BY DEF Taken, SchedInv, RunningSlot, Running
<1>2. QueuedEvents' = QueuedEvents
  BY DEF QueuedEvents, QueueLength, SlotOf, queue
<1> DEFINE first == <<m_queue[loop.slot]>>
           n == Len(QueuedEvents)
<1>3. /\ QueuedEvents \in Seq(Event) /\ n \in Nat
      /\ first \in Seq(Event) /\ Len(first) = 1 /\ first[1] = m_queue[loop.slot]
  BY <1>1, QueueIsSeq
<1>4. /\ Pending \in Seq(Event) /\ Len(Pending) = n + 1
      /\ \A i \in 1 .. n + 1 : Pending[i] = IF i <= 1 THEN first[i] ELSE QueuedEvents[i - 1]
      /\ DOMAIN Pending = 1 .. n + 1
  <2>1. Pending = first \o QueuedEvents
    BY <1>1 DEF Pending
  <2> HIDE DEF first
  <2>2. /\ first \o QueuedEvents \in Seq(Event) /\ Len(first \o QueuedEvents) = 1 + n
        /\ \A i \in 1 .. 1 + n : (first \o QueuedEvents)[i] =
                IF i <= 1 THEN first[i] ELSE QueuedEvents[i - 1]
    <3>1. /\ first \o QueuedEvents \in Seq(Event)
          /\ Len(first \o QueuedEvents) = Len(first) + Len(QueuedEvents)
          /\ \A i \in 1 .. Len(first) + Len(QueuedEvents) : (first \o QueuedEvents)[i] =
               IF i <= Len(first) THEN first[i] ELSE QueuedEvents[i - Len(first)]
      BY <1>3, ConcatProperties, Zenon
    <3> QED
      BY <1>3, <3>1
  <2>3. 1 + n = n + 1
    BY <1>3
  <2>4. DOMAIN Pending = 1 .. n + 1
    BY <2>1, <2>2, <2>3, LenProperties
  <2> QED
    BY <2>1, <2>2, <2>3, <2>4
<1>5. Pending' = QueuedEvents
  BY <1>2, <1>3, ConcatEmptySeq DEF Pending
<1>6. SubSeq(Pending, 2, Len(Pending)) = QueuedEvents
  <2>1. \A i \in 2 .. n + 1 : Pending[i] \in Event
    BY <1>3, <1>4, ElementOfSeq
  <2>2. /\ SubSeq(Pending, 2, n + 1) \in Seq(Event)
        /\ Len(SubSeq(Pending, 2, n + 1)) = n
        /\ \A i \in 1 .. n : SubSeq(Pending, 2, n + 1)[i] = Pending[i + 1]
    BY <1>3, <2>1, SubSeqProperties
  <2>3. \A i \in 1 .. n : Pending[i + 1] = QueuedEvents[i]
    BY <1>3, <1>4
  <2>4. SubSeq(Pending, 2, n + 1) = QueuedEvents
    BY <1>3, <2>2, <2>3, SeqEqual
  <2> QED
    BY <1>4, <2>4
<1>7. 1 \in DOMAIN Pending /\ Pending[1] = m_queue[loop.slot]
  BY <1>3, <1>4
<1>8. Events!Remain(1 + 1)
  BY <1>5, <1>6 DEF Events!Remain, Pending
<1> QED
  BY <1>7, <1>8 DEF Events!Take, Pending

(* Steps of the loop with no event taken out and the queue left alone. *)
LEMMA NothingMoves ==
    ASSUME UNCHANGED <<queue, ran>>, Taken' = Taken
    PROVE  UNCHANGED <<Pending, ran>>
BY DEF Pending, QueuedEvents, QueueLength, SlotOf, queue

LEMMA PutArrives ==
    ASSUME SchedInv, NEW e \in Event, Put(e), UNCHANGED <<loop, ran>>, SchedInv'
    PROVE  Events!Arrive \/ UNCHANGED <<Pending, ran>>
<1>1. CASE QueueFull
  <2>1. UNCHANGED queue
    BY <1>1 DEF Put
  <2>2. Taken' = Taken
    BY <2>1 DEF Taken, queue
  <2> QED
    BY <2>1, <2>2, NothingMoves
<1>2. CASE ~QueueFull
  <2>1. QueuedEvents' = Append(QueuedEvents, e)
    BY <1>2, EventPut
  <2>2. Taken' = Taken
    <3>1. /\ m_queue' = [m_queue EXCEPT ![m_queue_end_index] = e]
          /\ ~Queued(m_queue_end_index) /\ next_index(m_queue_end_index) # m_queue_start_index
      BY <1>2, PutSlot DEF SchedInv, Put
    <3>2. Running => loop.slot # m_queue_end_index
      BY <3>1 DEF SchedInv, RunningSlot
    <3>3. Running => m_queue'[loop.slot] = m_queue[loop.slot]
      BY <3>1, <3>2 DEF SchedInv, SchedTypeOK
    <3> QED
      BY <3>3 DEF Taken, Running
  <2>3. <<e>> \in Seq(Event)
    OBVIOUS
  <2>4. Append(QueuedEvents, e) = QueuedEvents \o <<e>>
    BY QueueIsSeq, AppendIsConcat
  <2>5. Pending \in Seq(Event)
    BY QueueIsSeq, TakenIsSeq, ConcatProperties DEF Pending
  <2>6. Append(Pending, e) = Pending \o <<e>>
    BY <2>5, AppendIsConcat
  <2>7. (Taken \o QueuedEvents) \o <<e>> = Taken \o (QueuedEvents \o <<e>>)
    BY <2>3, QueueIsSeq, TakenIsSeq, ConcatAssociative
  <2>8. Pending' = Append(Pending, e)
    BY <2>1, <2>2, <2>4, <2>6, <2>7 DEF Pending
  <2> QED
    BY <2>8 DEF Events!Arrive, Pending
<1> QED
  BY <1>1, <1>2

LEMMA GetStutters ==
    ASSUME SchedInv, GetEvent
    PROVE  UNCHANGED <<Pending, ran>>
<1>1. /\ loop.at = "execute" /\ ~QueueEmpty
      /\ loop' = [at |-> "taken", slot |-> m_queue_start_index]
      /\ m_queue_start_index' = next_index(m_queue_start_index)
      /\ UNCHANGED <<m_queue, m_queue_end_index, ran>>
  BY DEF GetEvent, At
<1>2. QueuedEvents = <<m_queue[m_queue_start_index]>> \o QueuedEvents'
  BY <1>1, EventTaken
<1>3. Taken = <<>> /\ Taken' = <<m_queue[m_queue_start_index]>>
  BY <1>1 DEF Taken
<1>4. Pending = QueuedEvents
  BY <1>3, QueueIsSeq, ConcatEmptySeq DEF Pending
<1> QED
  BY <1>1, <1>2, <1>3, <1>4 DEF Pending

(* Each step of the loop and of the interrupts is one of the stream's, or   *)
(* leaves it alone.                                                        *)
LEMMA StreamStep ==
    ASSUME SchedInv, SchedInv', [SchedNext]_schedVars
    PROVE  Events!Arrive \/ Events!Take \/ UNCHANGED <<Pending, ran>>
<1>1. CASE TimerIrq
  <2>1. PICK e \in Timeout : Put(e)
    BY <1>1 DEF TimerIrq
  <2> QED
    BY <1>1, <2>1, PutArrives, FetchIsEvent DEF TimerIrq
<1>2. CASE SoftDeviceIrq
  BY <1>2, PutArrives, FetchIsEvent DEF SoftDeviceIrq
<1>3. CASE GetEvent
  BY <1>3, GetStutters
<1>4. CASE ReadHeader
  <2>1. /\ loop.at = "taken" /\ event' = m_queue[loop.slot]
        /\ loop' = [loop EXCEPT !.at = IF event' = FetchEvents THEN "fetch" ELSE "run"]
        /\ ran' = IF event' = FetchEvents THEN Append(ran, event') ELSE ran
        /\ UNCHANGED queue
    BY <1>4 DEF ReadHeader, At, GoTo
  <2>2. /\ loop'.at = IF event' = FetchEvents THEN "fetch" ELSE "run"
        /\ loop'.slot = loop.slot
    BY <2>1 DEF SchedInv, SchedTypeOK
  <2>3. CASE event' = FetchEvents
    BY <2>1, <2>2, <2>3, FirstOut DEF Taken
  <2>4. CASE event' # FetchEvents
    BY <2>1, <2>2, <2>4, NothingMoves DEF Taken, queue
  <2> QED
    BY <2>3, <2>4
<1>5. CASE RunTimeout
  <2>1. /\ loop.at = "run" /\ ran' = Append(ran, m_queue[loop.slot])
        /\ loop' = [loop EXCEPT !.at = "execute"] /\ UNCHANGED queue
    BY <1>5 DEF RunTimeout, At, GoTo
  <2>2. loop'.at = "execute"
    BY <2>1 DEF SchedInv, SchedTypeOK
  <2> QED
    BY <2>1, <2>2, FirstOut DEF Taken
<1>6. CASE FlashDone \/ FetchEvent \/ UNCHANGED schedVars
  BY <1>6, NothingMoves DEF FlashDone, FetchEvent, schedVars, queue, Taken
<1>7. CASE Wait \/ FetchNone \/ AllExecuted \/ Update
  <2>1. /\ loop.at \notin {"taken", "run"}
        /\ \E place \in {"execute", "step", "wait"} : loop' = [loop EXCEPT !.at = place]
        /\ UNCHANGED <<queue, ran>>
    BY <1>7 DEF Wait, FetchNone, AllExecuted, Update, At, GoTo
  <2>2. loop'.at \notin {"taken", "run"}
    BY <2>1 DEF SchedInv, SchedTypeOK
  <2> QED
    BY <2>1, <2>2, NothingMoves DEF Taken
<1> QED
  BY <1>1, <1>2, <1>3, <1>4, <1>5, <1>6, <1>7 DEF SchedNext, BootLoop

(* The loop runs the events in the order in which they were put, each once  *)
(* and with its own data: the scheduler implements a stream that loses     *)
(* nothing.                                                                *)
THEOREM RunsInOrder == SchedSpec => ImplementsStream
<1>1. SchedInit => Events!Init
  <2> SUFFICES ASSUME SchedInit PROVE Events!Init
    OBVIOUS
  <2>1. Taken = <<>> /\ QueueLength = 0
    BY QueueSizes DEF SchedInit, Taken, QueueLength
  <2>2. QueuedEvents = <<>>
    BY <2>1 DEF QueuedEvents
  <2> QED
    BY <2>1, <2>2 DEF SchedInit, Events!Init
<1>2. SchedInv /\ SchedInv' /\ [SchedNext]_schedVars =>
        [Events!Next]_<<FALSE, Taken \o QueuedEvents, ran>>
  BY StreamStep DEF Events!Next, Pending
<1> QED
  BY <1>1, <1>2, SchedInvariant, PTL DEF SchedSpec, ImplementsStream, Events!Spec
=============================================================================
