------------------------- MODULE DfuBootloader_proofs -------------------------
(***************************************************************************)
(* Proofs about DfuBootloader, for every queue size, page size, bank size  *)
(* and set of image sizes.                                                 *)
(***************************************************************************)
EXTENDS DfuBootloader, TLAPS

-----------------------------------------------------------------------------
(* The queue operators on a queue with at most one command *)

(* A quiet queue: nothing queued, nothing asked of the SoftDevice. *)
QuietQueue(q) == q.count = 0 /\ ~q.flash_access /\ q.round = 0

(* The queue works on piece r of its only command c. *)
WorksOn(q, c, r) ==
    /\ q.count = 1 /\ q.flash_access /\ q.round = r
    /\ q.cmd[q.rp] = c

Commands == [op_code : {"STORE", "CLEAR"}, size : Nat, offset : Nat,
             data : Data \cup {NoData}]

RequestOf(c, r) == IF c.op_code = "STORE" THEN StoreRequest(c, r) ELSE ClearRequest(r)

LEMMA ConstantTypes ==
    /\ QueueSize \in Nat \ {0}
    /\ PageWords \in Nat \ {0}
    /\ PageBytes = 4 * PageWords
    /\ PageBytes \in Nat \ {0}
  BY QueueSizeAssumption, PageWordsAssumption DEF PageBytes, WordBytes

(* A command put into a quiet queue ends up at the read pointer. *)
LEMMA PutInQuiet ==
  ASSUME NEW q \in Queue(Data), QuietQueue(q), NEW c \in Commands
  PROVE  /\ Put(q, c) \in Queue(Data)
         /\ Put(q, c).count = 0 /\ Put(q, c).round = 0
         /\ Put(q, c).flash_access = FALSE
         /\ Put(q, c).rp = q.rp
         /\ Put(q, c).cmd[q.rp] = c
<1>1. Wrap(q.rp + q.count) = q.rp
  BY ConstantTypes DEF Queue, QuietQueue, Wrap
<1> QED
  BY <1>1, ConstantTypes DEF Queue, QuietQueue, Commands, Put

(* What cmd_process leaves behind, whatever the command at rp is. *)
LEMMA ProcessResult ==
  ASSUME NEW q \in Queue(Data), q.flash_access = FALSE, NEW c \in Commands,
         q.cmd[q.rp] = c
  PROVE  LET run == Process(q, NoRequest)
             ok  == RequestOf(c, q.round).words # 0
         IN  /\ run.q = [q EXCEPT !.flash_access = ok]
             /\ run.soc = IF ok THEN RequestOf(c, q.round) ELSE NoRequest
             /\ run.ret = IF ok THEN "SUCCESS" ELSE "INVALID_LENGTH"
<1> DEFINE req == RequestOf(c, q.round)
           ret == SocAnswer(NoRequest, req)
<1>1. ret = IF req.words # 0 THEN "SUCCESS" ELSE "INVALID_LENGTH"
  BY DEF SocAnswer, NoRequest
<1>2. c.op_code # "INVALID"
  BY DEF Commands
<1>3. Process(q, NoRequest) =
         [q |-> [q EXCEPT !.flash_access = @ \/ ret = "SUCCESS"],
          soc |-> IF ret = "SUCCESS" THEN req ELSE NoRequest, ret |-> ret]
  BY <1>2, Zenon DEF Process, RequestOf
<1>4. (q.flash_access \/ ret = "SUCCESS") = (req.words # 0)
  BY <1>1
<1>5. Process(q, NoRequest) =
         [q |-> [q EXCEPT !.flash_access = (req.words # 0)],
          soc |-> IF ret = "SUCCESS" THEN req ELSE NoRequest, ret |-> ret]
  BY <1>3, <1>4, Zenon
<1> HIDE DEF req, ret
<1> QED
  BY <1>1, <1>5 DEF req

(* A command given to a quiet queue: its first request goes straight to    *)
(* the SoftDevice; one that asks for no word stays in the queue, refused.  *)
LEMMA EnqueueResult ==
  ASSUME NEW q \in Queue(Data), QuietQueue(q), NEW c \in Commands
  PROVE  /\ Enqueue(q, NoRequest, c).q \in Queue(Data)
         /\ RequestOf(c, 0).words # 0 =>
               /\ WorksOn(Enqueue(q, NoRequest, c).q, c, 0)
               /\ Enqueue(q, NoRequest, c).soc = RequestOf(c, 0)
               /\ Enqueue(q, NoRequest, c).ret = "SUCCESS"
         /\ RequestOf(c, 0).words = 0 =>
               /\ Enqueue(q, NoRequest, c).soc = NoRequest
               /\ Enqueue(q, NoRequest, c).ret = "INVALID_LENGTH"
<1> DEFINE put == Put(q, c)
           run == Process(put, NoRequest)
           ok  == RequestOf(c, 0).words # 0
<1>1. /\ put \in Queue(Data)
      /\ put.count = 0 /\ put.round = 0 /\ put.flash_access = FALSE
      /\ put.rp = q.rp
      /\ put.cmd[q.rp] = c
  BY PutInQuiet
<1>2. q.count # QueueSize /\ q.flash_access = FALSE
  BY ConstantTypes DEF QuietQueue, Queue
<1>3. Enqueue(q, NoRequest, c) =
         [q |-> [run.q EXCEPT !.count = @ + 1], soc |-> run.soc, ret |-> Tolerate(run.ret)]
  BY <1>2 DEF Enqueue
<1> HIDE DEF put
<1>4. /\ run.q = [put EXCEPT !.flash_access = ok]
      /\ run.soc = IF ok THEN RequestOf(c, 0) ELSE NoRequest
      /\ run.ret = IF ok THEN "SUCCESS" ELSE "INVALID_LENGTH"
  BY <1>1, ProcessResult
<1>5. Tolerate(run.ret) = IF ok THEN "SUCCESS" ELSE "INVALID_LENGTH"
  BY <1>4 DEF Tolerate
<1> HIDE DEF run
<1>a. ok \in BOOLEAN
  OBVIOUS
<1> HIDE DEF ok
<1>6. /\ run.q \in Queue(Data)
      /\ run.q.count + 1 = 1 /\ run.q.round = 0
      /\ run.q.rp = q.rp
      /\ run.q.cmd[q.rp] = c
      /\ run.q.flash_access = ok
  BY <1>1, <1>4, <1>a DEF Queue
<1>7. 1 \in 0 .. QueueSize
  BY ConstantTypes
<1> DEFINE fin == [run.q EXCEPT !.count = 1]
<1>8. /\ fin \in Queue(Data)
      /\ fin.count = 1 /\ fin.round = 0 /\ fin.rp = q.rp
      /\ fin.cmd[q.rp] = c
      /\ fin.flash_access = ok
  BY <1>6, <1>7 DEF Queue
<1>9. /\ Enqueue(q, NoRequest, c).q = fin
      /\ Enqueue(q, NoRequest, c).soc = run.soc
      /\ Enqueue(q, NoRequest, c).ret = Tolerate(run.ret)
  BY <1>3, <1>6
<1>10. ok => WorksOn(fin, c, 0)
  BY <1>8 DEF WorksOn
<1> HIDE DEF fin
<1> QED
  BY <1>4, <1>5, <1>8, <1>9, <1>10 DEF ok

(* The success event of the last piece leaves the queue quiet. *)
LEMMA LastPiece ==
  ASSUME NEW q \in Queue(Data), NEW c, NEW r, WorksOn(q, c, r), CommandFinished(q)
  PROVE  LET next == InitElement(Advance(q), q.rp)
         IN  /\ next \in Queue(Data)
             /\ QuietQueue(next)
             /\ Dequeue(next, NoRequest).q = next
             /\ Dequeue(next, NoRequest).soc = NoRequest
<1> DEFINE rp   == Wrap(q.rp + 1)
           next == InitElement(Advance(q), q.rp)
<1>1. /\ rp \in 0 .. QueueSize - 1
      /\ q.count - 1 = 0
      /\ 0 \in 0 .. QueueSize
  <2>1. q.rp \in 0 .. QueueSize - 1
    BY DEF Queue
  <2>2. rp \in 0 .. QueueSize - 1
    BY <2>1, QueueSizeAssumption DEF Wrap
  <2>3. q.count - 1 = 0
    BY DEF WorksOn
  <2> QED
    BY <2>2, <2>3, QueueSizeAssumption
<1>2. Advance(q) = [q EXCEPT !.flash_access = FALSE, !.round = 0, !.count = 0, !.rp = rp]
  BY <1>1 DEF Advance
<1> HIDE DEF rp
<1>3. /\ Advance(q) \in Queue(Data)
      /\ Advance(q).count = 0 /\ Advance(q).round = 0
      /\ Advance(q).flash_access = FALSE
  <2> DEFINE a == [q EXCEPT !.flash_access = FALSE, !.round = 0, !.count = 0, !.rp = rp]
  <2>1. a \in Queue(Data)
    BY <1>1, 0 \in Nat DEF Queue
  <2>2. a.count = 0 /\ a.round = 0 /\ a.flash_access = FALSE
    BY <1>1 DEF Queue
  <2> QED
    BY <1>2, <2>1, <2>2
<1>4. next \in Queue(Data) /\ QuietQueue(next)
  BY <1>3 DEF Queue, InitElement, Free, QuietQueue
<1> HIDE DEF next
<1>5. Dequeue(next, NoRequest) = [q |-> next, soc |-> NoRequest, ret |-> "SUCCESS"]
  BY <1>4 DEF Dequeue, QuietQueue
<1> QED
  BY <1>4, <1>5 DEF next

(* The success event of an earlier piece of a clear asks for the next page. *)
LEMMA NextPiece ==
  ASSUME NEW q \in Queue(Data), NEW c \in Commands, c.op_code = "CLEAR",
         NEW r \in Nat, WorksOn(q, c, r), ~CommandFinished(q)
  PROVE  LET run == Dequeue(Advance(q), NoRequest)
         IN  /\ run.soc = ClearRequest(r + 1)
             /\ run.q \in Queue(Data)
             /\ WorksOn(run.q, c, r + 1)
<1> DEFINE next == Advance(q)
           run  == Process(next, NoRequest)
<1>1. next = [q EXCEPT !.flash_access = FALSE, !.round = r + 1]
  BY DEF Advance, WorksOn
<1>2. /\ next \in Queue(Data)
      /\ next.count = 1 /\ next.flash_access = FALSE /\ next.round = r + 1
      /\ next.cmd[next.rp] = c
  BY <1>1, r + 1 \in Nat DEF Queue, WorksOn
<1> HIDE DEF next
<1>3. /\ RequestOf(c, next.round) = ClearRequest(r + 1)
      /\ ClearRequest(r + 1).words # 0
  BY <1>2, ConstantTypes DEF RequestOf, ClearRequest
<1>4. /\ run.q = [next EXCEPT !.flash_access = TRUE]
      /\ run.soc = ClearRequest(r + 1)
      /\ run.ret = "SUCCESS"
  BY <1>2, <1>3, ProcessResult
<1>5. Dequeue(next, NoRequest) = [run EXCEPT !.ret = Tolerate(@)]
  BY <1>2 DEF Dequeue
<1>6. run.q \in Queue(Data) /\ WorksOn(run.q, c, r + 1)
  BY <1>2, <1>4 DEF Queue, WorksOn
<1>7. DOMAIN run = {"q", "soc", "ret"}
  BY DEF Process
<1> HIDE DEF run
<1>8. /\ Dequeue(next, NoRequest).q = run.q
      /\ Dequeue(next, NoRequest).soc = run.soc
  BY <1>5, <1>7
<1> QED
  BY <1>4, <1>6, <1>8 DEF next

-----------------------------------------------------------------------------
(* Control: what the queue and the SoftDevice do in each update state *)

Quiet == QuietQueue(pst) /\ soc = NoRequest /\ socEvent = "none"

(* The SoftDevice performs req, or its event is not yet dispatched. *)
Asked(req) ==
    \/ soc = req /\ socEvent = "none"
    \/ soc = NoRequest /\ socEvent \in {"success", "error"}

EraseCommand == Command("CLEAR", fileSize, 0, NoData)

(* The store of the last page read. *)
PageStart    == bytes_read - PageBytes
StoreCommand == Command("STORE", m_data_received_remit - PageStart, PageStart, "buff")

Clearing ==
    /\ h_dfu_update_status_store = "APP_ERASE"
    /\ WorksOn(pst, EraseCommand, pst.round)
    /\ Asked(ClearRequest(pst.round))
    /\ m_data_received_remit = 0

(* What was handed to pstorage is what was read. *)
Copying == m_data_received_remit = Smaller(bytes_read, fileSize)

Storing ==
    /\ h_dfu_update_status_store = "APP_UPDATE"
    /\ bytes_read >= PageBytes /\ PageStart < fileSize
    /\ Copying
    /\ WorksOn(pst, StoreCommand, 0)
    /\ Asked(StoreRequest(StoreCommand, 0))

(* A page of less than a word was refused: no event will come. *)
Stuck ==
    /\ h_dfu_update_status_store = "APP_UPDATE"
    /\ soc = NoRequest /\ socEvent = "none"
    /\ fileSize % WordBytes # 0

Updating == header = "valid" /\ ~headerBusy /\ fileSize = imageSize

InState(state) == mode = "boot" /\ h_dfu_update_status = state

InUpdate ==
    \/ /\ h_pstorage_status = "IDLE"
       /\ Quiet
       /\ \/ h_dfu_update_status_store = "APP_ERASE" /\ m_data_received_remit = 0
          \/ h_dfu_update_status_store = "APP_UPDATE" /\ Copying
    \/ /\ h_pstorage_status = "BUSY"
       /\ Clearing \/ Storing \/ Stuck

Control ==
    /\ mode # "boot" => FreshRam
    /\ InState("IDLE") => Quiet
    /\ InState("APP_ERASE") => Updating /\ Quiet /\ m_data_received_remit = 0
    /\ InState("UPDATING") => Updating /\ InUpdate
    /\ InState("APP_UPDATE") => Updating /\ Quiet /\ Copying
    /\ InState("FINISH") => Updating /\ Quiet /\ Copying /\ bytes_read >= fileSize
    /\ bytes_read % WordBytes = 0

ControlInv == TypeOK /\ Control

LEMMA FileSizesAreNat == FileSizes \subseteq Nat
  BY FileSizesAssumption

LEMMA RequestTypes ==
  ASSUME NEW c \in Commands, NEW r \in Nat, r * PageBytes <= c.size
  PROVE  RequestOf(c, r) \in Request(Data)
<1>1. r * PageBytes \in Nat /\ r * PageWords \in Nat
  BY ConstantTypes
<1>2. CASE c.op_code = "STORE"
  <2>1. c.size \in Nat /\ c.offset \in Nat /\ c.data \in Data \cup {NoData}
    BY DEF Commands
  <2>2. (c.offset + r * PageBytes) \div 4 \in Nat
    BY <1>1, <2>1
  <2>3. Smaller(c.size - r * PageBytes, PageBytes) \div 4 \in Nat
    BY <1>1, <2>1, ConstantTypes DEF Smaller
  <2> QED
    BY <1>1, <1>2, <2>1, <2>2, <2>3 DEF RequestOf, StoreRequest, Request, WordBytes
<1>3. CASE c.op_code # "STORE"
  BY <1>1, <1>3, ConstantTypes DEF RequestOf, ClearRequest, Request, Data
<1> QED
  BY <1>2, <1>3

(* The single piece of a store of at most one page. *)
LEMMA PageStore ==
  ASSUME NEW n \in 0 .. PageBytes, NEW o \in Nat
  PROVE  LET c == Command("STORE", n, o, "buff")
         IN  /\ c \in Commands
             /\ RequestOf(c, 0) = StoreRequest(c, 0)
             /\ StoreRequest(c, 0) = [kind |-> "write", at |-> o \div 4, words |-> n \div 4,
                                      data |-> "buff", src |-> 0]
<1>1. /\ o + 0 * PageBytes = o /\ n - 0 * PageBytes = n /\ 0 * PageWords = 0
      /\ Smaller(n, PageBytes) = n
  BY ConstantTypes DEF Smaller
<1>2. n \in Nat
  BY ConstantTypes
<1> QED
  BY <1>1, <1>2 DEF Command, Commands, Data, RequestOf, StoreRequest, WordBytes

LEMMA ClearCommand ==
  ASSUME NEW n \in Nat
  PROVE  LET c == Command("CLEAR", n, 0, NoData)
         IN  c \in Commands /\ \A r : RequestOf(c, r) = ClearRequest(r)
  BY DEF Command, Commands, Data, RequestOf, NoData

LEMMA QuietTypes ==
    /\ NoRequest \in Request(Data)
    /\ EmptyQueue \in Queue(Data)
    /\ QuietQueue(EmptyQueue)
    /\ RawBuff \in [0 .. PageWords - 1 -> Cells]
    /\ OldFlash \in [Bank -> Cells]
<1>1. 0 \in 0 .. QueueSize - 1 /\ 0 \in 0 .. QueueSize
  BY ConstantTypes
<1>2. EmptyQueue \in Queue(Data)
  BY <1>1 DEF EmptyQueue, Queue, Free
<1> QED
  BY <1>2 DEF EmptyQueue, QuietQueue, NoRequest, Request, RawBuff, OldFlash, Cells

-----------------------------------------------------------------------------
(* ControlInv is inductive, one lemma per action. *)

LEMMA InitControl == Init => ControlInv
<1> SUFFICES ASSUME Init PROVE ControlInv
  OBVIOUS
<1>1. TypeOK
  BY QuietTypes DEF Init, FreshRam, TypeOK, UpdateStates
<1>2. bytes_read % WordBytes = 0
  BY DEF Init, FreshRam, WordBytes
<1> QED
  BY <1>1, <1>2 DEF Init, ControlInv, Control, InState

LEMMA RestartControl ==
  ASSUME ControlInv, ForgetRam, mode' \in {"off", "app"},
         flash' \in [Bank -> Cells], header' \in {"valid", "none"},
         headerBusy' \in BOOLEAN, imageSize' = imageSize
  PROVE  ControlInv'
  BY QuietTypes DEF ForgetRam, FreshRam, ControlInv, TypeOK, Control, InState, UpdateStates,
                    Cells, WordBytes

LEMMA TornTypes ==
  ASSUME TypeOK, NEW words \in SUBSET Span(soc)
  PROVE  Torn(words) \in [Bank -> Cells]
  BY DEF TypeOK, Torn, Cells

LEMMA BootControl ==
  ASSUME ControlInv, Boot
  PROVE  ControlInv'
  BY QuietTypes DEF Boot, FreshRam, ControlInv, TypeOK, Control, InState, UpdateStates,
        Updating, Quiet, persistent, storage, dfu, WordBytes

LEMMA EraseControl ==
  ASSUME ControlInv, EraseStep
  PROVE  ControlInv'
<1> DEFINE run == Enqueue(pst, NoRequest, EraseCommand)
<1>1. /\ pst \in Queue(Data) /\ QuietQueue(pst) /\ soc = NoRequest
      /\ Updating /\ m_data_received_remit = 0
      /\ fileSize \in Nat
  BY FileSizesAreNat DEF EraseStep, Step, ControlInv, Control, InState, TypeOK, Quiet
<1>2. EraseCommand \in Commands /\ RequestOf(EraseCommand, 0) = ClearRequest(0)
  BY <1>1, ClearCommand DEF EraseCommand
<1>3. ClearRequest(0).words # 0 /\ ClearRequest(0) \in Request(Data)
  BY ConstantTypes DEF ClearRequest, Request
<1> DEFINE c == EraseCommand
<1> HIDE DEF c
<1>4. /\ run.q \in Queue(Data)
      /\ WorksOn(run.q, EraseCommand, 0)
      /\ run.soc = ClearRequest(0)
  <2>1. c \in Commands /\ RequestOf(c, 0) = ClearRequest(0)
    BY <1>2 DEF c
  <2>2. /\ Enqueue(pst, NoRequest, c).q \in Queue(Data)
        /\ WorksOn(Enqueue(pst, NoRequest, c).q, c, 0)
        /\ Enqueue(pst, NoRequest, c).soc = ClearRequest(0)
    BY <1>1, <1>3, <2>1, EnqueueResult
  <2> QED
    BY <2>2 DEF c
<1>5. /\ pst' = run.q /\ soc' = run.soc
  BY <1>1 DEF EraseStep, EraseCommand
<1> HIDE DEF run
<1>6. EraseCommand' = EraseCommand
  BY DEF EraseStep, counters, EraseCommand
<1>7. TypeOK'
  BY <1>3, <1>4, <1>5 DEF EraseStep, Step, ControlInv, TypeOK, UpdateStates, counters
<1>8. Clearing'
  BY <1>1, <1>4, <1>5, <1>6 DEF EraseStep, Step, ControlInv, Control, InState, Quiet, Clearing,
        Asked, counters, WorksOn
<1>9. Control'
  BY <1>1, <1>8 DEF EraseStep, Step, ControlInv, Control, InState, InUpdate, Updating, counters
<1> QED
  BY <1>7, <1>9 DEF ControlInv

(* A chunk is what is left of the image, at most a page; only less than a  *)
(* word is refused.                                                        *)
LEMMA Chunk ==
  ASSUME fileSize \in Nat, bytes_read \in Nat, bytes_read < fileSize
  PROVE  /\ ChunkBytes \in 1 .. PageBytes
         /\ bytes_read + ChunkBytes = Smaller(bytes_read + PageBytes, fileSize)
         /\ (bytes_read % WordBytes = 0 /\ ChunkBytes \div WordBytes = 0)
               => fileSize % WordBytes # 0
<1>1. /\ ChunkBytes \in 1 .. PageBytes
      /\ bytes_read + ChunkBytes = Smaller(bytes_read + PageBytes, fileSize)
  BY ConstantTypes DEF ChunkBytes, Smaller
<1>2. ASSUME bytes_read % WordBytes = 0, ChunkBytes \div WordBytes = 0
      PROVE  fileSize % WordBytes # 0
  <2>1. ChunkBytes < 4
    BY <1>1, <1>2 DEF WordBytes
  <2>2. fileSize = bytes_read + ChunkBytes
    BY <2>1, ConstantTypes DEF ChunkBytes, Smaller
  <2> QED
    BY <1>1, <1>2, <2>1, <2>2 DEF WordBytes
<1> QED
  BY <1>1, <1>2

LEMMA CopyControl ==
  ASSUME ControlInv, CopyStep
  PROVE  ControlInv'
<1> DEFINE c   == Command("STORE", ChunkBytes, m_data_received_remit, "buff")
           run == Enqueue(pst, NoRequest, c)
<1>1. /\ pst \in Queue(Data) /\ QuietQueue(pst) /\ soc = NoRequest
      /\ socEvent = "none" /\ socEvent' = "none"
      /\ Updating /\ Copying
      /\ fileSize \in Nat /\ fileSize' = fileSize
      /\ bytes_read \in Nat /\ bytes_read < fileSize /\ bytes_read % 4 = 0
      /\ bytes_read' = bytes_read + PageBytes
  BY FileSizesAreNat DEF CopyStep, Copied, Step, ControlInv, Control, InState, TypeOK, Quiet, WordBytes
<1>2. /\ m_data_received_remit = bytes_read
      /\ ChunkBytes \in 1 .. PageBytes /\ ChunkBytes \in Nat
      /\ bytes_read + ChunkBytes = Smaller(bytes_read', fileSize')
      /\ ChunkBytes \div 4 = 0 => fileSize % 4 # 0
  BY <1>1, Chunk, ConstantTypes DEF Copying, Smaller, WordBytes
<1>3. /\ c \in Commands
      /\ RequestOf(c, 0) = StoreRequest(c, 0)
      /\ RequestOf(c, 0).words = ChunkBytes \div 4
      /\ 0 * PageBytes <= c.size
      /\ RequestOf(c, 0) \in Request(Data)
  <2>1. /\ c \in Commands
        /\ RequestOf(c, 0) = StoreRequest(c, 0)
        /\ RequestOf(c, 0).words = ChunkBytes \div 4
    BY <1>1, <1>2, PageStore
  <2>2. 0 * PageBytes <= c.size
    BY <2>1, ConstantTypes DEF Commands
  <2> QED
    BY <2>1, <2>2, RequestTypes
<1>4. /\ pst' = run.q /\ soc' = run.soc
      /\ m_data_received_remit' =
            bytes_read + IF run.ret = "SUCCESS" THEN ChunkBytes ELSE 0
  BY <1>1, <1>2 DEF CopyStep
<1>5. /\ run.q \in Queue(Data)
      /\ RequestOf(c, 0).words # 0 =>
            /\ WorksOn(run.q, c, 0) /\ run.soc = RequestOf(c, 0) /\ run.ret = "SUCCESS"
      /\ RequestOf(c, 0).words = 0 => run.soc = NoRequest /\ run.ret = "INVALID_LENGTH"
  <2> HIDE DEF c
  <2> QED
    BY <1>1, <1>3, EnqueueResult
<1> HIDE DEF run
<1>6. ASSUME RequestOf(c, 0).words # 0 PROVE Storing'
  <2>1. m_data_received_remit' = Smaller(bytes_read', fileSize')
    BY <1>2, <1>4, <1>5, <1>6
  <2>2. bytes_read' - PageBytes = bytes_read
    BY <1>1, ConstantTypes
  <2>3. StoreCommand' = c
    BY <1>1, <1>2, <1>4, <1>5, <1>6, <2>2 DEF StoreCommand, PageStart
  <2> HIDE DEF c
  <2>4. Storing'
    BY <1>1, <1>3, <1>4, <1>5, <1>6, <2>1, <2>2, <2>3, ConstantTypes
       DEF Storing, PageStart, Copying, WorksOn, Asked, CopyStep
  <2> QED
    BY <2>4
<1>7. ASSUME RequestOf(c, 0).words = 0 PROVE Stuck'
  BY <1>1, <1>2, <1>3, <1>4, <1>5, <1>7 DEF Stuck, CopyStep, WordBytes
<1>8. InUpdate'
  BY <1>6, <1>7, Zenon DEF InUpdate, CopyStep
<1>9. buff' \in [0 .. PageWords - 1 -> Cells]
  BY <1>1 DEF CopyStep, PageRead, Cells, WordBytes
<1>10. flashCheckSum' \in Nat \cup {BadSum}
  BY <1>2 DEF CopyStep, AddToSum, ControlInv, TypeOK
<1>11. /\ m_data_received_remit' \in Nat
       /\ bytes_read' \in Nat /\ bytes_read' % 4 = 0
  BY <1>1, <1>2, <1>4, ConstantTypes
<1>12. soc' \in Request(Data) /\ pst' \in Queue(Data)
  BY <1>3, <1>4, <1>5, QuietTypes
<1>13. TypeOK'
  BY <1>9, <1>10, <1>11, <1>12 DEF CopyStep, Step, ControlInv, TypeOK, UpdateStates
<1>14. Control'
  BY <1>1, <1>8, <1>11 DEF CopyStep, Step, ControlInv, Control, InState, Updating, WordBytes
<1> QED
  BY <1>13, <1>14 DEF ControlInv

LEMMA CopiedControl ==
  ASSUME ControlInv, CopiedStep
  PROVE  ControlInv'
  BY DEF CopiedStep, Copied, Step, counters, ControlInv, TypeOK, Control, InState, Updating, Quiet,
         Copying, UpdateStates

LEMMA FinishControl ==
  ASSUME ControlInv, FinishStep
  PROVE  ControlInv'
  BY DEF FinishStep, Step, counters, ControlInv, TypeOK, Control, InState, Quiet, UpdateStates

LEMMA UpdatingControl ==
  ASSUME ControlInv, UpdatingStep
  PROVE  ControlInv'
<1>1. /\ Updating /\ Quiet
      /\ fileSize \in Nat /\ bytes_read \in Nat
      /\ \/ h_dfu_update_status_store = "APP_ERASE" /\ m_data_received_remit = 0
         \/ h_dfu_update_status_store = "APP_UPDATE" /\ Copying
  BY FileSizesAreNat DEF UpdatingStep, Notified, Step, ControlInv, TypeOK, Control, InState, InUpdate
<1>2. Copying'
  BY <1>1 DEF UpdatingStep, Copying, Smaller
<1> QED
  BY <1>1, <1>2 DEF UpdatingStep, Notified, Step, ControlInv, TypeOK, Control, InState, Updating,
        Quiet, UpdateStates, WordBytes

(* The store of one page is done with its first piece. *)
LEMMA StoreIsOnePiece ==
  ASSUME ControlInv, Storing
  PROVE  /\ CommandFinished(pst)
         /\ StoreCommand.size \in 1 .. PageBytes
         /\ PageStart \in Nat /\ PageStart % 4 = 0
         /\ StoreCommand.size = Smaller(PageBytes, fileSize - PageStart)
<1>1. /\ fileSize \in Nat /\ bytes_read \in Nat /\ bytes_read % 4 = 0
      /\ PageBytes \in Nat \ {0} /\ PageBytes = 4 * PageWords /\ PageWords \in Nat
  BY FileSizesAreNat, ConstantTypes DEF ControlInv, TypeOK, Control, WordBytes
<1>2. /\ PageStart \in Nat /\ PageStart = bytes_read - PageBytes /\ PageStart < fileSize
      /\ m_data_received_remit = Smaller(bytes_read, fileSize)
  BY <1>1 DEF Storing, PageStart, Copying
<1>3. m_data_received_remit - PageStart = Smaller(PageBytes, fileSize - PageStart)
  BY <1>1, <1>2 DEF Smaller
<1>4. Smaller(PageBytes, fileSize - PageStart) \in 1 .. PageBytes
  BY <1>1, <1>2 DEF Smaller
<1>5. StoreCommand.size = m_data_received_remit - PageStart
  BY DEF StoreCommand, Command
<1>6. pst.cmd[pst.rp] = StoreCommand /\ pst.round = 0
  BY DEF Storing, WorksOn
<1>7. CommandFinished(pst)
  BY <1>1, <1>3, <1>4, <1>5, <1>6 DEF CommandFinished
<1>8. PageStart % 4 = 0
  BY <1>1, <1>2
<1> QED
  BY <1>2, <1>3, <1>4, <1>5, <1>7, <1>8

(* An event of the flash can only arrive while an erase or a store waits. *)
LEMMA EventInUpdate ==
  ASSUME ControlInv, mode = "boot", soc # NoRequest \/ socEvent # "none"
  PROVE  /\ InState("UPDATING") /\ Updating /\ h_pstorage_status = "BUSY"
         /\ Clearing \/ Storing
<1>1. h_dfu_update_status \in UpdateStates
  BY DEF ControlInv, TypeOK
<1>2. ~Quiet /\ ~Stuck
  BY DEF Quiet, Stuck
<1>3. InState("UPDATING") /\ Updating /\ InUpdate
  BY <1>1, <1>2 DEF ControlInv, Control, InState, UpdateStates
<1> QED
  BY <1>2, <1>3, Zenon DEF InUpdate

LEMMA SuccessControl ==
  ASSUME ControlInv, SuccessEvent
  PROVE  ControlInv'
<1>1. /\ InState("UPDATING") /\ Updating /\ h_pstorage_status = "BUSY"
      /\ Clearing \/ Storing
      /\ socEvent = "success" /\ soc = NoRequest
  BY EventInUpdate DEF SuccessEvent, Clearing, Storing, Asked, NoRequest, ClearRequest, StoreRequest
<1>2. pst \in Queue(Data) /\ pst.round \in Nat /\ fileSize \in Nat
  BY FileSizesAreNat DEF ControlInv, TypeOK, Queue
<1>3. /\ EraseCommand' = EraseCommand
      /\ Copying' = Copying
      /\ UNCHANGED <<persistent, mode, dfu, counters, buff>>
      /\ socEvent' = "none"
  BY DEF SuccessEvent, EraseCommand, Copying, counters
<1>4. ASSUME CommandFinished(pst)
      PROVE  Quiet' /\ pst' \in Queue(Data) /\ h_pstorage_status' = "IDLE"
  <2> DEFINE c    == pst.cmd[pst.rp]
             r    == pst.round
             next == InitElement(Advance(pst), pst.rp)
  <2>1. WorksOn(pst, c, r)
    BY <1>1 DEF Clearing, Storing, WorksOn
  <2> HIDE DEF c, r
  <2>2. /\ next \in Queue(Data) /\ QuietQueue(next)
        /\ Dequeue(next, NoRequest).q = next /\ Dequeue(next, NoRequest).soc = NoRequest
    BY <1>2, <1>4, <2>1, LastPiece
  <2>3. /\ pst' = Dequeue(next, NoRequest).q /\ soc' = Dequeue(next, NoRequest).soc
        /\ h_pstorage_status' = "IDLE"
    BY <1>1, <1>4, Zenon DEF SuccessEvent
  <2> HIDE DEF next
  <2> QED
    BY <1>3, <2>2, <2>3 DEF Quiet
<1>5. ASSUME ~CommandFinished(pst)
      PROVE  Clearing' /\ pst' \in Queue(Data) /\ soc' \in Request(Data)
             /\ h_pstorage_status' = "BUSY"
  <2> DEFINE c    == EraseCommand
             r    == pst.round
             next == Advance(pst)
             run  == Dequeue(next, NoRequest)
  <2>1. Clearing
    BY <1>1, <1>5, StoreIsOnePiece
  <2>2. c \in Commands /\ c.op_code = "CLEAR" /\ WorksOn(pst, c, r)
    BY <1>2, <2>1, ClearCommand DEF EraseCommand, Command, Clearing
  <2>3. r \in Nat
    BY <1>2
  <2> HIDE DEF c, r
  <2>4. /\ Dequeue(Advance(pst), NoRequest).soc = ClearRequest(r + 1)
        /\ Dequeue(Advance(pst), NoRequest).q \in Queue(Data)
        /\ WorksOn(Dequeue(Advance(pst), NoRequest).q, c, r + 1)
    BY <1>2, <1>5, <2>2, <2>3, NextPiece
  <2>5. /\ pst' = Dequeue(Advance(pst), NoRequest).q
        /\ soc' = Dequeue(Advance(pst), NoRequest).soc
        /\ h_pstorage_status' = h_pstorage_status
    BY <1>1, <1>5, Zenon DEF SuccessEvent
  <2>6. WorksOn(pst', c, pst'.round) /\ soc' = ClearRequest(pst'.round)
    BY <2>4, <2>5 DEF WorksOn
  <2>7. Clearing'
    BY <1>3, <2>1, <2>6 DEF c, Clearing, Asked, WorksOn, dfu, counters
  <2>8. ClearRequest(r + 1) \in Request(Data)
    BY <2>3, ConstantTypes DEF ClearRequest, Request
  <2> QED
    BY <1>1, <2>4, <2>5, <2>7, <2>8
<1>6. TypeOK'
  BY <1>3, <1>4, <1>5, QuietTypes
     DEF ControlInv, TypeOK, persistent, dfu, counters, Quiet
<1>7. InUpdate'
  <2>1. CASE CommandFinished(pst)
    BY <1>1, <1>3, <1>4, <2>1 DEF InUpdate, Clearing, Storing, dfu, counters
  <2>2. CASE ~CommandFinished(pst)
    BY <1>5, <2>2 DEF InUpdate
  <2> QED
    BY <2>1, <2>2
<1>8. Control'
  BY <1>1, <1>3, <1>7 DEF ControlInv, Control, InState, Updating, persistent, dfu, counters
<1> QED
  BY <1>6, <1>8 DEF ControlInv

(* The SoftDevice answers, well or badly. *)
LEMMA AnswerControl ==
  ASSUME ControlInv, soc.kind # "none", flash' \in [Bank -> Cells],
         soc' = NoRequest, socEvent' \in {"success", "error"},
         UNCHANGED <<header, headerBusy, imageSize, mode, dfu, counters, buff,
                     h_pstorage_status, pst>>
  PROVE  ControlInv'
<1>1. soc # NoRequest
  BY DEF NoRequest
<1>2. mode = "boot"
  BY <1>1 DEF ControlInv, Control, FreshRam
<1>3. /\ InState("UPDATING") /\ Updating /\ h_pstorage_status = "BUSY"
      /\ Clearing \/ Storing
  BY <1>1, <1>2, EventInUpdate
<1>4. Clearing' \/ Storing'
  BY <1>3 DEF Clearing, Storing, Asked, EraseCommand, StoreCommand, PageStart, Copying, dfu, counters
<1>5. TypeOK'
  BY QuietTypes DEF ControlInv, TypeOK, dfu, counters
<1>6. Control'
  BY <1>2, <1>3, <1>4 DEF ControlInv, Control, InUpdate, InState, Updating, dfu, counters
<1> QED
  BY <1>5, <1>6 DEF ControlInv

LEMMA HeaderControl ==
  ASSUME ControlInv, HeaderErased
  PROVE  ControlInv'
<1>1. ~Updating
  BY DEF HeaderErased, Updating
<1>2. mode # "boot" \/ InState("IDLE")
  BY <1>1 DEF ControlInv, Control, TypeOK, UpdateStates, InState
<1>3. TypeOK'
  BY DEF HeaderErased, ControlInv, TypeOK, dfu, counters, storage
<1>4. Control'
  BY <1>2 DEF HeaderErased, ControlInv, Control, InState, Quiet, FreshRam, dfu, counters, storage
<1> QED
  BY <1>3, <1>4 DEF ControlInv

LEMMA PerformedTypes == ControlInv /\ soc.kind # "none" => Performed \in [Bank -> Cells]
<1> SUFFICES ASSUME ControlInv, soc.kind # "none" PROVE Performed \in [Bank -> Cells]
  OBVIOUS
<1>1. soc # NoRequest
  BY DEF NoRequest
<1>2. mode = "boot"
  BY <1>1 DEF ControlInv, Control, FreshRam
<1>3. Clearing \/ Storing
  BY <1>1, <1>2, EventInUpdate
<1>4. CASE Clearing
  BY <1>1, <1>4 DEF Clearing, Asked, ClearRequest, Performed, Cells, ControlInv, TypeOK
<1>5. CASE Storing
  <2> DEFINE n == StoreCommand.size
  <2>1. soc = StoreRequest(StoreCommand, 0)
    BY <1>1, <1>5 DEF Storing, Asked
  <2>2. n \in 1 .. PageBytes /\ PageStart \in Nat
    BY <1>5, StoreIsOnePiece
  <2>3. StoreCommand = Command("STORE", n, PageStart, "buff")
    BY DEF StoreCommand, Command
  <2> HIDE DEF n
  <2>4. /\ soc.src = 0 /\ soc.words = n \div 4 /\ soc.at = PageStart \div 4
    BY <2>1, <2>2, <2>3, PageStore
  <2>5. \A w \in Span(soc) : soc.src + w - soc.at \in 0 .. PageWords - 1
    BY <2>2, <2>4, ConstantTypes DEF Span, Bank
  <2>6. /\ flash \in [Bank -> Cells]
        /\ \A k \in 0 .. PageWords - 1 : buff[k] \in Cells
        /\ Erased \in Cells /\ Garbage \in Cells
    BY DEF ControlInv, TypeOK, Cells
  <2> QED
    BY <2>5, <2>6 DEF Performed
<1> QED
  BY <1>3, <1>4, <1>5

LEMMA NextControl ==
  ASSUME ControlInv, [Next]_vars
  PROVE  ControlInv'
<1>0. TypeOK
  BY DEF ControlInv
<1>1. ASSUME PowerLoss PROVE ControlInv'
  <2>1. flash' \in [Bank -> Cells]
    BY <1>0, <1>1, TornTypes DEF PowerLoss
  <2> QED
    BY <1>0, <1>1, <2>1, RestartControl DEF PowerLoss, Restart, TypeOK
<1>2. ASSUME AppReset \/ ErrorEvent PROVE ControlInv'
  BY <1>0, <1>2, RestartControl DEF AppReset, ErrorEvent, Restart, TypeOK, persistent
<1>3. ASSUME StartApp PROVE ControlInv'
  BY <1>0, <1>3, RestartControl DEF StartApp, TypeOK, persistent
<1>4. ASSUME FlashDone PROVE ControlInv'
  BY <1>4, PerformedTypes, AnswerControl DEF FlashDone
<1>5. ASSUME FlashFails PROVE ControlInv'
  <2>1. flash' \in [Bank -> Cells]
    BY <1>0, <1>5, TornTypes DEF FlashFails
  <2> QED
    BY <1>5, <2>1, AnswerControl DEF FlashFails
<1>6. ASSUME UNCHANGED vars PROVE ControlInv'
  <2>1. EraseCommand' = EraseCommand /\ StoreCommand' = StoreCommand /\ PageStart' = PageStart
    BY <1>6 DEF vars, counters, EraseCommand, StoreCommand, PageStart
  <2> QED
    BY <1>6, <2>1 DEF vars, persistent, dfu, counters, storage, ControlInv, TypeOK, Control,
       InState, InUpdate, Updating, Quiet, Copying, Clearing, Storing, Stuck, Asked, FreshRam
<1> QED
  BY <1>1, <1>2, <1>3, <1>4, <1>5, <1>6, BootControl, EraseControl, CopyControl, CopiedControl,
     FinishControl, UpdatingControl, SuccessControl, HeaderControl
     DEF Next, MainLoop, Fault

LEMMA ControlAlways == Spec => []ControlInv
  BY InitControl, NextControl, PTL DEF Spec

-----------------------------------------------------------------------------
(* Theorems for every image size, with or without reading faults *)

(* Every variable keeps its range whatever the sizes of the queue, the     *)
(* pages, the bank and the images: in particular queue_rp and              *)
(* num_pending_ops never leave the ring.                                   *)
THEOREM TypeCorrect == Spec => []TypeOK
<1>1. ControlInv => TypeOK
  BY DEF ControlInv
<1> QED
  BY <1>1, ControlAlways, PTL

(* buff is not refilled under a write of the SoftDevice.                   *)
THEOREM BufferNeverOverrun == Spec => BufferHeld
<1> DEFINE Held == (soc.kind = "write" /\ mode' = "boot") => buff' = buff
<1>1. ASSUME ControlInv, [Next]_vars PROVE [Held]_vars
  <2> SUFFICES ASSUME soc.kind = "write", mode' = "boot" PROVE buff' = buff
    OBVIOUS
  <2>1. soc # NoRequest
    BY DEF NoRequest
  <2>2. mode = "boot"
    BY <1>1, <2>1 DEF ControlInv, Control, FreshRam
  <2>3. InState("UPDATING")
    BY <1>1, <2>1, <2>2, EventInUpdate
  <2> QED
    BY <1>1, <2>2, <2>3 DEF Next, MainLoop, Fault, Boot, EraseStep, CopyStep, CopiedStep, FinishStep,
       UpdatingStep, SuccessEvent, ErrorEvent, StartApp, FlashDone, HeaderErased, PowerLoss,
       AppReset, FlashFails, Restart, Step, InState, vars
<1> QED
  BY <1>1, ControlAlways, PTL DEF Spec, BufferHeld

-----------------------------------------------------------------------------
(* Contents: what the bank holds in each state, for images of whole words  *)
(* read without fault                                                      *)

WholeImages == ~ReadFaults /\ \A s \in FileSizes : s % WordBytes = 0

(* The first n bytes of the image are in place, the rest of it is erased. *)
Filled(n) == \A w \in ImageWords : flash[w] = IF WordBytes * w < n THEN w ELSE Erased

ClearedTo(end) == \A w \in Bank : w < end => flash[w] = Erased

PageInBuff == \A k \in 0 .. PageWords - 1 : buff[k] = PageStart \div WordBytes + k

Installed == ImageInBank \/ (flash = OldFlash /\ header = "none" /\ ~headerBusy)

UpdateBank ==
    /\ h_pstorage_status = "IDLE"
          => Filled(IF h_dfu_update_status_store = "APP_ERASE" THEN 0 ELSE bytes_read)
    /\ (h_pstorage_status = "BUSY" /\ h_dfu_update_status_store = "APP_ERASE")
          => /\ soc # NoRequest => ClearedTo(pst.round * PageWords)
             /\ socEvent = "success" => ClearedTo((pst.round + 1) * PageWords)
    /\ (h_pstorage_status = "BUSY" /\ h_dfu_update_status_store = "APP_UPDATE")
          => /\ soc # NoRequest => Filled(PageStart) /\ PageInBuff
             /\ socEvent = "success" => Filled(bytes_read)

BankInv ==
    /\ header = "none" \/ headerBusy => Installed
    /\ mode = "app" => ImageInBank \/ (flash = OldFlash /\ header = "none")
    /\ InState("IDLE") => ImageInBank \/ (flash = OldFlash /\ header = "none")
    /\ InState("APP_UPDATE") \/ InState("FINISH") => Filled(bytes_read)
    /\ InState("UPDATING") => UpdateBank

FullInv == ControlInv /\ BankInv

LEMMA InitBank == Init => BankInv
  BY DEF Init, BankInv, Installed, InState

(* Steps that leave the bank, the image and the state of the update. *)
LEMMA BootBank ==
  ASSUME FullInv, Boot
  PROVE  BankInv'
<1>1. header \in {"valid", "none"}
  BY DEF FullInv, ControlInv, TypeOK
<1>2. UNCHANGED <<flash, header, headerBusy, imageSize>> /\ ~headerBusy /\ mode' = "boot"
  BY DEF Boot, persistent
<1>3. ImageInBank' = ImageInBank /\ Installed' = Installed
  BY <1>2 DEF ImageInBank, ImageWords, Installed
<1>4. CASE header = "valid"
  BY <1>2, <1>4 DEF Boot, BankInv, InState
<1>5. CASE header = "none"
  <2>1. Installed
    BY <1>5 DEF FullInv, BankInv
  <2>2. h_dfu_update_status' = "IDLE"
    BY <1>5 DEF Boot, FullInv, ControlInv, Control, FreshRam, dfu
  <2> QED
    BY <1>2, <1>3, <2>1, <2>2 DEF BankInv, InState, Installed
<1> QED
  BY <1>1, <1>4, <1>5

LEMMA EraseBank ==
  ASSUME FullInv, ControlInv', EraseStep
  PROVE  BankInv'
<1>1. /\ InState("UPDATING")' /\ h_pstorage_status' = "BUSY"
      /\ h_dfu_update_status_store' = "APP_ERASE"
      /\ UNCHANGED <<flash, header, headerBusy, imageSize>>
      /\ socEvent' = "none" /\ Quiet /\ mode = "boot"
      /\ header = "valid" /\ ~headerBusy
  BY DEF EraseStep, Step, InState, FullInv, ControlInv, Control, Quiet, Updating
<1>2. pst'.round = 0
  <2> DEFINE c == EraseCommand
  <2>1. c \in Commands /\ RequestOf(c, 0) = ClearRequest(0)
    BY ClearCommand, FileSizesAreNat DEF EraseCommand, FullInv, ControlInv, TypeOK
  <2>2. ClearRequest(0).words # 0 /\ pst \in Queue(Data) /\ QuietQueue(pst) /\ soc = NoRequest
    BY <1>1, ConstantTypes DEF ClearRequest, FullInv, ControlInv, TypeOK, Quiet
  <2>3. pst' = Enqueue(pst, NoRequest, c).q
    BY <2>2 DEF EraseStep, EraseCommand
  <2> HIDE DEF c
  <2> QED
    BY <2>1, <2>2, <2>3, EnqueueResult DEF WorksOn
<1>3. ClearedTo(pst.round * PageWords)'
  BY <1>2, ConstantTypes DEF ClearedTo, Bank
<1> QED
  BY <1>1, <1>3 DEF BankInv, UpdateBank, InState, Installed

LEMMA CopyBank ==
  ASSUME WholeImages, FullInv, CopyStep
  PROVE  BankInv'
<1>1. /\ InState("UPDATING")' /\ h_pstorage_status' = "BUSY"
      /\ h_dfu_update_status_store' = "APP_UPDATE"
      /\ UNCHANGED <<flash, header, headerBusy, imageSize>>
      /\ socEvent' = "none" /\ InState("APP_UPDATE")
      /\ header = "valid" /\ ~headerBusy
      /\ bytes_read' = bytes_read + PageBytes
  BY DEF CopyStep, Step, InState, FullInv, ControlInv, Control, Quiet, Updating
<1>2. PageStart' = bytes_read
  BY <1>1, ConstantTypes DEF PageStart, FullInv, ControlInv, TypeOK
<1>3. Filled(PageStart)'
  BY <1>1, <1>2 DEF FullInv, BankInv, Filled, ImageWords
<1>4. PageInBuff'
  BY <1>2 DEF CopyStep, PageRead, WholeImages, PageInBuff
<1> QED
  BY <1>1, <1>3, <1>4 DEF BankInv, UpdateBank, InState, Installed

LEMMA CopiedBank ==
  ASSUME FullInv, CopiedStep
  PROVE  BankInv'
  BY DEF CopiedStep, Copied, Step, counters, InState, FullInv, BankInv, ControlInv, Control, Updating,
         Filled, ImageWords, Installed

LEMMA FinishBank ==
  ASSUME FullInv, FinishStep
  PROVE  BankInv'
<1>1. /\ mode' = "boot" /\ h_dfu_update_status' = "IDLE"
      /\ UNCHANGED <<flash, header, imageSize>>
      /\ Filled(bytes_read) /\ bytes_read >= imageSize
  BY DEF FinishStep, Step, InState, FullInv, BankInv, ControlInv, Control, Updating
<1>2. ImageInBank'
  BY <1>1, FileSizesAreNat
     DEF FullInv, ControlInv, TypeOK, Filled, ImageInBank, ImageWords, Bank, WordBytes
<1> QED
  BY <1>1, <1>2 DEF BankInv, InState, Installed

LEMMA UpdatingBank ==
  ASSUME FullInv, UpdatingStep
  PROVE  BankInv'
<1>1. /\ mode' = "boot" /\ h_dfu_update_status' = "APP_UPDATE"
      /\ UNCHANGED <<flash, header, headerBusy, imageSize>>
      /\ header = "valid" /\ ~headerBusy
  BY DEF UpdatingStep, Notified, Step, InState, FullInv, ControlInv, Control, Updating
<1>2. bytes_read' = IF h_dfu_update_status_store = "APP_ERASE" THEN 0 ELSE bytes_read
  BY DEF UpdatingStep
<1>3. Filled(bytes_read)'
  BY <1>1, <1>2 DEF UpdatingStep, Notified, Step, InState, FullInv, BankInv, UpdateBank, Filled, ImageWords
<1> QED
  BY <1>1, <1>3 DEF BankInv, InState, Installed

LEMMA SuccessBank ==
  ASSUME FullInv, ControlInv', SuccessEvent
  PROVE  BankInv'
<1>1. /\ InState("UPDATING") /\ Updating /\ h_pstorage_status = "BUSY"
      /\ Clearing \/ Storing
      /\ socEvent = "success" /\ UpdateBank
  BY EventInUpdate DEF SuccessEvent, FullInv, BankInv
<1>2. /\ UNCHANGED <<persistent, mode, dfu, counters, buff>>
      /\ socEvent' = "none"
      /\ UNCHANGED <<flash, header, headerBusy, imageSize, mode, h_dfu_update_status,
                     h_dfu_update_status_store, bytes_read, fileSize>>
  BY DEF SuccessEvent, persistent, dfu, counters
<1>3. UpdateBank'
  <2>1. CASE CommandFinished(pst) /\ Clearing
    <3>1. h_pstorage_status' = "IDLE" /\ h_dfu_update_status_store = "APP_ERASE"
      BY <2>1 DEF SuccessEvent, Clearing
    <3>2. ClearedTo((pst.round + 1) * PageWords)
      BY <1>1, <3>1 DEF UpdateBank
    <3>3. (pst.round + 1) * (4 * PageWords) >= imageSize
      BY <1>1, <2>1, ConstantTypes
         DEF CommandFinished, Clearing, WorksOn, EraseCommand, Command, Updating
    <3>4. \A w \in ImageWords : w < (pst.round + 1) * PageWords
      <4> TAKE w \in ImageWords
      <4> DEFINE r == pst.round + 1
      <4>a. imageSize \in Nat /\ pst.round \in Nat /\ PageWords \in Nat
        BY ConstantTypes, FileSizesAreNat DEF FullInv, ControlInv, TypeOK, Queue
      <4>b. r \in Nat
        BY <4>a
      <4>1. w \in Nat /\ 4 * w < imageSize
        BY DEF ImageWords, Bank, WordBytes
      <4> HIDE DEF r
      <4>2. r * (4 * PageWords) >= imageSize
        BY <3>3 DEF r
      <4>3. w < r * PageWords
        BY <4>a, <4>b, <4>1, <4>2
      <4> QED
        BY <4>3 DEF r
    <3>5. Filled(0)'
      BY <1>2, <3>2, <3>4 DEF Filled, ClearedTo, ImageWords, Bank, WordBytes
    <3> QED
      BY <1>2, <3>1, <3>5 DEF UpdateBank, Filled
  <2>2. CASE CommandFinished(pst) /\ Storing
    BY <1>1, <1>2, <2>2 DEF SuccessEvent, Storing, UpdateBank, Filled, ImageWords
  <2>3. CASE ~CommandFinished(pst)
    <3>1. Clearing
      BY <1>1, <2>3, StoreIsOnePiece DEF FullInv
    <3> DEFINE c    == EraseCommand
               r    == pst.round
    <3>2. c \in Commands /\ c.op_code = "CLEAR" /\ WorksOn(pst, c, r)
      BY <3>1, ClearCommand, FileSizesAreNat
         DEF EraseCommand, Command, Clearing, FullInv, ControlInv, TypeOK
    <3>3. r \in Nat /\ pst \in Queue(Data) /\ soc = NoRequest
      BY <1>1, <3>1 DEF FullInv, ControlInv, TypeOK, Queue, Clearing, Asked, ClearRequest, NoRequest
    <3>a. ClearedTo((r + 1) * PageWords)
      BY <1>1, <3>1 DEF UpdateBank, Clearing
    <3> HIDE DEF c, r
    <3>4. pst'.round = r + 1
      <4>1. WorksOn(Dequeue(Advance(pst), NoRequest).q, c, r + 1)
        BY <2>3, <3>2, <3>3, NextPiece
      <4>2. pst' = Dequeue(Advance(pst), NoRequest).q
        BY <2>3, <3>3, Zenon DEF SuccessEvent
      <4> QED
        BY <4>1, <4>2 DEF WorksOn
    <3>5. ClearedTo(pst.round * PageWords)'
      BY <1>2, <3>4, <3>a DEF ClearedTo
    <3> QED
      BY <1>1, <1>2, <2>3, <3>1, <3>5 DEF UpdateBank, SuccessEvent, Clearing
  <2> QED
    BY <1>1, <2>1, <2>2, <2>3
<1> QED
  BY <1>1, <1>2, <1>3 DEF BankInv, InState, Updating

(* The SoftDevice performs nothing unless an update is under way. *)
LEMMA SpanOutsideUpdate ==
  ASSUME ControlInv, soc # NoRequest
  PROVE  mode = "boot" /\ InState("UPDATING") /\ Updating
  BY EventInUpdate DEF ControlInv, Control, FreshRam

LEMMA RestartBank ==
  ASSUME FullInv, PowerLoss \/ AppReset \/ ErrorEvent
  PROVE  BankInv'
<1>1. mode' = "off" /\ imageSize' = imageSize
  BY DEF PowerLoss, AppReset, ErrorEvent, Restart, persistent
<1>2. ASSUME PowerLoss, soc # NoRequest
      PROVE  header' = "valid" /\ ~headerBusy'
  BY <1>2, SpanOutsideUpdate DEF PowerLoss, Updating, FullInv
<1>3. ASSUME PowerLoss, soc = NoRequest
      PROVE  header' = "none" => Installed'
  <2>1. Span(soc) = {}
    BY <1>3, SMT DEF Span, Bank, NoRequest
  <2>2. flash' = flash
    BY <1>3, <2>1 DEF PowerLoss, Torn, FullInv, ControlInv, TypeOK
  <2>3. ~headerBusy' /\ (header' = "none" => header = "none" \/ headerBusy)
    BY <1>3 DEF PowerLoss
  <2> QED
    BY <1>1, <2>2, <2>3 DEF FullInv, BankInv, Installed, ImageInBank, ImageWords
<1>4. ASSUME AppReset \/ ErrorEvent
      PROVE  header' = "none" \/ headerBusy' => Installed'
  BY <1>1, <1>4 DEF AppReset, ErrorEvent, persistent, FullInv, BankInv, Installed, ImageInBank, ImageWords
<1>5. header' = "none" \/ headerBusy' => Installed'
  <2>1. CASE PowerLoss
    BY <1>2, <1>3, <2>1 DEF PowerLoss
  <2>2. CASE ~PowerLoss
    BY <1>4, <2>2
  <2> QED
    BY <2>1, <2>2
<1> QED
  BY <1>1, <1>5 DEF BankInv, InState

LEMMA StartBank ==
  ASSUME FullInv, StartApp
  PROVE  BankInv'
<1>1. mode' = "app" /\ UNCHANGED <<flash, header, headerBusy, imageSize>> /\ InState("IDLE")
  BY DEF StartApp, persistent, InState
<1> QED
  BY <1>1 DEF FullInv, BankInv, InState, Installed, ImageInBank, ImageWords

LEMMA HeaderBank ==
  ASSUME FullInv, HeaderErased
  PROVE  BankInv'
<1>1. Installed /\ headerBusy
  BY DEF HeaderErased, FullInv, BankInv
<1>2. UNCHANGED <<flash, imageSize, mode, h_dfu_update_status, bytes_read>>
  BY DEF HeaderErased, dfu, counters
<1>3. ImageInBank'
  BY <1>1, <1>2 DEF Installed, ImageInBank, ImageWords
<1>4. ~InState("APP_UPDATE") /\ ~InState("FINISH") /\ ~InState("UPDATING")
  BY <1>1 DEF FullInv, ControlInv, Control, Updating
<1> QED
  BY <1>2, <1>3, <1>4 DEF BankInv, InState, Installed

(* What a completed request does to the bank. *)
LEMMA EraseDone ==
  ASSUME FullInv, Clearing, soc = ClearRequest(pst.round), ClearedTo(pst.round * PageWords),
         flash' = Performed, pst' = pst
  PROVE  ClearedTo((pst.round + 1) * PageWords)'
<1> DEFINE base == pst.round * PageWords
           end  == (pst.round + 1) * PageWords
<1>1. base \in Nat /\ end = base + PageWords /\ PageWords \in Nat
  <2>1. pst.round \in Nat /\ PageWords \in Nat
    BY ConstantTypes DEF FullInv, ControlInv, TypeOK, Queue
  <2> QED
    BY <2>1
<1>2. soc.kind = "erase" /\ soc.at = base /\ soc.words = PageWords
  BY DEF ClearRequest
<1>3. \A w \in Bank : w < base => flash[w] = Erased
  BY DEF ClearedTo
<1> HIDE DEF base, end
<1>4. \A w \in Bank : w < end => Performed[w] = Erased
  BY <1>1, <1>2, <1>3 DEF Performed, Span, Bank
<1> QED
  BY <1>4 DEF ClearedTo, end

LEMMA StoreDone ==
  ASSUME WholeImages, FullInv, Updating, Storing, soc # NoRequest,
         Filled(PageStart), PageInBuff, flash' = Performed,
         UNCHANGED <<imageSize, bytes_read>>
  PROVE  Filled(bytes_read)'
<1> DEFINE n == StoreCommand.size
           p == PageStart
<1>1. /\ n \in 1 .. PageBytes /\ p \in Nat /\ p % 4 = 0
      /\ n = Smaller(PageBytes, fileSize - p) /\ bytes_read = p + PageBytes
      /\ fileSize \in Nat /\ fileSize % 4 = 0 /\ imageSize = fileSize /\ p < fileSize
  <2>1. /\ n \in 1 .. PageBytes /\ p \in Nat /\ p % 4 = 0
        /\ n = Smaller(PageBytes, fileSize - p)
    BY StoreIsOnePiece DEF FullInv
  <2>2. bytes_read = p + PageBytes
    BY ConstantTypes DEF PageStart, FullInv, ControlInv, TypeOK
  <2>3. fileSize \in Nat /\ fileSize % 4 = 0 /\ imageSize = fileSize /\ p < fileSize
    BY FileSizesAreNat DEF WholeImages, Updating, FullInv, ControlInv, TypeOK, Storing, WordBytes
  <2> QED
    BY <2>1, <2>2, <2>3
<1>2. /\ soc.kind = "write" /\ soc.src = 0 /\ soc.words = n \div 4 /\ soc.at = p \div 4
  <2>1. soc = StoreRequest(StoreCommand, 0)
    BY DEF Storing, Asked
  <2>2. StoreCommand = Command("STORE", n, p, "buff")
    BY DEF StoreCommand, Command
  <2> HIDE DEF n, p
  <2> QED
    BY <1>1, <2>1, <2>2, PageStore
<1>3. /\ \A w \in ImageWords : flash[w] = IF 4 * w < p THEN w ELSE Erased
      /\ \A k \in 0 .. PageWords - 1 : buff[k] = p \div 4 + k
  BY DEF Filled, PageInBuff, WordBytes
<1> HIDE DEF n, p
<1>4. n % 4 = 0 /\ n \div 4 <= PageWords
  BY <1>1, ConstantTypes DEF Smaller
<1>5. ASSUME NEW w \in ImageWords
      PROVE  Performed[w] = IF 4 * w < bytes_read THEN w ELSE Erased
  <2>1. w \in Bank /\ w \in Nat /\ 4 * w < fileSize
    BY <1>1 DEF ImageWords, Bank, WordBytes
  <2>2. CASE w \in Span(soc)
    <3>1. p \div 4 <= w /\ w < p \div 4 + n \div 4
      BY <1>2, <2>2 DEF Span
    <3>2. 4 * w >= p /\ 4 * w < bytes_read /\ w - p \div 4 \in 0 .. PageWords - 1
      BY <1>1, <1>4, <2>1, <3>1, ConstantTypes
    <3>3. flash[w] = Erased
      BY <1>1, <1>3, <2>1, <3>2
    <3>4. Performed[w] = buff[0 + w - p \div 4]
      BY <1>2, <2>1, <2>2, <3>3 DEF Performed
    <3>5. 0 + w - p \div 4 = w - p \div 4 /\ p \div 4 + (w - p \div 4) = w
      BY <1>1, <2>1
    <3> QED
      BY <1>3, <3>2, <3>4, <3>5
  <2>3. CASE w \notin Span(soc)
    <3>1. w < p \div 4 \/ w >= p \div 4 + n \div 4
      BY <1>1, <1>2, <2>1, <2>3 DEF Span
    <3>2. (4 * w < p) <=> (4 * w < bytes_read)
      BY <1>1, <1>4, <2>1, <3>1, ConstantTypes DEF Smaller
    <3>3. Performed[w] = flash[w]
      BY <2>1, <2>3 DEF Performed
    <3> QED
      BY <1>3, <3>2, <3>3
  <2> QED
    BY <2>2, <2>3
<1> QED
  BY <1>5 DEF Filled, ImageWords, WordBytes

LEMMA AnswerBank ==
  ASSUME WholeImages, FullInv, FlashDone \/ FlashFails
  PROVE  BankInv'
<1>1. /\ soc # NoRequest /\ soc' = NoRequest
      /\ FlashDone \/ socEvent' = "error"
      /\ UNCHANGED <<header, headerBusy, imageSize, mode, dfu, counters, buff,
                     h_pstorage_status, pst>>
      /\ UNCHANGED <<h_dfu_update_status, h_dfu_update_status_store, bytes_read, fileSize>>
  BY DEF FlashDone, FlashFails, NoRequest, dfu, counters
<1>2. /\ mode = "boot" /\ InState("UPDATING") /\ Updating /\ h_pstorage_status = "BUSY"
      /\ Clearing \/ Storing
      /\ UpdateBank
  BY <1>1, SpanOutsideUpdate, EventInUpdate DEF FullInv, BankInv
<1>3. UpdateBank'
  <2>1. CASE FlashDone /\ Clearing
    <3>1. soc = ClearRequest(pst.round) /\ ClearedTo(pst.round * PageWords)
      BY <1>1, <1>2, <2>1 DEF Clearing, Asked, UpdateBank
    <3>2. ClearedTo((pst.round + 1) * PageWords)'
      BY <2>1, <3>1, EraseDone DEF FlashDone
    <3> QED
      BY <1>1, <1>2, <2>1, <3>2 DEF UpdateBank, FlashDone, Clearing
  <2>2. CASE FlashDone /\ Storing
    <3>1. Filled(PageStart) /\ PageInBuff
      BY <1>1, <1>2, <2>2 DEF Storing, UpdateBank
    <3>2. Filled(bytes_read)'
      BY <1>1, <1>2, <2>2, <3>1, StoreDone DEF FlashDone
    <3> QED
      BY <1>1, <1>2, <2>2, <3>2 DEF UpdateBank, FlashDone, Storing
  <2>3. CASE ~FlashDone
    BY <1>1, <1>2, <2>3 DEF UpdateBank
  <2> QED
    BY <1>2, <2>1, <2>2, <2>3
<1> QED
  BY <1>1, <1>2, <1>3 DEF BankInv, InState, Updating

LEMMA NextBank ==
  ASSUME WholeImages, FullInv, [Next]_vars
  PROVE  FullInv'
<1>1. ControlInv'
  BY NextControl DEF FullInv
<1>2. ASSUME UNCHANGED vars PROVE BankInv'
  BY <1>2 DEF vars, persistent, dfu, counters, storage, FullInv, BankInv, Installed, ImageInBank,
     ImageWords, Filled, InState, UpdateBank, ClearedTo, PageInBuff, PageStart
<1>3. BankInv'
  BY <1>1, <1>2, BootBank, EraseBank, CopyBank, CopiedBank, FinishBank, UpdatingBank, SuccessBank,
     RestartBank, StartBank, AnswerBank, HeaderBank
     DEF Next, MainLoop, Fault
<1> QED
  BY <1>1, <1>3 DEF FullInv

LEMMA FullAlways ==
  ASSUME WholeImages
  PROVE  Spec => []FullInv
<1>1. Init => FullInv
  BY InitControl, InitBank DEF FullInv
<1>2. FullInv /\ [Next]_vars => FullInv'
  BY NextBank
<1> QED
  BY <1>1, <1>2, PTL DEF Spec

-----------------------------------------------------------------------------
(* Theorems for images of whole words, read without fault *)

(* No interleaving of power failures, flash errors, resets and restarts    *)
(* makes bootloader_app_start jump into an incomplete image.               *)
THEOREM OnlyWholeStarts ==
  ASSUME WholeImages
  PROVE  Spec => []StartsOnlyWhole
<1>1. FullInv => StartsOnlyWhole
  BY DEF FullInv, BankInv, StartsOnlyWhole
<1> QED
  BY <1>1, FullAlways, PTL

(* While the bank is in pieces the header still offers the image: the next *)
(* start repeats the update.                                               *)
THEOREM AlwaysRecoverable ==
  ASSUME WholeImages
  PROVE  Spec => []Recoverable
<1>1. FullInv => Recoverable
  BY DEF FullInv, ControlInv, TypeOK, BankInv, Installed, Recoverable
<1> QED
  BY <1>1, FullAlways, PTL

(* The loop that polls h_pstorage_status waits for a flash operation that  *)
(* is under way, or for its event.                                         *)
THEOREM NeverWaitsInVain ==
  ASSUME WholeImages
  PROVE  Spec => []WaitsOnlyForFlash
<1>1. ASSUME ControlInv, InState("UPDATING"), h_pstorage_status = "BUSY"
      PROVE  /\ pst.count = 1 /\ pst.flash_access
             /\ soc.kind # "none" \/ socEvent # "none"
  <2>1. Updating /\ (Clearing \/ Storing \/ Stuck)
    BY <1>1 DEF ControlInv, Control, InUpdate
  <2>2. ~Stuck
    BY <1>1, <2>1 DEF WholeImages, Stuck, Updating, ControlInv, TypeOK
  <2>3. CASE Clearing
    BY <2>3 DEF Clearing, WorksOn, Asked, ClearRequest
  <2>4. CASE Storing
    BY <2>4 DEF Storing, WorksOn, Asked, StoreRequest
  <2> QED
    BY <2>1, <2>2, <2>3, <2>4
<1>2. ControlInv => WaitsOnlyForFlash
  BY <1>1 DEF WaitsOnlyForFlash, InState
<1> QED
  BY <1>2, ControlAlways, PTL

-----------------------------------------------------------------------------
(* The bootloader implements ImageSwap, for images that are not empty.     *)

(* Every page that is erased holds a word of the image. *)
RoundInv ==
    (InState("UPDATING") /\ h_pstorage_status = "BUSY" /\ h_dfu_update_status_store = "APP_ERASE")
        => pst.round * PageBytes < fileSize

SwapInv == FullInv /\ RoundInv

LEMMA EraseRound ==
  ASSUME 0 \notin FileSizes, FullInv, EraseStep
  PROVE  RoundInv'
<1>1. fileSize' = fileSize /\ fileSize \in Nat \ {0}
  BY FileSizesAreNat
     DEF EraseStep, Step, counters, FullInv, ControlInv, TypeOK, Control, InState, Updating
<1>2. pst'.round = 0
  <2> DEFINE c == EraseCommand
  <2>1. c \in Commands /\ RequestOf(c, 0) = ClearRequest(0)
    BY <1>1, ClearCommand DEF EraseCommand
  <2>2. /\ ClearRequest(0).words # 0
        /\ pst \in Queue(Data) /\ QuietQueue(pst) /\ soc = NoRequest
    BY ConstantTypes
       DEF ClearRequest, FullInv, ControlInv, TypeOK, Control, Quiet, EraseStep, Step, InState
  <2>3. pst' = Enqueue(pst, NoRequest, c).q
    BY <2>2 DEF EraseStep, EraseCommand
  <2> HIDE DEF c
  <2> QED
    BY <2>1, <2>2, <2>3, EnqueueResult DEF WorksOn
<1>3. 0 * PageBytes = 0
  BY ConstantTypes
<1> QED
  BY <1>1, <1>2, <1>3 DEF RoundInv

LEMMA SuccessRound ==
  ASSUME FullInv, SuccessEvent
  PROVE  RoundInv'
<1>1. CASE CommandFinished(pst)
  BY <1>1 DEF SuccessEvent, RoundInv
<1>2. CASE ~CommandFinished(pst)
  <2> DEFINE c == EraseCommand
             r == pst.round
  <2>1. Clearing /\ soc = NoRequest
    BY <1>2, EventInUpdate, StoreIsOnePiece
       DEF SuccessEvent, FullInv, Clearing, Asked, ClearRequest, NoRequest
  <2>2. c \in Commands /\ c.op_code = "CLEAR" /\ WorksOn(pst, c, r) /\ c.size = fileSize
    BY <2>1, ClearCommand, FileSizesAreNat
       DEF EraseCommand, Command, Clearing, FullInv, ControlInv, TypeOK
  <2>3. r \in Nat /\ pst \in Queue(Data) /\ fileSize \in Nat
    BY FileSizesAreNat DEF FullInv, ControlInv, TypeOK, Queue
  <2>4. (r + 1) * PageBytes < fileSize
    <3>1. pst.cmd[pst.rp] = c
      BY <2>2 DEF WorksOn
    <3>2. (r + 1) * PageBytes \in Nat
      BY <2>3, ConstantTypes
    <3> HIDE DEF c
    <3> QED
      BY <1>2, <2>2, <2>3, <3>1, <3>2 DEF CommandFinished
  <2> HIDE DEF c, r
  <2>5. WorksOn(Dequeue(Advance(pst), NoRequest).q, c, r + 1)
    BY <1>2, <2>2, <2>3, NextPiece
  <2>6. pst' = Dequeue(Advance(pst), NoRequest).q
    BY <1>2, <2>1, Zenon DEF SuccessEvent
  <2>7. pst'.round = r + 1 /\ fileSize' = fileSize
    BY <2>5, <2>6 DEF WorksOn, SuccessEvent, counters
  <2> QED
    BY <2>4, <2>7 DEF RoundInv
<1> QED
  BY <1>1, <1>2

LEMMA NextRound ==
  ASSUME WholeImages, 0 \notin FileSizes, SwapInv, [Next]_vars
  PROVE  SwapInv'
<1>1. FullInv'
  BY NextBank DEF SwapInv
<1>2. ASSUME FlashDone \/ FlashFails \/ HeaderErased \/ UNCHANGED vars PROVE RoundInv'
  BY <1>2 DEF FlashDone, FlashFails, HeaderErased, vars, dfu, counters, storage, SwapInv, RoundInv,
     InState
<1>3. ASSUME PowerLoss \/ AppReset \/ ErrorEvent \/ StartApp PROVE RoundInv'
  BY <1>3 DEF PowerLoss, AppReset, ErrorEvent, StartApp, Restart, RoundInv, InState
<1>4. ASSUME Boot PROVE RoundInv'
  BY <1>4 DEF Boot, dfu, RoundInv, InState, SwapInv, FullInv, ControlInv, Control, FreshRam
<1>5. ASSUME CopyStep \/ CopiedStep \/ FinishStep \/ UpdatingStep PROVE RoundInv'
  BY <1>5 DEF CopyStep, CopiedStep, FinishStep, UpdatingStep, RoundInv, InState
<1>6. RoundInv'
  BY <1>2, <1>3, <1>4, <1>5, EraseRound, SuccessRound DEF SwapInv, Next, MainLoop, Fault
<1> QED
  BY <1>1, <1>6 DEF SwapInv

LEMMA SwapAlways ==
  ASSUME WholeImages, 0 \notin FileSizes
  PROVE  Spec => []SwapInv
<1>1. Init => SwapInv
  BY InitControl, InitBank DEF SwapInv, FullInv, RoundInv, InState, Init
<1>2. SwapInv /\ [Next]_vars => SwapInv'
  BY NextRound
<1> QED
  BY <1>1, <1>2, PTL DEF Spec

(* What ImageSwap sees. *)
App == IF flash = OldFlash THEN "old" ELSE IF ImageInBank THEN "new" ELSE "partial"

Touched == \E w \in ImageWords : flash[w] \notin {Old, w}

LEMMA TouchedIsPartial == Touched => App = "partial"
  BY DEF Touched, App, OldFlash, ImageInBank, ImageWords

(* A bank that holds a word of the image is not the old one. *)
LEMMA ImageIsNotOld ==
  ASSUME TypeOK, 0 \notin FileSizes, ImageInBank
  PROVE  flash # OldFlash
<1>1. 0 \in Bank
  <2>1. NumPages * PageWords \in Nat \ {0}
    BY ConstantTypes, NumPagesAssumption
  <2> QED
    BY <2>1 DEF Bank
<1>2. imageSize \in Nat \ {0}
  BY FileSizesAreNat DEF TypeOK
<1> QED
  BY <1>1, <1>2 DEF ImageInBank, ImageWords, WordBytes, OldFlash, Old

(* A torn request can only break: the bank is what it was, or in pieces.   *)
LEMMA TornApp ==
  ASSUME 0 \notin FileSizes, SwapInv, NEW words \in SUBSET Span(soc),
         flash' = Torn(words), imageSize' = imageSize
  PROVE  App' = App \/ App' = "partial"
<1>1. /\ flash \in [Bank -> Cells]
      /\ words \subseteq Bank /\ ImageWords \subseteq Bank /\ ImageWords' = ImageWords
  BY DEF Span, ImageWords, SwapInv, FullInv, ControlInv, TypeOK
<1>2. CASE words = {}
  <2>1. flash' = flash
    BY <1>1, <1>2 DEF Torn
  <2> QED
    BY <1>1, <2>1 DEF App, ImageInBank
<1>3. CASE words # {}
  <2>1. PICK v \in words : TRUE
    BY <1>3
  <2>2. flash'[v] = Garbage /\ v \in Bank
    BY <1>1, <2>1 DEF Torn
  <2>3. flash' # OldFlash
    BY <2>2 DEF OldFlash, Old, Garbage
  <2>4. ImageInBank' => ImageInBank
    BY <1>1 DEF Torn, ImageInBank, ImageWords, Bank, Garbage
  <2>5. ImageInBank' => flash # OldFlash
    BY <2>4, ImageIsNotOld DEF SwapInv, FullInv, ControlInv
  <2> QED
    BY <2>3, <2>4, <2>5 DEF App
<1> QED
  BY <1>2, <1>3

(* A finished erase leaves a word of the image erased. *)
LEMMA EraseApp ==
  ASSUME SwapInv, FlashDone, Clearing
  PROVE  App' = "partial"
<1> DEFINE w == pst.round * PageWords
<1>1. /\ InState("UPDATING") /\ Updating /\ h_pstorage_status = "BUSY"
  BY SpanOutsideUpdate, EventInUpdate DEF FlashDone, NoRequest, SwapInv, FullInv
<1>2. /\ imageSize = fileSize /\ fileSize \in Nat /\ pst.round \in Nat
      /\ pst.round * PageBytes < fileSize
      /\ imageSize \in 0 .. NumPages * PageBytes
  BY <1>1, FileSizesAssumption, FileSizesAreNat
     DEF Updating, SwapInv, RoundInv, Clearing, FullInv, ControlInv, TypeOK, Queue
<1>3. pst.round * PageBytes = 4 * w /\ w \in Nat
  BY <1>2, ConstantTypes
<1>4. NumPages * PageBytes = 4 * (NumPages * PageWords) /\ NumPages * PageWords \in Nat
  BY ConstantTypes, NumPagesAssumption
<1>5. soc = ClearRequest(pst.round)
  BY DEF Clearing, Asked, FlashDone, NoRequest
<1>6. soc.kind = "erase" /\ soc.at = w /\ soc.words = PageWords
  BY <1>5 DEF ClearRequest
<1> HIDE DEF w
<1>7. w \in ImageWords
  BY <1>2, <1>3, <1>4 DEF ImageWords, Bank, WordBytes
<1>8. w \in Bank /\ w \in Nat
  BY <1>3, <1>7 DEF ImageWords
<1>9. w \in Span(soc)
  BY <1>6, <1>8, ConstantTypes DEF Span
<1>10. flash'[w] = Erased
  BY <1>6, <1>8, <1>9 DEF FlashDone, Performed
<1>11. ImageWords' = ImageWords
  BY DEF FlashDone, ImageWords
<1>12. Touched'
  BY <1>7, <1>8, <1>10, <1>11 DEF Touched, Erased, Old
<1> QED
  BY <1>12, TouchedIsPartial DEF Touched, App, OldFlash, ImageInBank, ImageWords

(* A store begins with the bank in pieces. *)
LEMMA StoreApp ==
  ASSUME WholeImages, SwapInv, FlashDone, Storing
  PROVE  App = "partial" /\ App' # "old"
<1> DEFINE w == PageStart \div 4
<1>1. /\ InState("UPDATING") /\ Updating /\ h_pstorage_status = "BUSY" /\ soc # NoRequest
  BY SpanOutsideUpdate, EventInUpdate DEF FlashDone, NoRequest, SwapInv, FullInv
<1>2. UpdateBank /\ h_dfu_update_status_store = "APP_UPDATE"
  BY <1>1 DEF SwapInv, FullInv, BankInv, Storing
<1>3. Filled(PageStart) /\ PageInBuff
  BY <1>1, <1>2 DEF UpdateBank
<1>4. /\ PageStart \in Nat /\ PageStart % 4 = 0 /\ PageStart < fileSize
      /\ imageSize = fileSize /\ fileSize \in Nat
      /\ imageSize \in 0 .. NumPages * PageBytes
  BY <1>1, StoreIsOnePiece, FileSizesAssumption, FileSizesAreNat
     DEF Storing, Updating, SwapInv, FullInv, ControlInv, TypeOK
<1>5. NumPages * PageBytes = 4 * (NumPages * PageWords) /\ NumPages * PageWords \in Nat
  BY ConstantTypes, NumPagesAssumption
<1>6. w \in Nat /\ 4 * w = PageStart
  BY <1>4
<1> HIDE DEF w
<1>7. w \in ImageWords
  BY <1>4, <1>5, <1>6 DEF ImageWords, Bank, WordBytes
<1>8. flash[w] = Erased
  BY <1>3, <1>4, <1>6, <1>7 DEF Filled, WordBytes
<1>9. App = "partial"
  BY <1>6, <1>7, <1>8, TouchedIsPartial DEF Touched, Erased, Old
<1>10. Filled(bytes_read)'
  BY <1>1, <1>3, StoreDone DEF FlashDone, counters, SwapInv
<1>11. flash'[w] \in {w, Erased}
  <2>1. w \in ImageWords'
    BY <1>7 DEF FlashDone, ImageWords
  <2> QED
    BY <1>10, <2>1 DEF Filled
<1>12. flash' # OldFlash
  BY <1>6, <1>7, <1>11 DEF OldFlash, ImageWords, Old, Erased
<1> QED
  BY <1>9, <1>12 DEF App

(* One step of the bootloader is one step of ImageSwap, or none. *)
LEMMA SwapStep ==
  ASSUME WholeImages, 0 \notin FileSizes, SwapInv, [Next]_vars
  PROVE  [Swap!Next]_(Swap!vars)
<1>1. /\ TypeOK /\ FullInv /\ BankInv
      /\ App \in {"old", "partial", "new"}
  BY DEF SwapInv, FullInv, ControlInv, App
<1>2. ASSUME UNCHANGED <<flash, imageSize>> PROVE App' = App
  BY <1>2 DEF App, ImageInBank, ImageWords
<1>3. ImageInBank => App = "new"
  BY <1>1, ImageIsNotOld DEF App
<1>4. (App = "old") <=> (flash = OldFlash)
  BY DEF App
<1>5. ASSUME soc # NoRequest PROVE header = "valid" /\ ~headerBusy /\ mode = "boot"
  BY <1>1, <1>5, SpanOutsideUpdate DEF FullInv, Updating
<1>6. ASSUME \/ Boot \/ EraseStep \/ CopyStep \/ CopiedStep \/ FinishStep \/ UpdatingStep
             \/ SuccessEvent \/ ErrorEvent \/ UNCHANGED vars
      PROVE  App' = App /\ header' = header /\ (mode' = "app" <=> mode = "app")
  BY <1>2, <1>6 DEF Boot, EraseStep, CopyStep, CopiedStep, FinishStep, UpdatingStep, SuccessEvent,
     ErrorEvent, Step, Restart, persistent, vars
<1>7. ASSUME HeaderErased
      PROVE  App' = App /\ App = "new" /\ header' = "none" /\ mode' = mode
  BY <1>1, <1>2, <1>3, <1>7 DEF HeaderErased, BankInv, Installed
<1>8. ASSUME StartApp
      PROVE  /\ App' = App /\ header' = header /\ mode = "boot" /\ mode' = "app"
             /\ App = "new" \/ (App = "old" /\ header = "none")
  BY <1>1, <1>2, <1>3, <1>4, <1>8 DEF StartApp, persistent, BankInv, InState
<1>9. ASSUME AppReset
      PROVE  App' = App /\ header' = header /\ mode = "app" /\ mode' = "off"
  BY <1>2, <1>9 DEF AppReset, Restart, persistent
<1>10. ASSUME FlashDone
       PROVE  /\ header' = header /\ header = "valid" /\ mode' = mode /\ mode = "boot"
              /\ App' = "partial" \/ (App = "partial" /\ App' = "new")
  <2>1. /\ header' = header /\ header = "valid" /\ mode' = mode /\ mode = "boot"
        /\ Clearing \/ Storing
    BY <1>1, <1>5, <1>10, EventInUpdate DEF FlashDone, NoRequest, FullInv
  <2>2. App' \in {"old", "partial", "new"}
    BY DEF App
  <2> QED
    BY <1>10, <2>1, <2>2, EraseApp, StoreApp
<1>11. ASSUME FlashFails \/ (PowerLoss /\ soc # NoRequest)
       PROVE  /\ header' = header /\ header = "valid" /\ mode = "boot" /\ mode' # "app"
              /\ App' = App \/ App' = "partial"
  BY <1>5, <1>11, TornApp DEF FlashFails, PowerLoss, Restart, NoRequest
<1>12. ASSUME PowerLoss, soc = NoRequest
       PROVE  /\ App' = App /\ mode' = "off"
              /\ header' = header \/ (App = "new" /\ header' = "none")
  <2>1. Span(soc) = {}
    BY <1>12, SMT DEF Span, Bank, NoRequest
  <2>2. flash' = flash
    BY <1>1, <1>12, <2>1 DEF PowerLoss, Torn, TypeOK
  <2>3. headerBusy => App = "new"
    BY <1>1, <1>3 DEF BankInv, Installed
  <2> QED
    BY <1>2, <1>12, <2>2, <2>3 DEF PowerLoss, Restart
<1>13. Swap!vars = <<App, header = "valid", mode = "app">>
  BY DEF Swap!vars, App
<1>14. ASSUME \/ Boot \/ EraseStep \/ CopyStep \/ CopiedStep \/ FinishStep \/ UpdatingStep
              \/ SuccessEvent \/ ErrorEvent \/ UNCHANGED vars
       PROVE  UNCHANGED Swap!vars
  BY <1>6, <1>13, <1>14 DEF Swap!vars, App
<1>15. ASSUME HeaderErased PROVE [Swap!Withdraw]_(Swap!vars)
  BY <1>1, <1>7, <1>13, <1>15 DEF Swap!Withdraw, Swap!vars, App, TypeOK
<1>16. ASSUME StartApp PROVE Swap!Start
  BY <1>8, <1>16 DEF Swap!Start, App
<1>17. ASSUME AppReset PROVE Swap!Stop
  BY <1>9, <1>17 DEF Swap!Stop, App
<1>18. ASSUME FlashDone PROVE Swap!Overwrite \/ Swap!Complete
  BY <1>10, <1>18 DEF Swap!Overwrite, Swap!Complete, App
<1>19. ASSUME FlashFails \/ (PowerLoss /\ soc # NoRequest)
       PROVE  [Swap!Overwrite]_(Swap!vars)
  BY <1>11, <1>19 DEF Swap!Overwrite, Swap!vars, App
<1>20. ASSUME PowerLoss, soc = NoRequest
       PROVE  [Swap!Withdraw \/ Swap!Stop]_(Swap!vars)
  BY <1>1, <1>12, <1>20 DEF Swap!Withdraw, Swap!Stop, Swap!vars, App, TypeOK
<1> QED
  BY <1>14, <1>15, <1>16, <1>17, <1>18, <1>19, <1>20 DEF Next, MainLoop, Fault, Swap!Next

(* A device never starts a half-copied image, replaces the old one before  *)
(* it starts anything, and withdraws the offer only when the new image is  *)
(* whole: the whole of ImageSwap.                                          *)
THEOREM Refinement ==
  ASSUME WholeImages, 0 \notin FileSizes
  PROVE  Spec => ImplementsImageSwap
<1>1. Init => Swap!Init
  BY DEF Init, Swap!Init
<1>2. SwapInv /\ [Next]_vars => [Swap!Next]_(Swap!vars)
  BY SwapStep
<1> QED
  BY <1>1, <1>2, SwapAlways, PTL DEF Spec, ImplementsImageSwap, Swap!Spec

-----------------------------------------------------------------------------
(* Where the code keeps what its comments promise: pstorage gets whole     *)
(* words if the images are made of them, and the sum is right whenever the *)
(* application starts if the external flash is never misread.              *)

WholeSizes == \A s \in FileSizes : s % WordBytes = 0

WholeStores(cmd) ==
    \A i \in 0 .. QueueSize - 1 : cmd[i].op_code = "STORE" => cmd[i].size % WordBytes = 0

(* The commands in the ring change by the one that is put in, by the one   *)
(* that is cleared, and in no other way.                                   *)
LEMMA ProcessKeepsCommands ==
  ASSUME NEW q, "cmd" \in DOMAIN q, NEW d
  PROVE  Process(q, d).q.cmd = q.cmd
<1>1. \E access, e, ret : Process(q, d) =
         [q |-> [q EXCEPT !.flash_access = access], soc |-> e, ret |-> ret]
  BY Zenon DEF Process
<1>2. PICK access, e, ret : Process(q, d) =
         [q |-> [q EXCEPT !.flash_access = access], soc |-> e, ret |-> ret]
  BY <1>1
<1> QED
  BY <1>2

LEMMA DequeueKeepsCommands ==
  ASSUME NEW q, "cmd" \in DOMAIN q, NEW d
  PROVE  Dequeue(q, d).q.cmd = q.cmd
<1>1. CASE q.count > 0 /\ ~q.flash_access
  <2> DEFINE run == Process(q, d)
  <2>1. Dequeue(q, d) = [run EXCEPT !.ret = Tolerate(@)]
    BY <1>1 DEF Dequeue
  <2>2. [run EXCEPT !.ret = Tolerate(@)].q = run.q
    BY DEF Process
  <2> QED
    BY <2>1, <2>2, ProcessKeepsCommands
<1>2. CASE ~(q.count > 0 /\ ~q.flash_access)
  BY <1>2 DEF Dequeue
<1> QED
  BY <1>1, <1>2

LEMMA EnqueueCommands ==
  ASSUME NEW q \in Queue(Data), NEW d, NEW c
  PROVE  Enqueue(q, d, c).q.cmd \in {q.cmd, [q.cmd EXCEPT ![Wrap(q.rp + q.count)] = c]}
<1> DEFINE put == Put(q, c)
           run == IF q.flash_access
                  THEN [q |-> put, soc |-> d, ret |-> "SUCCESS"]
                  ELSE Process(put, d)
<1>1. CASE q.count = QueueSize
  BY <1>1 DEF Enqueue
<1>2. CASE q.count # QueueSize
  <2>1. put.cmd = [q.cmd EXCEPT ![Wrap(q.rp + q.count)] = c] /\ "cmd" \in DOMAIN put
    BY DEF Put, Queue
  <2> HIDE DEF put
  <2>2. Process(put, d).q.cmd = put.cmd
    BY <2>1, ProcessKeepsCommands
  <2>3. run.q.cmd = put.cmd
    BY <2>2
  <2>4. Enqueue(q, d, c).q = [run.q EXCEPT !.count = @ + 1]
    BY <1>2, Zenon DEF Enqueue, put
  <2> HIDE DEF run
  <2>5. [run.q EXCEPT !.count = @ + 1].cmd = run.q.cmd
    OBVIOUS
  <2> QED
    BY <2>1, <2>3, <2>4, <2>5
<1> QED
  BY <1>1, <1>2

(* A command stored in the ring keeps all stores whole if it is whole.     *)
LEMMA EnqueueWhole ==
  ASSUME NEW q \in Queue(Data), NEW d, NEW c \in Commands, WholeStores(q.cmd),
         c.op_code = "STORE" => c.size % WordBytes = 0
  PROVE  WholeStores(Enqueue(q, d, c).q.cmd)
<1>1. \A i \in 0 .. QueueSize - 1 :
         [q.cmd EXCEPT ![Wrap(q.rp + q.count)] = c][i] \in {q.cmd[i], c}
  BY DEF Queue
<1>2. WholeStores([q.cmd EXCEPT ![Wrap(q.rp + q.count)] = c])
  BY <1>1 DEF WholeStores
<1> QED
  BY <1>2, EnqueueCommands

LEMMA SuccessWhole ==
  ASSUME NEW q \in Queue(Data), WholeStores(q.cmd)
  PROVE  /\ WholeStores(Advance(q).cmd)
         /\ WholeStores(InitElement(Advance(q), q.rp).cmd)
<1>1. Advance(q).cmd = q.cmd
  BY DEF Advance
<1>2. InitElement(Advance(q), q.rp).cmd = [q.cmd EXCEPT ![q.rp] = Free]
  BY <1>1 DEF InitElement, Advance
<1>3. \A i \in 0 .. QueueSize - 1 : [q.cmd EXCEPT ![q.rp] = Free][i] \in {q.cmd[i], Free}
  BY DEF Queue
<1> QED
  BY <1>1, <1>2, <1>3 DEF WholeStores, Free

(* What is left of an image of whole words is whole words.                 *)
LEMMA ChunkWhole ==
  ASSUME WholeSizes, ControlInv, CopyStep
  PROVE  Command("STORE", ChunkBytes, m_data_received_remit, "buff") \in Commands
         /\ ChunkBytes % WordBytes = 0
<1>1. /\ fileSize \in Nat /\ fileSize % 4 = 0
      /\ bytes_read \in Nat /\ bytes_read < fileSize /\ bytes_read % 4 = 0
      /\ m_data_received_remit = bytes_read
  BY FileSizesAreNat DEF WholeSizes, CopyStep, Copied, Step, ControlInv, Control, InState, TypeOK, Copying,
     Smaller, WordBytes
<1>2. ChunkBytes \in Nat /\ ChunkBytes % 4 = 0
  BY <1>1, ConstantTypes DEF ChunkBytes, Smaller
<1> QED
  BY <1>1, <1>2 DEF Command, Commands, Data, WordBytes

LEMMA NextWhole ==
  ASSUME WholeSizes, ControlInv, StoresWholeWords, [Next]_vars
  PROVE  StoresWholeWords'
<1>1. pst \in Queue(Data) /\ WholeStores(pst.cmd)
  BY DEF ControlInv, TypeOK, StoresWholeWords, WholeStores
<1>2. WholeStores(pst.cmd)' => StoresWholeWords'
  BY DEF StoresWholeWords, WholeStores
<1>3. CASE pst' = EmptyQueue
  BY <1>3 DEF StoresWholeWords, EmptyQueue, Free
<1>4. CASE UNCHANGED pst
  BY <1>4 DEF StoresWholeWords
<1>5. CASE EraseStep
  <2>1. Command("CLEAR", fileSize, 0, NoData) \in Commands
    BY FileSizesAreNat DEF Command, Commands, ControlInv, TypeOK
  <2>2. WholeStores(Enqueue(pst, soc, Command("CLEAR", fileSize, 0, NoData)).q.cmd)
    BY <1>1, <2>1, EnqueueWhole DEF Command
  <2> QED
    BY <1>2, <1>5, <2>2 DEF EraseStep, WholeStores
<1>6. CASE CopyStep
  <2>1. WholeStores(Enqueue(pst, soc, Command("STORE", ChunkBytes, m_data_received_remit, "buff")).q.cmd)
    BY <1>1, <1>6, ChunkWhole, EnqueueWhole DEF Command
  <2> QED
    BY <1>2, <1>6, <2>1 DEF CopyStep, WholeStores
<1>7. CASE SuccessEvent
  <2> DEFINE next == IF CommandFinished(pst) THEN InitElement(Advance(pst), pst.rp) ELSE Advance(pst)
  <2>1. WholeStores(next.cmd) /\ "cmd" \in DOMAIN next
    BY <1>1, SuccessWhole DEF Queue, Advance, InitElement
  <2>2. pst' = Dequeue(next, soc).q
    BY <1>7, Zenon DEF SuccessEvent
  <2> HIDE DEF next
  <2>3. pst'.cmd = next.cmd
    BY <2>1, <2>2, DequeueKeepsCommands
  <2> QED
    BY <1>2, <2>1, <2>3 DEF WholeStores
<1>8. PowerLoss \/ AppReset \/ ErrorEvent \/ StartApp => pst' = EmptyQueue
  BY DEF PowerLoss, AppReset, ErrorEvent, StartApp, Restart, ForgetRam
<1>9. \/ Boot \/ CopiedStep \/ FinishStep \/ UpdatingStep \/ FlashDone \/ FlashFails
      \/ HeaderErased \/ UNCHANGED vars
      => UNCHANGED pst
  BY DEF Boot, CopiedStep, FinishStep, UpdatingStep, FlashDone, FlashFails, HeaderErased, vars, storage
<1> QED
  BY <1>3, <1>4, <1>5, <1>6, <1>7, <1>8, <1>9 DEF Next, MainLoop, Fault

(* For images of whole words pstorage_store gets whole words, as           *)
(* pstorage.h demands ("Must be word aligned"), with misread pages and     *)
(* restarts as well: the last page of an odd image is the only exception.  *)
THEOREM WholeImagesStoreWholeWords ==
  ASSUME WholeSizes
  PROVE  Spec => []StoresWholeWords
<1>1. Init => StoresWholeWords
  BY DEF Init, FreshRam, StoresWholeWords, EmptyQueue, Free
<1>2. ControlInv /\ StoresWholeWords /\ [Next]_vars => StoresWholeWords'
  BY NextWhole
<1> QED
  BY <1>1, <1>2, ControlAlways, PTL DEF Spec

(* What is summed is what is read of the image.                            *)
SumInv ==
    /\ InState("APP_UPDATE") \/ InState("FINISH")
          => flashCheckSum = Smaller(bytes_read, fileSize)
    /\ (InState("UPDATING") /\ h_dfu_update_status_store = "APP_UPDATE")
          => flashCheckSum = Smaller(bytes_read, fileSize)
    /\ InState("IDLE") => flashCheckSum = fileSize

LEMMA CopySum ==
  ASSUME ~ReadFaults, ControlInv, SumInv, CopyStep
  PROVE  SumInv'
<1>1. /\ fileSize \in Nat /\ bytes_read \in Nat /\ bytes_read < fileSize
      /\ flashCheckSum = bytes_read
      /\ fileSize' = fileSize /\ bytes_read' = bytes_read + PageBytes
  BY FileSizesAreNat DEF CopyStep, Copied, Step, ControlInv, TypeOK, SumInv, InState, Smaller
<1>2. ChunkBytes \in Nat /\ bytes_read + ChunkBytes = Smaller(bytes_read', fileSize')
  BY <1>1, Chunk
<1>3. PICK page \in PageRead : flashCheckSum' = AddToSum(page)
  BY DEF CopyStep
<1>4. \A k \in 0 .. PageWords - 1 : page[k] # Garbage
  BY <1>1, <1>3, ConstantTypes DEF PageRead, Garbage, WordBytes
<1>5. flashCheckSum' = flashCheckSum + ChunkBytes
  BY <1>1, <1>3, <1>4 DEF AddToSum, BadSum
<1> QED
  BY <1>1, <1>2, <1>5 DEF SumInv, CopyStep, Step, InState

LEMMA NextSum ==
  ASSUME ~ReadFaults, ControlInv, SumInv, [Next]_vars
  PROVE  SumInv'
<1>1. CASE Boot
  BY <1>1 DEF Boot, dfu, SumInv, InState, ControlInv, Control, FreshRam
<1>2. CASE EraseStep
  BY <1>2 DEF EraseStep, Step, SumInv, InState
<1>3. CASE CopiedStep
  BY <1>3 DEF CopiedStep, Step, counters, SumInv, InState
<1>4. CASE FinishStep
  <2>1. bytes_read >= fileSize /\ bytes_read \in Nat /\ fileSize \in Nat
    BY <1>4, FileSizesAreNat DEF FinishStep, Step, ControlInv, TypeOK, Control, InState
  <2>2. flashCheckSum = fileSize
    BY <1>4, <2>1 DEF FinishStep, Step, SumInv, InState, Smaller
  <2> QED
    BY <1>4, <2>2 DEF FinishStep, Step, counters, SumInv, InState
<1>5. CASE UpdatingStep
  <2>1. fileSize \in Nat
    BY FileSizesAreNat DEF ControlInv, TypeOK
  <2> QED
    BY <1>5, <2>1 DEF UpdatingStep, Step, SumInv, InState, Smaller
<1>6. CASE SuccessEvent
  BY <1>6 DEF SuccessEvent, dfu, counters, SumInv, InState
<1>7. CASE ErrorEvent \/ PowerLoss \/ AppReset
  BY <1>7 DEF ErrorEvent, PowerLoss, AppReset, Restart, SumInv, InState
<1>8. CASE StartApp
  BY <1>8 DEF StartApp, SumInv, InState
<1>9. CASE FlashDone \/ FlashFails \/ HeaderErased \/ UNCHANGED vars
  BY <1>9 DEF FlashDone, FlashFails, HeaderErased, vars, dfu, counters, SumInv, InState
<1> QED
  BY <1>1, <1>2, <1>3, <1>4, <1>5, <1>6, <1>7, <1>8, <1>9, CopySum DEF Next, MainLoop, Fault

(* Nothing compares flashCheckSum with the sum of the image, but while the *)
(* external flash is read without fault they agree whenever                *)
(* bootloader_app_start is called after an update, for every size of image *)
(* and after any power failures and flash errors: misread bytes are all    *)
(* that the missing check lets through.                                    *)
THEOREM RightlyReadIsRightlySummed ==
  ASSUME ~ReadFaults
  PROVE  Spec => StartsOnlyChecked
<1>1. Init => SumInv
  BY DEF Init, SumInv, InState
<1>2. ControlInv /\ SumInv /\ [Next]_vars => SumInv'
  BY NextSum
<1>3. SumInv /\ [Next]_vars
         => [mode = "boot" /\ mode' = "app" /\ fileSize # 0 => flashCheckSum = fileSize]_vars
  <2> SUFFICES ASSUME SumInv, Next, mode = "boot", mode' = "app"
               PROVE  flashCheckSum = fileSize
    BY DEF vars
  <2>1. StartApp
    BY DEF Next, MainLoop, Fault, Boot, EraseStep, CopyStep, CopiedStep, FinishStep, UpdatingStep,
       SuccessEvent, ErrorEvent, FlashDone, HeaderErased, PowerLoss, AppReset, FlashFails, Restart, Step
  <2> QED
    BY <2>1 DEF StartApp, SumInv, InState
<1> QED
  BY <1>1, <1>2, <1>3, ControlAlways, PTL DEF Spec, StartsOnlyChecked

-----------------------------------------------------------------------------
(* What the rest of the system takes for one step: from the bootloader's   *)
(* start to that of the application (the action Bootloader of UpdateDevice) *)

(* While an application runs it is the whole of the offered image, or the  *)
(* untouched old one, and the offer is gone or going.                      *)
HandedOver ==
    mode = "app" => /\ header = "none" \/ headerBusy
                    /\ ImageInBank \/ (flash = OldFlash /\ header = "none")

OfferGoes == (mode = "app" \/ InState("IDLE")) => header = "none" \/ headerBusy

LEMMA NextOfferGoes ==
  ASSUME TypeOK, OfferGoes, [Next]_vars
  PROVE  OfferGoes'
<1>1. CASE Boot
  BY <1>1 DEF Boot, persistent, dfu, TypeOK, OfferGoes, InState
<1>2. CASE EraseStep \/ CopyStep \/ CopiedStep \/ UpdatingStep
  BY <1>2 DEF EraseStep, CopyStep, CopiedStep, UpdatingStep, Step, OfferGoes, InState
<1>3. CASE FinishStep
  BY <1>3 DEF FinishStep, Step, OfferGoes, InState
<1>4. CASE SuccessEvent \/ FlashDone \/ FlashFails \/ UNCHANGED vars
  BY <1>4 DEF SuccessEvent, FlashDone, FlashFails, vars, persistent, dfu, OfferGoes, InState
<1>5. CASE ErrorEvent \/ PowerLoss \/ AppReset
  BY <1>5 DEF ErrorEvent, PowerLoss, AppReset, Restart, OfferGoes, InState
<1>6. CASE StartApp
  BY <1>6 DEF StartApp, persistent, OfferGoes, InState
<1>7. CASE HeaderErased
  BY <1>7 DEF HeaderErased, OfferGoes
<1> QED
  BY <1>1, <1>2, <1>3, <1>4, <1>5, <1>6, <1>7 DEF Next, MainLoop, Fault

(* The bootloader hands over as UpdateDevice assumes, after any power      *)
(* failures, flash errors and resets: with an offer, the image is whole in *)
(* the bank and the erase of the header under way or done; without one,    *)
(* nothing was touched.                                                    *)
THEOREM HandsOverInstalled ==
  ASSUME WholeImages
  PROVE  Spec => []HandedOver
<1>1. Init => OfferGoes
  BY DEF Init, OfferGoes, InState
<1>2. TypeOK /\ OfferGoes /\ [Next]_vars => OfferGoes'
  BY NextOfferGoes
<1>3. OfferGoes /\ StartsOnlyWhole => HandedOver
  BY DEF OfferGoes, StartsOnlyWhole, HandedOver
<1> QED
  BY <1>1, <1>2, <1>3, TypeCorrect, OnlyWholeStarts, PTL DEF Spec
=============================================================================
