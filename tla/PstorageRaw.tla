------------------------------ MODULE PstorageRaw ------------------------------
(***************************************************************************)
(* The command queue of pstorage_raw.c: the functions that put a command   *)
(* in the ring, hand its next piece to the SoftDevice and retire it when   *)
(* the flash event arrives.  A queue is a record (m_cmd_queue together     *)
(* with m_round_val); every operator maps a queue, and what the SoftDevice *)
(* is doing, to the queue the C function leaves behind.  State machines    *)
(* that use the queue decide when the functions run and what the           *)
(* notification callback does.                                             *)
(*                                                                         *)
(* Sizes and offsets are in bytes as in the code, flash addresses in       *)
(* 32-bit words, relative to the block the client registered.              *)
(***************************************************************************)
EXTENDS Integers

CONSTANTS
    QueueSize,  \* PSTORAGE_CMD_QUEUE_SIZE
    PageWords   \* words in a flash page, and in the largest write the SoC takes

ASSUME QueueSizeAssumption == QueueSize \in Nat \ {0}
ASSUME PageWordsAssumption == PageWords \in Nat \ {0}

WordBytes == 4
PageBytes == WordBytes * PageWords  \* PSTORAGE_FLASH_PAGE_SIZE, SOC_MAX_WRITE_SIZE

-----------------------------------------------------------------------------
(* Commands and the queue *)

NoData == "no data"   \* the NULL p_data_addr of a clear

Free == [op_code |-> "INVALID", size |-> 0, offset |-> 0, data |-> NoData]

Command(op, size, offset, data) ==
    [op_code |-> op, size |-> size, offset |-> offset, data |-> data]

EmptyQueue == [rp |-> 0, count |-> 0, flash_access |-> FALSE, round |-> 0,
               cmd |-> [i \in 0 .. QueueSize - 1 |-> Free]]

(* The set of queues whose commands carry their data in the buffers Data. *)
Queue(Data) ==
    [rp : 0 .. QueueSize - 1, count : 0 .. QueueSize,
     flash_access : BOOLEAN, round : Nat,
     cmd : [0 .. QueueSize - 1 ->
              [op_code : {"INVALID", "STORE", "CLEAR"}, size : Nat,
               offset : Nat, data : Data \cup {NoData}]]]

-----------------------------------------------------------------------------
(* Requests to the SoftDevice.  A write takes words out of the client's    *)
(* buffer, from word src on: the SoftDevice does not copy them.            *)

NoRequest == [kind |-> "none", at |-> 0, words |-> 0, data |-> NoData, src |-> 0]

Request(Data) ==
    [kind : {"none", "erase", "write"}, at : Nat, words : Nat,
     data : Data \cup {NoData}, src : Nat]

Smaller(a, b) == IF a < b THEN a ELSE b

(* An index past the end of the ring. *)
Wrap(i) == IF i >= QueueSize THEN i - QueueSize ELSE i

(* What cmd_process asks for: the piece number q.round of the command at rp. *)
StoreRequest(c, round) ==
    [kind |-> "write",
     at |-> (c.offset + round * PageBytes) \div WordBytes,
     words |-> Smaller(c.size - round * PageBytes, PageBytes) \div WordBytes,
     data |-> c.data,
     src |-> round * PageWords]

ClearRequest(round) ==
    [kind |-> "erase", at |-> round * PageWords, words |-> PageWords,
     data |-> NoData, src |-> 0]

(* sd_flash_write and sd_flash_page_erase: one request at a time, and no   *)
(* write of zero words.                                                    *)
SocAnswer(soc, req) ==
    CASE soc.kind # "none" -> "BUSY"
      [] soc.kind = "none" /\ req.words = 0 -> "INVALID_LENGTH"
      [] OTHER -> "SUCCESS"

(* cmd_process *)
Process(q, soc) ==
    LET c   == q.cmd[q.rp]
        req == IF c.op_code = "STORE" THEN StoreRequest(c, q.round)
                                      ELSE ClearRequest(q.round)
        ret == IF c.op_code = "INVALID" THEN "FORBIDDEN" ELSE SocAnswer(soc, req)
    IN  [q   |-> [q EXCEPT !.flash_access = @ \/ ret = "SUCCESS"],
         soc |-> IF ret = "SUCCESS" THEN req ELSE soc,
         ret |-> ret]

(* The code treats a busy SoftDevice as success: the command stays queued. *)
Tolerate(ret) == IF ret = "BUSY" THEN "SUCCESS" ELSE ret

(* cmd_queue_enqueue: the command counts as queued even when the           *)
(* SoftDevice refused it.                                                  *)
PutAtCount(q, c) == [q EXCEPT !.cmd[q.count] = c]  \* slip

Put(q, c) == [q EXCEPT !.cmd[Wrap(q.rp + q.count)] = c]

Enqueue(q, soc, c) ==
    LET run == IF q.flash_access
               THEN [q |-> Put(q, c), soc |-> soc, ret |-> "SUCCESS"]
               ELSE Process(Put(q, c), soc)
    IN  IF q.count = QueueSize
        THEN [q |-> q, soc |-> soc, ret |-> "NO_MEM"]
        ELSE [q |-> [run.q EXCEPT !.count = @ + 1], soc |-> run.soc,
              ret |-> Tolerate(run.ret)]

(* Slip: the event handler does not go on with the queue. *)
DequeueNothing(q, soc) == [q |-> q, soc |-> soc, ret |-> "SUCCESS"]

(* cmd_queue_dequeue *)
Dequeue(q, soc) ==
    IF q.count > 0 /\ ~q.flash_access
    THEN LET run == Process(q, soc)
         IN  [run EXCEPT !.ret = Tolerate(@)]
    ELSE [q |-> q, soc |-> soc, ret |-> "SUCCESS"]

(* pstorage_sys_event_handler on a success event, up to the notification:  *)
(* one more piece is done, and the command with it when all of it is.      *)
FinishedOnePieceEarly(q) == (q.round + 2) * PageBytes >= q.cmd[q.rp].size  \* slip

CommandFinished(q) == (q.round + 1) * PageBytes >= q.cmd[q.rp].size

(* Slip: queue_rp is not wrapped. *)
AdvanceUnwrapped(q) ==
    IF CommandFinished(q)
    THEN [q EXCEPT !.flash_access = FALSE, !.round = 0, !.count = @ - 1, !.rp = @ + 1]
    ELSE [q EXCEPT !.flash_access = FALSE, !.round = @ + 1]

Advance(q) ==
    IF CommandFinished(q)
    THEN [q EXCEPT !.flash_access = FALSE, !.round = 0, !.count = @ - 1,
                   !.rp = Wrap(@ + 1)]
    ELSE [q EXCEPT !.flash_access = FALSE, !.round = @ + 1]

(* cmd_queue_element_init *)
InitElement(q, i) == [q EXCEPT !.cmd[i] = Free]
=============================================================================
