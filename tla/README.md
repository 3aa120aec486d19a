# nRF51-DFU-External-Flash in TLA+

A verification project for the firmware update of this repository: a PC tool
downloads an image over a serial line, the running application stores it in an
external SPI flash, and after a reset the bootloader copies it over the old
application. The modules model that path from the button of the tool to the
jump into the new application, with power failures, flash errors, noise on the
line and an impatient user, and the machinery it rests on: the two receivers of
the serial line byte by byte, the UART driver with its FIFOs, the scheduler, the
timers and the clock, with interrupts at every point where they matter. TLC checks
them on small instances, TLAPS proves the most important facts for every value
of the constants.

In the following `app/` is `src/Firmware/examples/ble_peripheral/ble_app_uart/`,
`boot/` is `src/Firmware/examples/dfu/bootloader/`, `sdk/` is
`src/Firmware/components/`, and `tool/` is the directory of `frmMain.cs` under
`src/Software/`.

## 1. The system

Most of the 1219 files are the vendored Nordic SDK. The program's own logic is in
a dozen of them; of the SDK it uses a handful of libraries in ways that can go wrong.

| Component | State | Operations | Talks to |
|---|---|---|---|
| Bootloader update, `boot/main.c`, `boot/dfu_ext_flash.c` | `h_dfu_update_status`, `h_dfu_update_status_store`, `h_pstorage_status`, `fileSize`, `bytes_read`, `flashCheckSum`, `m_data_received_remit`, `buff` | the states of `update_new_application_start`, two pstorage callbacks | pstorage (calls, callback), external flash (SPI), `bootloader_app_start` |
| pstorage in raw mode, `sdk/drivers_nrf/pstorage/pstorage_raw.c` | `m_cmd_queue` (ring of commands), `m_round_val` | enqueue, process, dequeue, event handler | the SoftDevice's flash API: one request at a time, an event when it is done |
| Scheduler, `sdk/libraries/scheduler`, `sdk/softdevice/common` | a ring of events | put (two interrupts), execute, fetch the SoftDevice's events, sleep | timer interrupt, SoftDevice interrupt, the bootloader's loop |
| Timer library, `sdk/libraries/timer/app_timer.c` | list of timers, queue of operations, queue of elapsed ticks, compare register | start, RTC1 handler, SWI handler | the RTC, tick and LEDs |
| Download handler, `app/app_config_task.c` | `firmwareFileSize`, `-Crc`, `-OffSet`, `-OffSetOld` in RAM; slot and header in the external flash | opcode 0x12: start packet, data packet, completion | external flash, reset task, UART |
| External flash driver, `app/mx25l.c`, `boot/mx25l.c` | the chip | `SST25_Write` (erases a sector at its first byte), `SST25_Erase` (does not wait), `SST25_Read` | SPI |
| Reset task and clock, `app/system_config.c`, `app/sys_tick.c` | `sysResetMcuFlag`, a timeout, `sysTickCounter32` | set, poll, reset; count | timer interrupt, main loop |
| Packet parser and UART task, `app/app_config_task.c`, `app/uart_config_task.c` | parser state, `UART_DataBuff` | one byte at a time; checksum; the frame of a reply | FIFOs of the UART, handler |
| UART driver and byte FIFOs, `sdk/libraries/fifo`, `sdk/libraries/uart/app_uart_fifo.c`, `sdk/drivers_nrf/uart`, `app/main.c` | read and write positions, the driver's control block | get and put of the main loop, the interrupt handler, set-up again after an error | the UART, main loop |
| PC tool, `tool/frmMain.cs` | `firmwareReader`, `downloadingFirmware`, `comTempBuffer`, buffers both threads share | the Download button (UI thread), the collector of bytes and the reply handler (receiving thread), message boxes | serial port |

How they interact: the tool and the application exchange one packet of opcode
0x12 at a time (stop and wait). Application and bootloader never run together;
they share the external flash, where the application leaves the image in the
slot at `FIRMWARE_BASE_ADDR` and a header (status, size, checksum, start
address) in the sector at `FIRMWARE_INFO_ADDR`. A status word `0x5A5A5A5A` is an
offer: the bootloader installs the slot at its next start and erases the header
afterwards. Within each program interrupts and a main loop share queues: bytes in
the application, events in the bootloader, timer operations in both.

What is hard to get right:

* *Crashes.* Power can fail in every flash operation of both programs, each of
  which has a state in between that only the order of the other writes repairs.
* *Asynchrony.* pstorage answers by a callback from an event; the bootloader polls
  a flag that the callback clears. The SoftDevice reads the client's buffer while
  the main loop goes on. The erase of the header is still running when the
  application starts.
* *Interrupts.* FIFOs and queues are shared without locks; the loop looks at a
  queue and then sleeps; the receiver is switched off by one side and on by the other;
  an error handler sets positions back under the main loop's hands.
* *Stale state.* The offsets of a download live in RAM, the offer in flash: a
  restart loses one and keeps the other. The tool keeps `downloadingFirmware` and
  `firmwareReader` across two threads. The timer library works with a counter value
  read before ticks that pass meanwhile.
* *An unreliable line* without retransmission, parsers that have to find back into
  step, replies that arrive together or in parts, a button that stays enabled during a
  download.
* *Boundaries.* Ring indices, counters and positions that wrap, the last page of an
  image, sizes that are no multiple of a word, unsigned differences of offsets, size zero.

What makes each part correct: the bootloader starts only whole applications and
can always repeat an update; pstorage never leaves its client waiting and never
has its source overwritten; the handler offers only images whose sum was right and
that are still whole; the tool reports success only when the device has the file;
a download that nothing disturbs ends with the new application running; bytes,
packets and events come out once and in the order they went in, none stays behind;
timers and timeouts are never early and late only by what is said.
`PROJECT.json` lists the hazards line by line, with the properties that cover each.

## 2. The modules

| Module | Models | Notes |
|---|---|---|
| `PstorageRaw` | `pstorage_raw.c` | operators on a queue record: `Process`, `Enqueue`, `Advance`, `Dequeue`; no state of its own |
| `DfuBootloader` | `boot/main.c`, `boot/dfu_ext_flash.c`, the start and jump | extends `PstorageRaw`; one action per state of `update_new_application_start`, per event, per fault |
| `ImageSwap` | what the bootloader promises | abstract specification; `DfuBootloader!Swap` is the refinement mapping |
| `UartLink` | packets, replies and the line | channels are sequences |
| `UpdateDevice` | opcode 0x12 of `CfgProcessData`, external flash, `ResetMcuTask`; the bootloader as one step | extends `UartLink` |
| `HostTool` | `btnDownload_Click`, `serialPort_DataReceived`, `ProcessReceivedCOMData` | extends `UartLink` |
| `DfuSystem` | tool, line, device, user and faults together | extends `UpdateDevice` and `HostTool` |
| `Updates` | what tool, device and bootloader promise together | abstract specification; `DfuSystem!Promise` is the refinement mapping |
| `Framing` | the packet on the line and its 8-bit sum | used by both receivers |
| `CfgParser` | `CfgParserPacket` and the loop that feeds it | implements `Stream` |
| `HostFrames` | `serialPort_DataReceived`, byte by byte | implements `Stream` |
| `AppFifo` | `app_fifo.c` | operators on a FIFO record |
| `AppUart` | `app_uart_fifo.c`, `nrf_drv_uart.c`, the application's event handler, the main loop's gets and puts | extends `AppFifo`; implements two `Stream`s |
| `AppScheduler` | `app_scheduler.c`, `softdevice_handler.c`, the bootloader's loop | implements `Stream` |
| `Stream` | what a channel promises | abstract specification of all of them |
| `AppTimer` | `app_timer.c` | implements `PeriodicTimers` |
| `PeriodicTimers` | what repeated timers promise | abstract specification |
| `SysTick` | `sys_tick.c`, `ResetMcuTask` in time | |
| `MCDfuBootloader`, `MCDfuSystem`, `MCProtocols`, `MCMainLoops` | bounds for TLC | |
| `*_proofs` | the theorems, see section 4; those of `SysTick` are in `MainLoops_proofs`, of `CfgParser` and `HostFrames` in `SerialLine_proofs` | |

The modules are layers of one system, joined by their abstract specifications.
`DfuSystem` implements `Updates`, the whole as its user sees it. It takes the bootloader
for one step because `DfuBootloader` implements `ImageSwap`, and the line for two channels
of whole packets because `CfgParser` and `HostFrames` implement lossy `Stream`s of packets,
from bytes that `AppUart` hands on in order; `DfuBootloader` takes an event of the
SoftDevice for something that comes in the end because `AppScheduler` serves every one.

Definitions marked `slip` are not used by the specifications. Each is a plausible
mistake in the definition below it; put in its place, it makes the properties named
in `PROJECT.json` ("mutants") fail, which shows that they depend on that code.

### DfuBootloader and the code

Variables carry the names of the C variables where there is one; `pst` is
`m_cmd_queue` with `m_round_val`, `soc` is the request the SoftDevice performs,
`socEvent` the event it has not yet delivered, `flash` the application bank word by
word, `header` and `imageSize` the two words of the header that matter. `mode` says
which program runs.

| Action | Code |
|---|---|
| `Boot` | `main` up to its loop, `new_application_is_valid`, `update_new_application_init` |
| `EraseStep`, `CopyStep`, `CopiedStep`, `FinishStep`, `UpdatingStep` | the cases of `update_new_application_start`, with `dfu_prepare_func_app_erase_remit` and `dfu_data_pkt_handle_remit`, which call pstorage |
| `SuccessEvent`, `ErrorEvent` | `pstorage_sys_event_handler` and the callbacks, run by the scheduler in the main loop. An error ends in `APP_ERROR_CHECK`, a reset |
| `StartApp` | the end of the loop and `bootloader_app_start` |
| `FlashDone`, `FlashFails`, `HeaderErased` | SoftDevice and flash chip |
| `PowerLoss`, `AppReset` | restarts; words under way are left unreadable |

Abstractions:

* Cell `w` of the bank is "the image's word `w`", so a page copied to the wrong
  place is seen. Writing a word that is not erased gives garbage.
* The checksum is the number of image bytes summed, or `BadSum` after a misread
  byte: the code sums bytes, and no collision is assumed.
* An interrupted erase of the header leaves its status as it was or not
  `0x5A5A5A5A`. The driver polls the chip a million times before it gives up, far
  longer than a sector's erase takes, so `Boot` waits for `headerBusy`.
* The application does nothing here but reset; that it writes new offers belongs to
  `DfuSystem`. A size of zero is therefore not among the sizes checked.

### DfuSystem and the code

Each handler of a packet runs to its end in the main loop, so nothing of the
program comes between its steps, but power may fail between any two of them: the
handler is cut into `ReceiveStart`/`ReceiveData`, `StoreAndVerify`,
`AskForMore` or `Complete`, and `WriteHeader`, one step per flash operation on the
header. `handler` says where it is, `job` which operations on the header it still
has to do, in the code's order. The start address in the header is written between
checksum and status and read by nobody; it is left out.

The tool's thread is cut at its read from `firmwareReader` and before its write to
the port (`receiver`), where a press of the button, on the user interface's thread, can
change what it works on. `HandleReply` reads all that has come and uses one reply of it.
A press is one step with the outcomes that the interleavings of both threads have. The
thread is not disturbed (`PressAlone`). Or it loses `firmwareReader` in the middle of its
read (`PressInRead`), fails, and may clear `downloadingFirmware` after the press has set
it, or reads the new file from the beginning. Or both build a packet in `comOutBuffer`,
which they share without a lock (`PressInSend`): the start packet goes out once or twice,
its size and sum possibly overwritten by bytes of the chunk, or a data packet with other
bytes goes out, or only one of the two packets passes its checksum, or none.

`rushed` is a history variable: the user pressed Download before all had settled.
Nothing depends on it; it lets one run tell what a patient user is promised from what
holds for everybody.

Abstractions:

* Sizes and offsets count chunks of 32 bytes (`FLASH_PACKET_SIZE`, which is also
  the packet size the device announces). A chunk is `<<file, index>>`, blank or
  garbage. The sum over an image stands for the image: collisions of the sum of
  bytes are not modelled. The sum of no bytes is zero, and that is modelled.
* A size or a sum that a press leaves mixed in `comOutBuffer` is the size of any file,
  and a sum that is no file's (`MixedStarts`). A data packet whose length is left that of
  a start packet carries eight bytes; it is taken for a chunk of other bytes. A packet cut
  short in that buffer spoils the next one as well, which is a loss on the line
  (`LinkFaults`, on in `dfu_hasty`).
* A packet with a wrong checksum is lost. The 8-bit sum could accept a packet with
  several bytes changed; the model does not.
* `buf` in the handler is 18 bytes long and 32 are read into it. What lies behind
  it depends on the build; the model takes it to be unused.
* Files have at least four chunks (the tool divides by the length divided by 100,
  and cannot download less) and fit the slot. What follows the slot in the external
  flash is used by no code, so erasing into it has no effect.
* The bootloader is one step: the theorem that `DfuBootloader` implements
  `ImageSwap` says that it installs the offer before it starts anything, whatever
  power does meanwhile. For an image that is not whole in the slot, or of size zero,
  the old application is erased and nothing whole replaces it (`mode = "dead"`).
* `Settled` is when a patient user presses: nothing on the line, no reset due, no
  message box open. `Hasty` lifts that.

### The receivers and the code

`CfgParser` has one operator per state of `CfgParserPacket` (`StartByte`, `LengthByte`,
`OpcodeByte`, `DataByte`, `SumByte`); `Parse` is the pass of `UartConfigTask` that
feeds it a byte. A byte on the line comes as it is, comes changed, gets lost, or comes
without having been sent, and that is decided when it is taken. `noise` chooses the
kind of line: one byte of data or sum changed per packet, or anything at all for a
while. Within a packet only data and sum are protected: a changed opcode makes another
packet of it that is accepted, a changed length is noticed late, both by design of the
format; the first kind of noise therefore leaves them alone, the second does not.

`HostFrames` is `serialPort_DataReceived`: `DataReceived(k)` takes the next `k` bytes,
whatever `k`, `Collected` is what it appends them to, `Complete` the test of the length
it reads from its buffer (zero where bytes have not come yet), `Valid` the sum. The
buffer is emptied when a packet is complete, with whatever lies behind it.

### The UART and the code

`AppUart` cuts the main loop at every access to a FIFO's position, which are volatile
and shared with the interrupt, and lets a pass of the interrupt handler come in
anywhere between. `main` says where the loop is and which position it has loaded.

| Action | Code |
|---|---|
| `LoadPosition` | the loads of `read_pos` and `write_pos` in `fifo_length`, `app_fifo_get`, `app_fifo_put` |
| `GetFull`, `GetRx` | `app_uart_get`: a FIFO one byte short of full makes it ask the driver for a byte (`nrf_drv_uart_rx`) |
| `GetEmpty`, `GetByte`, `GetStore` | `app_fifo_get` |
| `ReplyByte`, `ReplyEnd` | `CfgUARTSendData` |
| `PutFull`, `PutByte`, `PutStore`, `PutBusy` | `app_uart_put` with `app_fifo_put` |
| `PopEmpty`, `PopByte`, `PopStore`, `TxStart` | the `app_fifo_get` of `app_uart_put` and `nrf_drv_uart_tx` |
| `RxDone`, `TxDone`, `CommError` | `UART0_IRQHandler` down to `uart_event_handler` of the FIFO layer and of the application, which sets everything up again after an error |
| `LineByte`, `LostByte`, `ByteSent` | the line and the UART's own six bytes |

Bytes are numbered, so that a byte lost, doubled or out of order is seen.

### The scheduler and the code

`AppScheduler` lets the interrupts in where the loop has taken an event out of the queue
(`GetEvent`), before it has looked at the event's slot (`ReadHeader`), before the
handler reads its data (`RunTimeout`) and before each fetch (`FetchEvent`, `FetchNone`).
`AllExecuted` is the return of `app_sched_execute`, `Update` a step of the update that
may ask for a flash operation, `Wait` `sd_app_evt_wait`, which returns at once if an
interrupt came since its last call. Timer and SoftDevice interrupt have the same
priority, so a put is one step. A put into a full queue resets the device
(`APP_ERROR_CHECK`), here the end of the behaviour (`failed`).

### Timers and clock and the code

`AppTimer` has the RTC1 handler (`Timeouts`), the SWI handler up to
`compare_reg_update` (`TimerListHandler`), the write of the compare register
(`WriteCompare`) and the second look at the counter (`CheckCompare`); ticks pass between
them. `StartTimer` takes the counter's value, `EnqueueStart` queues the operation. Both
programs use repeated timers, started in thread mode and never stopped; only that is
modelled. `left`, a history variable, says how long each timer has until it is due.

`SysTick` counts milliseconds modulo the counter's range, a tick at a time.
`ResetMcuSet` is a download's end; `NothingToReset`, `StartWaiting`, `KeepWaiting` and
`Restart` are what a pass of `ResetMcuTask` does.

## 3. The runs

| Run | Configuration | Shows |
|---|---|---|
| `boot_update` | power failures, flash errors, resets; no misreads | `TypeOK`, `StartsOnlyWhole`, `Recoverable`, `WaitsOnlyForFlash`, `BufferHeld`, refinement of `ImageSwap`, `EventuallyStarts` |
| `boot_checksum` | SPI misreads | *violation*: the compared checksum guards nothing, a misread image is started |
| `boot_tail` | sizes not a multiple of 4 | *violation*: pstorage is given a size that is not word aligned, and drops the tail |
| `boot_hang` | last page shorter than a word | *violation*: the store is refused, nobody looks, the loop waits for ever |
| `dfu_download` | two downloads, patient user, no faults | `TypeOK`, `OnlyStoredIsCounted`, `AlwaysBoots`, `SuccessMeansDelivered`, `EventuallyInstalled` |
| `dfu_hasty` | button at any moment, all faults | `OnePacketPerPress`, `OffersOnlyWhole`, `ImplementsUpdates` |
| `dfu_again` | button during a download | *violation*: success is reported for a file of which nothing was sent |
| `dfu_empty` | power failure in a download | *violation*: a packet that reaches the restarted device completes an empty image; it is offered and the application erased for it |
| `dfu_lost` | button during a download | *violation*: the slot is rewritten while the header still offers it |
| `protocols` | both receivers with noise; two timers whose counter wraps | refinement of `Stream` by parser and collector, of `PeriodicTimers` by the timers; `StaysInBuffer`, `Resynchronises`, `OnlySpoiledPacketsAreLost`, `InStep`, `OnlySpoiledRepliesAreLost`, `ListIsSchedule`, `WillWake` |
| `main_loops` | UART, scheduler and clock, interrupts anywhere | refinement of `Stream` by the receive FIFO, the send FIFO and the scheduler; `ReceiverArmed`, `RxDelivered`, `TxDelivered`, `NothingStranded`, `WakesForEvents`, `NeverFull`, `AllServed`, `NeverEarly`, `AtMostOneTickLate`, `EventuallyRestarts` |
| `uart_stale` | line errors | *violation*: after an error the main loop gets bytes that were never received |

The violations are disagreements with what a comment, a message or the SDK's
documentation says; each is a finding in `PROJECT.json` with both places quoted.

`protocols` and `main_loops` check several modules side by side: these share no variable,
the initial state chooses the one that runs, the others rest in their initial state, and
fairness is asked of the chosen one only. Each behaviour is thus a behaviour of one
module, and a property that speaks of another one holds there trivially.

Properties in words:

* `StartsOnlyWhole`: the application that gets control is the untouched old one with
  nothing on offer, or has every word of the offered image.
* `Recoverable`: from the first erased page to the last written word the header still
  offers the image, so that the next start repeats the update.
* `WaitsOnlyForFlash`: a main loop that polls `h_pstorage_status` has an operation
  or its event to wait for.
* `BufferHeld`: `buff` does not change while the SoftDevice writes from it.
* `EventuallyStarts`: once faults end, an application runs and nothing is on offer.
* `OffersOnlyWhole`: whatever was mixed, the header comes to offer an image (of more
  than no bytes) only while all of it is in the slot.
* `ImplementsUpdates`: for a user who waits, whatever fails, tool, line, handler, reset and
  bootloader together implement `Updates`: what is on offer is the whole file of the last
  press (`PatientOfferIsWhole` is the part of it that says whole), it stays on offer until it
  is installed, and nothing else changes the application, but for the offer of nothing that
  a power failure may lead to (`dfu_empty`).
* `OnlyStoredIsCounted`: every chunk before the offset the device asks for is stored.
* `OnePacketPerPress`: stop and wait; what is under way never exceeds the number of
  downloads begun.
* `SuccessMeansDelivered`: when the tool says so, the device has the file.
* `AlwaysBoots`: the bootloader always has something whole to start.
* `EventuallyInstalled`: every download ends with the new application running.
* `ImplementsPackets`, `ImplementsReplies`: with bytes changed, and replies in pieces of
  any size, packets and replies come out as they went in, in order, or not at all.
* `OnlySpoiledPacketsAreLost`, `OnlySpoiledRepliesAreLost`: one changed byte costs the
  packet it is in and no other.
* `StaysInBuffer`: whatever bytes come, none is stored outside `UART_DataBuff`.
* `Resynchronises`: after any noise, once as many bytes have come as the longest packet
  has, every further packet is accepted.
* `InStep`: the tool holds no part of a reply when all is read.
* `ListIsSchedule`: the differences in the timer list say when each timer is due.
* `WillWake`: the compare register will be met before the first timer is late.
* `RxInOrder`, `TxInOrder`: bytes come out of either FIFO in order, each once, none lost
  (received ones: unless the other side sends more ahead than the FIFO holds).
* `RxDelivered`, `TxDelivered`: all of them do in the end.
* `ReceiverArmed`: the receiver is off only while the FIFO is full or nearly so, and its
  interrupt is on exactly while it waits.
* `ImplementsStream` (of the scheduler): each event runs once, in order, with its data.
* `NothingStranded`, `WakesForEvents`, `AllServed`: no event of the SoftDevice is left
  without something that will fetch it, the loop does not sleep over one, all are served.
* `NeverFull`: only a burst of more events than the queue has places for fills it.
* `NeverEarly`, `AtMostOneTickLate`, `EventuallyRestarts`: the ten seconds before a
  restart, wherever the counter wraps.

### Bounds

`DfuBootloader`: pages of two words, a bank of three pages, a queue of three, image
sizes of one page exactly, one and a half, just over two, and the whole bank. The
code's queue has ten places and an image of 128k has 128 pages; three places
already make the indices wrap during one update of three pages (a clear and three
stores), and three pages have a first, a middle and a last one, the clear and the
copy both coming back to the queue between them. Two words a page let a page be
torn in part and end in the middle.

`DfuSystem`: files of five and four chunks, sectors of four, a slot of eight, a
padding of one chunk (1024 of 4096 bytes are a quarter of a sector as well). One
file ends on a sector boundary, so its padding erases the next sector, the other
goes into the second sector, so that an offset passes a sector and
`firmwareFileOffSetOld` moves. `MaxPresses` is two: two downloads at once or one
after the other; `dfu_empty` needs one. Sequences on the line need no bound, their
length is bounded by `OnePacketPerPress`.

`CfgParser`: bytes of four values, one of them the start code; data of one and two bytes,
with all values when bytes are changed, so that a start code stands in the data and in the
sum; two packets, the second of which shows what the first has left behind. Noise of
lost and invented bytes is not bounded: the parser's state is finite. Two bytes of
length in a buffer of two give lengths of zero, too large, and wrong by one.
`HostFrames`: replies of two bytes, four of them with two at a time on the line,
cut anywhere; two with changed bytes.

`AppTimer`: a counter of 64, intervals of 9 and 13, which drift past each other and past
the wrap of the counter until every distance has come; operations queue of one place,
as one timer is started at a time. Handlers take up to two ticks for a step and a call of
`app_timer_start` three; with these, seven ticks of lateness are the least that hold
(six fail), which is what the handler's two looks at the counter and the three ticks of
distance it keeps add up to.

`AppUart`: FIFOs of four bytes (1024 in the code), positions of eight values (2^32), nine
bytes so that positions wrap; the other side keeps to two bytes ahead, fills the FIFO, or
overruns it; the UART itself holds two bytes (six). With errors, three bytes.
`SysTick`: a counter of 32 values, a tick of 3, a delay of 9 that is
a whole number of ticks as 10000 is of 50; up to two ticks in a pass.
`AppScheduler`: a queue of two, bursts of up to four, so that it overflows; four timer
events with two handlers, two flash operations.

### Fairness

* `DfuBootloader`: weak fairness of `Boot`, the main loop, `FlashDone` and
  `HeaderErased`. The loop waits in `sd_app_evt_wait` and a periodic LED timer
  wakes it; the SoftDevice reports an end for every request it accepted; a flash
  chip finishes an erase. Nothing is assumed of faults: `EventuallyStarts` is
  conditional on their ending.
* `DfuSystem`: weak fairness of the handler, of `ResetMcuTask`, of the bootloader
  and of the receiving thread. The main loop alternates `UartConfigTask` and
  `ResetMcuTask` and waits for neither; ten seconds pass; the tool's runtime
  delivers its events. Nobody has to press a button or close a message box.
  `EventuallyInstalled` is claimed only without faults: after one lost packet the
  code sends nothing again.
* `AppUart`: the main loop never blocks, an enabled interrupt that is pending is
  served, a byte handed to the UART goes out. Nobody has to send.
* `AppScheduler`: the processor runs the loop and serves the SoftDevice's interrupt, the
  SoftDevice ends what it began. No timer has to become due: the loop must not need one
  to wake up.
* `SysTick`: the timer ticks, the loop goes round.

`CHECK_DEADLOCK FALSE` stands where the system may stop: the tool has finished, no
presses are left, the device waits for packets, all bytes of a line have come, the loop
sleeps with nothing to do; or, in `boot_hang` and `boot_tail`, the bootloader hangs.

### What the runs found besides

* `app_uart_get` asks the driver for a byte when the FIFO's length is exactly
  `buf_size_mask`, and returns without a byte if the driver already waits for two. If the
  other side then sends nothing more, the bytes in the FIFO are never handed out. The
  download never gets there (it stops and waits, a packet has 41 bytes and the FIFO holds
  1024); `RxDelivered` is claimed for a side that stays two bytes short of the FIFO's size.
* After a line error `uart_reinit` sets the positions back while the main loop may be about
  to store one of them (`uart_stale`). If the FIFO is filled again before that store, the
  receiver even stays off: with errors `ReceiverArmed` is claimed only of fewer bytes than
  the FIFO holds.


## 4. The proofs

All proofs are for arbitrary constants under the named assumptions of the modules, which
say what the code's declarations guarantee (queue, page and bank of at least one; files
of at least four chunks that fit the slot; a FIFO of at least two bytes whose size divides
the range of the positions, as the code's powers of two do; a packet's buffer and a reply's
data shorter than the start code's value; an opcode that is no start code; a buffer of the
tool that holds a reply) and are otherwise free.

The timers' assumptions are about time, which no declaration bounds. A handler may be late by
what passes before four steps of interrupt handlers (`Late` >= 4 * `MaxLag` - 1: the list is
brought up to date, the register written, the register checked, and the timers' handlers run)
and by no less than the distance `compare_reg_update` keeps from the counter. An interval is longer than that, longer than a
call of `app_timer_start`, and with its lateness shorter than half a turn of the counter, the
half by which `list_insertions_handler` tells past from future. In the programs a tick is 30 us, the handlers take a few ticks, the intervals are 50 ms and more
(1638 ticks) and half a turn of the 24-bit counter is 256 s.

`DfuBootloader_proofs`, in three layers:

1. `ControlInv`: types, plus which state of the update goes with which contents of
   queue, request and event: at most one command is queued, and it is the one the
   state waits for. Lemmas about `Enqueue`, `Advance` and `Dequeue` on a queue of
   at most one command come first. From it: **`TypeCorrect`** and
   **`BufferNeverOverrun`**.
2. `BankInv`: how much of the bank is erased and how much copied in each state. This
   needs `WholeImages`, sizes that are a multiple of a word and reads without
   misreading: `boot_tail`, `boot_hang` and `boot_checksum` show that the properties
   fail without. From it: **`OnlyWholeStarts`**, **`AlwaysRecoverable`**,
   **`NeverWaitsInVain`**.
3. `RoundInv` and `SwapInv`: what the clear has erased page by page, and what that
   makes of the abstract bank. From it **`Refinement`**: every step is a step of
   `ImageSwap` or a stutter. Here each erased page maps to `Overwrite`, the write of
   the last page to `Complete`, and the end of the header's erase to `Withdraw`.

Three more theorems say what is left of the properties that the findings refute, and what the
rest of the system relies on. **`WholeImagesStoreWholeWords`**: with images of whole words
every store has whole words, misreads or not. **`RightlyReadIsRightlySummed`** (`SumInv`, the
sum is that of the bytes read so far): with reads that are right the unchecked sum is right,
for images of any size. **`HandsOverInstalled`** (`OfferGoes`) is the contract behind the one
step that `UpdateDevice` makes of the bootloader: where an application runs, the image is
whole in the bank, or nothing was touched, and the header is withdrawn or being erased.

`DfuSystem_proofs`: the type invariant is not inductive with respect to the offer, as
nothing in it says what the handler has established before it writes the status word.
`HeaderJob` adds it: the rest of the job is a suffix of one of the three jobs, during
an offer's job the sum has matched, and size and checksum of the header are those of
the download once written. `RunsInApp` adds that a device that was reset is in no
handler. One lemma per action. From them, with all faults and a hasty user:
**`TypeCorrect`**, **`OffersOnlyWholeImages`** (only the last operation of an offer's
job makes the status valid) and **`StopAndWait`** (each step that begins something
under way ends something else, but for a press, which is counted).

The second part is about the user who waits, where all depends on one fact that the code
never checks: there is at most one packet or reply under way, of one download
(`Alone`). Each invariant is weak once the user has been hasty and each theorem assumes
only the faults absent that break it.

* `OfferInv`: while not `rushed`, `Alone` holds, and once an offer is being written its
  download has ended and a restart is due; a valid offer is whole and nothing is under way
  that could touch it (`Ends`). From it, with all faults: **`OffersStayWhole`**.
* `SessionInv` and `StoredInv`: packet, reply, handler and tool speak of the same file
  (`SameFile`); what is before the offset is stored, and the rest of the sector the offset
  is in is blank (`Ahead`), as the handler erases a sector only when it enters it. From
  it, unless flash is misread: **`StoresWhatItCounts`**.
* `BootsInv`: while power holds, whatever belongs to a download finds it open on the
  device, so that no empty image is offered, and the reply that ends a download says that
  the device has the file. From it: **`AlwaysSomethingToBoot`** and **`SuccessIsTrue`**.
* All three together (`UpdatesInv`, with `BootsInv` only where power holds) give
  **`DownloadsAreUpdates`**, with no assumption about faults: `DfuSystem` implements
  `Updates`. A press is an `Ask`, the write of the status word an `Offer` (`HandlerOffers`),
  the bootloader's step an `Install`, or a `Lose` where power may fail (`BootloaderInstalls`);
  every other step leaves what is wanted, offered and installed as it is. Once the user
  hurries, `Updates` allows everything: `dfu_lost` and `dfu_again` show what then happens.
  `dfu_empty` shows that `AlwaysBoots` fails when power does.

`AppScheduler_proofs`: `SchedInv` ties the ring to the abstract sequence: the slots from the
start index to the end index are the events put and not run, wherever the ring wraps, and
each event of the SoftDevice has something that will fetch it. From it
**`SchedTypeCorrect`**, **`RefusesBurstsOnly`**, **`SleepsOnlyWhenEmpty`**,
**`StrandsNothing`** and **`RunsInOrder`** (the scheduler implements `Stream`).

`AppUart_proofs` starts with the lemmas about a FIFO: what its length, its bytes and a put and
a get are when the positions count on without end, of which the code's positions and indices
are remainders. `UartInv` is the types and the driver's control
block; `RxInv` says, for every place the main loop can be at between two accesses, what the
position it has loaded says of the one the interrupt moves meanwhile (`Reader`), when the
receiver is off (`NoRoom`) and how far the other side is ahead (`WithinAhead`); `TxInv` does
so for the sending side, where the interrupt and the main loop both take bytes out, and
shows that they never do at the same time (`Sender`, `Writer`, `Starter`). From them
**`UartTypeCorrect`**, **`ReceivesInOrder`** and **`SendsInOrder`**, both FIFOs implementing
`Stream`, the receiving one lossy where the other side overruns it. `RxFlow` says what a step
does to the received bytes, one comes, is got or is dropped, and from it **`GetsWhatCame`**
follows as well: the bytes got and those pending are in order (`InOrder`).

With errors on the line `RxInv` fails, as the handler of an error sets the positions back
under the main loop. `FewInv` is what remains as long as fewer bytes came than fill the FIFO:
the write position is bounded by the bytes that came (`Bounded`), and a read position loaded
before the set-up differs from the present one only while that is 0 and the receiver waits
(`OldOnlyAtStart`). With it **`ReceiverStaysArmed`** is proved as the run checks it.

`MainLoops_proofs` is about the clock first: `CounterFollows` says that the 32-bit counter is
the true time modulo its range, `OnTime` that the timeout began when the waiting did. With
lemmas about differences modulo a range **`TickTypeCorrect`**, **`RestartsNotEarly`** and
**`WaitsNotLong`** hold for every width of the counter, through its wrap. Then it is about the
specification that the run `main_loops` checks: each of the three components makes its own
steps or none (`EachLoopOnItsOwn`), so the invariants of all three hold together and with
them **`LoopsTypeCorrect`**.

`AppTimer_proofs`, in three layers:

1. The list. `Due` is a recursive function over it; that it exists and never decreases is
   shown by induction over the length (`UpFromZero`, from the least element of a set of
   numbers). `ListOf(list, g)` says that the differences in a list add up to the schedule
   `g`, with each timer in it once. Inserting with `timer_list_insert` keeps that for any
   list (`InsertedOf`), so does inserting one operation after the other (`InsertAllIs`), and
   so does taking the expired timers off the front (`RestOf`).
2. The counter. `Diff` is its distance from an earlier value as it goes round (`DiffIs`,
   `Advanced`), and distances add up as long as they come to less than a turn
   (`Triangle`).
3. `TimerInv`, one lemma per action. `ListIsSchedule` and `WillWake` are far from inductive:
   `OnSchedule` is about the list together with the timers that have run and are not yet
   put back (their ticks are in the queue between the handlers) and with the start that
   waits in the other queue; `Calls` bounds how old that start is; `Armed` says where the
   compare register stands and `Ringing` how late the handler is when it is due; `Queueing`,
   `Writing` and `Checking` say what the second handler has left to do at each of its
   places and how many ticks went by since it read the counter. The lateness allowed in
   each place adds up to `Late`: with one tick less the run `protocols` finds a handler that
   is too late.

From it **`TimerTypeCorrect`**, **`TimersScheduled`**, **`TimersWake`** and
**`TimersOnTime`**: the library implements `PeriodicTimers`. There `Run` is the step of the
interrupt handler that runs the handlers of the timers that are due, `Start` the step of
`app_timer_start` that reads the counter, and `Pass` a tick, which the abstract timers allow
only while nobody is `Late` ticks late: the code has no such guard, and that it needs none
is what the proof shows.

`SerialLine_proofs` is about both receivers, for data of any length. The sum of a packet is a
recursive function; that it exists and is a byte is shown by induction over its length
(`Induction`, from the least element of a set of numbers). `Follows` says what the parser
is like after the first bytes of a packet: a sum that was off once stays off
(`SumsDiffer`). `Rest` is how many bytes it can still take before it waits for a start
code, and each byte lessens it. `LineInv` says of the line that noise left: the parser
follows the packet, or waits and goes past one it has not begun, or has no more than
`Rest` bytes to go. From it **`ParserTypeCorrect`**, **`NeverOverflows`**,
**`LosesSpoiledPacketsOnly`**, **`ParserIsAChannel`** and **`GetsBackInStep`**.

For the PC tool `FramesInv` gives each byte its position among all that were sent
(`Sent`). Without noise the tool holds nothing or the first bytes of one reply (`PartOf`),
since only the first byte of a reply is a start code (`StartsReply`) and the buffer is
emptied as soon as it has a whole reply, whatever came behind it (`Quiet`); with noise
what it has read and what is on the wire are one reply with at most one byte changed
(`OneByOne`). From it **`ToolTypeCorrect`**, **`ToolInStep`**, **`ToolLosesSpoiledOnly`** and
**`ToolIsAChannel`**: a step that takes one reply out and drops the replies behind it is a
`Take` of the lossy `Stream`.

`Protocols_proofs` does for the specification of the run `protocols` what `MainLoops_proofs`
does for `main_loops`: **`ProtocolsTypeCorrect`** from `EachProtocolOnItsOwn`.

Only model-checked: liveness (`EventuallyStarts`, `EventuallyInstalled`, `RxDelivered`,
`TxDelivered`, `AllServed`, `EventuallyRestarts`), which is out of the prover's reach, and the
findings, which are counterexamples. Every invariant, every action property and every
refinement that a passing run checks is a theorem, for the faults and the user its theorem
names.

## 5. Not modelled

* Registration, load and parameter checks of pstorage; update is not supported in raw
  mode.
* The SDK's own DFU transports and banks (`dfu_single_bank.c`, `dfu_dual_bank.c`):
  vendored, not called by this bootloader for an update. The bootloader's settings
  page and the SoftDevice swap likewise.
* `LoadFirmwareFile` and the other disabled opcodes: no code reaches them.
* The log ring buffer (`app/ringbuf.c`): nothing writes to it.
* The UART switching test: it is not built into the programs.
* Of the UART driver flow control, abort and EasyDMA, which the configuration leaves out;
  of the timer library single-shot timers and stopping, which the programs do not use.
* The rest of the SDK, board support, Bluetooth stack and examples. These are most of the
  repository: of its 204919 lines of code the largest files are register headers, a
  signal processing library and services the two programs do not link. The modules cover
  the program's own logic and the parts of the SDK that run under it; the share of all
  lines is small for that reason and would stay so.

Limits of what is modelled:

* Opcode and length are not covered by the packet's sum: the model of the line therefore
  changes data and sums only, and leaves changed lengths to the second kind of noise.
* A packet with a start code inside may be taken for the start of another when the parser
  comes into the middle of it, and so on with the next ones: `Resynchronises` is about
  packets without. The parser has no timeout to help itself.
* `AppTimer`: RTC1 and SWI have the same priority in this configuration and do not
  interrupt each other; timers are started in thread mode. `MaxLag` and `CallTicks` bound
  how long a handler and a call take; in the code an interval is 50 ms, over 1600 ticks.
  That is ample for the application. In the bootloader, whose timer toggles a LED, an erase
  of a flash page stops the processor for about 20 ms, and a handler that met one at each
  of its steps would be late by more than the assumption admits.
* `AppScheduler`: both that put events run at the same interrupt priority, so a put is one
  step for the other one.

## 6. Plan

Done: both programs' update paths with their proofs, the line and both receivers, the UART,
the scheduler, the timers and the clock, and the update from the press to the installed
application as one abstract specification.

Left:

1. The receiver on a line with errors once more bytes came than fill the FIFO: there it may
   stay off and old bytes may be got (`uart_stale`), and what would still hold is not stated.
2. The composition one step further down: `HandsOverInstalled` proves what `DfuSystem` assumes
   of the bootloader; that the header `DfuBootloader` starts from is the one `DfuSystem`
   leaves is still an argument, no refinement.
