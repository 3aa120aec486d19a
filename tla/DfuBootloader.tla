----------------------------- MODULE DfuBootloader -----------------------------
(***************************************************************************)
(* The bootloader of Firmware/examples/dfu/bootloader: at each start it    *)
(* looks at the header in the external flash and, when the header offers   *)
(* an image, erases the application bank and copies the image into it page *)
(* by page through pstorage, withdraws the offer and starts the            *)
(* application.  Everything runs in the main loop; the SoftDevice performs *)
(* one flash operation at a time beside it.  Power may fail at any moment. *)
(*                                                                         *)
(* RAM is gone after a restart; the bank (flash), the header and the image *)
(* in the external flash stay.  Cell w of the bank is the image's word w,  *)
(* Old (the previous application), Erased, or Garbage (a torn or double    *)
(* write, a word misread over SPI).                                        *)
(***************************************************************************)
EXTENDS PstorageRaw

CONSTANTS
    NumPages,   \* pages of the application bank
    FileSizes,  \* the image sizes (bytes) the header may carry
    ReadFaults  \* whether an SPI read of the external flash may misread

ASSUME NumPagesAssumption == NumPages \in Nat \ {0}
ASSUME FileSizesAssumption == FileSizes \subseteq 0 .. NumPages * PageBytes
ASSUME ReadFaultsAssumption == ReadFaults \in BOOLEAN

Bank == 0 .. NumPages * PageWords - 1

Old     == -1
Erased  == -2
Garbage == -3
Cells   == {Old, Erased, Garbage} \cup Nat

BadSum == -1   \* flashCheckSum once a misread byte was added

VARIABLES
    (* non-volatile *)
    flash,       \* the application bank of the internal flash
    header,      \* status word of the header: "valid" (0x5A5A5A5A) or "none"
    headerBusy,  \* the external flash chip is erasing the header sector
    imageSize,   \* size word of the header
    (* the processor *)
    mode,        \* "off", "boot" (main loop of the bootloader) or "app"
    h_dfu_update_status, h_dfu_update_status_store,
    h_pstorage_status,
    fileSize, bytes_read, m_data_received_remit,
    flashCheckSum,  \* image bytes summed so far, or BadSum; fileCrc is fileSize
    buff,           \* first PageWords words of buff
    pst,            \* m_cmd_queue and m_round_val
    (* the SoftDevice *)
    soc,         \* the flash request it is performing
    socEvent     \* the flash event not yet dispatched: "none", "success", "error"

persistent == <<flash, header, headerBusy, imageSize>>
counters   == <<fileSize, bytes_read, m_data_received_remit, flashCheckSum>>
dfu        == <<h_dfu_update_status, h_dfu_update_status_store>>
storage    == <<h_pstorage_status, pst, soc, socEvent>>
vars == <<persistent, mode, dfu, counters, buff, storage>>

Data == {"buff"}

UpdateStates == {"UPDATING", "APP_ERASE", "APP_UPDATE", "FINISH", "IDLE"}

TypeOK ==
    /\ flash \in [Bank -> Cells]
    /\ header \in {"valid", "none"}
    /\ headerBusy \in BOOLEAN
    /\ imageSize \in FileSizes
    /\ mode \in {"off", "boot", "app"}
    /\ h_dfu_update_status \in UpdateStates
    /\ h_dfu_update_status_store \in UpdateStates
    /\ h_pstorage_status \in {"IDLE", "BUSY"}
    /\ fileSize \in FileSizes \cup {0}
    /\ bytes_read \in Nat
    /\ m_data_received_remit \in Nat
    /\ flashCheckSum \in Nat \cup {BadSum}
    /\ buff \in [0 .. PageWords - 1 -> Cells]
    /\ pst \in Queue(Data)
    /\ soc \in Request(Data)
    /\ socEvent \in {"none", "success", "error"}

-----------------------------------------------------------------------------
(* Start and stop *)

OldFlash == [w \in Bank |-> Old]
RawBuff  == [k \in 0 .. PageWords - 1 |-> Garbage]

(* The initialised and zeroed variables of a program that starts. *)
FreshRam ==
    /\ h_dfu_update_status = "IDLE"
    /\ h_dfu_update_status_store = "UPDATING"
    /\ h_pstorage_status = "BUSY"
    /\ fileSize = 0
    /\ bytes_read = 0
    /\ m_data_received_remit = 0
    /\ flashCheckSum = 0
    /\ buff = RawBuff
    /\ pst = EmptyQueue
    /\ soc = NoRequest
    /\ socEvent = "none"

Init ==
    /\ flash = OldFlash
    /\ header \in {"valid", "none"}
    /\ headerBusy = FALSE
    /\ imageSize \in FileSizes
    /\ mode = "off"
    /\ FreshRam

(* A restart: RAM and the SoftDevice's state are lost. *)
ForgetRam ==
    /\ h_dfu_update_status' = "IDLE"
    /\ h_dfu_update_status_store' = "UPDATING"
    /\ h_pstorage_status' = "BUSY"
    /\ fileSize' = 0
    /\ bytes_read' = 0
    /\ m_data_received_remit' = 0
    /\ flashCheckSum' = 0
    /\ buff' = RawBuff
    /\ pst' = EmptyQueue
    /\ soc' = NoRequest
    /\ socEvent' = "none"

Restart == mode' = "off" /\ ForgetRam

(* The request under way may leave some of its words unreadable. *)
Span(req) == {w \in Bank : req.at <= w /\ w < req.at + req.words}

Torn(words) == [w \in Bank |-> IF w \in words THEN Garbage ELSE flash[w]]

(* An interrupted erase of the header sector leaves the status word as it  *)
(* was or not 0x5A5A5A5A.                                                  *)
PowerLoss ==
    /\ mode # "off" \/ headerBusy
    /\ \E words \in SUBSET Span(soc) : flash' = Torn(words)
    /\ header' \in IF headerBusy THEN {header, "none"} ELSE {header}
    /\ headerBusy' = FALSE
    /\ Restart
    /\ UNCHANGED imageSize

(* The application resets the processor; the flash chip does not notice. *)
AppReset ==
    /\ mode = "app"
    /\ Restart
    /\ UNCHANGED persistent

(* main up to its loop.  new_application_is_valid reads the header once    *)
(* the flash chip is no longer busy.                                       *)
Boot ==
    /\ mode = "off"
    /\ ~headerBusy
    /\ mode' = "boot"
    /\ IF header = "valid"
       THEN /\ fileSize' = imageSize
            /\ h_dfu_update_status' = "APP_ERASE"
            /\ h_dfu_update_status_store' = "APP_ERASE"
       ELSE UNCHANGED <<fileSize, dfu>>
    /\ UNCHANGED <<persistent, bytes_read, m_data_received_remit, flashCheckSum,
                   buff, storage>>

(* The loop ends in DFU_UPDATE_IDLE; the variables are dead from there on. *)
StartApp ==
    /\ mode = "boot"
    /\ h_dfu_update_status = "IDLE"
    /\ mode' = "app"
    /\ ForgetRam
    /\ UNCHANGED persistent

-----------------------------------------------------------------------------
(* update_new_application_start, one action per state *)

Step(state) ==
    /\ mode = "boot"
    /\ h_dfu_update_status = state
    /\ UNCHANGED <<mode, flash, header, imageSize, socEvent>>

(* pstorage_clear finds an empty queue and an idle SoftDevice: the         *)
(* APP_ERROR_CHECK behind it never resets, or EraseStep would block.       *)
EraseStep ==
    LET run == Enqueue(pst, soc, Command("CLEAR", fileSize, 0, NoData))
    IN  /\ Step("APP_ERASE")
        /\ run.ret = "SUCCESS"
        /\ h_dfu_update_status_store' = "APP_ERASE"
        /\ h_dfu_update_status' = "UPDATING"
        /\ h_pstorage_status' = "BUSY"
        /\ pst' = run.q
        /\ soc' = run.soc
        /\ UNCHANGED <<counters, buff, headerBusy>>

CopiedEarly == bytes_read + PageBytes >= fileSize  \* slip

Copied == bytes_read >= fileSize

ChunkBytes == Smaller(PageBytes, fileSize - bytes_read)

(* The words SST25_Read may deliver for the page at bytes_read. *)
PageRead ==
    {[k \in 0 .. PageWords - 1 |->
        IF k \in bad THEN Garbage ELSE bytes_read \div WordBytes + k] :
     bad \in IF ReadFaults THEN SUBSET (0 .. PageWords - 1) ELSE {{}}}

AddToSum(page) ==
    IF flashCheckSum = BadSum
       \/ \E k \in 0 .. PageWords - 1 : WordBytes * k < ChunkBytes /\ page[k] = Garbage
    THEN BadSum
    ELSE flashCheckSum + ChunkBytes

(* One page from the external flash into pstorage.  The caller ignores     *)
(* what dfu_data_pkt_handle_remit returns.                                 *)
CopyStep ==
    LET run == Enqueue(pst, soc,
                       Command("STORE", ChunkBytes, m_data_received_remit, "buff"))
    IN  /\ Step("APP_UPDATE")
        /\ ~Copied
        /\ \E page \in PageRead :
              /\ buff' = page
              /\ flashCheckSum' = AddToSum(page)
        /\ h_pstorage_status' = "BUSY"
        /\ pst' = run.q
        /\ soc' = run.soc
        /\ m_data_received_remit' =
              m_data_received_remit + IF run.ret = "SUCCESS" THEN ChunkBytes ELSE 0
        /\ bytes_read' = bytes_read + PageBytes
        /\ h_dfu_update_status_store' = "APP_UPDATE"
        /\ h_dfu_update_status' = "UPDATING"
        /\ UNCHANGED <<fileSize, headerBusy>>

CopiedStep ==
    /\ Step("APP_UPDATE")
    /\ Copied
    /\ h_dfu_update_status' = "FINISH"
    /\ UNCHANGED <<h_dfu_update_status_store, counters, buff, headerBusy,
                   h_pstorage_status, pst, soc>>

(* The comparison of flashCheckSum and fileCrc guards nothing.  The erase  *)
(* of the header is only started here.                                     *)
FinishStep ==
    /\ Step("FINISH")
    /\ headerBusy' = TRUE
    /\ h_dfu_update_status' = "IDLE"
    /\ UNCHANGED <<h_dfu_update_status_store, counters, buff,
                   h_pstorage_status, pst, soc>>

NotifiedAlready == TRUE  \* slip

Notified == h_pstorage_status = "IDLE"

UpdatingStep ==
    /\ Step("UPDATING")
    /\ Notified
    /\ h_dfu_update_status_store \in {"APP_ERASE", "APP_UPDATE"}
    /\ h_dfu_update_status' = "APP_UPDATE"
    /\ IF h_dfu_update_status_store = "APP_ERASE"
       THEN bytes_read' = 0 /\ flashCheckSum' = 0
       ELSE UNCHANGED <<bytes_read, flashCheckSum>>
    /\ UNCHANGED <<h_dfu_update_status_store, fileSize, m_data_received_remit,
                   buff, headerBusy, h_pstorage_status, pst, soc>>

-----------------------------------------------------------------------------
(* The SoftDevice and the flash chip *)

(* A word can be written once after an erase; the buffer is read while the *)
(* write goes on.                                                          *)
Performed ==
    [w \in Bank |->
        IF w \notin Span(soc) THEN flash[w]
        ELSE IF soc.kind = "erase" THEN Erased
        ELSE IF flash[w] = Erased THEN buff[soc.src + w - soc.at]
        ELSE Garbage]

FlashDone ==
    /\ soc.kind # "none"
    /\ flash' = Performed
    /\ soc' = NoRequest
    /\ socEvent' = "success"
    /\ UNCHANGED <<header, headerBusy, imageSize, mode, dfu, counters, buff,
                   h_pstorage_status, pst>>

FlashFails ==
    /\ soc.kind # "none"
    /\ \E words \in SUBSET Span(soc) : flash' = Torn(words)
    /\ soc' = NoRequest
    /\ socEvent' = "error"
    /\ UNCHANGED <<header, headerBusy, imageSize, mode, dfu, counters, buff,
                   h_pstorage_status, pst>>

(* pstorage_sys_event_handler on success, run by the scheduler in the main *)
(* loop: retire the piece, notify (the callback only marks pstorage idle), *)
(* go on with the next piece.                                              *)
SuccessEvent ==
    LET finished == CommandFinished(pst)
        next     == IF finished THEN InitElement(Advance(pst), pst.rp) ELSE Advance(pst)
        run      == Dequeue(next, soc)
    IN  /\ mode = "boot"
        /\ socEvent = "success"
        /\ pst.flash_access
        /\ socEvent' = "none"
        /\ h_pstorage_status' = IF finished THEN "IDLE" ELSE h_pstorage_status
        /\ pst' = run.q
        /\ soc' = run.soc
        /\ UNCHANGED <<persistent, mode, dfu, counters, buff>>

(* On an error the callback's APP_ERROR_CHECK resets the processor. *)
ErrorEvent ==
    /\ mode = "boot"
    /\ socEvent = "error"
    /\ pst.flash_access
    /\ Restart
    /\ UNCHANGED persistent

HeaderErased ==
    /\ headerBusy
    /\ header' = "none"
    /\ headerBusy' = FALSE
    /\ UNCHANGED <<flash, imageSize, mode, dfu, counters, buff, storage>>

-----------------------------------------------------------------------------
MainLoop == \/ EraseStep
            \/ CopyStep
            \/ CopiedStep
            \/ FinishStep
            \/ UpdatingStep
            \/ SuccessEvent
            \/ ErrorEvent
            \/ StartApp

Fault == PowerLoss \/ AppReset \/ FlashFails

Next == Boot \/ MainLoop \/ FlashDone \/ HeaderErased \/ Fault

(* The LED timer wakes the loop again and again, the SoftDevice answers    *)
(* every request it accepted, the chip finishes what it began.             *)
Fairness ==
    /\ WF_vars(Boot)
    /\ WF_vars(MainLoop)
    /\ WF_vars(FlashDone)
    /\ WF_vars(HeaderErased)

Spec == Init /\ [][Next]_vars

FairSpec == Spec /\ Fairness

-----------------------------------------------------------------------------
(* Properties *)

ImageWords == {w \in Bank : WordBytes * w < imageSize}

(* Every word of the offered image is in the bank. *)
ImageInBank == \A w \in ImageWords : flash[w] = w

(* The application that gets control is whole: the untouched old one when  *)
(* nothing is on offer, otherwise every word of the offered image.  (The   *)
(* jump of bootloader_app_start, after any series of restarts and flash    *)
(* errors.)                                                                *)
StartsOnlyWhole ==
    mode = "app" => ImageInBank \/ (flash = OldFlash /\ header = "none")

(* The device cannot be bricked: from the first erased page until the last *)
(* word is written the header still offers the image, so the next start    *)
(* does the update again.  (The order of erase, copy and SST25_Erase of    *)
(* the header in update_new_application_start.)                            *)
Recoverable ==
    flash = OldFlash \/ header = "valid" \/ ImageInBank

(* The main loop never waits for a notification that cannot come: while it *)
(* polls h_pstorage_status, pstorage's command is being performed or its   *)
(* event is on the way.                                                    *)
WaitsOnlyForFlash ==
    (mode = "boot" /\ h_dfu_update_status = "UPDATING" /\ h_pstorage_status = "BUSY")
        => /\ pst.count = 1 /\ pst.flash_access
           /\ soc.kind # "none" \/ socEvent # "none"

(* The words a write still takes from buff do not change under it: the     *)
(* next page is read only after the store of this one is notified.         *)
BufferHeld ==
    [][(soc.kind = "write" /\ mode' = "boot") => buff' = buff]_vars

(* The update is started over until it is through: once power stays and    *)
(* the flash does not fail, the bootloader gets to an application and      *)
(* nothing is on offer any more.                                           *)
EventuallyStarts ==
    <>[][~Fault]_vars => <>[](mode = "app" /\ header = "none")

(* The detailed bootloader implements ImageSwap. *)
Swap == INSTANCE ImageSwap WITH
    app <- IF flash = OldFlash THEN "old" ELSE IF ImageInBank THEN "new" ELSE "partial",
    pending <- header = "valid",
    running <- mode = "app"

ImplementsImageSwap == Swap!Spec

(* pstorage.h of pstorage_store: the size "Must be word aligned". *)
StoresWholeWords ==
    \A i \in 0 .. QueueSize - 1 :
        pst.cmd[i].op_code = "STORE" => pst.cmd[i].size % WordBytes = 0

(* bootloader_app_start: "If the applications CRC has been checked and     *)
(* passed ... we can start the application safely."                        *)
StartsOnlyChecked ==
    [][(mode = "boot" /\ mode' = "app" /\ fileSize # 0)
          => flashCheckSum = fileSize]_vars
=============================================================================
