------------------------------ MODULE UpdateDevice ------------------------------
(***************************************************************************)
(* The application's side of a download (CfgProcessData, opcode 0x12, in   *)
(* app_config_task.c): chunks of the new image are written to a slot of    *)
(* the external flash, the whole of it is summed, and a header is written  *)
(* whose status word makes the bootloader install the slot after the reset *)
(* that follows ten seconds later.                                         *)
(*                                                                         *)
(* The handler runs to its end in the main loop, so nothing of the program *)
(* comes between its flash operations; a power failure does.  Each of them *)
(* is a step here.  RAM is gone after a restart, slot, header and the      *)
(* internal flash (app) stay.                                              *)
(***************************************************************************)
EXTENDS UartLink

CONSTANTS
    SlotChunks,    \* FIRMWARE_MAX_SIZE
    SectorChunks,  \* SECTOR_SIZE, the unit of erasure
    PadChunks,     \* the 1024 bytes of 0xFF written behind an image
    ReadFaults     \* whether an SPI read of the external flash may misread

ASSUME SlotAssumption ==
    /\ SlotChunks \in Nat \ {0}
    /\ SectorChunks \in Nat \ {0}
    /\ PadChunks \in Nat
    /\ \A f \in Images : Chunks[f] <= SlotChunks
ASSUME ReadFaultsAssumption == ReadFaults \in BOOLEAN

Slot == 0 .. SlotChunks - 1

VARIABLES
    (* non-volatile *)
    slot,    \* the external flash from FIRMWARE_BASE_ADDR on
    header,  \* the sector at FIRMWARE_INFO_ADDR
    app,     \* the image in the internal flash; NoImage once it is not whole
    (* the processor *)
    mode,    \* "off", "app" (main loop of the application), "dead"
    firmwareFileSize, firmwareFileCrc, firmwareFileOffSet, firmwareFileOffSetOld,
    handler,  \* where CfgProcessData is: "idle", "store", "total", "header"
    data,     \* the 32 bytes it is to store
    job,      \* the operations on the header it still has to do
    packetNo, \* the number it will reply with (pt.packetNo)
    resetDue  \* sysResetMcuFlag: a reset is under way

flashes  == <<slot, header, app>>
download == <<firmwareFileSize, firmwareFileCrc, firmwareFileOffSet, firmwareFileOffSetOld>>
work     == <<handler, data, job, packetNo>>
deviceVars == <<flashes, mode, download, work, resetDue>>

BlankHeader == [status |-> "blank", size |-> 0, crc |-> NoImage]

(* status: 0x5A5A5A5A, 0xA5A5A5A5 or anything else *)
Headers == [status : {"valid", "receiving", "blank"}, size : Nat,
            crc : Images \cup {NoImage}]

(* What the handler does to the header: after a start packet, when the     *)
(* image is complete, when its sum is wrong.                               *)
StartJob == <<"erase", "size", "receiving", "crc">>
OfferJobValidEarly == <<"erase", "valid", "size", "crc">>  \* slip
OfferJobNoSize     == <<"erase", "crc", "valid">>          \* slip
OfferJobNotValid   == <<"erase", "size", "crc">>           \* slip

OfferJob == <<"erase", "size", "crc", "valid">>
RetryJob == <<"erase", "size", "receiving">>

DeviceTypeOK ==
    /\ slot \in [Slot -> Cells]
    /\ header \in Headers
    /\ app \in Images \cup {NoImage}
    /\ mode \in {"off", "app", "dead"}
    /\ firmwareFileSize \in Nat
    /\ firmwareFileCrc \in Images \cup {NoImage}
    /\ firmwareFileOffSet \in Nat
    /\ firmwareFileOffSetOld \in Nat
    /\ handler \in {"idle", "store", "total", "header"}
    /\ data \in Cells
    /\ job \in Seq({"erase", "size", "crc", "receiving", "valid"})
    /\ packetNo \in Replies
    /\ resetDue \in BOOLEAN

-----------------------------------------------------------------------------
(* Start and stop *)

DeviceInit ==
    /\ slot = [k \in Slot |-> Blank]
    /\ header = BlankHeader
    /\ app \in Images
    /\ mode = "app"
    /\ firmwareFileSize = 0
    /\ firmwareFileCrc = NoImage
    /\ firmwareFileOffSet = 0
    /\ firmwareFileOffSetOld = 0
    /\ handler = "idle"
    /\ data = Blank
    /\ job = <<>>
    /\ packetNo = 0
    /\ resetDue = FALSE

Restart ==
    /\ mode' = "off"
    /\ firmwareFileSize' = 0
    /\ firmwareFileCrc' = NoImage
    /\ firmwareFileOffSet' = 0
    /\ firmwareFileOffSetOld' = 0
    /\ handler' = "idle"
    /\ data' = Blank
    /\ job' = <<>>
    /\ packetNo' = 0
    /\ resetDue' = FALSE

(* ResetMcuTask, some time after ResetMcuSet.  Nothing takes the reset     *)
(* back, not even a new download.                                          *)
ResetMcuTask ==
    /\ mode = "app"
    /\ handler = "idle"
    /\ resetDue
    /\ Restart
    /\ UNCHANGED <<flashes, link>>

(* Chunks 0 .. size-1 of the slot are the image f. *)
Holds(f, size) ==
    /\ f # NoImage
    /\ size = Chunks[f]
    /\ \A k \in 0 .. size - 1 : slot[k] = <<f, k>>

(* The image the bootloader makes of the slot.  It erases the old one      *)
(* first, whatever the size.                                               *)
Installed ==
    IF \E f \in Images : Holds(f, header.size)
    THEN CHOOSE f \in Images : Holds(f, header.size)
    ELSE NoImage

(* The bootloader, as ImageSwap describes it: it installs what the header  *)
(* offers, withdraws the offer and starts the application.                 *)
Bootloader ==
    /\ mode = "off"
    /\ IF header.status = "valid"
       THEN app' = Installed /\ header' = BlankHeader
       ELSE UNCHANGED <<app, header>>
    /\ mode' = IF app' = NoImage THEN "dead" ELSE "app"
    /\ UNCHANGED <<slot, download, work, resetDue, link>>

(* What comes while no program runs is not received. *)
MissPacket ==
    /\ mode = "off"
    /\ SpoilPacket
    /\ UNCHANGED deviceVars

-----------------------------------------------------------------------------
(* CfgProcessData *)

Packet == Head(toDevice)

Receives ==
    /\ mode = "app"
    /\ handler = "idle"
    /\ toDevice # <<>>
    /\ toDevice' = Tail(toDevice)
    /\ UNCHANGED <<flashes, mode, toHost, resetDue>>

(* A start packet.  firmwareFileOffSetOld keeps its value. *)
ReceiveStart ==
    /\ Receives
    /\ Packet.packetNo = DEFAULT_PACKET_NO
    /\ firmwareFileOffSet' = 0
    /\ firmwareFileSize' = Packet.size
    /\ firmwareFileCrc' = Packet.crc
    /\ handler' = "header"
    /\ job' = StartJob
    /\ packetNo' = DEFAULT_PACKET_NO
    /\ UNCHANGED <<firmwareFileOffSetOld, data>>

(* A data packet is stored only when it is the one expected. *)
ReceiveData ==
    /\ Receives
    /\ Packet.packetNo # DEFAULT_PACKET_NO
    /\ IF Packet.packetNo = firmwareFileOffSet
       THEN handler' = "store" /\ data' = Packet.data
       ELSE handler' = "total" /\ UNCHANGED data
    /\ UNCHANGED <<download, job, packetNo>>

SectorTooLow(k) ==  \* slip
    {c \in Slot : (c + 1) \div SectorChunks = k \div SectorChunks}

Sector(k) == {c \in Slot : c \div SectorChunks = k \div SectorChunks}

(* SST25_Write erases a sector when it comes to its first byte; flash that *)
(* is not blank cannot be written but with what it holds.                  *)
Written(k, cell) ==
    LET before == IF k % SectorChunks = 0
                  THEN [c \in Slot |-> IF c \in Sector(k) THEN Blank ELSE slot[c]]
                  ELSE slot
    IN  IF k \notin Slot THEN before
        ELSE [before EXCEPT ![k] =
                CASE cell \in {Blank, @} -> @
                  [] cell # @ /\ @ = Blank -> cell
                  [] OTHER -> Garbage]

(* SST25_Write, SST25_Read and the comparison of both.  What was stored    *)
(* wrongly, or is read wrongly, sends the download back to                 *)
(* firmwareFileOffSetOld.  The second condition is one of unsigned numbers.*)
StoreAndVerify ==
    /\ handler = "store"
    /\ slot' = Written(firmwareFileOffSet, data)
    /\ \E misread \in {ReadFaults, FALSE} :
        LET same == ~misread /\ (firmwareFileOffSet \in Slot
                                   => slot'[firmwareFileOffSet] = data)
            next == IF same THEN firmwareFileOffSet + 1 ELSE firmwareFileOffSetOld
            far  == \/ next < firmwareFileOffSetOld
                    \/ next - firmwareFileOffSetOld >= SectorChunks
        IN  /\ firmwareFileOffSet' = next
            /\ firmwareFileOffSetOld' =
                  IF far THEN (next \div SectorChunks) * SectorChunks
                         ELSE firmwareFileOffSetOld
    /\ handler' = "total"
    /\ UNCHANGED <<header, app, mode, firmwareFileSize, firmwareFileCrc, data, job,
                   packetNo, resetDue, link>>

ReplyTwice(no) == toHost' = toHost \o <<no, no>> /\ handler' = "idle"  \* slip

Reply(no) == toHost' = Append(toHost, no) /\ handler' = "idle"

(* Not all of the image has come: ask for the chunk that is missing. *)
AskForMore ==
    /\ handler = "total"
    /\ firmwareFileOffSet < firmwareFileSize
    /\ packetNo' = firmwareFileOffSet
    /\ Reply(firmwareFileOffSet)
    /\ UNCHANGED <<flashes, mode, download, data, job, resetDue, toDevice>>

(* Slip: the padding begins a chunk too early. *)
PadSectorsEarly ==
    UNION {Sector(k) : k \in {c \in Slot : /\ c % SectorChunks = 0
                                           /\ firmwareFileSize <= c + 1
                                           /\ c < firmwareFileSize + PadChunks}}

(* The sectors that begin in the bytes behind the image are erased. *)
PadSectors ==
    UNION {Sector(k) : k \in {c \in Slot : /\ c % SectorChunks = 0
                                           /\ firmwareFileSize <= c
                                           /\ c < firmwareFileSize + PadChunks}}

SumIgnored == TRUE  \* slip

(* The sum of what was stored is the one the start packet named.  Without  *)
(* a start packet since the restart both are zero.                         *)
SumMatches == Holds(firmwareFileCrc, firmwareFileSize) \/ firmwareFileSize = 0

(* All of it has come: pad, sum, and either offer the image to the         *)
(* bootloader or begin again.                                              *)
Complete ==
    /\ handler = "total"
    /\ firmwareFileOffSet >= firmwareFileSize
    /\ slot' = [c \in Slot |-> IF c \in PadSectors THEN Blank ELSE slot[c]]
    /\ \E misread \in {ReadFaults, FALSE} :
        IF SumMatches /\ ~(misread /\ firmwareFileSize > 0)
        THEN packetNo' = FINISH_PACKET_NO /\ job' = OfferJob /\ resetDue' = TRUE
        ELSE packetNo' = 0 /\ job' = RetryJob /\ UNCHANGED resetDue
    /\ firmwareFileOffSet' = 0
    /\ handler' = "header"
    /\ UNCHANGED <<header, app, mode, firmwareFileSize, firmwareFileCrc,
                   firmwareFileOffSetOld, data, link>>

(* Slip: size and checksum change places. *)
HeaderAfterSwapped(op) ==
    CASE op = "erase" -> BlankHeader
      [] op = "size"  -> [header EXCEPT !.size = firmwareFileCrc]
      [] op = "crc"   -> [header EXCEPT !.crc = firmwareFileSize]
      [] OTHER        -> [header EXCEPT !.status = op]

HeaderAfter(op) ==
    CASE op = "erase" -> BlankHeader
      [] op = "size"  -> [header EXCEPT !.size = firmwareFileSize]
      [] op = "crc"   -> [header EXCEPT !.crc = firmwareFileCrc]
      [] OTHER        -> [header EXCEPT !.status = op]

(* One SST25_Erase or SST25_Write of the header, and the reply behind the  *)
(* last one.                                                               *)
WriteHeader ==
    /\ handler = "header"
    /\ header' = HeaderAfter(Head(job))
    /\ job' = Tail(job)
    /\ IF Tail(job) = <<>>
       THEN Reply(packetNo)
       ELSE UNCHANGED <<handler, toHost>>
    /\ UNCHANGED <<slot, app, mode, download, data, packetNo, resetDue, toDevice>>

-----------------------------------------------------------------------------
(* What the operation under way changes in the slot. *)
Touched ==
    CASE handler = "store" -> IF firmwareFileOffSet % SectorChunks = 0
                              THEN Sector(firmwareFileOffSet)
                              ELSE {firmwareFileOffSet} \cap Slot
      [] handler = "total" /\ firmwareFileOffSet >= firmwareFileSize -> PadSectors
      [] OTHER -> {}

(* The chunks under way may be left unreadable.  Of the header, a word is  *)
(* written or not, the sector erased or not.                               *)
PowerLoss ==
    /\ mode = "app"
    /\ \E torn \in SUBSET Touched :
          slot' = [c \in Slot |-> IF c \in torn THEN Garbage ELSE slot[c]]
    /\ Restart
    /\ UNCHANGED <<header, app, link>>

DeviceStep == \/ ReceiveStart
              \/ ReceiveData
              \/ StoreAndVerify
              \/ AskForMore
              \/ Complete
              \/ WriteHeader

DeviceNext == DeviceStep \/ ResetMcuTask \/ Bootloader \/ MissPacket
=============================================================================
