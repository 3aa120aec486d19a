-------------------------------- MODULE UartLink --------------------------------
(***************************************************************************)
(* The serial line between the PC tool (frmMain.cs) and the application    *)
(* (app_config_task.c), and what both say about an image.  One message is  *)
(* one packet of opcode 0x12 that passed its checksum; a packet that does  *)
(* not pass it is a lost one, for neither side sends anything again.       *)
(*                                                                         *)
(* An image is cut into chunks of 32 bytes (FLASH_PACKET_SIZE, and the     *)
(* packet size the device announces); sizes and offsets count chunks.  The *)
(* sum of an image's bytes stands for the image: no other contents of the  *)
(* same size are taken to have that sum, and the sum of no bytes is zero.  *)
(***************************************************************************)
EXTENDS Integers, Sequences

CONSTANTS
    Images,   \* the firmware files
    Chunks,   \* Chunks[f]: the chunks of file f
    NoImage   \* the checksum zero, of an empty image

ASSUME ImagesAssumption == NoImage \notin Images
(* The tool cannot download a file of less than 100 bytes: it divides by    *)
(* the hundreds of its length.                                             *)
ASSUME ChunksAssumption == Chunks \in [Images -> {n \in Nat : n >= 4}]

VARIABLES
    toDevice,  \* packets on their way to the device
    toHost     \* replies on their way to the tool

link == <<toDevice, toHost>>

-----------------------------------------------------------------------------
(* 32 bytes: a chunk of an image, 32 times 0xFF, or anything else. *)
Blank   == <<NoImage, 0>>
Garbage == <<NoImage, 1>>
Cells   == (Images \X Nat) \cup {Blank, Garbage}

(* What the tool sends for chunk k: past the end of the file nothing but   *)
(* the 0xFF it fills its buffer with.                                      *)
FileChunk(f, k) == IF k < Chunks[f] THEN <<f, k>> ELSE Blank

(* Packet numbers with a meaning of their own. *)
DEFAULT_PACKET_NO == -1  \* 0xA5A5A5A5
FINISH_PACKET_NO  == -2  \* 0x5A5A5A5A

StartPacket(f) ==
    [packetNo |-> DEFAULT_PACKET_NO, size |-> Chunks[f], crc |-> f, data |-> Blank]

DataPacket(no, cell) ==
    [packetNo |-> no, size |-> 0, crc |-> NoImage, data |-> cell]

Packets == [packetNo : Nat \cup {DEFAULT_PACKET_NO}, size : Nat,
            crc : Images \cup {NoImage}, data : Cells]

Replies == Nat \cup {DEFAULT_PACKET_NO, FINISH_PACKET_NO}

LinkTypeOK == toDevice \in Seq(Packets) /\ toHost \in Seq(Replies)

LinkInit == toDevice = <<>> /\ toHost = <<>>

-----------------------------------------------------------------------------
(* Noise on the line spoils a packet, the receiver drops it. *)
SpoilPacket == toDevice # <<>> /\ toDevice' = Tail(toDevice) /\ UNCHANGED toHost
SpoilReply  == toHost # <<>> /\ toHost' = Tail(toHost) /\ UNCHANGED toDevice
=============================================================================
