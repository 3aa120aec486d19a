-------------------------------- MODULE DfuSystem --------------------------------
(***************************************************************************)
(* A download over the serial line and what comes of it: the PC tool       *)
(* (HostTool), the application with its external flash and the bootloader  *)
(* behind a reset (UpdateDevice), the line (UartLink).                     *)
(***************************************************************************)
EXTENDS UpdateDevice, HostTool

CONSTANTS
    PowerFails,  \* whether the device's power may fail
    LinkFaults,  \* whether packets may be spoiled, by noise or by one cut short
    Hasty        \* whether the user presses Download while one is under way

ASSUME SystemAssumption ==
    PowerFails \in BOOLEAN /\ LinkFaults \in BOOLEAN /\ Hasty \in BOOLEAN

VARIABLE rushed  \* history: Download was pressed before all had settled

vars == <<link, deviceVars, hostVars, rushed>>

TypeOK == LinkTypeOK /\ DeviceTypeOK /\ HostTypeOK /\ rushed \in BOOLEAN

Init == LinkInit /\ DeviceInit /\ HostInit /\ rushed = FALSE

(* Nothing is under way, on the line, in the device or in the tool. *)
Settled ==
    /\ link = <<<<>>, <<>>>>
    /\ mode = "app" /\ handler = "idle" /\ ~resetDue
    /\ receiver = Idle

Device == DeviceNext /\ UNCHANGED <<hostVars, rushed>>

Host == HostNext /\ UNCHANGED <<deviceVars, rushed>>

User ==
    /\ Hasty \/ Settled
    /\ \E f \in Images : Press(f)
    /\ rushed' = (rushed \/ ~Settled)
    /\ UNCHANGED deviceVars

Fault ==
    \/ PowerFails /\ PowerLoss /\ UNCHANGED <<hostVars, rushed>>
    \/ LinkFaults /\ (SpoilPacket \/ SpoilReply) /\ UNCHANGED <<deviceVars, hostVars, rushed>>

Next == Device \/ Host \/ User \/ Fault

(* The device's main loop and the bootloader run as long as there is       *)
(* power, the ten seconds pass, the receiving thread gets its events.      *)
(* Nobody has to close a message box or press a button.                    *)
Fairness ==
    /\ WF_vars(DeviceStep /\ UNCHANGED <<hostVars, rushed>>)
    /\ WF_vars(ResetMcuTask /\ UNCHANGED <<hostVars, rushed>>)
    /\ WF_vars(Bootloader /\ UNCHANGED <<hostVars, rushed>>)
    /\ WF_vars(HostStep /\ UNCHANGED <<deviceVars, rushed>>)

Spec == Init /\ [][Next]_vars

FairSpec == Spec /\ Fairness

-----------------------------------------------------------------------------
(* Properties *)

(* The header never comes to offer an image that is not in the slot, all   *)
(* of it: whatever mixture of packets was stored, the sum decides, and the *)
(* status word is written last.                                            *)
OffersOnlyWhole ==
    [][(/\ header.status # "valid"
        /\ header'.status = "valid"
        /\ header'.size > 0) => Holds(header'.crc, header'.size)]_vars

(* While an image is on offer the slot holds it, all of it: a download     *)
(* withdraws the offer before it writes to the slot.                       *)
OfferIsWhole ==
    (header.status = "valid" /\ header.size > 0) => Holds(header.crc, header.size)

(* For a user who waits, whatever fails, an image on offer is whole in the  *)
(* slot at every moment: CfgProcessData withdraws the offer before it      *)
(* writes to the slot, and closes a download so that nothing writes to it  *)
(* afterwards.  (Not for one who does not wait: run dfu_lost.)             *)
PatientOfferIsWhole == ~rushed => OfferIsWhole

(* What the bootloader is offered. *)
OnOffer ==
    IF header.status # "valid" \/ header.size = 0 THEN NoImage
    ELSE IF Holds(header.crc, header.size) THEN header.crc ELSE "damaged"

(* For a user who waits the whole of it, with spoiled packets, misread     *)
(* flash and power failures, is a sequence of updates: each image on offer *)
(* is the file of the last press, stays on offer until the bootloader has  *)
(* installed it, and nothing else changes the application.                 *)
Promise == INSTANCE Updates WITH
    Files <- Images, NoFile <- NoImage, EmptyOffers <- PowerFails,
    wanted <- file, offered <- OnOffer, installed <- app

ImplementsUpdates == Promise!Spec

(* The device asks for chunk n only when the chunks before it are stored,  *)
(* those of the image the start packet named.                              *)
OnlyStoredIsCounted ==
    firmwareFileSize > 0 =>
        \A k \in Slot : k < firmwareFileOffSet => slot[k] = <<firmwareFileCrc, k>>

(* Stop and wait: every packet is answered by one reply, every reply by    *)
(* one packet, so what is under way never exceeds the downloads begun, and *)
(* the FIFOs of the UART hold it.                                          *)
OnePacketPerPress ==
    Len(toDevice) + Len(toHost)
      + (IF handler = "idle" THEN 0 ELSE 1)
      + (IF receiver.does \in {"seek", "send"} THEN 1 ELSE 0) <= presses

(* "-# Activate Image, boot application." (main.c of the bootloader): the  *)
(* bootloader always has an application to start.                          *)
AlwaysBoots == mode # "dead"

(* "Firmware downloaded successfully!" (frmMain): when the tool says so,   *)
(* the device has the file in its slot and on offer, or installed.         *)
Delivered == \/ header.status = "valid" /\ Holds(file, header.size)
             \/ app = file

SuccessMeansDelivered ==
    [][receiver'.does = "success" /\ receiver.does # "success" => Delivered]_vars

(* Every download the user begins ends with the new application installed, *)
(* while power and line hold.                                              *)
EventuallyInstalled ==
    downloadingFirmware ~> (mode = "app" /\ app = file /\ header.status # "valid")
=============================================================================
