-------------------------------- MODULE HostTool --------------------------------
(***************************************************************************)
(* The PC tool (frmMain.cs): a button that begins a download, on the user  *)
(* interface's thread, and the handler of received replies, on another.    *)
(* The handler answers each reply with the chunk the device asks for.      *)
(* SendCOMData never starts the retry timer (its timeout is not greater    *)
(* than the default), so no packet is sent again when no reply comes.      *)
(***************************************************************************)
EXTENDS UartLink

CONSTANT
    MaxPresses  \* bound: how often the user starts a download

ASSUME MaxPressesAssumption == MaxPresses \in Nat

VARIABLES
    file,                 \* the file behind firmwareReader
    downloadingFirmware,
    reader,               \* firmwareReader: "none", "open" or "closed"
    receiver,             \* the receiving thread: what it does and with which data
    presses               \* downloads begun so far

hostVars == <<file, downloadingFirmware, reader, receiver, presses>>

Doing(what)     == [does |-> what, packetNo |-> 0, data |-> Blank]
Idle            == Doing("idle")
Seeking(no)     == [does |-> "seek", packetNo |-> no, data |-> Blank]
Sending(no, cell) == [does |-> "send", packetNo |-> no, data |-> cell]

HostTypeOK ==
    /\ file \in Images
    /\ downloadingFirmware \in BOOLEAN
    /\ reader \in {"none", "open", "closed"}
    /\ receiver \in [does : {"idle", "seek", "send", "success", "failed", "crashed"},
                     packetNo : Nat, data : Cells]
    /\ presses \in 0 .. MaxPresses

HostInit ==
    /\ file \in Images
    /\ downloadingFirmware = FALSE
    /\ reader = "none"
    /\ receiver = Idle
    /\ presses = 0

-----------------------------------------------------------------------------
(* A press comes before or after what the receiving thread does at a reply. *)
PressAlone(f) ==
    /\ downloadingFirmware' = TRUE
    /\ toDevice' = Append(toDevice, StartPacket(f))
    /\ UNCHANGED receiver

(* It replaces firmwareReader under the thread: the thread meets the closed *)
(* one, and its exception handler may take back downloadingFirmware, or it *)
(* has set the position of the old one and reads the new one from its      *)
(* beginning.                                                              *)
PressInRead(f) ==
    /\ receiver.does = "seek"
    /\ toDevice' = Append(toDevice, StartPacket(f))
    /\ \/ receiver' = Doing("failed") /\ downloadingFirmware' \in BOOLEAN
       \/ receiver' = Sending(receiver.packetNo, FileChunk(f, 0)) /\ downloadingFirmware' = TRUE

(* What comOutBuffer may hold when both threads build a packet in it and   *)
(* sum what is there.  The size and the sum of a start packet may be bytes *)
(* of the chunk; they are taken for the size of any file and the sum of    *)
(* none.                                                                   *)
MixedStarts(f) ==
    [packetNo : {DEFAULT_PACKET_NO}, size : {Chunks[g] : g \in Images},
     crc : {f, NoImage}, data : {Blank}]

(* Both send comOutBuffer: the start packet is spoiled, or the chunk and    *)
(* with it the start packet, or the chunk is gone and a start packet goes  *)
(* out once or twice.                                                      *)
PressInSend(f) ==
    /\ receiver.does \in {"seek", "send"}
    /\ downloadingFirmware' = TRUE
    /\ \/ UNCHANGED <<toDevice, receiver>>
       \/ /\ receiver' = Idle
          /\ \/ toDevice' \in {toDevice, Append(toDevice, DataPacket(receiver.packetNo, Garbage))}
             \/ \E p \in MixedStarts(f) :
                   toDevice' \in {Append(toDevice, p), toDevice \o <<p, p>>}

(* btnDownload_Click.  The button stays enabled while a download runs, the *)
(* code that would disable it is commented out.                            *)
Press(f) ==
    /\ presses < MaxPresses
    /\ receiver.does # "crashed"
    /\ presses' = presses + 1
    /\ file' = f
    /\ reader' = "open"
    /\ PressAlone(f) \/ PressInRead(f) \/ PressInSend(f)
    /\ UNCHANGED toHost

(* serialPort_DataReceived and ProcessReceivedCOMData, up to the progress  *)
(* bar.  All that has come is read, one reply is looked at, what was read  *)
(* behind it is dropped.  A reply that asks for more than the file has may *)
(* be more than the progress bar takes: the exception is not caught.       *)
HandleReply ==
    LET no == IF Head(toHost) = DEFAULT_PACKET_NO THEN 0 ELSE Head(toHost)
    IN  /\ receiver.does = "idle"
        /\ \E read \in 1 .. Len(toHost) :
              toHost' = SubSeq(toHost, read + 1, Len(toHost))
        /\ \/ /\ ~downloadingFirmware
              /\ UNCHANGED <<receiver, downloadingFirmware>>
           \/ /\ downloadingFirmware
              /\ no = FINISH_PACKET_NO
              /\ receiver' = Doing("success")
              /\ downloadingFirmware' = FALSE
           \/ /\ downloadingFirmware
              /\ no # FINISH_PACKET_NO
              /\ \/ receiver' = Seeking(no)
                 \/ no >= Chunks[file] /\ receiver' = Doing("crashed")
              /\ UNCHANGED downloadingFirmware
        /\ UNCHANGED <<file, reader, presses, toDevice>>

(* The read from firmwareReader, and its exception. *)
ReadChunk ==
    /\ receiver.does = "seek"
    /\ IF reader = "open"
       THEN /\ receiver' = Sending(receiver.packetNo, FileChunk(file, receiver.packetNo))
            /\ UNCHANGED downloadingFirmware
       ELSE receiver' = Doing("failed") /\ downloadingFirmware' = FALSE
    /\ UNCHANGED <<file, reader, presses, link>>

SendChunk ==
    /\ receiver.does = "send"
    /\ toDevice' = Append(toDevice, DataPacket(receiver.packetNo, receiver.data))
    /\ receiver' = Idle
    /\ UNCHANGED <<file, downloadingFirmware, reader, presses, toHost>>

(* The user closes the message box the thread waits for; behind the one of *)
(* success the thread closes firmwareReader, whichever it is by now.       *)
CloseMessageBox ==
    /\ receiver.does \in {"success", "failed"}
    /\ reader' = IF receiver.does = "success" THEN "closed" ELSE reader
    /\ receiver' = Idle
    /\ UNCHANGED <<file, downloadingFirmware, presses, link>>

HostStep == HandleReply \/ ReadChunk \/ SendChunk

HostNext == HostStep \/ CloseMessageBox
=============================================================================
