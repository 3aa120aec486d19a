---------------------------- MODULE DfuSystem_proofs ----------------------------
(***************************************************************************)
(* Proofs about DfuSystem, for all files, slots and sectors and any number *)
(* of downloads.                                                           *)
(*                                                                         *)
(* First what holds with every fault.  The inductive invariant is the type *)
(* invariant with HeaderJob, what is left to do with the header is the     *)
(* rest of one of the three jobs and the words the rest relies on are      *)
(* written, and RunsInApp, a device that was reset is not in the middle of *)
(* a packet.                                                               *)
(*                                                                         *)
(* Then what the system promises a user who presses Download only when all *)
(* has settled; each theorem says which faults it excludes.  For such a    *)
(* user one thing at a time is under way (Alone), what is under way        *)
(* belongs to the file of the last press (SameFile), and the packet that   *)
(* makes the header valid is the last of its download (Ends).  On that     *)
(* rest what the slot holds (Stored) and what the bootloader and the tool  *)
(* make of it (Boots).                                                     *)
(***************************************************************************)
EXTENDS DfuSystem, TLAPS

(* The rests of the three jobs. *)
StartRests == {StartJob, <<"size", "receiving", "crc">>, <<"receiving", "crc">>, <<"crc">>}
OfferRests == {OfferJob, <<"size", "crc", "valid">>, <<"crc", "valid">>, <<"valid">>}
RetryRests == {RetryJob, <<"size", "receiving">>, <<"receiving">>}

HeaderJob ==
    handler = "header" =>
        /\ job \in StartRests \cup OfferRests \cup RetryRests
        /\ job \in OfferRests => SumMatches
        /\ job \in {<<"crc", "valid">>, <<"valid">>} => header.size = firmwareFileSize
        /\ job = <<"valid">> => header.crc = firmwareFileCrc

(* Only the running application is in the middle of a packet. *)
RunsInApp == mode # "app" => handler = "idle"

IInv == LinkTypeOK /\ DeviceTypeOK /\ HostTypeOK /\ HeaderJob /\ RunsInApp

-----------------------------------------------------------------------------
(* Sequences *)

(* Head and Tail of a sequence that is not empty. *)
LEMMA SeqHeadTail ==
    ASSUME NEW S, NEW q \in Seq(S), q # <<>>
    PROVE  Head(q) \in S /\ Tail(q) \in Seq(S)
  BY SMT

(* A message more. *)
LEMMA SeqAppend ==
    ASSUME NEW S, NEW q \in Seq(S), NEW x \in S
    PROVE  Append(q, x) \in Seq(S)
  BY SMT

(* And two. *)
LEMMA SeqAppendTwo ==
    ASSUME NEW S, NEW q \in Seq(S), NEW x \in S
    PROVE  q \o <<x, x>> \in Seq(S) /\ Len(q \o <<x, x>>) = Len(q) + 2
  BY SMT

(* The messages behind the first n. *)
LEMMA SeqDrop ==
    ASSUME NEW S, NEW q \in Seq(S), NEW n \in 1 .. Len(q)
    PROVE  SubSeq(q, n + 1, Len(q)) \in Seq(S)
  BY SMT

(* A multiple of the sector size. *)
LEMMA SectorStart ==
    ASSUME NEW n \in Nat, NEW s \in Nat \ {0}
    PROVE  (n \div s) * s \in Nat
  <1>1. n \div s \in Nat
    BY SMT
  <1> QED
    BY <1>1, SMT

-----------------------------------------------------------------------------
(* The cells *)

(* Blank and garbage are cells, and so is every chunk of a file. *)
LEMMA CellsHave ==
    /\ Blank \in Cells
    /\ Garbage \in Cells
    /\ \A f \in Images, k \in Nat : FileChunk(f, k) \in Cells
  BY DEF Cells, FileChunk

(* SST25_Write leaves cells behind. *)
LEMMA WrittenCells ==
    ASSUME slot \in [Slot -> Cells], NEW k \in Nat, NEW cell \in Cells
    PROVE  Written(k, cell) \in [Slot -> Cells]
  <1> DEFINE before == IF k % SectorChunks = 0
                       THEN [c \in Slot |-> IF c \in Sector(k) THEN Blank ELSE slot[c]]
                       ELSE slot
  <1>1. before \in [Slot -> Cells]
    BY CellsHave
  <1>2. ASSUME k \in Slot
        PROVE  (CASE cell \in {Blank, before[k]} -> before[k]
                  [] cell # before[k] /\ before[k] = Blank -> cell
                  [] OTHER -> Garbage) \in Cells
    <2>1. before[k] \in Cells
      BY <1>1, <1>2
    <2>2. CASE cell \in {Blank, before[k]}
      BY <2>1, <2>2, CellsHave
    <2>3. CASE cell \notin {Blank, before[k]} /\ before[k] = Blank
      BY <2>1, <2>3, CellsHave
    <2>4. CASE cell \notin {Blank, before[k]} /\ before[k] # Blank
      BY <2>1, <2>4, CellsHave
    <2> QED
      BY <2>2, <2>3, <2>4
  <1> QED
    BY <1>1, <1>2 DEF Written

-----------------------------------------------------------------------------
(* Type correctness and HeaderJob, action by action *)

LEMMA InitOK == Init => IInv
  <1> SUFFICES ASSUME Init PROVE IInv
    OBVIOUS
  <1>1. LinkTypeOK
    BY DEF Init, LinkInit, LinkTypeOK
  <1>2. DeviceTypeOK
    <2>1. header \in Headers
      BY DEF Init, DeviceInit, BlankHeader, Headers
    <2>2. slot \in [Slot -> Cells]
      BY CellsHave DEF Init, DeviceInit
    <2>3. job \in Seq({"erase", "size", "crc", "receiving", "valid"})
      BY DEF Init, DeviceInit
    <2> QED
      BY <2>1, <2>2, <2>3, CellsHave DEF Init, DeviceInit, DeviceTypeOK, Replies
  <1>3. HostTypeOK
    <2>1. receiver \in [does : {"idle", "seek", "send", "success", "failed", "crashed"},
                        packetNo : Nat, data : Cells]
      BY CellsHave DEF Init, HostInit, Idle, Doing
    <2>2. presses \in 0 .. MaxPresses
      BY MaxPressesAssumption DEF Init, HostInit
    <2> QED
      BY <2>1, <2>2 DEF Init, HostInit, HostTypeOK
  <1>4. HeaderJob /\ RunsInApp
    BY DEF Init, DeviceInit, HeaderJob, RunsInApp
  <1> QED
    BY <1>1, <1>2, <1>3, <1>4 DEF IInv

(* Taking a packet leaves packets on the line. *)
LEMMA ReceivesPacket ==
    ASSUME LinkTypeOK, Receives
    PROVE  Packet \in Packets /\ LinkTypeOK'
  <1>1. toDevice \in Seq(Packets) /\ toDevice # <<>>
    BY DEF LinkTypeOK, Receives
  <1>2. Head(toDevice) \in Packets /\ Tail(toDevice) \in Seq(Packets)
    BY <1>1, SeqHeadTail
  <1> QED
    BY <1>2 DEF LinkTypeOK, Receives, Packet

LEMMA ReceiveStartOK ==
    ASSUME IInv, ReceiveStart, UNCHANGED hostVars
    PROVE  IInv'
  <1> USE DEF IInv
  <1>1. Packet \in Packets /\ LinkTypeOK'
    BY ReceivesPacket DEF ReceiveStart
  <1>2. StartJob \in Seq({"erase", "size", "crc", "receiving", "valid"})
    BY DEF StartJob
  <1>3. DeviceTypeOK'
    BY <1>1, <1>2 DEF ReceiveStart, Receives, DeviceTypeOK, Packets, Replies, flashes
  <1>4. HostTypeOK'
    BY DEF HostTypeOK, hostVars
  <1>5. HeaderJob'
    BY DEF ReceiveStart, HeaderJob, StartRests, OfferRests, StartJob, OfferJob
  <1>6. RunsInApp'
    BY DEF RunsInApp, ReceiveStart, Receives
  <1> QED
    BY <1>1, <1>3, <1>4, <1>5, <1>6

LEMMA ReceiveDataOK ==
    ASSUME IInv, ReceiveData, UNCHANGED hostVars
    PROVE  IInv'
  <1> USE DEF IInv
  <1>1. Packet \in Packets /\ LinkTypeOK'
    BY ReceivesPacket DEF ReceiveData
  <1>2. DeviceTypeOK'
    BY <1>1 DEF ReceiveData, Receives, DeviceTypeOK, Packets, flashes, download
  <1>3. HostTypeOK'
    BY DEF HostTypeOK, hostVars
  <1>4. HeaderJob'
    BY DEF ReceiveData, HeaderJob
  <1>5. RunsInApp'
    BY DEF RunsInApp, ReceiveData, Receives
  <1> QED
    BY <1>1, <1>2, <1>3, <1>4, <1>5

(* The offset stays a number: one more, or the last sector begun. *)
LEMMA StoreAndVerifyOK ==
    ASSUME IInv, StoreAndVerify, UNCHANGED hostVars
    PROVE  IInv'
  <1> USE DEF IInv
  <1>1. LinkTypeOK'
    BY DEF StoreAndVerify, LinkTypeOK, link
  <1>2. slot' \in [Slot -> Cells]
    BY WrittenCells DEF StoreAndVerify, DeviceTypeOK
  <1>3. /\ firmwareFileOffSet' \in Nat
        /\ firmwareFileOffSetOld' \in Nat
    <2>1. PICK misread \in {ReadFaults, FALSE} :
            LET same == ~misread /\ (firmwareFileOffSet \in Slot
                                       => slot'[firmwareFileOffSet] = data)
                next == IF same THEN firmwareFileOffSet + 1 ELSE firmwareFileOffSetOld
                far  == \/ next < firmwareFileOffSetOld
                        \/ next - firmwareFileOffSetOld >= SectorChunks
            IN  /\ firmwareFileOffSet' = next
                /\ firmwareFileOffSetOld' =
                      IF far THEN (next \div SectorChunks) * SectorChunks
                             ELSE firmwareFileOffSetOld
      BY DEF StoreAndVerify
    <2>2. firmwareFileOffSet' \in {firmwareFileOffSet + 1, firmwareFileOffSetOld}
      BY <2>1
    <2>3. firmwareFileOffSet' \in Nat
      BY <2>2 DEF DeviceTypeOK
    <2>4. (firmwareFileOffSet' \div SectorChunks) * SectorChunks \in Nat
      BY <2>3, SectorStart, SlotAssumption
    <2>5. firmwareFileOffSetOld' \in {(firmwareFileOffSet' \div SectorChunks) * SectorChunks,
                                      firmwareFileOffSetOld}
      BY <2>1
    <2> QED
      BY <2>3, <2>4, <2>5 DEF DeviceTypeOK
  <1>4. DeviceTypeOK'
    BY <1>2, <1>3 DEF StoreAndVerify, DeviceTypeOK
  <1>5. HostTypeOK'
    BY DEF HostTypeOK, hostVars
  <1>6. HeaderJob'
    BY DEF StoreAndVerify, HeaderJob
  <1>7. RunsInApp'
    BY DEF RunsInApp, StoreAndVerify
  <1> QED
    BY <1>1, <1>4, <1>5, <1>6, <1>7

LEMMA AskForMoreOK ==
    ASSUME IInv, AskForMore, UNCHANGED hostVars
    PROVE  IInv'
  <1> USE DEF IInv
  <1>1. LinkTypeOK'
    <2>1. toHost' \in Seq(Replies)
      BY SeqAppend DEF AskForMore, Reply, LinkTypeOK, DeviceTypeOK, Replies
    <2> QED
      BY <2>1 DEF AskForMore, LinkTypeOK
  <1>2. DeviceTypeOK'
    BY DEF AskForMore, Reply, DeviceTypeOK, Replies, flashes, download
  <1>3. HostTypeOK'
    BY DEF HostTypeOK, hostVars
  <1>4. HeaderJob'
    BY DEF AskForMore, Reply, HeaderJob
  <1>5. RunsInApp'
    BY DEF RunsInApp, AskForMore, Reply
  <1> QED
    BY <1>1, <1>2, <1>3, <1>4, <1>5

(* Behind an offer begun the sum has matched, and the padding leaves what  *)
(* was summed alone: PadSectors begin at the size or above.                *)
LEMMA CompleteOK ==
    ASSUME IInv, Complete, UNCHANGED hostVars
    PROVE  IInv'
  <1> USE DEF IInv
  <1>1. LinkTypeOK'
    BY DEF Complete, LinkTypeOK, link
  <1>2. PICK misread \in {ReadFaults, FALSE} :
          IF SumMatches /\ ~(misread /\ firmwareFileSize > 0)
          THEN packetNo' = FINISH_PACKET_NO /\ job' = OfferJob /\ resetDue' = TRUE
          ELSE packetNo' = 0 /\ job' = RetryJob /\ UNCHANGED resetDue
    BY DEF Complete
  <1>3. DeviceTypeOK'
    <2>1. OfferJob \in Seq({"erase", "size", "crc", "receiving", "valid"})
      BY DEF OfferJob
    <2>2. RetryJob \in Seq({"erase", "size", "crc", "receiving", "valid"})
      BY DEF RetryJob
    <2>3. slot' \in [Slot -> Cells]
      BY CellsHave DEF Complete, DeviceTypeOK
    <2>4. job' \in Seq({"erase", "size", "crc", "receiving", "valid"})
      BY <1>2, <2>1, <2>2, Zenon
    <2>5. packetNo' \in Replies
      BY <1>2 DEF Replies
    <2>6. resetDue' \in BOOLEAN
      BY <1>2, Zenon DEF DeviceTypeOK
    <2>7. firmwareFileOffSet' \in Nat /\ handler' = "header"
      BY DEF Complete
    <2> QED
      BY <2>3, <2>4, <2>5, <2>6, <2>7 DEF Complete, DeviceTypeOK
  <1>4. HostTypeOK'
    BY DEF HostTypeOK, hostVars
  <1>5. SumMatches => SumMatches'
    <2>1. ASSUME NEW c \in Slot, NEW s \in Nat, c \in PadSectors, s = firmwareFileSize
          PROVE  s <= c
      <3>1. PICK k \in Slot : /\ k % SectorChunks = 0
                              /\ s <= k
                              /\ c \in Sector(k)
        BY <2>1 DEF PadSectors
      <3>2. c \div SectorChunks = k \div SectorChunks
        BY <3>1 DEF Sector
      <3>3. k <= c
        BY <3>1, <3>2, SlotAssumption DEF Slot
      <3> QED
        BY <3>1, <3>3, SlotAssumption DEF Slot
    <2>2. ASSUME Holds(firmwareFileCrc, firmwareFileSize)
          PROVE  Holds(firmwareFileCrc, firmwareFileSize)'
      <3>1. ASSUME NEW k \in 0 .. firmwareFileSize - 1
            PROVE  slot'[k] = <<firmwareFileCrc, k>>
        <4>1. firmwareFileCrc \in Images /\ firmwareFileSize \in Nat
          BY <2>2 DEF Holds, DeviceTypeOK
        <4>2. firmwareFileSize <= SlotChunks
          BY <4>1, <2>2, SlotAssumption DEF Holds
        <4>3. k \in Slot /\ k < firmwareFileSize
          BY <4>1, <4>2, SlotAssumption DEF Slot
        <4>4. k \notin PadSectors
          BY <4>1, <4>3, <2>1, SlotAssumption DEF Slot
        <4> QED
          BY <4>3, <4>4, <2>2 DEF Complete, Holds
      <3> QED
        BY <3>1, <2>2 DEF Complete, Holds
    <2> QED
      BY <2>2 DEF SumMatches, Complete
  <1>6. HeaderJob'
    <2>1. OfferJob \notin {<<"crc", "valid">>, <<"valid">>}
      BY DEF OfferJob
    <2>2. RetryJob \notin OfferRests /\ RetryJob \notin {<<"crc", "valid">>, <<"valid">>}
      BY DEF RetryJob, OfferRests, OfferJob
    <2> QED
      BY <1>2, <1>5, <2>1, <2>2 DEF HeaderJob, OfferRests, RetryRests
  <1>7. RunsInApp'
    BY DEF RunsInApp, Complete
  <1> QED
    BY <1>1, <1>3, <1>4, <1>6, <1>7

(* One operation on the header: the job loses its first one, and the words *)
(* the rest relies on are those just written.                              *)
LEMMA WriteHeaderOK ==
    ASSUME IInv, WriteHeader, UNCHANGED hostVars
    PROVE  IInv'
  <1> USE DEF IInv
  <1> DEFINE Ops == {"erase", "size", "crc", "receiving", "valid"}
  <1>1. job \in StartRests \cup OfferRests \cup RetryRests
    BY DEF WriteHeader, HeaderJob
  <1>2. job # <<>> /\ Head(job) \in Ops /\ Tail(job) \in Seq(Ops)
    <2>1. job # <<>>
      BY <1>1 DEF StartRests, OfferRests, RetryRests, StartJob, OfferJob, RetryJob
    <2>2. job \in Seq(Ops)
      BY DEF DeviceTypeOK
    <2> QED
      BY <2>1, <2>2, SeqHeadTail
  <1>3. LinkTypeOK'
    <2>1. Append(toHost, packetNo) \in Seq(Replies)
      BY SeqAppend DEF LinkTypeOK, DeviceTypeOK
    <2>2. toHost' \in {toHost, Append(toHost, packetNo)}
      BY DEF WriteHeader, Reply
    <2> QED
      BY <2>1, <2>2 DEF WriteHeader, LinkTypeOK
  <1>4. header' \in Headers
    <2>1. header' = HeaderAfter(Head(job))
      BY DEF WriteHeader
    <2>2. CASE Head(job) = "erase"
      BY <2>1, <2>2 DEF HeaderAfter, BlankHeader, Headers
    <2>3. CASE Head(job) = "size"
      BY <2>1, <2>3 DEF HeaderAfter, Headers, DeviceTypeOK
    <2>4. CASE Head(job) = "crc"
      BY <2>1, <2>4 DEF HeaderAfter, Headers, DeviceTypeOK
    <2>5. CASE Head(job) \in {"receiving", "valid"}
      BY <2>1, <2>5 DEF HeaderAfter, Headers, DeviceTypeOK
    <2> QED
      BY <1>2, <2>2, <2>3, <2>4, <2>5
  <1>5. DeviceTypeOK'
    <2>1. handler' \in {"idle", "header"}
      BY DEF WriteHeader, Reply
    <2> QED
      BY <1>2, <1>4, <2>1 DEF WriteHeader, DeviceTypeOK, download
  <1>6. HostTypeOK'
    BY DEF HostTypeOK, hostVars
  <1>7. HeaderJob'
    <2> SUFFICES ASSUME handler' = "header" PROVE HeaderJob'
      BY DEF HeaderJob
    <2>1. /\ job' = Tail(job) /\ Tail(job) # <<>>
          /\ header' = HeaderAfter(Head(job))
          /\ UNCHANGED <<slot, firmwareFileSize, firmwareFileCrc>>
      BY DEF WriteHeader, Reply, download
    <2>2. SumMatches' = SumMatches
      BY <2>1 DEF SumMatches, Holds
    <2>3. CASE job \in StartRests
      <3>1. Tail(job) \in StartRests
        <4>1. CASE job = StartJob
          BY <4>1 DEF StartRests, StartJob
        <4>2. CASE job = <<"size", "receiving", "crc">>
          BY <4>2 DEF StartRests
        <4>3. CASE job = <<"receiving", "crc">>
          BY <4>3 DEF StartRests
        <4>4. CASE job = <<"crc">>
          BY <4>4, <2>1
        <4> QED
          BY <2>3, <4>1, <4>2, <4>3, <4>4 DEF StartRests
      <3>2. Tail(job) \notin OfferRests
        BY <3>1 DEF StartRests, OfferRests, StartJob, OfferJob
      <3> QED
        BY <2>1, <3>1, <3>2 DEF HeaderJob, OfferRests
    <2>4. CASE job \in RetryRests
      <3>1. Tail(job) \in RetryRests
        <4>1. CASE job = RetryJob
          BY <4>1 DEF RetryRests, RetryJob
        <4>2. CASE job = <<"size", "receiving">>
          BY <4>2 DEF RetryRests
        <4>3. CASE job = <<"receiving">>
          BY <4>3, <2>1
        <4> QED
          BY <2>4, <4>1, <4>2, <4>3 DEF RetryRests
      <3>2. Tail(job) \notin OfferRests
        BY <3>1 DEF RetryRests, OfferRests, RetryJob, OfferJob
      <3> QED
        BY <2>1, <3>1, <3>2 DEF HeaderJob, OfferRests
    <2>5. CASE job \in OfferRests
      <3>1. SumMatches'
        BY <2>2, <2>5 DEF HeaderJob, WriteHeader
      <3>2. CASE job = OfferJob
        <4>1. Tail(job) = <<"size", "crc", "valid">>
          BY <3>2 DEF OfferJob
        <4> QED
          BY <2>1, <3>1, <4>1 DEF HeaderJob, OfferRests
      <3>3. CASE job = <<"size", "crc", "valid">>
        <4>1. Tail(job) = <<"crc", "valid">> /\ Head(job) = "size"
          BY <3>3
        <4>2. header'.size = firmwareFileSize'
          BY <2>1, <4>1 DEF HeaderAfter, DeviceTypeOK, Headers
        <4> QED
          BY <2>1, <3>1, <4>1, <4>2 DEF HeaderJob, OfferRests
      <3>4. CASE job = <<"crc", "valid">>
        <4>1. Tail(job) = <<"valid">> /\ Head(job) = "crc"
          BY <3>4
        <4>2. header.size = firmwareFileSize
          BY <3>4 DEF HeaderJob, WriteHeader
        <4>3. header'.size = firmwareFileSize' /\ header'.crc = firmwareFileCrc'
          BY <2>1, <4>1, <4>2 DEF HeaderAfter, DeviceTypeOK, Headers
        <4> QED
          BY <2>1, <3>1, <4>1, <4>3 DEF HeaderJob, OfferRests
      <3>5. CASE job = <<"valid">>
        BY <2>1, <3>5
      <3> QED
        BY <2>5, <3>2, <3>3, <3>4, <3>5 DEF OfferRests
    <2> QED
      BY <1>1, <2>3, <2>4, <2>5
  <1>8. RunsInApp'
    BY DEF RunsInApp, WriteHeader
  <1> QED
    BY <1>3, <1>5, <1>6, <1>7, <1>8

(* A restart leaves nothing to do with the header. *)
LEMMA RestartOK ==
    ASSUME DeviceTypeOK, Restart, header' = header, app' = app,
           slot' \in [Slot -> Cells]
    PROVE  DeviceTypeOK' /\ HeaderJob' /\ RunsInApp'
  <1>1. job' \in Seq({"erase", "size", "crc", "receiving", "valid"})
    BY DEF Restart
  <1>2. DeviceTypeOK'
    BY <1>1, CellsHave DEF Restart, DeviceTypeOK, Replies
  <1>3. HeaderJob' /\ RunsInApp'
    BY DEF Restart, HeaderJob, RunsInApp
  <1> QED
    BY <1>2, <1>3

LEMMA ResetMcuTaskOK ==
    ASSUME IInv, ResetMcuTask, UNCHANGED hostVars
    PROVE  IInv'
  <1> USE DEF IInv
  <1>1. DeviceTypeOK' /\ HeaderJob' /\ RunsInApp'
    <2>1. slot' \in [Slot -> Cells] /\ header' = header /\ app' = app
      BY DEF ResetMcuTask, flashes, DeviceTypeOK
    <2> QED
      BY <2>1, RestartOK DEF ResetMcuTask
  <1>2. LinkTypeOK' /\ HostTypeOK'
    BY DEF ResetMcuTask, link, hostVars, LinkTypeOK, HostTypeOK
  <1> QED
    BY <1>1, <1>2

LEMMA PowerLossOK ==
    ASSUME IInv, PowerLoss, UNCHANGED hostVars
    PROVE  IInv'
  <1> USE DEF IInv
  <1>1. slot' \in [Slot -> Cells]
    BY CellsHave DEF PowerLoss, DeviceTypeOK
  <1>2. DeviceTypeOK' /\ HeaderJob' /\ RunsInApp'
    BY <1>1, RestartOK DEF PowerLoss
  <1>3. LinkTypeOK' /\ HostTypeOK'
    BY DEF PowerLoss, link, hostVars, LinkTypeOK, HostTypeOK
  <1> QED
    BY <1>2, <1>3

LEMMA BootloaderOK ==
    ASSUME IInv, Bootloader, UNCHANGED hostVars
    PROVE  IInv'
  <1> USE DEF IInv
  <1>1. Installed \in Images \cup {NoImage}
    BY DEF Installed
  <1>2. BlankHeader \in Headers
    BY DEF BlankHeader, Headers
  <1>3. app' \in Images \cup {NoImage} /\ header' \in Headers
    <2>1. CASE header.status = "valid"
      BY <1>1, <1>2, <2>1 DEF Bootloader
    <2>2. CASE header.status # "valid"
      BY <2>2 DEF Bootloader, DeviceTypeOK
    <2> QED
      BY <2>1, <2>2
  <1>4. DeviceTypeOK'
    BY <1>3 DEF Bootloader, DeviceTypeOK, download, work
  <1>5. HeaderJob' /\ RunsInApp'
    BY DEF Bootloader, HeaderJob, RunsInApp, work
  <1>6. LinkTypeOK' /\ HostTypeOK'
    BY DEF Bootloader, link, hostVars, LinkTypeOK, HostTypeOK
  <1> QED
    BY <1>4, <1>5, <1>6

(* What the tool and the line do leaves the device as it is. *)
LEMMA DeviceStays ==
    ASSUME IInv, UNCHANGED deviceVars
    PROVE  DeviceTypeOK' /\ HeaderJob' /\ RunsInApp'
  <1>1. DeviceTypeOK'
    BY DEF IInv, DeviceTypeOK, deviceVars, flashes, download, work
  <1>2. SumMatches' = SumMatches
    BY DEF SumMatches, Holds, deviceVars, flashes, download
  <1>3. HeaderJob' /\ RunsInApp'
    BY <1>2 DEF IInv, HeaderJob, RunsInApp, deviceVars, flashes, download, work
  <1> QED
    BY <1>1, <1>3

(* The line loses a packet, with or without noise. *)
LEMMA SpoilOK ==
    ASSUME IInv, SpoilPacket \/ SpoilReply, UNCHANGED deviceVars, UNCHANGED hostVars
    PROVE  IInv'
  <1> USE DEF IInv
  <1>1. LinkTypeOK'
    <2>1. CASE SpoilPacket
      BY <2>1, SeqHeadTail DEF SpoilPacket, LinkTypeOK
    <2>2. CASE SpoilReply
      BY <2>2, SeqHeadTail DEF SpoilReply, LinkTypeOK
    <2> QED
      BY <2>1, <2>2
  <1>2. DeviceTypeOK' /\ HeaderJob' /\ RunsInApp'
    BY DeviceStays
  <1>3. HostTypeOK'
    BY DEF hostVars, HostTypeOK
  <1> QED
    BY <1>1, <1>2, <1>3

(* A reply asks for a chunk, or ends the download. *)
LEMMA HandleReplyOK ==
    ASSUME IInv, HandleReply, UNCHANGED deviceVars
    PROVE  IInv'
  <1> USE DEF IInv
  <1> DEFINE no == IF Head(toHost) = DEFAULT_PACKET_NO THEN 0 ELSE Head(toHost)
  <1>1. PICK read \in 1 .. Len(toHost) : toHost' = SubSeq(toHost, read + 1, Len(toHost))
    BY DEF HandleReply
  <1>2. toHost \in Seq(Replies) /\ toHost # <<>>
    BY <1>1 DEF LinkTypeOK
  <1>3. LinkTypeOK'
    BY <1>1, <1>2, SeqDrop DEF HandleReply, LinkTypeOK
  <1>4. no \in Nat \cup {FINISH_PACKET_NO}
    BY <1>2, SeqHeadTail DEF Replies
  <1>5. HostTypeOK'
    <2>1. /\ receiver' \in {receiver, Doing("success"), Seeking(no), Doing("crashed")}
          /\ receiver' = Seeking(no) => no # FINISH_PACKET_NO
      BY DEF HandleReply, Seeking, Doing
    <2>2. receiver' \in [does : {"idle", "seek", "send", "success", "failed", "crashed"},
                         packetNo : Nat, data : Cells]
      BY <1>4, <2>1, CellsHave DEF HostTypeOK, Doing, Seeking
    <2>3. downloadingFirmware' \in BOOLEAN
      BY Zenon DEF HandleReply, HostTypeOK
    <2> QED
      BY <2>2, <2>3 DEF HandleReply, HostTypeOK
  <1>6. DeviceTypeOK' /\ HeaderJob' /\ RunsInApp'
    BY DeviceStays
  <1> QED
    BY <1>3, <1>5, <1>6

LEMMA ReadChunkOK ==
    ASSUME IInv, ReadChunk, UNCHANGED deviceVars
    PROVE  IInv'
  <1> USE DEF IInv
  <1>1. LinkTypeOK'
    BY DEF ReadChunk, link, LinkTypeOK
  <1>2. HostTypeOK'
    <2>1. receiver' \in [does : {"idle", "seek", "send", "success", "failed", "crashed"},
                         packetNo : Nat, data : Cells]
      BY CellsHave DEF ReadChunk, HostTypeOK, Doing, Sending
    <2>2. downloadingFirmware' \in BOOLEAN
      BY Zenon DEF ReadChunk, HostTypeOK
    <2> QED
      BY <2>1, <2>2 DEF ReadChunk, HostTypeOK
  <1>3. DeviceTypeOK' /\ HeaderJob' /\ RunsInApp'
    BY DeviceStays
  <1> QED
    BY <1>1, <1>2, <1>3

LEMMA SendChunkOK ==
    ASSUME IInv, SendChunk, UNCHANGED deviceVars
    PROVE  IInv'
  <1> USE DEF IInv
  <1>1. DataPacket(receiver.packetNo, receiver.data) \in Packets
    BY DEF HostTypeOK, DataPacket, Packets
  <1>2. LinkTypeOK'
    BY <1>1, SeqAppend DEF SendChunk, LinkTypeOK
  <1>3. HostTypeOK'
    BY CellsHave DEF SendChunk, HostTypeOK, Idle, Doing
  <1>4. DeviceTypeOK' /\ HeaderJob' /\ RunsInApp'
    BY DeviceStays
  <1> QED
    BY <1>2, <1>3, <1>4

LEMMA CloseMessageBoxOK ==
    ASSUME IInv, CloseMessageBox, UNCHANGED deviceVars
    PROVE  IInv'
  <1> USE DEF IInv
  <1>1. LinkTypeOK'
    BY DEF CloseMessageBox, link, LinkTypeOK
  <1>2. HostTypeOK'
    BY CellsHave DEF CloseMessageBox, HostTypeOK, Idle, Doing
  <1>3. DeviceTypeOK' /\ HeaderJob' /\ RunsInApp'
    BY DeviceStays
  <1> QED
    BY <1>1, <1>2, <1>3

(* What a press leaves behind: the tool's thread as it was, with an answer *)
(* of its own still to come, or out of the download; one packet more, or   *)
(* two where the chunk of the thread is gone.                              *)
LEMMA PressSends ==
    ASSUME IInv, NEW f \in Images, Press(f)
    PROVE  /\ \/ receiver' \in {receiver, Doing("failed"), Idle}
              \/ receiver.does = "seek" /\ receiver' = Sending(receiver.packetNo, FileChunk(f, 0))
           /\ downloadingFirmware' \in BOOLEAN
           /\ \/ toDevice' = toDevice
              \/ \E p \in Packets :
                    \/ toDevice' = Append(toDevice, p)
                    \/ /\ toDevice' = toDevice \o <<p, p>>
                       /\ receiver.does \in {"seek", "send"} /\ receiver' = Idle
  <1>1. StartPacket(f) \in Packets
    BY CellsHave, ChunksAssumption DEF StartPacket, Packets
  <1>2. DataPacket(receiver.packetNo, Garbage) \in Packets
    BY CellsHave DEF IInv, HostTypeOK, DataPacket, Packets
  <1>3. MixedStarts(f) \subseteq Packets
    BY CellsHave, ChunksAssumption DEF MixedStarts, Packets
  <1>4. CASE PressAlone(f)
    BY <1>1, <1>4 DEF PressAlone
  <1>5. CASE PressInRead(f)
    BY <1>1, <1>5 DEF PressInRead
  <1>6. CASE PressInSend(f)
    BY <1>2, <1>3, <1>6 DEF PressInSend
  <1> QED
    BY <1>4, <1>5, <1>6 DEF Press

LEMMA PressOK ==
    ASSUME IInv, NEW f \in Images, Press(f), UNCHANGED deviceVars
    PROVE  IInv'
  <1> USE DEF IInv
  <1>1. toDevice' \in Seq(Packets)
    <2>1. \A p \in Packets : /\ Append(toDevice, p) \in Seq(Packets)
                             /\ toDevice \o <<p, p>> \in Seq(Packets)
      BY SeqAppend, SeqAppendTwo DEF LinkTypeOK
    <2> QED
      BY <2>1, PressSends DEF LinkTypeOK
  <1>2. LinkTypeOK'
    BY <1>1 DEF Press, LinkTypeOK
  <1>3. HostTypeOK'
    <2>1. receiver' \in [does : {"idle", "seek", "send", "success", "failed", "crashed"},
                         packetNo : Nat, data : Cells]
      BY CellsHave, PressSends DEF HostTypeOK, Idle, Doing, Sending
    <2>2. presses' \in 0 .. MaxPresses
      BY MaxPressesAssumption DEF Press, HostTypeOK
    <2>3. downloadingFirmware' \in BOOLEAN
      BY PressSends, Zenon
    <2> QED
      BY <2>1, <2>2, <2>3 DEF Press, HostTypeOK
  <1>4. DeviceTypeOK' /\ HeaderJob' /\ RunsInApp'
    BY DeviceStays
  <1> QED
    BY <1>2, <1>3, <1>4

(* Every step keeps the invariant. *)
LEMMA NextOK ==
    ASSUME IInv, [Next]_vars
    PROVE  IInv'
  <1>1. CASE Device
    <2>1. UNCHANGED hostVars
      BY <1>1 DEF Device
    <2>2. CASE MissPacket
      BY <2>1, <2>2, SpoilOK DEF MissPacket
    <2> QED
      BY <1>1, <2>1, <2>2, ReceiveStartOK, ReceiveDataOK, StoreAndVerifyOK, AskForMoreOK,
         CompleteOK, WriteHeaderOK, ResetMcuTaskOK, BootloaderOK
      DEF Device, DeviceNext, DeviceStep
  <1>2. CASE Host
    BY <1>2, HandleReplyOK, ReadChunkOK, SendChunkOK, CloseMessageBoxOK
    DEF Host, HostNext, HostStep
  <1>3. CASE User
    BY <1>3, PressOK DEF User
  <1>4. CASE Fault
    BY <1>4, PowerLossOK, SpoilOK DEF Fault
  <1>5. CASE UNCHANGED vars
    <2>1. UNCHANGED deviceVars /\ UNCHANGED hostVars /\ UNCHANGED link
      BY <1>5 DEF vars
    <2>2. LinkTypeOK' /\ HostTypeOK'
      BY <2>1 DEF IInv, LinkTypeOK, HostTypeOK, link, hostVars
    <2> QED
      BY <2>1, <2>2, DeviceStays DEF IInv
  <1> QED
    BY <1>1, <1>2, <1>3, <1>4, <1>5 DEF Next

(* Every value is one the code can hold: packets and replies on the line,  *)
(* offsets, the words of the header, what the tool's threads work on.      *)
THEOREM TypeCorrect == Spec => []TypeOK
  <1> DEFINE Typed == IInv /\ rushed \in BOOLEAN
  <1>1. Init => Typed
    BY InitOK DEF Init
  <1>2. Typed /\ [Next]_vars => Typed'
    <2> SUFFICES ASSUME Typed, [Next]_vars PROVE rushed' \in BOOLEAN
      BY NextOK
    <2> QED
      BY DEF Next, Device, Host, User, Fault, vars
  <1>3. Typed => TypeOK
    BY DEF IInv, TypeOK
  <1> QED
    BY <1>1, <1>2, <1>3, PTL DEF Spec

-----------------------------------------------------------------------------
(* The offer *)

(* Only the last operation of an offer's job makes the status word valid,  *)
(* and by then size and sum are those of the image summed.                 *)
LEMMA OfferStep ==
    ASSUME IInv, [Next]_vars, header.status # "valid", header'.status = "valid"
    PROVE  /\ WriteHeader
           /\ job = <<"valid">>
  <1>1. header' # header
    OBVIOUS
  <1>2. CASE WriteHeader
    <2>1. header' = HeaderAfter(Head(job)) /\ job \in StartRests \cup OfferRests \cup RetryRests
      BY <1>2 DEF WriteHeader, IInv, HeaderJob
    <2>2. header \in Headers
      BY DEF IInv, DeviceTypeOK
    <2>3. Head(job) \in {"erase", "size", "crc", "receiving"} => header'.status # "valid"
      BY <2>1, <2>2 DEF HeaderAfter, BlankHeader, Headers
    <2>4. job # <<"valid">> => Head(job) \in {"erase", "size", "crc", "receiving"}
      BY <2>1 DEF StartRests, OfferRests, RetryRests, StartJob, OfferJob, RetryJob
    <2> QED
      BY <1>2, <2>3, <2>4
  <1>3. CASE Bootloader
    BY <1>3 DEF Bootloader, BlankHeader
  <1>4. CASE DeviceNext /\ ~WriteHeader /\ ~Bootloader
    BY <1>1, <1>4 DEF DeviceNext, DeviceStep, ReceiveStart, ReceiveData, Receives,
      StoreAndVerify, AskForMore, Complete, ResetMcuTask, MissPacket, flashes, deviceVars
  <1>5. CASE ~DeviceNext
    BY <1>1, <1>5 DEF Next, Device, Host, User, Fault, PowerLoss, vars, deviceVars, flashes
  <1> QED
    BY <1>2, <1>3, <1>4, <1>5

(* Whatever was downloaded, stored, torn or spoiled before, the header     *)
(* comes to offer an image only while the slot holds it.                   *)
THEOREM OffersOnlyWholeImages == Spec => OffersOnlyWhole
  <1>1. ASSUME IInv, [Next]_vars, header.status # "valid", header'.status = "valid",
               header'.size > 0
        PROVE  Holds(header'.crc, header'.size)
    <2>1. WriteHeader /\ job = <<"valid">>
      BY <1>1, OfferStep
    <2>2. /\ SumMatches
          /\ header.size = firmwareFileSize
          /\ header.crc = firmwareFileCrc
      BY <1>1, <2>1 DEF IInv, HeaderJob, WriteHeader, OfferRests
    <2>3. header' = [header EXCEPT !.status = "valid"]
      BY <2>1 DEF WriteHeader, HeaderAfter
    <2>4. header'.size = firmwareFileSize /\ header'.crc = firmwareFileCrc
      BY <1>1, <2>2, <2>3 DEF IInv, DeviceTypeOK, Headers
    <2> QED
      BY <1>1, <2>2, <2>4 DEF SumMatches, IInv, DeviceTypeOK
  <1>2. IInv /\ [Next]_vars =>
          [(/\ header.status # "valid"
            /\ header'.status = "valid"
            /\ header'.size > 0) => Holds(header'.crc, header'.size)]_vars
    BY <1>1
  <1>3. IInv /\ [Next]_vars => IInv'
    BY NextOK
  <1> QED
    BY InitOK, <1>2, <1>3, PTL DEF Spec, OffersOnlyWhole

-----------------------------------------------------------------------------
(* Stop and wait *)

(* How the lengths change. *)
LEMMA SeqLengths ==
    ASSUME NEW S, NEW q \in Seq(S)
    PROVE  /\ Len(q) \in Nat
           /\ \A x \in S : Len(Append(q, x)) = Len(q) + 1
           /\ q # <<>> => Len(Tail(q)) = Len(q) - 1
           /\ \A n \in 1 .. Len(q) : Len(SubSeq(q, n + 1, Len(q))) = Len(q) - n
  BY SMT

(* Every step that begins something under way ends something else, but for *)
(* a press, which is counted.                                              *)
LEMMA OnePacketStep ==
    ASSUME IInv, OnePacketPerPress, [Next]_vars
    PROVE  OnePacketPerPress'
  <1> DEFINE atDevice == IF handler = "idle" THEN 0 ELSE 1
             atHost   == IF receiver.does \in {"seek", "send"} THEN 1 ELSE 0
  <1>1. /\ toDevice \in Seq(Packets) /\ Len(toDevice) \in Nat
        /\ toHost \in Seq(Replies) /\ Len(toHost) \in Nat
        /\ presses \in Nat
        /\ packetNo \in Replies
        /\ Nat \subseteq Replies
    BY SeqLengths, MaxPressesAssumption
    DEF IInv, LinkTypeOK, HostTypeOK, DeviceTypeOK, Replies
  <1>2. toDevice # <<>> => Len(Tail(toDevice)) = Len(toDevice) - 1
    BY <1>1, SeqLengths
  <1>3. toHost # <<>> => Len(Tail(toHost)) = Len(toHost) - 1
    BY <1>1, SeqLengths
  <1>4. \A no \in Replies : Len(Append(toHost, no)) = Len(toHost) + 1
    BY <1>1, SeqLengths
  <1>5. \A packet : Len(Append(toDevice, packet)) = Len(toDevice) + 1
    BY <1>1
  <1>6. \A n \in 1 .. Len(toHost) : Len(SubSeq(toHost, n + 1, Len(toHost))) = Len(toHost) - n
    BY <1>1, SeqLengths
  <1> USE DEF OnePacketPerPress
  <1>7. CASE Device
    <2> USE DEF Device, hostVars
    <2>1. CASE ReceiveStart \/ ReceiveData
      BY <1>1, <1>2, <1>7, <2>1 DEF ReceiveStart, ReceiveData, Receives
    <2>2. CASE StoreAndVerify \/ Complete
      BY <1>1, <1>7, <2>2 DEF StoreAndVerify, Complete, link
    <2>3. CASE AskForMore
      <3>1. Len(toHost') = Len(toHost) + 1
        BY <1>1, <1>4, <2>3 DEF AskForMore, Reply, IInv, DeviceTypeOK
      <3> QED
        BY <1>1, <1>7, <2>3, <3>1 DEF AskForMore, Reply
    <2>4. CASE WriteHeader
      <3>1. CASE Tail(job) = <<>>
        <4>1. Len(toHost') = Len(toHost) + 1
          BY <1>1, <1>4, <2>4, <3>1 DEF WriteHeader, Reply
        <4> QED
          BY <1>1, <1>7, <2>4, <3>1, <4>1 DEF WriteHeader, Reply
      <3>2. CASE Tail(job) # <<>>
        BY <1>1, <1>7, <2>4, <3>2 DEF WriteHeader
      <3> QED
        BY <3>1, <3>2
    <2>5. CASE ResetMcuTask
      BY <1>1, <1>7, <2>5 DEF ResetMcuTask, Restart, link
    <2>6. CASE Bootloader
      BY <1>1, <1>7, <2>6 DEF Bootloader, link, work
    <2>7. CASE MissPacket
      BY <1>1, <1>2, <1>7, <2>7 DEF MissPacket, SpoilPacket, deviceVars, work
    <2> QED
      BY <1>7, <2>1, <2>2, <2>3, <2>4, <2>5, <2>6, <2>7 DEF DeviceNext, DeviceStep
  <1>8. CASE Host
    <2> USE DEF Host, deviceVars, work
    <2>1. CASE HandleReply
      <3>1. Len(toHost') <= Len(toHost) - 1 /\ Len(toHost') \in Nat
        BY <1>1, <1>6, <2>1 DEF HandleReply
      <3>2. receiver.does = "idle" /\ UNCHANGED <<toDevice, presses, handler>>
        BY <1>8, <2>1 DEF HandleReply
      <3> QED
        BY <1>1, <3>1, <3>2
    <2>2. CASE ReadChunk
      BY <1>1, <1>8, <2>2 DEF ReadChunk, link
    <2>3. CASE SendChunk
      BY <1>1, <1>5, <1>8, <2>3 DEF SendChunk, Idle, Doing
    <2>4. CASE CloseMessageBox
      BY <1>1, <1>8, <2>4 DEF CloseMessageBox, Idle, Doing, link
    <2> QED
      BY <1>8, <2>1, <2>2, <2>3, <2>4 DEF HostNext, HostStep
  <1>9. CASE User
    <2>1. PICK f \in Images : Press(f)
      BY <1>9 DEF User
    <2>2. atHost' <= atHost /\ atHost \in Nat /\ atHost' \in Nat
      BY <2>1, PressSends DEF Idle, Doing, Sending
    <2> DEFINE OneMore == /\ Len(toDevice') + atHost' <= Len(toDevice) + atHost + 1
                          /\ Len(toDevice') \in Nat
    <2>3. OneMore
      <3>1. CASE toDevice' = toDevice
        BY <1>1, <2>2, <3>1
      <3>2. ASSUME NEW p \in Packets, toDevice' = Append(toDevice, p)
            PROVE  OneMore
        BY <1>1, <1>5, <2>2, <3>2
      <3>3. ASSUME NEW p \in Packets, toDevice' = toDevice \o <<p, p>>,
                   receiver.does \in {"seek", "send"}, receiver' = Idle
            PROVE  OneMore
        <4>1. Len(toDevice') = Len(toDevice) + 2
          BY <1>1, <3>3, SeqAppendTwo
        <4>2. atHost = 1 /\ atHost' = 0
          BY <3>3 DEF Idle, Doing
        <4> QED
          BY <1>1, <4>1, <4>2
      <3> QED
        BY <2>1, <3>1, <3>2, <3>3, PressSends
    <2>4. presses' = presses + 1 /\ UNCHANGED <<toHost, handler>>
      BY <1>9, <2>1 DEF User, Press, deviceVars, work
    <2> QED
      BY <1>1, <2>2, <2>3, <2>4
  <1>10. CASE Fault
    <2>1. CASE PowerLoss /\ UNCHANGED hostVars
      BY <1>1, <2>1 DEF PowerLoss, Restart, link, hostVars
    <2>2. CASE SpoilPacket /\ UNCHANGED <<deviceVars, hostVars>>
      BY <1>1, <1>2, <2>2 DEF SpoilPacket, deviceVars, work, hostVars
    <2>3. CASE SpoilReply /\ UNCHANGED <<deviceVars, hostVars>>
      BY <1>1, <1>3, <2>3 DEF SpoilReply, deviceVars, work, hostVars
    <2> QED
      BY <1>10, <2>1, <2>2, <2>3 DEF Fault
  <1>11. CASE UNCHANGED vars
    BY <1>11 DEF vars, link, deviceVars, work, hostVars
  <1> QED
    BY <1>7, <1>8, <1>9, <1>10, <1>11 DEF Next

(* What is under way between tool and device, packets, replies and those   *)
(* being worked on, never exceeds the downloads begun, whatever fails.     *)
THEOREM StopAndWait == Spec => []OnePacketPerPress
  <1>1. Init => OnePacketPerPress
    BY MaxPressesAssumption
    DEF Init, LinkInit, DeviceInit, HostInit, OnePacketPerPress, Idle, Doing
  <1>2. IInv /\ OnePacketPerPress /\ [Next]_vars => IInv' /\ OnePacketPerPress'
    BY NextOK, OnePacketStep
  <1> QED
    BY InitOK, <1>1, <1>2, PTL DEF Spec

-----------------------------------------------------------------------------
(* The receiving thread works on a reply. *)
AtTool == receiver.does \in {"seek", "send"}

(* One packet, one reply, the handler or the receiving thread. *)
Alone ==
    /\ Len(toDevice) <= 1 /\ Len(toHost) <= 1
    /\ toDevice # <<>> => toHost = <<>> /\ handler = "idle" /\ ~AtTool
    /\ toHost # <<>> => handler = "idle" /\ ~AtTool
    /\ handler # "idle" => ~AtTool

(* No download is under way, but for the reply that ends one. *)
Closed ==
    /\ toDevice = <<>> /\ toHost \in {<<>>, <<FINISH_PACKET_NO>>}
    /\ handler = "idle" /\ ~AtTool

Offering == handler = "header" /\ job \in OfferRests

(* An offer closes the download, the reset that follows comes before the   *)
(* next one, and the slot stays as it is until then.                       *)
Ends ==
    /\ Offering => packetNo = FINISH_PACKET_NO /\ resetDue
    /\ handler = "header" /\ ~Offering => packetNo # FINISH_PACKET_NO
    /\ resetDue /\ ~Offering => Closed
    /\ header.status = "valid" => Closed /\ (resetDue \/ mode # "app") /\ OfferIsWhole

OfferInv == ~rushed => Alone /\ Ends

-----------------------------------------------------------------------------
(* Sequences of at most one message *)

LEMMA OneTail ==
    ASSUME NEW S, NEW q \in Seq(S), Len(q) <= 1, q # <<>>
    PROVE  Tail(q) = <<>> /\ q = <<Head(q)>>
  <1>1. Len(q) = 1
    <2>1. Len(q) \in Nat /\ (Len(q) = 0 => q = <<>>)
      BY SMT
    <2> QED
      BY <2>1, SMT
  <1>2. q = <<q[1]>>
    BY <1>1, SMT
  <1> QED
    BY <1>2, SMT

LEMMA OneRest ==
    ASSUME NEW S, NEW q \in Seq(S), Len(q) <= 1, NEW n \in 1 .. Len(q)
    PROVE  SubSeq(q, n + 1, Len(q)) = <<>>
  <1>1. Len(q) = 1 /\ n = 1
    BY SMT
  <1>2. Len(SubSeq(q, n + 1, Len(q))) = 0
    BY <1>1, SMT
  <1> QED
    BY <1>1, <1>2, SMT

LEMMA OneAppended ==
    ASSUME NEW x
    PROVE  /\ Append(<<>>, x) = <<x>>
           /\ <<x>> # <<>>
           /\ Len(<<x>>) = 1
           /\ Head(<<x>>) = x
           /\ Len(<<>>) = 0
  BY SMT

-----------------------------------------------------------------------------
(* The user waits *)

LEMMA StaysPatient ==
    ASSUME [Next]_vars, ~rushed'
    PROVE  ~rushed /\ (User => Settled)
  <1>1. ASSUME User PROVE ~rushed /\ Settled
    <2>1. rushed' = (rushed \/ ~Settled)
      BY <1>1 DEF User
    <2> QED
      BY <2>1, Zenon
  <1>2. ASSUME ~User PROVE rushed' = rushed
    BY <1>2 DEF Next, Device, Host, Fault, vars
  <1> QED
    BY <1>1, <1>2

(* A user who only presses when all has settled never was hasty. *)
LEMMA NeverRushed ==
    ASSUME ~Hasty
    PROVE  Spec => [](~rushed)
  <1>1. Init => ~rushed
    BY DEF Init
  <1>2. ~rushed /\ [Next]_vars => ~rushed'
    <2>1. User => rushed' = (rushed \/ ~Settled) /\ Settled
      BY DEF User
    <2>2. [Next]_vars => User \/ rushed' = rushed
      BY DEF Next, Device, Host, Fault, vars
    <2> QED
      BY <2>1, <2>2, Zenon
  <1> QED
    BY <1>1, <1>2, PTL DEF Spec

-----------------------------------------------------------------------------
(* One thing at a time, and the end of a download *)

(* The last operation of a job, and those before it. *)
LEMMA RestsOfJobs ==
    ASSUME job \in StartRests \cup OfferRests \cup RetryRests
    PROVE  /\ job # <<>>
           /\ Tail(job) # <<>> => (Tail(job) \in OfferRests <=> job \in OfferRests)
           /\ Tail(job) = <<>> /\ job \in OfferRests => job = <<"valid">>
  <1>1. CASE job \in StartRests
    <2>1. Tail(job) \in StartRests \cup {<<>>} /\ job # <<>> /\ job \notin OfferRests
      <3>1. CASE job = StartJob
        BY <3>1 DEF StartRests, StartJob, OfferRests, OfferJob
      <3>2. CASE job = <<"size", "receiving", "crc">>
        BY <3>2 DEF StartRests, OfferRests, OfferJob
      <3>3. CASE job = <<"receiving", "crc">>
        BY <3>3 DEF StartRests, OfferRests, OfferJob
      <3>4. CASE job = <<"crc">>
        BY <3>4 DEF StartRests, OfferRests, OfferJob
      <3> QED
        BY <1>1, <3>1, <3>2, <3>3, <3>4 DEF StartRests
    <2>2. \A r \in StartRests : r \notin OfferRests
      BY DEF StartRests, OfferRests, StartJob, OfferJob
    <2> QED
      BY <2>1, <2>2
  <1>2. CASE job \in RetryRests
    <2>1. Tail(job) \in RetryRests \cup {<<>>} /\ job # <<>> /\ job \notin OfferRests
      <3>1. CASE job = RetryJob
        BY <3>1 DEF RetryRests, RetryJob, OfferRests, OfferJob
      <3>2. CASE job = <<"size", "receiving">>
        BY <3>2 DEF RetryRests, OfferRests, OfferJob
      <3>3. CASE job = <<"receiving">>
        BY <3>3 DEF RetryRests, OfferRests, OfferJob
      <3> QED
        BY <1>2, <3>1, <3>2, <3>3 DEF RetryRests
    <2>2. \A r \in RetryRests : r \notin OfferRests
      BY DEF RetryRests, OfferRests, RetryJob, OfferJob
    <2> QED
      BY <2>1, <2>2
  <1>3. CASE job \in OfferRests
    <2>1. CASE job = OfferJob
      BY <2>1 DEF OfferRests, OfferJob
    <2>2. CASE job = <<"size", "crc", "valid">>
      BY <2>2 DEF OfferRests, OfferJob
    <2>3. CASE job = <<"crc", "valid">>
      BY <2>3 DEF OfferRests, OfferJob
    <2>4. CASE job = <<"valid">>
      BY <2>4 DEF OfferRests, OfferJob
    <2> QED
      BY <1>3, <2>1, <2>2, <2>3, <2>4 DEF OfferRests
  <1> QED
    BY <1>1, <1>2, <1>3

(* What the types say of the two channels. *)
LEMMA Channels ==
    ASSUME IInv, Alone
    PROVE  /\ toDevice # <<>> => Tail(toDevice) = <<>> /\ toDevice = <<Packet>>
           /\ toHost # <<>> => Tail(toHost) = <<>> /\ toHost = <<Head(toHost)>>
           /\ \A n \in 1 .. Len(toHost) : SubSeq(toHost, n + 1, Len(toHost)) = <<>>
  BY OneTail, OneRest DEF IInv, LinkTypeOK, Alone, Packet

(* The bootloader takes the offer back. *)
LEMMA AfterBootloader ==
    ASSUME Bootloader
    PROVE  header'.status # "valid" /\ UNCHANGED <<slot, handler, job, packetNo, resetDue, link>>
  BY DEF Bootloader, BlankHeader, work

(* Only an offer that is written, or a power failure, has to do with what  *)
(* is on offer: otherwise it stays.                                        *)
LEMMA OfferStays ==
    ASSUME OfferIsWhole, UNCHANGED <<header, slot>>
    PROVE  OfferIsWhole'
  BY DEF OfferIsWhole, Holds

LEMMA OfferInit == Init => OfferInv
  BY OneAppended DEF Init, LinkInit, DeviceInit, HostInit, OfferInv, Alone, Ends, Offering,
    AtTool, Idle, Doing, BlankHeader

(* The handler of a packet. *)
LEMMA OfferHandler ==
    ASSUME IInv, Alone, Ends, [Next]_vars, DeviceStep, UNCHANGED hostVars
    PROVE  Alone' /\ Ends'
  <1> USE DEF hostVars, AtTool
  <1>1. CASE ReceiveStart \/ ReceiveData
    <2>1. toDevice # <<>> /\ toDevice' = <<>> /\ toHost' = <<>> /\ handler = "idle" /\ ~AtTool
      BY <1>1, Channels DEF ReceiveStart, ReceiveData, Receives, Alone
    <2>2. ~resetDue /\ header.status # "valid"
      BY <2>1 DEF Ends, Closed, Offering
    <2>3. /\ UNCHANGED <<header, resetDue>> /\ handler' # "idle"
          /\ handler' = "header" => job' = StartJob /\ packetNo' = DEFAULT_PACKET_NO
      BY <1>1 DEF ReceiveStart, ReceiveData, Receives, flashes
    <2>4. StartJob \notin OfferRests
      BY DEF StartJob, OfferRests, OfferJob
    <2>5. Alone'
      BY <2>1, OneAppended DEF Alone
    <2>6. Ends'
      BY <2>2, <2>3, <2>4 DEF Ends, Offering, DEFAULT_PACKET_NO, FINISH_PACKET_NO
    <2> QED
      BY <2>5, <2>6
  <1>2. CASE StoreAndVerify
    <2>1. handler = "store" /\ handler' = "total" /\ UNCHANGED <<header, resetDue, link>>
      BY <1>2 DEF StoreAndVerify
    <2>2. ~resetDue /\ header.status # "valid"
      BY <2>1 DEF Ends, Closed, Offering
    <2> QED
      BY <2>1, <2>2 DEF Alone, Ends, Offering, link
  <1>3. CASE AskForMore
    <2>1. /\ handler = "total" /\ handler' = "idle"
          /\ UNCHANGED <<header, resetDue, toDevice>>
          /\ toHost' = Append(toHost, firmwareFileOffSet)
      BY <1>3 DEF AskForMore, Reply, flashes
    <2>2. ~resetDue /\ header.status # "valid"
      BY <2>1 DEF Ends, Closed, Offering
    <2>3. toHost' = <<firmwareFileOffSet>> /\ toDevice' = <<>> /\ ~AtTool
      BY <2>1, OneAppended DEF Alone
    <2> QED
      BY <2>1, <2>2, <2>3, OneAppended DEF Alone, Ends, Offering
  <1>4. CASE Complete
    <2>1. /\ handler = "total" /\ handler' = "header" /\ UNCHANGED <<header, link>>
          /\ \/ packetNo' = FINISH_PACKET_NO /\ job' = OfferJob /\ resetDue'
             \/ packetNo' = 0 /\ job' = RetryJob /\ UNCHANGED resetDue
      BY <1>4 DEF Complete
    <2>2. ~resetDue /\ header.status # "valid"
      BY <2>1 DEF Ends, Closed, Offering
    <2>3. OfferJob \in OfferRests /\ RetryJob \notin OfferRests
      BY DEF OfferRests, OfferJob, RetryJob
    <2> QED
      BY <2>1, <2>2, <2>3 DEF Alone, Ends, Offering, link, FINISH_PACKET_NO
  <1>5. CASE WriteHeader
    <2>1. /\ handler = "header" /\ job' = Tail(job)
          /\ UNCHANGED <<slot, mode, download, packetNo, resetDue, toDevice>>
      BY <1>5 DEF WriteHeader
    <2>2. header.status # "valid" /\ (resetDue => Offering)
      BY <2>1 DEF Ends, Closed
    <2>3. /\ job \in StartRests \cup OfferRests \cup RetryRests
          /\ Offering => SumMatches
          /\ job = <<"valid">> => header.size = firmwareFileSize /\ header.crc = firmwareFileCrc
      BY <2>1 DEF IInv, HeaderJob, Offering
    <2>4. header'.status = "valid" => job = <<"valid">>
      BY <2>2, OfferStep
    <2>5. CASE Tail(job) # <<>>
      <3>1. handler' = "header" /\ toHost' = toHost /\ header'.status # "valid"
        BY <1>5, <2>1, <2>4, <2>5 DEF WriteHeader
      <3>2. Offering' <=> Offering
        BY <2>1, <2>3, <2>5, <3>1, RestsOfJobs DEF Offering
      <3> QED
        BY <2>1, <2>2, <3>1, <3>2 DEF Alone, Ends
    <2>6. CASE Tail(job) = <<>>
      <3>1. handler' = "idle" /\ toHost' = <<packetNo>> /\ toDevice' = <<>> /\ ~AtTool
        BY <1>5, <2>1, <2>6, OneAppended DEF WriteHeader, Reply, Alone
      <3>2. Alone' /\ ~Offering'
        BY <3>1, OneAppended DEF Alone, Offering
      <3>3. Offering => Closed' /\ resetDue'
        BY <2>1, <3>1 DEF Ends, Closed
      <3>4. header'.status = "valid" => Offering /\ OfferIsWhole'
        <4> SUFFICES ASSUME header'.status = "valid" PROVE Offering /\ OfferIsWhole'
          OBVIOUS
        <4>1. Offering
          BY <2>1, <2>4 DEF Offering, OfferRests
        <4>2. header' = [header EXCEPT !.status = "valid"]
          BY <1>5, <2>4 DEF WriteHeader, HeaderAfter
        <4>3. header'.size = firmwareFileSize /\ header'.crc = firmwareFileCrc
          BY <2>3, <2>4, <4>2 DEF IInv, DeviceTypeOK, Headers
        <4> QED
          BY <2>1, <2>3, <4>1, <4>3 DEF OfferIsWhole, SumMatches, Holds, IInv, DeviceTypeOK
      <3> QED
        BY <2>1, <2>2, <3>1, <3>2, <3>3, <3>4 DEF Ends
    <2> QED
      BY <2>5, <2>6
  <1> QED
    BY <1>1, <1>2, <1>3, <1>4, <1>5 DEF DeviceStep

(* Restarts of the device, and the bootloader. *)
LEMMA OfferRestarts ==
    ASSUME IInv, Alone, Ends, ResetMcuTask \/ PowerLoss \/ Bootloader, UNCHANGED hostVars
    PROVE  Alone' /\ Ends'
  <1> USE DEF hostVars, AtTool
  <1>1. CASE ResetMcuTask \/ PowerLoss
    <2>1. /\ handler' = "idle" /\ ~resetDue' /\ mode' = "off"
          /\ UNCHANGED <<header, link>>
      BY <1>1 DEF ResetMcuTask, PowerLoss, Restart, flashes
    <2>2. Alone' /\ ~Offering'
      BY <2>1 DEF Alone, Offering, link
    <2>3. handler = "idle" => slot' = slot
      <3>1. handler = "idle" => Touched = {}
        BY DEF Touched
      <3>2. slot \in [Slot -> Cells]
        BY DEF IInv, DeviceTypeOK
      <3> QED
        BY <1>1, <3>1, <3>2 DEF ResetMcuTask, PowerLoss, flashes
    <2>4. header'.status = "valid" => Closed' /\ mode' # "app" /\ OfferIsWhole'
      BY <2>1, <2>3, OfferStays DEF Ends, Closed, link
    <2> QED
      BY <2>1, <2>2, <2>4 DEF Ends
  <1>2. CASE Bootloader
    BY <1>2, AfterBootloader DEF Alone, Ends, Closed, Offering, link
  <1> QED
    BY <1>1, <1>2

(* The line loses a message. *)
LEMMA OfferLoses ==
    ASSUME IInv, Alone, Ends, SpoilPacket \/ SpoilReply, UNCHANGED <<deviceVars, hostVars>>
    PROVE  Alone' /\ Ends'
  <1> USE DEF hostVars, deviceVars, work, flashes, AtTool
  <1>1. CASE SpoilPacket
    <2>1. toDevice # <<>> /\ toDevice' = <<>> /\ toHost' = toHost /\ handler = "idle" /\ ~AtTool
      BY <1>1, Channels DEF SpoilPacket, Alone
    <2>2. Alone'
      BY <2>1, OneAppended DEF Alone
    <2>3. ~resetDue /\ header.status # "valid"
      BY <2>1 DEF Ends, Closed, Offering
    <2> QED
      BY <2>1, <2>2, <2>3 DEF Ends, Offering
  <1>2. CASE SpoilReply
    <2>1. toHost # <<>> /\ toHost' = <<>> /\ toDevice' = toDevice
      BY <1>2, Channels DEF SpoilReply
    <2>2. Alone'
      BY <2>1, OneAppended DEF Alone
    <2>3. Closed => Closed'
      BY <2>1 DEF Closed
    <2> QED
      BY <2>1, <2>2, <2>3, OfferStays DEF Ends, Offering
  <1> QED
    BY <1>1, <1>2

(* The tool. *)
LEMMA OfferTool ==
    ASSUME IInv, Alone, Ends, HostNext, UNCHANGED deviceVars
    PROVE  Alone' /\ Ends'
  <1> USE DEF deviceVars, work, flashes
  <1>1. OfferIsWhole => OfferIsWhole'
    BY OfferStays
  <1>2. CASE HandleReply
    <2>1. /\ toHost # <<>> /\ toHost' = <<>> /\ toDevice' = toDevice
          /\ handler = "idle" /\ toDevice = <<>> /\ receiver.does = "idle"
      <3>1. PICK read \in 1 .. Len(toHost) : toHost' = SubSeq(toHost, read + 1, Len(toHost))
        BY <1>2 DEF HandleReply
      <3>2. toHost # <<>>
        BY <3>1, OneAppended
      <3> QED
        BY <1>2, <3>1, <3>2, Channels DEF HandleReply, Alone
    <2>2. Alone'
      BY <2>1, OneAppended DEF Alone
    <2>3. Closed => Closed'
      <3>1. ASSUME Closed PROVE Head(toHost) = FINISH_PACKET_NO
        BY <2>1, <3>1, OneAppended DEF Closed
      <3>2. ASSUME Closed PROVE ~AtTool'
        BY <1>2, <2>1, <3>1, <3>2
        DEF HandleReply, AtTool, Doing, FINISH_PACKET_NO, DEFAULT_PACKET_NO
      <3> QED
        BY <2>1, <3>2 DEF Closed
    <2> QED
      BY <1>1, <2>1, <2>2, <2>3 DEF Ends, Offering
  <1>3. CASE ReadChunk \/ SendChunk
    <2>1. AtTool /\ toDevice = <<>> /\ toHost = <<>> /\ handler = "idle"
      BY <1>3 DEF ReadChunk, SendChunk, AtTool, Alone
    <2>2. ~resetDue /\ header.status # "valid"
      BY <2>1 DEF Ends, Closed, Offering
    <2>3. \/ UNCHANGED link
          \/ /\ toHost' = <<>> /\ ~AtTool'
             /\ toDevice' = <<DataPacket(receiver.packetNo, receiver.data)>>
      BY <1>3, <2>1, OneAppended DEF ReadChunk, SendChunk, Idle, Doing, AtTool
    <2>4. CASE UNCHANGED link
      BY <2>1, <2>2, <2>4, OneAppended DEF Alone, Ends, Offering, link
    <2>5. CASE ~UNCHANGED link
      <3>1. Len(toDevice') = 1 /\ toDevice' # <<>> /\ toHost' = <<>> /\ ~AtTool' /\ handler' = "idle"
        BY <2>1, <2>3, <2>5, OneAppended
      <3> QED
        BY <2>1, <2>2, <3>1, OneAppended DEF Alone, Ends, Offering
    <2> QED
      BY <2>4, <2>5
  <1>4. CASE CloseMessageBox
    <2>1. ~AtTool' /\ UNCHANGED link
      BY <1>4 DEF CloseMessageBox, AtTool, Idle, Doing
    <2>2. Closed => Closed'
      BY <2>1 DEF Closed, link
    <2> QED
      BY <1>1, <2>1, <2>2 DEF Alone, Ends, Offering, link
  <1> QED
    BY <1>2, <1>3, <1>4 DEF HostNext, HostStep

(* A press begins the only thing under way. *)
LEMMA OfferPress ==
    ASSUME IInv, Alone, Ends, Settled, NEW f \in Images, Press(f), UNCHANGED deviceVars
    PROVE  /\ Alone' /\ Ends'
           /\ toDevice' = <<StartPacket(f)>> /\ toHost' = <<>> /\ receiver' = Idle /\ file' = f
           /\ handler = "idle"
  <1>1. /\ toDevice = <<>> /\ toHost = <<>> /\ handler = "idle" /\ ~resetDue
        /\ mode = "app" /\ receiver = Idle
    BY DEF Settled, link
  <1>2. /\ toDevice' = <<StartPacket(f)>> /\ toHost' = <<>> /\ receiver' = Idle /\ file' = f
    BY <1>1, OneAppended DEF Press, PressAlone, PressInRead, PressInSend, Idle, Doing
  <1>3. header.status # "valid"
    BY <1>1 DEF Ends
  <1>4. Alone'
    BY <1>1, <1>2, OneAppended DEF Alone, AtTool, Idle, Doing, deviceVars, work
  <1>5. Ends'
    BY <1>1, <1>3 DEF Ends, Offering, deviceVars, work, flashes
  <1> QED
    BY <1>1, <1>2, <1>4, <1>5

LEMMA OfferNext ==
    ASSUME IInv, OfferInv, [Next]_vars
    PROVE  OfferInv'
  <1> SUFFICES ASSUME ~rushed' PROVE Alone' /\ Ends'
    BY DEF OfferInv
  <1>1. Alone /\ Ends /\ (User => Settled)
    BY StaysPatient DEF OfferInv
  <1>2. CASE Device
    <2>1. CASE DeviceStep
      BY <1>1, <1>2, <2>1, OfferHandler DEF Device
    <2>2. CASE ResetMcuTask \/ Bootloader
      BY <1>1, <1>2, <2>2, OfferRestarts DEF Device
    <2>3. CASE MissPacket
      BY <1>1, <1>2, <2>3, OfferLoses DEF Device, MissPacket
    <2> QED
      BY <1>2, <2>1, <2>2, <2>3 DEF Device, DeviceNext
  <1>3. CASE Host
    BY <1>1, <1>3, OfferTool DEF Host
  <1>4. CASE User
    BY <1>1, <1>4, OfferPress DEF User
  <1>5. CASE Fault
    BY <1>1, <1>5, OfferRestarts, OfferLoses DEF Fault
  <1>6. CASE UNCHANGED vars
    <2>1. UNCHANGED <<link, deviceVars, receiver>>
      BY <1>6 DEF vars, hostVars
    <2> QED
      BY <1>1, <2>1, OfferStays DEF Alone, Ends, Closed, Offering, AtTool, link, deviceVars,
        work, flashes
  <1> QED
    BY <1>2, <1>3, <1>4, <1>5, <1>6 DEF Next

(* For a user who waits an image on offer stays whole in the slot, through  *)
(* power failures, misread flash and a noisy line (CfgProcessData closes a *)
(* download before it offers its image).                                   *)
THEOREM OffersStayWhole == Spec => []PatientOfferIsWhole
  <1>1. IInv /\ OfferInv /\ [Next]_vars => IInv' /\ OfferInv'
    BY NextOK, OfferNext
  <1>2. OfferInv => PatientOfferIsWhole
    BY DEF OfferInv, Ends, PatientOfferIsWhole, OfferIsWhole
  <1> QED
    BY InitOK, OfferInit, <1>1, <1>2, PTL DEF Spec

-----------------------------------------------------------------------------
(* Tool and device work on one file *)

(* The device is in a download of the tool's file, or in none. *)
InSession ==
    firmwareFileSize > 0 => firmwareFileCrc = file /\ firmwareFileSize = Chunks[file]

OfFile(no, cell) == no \in Nat /\ cell = FileChunk(file, no)

(* What is under way belongs to that file: a start packet, or a chunk of   *)
(* it on its way to its place.                                             *)
SameFile ==
    /\ toDevice # <<>> =>
         \/ Packet = StartPacket(file)
         \/ OfFile(Packet.packetNo, Packet.data) /\ InSession
    /\ toHost # <<>> \/ handler # "idle" \/ AtTool => InSession
    /\ receiver.does = "send" => OfFile(receiver.packetNo, receiver.data)
    /\ handler = "store" => OfFile(firmwareFileOffSet, data)

SessionInv == ~rushed => SameFile

(* What leaves the tool and the download as they are leaves the session.   *)
LEMMA SessionStays ==
    ASSUME UNCHANGED <<file, download>>
    PROVE  /\ InSession' <=> InSession
           /\ \A no, cell : OfFile(no, cell)' <=> OfFile(no, cell)
  BY DEF InSession, OfFile, FileChunk, download

LEMMA SameFileStays ==
    ASSUME SameFile, UNCHANGED <<link, file, download, handler, data>>,
           receiver' \in {receiver, Idle}
    PROVE  SameFile'
  <1>1. Packet' = Packet /\ UNCHANGED <<toDevice, toHost, handler, data, firmwareFileOffSet>>
    BY DEF Packet, link, download
  <1>2. /\ InSession' <=> InSession
        /\ \A no, cell : OfFile(no, cell)' <=> OfFile(no, cell)
    BY SessionStays
  <1>3. AtTool' => AtTool
    BY DEF AtTool, Idle, Doing
  <1>4. receiver'.does = "send" => receiver' = receiver
    BY DEF Idle, Doing
  <1>5. StartPacket(file)' = StartPacket(file)
    BY DEF StartPacket
  <1>6. (toDevice # <<>> =>
           \/ Packet = StartPacket(file)
           \/ OfFile(Packet.packetNo, Packet.data) /\ InSession)'
    BY <1>1, <1>2, <1>5 DEF SameFile, OfFile, FileChunk
  <1>7. (receiver.does = "send" => OfFile(receiver.packetNo, receiver.data))'
    BY <1>4 DEF SameFile, OfFile, FileChunk
  <1>8. (handler = "store" => OfFile(firmwareFileOffSet, data))'
    BY <1>1 DEF SameFile, OfFile, FileChunk
  <1> QED
    BY <1>1, <1>2, <1>3, <1>6, <1>7, <1>8 DEF SameFile

LEMMA SessionHandler ==
    ASSUME IInv, Alone, SameFile, DeviceStep, UNCHANGED hostVars
    PROVE  SameFile'
  <1> USE DEF hostVars
  <1>1. CASE ReceiveStart
    <2>1. /\ toDevice # <<>> /\ toDevice' = <<>> /\ handler' = "header" /\ ~AtTool
      BY <1>1, Channels DEF ReceiveStart, Receives, Alone
    <2>2. Packet = StartPacket(file)
      BY <1>1, <2>1 DEF ReceiveStart, SameFile, OfFile, DEFAULT_PACKET_NO
    <2>3. InSession'
      BY <1>1, <2>2 DEF ReceiveStart, InSession, StartPacket
    <2> QED
      BY <2>1, <2>3 DEF SameFile, AtTool
  <1>2. CASE ReceiveData
    <2>1. /\ toDevice # <<>> /\ toDevice' = <<>> /\ ~AtTool /\ UNCHANGED <<file, download>>
      BY <1>2, Channels DEF ReceiveData, Receives, Alone
    <2>2. OfFile(Packet.packetNo, Packet.data) /\ InSession
      BY <1>2, <2>1 DEF ReceiveData, SameFile, StartPacket
    <2>3. handler' = "store" => OfFile(firmwareFileOffSet, data)'
      BY <1>2, <2>1, <2>2 DEF ReceiveData, OfFile, download
    <2>4. InSession'
      BY <2>1, <2>2, SessionStays
    <2> QED
      BY <2>1, <2>3, <2>4 DEF SameFile, AtTool
  <1>3. CASE StoreAndVerify \/ AskForMore \/ Complete \/ WriteHeader
    <2>1. /\ handler # "idle" /\ toDevice' = toDevice
          /\ UNCHANGED <<firmwareFileSize, firmwareFileCrc>> /\ handler' # "store"
      BY <1>3 DEF StoreAndVerify, AskForMore, Complete, WriteHeader, Reply, link, download
    <2>2. InSession' /\ toDevice = <<>> /\ ~AtTool
      BY <2>1 DEF SameFile, InSession, Alone
    <2> QED
      BY <2>1, <2>2 DEF SameFile, AtTool
  <1> QED
    BY <1>1, <1>2, <1>3 DEF DeviceStep

LEMMA SessionRestarts ==
    ASSUME SameFile, ResetMcuTask \/ PowerLoss \/ Bootloader, UNCHANGED hostVars
    PROVE  SameFile'
  <1>1. CASE ResetMcuTask \/ PowerLoss
    <2>1. firmwareFileSize' = 0 /\ handler' = "idle" /\ UNCHANGED <<link, hostVars>>
      BY <1>1 DEF ResetMcuTask, PowerLoss, Restart
    <2>2. InSession'
      BY <2>1 DEF InSession
    <2> QED
      BY <2>1, <2>2 DEF SameFile, OfFile, Packet, FileChunk, StartPacket, AtTool, link, hostVars
  <1>2. CASE Bootloader
    BY <1>2, SameFileStays DEF Bootloader, hostVars, work
  <1> QED
    BY <1>1, <1>2

LEMMA SessionLoses ==
    ASSUME IInv, Alone, SameFile, SpoilPacket \/ SpoilReply, UNCHANGED <<deviceVars, hostVars>>
    PROVE  SameFile'
  <1>1. toDevice' = <<>> \/ toDevice' = toDevice
    BY Channels DEF SpoilPacket, SpoilReply
  <1>2. toHost' # <<>> => toHost # <<>>
    BY Channels DEF SpoilPacket, SpoilReply
  <1>3. /\ InSession' <=> InSession
        /\ \A no, cell : OfFile(no, cell)' <=> OfFile(no, cell)
    BY SessionStays DEF hostVars, deviceVars
  <1> QED
    BY <1>1, <1>2, <1>3
    DEF SameFile, Packet, StartPacket, AtTool, OfFile, FileChunk, hostVars, deviceVars, work, download

LEMMA SessionTool ==
    ASSUME IInv, Alone, SameFile, HostNext, UNCHANGED deviceVars
    PROVE  SameFile'
  <1> USE DEF deviceVars, work
  <1>1. file' = file /\ UNCHANGED download
    BY DEF HostNext, HostStep, HandleReply, ReadChunk, SendChunk, CloseMessageBox
  <1>2. /\ InSession' <=> InSession
        /\ \A no, cell : OfFile(no, cell)' <=> OfFile(no, cell)
    BY <1>1, SessionStays
  <1>3. CASE HandleReply
    <2>1. toHost # <<>>
      <3>1. PICK read \in 1 .. Len(toHost) : toHost' = SubSeq(toHost, read + 1, Len(toHost))
        BY <1>3 DEF HandleReply
      <3> QED
        BY <3>1, OneAppended
    <2>2. InSession /\ handler = "idle" /\ toDevice' = <<>>
      BY <1>3, <2>1 DEF SameFile, Alone, HandleReply
    <2>3. receiver'.does # "send"
      BY <1>3 DEF HandleReply, Doing, Seeking
    <2> QED
      BY <1>2, <2>2, <2>3 DEF SameFile
  <1>4. CASE ReadChunk
    <2>1. AtTool /\ toDevice' = <<>> /\ handler = "idle" /\ receiver.packetNo \in Nat
      BY <1>4 DEF ReadChunk, AtTool, Alone, link, IInv, HostTypeOK
    <2>2. receiver'.does = "send" => OfFile(receiver.packetNo, receiver.data)'
      BY <1>1, <1>4, <2>1 DEF ReadChunk, OfFile, Sending, Doing, FileChunk
    <2> QED
      BY <1>2, <2>1, <2>2 DEF SameFile
  <1>5. CASE SendChunk
    <2>1. /\ AtTool /\ toDevice = <<>> /\ toHost = <<>> /\ handler = "idle" /\ InSession
          /\ OfFile(receiver.packetNo, receiver.data)
      BY <1>5 DEF SendChunk, AtTool, Alone, SameFile
    <2>2. Packet' = DataPacket(receiver.packetNo, receiver.data)
      BY <1>5, <2>1, OneAppended DEF SendChunk, Packet
    <2>3. OfFile(Packet.packetNo, Packet.data)'
      BY <1>1, <2>1, <2>2 DEF OfFile, FileChunk, DataPacket
    <2>4. toHost' = <<>> /\ ~AtTool' /\ receiver'.does # "send"
      BY <1>5, <2>1 DEF SendChunk, AtTool, Idle, Doing
    <2> QED
      BY <1>2, <2>1, <2>3, <2>4 DEF SameFile
  <1>6. CASE CloseMessageBox
    BY <1>1, <1>6, SameFileStays DEF CloseMessageBox
  <1> QED
    BY <1>3, <1>4, <1>5, <1>6 DEF HostNext, HostStep

LEMMA SessionNext ==
    ASSUME IInv, OfferInv, SessionInv, [Next]_vars
    PROVE  SessionInv'
  <1> SUFFICES ASSUME ~rushed' PROVE SameFile'
    BY DEF SessionInv
  <1>1. Alone /\ Ends /\ SameFile /\ (User => Settled)
    BY StaysPatient DEF OfferInv, SessionInv
  <1>2. CASE Device
    <2>1. CASE DeviceStep
      BY <1>1, <1>2, <2>1, SessionHandler DEF Device
    <2>2. CASE ResetMcuTask \/ Bootloader
      BY <1>1, <1>2, <2>2, SessionRestarts DEF Device
    <2>3. CASE MissPacket
      BY <1>1, <1>2, <2>3, SessionLoses DEF Device, MissPacket
    <2> QED
      BY <1>2, <2>1, <2>2, <2>3 DEF Device, DeviceNext
  <1>3. CASE Host
    BY <1>1, <1>3, SessionTool DEF Host
  <1>4. CASE User
    <2>1. PICK f \in Images : Press(f) /\ UNCHANGED deviceVars
      BY <1>4 DEF User
    <2>2. /\ toDevice' = <<StartPacket(f)>> /\ toHost' = <<>> /\ receiver' = Idle /\ file' = f
          /\ handler' = "idle"
      BY <1>1, <1>4, <2>1, OfferPress DEF deviceVars, work
    <2>3. Packet' = StartPacket(file')
      BY <2>2, OneAppended DEF Packet
    <2> QED
      BY <2>2, <2>3 DEF SameFile, AtTool, Idle, Doing, StartPacket
  <1>5. CASE Fault
    BY <1>1, <1>5, SessionRestarts, SessionLoses DEF Fault
  <1>6. CASE UNCHANGED vars
    BY <1>1, <1>6, SameFileStays DEF vars, deviceVars, hostVars, work
  <1> QED
    BY <1>2, <1>3, <1>4, <1>5, <1>6 DEF Next

LEMMA SessionInit == Init => SessionInv
  BY DEF Init, LinkInit, DeviceInit, HostInit, SessionInv, SameFile, AtTool, Idle, Doing

-----------------------------------------------------------------------------
(* What is counted is stored *)

(* The chunks of the sector under way that are still to come. *)
Ahead == {c \in Slot : /\ c >= firmwareFileOffSet
                       /\ c \div SectorChunks = firmwareFileOffSet \div SectorChunks
                       /\ firmwareFileOffSet % SectorChunks # 0}

(* The chunks of the image before the offset are in the slot, those ahead  *)
(* of it were erased with the first one of their sector.                   *)
Stored ==
    firmwareFileSize > 0 =>
        /\ firmwareFileCrc \in Images /\ firmwareFileSize = Chunks[firmwareFileCrc]
        /\ \A k \in Slot : k < firmwareFileOffSet => slot[k] = <<firmwareFileCrc, k>>
        /\ \A c \in Ahead : slot[c] = Blank
        /\ firmwareFileOffSet <= firmwareFileSize
        /\ handler # "total" => firmwareFileOffSet < firmwareFileSize

StoredInv == ~rushed => Stored

(* Chunks and sectors. *)
LEMMA SectorOfNext ==
    ASSUME NEW k \in Nat, NEW c \in Nat, NEW s \in Nat \ {0},
           c >= k + 1, c \div s = (k + 1) \div s, (k + 1) % s # 0
    PROVE  c \div s = k \div s
  <1>1. /\ k \div s \in Nat /\ k % s \in 0 .. s - 1 /\ k = s * (k \div s) + (k % s)
        /\ (k + 1) \div s \in Nat /\ (k + 1) % s \in 0 .. s - 1
        /\ k + 1 = s * ((k + 1) \div s) + ((k + 1) % s)
    BY SMT
  <1>2. (k + 1) \div s = k \div s
    BY <1>1, SMT
  <1> QED
    BY <1>2

LEMMA SectorOfEarlier ==
    ASSUME NEW k \in Nat, NEW c \in Nat, NEW s \in Nat \ {0}, c < k, k % s = 0
    PROVE  c \div s # k \div s
  <1>1. /\ k \div s \in Nat /\ k = s * (k \div s)
        /\ c \div s \in Nat /\ c % s \in 0 .. s - 1 /\ c = s * (c \div s) + (c % s)
    BY SMT
  <1> QED
    BY <1>1, SMT

LEMMA StartOfSector ==
    ASSUME NEW s \in Nat \ {0} PROVE 0 % s = 0
  BY SMT

(* SST25_Write puts the next chunk in its place and keeps those before it. *)
LEMMA NextChunk ==
    ASSUME slot \in [Slot -> Cells], NEW k \in Slot, NEW cell, cell # Blank,
           k % SectorChunks # 0 => slot[k] = Blank
    PROVE  /\ Written(k, cell)[k] = cell
           /\ \A c \in Slot : c < k => Written(k, cell)[c] = slot[c]
           /\ \A c \in Slot : c > k =>
                Written(k, cell)[c] = IF k % SectorChunks = 0 /\ c \in Sector(k) THEN Blank
                                                                              ELSE slot[c]
  <1> DEFINE before == IF k % SectorChunks = 0
                       THEN [c \in Slot |-> IF c \in Sector(k) THEN Blank ELSE slot[c]]
                       ELSE slot
  <1>1. before \in [Slot -> Cells]
    BY CellsHave
  <1>2. before[k] = Blank
    BY DEF Sector
  <1>3. Written(k, cell) = [before EXCEPT ![k] = cell]
    BY <1>1, <1>2 DEF Written
  <1>4. \A c \in Slot : c < k => before[c] = slot[c]
    <2>1. ASSUME NEW c \in Slot, c < k, k % SectorChunks = 0 PROVE c \notin Sector(k)
      <3>1. k \in Nat /\ c \in Nat /\ SectorChunks \in Nat \ {0}
        BY SlotAssumption DEF Slot
      <3>2. c \div SectorChunks # k \div SectorChunks
        BY <2>1, <3>1, SectorOfEarlier
      <3> QED
        BY <3>2 DEF Sector
    <2> QED
      BY <2>1
  <1> QED
    BY <1>1, <1>3, <1>4, SlotAssumption DEF Slot

(* A chunk is stored, and nothing sends the download back. *)
LEMMA StoredStore ==
    ASSUME ~ReadFaults, IInv, Stored, SameFile, StoreAndVerify, firmwareFileSize > 0,
           UNCHANGED hostVars
    PROVE  Stored'
  <1> DEFINE k == firmwareFileOffSet
             f == firmwareFileCrc
  <1>1. /\ handler = "store" /\ slot' = Written(k, data) /\ handler' = "total"
        /\ UNCHANGED <<firmwareFileSize, firmwareFileCrc>>
    BY DEF StoreAndVerify
  <1>2. /\ f \in Images /\ firmwareFileSize = Chunks[f] /\ k \in Nat /\ k < Chunks[f]
        /\ slot \in [Slot -> Cells]
    BY <1>1 DEF Stored, IInv, DeviceTypeOK
  <1>3. Chunks[f] \in Nat /\ Chunks[f] <= SlotChunks /\ SectorChunks \in Nat \ {0}
        /\ SlotChunks \in Nat
    BY <1>2, ChunksAssumption, SlotAssumption
  <1>4. k \in Slot
    BY <1>2, <1>3 DEF Slot
  <1>5. data = <<f, k>> /\ data # Blank
    <2>1. InSession /\ data = FileChunk(file, k)
      BY <1>1 DEF SameFile, OfFile
    <2>2. f = file
      BY <2>1 DEF InSession
    <2> QED
      BY <1>2, <2>1, <2>2, ImagesAssumption DEF FileChunk, Blank
  <1>6. k % SectorChunks # 0 => slot[k] = Blank
    BY <1>2, <1>4, SlotAssumption DEF Stored, Ahead, Slot
  <1>7. /\ slot'[k] = <<f, k>>
        /\ \A c \in Slot : c < k => slot'[c] = slot[c]
        /\ \A c \in Slot : c > k =>
             slot'[c] = IF k % SectorChunks = 0 /\ c \in Sector(k) THEN Blank ELSE slot[c]
    BY <1>1, <1>2, <1>4, <1>5, <1>6, NextChunk
  <1>8. firmwareFileOffSet' = k + 1
    <2>1. PICK misread \in {ReadFaults, FALSE} :
            firmwareFileOffSet' =
              IF ~misread /\ (k \in Slot => slot'[k] = data) THEN k + 1 ELSE firmwareFileOffSetOld
      BY DEF StoreAndVerify
    <2>2. ~misread
      BY <2>1, Zenon
    <2>3. k \in Slot => slot'[k] = data
      BY <1>5, <1>7
    <2> QED
      BY <2>1, <2>2, <2>3, Zenon
  <1>9. \A c \in Slot : c < k + 1 => slot'[c] = <<f, c>>
    BY <1>2, <1>7 DEF Stored, Slot
  <1>10. ASSUME NEW c \in Ahead' PROVE slot'[c] = Blank
    <2>1. /\ c \in Slot /\ c \in Nat /\ c >= k + 1
          /\ c \div SectorChunks = (k + 1) \div SectorChunks
          /\ (k + 1) % SectorChunks # 0
      BY <1>8, <1>10, <1>3 DEF Ahead, Slot
    <2>2. c \div SectorChunks = k \div SectorChunks
      BY <1>2, <1>3, <2>1, SectorOfNext
    <2>3. CASE k % SectorChunks = 0
      BY <1>2, <1>7, <2>1, <2>2, <2>3 DEF Sector
    <2>4. CASE k % SectorChunks # 0
      <3>1. c \in Ahead
        BY <1>2, <2>1, <2>2, <2>4 DEF Ahead
      <3> QED
        BY <1>2, <1>7, <2>1, <2>4, <3>1 DEF Stored
    <2> QED
      BY <2>3, <2>4
  <1> QED
    BY <1>1, <1>2, <1>3, <1>8, <1>9, <1>10 DEF Stored

(* At offset zero nothing is counted, and no sector is under way. *)
LEMMA StoredFromZero ==
    ASSUME firmwareFileOffSet' = 0,
           firmwareFileSize' > 0 =>
             /\ firmwareFileCrc' \in Images
             /\ firmwareFileSize' = Chunks[firmwareFileCrc']
    PROVE  Stored'
  <1>1. \A k \in Slot : ~(k < firmwareFileOffSet')
    BY SlotAssumption DEF Slot
  <1>2. Ahead' = {}
    BY StartOfSector, SlotAssumption DEF Ahead
  <1>3. \A f \in Images : Chunks[f] \in Nat
    BY ChunksAssumption
  <1> QED
    BY <1>1, <1>2, <1>3 DEF Stored

LEMMA StoredStays ==
    ASSUME Stored, UNCHANGED <<slot, firmwareFileSize, firmwareFileCrc, firmwareFileOffSet>>,
           handler = "total" => handler' = "total" \/ firmwareFileOffSet < firmwareFileSize
    PROVE  Stored'
  <1>1. Ahead' = Ahead
    BY DEF Ahead
  <1> QED
    BY <1>1 DEF Stored

LEMMA StoredNext ==
    ASSUME ~ReadFaults, IInv, OfferInv, SessionInv, StoredInv, [Next]_vars
    PROVE  StoredInv'
  <1> SUFFICES ASSUME ~rushed' PROVE Stored'
    BY DEF StoredInv
  <1>1. Alone /\ Ends /\ SameFile /\ Stored
    BY StaysPatient DEF OfferInv, SessionInv, StoredInv
  <1>2. CASE Device
    <2>1. UNCHANGED hostVars
      BY <1>2 DEF Device
    <2>2. CASE ReceiveStart
      <3>1. toDevice # <<>> /\ Packet = StartPacket(file)
        BY <1>1, <2>2 DEF ReceiveStart, Receives, SameFile, OfFile, DEFAULT_PACKET_NO
      <3>2. /\ firmwareFileOffSet' = 0
            /\ firmwareFileSize' = Chunks[file] /\ firmwareFileCrc' = file
        BY <2>2, <3>1 DEF ReceiveStart, StartPacket
      <3> QED
        BY <3>2, StoredFromZero DEF IInv, HostTypeOK
    <2>3. CASE StoreAndVerify
      <3>1. CASE firmwareFileSize > 0
        BY <1>1, <2>1, <2>3, <3>1, StoredStore
      <3>2. CASE ~(firmwareFileSize > 0)
        BY <2>3, <3>2 DEF StoreAndVerify, Stored
      <3> QED
        BY <3>1, <3>2
    <2>4. CASE Complete
      BY <1>1, <2>4, StoredFromZero DEF Complete, Stored
    <2>5. CASE ReceiveData \/ AskForMore \/ WriteHeader
      BY <1>1, <2>5, StoredStays
      DEF ReceiveData, Receives, AskForMore, WriteHeader, flashes, download
    <2>6. CASE ResetMcuTask
      BY <2>6 DEF ResetMcuTask, Restart, Stored
    <2>7. CASE Bootloader \/ MissPacket
      BY <1>1, <2>7, StoredStays
      DEF Bootloader, MissPacket, deviceVars, flashes, download, work
    <2> QED
      BY <1>2, <2>2, <2>3, <2>4, <2>5, <2>6, <2>7 DEF Device, DeviceNext, DeviceStep
  <1>3. CASE Host \/ User \/ UNCHANGED vars
    BY <1>1, <1>3, StoredStays DEF Host, User, vars, deviceVars, flashes, download, work
  <1>4. CASE Fault
    <2>1. CASE PowerLoss
      BY <2>1 DEF PowerLoss, Restart, Stored
    <2>2. CASE UNCHANGED deviceVars
      BY <1>1, <2>2, StoredStays DEF deviceVars, flashes, download, work
    <2> QED
      BY <1>4, <2>1, <2>2 DEF Fault
  <1> QED
    BY <1>2, <1>3, <1>4 DEF Next

(* If flash is read as it was written, the chunks the device has counted   *)
(* are stored, those of the image the start packet named, also after power *)
(* failures and with packets lost (the handler of opcode 0x12).            *)
THEOREM StoresWhatItCounts ==
    ASSUME ~Hasty, ~ReadFaults
    PROVE  Spec => []OnlyStoredIsCounted
  <1> DEFINE Inv == IInv /\ OfferInv /\ SessionInv /\ StoredInv
  <1>1. Init => Inv
    BY InitOK, OfferInit, SessionInit DEF Init, DeviceInit, StoredInv, Stored
  <1>2. Inv /\ [Next]_vars => Inv'
    BY NextOK, OfferNext, SessionNext, StoredNext
  <1>3. Inv /\ ~rushed => OnlyStoredIsCounted
    BY DEF StoredInv, Stored, OnlyStoredIsCounted
  <1> QED
    BY <1>1, <1>2, <1>3, NeverRushed, PTL DEF Spec

-----------------------------------------------------------------------------
(* What becomes of the offer *)

(* The device has had a start packet since its last restart. *)
Open == firmwareFileSize > 0

(* The tool's file is on offer, or installed and nothing is on offer. *)
HasFile == IF header.status = "valid" THEN Holds(file, header.size) ELSE app = file

(* Without power failures, whatever belongs to a download finds it open;   *)
(* the reply that ends it says that the device has the file.               *)
Boots ==
    /\ app \in Images /\ mode # "dead"
    /\ toDevice # <<>> /\ Packet.packetNo # DEFAULT_PACKET_NO => Open
    /\ toHost # <<>> /\ Head(toHost) # FINISH_PACKET_NO => Open
    /\ handler # "idle" \/ AtTool => Open
    /\ header.status = "valid" => header.size > 0
    /\ toHost = <<FINISH_PACKET_NO>> => HasFile

BootsInv == ~rushed => Boots

(* The slot holds one image at most. *)
LEMMA HoldsOne ==
    ASSUME NEW f, NEW g, NEW n \in Nat, n > 0, Holds(f, n), Holds(g, n)
    PROVE  f = g
  <1>1. 0 \in 0 .. n - 1
    OBVIOUS
  <1>2. slot[0] = <<f, 0>> /\ slot[0] = <<g, 0>>
    BY <1>1 DEF Holds
  <1> QED
    BY <1>2

LEMMA BootsInit == Init => BootsInv
  BY DEF Init, LinkInit, DeviceInit, HostInit, BootsInv, Boots, AtTool, Idle, Doing, BlankHeader

LEMMA HasFileStays ==
    ASSUME HasFile, UNCHANGED <<header, app, file, slot>>
    PROVE  HasFile'
  BY DEF HasFile, Holds

LEMMA BootsHandler ==
    ASSUME IInv, Alone, Ends, SameFile, Boots, [Next]_vars, DeviceStep, UNCHANGED hostVars,
           Ends'
    PROVE  Boots'
  <1> USE DEF hostVars
  <1>1. AtTool' = AtTool /\ UNCHANGED <<app, mode, file>>
    BY DEF AtTool, DeviceStep, ReceiveStart, ReceiveData, Receives, StoreAndVerify, AskForMore,
      Complete, WriteHeader, flashes
  <1>2. CASE ReceiveStart
    <2>1. toDevice # <<>> /\ toDevice' = <<>> /\ toHost' = <<>> /\ header' = header
      BY <1>2, Channels DEF ReceiveStart, Receives, flashes, Alone
    <2>2. Packet = StartPacket(file)
      BY <1>2, <2>1 DEF ReceiveStart, SameFile, OfFile, DEFAULT_PACKET_NO
    <2>3. Open'
      <3>1. firmwareFileSize' = Chunks[file]
        BY <1>2, <2>2 DEF ReceiveStart, StartPacket
      <3> QED
        BY <3>1, ChunksAssumption DEF Open, IInv, HostTypeOK
    <2> QED
      BY <1>1, <2>1, <2>3, OneAppended DEF Boots
  <1>3. CASE ReceiveData
    <2>1. /\ toDevice # <<>> /\ toDevice' = <<>> /\ toHost' = <<>> /\ header' = header
          /\ UNCHANGED firmwareFileSize /\ Packet.packetNo # DEFAULT_PACKET_NO
      BY <1>3, Channels DEF ReceiveData, Receives, flashes, download, Alone
    <2> QED
      BY <1>1, <2>1, OneAppended DEF Boots, Open
  <1>4. CASE StoreAndVerify \/ Complete
    <2>1. /\ UNCHANGED <<header, link, firmwareFileSize>>
          /\ handler # "idle" /\ toDevice = <<>> /\ toHost = <<>>
      BY <1>4 DEF StoreAndVerify, Complete, Alone
    <2> QED
      BY <1>1, <2>1, OneAppended DEF Boots, Open, link
  <1>5. CASE AskForMore
    <2>1. /\ UNCHANGED <<header, toDevice, firmwareFileSize>>
          /\ handler # "idle" /\ toDevice = <<>>
          /\ toHost' = <<firmwareFileOffSet>>
      BY <1>5, OneAppended DEF AskForMore, Reply, flashes, download, Alone
    <2>2. toHost' # <<FINISH_PACKET_NO>>
      BY <2>1, OneAppended DEF FINISH_PACKET_NO, IInv, DeviceTypeOK
    <2> QED
      BY <1>1, <2>1, <2>2 DEF Boots, Open
  <1>6. CASE WriteHeader
    <2>1. /\ handler = "header" /\ Open /\ Open'
          /\ UNCHANGED <<slot, download, toDevice>> /\ toDevice = <<>> /\ toHost = <<>>
      BY <1>6 DEF WriteHeader, Boots, Alone, download, Open
    <2>2. header.status # "valid"
      BY <2>1 DEF Ends, Closed
    <2>3. ASSUME header'.status = "valid"
          PROVE  /\ header'.size = firmwareFileSize /\ header'.crc = firmwareFileCrc
                 /\ Holds(firmwareFileCrc, firmwareFileSize)
      <3>1. job = <<"valid">>
        BY <2>2, <2>3, OfferStep
      <3>2. header' = [header EXCEPT !.status = "valid"]
        BY <1>6, <3>1 DEF WriteHeader, HeaderAfter
      <3>3. SumMatches /\ header.size = firmwareFileSize /\ header.crc = firmwareFileCrc
        BY <2>1, <3>1 DEF IInv, HeaderJob, OfferRests
      <3> QED
        BY <2>1, <3>2, <3>3 DEF IInv, DeviceTypeOK, Headers, SumMatches, Open
    <2>4. ASSUME toHost' = <<FINISH_PACKET_NO>> PROVE HasFile'
      <3>1. Tail(job) = <<>> /\ toHost' = <<packetNo>>
        <4>1. toHost' # toHost
          BY <2>1, <2>4, OneAppended
        <4> QED
          BY <1>6, <2>1, <4>1, OneAppended DEF WriteHeader, Reply
      <3>2. packetNo = FINISH_PACKET_NO
        BY <2>4, <3>1, OneAppended
      <3>3. Offering
        BY <2>1, <3>2 DEF Ends
      <3>4. job = <<"valid">>
        BY <3>1, <3>3, RestsOfJobs DEF Offering
      <3>5. header'.status = "valid"
        BY <1>6, <3>4 DEF WriteHeader, HeaderAfter, IInv, DeviceTypeOK, Headers
      <3>6. firmwareFileCrc = file
        BY <2>1 DEF SameFile, InSession, Open
      <3> QED
        BY <1>1, <2>1, <2>3, <3>5, <3>6 DEF HasFile, Holds
    <2> QED
      BY <1>1, <2>1, <2>3, <2>4 DEF Boots, Open
  <1> QED
    BY <1>2, <1>3, <1>4, <1>5, <1>6 DEF DeviceStep

(* A reset comes when the download is closed. *)
LEMMA BootsReset ==
    ASSUME Alone, Ends, Boots, ResetMcuTask, UNCHANGED hostVars
    PROVE  Boots'
  <1>1. /\ mode' = "off" /\ handler' = "idle"
        /\ UNCHANGED <<slot, header, app, toDevice, toHost, file, receiver>>
    BY DEF ResetMcuTask, Restart, flashes, link, hostVars
  <1>2. Closed
    BY DEF ResetMcuTask, Ends, Offering
  <1>3. toHost # <<>> => Head(toHost) = FINISH_PACKET_NO
    BY <1>2, OneAppended DEF Closed
  <1>4. toHost = <<FINISH_PACKET_NO>> => HasFile'
    BY <1>1, HasFileStays DEF Boots
  <1> QED
    BY <1>1, <1>2, <1>3, <1>4 DEF Boots, Closed, AtTool

(* The bootloader finds what it needs. *)
LEMMA BootsBootloader ==
    ASSUME IInv, Ends, Boots, Bootloader, UNCHANGED hostVars
    PROVE  Boots'
  <1>1. UNCHANGED <<slot, toDevice, toHost, firmwareFileSize, handler, file, receiver>>
    BY DEF Bootloader, link, download, work, hostVars
  <1>2. CASE header.status = "valid"
    <2>1. Holds(header.crc, header.size) /\ header.size \in Nat /\ header.size > 0
          /\ header.crc \in Images
      BY <1>2 DEF Ends, Boots, OfferIsWhole, Holds, IInv, DeviceTypeOK, Headers
    <2>2. Installed \in Images /\ Holds(Installed, header.size)
      BY <2>1 DEF Installed
    <2>3. app' \in Images /\ mode' = "app" /\ header' = BlankHeader /\ app' = Installed
      BY <1>2, <2>2, ImagesAssumption DEF Bootloader
    <2>4. toHost = <<FINISH_PACKET_NO>> => app' = file
      BY <1>2, <2>1, <2>2, <2>3, HoldsOne DEF Boots, HasFile
    <2> QED
      BY <1>1, <2>3, <2>4 DEF Boots, BlankHeader, HasFile, Open, Packet, AtTool
  <1>3. CASE header.status # "valid"
    <2>1. app' = app /\ header' = header /\ mode' = "app"
      BY <1>3, ImagesAssumption DEF Bootloader, Boots
    <2> QED
      BY <1>1, <1>3, <2>1 DEF Boots, HasFile, Open, Packet, AtTool
  <1> QED
    BY <1>2, <1>3

LEMMA BootsLoses ==
    ASSUME IInv, Alone, Boots, SpoilPacket \/ SpoilReply, UNCHANGED <<deviceVars, hostVars>>
    PROVE  Boots'
  <1>1. UNCHANGED <<slot, header, app, mode, firmwareFileSize, handler, file, receiver>>
    BY DEF deviceVars, hostVars, flashes, download, work
  <1>2. HasFile => HasFile'
    BY <1>1, HasFileStays
  <1>3. \/ toDevice' = <<>> /\ toHost' = toHost
        \/ toHost' = <<>> /\ toDevice' = toDevice
    BY Channels DEF SpoilPacket, SpoilReply
  <1>4. toHost' = <<>> => toHost' # <<FINISH_PACKET_NO>>
    BY OneAppended
  <1> QED
    BY <1>1, <1>2, <1>3, <1>4 DEF Boots, Open, Packet, AtTool

LEMMA BootsTool ==
    ASSUME IInv, Alone, Boots, HostNext, UNCHANGED deviceVars
    PROVE  Boots'
  <1>1. UNCHANGED <<slot, header, app, mode, firmwareFileSize, handler, file>>
    BY DEF deviceVars, flashes, download, work, HostNext, HostStep, HandleReply, ReadChunk,
      SendChunk, CloseMessageBox
  <1>2. HasFile => HasFile'
    BY <1>1, HasFileStays
  <1>3. CASE HandleReply
    <2>1. toHost # <<>> /\ toHost' = <<>> /\ toDevice = <<>> /\ toDevice' = <<>> /\ handler = "idle"
      <3>1. PICK read \in 1 .. Len(toHost) : toHost' = SubSeq(toHost, read + 1, Len(toHost))
        BY <1>3 DEF HandleReply
      <3>2. toHost # <<>>
        BY <3>1, OneAppended
      <3> QED
        BY <1>3, <3>1, <3>2, Channels DEF HandleReply, Alone
    <2>2. AtTool' => Head(toHost) # FINISH_PACKET_NO
      BY <1>3 DEF HandleReply, AtTool, Doing, Seeking, DEFAULT_PACKET_NO, FINISH_PACKET_NO
    <2> QED
      BY <1>1, <2>1, <2>2, OneAppended DEF Boots, Open
  <1>4. CASE ReadChunk \/ SendChunk
    <2>1. AtTool /\ Open /\ toDevice = <<>> /\ toHost = <<>> /\ toHost' = <<>>
      BY <1>4 DEF ReadChunk, SendChunk, AtTool, Alone, Boots, link
    <2> QED
      BY <1>1, <2>1, OneAppended DEF Boots, Open
  <1>5. CASE CloseMessageBox
    <2>1. ~AtTool' /\ UNCHANGED <<toDevice, toHost>>
      BY <1>5 DEF CloseMessageBox, AtTool, Idle, Doing, link
    <2> QED
      BY <1>1, <1>2, <2>1 DEF Boots, Open, Packet
  <1> QED
    BY <1>3, <1>4, <1>5 DEF HostNext, HostStep

LEMMA BootsNext ==
    ASSUME ~PowerFails, IInv, OfferInv, SessionInv, BootsInv, [Next]_vars
    PROVE  BootsInv'
  <1> SUFFICES ASSUME ~rushed' PROVE Boots'
    BY DEF BootsInv
  <1>1. Alone /\ Ends /\ SameFile /\ Boots /\ (User => Settled)
    BY StaysPatient DEF OfferInv, SessionInv, BootsInv
  <1>2. CASE Device
    <2>1. CASE DeviceStep
      <3>1. Ends'
        BY OfferNext DEF OfferInv
      <3> QED
        BY <1>1, <1>2, <2>1, <3>1, BootsHandler DEF Device
    <2>2. CASE ResetMcuTask
      BY <1>1, <1>2, <2>2, BootsReset DEF Device
    <2>3. CASE Bootloader
      BY <1>1, <1>2, <2>3, BootsBootloader DEF Device
    <2>4. CASE MissPacket
      BY <1>1, <1>2, <2>4, BootsLoses DEF Device, MissPacket
    <2> QED
      BY <1>2, <2>1, <2>2, <2>3, <2>4 DEF Device, DeviceNext
  <1>3. CASE Host
    BY <1>1, <1>3, BootsTool DEF Host
  <1>4. CASE User
    <2>1. PICK f \in Images : Press(f) /\ UNCHANGED deviceVars
      BY <1>4 DEF User
    <2>2. /\ toDevice' = <<StartPacket(f)>> /\ toHost' = <<>> /\ receiver' = Idle
          /\ handler' = "idle"
      BY <1>1, <1>4, <2>1, OfferPress DEF deviceVars, work
    <2>3. Packet'.packetNo = DEFAULT_PACKET_NO
      BY <2>2, OneAppended DEF Packet, StartPacket
    <2>4. UNCHANGED <<header, app, mode>>
      BY <2>1 DEF deviceVars, flashes
    <2> QED
      BY <1>1, <2>2, <2>3, <2>4, OneAppended DEF Boots, AtTool, Idle, Doing
  <1>5. CASE Fault
    BY <1>1, <1>5, BootsLoses DEF Fault
  <1>6. CASE UNCHANGED vars
    <2>1. UNCHANGED <<slot, header, app, mode, firmwareFileSize, handler, file, receiver,
                      toDevice, toHost>>
      BY <1>6 DEF vars, deviceVars, hostVars, flashes, download, work, link
    <2> QED
      BY <1>1, <2>1, HasFileStays DEF Boots, Open, Packet, AtTool
  <1> QED
    BY <1>2, <1>3, <1>4, <1>5, <1>6 DEF Next

LEMMA BootsAlways ==
    ASSUME ~Hasty, ~PowerFails
    PROVE  Spec => [](IInv /\ OfferInv /\ BootsInv /\ ~rushed)
  <1> DEFINE Inv == IInv /\ OfferInv /\ SessionInv /\ BootsInv
  <1>1. Init => Inv
    BY InitOK, OfferInit, SessionInit, BootsInit
  <1>2. Inv /\ [Next]_vars => Inv'
    BY NextOK, OfferNext, SessionNext, BootsNext
  <1>3. Inv => IInv /\ OfferInv /\ BootsInv
    OBVIOUS
  <1> QED
    BY <1>1, <1>2, <1>3, NeverRushed, PTL DEF Spec

(* While the power holds the bootloader always has something whole to      *)
(* start, also with misread flash and packets lost in the middle of a      *)
(* download (ResetMcuTask finds the download closed).                      *)
THEOREM AlwaysSomethingToBoot ==
    ASSUME ~Hasty, ~PowerFails
    PROVE  Spec => []AlwaysBoots
  <1>1. BootsInv /\ ~rushed => AlwaysBoots
    BY DEF BootsInv, Boots, AlwaysBoots
  <1> QED
    BY <1>1, BootsAlways, PTL

(* And the tool reports success only when the device has the file of the   *)
(* last press, on offer or installed.                                      *)
THEOREM SuccessIsTrue ==
    ASSUME ~Hasty, ~PowerFails
    PROVE  Spec => SuccessMeansDelivered
  <1>1. ASSUME IInv, OfferInv, BootsInv, ~rushed, [Next]_vars,
               receiver'.does = "success", receiver.does # "success"
        PROVE  Delivered
    <2>1. HandleReply
      <3>1. CASE Host
        BY <1>1, <3>1 DEF Host, HostNext, HostStep, ReadChunk, SendChunk, CloseMessageBox, Doing,
          Sending, Idle
      <3>2. CASE User
        BY <1>1, <3>2, PressSends DEF User, Doing, Idle, Sending
      <3>3. CASE UNCHANGED hostVars
        BY <1>1, <3>3 DEF hostVars
      <3> QED
        BY <1>1, <3>1, <3>2, <3>3 DEF Next, Device, Fault, vars
    <2>2. Head(toHost) = FINISH_PACKET_NO /\ toHost # <<>>
      <3>1. PICK read \in 1 .. Len(toHost) : toHost' = SubSeq(toHost, read + 1, Len(toHost))
        BY <2>1 DEF HandleReply
      <3>2. toHost # <<>>
        BY <3>1, OneAppended
      <3> QED
        BY <1>1, <2>1, <3>2
        DEF HandleReply, Doing, Seeking, FINISH_PACKET_NO, DEFAULT_PACKET_NO
    <2>3. toHost = <<FINISH_PACKET_NO>>
      BY <1>1, <2>2, Channels DEF OfferInv
    <2> QED
      BY <1>1, <2>3 DEF BootsInv, Boots, HasFile, Delivered
  <1>2. IInv /\ OfferInv /\ BootsInv /\ ~rushed /\ [Next]_vars =>
          [receiver'.does = "success" /\ receiver.does # "success" => Delivered]_vars
    BY <1>1
  <1> QED
    BY <1>2, BootsAlways, PTL DEF Spec, SuccessMeansDelivered
-----------------------------------------------------------------------------
(* Each download is an update *)

(* What keeps the bootloader from an offer of nothing is the power. *)
UpdatesInv == IInv /\ OfferInv /\ SessionInv /\ (~PowerFails => BootsInv)

UpdateVars == <<file, OnOffer, app, rushed>>

(* An offer that is whole is of the file it names. *)
LEMMA OnOfferIs ==
    ASSUME header.size \in Nat, header.status = "valid" => OfferIsWhole
    PROVE  OnOffer = IF header.status = "valid" /\ header.size # 0 THEN header.crc ELSE NoImage
  BY DEF OnOffer, OfferIsWhole

LEMMA OnOfferStays ==
    ASSUME UNCHANGED header, header.status = "valid" => UNCHANGED slot
    PROVE  OnOffer' = OnOffer
  BY DEF OnOffer, Holds

(* The handler of a packet offers the file, with the last word it writes.  *)
LEMMA HandlerOffers ==
    ASSUME IInv, Ends, Ends', SameFile, [Next]_vars, DeviceStep, UNCHANGED <<hostVars, rushed>>
    PROVE  Promise!Offer \/ UNCHANGED UpdateVars
  <1>1. UNCHANGED <<file, app, rushed>>
    BY DEF hostVars, DeviceStep, ReceiveStart, ReceiveData, Receives, StoreAndVerify, AskForMore,
      Complete, WriteHeader, flashes
  <1>2. header.status # "valid"
    BY DEF Ends, Closed, DeviceStep, ReceiveStart, ReceiveData, Receives, StoreAndVerify,
      AskForMore, Complete, WriteHeader
  <1>3. OnOffer = NoImage
    BY <1>2 DEF OnOffer
  <1>4. CASE header'.status # "valid"
    <2>1. OnOffer' = NoImage
      BY <1>4 DEF OnOffer
    <2> QED
      BY <1>1, <1>3, <2>1 DEF UpdateVars
  <1>5. CASE header'.status = "valid"
    <2>1. WriteHeader /\ job = <<"valid">>
      BY <1>2, <1>5, OfferStep
    <2>2. /\ header.size = firmwareFileSize /\ header.crc = firmwareFileCrc
          /\ handler = "header" /\ header' = [header EXCEPT !.status = "valid"]
      BY <2>1 DEF WriteHeader, HeaderAfter, IInv, HeaderJob
    <2>3. header'.size = firmwareFileSize /\ header'.crc = firmwareFileCrc
      BY <2>2 DEF IInv, DeviceTypeOK, Headers
    <2>4. OnOffer' = IF header'.size # 0 THEN header'.crc ELSE NoImage
      <3>1. header'.size \in Nat
        BY <2>2, <2>3 DEF IInv, DeviceTypeOK
      <3>2. OfferIsWhole'
        BY <1>5 DEF Ends
      <3> QED
        BY <1>5, <3>1, <3>2 DEF OnOffer, OfferIsWhole
    <2>5. firmwareFileSize # 0 => firmwareFileCrc = file
      BY <2>2 DEF SameFile, InSession, IInv, DeviceTypeOK
    <2>6. CASE firmwareFileSize # 0
      <3>1. OnOffer' = file
        BY <2>3, <2>4, <2>5, <2>6
      <3> QED
        BY <1>1, <1>3, <3>1 DEF Promise!Offer
    <2>7. CASE firmwareFileSize = 0
      BY <1>1, <1>3, <2>3, <2>4, <2>7 DEF UpdateVars
    <2> QED
      BY <2>6, <2>7
  <1> QED
    BY <1>4, <1>5

(* The bootloader installs what is on offer; where power may fail, it may  *)
(* meet an offer of nothing.                                               *)
LEMMA BootloaderInstalls ==
    ASSUME IInv, Ends, ~PowerFails => Boots, Bootloader, UNCHANGED <<hostVars, rushed>>
    PROVE  Promise!Install \/ Promise!Lose \/ UNCHANGED UpdateVars
  <1>1. UNCHANGED <<file, rushed, slot>>
    BY DEF Bootloader, hostVars
  <1>2. CASE header.status # "valid"
    <2>1. UNCHANGED <<header, app>>
      BY <1>2 DEF Bootloader
    <2> QED
      BY <1>1, <1>2, <2>1, OnOfferStays DEF UpdateVars
  <1>3. CASE header.status = "valid"
    <2>1. app' = Installed /\ header' = BlankHeader
      BY <1>3 DEF Bootloader
    <2>2. OnOffer' = NoImage
      BY <2>1 DEF OnOffer, BlankHeader
    <2>3. header.size \in Nat /\ header.crc \in Images \cup {NoImage} /\ OfferIsWhole
      BY <1>3 DEF IInv, DeviceTypeOK, Headers, Ends
    <2>4. OnOffer = IF header.size # 0 THEN header.crc ELSE NoImage
      BY <1>3, <2>3, OnOfferIs
    <2>5. CASE header.size # 0
      <3>1. Holds(header.crc, header.size) /\ header.crc \in Images /\ header.size > 0
        BY <1>3, <2>3, <2>5 DEF OfferIsWhole, Holds
      <3>2. Holds(Installed, header.size)
        BY <3>1 DEF Installed
      <3>3. Installed = header.crc
        BY <2>3, <3>1, <3>2, HoldsOne
      <3> QED
        BY <1>1, <2>1, <2>2, <2>4, <2>5, <3>1, <3>3, ImagesAssumption DEF Promise!Install
    <2>6. CASE header.size = 0
      <3>1. PowerFails
        BY <1>3, <2>6 DEF Boots
      <3>2. \A f \in Images : ~Holds(f, 0)
        BY ChunksAssumption DEF Holds
      <3>3. app' = NoImage
        BY <2>1, <2>6, <3>2 DEF Installed
      <3> QED
        BY <1>1, <2>2, <2>4, <2>6, <3>1, <3>3 DEF Promise!Lose
    <2> QED
      BY <2>5, <2>6
  <1> QED
    BY <1>2, <1>3

(* Every step of a user who waits is one of the promise, or none. *)
LEMMA UpdateStep ==
    ASSUME UpdatesInv, UpdatesInv', [Next]_vars
    PROVE  [Promise!Next]_UpdateVars
  <1>1. CASE rushed'
    BY <1>1 DEF Promise!Next
  <1>2. CASE ~rushed'
    <2>1. ~rushed /\ (User => Settled)
      BY <1>2, StaysPatient
    <2>2. /\ IInv /\ Alone /\ Ends /\ SameFile /\ (~PowerFails => Boots) /\ Ends'
      BY <1>2, <2>1 DEF UpdatesInv, OfferInv, SessionInv, BootsInv
    <2>3. Device \/ Host \/ Fault \/ UNCHANGED vars => UNCHANGED rushed
      BY DEF Device, Host, Fault, vars
    <2>4. ASSUME Promise!Ask \/ Promise!Offer \/ Promise!Install \/ Promise!Lose
                   \/ UNCHANGED UpdateVars
          PROVE  [Promise!Next]_UpdateVars
      BY <2>1, <2>4 DEF Promise!Next
    <2>5. CASE Device
      <3>1. UNCHANGED <<hostVars, rushed>>
        BY <2>5 DEF Device
      <3>2. CASE DeviceStep
        BY <2>2, <2>4, <3>1, <3>2, HandlerOffers
      <3>3. CASE ResetMcuTask
        BY <2>4, <3>1, <3>3, OnOfferStays DEF ResetMcuTask, flashes, UpdateVars, hostVars
      <3>4. CASE Bootloader
        BY <2>2, <2>4, <3>1, <3>4, BootloaderInstalls
      <3>5. CASE MissPacket
        BY <2>4, <3>1, <3>5, OnOfferStays
        DEF MissPacket, deviceVars, flashes, UpdateVars, hostVars
      <3> QED
        BY <2>5, <3>2, <3>3, <3>4, <3>5 DEF Device, DeviceNext
    <2>6. CASE Host
      <3>1. UNCHANGED <<file, header, slot, app>>
        BY <2>6 DEF Host, HostNext, HostStep, HandleReply, ReadChunk, SendChunk, CloseMessageBox,
          deviceVars, flashes
      <3> QED
        BY <2>3, <2>4, <2>6, <3>1, OnOfferStays DEF UpdateVars
    <2>7. CASE User
      <3>1. PICK f \in Images : file' = f
        BY <2>7 DEF User, Press
      <3>2. header.status # "valid" /\ UNCHANGED <<header, slot, app>>
        BY <2>1, <2>2, <2>7 DEF User, Settled, Ends, deviceVars, flashes
      <3>3. OnOffer = NoImage /\ UNCHANGED OnOffer
        BY <3>2, OnOfferStays DEF OnOffer
      <3> QED
        BY <2>4, <3>1, <3>2, <3>3 DEF Promise!Ask
    <2>8. CASE Fault
      <3>1. UNCHANGED <<file, header, app>>
        BY <2>8 DEF Fault, PowerLoss, deviceVars, flashes, hostVars
      <3>2. header.status = "valid" => UNCHANGED slot
        <4>1. CASE PowerLoss
          <5>1. header.status = "valid" => Touched = {}
            BY <2>2 DEF Ends, Closed, Touched
          <5>2. slot \in [Slot -> Cells]
            BY <2>2 DEF IInv, DeviceTypeOK
          <5> QED
            BY <4>1, <5>1, <5>2 DEF PowerLoss
        <4>2. CASE UNCHANGED deviceVars
          BY <4>2 DEF deviceVars, flashes
        <4> QED
          BY <2>8, <4>1, <4>2 DEF Fault
      <3> QED
        BY <2>3, <2>4, <2>8, <3>1, <3>2, OnOfferStays DEF UpdateVars
    <2>9. CASE UNCHANGED vars
      <3>1. UNCHANGED <<file, header, slot, app>>
        BY <2>9 DEF vars, deviceVars, hostVars, flashes
      <3> QED
        BY <2>3, <2>4, <2>9, <3>1, OnOfferStays DEF UpdateVars
    <2> QED
      BY <2>5, <2>6, <2>7, <2>8, <2>9 DEF Next
  <1> QED
    BY <1>1, <1>2

(* With all faults, for a user who waits: the tool, the handler, the reset *)
(* and the bootloader together do nothing but update the device to the     *)
(* file of the last press.                                                 *)
THEOREM DownloadsAreUpdates == Spec => ImplementsUpdates
  <1>1. Init => Promise!Init
    BY DEF Init, DeviceInit, HostInit, BlankHeader, OnOffer, Promise!Init
  <1>2. Init => UpdatesInv
    BY InitOK, OfferInit, SessionInit, BootsInit DEF UpdatesInv
  <1>3. UpdatesInv /\ [Next]_vars => UpdatesInv'
    <2>1. ASSUME UpdatesInv, [Next]_vars, ~PowerFails PROVE BootsInv'
      BY <2>1, BootsNext DEF UpdatesInv
    <2>2. ASSUME UpdatesInv, [Next]_vars PROVE IInv' /\ OfferInv' /\ SessionInv'
      BY <2>2, NextOK, OfferNext, SessionNext DEF UpdatesInv
    <2> QED
      BY <2>1, <2>2 DEF UpdatesInv
  <1>4. UpdatesInv /\ UpdatesInv' /\ [Next]_vars => [Promise!Next]_UpdateVars
    BY UpdateStep
  <1> QED
    BY <1>1, <1>2, <1>3, <1>4, PTL DEF Spec, ImplementsUpdates, Promise!Spec, UpdateVars
=============================================================================
