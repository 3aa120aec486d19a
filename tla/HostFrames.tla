------------------------------- MODULE HostFrames -------------------------------
(***************************************************************************)
(* How the PC tool takes the replies on the serial line apart              *)
(* (frmMain.cs): the serial port hands it the bytes that have come in      *)
(* pieces of any size; serialPort_DataReceived collects them until the     *)
(* length it reads among them is reached, processes one packet and drops   *)
(* whatever else it has.                                                   *)
(***************************************************************************)
EXTENDS Framing

CONSTANTS
    BufferSize, \* size of comTempBuffer, 1024
    ReplyData,  \* the data of replies, all of one length
    MaxReplies, \* replies sent, without noise and with it
    Outstanding \* replies on a line without noise at a time

ReplySize == Len(CHOOSE data \in ReplyData : TRUE)
FrameSize == ReplySize + 5

(* A reply's length is no start code, nor is its opcode.                    *)
ASSUME HostFramesAssumption ==
    /\ ReplySize \in 1 .. StartCode - 1 /\ Opcode # StartCode
    /\ \A data \in ReplyData : data \in Seq(Byte) /\ Len(data) = ReplySize
    /\ BufferSize \in Nat /\ BufferSize >= FrameSize
    /\ \A changed \in BOOLEAN : MaxReplies[changed] \in Nat
    /\ Outstanding \in Nat \ {0}

VARIABLES
    spoils,        \* whether bytes are changed on the line
    wire,          \* bytes the tool has not read
    comTempBuffer, \* the comBufIndex bytes it has collected
    repliesSent,   \* history: the replies
    frames,        \* history: the replies it has processed
    repliesSpoiled \* history: which replies had a byte changed on the line

framesVars == <<spoils, wire, comTempBuffer, repliesSent, frames, repliesSpoiled>>

FramesTypeOK ==
    /\ spoils \in BOOLEAN
    /\ wire \in Seq(Byte)
    /\ comTempBuffer \in Seq(Byte) /\ Len(comTempBuffer) <= BufferSize
    /\ repliesSent \in Seq(ReplyData)
    /\ frames \in Seq(Seq(Byte))
    /\ repliesSpoiled \subseteq DOMAIN repliesSent

FramesInit ==
    /\ spoils \in BOOLEAN
    /\ wire = <<>> /\ comTempBuffer = <<>>
    /\ repliesSent = <<>> /\ frames = <<>>
    /\ repliesSpoiled = {}

-----------------------------------------------------------------------------
(* Replies of which a byte is still on the wire. *)
OnWire == (Len(wire) + FrameSize - 1) \div FrameSize

SendReply(data) ==
    /\ Len(repliesSent) < MaxReplies[spoils]
    /\ IF spoils THEN OnWire = 0 ELSE OnWire < Outstanding /\ Plain(data)
    /\ repliesSent' = Append(repliesSent, data)
    /\ wire' = wire \o Frame(data)
    /\ UNCHANGED <<spoils, comTempBuffer, frames, repliesSpoiled>>

(* A byte of the data of the last reply, or their sum, is changed. *)
SpoilReply(i, c) ==
    /\ spoils
    /\ repliesSent # <<>> /\ Len(repliesSent) \notin repliesSpoiled
    /\ i \in Len(wire) - ReplySize .. Len(wire) /\ i >= 1
    /\ wire[i] # c
    /\ wire' = [wire EXCEPT ![i] = c]
    /\ repliesSpoiled' = repliesSpoiled \cup {Len(repliesSent)}
    /\ UNCHANGED <<spoils, comTempBuffer, repliesSent, frames>>

(* The bytes from the first start code on. *)
FromAnything(b) == b   \* slip
FromStart(b) ==
    IF \E i \in DOMAIN b : b[i] = StartCode
    THEN SubSeq(b, CHOOSE i \in DOMAIN b :
                      b[i] = StartCode /\ \A j \in 1 .. i - 1 : b[j] # StartCode, Len(b))
    ELSE <<>>

Collected(b) ==
    IF comTempBuffer = <<>> THEN FromStart(b) ELSE comTempBuffer \o b

(* BitConverter.ToInt16; bytes that have not come yet are zero. *)
ByteAt(buf, i) == IF i \in DOMAIN buf THEN buf[i] ELSE 0
LengthIn(buf) ==
    LET n == ByteAt(buf, 2) + ByteRange * ByteAt(buf, 3)
    IN  IF n < (ByteRange * ByteRange) \div 2 THEN n ELSE n - ByteRange * ByteRange

CompleteWithoutSum(buf) == buf # <<>> /\ Len(buf) >= LengthIn(buf) + 4   \* slip
Complete(buf) == buf # <<>> /\ Len(buf) >= LengthIn(buf) + 5

DataIn(buf) == SubSeq(buf, 5, 4 + LengthIn(buf))

(* ProcessReceivedCOMData. *)
AnyReplySum(buf) == LengthIn(buf) > 0   \* slip
Valid(buf) == LengthIn(buf) > 0 /\ ByteAt(buf, 5 + LengthIn(buf)) = CheckSum(DataIn(buf))

(* What is left of the buffer once it has been looked at. *)
Kept(buf) == IF Complete(buf) THEN <<>> ELSE buf

(* serialPort_DataReceived with the first k bytes on the wire. *)
DataReceived(k) ==
    LET buf == Collected(SubSeq(wire, 1, k)) IN
    /\ wire' = SubSeq(wire, k + 1, Len(wire))
    /\ comTempBuffer' = Kept(buf)
    /\ frames' = IF Complete(buf) /\ Valid(buf) THEN Append(frames, DataIn(buf)) ELSE frames
    /\ UNCHANGED <<spoils, repliesSent, repliesSpoiled>>

FramesNext ==
    \/ \E data \in ReplyData : SendReply(data)
    \/ \E i \in DOMAIN wire, c \in Byte : SpoilReply(i, c)
    \/ \E k \in DOMAIN wire : DataReceived(k)

FramesSpec == FramesInit /\ [][FramesNext]_framesVars

-----------------------------------------------------------------------------
(* Replies come out as they were sent, in their order, none twice, or not   *)
(* at all, in whatever pieces they come: one at a time with any byte of    *)
(* its data changed, or several at once, without a start code inside,      *)
(* although what comes behind the first one in the same piece is dropped,  *)
(* whole replies and parts of them.  So the tool implements the channel of *)
(* whole replies that UartLink starts from.                                *)
Replies == INSTANCE Stream WITH
    Item <- ReplyData, lossy <- TRUE,
    pending <- SubSeq(repliesSent, Len(repliesSent) - OnWire + 1, Len(repliesSent)),
    taken <- frames
ImplementsReplies == Replies!Spec

(* One at a time, a changed byte costs the reply it is in and no other.     *)
OnlySpoiledRepliesAreLost ==
    [][spoils /\ wire # <<>> /\ wire' = <<>> =>
         (frames' # frames <=> Len(repliesSent) \notin repliesSpoiled)]_framesVars

(* When all is read the tool waits for the start of a reply: it does not    *)
(* hold a part of one that would swallow the next.                         *)
InStep == wire = <<>> => comTempBuffer = <<>>
=============================================================================
