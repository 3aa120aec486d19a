------------------------------- MODULE CfgParser -------------------------------
(***************************************************************************)
(* How the device takes the packets on the serial line apart:              *)
(* CfgParserPacket (app_config_task.c), one byte at a time and without     *)
(* ever giving up on a packet it has begun.                                *)
(*                                                                         *)
(* A step takes one byte off the line, as UartConfigTask does in a pass    *)
(* of the main loop.  What is lost, changed or invented on the way is      *)
(* decided when a byte is taken.                                           *)
(***************************************************************************)
EXTENDS Framing

CONSTANTS
    lenMax,     \* UART_PACKET_SIZE, the size of UART_DataBuff: 36
    PacketData, \* for each kind of noise, the data of the packets that are sent
    MaxPackets  \* and how many are sent, after the noise if it ends

(* The lengths a packet can have are no start codes, nor is its opcode.     *)
ASSUME ParserAssumption ==
    /\ lenMax \in Nat \ {0} /\ lenMax < StartCode /\ Opcode # StartCode
    /\ \A kind \in {"data", "any"} : MaxPackets[kind] \in Nat

ASSUME PacketDataAssumption ==
    \A kind \in {"data", "any"} : \A data \in PacketData[kind] :
        /\ data \in Seq(Byte) /\ Len(data) \in 1 .. lenMax
        /\ kind = "any" => Plain(data)

VARIABLES
    noise,      \* "data": a byte of the data or their sum may be changed;
                \* "any": bytes are lost and invented until that ends
    parser,     \* UART_parserPacket and the bytes in UART_DataBuff
    line,       \* bytes of the current packet that are still to come
    packet,     \* the data of the current packet
    packetsSent,   \* packets sent so far, when it is not noisy
    accepted,   \* history: the data of the packets accepted when it is not noisy
    packetSpoiled, \* history: a byte of the current packet was changed
    noisy,      \* bytes may be lost and invented
    calm,       \* history: bytes received since that ended, up to LongestRest
    fresh       \* history: the current packet began when calm was LongestRest

parserVars == <<noise, parser, line, packet, packetsSent, accepted, packetSpoiled, noisy, calm, fresh>>

ParserStates == {"WAITING_START_CODE", "GET_LENGTH", "GET_OPCODE", "GET_DATA", "CRC_CHECK"}

(* A packet the parser may be in the middle of has no more bytes than these *)
(* to come: length, opcode, data and sum.                                  *)
LongestRest == lenMax + 4

ParserTypeOK ==
    /\ parser \in [state : ParserStates, len : Nat, cnt : Nat, crc : Byte, opcode : Byte,
                   data : [0 .. lenMax - 1 -> Byte]]
    /\ line \in Seq(Byte)
    /\ noise \in {"data", "any"}
    /\ packet \in PacketData[noise] \cup {<<>>}
    /\ packetsSent \in 0 .. MaxPackets[noise]
    /\ accepted \in Seq(Seq(Byte))
    /\ packetSpoiled \in BOOLEAN /\ noisy \in BOOLEAN /\ fresh \in BOOLEAN
    /\ calm \in 0 .. LongestRest

ParserInit ==
    /\ parser = [state |-> "WAITING_START_CODE", len |-> 0, cnt |-> 0, crc |-> 0, opcode |-> 0,
                 data |-> [i \in 0 .. lenMax - 1 |-> 0]]
    /\ line = <<>> /\ packet = <<>>
    /\ packetsSent = 0
    /\ accepted = <<>>
    /\ packetSpoiled = FALSE
    /\ noise \in {"data", "any"} /\ noisy = (noise = "any")
    /\ calm = 0 /\ fresh = FALSE

-----------------------------------------------------------------------------
(* CfgParserPacket for one byte, by the state it is in. *)
StartByteKeepsSum(p, c) ==   \* slip
    IF c = StartCode THEN [p EXCEPT !.state = "GET_LENGTH", !.len = 0, !.cnt = 0] ELSE p
StartByte(p, c) ==
    IF c = StartCode
    THEN [p EXCEPT !.state = "GET_LENGTH", !.len = 0, !.crc = 0, !.cnt = 0]
    ELSE p

(* c << cnt, with cnt going up by eight: cnt counts the bytes here. *)
LengthByte(p, c) ==
    IF p.cnt = 0 THEN [p EXCEPT !.len = c, !.cnt = 1]
    ELSE [p EXCEPT !.len = p.len + c * ByteRange, !.cnt = 0, !.state = "GET_OPCODE"]

OpcodeByte(p, c) == [p EXCEPT !.opcode = c, !.state = "GET_DATA"]

(* A length that is zero or too large is noticed here only. *)
BadLengthOfZero(p) == p.cnt >= p.len   \* slip
BadLength(p) == p.cnt >= p.len \/ p.len > lenMax

StoredWithWideSum(p, c) ==   \* slip
    [p EXCEPT !.crc = @ + c, !.data[p.cnt] = c, !.cnt = @ + 1,
              !.state = IF p.cnt + 1 = p.len THEN "CRC_CHECK" ELSE @]
Stored(p, c) ==
    [p EXCEPT !.crc = (@ + c) % ByteRange, !.data[p.cnt] = c, !.cnt = @ + 1,
              !.state = IF p.cnt + 1 = p.len THEN "CRC_CHECK" ELSE @]

SkipBadPacket(p, c) ==   \* slip
    IF BadLength(p) THEN p ELSE Stored(p, c)
DataByte(p, c) ==
    IF BadLength(p) THEN [p EXCEPT !.state = "WAITING_START_CODE"] ELSE Stored(p, c)

SumByte(p, c) == [p EXCEPT !.state = "WAITING_START_CODE"]

CfgParserPacket(p, c) ==
    CASE p.state = "WAITING_START_CODE" -> StartByte(p, c)
      [] p.state = "GET_LENGTH" -> LengthByte(p, c)
      [] p.state = "GET_OPCODE" -> OpcodeByte(p, c)
      [] p.state = "GET_DATA" -> DataByte(p, c)
      [] p.state = "CRC_CHECK" -> SumByte(p, c)

(* It returns 0: the caller processes the packet. *)
AnyPacketSum(p, c) == p.state = "CRC_CHECK"   \* slip
Accepts(p, c) == p.state = "CRC_CHECK" /\ p.crc = c

AcceptedData(p) == [i \in 1 .. p.len |-> p.data[i - 1]]

-----------------------------------------------------------------------------
(* UartConfigTask with the byte c. *)
Parse(c) ==
    /\ parser' = CfgParserPacket(parser, c)
    /\ accepted' = IF Accepts(parser, c) /\ ~noisy
                   THEN Append(accepted, AcceptedData(parser)) ELSE accepted

(* Both sides send a packet after the other one's: it goes on the line as   *)
(* a whole.                                                                *)
SendPacket(data) ==
    /\ line = <<>>
    /\ packetsSent < MaxPackets[noise]
    /\ packetsSent' = IF noisy THEN packetsSent ELSE packetsSent + 1
    /\ packet' = data
    /\ line' = Frame(data)
    /\ packetSpoiled' = FALSE
    /\ fresh' = (calm = LongestRest)
    /\ UNCHANGED <<noise, parser, accepted, noisy, calm>>

Counted == IF noisy \/ calm = LongestRest THEN calm ELSE calm + 1

ByteComes ==
    /\ line # <<>>
    /\ Parse(Head(line))
    /\ line' = Tail(line)
    /\ calm' = Counted
    /\ UNCHANGED <<noise, packet, packetsSent, packetSpoiled, noisy, fresh>>

(* One byte behind the opcode comes as another one. *)
ByteChanges(c) ==
    /\ noise = "data"
    /\ ~packetSpoiled /\ line # <<>>
    /\ Len(line) <= Len(packet) + 1
    /\ c # Head(line)
    /\ Parse(c)
    /\ line' = Tail(line)
    /\ packetSpoiled' = TRUE
    /\ UNCHANGED <<noise, packet, packetsSent, noisy, calm, fresh>>

ByteLost ==
    /\ noisy /\ line # <<>>
    /\ line' = Tail(line)
    /\ UNCHANGED <<noise, parser, packet, packetsSent, accepted, packetSpoiled, noisy, calm, fresh>>

ByteInvented(c) ==
    /\ noisy
    /\ Parse(c)
    /\ UNCHANGED <<noise, line, packet, packetsSent, packetSpoiled, noisy, calm, fresh>>

(* No byte is lost or invented from here on. *)
NoiseEnds ==
    /\ noisy
    /\ noisy' = FALSE
    /\ UNCHANGED <<noise, parser, line, packet, packetsSent, accepted, packetSpoiled, calm, fresh>>

ParserNext ==
    \/ \E data \in PacketData[noise] : SendPacket(data)
    \/ ByteComes
    \/ \E c \in Byte : ByteChanges(c) \/ ByteInvented(c)
    \/ ByteLost \/ NoiseEnds

ParserSpec == ParserInit /\ [][ParserNext]_parserVars

-----------------------------------------------------------------------------
(* Whatever bytes come, none is stored behind the end of UART_DataBuff, and  *)
(* a packet that gets as far as its sum has all its data (the test of the   *)
(* length in CFG_CMD_GET_DATA).                                            *)
StaysInBuffer ==
    /\ parser.cnt <= lenMax
    /\ parser.state = "CRC_CHECK" => parser.cnt = parser.len /\ parser.len \in 1 .. lenMax

(* With bytes of the data or sums changed, packets still come out as they   *)
(* went in, in order, or not at all: the parser implements the channel of  *)
(* whole packets that the model of a download (UartLink) starts from.      *)
Packets == INSTANCE Stream WITH
    Item <- PacketData["data"], lossy <- TRUE,
    pending <- (IF noise = "any" \/ line = <<>> THEN <<>> ELSE <<packet>>),
    taken <- (IF noise = "any" THEN <<>> ELSE accepted)
ImplementsPackets == Packets!Spec

(* A changed byte costs the packet it is in and no other one. *)
OnlySpoiledPacketsAreLost ==
    [][noise = "data" /\ line # <<>> /\ line' = <<>> =>
         (accepted' # accepted <=> ~packetSpoiled')]_parserVars

(* However the parser was thrown out of step, by lengths it has to reject,  *)
(* packets cut off or bytes that were never sent: once as many bytes have  *)
(* come as the longest packet has behind its start code, every packet is   *)
(* accepted as it was sent - if none has a start code inside.              *)
Resynchronises ==
    noise = "any" /\ line = <<>> /\ fresh =>
        /\ parser.state = "WAITING_START_CODE"
        /\ accepted # <<>> /\ accepted[Len(accepted)] = packet
=============================================================================
