-------------------------------- MODULE Framing --------------------------------
(* The packets on the serial line, the same both ways: a start code, two    *)
(* bytes of length, the opcode, the data, and the 8-bit sum of the data.    *)
EXTENDS Integers, Sequences

CONSTANTS
    ByteRange,  \* number of values of a byte, 256
    StartCode,  \* 0xCA
    Opcode      \* the opcode of every packet, 0x12

Byte == 0 .. ByteRange - 1

ASSUME FramingAssumption ==
    ByteRange \in Nat /\ ByteRange >= 2 /\ StartCode \in Byte /\ Opcode \in Byte

(* CfgCalcCheckSum, calcCRC: the sums of the first bytes, and of all.       *)
Sums(data) ==
    LET sum[i \in 0 .. Len(data)] == IF i = 0 THEN 0 ELSE (sum[i - 1] + data[i]) % ByteRange
    IN  sum
CheckSum(data) == Sums(data)[Len(data)]

Frame(data) ==
    <<StartCode, Len(data) % ByteRange, Len(data) \div ByteRange, Opcode>>
      \o data \o <<CheckSum(data)>>

(* No byte of the packet behind its first looks like the start of another. *)
Plain(data) ==
    CheckSum(data) # StartCode /\ \A i \in DOMAIN data : data[i] # StartCode
=============================================================================
