--------------------------- MODULE SerialLine_proofs ---------------------------
(***************************************************************************)
(* Proofs about the receivers of the serial line, for every range of       *)
(* bytes and every length of packets.                                      *)
(***************************************************************************)
EXTENDS CfgParser, HostFrames, WellFoundedInduction, TLAPS

-----------------------------------------------------------------------------
(* Induction, from the least element of a set of numbers. *)

LEMMA LeastElement ==
    ASSUME NEW T, T \subseteq Nat, T # {}
    PROVE  \E x \in T : \A y \in T : ~(y < x)
  <1>1. IsWellFoundedOn(OpToRel(<, Nat), Nat)
    BY NatLessThanWellFounded
  <1>2. \E x \in T : \A y \in T : ~(<<y, x>> \in OpToRel(<, Nat))
    BY <1>1, WFMin
  <1>3. \A x, y \in Nat : y < x => <<y, x>> \in OpToRel(<, Nat)
    BY DEF OpToRel
  <1> QED
    BY <1>2, <1>3

LEMMA Induction ==
    ASSUME NEW T, 0 \in T, \A n \in Nat : n \in T => n + 1 \in T
    PROVE  \A n \in Nat : n \in T
  <1>1. SUFFICES ASSUME Nat \ T # {} PROVE FALSE
    BY Zenon
  <1>2. PICK x \in Nat \ T : \A y \in Nat \ T : ~(y < x)
    BY <1>1, LeastElement
  <1>3. x # 0 /\ x - 1 \in Nat /\ x - 1 < x
    BY <1>2
  <1> QED
    BY <1>2, <1>3

-----------------------------------------------------------------------------
(* The sum of a packet *)

LEMMA RangeOfBytes ==
    /\ ByteRange \in Nat /\ ByteRange >= 2 /\ StartCode \in Byte /\ Opcode \in Byte
    /\ 0 \in Byte /\ \A b \in Byte : b \in Int
  BY FramingAssumption DEF Byte

LEMMA Modulo ==
    ASSUME NEW a \in Int, NEW b \in Int
    PROVE  (a + b) % ByteRange \in Byte
  BY RangeOfBytes DEF Byte

(* The sums of the first n bytes exist. *)
SumsUpTo(data, n) ==
    {f \in [0 .. n -> Byte] : /\ f[0] = 0
                              /\ \A i \in 1 .. n : f[i] = (f[i - 1] + data[i]) % ByteRange}

LEMMA SumsExist ==
    ASSUME NEW data \in Seq(Byte)
    PROVE  SumsUpTo(data, Len(data)) # {}
  <1> DEFINE T == {n \in Nat : n <= Len(data) => SumsUpTo(data, n) # {}}
  <1>1. 0 \in T
    <2>1. [i \in 0 .. 0 |-> 0] \in SumsUpTo(data, 0)
      BY RangeOfBytes DEF SumsUpTo
    <2> QED
      BY <2>1
  <1>2. ASSUME NEW n \in Nat, n \in T PROVE n + 1 \in T
    <2>1. CASE n + 1 > Len(data)
      BY <2>1
    <2>2. CASE n + 1 <= Len(data)
      <3>1. PICK f : f \in SumsUpTo(data, n)
        BY <1>2, <2>2
      <3> DEFINE x == (f[n] + data[n + 1]) % ByteRange
                 g == [i \in 0 .. n + 1 |-> IF i = n + 1 THEN x ELSE f[i]]
      <3>2. f \in [0 .. n -> Byte] /\ f[n] \in Byte /\ data[n + 1] \in Byte
        BY <3>1, <2>2 DEF SumsUpTo
      <3>3. x \in Byte
        <4>1. f[n] \in Int /\ data[n + 1] \in Int
          BY <3>2, RangeOfBytes
        <4> QED
          BY <4>1, Modulo
      <3>4. g \in [0 .. n + 1 -> Byte] /\ g[0] = 0
        BY <3>1, <3>2, <3>3 DEF SumsUpTo
      <3>5. \A i \in 1 .. n + 1 : g[i] = (g[i - 1] + data[i]) % ByteRange
        BY <3>1, <3>2 DEF SumsUpTo
      <3>6. g \in SumsUpTo(data, n + 1)
        BY <3>4, <3>5 DEF SumsUpTo
      <3> QED
        BY <3>6
    <2> QED
      BY <2>1, <2>2
  <1>3. \A n \in Nat : n \in T
    <2> HIDE DEF T
    <2> QED
      BY <1>1, <1>2, Induction
  <1> QED
    BY <1>3

LEMMA SumsByCases ==
    ASSUME NEW data, NEW n \in Nat, NEW S,
           \A i \in 0 .. n : S[i] = IF i = 0 THEN 0 ELSE (S[i - 1] + data[i]) % ByteRange
    PROVE  S[0] = 0 /\ \A i \in 1 .. n : S[i] = (S[i - 1] + data[i]) % ByteRange
  <1>1. 0 \in 0 .. n /\ \A i \in 1 .. n : i \in 0 .. n /\ i # 0
    OBVIOUS
  <1> QED
    BY <1>1, Zenon

LEMMA SumsUnfold ==
    ASSUME NEW data, NEW S
    PROVE  S = [i \in 0 .. Len(data) |-> IF i = 0 THEN 0 ELSE (S[i - 1] + data[i]) % ByteRange]
             => /\ S = [i \in 0 .. Len(data) |-> S[i]]
                /\ \A i \in 0 .. Len(data) :
                     S[i] = IF i = 0 THEN 0 ELSE (S[i - 1] + data[i]) % ByteRange
  BY Zenon

LEMMA SumsAre ==
    ASSUME NEW data \in Seq(Byte)
    PROVE  Sums(data) \in SumsUpTo(data, Len(data))
  <1>1. PICK f : f \in SumsUpTo(data, Len(data))
    BY SumsExist
  <1> DEFINE R(g) == [i \in 0 .. Len(data) |->
                        IF i = 0 THEN 0 ELSE (g[i - 1] + data[i]) % ByteRange]
  <1>2. f = R(f)
    <2>1. f \in [0 .. Len(data) -> Byte] /\ f[0] = 0
          /\ \A i \in 1 .. Len(data) : f[i] = (f[i - 1] + data[i]) % ByteRange
      BY <1>1 DEF SumsUpTo
    <2>2. \A i \in 0 .. Len(data) : f[i] = IF i = 0 THEN 0 ELSE (f[i - 1] + data[i]) % ByteRange
      BY <2>1
    <2> QED
      BY <2>1, <2>2
  <1>3. Sums(data) = CHOOSE g : g = R(g)
    BY Zenon DEF Sums
  <1>4. Sums(data) = R(Sums(data))
    BY <1>2, <1>3
  <1> DEFINE S == Sums(data)
             T == {n \in Nat : n <= Len(data) => S[n] \in Byte}
  <1>5. /\ S = [i \in 0 .. Len(data) |-> S[i]]
        /\ S[0] = 0
        /\ \A i \in 1 .. Len(data) : S[i] = (S[i - 1] + data[i]) % ByteRange
    <2> HIDE DEF S
    <2>1. /\ S = [i \in 0 .. Len(data) |-> S[i]]
          /\ \A i \in 0 .. Len(data) :
               S[i] = IF i = 0 THEN 0 ELSE (S[i - 1] + data[i]) % ByteRange
      BY <1>4, SumsUnfold, Zenon DEF S
    <2>2. Len(data) \in Nat
      OBVIOUS
    <2>3. S[0] = 0 /\ \A i \in 1 .. Len(data) : S[i] = (S[i - 1] + data[i]) % ByteRange
      BY <2>1, <2>2, SumsByCases
    <2> QED
      BY <2>1, <2>3
  <1>6. 0 \in T
    BY <1>5, RangeOfBytes
  <1>7. ASSUME NEW n \in Nat, n \in T PROVE n + 1 \in T
    <2>1. CASE n + 1 > Len(data)
      BY <2>1
    <2>2. CASE n + 1 <= Len(data)
      <3>1. S[n + 1] = (S[n] + data[n + 1]) % ByteRange
        BY <1>5, <2>2
      <3>2. S[n] \in Int /\ data[n + 1] \in Int
        BY <1>7, <2>2, RangeOfBytes
      <3>3. S[n + 1] \in Byte
        <4> HIDE DEF S
        <4>1. (S[n] + data[n + 1]) % ByteRange \in Byte
          BY <3>2, Modulo
        <4> QED
          BY <3>1, <4>1
      <3> QED
        BY <3>3
    <2> QED
      BY <2>1, <2>2
  <1>8. \A n \in Nat : n \in T
    <2> HIDE DEF T
    <2> QED
      BY <1>6, <1>7, Induction
  <1>9. \A i \in 0 .. Len(data) : S[i] \in Byte
    BY <1>8
  <1> HIDE DEF S
  <1> QED
    BY <1>5, <1>9 DEF SumsUpTo, S

LEMMA CheckSumIsByte == \A data \in Seq(Byte) : CheckSum(data) \in Byte
  BY SumsAre DEF SumsUpTo, CheckSum

-----------------------------------------------------------------------------
(* Packets on the line *)

LEMMA Concatenated ==
    ASSUME NEW a \in Seq(Byte), NEW b \in Seq(Byte)
    PROVE  /\ a \o b \in Seq(Byte) /\ Len(a \o b) = Len(a) + Len(b)
           /\ \A i \in 1 .. Len(a) : (a \o b)[i] = a[i]
           /\ \A i \in 1 .. Len(b) : (a \o b)[Len(a) + i] = b[i]
  <1>1. a \o b \in Seq(Byte) /\ Len(a \o b) = Len(a) + Len(b)
    OBVIOUS
  <1>2. \A i \in 1 .. Len(a) : (a \o b)[i] = a[i]
    OBVIOUS
  <1>3. ASSUME NEW i \in 1 .. Len(b) PROVE (a \o b)[Len(a) + i] = b[i]
    <2>1. Len(a) \in Nat /\ Len(b) \in Nat /\ i \in Nat /\ i >= 1
          /\ Len(a) + i \in 1 .. Len(a) + Len(b) /\ Len(a) + i - Len(a) = i
          /\ ~(Len(a) + i <= Len(a))
      OBVIOUS
    <2> QED
      BY <2>1
  <1> QED
    BY <1>1, <1>2, <1>3

(* The bytes of a packet of n bytes of data. *)
LEMMA FrameIs ==
    ASSUME NEW data \in Seq(Byte), Len(data) < ByteRange
    PROVE  /\ Frame(data) \in Seq(Byte)
           /\ Len(Frame(data)) = Len(data) + 5
           /\ Frame(data)[1] = StartCode /\ Frame(data)[2] = Len(data)
           /\ Frame(data)[3] = 0 /\ Frame(data)[4] = Opcode
           /\ \A i \in 1 .. Len(data) : Frame(data)[4 + i] = data[i]
           /\ Frame(data)[Len(data) + 5] = CheckSum(data)
  <1> DEFINE n == Len(data)
             low == n % ByteRange
             high == n \div ByteRange
             header == <<StartCode, low, high, Opcode>>
             sum == CheckSum(data)
  <1>1. n \in Nat /\ low = n /\ high = 0 /\ n \in Byte /\ 0 \in Byte
    BY RangeOfBytes DEF Byte
  <1>2. header \in Seq(Byte) /\ Len(header) = 4
    BY <1>1, RangeOfBytes
  <1>3. sum \in Byte /\ <<sum>> \in Seq(Byte) /\ Len(<<sum>>) = 1
    BY CheckSumIsByte
  <1>4. Frame(data) = header \o data \o <<sum>>
    BY DEF Frame
  <1> HIDE DEF header, sum
  <1>5. /\ header \o data \in Seq(Byte) /\ Len(header \o data) = 4 + n
        /\ \A i \in 1 .. 4 : (header \o data)[i] = header[i]
        /\ \A i \in 1 .. n : (header \o data)[4 + i] = data[i]
    <2>1. /\ header \o data \in Seq(Byte) /\ Len(header \o data) = Len(header) + Len(data)
          /\ \A i \in 1 .. Len(header) : (header \o data)[i] = header[i]
          /\ \A i \in 1 .. Len(data) : (header \o data)[Len(header) + i] = data[i]
      BY <1>2, Concatenated
    <2> QED
      BY <1>2, <2>1
  <1> DEFINE front == header \o data
  <1> HIDE DEF front
  <1>6. /\ front \o <<sum>> \in Seq(Byte) /\ Len(front \o <<sum>>) = n + 5
        /\ \A i \in 1 .. 4 + n : (front \o <<sum>>)[i] = front[i]
        /\ (front \o <<sum>>)[n + 5] = sum
    BY <1>1, <1>3, <1>5 DEF front
  <1>7. Frame(data) = front \o <<sum>>
    BY <1>4 DEF front
  <1>8. /\ front[1] = StartCode /\ front[2] = n /\ front[3] = 0 /\ front[4] = Opcode
        /\ \A i \in 1 .. n : front[4 + i] = data[i]
    BY <1>1, <1>5 DEF front, header
  <1>9. \A i \in 1 .. n : 4 + i \in 1 .. 4 + n
    BY <1>1
  <1> QED
    BY <1>1, <1>6, <1>7, <1>8, <1>9 DEF sum

(* What is left of a packet. *)
Suffix(rest, whole) ==
    /\ Len(rest) <= Len(whole)
    /\ \A i \in 1 .. Len(rest) : rest[i] = whole[Len(whole) - Len(rest) + i]

LEMMA SuffixTail ==
    ASSUME NEW rest \in Seq(Byte), NEW whole \in Seq(Byte), rest # <<>>, Suffix(rest, whole)
    PROVE  /\ Suffix(Tail(rest), whole) /\ Tail(rest) \in Seq(Byte)
           /\ Len(Tail(rest)) = Len(rest) - 1
           /\ Len(rest) \in Nat \ {0}
           /\ Head(rest) = whole[Len(whole) - Len(rest) + 1]
           /\ Head(rest) \in Byte
  <1>1. Len(rest) \in Nat \ {0} /\ Len(whole) \in Nat
    <2>1. Len(rest) \in Nat /\ (Len(rest) = 0 => rest = <<>>)
      OBVIOUS
    <2> QED
      BY <2>1
  <1>2. /\ Tail(rest) \in Seq(Byte) /\ Len(Tail(rest)) = Len(rest) - 1
        /\ \A i \in 1 .. Len(rest) - 1 : Tail(rest)[i] = rest[i + 1]
        /\ Head(rest) = rest[1] /\ rest[1] \in Byte
    BY <1>1
  <1> QED
    BY <1>1, <1>2 DEF Suffix

-----------------------------------------------------------------------------
(* The parser: its buffer *)

Parsers == [state : ParserStates, len : Nat, cnt : Nat, crc : Byte, opcode : Byte,
            data : [0 .. lenMax - 1 -> Byte]]

WithinBuffer(p) ==
    /\ p.cnt <= lenMax
    /\ p.state = "CRC_CHECK" => p.cnt = p.len /\ p.len \in 1 .. lenMax

LEMMA Longest == lenMax \in Nat \ {0} /\ lenMax < StartCode /\ lenMax < ByteRange
  BY ParserAssumption, RangeOfBytes DEF Byte

LEMMA StoredIs ==
    ASSUME NEW p \in Parsers, NEW c \in Byte, ~BadLength(p)
    PROVE  LET q == Stored(p, c) IN
           /\ q \in Parsers
           /\ p.cnt \in 0 .. lenMax - 1 /\ p.len \in 1 .. lenMax
           /\ q.state = (IF p.cnt + 1 = p.len THEN "CRC_CHECK" ELSE p.state)
           /\ q.len = p.len /\ q.cnt = p.cnt + 1
           /\ q.crc = (p.crc + c) % ByteRange
           /\ q.data[p.cnt] = c
           /\ \A i \in 0 .. lenMax - 1 : i # p.cnt => q.data[i] = p.data[i]
  <1>1. p.cnt \in Nat /\ p.len \in Nat /\ p.cnt < p.len /\ p.len <= lenMax
    BY Longest DEF BadLength, Parsers
  <1>2. p.cnt \in 0 .. lenMax - 1 /\ p.len \in 1 .. lenMax /\ p.cnt + 1 \in Nat
    BY <1>1, Longest
  <1>3. p.crc \in Int /\ c \in Int
    BY RangeOfBytes DEF Parsers
  <1>4. (p.crc + c) % ByteRange \in Byte
    BY <1>3, Modulo
  <1> DEFINE sum == (p.crc + c) % ByteRange
             buff == [p.data EXCEPT ![p.cnt] = c]
             next == IF p.cnt + 1 = p.len THEN "CRC_CHECK" ELSE p.state
  <1>5. buff \in [0 .. lenMax - 1 -> Byte] /\ buff[p.cnt] = c
        /\ \A i \in 0 .. lenMax - 1 : i # p.cnt => buff[i] = p.data[i]
    BY <1>2 DEF Parsers
  <1>6. next \in ParserStates
    BY DEF Parsers, ParserStates
  <1>7. Stored(p, c) = [p EXCEPT !.crc = sum, !.data = buff, !.cnt = p.cnt + 1, !.state = next]
    BY DEF Stored, Parsers
  <1> DEFINE q == Stored(p, c)
             count == p.cnt + 1
  <1> HIDE DEF sum, buff, next, q, count
  <1>8. sum \in Byte /\ count \in Nat
    BY <1>2, <1>4 DEF sum, count
  <1>9. q = [p EXCEPT !.crc = sum, !.data = buff, !.cnt = count, !.state = next]
    BY <1>7 DEF q, count
  <1>10. /\ q \in Parsers /\ q.state = next /\ q.len = p.len /\ q.cnt = count
         /\ q.crc = sum /\ q.data = buff
    BY <1>5, <1>6, <1>8, <1>9 DEF Parsers
  <1> QED
    BY <1>2, <1>5, <1>10 DEF sum, next, q, count

(* Every byte leaves the parser within its buffer. *)
LEMMA ParserStep ==
    ASSUME NEW p \in Parsers, NEW c \in Byte, WithinBuffer(p)
    PROVE  CfgParserPacket(p, c) \in Parsers /\ WithinBuffer(CfgParserPacket(p, c))
  <1> DEFINE q == CfgParserPacket(p, c)
  <1>1. CASE p.state = "WAITING_START_CODE"
    <2>1. q = StartByte(p, c)
      BY <1>1 DEF CfgParserPacket
    <2> HIDE DEF q
    <2>2. CASE c = StartCode
      <3>1. q = [p EXCEPT !.state = "GET_LENGTH", !.len = 0, !.crc = 0, !.cnt = 0]
        BY <2>1, <2>2 DEF StartByte
      <3>2. q \in Parsers /\ q.state = "GET_LENGTH" /\ q.cnt = 0
        BY <3>1, RangeOfBytes DEF Parsers, ParserStates
      <3> QED
        BY <3>2, Longest DEF WithinBuffer, q
    <2>3. CASE c # StartCode
      BY <2>1, <2>3 DEF StartByte, q
    <2> QED
      BY <2>2, <2>3
  <1>2. CASE p.state = "GET_LENGTH"
    <2>1. q = LengthByte(p, c)
      BY <1>2 DEF CfgParserPacket
    <2>2. p.len + c * ByteRange \in Nat /\ c \in Nat
      BY RangeOfBytes DEF Parsers, Byte
    <2> DEFINE wide == p.len + c * ByteRange
    <2>3. wide \in Nat
      BY <2>2
    <2>4. q = IF p.cnt = 0 THEN [p EXCEPT !.len = c, !.cnt = 1]
              ELSE [p EXCEPT !.len = wide, !.cnt = 0, !.state = "GET_OPCODE"]
      BY <2>1 DEF LengthByte
    <2> HIDE DEF wide, q
    <2>5. CASE p.cnt = 0
      <3>1. q = [p EXCEPT !.len = c, !.cnt = 1]
        BY <2>4, <2>5
      <3>2. q \in Parsers /\ q.state = "GET_LENGTH" /\ q.cnt = 1
        BY <1>2, <2>2, <3>1 DEF Parsers
      <3> QED
        BY <3>2, Longest DEF WithinBuffer, q
    <2>6. CASE p.cnt # 0
      <3>1. q = [p EXCEPT !.len = wide, !.cnt = 0, !.state = "GET_OPCODE"]
        BY <2>4, <2>6
      <3>2. q \in Parsers /\ q.state = "GET_OPCODE" /\ q.cnt = 0
        BY <2>3, <3>1 DEF Parsers, ParserStates
      <3> QED
        BY <3>2, Longest DEF WithinBuffer, q
    <2> QED
      BY <2>5, <2>6
  <1>3. CASE p.state = "GET_OPCODE"
    <2>1. q = OpcodeByte(p, c)
      BY <1>3 DEF CfgParserPacket
    <2> QED
      BY <2>1 DEF OpcodeByte, Parsers, ParserStates, WithinBuffer
  <1>4. CASE p.state = "GET_DATA"
    <2>1. q = DataByte(p, c)
      BY <1>4 DEF CfgParserPacket
    <2>2. CASE BadLength(p)
      BY <2>1, <2>2 DEF DataByte, Parsers, ParserStates, WithinBuffer
    <2>3. CASE ~BadLength(p)
      <3>1. q = Stored(p, c)
        BY <2>1, <2>3 DEF DataByte
      <3> HIDE DEF q
      <3>2. /\ q \in Parsers /\ p.cnt \in 0 .. lenMax - 1 /\ p.len \in 1 .. lenMax
            /\ q.state = (IF p.cnt + 1 = p.len THEN "CRC_CHECK" ELSE p.state)
            /\ q.len = p.len /\ q.cnt = p.cnt + 1
        BY <2>3, <3>1, StoredIs
      <3>3. q \in Parsers /\ WithinBuffer(q)
        BY <1>4, <3>2, Longest DEF WithinBuffer
      <3> QED
        BY <3>3 DEF q
    <2> QED
      BY <2>2, <2>3
  <1>5. CASE p.state = "CRC_CHECK"
    <2>1. q = SumByte(p, c)
      BY <1>5 DEF CfgParserPacket
    <2> QED
      BY <2>1 DEF SumByte, Parsers, ParserStates, WithinBuffer
  <1> QED
    BY <1>1, <1>2, <1>3, <1>4, <1>5 DEF Parsers, ParserStates

(* And what it accepts are bytes. *)
LEMMA AcceptedIs ==
    ASSUME NEW p \in Parsers, NEW c \in Byte, WithinBuffer(p), Accepts(p, c)
    PROVE  AcceptedData(p) \in Seq(Byte)
  <1>1. p.len \in 1 .. lenMax /\ \A i \in 1 .. p.len : i - 1 \in 0 .. lenMax - 1
    BY Longest DEF WithinBuffer, Accepts
  <1>2. \A i \in 1 .. p.len : p.data[i - 1] \in Byte
    BY <1>1 DEF Parsers
  <1>3. AcceptedData(p) \in [1 .. p.len -> Byte] /\ p.len \in Nat
    BY <1>1, <1>2 DEF AcceptedData
  <1> QED
    BY <1>3

(***************************************************************************)
(* Types, and StaysInBuffer                                                *)
(***************************************************************************)
BufferInv == ParserTypeOK /\ WithinBuffer(parser)

LEMMA PacketIs ==
    ASSUME NEW kind \in {"data", "any"}, NEW data \in PacketData[kind]
    PROVE  /\ data \in Seq(Byte) /\ Len(data) \in 1 .. lenMax /\ Len(data) < ByteRange
           /\ kind = "any" => Plain(data)
           /\ Frame(data) \in Seq(Byte) /\ Frame(data) # <<>> /\ Len(Frame(data)) = Len(data) + 5
  <1>1. data \in Seq(Byte) /\ Len(data) \in 1 .. lenMax /\ (kind = "any" => Plain(data))
    BY PacketDataAssumption
  <1>2. Len(data) \in Nat /\ Len(data) < ByteRange
    BY <1>1, Longest, RangeOfBytes
  <1>3. Frame(data) \in Seq(Byte) /\ Len(Frame(data)) = Len(data) + 5
    BY <1>1, <1>2, FrameIs
  <1> QED
    BY <1>1, <1>2, <1>3

LEMMA Parsed ==
    ASSUME BufferInv, NEW c \in Byte, Parse(c)
    PROVE  /\ parser' \in Parsers /\ WithinBuffer(parser')
           /\ accepted' \in Seq(Seq(Byte))
  <1>1. parser \in Parsers /\ accepted \in Seq(Seq(Byte))
    BY DEF BufferInv, ParserTypeOK, Parsers
  <1>2. parser' \in Parsers /\ WithinBuffer(parser')
    BY <1>1, ParserStep DEF Parse, BufferInv
  <1>3. accepted' \in Seq(Seq(Byte))
    <2>1. CASE Accepts(parser, c) /\ ~noisy
      BY <1>1, <2>1, AcceptedIs DEF Parse, BufferInv
    <2>2. CASE ~(Accepts(parser, c) /\ ~noisy)
      BY <1>1, <2>2 DEF Parse
    <2> QED
      BY <2>1, <2>2
  <1> QED
    BY <1>2, <1>3

LEMMA BufferInit == ParserInit => BufferInv
  <1> SUFFICES ASSUME ParserInit PROVE BufferInv
    OBVIOUS
  <1>1. parser \in Parsers /\ WithinBuffer(parser)
    BY RangeOfBytes, Longest DEF ParserInit, Parsers, ParserStates, WithinBuffer
  <1>2. 0 \in 0 .. MaxPackets[noise] /\ 0 \in 0 .. LongestRest
    BY ParserAssumption DEF ParserInit, LongestRest
  <1>3. noisy \in BOOLEAN
    BY Zenon DEF ParserInit
  <1>4. /\ line \in Seq(Byte) /\ packet \in PacketData[noise] \cup {<<>>}
        /\ accepted \in Seq(Seq(Byte)) /\ noise \in {"data", "any"}
        /\ packetSpoiled \in BOOLEAN /\ fresh \in BOOLEAN
        /\ packetsSent = 0 /\ calm = 0
    <2>1. /\ line = <<>> /\ packet = <<>> /\ accepted = <<>> /\ packetSpoiled = FALSE
          /\ fresh = FALSE /\ packetsSent = 0 /\ calm = 0 /\ noise \in {"data", "any"}
      BY Zenon DEF ParserInit
    <2>2. line \in Seq(Byte) /\ packet \in PacketData[noise] \cup {<<>>}
      BY <2>1
    <2>3. accepted \in Seq(Seq(Byte))
      BY <2>1
    <2>4. packetSpoiled \in BOOLEAN /\ fresh \in BOOLEAN
      BY <2>1, Zenon
    <2> QED
      BY <2>1, <2>2, <2>3, <2>4, Zenon
  <1> QED
    BY <1>1, <1>2, <1>3, <1>4 DEF BufferInv, ParserTypeOK, Parsers

LEMMA BufferStep == BufferInv /\ [ParserNext]_parserVars => BufferInv'
  <1> SUFFICES ASSUME BufferInv, [ParserNext]_parserVars PROVE BufferInv'
    OBVIOUS
  <1> USE DEF BufferInv, ParserTypeOK, Parsers
  <1>1. ASSUME NEW data \in PacketData[noise], SendPacket(data) PROVE BufferInv'
    <2>1. Frame(data) \in Seq(Byte)
      BY PacketIs
    <2>2. packetsSent' \in 0 .. MaxPackets[noise]
      BY <1>1, ParserAssumption DEF SendPacket
    <2> QED
      BY <1>1, <2>1, <2>2 DEF SendPacket
  <1>2. CASE ByteComes
    <2>1. Head(line) \in Byte /\ Tail(line) \in Seq(Byte)
      BY <1>2 DEF ByteComes
    <2>2. parser' \in Parsers /\ WithinBuffer(parser') /\ accepted' \in Seq(Seq(Byte))
      BY <1>2, <2>1, Parsed DEF ByteComes
    <2>3. calm' \in 0 .. LongestRest
      BY <1>2, Longest DEF ByteComes, Counted, LongestRest
    <2> QED
      BY <1>2, <2>1, <2>2, <2>3 DEF ByteComes
  <1>3. ASSUME NEW c \in Byte, ByteChanges(c) PROVE BufferInv'
    <2>1. Tail(line) \in Seq(Byte)
      BY <1>3 DEF ByteChanges
    <2>2. parser' \in Parsers /\ WithinBuffer(parser') /\ accepted' \in Seq(Seq(Byte))
      BY <1>3, Parsed DEF ByteChanges
    <2> QED
      BY <1>3, <2>1, <2>2 DEF ByteChanges
  <1>4. ASSUME NEW c \in Byte, ByteInvented(c) PROVE BufferInv'
    <2>1. parser' \in Parsers /\ WithinBuffer(parser') /\ accepted' \in Seq(Seq(Byte))
      BY <1>4, Parsed DEF ByteInvented
    <2> QED
      BY <1>4, <2>1 DEF ByteInvented
  <1>5. CASE ByteLost
    <2>1. Tail(line) \in Seq(Byte)
      BY <1>5 DEF ByteLost
    <2> QED
      BY <1>5, <2>1 DEF ByteLost
  <1>6. CASE NoiseEnds
    BY <1>6 DEF NoiseEnds
  <1>7. CASE UNCHANGED parserVars
    BY <1>7 DEF parserVars
  <1> QED
    BY <1>1, <1>2, <1>3, <1>4, <1>5, <1>6, <1>7 DEF ParserNext

LEMMA BufferAlways == ParserSpec => []BufferInv
  BY BufferInit, BufferStep, PTL DEF ParserSpec

(* The parser's state, the bytes on the line and the histories are always    *)
(* what they are declared to be.                                           *)
THEOREM ParserTypeCorrect == ParserSpec => []ParserTypeOK
  <1>1. BufferInv => ParserTypeOK
    BY DEF BufferInv
  <1> QED
    BY <1>1, BufferAlways, PTL

(* Whatever bytes come, none is stored behind the end of UART_DataBuff: for  *)
(* every size of it and every length a packet can claim.                   *)
THEOREM NeverOverflows == ParserSpec => []StaysInBuffer
  <1>1. BufferInv => StaysInBuffer
    BY DEF BufferInv, WithinBuffer, StaysInBuffer
  <1> QED
    BY <1>1, BufferAlways, PTL

-----------------------------------------------------------------------------
(* A packet as the parser follows it: k bytes of it have come. *)
Follows(p, k, data, spoiled) ==
    /\ k = 0 => p.state = "WAITING_START_CODE"
    /\ k \in 1 .. 2 => /\ p.state = "GET_LENGTH" /\ p.cnt = k - 1 /\ p.crc = 0
                       /\ p.len = IF k = 1 THEN 0 ELSE Len(data)
    /\ k = 3 => p.state = "GET_OPCODE" /\ p.len = Len(data) /\ p.cnt = 0 /\ p.crc = 0
    /\ k \in 4 .. Len(data) + 3 => p.state = "GET_DATA" /\ p.len = Len(data) /\ p.cnt = k - 4
    /\ k = Len(data) + 4 => p.state = "CRC_CHECK" /\ p.len = Len(data) /\ p.cnt = Len(data)
    /\ k < 4 => ~spoiled
    /\ k >= 4 => IF spoiled THEN p.crc # Sums(data)[k - 4]
                 ELSE p.crc = Sums(data)[k - 4] /\ \A i \in 1 .. k - 4 : p.data[i - 1] = data[i]

LEMMA SumsOf ==
    ASSUME NEW data \in Seq(Byte)
    PROVE  /\ Sums(data)[0] = 0 /\ CheckSum(data) = Sums(data)[Len(data)]
           /\ \A i \in 0 .. Len(data) : Sums(data)[i] \in Byte
           /\ \A i \in 1 .. Len(data) : Sums(data)[i] = (Sums(data)[i - 1] + data[i]) % ByteRange
  BY SumsAre DEF SumsUpTo, CheckSum

(* Sums that differ by less than their range do not meet. *)
LEMMA SumsDiffer ==
    ASSUME NEW a \in Byte, NEW b \in Byte, NEW x \in Byte, a # b
    PROVE  /\ (a + x) % ByteRange # (b + x) % ByteRange
           /\ (x + a) % ByteRange # (x + b) % ByteRange
  <1> DEFINE R == ByteRange
  <1>1. R \in Nat /\ R >= 2 /\ a \in 0 .. R - 1 /\ b \in 0 .. R - 1 /\ x \in 0 .. R - 1
    BY RangeOfBytes DEF Byte
  <1> HIDE DEF R
  <1>2. \A y \in 0 .. R - 1 :
          (y + x) % R = IF y + x < R THEN y + x ELSE y + x - R
    <2> TAKE y \in 0 .. R - 1
    <2>1. CASE y + x < R
      BY <1>1, <2>1
    <2>2. CASE y + x >= R
      <3>1. y + x - R \in 0 .. R - 1
        BY <1>1, <2>2
      <3> QED
        BY <1>1, <2>2, <3>1
    <2> QED
      BY <1>1, <2>1, <2>2
  <1>3. (a + x) % R # (b + x) % R
    BY <1>1, <1>2
  <1>4. x + a = a + x /\ x + b = b + x
    BY <1>1
  <1> QED
    BY <1>3, <1>4 DEF R

-----------------------------------------------------------------------------
(* The next byte of a packet that is followed: not the last one. *)
LEMMA FollowsStep ==
    ASSUME NEW p \in Parsers, NEW data \in Seq(Byte), Len(data) \in 1 .. lenMax,
           NEW k \in 0 .. Len(data) + 3, NEW spoiled \in BOOLEAN, Follows(p, k, data, spoiled)
    PROVE  LET c == Frame(data)[k + 1] IN
           /\ Follows(CfgParserPacket(p, c), k + 1, data, spoiled)
           /\ ~Accepts(p, c)
           /\ p.state # "CRC_CHECK"
  <1> DEFINE n == Len(data)
             c == Frame(data)[k + 1]
             q == CfgParserPacket(p, c)
  <1>1. n \in Nat /\ n >= 1 /\ n <= lenMax /\ n < ByteRange
    BY Longest, RangeOfBytes
  <1>2. /\ Frame(data)[1] = StartCode /\ Frame(data)[2] = n
        /\ Frame(data)[3] = 0 /\ Frame(data)[4] = Opcode
        /\ \A i \in 1 .. n : Frame(data)[4 + i] = data[i]
    BY <1>1, FrameIs
  <1>3. CASE k = 0
    <2>1. p.state = "WAITING_START_CODE" /\ c = StartCode /\ ~spoiled
      BY <1>2, <1>3 DEF Follows
    <2>2. q = [p EXCEPT !.state = "GET_LENGTH", !.len = 0, !.crc = 0, !.cnt = 0]
      BY <2>1 DEF CfgParserPacket, StartByte
    <2>3. q.state = "GET_LENGTH" /\ q.len = 0 /\ q.crc = 0 /\ q.cnt = 0
      BY <2>2 DEF Parsers
    <2> HIDE DEF q
    <2>4. Follows(q, 1, data, spoiled)
      BY <1>1, <2>1, <2>3 DEF Follows
    <2> QED
      BY <1>3, <2>1, <2>4 DEF Accepts, q
  <1>4. CASE k = 1
    <2>1. p.state = "GET_LENGTH" /\ p.cnt = 0 /\ p.crc = 0 /\ p.len = 0 /\ c = n /\ ~spoiled
      BY <1>2, <1>4 DEF Follows
    <2>2. q = [p EXCEPT !.len = n, !.cnt = 1]
      BY <2>1 DEF CfgParserPacket, LengthByte
    <2>3. q.state = "GET_LENGTH" /\ q.len = n /\ q.crc = 0 /\ q.cnt = 1
      BY <2>1, <2>2 DEF Parsers
    <2> HIDE DEF q
    <2>4. Follows(q, 2, data, spoiled)
      BY <1>1, <2>1, <2>3 DEF Follows
    <2> QED
      BY <1>4, <2>1, <2>4 DEF Accepts, q
  <1>5. CASE k = 2
    <2>1. p.state = "GET_LENGTH" /\ p.cnt = 1 /\ p.crc = 0 /\ p.len = n /\ c = 0 /\ ~spoiled
      BY <1>2, <1>5 DEF Follows
    <2>2. p.len + c * ByteRange = n /\ p.cnt # 0
      BY <1>1, <2>1, RangeOfBytes
    <2>3. q = [p EXCEPT !.len = n, !.cnt = 0, !.state = "GET_OPCODE"]
      BY <2>1, <2>2 DEF CfgParserPacket, LengthByte
    <2>4. q.state = "GET_OPCODE" /\ q.len = n /\ q.crc = 0 /\ q.cnt = 0
      BY <2>1, <2>3 DEF Parsers
    <2> HIDE DEF q
    <2>5. Follows(q, 3, data, spoiled)
      BY <1>1, <2>1, <2>4 DEF Follows
    <2> QED
      BY <1>5, <2>1, <2>5 DEF Accepts, q
  <1>6. CASE k = 3
    <2>1. p.state = "GET_OPCODE" /\ p.cnt = 0 /\ p.crc = 0 /\ p.len = n /\ ~spoiled
      BY <1>6 DEF Follows
    <2>2. q = [p EXCEPT !.opcode = c, !.state = "GET_DATA"]
      BY <2>1 DEF CfgParserPacket, OpcodeByte
    <2>3. q.state = "GET_DATA" /\ q.len = n /\ q.crc = 0 /\ q.cnt = 0
      BY <2>1, <2>2 DEF Parsers
    <2>4. Sums(data)[0] = 0
      BY SumsOf
    <2> HIDE DEF q
    <2>5. Follows(q, 4, data, spoiled)
      BY <1>1, <2>1, <2>3, <2>4 DEF Follows
    <2> QED
      BY <1>6, <2>1, <2>5 DEF Accepts, q
  <1>7. CASE k >= 4
    <2> DEFINE m == k - 4
    <2>1. m \in 0 .. n - 1 /\ m + 1 \in 1 .. n /\ k = m + 4
      BY <1>1, <1>7
    <2>2. p.state = "GET_DATA" /\ p.len = n /\ p.cnt = m
      BY <1>1, <1>7 DEF Follows
    <2>3. c = data[m + 1] /\ c \in Byte
      BY <1>2, <2>1
    <2>4. ~BadLength(p)
      <3> HIDE DEF m, n
      <3>1. m < n /\ ~(m >= n) /\ ~(n > lenMax)
        BY <1>1, <2>1, Longest
      <3> QED
        BY <2>2, <3>1 DEF BadLength
    <2>5. q = Stored(p, c)
      BY <2>2, <2>4 DEF CfgParserPacket, DataByte
    <2>6. Follows(q, k + 1, data, spoiled)
      <3> HIDE DEF q, c
      <3>1. /\ q.state = (IF m + 1 = n THEN "CRC_CHECK" ELSE "GET_DATA")
            /\ q.len = n /\ q.cnt = m + 1 /\ q.crc = (p.crc + c) % ByteRange
            /\ q.data[m] = c
            /\ \A i \in 0 .. lenMax - 1 : i # m => q.data[i] = p.data[i]
        BY <2>2, <2>3, <2>4, <2>5, StoredIs
      <3>2. /\ Sums(data)[m + 1] = (Sums(data)[m] + c) % ByteRange
            /\ Sums(data)[m] \in Byte /\ p.crc \in Byte
        <4>1. Sums(data)[m + 1] = (Sums(data)[m + 1 - 1] + data[m + 1]) % ByteRange
              /\ Sums(data)[m] \in Byte
          BY <2>1, SumsOf
        <4> QED
          BY <2>1, <2>3, <4>1 DEF Parsers
      <3>3. CASE spoiled
        <4>1. p.crc # Sums(data)[m]
          BY <1>7, <3>3 DEF Follows
        <4>2. q.crc # Sums(data)[m + 1]
          BY <2>3, <3>1, <3>2, <4>1, SumsDiffer
        <4> QED
          BY <1>1, <2>1, <3>1, <3>3, <4>2 DEF Follows
      <3>4. CASE ~spoiled
        <4>1. p.crc = Sums(data)[m] /\ \A i \in 1 .. m : p.data[i - 1] = data[i]
          BY <1>7, <3>4 DEF Follows
        <4>2. q.crc = Sums(data)[m + 1]
          BY <3>1, <3>2, <4>1
        <4>3. \A i \in 1 .. m + 1 : q.data[i - 1] = data[i]
          <5> TAKE i \in 1 .. m + 1
          <5>1. CASE i = m + 1
            BY <2>1, <2>3, <3>1, <5>1
          <5>2. CASE i # m + 1
            <6>1. i \in 1 .. m /\ i - 1 \in 0 .. lenMax - 1 /\ i - 1 # m
              <7> HIDE DEF m, n
              <7> QED
                BY <1>1, <2>1, <5>2, Longest
            <6> QED
              BY <3>1, <4>1, <6>1
          <5> QED
            BY <5>1, <5>2
        <4> QED
          BY <1>1, <2>1, <3>1, <3>4, <4>2, <4>3 DEF Follows
      <3> QED
        BY <3>3, <3>4
    <2> QED
      BY <2>2, <2>6 DEF Accepts
  <1> QED
    BY <1>1, <1>3, <1>4, <1>5, <1>6, <1>7

(* A byte of its data that came as another one. *)
LEMMA FollowsChanged ==
    ASSUME NEW p \in Parsers, NEW data \in Seq(Byte), Len(data) \in 1 .. lenMax,
           NEW k \in 4 .. Len(data) + 3, Follows(p, k, data, FALSE),
           NEW c \in Byte, c # Frame(data)[k + 1]
    PROVE  Follows(CfgParserPacket(p, c), k + 1, data, TRUE) /\ ~Accepts(p, c)
  <1> DEFINE n == Len(data)
             q == CfgParserPacket(p, c)
             m == k - 4
  <1>1. n \in Nat /\ n >= 1 /\ n <= lenMax /\ n < ByteRange
    BY Longest, RangeOfBytes
  <1>2. m \in 0 .. n - 1 /\ m + 1 \in 1 .. n /\ k = m + 4
    BY <1>1
  <1>3. c # data[m + 1] /\ data[m + 1] \in Byte
    <2>1. Frame(data)[4 + (m + 1)] = data[m + 1] /\ data[m + 1] \in Byte
      BY <1>1, <1>2, FrameIs
    <2>2. 4 + (m + 1) = k + 1
      BY <1>2
    <2> QED
      BY <2>1, <2>2
  <1>4. p.state = "GET_DATA" /\ p.len = n /\ p.cnt = m /\ p.crc = Sums(data)[m]
    BY <1>1 DEF Follows
  <1>5. ~BadLength(p)
    <2> HIDE DEF m, n
    <2>1. m < n /\ ~(m >= n) /\ ~(n > lenMax)
      BY <1>1, <1>2, Longest
    <2> QED
      BY <1>4, <2>1 DEF BadLength
  <1>6. q = Stored(p, c)
    BY <1>4, <1>5 DEF CfgParserPacket, DataByte
  <1> HIDE DEF q
  <1>7. /\ q.state = (IF m + 1 = n THEN "CRC_CHECK" ELSE "GET_DATA")
        /\ q.len = n /\ q.cnt = m + 1 /\ q.crc = (p.crc + c) % ByteRange
    BY <1>4, <1>5, <1>6, StoredIs
  <1>8. /\ Sums(data)[m + 1] = (Sums(data)[m] + data[m + 1]) % ByteRange
        /\ Sums(data)[m] \in Byte
    BY <1>2, SumsOf
  <1>9. q.crc # Sums(data)[m + 1]
    BY <1>3, <1>4, <1>7, <1>8, SumsDiffer
  <1>10. Follows(q, k + 1, data, TRUE)
    BY <1>1, <1>2, <1>7, <1>9 DEF Follows
  <1> QED
    BY <1>4, <1>10 DEF Accepts, q

(* The last byte: what is accepted is the packet. *)
LEMMA FollowsEnd ==
    ASSUME NEW p \in Parsers, NEW data \in Seq(Byte), Len(data) \in 1 .. lenMax,
           NEW spoiled \in BOOLEAN, Follows(p, Len(data) + 4, data, spoiled), NEW c \in Byte
    PROVE  /\ CfgParserPacket(p, c).state = "WAITING_START_CODE"
           /\ Accepts(p, c) <=> p.crc = c
           /\ c = CheckSum(data) => (Accepts(p, c) <=> ~spoiled)
           /\ ~spoiled => (Accepts(p, c) <=> c = CheckSum(data)) /\ AcceptedData(p) = data
  <1> DEFINE n == Len(data)
  <1>1. n \in Nat /\ n >= 1 /\ n <= lenMax
    BY Longest
  <1>2. p.state = "CRC_CHECK" /\ p.len = n
    BY <1>1 DEF Follows
  <1>3. CfgParserPacket(p, c) = [p EXCEPT !.state = "WAITING_START_CODE"]
    BY <1>2 DEF CfgParserPacket, SumByte
  <1>4. CfgParserPacket(p, c).state = "WAITING_START_CODE"
    BY <1>3 DEF Parsers
  <1>5. IF spoiled THEN p.crc # CheckSum(data)
        ELSE p.crc = CheckSum(data) /\ \A i \in 1 .. n : p.data[i - 1] = data[i]
    <2>1. n + 4 >= 4 /\ n + 4 - 4 = n
      BY <1>1
    <2> QED
      BY <2>1, SumsOf DEF Follows
  <1>6. ~spoiled => AcceptedData(p) = data
    <2> SUFFICES ASSUME ~spoiled PROVE AcceptedData(p) = data
      OBVIOUS
    <2>1. AcceptedData(p) = [i \in 1 .. n |-> p.data[i - 1]]
      BY <1>2 DEF AcceptedData
    <2>2. [i \in 1 .. n |-> p.data[i - 1]] = [i \in 1 .. n |-> data[i]]
      BY <1>5
    <2>3. data = [i \in 1 .. n |-> data[i]]
      OBVIOUS
    <2> QED
      BY <2>1, <2>2, <2>3
  <1> QED
    BY <1>2, <1>4, <1>5, <1>6 DEF Accepts

-----------------------------------------------------------------------------
(* The most bytes the parser can take before it waits for a start code. *)
Rest(p) ==
    CASE p.state = "WAITING_START_CODE" -> 0
      [] p.state = "GET_LENGTH" -> IF p.cnt = 0 THEN lenMax + 4 ELSE lenMax + 3
      [] p.state = "GET_OPCODE" -> lenMax + 2
      [] p.state = "GET_DATA" -> IF BadLength(p) THEN 1 ELSE p.len - p.cnt + 1
      [] p.state = "CRC_CHECK" -> 1

LEMMA RestIs ==
    ASSUME NEW p \in Parsers
    PROVE  /\ Rest(p) \in 0 .. LongestRest
           /\ Rest(p) = 0 => p.state = "WAITING_START_CODE"
           /\ p.state = "WAITING_START_CODE" => Rest(p) = 0
  BY Longest DEF Rest, LongestRest, BadLength, Parsers, ParserStates

LEMMA RestStep ==
    ASSUME NEW p \in Parsers, NEW c \in Byte, p.state # "WAITING_START_CODE"
    PROVE  Rest(CfgParserPacket(p, c)) <= Rest(p) - 1
  <1> DEFINE q == CfgParserPacket(p, c)
  <1>1. CASE p.state = "GET_LENGTH"
    <2>1. q = LengthByte(p, c)
      BY <1>1 DEF CfgParserPacket
    <2> DEFINE wide == p.len + c * ByteRange
    <2>2. q = IF p.cnt = 0 THEN [p EXCEPT !.len = c, !.cnt = 1]
              ELSE [p EXCEPT !.len = wide, !.cnt = 0, !.state = "GET_OPCODE"]
      BY <2>1 DEF LengthByte
    <2> HIDE DEF wide, q
    <2>3. IF p.cnt = 0 THEN q.state = "GET_LENGTH" /\ q.cnt = 1 ELSE q.state = "GET_OPCODE"
      BY <1>1, <2>2 DEF Parsers
    <2>4. Rest(q) <= Rest(p) - 1
      BY <1>1, <2>3, Longest DEF Rest
    <2> QED
      BY <2>4 DEF q
  <1>2. CASE p.state = "GET_OPCODE"
    <2>1. q = [p EXCEPT !.opcode = c, !.state = "GET_DATA"]
      BY <1>2 DEF CfgParserPacket, OpcodeByte
    <2>2. q.state = "GET_DATA" /\ q.len \in Nat /\ q.cnt \in Nat
      BY <2>1 DEF Parsers
    <2> HIDE DEF q
    <2>3. Rest(q) <= Rest(p) - 1
      BY <1>2, <2>2, Longest DEF Rest, BadLength
    <2> QED
      BY <2>3 DEF q
  <1>3. CASE p.state = "GET_DATA" /\ BadLength(p)
    <2>1. q = [p EXCEPT !.state = "WAITING_START_CODE"]
      BY <1>3 DEF CfgParserPacket, DataByte
    <2>2. q.state = "WAITING_START_CODE"
      BY <2>1 DEF Parsers
    <2> QED
      BY <1>3, <2>2 DEF Rest
  <1>4. CASE p.state = "GET_DATA" /\ ~BadLength(p)
    <2>1. q = Stored(p, c)
      BY <1>4 DEF CfgParserPacket, DataByte
    <2> HIDE DEF q
    <2>2. /\ p.cnt \in 0 .. lenMax - 1 /\ p.len \in 1 .. lenMax
          /\ q.state = (IF p.cnt + 1 = p.len THEN "CRC_CHECK" ELSE "GET_DATA")
          /\ q.len = p.len /\ q.cnt = p.cnt + 1
      BY <1>4, <2>1, StoredIs
    <2>3. Rest(q) <= Rest(p) - 1
      BY <1>4, <2>2, Longest DEF Rest, BadLength
    <2> QED
      BY <2>3 DEF q
  <1>5. CASE p.state = "CRC_CHECK"
    <2>1. q = [p EXCEPT !.state = "WAITING_START_CODE"]
      BY <1>5 DEF CfgParserPacket, SumByte
    <2>2. q.state = "WAITING_START_CODE"
      BY <2>1 DEF Parsers
    <2> QED
      BY <1>5, <2>2 DEF Rest
  <1> QED
    BY <1>1, <1>2, <1>3, <1>4, <1>5 DEF Parsers, ParserStates

(* A packet without a start code in its data has none behind its first byte. *)
LEMMA NoStartInside ==
    ASSUME NEW data \in Seq(Byte), Len(data) \in 1 .. StartCode - 1, Plain(data),
           Opcode # StartCode, NEW k \in 1 .. Len(data) + 4
    PROVE  Frame(data)[k + 1] # StartCode
  <1> DEFINE n == Len(data)
             c == Frame(data)[k + 1]
  <1>1. n \in Nat /\ n >= 1 /\ n < ByteRange /\ n # StartCode /\ StartCode # 0
    BY RangeOfBytes DEF Byte
  <1>2. CASE k = 1
    BY <1>1, <1>2, FrameIs
  <1>3. CASE k = 2
    BY <1>1, <1>3, FrameIs
  <1>4. CASE k = 3
    BY <1>1, <1>4, FrameIs
  <1>5. CASE k \in 4 .. n + 3
    <2>1. k - 3 \in 1 .. n /\ 4 + (k - 3) = k + 1
      BY <1>1, <1>5
    <2>2. c = data[k - 3]
      BY <1>1, <2>1, FrameIs
    <2> QED
      BY <2>1, <2>2 DEF Plain
  <1>6. CASE k = n + 4
    <2>1. k + 1 = n + 5
      BY <1>1, <1>6
    <2>2. c = CheckSum(data)
      BY <1>1, <2>1, FrameIs
    <2> QED
      BY <2>2 DEF Plain
  <1> QED
    BY <1>1, <1>2, <1>3, <1>4, <1>5, <1>6

(* So the parser, when it waits, goes past it.                              *)
LEMMA Skipped ==
    ASSUME NEW p \in Parsers, p.state = "WAITING_START_CODE",
           NEW data \in Seq(Byte), Len(data) \in 1 .. lenMax, Plain(data),
           NEW k \in 1 .. Len(data) + 4
    PROVE  LET c == Frame(data)[k + 1] IN
           CfgParserPacket(p, c) = p /\ ~Accepts(p, c)
  <1>1. Len(data) \in 1 .. StartCode - 1 /\ Opcode # StartCode
    BY ParserAssumption, RangeOfBytes DEF Byte
  <1>2. Frame(data)[k + 1] # StartCode
    BY <1>1, NoStartInside
  <1> QED
    BY <1>2 DEF CfgParserPacket, StartByte, Accepts

(***************************************************************************)
(* LineInv: the parser and the line.  Behind a start code the parser takes *)
(* for one, it takes at most Rest bytes; when it then waits, it goes past  *)
(* what is left of a packet it has not begun (Skipping), and from the next *)
(* packet on it follows (Following).                                       *)
(***************************************************************************)
Following(spoiled) ==
    IF line = <<>> THEN parser.state = "WAITING_START_CODE"
    ELSE Follows(parser, Len(packet) + 5 - Len(line), packet, spoiled)

Skipping ==
    line # <<>> /\ parser.state = "WAITING_START_CODE" /\ Len(line) < Len(packet) + 5

OnLine == line # <<>> => packet \in PacketData[noise] /\ Suffix(line, Frame(packet))

DataNoise == noise = "data" => ~noisy /\ Following(packetSpoiled)

AnyNoise == noise = "any" =>
    /\ ~packetSpoiled
    /\ noisy => calm = 0 /\ ~fresh
    /\ ~noisy => Following(FALSE) \/ Skipping \/ Rest(parser) + calm <= LongestRest
    /\ fresh => /\ ~noisy /\ Following(FALSE)
                /\ line = <<>> => accepted # <<>> /\ accepted[Len(accepted)] = packet

LineInv == BufferInv /\ OnLine /\ DataNoise /\ AnyNoise

(* Where in its packet the next byte is. *)
LEMMA NextByte ==
    ASSUME BufferInv, OnLine, line # <<>>
    PROVE  LET k == Len(packet) + 5 - Len(line) IN
           /\ packet \in Seq(Byte) /\ Len(packet) \in 1 .. lenMax
           /\ Len(packet) < ByteRange
           /\ noise = "any" => Plain(packet)
           /\ Len(line) \in 1 .. Len(packet) + 5
           /\ k \in 0 .. Len(packet) + 4
           /\ Head(line) = Frame(packet)[k + 1] /\ Head(line) \in Byte
           /\ k = Len(packet) + 4 => Head(line) = CheckSum(packet)
           /\ Suffix(Tail(line), Frame(packet)) /\ Tail(line) \in Seq(Byte)
           /\ Len(Tail(line)) = Len(line) - 1
           /\ Tail(line) = <<>> <=> k = Len(packet) + 4
           /\ Len(packet) + 5 - Len(Tail(line)) = k + 1
  <1> DEFINE n == Len(packet)
             k == n + 5 - Len(line)
  <1>1. /\ packet \in Seq(Byte) /\ n \in 1 .. lenMax /\ n < ByteRange
        /\ noise = "any" => Plain(packet)
        /\ Frame(packet) \in Seq(Byte) /\ Len(Frame(packet)) = n + 5
    BY PacketIs DEF BufferInv, ParserTypeOK, OnLine
  <1>2. line \in Seq(Byte) /\ Suffix(line, Frame(packet))
    BY DEF BufferInv, ParserTypeOK, OnLine
  <1>3. /\ Suffix(Tail(line), Frame(packet)) /\ Tail(line) \in Seq(Byte)
        /\ Len(Tail(line)) = Len(line) - 1 /\ Len(line) \in Nat \ {0}
        /\ Head(line) = Frame(packet)[Len(Frame(packet)) - Len(line) + 1]
        /\ Head(line) \in Byte
    BY <1>1, <1>2, SuffixTail
  <1>4. Len(line) <= n + 5
    BY <1>1, <1>2 DEF Suffix
  <1>5. Len(line) \in 1 .. n + 5 /\ k \in 0 .. n + 4
    BY <1>1, <1>3, <1>4, Longest
  <1>6. Head(line) = Frame(packet)[k + 1]
    BY <1>1, <1>3
  <1>7. k = n + 4 => Head(line) = CheckSum(packet)
    <2> SUFFICES ASSUME k = n + 4 PROVE Head(line) = CheckSum(packet)
      OBVIOUS
    <2>1. k + 1 = n + 5
      BY <1>1
    <2>2. Frame(packet)[n + 5] = CheckSum(packet)
      BY <1>1, FrameIs
    <2> QED
      BY <1>6, <2>1, <2>2
  <1>8. Tail(line) = <<>> <=> Len(Tail(line)) = 0
    BY <1>3
  <1>9. Tail(line) = <<>> <=> k = n + 4
    BY <1>3, <1>5, <1>8
  <1>10. n + 5 - Len(Tail(line)) = k + 1
    BY <1>1, <1>3, <1>5
  <1> QED
    BY <1>1, <1>3, <1>5, <1>6, <1>7, <1>9, <1>10

(* The next byte of a packet that is followed, as it was sent. *)
LEMMA FollowingByte ==
    ASSUME BufferInv, OnLine, line # <<>>, NEW spoiled \in BOOLEAN, Following(spoiled),
           Parse(Head(line)), line' = Tail(line), packet' = packet
    PROVE  /\ Following(spoiled)'
           /\ line' # <<>> => accepted' = accepted
           /\ line' = <<>> =>
                accepted' = IF ~spoiled /\ ~noisy THEN Append(accepted, packet) ELSE accepted
  <1> DEFINE n == Len(packet)
             k == n + 5 - Len(line)
             c == Head(line)
  <1>1. /\ packet \in Seq(Byte) /\ n \in 1 .. lenMax /\ n \in Nat
        /\ k \in 0 .. n + 4 /\ c = Frame(packet)[k + 1] /\ c \in Byte
        /\ k = n + 4 => c = CheckSum(packet)
        /\ Tail(line) = <<>> <=> k = n + 4
        /\ n + 5 - Len(Tail(line)) = k + 1
    BY NextByte
  <1>2. parser \in Parsers
    BY DEF BufferInv, ParserTypeOK, Parsers
  <1>3. Follows(parser, k, packet, spoiled)
    BY DEF Following
  <1>4. parser' = CfgParserPacket(parser, c)
        /\ accepted' = IF Accepts(parser, c) /\ ~noisy
                       THEN Append(accepted, AcceptedData(parser)) ELSE accepted
    BY DEF Parse
  <1> HIDE DEF k, n, c
  <1>5. CASE k = n + 4
    <2>1. /\ CfgParserPacket(parser, c).state = "WAITING_START_CODE"
          /\ Accepts(parser, c) <=> ~spoiled
          /\ ~spoiled => AcceptedData(parser) = packet
      BY <1>1, <1>2, <1>3, <1>5, FollowsEnd DEF n
    <2> QED
      BY <1>1, <1>4, <1>5, <2>1 DEF Following
  <1>6. CASE k # n + 4
    <2>1. k \in 0 .. n + 3
      BY <1>1, <1>6
    <2>2. Follows(CfgParserPacket(parser, c), k + 1, packet, spoiled) /\ ~Accepts(parser, c)
      BY <1>1, <1>2, <1>3, <2>1, FollowsStep DEF n
    <2>3. line' # <<>> /\ Len(packet') + 5 - Len(line') = k + 1
      BY <1>1, <1>6 DEF n
    <2> QED
      BY <1>4, <2>2, <2>3 DEF Following
  <1> QED
    BY <1>5, <1>6

(* The next byte, where the parser has not begun the packet. *)
LEMMA SkippingByte ==
    ASSUME BufferInv, OnLine, Skipping, Plain(packet),
           Parse(Head(line)), line' = Tail(line), packet' = packet
    PROVE  Following(FALSE)' \/ Skipping'
  <1> DEFINE n == Len(packet)
             k == n + 5 - Len(line)
             c == Head(line)
  <1>1. /\ packet \in Seq(Byte) /\ n \in 1 .. lenMax /\ n \in Nat
        /\ Len(line) \in 1 .. n + 5
        /\ k \in 0 .. n + 4 /\ c = Frame(packet)[k + 1]
        /\ Len(Tail(line)) = Len(line) - 1
    BY NextByte DEF Skipping
  <1>2. parser \in Parsers
    BY DEF BufferInv, ParserTypeOK, Parsers
  <1>3. k \in 1 .. n + 4
    BY <1>1 DEF Skipping
  <1>4. CfgParserPacket(parser, c) = parser
    <2> HIDE DEF k, c
    <2> QED
      BY <1>1, <1>2, <1>3, Skipped DEF Skipping
  <1>5. parser' = parser
    BY <1>4 DEF Parse
  <1>6. parser'.state = "WAITING_START_CODE"
    BY <1>5 DEF Skipping
  <1>7. Len(line') < Len(packet') + 5
    BY <1>1 DEF Skipping
  <1> QED
    BY <1>6, <1>7 DEF Skipping, Following

LEMMA LineInit == ParserInit => LineInv
  <1> SUFFICES ASSUME ParserInit PROVE LineInv
    OBVIOUS
  <1>1. BufferInv
    BY BufferInit
  <1>2. /\ line = <<>> /\ parser.state = "WAITING_START_CODE" /\ calm = 0
        /\ ~fresh /\ ~packetSpoiled
    BY DEF ParserInit
  <1>3. noisy <=> noise = "any"
    BY Zenon DEF ParserInit
  <1>4. noise = "data" => noise # "any"
    OBVIOUS
  <1>5. DataNoise
    BY <1>2, <1>3, <1>4 DEF DataNoise, Following
  <1>6. AnyNoise
    BY <1>2, <1>3 DEF AnyNoise, Following
  <1> QED
    BY <1>1, <1>2, <1>5, <1>6 DEF LineInv, OnLine

LEMMA LineSend ==
    ASSUME LineInv, NEW data \in PacketData[noise], SendPacket(data)
    PROVE  OnLine' /\ DataNoise' /\ AnyNoise'
  <1>1. noise \in {"data", "any"} /\ calm \in 0 .. LongestRest /\ LongestRest \in Nat
        /\ LongestRest > 0 /\ packetSpoiled \in BOOLEAN
    BY Longest DEF LineInv, BufferInv, ParserTypeOK, LongestRest
  <1>2. /\ Frame(data) \in Seq(Byte) /\ Frame(data) # <<>> /\ Len(Frame(data)) = Len(data) + 5
        /\ Len(data) \in 1 .. lenMax /\ Len(data) \in Nat
    BY <1>1, PacketIs
  <1>3. line = <<>> /\ line' = Frame(data) /\ packet' = data /\ noise' = noise /\ parser' = parser
        /\ packetSpoiled' = FALSE /\ noisy' = noisy /\ calm' = calm /\ accepted' = accepted
    BY DEF SendPacket
  <1>4. OnLine'
    <2>1. \A i \in 1 .. Len(Frame(data)) :
            Len(Frame(data)) - Len(Frame(data)) + i = i
      BY <1>2
    <2>2. Suffix(Frame(data), Frame(data))
      BY <1>2, <2>1 DEF Suffix
    <2> QED
      BY <1>3, <2>2 DEF OnLine
  <1>5. parser.state = "WAITING_START_CODE" => Following(FALSE)'
    <2>1. Len(packet') + 5 - Len(line') = 0 /\ line' # <<>>
      BY <1>2, <1>3
    <2>2. 0 < 4 /\ ~(0 >= 4) /\ 0 \notin 1 .. 2 /\ 0 # 3 /\ 0 \notin 4 .. Len(data) + 3
          /\ 0 # Len(data) + 4
      BY <1>2
    <2> QED
      BY <1>3, <2>1, <2>2 DEF Following, Follows
  <1>6. DataNoise'
    <2> SUFFICES ASSUME noise = "data" PROVE ~noisy' /\ Following(packetSpoiled)'
      BY <1>3 DEF DataNoise
    <2>1. ~noisy /\ parser.state = "WAITING_START_CODE"
      BY <1>3 DEF LineInv, DataNoise, Following
    <2>2. Following(packetSpoiled)' <=> Following(FALSE)'
      BY <1>3 DEF Following
    <2> QED
      BY <1>3, <1>5, <2>1, <2>2
  <1>7. AnyNoise'
    <2> SUFFICES ASSUME noise = "any"
                 PROVE  /\ noisy => ~fresh'
                        /\ ~noisy => Following(FALSE)' \/ Rest(parser) + calm <= LongestRest
                        /\ fresh' => ~noisy /\ Following(FALSE)'
      <3>1. noise = "any" /\ noisy => calm = 0
        BY DEF LineInv, AnyNoise
      <3>2. line' # <<>>
        BY <1>2, <1>3
      <3> QED
        BY <1>3, <3>1, <3>2 DEF AnyNoise
    <2>1. /\ noisy => calm = 0
          /\ ~noisy => Following(FALSE) \/ Rest(parser) + calm <= LongestRest
      BY <1>3 DEF LineInv, AnyNoise, Skipping
    <2>2. fresh' <=> calm = LongestRest
      BY Zenon DEF SendPacket
    <2>3. noisy => ~fresh'
      <3>1. noisy => calm # LongestRest
        BY <1>1, <2>1
      <3> QED
        BY <2>2, <3>1, Zenon
    <2>4. Following(FALSE) => Following(FALSE)'
      BY <1>3, <1>5 DEF Following
    <2>5. fresh' => Following(FALSE)'
      <3> SUFFICES ASSUME fresh' PROVE Following(FALSE)'
        OBVIOUS
      <3>1. ~noisy /\ calm = LongestRest
        BY <2>3, <2>2, Zenon
      <3>2. CASE Following(FALSE)
        BY <2>4, <3>2
      <3>3. CASE Rest(parser) + calm <= LongestRest
        <4>1. parser \in Parsers
          BY DEF LineInv, BufferInv, ParserTypeOK, Parsers
        <4>2. Rest(parser) \in 0 .. LongestRest
              /\ (Rest(parser) = 0 => parser.state = "WAITING_START_CODE")
          BY <4>1, RestIs
        <4>3. Rest(parser) = 0
          BY <1>1, <3>1, <3>3, <4>2
        <4> QED
          BY <1>5, <4>2, <4>3
      <3> QED
        BY <2>1, <3>1, <3>2, <3>3
    <2> QED
      BY <2>1, <2>3, <2>4, <2>5
  <1> QED
    BY <1>4, <1>6, <1>7

LEMMA LineByte ==
    ASSUME LineInv, ByteComes
    PROVE  OnLine' /\ DataNoise' /\ AnyNoise'
  <1>1. /\ line # <<>> /\ Parse(Head(line)) /\ line' = Tail(line) /\ calm' = Counted
        /\ noise' = noise /\ packet' = packet /\ packetSpoiled' = packetSpoiled
        /\ noisy' = noisy /\ fresh' = fresh
    BY DEF ByteComes
  <1>2. BufferInv /\ OnLine /\ DataNoise /\ AnyNoise
    BY DEF LineInv
  <1>3. OnLine'
    BY <1>1, <1>2, NextByte DEF OnLine
  <1>4. packetSpoiled \in BOOLEAN /\ noise \in {"data", "any"} /\ calm \in 0 .. LongestRest
        /\ LongestRest \in Nat /\ parser \in Parsers /\ Head(line) \in Byte
    BY <1>1, <1>2, NextByte, Longest DEF BufferInv, ParserTypeOK, LongestRest, Parsers
  <1>5. ASSUME NEW spoiled \in BOOLEAN, Following(spoiled)
        PROVE  /\ Following(spoiled)'
               /\ line' # <<>> => accepted' = accepted
               /\ line' = <<>> => accepted' = IF ~spoiled /\ ~noisy
                                              THEN Append(accepted, packet) ELSE accepted
    BY <1>1, <1>2, <1>5, FollowingByte
  <1>6. DataNoise'
    <2> SUFFICES ASSUME noise = "data" PROVE ~noisy' /\ Following(packetSpoiled)'
      BY <1>1 DEF DataNoise
    <2>1. ~noisy /\ Following(packetSpoiled)
      BY <1>2 DEF DataNoise
    <2>2. PICK spoiled \in BOOLEAN : spoiled = packetSpoiled
      BY <1>4
    <2>3. Following(spoiled)'
      BY <1>5, <2>1, <2>2
    <2>4. Following(packetSpoiled)'
      BY <1>1, <2>2, <2>3 DEF Following
    <2> QED
      BY <1>1, <2>1, <2>4
  <1>7. AnyNoise'
    <2> SUFFICES ASSUME noise = "any"
                 PROVE  /\ ~packetSpoiled
                        /\ noisy => calm' = 0 /\ ~fresh
                        /\ ~noisy => Following(FALSE)' \/ Skipping'
                                       \/ Rest(parser') + calm' <= LongestRest
                        /\ fresh => /\ ~noisy /\ Following(FALSE)'
                                    /\ line' = <<>> =>
                                         accepted' # <<>> /\ accepted'[Len(accepted')] = packet
      BY <1>1 DEF AnyNoise
    <2>1. ~packetSpoiled /\ (noisy => calm = 0 /\ ~fresh)
      BY <1>2 DEF AnyNoise
    <2>2. noisy => calm' = 0
      BY <1>1, <2>1 DEF Counted
    <2>3. ASSUME ~noisy
          PROVE  Following(FALSE)' \/ Skipping' \/ Rest(parser') + calm' <= LongestRest
      <3>1. CASE Following(FALSE)
        BY <1>5, <3>1
      <3>2. CASE Skipping
        <4>1. Plain(packet)
          BY <1>1, <1>2, NextByte
        <4> QED
          BY <1>1, <1>2, <3>2, <4>1, SkippingByte
      <3>3. CASE Rest(parser) + calm <= LongestRest /\ ~Following(FALSE) /\ ~Skipping
        <4>1. parser.state # "WAITING_START_CODE"
          <5> SUFFICES ASSUME parser.state = "WAITING_START_CODE" PROVE FALSE
            OBVIOUS
          <5>1. Len(line) \in 1 .. Len(packet) + 5 /\ Len(packet) \in 1 .. lenMax
                /\ Len(packet) \in Nat
            BY <1>1, <1>2, NextByte
          <5>2. Len(packet) + 5 - Len(line) = 0
            BY <1>1, <3>3, <5>1 DEF Skipping
          <5>3. 0 < 4 /\ ~(0 >= 4) /\ 0 \notin 1 .. 2 /\ 0 # 3 /\ 0 \notin 4 .. Len(packet) + 3
                /\ 0 # Len(packet) + 4
            BY <5>1
          <5>4. Following(FALSE)
            BY <1>1, <5>2, <5>3 DEF Following, Follows
          <5> QED
            BY <3>3, <5>4
        <4>2. Rest(parser') <= Rest(parser) - 1
          BY <1>1, <1>4, <4>1, RestStep DEF Parse
        <4>3. Rest(parser) \in 0 .. LongestRest /\ Rest(parser') \in 0 .. LongestRest
          <5>1. parser' \in Parsers
            BY <1>1, <1>2, <1>4, Parsed
          <5> QED
            BY <1>4, <5>1, RestIs
        <4>4. calm' \in 0 .. LongestRest /\ calm' <= calm + 1
          BY <1>1, <1>4 DEF Counted
        <4>5. ASSUME NEW r \in Int, NEW s \in Int, NEW k \in Int, NEW l \in Int, NEW m \in Int,
                     r + k <= m, s <= r - 1, l <= k + 1
              PROVE  s + l <= m
          BY <4>5
        <4>6. Rest(parser') + calm' <= LongestRest
          BY <1>4, <3>3, <4>2, <4>3, <4>4, <4>5
        <4> QED
          BY <4>6
      <3> QED
        BY <1>2, <2>3, <3>1, <3>2, <3>3 DEF AnyNoise
    <2>4. ASSUME fresh
          PROVE  /\ ~noisy /\ Following(FALSE)'
                 /\ line' = <<>> => accepted' # <<>> /\ accepted'[Len(accepted')] = packet
      <3>1. ~noisy /\ Following(FALSE)
        BY <1>2, <2>4 DEF AnyNoise
      <3>2. Following(FALSE)' /\ (line' = <<>> => accepted' = Append(accepted, packet))
        BY <1>5, <3>1
      <3>3. accepted \in Seq(Seq(Byte)) /\ packet \in Seq(Byte)
        BY <1>1, <1>2, NextByte DEF BufferInv, ParserTypeOK
      <3>4. Append(accepted, packet) # <<>>
            /\ Append(accepted, packet)[Len(Append(accepted, packet))] = packet
        BY <3>3
      <3> QED
        BY <3>1, <3>2, <3>4
    <2> QED
      BY <2>1, <2>2, <2>3, <2>4
  <1> QED
    BY <1>3, <1>6, <1>7

(* A byte that came as another one. *)
LEMMA ChangedByte ==
    ASSUME LineInv, NEW c \in Byte, ByteChanges(c)
    PROVE  Following(TRUE)' /\ accepted' = accepted
  <1> DEFINE n == Len(packet)
             k == n + 5 - Len(line)
  <1>1. /\ noise = "data" /\ ~packetSpoiled /\ line # <<>> /\ Len(line) <= n + 1
        /\ c # Head(line) /\ Parse(c) /\ line' = Tail(line) /\ packet' = packet
    BY DEF ByteChanges
  <1>2. BufferInv /\ OnLine /\ DataNoise
    BY DEF LineInv
  <1>3. /\ packet \in Seq(Byte) /\ n \in 1 .. lenMax /\ n \in Nat
        /\ Len(line) \in 1 .. n + 5
        /\ k \in 0 .. n + 4 /\ Head(line) = Frame(packet)[k + 1]
        /\ k = n + 4 => Head(line) = CheckSum(packet)
        /\ Tail(line) = <<>> <=> k = n + 4
        /\ n + 5 - Len(Tail(line)) = k + 1
    BY <1>1, <1>2, NextByte
  <1>4. parser \in Parsers
    BY <1>2 DEF BufferInv, ParserTypeOK, Parsers
  <1>5. Follows(parser, k, packet, FALSE)
    <2>1. Following(packetSpoiled)
      BY <1>1, <1>2 DEF DataNoise
    <2>2. Follows(parser, k, packet, packetSpoiled)
      BY <1>1, <2>1 DEF Following
    <2> QED
      BY <1>1, <2>2 DEF Follows
  <1>6. k >= 4
    BY <1>1, <1>3
  <1>7. parser' = CfgParserPacket(parser, c)
        /\ (~Accepts(parser, c) => accepted' = accepted)
    BY <1>1 DEF Parse
  <1> HIDE DEF k, n
  <1>8. CASE k = n + 4
    <2>1. /\ CfgParserPacket(parser, c).state = "WAITING_START_CODE"
          /\ Accepts(parser, c) <=> c = CheckSum(packet)
      BY <1>3, <1>4, <1>5, <1>8, FollowsEnd DEF n
    <2> QED
      BY <1>1, <1>3, <1>7, <1>8, <2>1 DEF Following
  <1>9. CASE k # n + 4
    <2>1. k \in 4 .. n + 3
      BY <1>3, <1>6, <1>9
    <2>2. Follows(CfgParserPacket(parser, c), k + 1, packet, TRUE) /\ ~Accepts(parser, c)
      BY <1>1, <1>3, <1>4, <1>5, <2>1, FollowsChanged DEF n
    <2>3. line' # <<>> /\ Len(packet') + 5 - Len(line') = k + 1
      BY <1>1, <1>3, <1>9 DEF n
    <2> QED
      BY <1>1, <1>7, <2>2, <2>3 DEF Following
  <1> QED
    BY <1>8, <1>9

LEMMA LineChange ==
    ASSUME LineInv, NEW c \in Byte, ByteChanges(c)
    PROVE  OnLine' /\ DataNoise' /\ AnyNoise'
  <1>1. noise = "data" /\ noise' = noise /\ line # <<>> /\ line' = Tail(line)
        /\ packet' = packet /\ packetSpoiled' = TRUE /\ noisy' = noisy
    BY DEF ByteChanges
  <1>2. BufferInv /\ OnLine /\ DataNoise
    BY DEF LineInv
  <1>3. OnLine'
    BY <1>1, <1>2, NextByte DEF OnLine
  <1>4. Following(TRUE)'
    BY ChangedByte
  <1>5. Following(packetSpoiled)' <=> Following(TRUE)'
    BY <1>1 DEF Following
  <1>6. DataNoise'
    BY <1>1, <1>2, <1>4, <1>5 DEF DataNoise
  <1>7. AnyNoise'
    BY <1>1 DEF AnyNoise
  <1> QED
    BY <1>3, <1>6, <1>7

LEMMA LineNoise ==
    ASSUME LineInv, ByteLost \/ (\E c \in Byte : ByteInvented(c)) \/ NoiseEnds
    PROVE  OnLine' /\ DataNoise' /\ AnyNoise'
  <1>1. BufferInv /\ OnLine /\ DataNoise /\ AnyNoise
    BY DEF LineInv
  <1>2. /\ noisy /\ noise' = noise /\ packet' = packet /\ packetSpoiled' = packetSpoiled
        /\ calm' = calm /\ fresh' = fresh
    BY DEF ByteLost, ByteInvented, NoiseEnds
  <1>3. noise = "any" /\ ~packetSpoiled /\ calm = 0 /\ ~fresh
    <2>1. noise \in {"data", "any"} /\ noise # "data"
      BY <1>1, <1>2 DEF BufferInv, ParserTypeOK, DataNoise
    <2> QED
      BY <1>1, <1>2, <2>1 DEF AnyNoise
  <1>4. DataNoise'
    BY <1>2, <1>3 DEF DataNoise
  <1>5. CASE ByteLost
    <2>1. line # <<>> /\ line' = Tail(line) /\ noisy'
      BY <1>5 DEF ByteLost
    <2>2. OnLine'
      BY <1>1, <1>2, <2>1, NextByte DEF OnLine
    <2> QED
      BY <1>2, <1>3, <1>4, <2>1, <2>2 DEF AnyNoise
  <1>6. CASE \E c \in Byte : ByteInvented(c)
    <2>1. line' = line /\ noisy'
      BY <1>6 DEF ByteInvented
    <2> QED
      BY <1>1, <1>2, <1>3, <1>4, <2>1 DEF AnyNoise, OnLine
  <1>7. CASE NoiseEnds
    <2>1. line' = line /\ parser' = parser
      BY <1>7 DEF NoiseEnds
    <2>2. parser \in Parsers /\ LongestRest \in Nat
      BY <1>1, Longest DEF BufferInv, ParserTypeOK, Parsers, LongestRest
    <2>3. Rest(parser) \in 0 .. LongestRest
      BY <2>2, RestIs
    <2>4. Rest(parser') + calm' <= LongestRest
      BY <1>2, <1>3, <2>1, <2>2, <2>3
    <2>5. ~noisy'
      BY <1>7 DEF NoiseEnds
    <2> QED
      BY <1>1, <1>2, <1>3, <1>4, <2>1, <2>4, <2>5 DEF AnyNoise, OnLine
  <1> QED
    BY <1>5, <1>6, <1>7

LEMMA LineStep == LineInv /\ [ParserNext]_parserVars => LineInv'
  <1> SUFFICES ASSUME LineInv, [ParserNext]_parserVars PROVE LineInv'
    OBVIOUS
  <1>1. BufferInv'
    BY BufferStep DEF LineInv
  <1>2. CASE \E data \in PacketData[noise] : SendPacket(data)
    BY <1>1, <1>2, LineSend DEF LineInv
  <1>3. CASE ByteComes
    BY <1>1, <1>3, LineByte DEF LineInv
  <1>4. CASE \E c \in Byte : ByteChanges(c)
    BY <1>1, <1>4, LineChange DEF LineInv
  <1>5. CASE ByteLost \/ (\E c \in Byte : ByteInvented(c)) \/ NoiseEnds
    BY <1>1, <1>5, LineNoise DEF LineInv
  <1>6. CASE UNCHANGED parserVars
    BY <1>1, <1>6 DEF parserVars, LineInv, OnLine, DataNoise, AnyNoise, Following, Skipping
  <1> QED
    BY <1>2, <1>3, <1>4, <1>5, <1>6 DEF ParserNext

LEMMA LineAlways == ParserSpec => []LineInv
  BY LineInit, LineStep, PTL DEF ParserSpec

(* Once as many bytes have come as the longest packet has behind its start   *)
(* code, every packet without a start code inside is accepted as it was    *)
(* sent, for every length of them and whatever noise came before.          *)
THEOREM GetsBackInStep == ParserSpec => []Resynchronises
  <1>1. LineInv => Resynchronises
    BY DEF LineInv, AnyNoise, Following, Resynchronises
  <1> QED
    BY <1>1, LineAlways, PTL

(* A changed byte of its data or its sum costs the packet it is in: the sum  *)
(* of bytes notices one change, whatever the packet, and the next packet   *)
(* is not touched.                                                         *)
THEOREM LosesSpoiledPacketsOnly == ParserSpec => OnlySpoiledPacketsAreLost
  <1> DEFINE Cost == noise = "data" /\ line # <<>> /\ line' = <<>> =>
                       (accepted' # accepted <=> ~packetSpoiled')
  <1>1. LineInv /\ [ParserNext]_parserVars => [Cost]_parserVars
    <2> SUFFICES ASSUME LineInv, ParserNext, noise = "data", line # <<>>, line' = <<>>
                 PROVE  accepted' # accepted <=> ~packetSpoiled'
      OBVIOUS
    <2>1. BufferInv /\ OnLine /\ DataNoise /\ ~noisy
      BY DEF LineInv, DataNoise
    <2>2. CASE ByteComes
      <3>1. Parse(Head(line)) /\ line' = Tail(line) /\ packet' = packet
            /\ packetSpoiled' = packetSpoiled
        BY <2>2 DEF ByteComes
      <3>2. PICK spoiled \in BOOLEAN : spoiled = packetSpoiled
        BY <2>1 DEF BufferInv, ParserTypeOK
      <3>3. Following(spoiled)
        BY <2>1, <3>2 DEF DataNoise
      <3>4. accepted' = IF ~spoiled /\ ~noisy THEN Append(accepted, packet) ELSE accepted
        BY <2>1, <3>1, <3>3, FollowingByte
      <3>5. accepted \in Seq(Seq(Byte)) /\ packet \in Seq(Byte)
        BY <2>1, NextByte DEF BufferInv, ParserTypeOK
      <3>6. Append(accepted, packet) # accepted
        BY <3>5
      <3> QED
        BY <2>1, <3>1, <3>2, <3>4, <3>6
    <2>3. CASE \E c \in Byte : ByteChanges(c)
      <3>1. PICK c \in Byte : ByteChanges(c)
        BY <2>3
      <3>2. accepted' = accepted
        BY <3>1, ChangedByte
      <3>3. packetSpoiled' = TRUE
        BY <3>1 DEF ByteChanges
      <3> QED
        BY <3>2, <3>3
    <2>4. CASE ByteLost \/ (\E c \in Byte : ByteInvented(c)) \/ NoiseEnds
      BY <2>1, <2>4 DEF ByteLost, ByteInvented, NoiseEnds
    <2>5. CASE \E data \in PacketData[noise] : SendPacket(data)
      BY <2>5 DEF SendPacket
    <2> QED
      BY <2>2, <2>3, <2>4, <2>5 DEF ParserNext
  <1>2. OnlySpoiledPacketsAreLost <=> [][Cost]_parserVars
    BY DEF OnlySpoiledPacketsAreLost
  <1> QED
    BY <1>1, <1>2, LineAlways, PTL DEF ParserSpec

LEMMA AllOfIt ==
    ASSUME NEW S, NEW s \in Seq(S)
    PROVE  SubSeq(s, 1, Len(s)) = s
  <1> DEFINE t == SubSeq(s, 1, Len(s))
  <1>1. t \in Seq(S) /\ Len(t) = Len(s) /\ \A i \in 1 .. Len(s) : t[i] = s[i]
    OBVIOUS
  <1> HIDE DEF t
  <1>2. t = s
    BY <1>1
  <1> QED
    BY <1>2 DEF t

LEMMA OfOne ==
    ASSUME NEW x
    PROVE  SubSeq(<<x>>, 2, Len(<<x>>)) = <<>> /\ SubSeq(<<x>>, 1, Len(<<x>>)) = <<x>>
  <1>1. <<x>> \in Seq({x}) /\ Len(<<x>>) = 1
    OBVIOUS
  <1>2. SubSeq(<<x>>, 2, 1) = <<>>
    BY <1>1
  <1>3. SubSeq(<<x>>, 1, Len(<<x>>)) = <<x>>
    BY <1>1, AllOfIt
  <1> QED
    BY <1>1, <1>2, <1>3

(* The parser is a channel of whole packets: while only bytes of the data    *)
(* and the sums are changed, every packet comes out as it was sent, in     *)
(* order and once, or not at all.                                          *)
THEOREM ParserIsAChannel == ParserSpec => ImplementsPackets
  <1> DEFINE pend == IF noise = "any" \/ line = <<>> THEN <<>> ELSE <<packet>>
             took == IF noise = "any" THEN <<>> ELSE accepted
  <1>1. ParserInit => Packets!Init
    BY DEF ParserInit, Packets!Init
  <1>2. LineInv /\ [ParserNext]_parserVars => [Packets!Next]_<<TRUE, pend, took>>
    <2> SUFFICES ASSUME LineInv, ParserNext \/ UNCHANGED parserVars
                 PROVE  Packets!Next \/ (pend' = pend /\ took' = took)
      BY DEF parserVars
    <2>1. BufferInv /\ OnLine /\ DataNoise /\ noise \in {"data", "any"}
      BY DEF LineInv, BufferInv, ParserTypeOK
    <2>2. noise' = noise
      BY DEF ParserNext, SendPacket, ByteComes, ByteChanges, ByteInvented, ByteLost,
             NoiseEnds, parserVars
    <2>3. CASE noise = "any" \/ UNCHANGED parserVars
      BY <2>2, <2>3 DEF parserVars
    <2>4. CASE noise = "data" /\ ParserNext
      <3>1. ~noisy /\ noise # "any" /\ pend = (IF line = <<>> THEN <<>> ELSE <<packet>>)
            /\ pend' = (IF line' = <<>> THEN <<>> ELSE <<packet'>>)
            /\ took = accepted /\ took' = accepted'
        BY <2>1, <2>2, <2>4 DEF DataNoise
      <3>2. CASE \E data \in PacketData[noise] : SendPacket(data)
        <4>1. PICK data \in PacketData[noise] : SendPacket(data)
          BY <3>2
        <4>2. line = <<>> /\ line' = Frame(data) /\ packet' = data /\ accepted' = accepted
              /\ Frame(data) # <<>> /\ data \in PacketData["data"]
          BY <2>1, <2>4, <4>1, PacketIs DEF SendPacket
        <4>3. pend' = Append(pend, data)
          BY <3>1, <4>2
        <4> QED
          BY <3>1, <4>2, <4>3 DEF Packets!Next, Packets!Arrive
      <3>3. ASSUME line # <<>>, line' = Tail(line), packet' = packet,
                   line' # <<>> => accepted' = accepted,
                   line' = <<>> => accepted' = accepted \/ accepted' = Append(accepted, packet)
            PROVE  Packets!Next \/ (pend' = pend /\ took' = took)
        <4>1. CASE line' # <<>>
          BY <3>1, <3>3, <4>1
        <4>2. CASE line' = <<>>
          <5>1. pend = <<packet>> /\ pend' = <<>> /\ DOMAIN pend = 1 .. 1 /\ pend[1] = packet
                /\ Len(pend) = 1
            BY <3>1, <3>3, <4>2
          <5>2. SubSeq(pend, 2, Len(pend)) = <<>> /\ SubSeq(pend, 1, Len(pend)) = pend
            BY <5>1, Zenon, OfOne
          <5>3. CASE accepted' = accepted
            <6> DEFINE at == [j \in {} |-> 1]
            <6>1. DOMAIN pend' = {} /\ at \in [DOMAIN pend' -> DOMAIN pend]
              BY <5>1
            <6>2. pend' = [j \in DOMAIN at |-> pend[at[j]]]
              BY <5>1
            <6>3. \A j, k \in DOMAIN at : j < k => at[j] < at[k]
              OBVIOUS
            <6>4. Packets!Remain(1)
              BY <5>2, <6>1, <6>2, <6>3 DEF Packets!Remain
            <6>5. Packets!Lose
              BY <3>1, <5>3, <6>4 DEF Packets!Lose
            <6> QED
              BY <6>5 DEF Packets!Next
          <5>4. CASE accepted' = Append(accepted, packet)
            <6>1. Packets!Remain(1 + 1)
              BY <5>1, <5>2 DEF Packets!Remain
            <6>2. Packets!Take
              BY <3>1, <5>1, <5>4, <6>1 DEF Packets!Take
            <6> QED
              BY <6>2 DEF Packets!Next
          <5> QED
            BY <3>3, <4>2, <5>3, <5>4
        <4> QED
          BY <4>1, <4>2
      <3>4. CASE ByteComes
        <4>1. line # <<>> /\ Parse(Head(line)) /\ line' = Tail(line) /\ packet' = packet
          BY <3>4 DEF ByteComes
        <4>2. PICK spoiled \in BOOLEAN : spoiled = packetSpoiled
          BY <2>1 DEF BufferInv, ParserTypeOK
        <4>3. Following(spoiled)
          BY <2>1, <2>4, <4>2 DEF DataNoise
        <4>4. /\ line' # <<>> => accepted' = accepted
              /\ line' = <<>> =>
                   accepted' = IF ~spoiled /\ ~noisy THEN Append(accepted, packet) ELSE accepted
          BY <2>1, <4>1, <4>3, FollowingByte
        <4> QED
          BY <3>3, <4>1, <4>4
      <3>5. CASE \E c \in Byte : ByteChanges(c)
        <4>1. PICK c \in Byte : ByteChanges(c)
          BY <3>5
        <4>2. line # <<>> /\ line' = Tail(line) /\ packet' = packet
          BY <4>1 DEF ByteChanges
        <4>3. accepted' = accepted
          BY <4>1, ChangedByte
        <4> QED
          BY <3>3, <4>2, <4>3
      <3> QED
        BY <2>4, <3>1, <3>2, <3>4, <3>5
           DEF ParserNext, ByteLost, ByteInvented, NoiseEnds
    <2> QED
      BY <2>1, <2>3, <2>4
  <1> QED
    BY <1>1, <1>2, LineAlways, PTL DEF ParserSpec, ImplementsPackets, Packets!Spec

-----------------------------------------------------------------------------
(* Replies: lengths and divisions *)

LEMMA ReplyFacts ==
    /\ ReplySize \in Nat /\ ReplySize >= 1 /\ ReplySize < ByteRange
    /\ ReplySize \in 1 .. StartCode - 1 /\ Opcode # StartCode
    /\ FrameSize = ReplySize + 5 /\ FrameSize \in Nat \ {0}
    /\ BufferSize \in Nat /\ BufferSize >= FrameSize
    /\ \A data \in ReplyData :
         /\ data \in Seq(Byte) /\ Len(data) = ReplySize
         /\ Frame(data) \in Seq(Byte) /\ Len(Frame(data)) = FrameSize
         /\ Frame(data)[1] = StartCode /\ Frame(data)[2] = ReplySize
         /\ Frame(data)[3] = 0 /\ Frame(data)[4] = Opcode
         /\ \A i \in 1 .. ReplySize : Frame(data)[4 + i] = data[i]
         /\ Frame(data)[FrameSize] = CheckSum(data)
  <1> DEFINE R == ReplySize
  <1>1. R \in Nat /\ R >= 1 /\ R < ByteRange /\ R \in 1 .. StartCode - 1
        /\ Opcode # StartCode /\ FrameSize = R + 5
    BY HostFramesAssumption, RangeOfBytes DEF Byte, FrameSize
  <1>2. FrameSize \in Nat \ {0}
    BY <1>1
  <1>3. ASSUME NEW data \in ReplyData
        PROVE  /\ data \in Seq(Byte) /\ Len(data) = R
               /\ Frame(data) \in Seq(Byte) /\ Len(Frame(data)) = R + 5
               /\ Frame(data)[1] = StartCode /\ Frame(data)[2] = R
               /\ Frame(data)[3] = 0 /\ Frame(data)[4] = Opcode
               /\ \A i \in 1 .. R : Frame(data)[4 + i] = data[i]
               /\ Frame(data)[R + 5] = CheckSum(data)
    <2>1. data \in Seq(Byte) /\ Len(data) = R /\ Len(data) < ByteRange
      BY <1>1, HostFramesAssumption
    <2> QED
      BY <2>1, FrameIs
  <1> QED
    BY <1>1, <1>2, <1>3, HostFramesAssumption

LEMMA Product ==
    ASSUME NEW f \in Nat, NEW a \in Int, NEW b \in Int, a <= b
    PROVE  f * a <= f * b
  <1>1. b - a \in Nat
    OBVIOUS
  <1>2. \A x, y \in Nat : x * y >= 0
    OBVIOUS
  <1>3. f * (b - a) >= 0
    BY <1>1, <1>2
  <1>4. f * (b - a) = f * b - f * a
    OBVIOUS
  <1> QED
    BY <1>3, <1>4

LEMMA Multiples ==
    ASSUME NEW f \in Nat, NEW a \in Int, NEW b \in Int, f * a < f * b + f
    PROVE  a <= b
  <1>1. SUFFICES ASSUME b + 1 <= a PROVE FALSE
    OBVIOUS
  <1>2. f * (b + 1) <= f * a
    BY <1>1, Product
  <1>3. f * (b + 1) = f * b + f
    OBVIOUS
  <1>4. f * a \in Int /\ f * b \in Int
    OBVIOUS
  <1> QED
    BY <1>2, <1>3, <1>4

LEMMA Division ==
    ASSUME NEW f \in Nat \ {0}, NEW p \in Nat
    PROVE  p \div f \in Nat /\ p % f \in 0 .. f - 1 /\ p = f * (p \div f) + (p % f)
  BY SMT

LEMMA DivisionIs ==
    ASSUME NEW f \in Nat \ {0}, NEW q \in Nat, NEW r \in 0 .. f - 1
    PROVE  f * q + r \in Nat /\ (f * q + r) \div f = q /\ (f * q + r) % f = r
  <1> DEFINE p == f * q + r
             d == p \div f
             m == p % f
  <1>1. f * q \in Nat
    OBVIOUS
  <1>2. p \in Nat
    BY <1>1
  <1>3. d \in Nat /\ m \in 0 .. f - 1 /\ p = f * d + m
    BY <1>2, Division
  <1> HIDE DEF d, m
  <1>4. f * d \in Nat
    BY <1>3
  <1>5. f * d < f * q + f /\ f * q < f * d + f
    BY <1>1, <1>3, <1>4
  <1>6. d <= q /\ q <= d
    BY <1>3, <1>5, Multiples
  <1>7. d = q
    BY <1>3, <1>6
  <1>8. m = r
    BY <1>1, <1>3, <1>7
  <1> QED
    BY <1>2, <1>7, <1>8 DEF d, m

(* The replies that have a byte on the wire.                                *)
LEMMA OnWireIs ==
    ASSUME wire \in Seq(Byte)
    PROVE  /\ OnWire \in Nat
           /\ FrameSize * OnWire < Len(wire) + FrameSize
           /\ Len(wire) <= FrameSize * OnWire
  <1> DEFINE p == Len(wire) + FrameSize - 1
  <1>1. FrameSize \in Nat \ {0} /\ Len(wire) \in Nat /\ p \in Nat
    BY ReplyFacts
  <1>2. /\ p \div FrameSize \in Nat /\ p % FrameSize \in 0 .. FrameSize - 1
        /\ p = FrameSize * (p \div FrameSize) + (p % FrameSize)
    BY <1>1, Division
  <1>3. OnWire = p \div FrameSize
    BY DEF OnWire
  <1>4. FrameSize * OnWire \in Nat
    BY <1>1, <1>2, <1>3
  <1> HIDE DEF p
  <1>5. p = FrameSize * OnWire + (p % FrameSize)
    BY <1>2, <1>3
  <1> QED
    BY <1>1, <1>2, <1>3, <1>4, <1>5 DEF p

(* No other number of replies has.                                          *)
LEMMA OnWireOnly ==
    ASSUME wire \in Seq(Byte), NEW m \in Nat, FrameSize * m < Len(wire) + FrameSize,
           Len(wire) <= FrameSize * m
    PROVE  OnWire = m
  <1>1. /\ OnWire \in Nat /\ FrameSize * OnWire < Len(wire) + FrameSize
        /\ Len(wire) <= FrameSize * OnWire
    BY OnWireIs
  <1>2. FrameSize \in Nat /\ Len(wire) \in Nat
    BY ReplyFacts
  <1>3. FrameSize * OnWire \in Nat /\ FrameSize * m \in Nat
    BY <1>1, <1>2
  <1>4. FrameSize * OnWire < FrameSize * m + FrameSize
        /\ FrameSize * m < FrameSize * OnWire + FrameSize
    BY <1>1, <1>2, <1>3
  <1>5. OnWire <= m /\ m <= OnWire
    BY <1>1, <1>2, <1>4, Multiples
  <1> QED
    BY <1>1, <1>5

-----------------------------------------------------------------------------
(* The tool's look at its buffer *)

(* The bytes of a buffer that begins like the frame of a reply.             *)
Begins(buf, data) ==
    \A i \in 1 .. 4 : i <= Len(buf) => buf[i] = Frame(data)[i]

LEMMA LengthFound ==
    ASSUME NEW data \in ReplyData, NEW buf \in Seq(Byte), buf # <<>>, Begins(buf, data)
    PROVE  /\ Complete(buf) <=> Len(buf) >= FrameSize
           /\ Complete(buf) => LengthIn(buf) = ReplySize
  <1>1. Len(buf) \in Nat \ {0} /\ DOMAIN buf = 1 .. Len(buf)
    <2>1. Len(buf) \in Nat /\ DOMAIN buf = 1 .. Len(buf) /\ (Len(buf) = 0 => buf = <<>>)
      OBVIOUS
    <2> QED
      BY <2>1
  <1>2. /\ FrameSize = ReplySize + 5 /\ ReplySize \in Nat /\ ReplySize >= 1
        /\ ReplySize < ByteRange
        /\ Frame(data)[2] = ReplySize /\ Frame(data)[3] = 0
    BY ReplyFacts
  <1>3. ByteAt(buf, 2) = (IF Len(buf) >= 2 THEN ReplySize ELSE 0) /\ ByteAt(buf, 3) = 0
    BY <1>1, <1>2 DEF ByteAt, Begins
  <1>4. ByteRange * 0 = 0 /\ ByteRange - 1 < (ByteRange * ByteRange) \div 2
    <2>1. ByteRange \in Nat /\ ByteRange >= 2
      BY RangeOfBytes
    <2>2. 2 * ByteRange <= ByteRange * ByteRange /\ ByteRange * ByteRange \in Nat
      BY <2>1, Product
    <2> DEFINE square == ByteRange * ByteRange
    <2> HIDE DEF square
    <2>3. square \in Nat /\ 2 * ByteRange <= square
      BY <2>2 DEF square
    <2>4. ByteRange - 1 < square \div 2
      BY <2>1, <2>3
    <2> QED
      BY <2>1, <2>4 DEF square
  <1>5. LengthIn(buf) = ByteAt(buf, 2)
    <2> DEFINE half == (ByteRange * ByteRange) \div 2
               n == ByteAt(buf, 2) + ByteRange * ByteAt(buf, 3)
    <2>1. n = ByteAt(buf, 2) /\ ByteAt(buf, 2) \in Nat /\ ByteAt(buf, 2) <= ReplySize
      BY <1>2, <1>3, <1>4
    <2>2. ByteRange - 1 < half
      BY <1>4
    <2>3. half \in Int
      BY RangeOfBytes
    <2>4. LengthIn(buf) = IF n < half THEN n ELSE n - ByteRange * ByteRange
      BY DEF LengthIn
    <2> HIDE DEF half, n
    <2>5. n < half
      BY <1>2, <2>1, <2>2, <2>3, RangeOfBytes
    <2> QED
      BY <2>1, <2>4, <2>5
  <1> QED
    BY <1>1, <1>2, <1>3, <1>5 DEF Complete

LEMMA DataFound ==
    ASSUME NEW data \in ReplyData, NEW buf \in Seq(Byte), buf # <<>>, Begins(buf, data),
           Len(buf) >= FrameSize
    PROVE  /\ DataIn(buf) \in Seq(Byte) /\ Len(DataIn(buf)) = ReplySize
           /\ \A i \in 1 .. ReplySize : DataIn(buf)[i] = buf[4 + i]
           /\ Valid(buf) <=> buf[FrameSize] = CheckSum(DataIn(buf))
  <1>1. LengthIn(buf) = ReplySize
    BY LengthFound
  <1>2. /\ FrameSize = ReplySize + 5 /\ ReplySize \in Nat /\ ReplySize >= 1
        /\ Len(buf) \in Nat /\ DOMAIN buf = 1 .. Len(buf)
    BY ReplyFacts
  <1>3. DataIn(buf) = SubSeq(buf, 5, 4 + ReplySize)
    BY <1>1 DEF DataIn
  <1>4. 4 + ReplySize \in Nat /\ 4 + ReplySize <= Len(buf) /\ 4 + ReplySize - 5 + 1 = ReplySize
    BY <1>2
  <1> DEFINE last == 4 + ReplySize
  <1>5. /\ SubSeq(buf, 5, last) \in Seq(Byte) /\ Len(SubSeq(buf, 5, last)) = ReplySize
        /\ \A i \in 1 .. ReplySize : SubSeq(buf, 5, last)[i] = buf[5 + i - 1]
    BY <1>2, <1>4
  <1>6. \A i \in 1 .. ReplySize : 5 + i - 1 = 4 + i
    OBVIOUS
  <1>7. ByteAt(buf, 5 + ReplySize) = buf[FrameSize]
    BY <1>2 DEF ByteAt
  <1> QED
    BY <1>1, <1>2, <1>3, <1>5, <1>6, <1>7 DEF Valid

(* Sequences of the same bytes are the same.                                *)
LEMMA SameBytes ==
    ASSUME NEW s \in Seq(Byte), NEW t \in Seq(Byte), Len(s) = Len(t),
           \A i \in 1 .. Len(s) : s[i] = t[i]
    PROVE  s = t
  OBVIOUS

(* A frame that came as it was sent.                                        *)
LEMMA WholeFound ==
    ASSUME NEW data \in ReplyData, NEW buf \in Seq(Byte), Len(buf) >= FrameSize,
           \A i \in 1 .. FrameSize : buf[i] = Frame(data)[i]
    PROVE  Complete(buf) /\ Valid(buf) /\ DataIn(buf) = data
  <1>1. /\ FrameSize = ReplySize + 5 /\ ReplySize \in Nat /\ ReplySize >= 1
        /\ data \in Seq(Byte) /\ Len(data) = ReplySize
        /\ \A i \in 1 .. ReplySize : Frame(data)[4 + i] = data[i]
        /\ Frame(data)[FrameSize] = CheckSum(data)
    BY ReplyFacts
  <1>2. buf # <<>> /\ Begins(buf, data)
    BY <1>1 DEF Begins
  <1>3. /\ DataIn(buf) \in Seq(Byte) /\ Len(DataIn(buf)) = ReplySize
        /\ \A i \in 1 .. ReplySize : DataIn(buf)[i] = buf[4 + i]
        /\ Valid(buf) <=> buf[FrameSize] = CheckSum(DataIn(buf))
    BY <1>2, DataFound
  <1>4. \A i \in 1 .. ReplySize : 4 + i \in 1 .. FrameSize
    BY <1>1
  <1>5. DataIn(buf) = data
    BY <1>1, <1>3, <1>4, SameBytes
  <1>6. FrameSize \in 1 .. FrameSize
    BY <1>1
  <1> QED
    BY <1>1, <1>2, <1>3, <1>5, <1>6, LengthFound

(* Sums of bytes of which one is another.                                   *)
LEMMA OneDiffers ==
    ASSUME NEW s \in Seq(Byte), NEW t \in Seq(Byte), Len(s) = Len(t), NEW j \in 1 .. Len(s),
           s[j] # t[j], \A i \in 1 .. Len(s) : i # j => s[i] = t[i]
    PROVE  CheckSum(s) # CheckSum(t)
  <1> DEFINE T == {n \in Nat : n <= Len(s) =>
                     IF n < j THEN Sums(s)[n] = Sums(t)[n] ELSE Sums(s)[n] # Sums(t)[n]}
  <1>1. 0 \in T
    <2>1. Sums(s)[0] = 0 /\ Sums(t)[0] = 0
      BY SumsOf
    <2> QED
      BY <2>1
  <1>2. ASSUME NEW n \in Nat, n \in T PROVE n + 1 \in T
    <2> SUFFICES ASSUME n + 1 <= Len(s)
                 PROVE  IF n + 1 < j THEN Sums(s)[n + 1] = Sums(t)[n + 1]
                        ELSE Sums(s)[n + 1] # Sums(t)[n + 1]
      OBVIOUS
    <2>1. IF n < j THEN Sums(s)[n] = Sums(t)[n] ELSE Sums(s)[n] # Sums(t)[n]
      BY <1>2
    <2>2. n + 1 \in 1 .. Len(s) /\ n \in 0 .. Len(s) /\ n + 1 - 1 = n
      OBVIOUS
    <2>3. /\ Sums(s)[n + 1] = (Sums(s)[n] + s[n + 1]) % ByteRange
          /\ Sums(t)[n + 1] = (Sums(t)[n] + t[n + 1]) % ByteRange
          /\ Sums(s)[n] \in Byte /\ Sums(t)[n] \in Byte
          /\ s[n + 1] \in Byte /\ t[n + 1] \in Byte
      BY <2>2, SumsOf
    <2>4. CASE n + 1 = j
      <3>1. Sums(s)[n] = Sums(t)[n] /\ s[n + 1] # t[n + 1]
        BY <2>1, <2>4
      <3>2. (Sums(t)[n] + s[n + 1]) % ByteRange # (Sums(t)[n] + t[n + 1]) % ByteRange
        BY <2>3, <3>1, SumsDiffer
      <3> QED
        BY <2>3, <2>4, <3>1, <3>2
    <2>5. CASE n + 1 < j
      <3>1. s[n + 1] = t[n + 1] /\ Sums(s)[n] = Sums(t)[n]
        BY <2>1, <2>2, <2>5
      <3> QED
        BY <2>3, <2>5, <3>1
    <2>6. CASE n + 1 > j
      <3>1. s[n + 1] = t[n + 1] /\ Sums(s)[n] # Sums(t)[n]
        BY <2>1, <2>2, <2>6
      <3>2. (Sums(s)[n] + t[n + 1]) % ByteRange # (Sums(t)[n] + t[n + 1]) % ByteRange
        BY <2>3, <3>1, SumsDiffer
      <3> QED
        BY <2>3, <2>6, <3>1, <3>2
    <2> QED
      BY <2>4, <2>5, <2>6
  <1>3. \A n \in Nat : n \in T
    <2> HIDE DEF T
    <2> QED
      BY <1>1, <1>2, Induction
  <1>4. Len(s) \in T /\ Len(s) \in Nat /\ ~(Len(s) < j)
    BY <1>3
  <1> QED
    BY <1>4, SumsOf

(* A frame of which a byte of the data, or their sum, came as another one.  *)
LEMMA SpoiltFound ==
    ASSUME NEW data \in ReplyData, NEW buf \in Seq(Byte), Len(buf) = FrameSize,
           NEW j \in 5 .. FrameSize, buf[j] # Frame(data)[j],
           \A i \in 1 .. FrameSize : i # j => buf[i] = Frame(data)[i]
    PROVE  Complete(buf) /\ ~Valid(buf)
  <1>1. /\ FrameSize = ReplySize + 5 /\ ReplySize \in Nat /\ ReplySize >= 1
        /\ data \in Seq(Byte) /\ Len(data) = ReplySize
        /\ \A i \in 1 .. ReplySize : Frame(data)[4 + i] = data[i]
        /\ Frame(data)[FrameSize] = CheckSum(data)
    BY ReplyFacts
  <1>2. buf # <<>> /\ Begins(buf, data)
    BY <1>1 DEF Begins
  <1>3. /\ DataIn(buf) \in Seq(Byte) /\ Len(DataIn(buf)) = ReplySize
        /\ \A i \in 1 .. ReplySize : DataIn(buf)[i] = buf[4 + i]
        /\ Valid(buf) <=> buf[FrameSize] = CheckSum(DataIn(buf))
    BY <1>2, DataFound
  <1>4. Complete(buf)
    BY <1>1, <1>2, LengthFound
  <1>5. CASE j = FrameSize
    <2>1. \A i \in 1 .. ReplySize : 4 + i \in 1 .. FrameSize /\ 4 + i # j
      BY <1>1, <1>5
    <2>2. DataIn(buf) = data
      <3>1. \A i \in 1 .. ReplySize : DataIn(buf)[i] = data[i]
        BY <1>1, <1>3, <2>1
      <3> QED
        BY <1>1, <1>3, <3>1, SameBytes
    <2> QED
      BY <1>1, <1>3, <1>4, <1>5, <2>2
  <1>6. CASE j # FrameSize
    <2> DEFINE k == j - 4
    <2>1. k \in 1 .. ReplySize /\ 4 + k = j
      BY <1>1, <1>6
    <2>2. \A i \in 1 .. ReplySize : 4 + i \in 1 .. FrameSize /\ (i # k => 4 + i # j)
      BY <1>1, <2>1
    <2> HIDE DEF k
    <2>3. DataIn(buf)[k] # data[k]
      BY <1>1, <1>3, <2>1
    <2>4. \A i \in 1 .. ReplySize : i # k => DataIn(buf)[i] = data[i]
      BY <1>1, <1>3, <2>2
    <2>5. CheckSum(DataIn(buf)) # CheckSum(data)
      BY <1>1, <1>3, <2>1, <2>3, <2>4, OneDiffers
    <2>6. buf[FrameSize] = CheckSum(data)
      BY <1>1, <1>6
    <2> QED
      BY <1>3, <1>4, <2>5, <2>6
  <1> QED
    BY <1>5, <1>6

-----------------------------------------------------------------------------
(***************************************************************************)
(* FramesInv: bytes have positions among all that were sent, and the tool  *)
(* holds the first bytes of one reply, or none.                            *)
(***************************************************************************)
SentOf(replies, p) == Frame(replies[(p \div FrameSize) + 1])[(p % FrameSize) + 1]
Sent(p) == SentOf(repliesSent, p)

Consumed == FrameSize * Len(repliesSent) - Len(wire)

(* The bytes of the buffer are those from the q-th reply on.                *)
PartOf(buf, q) == \A i \in 1 .. Len(buf) : buf[i] = Sent(FrameSize * q + i - 1)

Quiet == ~spoils =>
    /\ \A r \in DOMAIN repliesSent : Plain(repliesSent[r])
    /\ Len(wire) <= FrameSize * Len(repliesSent)
    /\ \A i \in 1 .. Len(wire) : wire[i] = Sent(Consumed + i - 1)
    /\ comTempBuffer # <<>> =>
         \E q \in Nat : /\ PartOf(comTempBuffer, q)
                        /\ FrameSize * q + Len(comTempBuffer) = Consumed

(* The bytes of the one reply that is on its way, read and not yet read.    *)
Received(i) ==
    IF i <= Len(comTempBuffer) THEN comTempBuffer[i] ELSE wire[i - Len(comTempBuffer)]

LastFrame == Frame(repliesSent[Len(repliesSent)])

OneByOne == spoils =>
    /\ wire = <<>> => comTempBuffer = <<>>
    /\ wire # <<>> =>
         /\ repliesSent # <<>> /\ Len(comTempBuffer) + Len(wire) = FrameSize
         /\ IF Len(repliesSent) \in repliesSpoiled
            THEN \E j \in 5 .. FrameSize :
                   /\ Received(j) # LastFrame[j]
                   /\ \A i \in 1 .. FrameSize : i # j => Received(i) = LastFrame[i]
            ELSE \A i \in 1 .. FrameSize : Received(i) = LastFrame[i]

FramesInv == FramesTypeOK /\ Len(comTempBuffer) < FrameSize /\ Quiet /\ OneByOne

(* A position among the replies.                                            *)
LEMMA PositionIs ==
    ASSUME repliesSent \in Seq(ReplyData),
           NEW p \in Nat, p < FrameSize * Len(repliesSent)
    PROVE  LET q == p \div FrameSize IN
           /\ q \in Nat /\ q + 1 \in 1 .. Len(repliesSent)
           /\ p % FrameSize \in 0 .. FrameSize - 1
           /\ p = FrameSize * q + (p % FrameSize)
           /\ repliesSent[q + 1] \in ReplyData
  <1> DEFINE q == p \div FrameSize
             n == Len(repliesSent)
  <1>1. FrameSize \in Nat \ {0} /\ n \in Nat
    BY ReplyFacts
  <1>2. q \in Nat /\ p % FrameSize \in 0 .. FrameSize - 1 /\ p = FrameSize * q + (p % FrameSize)
    BY <1>1, Division
  <1> HIDE DEF q, n
  <1>3. FrameSize * q \in Nat /\ FrameSize * n \in Nat /\ p % FrameSize \in Nat
    BY <1>1, <1>2
  <1>4. FrameSize * q < FrameSize * (n - 1) + FrameSize
    <2>1. FrameSize * (n - 1) = FrameSize * n - FrameSize
      BY <1>1
    <2>2. FrameSize * q < FrameSize * n
      BY <1>2, <1>3 DEF n
    <2> QED
      BY <1>1, <1>3, <2>1, <2>2
  <1>5. q <= n - 1
    BY <1>1, <1>2, <1>4, Multiples
  <1>6. q + 1 \in 1 .. n
    BY <1>1, <1>2, <1>5
  <1>7. repliesSent[q + 1] \in ReplyData
    BY <1>6 DEF n
  <1> QED
    BY <1>2, <1>6, <1>7 DEF q, n

LEMMA SentAt ==
    ASSUME NEW q \in Nat, NEW i \in 1 .. FrameSize
    PROVE  Sent(FrameSize * q + i - 1) = Frame(repliesSent[q + 1])[i]
  <1>1. FrameSize \in Nat \ {0} /\ FrameSize * q \in Nat /\ i - 1 \in 0 .. FrameSize - 1
    BY ReplyFacts
  <1>2. (FrameSize * q + (i - 1)) \div FrameSize = q
        /\ (FrameSize * q + (i - 1)) % FrameSize = i - 1
    BY <1>1, DivisionIs
  <1>3. FrameSize * q + (i - 1) = FrameSize * q + i - 1 /\ (i - 1) + 1 = i
    BY <1>1
  <1> QED
    BY <1>2, <1>3 DEF Sent, SentOf

(* Without noise only the first byte of a reply is a start code.            *)
LEMMA StartsReply ==
    ASSUME repliesSent \in Seq(ReplyData),
           \A r \in DOMAIN repliesSent : Plain(repliesSent[r]),
           NEW p \in Nat, p < FrameSize * Len(repliesSent), Sent(p) = StartCode
    PROVE  p = FrameSize * (p \div FrameSize)
  <1> DEFINE q == p \div FrameSize
             k == p % FrameSize
  <1>1. /\ q \in Nat /\ q + 1 \in 1 .. Len(repliesSent) /\ k \in 0 .. FrameSize - 1
        /\ p = FrameSize * q + k /\ repliesSent[q + 1] \in ReplyData
    BY PositionIs
  <1>2. Sent(p) = Frame(repliesSent[q + 1])[k + 1]
    BY DEF Sent, SentOf
  <1> HIDE DEF q, k
  <1>3. Plain(repliesSent[q + 1])
    BY <1>1
  <1>4. CASE k = 0
    BY <1>1, <1>4, ReplyFacts DEF q
  <1>5. CASE k # 0
    <2> DEFINE d == repliesSent[q + 1]
    <2>1. d \in Seq(Byte) /\ Len(d) = ReplySize /\ FrameSize = ReplySize + 5
          /\ ReplySize \in 1 .. StartCode - 1 /\ ReplySize \in Nat /\ Opcode # StartCode
      BY <1>1, ReplyFacts
    <2>2. k \in 1 .. Len(d) + 4
      BY <1>1, <1>5, <2>1
    <2> HIDE DEF d
    <2>3. Frame(d)[k + 1] # StartCode
      BY <1>3, <2>1, <2>2, NoStartInside DEF d
    <2> QED
      BY <1>2, <2>3 DEF d
  <1> QED
    BY <1>4, <1>5

(* The start of the first packet in a piece.                                *)
LEMMA FromStartIs ==
    ASSUME NEW b \in Seq(Byte)
    PROVE  \/ FromStart(b) = <<>>
           \/ \E s \in 1 .. Len(b) : b[s] = StartCode /\ FromStart(b) = SubSeq(b, s, Len(b))
  <1> DEFINE First(i) == b[i] = StartCode /\ \A j \in 1 .. i - 1 : b[j] # StartCode
  <1>1. CASE ~ \E i \in DOMAIN b : b[i] = StartCode
    BY <1>1 DEF FromStart
  <1>2. CASE \E i \in DOMAIN b : b[i] = StartCode
    <2> DEFINE T == {i \in 1 .. Len(b) : b[i] = StartCode}
    <2>1. T \subseteq Nat /\ T # {} /\ DOMAIN b = 1 .. Len(b)
      BY <1>2
    <2>2. PICK x \in T : \A y \in T : ~(y < x)
      BY <2>1, LeastElement
    <2>3. x \in DOMAIN b /\ First(x)
      BY <2>1, <2>2
    <2> DEFINE s == CHOOSE i \in DOMAIN b : First(i)
    <2>4. s \in DOMAIN b /\ First(s)
      BY <2>3
    <2>5. FromStart(b) = SubSeq(b, s, Len(b))
      BY <1>2 DEF FromStart
    <2> HIDE DEF s
    <2> QED
      BY <2>1, <2>4, <2>5
  <1> QED
    BY <1>1, <1>2

(* What a piece without noise makes of the buffer.                          *)
LEMMA CollectedQuiet ==
    ASSUME FramesInv, ~spoils, NEW k \in 1 .. Len(wire)
    PROVE  LET buf == Collected(SubSeq(wire, 1, k)) IN
           /\ buf \in Seq(Byte)
           /\ buf # <<>> =>
                \E q \in Nat : /\ PartOf(buf, q)
                               /\ FrameSize * q + Len(buf) = Consumed + k
                               /\ FrameSize * q + FrameSize > Consumed
  <1> DEFINE b == SubSeq(wire, 1, k)
             P == Consumed
             F == FrameSize
             n == Len(repliesSent)
  <1>1. /\ wire \in Seq(Byte) /\ comTempBuffer \in Seq(Byte) /\ repliesSent \in Seq(ReplyData)
        /\ Len(wire) \in Nat /\ n \in Nat /\ F \in Nat \ {0} /\ F * n \in Nat
        /\ Len(comTempBuffer) \in Nat /\ Len(comTempBuffer) < F
    BY ReplyFacts DEF FramesInv, FramesTypeOK
  <1>2. /\ \A r \in DOMAIN repliesSent : Plain(repliesSent[r])
        /\ Len(wire) <= F * n
        /\ \A i \in 1 .. Len(wire) : wire[i] = Sent(P + i - 1)
        /\ comTempBuffer # <<>> =>
             \E q \in Nat : PartOf(comTempBuffer, q) /\ F * q + Len(comTempBuffer) = P
    BY DEF FramesInv, Quiet
  <1>3. P \in Nat /\ P + Len(wire) = F * n
    BY <1>1, <1>2 DEF Consumed
  <1>4. b \in Seq(Byte) /\ Len(b) = k /\ \A i \in 1 .. k : b[i] = Sent(P + i - 1)
    BY <1>1, <1>2
  <1>5. k \in Nat /\ k >= 1 /\ P + k <= F * n
    BY <1>1, <1>3
  <1> HIDE DEF b, P, F, n
  <1>6. CASE comTempBuffer = <<>>
    <2>1. Collected(b) = FromStart(b)
      BY <1>6 DEF Collected
    <2>2. CASE FromStart(b) = <<>>
      <3>1. Collected(SubSeq(wire, 1, k)) = <<>>
        BY <2>1, <2>2 DEF b
      <3>2. <<>> \in Seq(Byte)
        OBVIOUS
      <3> QED
        BY <3>1, <3>2, Zenon
    <2>3. CASE FromStart(b) # <<>>
      <3>1. PICK s \in 1 .. k : b[s] = StartCode /\ FromStart(b) = SubSeq(b, s, k)
        BY <1>4, <2>3, FromStartIs
      <3> DEFINE buf == SubSeq(b, s, k)
                 p == P + s - 1
                 q == p \div F
      <3>2. /\ buf \in Seq(Byte) /\ Len(buf) = k - s + 1
            /\ \A i \in 1 .. k - s + 1 : buf[i] = b[s + i - 1]
        BY <1>4, <1>5
      <3>3. p \in Nat /\ p < F * n /\ Sent(p) = StartCode
        BY <1>1, <1>3, <1>4, <1>5, <3>1
      <3>4. p = F * q /\ q \in Nat
        BY <1>1, <1>2, <3>3, StartsReply, Division DEF F, n
      <3> HIDE DEF buf, q, p
      <3>5. PartOf(buf, q)
        <4> SUFFICES ASSUME NEW i \in 1 .. k - s + 1 PROVE buf[i] = Sent(F * q + i - 1)
          BY <3>2 DEF PartOf, F
        <4>1. s + i - 1 \in 1 .. k /\ P + (s + i - 1) - 1 = p + i - 1
          BY <1>3, <1>5 DEF p
        <4> QED
          BY <1>4, <3>2, <3>4, <4>1
      <3>6. F * q + Len(buf) = P + k /\ F * q + F > P
        BY <1>1, <1>3, <1>5, <3>2, <3>4 DEF p
      <3> QED
        BY <2>1, <3>1, <3>2, <3>4, <3>5, <3>6 DEF b, buf, P, F
    <2> QED
      BY <2>2, <2>3
  <1>7. CASE comTempBuffer # <<>>
    <2> DEFINE buf == comTempBuffer \o b
               m == Len(comTempBuffer)
    <2>1. Collected(b) = buf
      BY <1>7 DEF Collected
    <2>2. /\ buf \in Seq(Byte) /\ Len(buf) = m + k
          /\ \A i \in 1 .. m : buf[i] = comTempBuffer[i]
          /\ \A i \in 1 .. k : buf[m + i] = b[i]
      BY <1>1, <1>4, Concatenated
    <2>3. PICK q \in Nat : PartOf(comTempBuffer, q) /\ F * q + m = P
      BY <1>2, <1>7
    <2> HIDE DEF buf, m
    <2>4. m \in Nat /\ m < F /\ F * q \in Nat
      BY <1>1 DEF m
    <2>5. PartOf(buf, q)
      <3> SUFFICES ASSUME NEW i \in 1 .. m + k PROVE buf[i] = Sent(F * q + i - 1)
        BY <2>2 DEF PartOf, F
      <3>1. CASE i <= m
        <4>1. i \in 1 .. m
          BY <2>4, <3>1
        <4> QED
          BY <2>2, <2>3, <4>1 DEF PartOf, F, m
      <3>2. CASE i > m
        <4>1. i - m \in 1 .. k /\ m + (i - m) = i /\ P + (i - m) - 1 = F * q + i - 1
          BY <1>3, <1>5, <2>3, <2>4, <3>2
        <4> QED
          BY <1>4, <2>2, <4>1
      <3> QED
        BY <2>4, <3>1, <3>2
    <2>6. F * q + Len(buf) = P + k /\ F * q + F > P
      BY <1>1, <1>3, <1>5, <2>2, <2>3, <2>4
    <2> QED
      BY <2>1, <2>2, <2>5, <2>6 DEF b, buf, P, F
  <1> QED
    BY <1>6, <1>7

(* A reply that came whole: its last byte was on the wire before the step    *)
(* and is not behind it.                                                   *)
CameOut(k) ==
    \E r \in DOMAIN repliesSent :
        /\ frames' = Append(frames, repliesSent[r])
        /\ FrameSize * r > FrameSize * Len(repliesSent) - Len(wire)
        /\ FrameSize * r <= FrameSize * Len(repliesSent) - Len(wire) + k

LEMMA ReadQuiet ==
    ASSUME FramesInv, ~spoils, NEW k \in 1 .. Len(wire), DataReceived(k)
    PROVE  /\ Quiet' /\ comTempBuffer' \in Seq(Byte) /\ Len(comTempBuffer') < FrameSize
           /\ frames' = frames \/ CameOut(k)
  <1> DEFINE b == SubSeq(wire, 1, k)
             buf == Collected(b)
             P == Consumed
             F == FrameSize
             n == Len(repliesSent)
  <1>1. /\ wire \in Seq(Byte) /\ comTempBuffer \in Seq(Byte) /\ repliesSent \in Seq(ReplyData)
        /\ Len(wire) \in Nat /\ n \in Nat /\ F \in Nat \ {0} /\ F * n \in Nat
    BY ReplyFacts DEF FramesInv, FramesTypeOK
  <1>2. /\ \A r \in DOMAIN repliesSent : Plain(repliesSent[r])
        /\ Len(wire) <= F * n
        /\ \A i \in 1 .. Len(wire) : wire[i] = Sent(P + i - 1)
    BY DEF FramesInv, Quiet
  <1>3. P \in Nat /\ P + Len(wire) = F * n /\ k \in Nat /\ k >= 1 /\ k <= Len(wire)
    BY <1>1, <1>2 DEF Consumed
  <1>4. /\ wire' = SubSeq(wire, k + 1, Len(wire)) /\ spoils' = spoils
        /\ repliesSent' = repliesSent /\ comTempBuffer' = Kept(buf)
        /\ frames' = IF Complete(buf) /\ Valid(buf) THEN Append(frames, DataIn(buf)) ELSE frames
    BY DEF DataReceived
  <1>5. /\ Len(wire') = Len(wire) - k
        /\ \A i \in 1 .. Len(wire) - k : wire'[i] = wire[k + i]
    BY <1>1, <1>3, <1>4
  <1>6. Consumed' = P + k
    <2>1. Consumed' = F * n - Len(wire') /\ P = F * n - Len(wire)
      BY <1>4 DEF Consumed
    <2> HIDE DEF P, F, n
    <2> QED
      BY <1>1, <1>3, <1>5, <2>1
  <1>7. /\ buf \in Seq(Byte)
        /\ buf # <<>> => \E q \in Nat : /\ PartOf(buf, q) /\ F * q + Len(buf) = P + k
                                        /\ F * q + F > P
    BY CollectedQuiet
  <1>8. \A p : Sent(p)' = Sent(p)
    BY <1>4 DEF Sent, SentOf
  <1> HIDE DEF buf, P, F, n
  <1>9. ASSUME comTempBuffer' # <<>> =>
                 \E q \in Nat : PartOf(comTempBuffer', q) /\ F * q + Len(comTempBuffer') = P + k
        PROVE  Quiet'
    <2>1. Len(wire') <= F * n
      BY <1>1, <1>3, <1>5
    <2>2. \A i \in 1 .. Len(wire') : wire'[i] = Sent(P + k + i - 1)
      <3> TAKE i \in 1 .. Len(wire')
      <3>1. i \in 1 .. Len(wire) - k /\ k + i \in 1 .. Len(wire) /\ P + (k + i) - 1 = P + k + i - 1
        BY <1>1, <1>3, <1>5
      <3> QED
        BY <1>2, <1>5, <3>1
    <2>3. \A q : PartOf(comTempBuffer, q)' <=> PartOf(comTempBuffer', q)
      BY <1>8 DEF PartOf
    <2> QED
      BY <1>2, <1>4, <1>6, <1>8, <1>9, <2>1, <2>2, <2>3 DEF Quiet, F, n
  <1>10. CASE buf = <<>>
    <2>1. ~Complete(buf) /\ comTempBuffer' = <<>> /\ frames' = frames
      BY <1>4, <1>10 DEF Complete, Kept
    <2> QED
      BY <1>1, <1>9, <2>1 DEF F
  <1>11. CASE buf # <<>>
    <2>1. PICK q \in Nat : PartOf(buf, q) /\ F * q + Len(buf) = P + k /\ F * q + F > P
      BY <1>7, <1>11
    <2> DEFINE d == repliesSent[q + 1]
    <2>2. Len(buf) \in Nat \ {0} /\ F * q \in Nat
      <3>1. Len(buf) \in Nat /\ (Len(buf) = 0 => buf = <<>>)
        BY <1>7
      <3> QED
        BY <1>1, <1>11, <3>1
    <2>3. q + 1 \in 1 .. n /\ d \in ReplyData
      <3>1. F * q < F * (n - 1) + F
        <4>1. F * (n - 1) = F * n - F
          BY <1>1
        <4>2. F * q < F * n
          <5> DEFINE x == F * q
                     y == F * n
          <5>1. /\ x + Len(buf) = P + k /\ P + Len(wire) = y /\ k <= Len(wire)
                /\ x \in Nat /\ y \in Nat /\ Len(buf) \in Nat /\ Len(buf) >= 1
                /\ P \in Nat /\ k \in Nat /\ Len(wire) \in Nat
            BY <1>1, <1>3, <2>1, <2>2
          <5> HIDE DEF x, y
          <5>2. x < y
            BY <5>1
          <5> QED
            BY <5>2 DEF x, y
        <4> QED
          BY <1>1, <2>2, <4>1, <4>2
      <3>2. q <= n - 1
        BY <1>1, <3>1, Multiples
      <3>3. q + 1 \in 1 .. n
        BY <1>1, <3>2
      <3> QED
        BY <1>1, <3>3 DEF n
    <2> HIDE DEF d
    <2>4. \A i \in 1 .. F : i <= Len(buf) => buf[i] = Frame(d)[i]
      <3> SUFFICES ASSUME NEW i \in 1 .. F, i <= Len(buf) PROVE buf[i] = Frame(d)[i]
        OBVIOUS
      <3>1. i \in 1 .. Len(buf)
        BY <1>1, <2>2
      <3> QED
        BY <2>1, <3>1, SentAt DEF PartOf, F, d
    <2>5. Begins(buf, d)
      BY <2>4, ReplyFacts DEF Begins, F
    <2>6. Complete(buf) <=> Len(buf) >= F
      BY <1>7, <1>11, <2>3, <2>5, LengthFound DEF F
    <2>7. CASE Len(buf) >= F
      <3>1. \A i \in 1 .. F : buf[i] = Frame(d)[i]
        BY <1>1, <2>2, <2>4, <2>7
      <3>2. Complete(buf) /\ Valid(buf) /\ DataIn(buf) = d
        BY <1>7, <2>3, <2>7, <3>1, WholeFound DEF F
      <3>3. comTempBuffer' = <<>> /\ frames' = Append(frames, d)
        BY <1>4, <3>2 DEF Kept
      <3>4. F * (q + 1) = F * q + F
        BY <1>1
      <3>5. F * (q + 1) > F * n - Len(wire) /\ F * (q + 1) <= F * n - Len(wire) + k
        BY <1>1, <1>3, <2>1, <2>2, <2>7, <3>4
      <3>6. q + 1 \in DOMAIN repliesSent
        BY <1>1, <2>3 DEF n
      <3>7. CameOut(k)
        BY <3>3, <3>5, <3>6 DEF CameOut, d, F, n
      <3> QED
        BY <1>1, <1>9, <3>3, <3>7 DEF F
    <2>8. CASE ~(Len(buf) >= F)
      <3>1. comTempBuffer' = buf /\ frames' = frames
        BY <1>4, <2>6, <2>8 DEF Kept
      <3>2. Len(comTempBuffer') < F
        BY <1>1, <2>2, <2>8, <3>1
      <3> QED
        BY <1>7, <1>9, <2>1, <3>1, <3>2 DEF F
    <2> QED
      BY <2>7, <2>8
  <1> QED
    BY <1>10, <1>11

(* One reply at a time, of which a byte may be another one: what the tool    *)
(* reads goes from the one part of it to the other.                        *)
LEMMA ReadOneByOne ==
    ASSUME FramesInv, spoils, NEW k \in 1 .. Len(wire), DataReceived(k)
    PROVE  /\ OneByOne' /\ comTempBuffer' \in Seq(Byte) /\ Len(comTempBuffer') < FrameSize
           /\ wire' = <<>> <=> k = Len(wire)
           /\ k # Len(wire) => frames' = frames
           /\ k = Len(wire) => frames' = IF Len(repliesSent) \in repliesSpoiled THEN frames
                                         ELSE Append(frames, repliesSent[Len(repliesSent)])
  <1> DEFINE b == SubSeq(wire, 1, k)
             buf == Collected(b)
             F == FrameSize
             n == Len(repliesSent)
             m == Len(comTempBuffer)
             d == repliesSent[n]
  <1>1. /\ wire \in Seq(Byte) /\ comTempBuffer \in Seq(Byte) /\ repliesSent \in Seq(ReplyData)
        /\ Len(wire) \in Nat /\ n \in Nat /\ m \in Nat /\ F \in Nat /\ F >= 6
        /\ k \in Nat /\ k >= 1 /\ k <= Len(wire) /\ wire # <<>>
    <2>1. F \in Nat /\ F >= 6
      BY ReplyFacts
    <2> QED
      BY <2>1 DEF FramesInv, FramesTypeOK
  <1>2. /\ repliesSent # <<>> /\ m + Len(wire) = F
        /\ IF n \in repliesSpoiled
           THEN \E j \in 5 .. F : /\ Received(j) # LastFrame[j]
                                  /\ \A i \in 1 .. F : i # j => Received(i) = LastFrame[i]
           ELSE \A i \in 1 .. F : Received(i) = LastFrame[i]
    BY <1>1 DEF FramesInv, OneByOne
  <1>3. n \in 1 .. n /\ d \in ReplyData
    <2>1. n # 0
      BY <1>1, <1>2
    <2> QED
      BY <1>1, <2>1
  <1>4. b \in Seq(Byte) /\ Len(b) = k /\ \A i \in 1 .. k : b[i] = wire[i]
    BY <1>1
  <1>5. /\ wire' = SubSeq(wire, k + 1, Len(wire)) /\ spoils' = spoils
        /\ repliesSent' = repliesSent /\ comTempBuffer' = Kept(buf)
        /\ frames' = IF Complete(buf) /\ Valid(buf) THEN Append(frames, DataIn(buf)) ELSE frames
        /\ repliesSpoiled' = repliesSpoiled
    BY DEF DataReceived
  <1>6. /\ Len(wire') = Len(wire) - k /\ wire' \in Seq(Byte)
        /\ \A i \in 1 .. Len(wire) - k : wire'[i] = wire[k + i]
    BY <1>1, <1>5
  <1>7. wire' = <<>> <=> k = Len(wire)
    <2>1. wire' = <<>> <=> Len(wire') = 0
      BY <1>6
    <2> QED
      BY <1>1, <1>6, <2>1
  <1>8. Received(1) = StartCode
    <2>1. Received(1) = LastFrame[1]
      <3>1. 1 \in 1 .. F /\ \A j \in 5 .. F : 1 # j
        BY <1>1
      <3> QED
        BY <1>2, <3>1
    <2> QED
      BY <1>3, <2>1, ReplyFacts DEF LastFrame
  <1>9. /\ buf \in Seq(Byte) /\ Len(buf) = m + k
        /\ \A i \in 1 .. m + k : buf[i] = Received(i)
    <2>1. CASE comTempBuffer = <<>>
      <3>1. m = 0 /\ Collected(b) = FromStart(b) /\ \A i \in 1 .. k : b[i] = Received(i)
        BY <1>1, <1>4, <2>1 DEF Collected, Received
      <3>2. b[1] = StartCode /\ DOMAIN b = 1 .. k /\ 1 \in 1 .. k
        BY <1>1, <1>4, <1>8, <3>1
      <3> DEFINE First(i) == b[i] = StartCode /\ \A j \in 1 .. i - 1 : b[j] # StartCode
      <3>3. (CHOOSE i \in DOMAIN b : First(i)) = 1
        <4> DEFINE s == CHOOSE i \in DOMAIN b : First(i)
        <4>1. 1 \in DOMAIN b /\ First(1)
          BY <3>2
        <4>2. s \in DOMAIN b /\ First(s)
          BY <4>1
        <4> HIDE DEF s
        <4>3. s = 1
          <5>1. s \in 1 .. k /\ (s # 1 => 1 \in 1 .. s - 1)
            BY <3>2, <4>2
          <5> QED
            BY <3>2, <4>2, <5>1
        <4> QED
          BY <4>3 DEF s
      <3>4. FromStart(b) = SubSeq(b, 1, k)
        BY <1>4, <3>2, <3>3 DEF FromStart
      <3>5. SubSeq(b, 1, k) = b
        BY <1>4, AllOfIt
      <3> QED
        BY <1>1, <1>4, <3>1, <3>4, <3>5
    <2>2. CASE comTempBuffer # <<>>
      <3>1. Collected(b) = comTempBuffer \o b
        BY <2>2 DEF Collected
      <3>2. /\ comTempBuffer \o b \in Seq(Byte) /\ Len(comTempBuffer \o b) = m + k
            /\ \A i \in 1 .. m : (comTempBuffer \o b)[i] = comTempBuffer[i]
            /\ \A i \in 1 .. k : (comTempBuffer \o b)[m + i] = b[i]
        BY <1>1, <1>4, Concatenated
      <3> HIDE DEF b, buf
      <3>3. buf = comTempBuffer \o b
        BY <3>1 DEF buf
      <3>4. ASSUME NEW i \in 1 .. m + k PROVE buf[i] = Received(i)
        <4>1. CASE i <= m
          <5>1. i \in 1 .. m
            BY <1>1, <4>1
          <5> QED
            BY <3>2, <3>3, <4>1, <5>1 DEF Received
        <4>2. CASE ~(i <= m)
          <5>1. i - m \in 1 .. k /\ m + (i - m) = i
            BY <1>1, <4>2
          <5> QED
            BY <1>4, <3>2, <3>3, <4>2, <5>1 DEF Received
        <4> QED
          BY <4>1, <4>2
      <3> QED
        BY <3>2, <3>3, <3>4
    <2> QED
      BY <2>1, <2>2
  <1> HIDE DEF b, buf, F, n, m, d
  <1>10. Begins(buf, d) /\ buf # <<>>
    <2>1. ASSUME NEW i \in 1 .. 4, i <= Len(buf) PROVE buf[i] = Frame(d)[i]
      <3>1. i \in 1 .. F /\ i \in 1 .. m + k /\ \A j \in 5 .. F : i # j
        BY <1>1, <1>9, <2>1
      <3>2. Received(i) = LastFrame[i]
        BY <1>2, <3>1
      <3> QED
        BY <1>9, <3>1, <3>2 DEF LastFrame, d, n
    <2> QED
      BY <1>1, <1>9, <2>1 DEF Begins
  <1>11. Complete(buf) <=> k = Len(wire)
    <2>1. Complete(buf) <=> Len(buf) >= F
      BY <1>3, <1>9, <1>10, LengthFound DEF F
    <2> QED
      BY <1>1, <1>2, <1>9, <2>1
  <1>12. CASE k = Len(wire)
    <2>1. wire' = <<>> /\ comTempBuffer' = <<>>
      BY <1>5, <1>7, <1>11, <1>12 DEF Kept
    <2>2. Len(buf) = F /\ \A i \in 1 .. F : buf[i] = Received(i)
      BY <1>1, <1>2, <1>9, <1>12
    <2>3. CASE n \in repliesSpoiled
      <3>1. PICK j \in 5 .. F : /\ buf[j] # Frame(d)[j]
                                /\ \A i \in 1 .. F : i # j => buf[i] = Frame(d)[i]
        <4>1. \A j \in 5 .. F : j \in 1 .. F
          OBVIOUS
        <4> QED
          BY <1>2, <2>2, <2>3, <4>1 DEF LastFrame, d, n
      <3>2. ~Valid(buf)
        BY <1>3, <1>9, <2>2, <3>1, SpoiltFound DEF F
      <3> QED
        BY <1>1, <1>5, <1>7, <1>12, <2>1, <2>3, <3>2 DEF OneByOne, n, F
    <2>4. CASE n \notin repliesSpoiled
      <3>1. \A i \in 1 .. F : buf[i] = Frame(d)[i]
        BY <1>2, <2>2, <2>4 DEF LastFrame, d, n
      <3>2. Complete(buf) /\ Valid(buf) /\ DataIn(buf) = d
        <4>1. Len(buf) >= F
          BY <1>1, <2>2
        <4> QED
          BY <1>3, <1>9, <3>1, <4>1, WholeFound DEF F
      <3> QED
        BY <1>1, <1>5, <1>7, <1>12, <2>1, <2>4, <3>2 DEF OneByOne, n, d, F
    <2> QED
      BY <2>3, <2>4
  <1>13. CASE k # Len(wire)
    <2>1. comTempBuffer' = buf /\ frames' = frames /\ wire' # <<>>
      BY <1>5, <1>7, <1>11, <1>13 DEF Kept
    <2>2. Len(comTempBuffer') = m + k /\ Len(comTempBuffer') + Len(wire') = F
          /\ Len(comTempBuffer') < F
      <3> DEFINE x == Len(comTempBuffer')
                 y == Len(wire')
                 z == Len(wire)
      <3>1. x = m + k /\ y = z - k
        BY <1>6, <1>9, <2>1
      <3>2. m \in Nat /\ z \in Nat /\ k \in Nat /\ k <= z /\ k # z /\ m + z = F /\ F \in Nat
        BY <1>1, <1>2, <1>13
      <3> HIDE DEF x, y, z
      <3>3. x = m + k /\ x + y = F /\ x < F
        BY <3>1, <3>2
      <3> QED
        BY <3>3 DEF x, y
    <2>3. \A i \in 1 .. F : Received(i)' = Received(i)
      <3> TAKE i \in 1 .. F
      <3>1. CASE i <= m + k
        BY <1>9, <2>1, <2>2, <3>1 DEF Received
      <3>2. CASE ~(i <= m + k)
        <4>1. i - (m + k) \in 1 .. Len(wire) - k /\ k + (i - (m + k)) = i - m /\ ~(i <= m)
          BY <1>1, <1>2, <3>2
        <4>2. wire'[i - (m + k)] = wire[i - m]
          BY <1>6, <4>1
        <4> QED
          BY <2>2, <3>2, <4>1, <4>2 DEF Received, m
      <3> QED
        BY <3>1, <3>2
    <2>4. LastFrame' = LastFrame
      BY <1>5 DEF LastFrame
    <2>5. OneByOne'
      <3>1. \A j \in 5 .. F : j \in 1 .. F
        OBVIOUS
      <3>2. IF n \in repliesSpoiled
            THEN \E j \in 5 .. F :
                   /\ Received(j)' # LastFrame'[j]
                   /\ \A i \in 1 .. F : i # j => Received(i)' = LastFrame'[i]
            ELSE \A i \in 1 .. F : Received(i)' = LastFrame'[i]
        BY <1>2, <2>3, <2>4, <3>1
      <3> QED
        BY <1>2, <1>5, <2>1, <2>2, <3>2 DEF OneByOne, F, n
    <2> QED
      BY <1>5, <1>7, <1>9, <1>13, <2>1, <2>2, <2>5 DEF F
  <1> QED
    BY <1>12, <1>13

LEMMA FramesInitially == FramesInit => FramesInv
  <1> SUFFICES ASSUME FramesInit PROVE FramesInv
    OBVIOUS
  <1>1. /\ spoils \in BOOLEAN /\ wire = <<>> /\ comTempBuffer = <<>> /\ repliesSent = <<>>
        /\ frames = <<>> /\ repliesSpoiled = {}
    BY DEF FramesInit
  <1>2. FrameSize \in Nat \ {0} /\ BufferSize \in Nat
    BY ReplyFacts
  <1>3. FramesTypeOK /\ Len(comTempBuffer) < FrameSize
    BY <1>1, <1>2 DEF FramesTypeOK
  <1>4. FrameSize * 0 = 0
    BY <1>2
  <1>5. Quiet
    BY <1>1, <1>4 DEF Quiet
  <1>6. OneByOne
    BY <1>1 DEF OneByOne
  <1> QED
    BY <1>3, <1>5, <1>6 DEF FramesInv

(* A reply is sent: the bytes sent before keep their positions.              *)
LEMMA SentBefore ==
    ASSUME repliesSent \in Seq(ReplyData), NEW data \in ReplyData
    PROVE  LET replies == Append(repliesSent, data) IN
           /\ \A p \in Nat : p < FrameSize * Len(repliesSent) => SentOf(replies, p) = Sent(p)
           /\ \A i \in 1 .. FrameSize :
                SentOf(replies, FrameSize * Len(repliesSent) + i - 1) = Frame(data)[i]
  <1> DEFINE n == Len(repliesSent)
             replies == Append(repliesSent, data)
  <1>1. /\ n \in Nat /\ replies[n + 1] = data
        /\ \A r \in 1 .. n : replies[r] = repliesSent[r]
    OBVIOUS
  <1> HIDE DEF replies
  <1>2. ASSUME NEW p \in Nat, p < FrameSize * n PROVE SentOf(replies, p) = Sent(p)
    <2>1. (p \div FrameSize) + 1 \in 1 .. n
      BY <1>2, PositionIs
    <2> QED
      BY <1>1, <2>1 DEF Sent, SentOf
  <1>3. ASSUME NEW i \in 1 .. FrameSize PROVE SentOf(replies, FrameSize * n + i - 1) = Frame(data)[i]
    <2> DEFINE p == FrameSize * n + i - 1
    <2>1. FrameSize \in Nat \ {0} /\ FrameSize * n \in Nat /\ i - 1 \in 0 .. FrameSize - 1
      BY <1>1, ReplyFacts
    <2>2. (FrameSize * n + (i - 1)) \div FrameSize = n
          /\ (FrameSize * n + (i - 1)) % FrameSize = i - 1
      BY <1>1, <2>1, DivisionIs
    <2>3. p = FrameSize * n + (i - 1) /\ (i - 1) + 1 = i
      BY <2>1
    <2>4. p \div FrameSize = n /\ p % FrameSize = i - 1
      BY <2>2, <2>3
    <2> HIDE DEF p
    <2>5. SentOf(replies, p) = Frame(data)[i]
      BY <1>1, <2>3, <2>4 DEF SentOf
    <2> QED
      BY <2>5 DEF p
  <1> QED
    BY <1>2, <1>3 DEF replies

LEMMA SentReply ==
    ASSUME FramesInv, NEW data \in ReplyData, SendReply(data)
    PROVE  FramesInv'
  <1> DEFINE F == FrameSize
             n == Len(repliesSent)
             l == Len(wire)
             m == Len(comTempBuffer)
             P == Consumed
  <1>1. /\ wire \in Seq(Byte) /\ comTempBuffer \in Seq(Byte) /\ repliesSent \in Seq(ReplyData)
        /\ l \in Nat /\ n \in Nat /\ m \in Nat /\ m < F /\ F \in Nat \ {0} /\ F * n \in Nat
        /\ DOMAIN repliesSent = 1 .. n
    BY ReplyFacts DEF FramesInv, FramesTypeOK
  <1>2. /\ repliesSent' = Append(repliesSent, data) /\ wire' = wire \o Frame(data)
        /\ spoils' = spoils /\ comTempBuffer' = comTempBuffer
        /\ frames' = frames /\ repliesSpoiled' = repliesSpoiled
        /\ IF spoils THEN OnWire = 0 ELSE Plain(data)
    BY DEF SendReply
  <1>3. Frame(data) \in Seq(Byte) /\ Len(Frame(data)) = F
    BY ReplyFacts
  <1>4. /\ wire' \in Seq(Byte) /\ Len(wire') = l + F
        /\ \A i \in 1 .. l : wire'[i] = wire[i]
        /\ \A i \in 1 .. F : wire'[l + i] = Frame(data)[i]
    BY <1>1, <1>2, <1>3, Concatenated
  <1>5. /\ repliesSent' \in Seq(ReplyData) /\ Len(repliesSent') = n + 1
        /\ DOMAIN repliesSent' = 1 .. n + 1 /\ repliesSent'[n + 1] = data
        /\ \A r \in 1 .. n : repliesSent'[r] = repliesSent[r]
    BY <1>1, <1>2
  <1>6. FramesTypeOK' /\ Len(comTempBuffer') < F
    <2>1. repliesSpoiled \subseteq 1 .. n
      BY <1>1 DEF FramesInv, FramesTypeOK
    <2>2. repliesSpoiled' \subseteq DOMAIN repliesSent'
      BY <1>1, <1>2, <1>5, <2>1
    <2> QED
      BY <1>1, <1>2, <1>4, <1>5, <2>2 DEF FramesInv, FramesTypeOK
  <1>7. F * (n + 1) = F * n + F
    BY <1>1
  <1>8. Quiet'
    <2> SUFFICES ASSUME ~spoils PROVE Quiet'
      BY <1>2 DEF Quiet
    <2>1. /\ \A r \in 1 .. n : Plain(repliesSent[r])
          /\ l <= F * n
          /\ \A i \in 1 .. l : wire[i] = Sent(P + i - 1)
          /\ comTempBuffer # <<>> =>
               \E q \in Nat : PartOf(comTempBuffer, q) /\ F * q + m = P
      BY <1>1 DEF FramesInv, Quiet
    <2>2. P \in Nat /\ P + l = F * n
      BY <1>1, <2>1 DEF Consumed
    <2>3. Consumed' = P
      <3>1. Consumed' = F * (n + 1) - (l + F)
        BY <1>4, <1>5 DEF Consumed
      <3> HIDE DEF F, n, l, P
      <3>2. F * (n + 1) - (l + F) = P
        BY <1>1, <1>7, <2>2
      <3> QED
        BY <3>1, <3>2
    <2>4. /\ \A p \in Nat : p < F * n => SentOf(repliesSent', p) = Sent(p)
          /\ \A i \in 1 .. F : SentOf(repliesSent', F * n + i - 1) = Frame(data)[i]
      BY <1>1, <1>2, SentBefore
    <2> HIDE DEF F, n, l, m, P
    <2>5. \A r \in 1 .. n + 1 : Plain(repliesSent'[r])
      <3>1. \A r \in 1 .. n + 1 : r \in 1 .. n \/ r = n + 1
        BY <1>1
      <3> QED
        BY <1>2, <1>5, <2>1, <3>1
    <2>6. l + F <= F * (n + 1)
      BY <1>1, <1>7, <2>1
    <2>7. \A i \in 1 .. l + F : wire'[i] = SentOf(repliesSent', P + i - 1)
      <3> TAKE i \in 1 .. l + F
      <3>1. CASE i <= l
        <4>1. i \in 1 .. l /\ P + i - 1 \in Nat /\ P + i - 1 < F * n
          BY <1>1, <2>2, <3>1
        <4> QED
          BY <1>4, <2>1, <2>4, <4>1
      <3>2. CASE ~(i <= l)
        <4>1. i - l \in 1 .. F /\ l + (i - l) = i /\ F * n + (i - l) - 1 = P + i - 1
          BY <1>1, <2>2, <3>2
        <4>2. wire'[i] = Frame(data)[i - l]
          BY <1>4, <4>1
        <4> QED
          BY <2>4, <4>1, <4>2
      <3> QED
        BY <3>1, <3>2
    <2>8. comTempBuffer # <<>> =>
            \E q \in Nat : /\ \A i \in 1 .. m : comTempBuffer[i] = SentOf(repliesSent', F * q + i - 1)
                           /\ F * q + m = P
      <3> SUFFICES ASSUME NEW q \in Nat, PartOf(comTempBuffer, q), F * q + m = P
                   PROVE  \A i \in 1 .. m : comTempBuffer[i] = SentOf(repliesSent', F * q + i - 1)
        BY <2>1
      <3>1. F * q \in Nat
        BY <1>1
      <3>2. \A i \in 1 .. m : F * q + i - 1 \in Nat /\ F * q + i - 1 < F * n
        BY <1>1, <2>2, <3>1
      <3> QED
        BY <2>4, <3>2 DEF PartOf, m, F
    <2> QED
      BY <1>2, <1>4, <1>5, <2>3, <2>5, <2>6, <2>7, <2>8 DEF Quiet, PartOf, Sent, F, m, P
  <1>9. OneByOne'
    <2> SUFFICES ASSUME spoils PROVE OneByOne'
      BY <1>2 DEF OneByOne
    <2>1. l = 0 /\ wire = <<>>
      <3>1. l <= F * 0 /\ F * 0 = 0
        BY <1>1, <1>2, OnWireIs
      <3> QED
        BY <1>1, <3>1
    <2>2. comTempBuffer = <<>> /\ m = 0
      BY <2>1 DEF FramesInv, OneByOne
    <2>3. \A i \in 1 .. F : wire'[i] = Frame(data)[i]
      BY <1>4, <2>1
    <2>4. n + 1 \notin repliesSpoiled
      BY <1>1 DEF FramesInv, FramesTypeOK
    <2>5. repliesSent' # <<>> /\ Len(comTempBuffer') + Len(wire') = F /\ LastFrame' = Frame(data)
      BY <1>1, <1>2, <1>4, <1>5, <2>1, <2>2 DEF LastFrame
    <2>6. wire' # <<>>
      BY <1>1, <1>4, <2>1
    <2>7. \A i \in 1 .. F : Received(i)' = LastFrame'[i]
      <3> TAKE i \in 1 .. F
      <3>1. Len(comTempBuffer') = 0 /\ i - 0 = i /\ ~(i <= 0)
        BY <1>1, <1>2, <2>2
      <3>2. Received(i)' = wire'[i]
        BY <3>1 DEF Received
      <3> QED
        BY <2>3, <2>5, <3>2
    <2> QED
      BY <1>2, <1>5, <2>4, <2>5, <2>6, <2>7 DEF OneByOne, F
  <1> QED
    BY <1>6, <1>8, <1>9 DEF FramesInv

(* A byte is changed: it is one behind the opcode.                           *)
LEMMA SpoiltReply ==
    ASSUME FramesInv, NEW i \in DOMAIN wire, NEW c \in Byte, SpoilReply(i, c)
    PROVE  FramesInv'
  <1> DEFINE F == FrameSize
             n == Len(repliesSent)
             l == Len(wire)
             m == Len(comTempBuffer)
  <1>1. /\ wire \in Seq(Byte) /\ repliesSent \in Seq(ReplyData)
        /\ l \in Nat /\ n \in Nat /\ m \in Nat /\ i \in 1 .. l
        /\ F = ReplySize + 5 /\ ReplySize \in Nat
        /\ repliesSpoiled \subseteq 1 .. n
    BY ReplyFacts DEF FramesInv, FramesTypeOK
  <1>2. /\ spoils /\ repliesSent # <<>> /\ n \notin repliesSpoiled
        /\ i \in l - ReplySize .. l /\ wire[i] # c
        /\ wire' = [wire EXCEPT ![i] = c] /\ repliesSpoiled' = repliesSpoiled \cup {n}
        /\ spoils' = spoils /\ comTempBuffer' = comTempBuffer
        /\ repliesSent' = repliesSent /\ frames' = frames
    BY DEF SpoilReply
  <1>3. wire # <<>> /\ n \in 1 .. n
    <2>1. n # 0
      BY <1>1, <1>2
    <2> QED
      BY <1>1, <2>1
  <1>4. m + l = F /\ \A k \in 1 .. F : Received(k) = LastFrame[k]
    BY <1>2, <1>3 DEF FramesInv, OneByOne
  <1>5. /\ wire' \in Seq(Byte) /\ Len(wire') = l /\ wire'[i] = c
        /\ \A k \in 1 .. l : k # i => wire'[k] = wire[k]
    BY <1>1, <1>2
  <1>6. FramesTypeOK' /\ Len(comTempBuffer') < F
    <2>1. repliesSpoiled' \subseteq 1 .. n
      BY <1>1, <1>2, <1>3
    <2> QED
      BY <1>1, <1>2, <1>5, <2>1 DEF FramesInv, FramesTypeOK
  <1>7. Quiet'
    BY <1>2 DEF Quiet
  <1>8. OneByOne'
    <2>1. PICK j \in 5 .. F : j = m + i /\ ~(j <= m) /\ j - m = i
      BY <1>1, <1>2, <1>4
    <2>2. Received(j)' = c /\ Received(j) = wire[i]
      BY <1>2, <1>5, <2>1 DEF Received
    <2>3. Received(j)' # LastFrame[j]
      <3>1. j \in 1 .. F
        BY <2>1
      <3> QED
        BY <1>2, <1>4, <2>2, <3>1
    <2>4. \A k \in 1 .. F : k # j => Received(k)' = Received(k)
      <3> TAKE k \in 1 .. F
      <3> HAVE k # j
      <3>1. CASE k <= m
        BY <1>2, <3>1 DEF Received
      <3>2. CASE ~(k <= m)
        <4>1. k - m \in 1 .. l /\ k - m # i
          BY <1>1, <1>4, <2>1, <3>2
        <4> QED
          BY <1>2, <1>5, <3>2, <4>1 DEF Received
      <3> QED
        BY <3>1, <3>2
    <2>5. LastFrame' = LastFrame /\ wire' # <<>> /\ n \in repliesSpoiled'
      BY <1>1, <1>2, <1>5 DEF LastFrame
    <2>6. \E k \in 5 .. F : /\ Received(k)' # LastFrame'[k]
                            /\ \A h \in 1 .. F : h # k => Received(h)' = LastFrame'[h]
      <3>1. j \in 5 .. F /\ Received(j)' # LastFrame'[j]
        BY <2>1, <2>3, <2>5
      <3>2. \A h \in 1 .. F : h # j => Received(h)' = LastFrame'[h]
        BY <1>4, <2>4, <2>5
      <3> QED
        BY <3>1, <3>2, Zenon
    <2> QED
      BY <1>2, <1>4, <1>5, <2>5, <2>6 DEF OneByOne, F, n, m, l
  <1> QED
    BY <1>6, <1>7, <1>8 DEF FramesInv

(* What a read makes of the invariant and of the replies processed.          *)
LEMMA Read ==
    ASSUME FramesInv, NEW k \in 1 .. Len(wire), DataReceived(k)
    PROVE  FramesInv' /\ (frames' = frames \/ CameOut(k))
  <1>1. /\ wire \in Seq(Byte) /\ repliesSent \in Seq(ReplyData) /\ spoils \in BOOLEAN
        /\ frames \in Seq(Seq(Byte)) /\ FrameSize \in Nat \ {0}
        /\ BufferSize \in Nat /\ BufferSize >= FrameSize
    BY ReplyFacts DEF FramesInv, FramesTypeOK
  <1>2. /\ wire' = SubSeq(wire, k + 1, Len(wire)) /\ spoils' = spoils
        /\ repliesSent' = repliesSent /\ repliesSpoiled' = repliesSpoiled
    BY DEF DataReceived
  <1>3. /\ Quiet' /\ OneByOne'
        /\ comTempBuffer' \in Seq(Byte) /\ Len(comTempBuffer') < FrameSize
        /\ frames' = frames \/ CameOut(k)
    <2>1. CASE ~spoils
      BY <1>2, <2>1, ReadQuiet DEF OneByOne
    <2>2. CASE spoils
      <3>1. /\ OneByOne' /\ comTempBuffer' \in Seq(Byte) /\ Len(comTempBuffer') < FrameSize
            /\ k # Len(wire) => frames' = frames
            /\ k = Len(wire) => frames' = frames
                                \/ frames' = Append(frames, repliesSent[Len(repliesSent)])
        BY <2>2, ReadOneByOne
      <3>2. Quiet'
        BY <1>2, <2>2 DEF Quiet
      <3>3. ASSUME k = Len(wire), frames' = Append(frames, repliesSent[Len(repliesSent)])
            PROVE  CameOut(k)
        <4> DEFINE n == Len(repliesSent)
                   x == FrameSize * n
        <4>1. n \in Nat /\ DOMAIN repliesSent = 1 .. n /\ (n = 0 => repliesSent = <<>>)
              /\ Len(wire) \in Nat
          BY <1>1
        <4>2. x \in Nat
          BY <1>1, <4>1
        <4>3. k \in Nat /\ k >= 1 /\ wire # <<>>
          BY <1>1, <4>1
        <4>4. repliesSent # <<>>
          BY <2>2, <4>3 DEF FramesInv, OneByOne
        <4>5. n \in DOMAIN repliesSent
          BY <4>1, <4>4
        <4> HIDE DEF x
        <4>6. x > x - Len(wire) /\ x <= x - Len(wire) + k
          BY <3>3, <4>1, <4>2, <4>3
        <4> QED
          BY <3>3, <4>5, <4>6 DEF CameOut, x
      <3> QED
        BY <3>1, <3>2, <3>3
    <2> QED
      BY <2>1, <2>2
  <1>4. wire' \in Seq(Byte)
    BY <1>1, <1>2
  <1>5. frames' \in Seq(Seq(Byte))
    <2>1. ASSUME NEW r \in DOMAIN repliesSent, frames' = Append(frames, repliesSent[r])
          PROVE  frames' \in Seq(Seq(Byte))
      <3>1. repliesSent[r] \in ReplyData
        BY <1>1
      <3>2. repliesSent[r] \in Seq(Byte)
        BY <3>1, ReplyFacts
      <3> QED
        BY <1>1, <2>1, <3>2
    <2> QED
      BY <1>1, <1>3, <2>1 DEF CameOut
  <1>6. FramesTypeOK'
    <2>1. Len(comTempBuffer') <= BufferSize
      BY <1>1, <1>3
    <2> QED
      BY <1>2, <1>3, <1>4, <1>5, <2>1 DEF FramesInv, FramesTypeOK
  <1> QED
    BY <1>3, <1>6 DEF FramesInv

LEMMA FramesStep == FramesInv /\ [FramesNext]_framesVars => FramesInv'
  <1> SUFFICES ASSUME FramesInv, [FramesNext]_framesVars PROVE FramesInv'
    OBVIOUS
  <1>1. CASE \E data \in ReplyData : SendReply(data)
    BY <1>1, SentReply
  <1>2. CASE \E i \in DOMAIN wire, c \in Byte : SpoilReply(i, c)
    BY <1>2, SpoiltReply
  <1>3. CASE \E k \in DOMAIN wire : DataReceived(k)
    <2>1. DOMAIN wire = 1 .. Len(wire)
      BY DEF FramesInv, FramesTypeOK
    <2> QED
      BY <1>3, <2>1, Read
  <1>4. CASE UNCHANGED framesVars
    BY <1>4 DEF framesVars, FramesInv, FramesTypeOK, Quiet, OneByOne, Consumed, PartOf, Sent,
                SentOf, Received, LastFrame
  <1> QED
    BY <1>1, <1>2, <1>3, <1>4 DEF FramesNext

LEMMA FramesAlways == FramesSpec => []FramesInv
  BY FramesInitially, FramesStep, PTL DEF FramesSpec

(* The tool's buffer holds what it collects, whatever the pieces: the 1024   *)
(* bytes of comTempBuffer are never exceeded.                              *)
THEOREM ToolTypeCorrect == FramesSpec => []FramesTypeOK
  <1>1. FramesInv => FramesTypeOK
    BY DEF FramesInv
  <1> QED
    BY <1>1, FramesAlways, PTL

(* When all bytes are read the tool holds no part of a reply.                *)
THEOREM ToolInStep == FramesSpec => []InStep
  <1>1. ASSUME FramesInv, wire = <<>>, comTempBuffer # <<>> PROVE FALSE
    <2> DEFINE F == FrameSize
               n == Len(repliesSent)
               m == Len(comTempBuffer)
    <2>1. /\ F \in Nat \ {0} /\ n \in Nat /\ m \in Nat /\ m < F /\ m # 0 /\ F * n \in Nat
          /\ Len(wire) = 0
      BY <1>1, ReplyFacts DEF FramesInv, FramesTypeOK
    <2>2. ~spoils
      BY <1>1 DEF FramesInv, OneByOne
    <2>3. PICK q \in Nat : F * q + m = Consumed
      BY <1>1, <2>2 DEF FramesInv, Quiet
    <2>4. Consumed = F * n
      BY <2>1 DEF Consumed
    <2> HIDE DEF F, n, m
    <2>5. F * q \in Nat
      BY <2>1
    <2>6. F * n < F * q + F
      BY <2>1, <2>3, <2>4, <2>5
    <2>7. n <= q
      BY <2>1, <2>6, Multiples
    <2>8. F * n <= F * q
      BY <2>1, <2>7, Product
    <2> QED
      BY <2>1, <2>3, <2>4, <2>5, <2>8
  <1>2. FramesInv => InStep
    BY <1>1 DEF InStep
  <1> QED
    BY <1>2, FramesAlways, PTL

(* A changed byte costs the reply it is in and no other: the sum of bytes    *)
(* notices it, and the tool waits for the next start code.                 *)
THEOREM ToolLosesSpoiledOnly == FramesSpec => OnlySpoiledRepliesAreLost
  <1> DEFINE Cost == spoils /\ wire # <<>> /\ wire' = <<>> =>
                       (frames' # frames <=> Len(repliesSent) \notin repliesSpoiled)
  <1>1. FramesInv /\ [FramesNext]_framesVars => [Cost]_framesVars
    <2> SUFFICES ASSUME FramesInv, FramesNext, spoils, wire # <<>>, wire' = <<>>
                 PROVE  frames' # frames <=> Len(repliesSent) \notin repliesSpoiled
      OBVIOUS
    <2>1. wire \in Seq(Byte) /\ frames \in Seq(Seq(Byte)) /\ DOMAIN wire = 1 .. Len(wire)
      BY DEF FramesInv, FramesTypeOK
    <2>2. ASSUME NEW data \in ReplyData, SendReply(data) PROVE FALSE
      <3>1. wire' = wire \o Frame(data) /\ Frame(data) \in Seq(Byte) /\ Len(wire) \in Nat
            /\ Len(wire) # 0
        BY <2>1, <2>2, ReplyFacts DEF SendReply
      <3>2. Len(wire \o Frame(data)) = Len(wire) + Len(Frame(data)) /\ Len(Frame(data)) \in Nat
        BY <2>1, <3>1, Concatenated
      <3>3. Len(wire') = 0
        OBVIOUS
      <3> QED
        BY <3>1, <3>2, <3>3
    <2>3. ASSUME NEW i \in DOMAIN wire, NEW c \in Byte, SpoilReply(i, c) PROVE FALSE
      <3>1. wire' = [wire EXCEPT ![i] = c]
        BY <2>3 DEF SpoilReply
      <3>2. DOMAIN wire' = DOMAIN wire
        BY <3>1
      <3> QED
        BY <2>3, <3>2
    <2>4. PICK k \in 1 .. Len(wire) : DataReceived(k)
      BY <2>1, <2>2, <2>3 DEF FramesNext
    <2>5. frames' = IF Len(repliesSent) \in repliesSpoiled THEN frames
                    ELSE Append(frames, repliesSent[Len(repliesSent)])
      BY <2>4, ReadOneByOne
    <2>6. \A x : Append(frames, x) # frames
      <3> TAKE x
      <3>1. Len(Append(frames, x)) = Len(frames) + 1 /\ Len(frames) \in Nat
        BY <2>1
      <3> QED
        BY <3>1
    <2> QED
      BY <2>5, <2>6
  <1>2. OnlySpoiledRepliesAreLost <=> [][Cost]_framesVars
    BY DEF OnlySpoiledRepliesAreLost
  <1> QED
    BY <1>1, <1>2, FramesAlways, PTL DEF FramesSpec

-----------------------------------------------------------------------------
(* The replies on the wire are the last ones sent, and the tool a channel.   *)

(* Some of a sequence, in their order.                                       *)
SomeOf(next, rest) ==
    \E at \in [DOMAIN next -> DOMAIN rest] :
        /\ \A j, k \in DOMAIN at : j < k => at[j] < at[k]
        /\ next = [j \in DOMAIN at |-> rest[at[j]]]

LEMMA PartIs ==
    ASSUME NEW S, NEW s \in Seq(S), NEW i \in Nat \ {0}, NEW e \in Nat,
           i <= e + 1, e <= Len(s)
    PROVE  /\ SubSeq(s, i, e) \in Seq(S) /\ Len(SubSeq(s, i, e)) = e - i + 1
           /\ DOMAIN SubSeq(s, i, e) = 1 .. e - i + 1
           /\ \A j \in 1 .. e - i + 1 : SubSeq(s, i, e)[j] = s[i + j - 1]
  OBVIOUS

LEMMA EndIs ==
    ASSUME NEW S, NEW s \in Seq(S), NEW a \in Nat, a <= Len(s)
    PROVE  /\ SubSeq(s, a + 1, Len(s)) \in Seq(S)
           /\ Len(SubSeq(s, a + 1, Len(s))) = Len(s) - a
           /\ DOMAIN SubSeq(s, a + 1, Len(s)) = 1 .. Len(s) - a
           /\ \A j \in 1 .. Len(s) - a : SubSeq(s, a + 1, Len(s))[j] = s[a + j]
  <1> DEFINE n == Len(s)
             t == SubSeq(s, a + 1, n)
             i == a + 1
  <1>1. /\ n \in Nat /\ i \in Nat \ {0} /\ i <= n + 1 /\ n <= Len(s) /\ n - i + 1 = n - a
        /\ \A j \in 1 .. n - a : i + j - 1 = a + j
    OBVIOUS
  <1> HIDE DEF i
  <1>2. /\ SubSeq(s, i, n) \in Seq(S) /\ Len(SubSeq(s, i, n)) = n - i + 1
        /\ DOMAIN SubSeq(s, i, n) = 1 .. n - i + 1
        /\ \A j \in 1 .. n - i + 1 : SubSeq(s, i, n)[j] = s[i + j - 1]
    BY <1>1, PartIs
  <1>3. t = SubSeq(s, i, n)
    BY DEF i
  <1> HIDE DEF n, t
  <1>4. t \in Seq(S) /\ Len(t) = n - a /\ DOMAIN t = 1 .. n - a
        /\ \A j \in 1 .. n - a : t[j] = s[a + j]
    BY <1>1, <1>2, <1>3
  <1> QED
    BY <1>4 DEF t, n

(* What remains of the end of a sequence when more of its beginning goes.    *)
LEMMA EndRemains ==
    ASSUME NEW S, NEW s \in Seq(S), NEW a \in Nat, NEW c \in Nat, c <= Len(s),
           NEW i \in Nat \ {0}, a + i <= c + 1
    PROVE  SomeOf(SubSeq(s, c + 1, Len(s)),
                  SubSeq(SubSeq(s, a + 1, Len(s)), i, Len(SubSeq(s, a + 1, Len(s)))))
  <1> DEFINE n == Len(s)
             pend == SubSeq(s, a + 1, n)
             rest == SubSeq(pend, i, Len(pend))
             next == SubSeq(s, c + 1, n)
             d == (c + 1) - (a + i)
             at == [j \in 1 .. n - c |-> j + d]
  <1>1. n \in Nat /\ a <= n /\ d \in Nat
    OBVIOUS
  <1>2. pend \in Seq(S) /\ Len(pend) = n - a /\ \A j \in 1 .. n - a : pend[j] = s[a + j]
    BY <1>1, EndIs
  <1>3. next \in Seq(S) /\ Len(next) = n - c /\ DOMAIN next = 1 .. n - c
        /\ \A j \in 1 .. n - c : next[j] = s[c + j]
    BY <1>1, EndIs
  <1> HIDE DEF pend, next
  <1>4. Len(rest) = n - a - i + 1 /\ DOMAIN rest = 1 .. n - a - i + 1
        /\ \A j \in 1 .. n - a - i + 1 : rest[j] = pend[i + j - 1]
    <2>1. n - a \in Nat /\ i <= (n - a) + 1
      BY <1>1
    <2> QED
      BY <1>2, <2>1, PartIs
  <1> HIDE DEF rest
  <1>5. \A j \in 1 .. n - c : j + d \in 1 .. n - a - i + 1
    BY <1>1
  <1>6. at \in [DOMAIN next -> DOMAIN rest] /\ DOMAIN at = 1 .. n - c
    BY <1>3, <1>4, <1>5
  <1>7. \A j, k \in 1 .. n - c : j < k => at[j] < at[k]
    BY <1>1
  <1>8. \A j \in 1 .. n - c : next[j] = rest[at[j]]
    <2> TAKE j \in 1 .. n - c
    <2>1. i + (j + d) - 1 \in 1 .. n - a /\ a + (i + (j + d) - 1) = c + j
      BY <1>1
    <2>2. rest[j + d] = pend[i + (j + d) - 1]
      BY <1>4, <1>5
    <2>3. pend[i + (j + d) - 1] = s[c + j]
      BY <1>2, <2>1
    <2> QED
      BY <1>3, <2>2, <2>3
  <1> HIDE DEF at
  <1>9. next = [j \in DOMAIN at |-> rest[at[j]]]
    <2>1. next = [j \in 1 .. n - c |-> next[j]]
      BY <1>3
    <2> QED
      BY <1>6, <1>8, <2>1
  <1>10. SomeOf(next, rest)
    BY <1>6, <1>7, <1>9 DEF SomeOf
  <1> QED
    BY <1>10 DEF rest, pend, next

(* No more replies are on the wire than have been sent.                      *)
LEMMA OnWireSent ==
    ASSUME FramesInv
    PROVE  /\ OnWire \in Nat /\ OnWire <= Len(repliesSent)
           /\ FrameSize * OnWire < Len(wire) + FrameSize
           /\ Len(wire) <= FrameSize * OnWire
  <1> DEFINE F == FrameSize
             n == Len(repliesSent)
             l == Len(wire)
  <1>1. /\ wire \in Seq(Byte) /\ repliesSent \in Seq(ReplyData) /\ spoils \in BOOLEAN
        /\ F \in Nat \ {0} /\ n \in Nat /\ l \in Nat /\ F * n \in Nat
        /\ Len(comTempBuffer) \in Nat /\ (n = 0 => repliesSent = <<>>)
        /\ (wire = <<>> => l = 0)
    BY ReplyFacts DEF FramesInv, FramesTypeOK
  <1>2. OnWire \in Nat /\ F * OnWire < l + F /\ l <= F * OnWire
    BY <1>1, OnWireIs
  <1>3. l <= F * n
    <2>1. CASE ~spoils
      BY <2>1 DEF FramesInv, Quiet
    <2>2. CASE spoils /\ wire # <<>>
      <3>1. repliesSent # <<>> /\ Len(comTempBuffer) + l = F
        BY <2>2 DEF FramesInv, OneByOne
      <3>2. 1 <= n /\ F * 1 = F
        BY <1>1, <3>1
      <3>3. F * 1 <= F * n
        BY <1>1, <3>2, Product
      <3> QED
        BY <1>1, <3>1, <3>2, <3>3
    <2>3. CASE wire = <<>>
      BY <1>1, <2>3
    <2> QED
      BY <1>1, <2>1, <2>2, <2>3
  <1>4. OnWire <= n
    <2> HIDE DEF F, n, l
    <2>1. F * OnWire \in Nat
      BY <1>1, <1>2
    <2>2. F * OnWire < F * n + F
      BY <1>1, <1>2, <1>3, <2>1
    <2> QED
      BY <1>1, <1>2, <2>2, Multiples
  <1> QED
    BY <1>2, <1>4

(* A length's number of replies.                                             *)
LEMMA Rounded ==
    ASSUME NEW l \in Nat, NEW m \in Nat, FrameSize * m < l + FrameSize, l <= FrameSize * m
    PROVE  (l + FrameSize - 1) \div FrameSize = m
  <1> DEFINE F == FrameSize
             r == l + F - 1 - F * m
  <1>1. F \in Nat \ {0} /\ F * m \in Nat
    BY ReplyFacts
  <1>2. r \in 0 .. F - 1 /\ F * m + r = l + F - 1
    BY <1>1
  <1> HIDE DEF F, r
  <1>3. (F * m + r) \div F = m
    BY <1>1, <1>2, DivisionIs
  <1> QED
    BY <1>2, <1>3 DEF F

LEMMA OnWireSending ==
    ASSUME FramesInv, NEW data \in ReplyData, SendReply(data)
    PROVE  OnWire' = OnWire + 1
  <1> DEFINE F == FrameSize
             l == Len(wire)
             m == OnWire
  <1>1. F \in Nat \ {0} /\ l \in Nat /\ m \in Nat /\ F * m < l + F /\ l <= F * m
    BY ReplyFacts, OnWireSent DEF FramesInv, FramesTypeOK
  <1>2. Len(wire') = l + F
    <2>1. wire' = wire \o Frame(data) /\ wire \in Seq(Byte)
      BY DEF SendReply, FramesInv, FramesTypeOK
    <2>2. Frame(data) \in Seq(Byte) /\ Len(Frame(data)) = F
      BY ReplyFacts
    <2>3. Len(wire \o Frame(data)) = l + Len(Frame(data))
      BY <2>1, <2>2, Concatenated
    <2> QED
      BY <2>1, <2>2, <2>3
  <1>3. F * (m + 1) = F * m + F /\ F * m \in Nat
    BY <1>1
  <1>4. OnWire' = (l + F + F - 1) \div F
    BY <1>2 DEF OnWire
  <1> HIDE DEF F, l, m
  <1>5. F * (m + 1) < (l + F) + F /\ l + F <= F * (m + 1) /\ l + F \in Nat /\ m + 1 \in Nat
    BY <1>1, <1>3
  <1>6. (l + F + F - 1) \div F = m + 1
    BY <1>5, Rounded DEF F
  <1> QED
    BY <1>4, <1>6 DEF m

(* A read leaves as many replies on the wire as have a byte behind it.       *)
LEMMA OnWireReading ==
    ASSUME FramesInv, NEW k \in 1 .. Len(wire), DataReceived(k)
    PROVE  /\ OnWire' \in Nat /\ OnWire' <= OnWire
           /\ \A r \in 1 .. Len(repliesSent) :
                FrameSize * r <= FrameSize * Len(repliesSent) - Len(wire) + k
                  => r + OnWire' <= Len(repliesSent)
  <1> DEFINE F == FrameSize
             n == Len(repliesSent)
             l == Len(wire)
             x == OnWire'
  <1>1. /\ F \in Nat \ {0} /\ l \in Nat /\ n \in Nat /\ k \in Nat /\ k <= l
        /\ OnWire \in Nat /\ l <= F * OnWire /\ F * OnWire \in Nat /\ F * n \in Nat
    BY ReplyFacts, OnWireSent DEF FramesInv, FramesTypeOK
  <1>2. FramesInv' /\ repliesSent' = repliesSent /\ wire' = SubSeq(wire, k + 1, l)
    BY Read DEF DataReceived
  <1>3. Len(wire') = l - k
    BY <1>1, <1>2 DEF FramesInv, FramesTypeOK
  <1>4. x = (l - k + F - 1) \div F
    BY <1>3 DEF OnWire
  <1>5. l - k + F - 1 \in Nat
    BY <1>1
  <1> HIDE DEF F, n, l, x
  <1>6. x \in Nat /\ F * x \in Nat /\ F * x < l - k + F
    <2> DEFINE p == l - k + F - 1
    <2>1. p \div F \in Nat /\ p % F \in 0 .. F - 1 /\ p = F * (p \div F) + (p % F)
      BY <1>1, <1>5, Division
    <2>2. x = p \div F
      BY <1>4
    <2>3. F * x \in Nat /\ p = F * x + (p % F) /\ p % F >= 0 /\ p % F \in Int
      BY <1>1, <2>1, <2>2
    <2> QED
      BY <1>1, <2>1, <2>2, <2>3
  <1>7. x <= OnWire
    <2>1. F * x < F * OnWire + F
      BY <1>1, <1>6
    <2> QED
      BY <1>1, <1>6, <2>1, Multiples
  <1>8. ASSUME NEW r \in 1 .. n, F * r <= F * n - l + k PROVE r + x <= n
    <2>1. F * (r + x) = F * r + F * x /\ F * r \in Nat
      BY <1>1, <1>6
    <2>2. F * (r + x) < F * n + F
      BY <1>1, <1>6, <1>8, <2>1
    <2> QED
      BY <1>1, <1>6, <2>2, Multiples
  <1> QED
    BY <1>6, <1>7, <1>8 DEF F, n, l, x

LEMMA EndOfMore ==
    ASSUME NEW S, NEW s \in Seq(S), NEW x \in S, NEW a \in Nat, a <= Len(s)
    PROVE  SubSeq(Append(s, x), a + 1, Len(s) + 1) = Append(SubSeq(s, a + 1, Len(s)), x)
  <1> DEFINE n == Len(s)
             t == Append(s, x)
             u == SubSeq(t, a + 1, n + 1)
             v == SubSeq(s, a + 1, n)
             w == Append(v, x)
  <1>1. /\ n \in Nat /\ t \in Seq(S) /\ Len(t) = n + 1 /\ t[n + 1] = x
        /\ \A j \in 1 .. n : t[j] = s[j]
    OBVIOUS
  <1> HIDE DEF t
  <1>2. /\ u \in Seq(S) /\ Len(u) = n - a + 1
        /\ \A j \in 1 .. n - a + 1 : u[j] = t[a + j]
    <2>1. a <= Len(t) /\ Len(t) - a = n - a + 1 /\ u = SubSeq(t, a + 1, Len(t))
      BY <1>1
    <2> QED
      BY <1>1, <2>1, EndIs
  <1>3. v \in Seq(S) /\ Len(v) = n - a /\ \A j \in 1 .. n - a : v[j] = s[a + j]
    BY <1>1, EndIs
  <1> HIDE DEF u, v
  <1>4. w \in Seq(S) /\ Len(w) = n - a + 1 /\ w[n - a + 1] = x
        /\ \A j \in 1 .. n - a : w[j] = v[j]
    BY <1>3
  <1> HIDE DEF w
  <1>5. ASSUME NEW j \in 1 .. n - a + 1 PROVE u[j] = w[j]
    <2>1. CASE j = n - a + 1
      <3>1. a + j = n + 1
        BY <1>1, <2>1
      <3> QED
        BY <1>1, <1>2, <1>4, <2>1, <3>1
    <2>2. CASE j # n - a + 1
      <3>1. j \in 1 .. n - a /\ a + j \in 1 .. n
        BY <1>1, <2>2
      <3> QED
        BY <1>1, <1>2, <1>3, <1>4, <3>1
    <2> QED
      BY <2>1, <2>2
  <1>6. u = w
    <2>1. u = [j \in 1 .. n - a + 1 |-> u[j]] /\ w = [j \in 1 .. n - a + 1 |-> w[j]]
      BY <1>2, <1>4
    <2> QED
      BY <1>5, <2>1
  <1> QED
    BY <1>6 DEF t, u, v, w

(* The tool is a channel of whole replies, in whatever pieces the bytes      *)
(* come: replies are processed as they were sent, in order and once, or    *)
(* not at all.                                                             *)
THEOREM ToolIsAChannel == FramesSpec => ImplementsReplies
  <1> DEFINE pend == SubSeq(repliesSent, Len(repliesSent) - OnWire + 1, Len(repliesSent))
  <1>1. FramesInit => Replies!Init
    <2> SUFFICES ASSUME FramesInit PROVE Replies!Init
      OBVIOUS
    <2>1. repliesSent = <<>> /\ frames = <<>>
      BY DEF FramesInit
    <2>2. FramesInv
      BY FramesInitially
    <2>3. OnWire = 0 /\ Len(repliesSent) = 0
      BY <2>1, <2>2, OnWireSent
    <2>4. pend = <<>>
      BY <2>1, <2>3
    <2> QED
      BY <2>1, <2>4 DEF Replies!Init
  <1>2. FramesInv /\ [FramesNext]_framesVars => [Replies!Next]_<<TRUE, pend, frames>>
    <2> SUFFICES ASSUME FramesInv, FramesNext \/ UNCHANGED framesVars
                 PROVE  Replies!Next \/ (pend' = pend /\ frames' = frames)
      BY DEF framesVars
    <2> DEFINE n == Len(repliesSent)
               a == n - OnWire
    <2>1. /\ repliesSent \in Seq(ReplyData) /\ n \in Nat /\ a \in Nat /\ a <= n
          /\ OnWire \in Nat /\ DOMAIN wire = 1 .. Len(wire)
      BY OnWireSent DEF FramesInv, FramesTypeOK
    <2>2. CASE UNCHANGED framesVars
      BY <2>2 DEF framesVars, OnWire
    <2>3. ASSUME NEW i \in DOMAIN wire, NEW c \in Byte, SpoilReply(i, c)
          PROVE  pend' = pend /\ frames' = frames
      <3>1. repliesSent' = repliesSent /\ frames' = frames /\ wire' = [wire EXCEPT ![i] = c]
        BY <2>3 DEF SpoilReply
      <3>2. wire \in Seq(Byte)
        BY DEF FramesInv, FramesTypeOK
      <3>3. Len(wire') = Len(wire)
        BY <2>1, <3>1, <3>2
      <3> QED
        BY <3>1, <3>3 DEF OnWire
    <2>4. ASSUME NEW data \in ReplyData, SendReply(data) PROVE Replies!Next
      <3>1. repliesSent' = Append(repliesSent, data) /\ frames' = frames
        BY <2>4 DEF SendReply
      <3>2. Len(repliesSent') = n + 1 /\ OnWire' = OnWire + 1
        BY <2>1, <2>4, <3>1, OnWireSending
      <3>3. Len(repliesSent') - OnWire' + 1 = a + 1
        BY <2>1, <3>2
      <3>4. pend' = SubSeq(Append(repliesSent, data), a + 1, n + 1)
        BY <3>1, <3>2, <3>3
      <3>5. pend' = Append(pend, data)
        BY <2>1, <3>4, EndOfMore
      <3> QED
        BY <3>1, <3>5 DEF Replies!Next, Replies!Arrive
    <2>5. ASSUME NEW k \in 1 .. Len(wire), DataReceived(k) PROVE Replies!Next
      <3> DEFINE c == n - OnWire'
      <3>1. repliesSent' = repliesSent
        BY <2>5 DEF DataReceived
      <3>2. OnWire' \in Nat /\ OnWire' <= OnWire
        BY <2>5, OnWireReading
      <3>3. c \in Nat /\ c <= n /\ a <= c /\ pend' = SubSeq(repliesSent, c + 1, n)
        BY <2>1, <3>1, <3>2
      <3> HIDE DEF c
      <3>4. ASSUME NEW i \in Nat \ {0}, a + i <= c + 1 PROVE Replies!Remain(i)
        <4> DEFINE rest == SubSeq(pend, i, Len(pend))
        <4>1. SomeOf(pend', rest)
          <5> DEFINE p == SubSeq(repliesSent, a + 1, n)
          <5>1. pend = p
            OBVIOUS
          <5> HIDE DEF a, pend
          <5>2. SomeOf(SubSeq(repliesSent, c + 1, n), SubSeq(p, i, Len(p)))
            BY <2>1, <3>3, <3>4, EndRemains
          <5> HIDE DEF p
          <5> QED
            BY <3>3, <5>1, <5>2
        <4> QED
          BY <4>1 DEF Replies!Remain, SomeOf
      <3>5. CASE frames' = frames
        <4>1. Replies!Remain(1)
          BY <2>1, <3>3, <3>4
        <4> QED
          BY <3>5, <4>1 DEF Replies!Lose, Replies!Next
      <3>6. CASE CameOut(k)
        <4> DEFINE F == FrameSize
                   l == Len(wire)
        <4>1. PICK r \in DOMAIN repliesSent :
                 /\ frames' = Append(frames, repliesSent[r])
                 /\ F * r > F * n - l /\ F * r <= F * n - l + k
          BY <3>6 DEF CameOut
        <4>2. r \in 1 .. n /\ r \in Nat
          BY <2>1, <4>1
        <4>3. r <= c
          <5>1. r + OnWire' <= n
            BY <2>5, <4>1, <4>2, OnWireReading
          <5> QED
            BY <2>1, <3>2, <4>2, <5>1 DEF c
        <4>4. a < r
          <5>1. F \in Nat \ {0} /\ l \in Nat /\ l <= F * OnWire
            BY ReplyFacts, OnWireSent DEF FramesInv, FramesTypeOK
          <5> HIDE DEF n, F, l
          <5>2. F * (a + 1) = F * n - F * OnWire + F
            BY <2>1, <5>1
          <5>3. F * n \in Nat /\ F * OnWire \in Nat /\ F * r \in Nat
            BY <2>1, <4>2, <5>1
          <5>4. F * (a + 1) < F * r + F
            BY <4>1, <5>1, <5>2, <5>3
          <5>5. a + 1 <= r
            BY <2>1, <4>2, <5>1, <5>4, Multiples
          <5> QED
            BY <2>1, <4>2, <5>5
        <4>5. r - a \in Nat \ {0} /\ a + ((r - a) + 1) <= c + 1 /\ (r - a) + 1 \in Nat \ {0}
          <5>1. a \in Nat /\ c \in Nat
            BY <2>1, <3>3
          <5> HIDE DEF a
          <5> QED
            BY <4>2, <4>3, <4>4, <5>1
        <4>6. Replies!Remain((r - a) + 1)
          BY <3>4, <4>5
        <4>7. r - a \in DOMAIN pend /\ pend[r - a] = repliesSent[r]
          <5>1. r - a \in 1 .. n - a /\ a + (r - a) = r
            BY <2>1, <4>2, <4>4
          <5>2. pend = SubSeq(repliesSent, a + 1, n)
            OBVIOUS
          <5> DEFINE j == r - a
          <5>3. a \in Nat /\ n \in Nat /\ a <= n /\ n = Len(repliesSent)
                /\ repliesSent \in Seq(ReplyData)
            BY <2>1
          <5> HIDE DEF pend, a, n, j
          <5>4. /\ Len(SubSeq(repliesSent, a + 1, n)) = n - a
                /\ DOMAIN SubSeq(repliesSent, a + 1, n) = 1 .. n - a
            BY <5>3
          <5>5. j \in 1 .. n - a /\ a + j = r
            BY <5>1 DEF j
          <5>6. j \in DOMAIN pend
            BY <5>2, <5>4, <5>5
          <5>7. SubSeq(repliesSent, a + 1, n)[j] = repliesSent[a + j]
            BY <5>3, <5>5, EndIs
          <5> QED
            BY <5>2, <5>5, <5>6, <5>7 DEF j
        <4>8. Replies!Take
          BY <4>1, <4>6, <4>7 DEF Replies!Take
        <4> QED
          BY <4>8 DEF Replies!Next
      <3> QED
        BY <2>5, <3>5, <3>6, Read
    <2> QED
      BY <2>1, <2>2, <2>3, <2>4, <2>5 DEF FramesNext
  <1> QED
    BY <1>1, <1>2, FramesAlways, PTL DEF FramesSpec, ImplementsReplies, Replies!Spec
=============================================================================
