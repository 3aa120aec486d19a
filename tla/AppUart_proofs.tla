----------------------------- MODULE AppUart_proofs -----------------------------
(***************************************************************************)
(* Proofs about AppUart: for every size of the buffers, every range of the *)
(* positions and any number of bytes.  The facts about the byte FIFO come  *)
(* first: what its bytes become when one is written or read with the       *)
(* accesses of app_fifo.c one by one.                                      *)
(***************************************************************************)
EXTENDS AppUart, SequenceTheorems, TLAPS

-----------------------------------------------------------------------------
(* The byte FIFO *)

LEMMA Sizes ==
    /\ BufSize \in Nat /\ BufSize >= 2 /\ BufSize \in Nat \ {0}
    /\ PosRange \in Nat /\ PosRange >= 2 * BufSize /\ PosRange \in Nat \ {0}
    /\ buf_size_mask = BufSize - 1
BY BufSizeAssumption, PosRangeAssumption DEF buf_size_mask

LEMMA WholeRounds == PosRange % BufSize = 0
BY PosRangeAssumption

LEMMA Remainder == \A n \in Nat \ {0} : \A x \in Int : x % n \in 0 .. n - 1
BY SMT

LEMMA InBuffer == \A x \in Nat : x % BufSize \in 0 .. buf_size_mask
<1> SUFFICES ASSUME NEW x \in Nat PROVE x % BufSize \in 0 .. buf_size_mask
  OBVIOUS
<1>1. x \in Int /\ BufSize \in Nat \ {0} /\ buf_size_mask = BufSize - 1
  BY Sizes
<1>2. x % BufSize \in 0 .. BufSize - 1
  BY <1>1, Remainder
<1> QED
  BY <1>1, <1>2

LEMMA SmallRemainder == \A n \in Nat \ {0} : \A x \in 0 .. n - 1 : x % n = x /\ (x + n) % n = x
BY SMT

LEMMA Division ==
    \A n \in Nat \ {0} : \A x \in Int :
        /\ x \div n \in Int /\ x % n \in 0 .. n - 1
        /\ x = n * (x \div n) + (x % n)
BY SMT

LEMMA NoMultipleBetween ==
    \A n \in Nat \ {0} : \A k \in Int : -n < n * k /\ n * k < n => n * k = 0
<1> SUFFICES ASSUME NEW n \in Nat \ {0}, NEW k \in Int, -n < n * k, n * k < n
             PROVE  n * k = 0
  OBVIOUS
<1>1. CASE k >= 1
  BY <1>1
<1>2. CASE k <= -1
  BY <1>2
<1> QED
  BY <1>1, <1>2

(* A number of whole rounds more leads to the same place. *)
LEMMA SameRemainder ==
    ASSUME NEW n \in Nat \ {0}, NEW m \in Nat, NEW x \in Nat, m % n = 0
    PROVE  (x + m) % n = x % n
<1> DEFINE q == (x + m) \div n - x \div n - m \div n
<1>1. /\ x + m = n * ((x + m) \div n) + ((x + m) % n)
      /\ x = n * (x \div n) + (x % n)
      /\ m = n * (m \div n)
      /\ (x + m) \div n \in Int /\ x \div n \in Int /\ m \div n \in Int
      /\ (x + m) % n \in 0 .. n - 1 /\ x % n \in 0 .. n - 1
  <2>1. x + m \in Int /\ x \in Int /\ m \in Int
    OBVIOUS
  <2>2. m = n * (m \div n) + (m % n) /\ m \div n \in Int
    BY <2>1, Division
  <2>3. x + m = n * ((x + m) \div n) + ((x + m) % n) /\ (x + m) \div n \in Int
    BY <2>1, Division
  <2> QED
    BY <2>1, <2>2, <2>3, Division
<1>2. n * q = n * ((x + m) \div n) - n * (x \div n) - n * (m \div n)
  BY <1>1
<1>3. n * q = (x % n) - ((x + m) % n)
  BY <1>1, <1>2
<1>4. n * q = 0
  BY <1>1, <1>3, NoMultipleBetween
<1> QED
  BY <1>1, <1>3, <1>4

(* Places less than a round apart differ. *)
LEMMA OtherRemainder ==
    ASSUME NEW n \in Nat \ {0}, NEW x \in Nat, NEW y \in Nat, x < y, y < x + n
    PROVE  x % n # y % n
<1> SUFFICES ASSUME x % n = y % n PROVE FALSE
  OBVIOUS
<1> DEFINE q == y \div n - x \div n
<1>1. /\ y = n * (y \div n) + (y % n)
      /\ x = n * (x \div n) + (x % n)
      /\ y \div n \in Int /\ x \div n \in Int
      /\ y % n \in Int /\ x % n \in Int
  BY Division
<1>2. n * q = n * (y \div n) - n * (x \div n)
  BY <1>1
<1>3. n * q = y - x
  BY <1>1, <1>2
<1>4. n * q = 0
  BY <1>1, <1>3, NoMultipleBetween
<1> QED
  BY <1>3, <1>4

LEMMA DistanceIs ==
    \A read, write \in Positions :
        /\ Distance(read, write) = IF read <= write THEN write - read ELSE write - read + PosRange
        /\ Distance(read, write) \in Positions
<1> SUFFICES ASSUME NEW read \in Positions, NEW write \in Positions
             PROVE  /\ Distance(read, write) =
                         IF read <= write THEN write - read ELSE write - read + PosRange
                    /\ Distance(read, write) \in Positions
  OBVIOUS
<1>1. read \in 0 .. PosRange - 1 /\ write \in 0 .. PosRange - 1 /\ PosRange \in Nat \ {0}
  BY Sizes DEF Positions
<1>2. CASE read <= write
  <2>1. write - read \in 0 .. PosRange - 1 /\ write - read + PosRange = (write - read) + PosRange
    BY <1>1, <1>2
  <2>2. (write - read + PosRange) % PosRange = write - read
    BY <1>1, <2>1, SmallRemainder
  <2> QED
    BY <1>2, <2>1, <2>2 DEF Distance, Positions
<1>3. CASE ~(read <= write)
  <2>1. write - read + PosRange \in 0 .. PosRange - 1
    BY <1>1, <1>3
  <2>2. (write - read + PosRange) % PosRange = write - read + PosRange
    BY <1>1, <2>1, SmallRemainder
  <2> QED
    BY <1>3, <2>1, <2>2 DEF Distance, Positions
<1> QED
  BY <1>2, <1>3

LEMMA AfterIs == \A pos \in Positions :
    /\ After(pos) = IF pos = PosRange - 1 THEN 0 ELSE pos + 1
    /\ After(pos) \in Positions
BY Sizes, SmallRemainder DEF Positions, After

-----------------------------------------------------------------------------
(* One byte more, one byte less *)

LEMMA LengthGrows ==
    ASSUME NEW read \in Positions, NEW write \in Positions, Distance(read, write) < PosRange - 1
    PROVE  Distance(read, After(write)) = Distance(read, write) + 1
<1> DEFINE next == After(write)
<1>1. /\ read \in 0 .. PosRange - 1 /\ write \in 0 .. PosRange - 1
      /\ PosRange \in Nat /\ PosRange >= 4
  BY Sizes DEF Positions
<1>2. next \in Positions /\ next = IF write = PosRange - 1 THEN 0 ELSE write + 1
  BY AfterIs
<1>3. Distance(read, write) = IF read <= write THEN write - read ELSE write - read + PosRange
  BY DistanceIs
<1> HIDE DEF next
<1>4. Distance(read, next) = IF read <= next THEN next - read ELSE next - read + PosRange
  BY <1>2, DistanceIs
<1>5. Distance(read, next) = Distance(read, write) + 1
  BY <1>1, <1>2, <1>3, <1>4
<1> QED
  BY <1>5 DEF next

LEMMA LengthShrinks ==
    ASSUME NEW read \in Positions, NEW write \in Positions, Distance(read, write) > 0
    PROVE  Distance(After(read), write) = Distance(read, write) - 1
<1> DEFINE next == After(read)
<1>1. /\ read \in 0 .. PosRange - 1 /\ write \in 0 .. PosRange - 1
      /\ PosRange \in Nat /\ PosRange >= 4
  BY Sizes DEF Positions
<1>2. next \in Positions /\ next = IF read = PosRange - 1 THEN 0 ELSE read + 1
  BY AfterIs
<1>3. Distance(read, write) = IF read <= write THEN write - read ELSE write - read + PosRange
  BY DistanceIs
<1> HIDE DEF next
<1>4. Distance(next, write) = IF next <= write THEN write - next ELSE write - next + PosRange
  BY <1>2, DistanceIs
<1>5. Distance(next, write) = Distance(read, write) - 1
  BY <1>1, <1>2, <1>3, <1>4
<1> QED
  BY <1>5 DEF next

(* The place of the i-th byte from a position on, also where positions wrap. *)
LEMMA PlaceAfter ==
    ASSUME NEW pos \in Positions, NEW i \in Nat
    PROVE  (After(pos) + i) % BufSize = (pos + i + 1) % BufSize
<1>1. CASE pos = PosRange - 1
  <2>1. After(pos) + i = i /\ pos + i + 1 = i + PosRange
    BY <1>1, Sizes, AfterIs
  <2>2. (i + PosRange) % BufSize = i % BufSize
    BY Sizes, WholeRounds, SameRemainder
  <2> QED
    BY <2>1, <2>2
<1>2. CASE pos # PosRange - 1
  <2>1. After(pos) + i = pos + i + 1
    BY <1>2, Sizes, AfterIs DEF Positions
  <2> QED
    BY <2>1
<1> QED
  BY <1>1, <1>2

(* The place that is written next is that of the byte behind the last. *)
LEMMA PlaceOfWrite ==
    ASSUME NEW read \in Positions, NEW write \in Positions
    PROVE  (read + Distance(read, write)) % BufSize = write % BufSize
<1>1. CASE read <= write
  <2>1. read + Distance(read, write) = write
    BY <1>1, Sizes, DistanceIs DEF Positions
  <2> QED
    BY <2>1
<1>2. CASE ~(read <= write)
  <2>1. read + Distance(read, write) = write + PosRange
    BY <1>2, Sizes, DistanceIs DEF Positions
  <2>2. (write + PosRange) % BufSize = write % BufSize
    <3>1. write \in Nat
      BY Sizes DEF Positions
    <3> QED
      BY <3>1, Sizes, WholeRounds, SameRemainder
  <2> QED
    BY <2>1, <2>2
<1> QED
  BY <1>1, <1>2

-----------------------------------------------------------------------------
(* The bytes in the FIFO *)

LEMMA BytesAre ==
    ASSUME NEW S, NEW f \in Fifos(S)
    PROVE  /\ f.read_pos \in Positions /\ f.write_pos \in Positions
           /\ f.buf \in [0 .. buf_size_mask -> S]
           /\ \A x \in Nat : ByteAt(f, x) \in S /\ ByteAt(f, x) = f.buf[x % BufSize]
           /\ fifo_length(f) \in Nat
           /\ BytesIn(f) \in Seq(S) /\ Len(BytesIn(f)) = fifo_length(f)
           /\ \A i \in 0 .. fifo_length(f) - 1 : BytesIn(f)[i + 1] = ByteAt(f, f.read_pos + i)
<1>1. /\ f.read_pos \in Positions /\ f.write_pos \in Positions
      /\ f.buf \in [0 .. buf_size_mask -> S]
  BY DEF Fifos
<1>2. ASSUME NEW x \in Nat
      PROVE  ByteAt(f, x) \in S /\ ByteAt(f, x) = f.buf[x % BufSize]
  <2>1. x % BufSize \in 0 .. buf_size_mask
    BY InBuffer
  <2> QED
    BY <1>1, <2>1 DEF ByteAt
<1>3. fifo_length(f) \in Nat
  <2>1. fifo_length(f) \in Positions
    BY <1>1, DistanceIs DEF fifo_length
  <2> QED
    BY <2>1, Sizes DEF Positions
<1>4. f.read_pos \in Nat
  BY <1>1, Sizes DEF Positions
<1>5. \A i \in 1 .. fifo_length(f) : ByteAt(f, f.read_pos + i - 1) \in S
  BY <1>2, <1>3, <1>4
<1>6. BytesIn(f) = [i \in 1 .. fifo_length(f) |-> ByteAt(f, f.read_pos + i - 1)]
  BY DEF BytesIn
<1>7. BytesIn(f) \in Seq(S) /\ Len(BytesIn(f)) = fifo_length(f)
  BY <1>3, <1>5, <1>6
<1>8. ASSUME NEW i \in 0 .. fifo_length(f) - 1
      PROVE  BytesIn(f)[i + 1] = ByteAt(f, f.read_pos + i)
  <2>1. i + 1 \in 1 .. fifo_length(f)
    BY <1>3, <1>8
  <2>2. f.read_pos + (i + 1) - 1 = f.read_pos + i
    BY <1>3, <1>4, <1>8
  <2>3. BytesIn(f)[i + 1] = ByteAt(f, f.read_pos + (i + 1) - 1)
    BY <1>6, <2>1
  <2> QED
    BY <2>2, <2>3
<1> QED
  BY <1>1, <1>2, <1>3, <1>7, <1>8

(* A byte stored where the next one goes changes none of those in the FIFO. *)
LEMMA StoreKeeps ==
    ASSUME NEW S, NEW f \in Fifos(S), NEW byte \in S, fifo_length(f) < BufSize
    PROVE  LET g == StoreAt(f, f.write_pos, byte) IN
           /\ g \in Fifos(S)
           /\ g.read_pos = f.read_pos /\ g.write_pos = f.write_pos
           /\ BytesIn(g) = BytesIn(f) /\ fifo_length(g) = fifo_length(f)
           /\ ByteAt(g, g.write_pos) = byte
<1> DEFINE g == StoreAt(f, f.write_pos, byte)
           r == f.read_pos
           n == fifo_length(f)
<1>1. /\ r \in Positions /\ f.write_pos \in Positions
      /\ r \in Nat /\ f.write_pos \in Nat /\ n \in Nat
      /\ f.buf \in [0 .. buf_size_mask -> S]
  BY BytesAre, Sizes DEF Positions
<1>2. f.write_pos % BufSize \in 0 .. buf_size_mask
  BY <1>1, InBuffer
<1>3. /\ g \in Fifos(S) /\ g.read_pos = r /\ g.write_pos = f.write_pos
      /\ g.buf = [f.buf EXCEPT ![f.write_pos % BufSize] = byte]
  BY <1>1, <1>2 DEF StoreAt, Fifos
<1>4. fifo_length(g) = n
  BY <1>3 DEF fifo_length
<1>5. ByteAt(g, g.write_pos) = byte
  BY <1>1, <1>2, <1>3 DEF ByteAt
<1>6. ASSUME NEW j \in Nat, j < n PROVE ByteAt(g, r + j) = ByteAt(f, r + j)
  <2> HIDE DEF r, n
  <2>1. (r + n) % BufSize = f.write_pos % BufSize
    BY <1>1, PlaceOfWrite DEF fifo_length, r, n
  <2>2. r + j \in Nat /\ r + n \in Nat /\ r + j < r + n /\ r + n < (r + j) + BufSize
    <3>1. n < BufSize
      BY DEF n
    <3> QED
      BY <1>1, <1>6, <3>1, Sizes
  <2>3. (r + j) % BufSize # (r + n) % BufSize
    BY <2>2, Sizes, OtherRemainder
  <2>4. (r + j) % BufSize \in 0 .. buf_size_mask
    BY <2>2, InBuffer
  <2> QED
    BY <1>1, <1>3, <2>1, <2>3, <2>4 DEF ByteAt
<1>7. ASSUME NEW i \in 1 .. n PROVE ByteAt(g, r + i - 1) = ByteAt(f, r + i - 1)
  <2>1. i - 1 \in Nat /\ i - 1 < n /\ r + (i - 1) = r + i - 1
    BY <1>1, <1>7
  <2> QED
    BY <1>6, <2>1
<1>8. BytesIn(g) = BytesIn(f)
  BY <1>3, <1>4, <1>7 DEF BytesIn
<1> QED
  BY <1>3, <1>4, <1>5, <1>8

(* The position of the writer moves on: one byte more. *)
LEMMA WriteAppends ==
    ASSUME NEW S, NEW f \in Fifos(S), fifo_length(f) < BufSize
    PROVE  LET g == [f EXCEPT !.write_pos = After(f.write_pos)] IN
           /\ g \in Fifos(S)
           /\ BytesIn(g) = Append(BytesIn(f), ByteAt(f, f.write_pos))
           /\ fifo_length(g) = fifo_length(f) + 1
<1> DEFINE n == fifo_length(f)
           r == f.read_pos
           h == Append(BytesIn(f), ByteAt(f, f.write_pos))
<1>1. /\ r \in Positions /\ f.write_pos \in Positions /\ n \in Nat
      /\ r \in Nat /\ f.write_pos \in Nat
      /\ BytesIn(f) \in Seq(S) /\ Len(BytesIn(f)) = n /\ ByteAt(f, f.write_pos) \in S
      /\ \A i \in 0 .. n - 1 : BytesIn(f)[i + 1] = ByteAt(f, r + i)
  BY BytesAre, Sizes DEF Positions
<1>2. ASSUME NEW g, g = [f EXCEPT !.write_pos = After(f.write_pos)]
      PROVE  /\ g \in Fifos(S)
             /\ BytesIn(g) = h
             /\ fifo_length(g) = n + 1
  <2>1. g \in Fifos(S) /\ g.read_pos = r /\ g.buf = f.buf /\ g.write_pos = After(f.write_pos)
    BY <1>1, <1>2, AfterIs DEF Fifos
  <2>2. fifo_length(g) = n + 1
    BY <1>1, <2>1, Sizes, LengthGrows DEF fifo_length
  <2>3. /\ BytesIn(g) \in Seq(S) /\ Len(BytesIn(g)) = n + 1
        /\ \A i \in 0 .. n : BytesIn(g)[i + 1] = ByteAt(g, r + i)
    <3>1. n + 1 - 1 = n
      BY <1>1
    <3> QED
      BY <2>1, <2>2, <3>1, BytesAre
  <2>4. /\ h \in Seq(S) /\ Len(h) = n + 1 /\ h[n + 1] = ByteAt(f, f.write_pos)
        /\ \A i \in 1 .. n : h[i] = BytesIn(f)[i]
    BY <1>1, AppendProperties
  <2>5. ASSUME NEW j \in 0 .. n PROVE BytesIn(g)[j + 1] = h[j + 1]
    <3>1. BytesIn(g)[j + 1] = ByteAt(f, r + j)
      BY <2>1, <2>3, <2>5 DEF ByteAt
    <3>2. CASE j = n
      <4>1. ByteAt(f, r + n) = ByteAt(f, f.write_pos)
        BY <1>1, PlaceOfWrite DEF fifo_length, ByteAt
      <4> QED
        BY <2>4, <3>1, <3>2, <4>1
    <3>3. CASE j # n
      <4>1. j \in 0 .. n - 1 /\ j + 1 \in 1 .. n
        BY <1>1, <2>5, <3>3
      <4> QED
        BY <1>1, <2>4, <3>1, <4>1
    <3> QED
      BY <3>2, <3>3
  <2>6. ASSUME NEW i \in 1 .. n + 1 PROVE BytesIn(g)[i] = h[i]
    <3>1. i - 1 \in 0 .. n /\ (i - 1) + 1 = i
      BY <1>1, <2>6
    <3> QED
      BY <2>5, <3>1
  <2> HIDE DEF h
  <2>7. BytesIn(g) = h
    BY <2>3, <2>4, <2>6, SeqEqual
  <2> QED
    BY <2>1, <2>2, <2>7
<1> QED
  BY <1>2

(* The position of the reader moves on: the first byte is gone. *)
LEMMA ReadTakes ==
    ASSUME NEW S, NEW f \in Fifos(S), fifo_length(f) > 0
    PROVE  LET g == [f EXCEPT !.read_pos = After(f.read_pos)] IN
           /\ g \in Fifos(S)
           /\ BytesIn(f) = <<ByteAt(f, f.read_pos)>> \o BytesIn(g)
           /\ fifo_length(g) = fifo_length(f) - 1
<1> DEFINE n == fifo_length(f)
           r == f.read_pos
           first == <<ByteAt(f, r)>>
<1>1. /\ r \in Positions /\ f.write_pos \in Positions /\ n \in Nat
      /\ r \in Nat /\ After(r) \in Nat /\ After(r) \in Positions
      /\ BytesIn(f) \in Seq(S) /\ Len(BytesIn(f)) = n /\ ByteAt(f, r) \in S
      /\ \A i \in 0 .. n - 1 : BytesIn(f)[i + 1] = ByteAt(f, r + i)
  BY BytesAre, AfterIs, Sizes DEF Positions
<1>2. first \in Seq(S) /\ Len(first) = 1 /\ first[1] = ByteAt(f, r)
  BY <1>1
<1>3. ASSUME NEW g, g = [f EXCEPT !.read_pos = After(r)]
      PROVE  /\ g \in Fifos(S)
             /\ BytesIn(f) = first \o BytesIn(g)
             /\ fifo_length(g) = n - 1
  <2>1. g \in Fifos(S) /\ g.write_pos = f.write_pos /\ g.buf = f.buf /\ g.read_pos = After(r)
    BY <1>1, <1>3 DEF Fifos
  <2>2. fifo_length(g) = n - 1
    BY <1>1, <2>1, LengthShrinks DEF fifo_length
  <2>3. /\ BytesIn(g) \in Seq(S) /\ Len(BytesIn(g)) = n - 1
        /\ \A i \in 0 .. n - 1 - 1 : BytesIn(g)[i + 1] = ByteAt(g, After(r) + i)
    BY <2>1, <2>2, BytesAre
  <2> HIDE DEF first
  <2> DEFINE h == first \o BytesIn(g)
  <2>4. /\ h \in Seq(S) /\ Len(h) = Len(first) + Len(BytesIn(g))
        /\ \A i \in 1 .. Len(first) + Len(BytesIn(g)) :
             h[i] = IF i <= Len(first) THEN first[i] ELSE BytesIn(g)[i - Len(first)]
    BY <1>2, <2>3, ConcatProperties, Zenon
  <2>5. /\ Len(h) = n /\ h[1] = first[1]
        /\ \A j \in 0 .. n - 1 - 1 : h[j + 1 + 1] = BytesIn(g)[j + 1]
    <3> HIDE DEF h
    <3>1. Len(h) = n
      BY <1>1, <1>2, <2>3, <2>4
    <3>2. h[1] = first[1]
      BY <1>1, <1>2, <2>3, <2>4
    <3>3. ASSUME NEW j \in 0 .. n - 1 - 1 PROVE h[j + 1 + 1] = BytesIn(g)[j + 1]
      <4>1. /\ j + 1 + 1 \in 1 .. Len(first) + Len(BytesIn(g)) /\ ~(j + 1 + 1 <= Len(first))
            /\ (j + 1 + 1) - Len(first) = j + 1
        BY <1>1, <1>2, <2>3, <3>3
      <4> QED
        BY <2>4, <4>1
    <3> QED
      BY <3>1, <3>2, <3>3
  <2> HIDE DEF h
  <2>6. ASSUME NEW j \in 0 .. n - 1 PROVE BytesIn(f)[j + 1] = h[j + 1]
    <3>1. BytesIn(f)[j + 1] = ByteAt(f, r + j)
      BY <1>1, <2>6
    <3>2. CASE j = 0
      BY <1>1, <1>2, <2>5, <3>1, <3>2
    <3>3. CASE j # 0
      <4> DEFINE k == j - 1
      <4>1. k \in 0 .. n - 1 - 1 /\ k + 1 = j /\ k \in Nat
        BY <1>1, <2>6, <3>3
      <4> HIDE DEF k
      <4>2. h[k + 1 + 1] = ByteAt(g, After(r) + k)
        BY <2>3, <2>5, <4>1
      <4>3. (After(r) + k) % BufSize = (r + k + 1) % BufSize
        BY <1>1, <4>1, PlaceAfter
      <4>4. r + k + 1 = r + j
        <5>1. r \in Int /\ k \in Int /\ j \in Int
          BY <1>1, <2>6, <4>1
        <5> HIDE DEF r
        <5> QED
          BY <4>1, <5>1
      <4>5. ByteAt(g, After(r) + k) = ByteAt(f, r + j)
        BY <2>1, <4>3, <4>4 DEF ByteAt
      <4> QED
        BY <3>1, <4>1, <4>2, <4>5
    <3> QED
      BY <3>2, <3>3
  <2>7. ASSUME NEW i \in 1 .. n PROVE BytesIn(f)[i] = h[i]
    <3>1. i - 1 \in 0 .. n - 1 /\ (i - 1) + 1 = i
      BY <1>1, <2>7
    <3> QED
      BY <2>6, <3>1
  <2>8. BytesIn(f) = h
    BY <1>1, <2>4, <2>5, <2>7, SeqEqual
  <2> USE DEF h
  <2> QED
    BY <2>1, <2>2, <2>8
<1> QED
  BY <1>3

(* A byte put or got in one step. *)
LEMMA PutAppends ==
    ASSUME NEW S, NEW f \in Fifos(S), NEW byte \in S, ~Full(f)
    PROVE  LET g == fifo_put(f, byte) IN
           /\ g \in Fifos(S) /\ g.read_pos = f.read_pos
           /\ BytesIn(g) = Append(BytesIn(f), byte)
           /\ fifo_length(g) = fifo_length(f) + 1
           /\ fifo_length(f) > 0 => ByteAt(g, g.read_pos) = ByteAt(f, f.read_pos)
<1> DEFINE e == StoreAt(f, f.write_pos, byte)
           g == [e EXCEPT !.write_pos = After(e.write_pos)]
           n == fifo_length(f)
<1>1. fifo_length(f) < BufSize /\ n \in Nat
  <2>1. n \in Nat
    BY BytesAre
  <2> QED
    BY <2>1, Sizes DEF Full
<1>2. /\ e \in Fifos(S) /\ e.read_pos = f.read_pos
      /\ BytesIn(e) = BytesIn(f) /\ fifo_length(e) = n /\ ByteAt(e, e.write_pos) = byte
  BY <1>1, StoreKeeps
<1> HIDE DEF e
<1>3. g \in Fifos(S) /\ BytesIn(g) = Append(BytesIn(f), byte) /\ fifo_length(g) = n + 1
  BY <1>1, <1>2, WriteAppends
<1>4. g.read_pos = f.read_pos
  BY <1>2 DEF Fifos
<1> HIDE DEF g
<1>5. ASSUME n > 0 PROVE ByteAt(g, g.read_pos) = ByteAt(f, f.read_pos)
  <2>1. ASSUME NEW h \in Fifos(S), fifo_length(h) > 0
        PROVE  BytesIn(h)[1] = ByteAt(h, h.read_pos)
    <3>1. h.read_pos \in Nat /\ 0 \in 0 .. fifo_length(h) - 1
      BY <2>1, BytesAre, Sizes DEF Positions
    <3>2. BytesIn(h)[0 + 1] = ByteAt(h, h.read_pos + 0)
      BY <3>1, BytesAre
    <3> QED
      BY <3>1, <3>2
  <2>2. BytesIn(g)[1] = ByteAt(g, g.read_pos) /\ BytesIn(f)[1] = ByteAt(f, f.read_pos)
    BY <1>1, <1>3, <1>5, <2>1
  <2>3. BytesIn(f) \in Seq(S) /\ Len(BytesIn(f)) = n
    BY BytesAre
  <2>4. Append(BytesIn(f), byte)[1] = BytesIn(f)[1]
    BY <1>1, <1>5, <2>3, AppendProperties
  <2> QED
    BY <1>3, <2>2, <2>4
<1>6. g = fifo_put(f, byte)
  BY DEF g, e, fifo_put
<1> QED
  BY <1>3, <1>4, <1>5, <1>6

LEMMA GetTakes ==
    ASSUME NEW S, NEW f \in Fifos(S), ~Empty(f)
    PROVE  LET g == fifo_get(f) IN
           /\ g \in Fifos(S) /\ g.write_pos = f.write_pos /\ g.buf = f.buf
           /\ BytesIn(f) = <<ByteAt(f, f.read_pos)>> \o BytesIn(g)
           /\ fifo_length(g) = fifo_length(f) - 1
<1>1. fifo_length(f) > 0
  BY BytesAre DEF Empty
<1>2. fifo_get(f) = [f EXCEPT !.read_pos = After(f.read_pos)]
  BY DEF fifo_get
<1>3. fifo_get(f).write_pos = f.write_pos /\ fifo_get(f).buf = f.buf
  BY <1>2 DEF Fifos
<1> QED
  BY <1>1, <1>2, <1>3, ReadTakes

-----------------------------------------------------------------------------
(* Sequences *)

LEMMA FirstAndRest ==
    ASSUME NEW S, NEW x \in S, NEW q \in Seq(S)
    PROVE  LET s == <<x>> \o q IN
           /\ s \in Seq(S) /\ 1 \in DOMAIN s /\ s[1] = x
           /\ SubSeq(s, 2, Len(s)) = q
<1> DEFINE one == <<x>>
           s == one \o q
           n == Len(q)
<1>1. one \in Seq(S) /\ Len(one) = 1 /\ one[1] = x /\ n \in Nat
  OBVIOUS
<1> HIDE DEF one
<1>2. /\ s \in Seq(S) /\ Len(s) = n + 1
      /\ \A i \in 1 .. n + 1 : s[i] = IF i <= 1 THEN one[i] ELSE q[i - 1]
  <2>1. /\ s \in Seq(S) /\ Len(s) = Len(one) + Len(q)
        /\ \A i \in 1 .. Len(one) + Len(q) :
             s[i] = IF i <= Len(one) THEN one[i] ELSE q[i - Len(one)]
    BY <1>1, ConcatProperties, Zenon
  <2>2. Len(one) + Len(q) = n + 1
    BY <1>1
  <2> QED
    BY <1>1, <2>1, <2>2
<1> HIDE DEF s
<1>3. 1 \in DOMAIN s /\ s[1] = x /\ DOMAIN s = 1 .. n + 1
  <2>1. DOMAIN s = 1 .. n + 1
    BY <1>2, LenProperties
  <2> QED
    BY <1>1, <1>2, <2>1
<1>4. SubSeq(s, 2, n + 1) = q
  <2>1. \A i \in 2 .. n + 1 : s[i] \in S
    BY <1>1, <1>2, <1>3, ElementOfSeq
  <2>2. /\ SubSeq(s, 2, n + 1) \in Seq(S) /\ Len(SubSeq(s, 2, n + 1)) = n
        /\ \A i \in 1 .. n : SubSeq(s, 2, n + 1)[i] = s[i + 1]
    BY <1>1, <2>1, SubSeqProperties
  <2>3. ASSUME NEW i \in 1 .. n PROVE s[i + 1] = q[i]
    <3>1. i + 1 \in 1 .. n + 1 /\ ~(i + 1 <= 1) /\ (i + 1) - 1 = i
      BY <1>1, <2>3
    <3> QED
      BY <1>2, <3>1
  <2>4. \A i \in 1 .. n : SubSeq(s, 2, n + 1)[i] = q[i]
    BY <2>2, <2>3
  <2> QED
    BY <2>2, <2>4, SeqEqual
<1> QED
  BY <1>2, <1>3, <1>4 DEF s, one

LEMMA PartsOfSeq ==
    ASSUME NEW S, NEW x \in S, NEW q \in Seq(S), NEW T, <<x>> \o q \in Seq(T)
    PROVE  x \in T /\ q \in Seq(T)
<1> DEFINE s == <<x>> \o q
           n == Len(s)
<1>1. s \in Seq(T) /\ 1 \in DOMAIN s /\ s[1] = x /\ SubSeq(s, 2, n) = q
  BY FirstAndRest
<1> HIDE DEF s
<1>2. n \in Nat /\ DOMAIN s = 1 .. n
  BY <1>1, LenProperties
<1> HIDE DEF n
<1>3. x \in T
  BY <1>1, <1>2, ElementOfSeq DEF n
<1>4. \A i \in 2 .. n : s[i] \in T
  BY <1>1, <1>2, ElementOfSeq DEF n
<1>5. SubSeq(s, 2, n) \in Seq(T)
  BY <1>2, <1>4, SubSeqProperties
<1> QED
  BY <1>1, <1>3, <1>5

-----------------------------------------------------------------------------
(* The UART and its two buffers *)

(* A byte is announced as long as the UART holds one. *)
Announced == hw.rxdrdy <=> hw.rxd # <<>>

UartInv == UartTypeOK /\ Announced

-----------------------------------------------------------------------------
(* Positions and bytes *)

LEMMA Bytes ==
    /\ MaxRx \in Nat /\ MaxTx \in Nat
    /\ 0 .. MaxRx \subseteq UartBytes /\ 0 .. MaxTx \subseteq UartBytes
    /\ NoByte \in UartBytes
BY UartAssumption DEF UartBytes, NoByte

LEMMA AfterPosition == \A pos \in Positions : After(pos) \in Positions
BY Sizes, Remainder DEF Positions, After

LEMMA FifoBytes ==
    ASSUME NEW f \in Fifos(UartBytes), NEW pos \in Positions
    PROVE  /\ ByteAt(f, pos) \in UartBytes
           /\ f.read_pos \in Positions /\ f.write_pos \in Positions
           /\ [f EXCEPT !.read_pos = pos] \in Fifos(UartBytes)
           /\ [f EXCEPT !.write_pos = pos] \in Fifos(UartBytes)
           /\ \A byte \in UartBytes : StoreAt(f, pos, byte) \in Fifos(UartBytes)
<1>1. pos % BufSize \in 0 .. buf_size_mask
  BY Sizes, Remainder DEF Positions
<1>2. f.buf \in [0 .. buf_size_mask -> UartBytes]
  BY DEF Fifos
<1> QED
  BY <1>1, <1>2 DEF Fifos, ByteAt, StoreAt

LEMMA FifoOperations ==
    ASSUME NEW f \in Fifos(UartBytes)
    PROVE  /\ fifo_get(f) \in Fifos(UartBytes)
           /\ Initialised(f) \in Fifos(UartBytes)
           /\ \A byte \in UartBytes : fifo_put(f, byte) \in Fifos(UartBytes)
<1>1. f.read_pos \in Positions /\ f.write_pos \in Positions /\ 0 \in Positions
  BY Sizes DEF Fifos, Positions
<1>2. fifo_get(f) \in Fifos(UartBytes)
  BY <1>1, AfterPosition, FifoBytes DEF fifo_get
<1>3. Initialised(f) \in Fifos(UartBytes)
  BY <1>1 DEF Initialised, Fifos
<1>4. ASSUME NEW byte \in UartBytes PROVE fifo_put(f, byte) \in Fifos(UartBytes)
  <2>1. StoreAt(f, f.write_pos, byte) \in Fifos(UartBytes)
    BY <1>1, FifoBytes
  <2>2. StoreAt(f, f.write_pos, byte).write_pos \in Positions
    BY <2>1, FifoBytes, <1>1
  <2> QED
    BY <2>1, <2>2, AfterPosition, FifoBytes DEF fifo_put
<1> QED
  BY <1>2, <1>3, <1>4

LEMMA SeqFacts ==
    ASSUME NEW S, NEW q \in Seq(S)
    PROVE  /\ Len(q) \in Nat
           /\ \A x \in S : Append(q, x) \in Seq(S) /\ Append(q, x) # <<>>
           /\ q # <<>> => Head(q) \in S /\ Tail(q) \in Seq(S) /\ Len(Tail(q)) = Len(q) - 1
           /\ q # <<>> <=> Len(q) > 0
BY SMT

-----------------------------------------------------------------------------
(* Every variable keeps its range. *)

CbValues == [rx_buffer_length : 0 .. 1, rx_secondary_buffer_length : 0 .. 1,
             tx_buffer_length : 0 .. 1]

LEMMA Requests ==
    ASSUME NEW cb \in CbValues
    PROVE  /\ RxRequested(cb) \in CbValues /\ RxCompleted(cb) \in CbValues
           /\ RxRequested(cb).rx_buffer_length # 0
<1>1. /\ cb.rx_buffer_length \in 0 .. 1 /\ cb.rx_secondary_buffer_length \in 0 .. 1
      /\ 0 \in 0 .. 1 /\ 1 \in 0 .. 1
  BY DEF CbValues
<1>2. RxCompleted(cb) \in CbValues
  BY <1>1 DEF CbValues, RxCompleted
<1>3. RxRequested(cb) \in CbValues /\ RxRequested(cb).rx_buffer_length # 0
  <2>1. CASE cb.rx_buffer_length # 0
    BY <1>1, <2>1 DEF CbValues, RxRequested
  <2>2. CASE cb.rx_buffer_length = 0
    <3>1. RxRequested(cb) = [cb EXCEPT !.rx_buffer_length = 1, !.rx_secondary_buffer_length = 0]
      BY <2>2 DEF RxRequested
    <3>2. RxRequested(cb) = [rx_buffer_length |-> 1, rx_secondary_buffer_length |-> 0,
                             tx_buffer_length |-> cb.tx_buffer_length]
      BY <3>1 DEF CbValues
    <3>3. cb.tx_buffer_length \in 0 .. 1
      BY DEF CbValues
    <3> QED
      BY <1>1, <3>2, <3>3 DEF CbValues
  <2> QED
    BY <2>1, <2>2
<1> QED
  BY <1>2, <1>3

LEMMA InitHolds == UartInit => UartInv
<1> SUFFICES ASSUME UartInit PROVE UartInv
  OBVIOUS
<1>1. EmptyFifo \in Fifos(UartBytes) /\ 0 \in Positions
  BY Sizes, Bytes DEF EmptyFifo, Fifos, Positions
<1>2. traffic \in Traffic
  BY UartAssumption DEF UartInit
<1>3. 0 \in 0 .. MaxRx /\ 0 \in 0 .. MaxTx
  BY Bytes
<1>4. main \in [at : Places, pos : Positions, byte : UartBytes]
  BY <1>1, Bytes DEF UartInit, Places
<1>5. hw \in [rxd : Seq(UartBytes), rxdrdy : BOOLEAN, error : BOOLEAN, rx_int : BOOLEAN,
              txd : UartBytes, txdrdy : BOOLEAN]
  BY Bytes DEF UartInit, InitialHw
<1>6. m_cb \in CbValues
  BY DEF UartInit, InitialCb, CbValues
<1>7. UartTypeOK
  BY <1>1, <1>2, <1>3, <1>4, <1>5, <1>6, Bytes DEF UartInit, UartTypeOK, CbValues
<1> QED
  BY <1>7 DEF UartInv, Announced, UartInit, InitialHw

(* Steps of the main loop that only move it, or load a position. *)
MainValues == [at : Places, pos : Positions, byte : UartBytes]
HwValues == [rxd : Seq(UartBytes), rxdrdy : BOOLEAN, error : BOOLEAN, rx_int : BOOLEAN,
             txd : UartBytes, txdrdy : BOOLEAN]

LEMMA HwUpdates ==
    ASSUME NEW h \in HwValues, NEW q \in Seq(UartBytes), NEW P \in BOOLEAN, NEW Q \in BOOLEAN
    PROVE  /\ [h EXCEPT !.rxd = q, !.rxdrdy = P, !.rx_int = Q] \in HwValues
           /\ [h EXCEPT !.rxd = q, !.rxdrdy = P, !.rx_int = Q].rxd = q
           /\ [h EXCEPT !.rxd = q, !.rxdrdy = P, !.rx_int = Q].rxdrdy = P
           /\ [h EXCEPT !.txdrdy = P] \in HwValues
           /\ [h EXCEPT !.txdrdy = P].rxd = h.rxd /\ [h EXCEPT !.txdrdy = P].rxdrdy = h.rxdrdy
BY DEF HwValues

LEMMA Moves ==
    ASSUME UartInv
    PROVE  /\ main \in MainValues /\ hw \in HwValues /\ m_cb \in CbValues
           /\ m_rx_fifo \in Fifos(UartBytes) /\ m_tx_fifo \in Fifos(UartBytes)
           /\ \A to \in Places : [main EXCEPT !.at = to] \in MainValues
           /\ \A to \in Places, pos \in Positions :
                 [main EXCEPT !.at = to, !.pos = pos] \in MainValues
           /\ \A to \in Places, byte \in UartBytes :
                 [main EXCEPT !.at = to, !.byte = byte] \in MainValues
           /\ m_rx_fifo.read_pos \in Positions /\ m_rx_fifo.write_pos \in Positions
           /\ m_tx_fifo.read_pos \in Positions /\ m_tx_fifo.write_pos \in Positions
           /\ After(main.pos) \in Positions
<1>1. /\ main \in MainValues /\ hw \in HwValues /\ m_cb \in CbValues
      /\ m_rx_fifo \in Fifos(UartBytes) /\ m_tx_fifo \in Fifos(UartBytes)
  BY DEF UartInv, UartTypeOK, MainValues, HwValues, CbValues
<1>2. main.pos \in Positions
  BY <1>1 DEF MainValues
<1>3. \A to \in Places : [main EXCEPT !.at = to] \in MainValues
  BY <1>1 DEF MainValues
<1>4. \A to \in Places, pos \in Positions : [main EXCEPT !.at = to, !.pos = pos] \in MainValues
  BY <1>1 DEF MainValues
<1>5. \A to \in Places, byte \in UartBytes : [main EXCEPT !.at = to, !.byte = byte] \in MainValues
  BY <1>1 DEF MainValues
<1> QED
  BY <1>1, <1>2, <1>3, <1>4, <1>5, AfterPosition DEF Fifos

LEMMA OnlyMainTyped ==
    ASSUME UartInv, UNCHANGED <<traffic, fifos, port, history>>, main' \in MainValues
    PROVE  UartInv'
BY DEF UartInv, UartTypeOK, Announced, MainValues, fifos, port, history

LEMMA MovesTyped ==
    ASSUME UartInv, UNCHANGED traffic,
           LoadPosition \/ GetFull \/ GetEmpty \/ GetByte \/ ReplyEnd \/ PutFull \/ PutBusy \/ PopEmpty
    PROVE  UartInv'
<1>1. UNCHANGED <<fifos, port, history>>
  BY DEF LoadPosition, GetFull, GetEmpty, GetByte, ReplyEnd, PutFull, PutBusy, PopEmpty
<1>2. CASE LoadPosition
  <2>1. \E to \in Places, pos \in Positions : main' = [main EXCEPT !.at = to, !.pos = pos]
    BY <1>2, Moves DEF LoadPosition, Load, Places
  <2>2. main' \in MainValues
    BY <2>1, Moves
  <2> QED
    BY <1>1, <2>2, OnlyMainTyped
<1>3. CASE GetByte
  <2>1. ByteAt(m_rx_fifo, m_rx_fifo.read_pos) \in UartBytes
    BY Moves, FifoBytes
  <2>2. main' \in MainValues
    BY <1>3, <2>1, Moves DEF GetByte, Places
  <2> QED
    BY <1>1, <2>2, OnlyMainTyped
<1>4. CASE GetFull \/ GetEmpty \/ ReplyEnd \/ PutFull \/ PutBusy \/ PopEmpty
  <2>1. \E to \in Places : main' = [main EXCEPT !.at = to]
    BY <1>4 DEF GetFull, GetEmpty, ReplyEnd, PutFull, PutBusy, PopEmpty, Go, Places
  <2> QED
    BY <1>1, <2>1, Moves, OnlyMainTyped
<1> QED
  BY <1>2, <1>3, <1>4

(* Steps of the main loop that change a FIFO or the driver. *)
LEMMA MainLoopTyped ==
    ASSUME UartInv, MainLoop, UNCHANGED traffic
    PROVE  UartInv'
<1>0. /\ main \in MainValues /\ hw \in HwValues /\ m_cb \in CbValues
      /\ m_rx_fifo \in Fifos(UartBytes) /\ m_tx_fifo \in Fifos(UartBytes)
      /\ m_tx_fifo.read_pos \in Positions /\ m_tx_fifo.write_pos \in Positions
      /\ After(main.pos) \in Positions /\ main.byte \in UartBytes
      /\ put \in 0 .. MaxTx /\ put \in UartBytes
      /\ got \in Seq(UartBytes) /\ tx_buffer \in UartBytes
  BY Moves, Bytes DEF MainValues, UartInv, UartTypeOK
<1> USE DEF UartInv
<1>1. CASE GetRx
  <2>1. main' \in MainValues
    BY <1>1, Moves DEF GetRx, Go, Places
  <2>2. m_cb' \in CbValues
    BY <1>0, <1>1, Requests DEF GetRx
  <2>3. hw' \in HwValues /\ Announced'
    BY <1>0, <1>1 DEF GetRx, HwValues, Announced
  <2> QED
    BY <1>1, <2>1, <2>2, <2>3
       DEF GetRx, UartTypeOK, MainValues, HwValues, CbValues, fifos, history
<1>2. CASE GetStore
  <2>1. main' \in MainValues
    BY <1>2, Moves DEF GetStore, Go, Places
  <2>2. m_rx_fifo' \in Fifos(UartBytes) /\ got' \in Seq(UartBytes)
    BY <1>0, <1>2, FifoBytes, SeqFacts DEF GetStore
  <2> QED
    BY <1>2, <2>1, <2>2 DEF GetStore, UartTypeOK, MainValues, port, Announced
<1>3. CASE ReplyByte
  <2>1. main' \in MainValues
    BY <1>3, Moves DEF ReplyByte, Go, Places
  <2>2. put' \in 0 .. MaxTx
    BY <1>0, <1>3, Bytes DEF ReplyByte, UartTypeOK, Traffic
  <2> QED
    BY <1>3, <2>1, <2>2 DEF ReplyByte, UartTypeOK, MainValues, fifos, port, Announced
<1>4. CASE PutByte
  <2>1. main' \in MainValues
    BY <1>4, Moves DEF PutByte, Go, Places
  <2>2. m_tx_fifo' \in Fifos(UartBytes)
    BY <1>0, <1>4, FifoBytes DEF PutByte
  <2> QED
    BY <1>4, <2>1, <2>2 DEF PutByte, UartTypeOK, MainValues, port, history, Announced
<1>5. CASE PutStore \/ PopStore
  <2>1. main' \in MainValues
    BY <1>5, Moves DEF PutStore, PopStore, Go, Places
  <2>2. m_tx_fifo' \in Fifos(UartBytes)
    BY <1>0, <1>5, FifoBytes DEF PutStore, PopStore
  <2> QED
    BY <1>5, <2>1, <2>2 DEF PutStore, PopStore, UartTypeOK, MainValues, port, history, Announced
<1>6. CASE PopByte
  <2>1. main' \in MainValues
    BY <1>6, Moves DEF PopByte, Go, Places
  <2>2. tx_buffer' \in UartBytes
    BY <1>0, <1>6, FifoBytes DEF PopByte
  <2> QED
    BY <1>6, <2>1, <2>2 DEF PopByte, UartTypeOK, MainValues, fifos, history, Announced
<1>7. CASE TxStart
  <2>1. main' \in MainValues
    BY <1>7, Moves DEF TxStart, Go, Places
  <2>2. m_cb' \in CbValues
    BY <1>0, <1>7 DEF TxStart, CbValues
  <2>3. hw' \in HwValues /\ Announced'
    BY <1>0, <1>7 DEF TxStart, TxStarted, HwValues, Announced
  <2> QED
    BY <1>7, <2>1, <2>2, <2>3
       DEF TxStart, UartTypeOK, MainValues, HwValues, CbValues, fifos, history
<1> QED
  BY <1>1, <1>2, <1>3, <1>4, <1>5, <1>6, <1>7, MovesTyped DEF MainLoop

(* Steps of the line, the UART and its interrupt handler. *)
LEMMA PortTyped ==
    ASSUME UartInv, UNCHANGED traffic,
           LineByte \/ LostByte \/ ByteSent \/ RxDone \/ CommError \/ TxDone
    PROVE  UartInv'
<1>0. /\ hw \in HwValues /\ m_cb \in CbValues
      /\ m_rx_fifo \in Fifos(UartBytes) /\ m_tx_fifo \in Fifos(UartBytes)
      /\ m_tx_fifo.read_pos \in Positions
      /\ hw.rxd \in Seq(UartBytes) /\ hw.txd \in UartBytes /\ hw.rxdrdy \in BOOLEAN
      /\ arrived \in 0 .. MaxRx /\ out \in Seq(UartBytes) /\ traffic.rx \in 0 .. MaxRx
  BY Moves DEF HwValues, UartInv, UartTypeOK, Traffic
<1> USE DEF UartInv
<1>1. CASE LineByte
  <2>1. arrived' \in 0 .. MaxRx /\ arrived + 1 \in UartBytes
    BY <1>0, <1>1, Bytes DEF LineByte
  <2>2. Append(hw.rxd, arrived + 1) \in Seq(UartBytes) /\ Append(hw.rxd, arrived + 1) # <<>>
    BY <1>0, <2>1, SeqFacts
  <2>3. hw' \in HwValues /\ Announced'
    BY <1>0, <1>1, <2>2 DEF LineByte, HwValues, Announced
  <2> QED
    BY <1>1, <2>1, <2>3 DEF LineByte, UartTypeOK, HwValues, fifos
<1>2. CASE LostByte
  <2>1. arrived' \in 0 .. MaxRx
    BY <1>0, <1>2, Bytes DEF LostByte
  <2>2. hw' \in HwValues /\ Announced'
    BY <1>0, <1>2 DEF LostByte, HwValues, Announced
  <2> QED
    BY <1>2, <2>1, <2>2 DEF LostByte, UartTypeOK, HwValues, fifos
<1>3. CASE ByteSent
  <2>1. hw' \in HwValues /\ Announced' /\ out' \in Seq(UartBytes)
    BY <1>0, <1>3, Bytes, SeqFacts DEF ByteSent, HwValues, Announced
  <2> QED
    BY <1>3, <2>1 DEF ByteSent, UartTypeOK, HwValues, fifos
<1>4. CASE RxDone
  <2>1. /\ Head(hw.rxd) \in UartBytes /\ Tail(hw.rxd) \in Seq(UartBytes)
        /\ Len(Tail(hw.rxd)) = Len(hw.rxd) - 1 /\ Len(hw.rxd) \in Nat
        /\ Tail(hw.rxd) # <<>> <=> Len(Tail(hw.rxd)) > 0
    BY <1>0, <1>4, SeqFacts DEF RxDone, Announced
  <2>2. m_rx_fifo' \in Fifos(UartBytes)
    BY <1>0, <1>4, <2>1, FifoOperations DEF RxDone
  <2>3. m_cb' \in CbValues
    BY <1>0, <1>4, Requests DEF RxDone
  <2>4. hw' = [hw EXCEPT !.rxd = Tail(@), !.rxdrdy = Len(hw.rxd) > 1,
                         !.rx_int = m_cb'.rx_buffer_length # 0]
    BY <1>4 DEF RxDone, RxdRead
  <2> DEFINE more == Len(hw.rxd) > 1
             waits == m_cb'.rx_buffer_length # 0
  <2>5. hw' \in HwValues /\ hw'.rxd = Tail(hw.rxd) /\ hw'.rxdrdy = more
    <3>1. more \in BOOLEAN /\ waits \in BOOLEAN
      OBVIOUS
    <3>2. hw' = [hw EXCEPT !.rxd = Tail(hw.rxd), !.rxdrdy = more, !.rx_int = waits]
      BY <2>4
    <3> HIDE DEF more, waits
    <3> QED
      <4>1. ASSUME NEW q \in Seq(UartBytes), NEW P \in BOOLEAN, NEW Q \in BOOLEAN,
                   hw' = [hw EXCEPT !.rxd = q, !.rxdrdy = P, !.rx_int = Q]
            PROVE  hw' \in HwValues /\ hw'.rxd = q /\ hw'.rxdrdy = P
        BY <1>0, <4>1 DEF HwValues
      <4>2. Tail(hw.rxd) \in Seq(UartBytes)
        BY <2>1
      <4> QED
        BY <3>1, <3>2, <4>1, <4>2
  <2>6. Announced'
    <3>1. more <=> Tail(hw.rxd) # <<>>
      BY <2>1
    <3> HIDE DEF more
    <3> QED
      BY <2>5, <3>1 DEF Announced
  <2> QED
    BY <1>4, <2>2, <2>3, <2>5, <2>6 DEF RxDone, UartTypeOK, HwValues, CbValues, history
<1>5. CASE CommError
  <2>1. InitialCb \in CbValues /\ InitialHw \in HwValues
    BY Bytes DEF InitialCb, InitialHw, CbValues, HwValues
  <2>2. m_rx_fifo' \in Fifos(UartBytes) /\ m_tx_fifo' \in Fifos(UartBytes)
    BY <1>0, <1>5, FifoOperations DEF CommError
  <2>3. Announced'
    BY <1>5 DEF CommError, Announced, InitialHw
  <2> QED
    BY <1>5, <2>1, <2>2, <2>3 DEF CommError, UartTypeOK, HwValues, CbValues, history
<1>6. CASE TxDone
  <2>1. CASE m_cb.tx_buffer_length = 0 \/ Empty(m_tx_fifo)
    <3>1. /\ m_cb' = [m_cb EXCEPT !.tx_buffer_length = 0]
          /\ hw' = [hw EXCEPT !.txdrdy = FALSE]
          /\ UNCHANGED <<m_tx_fifo, tx_buffer, m_rx_fifo, main, history>>
      BY <1>6, <2>1 DEF TxDone
    <3>2. m_cb' \in CbValues
      BY <1>0, <3>1 DEF CbValues
    <3>3. hw' \in HwValues /\ hw'.rxd = hw.rxd /\ hw'.rxdrdy = hw.rxdrdy
      BY <1>0, <3>1, HwUpdates
    <3> QED
      BY <3>1, <3>2, <3>3 DEF UartTypeOK, Announced, HwValues, CbValues, history
  <2>2. CASE ~(m_cb.tx_buffer_length = 0 \/ Empty(m_tx_fifo))
    <3>1. ByteAt(m_tx_fifo, m_tx_fifo.read_pos) \in UartBytes
      BY <1>0, FifoBytes
    <3>2. m_tx_fifo' \in Fifos(UartBytes) /\ tx_buffer' \in UartBytes
      BY <1>0, <1>6, <2>2, <3>1, FifoOperations DEF TxDone
    <3>3. hw' \in HwValues /\ Announced'
      BY <1>0, <1>6, <2>2, <3>1 DEF TxDone, TxStarted, HwValues, Announced
    <3> QED
      BY <1>6, <2>2, <3>2, <3>3 DEF TxDone, UartTypeOK, HwValues, history
  <2> QED
    BY <2>1, <2>2
<1> QED
  BY <1>1, <1>2, <1>3, <1>4, <1>5, <1>6

LEMMA UartInvariant == UartInit /\ [][UartNext]_uartVars => []UartInv
<1>1. UartInv /\ [UartNext]_uartVars => UartInv'
  <2> SUFFICES ASSUME UartInv, [UartNext]_uartVars PROVE UartInv'
    OBVIOUS
  <2>1. CASE UNCHANGED uartVars
    BY <2>1 DEF uartVars, fifos, port, history, UartInv, UartTypeOK, Announced
  <2> QED
    BY <2>1, MainLoopTyped, PortTyped DEF UartNext, Kept
<1> QED
  BY <1>1, InitHolds, PTL

(* Positions, bytes and the driver's lengths stay what the code's types can *)
(* hold, on a line with errors as well.                                    *)
THEOREM UartTypeCorrect == UartSpec => []UartTypeOK
<1>1. UartInv => UartTypeOK
  BY DEF UartInv
<1> QED
  BY <1>1, UartInvariant, PTL DEF UartSpec

-----------------------------------------------------------------------------
(* The receiver and the reader *)

RxIntIfWaiting == hw.rx_int <=> m_cb.rx_buffer_length # 0

Getting == {"get_read", "get_write", "get_byte", "get_load", "get_store"}

(* A receiver that does not wait has a FIFO with no room, and one that was  *)
(* switched off while the main loop is past its test for that is full.     *)
NoRoom ==
    ~hw.rx_int => /\ fifo_length(m_rx_fifo) >= buf_size_mask
                  /\ main.at \in Getting => fifo_length(m_rx_fifo) >= BufSize

(* What the main loop has loaded is still so: it alone moves read_pos. *)
Reader ==
    /\ main.at \in {"get_full", "get_write", "get_store"} => main.pos = m_rx_fifo.read_pos
    /\ main.at \in {"get_byte", "get_load", "get_store"} => fifo_length(m_rx_fifo) > 0
    /\ main.at \in {"get_load", "get_store"} =>
         main.byte = ByteAt(m_rx_fifo, m_rx_fifo.read_pos)

WithinAhead == InFlight <= traffic.ahead

RxInv ==
    /\ RxIntIfWaiting
    /\ ~traffic.errors => ~hw.error /\ NoRoom /\ Reader /\ WithinAhead

LEMMA Goes ==
    ASSUME UartInv
    PROVE  /\ \A from, to : Go(from, to) =>
                /\ main.at = from /\ main'.at = to
                /\ main'.pos = main.pos /\ main'.byte = main.byte
           /\ \A from, to, pos : Load(from, to, pos) =>
                main.at = from /\ main'.at = to /\ main'.pos = pos /\ main'.byte = main.byte
BY Moves DEF Go, Load, MainValues

LEMMA RxLength ==
    ASSUME UartInv
    PROVE  /\ fifo_length(m_rx_fifo) \in Nat /\ fifo_length(m_tx_fifo) \in Nat
           /\ Len(hw.rxd) \in Nat /\ hw.rxd \in Seq(UartBytes)
           /\ traffic.ahead \in Nat
<1>1. fifo_length(m_rx_fifo) \in Nat /\ fifo_length(m_tx_fifo) \in Nat
  BY Moves, BytesAre
<1>2. hw.rxd \in Seq(UartBytes) /\ Len(hw.rxd) \in Nat
  <2>1. hw \in HwValues
    BY Moves
  <2>2. hw.rxd \in Seq(UartBytes)
    BY <2>1 DEF HwValues
  <2> QED
    BY <2>2, LenProperties
<1>3. traffic.ahead \in Nat
  BY DEF UartInv, UartTypeOK, Traffic
<1> QED
  BY <1>1, <1>2, <1>3

LEMMA RxInit == UartInit => RxInv
<1> SUFFICES ASSUME UartInit PROVE RxInv
  OBVIOUS
<1>1. traffic.ahead \in Nat
  BY UartAssumption DEF UartInit, Traffic
<1>2. fifo_length(m_rx_fifo) = 0
  <2>1. 0 \in Positions /\ m_rx_fifo.read_pos = 0 /\ m_rx_fifo.write_pos = 0
    BY Sizes DEF UartInit, EmptyFifo, Positions
  <2> QED
    BY <2>1, DistanceIs DEF fifo_length
<1>3. main.at = "idle" /\ hw.rx_int /\ ~hw.error /\ hw.rxd = <<>> /\ m_cb.rx_buffer_length = 1
  BY DEF UartInit, InitialHw, InitialCb
<1>4. InFlight = 0
  BY <1>2, <1>3 DEF InFlight
<1> QED
  BY <1>1, <1>3, <1>4 DEF RxInv, RxIntIfWaiting, NoRoom, Reader, WithinAhead

(* Steps that leave the receiver and the reader alone. *)
LEMMA RxRests ==
    ASSUME RxInv, UNCHANGED <<traffic, m_rx_fifo>>,
           hw'.rxd = hw.rxd, hw'.rx_int = hw.rx_int, hw'.error = hw.error,
           m_cb'.rx_buffer_length = m_cb.rx_buffer_length,
           UNCHANGED main \/ main'.at \notin Getting \cup {"get_full"}
    PROVE  RxInv'
<1>1. NoRoom => NoRoom'
  BY DEF NoRoom, Getting
<1>2. Reader => Reader'
  BY DEF Reader, Getting
<1>3. WithinAhead => WithinAhead'
  BY DEF WithinAhead, InFlight
<1> QED
  BY <1>1, <1>2, <1>3 DEF RxInv, RxIntIfWaiting

LEMMA LineRx ==
    ASSUME UartInv, RxInv, UNCHANGED traffic, LineByte
    PROVE  RxInv'
<1>1. /\ InFlight < traffic.ahead /\ UNCHANGED <<m_rx_fifo, m_cb, main>>
      /\ hw'.rxd = Append(hw.rxd, arrived + 1) /\ hw'.rx_int = hw.rx_int /\ hw'.error = hw.error
  BY Moves DEF LineByte, fifos, HwValues
<1>2. Len(hw'.rxd) = Len(hw.rxd) + 1
  BY <1>1, RxLength
<1>3. InFlight' = InFlight + 1
  BY <1>1, <1>2, RxLength DEF InFlight
<1>4. WithinAhead'
  BY <1>1, <1>3, RxLength DEF WithinAhead, InFlight
<1> QED
  BY <1>1, <1>4 DEF RxInv, RxIntIfWaiting, NoRoom, Reader

(* With no more bytes ahead than it holds, the FIFO has room for a byte the  *)
(* UART holds.                                                             *)
LEMMA RoomIfAmple ==
    ASSUME UartInv, RxInv, ~traffic.errors, Ample, RxDone
    PROVE  ~Full(m_rx_fifo)
<1>1. Len(hw.rxd) >= 1
  <2>1. hw.rxd # <<>>
    BY DEF RxDone, UartInv, Announced
  <2> QED
    BY <2>1, RxLength, SeqFacts
<1> QED
  BY <1>1, RxLength, Sizes DEF RxInv, WithinAhead, InFlight, Ample, Full

LEMMA DoneRx ==
    ASSUME UartInv, RxInv, UNCHANGED traffic, RxDone
    PROVE  RxInv'
<1> DEFINE old == fifo_length(m_rx_fifo)
           new == fifo_length(m_rx_fifo')
<1>1. /\ hw.rxd # <<>> /\ Head(hw.rxd) \in UartBytes
      /\ Len(Tail(hw.rxd)) = Len(hw.rxd) - 1
      /\ m_rx_fifo \in Fifos(UartBytes) /\ m_rx_fifo' = IF Full(m_rx_fifo) THEN m_rx_fifo
                                                        ELSE fifo_put(m_rx_fifo, Head(hw.rxd))
      /\ m_cb' = IF Full(m_rx_fifo') THEN RxCompleted(m_cb) ELSE RxRequested(RxCompleted(m_cb))
      /\ main' = main /\ ~hw.error
  <2>1. hw.rxd # <<>>
    BY DEF RxDone, UartInv, Announced
  <2> QED
    BY <2>1, RxLength, SeqFacts, Moves DEF RxDone
<1>2. /\ hw'.rxd = Tail(hw.rxd) /\ hw'.error = hw.error
      /\ hw'.rx_int <=> m_cb'.rx_buffer_length # 0
  <2> DEFINE more == Len(hw.rxd) > 1
             waits == m_cb'.rx_buffer_length # 0
  <2>1. hw' = [hw EXCEPT !.rxd = Tail(hw.rxd), !.rxdrdy = more, !.rx_int = waits]
    BY DEF RxDone, RxdRead
  <2>2. hw \in HwValues
    BY Moves
  <2> HIDE DEF more
  <2>3. hw'.rxd = Tail(hw.rxd) /\ hw'.error = hw.error
    BY <2>1, <2>2 DEF HwValues
  <2>4. hw'.rx_int = waits
    BY <2>1, <2>2 DEF HwValues
  <2> QED
    BY <2>3, <2>4
<1>3. CASE ~Full(m_rx_fifo)
  <2>1. /\ m_rx_fifo'.read_pos = m_rx_fifo.read_pos /\ new = old + 1
        /\ old > 0 => ByteAt(m_rx_fifo', m_rx_fifo'.read_pos) = ByteAt(m_rx_fifo, m_rx_fifo.read_pos)
    BY <1>1, <1>3, PutAppends
  <2>2. Reader => Reader'
    BY <1>1, <2>1, RxLength DEF Reader
  <2>3. WithinAhead => WithinAhead'
    BY <1>1, <1>2, <2>1, RxLength DEF WithinAhead, InFlight
  <2>4. NoRoom'
    <3> SUFFICES ASSUME ~hw'.rx_int PROVE new > buf_size_mask
      BY <2>1, RxLength, Sizes DEF NoRoom
    <3>1. Full(m_rx_fifo')
      BY <1>1, <1>2, Moves, Requests
    <3> QED
      BY <3>1 DEF Full
  <2> QED
    BY <1>1, <1>2, <2>2, <2>3, <2>4 DEF RxInv, RxIntIfWaiting
<1>4. CASE Full(m_rx_fifo)
  <2>1. m_rx_fifo' = m_rx_fifo /\ old > buf_size_mask
    BY <1>1, <1>4 DEF Full
  <2>2. Reader => Reader'
    BY <1>1, <2>1 DEF Reader
  <2>3. WithinAhead => WithinAhead'
    BY <1>1, <1>2, <2>1, RxLength DEF WithinAhead, InFlight
  <2>4. NoRoom'
    BY <2>1, RxLength, Sizes DEF NoRoom
  <2> QED
    BY <1>1, <1>2, <2>2, <2>3, <2>4 DEF RxInv, RxIntIfWaiting
<1> QED
  BY <1>3, <1>4

LEMMA ErrorRx ==
    ASSUME UartInv, RxInv, UNCHANGED traffic, LostByte \/ CommError
    PROVE  RxInv'
<1>1. traffic.errors
  BY DEF LostByte, CommError, RxInv
<1>2. CASE LostByte
  <2>1. hw'.rx_int = hw.rx_int /\ m_cb' = m_cb
    BY <1>2, Moves DEF LostByte, HwValues
  <2> QED
    BY <1>1, <2>1 DEF RxInv, RxIntIfWaiting
<1>3. CASE CommError
  BY <1>1, <1>3 DEF CommError, RxInv, RxIntIfWaiting, InitialCb, InitialHw
<1> QED
  BY <1>2, <1>3

LEMMA GetRxRx ==
    ASSUME UartInv, RxInv, UNCHANGED traffic, GetRx
    PROVE  RxInv'
<1>1. /\ main'.at \in {"idle", "get_read"} /\ UNCHANGED m_rx_fifo
      /\ hw'.rx_int /\ hw'.error = hw.error /\ hw'.rxd = hw.rxd
  BY Moves, Goes DEF GetRx, fifos, HwValues
<1>2. m_cb'.rx_buffer_length # 0
  BY Moves, Requests DEF GetRx, RxBusy
<1> QED
  BY <1>1, <1>2 DEF RxInv, RxIntIfWaiting, NoRoom, Reader, WithinAhead, InFlight

LEMMA GetStoreRx ==
    ASSUME UartInv, RxInv, UNCHANGED traffic, GetStore
    PROVE  RxInv'
<1>1. /\ main.at = "get_store" /\ main'.at \in {"idle", "reply"} /\ UNCHANGED <<hw, m_cb>>
      /\ m_rx_fifo' = [m_rx_fifo EXCEPT !.read_pos = After(main.pos)]
  BY Goes DEF GetStore, port
<1>2. CASE traffic.errors
  BY <1>1, <1>2 DEF RxInv, RxIntIfWaiting
<1>3. CASE ~traffic.errors
  <2>1. main.pos = m_rx_fifo.read_pos /\ fifo_length(m_rx_fifo) > 0
    BY <1>1, <1>3 DEF RxInv, Reader
  <2>2. fifo_length(m_rx_fifo') = fifo_length(m_rx_fifo) - 1
    BY <1>1, <2>1, Moves, ReadTakes
  <2>3. NoRoom'
    BY <1>1, <1>3, <2>2, RxLength, Sizes DEF RxInv, NoRoom, Getting
  <2>4. WithinAhead'
    BY <1>1, <1>3, <2>2, RxLength DEF RxInv, WithinAhead, InFlight
  <2> QED
    BY <1>1, <1>3, <2>3, <2>4 DEF RxInv, RxIntIfWaiting, Reader
<1> QED
  BY <1>2, <1>3

(* Steps that only move the main loop within app_uart_get. *)
LEMMA GetRest ==
    ASSUME UartInv, RxInv, UNCHANGED <<traffic, fifos, port>>,
           \/ Load("idle", "get_full", m_rx_fifo.read_pos)
           \/ Load("get_read", "get_write", m_rx_fifo.read_pos)
           \/ Load("get_load", "get_store", m_rx_fifo.read_pos)
           \/ GetFull \/ GetEmpty \/ GetByte
    PROVE  RxInv'
<1> DEFINE n == fifo_length(m_rx_fifo)
<1>1. UNCHANGED <<m_rx_fifo, hw, m_cb>>
  BY DEF fifos, port
<1>2. RxIntIfWaiting' /\ WithinAhead' = WithinAhead /\ hw'.error = hw.error
  BY <1>1 DEF RxInv, RxIntIfWaiting, WithinAhead, InFlight
<1> SUFFICES ASSUME ~traffic.errors PROVE NoRoom' /\ Reader'
  BY <1>2 DEF RxInv
<1> USE DEF RxInv
<1>3. CASE Load("idle", "get_full", m_rx_fifo.read_pos)
  BY <1>1, <1>3, Goes DEF NoRoom, Reader, Getting
<1>4. CASE Load("get_read", "get_write", m_rx_fifo.read_pos)
  BY <1>1, <1>4, Goes DEF NoRoom, Reader, Getting
<1>5. CASE Load("get_load", "get_store", m_rx_fifo.read_pos)
  BY <1>1, <1>5, Goes DEF NoRoom, Reader, Getting
<1>6. CASE GetFull
  <2>1. main.at = "get_full" /\ main'.at = IF n = buf_size_mask THEN "get_rx" ELSE "get_read"
    BY <1>6, Goes DEF GetFull, Reader, fifo_length
  <2>2. NoRoom'
    <3>1. ~hw.rx_int /\ n # buf_size_mask => n >= BufSize
      BY RxLength, Sizes DEF NoRoom
    <3> QED
      BY <1>1, <2>1, <3>1 DEF NoRoom, Getting
  <2> QED
    BY <2>1, <2>2 DEF Reader
<1>7. CASE GetEmpty
  <2>1. main.at = "get_write" /\ main'.at = IF n = 0 THEN "idle" ELSE "get_byte"
    BY <1>7, Goes DEF GetEmpty, Reader, fifo_length
  <2>2. n # 0 => n > 0
    BY RxLength
  <2> QED
    BY <1>1, <2>1, <2>2 DEF NoRoom, Reader, Getting
<1>8. CASE GetByte
  <2>1. /\ main.at = "get_byte" /\ main'.at = "get_load"
        /\ main'.byte = ByteAt(m_rx_fifo, m_rx_fifo.read_pos)
    BY <1>8, Moves DEF GetByte, MainValues
  <2> QED
    BY <1>1, <2>1 DEF NoRoom, Reader, Getting
<1> QED
  BY <1>3, <1>4, <1>5, <1>6, <1>7, <1>8

LEMMA RxStep ==
    ASSUME UartInv, RxInv, [UartNext]_uartVars
    PROVE  RxInv'
<1>1. CASE UNCHANGED uartVars
  BY <1>1, RxRests DEF uartVars, fifos, port
<1>2. CASE ByteSent /\ UNCHANGED traffic
  <2>1. hw'.rxd = hw.rxd /\ hw'.rx_int = hw.rx_int /\ hw'.error = hw.error
    BY <1>2, Moves DEF ByteSent, HwValues
  <2> QED
    BY <1>2, <2>1, RxRests DEF ByteSent, fifos
<1>3. CASE TxDone /\ UNCHANGED traffic
  <2>1. hw'.rxd = hw.rxd /\ hw'.rx_int = hw.rx_int /\ hw'.error = hw.error
    BY <1>3, Moves DEF TxDone, TxStarted, HwValues
  <2>2. m_cb'.rx_buffer_length = m_cb.rx_buffer_length
    BY <1>3, Moves DEF TxDone, CbValues
  <2> QED
    BY <1>3, <2>1, <2>2, RxRests DEF TxDone
<1>4. CASE LoadPosition /\ UNCHANGED traffic
  <2>1. UNCHANGED <<fifos, port>>
    BY <1>4 DEF LoadPosition
  <2>2. CASE \/ Load("put_read", "put_write", m_tx_fifo.read_pos)
             \/ Load("put_load", "put_store", m_tx_fifo.write_pos)
             \/ Load("pop_read", "pop_write", m_tx_fifo.read_pos)
             \/ Load("pop_load", "pop_store", m_tx_fifo.read_pos)
    <3>1. main'.at \notin Getting \cup {"get_full"}
      BY <2>2, Goes DEF Getting
    <3> QED
      BY <1>4, <2>1, <3>1, RxRests DEF fifos, port
  <2> QED
    BY <1>4, <2>1, <2>2, GetRest DEF LoadPosition
<1>5. CASE (GetFull \/ GetEmpty \/ GetByte) /\ UNCHANGED traffic
  BY <1>5, GetRest DEF GetFull, GetEmpty, GetByte
<1>6. CASE /\ ReplyByte \/ ReplyEnd \/ PutFull \/ PutByte \/ PutStore \/ PutBusy
               \/ PopEmpty \/ PopByte \/ PopStore
           /\ UNCHANGED traffic
  <2>1. UNCHANGED <<m_rx_fifo, hw, m_cb>>
    BY <1>6 DEF ReplyByte, ReplyEnd, PutFull, PutByte, PutStore, PutBusy,
                PopEmpty, PopByte, PopStore, fifos, port
  <2>2. main'.at \notin Getting \cup {"get_full"}
    BY <1>6, Goes DEF ReplyByte, ReplyEnd, PutFull, PutByte, PutStore, PutBusy,
                      PopEmpty, PopByte, PopStore, Getting
  <2> QED
    BY <1>6, <2>1, <2>2, RxRests
<1>7. CASE TxStart /\ UNCHANGED traffic
  <2>1. /\ hw'.rxd = hw.rxd /\ hw'.rx_int = hw.rx_int /\ hw'.error = hw.error
        /\ m_cb'.rx_buffer_length = m_cb.rx_buffer_length
    BY <1>7, Moves DEF TxStart, TxStarted, HwValues, CbValues
  <2>2. main'.at \notin Getting \cup {"get_full"}
    BY <1>7, Goes DEF TxStart, Getting
  <2> QED
    BY <1>7, <2>1, <2>2, RxRests DEF TxStart, fifos
<1> QED
  BY <1>1, <1>2, <1>3, <1>4, <1>5, <1>6, <1>7, LineRx, DoneRx, ErrorRx, GetRxRx, GetStoreRx
     DEF UartNext, Kept, MainLoop

LEMMA RxInvariant == UartInit /\ [][UartNext]_uartVars => []RxInv
<1>1. UartInv /\ RxInv /\ [UartNext]_uartVars => RxInv'
  BY RxStep
<1> QED
  BY <1>1, RxInit, UartInvariant, PTL

-----------------------------------------------------------------------------
(* The receiver on a line with errors, while fewer bytes came than fill the *)
(* FIFO: only a read_pos put back after the set-up makes it look full.     *)

Few == traffic.errors /\ arrived < BufSize

Bounded == m_rx_fifo.write_pos + Len(hw.rxd) <= arrived

(* A position loaded before the set-up is old only while the FIFO starts    *)
(* over from 0, and then the receiver waits.                               *)
OldOnlyAtStart ==
    main.at \in {"get_full", "get_write", "get_store"} =>
        main.pos = m_rx_fifo.read_pos \/ (m_rx_fifo.read_pos = 0 /\ hw.rx_int)

FewInv == Few => Bounded /\ OldOnlyAtStart /\ NoRoom

LEMMA StillFew ==
    ASSUME UartInv, UartInv', [UartNext]_uartVars
    PROVE  Few' => Few
<1>1. UNCHANGED traffic
  BY DEF UartNext, Kept, uartVars
<1>2. arrived' = arrived \/ arrived' = arrived + 1
  BY DEF UartNext, Kept, uartVars, LineByte, LostByte, ByteSent, RxDone, CommError, TxDone, MainLoop,
         LoadPosition, GetFull, GetRx, GetEmpty, GetByte, GetStore, ReplyByte, ReplyEnd, PutFull,
         PutByte, PutStore, PutBusy, PopEmpty, PopByte, PopStore, TxStart, history
<1>3. arrived \in 0 .. MaxRx /\ arrived' \in 0 .. MaxRx /\ MaxRx \in Nat /\ BufSize \in Nat
  BY Bytes, Sizes DEF UartInv, UartTypeOK
<1> QED
  BY <1>1, <1>2, <1>3 DEF Few

(* A FIFO read from 0 on holds what was written since.                     *)
LEMMA FromStart ==
    ASSUME NEW S, NEW f \in Fifos(S), f.read_pos = 0
    PROVE  fifo_length(f) = f.write_pos
<1>1. f.read_pos \in Positions /\ f.write_pos \in Positions
  BY DEF Fifos
<1>2. f.write_pos \in Nat
  BY <1>1, Sizes DEF Positions
<1> QED
  BY <1>1, <1>2, DistanceIs DEF fifo_length

LEMMA WriteMoves ==
    ASSUME NEW f \in Fifos(UartBytes), NEW byte \in UartBytes, f.write_pos + 1 < BufSize
    PROVE  /\ fifo_put(f, byte).write_pos = f.write_pos + 1
           /\ fifo_put(f, byte).read_pos = f.read_pos
<1>1. f.write_pos \in Nat
  BY Sizes DEF Fifos, Positions
<1>2. f.write_pos + 1 \in 0 .. PosRange - 1
  BY <1>1, Sizes
<1>3. After(f.write_pos) = f.write_pos + 1
  BY <1>2, Sizes, SmallRemainder DEF After
<1> DEFINE e == StoreAt(f, f.write_pos, byte)
<1>4. e.write_pos = f.write_pos /\ e.read_pos = f.read_pos /\ e = [e EXCEPT !.buf = e.buf]
      /\ "write_pos" \in DOMAIN e /\ "read_pos" \in DOMAIN e
  BY DEF StoreAt, Fifos
<1> HIDE DEF e
<1>5. fifo_put(f, byte) = [e EXCEPT !.write_pos = After(f.write_pos)]
  BY <1>4 DEF fifo_put, e
<1> QED
  BY <1>3, <1>4, <1>5

LEMMA FewFacts ==
    ASSUME UartInv, FewInv, Few
    PROVE  /\ m_rx_fifo.write_pos \in Nat /\ m_rx_fifo.read_pos \in Nat
           /\ m_rx_fifo.write_pos + Len(hw.rxd) <= arrived
           /\ m_rx_fifo.write_pos < BufSize
           /\ arrived \in Nat /\ arrived < BufSize
           /\ OldOnlyAtStart /\ NoRoom
<1>1. arrived \in 0 .. MaxRx /\ MaxRx \in Nat
  BY Bytes DEF UartInv, UartTypeOK
<1>2. m_rx_fifo.write_pos \in Positions /\ m_rx_fifo.read_pos \in Positions
  BY Moves
<1>3. m_rx_fifo.write_pos \in Nat /\ m_rx_fifo.read_pos \in Nat
  BY <1>2, Sizes DEF Positions
<1> QED
  BY <1>1, <1>3, RxLength, Sizes DEF FewInv, Few, Bounded

LEMMA FewRests ==
    ASSUME UartInv, FewInv, Few, UNCHANGED m_rx_fifo,
           hw'.rxd = hw.rxd, hw'.rx_int = hw.rx_int,
           arrived' \in Nat, arrived <= arrived',
           UNCHANGED main \/ main'.at \notin Getting \cup {"get_full"}
    PROVE  FewInv'
<1>1. Bounded'
  BY FewFacts, RxLength DEF Bounded
<1>2. OldOnlyAtStart'
  BY FewFacts DEF OldOnlyAtStart, Getting
<1>3. NoRoom'
  BY FewFacts DEF NoRoom, Getting
<1> QED
  BY <1>1, <1>2, <1>3 DEF FewInv

LEMMA FewDone ==
    ASSUME UartInv, RxInv, FewInv, Few, UNCHANGED traffic, RxDone
    PROVE  FewInv'
<1>1. /\ hw.rxd # <<>> /\ Head(hw.rxd) \in UartBytes
      /\ Len(Tail(hw.rxd)) = Len(hw.rxd) - 1
      /\ m_rx_fifo \in Fifos(UartBytes) /\ m_rx_fifo' = IF Full(m_rx_fifo) THEN m_rx_fifo
                                                        ELSE fifo_put(m_rx_fifo, Head(hw.rxd))
      /\ m_cb' = IF Full(m_rx_fifo') THEN RxCompleted(m_cb) ELSE RxRequested(RxCompleted(m_cb))
      /\ main' = main /\ hw.rx_int /\ arrived' = arrived
  <2>1. hw.rxd # <<>>
    BY DEF RxDone, UartInv, Announced
  <2> QED
    BY <2>1, RxLength, SeqFacts, Moves DEF RxDone, history
<1>2. /\ hw'.rxd = Tail(hw.rxd)
      /\ hw'.rx_int <=> m_cb'.rx_buffer_length # 0
  <2> DEFINE more == Len(hw.rxd) > 1
             waits == m_cb'.rx_buffer_length # 0
  <2>1. hw' = [hw EXCEPT !.rxd = Tail(hw.rxd), !.rxdrdy = more, !.rx_int = waits]
    BY DEF RxDone, RxdRead
  <2>2. hw \in HwValues
    BY Moves
  <2> HIDE DEF more
  <2>3. hw'.rxd = Tail(hw.rxd)
    BY <2>1, <2>2 DEF HwValues
  <2>4. hw'.rx_int = waits
    BY <2>1, <2>2 DEF HwValues
  <2> QED
    BY <2>3, <2>4
<1>3. Len(hw.rxd) >= 1 /\ Len(hw.rxd) \in Nat
  BY <1>1, RxLength, SeqFacts
<1>4. /\ m_rx_fifo'.read_pos = m_rx_fifo.read_pos
      /\ m_rx_fifo'.write_pos + Len(hw'.rxd) <= arrived' /\ m_rx_fifo'.write_pos < BufSize
      /\ m_rx_fifo' \in Fifos(UartBytes)
  <2>1. CASE Full(m_rx_fifo)
    BY <1>1, <1>2, <1>3, <2>1, FewFacts
  <2>2. CASE ~Full(m_rx_fifo)
    <3>1. m_rx_fifo.write_pos + 1 < BufSize \/ (m_rx_fifo.write_pos + 1 <= arrived /\ arrived < BufSize)
      BY <1>3, FewFacts
    <3>2. m_rx_fifo.write_pos + 1 < BufSize
      BY <3>1, FewFacts, Sizes
    <3>3. /\ m_rx_fifo'.write_pos = m_rx_fifo.write_pos + 1
          /\ m_rx_fifo'.read_pos = m_rx_fifo.read_pos
          /\ m_rx_fifo' \in Fifos(UartBytes)
      BY <1>1, <2>2, <3>2, WriteMoves, FifoOperations
    <3> QED
      BY <1>1, <1>2, <1>3, <3>2, <3>3, FewFacts
  <2> QED
    BY <2>1, <2>2
<1>5. ASSUME ~hw'.rx_int PROVE Full(m_rx_fifo')
  BY <1>1, <1>2, <1>5, Moves, Requests
<1>6. Full(m_rx_fifo') => m_rx_fifo'.read_pos # 0 /\ fifo_length(m_rx_fifo') >= BufSize
  <2>1. fifo_length(m_rx_fifo') \in Nat
    BY <1>4, BytesAre
  <2>2. m_rx_fifo'.read_pos = 0 => fifo_length(m_rx_fifo') = m_rx_fifo'.write_pos
    BY <1>4, FromStart
  <2>3. m_rx_fifo'.write_pos \in Nat
    BY <1>4, Sizes DEF Fifos, Positions
  <2> QED
    BY <1>4, <2>1, <2>2, <2>3, Sizes DEF Full
<1>7. hw'.rx_int \in BOOLEAN
  <2>1. UartInv'
    BY PortTyped
  <2> QED
    BY <2>1 DEF UartInv, UartTypeOK
<1>8. NoRoom'
  <2>1. fifo_length(m_rx_fifo') \in Nat
    BY <1>4, BytesAre
  <2> QED
    BY <1>5, <1>6, <2>1, Sizes DEF NoRoom
<1>9. OldOnlyAtStart'
  BY <1>1, <1>4, <1>5, <1>6, <1>7, FewFacts DEF OldOnlyAtStart
<1> QED
  BY <1>4, <1>8, <1>9 DEF FewInv, Bounded

LEMMA FewGetStore ==
    ASSUME UartInv, FewInv, Few, GetStore
    PROVE  FewInv'
<1>1. /\ main.at = "get_store" /\ main'.at \in {"idle", "reply"} /\ UNCHANGED <<hw, m_cb, arrived>>
      /\ m_rx_fifo' = [m_rx_fifo EXCEPT !.read_pos = After(main.pos)]
  BY Goes DEF GetStore, port
<1>2. m_rx_fifo'.write_pos = m_rx_fifo.write_pos
  BY <1>1, Moves DEF Fifos
<1>3. Bounded'
  BY <1>1, <1>2, FewFacts DEF Bounded
<1>4. NoRoom'
  <2> SUFFICES ASSUME ~hw.rx_int PROVE fifo_length(m_rx_fifo') >= buf_size_mask
    BY <1>1 DEF NoRoom, Getting
  <2>1. fifo_length(m_rx_fifo) >= BufSize /\ main.pos = m_rx_fifo.read_pos
    BY <1>1, FewFacts DEF NoRoom, Getting, OldOnlyAtStart
  <2>2. fifo_length(m_rx_fifo) > 0
    BY <2>1, RxLength, Sizes
  <2>3. fifo_length(m_rx_fifo') = fifo_length(m_rx_fifo) - 1
    BY <1>1, <2>1, <2>2, Moves, ReadTakes
  <2> QED
    BY <2>1, <2>3, RxLength, Sizes
<1> QED
  BY <1>1, <1>3, <1>4 DEF FewInv, OldOnlyAtStart

LEMMA FewGetRest ==
    ASSUME UartInv, FewInv, Few, UNCHANGED <<fifos, port, arrived>>,
           \/ Load("idle", "get_full", m_rx_fifo.read_pos)
           \/ Load("get_read", "get_write", m_rx_fifo.read_pos)
           \/ Load("get_load", "get_store", m_rx_fifo.read_pos)
           \/ GetFull \/ GetEmpty \/ GetByte
    PROVE  FewInv'
<1> DEFINE n == fifo_length(m_rx_fifo)
<1>1. UNCHANGED <<m_rx_fifo, hw>>
  BY DEF fifos, port
<1>2. Bounded'
  BY <1>1, FewFacts DEF Bounded
<1> SUFFICES NoRoom' /\ OldOnlyAtStart'
  BY <1>2 DEF FewInv
<1>3. CASE Load("idle", "get_full", m_rx_fifo.read_pos)
  BY <1>1, <1>3, FewFacts, Goes DEF NoRoom, OldOnlyAtStart, Getting
<1>4. CASE Load("get_read", "get_write", m_rx_fifo.read_pos)
  BY <1>1, <1>4, FewFacts, Goes DEF NoRoom, OldOnlyAtStart, Getting
<1>5. CASE Load("get_load", "get_store", m_rx_fifo.read_pos)
  BY <1>1, <1>5, FewFacts, Goes DEF NoRoom, OldOnlyAtStart, Getting
<1>6. CASE GetFull
  <2>1. /\ main.at = "get_full" /\ main'.at \in {"get_rx", "get_read"}
        /\ main'.at = "get_read" => Distance(main.pos, m_rx_fifo.write_pos) # buf_size_mask
    BY <1>6, Goes DEF GetFull
  <2>2. OldOnlyAtStart'
    BY <2>1 DEF OldOnlyAtStart
  <2>3. ASSUME ~hw.rx_int PROVE n >= buf_size_mask /\ (main'.at = "get_read" => n # buf_size_mask)
    BY <2>1, <2>3, FewFacts DEF OldOnlyAtStart, NoRoom, fifo_length
  <2>4. NoRoom'
    BY <1>1, <2>1, <2>3, RxLength, Sizes DEF NoRoom, Getting
  <2> QED
    BY <2>2, <2>4
<1>7. CASE GetEmpty
  <2>1. main.at = "get_write" /\ main'.at \in {"idle", "get_byte"}
    BY <1>7, Goes DEF GetEmpty
  <2> QED
    BY <1>1, <2>1, FewFacts DEF NoRoom, OldOnlyAtStart, Getting
<1>8. CASE GetByte
  <2>1. main.at = "get_byte" /\ main'.at = "get_load"
    BY <1>8, Moves DEF GetByte, MainValues
  <2> QED
    BY <1>1, <2>1, FewFacts DEF NoRoom, OldOnlyAtStart, Getting
<1> QED
  BY <1>3, <1>4, <1>5, <1>6, <1>7, <1>8

LEMMA FewLine ==
    ASSUME UartInv, FewInv, Few, LineByte
    PROVE  FewInv'
<1>1. /\ UNCHANGED <<m_rx_fifo, main>> /\ arrived' = arrived + 1
      /\ hw'.rxd = Append(hw.rxd, arrived + 1) /\ hw'.rx_int = hw.rx_int
  BY Moves DEF LineByte, fifos, HwValues
<1>2. Len(hw'.rxd) = Len(hw.rxd) + 1
  BY <1>1, RxLength
<1>3. Bounded'
  BY <1>1, <1>2, FewFacts, RxLength DEF Bounded
<1> QED
  BY <1>1, <1>3, FewFacts DEF FewInv, OldOnlyAtStart, NoRoom

LEMMA FewSetUp ==
    ASSUME UartInv, FewInv, Few, CommError
    PROVE  FewInv'
<1>1. /\ m_rx_fifo'.read_pos = 0 /\ m_rx_fifo'.write_pos = 0
      /\ hw'.rxd = <<>> /\ hw'.rx_int /\ UNCHANGED <<main, arrived>>
  BY Moves DEF CommError, Initialised, InitialHw, history, Fifos
<1> QED
  BY <1>1, FewFacts DEF FewInv, Bounded, OldOnlyAtStart, NoRoom

LEMMA FewGetRx ==
    ASSUME UartInv, FewInv, Few, GetRx
    PROVE  FewInv'
<1>1. /\ main'.at \in {"idle", "get_read"} /\ UNCHANGED <<m_rx_fifo, arrived>>
      /\ hw'.rx_int /\ hw'.rxd = hw.rxd
  BY Moves, Goes DEF GetRx, fifos, history, HwValues
<1> QED
  BY <1>1, FewFacts DEF FewInv, Bounded, OldOnlyAtStart, NoRoom

LEMMA FewStep ==
    ASSUME UartInv, UartInv', RxInv, FewInv, [UartNext]_uartVars
    PROVE  FewInv'
<1>0. Few' => Few
  BY StillFew
<1> SUFFICES ASSUME Few PROVE FewInv'
  BY <1>0 DEF FewInv
<1> DEFINE elsewhere == UNCHANGED main \/ main'.at \notin Getting \cup {"get_full"}
           rests == UNCHANGED m_rx_fifo /\ hw'.rxd = hw.rxd /\ hw'.rx_int = hw.rx_int
<1>1. arrived \in Nat /\ arrived' \in Nat
  BY Bytes DEF UartInv, UartTypeOK
<1>2. CASE UNCHANGED uartVars
  BY <1>1, <1>2, FewRests DEF uartVars, fifos, port, history
<1>3. CASE ByteSent
  <2>1. hw'.rxd = hw.rxd /\ hw'.rx_int = hw.rx_int
    BY <1>3, Moves DEF ByteSent, HwValues
  <2> QED
    BY <1>1, <1>3, <2>1, FewRests DEF ByteSent, fifos
<1>4. CASE TxDone
  <2>1. hw'.rxd = hw.rxd /\ hw'.rx_int = hw.rx_int
    BY <1>4, Moves DEF TxDone, TxStarted, HwValues
  <2> QED
    BY <1>1, <1>4, <2>1, FewRests DEF TxDone, history
<1>5. CASE LostByte
  <2>1. hw'.rxd = hw.rxd /\ hw'.rx_int = hw.rx_int
    BY <1>5, Moves DEF LostByte, HwValues
  <2> QED
    BY <1>1, <1>5, <2>1, FewRests DEF LostByte, fifos
<1>6. CASE LoadPosition
  <2>1. UNCHANGED <<fifos, port, arrived>>
    BY <1>6 DEF LoadPosition, history
  <2>2. CASE \/ Load("put_read", "put_write", m_tx_fifo.read_pos)
             \/ Load("put_load", "put_store", m_tx_fifo.write_pos)
             \/ Load("pop_read", "pop_write", m_tx_fifo.read_pos)
             \/ Load("pop_load", "pop_store", m_tx_fifo.read_pos)
    <3>1. main'.at \notin Getting \cup {"get_full"}
      BY <2>2, Goes DEF Getting
    <3> QED
      BY <1>1, <2>1, <3>1, FewRests DEF fifos, port
  <2> QED
    BY <1>6, <2>1, <2>2, FewGetRest DEF LoadPosition
<1>7. CASE GetFull \/ GetEmpty \/ GetByte
  BY <1>7, FewGetRest DEF GetFull, GetEmpty, GetByte, history
<1>8. CASE ReplyByte \/ ReplyEnd \/ PutFull \/ PutByte \/ PutStore \/ PutBusy
               \/ PopEmpty \/ PopByte \/ PopStore
  <2>1. UNCHANGED <<m_rx_fifo, hw, arrived>>
    BY <1>8 DEF ReplyByte, ReplyEnd, PutFull, PutByte, PutStore, PutBusy,
                PopEmpty, PopByte, PopStore, fifos, port, history
  <2>2. main'.at \notin Getting \cup {"get_full"}
    BY <1>8, Goes DEF ReplyByte, ReplyEnd, PutFull, PutByte, PutStore, PutBusy,
                      PopEmpty, PopByte, PopStore, Getting
  <2> QED
    BY <1>1, <2>1, <2>2, FewRests
<1>9. CASE TxStart
  <2>1. hw'.rxd = hw.rxd /\ hw'.rx_int = hw.rx_int
    BY <1>9, Moves DEF TxStart, TxStarted, HwValues
  <2>2. main'.at \notin Getting \cup {"get_full"}
    BY <1>9, Goes DEF TxStart, Getting
  <2> QED
    BY <1>1, <1>9, <2>1, <2>2, FewRests DEF TxStart, fifos, history
<1> QED
  BY <1>2, <1>3, <1>4, <1>5, <1>6, <1>7, <1>8, <1>9, FewLine, FewDone, FewSetUp, FewGetRx, FewGetStore
     DEF UartNext, Kept, MainLoop

LEMMA FewInvariant == UartInit /\ [][UartNext]_uartVars => []FewInv
<1>1. UartInit => FewInv
  <2> SUFFICES ASSUME UartInit PROVE FewInv
    OBVIOUS
  <2>1. m_rx_fifo.write_pos = 0 /\ hw.rxd = <<>> /\ arrived = 0 /\ hw.rx_int /\ main.at = "idle"
    BY DEF UartInit, EmptyFifo, InitialHw
  <2> QED
    BY <2>1 DEF FewInv, Bounded, OldOnlyAtStart, NoRoom
<1>2. UartInv /\ UartInv' /\ RxInv /\ FewInv /\ [UartNext]_uartVars => FewInv'
  BY FewStep
<1> QED
  BY <1>1, <1>2, UartInvariant, RxInvariant, PTL

(* The receiver is never off while the FIFO has room for two bytes, and its *)
(* interrupt is enabled exactly while the driver waits: for every size of  *)
(* the FIFO and however far the other side runs ahead on a line without    *)
(* errors; on one with errors, until as many bytes came as fill the FIFO.  *)
THEOREM ReceiverStaysArmed == UartSpec => []ReceiverArmed
<1>1. UartInv /\ RxInv /\ FewInv => ReceiverArmed
  <2> SUFFICES ASSUME UartInv, RxInv, FewInv PROVE ReceiverArmed
    OBVIOUS
  <2>1. hw.rx_int \in BOOLEAN
    BY Moves DEF HwValues
  <2> QED
    BY <2>1 DEF RxInv, RxIntIfWaiting, NoRoom, FewInv, Few, ReceiverArmed
<1> QED
  BY <1>1, UartInvariant, RxInvariant, FewInvariant, PTL DEF UartSpec

-----------------------------------------------------------------------------
(* The stream of received bytes *)

LEMMA ConcatKeeps ==
    ASSUME NEW S, NEW p \in Seq(S), NEW q \in Seq(S)
    PROVE  /\ p \o q \in Seq(S)
           /\ \A x \in S : p \o Append(q, x) = Append(p \o q, x)
           /\ q # <<>> => Append(p, Head(q)) \o Tail(q) = p \o q
<1>1. p \o q \in Seq(S)
  BY ConcatProperties
<1>2. ASSUME NEW x \in S PROVE p \o Append(q, x) = Append(p \o q, x)
  <2>1. <<x>> \in Seq(S)
    OBVIOUS
  <2>2. Append(q, x) = q \o <<x>> /\ Append(p \o q, x) = (p \o q) \o <<x>>
    BY <1>1, AppendIsConcat
  <2> QED
    BY <2>1, <2>2, ConcatAssociative
<1>3. ASSUME q # <<>> PROVE Append(p, Head(q)) \o Tail(q) = p \o q
  <2>1. Head(q) \in S /\ Tail(q) \in Seq(S) /\ <<Head(q)>> \in Seq(S)
    BY <1>3, SeqFacts
  <2>2. q = <<Head(q)>> \o Tail(q)
    BY <1>3, <2>1
  <2>3. Append(p, Head(q)) = p \o <<Head(q)>>
    BY <2>1, AppendIsConcat
  <2>4. (p \o <<Head(q)>>) \o Tail(q) = p \o (<<Head(q)>> \o Tail(q))
    BY <2>1, ConcatAssociative
  <2> QED
    BY <2>2, <2>3, <2>4
<1> QED
  BY <1>1, <1>2, <1>3

LEMMA RxSequences ==
    ASSUME UartInv
    PROVE  BytesIn(m_rx_fifo) \in Seq(UartBytes) /\ hw.rxd \in Seq(UartBytes)
BY Moves, BytesAre, RxLength

(* What a step does with the bytes on their way and those that were got:    *)
(* one comes, the main loop gets the oldest, or one is thrown away because *)
(* the FIFO is full.                                                       *)
ByteComes ==
    /\ arrived + 1 \in 1 .. MaxRx
    /\ RxPending' = Append(RxPending, arrived + 1)
    /\ arrived' = arrived + 1 /\ got' = got

ByteIsGot ==
    \E b \in UartBytes :
        /\ got' = Append(got, b)
        /\ RxPending' \in Seq(UartBytes) /\ RxPending = <<b>> \o RxPending'
        /\ arrived' = arrived

ByteIsDropped ==
    /\ ~Ample
    /\ \E p, q \in Seq(UartBytes) :
          q # <<>> /\ RxPending = p \o q /\ RxPending' = p \o Tail(q)
    /\ arrived' = arrived /\ got' = got

LEMMA RxFlow ==
    ASSUME UartInv, RxInv, ~traffic.errors, [UartNext]_uartVars
    PROVE  \/ UNCHANGED <<RxPending, got, arrived>>
           \/ ByteComes \/ ByteIsGot \/ ByteIsDropped
<1>1. CASE UNCHANGED <<m_rx_fifo, got, arrived>> /\ hw'.rxd = hw.rxd
  BY <1>1 DEF RxPending
<1>2. CASE LineByte
  <2>1. /\ UNCHANGED <<m_rx_fifo, got>> /\ hw'.rxd = Append(hw.rxd, arrived + 1)
        /\ arrived + 1 \in 1 .. MaxRx /\ arrived + 1 \in UartBytes /\ arrived' = arrived + 1
    <3>1. hw'.rxd = Append(hw.rxd, arrived + 1) /\ UNCHANGED <<m_rx_fifo, got>> /\ arrived' = arrived + 1
      BY <1>2, Moves DEF LineByte, HwValues, fifos
    <3>2. arrived \in 0 .. MaxRx /\ traffic.rx \in 0 .. MaxRx /\ arrived < traffic.rx
      BY <1>2 DEF LineByte, UartInv, UartTypeOK, Traffic
    <3> QED
      BY <3>1, <3>2, Bytes
  <2>2. RxPending' = Append(RxPending, arrived + 1)
    BY <2>1, RxSequences, ConcatKeeps DEF RxPending
  <2> QED
    BY <2>1, <2>2 DEF ByteComes
<1>3. CASE RxDone
  <2>1. Full(m_rx_fifo) => ~Ample
    BY <1>3, RoomIfAmple
  <2>2. /\ hw.rxd # <<>> /\ Head(hw.rxd) \in UartBytes
        /\ m_rx_fifo' = IF Full(m_rx_fifo) THEN m_rx_fifo ELSE fifo_put(m_rx_fifo, Head(hw.rxd))
        /\ got' = got /\ arrived' = arrived
    <3>1. hw.rxd # <<>>
      BY <1>3 DEF RxDone, UartInv, Announced
    <3> QED
      BY <1>3, <3>1, RxSequences, SeqFacts DEF RxDone, history
  <2>3. hw'.rxd = Tail(hw.rxd)
    <3> DEFINE more == Len(hw.rxd) > 1
               waits == m_cb'.rx_buffer_length # 0
    <3>1. hw' = [hw EXCEPT !.rxd = Tail(hw.rxd), !.rxdrdy = more, !.rx_int = waits]
      BY <1>3 DEF RxDone, RxdRead
    <3>2. hw \in HwValues
      BY Moves
    <3> HIDE DEF more, waits
    <3> QED
      BY <3>1, <3>2 DEF HwValues
  <2>4. ASSUME ~Full(m_rx_fifo)
        PROVE  BytesIn(m_rx_fifo') = Append(BytesIn(m_rx_fifo), Head(hw.rxd))
    BY <2>2, <2>4, Moves, PutAppends
  <2>5. ASSUME ~Full(m_rx_fifo) PROVE RxPending' = RxPending
    <3>1. RxPending' = Append(BytesIn(m_rx_fifo), Head(hw.rxd)) \o Tail(hw.rxd)
      BY <2>3, <2>4, <2>5 DEF RxPending
    <3>2. Append(BytesIn(m_rx_fifo), Head(hw.rxd)) \o Tail(hw.rxd) = BytesIn(m_rx_fifo) \o hw.rxd
      BY <2>2, RxSequences, ConcatKeeps
    <3> QED
      BY <3>1, <3>2 DEF RxPending
  <2>6. ASSUME Full(m_rx_fifo) PROVE ByteIsDropped
    <3>1. RxPending = BytesIn(m_rx_fifo) \o hw.rxd /\ RxPending' = BytesIn(m_rx_fifo) \o Tail(hw.rxd)
      BY <2>2, <2>3, <2>6 DEF RxPending
    <3> QED
      BY <2>1, <2>2, <2>6, <3>1, RxSequences DEF ByteIsDropped
  <2> QED
    BY <2>2, <2>5, <2>6
<1>4. CASE GetStore
  <2>1. /\ main.pos = m_rx_fifo.read_pos /\ fifo_length(m_rx_fifo) > 0
        /\ main.byte = ByteAt(m_rx_fifo, m_rx_fifo.read_pos)
        /\ m_rx_fifo' = [m_rx_fifo EXCEPT !.read_pos = After(main.pos)]
        /\ got' = Append(got, main.byte) /\ hw' = hw
    BY <1>4, Goes DEF GetStore, RxInv, Reader, port
  <2>2. BytesIn(m_rx_fifo) = <<main.byte>> \o BytesIn(m_rx_fifo')
    BY <2>1, Moves, ReadTakes
  <2>3. /\ main.byte \in UartBytes /\ <<main.byte>> \in Seq(UartBytes)
        /\ BytesIn(m_rx_fifo') \in Seq(UartBytes)
    <3>1. m_rx_fifo' \in Fifos(UartBytes)
      BY <2>1, Moves, ReadTakes
    <3>2. main.byte \in UartBytes
      BY Moves DEF MainValues
    <3> QED
      BY <3>1, <3>2, BytesAre
  <2>4. RxPending = <<main.byte>> \o RxPending' /\ RxPending' \in Seq(UartBytes)
    <3>1. RxPending' = BytesIn(m_rx_fifo') \o hw.rxd
      BY <2>1 DEF RxPending
    <3>2. hw.rxd \in Seq(UartBytes)
      BY RxSequences
    <3>3. (<<main.byte>> \o BytesIn(m_rx_fifo')) \o hw.rxd =
            <<main.byte>> \o (BytesIn(m_rx_fifo') \o hw.rxd)
      <4> DEFINE rest == BytesIn(m_rx_fifo')
                 one == <<main.byte>>
                 rxd == hw.rxd
      <4>1. one \in Seq(UartBytes) /\ rest \in Seq(UartBytes) /\ rxd \in Seq(UartBytes)
        BY <2>3, <3>2
      <4> HIDE DEF rest, one, rxd
      <4>2. (one \o rest) \o rxd = one \o (rest \o rxd)
        BY <4>1, ConcatAssociative
      <4> QED
        BY <4>2 DEF rest, one, rxd
    <3>4. BytesIn(m_rx_fifo') \o hw.rxd \in Seq(UartBytes)
      BY <2>3, <3>2, ConcatKeeps
    <3> QED
      BY <2>2, <3>1, <3>3, <3>4 DEF RxPending
  <2>5. arrived' = arrived
    BY <1>4 DEF GetStore
  <2> QED
    BY <2>1, <2>3, <2>4, <2>5 DEF ByteIsGot
<1>5. CASE GetRx \/ TxStart \/ ByteSent \/ TxDone
  <2>1. UNCHANGED <<m_rx_fifo, got, arrived>>
    BY <1>5 DEF GetRx, TxStart, ByteSent, TxDone, fifos, history
  <2>2. hw'.rxd = hw.rxd
    BY <1>5, Moves DEF GetRx, TxStart, ByteSent, TxDone, TxStarted, HwValues
  <2> QED
    BY <1>1, <2>1, <2>2
<1>6. CASE \/ UNCHANGED uartVars
           \/ LoadPosition \/ GetFull \/ GetEmpty \/ GetByte \/ ReplyByte \/ ReplyEnd
           \/ PutFull \/ PutByte \/ PutStore \/ PutBusy \/ PopEmpty \/ PopByte \/ PopStore
  <2>1. UNCHANGED <<m_rx_fifo, got, arrived, hw>>
    BY <1>6 DEF uartVars, LoadPosition, GetFull, GetEmpty, GetByte, ReplyByte, ReplyEnd,
                PutFull, PutByte, PutStore, PutBusy, PopEmpty, PopByte, PopStore,
                fifos, port, history
  <2> QED
    BY <1>1, <2>1
<1>7. ~LostByte /\ ~CommError
  BY DEF LostByte, CommError, RxInv
<1> QED
  BY <1>2, <1>3, <1>4, <1>5, <1>6, <1>7 DEF UartNext, Kept, MainLoop

RxView == IF traffic.errors THEN <<>> ELSE RxPending
GotView == IF traffic.errors THEN <<>> ELSE got

(* Of a sequence without one of its elements each element is found, in      *)
(* order, in the sequence.                                                 *)
LEMMA OneDropped ==
    ASSUME NEW S, NEW p \in Seq(S), NEW q \in Seq(S), q # <<>>
    PROVE  LET r == p \o q
               s == p \o Tail(q)
               n == Len(p)
           IN  /\ r \in Seq(S) /\ s \in Seq(S) /\ Len(r) = Len(s) + 1
               /\ \A i \in 1 .. Len(s) : s[i] = r[IF i <= n THEN i ELSE i + 1]
<1> DEFINE t == Tail(q)
           n == Len(p)
           m == Len(t)
<1>1. t \in Seq(S) /\ Len(q) = m + 1 /\ m \in Nat /\ n \in Nat
  BY SeqFacts
<1>2. \A i \in 1 .. m : t[i] = q[i + 1]
  BY SMT
<1> HIDE DEF t
<1>3. /\ p \o q \in Seq(S) /\ Len(p \o q) = n + (m + 1)
      /\ \A i \in 1 .. n + (m + 1) : (p \o q)[i] = IF i <= n THEN p[i] ELSE q[i - n]
  <2>1. /\ p \o q \in Seq(S) /\ Len(p \o q) = Len(p) + Len(q)
        /\ \A i \in 1 .. Len(p) + Len(q) :
             (p \o q)[i] = IF i <= Len(p) THEN p[i] ELSE q[i - Len(p)]
    BY ConcatProperties, Zenon
  <2> QED
    BY <1>1, <2>1
<1>4. /\ p \o t \in Seq(S) /\ Len(p \o t) = n + m
      /\ \A i \in 1 .. n + m : (p \o t)[i] = IF i <= n THEN p[i] ELSE t[i - n]
  BY <1>1, ConcatProperties
<1> DEFINE r == p \o q
           s == p \o t
<1>5. /\ r \in Seq(S) /\ s \in Seq(S) /\ Len(r) = n + (m + 1) /\ Len(s) = n + m
      /\ \A i \in 1 .. n + (m + 1) : r[i] = IF i <= n THEN p[i] ELSE q[i - n]
      /\ \A i \in 1 .. n + m : s[i] = IF i <= n THEN p[i] ELSE t[i - n]
  BY <1>3, <1>4
<1> HIDE DEF n, m, r, s
<1>6. ASSUME NEW i \in 1 .. n + m
      PROVE  s[i] = r[IF i <= n THEN i ELSE i + 1]
  <2>1. CASE i <= n
    BY <1>1, <1>5, <2>1
  <2>2. CASE ~(i <= n)
    <3>1. i - n \in 1 .. m /\ i + 1 \in 1 .. n + (m + 1) /\ ~(i + 1 <= n) /\ (i + 1) - n = (i - n) + 1
      BY <1>1, <2>2
    <3>2. t[i - n] = q[(i - n) + 1]
      BY <1>2, <3>1
    <3> QED
      BY <1>5, <2>2, <3>1, <3>2
  <2> QED
    BY <2>1, <2>2
<1>7. Len(r) = Len(s) + 1 /\ Len(s) = n + m
  BY <1>1, <1>5
<1> QED
  BY <1>5, <1>6, <1>7 DEF n, m, r, s, t

LEMMA RxStreamStep ==
    ASSUME UartInv, RxInv, [UartNext]_uartVars
    PROVE  /\ UNCHANGED ~Ample
           /\ \/ RxStream!Arrive \/ RxStream!Take \/ RxStream!Lose
              \/ UNCHANGED <<RxView, GotView>>
<1>1. UNCHANGED traffic
  BY DEF UartNext, Kept, uartVars
<1>2. UNCHANGED ~Ample
  BY <1>1 DEF Ample
<1>3. CASE traffic.errors
  BY <1>1, <1>2, <1>3 DEF RxView, GotView
<1>4. CASE ~traffic.errors
  <2>0. /\ RxView = RxPending /\ RxView' = RxPending' /\ GotView = got /\ GotView' = got'
    BY <1>1, <1>4 DEF RxView, GotView
  <2>1. CASE UNCHANGED <<RxPending, got, arrived>>
    BY <1>2, <2>0, <2>1
  <2>2. CASE ByteComes
    BY <1>2, <2>0, <2>2 DEF ByteComes, RxStream!Arrive, RxView, GotView
  <2>3. CASE ByteIsGot
    <3>1. PICK b \in UartBytes :
            /\ got' = Append(got, b)
            /\ RxPending' \in Seq(UartBytes) /\ RxPending = <<b>> \o RxPending'
      BY <2>3 DEF ByteIsGot
    <3>2. /\ 1 \in DOMAIN RxPending /\ RxPending[1] = b
          /\ RxPending' = SubSeq(RxPending, 2, Len(RxPending))
      BY <3>1, FirstAndRest
    <3>3. RxStream!Remain(1 + 1)
      BY <2>0, <3>2 DEF RxStream!Remain, RxView
    <3>4. RxStream!Take
      BY <2>0, <3>1, <3>2, <3>3 DEF RxStream!Take, RxView, GotView
    <3> QED
      BY <1>2, <3>4
  <2>4. CASE ByteIsDropped
    <3>1. PICK p, q \in Seq(UartBytes) :
            q # <<>> /\ RxPending = p \o q /\ RxPending' = p \o Tail(q)
      BY <2>4 DEF ByteIsDropped
    <3> DEFINE n == Len(p)
               r == RxPending
               s == RxPending'
               at == [i \in 1 .. Len(s) |-> IF i <= n THEN i ELSE i + 1]
    <3>2. /\ r \in Seq(UartBytes) /\ s \in Seq(UartBytes) /\ Len(r) = Len(s) + 1
          /\ \A i \in 1 .. Len(s) : s[i] = r[IF i <= n THEN i ELSE i + 1]
          /\ n \in Nat
      BY <3>1, OneDropped, SeqFacts
    <3> HIDE DEF r, s, n
    <3>3. SubSeq(r, 1, Len(r)) = r /\ DOMAIN r = 1 .. Len(s) + 1 /\ DOMAIN s = 1 .. Len(s) /\ Len(s) \in Nat
      BY <3>2
    <3>4. s = [i \in 1 .. Len(s) |-> s[i]]
      BY <3>2
    <3>5. /\ at \in [DOMAIN s -> DOMAIN r]
          /\ \A j, k \in DOMAIN at : j < k => at[j] < at[k]
          /\ s = [j \in DOMAIN at |-> r[at[j]]]
      <4>1. at \in [DOMAIN s -> DOMAIN r]
        BY <3>2, <3>3
      <4>2. \A j, k \in DOMAIN at : j < k => at[j] < at[k]
        BY <3>2, <3>3
      <4>3. [j \in DOMAIN at |-> r[at[j]]] = [i \in 1 .. Len(s) |-> s[i]]
        BY <3>2, <3>3
      <4> QED
        BY <3>4, <4>1, <4>2, <4>3
    <3> HIDE DEF at
    <3>6. \E f \in [DOMAIN s -> DOMAIN SubSeq(r, 1, Len(r))] :
            /\ \A j, k \in DOMAIN f : j < k => f[j] < f[k]
            /\ s = [j \in DOMAIN f |-> SubSeq(r, 1, Len(r))[f[j]]]
      BY <3>3, <3>5
    <3>7. ~Ample /\ GotView' = GotView
      BY <2>0, <2>4 DEF ByteIsDropped
    <3>8. RxStream!Remain(1)
      BY <2>0, <3>6, <3>7 DEF RxStream!Remain, RxView, r, s
    <3>9. RxStream!Lose
      BY <3>7, <3>8 DEF RxStream!Lose, GotView
    <3> QED
      BY <1>2, <3>9
  <2> QED
    BY <1>4, <2>1, <2>2, <2>3, <2>4, RxFlow
<1> QED
  BY <1>3, <1>4

(* Whatever the interleaving of interrupt and main loop, the bytes that come *)
(* are got in order and each once, and none is lost if the other side sends *)
(* no more ahead than the FIFO holds.                                      *)
THEOREM ReceivesInOrder == UartSpec => RxInOrder
<1>1. UartInit => RxStream!Init
  <2> SUFFICES ASSUME UartInit PROVE RxStream!Init
    OBVIOUS
  <2>1. fifo_length(m_rx_fifo) = 0 /\ hw.rxd = <<>> /\ got = <<>>
    <3>1. 0 \in Positions /\ m_rx_fifo.read_pos = 0 /\ m_rx_fifo.write_pos = 0
      BY Sizes DEF UartInit, EmptyFifo, Positions
    <3> QED
      BY <3>1, DistanceIs DEF fifo_length, UartInit, InitialHw
  <2>2. BytesIn(m_rx_fifo) = <<>>
    BY <2>1 DEF BytesIn
  <2>3. RxPending = <<>>
    BY <2>1, <2>2 DEF RxPending
  <2> QED
    BY <2>1, <2>3 DEF RxStream!Init, Ample
<1>2. UartInv /\ RxInv /\ [UartNext]_uartVars =>
        [RxStream!Next]_<<~Ample, IF traffic.errors THEN <<>> ELSE RxPending,
                          IF traffic.errors THEN <<>> ELSE got>>
  BY RxStreamStep DEF RxStream!Next, RxView, GotView
<1> QED
  BY <1>1, <1>2, UartInvariant, RxInvariant, PTL DEF UartSpec, RxInOrder, RxStream!Spec

-----------------------------------------------------------------------------
(* What app_uart_get returns, on a line without errors *)

(* Bytes that came, each once and in their order. *)
InOrder(s, n) ==
    /\ \A i \in DOMAIN s : s[i] \in 1 .. n
    /\ \A i, j \in DOMAIN s : i < j => s[i] < s[j]

LEMMA OrderOfParts ==
    ASSUME NEW p \in Seq(UartBytes), NEW q \in Seq(UartBytes), NEW n \in Nat, InOrder(p \o q, n)
    PROVE  /\ InOrder(p, n)
           /\ q # <<>> => InOrder(p \o Tail(q), n)
<1> DEFINE r == p \o q
           k == Len(p)
           m == Len(q)
<1>0. k \in Nat /\ m \in Nat
  BY SeqFacts
<1>1. /\ r \in Seq(UartBytes) /\ Len(r) = k + m
      /\ \A i \in 1 .. k + m : r[i] = IF i <= k THEN p[i] ELSE q[i - k]
  BY ConcatProperties, Zenon
<1>2. DOMAIN p = 1 .. k /\ DOMAIN r = 1 .. k + m
  BY <1>1
<1>3. InOrder(r, n)
  OBVIOUS
<1>4. InOrder(p, n)
  <2> HIDE DEF r, k, m
  <2>1. \A i \in 1 .. k : p[i] = r[i] /\ i \in 1 .. k + m
    BY <1>0, <1>1
  <2> QED
    BY <1>2, <1>3, <2>1 DEF InOrder
<1>5. ASSUME q # <<>> PROVE InOrder(p \o Tail(q), n)
  <2> DEFINE s == p \o Tail(q)
  <2>1. /\ s \in Seq(UartBytes) /\ Len(r) = Len(s) + 1
        /\ \A i \in 1 .. Len(s) : s[i] = r[IF i <= k THEN i ELSE i + 1]
    BY <1>5, OneDropped
  <2>2. DOMAIN s = 1 .. Len(s) /\ Len(s) \in Nat /\ DOMAIN r = 1 .. Len(s) + 1
    BY <1>1, <2>1
  <2> HIDE DEF r, k, s
  <2> DEFINE at(i) == IF i <= k THEN i ELSE i + 1
  <2>3. /\ \A i \in 1 .. Len(s) : at(i) \in 1 .. Len(s) + 1 /\ s[i] = r[at(i)]
        /\ \A i, j \in 1 .. Len(s) : i < j => at(i) < at(j)
    BY <1>0, <2>1, <2>2
  <2> HIDE DEF at
  <2> QED
    BY <1>3, <2>2, <2>3 DEF InOrder, s
<1> QED
  BY <1>4, <1>5

LEMMA OrderOfNext ==
    ASSUME NEW s \in Seq(UartBytes), NEW n \in Nat, InOrder(s, n), n + 1 \in UartBytes
    PROVE  InOrder(Append(s, n + 1), n + 1)
<1> DEFINE r == Append(s, n + 1)
           m == Len(s)
<1>1. /\ r \in Seq(UartBytes) /\ Len(r) = m + 1 /\ m \in Nat
      /\ \A i \in 1 .. m : r[i] = s[i]
      /\ r[m + 1] = n + 1
  BY AppendProperties
<1>2. DOMAIN r = 1 .. m + 1 /\ DOMAIN s = 1 .. m
  BY <1>1
<1> HIDE DEF r, m
<1>3. \A i \in 1 .. m : r[i] \in 1 .. n
  BY <1>1, <1>2 DEF InOrder
<1>4. ASSUME NEW i \in 1 .. m + 1 PROVE r[i] \in 1 .. n + 1
  <2>1. i \in 1 .. m \/ i = m + 1
    BY <1>1
  <2> QED
    BY <1>1, <1>3, <2>1
<1>5. ASSUME NEW i \in 1 .. m + 1, NEW j \in 1 .. m + 1, i < j PROVE r[i] < r[j]
  <2>1. i \in 1 .. m /\ (j \in 1 .. m \/ j = m + 1)
    BY <1>1, <1>5
  <2>2. CASE j \in 1 .. m
    <3>1. s[i] < s[j]
      BY <1>2, <1>5, <2>1, <2>2 DEF InOrder
    <3> QED
      BY <1>1, <2>1, <2>2, <3>1
  <2>3. CASE j = m + 1
    <3>1. r[i] \in 1 .. n /\ r[j] = n + 1
      BY <1>1, <1>3, <2>1, <2>3
    <3> QED
      BY <3>1
  <2> QED
    BY <2>1, <2>2, <2>3
<1>6. InOrder(r, n + 1)
  BY <1>2, <1>4, <1>5 DEF InOrder
<1> QED
  BY <1>6 DEF r

GotInOrder == ~traffic.errors => InOrder(got \o RxPending, arrived)

LEMMA PendingAre ==
    ASSUME UartInv
    PROVE  /\ RxPending \in Seq(UartBytes) /\ got \in Seq(UartBytes) /\ arrived \in Nat
           /\ got \o RxPending \in Seq(UartBytes)
<1>1. got \in Seq(UartBytes) /\ arrived \in 0 .. MaxRx
  BY DEF UartInv, UartTypeOK
<1>2. RxPending \in Seq(UartBytes)
  BY RxSequences, ConcatKeeps DEF RxPending
<1> QED
  BY <1>1, <1>2, ConcatKeeps

LEMMA GotStep ==
    ASSUME UartInv, RxInv, GotInOrder, [UartNext]_uartVars
    PROVE  GotInOrder'
<1>0. UNCHANGED traffic
  BY DEF UartNext, Kept, uartVars
<1> SUFFICES ASSUME ~traffic.errors PROVE InOrder(got' \o RxPending', arrived')
  BY <1>0 DEF GotInOrder
<1>1. InOrder(got \o RxPending, arrived)
  BY DEF GotInOrder
<1>2. CASE UNCHANGED <<RxPending, got, arrived>>
  BY <1>1, <1>2
<1>3. CASE ByteComes
  <2>1. arrived + 1 \in UartBytes
    BY <1>3, Bytes DEF ByteComes
  <2>2. got \o Append(RxPending, arrived + 1) = Append(got \o RxPending, arrived + 1)
    BY <2>1, PendingAre, ConcatKeeps
  <2>3. InOrder(Append(got \o RxPending, arrived + 1), arrived + 1)
    BY <1>1, <2>1, PendingAre, OrderOfNext
  <2> QED
    BY <1>3, <2>2, <2>3 DEF ByteComes
<1>4. CASE ByteIsGot
  <2>1. PICK b \in UartBytes :
          /\ got' = Append(got, b)
          /\ RxPending' \in Seq(UartBytes) /\ RxPending = <<b>> \o RxPending'
          /\ arrived' = arrived
    BY <1>4 DEF ByteIsGot
  <2> DEFINE one == <<b>>
             rest == RxPending'
  <2>2. one \in Seq(UartBytes) /\ rest \in Seq(UartBytes) /\ got \in Seq(UartBytes)
    BY <2>1, PendingAre
  <2>3. got' = got \o one
    BY <2>1, PendingAre, AppendIsConcat
  <2>4. RxPending = one \o rest
    BY <2>1
  <2> HIDE DEF one, rest
  <2>5. (got \o one) \o rest = got \o (one \o rest)
    BY <2>2, ConcatAssociative
  <2> QED
    BY <1>1, <2>1, <2>3, <2>4, <2>5 DEF rest
<1>5. CASE ByteIsDropped
  <2>1. PICK p, q \in Seq(UartBytes) :
          q # <<>> /\ RxPending = p \o q /\ RxPending' = p \o Tail(q)
    BY <1>5 DEF ByteIsDropped
  <2> DEFINE t == Tail(q)
  <2>2. t \in Seq(UartBytes) /\ got \in Seq(UartBytes) /\ got \o p \in Seq(UartBytes) /\ arrived \in Nat
    BY <2>1, PendingAre, SeqFacts, ConcatKeeps
  <2> HIDE DEF t
  <2>3. got \o (p \o q) = (got \o p) \o q /\ got \o (p \o t) = (got \o p) \o t
    <3>1. (got \o p) \o q = got \o (p \o q)
      BY <2>2, ConcatAssociative
    <3>2. (got \o p) \o t = got \o (p \o t)
      BY <2>2, ConcatAssociative
    <3> QED
      BY <3>1, <3>2
  <2>4. InOrder((got \o p) \o q, arrived)
    BY <1>1, <2>1, <2>3
  <2>5. InOrder((got \o p) \o t, arrived)
    BY <2>1, <2>2, <2>4, OrderOfParts DEF t
  <2> QED
    BY <1>5, <2>1, <2>3, <2>5 DEF ByteIsDropped, t
<1> QED
  BY <1>2, <1>3, <1>4, <1>5, RxFlow

(* app_uart_get keeps the promise of app_uart.h on a line without errors:   *)
(* it returns success only for a byte that came, for none twice and for    *)
(* none out of order, for every size of the FIFO and however far the other *)
(* side runs ahead.  Only the set-up after an error on the line breaks it.  *)
THEOREM GetsWhatCame == UartSpec => [](~traffic.errors => GetsOnlyReceived)
<1>1. UartInit => GotInOrder
  <2> SUFFICES ASSUME UartInit PROVE InOrder(got \o RxPending, arrived)
    BY DEF GotInOrder
  <2>1. UartInv
    BY InitHolds
  <2>2. got = <<>> /\ hw.rxd = <<>> /\ BytesIn(m_rx_fifo) = <<>>
    <3>1. 0 \in Positions /\ m_rx_fifo.read_pos = 0 /\ m_rx_fifo.write_pos = 0
      BY Sizes DEF UartInit, EmptyFifo, Positions
    <3>2. fifo_length(m_rx_fifo) = 0
      BY <3>1, DistanceIs DEF fifo_length
    <3> QED
      BY <3>2 DEF BytesIn, UartInit, InitialHw
  <2>3. got \o RxPending = <<>>
    BY <2>2 DEF RxPending
  <2> QED
    BY <2>3 DEF InOrder
<1>2. UartInv /\ RxInv /\ GotInOrder /\ [UartNext]_uartVars => GotInOrder'
  BY GotStep
<1>3. UartInv /\ GotInOrder => (~traffic.errors => GetsOnlyReceived)
  <2> SUFFICES ASSUME UartInv, GotInOrder, ~traffic.errors PROVE GetsOnlyReceived
    OBVIOUS
  <2>1. InOrder(got, arrived)
    BY PendingAre, OrderOfParts DEF GotInOrder
  <2>2. DOMAIN got = 1 .. Len(got) /\ Len(got) \in Nat
    BY PendingAre
  <2> QED
    BY <2>1, <2>2 DEF InOrder, GetsOnlyReceived
<1> QED
  BY <1>1, <1>2, <1>3, UartInvariant, RxInvariant, PTL DEF UartSpec

-----------------------------------------------------------------------------
(* The stream of bytes put *)

Popping == {"pop_read", "pop_write", "pop_byte", "pop_load", "pop_store", "tx_start"}
Putting == {"put_read", "put_write", "put_byte", "put_load", "put_store"}

(* The driver waits for nothing only while TXD is empty, and the main loop   *)
(* starts a transmission only then.                                        *)
Sender ==
    /\ hw.txdrdy => hw.txd = NoByte
    /\ m_cb.tx_buffer_length = 0 => hw.txd = NoByte /\ ~hw.txdrdy
    /\ main.at \in Popping => m_cb.tx_buffer_length = 0

(* The main loop alone moves write_pos; the read_pos it has loaded may be    *)
(* old, which makes the FIFO look longer than it is and never shorter.     *)
Writer ==
    /\ main.at = "put_write" => fifo_length(m_tx_fifo) <= Distance(main.pos, m_tx_fifo.write_pos)
    /\ main.at \in {"put_byte", "put_load", "put_store"} => fifo_length(m_tx_fifo) < BufSize
    /\ main.at \in Putting => put >= 1
    /\ main.at \in {"put_load", "put_store"} => ByteAt(m_tx_fifo, m_tx_fifo.write_pos) = put
    /\ main.at = "put_store" => main.pos = m_tx_fifo.write_pos

(* Nothing is sent while the main loop takes the first byte out. *)
Starter ==
    /\ main.at \in {"pop_write", "pop_store"} => main.pos = m_tx_fifo.read_pos
    /\ main.at \in {"pop_byte", "pop_load", "pop_store"} => fifo_length(m_tx_fifo) > 0
    /\ main.at \in {"pop_load", "pop_store"} =>
         tx_buffer = ByteAt(m_tx_fifo, m_tx_fifo.read_pos)
    /\ main.at = "tx_start" => tx_buffer \in 1 .. MaxTx

PutBytes == BytesIn(m_tx_fifo) \in Seq(1 .. MaxTx)

TxInv == Sender /\ Writer /\ Starter /\ PutBytes

LEMMA TxInit == UartInit => TxInv
<1> SUFFICES ASSUME UartInit PROVE TxInv
  OBVIOUS
<1>1. fifo_length(m_tx_fifo) = 0
  <2>1. 0 \in Positions /\ m_tx_fifo.read_pos = 0 /\ m_tx_fifo.write_pos = 0
    BY Sizes DEF UartInit, EmptyFifo, Positions
  <2> QED
    BY <2>1, DistanceIs DEF fifo_length
<1>2. BytesIn(m_tx_fifo) = <<>>
  BY <1>1 DEF BytesIn
<1>3. main.at = "idle" /\ hw.txd = NoByte /\ ~hw.txdrdy
  BY DEF UartInit, InitialHw
<1> QED
  BY <1>2, <1>3 DEF TxInv, Sender, Writer, Starter, PutBytes, Popping, Putting

(* Steps that leave the sender alone. *)
LEMMA TxRests ==
    ASSUME TxInv, UNCHANGED <<m_tx_fifo, tx_buffer, put>>,
           hw'.txd = hw.txd, hw'.txdrdy = hw.txdrdy,
           m_cb'.tx_buffer_length = m_cb.tx_buffer_length,
           \/ UNCHANGED main
           \/ main.at \notin Popping \cup Putting /\ main'.at \notin Popping \cup Putting
    PROVE  TxInv' /\ TxPending' = TxPending
<1>1. main'.at = "tx_start" <=> main.at = "tx_start"
  BY DEF Popping
<1>2. TxPending' = TxPending
  BY <1>1 DEF TxPending
<1>3. Sender'
  BY DEF TxInv, Sender
<1>4. Writer'
  BY DEF TxInv, Writer, Putting
<1>5. Starter'
  BY DEF TxInv, Starter, Popping
<1> QED
  BY <1>2, <1>3, <1>4, <1>5 DEF TxInv, PutBytes

(* Steps of the main loop within app_uart_put that only move it. *)
LEMMA TxMoves ==
    ASSUME UartInv, TxInv, UNCHANGED <<fifos, port>>,
           \/ /\ UNCHANGED put
              /\ \/ Load("put_read", "put_write", m_tx_fifo.read_pos)
                 \/ Load("put_load", "put_store", m_tx_fifo.write_pos)
                 \/ Load("pop_read", "pop_write", m_tx_fifo.read_pos)
                 \/ Load("pop_load", "pop_store", m_tx_fifo.read_pos)
           \/ ReplyByte \/ ReplyEnd \/ PutFull \/ PutBusy \/ PopEmpty
    PROVE  TxInv' /\ TxPending' = TxPending
<1> DEFINE n == fifo_length(m_tx_fifo)
<1>0. UNCHANGED <<m_tx_fifo, tx_buffer, hw, m_cb>> /\ n \in Nat /\ put \in 0 .. MaxTx
  BY RxLength DEF fifos, port, UartInv, UartTypeOK
<1> USE DEF TxInv, Sender, Writer, Starter, PutBytes, Popping, Putting
<1> SUFFICES Sender' /\ Writer' /\ Starter' /\ main.at # "tx_start" /\ main'.at # "tx_start"
  BY <1>0 DEF TxPending
<1>1. CASE Load("put_read", "put_write", m_tx_fifo.read_pos) /\ UNCHANGED put
  <2>1. /\ main.at = "put_read" /\ main'.at = "put_write" /\ main'.pos = m_tx_fifo.read_pos
    BY <1>1, Goes
  <2>2. n <= Distance(main'.pos, m_tx_fifo.write_pos)
    BY <1>0, <2>1 DEF fifo_length
  <2> QED
    BY <1>0, <1>1, <2>1, <2>2
<1>2. CASE Load("put_load", "put_store", m_tx_fifo.write_pos) /\ UNCHANGED put
  BY <1>0, <1>2, Goes
<1>3. CASE Load("pop_read", "pop_write", m_tx_fifo.read_pos) /\ UNCHANGED put
  BY <1>0, <1>3, Goes
<1>4. CASE Load("pop_load", "pop_store", m_tx_fifo.read_pos) /\ UNCHANGED put
  BY <1>0, <1>4, Goes
<1>5. CASE ReplyByte
  <2>1. main.at = "reply" /\ main'.at = "put_read" /\ put' >= 1
    BY <1>0, <1>5, Goes, Bytes DEF ReplyByte
  <2> QED
    BY <1>0, <2>1
<1>6. CASE ReplyEnd
  <2>1. main.at = "reply" /\ main'.at = "idle"
    BY <1>6, Goes DEF ReplyEnd
  <2> QED
    BY <1>0, <2>1
<1>7. CASE PutFull
  <2>1. /\ main.at = "put_write" /\ put' = put
        /\ main'.at = IF Distance(main.pos, m_tx_fifo.write_pos) <= buf_size_mask
                      THEN "put_byte" ELSE "reply"
    BY <1>7, Goes DEF PutFull, history
  <2>2. main'.at = "put_byte" => n < BufSize
    <3>1. Distance(main.pos, m_tx_fifo.write_pos) \in Nat
      <4>1. main.pos \in Positions /\ m_tx_fifo.write_pos \in Positions
        BY Moves DEF MainValues
      <4>2. Distance(main.pos, m_tx_fifo.write_pos) \in Positions
        BY <4>1, DistanceIs
      <4> QED
        BY <4>2, Sizes DEF Positions
    <3>2. n <= Distance(main.pos, m_tx_fifo.write_pos)
      BY <2>1
    <3> QED
      BY <1>0, <2>1, <3>1, <3>2, Sizes
  <2> QED
    BY <1>0, <2>1, <2>2
<1>8. CASE PutBusy
  <2>1. /\ main.at = "put_busy"
        /\ main'.at = IF m_cb.tx_buffer_length # 0 THEN "reply" ELSE "pop_read"
    BY <1>8, Goes DEF PutBusy
  <2> QED
    BY <1>0, <2>1
<1>9. CASE PopEmpty
  <2>1. main.at = "pop_write" /\ main'.at = IF n = 0 THEN "reply" ELSE "pop_byte"
    BY <1>9, Goes DEF PopEmpty, fifo_length
  <2>2. n # 0 => n > 0
    BY <1>0
  <2> QED
    BY <1>0, <2>1, <2>2
<1> QED
  BY <1>1, <1>2, <1>3, <1>4, <1>5, <1>6, <1>7, <1>8, <1>9

(* TxPending as a function of what it depends on. *)
Chain(txd, starts, byte, q) ==
    ((IF txd # NoByte THEN <<txd>> ELSE <<>>) \o (IF starts THEN <<byte>> ELSE <<>>)) \o q

LEMMA PendingIsChain ==
    /\ TxPending = Chain(hw.txd, main.at = "tx_start", tx_buffer, BytesIn(m_tx_fifo))
    /\ TxPending' = Chain(hw'.txd, main'.at = "tx_start", tx_buffer', BytesIn(m_tx_fifo'))
BY DEF TxPending, Chain

LEMMA ChainIs ==
    ASSUME NEW q \in Seq(UartBytes), NEW txd \in UartBytes, NEW byte \in UartBytes
    PROVE  /\ Chain(NoByte, FALSE, byte, q) = q
           /\ Chain(NoByte, TRUE, byte, q) = <<byte>> \o q
           /\ txd # NoByte => Chain(txd, FALSE, byte, q) = <<txd>> \o q
           /\ \A starts \in BOOLEAN, x \in UartBytes :
                Chain(txd, starts, byte, Append(q, x)) = Append(Chain(txd, starts, byte, q), x)
<1>1. \A s \in Seq(UartBytes) : <<>> \o s = s /\ s \o <<>> = s
  BY ConcatEmptySeq
<1>2. <<>> \in Seq(UartBytes) /\ <<txd>> \in Seq(UartBytes) /\ <<byte>> \in Seq(UartBytes)
  OBVIOUS
<1>3. Chain(NoByte, FALSE, byte, q) = (<<>> \o <<>>) \o q
  BY DEF Chain
<1>4. Chain(NoByte, TRUE, byte, q) = (<<>> \o <<byte>>) \o q
  BY DEF Chain
<1>5. txd # NoByte => Chain(txd, FALSE, byte, q) = (<<txd>> \o <<>>) \o q
  BY DEF Chain
<1>6. ASSUME NEW starts \in BOOLEAN, NEW x \in UartBytes
      PROVE  Chain(txd, starts, byte, Append(q, x)) = Append(Chain(txd, starts, byte, q), x)
  <2> DEFINE a == IF txd # NoByte THEN <<txd>> ELSE <<>>
             b == IF starts THEN <<byte>> ELSE <<>>
  <2>1. a \in Seq(UartBytes) /\ b \in Seq(UartBytes)
    BY <1>2
  <2>2. /\ Chain(txd, starts, byte, q) = (a \o b) \o q
        /\ Chain(txd, starts, byte, Append(q, x)) = (a \o b) \o Append(q, x)
    BY DEF Chain
  <2> HIDE DEF a, b
  <2>3. a \o b \in Seq(UartBytes)
    BY <2>1, ConcatKeeps
  <2>4. (a \o b) \o Append(q, x) = Append((a \o b) \o q, x)
    BY <2>3, ConcatKeeps
  <2> QED
    BY <2>2, <2>4
<1>7. <<>> \o <<>> = <<>> /\ <<>> \o <<byte>> = <<byte>> /\ <<txd>> \o <<>> = <<txd>>
  BY <1>1, <1>2
<1> QED
  BY <1>1, <1>3, <1>4, <1>5, <1>6, <1>7

LEMMA TxValues ==
    ASSUME UartInv
    PROVE  /\ BytesIn(m_tx_fifo) \in Seq(UartBytes)
           /\ hw.txd \in UartBytes /\ tx_buffer \in UartBytes
           /\ put \in 0 .. MaxTx /\ put \in UartBytes
<1>1. BytesIn(m_tx_fifo) \in Seq(UartBytes)
  BY Moves, BytesAre
<1>2. hw.txd \in UartBytes
  BY Moves DEF HwValues
<1> QED
  BY <1>1, <1>2, Bytes DEF UartInv, UartTypeOK

LEMMA PutByteTx ==
    ASSUME UartInv, TxInv, PutByte
    PROVE  TxInv' /\ TxPending' = TxPending
<1>1. /\ main.at = "put_byte" /\ main'.at = "put_load" /\ put' = put
      /\ UNCHANGED <<hw, m_cb, tx_buffer>>
      /\ m_tx_fifo' = StoreAt(m_tx_fifo, m_tx_fifo.write_pos, put)
  BY Goes DEF PutByte, port, history
<1>2. fifo_length(m_tx_fifo) < BufSize /\ put >= 1
  BY <1>1 DEF TxInv, Writer, Putting
<1>3. /\ BytesIn(m_tx_fifo') = BytesIn(m_tx_fifo)
      /\ fifo_length(m_tx_fifo') = fifo_length(m_tx_fifo)
      /\ ByteAt(m_tx_fifo', m_tx_fifo'.write_pos) = put
  BY <1>1, <1>2, Moves, TxValues, StoreKeeps
<1>4. TxPending' = TxPending
  BY <1>1, <1>3 DEF TxPending
<1> QED
  BY <1>1, <1>2, <1>3, <1>4
     DEF TxInv, Sender, Writer, Starter, PutBytes, Popping, Putting

LEMMA PutStoreTx ==
    ASSUME UartInv, TxInv, PutStore
    PROVE  TxInv' /\ TxPending' = Append(TxPending, put) /\ put \in 1 .. MaxTx
<1>1. /\ main.at = "put_store" /\ main'.at = "put_busy"
      /\ UNCHANGED <<hw, m_cb, tx_buffer>>
      /\ m_tx_fifo' = [m_tx_fifo EXCEPT !.write_pos = After(main.pos)]
  BY Goes DEF PutStore, port
<1>2. /\ main.pos = m_tx_fifo.write_pos /\ fifo_length(m_tx_fifo) < BufSize
      /\ ByteAt(m_tx_fifo, m_tx_fifo.write_pos) = put /\ put \in 1 .. MaxTx
  BY <1>1, TxValues DEF TxInv, Writer, Putting
<1>3. BytesIn(m_tx_fifo') = Append(BytesIn(m_tx_fifo), put)
  BY <1>1, <1>2, Moves, WriteAppends
<1>4. TxPending' = Append(TxPending, put)
  <2>1. (main.at = "tx_start") = FALSE /\ (main'.at = "tx_start") = FALSE
    BY <1>1
  <2>2. /\ TxPending = Chain(hw.txd, FALSE, tx_buffer, BytesIn(m_tx_fifo))
        /\ TxPending' = Chain(hw.txd, FALSE, tx_buffer, BytesIn(m_tx_fifo'))
    BY <1>1, <2>1, PendingIsChain
  <2>3. \A x \in UartBytes :
          Chain(hw.txd, FALSE, tx_buffer, Append(BytesIn(m_tx_fifo), x)) =
            Append(Chain(hw.txd, FALSE, tx_buffer, BytesIn(m_tx_fifo)), x)
    BY TxValues, ChainIs
  <2>4. put \in UartBytes
    BY TxValues
  <2> QED
    BY <1>3, <2>2, <2>3, <2>4
<1>5. PutBytes'
  <2>1. Append(BytesIn(m_tx_fifo), put) \in Seq(1 .. MaxTx)
    BY <1>2, SeqFacts DEF TxInv, PutBytes
  <2> QED
    BY <1>3, <2>1 DEF PutBytes
<1> QED
  BY <1>1, <1>2, <1>4, <1>5 DEF TxInv, Sender, Writer, Starter, Popping, Putting

LEMMA PopByteTx ==
    ASSUME UartInv, TxInv, PopByte
    PROVE  TxInv' /\ TxPending' = TxPending
<1>1. /\ main.at = "pop_byte" /\ main'.at = "pop_load"
      /\ UNCHANGED <<hw, m_cb, m_tx_fifo>>
      /\ tx_buffer' = ByteAt(m_tx_fifo, m_tx_fifo.read_pos)
  BY Goes DEF PopByte, fifos
<1>2. TxPending' = TxPending
  BY <1>1 DEF TxPending
<1> QED
  BY <1>1, <1>2 DEF TxInv, Sender, Writer, Starter, PutBytes, Popping, Putting

LEMMA PopStoreTx ==
    ASSUME UartInv, TxInv, PopStore
    PROVE  TxInv' /\ TxPending' = TxPending
<1>1. /\ main.at = "pop_store" /\ main'.at = "tx_start"
      /\ UNCHANGED <<hw, m_cb, tx_buffer>>
      /\ m_tx_fifo' = [m_tx_fifo EXCEPT !.read_pos = After(main.pos)]
  BY Goes DEF PopStore, port
<1>2. /\ main.pos = m_tx_fifo.read_pos /\ fifo_length(m_tx_fifo) > 0
      /\ tx_buffer = ByteAt(m_tx_fifo, m_tx_fifo.read_pos) /\ hw.txd = NoByte
  BY <1>1 DEF TxInv, Starter, Sender, Popping
<1>3. /\ BytesIn(m_tx_fifo) = <<tx_buffer>> \o BytesIn(m_tx_fifo')
      /\ m_tx_fifo' \in Fifos(UartBytes)
  BY <1>1, <1>2, Moves, ReadTakes
<1>4. BytesIn(m_tx_fifo') \in Seq(UartBytes)
  BY <1>3, BytesAre
<1>5. tx_buffer \in 1 .. MaxTx /\ PutBytes'
  <2>1. <<tx_buffer>> \o BytesIn(m_tx_fifo') \in Seq(1 .. MaxTx)
    BY <1>3 DEF TxInv, PutBytes
  <2>2. tx_buffer \in 1 .. MaxTx /\ BytesIn(m_tx_fifo') \in Seq(1 .. MaxTx)
    BY <1>4, <2>1, TxValues, PartsOfSeq
  <2> QED
    BY <2>2 DEF PutBytes
<1>6. TxPending' = TxPending
  <2>1. (main.at = "tx_start") = FALSE /\ (main'.at = "tx_start") = TRUE
    BY <1>1
  <2>2. /\ TxPending = Chain(NoByte, FALSE, tx_buffer, BytesIn(m_tx_fifo))
        /\ TxPending' = Chain(NoByte, TRUE, tx_buffer, BytesIn(m_tx_fifo'))
    BY <1>1, <1>2, <2>1, PendingIsChain
  <2>3. TxPending = BytesIn(m_tx_fifo)
    BY <2>2, TxValues, ChainIs
  <2>4. TxPending' = <<tx_buffer>> \o BytesIn(m_tx_fifo')
    BY <1>4, <2>2, TxValues, ChainIs
  <2> QED
    BY <1>3, <2>3, <2>4
<1> QED
  BY <1>1, <1>2, <1>5, <1>6 DEF TxInv, Sender, Writer, Starter, Popping, Putting

LEMMA TxStartTx ==
    ASSUME UartInv, TxInv, TxStart
    PROVE  TxInv' /\ TxPending' = TxPending
<1>1. /\ main.at = "tx_start" /\ main'.at = "reply"
      /\ UNCHANGED <<m_tx_fifo, tx_buffer>>
      /\ m_cb'.tx_buffer_length = 1 /\ hw'.txd = tx_buffer /\ ~hw'.txdrdy
  BY Goes, Moves DEF TxStart, TxStarted, fifos, HwValues, CbValues
<1>2. hw.txd = NoByte /\ tx_buffer \in 1 .. MaxTx /\ tx_buffer # NoByte
  BY <1>1 DEF TxInv, Starter, Sender, Popping, NoByte
<1>3. TxPending' = TxPending
  <2>1. (main.at = "tx_start") = TRUE /\ (main'.at = "tx_start") = FALSE
    BY <1>1
  <2>2. /\ TxPending = Chain(NoByte, TRUE, tx_buffer, BytesIn(m_tx_fifo))
        /\ TxPending' = Chain(tx_buffer, FALSE, tx_buffer, BytesIn(m_tx_fifo))
    BY <1>1, <1>2, <2>1, PendingIsChain
  <2>3. TxPending = <<tx_buffer>> \o BytesIn(m_tx_fifo)
    BY <2>2, TxValues, ChainIs
  <2>4. TxPending' = <<tx_buffer>> \o BytesIn(m_tx_fifo)
    BY <1>2, <2>2, TxValues, ChainIs
  <2> QED
    BY <2>3, <2>4
<1> QED
  BY <1>1, <1>3 DEF TxInv, Sender, Writer, Starter, PutBytes, Popping, Putting

LEMMA ByteSentTx ==
    ASSUME UartInv, TxInv, ByteSent
    PROVE  /\ TxInv' /\ TxPending = <<hw.txd>> \o TxPending'
           /\ TxPending' \in Seq(UartBytes) /\ hw.txd \in UartBytes
           /\ out' = Append(out, hw.txd)
<1>1. /\ hw.txd # NoByte /\ hw'.txd = NoByte /\ hw'.txdrdy
      /\ UNCHANGED <<m_tx_fifo, m_cb, tx_buffer, main, put>> /\ out' = Append(out, hw.txd)
  BY Moves DEF ByteSent, fifos, HwValues
<1>2. m_cb.tx_buffer_length # 0 /\ main.at \notin Popping
  BY <1>1 DEF TxInv, Sender
<1>3. (main.at = "tx_start") = FALSE
  BY <1>2 DEF Popping
<1>4. /\ TxPending = Chain(hw.txd, FALSE, tx_buffer, BytesIn(m_tx_fifo))
      /\ TxPending' = Chain(NoByte, FALSE, tx_buffer, BytesIn(m_tx_fifo))
  BY <1>1, <1>3, PendingIsChain
<1>5. TxPending = <<hw.txd>> \o BytesIn(m_tx_fifo) /\ TxPending' = BytesIn(m_tx_fifo)
  BY <1>1, <1>4, TxValues, ChainIs
<1>6. TxInv'
  BY <1>1, <1>2 DEF TxInv, Sender, Writer, Starter, PutBytes
<1> QED
  BY <1>1, <1>5, <1>6, TxValues

LEMMA TxDoneTx ==
    ASSUME UartInv, TxInv, TxDone
    PROVE  TxInv' /\ TxPending' = TxPending
<1>1. /\ hw.txdrdy /\ hw.txd = NoByte /\ m_cb.tx_buffer_length # 0
      /\ main.at \notin Popping /\ UNCHANGED <<main, put>>
  BY DEF TxDone, TxInv, Sender, history
<1>2. CASE Empty(m_tx_fifo)
  <2>1. /\ UNCHANGED <<m_tx_fifo, tx_buffer>> /\ hw'.txd = hw.txd /\ ~hw'.txdrdy
        /\ m_cb'.tx_buffer_length = 0
    BY <1>1, <1>2, Moves DEF TxDone, HwValues, CbValues
  <2> QED
    BY <1>1, <2>1 DEF TxInv, Sender, Writer, Starter, PutBytes, TxPending
<1>3. CASE ~Empty(m_tx_fifo)
  <2> DEFINE byte == ByteAt(m_tx_fifo, m_tx_fifo.read_pos)
             q == BytesIn(m_tx_fifo')
  <2>1. /\ m_tx_fifo' = fifo_get(m_tx_fifo) /\ tx_buffer' = byte /\ m_cb' = m_cb
        /\ hw'.txd = byte /\ ~hw'.txdrdy
    BY <1>1, <1>3, Moves DEF TxDone, TxStarted, HwValues
  <2>2. /\ m_tx_fifo' \in Fifos(UartBytes)
        /\ m_tx_fifo'.write_pos = m_tx_fifo.write_pos /\ m_tx_fifo'.buf = m_tx_fifo.buf
        /\ BytesIn(m_tx_fifo) = <<byte>> \o q
        /\ fifo_length(m_tx_fifo') = fifo_length(m_tx_fifo) - 1
    BY <1>3, <2>1, Moves, GetTakes
  <2>3. byte \in UartBytes /\ q \in Seq(UartBytes)
    BY <2>2, Moves, FifoBytes, BytesAre
  <2>4. byte \in 1 .. MaxTx /\ PutBytes'
    <3>1. <<byte>> \o q \in Seq(1 .. MaxTx)
      BY <2>2 DEF TxInv, PutBytes
    <3> HIDE DEF byte, q
    <3>2. byte \in 1 .. MaxTx /\ q \in Seq(1 .. MaxTx)
      BY <2>3, <3>1, PartsOfSeq
    <3> QED
      BY <3>2 DEF PutBytes, q
  <2>5. TxPending' = TxPending
    <3>1. (main.at = "tx_start") = FALSE /\ (main'.at = "tx_start") = FALSE /\ byte # NoByte
      BY <1>1, <2>4 DEF Popping, NoByte
    <3>2. /\ TxPending = Chain(NoByte, FALSE, tx_buffer, BytesIn(m_tx_fifo))
          /\ TxPending' = Chain(byte, FALSE, byte, q)
      BY <1>1, <2>1, <3>1, PendingIsChain
    <3> HIDE DEF byte, q
    <3>3. TxPending = BytesIn(m_tx_fifo)
      BY <3>2, TxValues, ChainIs
    <3>4. TxPending' = <<byte>> \o q
      BY <2>3, <3>1, <3>2, ChainIs
    <3> QED
      BY <2>2, <3>3, <3>4
  <2>6. Writer'
    <3>1. fifo_length(m_tx_fifo) \in Nat /\ BufSize \in Nat
      BY RxLength, Sizes
    <3>2. Distance(main.pos, m_tx_fifo.write_pos) \in Nat
      <4>1. main.pos \in Positions /\ m_tx_fifo.write_pos \in Positions
        BY Moves DEF MainValues
      <4>2. Distance(main.pos, m_tx_fifo.write_pos) \in Positions
        BY <4>1, DistanceIs
      <4> QED
        BY <4>2, Sizes DEF Positions
    <3>3. ByteAt(m_tx_fifo', m_tx_fifo'.write_pos) = ByteAt(m_tx_fifo, m_tx_fifo.write_pos)
      BY <2>2 DEF ByteAt
    <3> QED
      BY <1>1, <2>2, <3>1, <3>2, <3>3 DEF TxInv, Writer
  <2>7. Starter'
    BY <1>1 DEF Starter, Popping
  <2>8. Sender'
    BY <1>1, <2>1 DEF Sender
  <2> QED
    BY <2>4, <2>5, <2>6, <2>7, <2>8 DEF TxInv
<1> QED
  BY <1>2, <1>3

TxView == IF traffic.errors THEN <<>> ELSE TxPending
OutView == IF traffic.errors THEN <<>> ELSE out

LEMMA TxStep ==
    ASSUME UartInv, RxInv, ~traffic.errors => TxInv, [UartNext]_uartVars
    PROVE  /\ ~traffic.errors => TxInv'
           /\ TxStream!Arrive \/ TxStream!Take \/ UNCHANGED <<TxView, OutView>>
<1>1. UNCHANGED traffic
  BY DEF UartNext, Kept, uartVars
<1>2. CASE traffic.errors
  BY <1>1, <1>2 DEF TxView, OutView
<1>3. CASE ~traffic.errors
  <2>0. /\ TxView = TxPending /\ TxView' = TxPending' /\ OutView = out /\ OutView' = out'
        /\ TxInv
    BY <1>1, <1>3 DEF TxView, OutView
  <2>1. CASE TxInv' /\ TxPending' = TxPending /\ out' = out
    BY <2>0, <2>1
  <2>2. CASE PutStore
    <3>1. TxInv' /\ TxPending' = Append(TxPending, put) /\ put \in 1 .. MaxTx /\ out' = out
      BY <2>0, <2>2, PutStoreTx DEF PutStore, history
    <3>2. TxStream!Arrive
      BY <2>0, <3>1 DEF TxStream!Arrive, TxView, OutView
    <3> QED
      BY <3>1, <3>2
  <2>3. CASE ByteSent
    <3>1. /\ TxInv' /\ TxPending = <<hw.txd>> \o TxPending'
          /\ TxPending' \in Seq(UartBytes) /\ hw.txd \in UartBytes
          /\ out' = Append(out, hw.txd)
      BY <2>0, <2>3, ByteSentTx
    <3>2. /\ 1 \in DOMAIN TxPending /\ TxPending[1] = hw.txd
          /\ TxPending' = SubSeq(TxPending, 2, Len(TxPending))
      BY <3>1, FirstAndRest
    <3>3. TxStream!Remain(1 + 1)
      BY <2>0, <3>2 DEF TxStream!Remain, TxView
    <3>4. TxStream!Take
      BY <2>0, <3>1, <3>2, <3>3 DEF TxStream!Take, TxView, OutView
    <3> QED
      BY <3>1, <3>4
  <2>4. CASE TxDone
    BY <2>0, <2>1, <2>4, TxDoneTx DEF TxDone, history
  <2>5. CASE PutByte \/ PopByte \/ PopStore \/ TxStart
    <3>1. TxInv' /\ TxPending' = TxPending
      BY <2>0, <2>5, PutByteTx, PopByteTx, PopStoreTx, TxStartTx
    <3>2. out' = out
      BY <2>5 DEF PutByte, PopByte, PopStore, TxStart, history
    <3> QED
      BY <2>1, <3>1, <3>2
  <2>6. CASE ReplyByte \/ ReplyEnd \/ PutFull \/ PutBusy \/ PopEmpty
    <3>1. UNCHANGED <<fifos, port, out>>
      BY <2>6 DEF ReplyByte, ReplyEnd, PutFull, PutBusy, PopEmpty, history
    <3> QED
      BY <2>0, <2>1, <2>6, <3>1, TxMoves
  <2>7. CASE LoadPosition
    <3>1. UNCHANGED <<fifos, port, put, out>>
      BY <2>7 DEF LoadPosition, history
    <3>2. CASE \/ Load("put_read", "put_write", m_tx_fifo.read_pos)
               \/ Load("put_load", "put_store", m_tx_fifo.write_pos)
               \/ Load("pop_read", "pop_write", m_tx_fifo.read_pos)
               \/ Load("pop_load", "pop_store", m_tx_fifo.read_pos)
      BY <2>0, <2>1, <3>1, <3>2, TxMoves
    <3>3. CASE \/ Load("idle", "get_full", m_rx_fifo.read_pos)
               \/ Load("get_read", "get_write", m_rx_fifo.read_pos)
               \/ Load("get_load", "get_store", m_rx_fifo.read_pos)
      <4>1. main.at \notin Popping \cup Putting /\ main'.at \notin Popping \cup Putting
        BY <3>3, Goes DEF Popping, Putting
      <4>2. UNCHANGED <<m_tx_fifo, tx_buffer, put, hw, m_cb>>
        BY <3>1 DEF fifos, port
      <4> QED
        BY <2>0, <2>1, <3>1, <4>1, <4>2, TxRests
    <3> QED
      BY <2>7, <3>2, <3>3 DEF LoadPosition
  <2>8. CASE GetFull \/ GetRx \/ GetEmpty \/ GetByte \/ GetStore
    <3>1. main.at \notin Popping \cup Putting /\ main'.at \notin Popping \cup Putting
      <4>1. CASE GetByte
        BY <4>1, Moves DEF GetByte, MainValues, Popping, Putting
      <4>2. CASE GetFull \/ GetRx \/ GetEmpty \/ GetStore
        BY <4>2, Goes DEF GetFull, GetRx, GetEmpty, GetStore, Popping, Putting
      <4> QED
        BY <2>8, <4>1, <4>2
    <3>2. UNCHANGED <<m_tx_fifo, tx_buffer, put, out>>
      BY <2>8 DEF GetFull, GetRx, GetEmpty, GetByte, GetStore, fifos, port, history
    <3>3. /\ hw'.txd = hw.txd /\ hw'.txdrdy = hw.txdrdy
          /\ m_cb'.tx_buffer_length = m_cb.tx_buffer_length
      <4>1. CASE GetRx
        BY <4>1, Moves DEF GetRx, RxRequested, HwValues, CbValues
      <4>2. CASE GetFull \/ GetEmpty \/ GetByte \/ GetStore
        BY <4>2 DEF GetFull, GetEmpty, GetByte, GetStore, port
      <4> QED
        BY <2>8, <4>1, <4>2
    <3> QED
      BY <2>0, <2>1, <3>1, <3>2, <3>3, TxRests
  <2>9. CASE LineByte \/ RxDone \/ UNCHANGED uartVars
    <3>1. UNCHANGED <<main, m_tx_fifo, tx_buffer, put, out>>
      BY <2>9 DEF LineByte, RxDone, uartVars, fifos, port, history
    <3>2. hw'.txd = hw.txd /\ hw'.txdrdy = hw.txdrdy
      BY <2>9, Moves DEF LineByte, RxDone, RxdRead, uartVars, port, HwValues
    <3>3. m_cb'.tx_buffer_length = m_cb.tx_buffer_length
      BY <2>9, Moves DEF LineByte, RxDone, RxRequested, RxCompleted, uartVars, port, CbValues
    <3> QED
      BY <2>0, <2>1, <3>1, <3>2, <3>3, TxRests
  <2>10. ~LostByte /\ ~CommError
    BY <1>3 DEF LostByte, CommError, RxInv
  <2> QED
    BY <2>2, <2>3, <2>4, <2>5, <2>6, <2>7, <2>8, <2>9, <2>10 DEF UartNext, Kept, MainLoop
<1> QED
  BY <1>2, <1>3

(* What app_uart_put has taken goes out in order, each byte once and none    *)
(* lost, although the interrupt handler and the main loop both take bytes  *)
(* out of the FIFO.                                                        *)
THEOREM SendsInOrder == UartSpec => TxInOrder
<1>1. UartInit => TxStream!Init
  <2> SUFFICES ASSUME UartInit PROVE TxStream!Init
    OBVIOUS
  <2>1. fifo_length(m_tx_fifo) = 0
    <3>1. 0 \in Positions /\ m_tx_fifo.read_pos = 0 /\ m_tx_fifo.write_pos = 0
      BY Sizes DEF UartInit, EmptyFifo, Positions
    <3> QED
      BY <3>1, DistanceIs DEF fifo_length
  <2>2. BytesIn(m_tx_fifo) = <<>>
    BY <2>1 DEF BytesIn
  <2>3. TxPending = <<>> /\ out = <<>>
    BY <2>2 DEF TxPending, UartInit, InitialHw
  <2> QED
    BY <2>3 DEF TxStream!Init
<1>2. (~traffic.errors => TxInv) /\ UartInv /\ RxInv /\ [UartNext]_uartVars =>
        (~traffic.errors => TxInv)'
  <2>1. [UartNext]_uartVars => UNCHANGED traffic
    BY DEF UartNext, Kept, uartVars
  <2> QED
    BY <2>1, TxStep
<1>3. UartInv /\ RxInv /\ (~traffic.errors => TxInv) /\ [UartNext]_uartVars =>
        [TxStream!Next]_<<FALSE, IF traffic.errors THEN <<>> ELSE TxPending,
                          IF traffic.errors THEN <<>> ELSE out>>
  BY TxStep DEF TxStream!Next, TxView, OutView
<1> QED
  BY <1>1, <1>2, <1>3, TxInit, UartInvariant, RxInvariant, PTL
     DEF UartSpec, TxInOrder, TxStream!Spec
=============================================================================
