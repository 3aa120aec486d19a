----------------------------- MODULE AppTimer_proofs -----------------------------
(***************************************************************************)
(* Proofs about the timer library: for any number of timers, any intervals *)
(* and any width of the counter the list says when every timer is due, the *)
(* compare register wakes the interrupt in time, and no handler runs early *)
(* or more than Late ticks late.                                           *)
(***************************************************************************)
EXTENDS AppTimer, FiniteSetTheorems, WellFoundedInduction, TLAPS

(* What the assumptions say of the constants one by one.                     *)
LEMMA Constants ==
    /\ CounterRange \in Nat /\ CounterRange >= 1 /\ QueueSlots \in Nat /\ QueueSlots >= 2
    /\ MaxLag \in Nat /\ MaxLag >= 1 /\ CallTicks \in Nat /\ CallTicks >= 1
    /\ Late \in Nat /\ Late >= 4 * MaxLag - 1 /\ Late >= 2 * MaxLag + 2
    /\ Nobody \notin Timer
  BY AppTimerAssumption

(* Two intervals and their lateness fit into one turn of the counter.        *)
LEMMA IntervalsAre ==
    ASSUME NEW t \in Timer
    PROVE  /\ Interval[t] \in Nat /\ Interval[t] > Late /\ Interval[t] > CallTicks + MaxLag
           /\ (CounterRange - 1) \div 2 \in Int
           /\ Interval[t] + Late + MaxLag < (CounterRange - 1) \div 2
           /\ 2 * ((CounterRange - 1) \div 2) <= CounterRange - 1
  <1>1. /\ Interval[t] \in Nat /\ Interval[t] > Late /\ Interval[t] > CallTicks + MaxLag
        /\ Interval[t] + Late + MaxLag < (CounterRange - 1) \div 2
    BY AppTimerAssumption
  <1>2. CounterRange - 1 \in Int
    BY Constants
  <1>3. \A x \in Int : x \div 2 \in Int /\ 2 * (x \div 2) <= x
    OBVIOUS
  <1> QED
    BY <1>1, <1>2, <1>3

-----------------------------------------------------------------------------
(* Induction *)

(* A set of natural numbers that is not empty has a least element.           *)
LEMMA LeastNumber ==
    ASSUME NEW T, T \subseteq Nat, T # {}
    PROVE  \E x \in T : \A y \in T : ~(y < x)
  <1>1. IsWellFoundedOn(OpToRel(<, Nat), Nat)
    BY NatLessThanWellFounded
  <1>2. \E x \in T : \A y \in T : ~(<<y, x>> \in OpToRel(<, Nat))
    BY <1>1, WFMin
  <1>3. \A x, y \in Nat : y < x => <<y, x>> \in OpToRel(<, Nat)
    BY DEF OpToRel
  <1> QED
    BY <1>2, <1>3

(* Induction: a set that holds zero and every successor is Nat.              *)
LEMMA UpFromZero ==
    ASSUME NEW T, 0 \in T, \A n \in Nat : n \in T => n + 1 \in T
    PROVE  \A n \in Nat : n \in T
  <1>1. SUFFICES ASSUME Nat \ T # {} PROVE FALSE
    BY Zenon
  <1>2. PICK x \in Nat \ T : \A y \in Nat \ T : ~(y < x)
    BY <1>1, LeastNumber
  <1>3. x # 0 /\ x - 1 \in Nat /\ x - 1 < x
    BY <1>2
  <1> QED
    BY <1>2, <1>3

(* The first numbers of a range, counted.                                    *)
LEMMA FirstOnes ==
    ASSUME NEW n \in Nat, NEW S, S \subseteq 1 .. n,
           \A j \in S : \A i \in 1 .. j : i \in S
    PROVE  Cardinality(S) \in 0 .. n /\ S = 1 .. Cardinality(S)
  <1> DEFINE T == {m \in Nat : m + 1 \notin S}
  <1>1. n \in T /\ T \subseteq Nat
    OBVIOUS
  <1>2. PICK m \in T : \A y \in T : ~(y < m)
    BY <1>1, LeastNumber
  <1>3. m \in Nat /\ m <= n /\ m + 1 \notin S
    BY <1>1, <1>2
  <1>4. ASSUME NEW i \in S PROVE i \in 1 .. m
    <2>1. i \in Nat /\ i >= 1
      OBVIOUS
    <2>2. ~(m + 1 <= i)
      <3>1. m + 1 <= i => m + 1 \in 1 .. i
        BY <1>3, <2>1
      <3> QED
        BY <1>3, <3>1
    <2> QED
      BY <1>3, <2>1, <2>2
  <1>5. ASSUME NEW i \in 1 .. m PROVE i \in S
    <2>1. i - 1 \in Nat /\ i - 1 < m /\ (i - 1) + 1 = i
      BY <1>3
    <2>2. i - 1 \notin T
      BY <1>2, <2>1
    <2> QED
      BY <2>1, <2>2
  <1>6. S = 1 .. m
    BY <1>4, <1>5
  <1>7. Cardinality(1 .. m) = m
    <2>1. Cardinality(1 .. m) = IF 1 > m THEN 0 ELSE m - 1 + 1
      BY <1>3, FS_Interval
    <2> QED
      BY <1>3, <2>1
  <1> QED
    BY <1>3, <1>6, <1>7

-----------------------------------------------------------------------------
(* When the timers of a list are due *)

Node == [timer : Timer, ticks_to_expire : Nat]

(* The ticks until the first i timers of a list are due, for i up to n.      *)
DueUpTo(list, n) ==
    {f \in [0 .. n -> Nat] : /\ f[0] = 0
                             /\ \A i \in 1 .. n : f[i] = f[i - 1] + list[i].ticks_to_expire}

(* The sums of Due exist for every length of a list.                         *)
LEMMA DueExists ==
    ASSUME NEW list \in Seq(Node)
    PROVE  DueUpTo(list, Len(list)) # {}
  <1> DEFINE T == {n \in Nat : n <= Len(list) => DueUpTo(list, n) # {}}
  <1>1. 0 \in T
    <2>1. [i \in 0 .. 0 |-> 0] \in DueUpTo(list, 0)
      BY DEF DueUpTo
    <2> QED
      BY <2>1
  <1>2. ASSUME NEW n \in Nat, n \in T PROVE n + 1 \in T
    <2>1. CASE n + 1 > Len(list)
      BY <2>1
    <2>2. CASE n + 1 <= Len(list)
      <3>1. PICK f : f \in DueUpTo(list, n)
        BY <1>2, <2>2
      <3> DEFINE x == f[n] + list[n + 1].ticks_to_expire
                 g == [i \in 0 .. n + 1 |-> IF i = n + 1 THEN x ELSE f[i]]
      <3>2. f \in [0 .. n -> Nat] /\ f[n] \in Nat /\ list[n + 1] \in Node
        BY <2>2, <3>1 DEF DueUpTo
      <3>3. x \in Nat
        BY <3>2 DEF Node
      <3>4. g \in [0 .. n + 1 -> Nat] /\ g[0] = 0
        BY <3>1, <3>2, <3>3 DEF DueUpTo
      <3>5. \A i \in 1 .. n + 1 : g[i] = g[i - 1] + list[i].ticks_to_expire
        BY <3>1, <3>2 DEF DueUpTo
      <3>6. g \in DueUpTo(list, n + 1)
        BY <3>4, <3>5 DEF DueUpTo
      <3> QED
        BY <3>6
    <2> QED
      BY <2>1, <2>2
  <1>3. \A n \in Nat : n \in T
    <2> HIDE DEF T
    <2> QED
      BY <1>1, <1>2, UpFromZero
  <1> QED
    BY <1>3

(* Any function that counts like that is Due.                                *)
LEMMA DueOnly ==
    ASSUME NEW list, NEW n \in Nat, NEW f \in DueUpTo(list, n), NEW k \in 0 .. n
    PROVE  Due(list, k) = f[k]
  <1> DEFINE R(g) == [j \in 0 .. k |-> IF j = 0 THEN 0 ELSE g[j - 1] + list[j].ticks_to_expire]
             h == [j \in 0 .. k |-> f[j]]
             due == CHOOSE g : g = R(g)
  <1>1. /\ f \in [0 .. n -> Nat] /\ f[0] = 0
        /\ \A i \in 1 .. n : f[i] = f[i - 1] + list[i].ticks_to_expire
    BY DEF DueUpTo
  <1>2. h = R(h)
    <2>1. \A j \in 0 .. k : h[j] = R(h)[j]
      BY <1>1
    <2> QED
      BY <2>1
  <1>3. due = R(due)
    BY <1>2
  <1>4. Due(list, k) = due[k]
    BY DEF Due
  <1> HIDE DEF due
  <1>5. \A j \in 0 .. k : due[j] = IF j = 0 THEN 0 ELSE due[j - 1] + list[j].ticks_to_expire
    <2> DEFINE r == R(due)
    <2>1. \A j \in 0 .. k : r[j] = IF j = 0 THEN 0 ELSE due[j - 1] + list[j].ticks_to_expire
      OBVIOUS
    <2>2. due = r
      BY <1>3
    <2> HIDE DEF r
    <2> QED
      BY <2>1, <2>2
  <1> DEFINE T == {j \in Nat : j <= k => due[j] = f[j]}
  <1>6. 0 \in T
    BY <1>1, <1>5
  <1>7. ASSUME NEW j \in Nat, j \in T PROVE j + 1 \in T
    <2> SUFFICES ASSUME j + 1 <= k PROVE due[j + 1] = f[j + 1]
      OBVIOUS
    <2>1. j + 1 \in 0 .. k /\ j + 1 # 0 /\ (j + 1) - 1 = j /\ j + 1 \in 1 .. n /\ j <= k
      OBVIOUS
    <2>2. due[j + 1] = due[j] + list[j + 1].ticks_to_expire
      BY <1>5, <2>1
    <2>3. f[j + 1] = f[j] + list[j + 1].ticks_to_expire
      BY <1>1, <2>1
    <2>4. due[j] = f[j]
      BY <1>7, <2>1
    <2> QED
      BY <2>2, <2>3, <2>4
  <1>8. \A j \in Nat : j \in T
    <2> HIDE DEF T
    <2> QED
      BY <1>6, <1>7, UpFromZero
  <1>9. due[k] = f[k]
    BY <1>8
  <1> QED
    BY <1>4, <1>9

(* Due adds up the ticks of a list from its head.                            *)
LEMMA DueIs ==
    ASSUME NEW list \in Seq(Node)
    PROVE  /\ Due(list, 0) = 0
           /\ \A i \in 0 .. Len(list) : Due(list, i) \in Nat
           /\ \A i \in 1 .. Len(list) : Due(list, i) = Due(list, i - 1) + list[i].ticks_to_expire
  <1> DEFINE n == Len(list)
  <1>1. PICK f : f \in DueUpTo(list, n)
    BY DueExists
  <1>2. n \in Nat /\ \A i \in 0 .. n : Due(list, i) = f[i]
    BY <1>1, DueOnly
  <1>3. /\ f \in [0 .. n -> Nat] /\ f[0] = 0
        /\ \A i \in 1 .. n : f[i] = f[i - 1] + list[i].ticks_to_expire
    BY <1>1 DEF DueUpTo
  <1>4. \A i \in 1 .. n : i \in 0 .. n /\ i - 1 \in 0 .. n
    BY <1>2
  <1>5. 0 \in 0 .. n
    BY <1>2
  <1> QED
    BY <1>2, <1>3, <1>4, <1>5

(* No timer in a list is due before one in front of it.                      *)
LEMMA DueInOrder ==
    ASSUME NEW list \in Seq(Node), NEW i \in 0 .. Len(list), NEW j \in i .. Len(list)
    PROVE  Due(list, i) <= Due(list, j)
  <1> DEFINE n == Len(list)
             T == {d \in Nat : i + d <= n => Due(list, i) <= Due(list, i + d)}
  <1>1. /\ n \in Nat /\ \A k \in 0 .. n : Due(list, k) \in Nat
        /\ \A k \in 1 .. n : Due(list, k) = Due(list, k - 1) + list[k].ticks_to_expire
        /\ \A k \in 1 .. n : list[k].ticks_to_expire \in Nat
    <2>1. \A k \in 1 .. n : list[k] \in Node
      OBVIOUS
    <2>2. \A k \in 1 .. n : list[k].ticks_to_expire \in Nat
      BY <2>1 DEF Node
    <2>3. n \in Nat
      OBVIOUS
    <2> QED
      BY <2>2, <2>3, DueIs
  <1>2. 0 \in T
    BY <1>1
  <1>3. ASSUME NEW d \in Nat, d \in T PROVE d + 1 \in T
    <2> SUFFICES ASSUME i + (d + 1) <= n PROVE Due(list, i) <= Due(list, i + (d + 1))
      OBVIOUS
    <2>1. i + (d + 1) \in 1 .. n /\ (i + (d + 1)) - 1 = i + d /\ i + d \in 0 .. n /\ i + d <= n
      BY <1>1
    <2>2. Due(list, i) <= Due(list, i + d)
      BY <1>3, <2>1
    <2>3. Due(list, i + (d + 1)) = Due(list, i + d) + list[i + (d + 1)].ticks_to_expire
      BY <1>1, <2>1
    <2>4. Due(list, i + d) \in Nat /\ Due(list, i) \in Nat
          /\ list[i + (d + 1)].ticks_to_expire \in Nat
      BY <1>1, <2>1
    <2> QED
      BY <2>2, <2>3, <2>4
  <1>4. \A d \in Nat : d \in T
    <2> HIDE DEF T
    <2> QED
      BY <1>2, <1>3, UpFromZero
  <1>5. j - i \in Nat /\ i + (j - i) = j /\ j <= n
    OBVIOUS
  <1> QED
    BY <1>4, <1>5

-----------------------------------------------------------------------------
(* Lists in which every timer is due as a schedule says *)

TimersIn(list) == {list[i].timer : i \in DOMAIN list}

(* Every timer is in the list once, and due when g says.                     *)
ListOf(list, g) ==
    /\ list \in Seq(Node)
    /\ \A i, j \in 1 .. Len(list) : list[i].timer = list[j].timer => i = j
    /\ \A i \in 1 .. Len(list) : Due(list, i) = g[list[i].timer]

(* The timer at the head is due first.                                       *)
LEMMA HeadIsFirst ==
    ASSUME NEW list, NEW g, ListOf(list, g), list # <<>>
    PROVE  /\ list[1] \in Node /\ list[1].timer \in TimersIn(list)
           /\ g[list[1].timer] = list[1].ticks_to_expire
           /\ \A t \in TimersIn(list) : g[t] \in Nat /\ g[list[1].timer] <= g[t]
  <1>1. list \in Seq(Node) /\ Len(list) \in Nat /\ Len(list) >= 1
    BY DEF ListOf
  <1>2. 1 \in 1 .. Len(list) /\ 1 \in 0 .. Len(list) /\ list[1] \in Node
    BY <1>1
  <1>3. Due(list, 1) = list[1].ticks_to_expire
    <2>1. Due(list, 1) = Due(list, 1 - 1) + list[1].ticks_to_expire /\ Due(list, 0) = 0
      BY <1>1, <1>2, DueIs
    <2> QED
      BY <1>2, <2>1 DEF Node
  <1>4. ASSUME NEW t \in TimersIn(list) PROVE g[t] \in Nat /\ g[list[1].timer] <= g[t]
    <2>1. PICK i \in 1 .. Len(list) : t = list[i].timer
      BY <1>1 DEF TimersIn
    <2>2. i \in 1 .. Len(list) /\ i \in 0 .. Len(list)
      BY <1>1
    <2>3. Due(list, i) \in Nat /\ Due(list, 1) <= Due(list, i)
      BY <1>1, <1>2, <2>2, DueIs, DueInOrder
    <2>4. Due(list, i) = g[t] /\ Due(list, 1) = g[list[1].timer]
      BY <1>2, <2>1 DEF ListOf
    <2> QED
      BY <2>3, <2>4
  <1> QED
    BY <1>1, <1>2, <1>3, <1>4 DEF TimersIn, ListOf

(* The timers that are due until some time are the first ones of the list.   *)
LEMMA DueAtHead ==
    ASSUME NEW list \in Seq(Node), NEW x \in Int,
           NEW S, S = {i \in DOMAIN list : Due(list, i) < x} \/ S = {i \in DOMAIN list : Due(list, i) <= x}
    PROVE  Cardinality(S) \in 0 .. Len(list) /\ S = 1 .. Cardinality(S)
  <1>1. Len(list) \in Nat /\ S \subseteq 1 .. Len(list)
    OBVIOUS
  <1>2. ASSUME NEW j \in S, NEW i \in 1 .. j PROVE i \in S
    <2>1. j \in 1 .. Len(list) /\ i \in 1 .. Len(list) /\ i \in 0 .. Len(list) /\ j \in i .. Len(list)
          /\ j \in 0 .. Len(list)
      BY <1>1
    <2>2. Due(list, i) <= Due(list, j) /\ Due(list, i) \in Nat /\ Due(list, j) \in Nat
      BY <2>1, DueInOrder, DueIs
    <2>3. i \in DOMAIN list
      BY <2>1
    <2> QED
      BY <2>2, <2>3
  <1> QED
    BY <1>1, <1>2, FirstOnes

(* Inserting a timer moves no other one in time.                             *)
LEMMA InsertedOf ==
    ASSUME NEW list, NEW g, ListOf(list, g),
           NEW node \in Node, node.timer \notin TimersIn(list), g[node.timer] = node.ticks_to_expire
    PROVE  /\ ListOf(Inserted(list, node), g)
           /\ TimersIn(Inserted(list, node)) = TimersIn(list) \cup {node.timer}
           /\ \/ Inserted(list, node)[1].timer = node.timer
              \/ list # <<>> /\ Inserted(list, node)[1].timer = list[1].timer
  <1> DEFINE n == Len(list)
             x == node.ticks_to_expire
             S == {i \in DOMAIN list : Due(list, i) < x}
             b == Cardinality(S)
             rest == x - Due(list, b)
             behind == IF b = n THEN list
                       ELSE [list EXCEPT ![b + 1].ticks_to_expire = @ - rest]
             placed == [node EXCEPT !.ticks_to_expire = rest]
             new == InsertAt(behind, b + 1, placed)
             D(i) == Due(list, i)
  <1>1. Inserted(list, node) = new
    BY DEF Inserted
  <1>2. list \in Seq(Node) /\ n \in Nat /\ x \in Nat /\ node.timer \in Timer
    BY DEF ListOf, Node
  <1>3. b \in 0 .. n /\ S = 1 .. b
    <2>1. x \in Int
      BY <1>2
    <2> HIDE DEF x
    <2> QED
      BY <1>2, <2>1, DueAtHead
  <1> HIDE DEF b
  <1>4. /\ D(0) = 0 /\ \A i \in 0 .. n : D(i) \in Nat
        /\ \A i \in 1 .. n : D(i) = D(i - 1) + list[i].ticks_to_expire
        /\ \A i \in 1 .. n : list[i] \in Node
    <2>1. \A i \in 1 .. n : list[i] \in Node
      BY <1>2
    <2> QED
      BY <1>2, <2>1, DueIs
  <1>5. rest \in Nat /\ D(b) \in Nat
    <2>1. D(b) \in Nat
      BY <1>3, <1>4
    <2>2. D(b) <= x
      <3>1. CASE b = 0
        BY <3>1, <1>4, <1>2
      <3>2. CASE b # 0
        <4>1. b \in S
          BY <1>3, <3>2
        <4> QED
          BY <4>1, <2>1, <1>2
      <3> QED
        BY <3>1, <3>2
    <2> QED
      BY <1>2, <2>1, <2>2
  <1>6. b # n => /\ b + 1 \in 1 .. n
                 /\ list[b + 1].ticks_to_expire - rest = D(b + 1) - x
                 /\ D(b + 1) - x \in Nat
    <2> SUFFICES ASSUME b # n PROVE /\ b + 1 \in 1 .. n
                                    /\ list[b + 1].ticks_to_expire - rest = D(b + 1) - x
                                    /\ D(b + 1) - x \in Nat
      OBVIOUS
    <2>1. b + 1 \in 1 .. n /\ b + 1 \notin 1 .. b /\ b + 1 \in 0 .. n /\ (b + 1) - 1 = b
      BY <1>2, <1>3
    <2>2. ~(D(b + 1) < x) /\ D(b + 1) \in Nat
      BY <1>3, <1>4, <2>1
    <2>3. D(b + 1) = D(b) + list[b + 1].ticks_to_expire /\ list[b + 1].ticks_to_expire \in Nat
      BY <1>4, <2>1 DEF Node
    <2> DEFINE ticks == list[b + 1].ticks_to_expire
               before == D(b)
               after == D(b + 1)
    <2>4. before \in Nat /\ after \in Nat /\ ticks \in Nat /\ after = before + ticks /\ ~(after < x)
      BY <1>5, <2>2, <2>3
    <2>5. rest = x - before
      OBVIOUS
    <2> HIDE DEF ticks, before, after, rest, x
    <2>6. ticks - rest = after - x /\ after - x \in Nat
      BY <1>2, <2>4, <2>5
    <2> QED
      BY <2>1, <2>6 DEF ticks, after
  <1>7. placed \in Node /\ placed.timer = node.timer /\ placed.ticks_to_expire = rest
    BY <1>5 DEF Node
  <1>8. /\ behind \in Seq(Node) /\ Len(behind) = n
        /\ \A i \in 1 .. n : /\ behind[i].timer = list[i].timer
                             /\ i # b + 1 => behind[i] = list[i]
                             /\ i = b + 1 => behind[i].ticks_to_expire = D(b + 1) - x
    <2>1. CASE b = n
      BY <2>1, <1>2, <1>3
    <2>2. CASE b # n
      <3> DEFINE late == [list[b + 1] EXCEPT !.ticks_to_expire = @ - rest]
      <3>1. b + 1 \in 1 .. n /\ list[b + 1] \in Node
            /\ list[b + 1].ticks_to_expire - rest = D(b + 1) - x /\ D(b + 1) - x \in Nat
        BY <1>4, <1>6, <2>2
      <3>2. late \in Node /\ late.timer = list[b + 1].timer /\ late.ticks_to_expire = D(b + 1) - x
        BY <3>1 DEF Node
      <3>3. behind = [list EXCEPT ![b + 1] = late]
        BY <2>2
      <3> HIDE DEF late, behind
      <3> QED
        BY <1>2, <3>1, <3>2, <3>3
    <2> QED
      BY <2>1, <2>2
  <1> HIDE DEF behind, placed, rest
  <1>9. /\ new \in Seq(Node) /\ Len(new) = n + 1
        /\ \A i \in 1 .. b : new[i] = behind[i]
        /\ new[b + 1] = placed
        /\ \A i \in b + 2 .. n + 1 : new[i] = behind[i - 1]
    <2> DEFINE p == SubSeq(behind, 1, b)
               q == SubSeq(behind, b + 1, n)
    <2>1. /\ p \in Seq(Node) /\ Len(p) = b /\ \A i \in 1 .. b : p[i] = behind[i]
      BY <1>2, <1>3, <1>8
    <2>2. /\ q \in Seq(Node) /\ Len(q) = n - b /\ \A i \in 1 .. n - b : q[i] = behind[b + i]
      BY <1>2, <1>3, <1>8
    <2>3. new = p \o <<placed>> \o q
      <3>1. (b + 1) - 1 = b /\ Len(behind) = n
        BY <1>3, <1>8
      <3> QED
        BY <3>1 DEF InsertAt
    <2> HIDE DEF p, q, new
    <2>4. new \in Seq(Node) /\ Len(new) = n + 1
      BY <2>1, <2>2, <2>3, <1>7, <1>2, <1>3
    <2>5. \A i \in 1 .. b : new[i] = p[i]
      BY <2>1, <2>2, <2>3, <1>7, <1>2, <1>3
    <2>6. new[b + 1] = placed
      BY <2>1, <2>2, <2>3, <1>7, <1>2, <1>3
    <2>7. \A i \in b + 2 .. n + 1 : new[i] = q[i - (b + 1)]
      BY <2>1, <2>2, <2>3, <1>7, <1>2, <1>3
    <2>8. \A i \in b + 2 .. n + 1 : i - (b + 1) \in 1 .. n - b /\ b + (i - (b + 1)) = i - 1
      BY <1>2, <1>3
    <2> QED
      BY <2>1, <2>2, <2>4, <2>5, <2>6, <2>7, <2>8
  <1> HIDE DEF new, D
  <1> DEFINE f == [i \in 0 .. n + 1 |-> IF i <= b THEN D(i) ELSE IF i = b + 1 THEN x ELSE D(i - 1)]
  <1>10. f \in DueUpTo(new, n + 1)
    <2>1. f \in [0 .. n + 1 -> Nat]
      BY <1>2, <1>3, <1>4
    <2>2. f[0] = 0
      BY <1>2, <1>3, <1>4
    <2>3. ASSUME NEW i \in 1 .. n + 1 PROVE f[i] = f[i - 1] + new[i].ticks_to_expire
      <3>1. CASE i <= b
        <4>1. i \in 1 .. b /\ i \in 1 .. n /\ i # b + 1 /\ i - 1 <= b /\ i - 1 \in 0 .. n + 1 /\ i \in 0 .. n + 1
          BY <3>1, <1>2, <1>3
        <4>2. f[i] = D(i) /\ f[i - 1] = D(i - 1) /\ new[i] = list[i]
          BY <3>1, <4>1, <1>8, <1>9
        <4> QED
          BY <4>1, <4>2, <1>4
      <3>2. CASE i = b + 1
        <4>1. f[i] = x /\ f[i - 1] = D(b) /\ new[i].ticks_to_expire = rest
          BY <3>2, <1>2, <1>3, <1>7, <1>9
        <4> QED
          BY <4>1, <1>2, <1>5 DEF rest, D
      <3>3. CASE i = b + 2
        <4>1. i - 1 = b + 1 /\ i \in b + 2 .. n + 1 /\ b + 1 \in 1 .. n /\ b # n /\ i \in 0 .. n + 1
              /\ i - 1 \in 0 .. n + 1
          BY <3>3, <1>2, <1>3
        <4>2. f[i] = D(b + 1) /\ f[i - 1] = x
          BY <3>3, <4>1, <1>2, <1>3
        <4>3. new[i].ticks_to_expire = D(b + 1) - x
          BY <4>1, <1>8, <1>9
        <4>4. D(b + 1) \in Nat
          BY <4>1, <1>4
        <4> QED
          BY <4>2, <4>3, <4>4, <1>2
      <3>4. CASE i > b + 2
        <4>1. i \in b + 2 .. n + 1 /\ i - 1 \in 1 .. n /\ i - 1 # b + 1 /\ i \in 0 .. n + 1
              /\ i - 1 \in 0 .. n + 1 /\ ~(i <= b) /\ i # b + 1 /\ ~(i - 1 <= b)
          BY <3>4, <1>2, <1>3
        <4>2. f[i] = D(i - 1) /\ f[i - 1] = D((i - 1) - 1)
          BY <4>1
        <4>3. new[i] = list[i - 1]
          BY <4>1, <1>8, <1>9
        <4> QED
          BY <4>1, <4>2, <4>3, <1>4
      <3> QED
        BY <3>1, <3>2, <3>3, <3>4, <1>2, <1>3
    <2> HIDE DEF f
    <2> QED
      BY <2>1, <2>2, <2>3 DEF DueUpTo
  <1>11. \A i \in 1 .. n + 1 : Due(new, i) = f[i]
    <2> HIDE DEF f
    <2> QED
      BY <1>2, <1>10, DueOnly
  <1>12. /\ \A i \in 1 .. b : new[i].timer = list[i].timer
         /\ new[b + 1].timer = node.timer
         /\ \A i \in b + 2 .. n + 1 : new[i].timer = list[i - 1].timer
    <2>1. \A i \in 1 .. b : i \in 1 .. n
      BY <1>3
    <2>2. \A i \in b + 2 .. n + 1 : i - 1 \in 1 .. n
      BY <1>2, <1>3
    <2> QED
      BY <1>7, <1>8, <1>9, <2>1, <2>2
  <1>13. \A i \in 1 .. n : Due(list, i) = g[list[i].timer]
    BY DEF ListOf
  <1>14. \A i \in 1 .. n + 1 : Due(new, i) = g[new[i].timer]
    <2> SUFFICES ASSUME NEW i \in 1 .. n + 1 PROVE f[i] = g[new[i].timer]
      BY <1>11
    <2>1. CASE i <= b
      <3>1. i \in 1 .. b /\ i \in 1 .. n /\ f[i] = D(i)
        BY <2>1, <1>2, <1>3
      <3> QED
        BY <3>1, <1>12, <1>13 DEF D
    <2>2. CASE i = b + 1
      BY <2>2, <1>12, <1>2, <1>3
    <2>3. CASE i > b + 1
      <3>1. i \in b + 2 .. n + 1 /\ i - 1 \in 1 .. n /\ f[i] = D(i - 1)
        BY <2>3, <1>2, <1>3
      <3> QED
        BY <3>1, <1>12, <1>13 DEF D
    <2> QED
      BY <2>1, <2>2, <2>3, <1>2, <1>3
  <1>15. \A i \in 1 .. n : list[i].timer # node.timer
    BY <1>2 DEF TimersIn
  <1>16. ASSUME NEW i \in 1 .. n + 1, NEW j \in 1 .. n + 1, new[i].timer = new[j].timer
         PROVE  i = j
    <2>1. \A k \in 1 .. n + 1 : \/ k \in 1 .. b /\ k \in 1 .. n
                                \/ k = b + 1
                                \/ k \in b + 2 .. n + 1 /\ k - 1 \in 1 .. n
      BY <1>2, <1>3
    <2>2. \A k, l \in 1 .. n : list[k].timer = list[l].timer => k = l
      BY DEF ListOf
    <2> HIDE DEF n
    <2>3. CASE i = b + 1 \/ j = b + 1
      BY <2>1, <2>3, <1>12, <1>15, <1>16
    <2>4. CASE i \in 1 .. b /\ i \in 1 .. n
      <3>1. CASE j \in 1 .. b /\ j \in 1 .. n
        BY <2>2, <2>4, <3>1, <1>12, <1>16
      <3>2. CASE j \in b + 2 .. n + 1 /\ j - 1 \in 1 .. n
        <4>1. i = j - 1
          BY <2>2, <2>4, <3>2, <1>12, <1>16
        <4> QED
          BY <4>1, <2>4, <3>2, <1>3
      <3> QED
        BY <2>1, <2>3, <3>1, <3>2
    <2>5. CASE i \in b + 2 .. n + 1 /\ i - 1 \in 1 .. n
      <3>1. CASE j \in 1 .. b /\ j \in 1 .. n
        <4>1. j = i - 1
          BY <2>2, <2>5, <3>1, <1>12, <1>16
        <4> QED
          BY <4>1, <2>5, <3>1, <1>3
      <3>2. CASE j \in b + 2 .. n + 1 /\ j - 1 \in 1 .. n
        <4>1. i - 1 = j - 1
          BY <2>2, <2>5, <3>2, <1>12, <1>16
        <4> QED
          BY <4>1, <2>5, <3>2
      <3> QED
        BY <2>1, <2>3, <3>1, <3>2
    <2> QED
      BY <2>1, <2>3, <2>4, <2>5
  <1>17. ListOf(new, g)
    BY <1>9, <1>14, <1>16 DEF ListOf
  <1>18. TimersIn(new) = TimersIn(list) \cup {node.timer}
    <2>1. DOMAIN new = 1 .. n + 1 /\ DOMAIN list = 1 .. n
      BY <1>2, <1>9
    <2>2. ASSUME NEW i \in 1 .. n + 1
          PROVE  new[i].timer = node.timer \/ \E j \in 1 .. n : new[i].timer = list[j].timer
      <3>1. \/ i \in 1 .. b /\ i \in 1 .. n
            \/ i = b + 1
            \/ i \in b + 2 .. n + 1 /\ i - 1 \in 1 .. n
        BY <1>2, <1>3
      <3> QED
        BY <3>1, <1>12
    <2>3. ASSUME NEW i \in 1 .. n PROVE \E j \in 1 .. n + 1 : new[j].timer = list[i].timer
      <3>1. CASE i <= b
        <4>1. i \in 1 .. b /\ i \in 1 .. n + 1
          BY <3>1, <1>2, <1>3
        <4> QED
          BY <4>1, <1>12
      <3>2. CASE i > b
        <4>1. i + 1 \in b + 2 .. n + 1 /\ i + 1 \in 1 .. n + 1 /\ (i + 1) - 1 = i
          BY <3>2, <1>2, <1>3
        <4> QED
          BY <4>1, <1>12
      <3> QED
        BY <3>1, <3>2, <1>3
    <2>4. b + 1 \in 1 .. n + 1
      BY <1>2, <1>3
    <2>5. TimersIn(new) = {new[i].timer : i \in 1 .. n + 1}
      BY <2>1 DEF TimersIn
    <2>6. TimersIn(list) = {list[i].timer : i \in 1 .. n}
      BY <2>1 DEF TimersIn
    <2>7. new[b + 1].timer = node.timer
      BY <1>12
    <2> HIDE DEF n, x, D, f
    <2>8. ASSUME NEW t \in TimersIn(new) PROVE t \in TimersIn(list) \cup {node.timer}
      <3>1. PICK i \in 1 .. n + 1 : t = new[i].timer
        BY <2>5
      <3> QED
        BY <3>1, <2>2, <2>6
    <2>9. ASSUME NEW t \in TimersIn(list) \cup {node.timer} PROVE t \in TimersIn(new)
      <3>1. CASE t = node.timer
        BY <3>1, <2>4, <2>5, <2>7
      <3>2. CASE t \in TimersIn(list)
        <4>1. PICK i \in 1 .. n : t = list[i].timer
          BY <3>2, <2>6
        <4> QED
          BY <4>1, <2>3, <2>5
      <3> QED
        BY <3>1, <3>2
    <2> QED
      BY <2>8, <2>9
  <1>19. new[1].timer = node.timer \/ (list # <<>> /\ new[1].timer = list[1].timer)
    <2>1. CASE b = 0
      BY <2>1, <1>12
    <2>2. CASE b # 0
      <3>1. 1 \in 1 .. b /\ n # 0
        BY <2>2, <1>2, <1>3
      <3> QED
        BY <3>1, <1>2, <1>12
    <2> QED
      BY <2>1, <2>2
  <1> QED
    BY <1>1, <1>17, <1>18, <1>19

(* The entry that list_insertions_handler makes for an operation.            *)
NodeOf(start, latest) ==
    [timer |-> start.timer,
     ticks_to_expire |-> ToExpire(start.at_start, Interval[start.timer], latest)]

(* f holds the lists after each of the first n operations.                   *)
Builds(f, n, list, starts, latest) ==
    /\ f = [i \in 0 .. n |-> f[i]]
    /\ f[0] = list
    /\ \A i \in 1 .. n : f[i] = Inserted(f[i - 1], NodeOf(starts[i], latest))

(* The lists after each of the operations exist, however many there are.     *)
LEMMA BuildExists ==
    ASSUME NEW list, NEW starts, NEW latest, NEW n \in Nat
    PROVE  \E f : Builds(f, n, list, starts, latest)
  <1> DEFINE T == {m \in Nat : \E f : Builds(f, m, list, starts, latest)}
  <1>1. 0 \in T
    <2> DEFINE f == [i \in 0 .. 0 |-> list]
    <2>1. f = [i \in 0 .. 0 |-> f[i]] /\ f[0] = list
      OBVIOUS
    <2> HIDE DEF f
    <2>2. Builds(f, 0, list, starts, latest)
      BY <2>1 DEF Builds
    <2> QED
      BY <2>2
  <1>2. ASSUME NEW m \in Nat, m \in T PROVE m + 1 \in T
    <2>1. PICK f : Builds(f, m, list, starts, latest)
      BY <1>2
    <2> DEFINE x == Inserted(f[m], NodeOf(starts[m + 1], latest))
               h == [i \in 0 .. m + 1 |-> IF i = m + 1 THEN x ELSE f[i]]
    <2>2. h = [i \in 0 .. m + 1 |-> h[i]]
      OBVIOUS
    <2>3. h[0] = list
      BY <2>1 DEF Builds
    <2>4. \A i \in 1 .. m + 1 : h[i] = Inserted(h[i - 1], NodeOf(starts[i], latest))
      <3> SUFFICES ASSUME NEW i \in 1 .. m + 1
                   PROVE  h[i] = Inserted(h[i - 1], NodeOf(starts[i], latest))
        OBVIOUS
      <3>1. CASE i = m + 1
        <4>1. h[i] = x /\ h[i - 1] = f[m]
          BY <3>1
        <4> QED
          BY <3>1, <4>1
      <3>2. CASE i # m + 1
        <4>1. i \in 1 .. m /\ h[i] = f[i] /\ h[i - 1] = f[i - 1]
          BY <3>2
        <4> HIDE DEF h
        <4> QED
          BY <2>1, <4>1 DEF Builds
      <3> QED
        BY <3>1, <3>2
    <2> HIDE DEF h
    <2>5. Builds(h, m + 1, list, starts, latest)
      BY <2>2, <2>3, <2>4 DEF Builds
    <2> QED
      BY <2>5
  <1>3. \A m \in Nat : m \in T
    <2> HIDE DEF T
    <2> QED
      BY <1>1, <1>2, UpFromZero
  <1> QED
    BY <1>3

(* Inserting several timers adds each to the schedule and disturbs none.     *)
LEMMA InsertAllIs ==
    ASSUME NEW list, NEW starts, Len(starts) \in Nat, NEW latest
    PROVE  \E f : /\ Builds(f, Len(starts), list, starts, latest)
                  /\ InsertAll(list, starts, latest) = f[Len(starts)]
  <1> DEFINE n == Len(starts)
             R(g) == [i \in 0 .. n |-> IF i = 0 THEN list
                                       ELSE Inserted(g[i - 1], NodeOf(starts[i], latest))]
             with == CHOOSE g : g = R(g)
  <1>1. PICK f : Builds(f, n, list, starts, latest)
    BY BuildExists
  <1>2. f = R(f)
    <2> DEFINE r == R(f)
               copy == [i \in 0 .. n |-> f[i]]
    <2>1. \A i \in 0 .. n : f[i] = r[i]
      BY <1>1 DEF Builds
    <2>2. f = copy
      BY <1>1 DEF Builds
    <2>3. r = [i \in 0 .. n |-> r[i]]
      OBVIOUS
    <2>4. copy = [i \in 0 .. n |-> r[i]]
      <3> HIDE DEF r
      <3> QED
        BY <2>1
    <2> HIDE DEF r, copy
    <2> QED
      BY <2>2, <2>3, <2>4 DEF r
  <1>3. with = R(with)
    <2> HIDE DEF R
    <2> QED
      BY <1>2
  <1>4. InsertAll(list, starts, latest) = with[n]
    BY DEF InsertAll, NodeOf
  <1> HIDE DEF with
  <1>5. with[0] = list /\ \A i \in 1 .. n : with[i] = Inserted(with[i - 1], NodeOf(starts[i], latest))
    <2> DEFINE r == R(with)
    <2>1. r[0] = list /\ \A i \in 1 .. n : r[i] = Inserted(with[i - 1], NodeOf(starts[i], latest))
      OBVIOUS
    <2>2. with = r
      BY <1>3
    <2> HIDE DEF r
    <2> QED
      BY <2>1, <2>2
  <1>6. with = [i \in 0 .. n |-> with[i]]
    <2> DEFINE r == R(with)
    <2>1. r = [i \in 0 .. n |-> r[i]]
      OBVIOUS
    <2>2. with = r
      BY <1>3
    <2> HIDE DEF r
    <2> QED
      BY <2>1, <2>2
  <1>7. Builds(with, n, list, starts, latest)
    BY <1>5, <1>6 DEF Builds
  <1> QED
    BY <1>4, <1>7

(* Timers that are started are put where the schedule says.                  *)
LEMMA InsertAllOf ==
    ASSUME NEW list, NEW g, ListOf(list, g), NEW latest,
           NEW starts \in Seq(Op),
           \A i, j \in 1 .. Len(starts) : starts[i].timer = starts[j].timer => i = j,
           \A i \in 1 .. Len(starts) : /\ starts[i].timer \notin TimersIn(list)
                                       /\ NodeOf(starts[i], latest) \in Node
                                       /\ g[starts[i].timer] = NodeOf(starts[i], latest).ticks_to_expire
    PROVE  /\ ListOf(InsertAll(list, starts, latest), g)
           /\ TimersIn(InsertAll(list, starts, latest)) = TimersIn(list) \cup StartedBy(starts)
           /\ Len(starts) = 1 =>
                \/ InsertAll(list, starts, latest)[1].timer = starts[1].timer
                \/ list # <<>> /\ InsertAll(list, starts, latest)[1].timer = list[1].timer
  <1> DEFINE n == Len(starts)
             First(i) == {starts[j].timer : j \in 1 .. i}
  <1>1. n \in Nat
    OBVIOUS
  <1>2. PICK f : Builds(f, n, list, starts, latest) /\ InsertAll(list, starts, latest) = f[n]
    BY <1>1, InsertAllIs
  <1> DEFINE T == {i \in Nat : i <= n => /\ ListOf(f[i], g)
                                         /\ TimersIn(f[i]) = TimersIn(list) \cup First(i)}
  <1>3. 0 \in T
    <2>1. f[0] = list /\ First(0) = {}
      BY <1>2 DEF Builds
    <2> QED
      BY <2>1
  <1>4. ASSUME NEW i \in Nat, i \in T PROVE i + 1 \in T
    <2> SUFFICES ASSUME i + 1 <= n
                 PROVE  /\ ListOf(f[i + 1], g)
                        /\ TimersIn(f[i + 1]) = TimersIn(list) \cup First(i + 1)
      OBVIOUS
    <2> DEFINE node == NodeOf(starts[i + 1], latest)
    <2>1. i + 1 \in 1 .. n /\ (i + 1) - 1 = i /\ i <= n
      BY <1>1
    <2>2. f[i + 1] = Inserted(f[i], node)
      BY <1>2, <2>1 DEF Builds
    <2>3. ListOf(f[i], g) /\ TimersIn(f[i]) = TimersIn(list) \cup First(i)
      BY <1>4, <2>1
    <2>4. node \in Node /\ node.timer = starts[i + 1].timer /\ g[node.timer] = node.ticks_to_expire
      BY <2>1 DEF NodeOf
    <2>5. node.timer \notin TimersIn(f[i])
      <3>1. ASSUME NEW j \in 1 .. i PROVE starts[j].timer # starts[i + 1].timer
        <4>1. j \in 1 .. n /\ j # i + 1
          BY <1>1, <2>1
        <4> QED
          BY <2>1, <4>1
      <3> QED
        BY <2>1, <2>3, <2>4, <3>1
    <2>6. First(i + 1) = First(i) \cup {starts[i + 1].timer}
      <3>1. 1 .. i + 1 = (1 .. i) \cup {i + 1}
        OBVIOUS
      <3> QED
        BY <3>1
    <2> HIDE DEF node, First
    <2>7. /\ ListOf(Inserted(f[i], node), g)
          /\ TimersIn(Inserted(f[i], node)) = TimersIn(f[i]) \cup {node.timer}
      BY <2>3, <2>4, <2>5, InsertedOf
    <2> QED
      BY <2>2, <2>3, <2>4, <2>6, <2>7
  <1>5. \A i \in Nat : i \in T
    <2> HIDE DEF T
    <2> QED
      BY <1>3, <1>4, UpFromZero
  <1>6. ListOf(f[n], g) /\ TimersIn(f[n]) = TimersIn(list) \cup First(n)
    BY <1>1, <1>5
  <1>7. First(n) = StartedBy(starts)
    BY DEF StartedBy
  <1>8. ASSUME n = 1 PROVE f[n][1].timer = starts[1].timer \/ (list # <<>> /\ f[n][1].timer = list[1].timer)
    <2> DEFINE node == NodeOf(starts[1], latest)
    <2>1. 1 \in 1 .. n /\ 1 - 1 = 0
      BY <1>8
    <2>2. f[1] = Inserted(list, node)
      BY <1>2, <2>1 DEF Builds
    <2>3. node \in Node /\ node.timer = starts[1].timer /\ g[node.timer] = node.ticks_to_expire
          /\ node.timer \notin TimersIn(list)
      BY <2>1 DEF NodeOf
    <2> HIDE DEF node
    <2>4. \/ Inserted(list, node)[1].timer = node.timer
          \/ list # <<>> /\ Inserted(list, node)[1].timer = list[1].timer
      BY <2>3, InsertedOf
    <2> QED
      BY <1>8, <2>2, <2>3, <2>4
  <1> QED
    BY <1>2, <1>6, <1>7, <1>8

(* What is left of a list when its first timers have left it.                *)
LEMMA RestOf ==
    ASSUME NEW list, NEW g, ListOf(list, g), NEW k \in 0 .. Len(list), NEW h,
           \A i \in k + 1 .. Len(list) : h[list[i].timer] = Due(list, i) - Due(list, k)
    PROVE  /\ ListOf(SubSeq(list, k + 1, Len(list)), h)
           /\ TimersIn(SubSeq(list, k + 1, Len(list))) = {list[i].timer : i \in k + 1 .. Len(list)}
           /\ Len(SubSeq(list, k + 1, Len(list))) = Len(list) - k
           /\ k < Len(list) => SubSeq(list, k + 1, Len(list))[1] = list[k + 1]
  <1> DEFINE n == Len(list)
             rest == SubSeq(list, k + 1, n)
             f == [j \in 0 .. n - k |-> Due(list, k + j) - Due(list, k)]
  <1>1. list \in Seq(Node) /\ n \in Nat
    BY DEF ListOf
  <1>2. rest \in Seq(Node) /\ Len(rest) = n - k /\ \A j \in 1 .. n - k : rest[j] = list[k + j]
    BY <1>1
  <1>3. \A j \in 1 .. n - k : k + j \in k + 1 .. n /\ k + j \in 1 .. n /\ k + j \in 0 .. n
    BY <1>1
  <1>4. f \in DueUpTo(rest, n - k)
    <2>1. ASSUME NEW j \in 0 .. n - k PROVE Due(list, k + j) - Due(list, k) \in Nat
      <3>1. k + j \in k .. n /\ k + j \in 0 .. n
        BY <1>1
      <3>2. Due(list, k) <= Due(list, k + j) /\ Due(list, k) \in Nat /\ Due(list, k + j) \in Nat
        BY <1>1, <3>1, DueInOrder, DueIs
      <3> QED
        BY <3>2
    <2>2. f \in [0 .. n - k -> Nat]
      BY <2>1
    <2>3. f[0] = 0
      <3>1. Due(list, k) \in Nat
        BY <1>1, DueIs
      <3> QED
        BY <1>1, <3>1
    <2>4. ASSUME NEW j \in 1 .. n - k PROVE f[j] = f[j - 1] + rest[j].ticks_to_expire
      <3>1. k + j \in 1 .. n /\ (k + j) - 1 = k + (j - 1) /\ k + (j - 1) \in 0 .. n /\ k + j \in 0 .. n
        BY <1>1, <1>3
      <3>2. Due(list, k + j) = Due(list, k + (j - 1)) + list[k + j].ticks_to_expire
        BY <1>1, <3>1, DueIs
      <3>3. Due(list, k) \in Nat /\ Due(list, k + j) \in Nat /\ Due(list, k + (j - 1)) \in Nat
            /\ list[k + j] \in Node
        BY <1>1, <3>1, DueIs
      <3>4. f[j] = Due(list, k + j) - Due(list, k) /\ f[j - 1] = Due(list, k + (j - 1)) - Due(list, k)
        BY <1>1
      <3>5. rest[j].ticks_to_expire = list[k + j].ticks_to_expire /\ list[k + j].ticks_to_expire \in Nat
        BY <1>2, <3>3 DEF Node
      <3> QED
        BY <3>2, <3>3, <3>4, <3>5
    <2> HIDE DEF f
    <2> QED
      BY <2>2, <2>3, <2>4 DEF DueUpTo
  <1>5. \A j \in 1 .. n - k : Due(rest, j) = f[j]
    <2>1. n - k \in Nat /\ \A j \in 1 .. n - k : j \in 0 .. n - k
      BY <1>1
    <2> HIDE DEF f, rest
    <2> QED
      BY <1>4, <2>1, DueOnly
  <1>6. \A j \in 1 .. n - k : Due(rest, j) = h[rest[j].timer]
    <2> SUFFICES ASSUME NEW j \in 1 .. n - k PROVE Due(rest, j) = h[rest[j].timer]
      OBVIOUS
    <2>1. j \in 0 .. n - k /\ k + j \in k + 1 .. n
      BY <1>1, <1>3
    <2>2. f[j] = Due(list, k + j) - Due(list, k)
      BY <2>1
    <2>3. h[list[k + j].timer] = Due(list, k + j) - Due(list, k)
      BY <2>1
    <2> HIDE DEF f, rest
    <2> QED
      BY <1>2, <1>5, <2>2, <2>3
  <1>7. \A i, j \in 1 .. n - k : rest[i].timer = rest[j].timer => i = j
    <2> SUFFICES ASSUME NEW i \in 1 .. n - k, NEW j \in 1 .. n - k, rest[i].timer = rest[j].timer
                 PROVE  i = j
      OBVIOUS
    <2>1. k + i = k + j
      BY <1>2, <1>3 DEF ListOf
    <2> QED
      BY <1>1, <2>1
  <1>8. ListOf(rest, h)
    BY <1>2, <1>6, <1>7 DEF ListOf
  <1>9. TimersIn(rest) = {list[i].timer : i \in k + 1 .. n}
    <2>1. DOMAIN rest = 1 .. n - k
      BY <1>2
    <2>2. \A i \in k + 1 .. n : i - k \in 1 .. n - k /\ k + (i - k) = i
      BY <1>1
    <2> HIDE DEF rest, n
    <2> QED
      BY <1>2, <1>3, <2>1, <2>2 DEF TimersIn
  <1> QED
    BY <1>1, <1>2, <1>8, <1>9

-----------------------------------------------------------------------------
(* The counter, which goes round *)

(* What goes round the counter once has one range taken off.                 *)
LEMMA WrapIs ==
    ASSUME NEW x \in 0 .. 2 * CounterRange - 1
    PROVE  x % CounterRange = IF x < CounterRange THEN x ELSE x - CounterRange
  <1>1. \A n \in Nat \ {0} : \A y \in 0 .. n - 1 : y % n = y /\ (y + n) % n = y
    OBVIOUS
  <1>2. CounterRange \in Nat \ {0}
    BY Constants
  <1>3. CASE x < CounterRange
    <2>1. x \in 0 .. CounterRange - 1
      BY <1>2, <1>3
    <2> QED
      BY <1>1, <1>2, <1>3, <2>1
  <1>4. CASE ~(x < CounterRange)
    <2>1. x - CounterRange \in 0 .. CounterRange - 1 /\ (x - CounterRange) + CounterRange = x
      BY <1>2, <1>4
    <2> QED
      BY <1>1, <1>2, <1>4, <2>1
  <1> QED
    BY <1>3, <1>4

(* The difference of two values of the counter, which may have gone round.   *)
LEMMA DiffIs ==
    ASSUME NEW a \in Ticks, NEW b \in Ticks
    PROVE  /\ Diff(a, b) = IF a >= b THEN a - b ELSE a - b + CounterRange
           /\ Diff(a, b) \in 0 .. CounterRange - 1 /\ Diff(a, b) \in Nat
           /\ Diff(a, b) = 0 <=> a = b
  <1>1. /\ a \in Nat /\ b \in Nat /\ CounterRange \in Nat
        /\ a < CounterRange /\ b < CounterRange
        /\ a - b + CounterRange \in 0 .. 2 * CounterRange - 1
    BY Constants DEF Ticks
  <1>2. Diff(a, b) = IF a - b + CounterRange < CounterRange THEN a - b + CounterRange
                     ELSE a - b + CounterRange - CounterRange
    BY <1>1, WrapIs DEF Diff
  <1> QED
    BY <1>1, <1>2

(* From c to b and on to a.                                                  *)
LEMMA Triangle ==
    ASSUME NEW a \in Ticks, NEW b \in Ticks, NEW c \in Ticks
    PROVE  /\ Diff(a, b) + Diff(b, c) < CounterRange => Diff(a, c) = Diff(a, b) + Diff(b, c)
           /\ Diff(a, b) + Diff(b, c) >= CounterRange =>
                Diff(a, c) = Diff(a, b) + Diff(b, c) - CounterRange
           /\ Diff(b, c) <= Diff(a, c) => Diff(a, b) = Diff(a, c) - Diff(b, c)
           /\ Diff(a, b) <= Diff(a, c) => Diff(b, c) = Diff(a, c) - Diff(a, b)
           /\ Diff(a, c) < Diff(b, c) => Diff(a, b) = Diff(a, c) - Diff(b, c) + CounterRange
           /\ Diff(a, c) < Diff(b, c) => Diff(b, a) = Diff(b, c) - Diff(a, c)
           /\ Diff(a, c) < Diff(a, b) => Diff(c, b) = Diff(a, b) - Diff(a, c)
  <1>1. /\ a \in Nat /\ b \in Nat /\ c \in Nat /\ CounterRange \in Nat
        /\ a < CounterRange /\ b < CounterRange /\ c < CounterRange
    BY Constants DEF Ticks
  <1>2. /\ Diff(a, b) = IF a >= b THEN a - b ELSE a - b + CounterRange
        /\ Diff(a, c) = IF a >= c THEN a - c ELSE a - c + CounterRange
        /\ Diff(b, c) = IF b >= c THEN b - c ELSE b - c + CounterRange
        /\ Diff(b, a) = IF b >= a THEN b - a ELSE b - a + CounterRange
        /\ Diff(c, b) = IF c >= b THEN c - b ELSE c - b + CounterRange
    BY DiffIs
  <1> QED
    BY <1>1, <1>2

(* Diff of a later value of the counter is the ticks gone by.                *)
LEMMA Advanced ==
    ASSUME NEW x \in Ticks, NEW k \in 0 .. CounterRange - 1
    PROVE  /\ (x + k) % CounterRange \in Ticks
           /\ Diff((x + k) % CounterRange, x) = k
  <1>1. /\ x \in Nat /\ CounterRange \in Nat /\ x < CounterRange
        /\ k \in Nat /\ k < CounterRange /\ x + k \in 0 .. 2 * CounterRange - 1
    BY Constants DEF Ticks
  <1> DEFINE y == (x + k) % CounterRange
  <1>2. y = IF x + k < CounterRange THEN x + k ELSE x + k - CounterRange
    BY <1>1, WrapIs
  <1> HIDE DEF y
  <1>3. y \in Ticks
    BY <1>1, <1>2 DEF Ticks
  <1>4. Diff(y, x) = IF y >= x THEN y - x ELSE y - x + CounterRange
    BY <1>3, DiffIs
  <1>5. Diff(y, x) = k
    BY <1>1, <1>2, <1>4
  <1> QED
    BY <1>3, <1>5 DEF y

(* The counter moves on by one.                                              *)
LEMMA NextTick ==
    ASSUME NEW c \in Ticks, NEW b \in Ticks, CounterRange >= 2
    PROVE  LET now == (c + 1) % CounterRange
           IN  /\ now \in Ticks
               /\ Diff(c, b) + 1 < CounterRange => Diff(now, b) = Diff(c, b) + 1
               /\ Diff(b, c) >= 1 => Diff(b, now) = Diff(b, c) - 1
               /\ Diff(b, c) = 0 => Diff(b, now) = CounterRange - 1
               /\ b = now <=> Diff(b, c) = 1
  <1> DEFINE now == (c + 1) % CounterRange
  <1>1. 1 \in 0 .. CounterRange - 1 /\ CounterRange \in Nat
    BY Constants
  <1>2. now \in Ticks /\ Diff(now, c) = 1
    BY <1>1, Advanced
  <1> HIDE DEF now
  <1>3. /\ Diff(c, b) \in Nat /\ Diff(b, c) \in Nat /\ Diff(b, now) \in Nat
        /\ Diff(b, now) = 0 <=> b = now
        /\ Diff(b, c) = 0 <=> b = c
        /\ Diff(now, now) = 0
    BY <1>2, DiffIs
  <1>4. Diff(now, c) + Diff(c, b) < CounterRange => Diff(now, b) = Diff(now, c) + Diff(c, b)
    BY <1>2, Triangle
  <1>5. Diff(now, c) <= Diff(b, c) => Diff(b, now) = Diff(b, c) - Diff(now, c)
    BY <1>2, Triangle
  <1>6. Diff(b, c) < Diff(now, c) => Diff(b, now) = Diff(b, c) - Diff(now, c) + CounterRange
    BY <1>2, Triangle
  <1> QED
    BY <1>1, <1>2, <1>3, <1>4, <1>5, <1>6 DEF now

(* A timer that was started, or was due, some ticks ago.                     *)
LEMMA ToExpireIs ==
    ASSUME NEW now \in Ticks, NEW latest \in Ticks, NEW at \in Ticks, NEW interval \in Nat,
           (CounterRange - 1) \div 2 \in Int,
           2 * ((CounterRange - 1) \div 2) <= CounterRange - 1,
           Diff(now, latest) < (CounterRange - 1) \div 2,
           Diff(now, at) <= (CounterRange - 1) \div 2,
           interval > Diff(now, at) - Diff(now, latest)
    PROVE  /\ ToExpire(at, interval, latest) = Diff(now, latest) - Diff(now, at) + interval
           /\ ToExpire(at, interval, latest) \in Nat
  <1> DEFINE half == (CounterRange - 1) \div 2
             e == Diff(now, latest)
             a == Diff(now, at)
  <1>1. /\ half \in Int /\ 2 * half <= CounterRange - 1 /\ CounterRange \in Nat
        /\ e \in Nat /\ a \in Nat /\ e < half /\ a <= half /\ interval > a - e
    BY Constants, DiffIs
  <1>2. CASE a <= e
    <2>1. Diff(at, latest) = e - a
      BY <1>2, Triangle
    <2>2. Diff(at, latest) < half
      <3> HIDE DEF half, e, a
      <3> QED
        BY <1>1, <1>2, <2>1
    <2>3. ToExpire(at, interval, latest) = (e - a) + interval
      BY <2>1, <2>2 DEF ToExpire
    <2> HIDE DEF e, a
    <2>4. (e - a) + interval = e - a + interval /\ (e - a) + interval \in Nat
      BY <1>1, <1>2
    <2> QED
      BY <2>3, <2>4 DEF e, a
  <1>3. CASE ~(a <= e)
    <2>1. e < a
      <3> HIDE DEF e, a
      <3> QED
        BY <1>1, <1>3
    <2>2. Diff(latest, at) = a - e
      BY <2>1, Triangle
    <2>3. /\ Diff(at, latest) = IF at >= latest THEN at - latest ELSE at - latest + CounterRange
          /\ Diff(latest, at) = IF latest >= at THEN latest - at ELSE latest - at + CounterRange
          /\ at \in Nat /\ latest \in Nat
      BY DiffIs DEF Ticks
    <2>4. Diff(at, latest) = CounterRange - Diff(latest, at)
      <3>1. Diff(latest, at) # 0
        <4> HIDE DEF e, a
        <4> QED
          BY <2>1, <2>2, <1>1
      <3> QED
        BY <2>3, <3>1, Constants
    <2>5. ~(Diff(at, latest) < half) /\ interval > Diff(latest, at)
      <3> HIDE DEF half, e, a
      <3> QED
        BY <1>1, <2>1, <2>2, <2>4
    <2>6. ToExpire(at, interval, latest) = interval - Diff(latest, at)
      BY <2>5 DEF ToExpire
    <2> HIDE DEF e, a
    <2>7. interval - (a - e) = e - a + interval /\ interval - (a - e) \in Nat
      BY <1>1
    <2> QED
      BY <2>2, <2>6, <2>7 DEF e, a
  <1> QED
    BY <1>2, <1>3

-----------------------------------------------------------------------------
(* The inductive invariant *)

HalfTurn == (CounterRange - 1) \div 2

SinceLatest == Diff(rtc.counter, m_ticks_latest)
Ahead == Diff(rtc.cc, rtc.counter)
Behind == Diff(rtc.counter, rtc.cc)
Looked == Diff(rtc.counter, swi.pre)

Timers == TimersIn(timer_list)
First == timer_list[1].timer
Queue == {ops[i] : i \in DOMAIN ops}
Overdue == {timer_list[i].timer : i \in 1 .. Expired}

(* When every timer is due, from m_ticks_latest on: for one whose handler   *)
(* has run and that is still in the list, when it was due.                 *)
Schedule == [t \in Timer |-> SinceLatest + left[t] - IF t \in Overdue THEN Interval[t] ELSE 0]

TypeInv ==
    /\ rtc \in [counter : Ticks, cc : Ticks, missed : BOOLEAN, running : BOOLEAN, pending : BOOLEAN]
    /\ is_running \in [Timer -> BOOLEAN]
    /\ m_ticks_latest \in Ticks
    /\ m_ticks_elapsed \in Seq(Ticks) /\ Len(m_ticks_elapsed) <= 1
    /\ ops \in Seq(Op) /\ Len(ops) <= 1
    /\ swi \in [pending : BOOLEAN, at : {"idle", "write", "check"}, pre : Ticks]
    /\ thread \in Op \cup {NoOp}
    /\ lag \in 0 .. MaxLag
    /\ left \in [Timer -> Int]
    /\ \A t \in Timer : left[t] >= -(Late + 1) /\ left[t] <= Interval[t]

(* Every timer that was started is in one place.                             *)
Places ==
    /\ on = Timers \cup StartedBy(ops) \cup (IF thread = NoOp THEN {} ELSE {thread.timer})
    /\ Timers \cap StartedBy(ops) = {} /\ thread.timer \notin Timers
    /\ Queue # {} => thread = NoOp /\ swi.pending
    /\ \A t \in Timer : is_running[t] <=> t \in Timers \ Overdue

(* What is going on in one handler when the other one has work.              *)
Handling ==
    /\ HaveElapsed => swi.pending /\ ~rtc.pending /\ Elapsed = Due(timer_list, Expired)
    /\ swi.pending => swi.at = "idle" /\ (Queue # {} \/ HaveElapsed)
    /\ swi.at # "idle" => timer_list # <<>>
    /\ rtc.running <=> timer_list # <<>>
    /\ ~rtc.running => rtc = StoppedRtc /\ m_ticks_latest = 0 /\ ~HaveElapsed /\ lag = 0
    /\ rtc.missed => swi.at = "check" /\ Ahead = 1

OnSchedule ==
    /\ ListOf(timer_list, Schedule)
    /\ timer_list # <<>> => \E t \in Timer : timer_list[1].ticks_to_expire <= Interval[t]
    /\ HaveElapsed => /\ SinceLatest >= Elapsed + lag
                      /\ SinceLatest <= timer_list[1].ticks_to_expire + Late + lag

(* Operations are as old as their timers have run, and not old.              *)
Calls ==
    /\ \A op \in Queue :
        /\ Diff(rtc.counter, op.at_start) = Interval[op.timer] - left[op.timer]
        /\ Diff(rtc.counter, op.at_start) <= CallTicks + lag + IF HaveElapsed THEN MaxLag ELSE 0
    /\ thread # NoOp =>
        /\ Diff(rtc.counter, thread.at_start) = Interval[thread.timer] - left[thread.timer]
        /\ Diff(rtc.counter, thread.at_start) <= CallTicks

(* The interrupt will come: not before the first timer is due unless the    *)
(* counter was too close to it, and not much later.                        *)
Armed ==
    timer_list # <<>> /\ swi.at = "idle" /\ ~rtc.pending /\ ~HaveElapsed =>
        /\ Ahead >= 1 /\ left[First] <= Ahead
        /\ \A t \in Timers : Ahead <= left[t] + MaxLag + 2

(* It has come ...                                                           *)
Ringing ==
    timer_list # <<>> /\ swi.at = "idle" /\ rtc.pending =>
        /\ Behind <= lag
        /\ \A t \in Timers : left[t] >= MaxLag - Late - lag

(* ... and the handlers have run: no timer is due.                           *)
Queueing ==
    HaveElapsed => /\ Behind <= MaxLag + lag
                   /\ \A t \in Timers : left[t] >= 1 - lag

(* The counter since compare_reg_update has looked at it; the register still *)
(* has its old value, ...                                                   *)
Writing ==
    swi.at = "write" =>
        /\ Looked <= lag /\ Looked <= SinceLatest
        /\ \A t \in Timers : left[t] + Looked >= 1 - MaxLag
        /\ rtc.pending => Looked >= 1 /\ left[First] <= 0
        /\ ~rtc.pending => rtc.cc = rtc.counter \/ left[First] <= Ahead

(* ... or has the new one and may have met it.                               *)
Checking ==
    swi.at = "check" =>
        /\ Looked <= MaxLag + lag /\ Looked <= SinceLatest
        /\ \A t \in Timers : left[t] + Looked >= 1 - MaxLag
        /\ Diff(rtc.cc, swi.pre) = IF left[First] + Looked > 3 THEN left[First] + Looked ELSE 3
        /\ rtc.pending => TooClose

TimerInv ==
    /\ TypeInv /\ Places /\ Handling /\ OnSchedule /\ Calls
    /\ Armed /\ Ringing /\ Queueing /\ Writing /\ Checking

-----------------------------------------------------------------------------
(* What the invariant says *)

(* The types of the variables, field by field.                               *)
LEMMA Fields ==
    ASSUME TypeInv
    PROVE  /\ rtc.counter \in Ticks /\ rtc.cc \in Ticks /\ rtc.missed \in BOOLEAN
           /\ rtc.running \in BOOLEAN /\ rtc.pending \in BOOLEAN
           /\ swi.pending \in BOOLEAN /\ swi.at \in {"idle", "write", "check"} /\ swi.pre \in Ticks
           /\ m_ticks_latest \in Ticks /\ lag \in Nat /\ lag <= MaxLag
           /\ left \in [Timer -> Int] /\ is_running \in [Timer -> BOOLEAN]
           /\ SinceLatest \in Nat /\ Ahead \in Nat /\ Behind \in Nat /\ Looked \in Nat
  <1>1. /\ rtc.counter \in Ticks /\ rtc.cc \in Ticks /\ rtc.missed \in BOOLEAN
        /\ rtc.running \in BOOLEAN /\ rtc.pending \in BOOLEAN
    BY DEF TypeInv
  <1>2. swi.pending \in BOOLEAN /\ swi.at \in {"idle", "write", "check"} /\ swi.pre \in Ticks
    BY DEF TypeInv
  <1>3. /\ m_ticks_latest \in Ticks /\ lag \in Nat /\ lag <= MaxLag
        /\ left \in [Timer -> Int] /\ is_running \in [Timer -> BOOLEAN]
    BY Constants DEF TypeInv
  <1>4. SinceLatest \in Nat /\ Ahead \in Nat /\ Behind \in Nat /\ Looked \in Nat
    BY <1>1, <1>2, <1>3, DiffIs DEF SinceLatest, Ahead, Behind, Looked
  <1> QED
    BY <1>1, <1>2, <1>3, <1>4

(* A schedule that agrees with another one on the timers of a list.          *)
LEMMA SameSchedule ==
    ASSUME NEW list, NEW g, NEW h, ListOf(list, g), \A t \in TimersIn(list) : h[t] = g[t]
    PROVE  ListOf(list, h)
  <1>1. list \in Seq(Node)
    BY DEF ListOf
  <1>2. \A i \in 1 .. Len(list) : list[i].timer \in TimersIn(list)
    BY <1>1 DEF TimersIn
  <1> QED
    BY <1>2 DEF ListOf

(* The timers of a list.                                                     *)
LEMMA ListedTimers ==
    ASSUME NEW list \in Seq(Node)
    PROVE  /\ TimersIn(list) \subseteq Timer
           /\ list = <<>> => TimersIn(list) = {}
           /\ TimersIn(list) = {list[i].timer : i \in 1 .. Len(list)}
  <1>1. \A i \in DOMAIN list : list[i] \in Node
    OBVIOUS
  <1>2. TimersIn(list) \subseteq Timer
    BY <1>1 DEF TimersIn, Node
  <1>3. list = <<>> => TimersIn(list) = {}
    BY DEF TimersIn
  <1>4. DOMAIN list = 1 .. Len(list)
    OBVIOUS
  <1> QED
    BY <1>2, <1>3, <1>4 DEF TimersIn

(* The intervals fit twice into a turn of the counter.                       *)
LEMMA Halves ==
    ASSUME NEW t \in Timer
    PROVE  /\ HalfTurn \in Int /\ 2 * HalfTurn <= CounterRange - 1
           /\ Interval[t] + Late + MaxLag < HalfTurn
           /\ Interval[t] \in Nat /\ Interval[t] > Late /\ Interval[t] > CallTicks + MaxLag
           /\ Late + MaxLag < HalfTurn /\ 6 * MaxLag < HalfTurn /\ HalfTurn < CounterRange
           /\ CounterRange >= 2
  <1>1. /\ HalfTurn \in Int /\ 2 * HalfTurn <= CounterRange - 1
        /\ Interval[t] + Late + MaxLag < HalfTurn
        /\ Interval[t] \in Nat /\ Interval[t] > Late /\ Interval[t] > CallTicks + MaxLag
    BY IntervalsAre DEF HalfTurn
  <1> QED
    BY <1>1, Constants

(* The operations in the queue and their timers.                             *)
LEMMA QueueIs ==
    ASSUME TypeInv
    PROVE  /\ Queue \subseteq Op
           /\ \A op \in Queue : op.timer \in Timer /\ op.at_start \in Ticks
           /\ StartedBy(ops) = {op.timer : op \in Queue} /\ StartedBy(ops) \subseteq Timer
           /\ ops = <<>> <=> Queue = {}
  <1>1. ops \in Seq(Op)
    BY DEF TypeInv
  <1>2. \A i \in DOMAIN ops : ops[i] \in Op
    BY <1>1
  <1>3. Queue \subseteq Op
    BY <1>2 DEF Queue
  <1>4. \A op \in Queue : op.timer \in Timer /\ op.at_start \in Ticks
    BY <1>3 DEF Op
  <1>5. StartedBy(ops) = {op.timer : op \in Queue}
    BY DEF StartedBy, Queue
  <1>6. StartedBy(ops) \subseteq Timer
    BY <1>4, <1>5
  <1>7. ops = <<>> <=> Queue = {}
    <2>1. ops # <<>> => 1 \in DOMAIN ops
      BY <1>1
    <2>2. DOMAIN <<>> = {}
      OBVIOUS
    <2> QED
      BY <2>1, <2>2 DEF Queue
  <1> QED
    BY <1>3, <1>4, <1>5, <1>6, <1>7

(* Of a list that is not empty.                                              *)
LEMMA AtHead ==
    ASSUME TimerInv, timer_list # <<>>
    PROVE  /\ First \in Timers /\ Timers \subseteq Timer /\ First \in Timer
           /\ Schedule[First] = timer_list[1].ticks_to_expire
           /\ \A t \in Timers : Schedule[t] \in Nat /\ Schedule[First] <= Schedule[t]
           /\ SinceLatest < HalfTurn /\ SinceLatest + 1 < CounterRange
           /\ ~HaveElapsed =>
                /\ Overdue = {}
                /\ \A t \in Timers : Schedule[t] = SinceLatest + left[t] /\ left[First] <= left[t]
  <1>1. TypeInv /\ ListOf(timer_list, Schedule)
    BY DEF TimerInv, OnSchedule
  <1>2. timer_list \in Seq(Node)
    BY <1>1 DEF ListOf
  <1>3. First \in Timers /\ Timers \subseteq Timer /\ First \in Timer
    BY <1>1, <1>2, HeadIsFirst, ListedTimers DEF Timers, First
  <1>4. /\ Schedule[First] = timer_list[1].ticks_to_expire
        /\ \A t \in Timers : Schedule[t] \in Nat /\ Schedule[First] <= Schedule[t]
    BY <1>1, HeadIsFirst DEF Timers, First
  <1>5. ~HaveElapsed => Overdue = {}
    BY DEF Overdue, Expired
  <1>6. /\ SinceLatest \in Nat /\ lag \in Nat /\ lag <= MaxLag
        /\ \A t \in Timer : left[t] \in Int /\ left[t] >= -(Late + 1) /\ left[t] <= Interval[t]
    BY <1>1, Fields DEF TypeInv
  <1>7. ~HaveElapsed => \A t \in Timers : Schedule[t] = SinceLatest + left[t]
    <2> SUFFICES ASSUME ~HaveElapsed, NEW t \in Timers PROVE Schedule[t] = SinceLatest + left[t]
      OBVIOUS
    <2>1. t \in Timer /\ t \notin Overdue
      BY <1>3, <1>5
    <2>2. Schedule[t] = SinceLatest + left[t] - 0
      BY <2>1 DEF Schedule
    <2> QED
      BY <2>1, <2>2, <1>6
  <1>8. PICK u \in Timer : Schedule[First] <= Interval[u]
    BY <1>4 DEF TimerInv, OnSchedule
  <1>9. SinceLatest < HalfTurn /\ SinceLatest + 1 < CounterRange
    <2>3. /\ Interval[u] + Late + MaxLag < HalfTurn /\ HalfTurn \in Int
          /\ 2 * HalfTurn <= CounterRange - 1 /\ Interval[u] \in Nat
          /\ CounterRange \in Nat /\ Late \in Nat /\ MaxLag \in Nat /\ MaxLag >= 1
      BY Halves, Constants
    <2>4. /\ SinceLatest \in Nat /\ lag \in Nat /\ lag <= MaxLag
          /\ Schedule[First] \in Nat /\ Schedule[First] <= Interval[u]
      BY <1>3, <1>4, <1>6, <1>8
    <2>5. left[First] \in Int /\ left[First] >= -(Late + 1)
      BY <1>3, <1>6
    <2>1. CASE HaveElapsed
      <3>1. SinceLatest <= Schedule[First] + Late + lag
        BY <2>1, <1>4 DEF TimerInv, OnSchedule
      <3> QED
        BY <3>1, <2>3, <2>4
    <2>2. CASE ~HaveElapsed
      <3>1. Schedule[First] = SinceLatest + left[First]
        BY <2>2, <1>3, <1>7
      <3> QED
        BY <3>1, <2>3, <2>4, <2>5
    <2> QED
      BY <2>1, <2>2
  <1>10. ~HaveElapsed => \A t \in Timers : left[First] <= left[t]
    BY <1>3, <1>4, <1>6, <1>7
  <1> QED
    BY <1>3, <1>4, <1>5, <1>7, <1>9, <1>10

(* No handler is put off for longer than Late.                               *)
LEMMA NotTooLate ==
    ASSUME TimerInv, Tick
    PROVE  \A t \in on : left[t] > -Late
  <1>1. /\ TypeInv /\ Places /\ Handling /\ OnSchedule /\ Calls
        /\ Armed /\ Ringing /\ Queueing /\ Writing /\ Checking
    BY DEF TimerInv
  <1>2. timer_list # <<>>
    BY <1>1 DEF Tick, Handling
  <1>3. InterruptDue => lag < MaxLag
    BY DEF Tick
  <1>4. /\ lag \in Nat /\ lag <= MaxLag /\ left \in [Timer -> Int] /\ Ahead \in Nat /\ Looked \in Nat
        /\ swi.at \in {"idle", "write", "check"}
    BY <1>1, Fields
  <1>5. ASSUME NEW t \in Timers PROVE left[t] > -Late
    <2>1. t \in Timer /\ left[t] \in Int
      BY <1>2, <1>4, AtHead
    <2>2. CASE HaveElapsed
      <3>1. left[t] >= 1 - lag
        BY <1>1, <2>2, <1>5 DEF Queueing
      <3> QED
        BY <3>1, <2>1, <1>4, Constants
    <2>3. CASE ~HaveElapsed /\ swi.at = "idle" /\ ~rtc.pending
      <3>1. Ahead >= 1 /\ Ahead <= left[t] + MaxLag + 2
        BY <1>1, <1>2, <2>3, <1>5 DEF Armed
      <3> QED
        BY <3>1, <2>1, <1>4, Constants
    <2>4. CASE swi.at = "idle" /\ rtc.pending
      <3>1. left[t] >= MaxLag - Late - lag /\ lag < MaxLag
        BY <1>1, <1>2, <1>3, <2>4, <1>5 DEF Ringing, InterruptDue
      <3> QED
        BY <3>1, <2>1, <1>4, Constants
    <2>5. CASE swi.at = "write"
      <3>1. Looked <= lag /\ left[t] + Looked >= 1 - MaxLag /\ lag < MaxLag
        BY <1>1, <1>3, <2>5, <1>5 DEF Writing, InterruptDue
      <3> QED
        BY <3>1, <2>1, <1>4, Constants
    <2>6. CASE swi.at = "check"
      <3>1. Looked <= MaxLag + lag /\ left[t] + Looked >= 1 - MaxLag /\ lag < MaxLag
        BY <1>1, <1>3, <2>6, <1>5 DEF Checking, InterruptDue
      <3> QED
        BY <3>1, <2>1, <1>4, Constants
    <2> QED
      BY <1>4, <2>2, <2>3, <2>4, <2>5, <2>6
  <1>6. ASSUME NEW op \in Queue PROVE op.timer \in Timer /\ left[op.timer] > -Late
    <2>1. op \in Op
      BY <1>1 DEF Queue, TypeInv
    <2>2. op.timer \in Timer /\ op.at_start \in Ticks
      BY <2>1 DEF Op
    <2>3. /\ Diff(rtc.counter, op.at_start) = Interval[op.timer] - left[op.timer]
          /\ Diff(rtc.counter, op.at_start) <= CallTicks + lag + IF HaveElapsed THEN MaxLag ELSE 0
      BY <1>1 DEF Calls
    <2>5. lag < MaxLag
      BY <1>1, <1>3 DEF Places, InterruptDue
    <2>6. Interval[op.timer] > CallTicks + MaxLag /\ Interval[op.timer] \in Nat /\ left[op.timer] \in Int
      BY <2>2, <1>4, Halves
    <2>4. Interval[op.timer] - left[op.timer] <= CallTicks + lag + MaxLag
      <3> DEFINE more == IF HaveElapsed THEN MaxLag ELSE 0
      <3>1. more \in Int /\ more <= MaxLag
        BY Constants
      <3>2. Interval[op.timer] - left[op.timer] <= CallTicks + lag + more
        BY <2>3
      <3> HIDE DEF more
      <3> QED
        BY <2>6, <3>1, <3>2, <1>4, Constants
    <2> QED
      BY <2>2, <2>4, <2>5, <2>6, <1>4, Constants
  <1>7. ASSUME thread # NoOp PROVE left[thread.timer] > -Late
    <2>1. thread.timer \in Timer
      BY <1>1, <1>7 DEF TypeInv, Op
    <2>2. Interval[thread.timer] - left[thread.timer] < CallTicks
      BY <1>7 DEF Tick
    <2>3. Interval[thread.timer] > CallTicks + MaxLag /\ Interval[thread.timer] \in Nat
          /\ left[thread.timer] \in Int
      BY <2>1, <1>4, Halves
    <2> QED
      BY <2>2, <2>3, Constants
  <1>8. \A t \in StartedBy(ops) : \E op \in Queue : t = op.timer
    BY DEF StartedBy, Queue
  <1> QED
    BY <1>1, <1>5, <1>6, <1>7, <1>8 DEF Places

-----------------------------------------------------------------------------
(* The invariant is kept by every action *)

(* The counter goes on, unless an interrupt handler would be too late.       *)
LEMMA TickKeepsInv ==
    ASSUME TimerInv, Tick
    PROVE  TimerInv'
  <1> DEFINE now == (rtc.counter + 1) % CounterRange
  <1>1. /\ TypeInv /\ Places /\ Handling /\ OnSchedule /\ Calls
        /\ Armed /\ Ringing /\ Queueing /\ Writing /\ Checking
    BY DEF TimerInv
  <1>2. timer_list # <<>> /\ rtc.running
    BY <1>1 DEF Tick, Handling
  <1>3. /\ First \in Timers /\ Timers \subseteq Timer /\ First \in Timer
        /\ SinceLatest < HalfTurn /\ SinceLatest + 1 < CounterRange
    BY <1>2, AtHead
  <1>4. /\ HalfTurn \in Int /\ 2 * HalfTurn <= CounterRange - 1 /\ 6 * MaxLag < HalfTurn
        /\ Interval[First] < HalfTurn /\ CounterRange >= 2 /\ CounterRange \in Nat
        /\ MaxLag \in Nat /\ MaxLag >= 1 /\ CallTicks \in Nat
        /\ Late \in Nat /\ Late >= 4 * MaxLag - 1 /\ Late >= 2 * MaxLag + 2
    <2>1. /\ HalfTurn \in Int /\ 2 * HalfTurn <= CounterRange - 1 /\ 6 * MaxLag < HalfTurn
          /\ CounterRange >= 2 /\ Interval[First] + Late + MaxLag < HalfTurn /\ Interval[First] \in Nat
      BY <1>3, Halves
    <2> QED
      BY <2>1, Constants
  <1>5. /\ rtc.counter \in Ticks /\ rtc.cc \in Ticks /\ swi.pre \in Ticks /\ m_ticks_latest \in Ticks
        /\ lag \in Nat /\ lag <= MaxLag /\ left \in [Timer -> Int]
        /\ SinceLatest \in Nat /\ Ahead \in Nat /\ Behind \in Nat /\ Looked \in Nat
        /\ swi.at \in {"idle", "write", "check"}
    BY <1>1, Fields
  <1>6. /\ rtc' = [rtc EXCEPT !.counter = now, !.missed = FALSE,
                              !.pending = @ \/ (rtc.cc = now /\ ~rtc.missed)]
        /\ UNCHANGED <<timer_list, is_running, m_ticks_latest, m_ticks_elapsed, ops, swi, thread, on>>
    BY DEF Tick
  <1>7. /\ rtc'.counter = now /\ rtc'.cc = rtc.cc /\ ~rtc'.missed /\ rtc'.running
        /\ rtc'.pending <=> rtc.pending \/ (rtc.cc = now /\ ~rtc.missed)
        /\ now \in Ticks
        /\ rtc' \in [counter : Ticks, cc : Ticks, missed : BOOLEAN, running : BOOLEAN, pending : BOOLEAN]
    <2>1. now \in Ticks
      BY <1>4, <1>5, NextTick
    <2> HIDE DEF now
    <2> QED
      BY <1>1, <1>2, <1>6, <2>1 DEF TypeInv
  <1>8. /\ Timers' = Timers /\ First' = First /\ Queue' = Queue /\ Expired' = Expired
        /\ Elapsed' = Elapsed /\ (HaveElapsed' <=> HaveElapsed) /\ Overdue' = Overdue
    <2>1. (HaveElapsed' <=> HaveElapsed) /\ Elapsed' = Elapsed
      BY <1>6 DEF HaveElapsed, Elapsed
    <2>2. Expired' = Expired
      BY <1>6, <2>1 DEF Expired
    <2> QED
      BY <1>6, <2>1, <2>2 DEF Timers, First, Queue, Overdue
  <1>9. /\ SinceLatest' = SinceLatest + 1
        /\ Behind + 1 < CounterRange => Behind' = Behind + 1
        /\ Looked + 1 < CounterRange => Looked' = Looked + 1
        /\ Ahead >= 1 => Ahead' = Ahead - 1
        /\ Ahead = 0 => Ahead' = CounterRange - 1
        /\ rtc.cc = now <=> Ahead = 1
        /\ Ahead = 0 <=> rtc.cc = rtc.counter
        /\ Ahead = 1 => Behind' = 0
    <2>1. SinceLatest' = Diff(now, m_ticks_latest) /\ Behind' = Diff(now, rtc.cc)
          /\ Looked' = Diff(now, swi.pre) /\ Ahead' = Diff(rtc.cc, now)
      BY <1>6, <1>7 DEF SinceLatest, Behind, Looked, Ahead
    <2>2. /\ SinceLatest' = SinceLatest + 1
          /\ Behind + 1 < CounterRange => Behind' = Behind + 1
          /\ Looked + 1 < CounterRange => Looked' = Looked + 1
          /\ Ahead >= 1 => Ahead' = Ahead - 1
          /\ Ahead = 0 => Ahead' = CounterRange - 1
          /\ rtc.cc = now <=> Ahead = 1
      <3> HIDE DEF now
      <3> QED
        BY <2>1, <1>3, <1>4, <1>5, NextTick DEF SinceLatest, Behind, Looked, Ahead, now
    <2>3. Ahead = 0 <=> rtc.cc = rtc.counter
      BY <1>5, DiffIs DEF Ahead
    <2>4. Ahead = 1 => Behind' = 0
      <3>1. Diff(now, now) = 0
        BY <1>7, DiffIs
      <3> QED
        BY <2>1, <2>2, <3>1
    <2> QED
      BY <2>2, <2>3, <2>4
  <1>10. /\ lag' \in Nat /\ lag' <= MaxLag /\ lag' \in 0 .. MaxLag
         /\ InterruptDue => lag' = lag + 1 /\ lag < MaxLag
    BY <1>4, <1>5 DEF Tick
  <1>11. \A t \in on : t \in Timer /\ left[t] \in Int /\ left[t] > -Late /\ left'[t] = left[t] - 1
    <2>1. on \subseteq Timer
      <3>1. StartedBy(ops) \subseteq Timer
        BY <1>1, QueueIs
      <3>2. thread # NoOp => thread.timer \in Timer
        BY <1>1 DEF TypeInv, Op
      <3> QED
        BY <1>1, <1>3, <3>1, <3>2 DEF Places
    <2>2. \A t \in on : left[t] > -Late
      BY NotTooLate
    <2>3. \A t \in Timer : t \in on /\ left[t] >= -Late => left'[t] = left[t] - 1
      BY DEF Tick
    <2> QED
      BY <1>4, <1>5, <2>1, <2>2, <2>3
  <1>12. Timers \subseteq on
    BY <1>1 DEF Places
  <1>13. \A t \in Timers : left[t] \in Int /\ left'[t] = left[t] - 1
    BY <1>11, <1>12
  <1> HIDE DEF now
  <1>14. TypeInv'
    <2>1. left' \in [Timer -> Int] /\ \A t \in Timer : left'[t] >= -(Late + 1) /\ left'[t] <= Interval[t]
      <3>1. left' = [t \in Timer |-> IF t \in on /\ left[t] >= -Late THEN left[t] - 1 ELSE left[t]]
        BY DEF Tick
      <3>2. \A t \in Timer : left[t] \in Int /\ left[t] >= -(Late + 1) /\ left[t] <= Interval[t]
                             /\ Interval[t] \in Nat
        BY <1>1, <1>5, Halves DEF TypeInv
      <3> QED
        BY <3>1, <3>2, <1>4
    <2> QED
      BY <1>1, <1>6, <1>7, <1>10, <2>1 DEF TypeInv
  <1>15. Places'
    BY <1>1, <1>6, <1>8 DEF Places
  <1>16. Handling'
    <2>1. ASSUME HaveElapsed PROVE ~rtc'.pending
      <3>1. Behind <= MaxLag + lag /\ ~rtc.pending
        BY <1>1, <2>1 DEF Queueing, Handling
      <3>2. rtc.cc # now
        <4> SUFFICES ASSUME Ahead = 1 PROVE FALSE
          BY <1>9
        <4>1. Behind + 1 < CounterRange => Behind' = Behind + 1
          BY <1>9
        <4>2. Behind' = 0
          BY <1>9
        <4> QED
          BY <3>1, <4>1, <4>2, <1>4, <1>5
      <3> QED
        BY <1>7, <3>1, <3>2
    <2> QED
      BY <1>1, <1>2, <1>6, <1>7, <1>8, <2>1 DEF Handling
  <1>17. OnSchedule'
    <2>1. ASSUME NEW t \in Timers PROVE Schedule'[t] = Schedule[t]
      <3>1. t \in Timer /\ left[t] \in Int /\ left'[t] = left[t] - 1 /\ Interval[t] \in Nat
        BY <1>3, <1>13, Halves
      <3>2. Schedule'[t] = SinceLatest' + left'[t] - IF t \in Overdue THEN Interval[t] ELSE 0
        BY <1>8, <3>1 DEF Schedule
      <3>3. Schedule[t] = SinceLatest + left[t] - IF t \in Overdue THEN Interval[t] ELSE 0
        BY <3>1 DEF Schedule
      <3> QED
        BY <1>5, <1>9, <3>1, <3>2, <3>3
    <2>2. ListOf(timer_list, Schedule')
      BY <1>1, <2>1, SameSchedule DEF OnSchedule, Timers
    <2>3. HaveElapsed => SinceLatest + 1 >= Elapsed + (lag + 1)
                         /\ SinceLatest + 1 <= timer_list[1].ticks_to_expire + Late + (lag + 1)
      <3>1. HaveElapsed => Elapsed \in Nat
        <4>1. HaveElapsed => Elapsed \in Ticks
          BY <1>1 DEF TypeInv, Elapsed, HaveElapsed
        <4> QED
          BY <4>1 DEF Ticks
      <3>2. timer_list[1].ticks_to_expire \in Nat
        <4>1. ListOf(timer_list, Schedule)
          BY <1>1 DEF OnSchedule
        <4>2. timer_list[1] \in Node
          BY <1>2, <4>1, HeadIsFirst
        <4> QED
          BY <4>2 DEF Node
      <3>3. HaveElapsed => SinceLatest >= Elapsed + lag
                           /\ SinceLatest <= timer_list[1].ticks_to_expire + Late + lag
        BY <1>1 DEF OnSchedule
      <3> QED
        BY <3>1, <3>2, <3>3, <1>4, <1>5
    <2>4. HaveElapsed => lag' = lag + 1
      BY <1>1, <1>10 DEF Handling, InterruptDue
    <2>5. \E t \in Timer : timer_list[1].ticks_to_expire <= Interval[t]
      BY <1>1, <1>2 DEF OnSchedule
    <2> QED
      BY <1>6, <1>8, <1>9, <2>2, <2>3, <2>4, <2>5 DEF OnSchedule
  <1>18. Calls'
    <2>1. ASSUME NEW op \in Op, op.timer \in on,
                 Diff(rtc.counter, op.at_start) = Interval[op.timer] - left[op.timer]
          PROVE  /\ Diff(now, op.at_start) = Diff(rtc.counter, op.at_start) + 1
                 /\ Diff(now, op.at_start) = Interval[op.timer] - left'[op.timer]
                 /\ Diff(rtc.counter, op.at_start) \in Nat
      <3>1. /\ op.timer \in Timer /\ op.at_start \in Ticks /\ left[op.timer] \in Int
            /\ left[op.timer] > -Late /\ left'[op.timer] = left[op.timer] - 1
        BY <1>11, <2>1 DEF Op
      <3>2. Interval[op.timer] + Late + MaxLag < HalfTurn /\ Interval[op.timer] \in Nat
        BY <3>1, Halves
      <3>3. Diff(rtc.counter, op.at_start) \in Nat
        BY <1>5, <3>1, DiffIs
      <3>4. Diff(rtc.counter, op.at_start) + 1 < CounterRange
        BY <1>4, <2>1, <3>1, <3>2, <3>3
      <3>5. Diff(now, op.at_start) = Diff(rtc.counter, op.at_start) + 1
        BY <1>4, <1>5, <3>1, <3>4, NextTick DEF now
      <3> QED
        BY <2>1, <3>1, <3>2, <3>3, <3>5
    <2>2. ASSUME NEW op \in Queue
          PROVE  /\ Diff(now, op.at_start) = Interval[op.timer] - left'[op.timer]
                 /\ Diff(now, op.at_start) <= CallTicks + lag' + IF HaveElapsed THEN MaxLag ELSE 0
      <3>1. op \in Op /\ op.timer \in on
        BY <1>1 DEF Queue, TypeInv, Places, StartedBy
      <3>2. lag' = lag + 1
        BY <1>1, <1>10 DEF Places, InterruptDue
      <3>3. /\ Diff(rtc.counter, op.at_start) = Interval[op.timer] - left[op.timer]
            /\ Diff(rtc.counter, op.at_start) <= CallTicks + lag + IF HaveElapsed THEN MaxLag ELSE 0
        BY <1>1 DEF Calls
      <3>4. /\ Diff(now, op.at_start) = Diff(rtc.counter, op.at_start) + 1
            /\ Diff(now, op.at_start) = Interval[op.timer] - left'[op.timer]
            /\ Diff(rtc.counter, op.at_start) \in Nat
        BY <2>1, <3>1, <3>3
      <3> QED
        BY <3>2, <3>3, <3>4, <1>4, <1>5
    <2>3. ASSUME thread # NoOp
          PROVE  /\ Diff(now, thread.at_start) = Interval[thread.timer] - left'[thread.timer]
                 /\ Diff(now, thread.at_start) <= CallTicks
      <3>1. thread \in Op /\ thread.timer \in on
        BY <1>1, <2>3 DEF TypeInv, Places
      <3>2. /\ Diff(rtc.counter, thread.at_start) = Interval[thread.timer] - left[thread.timer]
            /\ Interval[thread.timer] - left[thread.timer] < CallTicks
        BY <1>1, <2>3 DEF Calls, Tick
      <3>3. /\ Diff(now, thread.at_start) = Diff(rtc.counter, thread.at_start) + 1
            /\ Diff(now, thread.at_start) = Interval[thread.timer] - left'[thread.timer]
            /\ Diff(rtc.counter, thread.at_start) \in Nat
        BY <2>1, <3>1, <3>2
      <3> QED
        BY <3>2, <3>3, <1>4
    <2> QED
      BY <1>6, <1>7, <1>8, <2>2, <2>3 DEF Calls
  <1>19. Armed'
    <2> SUFFICES ASSUME swi.at = "idle", ~rtc'.pending, ~HaveElapsed
                 PROVE  /\ Ahead' >= 1 /\ left'[First] <= Ahead'
                        /\ \A t \in Timers : Ahead' <= left'[t] + MaxLag + 2
      BY <1>6, <1>8 DEF Armed
    <2>1. ~rtc.pending /\ ~rtc.missed /\ Ahead # 1
      BY <1>1, <1>7, <1>9 DEF Handling
    <2>2. Ahead >= 1 /\ left[First] <= Ahead /\ \A t \in Timers : Ahead <= left[t] + MaxLag + 2
      BY <1>1, <1>2, <2>1 DEF Armed
    <2>3. Ahead' = Ahead - 1
      BY <1>9, <2>2
    <2> QED
      BY <1>3, <1>4, <1>5, <1>13, <2>1, <2>2, <2>3
  <1>20. Ringing'
    <2> SUFFICES ASSUME swi.at = "idle", rtc'.pending
                 PROVE  Behind' <= lag' /\ \A t \in Timers : left'[t] >= MaxLag - Late - lag'
      BY <1>6, <1>8 DEF Ringing
    <2>1. CASE rtc.pending
      <3>1. Behind <= lag /\ \A t \in Timers : left[t] >= MaxLag - Late - lag
        BY <1>1, <1>2, <2>1 DEF Ringing
      <3>2. lag' = lag + 1 /\ lag < MaxLag
        BY <1>10, <2>1 DEF InterruptDue
      <3>3. Behind' = Behind + 1
        BY <1>4, <1>5, <1>9, <3>1
      <3> QED
        BY <1>4, <1>5, <1>13, <3>1, <3>2, <3>3
    <2>2. CASE ~rtc.pending
      <3>1. ~HaveElapsed
        BY <1>16, <1>8 DEF Handling
      <3>2. Ahead = 1 /\ Behind' = 0
        BY <1>7, <1>9, <2>2
      <3>3. \A t \in Timers : Ahead <= left[t] + MaxLag + 2
        BY <1>1, <1>2, <2>2, <3>1 DEF Armed
      <3> QED
        BY <1>4, <1>10, <1>13, <3>2, <3>3
    <2> QED
      BY <2>1, <2>2
  <1>21. Queueing'
    <2> SUFFICES ASSUME HaveElapsed
                 PROVE  Behind' <= MaxLag + lag' /\ \A t \in Timers : left'[t] >= 1 - lag'
      BY <1>8 DEF Queueing
    <2>1. Behind <= MaxLag + lag /\ \A t \in Timers : left[t] >= 1 - lag
      BY <1>1 DEF Queueing
    <2>2. lag' = lag + 1 /\ lag < MaxLag
      BY <1>1, <1>10 DEF Handling, InterruptDue
    <2>3. Behind' = Behind + 1
      BY <1>4, <1>5, <1>9, <2>1
    <2> QED
      BY <1>4, <1>5, <1>13, <2>1, <2>2, <2>3
  <1>22. Writing'
    <2> SUFFICES ASSUME swi.at = "write"
                 PROVE  /\ Looked' <= lag' /\ Looked' <= SinceLatest'
                        /\ \A t \in Timers : left'[t] + Looked' >= 1 - MaxLag
                        /\ rtc'.pending => Looked' >= 1 /\ left'[First] <= 0
                        /\ ~rtc'.pending => rtc'.cc = rtc'.counter \/ left'[First] <= Ahead'
      BY <1>6, <1>8 DEF Writing
    <2>1. /\ Looked <= lag /\ Looked <= SinceLatest
          /\ \A t \in Timers : left[t] + Looked >= 1 - MaxLag
          /\ rtc.pending => Looked >= 1 /\ left[First] <= 0
          /\ ~rtc.pending => rtc.cc = rtc.counter \/ left[First] <= Ahead
      BY <1>1 DEF Writing
    <2>2. lag' = lag + 1 /\ lag < MaxLag
      BY <1>10 DEF InterruptDue
    <2>3. Looked' = Looked + 1
      BY <1>4, <1>5, <1>9, <2>1
    <2>4. left[First] \in Int /\ left'[First] = left[First] - 1 /\ left[First] <= Interval[First]
          /\ Interval[First] \in Nat
      BY <1>1, <1>3, <1>13, Halves DEF TypeInv
    <2>5. Looked' <= lag' /\ Looked' <= SinceLatest'
      BY <1>5, <1>9, <2>1, <2>2, <2>3
    <2>6. \A t \in Timers : left'[t] + Looked' >= 1 - MaxLag
      BY <1>4, <1>5, <1>13, <2>1, <2>3
    <2>7. rtc'.pending => Looked' >= 1 /\ left'[First] <= 0
      <3>1. CASE rtc.pending
        BY <3>1, <2>1, <2>3, <2>4, <1>5
      <3>2. CASE ~rtc.pending /\ rtc'.pending
        <4>1. Ahead = 1
          BY <1>7, <1>9, <3>2
        <4>2. left[First] <= 1
          BY <1>9, <2>1, <3>2, <4>1
        <4> QED
          BY <2>3, <2>4, <4>2, <1>5
      <3> QED
        BY <3>1, <3>2
    <2>8. ~rtc'.pending => left'[First] <= Ahead'
      <3> SUFFICES ASSUME ~rtc'.pending PROVE left'[First] <= Ahead'
        OBVIOUS
      <3>1. ~rtc.pending /\ ~rtc.missed /\ Ahead # 1
        <4>1. ~rtc.missed
          BY <1>1 DEF Handling
        <4> QED
          BY <4>1, <1>7, <1>9
      <3>2. CASE Ahead = 0
        BY <3>2, <1>4, <1>9, <2>4
      <3>3. CASE Ahead # 0
        <4>1. left[First] <= Ahead /\ Ahead' = Ahead - 1
          BY <3>1, <3>3, <2>1, <1>5, <1>9
        <4> QED
          BY <4>1, <2>4, <1>5
      <3> QED
        BY <3>2, <3>3
    <2> QED
      BY <2>5, <2>6, <2>7, <2>8
  <1>23. Checking'
    <2> SUFFICES ASSUME swi.at = "check"
                 PROVE  /\ Looked' <= MaxLag + lag' /\ Looked' <= SinceLatest'
                        /\ \A t \in Timers : left'[t] + Looked' >= 1 - MaxLag
                        /\ Diff(rtc'.cc, swi'.pre) = IF left'[First] + Looked' > 3
                                                     THEN left'[First] + Looked' ELSE 3
                        /\ rtc'.pending => TooClose'
      BY <1>6, <1>8 DEF Checking
    <2>1. /\ Looked <= MaxLag + lag /\ Looked <= SinceLatest
          /\ \A t \in Timers : left[t] + Looked >= 1 - MaxLag
          /\ Diff(rtc.cc, swi.pre) = IF left[First] + Looked > 3 THEN left[First] + Looked ELSE 3
          /\ rtc.pending => TooClose
      BY <1>1 DEF Checking
    <2>2. lag' = lag + 1 /\ lag < MaxLag
      BY <1>10 DEF InterruptDue
    <2>3. Looked' = Looked + 1
      BY <1>4, <1>5, <1>9, <2>1
    <2>4. left[First] \in Int /\ left'[First] = left[First] - 1
      BY <1>3, <1>13
    <2>5. Looked' <= MaxLag + lag' /\ Looked' <= SinceLatest'
      BY <1>4, <1>5, <1>9, <2>1, <2>2, <2>3
    <2>6. \A t \in Timers : left'[t] + Looked' >= 1 - MaxLag
      BY <1>4, <1>5, <1>13, <2>1, <2>3
    <2>7. left'[First] + Looked' = left[First] + Looked
      BY <1>5, <2>3, <2>4
    <2>8. rtc'.pending => TooClose'
      <3>1. TooClose <=> Looked + 3 > Diff(rtc.cc, swi.pre)
        BY DEF TooClose, Looked, RTC_COMPARE_OFFSET_MIN
      <3>2. TooClose' <=> Looked' + 3 > Diff(rtc.cc, swi.pre)
        BY <1>6, <1>7 DEF TooClose, Looked, RTC_COMPARE_OFFSET_MIN
      <3>3. Diff(rtc.cc, swi.pre) \in Nat
        BY <1>5, DiffIs
      <3>4. rtc.cc = now => Looked' = Diff(rtc.cc, swi.pre)
        BY <1>6, <1>7 DEF Looked
      <3> QED
        BY <1>5, <1>7, <2>1, <2>3, <3>1, <3>2, <3>3, <3>4
    <2> QED
      BY <1>6, <1>7, <2>1, <2>5, <2>6, <2>7, <2>8
  <1> QED
    BY <1>14, <1>15, <1>16, <1>17, <1>18, <1>19, <1>20, <1>21, <1>22, <1>23 DEF TimerInv

(* app_timer_init: nothing waits, and the counter stands.                    *)
LEMMA InitInv == TimerInit => TimerInv
  <1> SUFFICES ASSUME TimerInit PROVE TimerInv
    OBVIOUS
  <1>1. 0 \in Ticks /\ MaxLag \in Nat /\ Late \in Nat
    BY Constants DEF Ticks
  <1>2. /\ timer_list = <<>> /\ m_ticks_elapsed = <<>> /\ ops = <<>> /\ thread = NoOp /\ on = {}
        /\ rtc = StoppedRtc /\ m_ticks_latest = 0 /\ lag = 0
        /\ swi = [pending |-> FALSE, at |-> "idle", pre |-> 0]
        /\ is_running = [t \in Timer |-> FALSE] /\ left = [t \in Timer |-> 0]
    BY DEF TimerInit
  <1>3. ~HaveElapsed /\ Timers = {} /\ Queue = {} /\ StartedBy(ops) = {}
    BY <1>2 DEF HaveElapsed, Timers, TimersIn, Queue, StartedBy
  <1>4. TypeInv
    <2>1. \A t \in Timer : 0 >= -(Late + 1) /\ 0 <= Interval[t]
      BY <1>1, Halves
    <2> QED
      BY <1>1, <1>2, <2>1 DEF TypeInv, StoppedRtc
  <1>5. Places
    BY <1>2, <1>3 DEF Places
  <1>6. Handling
    BY <1>2, <1>3 DEF Handling, StoppedRtc
  <1>7. OnSchedule
    <2>1. ListOf(<<>>, Schedule)
      BY DEF ListOf
    <2> QED
      BY <1>2, <1>3, <2>1 DEF OnSchedule
  <1>8. Calls
    BY <1>2, <1>3 DEF Calls
  <1> QED
    BY <1>2, <1>3, <1>4, <1>5, <1>6, <1>7, <1>8
       DEF TimerInv, Armed, Ringing, Queueing, Writing, Checking

(* timer_start_op_schedule takes the counter into an operation.              *)
LEMMA StartTimerKeepsInv ==
    ASSUME TimerInv, NEW t \in Timer, StartTimer(t)
    PROVE  TimerInv'
  <1>1. /\ TypeInv /\ Places /\ Handling /\ OnSchedule /\ Calls
        /\ Armed /\ Ringing /\ Queueing /\ Writing /\ Checking
    BY DEF TimerInv
  <1>2. /\ thread = NoOp /\ t \notin on /\ ~rtc.pending /\ ~swi.pending /\ swi.at = "idle"
        /\ thread' = [timer |-> t, at_start |-> rtc.counter]
        /\ on' = on \cup {t}
        /\ left' = [left EXCEPT ![t] = Interval[t]]
        /\ UNCHANGED <<rtc, timer_list, is_running, m_ticks_latest, m_ticks_elapsed, ops, swi, lag>>
    BY DEF StartTimer, InterruptDue
  <1>3. /\ Timers' = Timers /\ First' = First /\ Queue' = Queue /\ Expired' = Expired
        /\ Elapsed' = Elapsed /\ (HaveElapsed' <=> HaveElapsed) /\ Overdue' = Overdue
        /\ SinceLatest' = SinceLatest /\ Ahead' = Ahead /\ Behind' = Behind /\ Looked' = Looked
    <2>1. (HaveElapsed' <=> HaveElapsed) /\ Elapsed' = Elapsed
      BY <1>2 DEF HaveElapsed, Elapsed
    <2>2. Expired' = Expired
      BY <1>2, <2>1 DEF Expired
    <2> QED
      BY <1>2, <2>1, <2>2
         DEF Timers, First, Queue, Overdue, SinceLatest, Ahead, Behind, Looked
  <1>4. ~HaveElapsed /\ Queue = {} /\ StartedBy(ops) = {}
    BY <1>1, <1>2, QueueIs DEF Handling, Places
  <1>5. /\ rtc.counter \in Ticks /\ left \in [Timer -> Int] /\ Interval[t] \in Nat
        /\ Diff(rtc.counter, rtc.counter) = 0
    BY <1>1, Fields, Halves, DiffIs
  <1>6. t \notin Timers
    BY <1>1, <1>2 DEF Places
  <1>7. Timers \subseteq Timer /\ (timer_list # <<>> => First \in Timers)
    <2>1. CASE timer_list # <<>>
      BY <2>1, AtHead
    <2>2. CASE timer_list = <<>>
      BY <2>2 DEF Timers, TimersIn
    <2> QED
      BY <2>1, <2>2
  <1>8. \A u \in Timers : left'[u] = left[u]
    BY <1>2, <1>5, <1>6, <1>7
  <1>9. thread' \in Op /\ thread' # NoOp /\ thread'.timer = t /\ thread'.at_start = rtc.counter
    <2>1. thread' \in Op /\ thread'.timer = t /\ thread'.at_start = rtc.counter
      BY <1>2, <1>5 DEF Op
    <2>2. NoOp.timer = Nobody
      BY DEF NoOp
    <2> QED
      BY <2>1, <2>2, Constants
  <1>10. TypeInv'
    <2>1. left' \in [Timer -> Int] /\ \A u \in Timer : left'[u] >= -(Late + 1) /\ left'[u] <= Interval[u]
      <3>1. Late \in Nat /\ \A u \in Timer : left[u] \in Int /\ left[u] >= -(Late + 1) /\ left[u] <= Interval[u]
        BY <1>1, <1>5, Constants DEF TypeInv
      <3>2. left' \in [Timer -> Int]
        BY <1>2, <1>5
      <3>3. Interval[t] >= -(Late + 1) /\ Interval[t] <= Interval[t]
        BY <3>1, <1>5
      <3> QED
        BY <1>2, <1>5, <3>1, <3>2, <3>3
    <2> QED
      BY <1>1, <1>2, <1>9, <2>1 DEF TypeInv
  <1>11. Places'
    BY <1>1, <1>2, <1>3, <1>4, <1>6, <1>9 DEF Places
  <1>12. Handling'
    BY <1>1, <1>2, <1>3 DEF Handling
  <1>13. OnSchedule'
    <2>1. ASSUME NEW u \in Timers PROVE Schedule'[u] = Schedule[u]
      BY <1>3, <1>7, <1>8 DEF Schedule
    <2>2. ListOf(timer_list, Schedule')
      BY <1>1, <2>1, SameSchedule DEF OnSchedule, Timers
    <2> QED
      BY <1>1, <1>2, <1>3, <1>4, <2>2 DEF OnSchedule
  <1>14. Calls'
    <2>1. left'[t] = Interval[t] /\ Interval[t] - Interval[t] = 0 /\ 0 <= CallTicks
      BY <1>2, <1>5, Constants
    <2> QED
      BY <1>2, <1>3, <1>4, <1>5, <1>9, <2>1 DEF Calls
  <1>15. Armed'
    BY <1>1, <1>2, <1>3, <1>7, <1>8 DEF Armed
  <1>16. Ringing' /\ Queueing' /\ Writing' /\ Checking'
    BY <1>2, <1>3, <1>4 DEF Ringing, Queueing, Writing, Checking
  <1> QED
    BY <1>10, <1>11, <1>12, <1>13, <1>14, <1>15, <1>16 DEF TimerInv

(* It enqueues the operation and sets the software interrupt pending.        *)
LEMMA EnqueueStartKeepsInv ==
    ASSUME TimerInv, EnqueueStart
    PROVE  TimerInv'
  <1>1. /\ TypeInv /\ Places /\ Handling /\ OnSchedule /\ Calls
        /\ Armed /\ Ringing /\ Queueing /\ Writing /\ Checking
    BY DEF TimerInv
  <1>2. /\ thread # NoOp /\ ~rtc.pending /\ ~swi.pending /\ swi.at = "idle"
        /\ ops' = Append(ops, thread)
        /\ swi' = [swi EXCEPT !.pending = TRUE]
        /\ thread' = NoOp /\ lag' = 0
        /\ UNCHANGED <<rtc, timer_list, is_running, m_ticks_latest, m_ticks_elapsed, on, left>>
    BY DEF EnqueueStart, InterruptDue
  <1>3. swi'.pending /\ swi'.at = "idle" /\ swi'.pre = swi.pre
    BY <1>1, <1>2 DEF TypeInv
  <1>4. /\ Timers' = Timers /\ First' = First /\ Expired' = Expired
        /\ Elapsed' = Elapsed /\ (HaveElapsed' <=> HaveElapsed) /\ Overdue' = Overdue
        /\ SinceLatest' = SinceLatest /\ Ahead' = Ahead /\ Behind' = Behind /\ Looked' = Looked
        /\ Schedule' = Schedule
    <2>1. (HaveElapsed' <=> HaveElapsed) /\ Elapsed' = Elapsed
      BY <1>2 DEF HaveElapsed, Elapsed
    <2>2. Expired' = Expired
      BY <1>2, <2>1 DEF Expired
    <2>3. Overdue' = Overdue /\ SinceLatest' = SinceLatest
      BY <1>2, <2>2 DEF Overdue, SinceLatest
    <2>4. Schedule' = Schedule
      BY <1>2, <2>3 DEF Schedule
    <2> QED
      BY <1>2, <1>3, <2>1, <2>2, <2>3, <2>4 DEF Timers, First, Ahead, Behind, Looked
  <1>5. ~HaveElapsed /\ Queue = {} /\ StartedBy(ops) = {} /\ ops = <<>>
    BY <1>1, <1>2, QueueIs DEF Handling, Places
  <1>6. thread \in Op /\ ops' = <<thread>>
    BY <1>1, <1>2, <1>5 DEF TypeInv
  <1>7. Queue' = {thread} /\ StartedBy(ops') = {thread.timer}
    BY <1>6 DEF Queue, StartedBy
  <1>8. NoOp.timer = Nobody /\ NoOp.timer \notin Timers
    <2>1. NoOp.timer = Nobody
      BY DEF NoOp
    <2>2. Timers \subseteq Timer
      BY <1>1, ListedTimers DEF OnSchedule, ListOf, Timers
    <2> QED
      BY <2>1, <2>2, Constants
  <1>9. TypeInv'
    <2>1. ops' \in Seq(Op) /\ Len(ops') <= 1
      BY <1>6
    <2>2. swi' \in [pending : BOOLEAN, at : {"idle", "write", "check"}, pre : Ticks]
      BY <1>1, <1>2 DEF TypeInv
    <2>3. lag' \in 0 .. MaxLag
      BY <1>2, Constants
    <2> QED
      BY <1>1, <1>2, <2>1, <2>2, <2>3 DEF TypeInv
  <1>10. Places'
    BY <1>1, <1>2, <1>3, <1>4, <1>5, <1>7, <1>8 DEF Places
  <1>11. Handling'
    BY <1>1, <1>2, <1>3, <1>4, <1>5, <1>7 DEF Handling
  <1>12. OnSchedule'
    BY <1>1, <1>2, <1>4, <1>5 DEF OnSchedule
  <1>13. Calls'
    <2>1. /\ Diff(rtc.counter, thread.at_start) = Interval[thread.timer] - left[thread.timer]
          /\ Diff(rtc.counter, thread.at_start) <= CallTicks
          /\ CallTicks + 0 + 0 = CallTicks
      BY <1>1, <1>2, Constants DEF Calls
    <2> QED
      BY <1>2, <1>4, <1>5, <1>7, <2>1 DEF Calls
  <1>14. Armed'
    BY <1>1, <1>2, <1>3, <1>4 DEF Armed
  <1>15. Ringing' /\ Queueing' /\ Writing' /\ Checking'
    BY <1>2, <1>3, <1>4, <1>5 DEF Ringing, Queueing, Writing, Checking
  <1> QED
    BY <1>9, <1>10, <1>11, <1>12, <1>13, <1>14, <1>15 DEF TimerInv

(* What both steps of compare_reg_update leave alone.                        *)
LEMMA CompareKeeps ==
    ASSUME TimerInv, swi.at # "idle",
           UNCHANGED <<timer_list, is_running, m_ticks_latest, m_ticks_elapsed, ops, thread, on, left>>,
           rtc'.counter = rtc.counter, rtc'.running = rtc.running, ~swi'.pending,
           rtc'.missed => swi'.at = "check" /\ Ahead' = 1
    PROVE  /\ Timers' = Timers /\ First' = First /\ SinceLatest' = SinceLatest
           /\ ~HaveElapsed /\ ~HaveElapsed' /\ Queue = {} /\ ~swi.pending
           /\ timer_list # <<>> /\ timer_list' # <<>> /\ First \in Timers /\ Timers \subseteq Timer
           /\ Places' /\ Handling' /\ OnSchedule' /\ Calls'
  <1>1. /\ TypeInv /\ Places /\ Handling /\ OnSchedule /\ Calls
    BY DEF TimerInv
  <1>2. ~swi.pending /\ timer_list # <<>> /\ rtc.running
    BY <1>1 DEF Handling
  <1>3. ~HaveElapsed /\ Queue = {}
    BY <1>1, <1>2 DEF Handling, Places
  <1>4. /\ Timers' = Timers /\ First' = First /\ Expired' = Expired /\ Queue' = Queue
        /\ Elapsed' = Elapsed /\ (HaveElapsed' <=> HaveElapsed) /\ Overdue' = Overdue
        /\ SinceLatest' = SinceLatest /\ Schedule' = Schedule
    <2>1. (HaveElapsed' <=> HaveElapsed) /\ Elapsed' = Elapsed
      BY DEF HaveElapsed, Elapsed
    <2>2. Expired' = Expired
      BY <2>1 DEF Expired
    <2>3. Overdue' = Overdue /\ SinceLatest' = SinceLatest
      BY <2>2 DEF Overdue, SinceLatest
    <2>4. Schedule' = Schedule
      BY <2>3 DEF Schedule
    <2> QED
      BY <2>1, <2>2, <2>3, <2>4 DEF Timers, First, Queue
  <1>5. Places'
    BY <1>1, <1>3, <1>4 DEF Places
  <1>6. Handling'
    BY <1>1, <1>2, <1>3, <1>4 DEF Handling
  <1>7. OnSchedule'
    BY <1>1, <1>3, <1>4 DEF OnSchedule
  <1>8. Calls'
    BY <1>1, <1>3, <1>4 DEF Calls
  <1> QED
    BY <1>2, <1>3, <1>4, <1>5, <1>6, <1>7, <1>8, AtHead

(* compare_reg_update writes the compare register.                           *)
LEMMA WriteCompareKeepsInv ==
    ASSUME TimerInv, WriteCompare
    PROVE  TimerInv'
  <1>1. /\ TypeInv /\ Places /\ Handling /\ OnSchedule /\ Calls
        /\ Armed /\ Ringing /\ Queueing /\ Writing /\ Checking
    BY DEF TimerInv
  <1>2. PICK missed \in BOOLEAN :
            /\ missed => Diff(CompareValue, rtc.counter) = 1
            /\ rtc' = [rtc EXCEPT !.cc = CompareValue, !.missed = missed]
    BY DEF WriteCompare
  <1>3. /\ swi.at = "write" /\ swi' = [swi EXCEPT !.at = "check"] /\ lag' = 0
        /\ UNCHANGED <<timer_list, is_running, m_ticks_latest, m_ticks_elapsed, ops, thread, on, left>>
    BY DEF WriteCompare
  <1>4. /\ rtc.counter \in Ticks /\ swi.pre \in Ticks /\ m_ticks_latest \in Ticks
        /\ lag \in Nat /\ lag <= MaxLag /\ left \in [Timer -> Int]
        /\ SinceLatest \in Nat /\ Looked \in Nat
    BY <1>1, Fields
  <1>5. /\ rtc'.counter = rtc.counter /\ rtc'.running = rtc.running
        /\ rtc'.cc = CompareValue /\ (rtc'.pending <=> rtc.pending) /\ (rtc'.missed <=> missed)
        /\ swi'.at = "check" /\ swi'.pre = swi.pre /\ (swi'.pending <=> swi.pending)
    BY <1>1, <1>2, <1>3 DEF TypeInv
  <1>6. ~swi.pending /\ timer_list # <<>>
    BY <1>1, <1>3 DEF Handling
  <1>7. rtc'.missed => swi'.at = "check" /\ Ahead' = 1
    BY <1>2, <1>5 DEF Ahead
  <1>8. /\ Timers' = Timers /\ First' = First /\ SinceLatest' = SinceLatest
        /\ ~HaveElapsed /\ ~HaveElapsed' /\ First \in Timers /\ Timers \subseteq Timer
        /\ Places' /\ Handling' /\ OnSchedule' /\ Calls'
    BY <1>3, <1>5, <1>6, <1>7, CompareKeeps
  <1>9. /\ Looked <= lag /\ Looked <= SinceLatest
        /\ \A t \in Timers : left[t] + Looked >= 1 - MaxLag
        /\ rtc.pending => Looked >= 1 /\ left[First] <= 0
    BY <1>1, <1>3 DEF Writing
  <1> DEFINE due == timer_list[1].ticks_to_expire
             soonest == (SinceLatest - Looked) + 3
             ahead == IF soonest < due THEN due ELSE soonest
  <1>10. /\ due \in Nat /\ due = SinceLatest + left[First] /\ left[First] \in Int
         /\ First \in Timer
    <2>1. /\ Schedule[First] = timer_list[1].ticks_to_expire /\ Schedule[First] \in Nat
          /\ Schedule[First] = SinceLatest + left[First] /\ First \in Timer
      BY <1>6, <1>8, AtHead
    <2> QED
      BY <2>1, <1>4
  <1>11. Diff(swi.pre, m_ticks_latest) = SinceLatest - Looked
    BY <1>4, <1>9, Triangle DEF SinceLatest, Looked
  <1>12. CompareValue = (m_ticks_latest + ahead) % CounterRange
    BY <1>6, <1>11 DEF CompareValue, RTC_COMPARE_OFFSET_MIN
  <1>13. ahead \in 0 .. CounterRange - 1 /\ SinceLatest - Looked <= ahead
    <2>1. /\ SinceLatest < HalfTurn /\ 2 * HalfTurn <= CounterRange - 1 /\ 6 * MaxLag < HalfTurn
          /\ Interval[First] + Late + MaxLag < HalfTurn /\ Interval[First] \in Nat
          /\ left[First] <= Interval[First] /\ HalfTurn \in Int /\ Late + MaxLag < HalfTurn
      BY <1>1, <1>6, <1>10, AtHead, Halves DEF TypeInv
    <2>2. CounterRange \in Nat /\ MaxLag \in Nat /\ MaxLag >= 1 /\ Late \in Nat
      BY Constants
    <2> HIDE DEF due
    <2>5. soonest \in Int /\ due < CounterRange /\ soonest < CounterRange /\ SinceLatest - Looked <= soonest
          /\ soonest >= 0
      BY <1>4, <1>9, <1>10, <2>1, <2>2
    <2>6. ahead \in Int /\ ahead >= 0 /\ ahead < CounterRange
      BY <1>10, <2>5
    <2>7. SinceLatest - Looked <= ahead
      BY <1>10, <1>4, <2>5
    <2> HIDE DEF ahead
    <2> QED
      BY <2>2, <2>6, <2>7
  <1> HIDE DEF ahead
  <1>14. /\ CompareValue \in Ticks
         /\ Diff(CompareValue, m_ticks_latest) = ahead
    BY <1>4, <1>12, <1>13, Advanced
  <1>15. Diff(CompareValue, swi.pre) = ahead - (SinceLatest - Looked)
    <2>1. Diff(swi.pre, m_ticks_latest) <= Diff(CompareValue, m_ticks_latest)
      BY <1>11, <1>13, <1>14
    <2>2. Diff(CompareValue, swi.pre) = Diff(CompareValue, m_ticks_latest) - Diff(swi.pre, m_ticks_latest)
      BY <1>4, <1>14, <2>1, Triangle
    <2> QED
      BY <1>11, <1>14, <2>2
  <1>16. Diff(CompareValue, swi.pre) = IF left[First] + Looked > 3 THEN left[First] + Looked ELSE 3
    <2> HIDE DEF due
    <2>1. soonest < due <=> left[First] + Looked > 3
      BY <1>4, <1>10
    <2>2. ahead = IF left[First] + Looked > 3 THEN due ELSE soonest
      BY <2>1 DEF ahead
    <2> QED
      BY <1>4, <1>10, <1>15, <2>2
  <1>17. Looked' = Looked
    BY <1>5 DEF Looked
  <1>18. TypeInv'
    <2>1. lag' \in 0 .. MaxLag
      BY <1>3, Constants
    <2>2. swi' \in [pending : BOOLEAN, at : {"idle", "write", "check"}, pre : Ticks]
      BY <1>1, <1>3 DEF TypeInv
    <2>3. rtc' \in [counter : Ticks, cc : Ticks, missed : BOOLEAN, running : BOOLEAN, pending : BOOLEAN]
      BY <1>1, <1>2, <1>14 DEF TypeInv
    <2> QED
      BY <1>1, <1>3, <2>1, <2>2, <2>3 DEF TypeInv
  <1>19. Checking'
    <2>1. Looked' <= MaxLag + lag' /\ Looked' <= SinceLatest'
      BY <1>3, <1>4, <1>8, <1>9, <1>17, Constants
    <2>2. rtc'.pending => TooClose'
      <3> SUFFICES ASSUME rtc.pending PROVE TooClose'
        BY <1>5
      <3>1. TooClose' <=> Looked + 3 > Diff(CompareValue, swi.pre)
        BY <1>5 DEF TooClose, Looked, RTC_COMPARE_OFFSET_MIN
      <3>2. Looked >= 1 /\ left[First] <= 0
        BY <1>9
      <3> QED
        BY <1>4, <1>10, <1>16, <3>1, <3>2
    <2>3. \A t \in Timers' : left'[t] + Looked' >= 1 - MaxLag
      BY <1>3, <1>8, <1>9, <1>17
    <2>4. Diff(rtc'.cc, swi'.pre) = IF left'[First'] + Looked' > 3 THEN left'[First'] + Looked' ELSE 3
      BY <1>3, <1>5, <1>8, <1>16, <1>17
    <2> QED
      BY <2>1, <2>2, <2>3, <2>4 DEF Checking
  <1>20. Armed' /\ Ringing' /\ Queueing' /\ Writing'
    BY <1>5, <1>8 DEF Armed, Ringing, Queueing, Writing
  <1> QED
    BY <1>8, <1>18, <1>19, <1>20 DEF TimerInv

(* compare_reg_update looks whether the counter has passed it meanwhile.     *)
LEMMA CheckCompareKeepsInv ==
    ASSUME TimerInv, CheckCompare
    PROVE  TimerInv'
  <1>1. /\ TypeInv /\ Places /\ Handling /\ OnSchedule /\ Calls
        /\ Armed /\ Ringing /\ Queueing /\ Writing /\ Checking
    BY DEF TimerInv
  <1>2. /\ swi.at = "check" /\ swi' = [swi EXCEPT !.at = "idle", !.pre = 0] /\ lag' = 0
        /\ UNCHANGED <<timer_list, is_running, m_ticks_latest, m_ticks_elapsed, ops, thread, on, left>>
        /\ rtc' = IF TooClose THEN [rtc EXCEPT !.cc = rtc.counter, !.missed = FALSE, !.pending = TRUE]
                  ELSE rtc
    BY DEF CheckCompare
  <1>3. /\ rtc.counter \in Ticks /\ rtc.cc \in Ticks /\ swi.pre \in Ticks
        /\ lag \in Nat /\ lag <= MaxLag /\ left \in [Timer -> Int]
        /\ SinceLatest \in Nat /\ Looked \in Nat /\ Ahead \in Nat
    BY <1>1, Fields
  <1>4. /\ rtc'.counter = rtc.counter /\ rtc'.running = rtc.running
        /\ TooClose => rtc'.cc = rtc.counter /\ rtc'.pending /\ ~rtc'.missed
        /\ ~TooClose => rtc' = rtc
        /\ swi'.at = "idle" /\ swi'.pre = 0 /\ (swi'.pending <=> swi.pending)
        /\ rtc' \in [counter : Ticks, cc : Ticks, missed : BOOLEAN, running : BOOLEAN, pending : BOOLEAN]
    BY <1>1, <1>2, <1>3 DEF TypeInv
  <1>5. ~swi.pending /\ timer_list # <<>>
    BY <1>1, <1>2 DEF Handling
  <1>6. /\ First \in Timers /\ Timers \subseteq Timer /\ ~HaveElapsed
        /\ \A t \in Timers : left[First] <= left[t]
    <2>1. ~HaveElapsed
      BY <1>1, <1>5 DEF Handling
    <2> QED
      BY <1>5, <2>1, AtHead
  <1>7. /\ Looked <= MaxLag + lag
        /\ \A t \in Timers : left[t] \in Int /\ left[t] + Looked >= 1 - MaxLag
        /\ Diff(rtc.cc, swi.pre) = IF left[First] + Looked > 3 THEN left[First] + Looked ELSE 3
        /\ rtc.pending => TooClose
    BY <1>1, <1>2, <1>3, <1>6 DEF Checking
  <1>8. /\ MaxLag \in Nat /\ MaxLag >= 1 /\ Late \in Nat /\ Late >= 4 * MaxLag - 1
    BY Constants
  <1>9. ~TooClose => /\ Ahead >= 3 /\ left[First] <= Ahead
                     /\ \A t \in Timers : Ahead <= left[t] + MaxLag + 2
    <2> SUFFICES ASSUME ~TooClose
                 PROVE  /\ Ahead >= 3 /\ left[First] <= Ahead
                        /\ \A t \in Timers : Ahead <= left[t] + MaxLag + 2
      OBVIOUS
    <2>1. Diff(rtc.cc, swi.pre) \in Nat
      BY <1>3, DiffIs
    <2>2. Looked + 3 <= Diff(rtc.cc, swi.pre)
      BY <2>1, <1>3 DEF TooClose, Looked, RTC_COMPARE_OFFSET_MIN
    <2>3. Ahead = Diff(rtc.cc, swi.pre) - Looked
      <3>1. Looked <= Diff(rtc.cc, swi.pre)
        BY <1>3, <2>1, <2>2
      <3> QED
        BY <1>3, <3>1, Triangle DEF Ahead, Looked
    <2>4. left[First] \in Int
      BY <1>6, <1>7
    <2>5. CASE left[First] + Looked > 3
      <3>1. Diff(rtc.cc, swi.pre) = left[First] + Looked
        BY <1>7, <2>5
      <3>2. Ahead = left[First]
        BY <2>3, <2>4, <3>1, <1>3
      <3> QED
        BY <2>1, <2>2, <2>3, <2>4, <3>2, <1>3, <1>6, <1>7, <1>8
    <2>6. CASE ~(left[First] + Looked > 3)
      <3>1. Diff(rtc.cc, swi.pre) = 3
        BY <1>7, <2>6
      <3>2. Looked = 0 /\ Ahead = 3
        BY <2>2, <2>3, <3>1, <1>3
      <3> QED
        BY <2>4, <2>6, <3>2, <1>7, <1>8
    <2> QED
      BY <2>5, <2>6
  <1>10. ~rtc'.missed
    <2>1. CASE TooClose
      BY <2>1, <1>4
    <2>2. CASE ~TooClose
      <3>1. Ahead # 1
        BY <2>2, <1>9, <1>3
      <3> QED
        BY <2>2, <3>1, <1>1, <1>4 DEF Handling
    <2> QED
      BY <2>1, <2>2
  <1>11. /\ Timers' = Timers /\ First' = First /\ timer_list' # <<>>
         /\ ~HaveElapsed' /\ Places' /\ Handling' /\ OnSchedule' /\ Calls'
    BY <1>2, <1>4, <1>5, <1>10, CompareKeeps
  <1>12. TypeInv'
    <2>1. lag' \in 0 .. MaxLag /\ 0 \in Ticks
      BY <1>2, Constants DEF Ticks
    <2>2. swi' \in [pending : BOOLEAN, at : {"idle", "write", "check"}, pre : Ticks]
      BY <1>1, <1>2, <2>1 DEF TypeInv
    <2> QED
      BY <1>1, <1>2, <1>4, <2>1, <2>2 DEF TypeInv
  <1>13. Armed'
    <2> SUFFICES ASSUME ~rtc'.pending
                 PROVE  /\ Ahead' >= 1 /\ left'[First] <= Ahead'
                        /\ \A t \in Timers : Ahead' <= left'[t] + MaxLag + 2
      BY <1>11 DEF Armed
    <2>1. ~TooClose /\ Ahead' = Ahead
      BY <1>4 DEF Ahead
    <2>2. Ahead >= 3 => Ahead >= 1
      BY <1>3
    <2> QED
      BY <1>2, <1>9, <2>1, <2>2
  <1>14. Ringing'
    <2> SUFFICES ASSUME rtc'.pending
                 PROVE  Behind' <= lag' /\ \A t \in Timers : left'[t] >= MaxLag - Late - lag'
      BY <1>11 DEF Ringing
    <2>1. TooClose
      BY <1>4, <1>7
    <2>2. Behind' = 0
      BY <1>3, <1>4, <2>1, DiffIs DEF Behind
    <2>3. \A t \in Timers : left[t] >= MaxLag - Late - 0
      BY <1>3, <1>7, <1>8
    <2> QED
      BY <1>2, <2>2, <2>3
  <1>15. Queueing' /\ Writing' /\ Checking'
    BY <1>4, <1>11 DEF Queueing, Writing, Checking
  <1> QED
    BY <1>11, <1>12, <1>13, <1>14, <1>15 DEF TimerInv

(* RTC1_IRQHandler runs the handlers that are due and queues the ticks.      *)
LEMMA TimeoutsKeepInv ==
    ASSUME TimerInv, Timeouts
    PROVE  /\ TimerInv'
           /\ \E due \in SUBSET {t \in on : left[t] <= 0} :
                left' = [t \in Timer |-> IF t \in due THEN left[t] + Interval[t] ELSE left[t]]
  <1> DEFINE count == DueCount(timer_list, SinceLatest)
             due == {timer_list[i].timer : i \in 1 .. count}
             n == Len(timer_list)
  <1>1. /\ TypeInv /\ Places /\ Handling /\ OnSchedule /\ Calls
        /\ Armed /\ Ringing /\ Queueing /\ Writing /\ Checking
    BY DEF TimerInv
  <1>2. /\ rtc.pending /\ swi.at = "idle" /\ lag' = 0
        /\ rtc' = [rtc EXCEPT !.pending = FALSE]
        /\ UNCHANGED <<timer_list, m_ticks_latest, ops, thread, on>>
    BY DEF Timeouts
  <1>3. timer_list # <<>> /\ rtc.running
    <2>1. rtc.running
      BY <1>1, <1>2 DEF Handling, StoppedRtc
    <2> QED
      BY <2>1, <1>1 DEF Handling
  <1>4. /\ is_running' = [t \in Timer |-> is_running[t] /\ t \notin due]
        /\ left' = [t \in Timer |-> IF t \in due /\ is_running[t] THEN left[t] + Interval[t] ELSE left[t]]
        /\ m_ticks_elapsed' = Queued(Due(timer_list, count))
        /\ swi' = [swi EXCEPT !.pending = TRUE]
    BY <1>3 DEF Timeouts, SinceLatest
  <1>5. ~HaveElapsed /\ m_ticks_elapsed = <<>>
    BY <1>1, <1>2 DEF Handling, HaveElapsed
  <1>6. /\ First \in Timers /\ Timers \subseteq Timer /\ Overdue = {} /\ SinceLatest < HalfTurn
        /\ \A t \in Timers : Schedule[t] = SinceLatest + left[t]
        /\ HalfTurn < CounterRange /\ Schedule[First] = timer_list[1].ticks_to_expire
        /\ HalfTurn \in Int
    BY <1>3, <1>5, AtHead, Halves
  <1>7. /\ lag \in Nat /\ lag <= MaxLag /\ left \in [Timer -> Int] /\ is_running \in [Timer -> BOOLEAN]
        /\ SinceLatest \in Nat /\ Behind \in Nat
    BY <1>1, Fields
  <1>8. /\ ListOf(timer_list, Schedule) /\ timer_list \in Seq(Node) /\ n \in Nat
    BY <1>1 DEF OnSchedule, ListOf
  <1>9. count \in 0 .. n /\ {i \in DOMAIN timer_list : Due(timer_list, i) <= SinceLatest} = 1 .. count
    BY <1>7, <1>8, DueAtHead DEF DueCount
  <1>10. /\ Due(timer_list, count) \in Nat /\ Due(timer_list, count) <= SinceLatest
         /\ Due(timer_list, count) \in Ticks
    <2>1. Due(timer_list, count) \in Nat /\ Due(timer_list, 0) = 0
      BY <1>8, <1>9, DueIs
    <2>2. Due(timer_list, count) <= SinceLatest
      <3>1. CASE count = 0
        BY <3>1, <2>1, <1>7
      <3>2. CASE count # 0
        <4>1. count \in 1 .. count
          BY <1>9, <3>2
        <4> HIDE DEF count
        <4> QED
          BY <4>1, <1>9
      <3> QED
        BY <3>1, <3>2
    <2> HIDE DEF count
    <2> QED
      BY <2>1, <2>2, <1>6, <1>7, Constants DEF Ticks
  <1>11. DueCount(timer_list, Due(timer_list, count)) = count
    <2> HIDE DEF count
    <2>1. ASSUME NEW i \in DOMAIN timer_list
          PROVE  Due(timer_list, i) <= Due(timer_list, count) <=> Due(timer_list, i) <= SinceLatest
      <3>1. i \in 1 .. n /\ i \in 0 .. n /\ Due(timer_list, i) \in Nat
        BY <1>8, DueIs
      <3>2. CASE i <= count
        <4>1. i \in 1 .. count /\ count \in i .. n
          BY <1>9, <3>1, <3>2
        <4>2. Due(timer_list, i) <= Due(timer_list, count)
          BY <1>8, <3>1, <4>1, DueInOrder
        <4> QED
          BY <1>9, <4>1, <4>2
      <3>3. CASE ~(i <= count)
        <4>1. i \notin 1 .. count
          BY <1>9, <3>1, <3>3
        <4>2. ~(Due(timer_list, i) <= SinceLatest)
          BY <1>9, <4>1
        <4> QED
          BY <1>7, <1>10, <3>1, <4>2
      <3> QED
        BY <3>2, <3>3
    <2>2. {i \in DOMAIN timer_list : Due(timer_list, i) <= Due(timer_list, count)}
            = {i \in DOMAIN timer_list : Due(timer_list, i) <= SinceLatest}
      BY <2>1
    <2> QED
      BY <2>2 DEF DueCount, count
  <1> HIDE DEF count
  <1>12. m_ticks_elapsed' = <<Due(timer_list, count)>>
    <2>1. Len(<<>>) + 1 < 2
      OBVIOUS
    <2>2. Queued(Due(timer_list, count)) = Append(<<>>, Due(timer_list, count))
      BY <1>5, <2>1 DEF Queued, CONTEXT_QUEUE_SIZE_MAX
    <2> QED
      BY <1>4, <2>2
  <1>13. HaveElapsed' /\ Elapsed' = Due(timer_list, count) /\ Expired' = count /\ Overdue' = due
    <2>1. HaveElapsed'
      BY <1>12 DEF HaveElapsed
    <2>2. Elapsed' = Due(timer_list, count)
      BY <1>12, <2>1 DEF Elapsed
    <2>3. Expired' = count
      BY <1>2, <1>11, <2>1, <2>2 DEF Expired
    <2> QED
      BY <1>2, <2>1, <2>2, <2>3 DEF Overdue
  <1>14. /\ rtc'.counter = rtc.counter /\ rtc'.cc = rtc.cc /\ rtc'.running /\ ~rtc'.pending
         /\ (rtc'.missed <=> rtc.missed)
         /\ swi'.pending /\ swi'.at = "idle" /\ swi'.pre = swi.pre
         /\ rtc' \in [counter : Ticks, cc : Ticks, missed : BOOLEAN, running : BOOLEAN, pending : BOOLEAN]
         /\ swi' \in [pending : BOOLEAN, at : {"idle", "write", "check"}, pre : Ticks]
    BY <1>1, <1>2, <1>3, <1>4 DEF TypeInv
  <1>15. /\ Timers' = Timers /\ First' = First /\ Queue' = Queue /\ SinceLatest' = SinceLatest
         /\ Behind' = Behind
    BY <1>2, <1>14 DEF Timers, First, Queue, SinceLatest, Behind
  <1>16. due \subseteq Timers /\ \A t \in Timers : t \in due <=> left[t] <= 0
    <2>1. due \subseteq Timers
      <3>1. Timers = {timer_list[i].timer : i \in 1 .. n}
        BY <1>8, ListedTimers DEF Timers
      <3>2. \A i \in 1 .. count : i \in 1 .. n
        BY <1>8, <1>9
      <3> HIDE DEF n
      <3> QED
        BY <3>1, <3>2
    <2>2. ASSUME NEW t \in Timers PROVE t \in due <=> left[t] <= 0
      <3>1. PICK i \in DOMAIN timer_list : t = timer_list[i].timer
        BY DEF Timers, TimersIn
      <3>2. i \in 1 .. n /\ i \in Nat
        BY <1>8
      <3>3. Due(timer_list, i) = SinceLatest + left[t] /\ left[t] \in Int
        <4>1. Due(timer_list, i) = Schedule[t]
          BY <1>8, <3>1, <3>2 DEF ListOf
        <4> QED
          BY <4>1, <1>6, <1>7
      <3>4. i \in 1 .. count <=> left[t] <= 0
        <4>1. i \in 1 .. count <=> Due(timer_list, i) <= SinceLatest
          BY <1>9
        <4> QED
          BY <4>1, <3>3, <1>7
      <3>5. t \in due <=> i \in 1 .. count
        <4>1. \A j \in 1 .. count : j \in 1 .. n
          BY <1>8, <1>9
        <4>2. \A j \in 1 .. count : timer_list[j].timer = t => j = i
          BY <1>8, <3>1, <3>2, <4>1 DEF ListOf
        <4> QED
          BY <3>1, <4>2
      <3> QED
        BY <3>4, <3>5
    <2> QED
      BY <2>1, <2>2
  <1> HIDE DEF due
  <1>17. \A t \in Timer : is_running[t] <=> t \in Timers
    BY <1>1, <1>6 DEF Places
  <1>18. left' = [t \in Timer |-> IF t \in due THEN left[t] + Interval[t] ELSE left[t]]
    BY <1>4, <1>16, <1>17
  <1>19. due \in SUBSET {t \in on : left[t] <= 0}
    BY <1>1, <1>16 DEF Places
  <1>20. \A t \in Timer : /\ t \in due => left'[t] = left[t] + Interval[t] /\ left[t] <= 0
                          /\ t \notin due => left'[t] = left[t]
                          /\ left[t] \in Int /\ left[t] >= -(Late + 1) /\ left[t] <= Interval[t]
                          /\ Interval[t] \in Nat /\ Interval[t] > Late
    BY <1>1, <1>7, <1>16, <1>18, Halves DEF TypeInv
  <1>21. Late \in Nat /\ MaxLag \in Nat /\ CallTicks \in Nat
    BY Constants
  <1>22. TypeInv'
    <2>1. left' \in [Timer -> Int] /\ \A t \in Timer : left'[t] >= -(Late + 1) /\ left'[t] <= Interval[t]
      <3>1. left' \in [Timer -> Int]
        BY <1>18, <1>20
      <3> QED
        BY <1>20, <1>21, <3>1
    <2>2. is_running' \in [Timer -> BOOLEAN]
      BY <1>4
    <2>3. m_ticks_elapsed' \in Seq(Ticks) /\ Len(m_ticks_elapsed') <= 1
      BY <1>10, <1>12
    <2>4. lag' \in 0 .. MaxLag
      BY <1>2, <1>21
    <2> QED
      BY <1>1, <1>2, <1>14, <2>1, <2>2, <2>3, <2>4 DEF TypeInv
  <1>23. Places'
    <2>1. \A t \in Timer : is_running'[t] <=> t \in Timers \ due
      BY <1>4, <1>17
    <2> QED
      BY <1>1, <1>2, <1>13, <1>14, <1>15, <2>1 DEF Places
  <1>24. Handling'
    <2>1. ~rtc'.missed
      BY <1>1, <1>2, <1>14 DEF Handling
    <2> QED
      BY <1>2, <1>3, <1>13, <1>14, <2>1 DEF Handling
  <1>25. OnSchedule'
    <2>1. ASSUME NEW t \in Timers PROVE Schedule'[t] = Schedule[t]
      <3>1. Schedule'[t] = SinceLatest + left'[t] - IF t \in due THEN Interval[t] ELSE 0
        BY <1>6, <1>13, <1>15 DEF Schedule
      <3>2. Schedule[t] = SinceLatest + left[t]
        BY <1>6
      <3> QED
        BY <1>6, <1>7, <1>20, <3>1, <3>2
    <2>2. ListOf(timer_list, Schedule')
      BY <1>8, <2>1, SameSchedule DEF Timers
    <2>3. SinceLatest >= Due(timer_list, count) + 0
      BY <1>7, <1>10
    <2>4. SinceLatest <= timer_list[1].ticks_to_expire + Late + 0
      <3>1. left[First] >= MaxLag - Late - lag
        BY <1>1, <1>2, <1>3, <1>6 DEF Ringing
      <3>2. timer_list[1].ticks_to_expire = SinceLatest + left[First] /\ left[First] \in Int
        BY <1>6, <1>20
      <3> QED
        BY <3>1, <3>2, <1>7, <1>21
    <2>5. \E t \in Timer : timer_list[1].ticks_to_expire <= Interval[t]
      BY <1>1, <1>3 DEF OnSchedule
    <2> QED
      BY <1>2, <1>13, <1>15, <2>2, <2>3, <2>4, <2>5 DEF OnSchedule
  <1>26. Calls'
    <2>1. ASSUME NEW op \in Queue
          PROVE  /\ Diff(rtc.counter, op.at_start) = Interval[op.timer] - left'[op.timer]
                 /\ Diff(rtc.counter, op.at_start) <= CallTicks + 0 + MaxLag
      <3>1. op.timer \in Timer /\ op.at_start \in Ticks /\ op.timer \in StartedBy(ops)
        BY <1>1, QueueIs
      <3>2. op.timer \notin due
        BY <1>1, <1>16, <3>1 DEF Places
      <3>3. Diff(rtc.counter, op.at_start) \in Nat
        BY <1>1, <3>1, Fields, DiffIs
      <3>4. /\ Diff(rtc.counter, op.at_start) = Interval[op.timer] - left[op.timer]
            /\ Diff(rtc.counter, op.at_start) <= CallTicks + lag + 0
        BY <1>1, <1>5 DEF Calls
      <3>5. left'[op.timer] = left[op.timer]
        BY <1>20, <3>1, <3>2
      <3> QED
        BY <3>3, <3>4, <3>5, <1>7, <1>21
    <2>2. thread # NoOp => left'[thread.timer] = left[thread.timer]
      <3> SUFFICES ASSUME thread # NoOp PROVE left'[thread.timer] = left[thread.timer]
        OBVIOUS
      <3>1. thread.timer \in Timer /\ thread.timer \notin due
        BY <1>1, <1>16 DEF TypeInv, Places, Op
      <3> QED
        BY <3>1, <1>20
    <2>3. thread # NoOp =>
            /\ Diff(rtc.counter, thread.at_start) = Interval[thread.timer] - left[thread.timer]
            /\ Diff(rtc.counter, thread.at_start) <= CallTicks
      BY <1>1 DEF Calls
    <2> QED
      BY <1>2, <1>13, <1>14, <1>15, <2>1, <2>2, <2>3 DEF Calls
  <1>27. Queueing'
    <2>1. Behind <= lag
      BY <1>1, <1>2, <1>3 DEF Ringing
    <2>2. Behind <= MaxLag + 0
      BY <2>1, <1>7, <1>21
    <2>3. \A t \in Timers : left'[t] >= 1 - 0
      <3> SUFFICES ASSUME NEW t \in Timers PROVE left'[t] >= 1
        OBVIOUS
      <3>1. t \in Timer
        BY <1>6
      <3>2. CASE t \in due
        <4>1. left'[t] = left[t] + Interval[t] /\ left[t] \in Int /\ Interval[t] \in Nat /\ Interval[t] > Late
          BY <1>20, <3>1, <3>2
        <4>2. left[t] >= MaxLag - Late - lag
          BY <1>1, <1>2, <1>3 DEF Ringing
        <4> QED
          BY <4>1, <4>2, <1>7, <1>21
      <3>3. CASE t \notin due
        <4>1. left'[t] = left[t] /\ left[t] \in Int /\ ~(left[t] <= 0)
          BY <1>16, <1>20, <3>1, <3>3
        <4> QED
          BY <4>1
      <3> QED
        BY <3>2, <3>3
    <2> QED
      BY <1>2, <1>15, <2>2, <2>3 DEF Queueing
  <1>28. Armed' /\ Ringing' /\ Writing' /\ Checking'
    BY <1>13, <1>14 DEF Armed, Ringing, Writing, Checking
  <1> QED
    BY <1>18, <1>19, <1>22, <1>23, <1>24, <1>25, <1>26, <1>27, <1>28 DEF TimerInv

(* The ticks that the SWI handler takes.                                     *)
LEMMA ElapsedIs ==
    ASSUME TimerInv
    PROVE  /\ Expired \in 0 .. Len(timer_list) /\ Len(timer_list) \in Nat
           /\ Elapsed = Due(timer_list, Expired)
           /\ Elapsed \in Nat /\ Elapsed <= SinceLatest
           /\ HaveElapsed => Elapsed + lag <= SinceLatest
           /\ Timers \ Overdue = {timer_list[i].timer : i \in Expired + 1 .. Len(timer_list)}
           /\ Overdue \subseteq Timers /\ Timers \subseteq Timer
           /\ SinceLatest \in Ticks
           /\ timer_list = <<>> => SinceLatest = 0
  <1> DEFINE n == Len(timer_list)
  <1>1. TypeInv /\ Handling /\ OnSchedule /\ ListOf(timer_list, Schedule)
    BY DEF TimerInv, OnSchedule
  <1>2. timer_list \in Seq(Node) /\ n \in Nat
    BY <1>1 DEF ListOf
  <1>3. SinceLatest \in Nat /\ lag \in Nat /\ SinceLatest \in Ticks
    BY <1>1, Fields, DiffIs DEF SinceLatest, Ticks
  <1>4. Elapsed \in Nat
    <2>1. HaveElapsed => Elapsed \in Ticks
      BY <1>1 DEF TypeInv, Elapsed, HaveElapsed
    <2> QED
      BY <2>1 DEF Elapsed, Ticks
  <1>5. Expired \in 0 .. n
    <2>1. CASE HaveElapsed
      <3>1. Expired = DueCount(timer_list, Elapsed) /\ Elapsed \in Int
        BY <2>1, <1>4 DEF Expired
      <3> QED
        BY <3>1, <1>2, DueAtHead DEF DueCount
    <2>2. CASE ~HaveElapsed
      BY <2>2, <1>2 DEF Expired
    <2> QED
      BY <2>1, <2>2
  <1>6. Elapsed = Due(timer_list, Expired)
    <2>1. CASE HaveElapsed
      BY <2>1, <1>1 DEF Handling
    <2>2. CASE ~HaveElapsed
      <3>1. Elapsed = 0 /\ Expired = 0
        BY <2>2 DEF Elapsed, Expired
      <3>2. Due(timer_list, 0) = 0
        BY <1>2, DueIs
      <3> QED
        BY <3>1, <3>2
    <2> QED
      BY <2>1, <2>2
  <1>7. (HaveElapsed => Elapsed + lag <= SinceLatest) /\ Elapsed <= SinceLatest
    <2>1. HaveElapsed => SinceLatest >= Elapsed + lag
      BY <1>1 DEF OnSchedule
    <2>2. ~HaveElapsed => Elapsed = 0
      BY DEF Elapsed
    <2> QED
      BY <1>3, <1>4, <2>1, <2>2
  <1>8. Timers = {timer_list[i].timer : i \in 1 .. n} /\ Timers \subseteq Timer
    BY <1>2, ListedTimers DEF Timers
  <1>9. /\ \A i \in 1 .. Expired : i \in 1 .. n
        /\ \A i \in Expired + 1 .. n : i \in 1 .. n /\ i \notin 1 .. Expired
        /\ \A i \in 1 .. n : i \in 1 .. Expired \/ i \in Expired + 1 .. n
    BY <1>2, <1>5
  <1>10. \A i, j \in 1 .. n : timer_list[i].timer = timer_list[j].timer => i = j
    BY <1>1 DEF ListOf
  <1>11. Overdue \subseteq Timers
    <2> HIDE DEF n
    <2> QED
      BY <1>8, <1>9 DEF Overdue
  <1>12. Timers \ Overdue = {timer_list[i].timer : i \in Expired + 1 .. n}
    <2> HIDE DEF n
    <2> QED
      BY <1>8, <1>9, <1>10 DEF Overdue
  <1>13. timer_list = <<>> => SinceLatest = 0
    <2> SUFFICES ASSUME timer_list = <<>> PROVE SinceLatest = 0
      OBVIOUS
    <2>1. rtc = StoppedRtc /\ m_ticks_latest = 0
      BY <1>1 DEF Handling
    <2>2. rtc.counter = 0 /\ 0 \in Ticks
      BY <2>1, <1>1, Constants DEF StoppedRtc, Ticks
    <2> QED
      BY <2>1, <2>2, DiffIs DEF SinceLatest
  <1> QED
    BY <1>2, <1>3, <1>4, <1>5, <1>6, <1>7, <1>8, <1>11, <1>12, <1>13

(* When the timers are due from the ticks on that are being dealt with.      *)
NewLatest == (m_ticks_latest + Elapsed) % CounterRange
NewSchedule == [t \in Timer |-> left[t] + (SinceLatest - Elapsed)]

(* elapsed_ticks_acquire: the ticks from which the list counts then.         *)
LEMMA NewLatestIs ==
    ASSUME TimerInv
    PROVE  /\ NewLatest \in Ticks
           /\ Diff(NewLatest, m_ticks_latest) = Elapsed
           /\ Diff(rtc.counter, NewLatest) = SinceLatest - Elapsed
  <1>1. /\ Elapsed \in Nat /\ Elapsed <= SinceLatest /\ SinceLatest \in Ticks
    BY ElapsedIs
  <1>2. TypeInv
    BY DEF TimerInv
  <1>3. m_ticks_latest \in Ticks /\ rtc.counter \in Ticks
    BY <1>2, Fields
  <1>4. Elapsed \in 0 .. CounterRange - 1
    BY <1>1, Constants DEF Ticks
  <1>5. NewLatest \in Ticks /\ Diff(NewLatest, m_ticks_latest) = Elapsed
    BY <1>3, <1>4, Advanced DEF NewLatest
  <1>6. Diff(rtc.counter, NewLatest) = Diff(rtc.counter, m_ticks_latest) - Diff(NewLatest, m_ticks_latest)
    <2>1. Diff(NewLatest, m_ticks_latest) <= Diff(rtc.counter, m_ticks_latest)
      BY <1>1, <1>5 DEF SinceLatest
    <2> QED
      BY <1>3, <1>5, <2>1, Triangle
  <1> QED
    BY <1>5, <1>6 DEF SinceLatest

(* A timer that is started again comes an interval after it was due.         *)
LEMMA RestartOnTime ==
    ASSUME TimerInv, NEW i \in 1 .. Expired,
           NEW start, start = [timer |-> timer_list[i].timer, at_start |-> RestartedFrom(i)]
    PROVE  /\ start \in Op
           /\ NodeOf(start, NewLatest) \in Node
           /\ NodeOf(start, NewLatest).ticks_to_expire = NewSchedule[start.timer]
           /\ Expired = i => NewSchedule[start.timer] = Interval[start.timer]
  <1> DEFINE t == timer_list[i].timer
             at == RestartedFrom(i)
             back == Elapsed - Due(timer_list, i)
  <1>1. TypeInv /\ OnSchedule /\ ListOf(timer_list, Schedule) /\ timer_list \in Seq(Node)
    BY DEF TimerInv, OnSchedule, ListOf
  <1>2. /\ Expired \in 0 .. Len(timer_list) /\ Elapsed = Due(timer_list, Expired)
        /\ Elapsed \in Nat /\ Elapsed <= SinceLatest /\ SinceLatest \in Ticks
        /\ Overdue \subseteq Timers /\ Timers \subseteq Timer
        /\ HaveElapsed => Elapsed + lag <= SinceLatest
    BY ElapsedIs
  <1>3. i \in 1 .. Len(timer_list) /\ i \in 0 .. Len(timer_list) /\ Expired \in i .. Len(timer_list)
        /\ 1 \in 0 .. Len(timer_list) /\ i \in 1 .. Len(timer_list) /\ 1 \in 1 .. Len(timer_list)
        /\ timer_list # <<>>
    BY <1>1, <1>2
  <1>4. t \in Overdue /\ t \in Timer
    BY <1>2 DEF Overdue
  <1>5. /\ Due(timer_list, i) \in Nat /\ Due(timer_list, i) <= Elapsed
        /\ Due(timer_list, 1) <= Due(timer_list, i) /\ Due(timer_list, 1) \in Nat
    BY <1>1, <1>2, <1>3, DueIs, DueInOrder
  <1>6. Due(timer_list, 1) = timer_list[1].ticks_to_expire
    <2>1. Schedule[timer_list[1].timer] = timer_list[1].ticks_to_expire
      BY <1>1, <1>3, HeadIsFirst
    <2> QED
      BY <1>1, <1>3, <2>1 DEF ListOf
  <1>7. HaveElapsed
    BY <1>2, <1>3 DEF Expired
  <1>8. /\ left[t] \in Int /\ Interval[t] \in Nat /\ Interval[t] > Late /\ Interval[t] + Late + MaxLag < HalfTurn
        /\ HalfTurn \in Int /\ 2 * HalfTurn <= CounterRange - 1 /\ Late \in Nat /\ MaxLag \in Nat
        /\ CounterRange \in Nat /\ SinceLatest \in Nat /\ lag \in Nat
    BY <1>1, <1>4, Fields, Halves, Constants
  <1>9. back \in Nat /\ back <= Late
    <2> DEFINE due == Due(timer_list, i)
               first == Due(timer_list, 1)
    <2>1. SinceLatest <= first + Late + lag
      BY <1>1, <1>6, <1>7 DEF OnSchedule
    <2>2. /\ due \in Nat /\ first \in Nat /\ due <= Elapsed /\ first <= due
          /\ Elapsed \in Nat /\ Elapsed + lag <= SinceLatest
      BY <1>2, <1>5, <1>7
    <2>3. SinceLatest \in Nat /\ lag \in Nat /\ Late \in Nat
      BY <1>8
    <2> HIDE DEF due, first
    <2>4. Elapsed - due \in Nat /\ Elapsed - due <= Late
      BY <2>1, <2>2, <2>3
    <2> QED
      BY <2>4 DEF due
  <1>10. at \in Ticks /\ Diff(NewLatest, at) = back /\ NewLatest \in Ticks /\ Diff(NewLatest, NewLatest) = 0
    <2>1. Due(timer_list, i) \in 0 .. CounterRange - 1
      BY <1>2, <1>5, <1>8 DEF Ticks
    <2>2. m_ticks_latest \in Ticks
      BY <1>1, Fields
    <2>3. at \in Ticks /\ Diff(at, m_ticks_latest) = Due(timer_list, i)
      BY <2>1, <2>2, Advanced DEF RestartedFrom
    <2>4. NewLatest \in Ticks /\ Diff(NewLatest, m_ticks_latest) = Elapsed
      BY NewLatestIs
    <2>5. Diff(NewLatest, at) = Elapsed - Due(timer_list, i)
      <3>1. Diff(at, m_ticks_latest) <= Diff(NewLatest, m_ticks_latest)
        BY <1>5, <2>3, <2>4
      <3>2. Diff(NewLatest, at) = Diff(NewLatest, m_ticks_latest) - Diff(at, m_ticks_latest)
        BY <2>2, <2>3, <2>4, <3>1, Triangle
      <3> QED
        BY <2>3, <2>4, <3>2
    <2> QED
      BY <2>3, <2>4, <2>5, DiffIs
  <1>11. /\ ToExpire(at, Interval[t], NewLatest) = 0 - back + Interval[t]
         /\ ToExpire(at, Interval[t], NewLatest) \in Nat
    <2>1. 0 < HalfTurn /\ back <= HalfTurn /\ Interval[t] > back - 0
      BY <1>8, <1>9
    <2> HIDE DEF at, t, back
    <2> QED
      BY <1>8, <1>10, <2>1, ToExpireIs DEF HalfTurn
  <1>12. Due(timer_list, i) = SinceLatest + left[t] - Interval[t]
    <2>1. Due(timer_list, i) = Schedule[t]
      BY <1>1, <1>3 DEF ListOf
    <2> QED
      BY <1>4, <2>1 DEF Schedule
  <1>13. NewSchedule[t] = left[t] + (SinceLatest - Elapsed)
    BY <1>4 DEF NewSchedule
  <1>14. 0 - back + Interval[t] = NewSchedule[t]
    <2> DEFINE due == Due(timer_list, i)
               x == Interval[t]
               y == left[t]
    <2>1. /\ due \in Nat /\ due = SinceLatest + y - x /\ x \in Nat /\ y \in Int
          /\ Elapsed \in Nat /\ SinceLatest \in Nat
      BY <1>2, <1>5, <1>8, <1>12
    <2>2. NewSchedule[t] = y + (SinceLatest - Elapsed) /\ back = Elapsed - due
      BY <1>13
    <2> HIDE DEF due, x, y, back
    <2>3. 0 - back + x = y + (SinceLatest - Elapsed)
      BY <2>1, <2>2
    <2> QED
      BY <2>2, <2>3 DEF x
  <1>15. start.timer = t /\ start.at_start = at /\ start \in Op
    BY <1>4, <1>10 DEF Op
  <1>16. Expired = i => NewSchedule[t] = Interval[t]
    <2> SUFFICES ASSUME Expired = i PROVE NewSchedule[t] = Interval[t]
      OBVIOUS
    <2>1. back = 0
      BY <1>2, <1>5
    <2> HIDE DEF back, t
    <2> QED
      BY <1>8, <1>14, <2>1
  <1> HIDE DEF at, t, back
  <1>17. NodeOf(start, NewLatest) = [timer |-> t, ticks_to_expire |-> NewSchedule[t]]
    BY <1>11, <1>14, <1>15 DEF NodeOf
  <1>18. NewSchedule[t] \in Nat
    BY <1>11, <1>14
  <1> QED
    BY <1>4, <1>15, <1>16, <1>17, <1>18 DEF Node

(* A timer that is started comes an interval after the call.                 *)
LEMMA StartOnTime ==
    ASSUME TimerInv, swi.pending, NEW op \in Queue
    PROVE  /\ NodeOf(op, NewLatest) \in Node
           /\ NodeOf(op, NewLatest).ticks_to_expire = NewSchedule[op.timer]
           /\ left[op.timer] >= 1 - lag
           /\ ~HaveElapsed => left[op.timer] >= 1
  <1> DEFINE t == op.timer
             age == Diff(rtc.counter, op.at_start)
             gone == SinceLatest - Elapsed
  <1>1. TypeInv /\ Calls
    BY DEF TimerInv
  <1>2. t \in Timer /\ op.at_start \in Ticks
    BY <1>1, QueueIs
  <1>3. /\ Elapsed \in Nat /\ Elapsed <= SinceLatest /\ SinceLatest \in Ticks
        /\ HaveElapsed => Elapsed + lag <= SinceLatest
        /\ timer_list = <<>> => SinceLatest = 0
    BY ElapsedIs
  <1>4. /\ left[t] \in Int /\ Interval[t] \in Nat
        /\ Interval[t] > CallTicks + MaxLag /\ Interval[t] + Late + MaxLag < HalfTurn
        /\ HalfTurn \in Int /\ 2 * HalfTurn <= CounterRange - 1
        /\ Late \in Nat /\ MaxLag \in Nat /\ CallTicks \in Nat
        /\ SinceLatest \in Nat /\ lag \in Nat /\ lag <= MaxLag
        /\ rtc.counter \in Ticks
    BY <1>1, <1>2, Fields, Halves, Constants
  <1>5. age = Interval[t] - left[t]
    BY <1>1 DEF Calls
  <1>6. /\ age \in Nat
        /\ HaveElapsed => age <= CallTicks + lag + MaxLag
        /\ ~HaveElapsed => age <= CallTicks + lag
    <2>1. age \in Nat
      BY <1>2, <1>4, DiffIs
    <2>2. age <= CallTicks + lag + IF HaveElapsed THEN MaxLag ELSE 0
      BY <1>1 DEF Calls
    <2> HIDE DEF age
    <2> QED
      BY <1>4, <2>1, <2>2
  <1>7. SinceLatest < HalfTurn
    <2>1. CASE timer_list = <<>>
      BY <2>1, <1>3, <1>4
    <2>2. CASE timer_list # <<>>
      BY <2>2, AtHead
    <2> QED
      BY <2>1, <2>2
  <1>8. /\ NewLatest \in Ticks /\ Diff(rtc.counter, NewLatest) = gone
    BY NewLatestIs
  <1> HIDE DEF age
  <1>9. gone \in Nat /\ gone < HalfTurn /\ age <= HalfTurn /\ Interval[t] > age - gone
    <2>1. HaveElapsed => gone >= lag
      BY <1>3, <1>4
    <2>2. gone \in Nat /\ gone < HalfTurn
      BY <1>3, <1>4, <1>7
    <2> HIDE DEF gone
    <2> QED
      BY <1>4, <1>6, <2>1, <2>2
  <1>10. /\ ToExpire(op.at_start, Interval[t], NewLatest) = gone - age + Interval[t]
         /\ ToExpire(op.at_start, Interval[t], NewLatest) \in Nat
    <2> HIDE DEF gone, t
    <2> QED
      BY <1>2, <1>4, <1>8, <1>9, ToExpireIs DEF HalfTurn, age
  <1>11. gone - age + Interval[t] = NewSchedule[t]
    <2>1. NewSchedule[t] = left[t] + gone
      BY <1>2 DEF NewSchedule
    <2> HIDE DEF gone
    <2> QED
      BY <1>4, <1>5, <1>9, <2>1
  <1>12. NodeOf(op, NewLatest) = [timer |-> t, ticks_to_expire |-> NewSchedule[t]]
    BY <1>10, <1>11 DEF NodeOf
  <1>13. NodeOf(op, NewLatest) \in Node
    BY <1>2, <1>10, <1>11, <1>12 DEF Node
  <1>14. left[t] >= 1 - lag /\ (~HaveElapsed => left[t] >= 1)
    BY <1>4, <1>5, <1>6
  <1> QED
    BY <1>12, <1>13, <1>14

(* expired_timers_handler: the timers that stay have the ticks left to them. *)
LEMMA RemainingIs ==
    ASSUME TimerInv
    PROVE  /\ ListOf(Remaining, NewSchedule)
           /\ TimersIn(Remaining) = Timers \ Overdue
           /\ ~HaveElapsed => Remaining = timer_list
  <1> DEFINE n == Len(timer_list)
             k == Expired
             rest == SubSeq(timer_list, k + 1, n)
  <1>1. ListOf(timer_list, Schedule) /\ timer_list \in Seq(Node) /\ TypeInv
    BY DEF TimerInv, OnSchedule, ListOf
  <1>2. /\ k \in 0 .. n /\ n \in Nat /\ Elapsed = Due(timer_list, k)
        /\ Elapsed \in Nat /\ Elapsed <= SinceLatest /\ SinceLatest \in Ticks
        /\ Timers \ Overdue = {timer_list[i].timer : i \in k + 1 .. n}
        /\ Timers \subseteq Timer
    BY ElapsedIs
  <1>3. ASSUME NEW i \in k + 1 .. n
        PROVE  NewSchedule[timer_list[i].timer] = Due(timer_list, i) - Due(timer_list, k)
    <2> DEFINE t == timer_list[i].timer
    <2>1. t \in Timers \ Overdue /\ t \in Timer /\ i \in 1 .. n
      BY <1>2
    <2>2. Due(timer_list, i) = Schedule[t]
      BY <1>1, <2>1 DEF ListOf
    <2>3. left[t] \in Int /\ SinceLatest \in Nat
      BY <1>1, <2>1, Fields
    <2>4. Schedule[t] = SinceLatest + left[t]
      <3>1. Schedule[t] = SinceLatest + left[t] - 0
        BY <2>1 DEF Schedule
      <3> QED
        BY <2>3, <3>1
    <2>5. NewSchedule[t] = left[t] + (SinceLatest - Elapsed)
      BY <2>1 DEF NewSchedule
    <2> HIDE DEF t, k
    <2>6. left[t] + (SinceLatest - Elapsed) = (SinceLatest + left[t]) - Elapsed
      BY <1>2, <2>3
    <2> QED
      BY <1>2, <2>2, <2>4, <2>5, <2>6 DEF t
  <1>4. /\ ListOf(rest, NewSchedule)
        /\ TimersIn(rest) = {timer_list[i].timer : i \in k + 1 .. n}
    <2>1. k \in 0 .. Len(timer_list)
      BY <1>2
    <2>2. \A i \in k + 1 .. Len(timer_list) :
            NewSchedule[timer_list[i].timer] = Due(timer_list, i) - Due(timer_list, k)
      BY <1>3
    <2> HIDE DEF k
    <2> QED
      BY <1>1, <2>1, <2>2, RestOf
  <1>5. Remaining = rest
    <2>1. CASE rest = <<>>
      BY <2>1 DEF Remaining
    <2>2. CASE rest # <<>>
      <3>1. rest \in Seq(Node) /\ rest[1] \in Node
        BY <1>4, <2>2, HeadIsFirst DEF ListOf
      <3> HIDE DEF rest
      <3>2. rest[1].ticks_to_expire - (Elapsed - Due(timer_list, Expired)) = rest[1].ticks_to_expire
        <4>1. Elapsed - Due(timer_list, Expired) = 0
          BY <1>2
        <4>2. rest[1].ticks_to_expire \in Nat
          BY <3>1 DEF Node
        <4> QED
          BY <4>1, <4>2
      <3>3. Remaining = [rest EXCEPT ![1] = [rest[1] EXCEPT !.ticks_to_expire = rest[1].ticks_to_expire]]
        BY <2>2, <3>2 DEF Remaining, rest
      <3>4. [rest[1] EXCEPT !.ticks_to_expire = rest[1].ticks_to_expire] = rest[1]
        BY <3>1 DEF Node
      <3>5. [rest EXCEPT ![1] = rest[1]] = rest
        BY <3>1
      <3> QED
        BY <3>3, <3>4, <3>5
    <2> QED
      BY <2>1, <2>2
  <1>6. ~HaveElapsed => rest = timer_list
    <2>1. ~HaveElapsed => k = 0
      BY DEF Expired
    <2>2. SubSeq(timer_list, 0 + 1, n) = timer_list
      BY <1>1
    <2> QED
      BY <2>1, <2>2
  <1> QED
    BY <1>2, <1>4, <1>5, <1>6

(* The operations that timer_list_handler carries out.                       *)
LEMMA StartsAre ==
    ASSUME TimerInv, swi.pending
    PROVE  LET starts == Restarts \o ops
           IN  /\ starts \in Seq(Op)
               /\ \A i, j \in 1 .. Len(starts) : starts[i].timer = starts[j].timer => i = j
               /\ \A i \in 1 .. Len(starts) :
                    /\ starts[i].timer \notin TimersIn(Remaining)
                    /\ NodeOf(starts[i], NewLatest) \in Node
                    /\ NewSchedule[starts[i].timer] = NodeOf(starts[i], NewLatest).ticks_to_expire
               /\ StartedBy(starts) = Overdue \cup StartedBy(ops)
               /\ ~HaveElapsed => starts = ops
  <1> DEFINE n == Len(timer_list)
             k == Expired
             rec(i) == [timer |-> timer_list[i].timer, at_start |-> RestartedFrom(i)]
             due == [i \in 1 .. k |-> rec(i)]
             starts == Restarts \o ops
  <1>1. /\ TypeInv /\ Places /\ ListOf(timer_list, Schedule)
        /\ ops \in Seq(Op) /\ Len(ops) \in Nat /\ Len(ops) <= 1
    BY DEF TimerInv, OnSchedule, TypeInv
  <1>2. k \in 0 .. n /\ n \in Nat /\ Overdue \subseteq Timers
    BY ElapsedIs
  <1>3. \A i \in 1 .. k : /\ rec(i) \in Op
                          /\ NodeOf(rec(i), NewLatest) \in Node
                          /\ NodeOf(rec(i), NewLatest).ticks_to_expire = NewSchedule[rec(i).timer]
    BY RestartOnTime
  <1>4. due \in Seq(Op) /\ Len(due) = k
    BY <1>2, <1>3
  <1>5. Restarts = [i \in 1 .. k |-> due[(k - i) + 1]]
    <2> HIDE DEF k
    <2>1. Restarts = Reverse(due)
      BY DEF Restarts, k
    <2> HIDE DEF due
    <2> QED
      BY <1>4, <2>1 DEF Reverse
  <1>6. \A i \in 1 .. k : (k - i) + 1 \in 1 .. k /\ (k - ((k - i) + 1)) + 1 = i
    BY <1>2
  <1>7. \A i \in 1 .. k : Restarts[i] = rec((k - i) + 1)
    <2> HIDE DEF k, rec
    <2>1. \A i \in 1 .. k : Restarts[i] = due[(k - i) + 1]
      <3> HIDE DEF due
      <3> QED
        BY <1>5
    <2> QED
      BY <1>6, <2>1
  <1> HIDE DEF k, rec
  <1>8. Restarts \in Seq(Op) /\ Len(Restarts) = k
    <2>1. \A i \in 1 .. k : due[(k - i) + 1] \in Op
      BY <1>3, <1>6
    <2> HIDE DEF due
    <2>2. Restarts \in [1 .. k -> Op]
      BY <1>5, <2>1
    <2> QED
      BY <1>2, <2>2
  <1>9. /\ starts \in Seq(Op) /\ Len(starts) = k + Len(ops)
        /\ \A i \in 1 .. k : starts[i] = Restarts[i]
        /\ \A i \in k + 1 .. k + Len(ops) : starts[i] = ops[i - k]
    BY <1>1, <1>2, <1>8
  <1> HIDE DEF starts
  <1>10. \A i \in 1 .. Len(starts) : \/ i \in 1 .. k
                                     \/ i = k + 1 /\ i \in k + 1 .. k + Len(ops) /\ i - k = 1 /\ 1 \in DOMAIN ops
    BY <1>1, <1>2, <1>9
  <1>11. \A i \in 1 .. k : /\ starts[i] = rec((k - i) + 1) /\ (k - i) + 1 \in 1 .. k
                           /\ starts[i].timer = timer_list[(k - i) + 1].timer
                           /\ starts[i].timer \in Overdue
    <2> SUFFICES ASSUME NEW i \in 1 .. k
                 PROVE  /\ starts[i] = rec((k - i) + 1) /\ (k - i) + 1 \in 1 .. k
                        /\ starts[i].timer = timer_list[(k - i) + 1].timer
                        /\ starts[i].timer \in Overdue
      OBVIOUS
    <2>1. starts[i] = rec((k - i) + 1) /\ (k - i) + 1 \in 1 .. k
      BY <1>6, <1>7, <1>9
    <2>2. starts[i].timer = timer_list[(k - i) + 1].timer
      BY <2>1 DEF rec
    <2> QED
      BY <2>1, <2>2 DEF Overdue, k
  <1>12. 1 \in DOMAIN ops => ops[1] \in Queue /\ ops[1].timer \in StartedBy(ops)
    BY DEF Queue, StartedBy
  <1>13. Overdue \cap StartedBy(ops) = {} /\ Timers \cap StartedBy(ops) = {}
    BY <1>1, <1>2 DEF Places
  <1>14. TimersIn(Remaining) = Timers \ Overdue
    BY RemainingIs
  <1>15. ASSUME NEW i \in 1 .. Len(starts)
         PROVE  /\ starts[i].timer \notin TimersIn(Remaining)
                /\ NodeOf(starts[i], NewLatest) \in Node
                /\ NewSchedule[starts[i].timer] = NodeOf(starts[i], NewLatest).ticks_to_expire
    <2>1. CASE i \in 1 .. k
      BY <2>1, <1>3, <1>11, <1>14
    <2>2. CASE i = k + 1 /\ i \in k + 1 .. k + Len(ops) /\ i - k = 1 /\ 1 \in DOMAIN ops
      <3>1. starts[i] = ops[1] /\ ops[1] \in Queue /\ ops[1].timer \in StartedBy(ops)
        BY <2>2, <1>9, <1>12
      <3>2. /\ NodeOf(ops[1], NewLatest) \in Node
            /\ NodeOf(ops[1], NewLatest).ticks_to_expire = NewSchedule[ops[1].timer]
        BY <3>1, StartOnTime
      <3> QED
        BY <3>1, <3>2, <1>13, <1>14
    <2> QED
      BY <2>1, <2>2, <1>10
  <1>16. ASSUME NEW i \in 1 .. Len(starts), NEW j \in 1 .. Len(starts),
                starts[i].timer = starts[j].timer
         PROVE  i = j
    <2>1. \A m \in 1 .. Len(starts) :
            m \notin 1 .. k => m = k + 1 /\ starts[m].timer \in StartedBy(ops)
      BY <1>9, <1>10, <1>12
    <2>2. CASE i \in 1 .. k /\ j \in 1 .. k
      <3>1. (k - i) + 1 \in 1 .. n /\ (k - j) + 1 \in 1 .. n
        BY <2>2, <1>2
      <3>2. timer_list[(k - i) + 1].timer = timer_list[(k - j) + 1].timer
        BY <2>2, <1>11, <1>16
      <3>3. (k - i) + 1 = (k - j) + 1
        BY <3>1, <3>2, <1>1 DEF ListOf
      <3> QED
        BY <2>2, <3>3, <1>2
    <2>3. CASE i \in 1 .. k /\ j \notin 1 .. k
      BY <2>1, <2>3, <1>11, <1>13, <1>16
    <2>4. CASE i \notin 1 .. k /\ j \in 1 .. k
      BY <2>1, <2>4, <1>11, <1>13, <1>16
    <2>5. CASE i \notin 1 .. k /\ j \notin 1 .. k
      BY <2>1, <2>5
    <2> QED
      BY <2>2, <2>3, <2>4, <2>5
  <1>17. StartedBy(starts) = Overdue \cup StartedBy(ops)
    <2>1. DOMAIN starts = 1 .. Len(starts) /\ DOMAIN ops = 1 .. Len(ops)
      BY <1>1, <1>9
    <2>2. ASSUME NEW i \in 1 .. Len(starts) PROVE starts[i].timer \in Overdue \cup StartedBy(ops)
      BY <1>9, <1>10, <1>11, <1>12
    <2>3. ASSUME NEW t \in Overdue PROVE \E i \in 1 .. Len(starts) : starts[i].timer = t
      <3>1. PICK j \in 1 .. k : t = timer_list[j].timer
        BY DEF Overdue, k
      <3>2. (k - j) + 1 \in 1 .. k /\ (k - ((k - j) + 1)) + 1 = j
        BY <1>6
      <3>3. starts[(k - j) + 1].timer = timer_list[j].timer
        BY <3>2, <1>11
      <3>4. (k - j) + 1 \in 1 .. Len(starts)
        BY <3>2, <1>1, <1>2, <1>9
      <3> QED
        BY <3>1, <3>3, <3>4
    <2>4. ASSUME NEW j \in 1 .. Len(ops) PROVE \E i \in 1 .. Len(starts) : starts[i].timer = ops[j].timer
      <3>1. k + j \in k + 1 .. k + Len(ops) /\ (k + j) - k = j /\ k + j \in 1 .. Len(starts)
        BY <1>1, <1>2, <1>9
      <3> QED
        BY <3>1, <1>9
    <2>5. StartedBy(starts) = {starts[i].timer : i \in 1 .. Len(starts)}
      BY <2>1 DEF StartedBy
    <2>6. StartedBy(ops) = {ops[j].timer : j \in 1 .. Len(ops)}
      BY <2>1 DEF StartedBy
    <2>7. StartedBy(starts) \subseteq Overdue \cup StartedBy(ops)
      BY <2>2, <2>5
    <2>8. Overdue \subseteq StartedBy(starts)
      BY <2>3, <2>5
    <2>9. StartedBy(ops) \subseteq StartedBy(starts)
      BY <2>4, <2>5, <2>6
    <2> QED
      BY <2>7, <2>8, <2>9
  <1>18. ~HaveElapsed => starts = ops
    <2> SUFFICES ASSUME ~HaveElapsed PROVE starts = ops
      OBVIOUS
    <2>1. k = 0
      BY DEF Expired, k
    <2>2. Restarts = <<>>
      BY <1>8, <2>1
    <2> QED
      BY <1>1, <2>2 DEF starts
  <1> QED
    BY <1>9, <1>15, <1>16, <1>17, <1>18 DEF starts

(* What timer_list_handler makes of the list.                                *)
LEMMA ListHandled ==
    ASSUME TimerInv, TimerListHandler
    PROVE  /\ ListOf(timer_list', NewSchedule)
           /\ Timers' = Timers \cup StartedBy(ops)
           /\ timer_list' # <<>>
           /\ ~HaveElapsed => \/ First' \in StartedBy(ops)
                              \/ timer_list # <<>> /\ First' = First
           /\ \A t \in Timer : is_running'[t] <=> t \in Timers'
           /\ is_running' \in [Timer -> BOOLEAN]
  <1> DEFINE starts == Restarts \o ops
             list == InsertAll(Remaining, starts, NewLatest)
  <1>1. /\ TypeInv /\ Places /\ Handling /\ OnSchedule
    BY DEF TimerInv
  <1>2. /\ swi.pending /\ m_ticks_latest' = NewLatest /\ timer_list' = list
        /\ is_running' = [t \in Timer |-> is_running[t] \/ t \in StartedBy(starts)]
    BY DEF TimerListHandler, NewLatest
  <1>3. /\ starts \in Seq(Op)
        /\ \A i, j \in 1 .. Len(starts) : starts[i].timer = starts[j].timer => i = j
        /\ \A i \in 1 .. Len(starts) :
             /\ starts[i].timer \notin TimersIn(Remaining)
             /\ NodeOf(starts[i], NewLatest) \in Node
             /\ NewSchedule[starts[i].timer] = NodeOf(starts[i], NewLatest).ticks_to_expire
        /\ StartedBy(starts) = Overdue \cup StartedBy(ops)
        /\ ~HaveElapsed => starts = ops
    BY <1>2, StartsAre
  <1>4. /\ ListOf(Remaining, NewSchedule)
        /\ TimersIn(Remaining) = Timers \ Overdue
        /\ ~HaveElapsed => Remaining = timer_list
    BY RemainingIs
  <1> HIDE DEF starts
  <1>5. /\ ListOf(list, NewSchedule)
        /\ TimersIn(list) = TimersIn(Remaining) \cup StartedBy(starts)
        /\ Len(starts) = 1 => \/ list[1].timer = starts[1].timer
                              \/ Remaining # <<>> /\ list[1].timer = Remaining[1].timer
    BY <1>3, <1>4, InsertAllOf
  <1> HIDE DEF list
  <1>6. Overdue \subseteq Timers
    BY ElapsedIs
  <1>7. TimersIn(list) = Timers \cup StartedBy(ops)
    BY <1>3, <1>4, <1>5, <1>6
  <1>8. Timers' = Timers \cup StartedBy(ops)
    BY <1>2, <1>7 DEF Timers
  <1>9. timer_list' # <<>>
    <2>1. Timers \cup StartedBy(ops) # {}
      <3>1. CASE HaveElapsed
        <4>1. timer_list # <<>>
          BY <1>1, <3>1 DEF Handling
        <4> QED
          BY <4>1, AtHead
      <3>2. CASE ~HaveElapsed
        <4>1. Queue # {}
          BY <1>1, <1>2, <3>2 DEF Handling
        <4> QED
          BY <1>1, <4>1, QueueIs
      <3> QED
        BY <3>1, <3>2
    <2>2. list = <<>> => TimersIn(list) = {}
      BY DEF TimersIn
    <2> QED
      BY <1>2, <1>7, <2>1, <2>2
  <1>10. ASSUME ~HaveElapsed
         PROVE  First' \in StartedBy(ops) \/ (timer_list # <<>> /\ First' = First)
    <2>1. starts = ops /\ Remaining = timer_list
      BY <1>3, <1>4, <1>10
    <2>2. ops \in Seq(Op) /\ Len(ops) <= 1 /\ ops # <<>>
      BY <1>1, <1>2, <1>10, QueueIs DEF Handling, TypeInv
    <2>3. Len(ops) = 1 /\ 1 \in DOMAIN ops
      BY <2>2
    <2>4. ops[1].timer \in StartedBy(ops)
      BY <2>3 DEF StartedBy
    <2>5. First' = list[1].timer
      BY <1>2 DEF First
    <2> QED
      BY <1>5, <2>1, <2>3, <2>4, <2>5 DEF First
  <1>11. ASSUME NEW t \in Timer PROVE is_running'[t] <=> t \in Timers'
    <2>1. is_running'[t] <=> is_running[t] \/ t \in StartedBy(starts)
      BY <1>2
    <2>2. is_running[t] <=> t \in Timers \ Overdue
      BY <1>1 DEF Places
    <2> QED
      BY <1>3, <1>6, <1>8, <2>1, <2>2
  <1>12. is_running' \in [Timer -> BOOLEAN]
    <2>1. \A t \in Timer : (is_running[t] \/ t \in StartedBy(starts)) \in BOOLEAN
      OBVIOUS
    <2> QED
      BY <1>2, <2>1
  <1> QED
    BY <1>2, <1>5, <1>8, <1>9, <1>10, <1>11, <1>12

(* timer_list_handler: expired timers go back in, new ones come in.          *)
LEMMA TimerListHandlerKeepsInv ==
    ASSUME TimerInv, TimerListHandler
    PROVE  TimerInv'
  <1> DEFINE writes == HaveElapsed \/ HeadOf(timer_list') # HeadOf(timer_list)
  <1>1. /\ TypeInv /\ Places /\ Handling /\ OnSchedule /\ Calls
        /\ Armed /\ Ringing /\ Queueing /\ Writing /\ Checking
    BY DEF TimerInv
  <1>2. /\ swi.pending /\ swi.at = "idle" /\ ~rtc.pending
        /\ m_ticks_latest' = NewLatest
        /\ writes => /\ swi' = [pending |-> FALSE, at |-> "write", pre |-> rtc.counter]
                     /\ rtc' = [rtc EXCEPT !.running = TRUE]
        /\ ~writes => swi' = [swi EXCEPT !.pending = FALSE] /\ rtc' = rtc
        /\ m_ticks_elapsed' = IF HaveElapsed THEN Tail(m_ticks_elapsed) ELSE m_ticks_elapsed
        /\ ops' = <<>> /\ lag' = 0
        /\ UNCHANGED <<thread, on, left>>
    BY DEF TimerListHandler, NewLatest
  <1>3. /\ ListOf(timer_list', NewSchedule)
        /\ Timers' = Timers \cup StartedBy(ops)
        /\ timer_list' # <<>>
        /\ ~HaveElapsed => \/ First' \in StartedBy(ops)
                           \/ timer_list # <<>> /\ First' = First
        /\ \A t \in Timer : is_running'[t] <=> t \in Timers'
        /\ is_running' \in [Timer -> BOOLEAN]
    BY ListHandled
  <1>4. /\ rtc.counter \in Ticks /\ rtc.cc \in Ticks /\ m_ticks_latest \in Ticks
        /\ lag \in Nat /\ lag <= MaxLag /\ left \in [Timer -> Int]
        /\ SinceLatest \in Nat /\ Ahead \in Nat /\ Behind \in Nat
        /\ MaxLag \in Nat /\ MaxLag >= 1 /\ Late \in Nat /\ CallTicks \in Nat
        /\ 0 \in Ticks /\ CounterRange \in Nat
    BY <1>1, Fields, Constants DEF Ticks
  <1>5. Timers \subseteq Timer /\ StartedBy(ops) \subseteq Timer /\ Timers' \subseteq Timer
    BY <1>1, <1>3, ElapsedIs, QueueIs
  <1>6. /\ First' \in Timers' /\ First' \in Timer
        /\ NewSchedule[First'] = timer_list'[1].ticks_to_expire
        /\ \A t \in Timers' : NewSchedule[t] \in Nat /\ NewSchedule[First'] <= NewSchedule[t]
    <2>1. /\ timer_list'[1].timer \in TimersIn(timer_list')
          /\ NewSchedule[timer_list'[1].timer] = timer_list'[1].ticks_to_expire
          /\ \A t \in TimersIn(timer_list') :
                NewSchedule[t] \in Nat /\ NewSchedule[timer_list'[1].timer] <= NewSchedule[t]
      BY <1>3, HeadIsFirst
    <2>2. First' = timer_list'[1].timer /\ Timers' = TimersIn(timer_list')
      BY DEF First, Timers
    <2> HIDE DEF NewSchedule
    <2> QED
      BY <1>5, <2>1, <2>2
  <1>7. /\ Elapsed \in Nat /\ Elapsed <= SinceLatest
        /\ timer_list = <<>> => SinceLatest = 0
        /\ ~HaveElapsed => Elapsed = 0
    BY ElapsedIs DEF Elapsed
  <1>8. \A t \in Timer : /\ NewSchedule[t] = left[t] + (SinceLatest - Elapsed)
                         /\ left[t] \in Int /\ left[t] <= Interval[t] /\ Interval[t] \in Nat
    BY <1>1, <1>4, Halves DEF NewSchedule, TypeInv
  <1>9. \A t \in Timers' : left[First'] <= left[t]
    <2> SUFFICES ASSUME NEW t \in Timers' PROVE left[First'] <= left[t]
      OBVIOUS
    <2> DEFINE f == First'
               x == left[f]
               y == left[t]
    <2>1. NewSchedule[f] = x + (SinceLatest - Elapsed) /\ NewSchedule[t] = y + (SinceLatest - Elapsed)
          /\ x \in Int /\ y \in Int /\ NewSchedule[f] <= NewSchedule[t]
      BY <1>5, <1>6, <1>8
    <2> HIDE DEF x, y, f
    <2>2. x <= y
      BY <2>1, <1>4, <1>7
    <2> QED
      BY <2>2 DEF x, y, f
  <1>10. HeadOf(timer_list') = First' /\ (timer_list # <<>> => HeadOf(timer_list) = First)
    <2>1. HeadOf(timer_list') = First'
      BY <1>3 DEF HeadOf, First, ListOf
    <2>2. timer_list # <<>> => HeadOf(timer_list) = First
      BY <1>1 DEF HeadOf, First, OnSchedule, ListOf
    <2> QED
      BY <2>1, <2>2
  <1>11. ~writes => /\ ~HaveElapsed /\ timer_list # <<>> /\ First' = First
                    /\ rtc.running
    <2> SUFFICES ASSUME ~writes PROVE timer_list # <<>> /\ First' = First
      BY <1>1 DEF Handling
    <2>1. HeadOf(timer_list') = HeadOf(timer_list)
      OBVIOUS
    <2>2. timer_list # <<>>
      <3> SUFFICES ASSUME timer_list = <<>> PROVE FALSE
        OBVIOUS
      <3>1. HeadOf(timer_list) = Nobody
        BY DEF HeadOf
      <3> QED
        BY <2>1, <3>1, <1>6, <1>10, Constants
    <2> QED
      BY <2>1, <2>2, <1>10
  <1> HIDE DEF writes
  <1>12. /\ rtc'.counter = rtc.counter /\ rtc'.cc = rtc.cc /\ rtc'.running
         /\ ~rtc'.pending /\ (rtc'.missed <=> rtc.missed)
         /\ rtc' \in [counter : Ticks, cc : Ticks, missed : BOOLEAN, running : BOOLEAN, pending : BOOLEAN]
    <2>1. CASE writes
      BY <2>1, <1>1, <1>2 DEF TypeInv
    <2>2. CASE ~writes
      BY <2>2, <1>1, <1>2, <1>11 DEF TypeInv
    <2> QED
      BY <2>1, <2>2
  <1>13. /\ ~swi'.pending
         /\ writes => swi'.at = "write" /\ swi'.pre = rtc.counter
         /\ ~writes => swi'.at = "idle" /\ swi'.pre = swi.pre
         /\ swi' \in [pending : BOOLEAN, at : {"idle", "write", "check"}, pre : Ticks]
    <2>1. CASE writes
      <3>1. swi' = [pending |-> FALSE, at |-> "write", pre |-> rtc.counter]
        BY <2>1, <1>2
      <3> QED
        BY <2>1, <3>1, <1>4
    <2>2. CASE ~writes
      BY <2>2, <1>1, <1>2 DEF TypeInv
    <2> QED
      BY <2>1, <2>2
  <1>14. m_ticks_elapsed' = <<>>
    <2>1. m_ticks_elapsed \in Seq(Ticks) /\ Len(m_ticks_elapsed) <= 1
      BY <1>1 DEF TypeInv
    <2>2. CASE HaveElapsed
      <3>1. m_ticks_elapsed # <<>> /\ m_ticks_elapsed' = Tail(m_ticks_elapsed)
        BY <2>2, <1>2 DEF HaveElapsed
      <3> QED
        BY <2>1, <3>1
    <2>3. CASE ~HaveElapsed
      BY <2>3, <1>2 DEF HaveElapsed
    <2> QED
      BY <2>2, <2>3
  <1>15. ~HaveElapsed' /\ Expired' = 0 /\ Overdue' = {} /\ Queue' = {} /\ StartedBy(ops') = {}
    <2>1. ~HaveElapsed'
      BY <1>14 DEF HaveElapsed
    <2>2. Expired' = 0
      BY <2>1 DEF Expired
    <2>3. Queue' = {} /\ StartedBy(ops') = {}
      BY <1>2 DEF Queue, StartedBy
    <2> QED
      BY <2>1, <2>2, <2>3 DEF Overdue
  <1>16. SinceLatest' = SinceLatest - Elapsed /\ SinceLatest' \in Nat
    <2>1. SinceLatest' = Diff(rtc.counter, NewLatest)
      BY <1>2, <1>12 DEF SinceLatest
    <2>2. SinceLatest' = SinceLatest - Elapsed
      BY <2>1, NewLatestIs
    <2> QED
      BY <2>2, <1>4, <1>7
  <1>17. TypeInv'
    <2>1. lag' \in 0 .. MaxLag /\ ops' \in Seq(Op) /\ Len(ops') <= 1
      BY <1>2, <1>4
    <2>2. m_ticks_latest' \in Ticks /\ m_ticks_elapsed' \in Seq(Ticks) /\ Len(m_ticks_elapsed') <= 1
      <3>1. <<>> \in Seq(Ticks) /\ Len(<<>>) <= 1
        OBVIOUS
      <3> QED
        BY <3>1, <1>2, <1>14, NewLatestIs
    <2> QED
      BY <1>1, <1>2, <1>3, <1>12, <1>13, <2>1, <2>2 DEF TypeInv
  <1>18. Places'
    <2>1. Queue = {} \/ thread = NoOp
      BY <1>1 DEF Places
    <2>2. StartedBy(ops) = {} \/ thread = NoOp
      BY <1>1, <2>1, QueueIs
    <2>3. thread.timer \notin Timers'
      <3>1. CASE thread = NoOp
        <4>1. thread.timer = Nobody
          BY <3>1 DEF NoOp
        <4> QED
          BY <4>1, <1>5, Constants
      <3>2. CASE StartedBy(ops) = {}
        BY <3>2, <1>1, <1>3 DEF Places
      <3> QED
        BY <2>2, <3>1, <3>2
    <2>4. on' = Timers' \cup (IF thread = NoOp THEN {} ELSE {thread.timer})
      BY <1>1, <1>2, <1>3 DEF Places
    <2>5. \A t \in Timer : is_running'[t] <=> t \in Timers' \ Overdue'
      BY <1>3, <1>15
    <2> QED
      BY <1>2, <1>15, <2>3, <2>4, <2>5 DEF Places
  <1>19. Handling'
    <2>1. ~rtc'.missed
      BY <1>1, <1>2, <1>12 DEF Handling
    <2> QED
      BY <1>3, <1>12, <1>13, <1>15, <2>1 DEF Handling
  <1>20. OnSchedule'
    <2>1. ASSUME NEW t \in TimersIn(timer_list') PROVE Schedule'[t] = NewSchedule[t]
      <3>1. t \in Timer
        BY <1>5 DEF Timers
      <3>2. Schedule'[t] = SinceLatest' + left[t] - 0
        BY <1>2, <1>15, <3>1 DEF Schedule
      <3>3. NewSchedule[t] = left[t] + (SinceLatest - Elapsed) /\ left[t] \in Int
        BY <1>8, <3>1
      <3> QED
        BY <1>16, <3>2, <3>3
    <2>2. ListOf(timer_list', Schedule')
      <3> HIDE DEF NewSchedule
      <3> QED
        BY <1>3, <2>1, SameSchedule
    <2>3. \E t \in Timer : NewSchedule[First'] <= Interval[t]
      <3>1. CASE Expired # 0
        <4> DEFINE t == timer_list[Expired].timer
                   start == [timer |-> timer_list[Expired].timer, at_start |-> RestartedFrom(Expired)]
        <4>1. Expired \in 1 .. Expired
          BY <3>1, ElapsedIs
        <4>2. t \in Overdue
          BY <4>1 DEF Overdue
        <4>3. t \in Timers /\ t \in Timers' /\ t \in Timer
          BY <4>2, <1>3, <1>5, ElapsedIs
        <4>4. start.timer = t
          OBVIOUS
        <4> HIDE DEF start
        <4>5. NewSchedule[start.timer] = Interval[start.timer]
          BY <4>1, RestartOnTime DEF start
        <4> HIDE DEF t
        <4> QED
          BY <4>3, <4>4, <4>5, <1>6
      <3>2. CASE Expired = 0 /\ timer_list # <<>>
        <4>1. First \in Timers /\ First \in Timer /\ First \in Timers'
              /\ Schedule[First] = timer_list[1].ticks_to_expire
          BY <3>2, <1>3, AtHead
        <4>2. Overdue = {} /\ Elapsed = 0
          <5>1. Elapsed = Due(timer_list, 0)
            BY <3>2, ElapsedIs
          <5>2. timer_list \in Seq(Node)
            BY <1>1 DEF OnSchedule, ListOf
          <5>3. Due(timer_list, 0) = 0
            BY <5>2, DueIs
          <5> QED
            BY <3>2, <5>1, <5>3 DEF Overdue
        <4>3. Schedule[First] = SinceLatest + left[First] - 0
          BY <4>1, <4>2 DEF Schedule
        <4>4. NewSchedule[First] = Schedule[First]
          BY <1>4, <1>8, <4>1, <4>2, <4>3
        <4>5. \E t \in Timer : timer_list[1].ticks_to_expire <= Interval[t]
          BY <1>1, <3>2 DEF OnSchedule
        <4>6. PICK u \in Timer : Schedule[First] <= Interval[u]
          BY <4>1, <4>5
        <4>7. NewSchedule[First'] <= NewSchedule[First] /\ NewSchedule[First] \in Nat
              /\ NewSchedule[First'] \in Nat
          BY <1>6, <4>1
        <4>8. NewSchedule[First'] <= Interval[u]
          <5> DEFINE a == NewSchedule[First']
                     b == NewSchedule[First]
          <5>1. a \in Nat /\ b \in Nat /\ a <= b /\ b <= Interval[u] /\ Interval[u] \in Nat
            BY <4>4, <4>6, <4>7, <1>8
          <5> HIDE DEF a, b
          <5>2. a <= Interval[u]
            BY <5>1
          <5> QED
            BY <5>2 DEF a
        <4> QED
          BY <4>8
      <3>3. CASE timer_list = <<>>
        <4>1. SinceLatest - Elapsed = 0
          BY <3>3, <1>4, <1>7
        <4>2. NewSchedule[First'] = left[First'] + 0 /\ left[First'] \in Int
              /\ left[First'] <= Interval[First']
          BY <1>6, <1>8, <4>1
        <4>3. NewSchedule[First'] <= Interval[First']
          BY <4>2
        <4> QED
          BY <1>6, <4>3
      <3> QED
        BY <3>1, <3>2, <3>3
    <2> QED
      BY <1>6, <1>15, <2>2, <2>3 DEF OnSchedule
  <1>21. Calls'
    BY <1>1, <1>2, <1>12, <1>15 DEF Calls
  <1>22. Armed'
    <2> SUFFICES ASSUME swi'.at = "idle"
                 PROVE  /\ Ahead' >= 1 /\ left'[First'] <= Ahead'
                        /\ \A t \in Timers' : Ahead' <= left'[t] + MaxLag + 2
      BY DEF Armed
    <2>1. ~writes
      BY <1>13
    <2>2. Ahead' = Ahead /\ First' = First /\ timer_list # <<>> /\ ~HaveElapsed
      BY <2>1, <1>11, <1>12 DEF Ahead
    <2>3. Ahead >= 1 /\ left[First] <= Ahead /\ \A t \in Timers : Ahead <= left[t] + MaxLag + 2
      BY <2>2, <1>1, <1>2 DEF Armed
    <2>4. First \in Timers /\ First \in Timer
      BY <2>2, AtHead
    <2>5. \A t \in Timers' : left[First] <= left[t] /\ left[t] \in Int /\ left[First] \in Int
      BY <1>5, <1>8, <1>9, <2>2, <2>4
    <2>6. Ahead <= left[First] + MaxLag + 2
      BY <2>3, <2>4
    <2>7. \A t \in Timers' : Ahead <= left[t] + MaxLag + 2
      BY <1>4, <2>5, <2>6
    <2> QED
      BY <1>2, <2>2, <2>3, <2>7
  <1>23. Ringing' /\ Queueing' /\ Checking'
    BY <1>12, <1>13, <1>15 DEF Ringing, Queueing, Checking
  <1>24. Writing'
    <2> SUFFICES ASSUME swi'.at = "write"
                 PROVE  /\ Looked' <= lag' /\ Looked' <= SinceLatest'
                        /\ \A t \in Timers' : left'[t] + Looked' >= 1 - MaxLag
                        /\ rtc'.cc = rtc'.counter \/ left'[First'] <= Ahead'
      BY <1>12 DEF Writing
    <2>1. writes
      BY <1>13
    <2>2. Looked' = 0
      BY <2>1, <1>4, <1>12, <1>13, DiffIs DEF Looked
    <2>3. \A t \in StartedBy(ops) : left[t] >= 1 - lag /\ (~HaveElapsed => left[t] >= 1)
      <3> SUFFICES ASSUME NEW t \in StartedBy(ops)
                   PROVE  left[t] >= 1 - lag /\ (~HaveElapsed => left[t] >= 1)
        OBVIOUS
      <3>1. PICK op \in Queue : t = op.timer
        BY <1>1, QueueIs
      <3>2. left[op.timer] >= 1 - lag /\ (~HaveElapsed => left[op.timer] >= 1)
        BY <1>2, StartOnTime
      <3> QED
        BY <3>1, <3>2
    <2>4. ASSUME NEW t \in Timers' PROVE left[t] >= 1 - MaxLag
      <3>1. left[t] \in Int /\ t \in Timer /\ left[First'] \in Int
        BY <1>5, <1>6, <1>8
      <3>2. CASE HaveElapsed
        <4>1. left[t] >= 1 - lag
          BY <3>2, <2>3, <1>1, <1>3 DEF Queueing
        <4> QED
          BY <3>1, <4>1, <1>4
      <3>3. CASE ~HaveElapsed
        <4>1. First' \in StartedBy(ops)
          BY <2>1, <3>3, <1>3, <1>10 DEF writes
        <4>2. left[First'] >= 1 /\ left[First'] <= left[t]
          BY <2>3, <3>3, <4>1, <1>9
        <4> QED
          BY <3>1, <4>2, <1>4
      <3> QED
        BY <3>2, <3>3
    <2>5. \A t \in Timers' : left'[t] + Looked' >= 1 - MaxLag
      <3> SUFFICES ASSUME NEW t \in Timers' PROVE left[t] + 0 >= 1 - MaxLag
        BY <1>2, <2>2
      <3>1. left[t] \in Int /\ left[t] >= 1 - MaxLag
        BY <1>5, <1>8, <2>4
      <3> QED
        BY <3>1, <1>4
    <2>6. rtc.cc = rtc.counter \/ left[First'] <= Ahead
      <3> DEFINE f == First'
      <3>1. f \in Timer /\ f \in Timers' /\ left[f] \in Int /\ left[f] <= Interval[f]
            /\ Interval[f] \in Nat
            /\ Interval[f] + Late + MaxLag < HalfTurn /\ 6 * MaxLag < HalfTurn
            /\ HalfTurn \in Int /\ 2 * HalfTurn <= CounterRange - 1
        BY <1>6, <1>8, Halves
      <3>2. CASE HaveElapsed
        <4> HIDE DEF f
        <4>1. Behind <= MaxLag + lag
          BY <3>2, <1>1 DEF Queueing
        <4>2. Behind = 0 => rtc.cc = rtc.counter
          BY <1>4, DiffIs DEF Behind
        <4>3. Behind # 0 => Ahead = CounterRange - Behind
          <5>1. /\ Ahead = IF rtc.cc >= rtc.counter THEN rtc.cc - rtc.counter
                           ELSE rtc.cc - rtc.counter + CounterRange
                /\ Behind = IF rtc.counter >= rtc.cc THEN rtc.counter - rtc.cc
                            ELSE rtc.counter - rtc.cc + CounterRange
                /\ rtc.cc \in Nat /\ rtc.counter \in Nat
            <6>1. rtc.cc \in Nat /\ rtc.counter \in Nat
              BY <1>4 DEF Ticks
            <6> QED
              BY <6>1, <1>4, DiffIs DEF Ahead, Behind
          <5> QED
            BY <5>1, <1>4
        <4>4. Behind # 0 => left[f] <= Ahead
          BY <1>4, <3>1, <4>1, <4>3
        <4> QED
          BY <4>2, <4>4 DEF f
      <3>3. CASE ~HaveElapsed /\ timer_list # <<>>
        <4>1. left[First] <= Ahead /\ First \in Timers
          BY <3>3, <1>1, <1>2, AtHead DEF Armed
        <4>2. First \in Timers' /\ First \in Timer
          BY <4>1, <1>3, <1>5
        <4>3. left[f] <= left[First] /\ left[First] \in Int
          BY <4>2, <1>8, <1>9
        <4> HIDE DEF f
        <4>4. left[f] <= Ahead
          BY <1>4, <3>1, <4>1, <4>3
        <4> QED
          BY <4>4 DEF f
      <3>4. CASE timer_list = <<>>
        <4>1. rtc = StoppedRtc
          BY <3>4, <1>1 DEF Handling
        <4> QED
          BY <4>1 DEF StoppedRtc
      <3> QED
        BY <3>2, <3>3, <3>4
    <2>7. rtc'.cc = rtc'.counter \/ left'[First'] <= Ahead'
      <3>1. Ahead' = Ahead
        BY <1>12 DEF Ahead
      <3> QED
        BY <1>2, <1>12, <2>6, <3>1
    <2>8. 0 <= lag' /\ 0 <= SinceLatest'
      BY <1>2, <1>16
    <2> QED
      BY <2>2, <2>5, <2>7, <2>8
  <1> QED
    BY <1>17, <1>18, <1>19, <1>20, <1>21, <1>22, <1>23, <1>24 DEF TimerInv

(* Every step keeps the invariant.                                           *)
LEMMA StepKeepsInv == TimerInv /\ [TimerNext]_timerVars => TimerInv'
  <1> SUFFICES ASSUME TimerInv, [TimerNext]_timerVars PROVE TimerInv'
    OBVIOUS
  <1>1. CASE Tick
    BY <1>1, TickKeepsInv
  <1>2. CASE Timeouts
    BY <1>2, TimeoutsKeepInv
  <1>3. CASE TimerListHandler
    BY <1>3, TimerListHandlerKeepsInv
  <1>4. CASE WriteCompare
    BY <1>4, WriteCompareKeepsInv
  <1>5. CASE CheckCompare
    BY <1>5, CheckCompareKeepsInv
  <1>6. CASE EnqueueStart
    BY <1>6, EnqueueStartKeepsInv
  <1>7. ASSUME NEW t \in Timer, StartTimer(t) PROVE TimerInv'
    BY <1>7, StartTimerKeepsInv
  <1>8. CASE UNCHANGED timerVars
    <2>1. UNCHANGED <<rtc, timer_list, is_running, m_ticks_latest, m_ticks_elapsed, ops, swi, thread,
                      lag, on, left>>
      BY <1>8 DEF timerVars
    <2>2. (HaveElapsed' <=> HaveElapsed) /\ Elapsed' = Elapsed
      BY <2>1 DEF HaveElapsed, Elapsed
    <2>3. Expired' = Expired
      BY <2>1, <2>2 DEF Expired
    <2>4. /\ Timers' = Timers /\ First' = First /\ Queue' = Queue /\ Overdue' = Overdue
          /\ SinceLatest' = SinceLatest /\ Ahead' = Ahead /\ Behind' = Behind /\ Looked' = Looked
      BY <2>1, <2>3 DEF Timers, First, Queue, Overdue, SinceLatest, Ahead, Behind, Looked
    <2>5. Schedule' = Schedule
      BY <2>1, <2>4 DEF Schedule
    <2>6. TooClose' <=> TooClose
      BY <2>1 DEF TooClose
    <2>7. /\ TypeInv /\ Places /\ Handling /\ OnSchedule /\ Calls
          /\ Armed /\ Ringing /\ Queueing /\ Writing /\ Checking
      BY DEF TimerInv
    <2>8. TypeInv' /\ Places' /\ Handling'
      BY <2>1, <2>2, <2>3, <2>4, <2>7 DEF TypeInv, Places, Handling
    <2>9. OnSchedule' /\ Calls'
      BY <2>1, <2>2, <2>4, <2>5, <2>7 DEF OnSchedule, Calls
    <2>10. Armed' /\ Ringing' /\ Queueing'
      BY <2>1, <2>2, <2>4, <2>7 DEF Armed, Ringing, Queueing
    <2>11. Writing' /\ Checking'
      BY <2>1, <2>4, <2>6, <2>7 DEF Writing, Checking
    <2> QED
      BY <2>8, <2>9, <2>10, <2>11 DEF TimerInv
  <1> QED
    BY <1>1, <1>2, <1>3, <1>4, <1>5, <1>6, <1>7, <1>8 DEF TimerNext, Handlers, Thread

(* The invariant holds at any moment.                                        *)
LEMMA TimerInvariant == TimerInit /\ [][TimerNext]_timerVars => []TimerInv
  <1>1. TimerInit => TimerInv
    BY InitInv
  <1>2. TimerInv /\ [TimerNext]_timerVars => TimerInv'
    BY StepKeepsInv
  <1> QED
    BY <1>1, <1>2, PTL

-----------------------------------------------------------------------------
(* What follows from it *)

LEMMA TimerInvTyped == TimerInv => TimerTypeOK
  <1> SUFFICES ASSUME TimerInv PROVE TimerTypeOK
    OBVIOUS
  <1> DEFINE Entry == [timer : Timer, ticks_to_expire : Ticks]
  <1>1. TypeInv /\ Places /\ ListOf(timer_list, Schedule) /\ timer_list \in Seq(Node)
    BY DEF TimerInv, OnSchedule, ListOf
  <1>2. ASSUME NEW i \in 1 .. Len(timer_list) PROVE timer_list[i] \in Entry
    <2> DEFINE t == timer_list[i].timer
    <2>1. timer_list # <<>> /\ i \in 0 .. Len(timer_list) /\ i - 1 \in 0 .. Len(timer_list)
          /\ timer_list[i] \in Node
      BY <1>1
    <2>2. /\ Due(timer_list, i) = Due(timer_list, i - 1) + timer_list[i].ticks_to_expire
          /\ Due(timer_list, i - 1) \in Nat
      BY <1>1, <2>1, DueIs
    <2>3. t \in Timer /\ timer_list[i].ticks_to_expire \in Nat
      BY <2>1 DEF Node
    <2>4. Due(timer_list, i) = Schedule[t]
      BY <1>1 DEF ListOf
    <2>5. /\ SinceLatest \in Nat /\ SinceLatest < HalfTurn /\ left[t] \in Int /\ left[t] <= Interval[t]
          /\ Interval[t] \in Nat /\ Interval[t] + Late + MaxLag < HalfTurn
          /\ HalfTurn \in Int /\ 2 * HalfTurn <= CounterRange - 1
          /\ Late \in Nat /\ MaxLag \in Nat /\ CounterRange \in Nat
      BY <1>1, <2>1, <2>3, AtHead, Fields, Halves, Constants DEF TypeInv
    <2>6. Schedule[t] <= SinceLatest + left[t]
      <3>1. Schedule[t] = SinceLatest + left[t] - IF t \in Overdue THEN Interval[t] ELSE 0
        BY <2>3 DEF Schedule
      <3> HIDE DEF t
      <3> QED
        BY <3>1, <2>5
    <2> DEFINE ticks == timer_list[i].ticks_to_expire
               before == Due(timer_list, i - 1)
    <2>7. before + ticks <= SinceLatest + left[t] /\ before \in Nat /\ ticks \in Nat
      BY <2>2, <2>3, <2>4, <2>6
    <2> HIDE DEF ticks, before, t
    <2>8. ticks < CounterRange
      BY <2>5, <2>7
    <2>9. ticks \in Ticks
      BY <2>5, <2>7, <2>8 DEF Ticks
    <2> QED
      BY <2>1, <2>9 DEF Node, ticks
  <1>3. timer_list \in Seq(Entry)
    <2> HIDE DEF Entry
    <2>1. Len(timer_list) \in Nat /\ timer_list = [i \in 1 .. Len(timer_list) |-> timer_list[i]]
      BY <1>1
    <2>2. timer_list \in [1 .. Len(timer_list) -> Entry]
      BY <1>2, <2>1
    <2> QED
      BY <2>1, <2>2
  <1>4. on \subseteq Timer
    <2>1. Timers \subseteq Timer /\ StartedBy(ops) \subseteq Timer
      BY <1>1, ListedTimers, QueueIs DEF Timers
    <2>2. thread # NoOp => thread.timer \in Timer
      BY <1>1 DEF TypeInv, Op
    <2> QED
      BY <1>1, <2>1, <2>2 DEF Places
  <1>5. Len(m_ticks_elapsed) < CONTEXT_QUEUE_SIZE_MAX /\ Len(ops) < QueueSlots
    <2>1. Len(m_ticks_elapsed) \in Nat /\ Len(ops) \in Nat /\ Len(m_ticks_elapsed) <= 1 /\ Len(ops) <= 1
      BY <1>1 DEF TypeInv
    <2> QED
      BY <2>1, Constants DEF CONTEXT_QUEUE_SIZE_MAX
  <1>6. \A t \in Timer : left[t] \in -(Late + 1) .. Interval[t]
    <2> SUFFICES ASSUME NEW t \in Timer PROVE left[t] \in -(Late + 1) .. Interval[t]
      OBVIOUS
    <2>1. left[t] \in Int /\ left[t] >= -(Late + 1) /\ left[t] <= Interval[t] /\ Interval[t] \in Nat
          /\ Late \in Nat
      BY <1>1, Halves, Constants DEF TypeInv
    <2> QED
      BY <2>1
  <1> QED
    BY <1>1, <1>3, <1>4, <1>5, <1>6 DEF TimerTypeOK, TypeInv

(* The library's variables have their types.  Among them: a timer in the    *)
(* list waits for less than a turn of the counter, and the start operations *)
(* fit into their queue.                                                   *)
THEOREM TimerTypeCorrect == TimerSpec => []TimerTypeOK
BY TimerInvTyped, TimerInvariant, PTL DEF TimerSpec

(* At any moment the list says when every timer is due, whatever was         *)
(* started meanwhile, however late the handlers came and however often the *)
(* counter has gone round: timer_list_insert and expired_timers_handler     *)
(* lose no tick and count none twice.                                      *)
THEOREM TimersScheduled == TimerSpec => []ListIsSchedule
  <1>1. TimerInv => ListIsSchedule
    <2> SUFFICES ASSUME TimerInv, NEW i \in DOMAIN timer_list,
                        is_running[timer_list[i].timer]
                 PROVE  (m_ticks_latest + Due(timer_list, i) - rtc.counter
                           - left[timer_list[i].timer]) % CounterRange = 0
      BY DEF ListIsSchedule
    <2> DEFINE t == timer_list[i].timer
               due == Due(timer_list, i)
    <2>1. TypeInv /\ Places /\ ListOf(timer_list, Schedule) /\ timer_list \in Seq(Node)
      BY DEF TimerInv, OnSchedule, ListOf
    <2>2. i \in 1 .. Len(timer_list) /\ timer_list[i] \in Node
      BY <2>1
    <2>3. t \in Timer /\ t \notin Overdue
      BY <2>1, <2>2 DEF Places, Node
    <2>4. left[t] \in Int /\ m_ticks_latest \in Ticks /\ rtc.counter \in Ticks /\ SinceLatest \in Nat
          /\ CounterRange \in Nat /\ CounterRange >= 1
      BY <2>1, <2>3, Fields, Constants
    <2>5. due = SinceLatest + left[t] - 0
      <3>1. due = Schedule[t]
        BY <2>1, <2>2 DEF ListOf
      <3> QED
        BY <2>3, <3>1 DEF Schedule
    <2>6. SinceLatest = IF rtc.counter >= m_ticks_latest THEN rtc.counter - m_ticks_latest
                        ELSE rtc.counter - m_ticks_latest + CounterRange
      BY <2>4, DiffIs DEF SinceLatest
    <2> HIDE DEF due, t
    <2>7. \/ m_ticks_latest + due - rtc.counter - left[t] = 0
          \/ m_ticks_latest + due - rtc.counter - left[t] = CounterRange
      BY <2>4, <2>5, <2>6 DEF Ticks
    <2>8. 0 % CounterRange = 0 /\ CounterRange % CounterRange = 0
      <3>1. 0 \in 0 .. 2 * CounterRange - 1 /\ CounterRange \in 0 .. 2 * CounterRange - 1
            /\ CounterRange - CounterRange = 0 /\ 0 < CounterRange /\ ~(CounterRange < CounterRange)
        BY <2>4
      <3> QED
        BY <3>1, WrapIs
    <2>9. (m_ticks_latest + due - rtc.counter - left[t]) % CounterRange = 0
      BY <2>7, <2>8
    <2> QED
      BY <2>9 DEF due, t
  <1> QED
    BY <1>1, TimerInvariant, PTL DEF TimerSpec

(* While a timer is in the list, the interrupt will come: the counter runs,  *)
(* the compare register was not passed while it was set, and it is reached *)
(* no later than Late ticks after the first timer is due.                  *)
THEOREM TimersWake == TimerSpec => []WillWake
  <1>1. TimerInv => WillWake
    <2> SUFFICES ASSUME TimerInv, timer_list # <<>>, ~InterruptDue
                 PROVE  /\ rtc.running
                        /\ rtc.cc # rtc.counter
                        /\ rtc.missed => Diff(rtc.cc, rtc.counter) > 1
                        /\ Diff(rtc.cc, rtc.counter) <= left[Head(timer_list).timer] + Late
      BY DEF WillWake
    <2>1. TypeInv /\ Handling /\ Armed /\ OnSchedule
      BY DEF TimerInv
    <2>2. ~rtc.pending /\ ~swi.pending /\ swi.at = "idle"
      BY DEF InterruptDue
    <2>3. ~HaveElapsed /\ rtc.running /\ ~rtc.missed
      BY <2>1, <2>2 DEF Handling
    <2>4. First \in Timers /\ First \in Timer
      BY AtHead
    <2>5. Ahead >= 1 /\ Ahead <= left[First] + MaxLag + 2
      BY <2>1, <2>2, <2>3, <2>4 DEF Armed
    <2>6. /\ Ahead \in Nat /\ left[First] \in Int /\ rtc.cc \in Ticks /\ rtc.counter \in Ticks
          /\ Late \in Nat /\ MaxLag \in Nat /\ Late >= 2 * MaxLag + 2
      BY <2>1, <2>4, Fields, Constants
    <2>7. rtc.cc # rtc.counter
      <3>1. Ahead # 0
        BY <2>5, <2>6
      <3> QED
        BY <2>6, <3>1, DiffIs DEF Ahead
    <2>8. Ahead <= left[First] + Late
      BY <2>5, <2>6
    <2>9. Head(timer_list).timer = First
      BY <2>1 DEF First, OnSchedule, ListOf
    <2> QED
      BY <2>3, <2>7, <2>8, <2>9 DEF Ahead
  <1> QED
    BY <1>1, TimerInvariant, PTL DEF TimerSpec

(* The library implements periodic timers: after a start a timer runs its    *)
(* handler one interval later and then every interval, never early and at  *)
(* most Late ticks late, and a late one puts off none of its later times.  *)
THEOREM TimersOnTime == TimerSpec => ImplementsPeriodicTimers
  <1>1. TimerInit => Abstract!Init
    BY DEF TimerInit, Abstract!Init
  <1>2. TimerInv /\ [TimerNext]_timerVars => [Abstract!Next]_<<on, left>>
    <2> SUFFICES ASSUME TimerInv, [TimerNext]_timerVars
                 PROVE  Abstract!Next \/ UNCHANGED <<on, left>>
      OBVIOUS
    <2>1. CASE Tick
      <3>1. \A t \in on : left[t] > -Late
        BY <2>1, NotTooLate
      <3>2. TypeInv
        BY DEF TimerInv
      <3>3. \A t \in Timer : left[t] \in Int /\ Late \in Int
        BY <3>2, Constants DEF TypeInv
      <3>4. \A t \in Timer : t \in on => left[t] >= -Late
        BY <3>1, <3>3
      <3>5. left' = [t \in Timer |-> IF t \in on /\ left[t] >= -Late THEN left[t] - 1 ELSE left[t]]
            /\ UNCHANGED on
        BY <2>1 DEF Tick
      <3>6. left' = [t \in Timer |-> IF t \in on THEN left[t] - 1 ELSE left[t]]
        BY <3>4, <3>5
      <3> QED
        BY <3>1, <3>5, <3>6 DEF Abstract!Next, Abstract!Pass
    <2>2. CASE Timeouts
      <3>1. \E due \in SUBSET {t \in on : left[t] <= 0} :
              left' = [t \in Timer |-> IF t \in due THEN left[t] + Interval[t] ELSE left[t]]
        BY <2>2, TimeoutsKeepInv
      <3>2. UNCHANGED on
        BY <2>2 DEF Timeouts
      <3> QED
        BY <3>1, <3>2 DEF Abstract!Next, Abstract!Run
    <2>3. ASSUME NEW t \in Timer, StartTimer(t) PROVE Abstract!Next
      <3>1. t \in Timer \ on /\ on' = on \cup {t} /\ left' = [left EXCEPT ![t] = Interval[t]]
        BY <2>3 DEF StartTimer
      <3> QED
        BY <3>1 DEF Abstract!Next, Abstract!Start
    <2>4. CASE TimerListHandler \/ WriteCompare \/ CheckCompare \/ EnqueueStart
      BY <2>4 DEF TimerListHandler, WriteCompare, CheckCompare, EnqueueStart
    <2>5. CASE UNCHANGED timerVars
      BY <2>5 DEF timerVars
    <2> QED
      BY <2>1, <2>2, <2>3, <2>4, <2>5 DEF TimerNext, Handlers, Thread
  <1> QED
    BY <1>1, <1>2, TimerInvariant, PTL DEF TimerSpec, ImplementsPeriodicTimers, Abstract!Spec
=============================================================================
