---------------------------- MODULE KernelProofs ----------------------------
(***************************************************************************)
(* Proofs about the kernel heap for every alignment, header and page size: *)
(* its blocks tile its pages and no header is stale.  The inductive        *)
(* invariant is HeapInv: the order, the alignment and the bytes of the     *)
(* blocks, and what the magic numbers in memory say of them.               *)
(* Then proofs about the scheduler for every number of threads.  The       *)
(* inductive invariant is SchedInv: type correctness together with the     *)
(* facts that pin down who is running, who may be switched to and which    *)
(* ids are in use.  BootstrapWaits is what makes OneRunning and            *)
(* NoResurrection provable: with bootstrap ready, next_runnable always has *)
(* a candidate.                                                            *)
(***************************************************************************)
EXTENDS Scheduler, Integers, Sequences, TLAPS

\* Quotient and remainder.
LEMMA DivFacts ==
  ASSUME NEW a \in Nat, NEW m \in Nat \ {0}
  PROVE  /\ a \div m \in Nat /\ a % m \in 0 .. m - 1
         /\ a = m * (a \div m) + (a % m)
OBVIOUS

\* Products grow with a factor.
LEMMA MulMono ==
  ASSUME NEW m \in Nat, NEW x \in Int, NEW y \in Int, x <= y
  PROVE  m * x <= m * y
OBVIOUS

\* The multiples of m.
LEMMA ModIff ==
  ASSUME NEW a \in Nat, NEW m \in Nat \ {0}
  PROVE  a % m = 0 <=> \E k \in Nat : a = m * k
<1>1. ASSUME a % m = 0 PROVE \E k \in Nat : a = m * k
  <2>1. a \div m \in Nat /\ a = m * (a \div m)
    BY <1>1, DivFacts
  <2> QED BY <2>1, Zenon
<1>2. ASSUME NEW k \in Nat, a = m * k PROVE a % m = 0
  <2> DEFINE q == a \div m
             r == a % m
  <2>1. q \in Nat /\ r \in 0 .. m - 1 /\ m * k = m * q + r
    BY <1>2, DivFacts, Zenon
  <2> HIDE DEF q, r
  <2>2. CASE k >= q + 1
    <3>1. m * (q + 1) <= m * k BY <2>1, <2>2, MulMono
    <3> QED BY <2>1, <3>1
  <2>3. CASE k <= q
    <3>1. m * k <= m * q BY <2>1, <2>3, MulMono
    <3>2. r = 0
       BY <2>1, <3>1
    <3> QED BY <3>2 DEF r
  <2> QED BY <2>1, <2>2, <2>3
<1> QED BY <1>1, <1>2, Zenon

\* They are closed under sums.
LEMMA ModPlus ==
  ASSUME NEW m \in Nat \ {0}, NEW x \in Nat, NEW y \in Nat, x % m = 0, y % m = 0
  PROVE  (x + y) % m = 0
<1>1. PICK j \in Nat : x = m * j BY ModIff, Zenon
<1>2. PICK k \in Nat : y = m * k BY ModIff, Zenon
<1> DEFINE z == x + y
<1>3. z \in Nat /\ z = m * (j + k) /\ j + k \in Nat BY <1>1, <1>2
<1> HIDE DEF z
<1>4. \E i \in Nat : z = m * i BY <1>3, Zenon
<1>5. z % m = 0 BY <1>3, <1>4, ModIff
<1> QED BY <1>5 DEF z

\* They are closed under differences.
LEMMA ModMinus ==
  ASSUME NEW m \in Nat \ {0}, NEW x \in Nat, NEW y \in Nat, x % m = 0, y % m = 0, x >= y
  PROVE  (x - y) % m = 0
<1>1. PICK j \in Nat : x = m * j BY ModIff, Zenon
<1>2. PICK k \in Nat : y = m * k BY ModIff, Zenon
<1>3. x - y = m * (j - k) BY <1>1, <1>2
<1>4. CASE j >= k
  BY <1>3, <1>4, ModIff
<1>5. CASE j < k
  <2>1. m * (j + 1) <= m * k BY <1>5, MulMono
  <2> QED BY <1>1, <1>2, <2>1
<1> QED BY <1>4, <1>5

\* They are closed under products.
LEMMA ModProduct ==
  ASSUME NEW m \in Nat \ {0}, NEW x \in Nat, NEW k \in Nat, x % m = 0
  PROVE  (k * x) % m = 0
<1>1. PICK j \in Nat : x = m * j BY ModIff, Zenon
<1>2. k * x = m * (k * j) /\ k * j \in Nat /\ k * x \in Nat BY <1>1
<1> QED BY <1>2, ModIff, Zenon

\* The pages of an interval of bytes.
LEMMA PageOf ==
  ASSUME NEW m \in Nat \ {0}, NEW a \in Nat, NEW p \in Nat, NEW g \in Nat
  PROVE  a \div m \in p .. p + g - 1 <=> a \in p * m .. p * m + g * m - 1
<1> DEFINE q == a \div m
           r == a % m
<1>1. q \in Nat /\ r \in 0 .. m - 1 /\ a = m * q + r
  BY DivFacts, Zenon
<1> HIDE DEF q, r
<1>2. CASE q < p
  <2>1. m * (q + 1) <= m * p BY <1>1, <1>2, MulMono
  <2>2. a < p * m BY <1>1, <2>1
  <2> QED BY <1>1, <1>2, <2>2 DEF q
<1>3. CASE q >= p /\ q <= p + g - 1
  <2>1. m * p <= m * q /\ m * (q + 1) <= m * (p + g) BY <1>1, <1>3, MulMono
  <2>2. a >= p * m /\ a < p * m + g * m BY <1>1, <2>1
  <2> QED BY <1>1, <1>3, <2>2 DEF q
<1>4. CASE q >= p + g
  <2>1. m * (p + g) <= m * q BY <1>1, <1>4, MulMono
  <2>2. a >= p * m + g * m BY <1>1, <2>1
  <2> QED BY <1>1, <1>4, <2>2 DEF q
<1> QED BY <1>1, <1>2, <1>3, <1>4

CONSTANTS Align, Header, Canary, MinSplit, SizeMax, PageSize, MinGrowPages, Pages,
          Sizes, MaxOverruns

VARIABLES blocks, headers, total_region_bytes, allocated_payload_bytes,
          active_allocations, region_count, taken

Heap == INSTANCE Heap

Block == [at : Nat, capacity : Nat, requested : Nat, is_free : BOOLEAN, intact : BOOLEAN]

\* A list in address order, aligned, with room in the allocated blocks.
Well(list) ==
  /\ list \in Seq(Block)
  /\ \A i \in DOMAIN list : list[i].at % Align = 0 /\ list[i].capacity % Align = 0
  /\ \A i, j \in DOMAIN list : i < j => Heap!End(list[i]) <= list[j].at
  /\ \A i \in DOMAIN list :
        ~list[i].is_free => list[i].requested + Canary <= list[i].capacity

\* Byte a belongs to a block; an allocated block is at a.
In(list, a) == \E i \in DOMAIN list : list[i].at <= a /\ a < Heap!End(list[i])
LiveAt(list, a) == \E i \in DOMAIN list : ~list[i].is_free /\ list[i].at = a

\* new has the bytes and the allocated blocks of list.
Keeps(list, new) ==
  /\ Well(new)
  /\ \A a \in Nat : (In(new, a) <=> In(list, a)) /\ (LiveAt(new, a) <=> LiveAt(list, a))

\* An assumption of the code that every lemma below uses.
Sane == Align \in Nat \ {0} /\ Header \in Nat \ {0} /\ Header % Align = 0 /\ Canary \in Nat

\* The fields of a block of the list.
LEMMA BlockFacts ==
  ASSUME Sane, NEW list \in Seq(Block), NEW i \in DOMAIN list
  PROVE  /\ list[i] \in Block /\ list[i].at \in Nat /\ list[i].capacity \in Nat
         /\ list[i].requested \in Nat
         /\ Heap!End(list[i]) = list[i].at + Header + list[i].capacity
         /\ Heap!End(list[i]) \in Nat /\ list[i].at < Heap!End(list[i])
<1>1. list[i] \in Block
  OBVIOUS
<1>2. list[i].at \in Nat /\ list[i].capacity \in Nat /\ list[i].requested \in Nat
  BY <1>1 DEF Block
<1> QED BY <1>1, <1>2 DEF Sane, Heap!End, Heap!Payload

\* The fields of a new free block.
LEMMA FreeBlockFacts ==
  ASSUME Sane, NEW at \in Nat, NEW capacity \in Nat
  PROVE  /\ Heap!FreeBlock(at, capacity) \in Block
         /\ Heap!FreeBlock(at, capacity).at = at
         /\ Heap!FreeBlock(at, capacity).capacity = capacity
         /\ Heap!FreeBlock(at, capacity).is_free
         /\ Heap!End(Heap!FreeBlock(at, capacity)) = at + Header + capacity
<1>1. Heap!FreeBlock(at, capacity) \in Block
  BY DEF Heap!FreeBlock, Block
<1> QED BY <1>1 DEF Heap!FreeBlock, Heap!End, Heap!Payload

\* merge_with_next: the two blocks become one, which may touch what the second
\* one touched.
LEMMA MergeKeeps ==
  ASSUME Sane, NEW list, Well(list), NEW i \in Nat, Heap!Joinable(list, i)
  PROVE  /\ Keeps(list, Heap!MergeWithNext(list, i))
         /\ \A j \in Nat : Heap!Joinable(Heap!MergeWithNext(list, i), j) =>
              Heap!Joinable(list, IF j < i THEN j ELSE j + 1)
<1> DEFINE L == Len(list)
           c == list[i].capacity + Header + list[i + 1].capacity
           m == Heap!FreeBlock(list[i].at, c)
           n == Heap!MergeWithNext(list, i)
<1>1. /\ list \in Seq(Block) /\ L \in Nat /\ DOMAIN list = 1 .. L
      /\ i >= 1 /\ i + 1 <= L /\ i \in DOMAIN list /\ i + 1 \in DOMAIN list
      /\ list[i].is_free /\ list[i + 1].is_free
      /\ Heap!End(list[i]) = list[i + 1].at
  BY DEF Well, Heap!Joinable
<1>2. /\ list[i] \in Block /\ list[i + 1] \in Block
      /\ list[i].at \in Nat /\ list[i].capacity \in Nat /\ list[i + 1].capacity \in Nat
      /\ Heap!End(list[i]) = list[i].at + Header + list[i].capacity
      /\ Heap!End(list[i + 1]) = list[i + 1].at + Header + list[i + 1].capacity
      /\ list[i].at < Heap!End(list[i]) /\ list[i + 1].at < Heap!End(list[i + 1])
      /\ Heap!End(list[i]) \in Nat /\ Heap!End(list[i + 1]) \in Nat /\ list[i + 1].at \in Nat
  BY <1>1, BlockFacts
<1>3. n = [j \in 1 .. (L - 1) |->
             CASE j < i -> list[j] [] j = i -> m [] j > i -> list[j + 1]]
  BY Zenon DEF Heap!MergeWithNext
<1>s. Align \in Nat \ {0} /\ Header \in Nat /\ Header % Align = 0
  BY DEF Sane
<1>c. c \in Nat
  BY <1>2, <1>s
<1>4. /\ m \in Block /\ m.at = list[i].at /\ m.is_free /\ m.capacity = c
      /\ Heap!End(m) = list[i].at + Header + c
  BY <1>2, <1>c, FreeBlockFacts
<1>5. m.at % Align = 0 /\ m.capacity % Align = 0
  <2> DEFINE x == list[i].capacity
             y == list[i + 1].capacity
  <2>1. /\ list[i].at % Align = 0 /\ x % Align = 0 /\ y % Align = 0
        /\ x \in Nat /\ y \in Nat
    BY <1>1, <1>2 DEF Well
  <2> HIDE DEF x, y
  <2>2. (x + Header) % Align = 0
    BY <1>s, <2>1, ModPlus, Zenon
  <2>3. x + Header \in Nat
    BY <1>s, <2>1
  <2>4. (x + Header + y) % Align = 0
    BY <1>s, <2>1, <2>2, <2>3, ModPlus, Zenon
  <2> QED BY <1>4, <2>1, <2>4, Zenon DEF x, y
<1> HIDE DEF m, n, L
<1>6. Heap!End(m) = Heap!End(list[i + 1])
  <2> DEFINE u == list[i].at
             v == list[i + 1].at
             x == list[i].capacity
             y == list[i + 1].capacity
  <2>1. /\ u \in Nat /\ v \in Nat /\ x \in Nat /\ y \in Nat /\ v = u + Header + x
        /\ Heap!End(list[i + 1]) = v + Header + y
        /\ Heap!End(m) = u + Header + (x + Header + y)
    BY <1>1, <1>2, <1>4, Zenon
  <2> HIDE DEF u, v, x, y
  <2> QED BY ONLY <1>s, <2>1
<1> HIDE DEF c
<1>7. n[i] = m
  BY <1>1, <1>3
<1>n. n \in [1 .. L - 1 -> Block]
  <2>1. \A j \in 1 .. L - 1 : n[j] \in Block
    BY <1>1, <1>3, <1>4
  <2> QED BY <1>3, <2>1
<1>8. n \in Seq(Block) /\ DOMAIN n = 1 .. L - 1 /\ Len(n) = L - 1
  BY <1>1, <1>n
<1>o. ASSUME NEW j \in DOMAIN n
      PROVE  \/ j < i /\ j \in DOMAIN list /\ n[j] = list[j]
             \/ j = i /\ n[j] = m
             \/ j > i /\ j + 1 \in DOMAIN list /\ n[j] = list[j + 1]
  BY <1>1, <1>3, <1>8
<1>9. Well(n)
  <2>1. ASSUME NEW j \in DOMAIN n
        PROVE  /\ n[j].at % Align = 0 /\ n[j].capacity % Align = 0
               /\ ~n[j].is_free => n[j].requested + Canary <= n[j].capacity
    BY <1>4, <1>5, <1>o, Zenon DEF Well
  <2>2. ASSUME NEW j \in DOMAIN n, NEW k \in DOMAIN n, j < k
        PROVE  Heap!End(n[j]) <= n[k].at
    <3>1. j \in Nat /\ k \in Nat
      BY <1>8
    <3>2. CASE j < i /\ k < i
      <4>1. j \in DOMAIN list /\ k \in DOMAIN list /\ n[j] = list[j] /\ n[k] = list[k]
        BY <1>o, <3>1, <3>2
      <4> QED BY <2>2, <4>1, Zenon DEF Well
    <3>3. CASE j < i /\ k = i
      <4>1. j \in DOMAIN list /\ n[j] = list[j] /\ n[k] = m
        BY <1>o, <3>1, <3>3
      <4> QED BY <1>1, <1>4, <3>3, <4>1, Zenon DEF Well
    <3>4. CASE j < i /\ k > i
      <4>1. j \in DOMAIN list /\ k + 1 \in DOMAIN list /\ j < k + 1
            /\ n[j] = list[j] /\ n[k] = list[k + 1]
        BY <1>1, <1>o, <3>1, <3>4
      <4> QED BY <4>1, Zenon DEF Well
    <3>5. CASE j = i /\ k > i
      <4>1. k + 1 \in DOMAIN list /\ i + 1 < k + 1 /\ n[k] = list[k + 1] /\ n[j] = m
        BY <1>1, <1>o, <3>1, <3>5
      <4> QED BY <1>1, <1>6, <4>1, Zenon DEF Well
    <3>6. CASE j > i /\ k > i
      <4>1. j + 1 \in DOMAIN list /\ k + 1 \in DOMAIN list /\ j + 1 < k + 1
            /\ n[j] = list[j + 1] /\ n[k] = list[k + 1]
        BY <1>1, <1>o, <2>2, <3>1, <3>6
      <4> QED BY <4>1, Zenon DEF Well
    <3> QED BY <2>2, <3>1, <3>2, <3>3, <3>4, <3>5, <3>6
  <2> QED BY <1>8, <2>1, <2>2 DEF Well
<1>b. /\ \A j \in DOMAIN list : j < i => j \in DOMAIN n /\ n[j] = list[j]
      /\ \A j \in DOMAIN list : j > i + 1 => j - 1 \in DOMAIN n /\ n[j - 1] = list[j]
      /\ i \in DOMAIN n
  BY <1>1, <1>3, <1>8
<1>10. ASSUME NEW a \in Nat PROVE In(n, a) <=> In(list, a)
  <2>1. ASSUME NEW j \in DOMAIN n, n[j].at <= a, a < Heap!End(n[j]) PROVE In(list, a)
    <3>1. CASE j = i
      <4>1. list[i].at <= a /\ a < Heap!End(list[i + 1])
        BY <1>4, <1>6, <1>7, <2>1, <3>1
      <4>2. \/ list[i].at <= a /\ a < Heap!End(list[i])
            \/ list[i + 1].at <= a /\ a < Heap!End(list[i + 1])
        BY <1>1, <1>2, <4>1
      <4> QED BY <1>1, <4>2, Zenon DEF In
    <3>2. CASE j # i
      BY <1>o, <2>1, <3>2, Zenon DEF In
    <3> QED BY <3>1, <3>2
  <2>2. ASSUME NEW j \in DOMAIN list, list[j].at <= a, a < Heap!End(list[j]) PROVE In(n, a)
    <3>1. CASE j < i
      BY <1>b, <2>2, <3>1, Zenon DEF In
    <3>2. CASE j = i \/ j = i + 1
      <4>1. list[i].at <= a /\ a < Heap!End(list[i + 1])
        <5>1. list[i].at <= list[i + 1].at /\ Heap!End(list[i]) <= Heap!End(list[i + 1])
          BY <1>1, <1>2
        <5>2. CASE j = i
          <6>1. list[i].at <= a /\ a < Heap!End(list[i])
            BY <2>2, <5>2, Zenon
          <6> QED BY <1>2, <5>1, <6>1
        <5>3. CASE j = i + 1
          <6>1. list[i + 1].at <= a /\ a < Heap!End(list[i + 1])
            BY <2>2, <5>3, Zenon
          <6>2. list[i].at \in Nat /\ list[i + 1].at \in Nat /\ a \in Nat
            BY <1>2, Zenon
          <6>3. list[i].at <= a
            BY ONLY <5>1, <6>1, <6>2
          <6> QED BY <6>1, <6>3, Zenon
        <5> QED BY <3>2, <5>2, <5>3
      <4>2. m.at <= a /\ a < Heap!End(m)
        BY <1>4, <1>6, <4>1
      <4> QED BY <1>7, <1>b, <4>2, Zenon DEF In
    <3>3. CASE j > i + 1
      BY <1>b, <2>2, <3>3, Zenon DEF In
    <3> QED BY <1>1, <3>1, <3>2, <3>3
  <2> QED BY <2>1, <2>2 DEF In
<1>11. ASSUME NEW a \in Nat PROVE LiveAt(n, a) <=> LiveAt(list, a)
  <2>1. ASSUME NEW j \in DOMAIN n, ~n[j].is_free, n[j].at = a PROVE LiveAt(list, a)
    BY <1>4, <1>o, <2>1, Zenon DEF LiveAt
  <2>2. ASSUME NEW j \in DOMAIN list, ~list[j].is_free, list[j].at = a PROVE LiveAt(n, a)
    <3>1. j < i \/ j > i + 1
      BY <1>1, <2>2
    <3> QED BY <1>b, <2>2, <3>1, Zenon DEF LiveAt
  <2> QED BY <2>1, <2>2 DEF LiveAt
<1>12. ASSUME NEW j \in Nat, Heap!Joinable(n, j)
       PROVE  Heap!Joinable(list, IF j < i THEN j ELSE j + 1)
  <2>1. /\ j >= 1 /\ j + 1 <= L - 1 /\ n[j].is_free /\ n[j + 1].is_free
        /\ Heap!End(n[j]) = n[j + 1].at
    BY <1>8, <1>12 DEF Heap!Joinable
  <2>0. j \in DOMAIN n /\ j + 1 \in DOMAIN n
    BY <1>8, <2>1
  <2>2. CASE j + 1 < i
    BY <1>1, <1>o, <2>0, <2>1, <2>2 DEF Heap!Joinable, L
  <2>3. CASE j + 1 = i
    BY <1>1, <1>4, <1>o, <2>0, <2>1, <2>3 DEF Heap!Joinable, L
  <2>4. CASE j = i
    BY <1>1, <1>6, <1>o, <2>0, <2>1, <2>4 DEF Heap!Joinable, L
  <2>5. CASE j > i
    BY <1>1, <1>o, <2>0, <2>1, <2>5 DEF Heap!Joinable, L
  <2> QED BY <1>1, <2>2, <2>3, <2>4, <2>5
<1> QED BY <1>9, <1>10, <1>11, <1>12 DEF Keeps, n

\* The ends of insert_region and of kfree: when only the neighbours of block i
\* may have to be joined, none has to be afterwards.
LEMMA MergeAroundKeeps ==
  ASSUME Sane, NEW list, Well(list), NEW i \in Nat \ {0},
         \A j \in Nat : Heap!Joinable(list, j) => j = i - 1 \/ j = i
  PROVE  /\ Keeps(list, Heap!MergeAround(list, i))
         /\ \A j \in Nat : ~Heap!Joinable(Heap!MergeAround(list, i), j)
<1>1. ASSUME NEW l, Well(l), NEW k \in Nat, \A j \in Nat : Heap!Joinable(l, j) => j = k
      PROVE  /\ Keeps(l, Heap!MergeWithNext(l, k))
             /\ \A j \in Nat : ~Heap!Joinable(Heap!MergeWithNext(l, k), j)
  <2>1. CASE Heap!Joinable(l, k)
    <3>1. /\ Keeps(l, Heap!MergeWithNext(l, k))
          /\ \A j \in Nat : Heap!Joinable(Heap!MergeWithNext(l, k), j) =>
               Heap!Joinable(l, IF j < k THEN j ELSE j + 1)
      BY <1>1, <2>1, MergeKeeps
    <3>2. ASSUME NEW j \in Nat, Heap!Joinable(Heap!MergeWithNext(l, k), j) PROVE FALSE
      <4>1. Heap!Joinable(l, IF j < k THEN j ELSE j + 1) /\ (IF j < k THEN j ELSE j + 1) \in Nat
        BY <3>1, <3>2
      <4>2. (IF j < k THEN j ELSE j + 1) = k
        BY <1>1, <4>1
      <4> QED BY <4>2
    <3> QED BY <3>1, <3>2
  <2>2. CASE ~Heap!Joinable(l, k)
    <3>1. Heap!MergeWithNext(l, k) = l
      BY <2>2 DEF Heap!MergeWithNext
    <3> QED BY <1>1, <2>2, <3>1 DEF Keeps
  <2> QED BY <2>1, <2>2
<1>2. CASE Heap!Joinable(list, i - 1)
  <2> DEFINE m == Heap!MergeWithNext(list, i - 1)
  <2>1. /\ Keeps(list, m)
        /\ \A j \in Nat : Heap!Joinable(m, j) =>
             Heap!Joinable(list, IF j < i - 1 THEN j ELSE j + 1)
    BY <1>2, MergeKeeps
  <2>2. Heap!MergeAround(list, i) = Heap!MergeWithNext(m, i - 1)
    BY <1>2 DEF Heap!MergeAround
  <2> HIDE DEF m
  <2>3. ASSUME NEW j \in Nat, Heap!Joinable(m, j) PROVE j = i - 1
    <3>1. /\ Heap!Joinable(list, IF j < i - 1 THEN j ELSE j + 1)
          /\ (IF j < i - 1 THEN j ELSE j + 1) \in Nat
      BY <2>1, <2>3
    <3>2. (IF j < i - 1 THEN j ELSE j + 1) \in {i - 1, i}
      BY <3>1
    <3> QED BY <3>2
  <2>4. i - 1 \in Nat /\ Well(m)
    BY <2>1 DEF Keeps
  <2>5. /\ Keeps(m, Heap!MergeWithNext(m, i - 1))
        /\ \A j \in Nat : ~Heap!Joinable(Heap!MergeWithNext(m, i - 1), j)
    BY <1>1, <2>3, <2>4
  <2> QED BY <2>1, <2>2, <2>5 DEF Keeps
<1>3. CASE ~Heap!Joinable(list, i - 1)
  <2>1. \A j \in Nat : Heap!Joinable(list, j) => j = i
    BY <1>3
  <2>2. Heap!MergeAround(list, i) = Heap!MergeWithNext(list, i)
    BY <1>3 DEF Heap!MergeAround
  <2> QED BY <1>1, <2>1, <2>2
<1> QED BY <1>2, <1>3

\* A free block linked in between blocks that do not overlap it.
LinkedOK(list, p, b, n) ==
  /\ Well(n) /\ Len(n) = Len(list) + 1
  /\ \A a \in Nat : In(n, a) <=> In(list, a) \/ (b.at <= a /\ a < Heap!End(b))
  /\ \A a \in Nat : LiveAt(n, a) <=> LiveAt(list, a)
  /\ \A j \in Nat : Heap!Joinable(n, j) =>
       \/ j = p - 1 \/ j = p
       \/ j < p - 1 /\ Heap!Joinable(list, j)
       \/ j > p /\ Heap!Joinable(list, j - 1)
  /\ \A j \in DOMAIN list : j < p => n[j] = list[j]
  /\ n[p] = b
  /\ \A j \in DOMAIN list : j >= p => n[j + 1] = list[j]

\* Linked, as insert_region and split_block use it.
LEMMA LinkedKeeps ==
  ASSUME Sane, NEW list, Well(list), NEW p \in 1 .. Len(list) + 1,
         NEW b \in Block, b.is_free, b.at % Align = 0, b.capacity % Align = 0,
         \A j \in DOMAIN list : j < p => Heap!End(list[j]) <= b.at,
         \A j \in DOMAIN list : j >= p => Heap!End(b) <= list[j].at
  PROVE  LinkedOK(list, p, b, Heap!Linked(list, p, b))
<1> DEFINE L == Len(list)
           n == Heap!Linked(list, p, b)
<1>1. list \in Seq(Block) /\ L \in Nat /\ DOMAIN list = 1 .. L /\ p \in Nat
  BY DEF Well
<1>2. n = [j \in 1 .. (L + 1) |->
             CASE j < p -> list[j] [] j = p -> b [] j > p -> list[j - 1]]
  BY Zenon DEF Heap!Linked
<1> HIDE DEF n
<1>3. p \in 1 .. L + 1
  OBVIOUS
<1> HIDE DEF L
<1>n. n \in [1 .. L + 1 -> Block]
  <2>1. \A j \in 1 .. L + 1 : n[j] \in Block
    BY <1>1, <1>2, <1>3
  <2> QED BY <1>2, <2>1
<1>4. n \in Seq(Block) /\ DOMAIN n = 1 .. L + 1 /\ Len(n) = L + 1
  BY <1>1, <1>n
<1>o. ASSUME NEW j \in DOMAIN n
      PROVE  \/ j < p /\ j \in DOMAIN list /\ n[j] = list[j]
             \/ j = p /\ n[j] = b
             \/ j > p /\ j - 1 \in DOMAIN list /\ n[j] = list[j - 1]
  BY <1>1, <1>2, <1>3, <1>4
<1>b. /\ \A j \in DOMAIN list : j < p => j \in DOMAIN n /\ n[j] = list[j]
      /\ \A j \in DOMAIN list : j >= p => j + 1 \in DOMAIN n /\ n[j + 1] = list[j]
      /\ p \in DOMAIN n /\ n[p] = b
  BY <1>1, <1>2, <1>3, <1>4
<1>5. Well(n)
  <2>1. ASSUME NEW j \in DOMAIN n
        PROVE  /\ n[j].at % Align = 0 /\ n[j].capacity % Align = 0
               /\ ~n[j].is_free => n[j].requested + Canary <= n[j].capacity
    BY <1>o, Zenon DEF Well
  <2>2. ASSUME NEW j \in DOMAIN n, NEW k \in DOMAIN n, j < k
        PROVE  Heap!End(n[j]) <= n[k].at
    <3>1. j \in Nat /\ k \in Nat
      BY <1>4
    <3>2. CASE j < p /\ k < p
      <4>1. j \in DOMAIN list /\ k \in DOMAIN list /\ n[j] = list[j] /\ n[k] = list[k]
        BY <1>o, <3>1, <3>2
      <4> QED BY <2>2, <4>1, Zenon DEF Well
    <3>3. CASE j < p /\ k = p
      <4>1. j \in DOMAIN list /\ n[j] = list[j] /\ n[k] = b
        BY <1>o, <3>1, <3>3
      <4> QED BY <3>3, <4>1, Zenon
    <3>4. CASE j < p /\ k > p
      <4>1. j \in DOMAIN list /\ k - 1 \in DOMAIN list /\ j < k - 1
            /\ n[j] = list[j] /\ n[k] = list[k - 1]
        BY <1>1, <1>o, <3>1, <3>4
      <4> QED BY <4>1, Zenon DEF Well
    <3>5. CASE j = p /\ k > p
      <4>1. k - 1 \in DOMAIN list /\ k - 1 >= p /\ n[k] = list[k - 1] /\ n[j] = b
        BY <1>1, <1>o, <3>1, <3>5
      <4> QED BY <4>1, Zenon
    <3>6. CASE j > p /\ k > p
      <4>1. j - 1 \in DOMAIN list /\ k - 1 \in DOMAIN list /\ j - 1 < k - 1
            /\ n[j] = list[j - 1] /\ n[k] = list[k - 1]
        BY <1>1, <1>o, <2>2, <3>1, <3>6
      <4> QED BY <4>1, Zenon DEF Well
    <3> QED BY <1>1, <2>2, <3>1, <3>2, <3>3, <3>4, <3>5, <3>6
  <2> QED BY <1>4, <2>1, <2>2 DEF Well
<1>6. ASSUME NEW a \in Nat
      PROVE  In(n, a) <=> In(list, a) \/ (b.at <= a /\ a < Heap!End(b))
  <2>1. ASSUME NEW j \in DOMAIN n, n[j].at <= a, a < Heap!End(n[j])
        PROVE  In(list, a) \/ (b.at <= a /\ a < Heap!End(b))
    BY <1>o, <2>1, Zenon DEF In
  <2>2. ASSUME NEW j \in DOMAIN list, list[j].at <= a, a < Heap!End(list[j]) PROVE In(n, a)
    <3>1. j < p \/ j >= p
      BY <1>1
    <3> QED BY <1>b, <2>2, <3>1, Zenon DEF In
  <2>3. ASSUME b.at <= a, a < Heap!End(b) PROVE In(n, a)
    BY <1>b, <2>3, Zenon DEF In
  <2> QED BY <2>1, <2>2, <2>3 DEF In
<1>7. ASSUME NEW a \in Nat PROVE LiveAt(n, a) <=> LiveAt(list, a)
  <2>1. ASSUME NEW j \in DOMAIN n, ~n[j].is_free, n[j].at = a PROVE LiveAt(list, a)
    BY <1>o, <2>1, Zenon DEF LiveAt
  <2>2. ASSUME NEW j \in DOMAIN list, ~list[j].is_free, list[j].at = a PROVE LiveAt(n, a)
    <3>1. j < p \/ j >= p
      BY <1>1
    <3> QED BY <1>b, <2>2, <3>1, Zenon DEF LiveAt
  <2> QED BY <2>1, <2>2 DEF LiveAt
<1>8. ASSUME NEW j \in Nat, Heap!Joinable(n, j), j # p - 1, j # p
      PROVE  \/ j < p - 1 /\ Heap!Joinable(list, j)
             \/ j > p /\ Heap!Joinable(list, j - 1)
  <2>1. /\ j >= 1 /\ j + 1 <= L + 1 /\ n[j].is_free /\ n[j + 1].is_free
        /\ Heap!End(n[j]) = n[j + 1].at
    BY <1>4, <1>8 DEF Heap!Joinable
  <2>2. j \in DOMAIN n /\ j + 1 \in DOMAIN n
    BY <1>4, <2>1
  <2>3. CASE j < p - 1
    <3>1. n[j] = list[j] /\ n[j + 1] = list[j + 1] /\ j + 1 <= L
      BY <1>1, <1>o, <2>2, <2>3
    <3> QED BY <2>1, <2>3, <3>1 DEF Heap!Joinable, L
  <2>4. CASE j > p
    <3>1. n[j] = list[j - 1] /\ n[j + 1] = list[(j - 1) + 1] /\ j - 1 >= 1 /\ (j - 1) + 1 <= L
      BY <1>1, <1>o, <2>1, <2>2, <2>4
    <3> QED BY <2>1, <2>4, <3>1, Zenon DEF Heap!Joinable, L
  <2> QED BY <1>1, <1>8, <2>3, <2>4
<1> QED BY <1>4, <1>5, <1>6, <1>7, <1>8, <1>b DEF n, L, LinkedOK

\* Block i is replaced by one at the same address that is not longer.
ReplaceOK(list, i, b, n) ==
  /\ Well(n) /\ Len(n) = Len(list) /\ n[i] = b
  /\ \A j \in DOMAIN list : j # i => n[j] = list[j]
  /\ \A a \in Nat : In(n, a) <=>
       In(list, a) /\ ~(Heap!End(b) <= a /\ a < Heap!End(list[i]))
  /\ \A a \in Nat : LiveAt(n, a) <=>
       IF a = b.at THEN ~b.is_free ELSE LiveAt(list, a)
  /\ \A j \in Nat : Heap!Joinable(n, j) =>
       \/ j = i /\ b.is_free
       \/ j = i - 1 /\ b.is_free /\ (list[i].is_free => Heap!Joinable(list, j))
       \/ j # i /\ j # i - 1 /\ Heap!Joinable(list, j)

\* The changes of capacity, requested, is_free and the canary are of this kind.
LEMMA ReplaceKeeps ==
  ASSUME Sane, NEW list, Well(list), NEW i \in DOMAIN list,
         NEW b \in Block, b.at = list[i].at, b.capacity % Align = 0,
         b.capacity <= list[i].capacity,
         ~b.is_free => b.requested + Canary <= b.capacity
  PROVE  ReplaceOK(list, i, b, [list EXCEPT ![i] = b])
<1> DEFINE L == Len(list)
           n == [list EXCEPT ![i] = b]
<1>1. list \in Seq(Block) /\ L \in Nat /\ DOMAIN list = 1 .. L /\ i \in Nat
  BY DEF Well
<1>2. /\ n \in Seq(Block) /\ Len(n) = L /\ DOMAIN n = 1 .. L /\ n[i] = b
      /\ \A j \in DOMAIN list : j # i => n[j] = list[j]
  BY <1>1
<1> HIDE DEF n, L
<1>3. \A j \in DOMAIN list : /\ list[j].at \in Nat /\ Heap!End(list[j]) \in Nat
                             /\ list[j].at < Heap!End(list[j])
  BY <1>1, BlockFacts
<1>4. /\ b.at \in Nat /\ b.capacity \in Nat /\ Heap!End(b) = b.at + Header + b.capacity
      /\ Heap!End(b) \in Nat /\ b.at < Heap!End(b)
  <2>1. b.at \in Nat /\ b.capacity \in Nat
    BY DEF Block
  <2> QED BY <2>1 DEF Heap!End, Heap!Payload, Sane
<1>5. Heap!End(b) <= Heap!End(list[i])
  <2>1. /\ list[i].capacity \in Nat
        /\ Heap!End(list[i]) = list[i].at + Header + list[i].capacity
    BY <1>1, BlockFacts
  <2> QED BY <1>3, <1>4, <2>1 DEF Sane
<1>6. Well(n)
  <2>1. ASSUME NEW j \in DOMAIN n
        PROVE  /\ n[j].at % Align = 0 /\ n[j].capacity % Align = 0
               /\ ~n[j].is_free => n[j].requested + Canary <= n[j].capacity
    <3>1. list[i].at % Align = 0 /\ j \in DOMAIN list
      BY <1>1, <1>2 DEF Well
    <3> QED BY <1>2, <3>1, Zenon DEF Well
  <2>2. ASSUME NEW j \in DOMAIN n, NEW k \in DOMAIN n, j < k
        PROVE  Heap!End(n[j]) <= n[k].at
    <3>1. j \in DOMAIN list /\ k \in DOMAIN list /\ j \in Nat /\ k \in Nat
      BY <1>1, <1>2
    <3>2. Heap!End(list[j]) <= list[k].at
      BY <2>2, <3>1, Zenon DEF Well
    <3>3. CASE j = i
      <4>1. n[j] = b /\ n[k] = list[k]
        BY <1>2, <2>2, <3>1, <3>3
      <4>2. Heap!End(list[i]) <= list[k].at
        BY <3>2, <3>3
      <4>3. Heap!End(b) <= list[k].at
        BY <1>3, <1>4, <1>5, <3>1, <4>2
      <4> QED BY <4>1, <4>3
    <3>4. CASE j # i /\ k = i
      <4>1. n[j] = list[j] /\ n[k] = b
        BY <1>2, <3>1, <3>4
      <4> QED BY <3>2, <3>4, <4>1
    <3>5. CASE j # i /\ k # i
      <4>1. n[j] = list[j] /\ n[k] = list[k]
        BY <1>2, <3>1, <3>5
      <4> QED BY <3>2, <4>1
    <3> QED BY <3>3, <3>4, <3>5
  <2> QED BY <1>2, <2>1, <2>2 DEF Well
<1>7. ASSUME NEW a \in Nat, NEW j \in DOMAIN list, j # i,
             list[j].at <= a, a < Heap!End(list[j])
      PROVE  ~(list[i].at <= a /\ a < Heap!End(list[i]))
  <2>1. j < i => Heap!End(list[j]) <= list[i].at
    BY DEF Well
  <2>2. i < j => Heap!End(list[i]) <= list[j].at
    BY DEF Well
  <2>3. j < i \/ i < j
    BY <1>1, <1>7
  <2> QED BY <1>3, <1>7, <2>1, <2>2, <2>3
<1>8. ASSUME NEW a \in Nat
      PROVE  In(n, a) <=> In(list, a) /\ ~(Heap!End(b) <= a /\ a < Heap!End(list[i]))
  <2>1. ASSUME NEW j \in DOMAIN n, n[j].at <= a, a < Heap!End(n[j])
        PROVE  In(list, a) /\ ~(Heap!End(b) <= a /\ a < Heap!End(list[i]))
    <3>1. j \in DOMAIN list
      BY <1>1, <1>2
    <3>2. CASE j = i
      <4>1. b.at <= a /\ a < Heap!End(b)
        BY <1>2, <2>1, <3>2
      <4>2. list[i].at <= a /\ a < Heap!End(list[i])
        BY <1>3, <1>4, <1>5, <4>1
      <4>3. ~(Heap!End(b) <= a)
        BY <1>4, <4>1
      <4> QED BY <4>2, <4>3, Zenon DEF In
    <3>3. CASE j # i
      <4>1. list[j].at <= a /\ a < Heap!End(list[j])
        BY <1>2, <2>1, <3>1, <3>3
      <4>2. ~(list[i].at <= a /\ a < Heap!End(list[i]))
        BY <1>7, <3>1, <3>3, <4>1
      <4>3. Heap!End(b) <= a => list[i].at <= a
        BY <1>3, <1>4
      <4> QED BY <3>1, <4>1, <4>2, <4>3, Zenon DEF In
    <3> QED BY <3>2, <3>3
  <2>2. ASSUME NEW j \in DOMAIN list, list[j].at <= a, a < Heap!End(list[j]),
               ~(Heap!End(b) <= a /\ a < Heap!End(list[i]))
        PROVE  In(n, a)
    <3>1. j \in DOMAIN n
      BY <1>1, <1>2
    <3>2. CASE j = i
      <4>1. b.at <= a /\ a < Heap!End(b)
        BY <1>3, <1>4, <2>2, <3>2
      <4> QED BY <1>2, <3>1, <3>2, <4>1, Zenon DEF In
    <3>3. CASE j # i
      BY <1>2, <2>2, <3>1, <3>3, Zenon DEF In
    <3> QED BY <3>2, <3>3
  <2> QED BY <2>1, <2>2 DEF In
<1>9. ASSUME NEW a \in Nat
      PROVE  LiveAt(n, a) <=> IF a = b.at THEN ~b.is_free ELSE LiveAt(list, a)
  <2>1. ASSUME NEW j \in DOMAIN list, j # i PROVE list[j].at # b.at
    BY <1>3, <1>7, <2>1
  <2>2. CASE a = b.at
    <3>1. ASSUME NEW j \in DOMAIN n, ~n[j].is_free, n[j].at = a PROVE ~b.is_free
      BY <1>1, <1>2, <2>1, <2>2, <3>1
    <3>2. ~b.is_free => LiveAt(n, a)
      BY <1>1, <1>2, <2>2 DEF LiveAt
    <3> QED BY <2>2, <3>1, <3>2 DEF LiveAt
  <2>3. CASE a # b.at
    <3>1. ASSUME NEW j \in DOMAIN n, ~n[j].is_free, n[j].at = a PROVE LiveAt(list, a)
      <4>1. j # i /\ j \in DOMAIN list
        BY <1>1, <1>2, <2>3, <3>1
      <4> QED BY <1>2, <3>1, <4>1, Zenon DEF LiveAt
    <3>2. ASSUME NEW j \in DOMAIN list, ~list[j].is_free, list[j].at = a PROVE LiveAt(n, a)
      <4>1. j # i /\ j \in DOMAIN n
        BY <1>1, <1>2, <2>3, <3>2
      <4> QED BY <1>2, <3>2, <4>1, Zenon DEF LiveAt
    <3> QED BY <2>3, <3>1, <3>2 DEF LiveAt
  <2> QED BY <2>2, <2>3
<1>10. ASSUME NEW j \in Nat, Heap!Joinable(n, j)
       PROVE  \/ j = i /\ b.is_free
              \/ j = i - 1 /\ b.is_free /\ (list[i].is_free => Heap!Joinable(list, j))
              \/ j # i /\ j # i - 1 /\ Heap!Joinable(list, j)
  <2>1. /\ j >= 1 /\ j + 1 <= L /\ n[j].is_free /\ n[j + 1].is_free
        /\ Heap!End(n[j]) = n[j + 1].at
        /\ j \in DOMAIN list /\ j + 1 \in DOMAIN list
    BY <1>1, <1>2, <1>10 DEF Heap!Joinable
  <2>2. CASE j = i
    BY <1>2, <2>1, <2>2
  <2>3. CASE j = i - 1
    <3>1. j + 1 = i /\ j # i
      BY <1>1, <2>3
    <3>2. n[j] = list[j] /\ n[j + 1] = b
      BY <1>2, <2>1, <3>1
    <3>3. list[i].is_free => Heap!Joinable(list, j)
      BY <2>1, <3>1, <3>2 DEF Heap!Joinable, L
    <3> QED BY <2>1, <2>3, <3>2, <3>3
  <2>4. CASE j # i /\ j # i - 1
    <3>1. n[j] = list[j] /\ n[j + 1] = list[j + 1]
      BY <1>1, <1>2, <2>1, <2>4
    <3> QED BY <2>1, <2>4, <3>1 DEF Heap!Joinable, L
  <2> QED BY <2>2, <2>3, <2>4
<1> QED BY <1>2, <1>6, <1>8, <1>9, <1>10, Zenon DEF n, L, ReplaceOK

\* Two blocks never share a byte, so no other block begins inside block i.
LEMMA NoneInside ==
  ASSUME Sane, NEW list, Well(list), NEW i \in DOMAIN list, NEW a \in Nat,
         list[i].at < a, a < Heap!End(list[i])
  PROVE  ~LiveAt(list, a)
<1> SUFFICES ASSUME NEW j \in DOMAIN list, list[j].at = a PROVE FALSE
  BY DEF LiveAt
<1>1. list \in Seq(Block) /\ i \in Nat /\ j \in Nat
  BY DEF Well
<1>2. /\ list[i].at \in Nat /\ Heap!End(list[i]) \in Nat
      /\ list[j].at \in Nat /\ Heap!End(list[j]) \in Nat /\ list[j].at < Heap!End(list[j])
  BY <1>1, BlockFacts
<1>3. j < i => Heap!End(list[j]) <= list[i].at
  BY DEF Well
<1>4. i < j => Heap!End(list[i]) <= list[j].at
  BY DEF Well
<1> QED BY <1>1, <1>2, <1>3, <1>4

NoneJoinable(list) == \A j \in Nat : ~Heap!Joinable(list, j)

\* split_block of a free block i in a list with nothing to join: the list keeps
\* its bytes and its allocated blocks, and only i and its tail touch.
SplitOK(list, i, used, split) ==
  /\ Well(split) /\ i \in DOMAIN split
  /\ split[i].at = list[i].at /\ split[i].is_free
  /\ split[i].capacity >= used /\ Heap!End(split[i]) <= Heap!End(list[i])
  /\ \A a \in Nat : (In(split, a) <=> In(list, a)) /\ (LiveAt(split, a) <=> LiveAt(list, a))
  /\ \A j \in Nat : Heap!Joinable(split, j) => j = i
  /\ Len(split) > Len(list) =>
       /\ split[i + 1].at % Align = 0
       /\ list[i].at < split[i + 1].at /\ split[i + 1].at < Heap!End(list[i])

\* split_block keeps the bytes and the allocated blocks.
LEMMA SplitKeeps ==
  ASSUME Sane, MinSplit \in Nat, NEW list, Well(list), NoneJoinable(list),
         NEW i \in DOMAIN list, list[i].is_free,
         NEW used \in Nat, used % Align = 0, used <= list[i].capacity
  PROVE  SplitOK(list, i, used, Heap!SplitBlock(list, i, used))
<1>1. /\ list \in Seq(Block) /\ Len(list) \in Nat /\ DOMAIN list = 1 .. Len(list) /\ i \in Nat
      /\ list[i].at % Align = 0 /\ list[i].capacity % Align = 0
      /\ Align \in Nat \ {0} /\ Header \in Nat \ {0} /\ Header % Align = 0
  BY DEF Well, Sane
<1>2. /\ list[i] \in Block /\ list[i].at \in Nat /\ list[i].capacity \in Nat
      /\ Heap!End(list[i]) = list[i].at + Header + list[i].capacity
      /\ Heap!End(list[i]) \in Nat
  BY <1>1, BlockFacts
<1>3. CASE list[i].capacity - used < Header + MinSplit
  <2>1. Heap!SplitBlock(list, i, used) = list
    BY <1>3, Zenon DEF Heap!SplitBlock
  <2>2. \A j \in Nat : Heap!Joinable(list, j) => j = i
    BY DEF NoneJoinable
  <2>3. Heap!End(list[i]) <= Heap!End(list[i]) /\ list[i].capacity >= used
        /\ ~(Len(list) > Len(list))
    BY <1>1, <1>2
  <2> QED BY <2>1, <2>2, <2>3, Zenon DEF SplitOK
<1>4. CASE ~(list[i].capacity - used < Header + MinSplit)
  <2> DEFINE b == [list[i] EXCEPT !.capacity = used]
             at == list[i].at + Header + used
             rest == list[i].capacity - used - Header
             tail == Heap!FreeBlock(at, rest)
             t == [list EXCEPT ![i] = b]
             n == Heap!Linked(t, i + 1, tail)
  <2>1. Heap!SplitBlock(list, i, used) = n
    BY <1>4, Zenon DEF Heap!SplitBlock, Heap!Payload
  <2>2. at \in Nat /\ rest \in Nat /\ at + Header + rest = Heap!End(list[i])
        /\ list[i].at < at /\ at < Heap!End(list[i])
    <3> DEFINE x == list[i].at
               y == list[i].capacity
               e == Heap!End(list[i])
    <3>1. x \in Nat /\ y \in Nat /\ e = x + Header + y /\ Header \in Nat \ {0}
          /\ ~(y - used < Header + MinSplit)
      BY <1>1, <1>2, <1>4, Zenon
    <3> HIDE DEF x, y, e
    <3>2. /\ x + Header + used \in Nat /\ y - used - Header \in Nat
          /\ x + Header + used + Header + (y - used - Header) = e
          /\ x < x + Header + used /\ x + Header + used < e
      BY <3>1
    <3> QED BY <3>2 DEF x, y, e
  <2>3. /\ b \in Block /\ b.at = list[i].at /\ b.capacity = used
        /\ b.requested = list[i].requested /\ b.is_free = list[i].is_free
    BY <1>2, Zenon DEF Block
  <2>4. at % Align = 0
    <3>1. list[i].at + Header \in Nat /\ (list[i].at + Header) % Align = 0
      <4>1. list[i].at + Header \in Nat
        BY <1>1, <1>2
      <4>2. (list[i].at + Header) % Align = 0
        BY <1>1, <1>2, ModPlus, Zenon
      <4> QED BY <4>1, <4>2
    <3> QED BY <1>1, <3>1, ModPlus, Zenon
  <2>5. rest % Align = 0
    <3>0. /\ list[i].capacity \in Nat /\ used \in Nat /\ Header \in Nat /\ MinSplit \in Nat
          /\ ~(list[i].capacity - used < Header + MinSplit)
      BY <1>1, <1>2, <1>4, Zenon
    <3>1. list[i].capacity - used \in Nat /\ list[i].capacity >= used
          /\ list[i].capacity - used >= Header
      BY ONLY <3>0
    <3>2. (list[i].capacity - used) % Align = 0
      BY <1>1, <1>2, <3>1, ModMinus, Zenon
    <3> QED BY <1>1, <3>1, <3>2, ModMinus, Zenon
  <2>6. /\ tail \in Block /\ tail.at = at /\ tail.capacity = rest /\ tail.is_free
        /\ Heap!End(tail) = at + Header + rest
    BY <2>2, FreeBlockFacts
  <2>7. Heap!End(b) = at
    BY <2>3 DEF Heap!End, Heap!Payload
  <2> HIDE DEF b, at, rest, tail
  <2>8. /\ Well(t) /\ Len(t) = Len(list) /\ t[i] = b
        /\ \A j \in DOMAIN list : j # i => t[j] = list[j]
        /\ \A a \in Nat : In(t, a) <=>
             In(list, a) /\ ~(Heap!End(b) <= a /\ a < Heap!End(list[i]))
        /\ \A a \in Nat : LiveAt(t, a) <=> IF a = b.at THEN ~b.is_free ELSE LiveAt(list, a)
        /\ \A j \in Nat : Heap!Joinable(t, j) =>
             \/ j = i /\ b.is_free
             \/ j = i - 1 /\ b.is_free /\ (list[i].is_free => Heap!Joinable(list, j))
             \/ j # i /\ j # i - 1 /\ Heap!Joinable(list, j)
    <3>1. b.capacity % Align = 0 /\ b.capacity <= list[i].capacity /\ b.is_free
      BY <2>3
    <3>2. ReplaceOK(list, i, b, t)
      BY <2>3, <3>1, ReplaceKeeps, Zenon
    <3> HIDE DEF t
    <3> QED BY <3>2, Zenon DEF ReplaceOK
  <2> HIDE DEF t
  <2>9. t \in Seq(Block) /\ DOMAIN t = DOMAIN list /\ i + 1 \in 1 .. Len(t) + 1
    BY <1>1, <2>8 DEF Well
  <2>10. ASSUME NEW j \in DOMAIN t, j < i + 1 PROVE Heap!End(t[j]) <= tail.at
    <3>1. CASE j = i
      BY <2>2, <2>6, <2>7, <2>8, <3>1
    <3>2. CASE j # i
      <4>1. t[j] = list[j] /\ j < i
        BY <1>1, <2>8, <2>9, <2>10, <3>2
      <4>2. Heap!End(list[j]) <= list[i].at /\ Heap!End(list[j]) \in Nat
        BY <1>1, <2>9, <4>1, BlockFacts DEF Well
      <4> QED BY <1>2, <2>2, <2>6, <4>1, <4>2
    <3> QED BY <3>1, <3>2
  <2>11. ASSUME NEW j \in DOMAIN t, j >= i + 1 PROVE Heap!End(tail) <= t[j].at
    <3>1. t[j] = list[j] /\ i < j
      BY <1>1, <2>8, <2>9, <2>11
    <3> QED BY <2>2, <2>6, <2>9, <3>1 DEF Well
  <2>12. /\ Well(n)
         /\ \A a \in Nat : In(n, a) <=> In(t, a) \/ (tail.at <= a /\ a < Heap!End(tail))
         /\ \A a \in Nat : LiveAt(n, a) <=> LiveAt(t, a)
         /\ \A j \in Nat : Heap!Joinable(n, j) =>
              \/ j = (i + 1) - 1 \/ j = i + 1
              \/ j < (i + 1) - 1 /\ Heap!Joinable(t, j)
              \/ j > i + 1 /\ Heap!Joinable(t, j - 1)
         /\ Len(n) = Len(t) + 1
         /\ \A j \in DOMAIN t : j < i + 1 => n[j] = t[j]
         /\ n[i + 1] = tail
         /\ \A j \in DOMAIN t : j >= i + 1 => n[j + 1] = t[j]
    <3>1. tail.at % Align = 0 /\ tail.capacity % Align = 0
      BY <2>4, <2>5, <2>6, Zenon
    <3>2. \A j \in DOMAIN t : j < i + 1 => Heap!End(t[j]) <= tail.at
      BY <2>10
    <3>3. \A j \in DOMAIN t : j >= i + 1 => Heap!End(tail) <= t[j].at
      BY <2>11
    <3>4. LinkedOK(t, i + 1, tail, n)
      BY <2>6, <2>8, <2>9, <3>1, <3>2, <3>3, LinkedKeeps, Zenon
    <3> HIDE DEF n
    <3> QED BY <3>4, Zenon DEF LinkedOK
  <2> HIDE DEF n
  <2>13. i \in DOMAIN n /\ n[i] = b /\ n[i + 1] = tail /\ Len(n) = Len(list) + 1
    <3>1. n[i] = t[i]
      BY <1>1, <2>9, <2>12
    <3>2. n \in Seq(Block) /\ Len(n) = Len(list) + 1
      BY <2>8, <2>12, Zenon DEF Well
    <3> QED BY <1>1, <2>8, <2>12, <3>1, <3>2
  <2>14. ASSUME NEW a \in Nat
         PROVE  (In(n, a) <=> In(list, a)) /\ (LiveAt(n, a) <=> LiveAt(list, a))
    <3>1. at <= a /\ a < Heap!End(list[i]) => In(list, a)
      <4>1. at <= a /\ a < Heap!End(list[i]) => list[i].at <= a /\ a < Heap!End(list[i])
        BY <1>2, <2>2
      <4> QED BY <4>1, Zenon DEF In
    <3>2. In(n, a) <=> In(list, a)
      <4>1. In(n, a) <=> In(t, a) \/ (at <= a /\ a < Heap!End(list[i]))
        BY <2>2, <2>6, <2>12, Zenon
      <4>2. In(t, a) <=> In(list, a) /\ ~(at <= a /\ a < Heap!End(list[i]))
        BY <2>7, <2>8, Zenon
      <4> QED BY <3>1, <4>1, <4>2, Zenon
    <3>3. ~LiveAt(list, list[i].at)
      <4> SUFFICES ASSUME NEW j \in DOMAIN list, ~list[j].is_free, list[j].at = list[i].at
                   PROVE  FALSE
        BY DEF LiveAt
      <4>1. j \in Nat /\ j # i
        BY <1>1
      <4>2. list[j].at < Heap!End(list[j]) /\ Heap!End(list[j]) \in Nat
            /\ list[i].at < Heap!End(list[i])
        BY <1>1, BlockFacts, Zenon
      <4>3. j < i => Heap!End(list[j]) <= list[i].at
        BY DEF Well
      <4>4. i < j => Heap!End(list[i]) <= list[j].at
        BY DEF Well
      <4>5. /\ i \in Nat /\ list[i].at \in Nat /\ Heap!End(list[i]) \in Nat
            /\ list[j].at = list[i].at
        BY <1>1, <1>2, Zenon
      <4> QED BY ONLY <4>1, <4>2, <4>3, <4>4, <4>5
    <3>4. LiveAt(n, a) <=> LiveAt(list, a)
      BY <2>3, <2>8, <2>12, <3>3
    <3> QED BY <3>2, <3>4
  <2>15. ASSUME NEW j \in Nat, Heap!Joinable(n, j) PROVE j = i
    <3>1. \/ j = i \/ j = i + 1
          \/ j < i /\ Heap!Joinable(t, j)
          \/ j > i + 1 /\ Heap!Joinable(t, j - 1)
      BY <1>1, <2>12, <2>15
    <3>2. ASSUME NEW k \in Nat, Heap!Joinable(t, k) PROVE k = i
      BY <2>8, <3>2 DEF NoneJoinable
    <3>3. j # i + 1
      <4> SUFFICES ASSUME j = i + 1 PROVE FALSE
        OBVIOUS
      <4>1. /\ (i + 1) + 1 <= Len(n) /\ n[(i + 1) + 1].is_free
            /\ Heap!End(n[i + 1]) = n[(i + 1) + 1].at
        BY <2>15 DEF Heap!Joinable
      <4>2. i + 1 \in DOMAIN list /\ n[(i + 1) + 1] = t[i + 1] /\ t[i + 1] = list[i + 1]
        BY <1>1, <2>8, <2>9, <2>12, <2>13, <4>1
      <4>3. list[i + 1].is_free /\ Heap!End(list[i]) = list[i + 1].at
        BY <2>2, <2>6, <2>13, <4>1, <4>2
      <4>4. Heap!Joinable(list, i)
        BY <1>1, <4>2, <4>3 DEF Heap!Joinable
      <4> QED BY <1>1, <4>4 DEF NoneJoinable
    <3> QED BY <1>1, <3>1, <3>2, <3>3
  <2>16. n[i].capacity >= used /\ Heap!End(n[i]) <= Heap!End(list[i])
    BY <1>2, <2>2, <2>3, <2>7, <2>13
  <2>17. /\ n[i].at = list[i].at /\ n[i].is_free
         /\ n[i + 1].at % Align = 0
         /\ list[i].at < n[i + 1].at /\ n[i + 1].at < Heap!End(list[i])
    BY <2>2, <2>3, <2>4, <2>6, <2>13, Zenon
  <2> QED BY <2>1, <2>12, <2>13, <2>14, <2>15, <2>16, <2>17, Zenon DEF SplitOK
<1> QED BY <1>3, <1>4

-----------------------------------------------------------------------------
\* What kmalloc and kfree keep true of the list, of the magic numbers in memory
\* and of the pages that the heap has.
HeapOK(list, hs, pages) ==
  /\ Well(list) /\ NoneJoinable(list)
  /\ \A a \in Nat : In(list, a) <=> a \div PageSize \in pages
  /\ hs \in [Heap!Addresses -> {"none", "free", "alloc"}]
  /\ \A a \in Heap!Addresses : hs[a] = "alloc" <=> LiveAt(list, a)

\* What HeapAssumption says, in the form that the lemmas need.
LEMMA SaneFacts ==
  ASSUME Heap!HeapAssumption
  PROVE  /\ Sane /\ Align \in Nat \ {0} /\ Header \in Nat \ {0} /\ Canary \in Nat
         /\ PageSize \in Nat \ {0} /\ Pages \in Nat /\ MinSplit \in Nat
         /\ Header % Align = 0 /\ PageSize % Align = 0
BY DEF Heap!HeapAssumption, Sane

\* align_up_size
LEMMA CapacityFacts ==
  ASSUME Heap!HeapAssumption, NEW n \in Nat
  PROVE  /\ Heap!CapacityNeeded(n) \in Nat /\ Heap!CapacityNeeded(n) % Align = 0
         /\ Heap!CapacityNeeded(n) >= n + Canary
<1> DEFINE z == n + Canary + Align - 1
           q == z \div Align
           r == z % Align
<1>1. Align \in Nat \ {0} /\ Canary \in Nat
  BY SaneFacts
<1>2. z \in Nat
  BY <1>1
<1>3. Heap!CapacityNeeded(n) = q * Align
  BY Zenon DEF Heap!CapacityNeeded, Heap!AlignUp
<1>z. z = n + Canary + Align - 1
  OBVIOUS
<1> HIDE DEF z
<1>4. q \in Nat /\ r \in 0 .. Align - 1 /\ z = Align * q + r
  BY <1>1, <1>2, DivFacts, Zenon
<1> HIDE DEF q, r
<1>5. q * Align = Align * q /\ q * Align \in Nat
  BY <1>1, <1>4
<1>6. (q * Align) % Align = 0
  <2> DEFINE y == q * Align
  <2>1. y \in Nat /\ \E k \in Nat : y = Align * k
    BY <1>4, <1>5, Zenon
  <2> HIDE DEF y
  <2>2. y % Align = 0
    BY <1>1, <2>1, ModIff
  <2> QED BY <2>2 DEF y
<1>7. q * Align >= n + Canary
  BY <1>1, <1>4, <1>5, <1>z
<1> QED BY <1>3, <1>5, <1>6, <1>7

\* An aligned byte of a block is an address.
LEMMA InIsAddress ==
  ASSUME Heap!HeapAssumption, NEW list, NEW hs, NEW pages, HeapOK(list, hs, pages),
         pages \subseteq 0 .. Pages - 1, NEW a \in Nat, a % Align = 0, In(list, a)
  PROVE  a \in Heap!Addresses
<1>1. PageSize \in Nat \ {0} /\ Pages \in Nat
  BY SaneFacts
<1>2. a \div PageSize \in 0 .. 0 + Pages - 1
  BY <1>1 DEF HeapOK
<1>3. a \in 0 * PageSize .. 0 * PageSize + Pages * PageSize - 1
  BY <1>1, <1>2, PageOf
<1>4. 0 * PageSize = 0 /\ Pages * PageSize \in Nat
  BY <1>1
<1>5. a \in 0 .. Pages * PageSize - 1
  BY <1>3, <1>4
<1> QED BY <1>5 DEF Heap!Addresses

INSTANCE WellFoundedInduction

\* Every nonempty set of naturals has a least element.  The scans of the code
\* (next_runnable, find_block) stop at such an element.
LEMMA NatMinimum ==
  ASSUME NEW T \in SUBSET Nat, T # {}
  PROVE  \E x \in T : \A y \in T : x <= y
<1> DEFINE R == OpToRel(<, Nat)
<1>1. IsWellFoundedOn(R, Nat) BY NatLessThanWellFounded, Zenon
<1>2. \A x, y \in Nat : x < y => <<x, y>> \in R BY DEF OpToRel
<1> HIDE DEF R
<1>3. PICK x \in T : \A y \in T : ~(<<y, x>> \in R) BY <1>1, WFMin, Zenon
<1>4. ASSUME NEW y \in T PROVE ~(y < x)
  <2>1. x \in Nat /\ y \in Nat OBVIOUS
  <2>2. ~(<<y, x>> \in R) BY <1>3
  <2> QED BY <1>2, <2>1, <2>2, Zenon
<1>5. \A y \in T : x <= y BY <1>4, SMT
<1> QED BY <1>5

\* The scans of insert_region and find_block stop at the least index.
LEMMA FirstFacts ==
  ASSUME NEW S \in SUBSET Nat, S # {}
  PROVE  Heap!First(S) \in S /\ \A j \in S : Heap!First(S) <= j
<1>1. \E i \in S : \A j \in S : i <= j
  BY NatMinimum
<1> QED BY <1>1, Zenon DEF Heap!First

\* find_block returns a free block that is large enough, or 0.
LEMMA FindFacts ==
  ASSUME NEW list \in Seq(Block), NEW needed, Heap!FindBlock(list, needed) # 0
  PROVE  /\ Heap!FindBlock(list, needed) \in DOMAIN list
         /\ list[Heap!FindBlock(list, needed)].is_free
         /\ list[Heap!FindBlock(list, needed)].capacity >= needed
<1> DEFINE fits == {i \in DOMAIN list : list[i].is_free /\ list[i].capacity >= needed}
<1>1. Heap!FindBlock(list, needed) = IF fits = {} THEN 0 ELSE Heap!First(fits)
  BY Zenon DEF Heap!FindBlock
<1>2. fits \in SUBSET Nat
  OBVIOUS
<1> HIDE DEF fits
<1>3. Heap!FindBlock(list, needed) \in fits
  BY <1>1, <1>2, FirstFacts
<1> QED BY <1>3 DEF fits

\* The end of kmalloc.
LEMMA PlaceKeeps ==
  ASSUME Heap!HeapAssumption, NEW list, NEW hs, NEW pages, HeapOK(list, hs, pages),
         pages \subseteq 0 .. Pages - 1, NEW n \in Nat,
         Heap!FindBlock(list, Heap!CapacityNeeded(n)) # 0, Heap!Place(list, hs, n)
  PROVE  HeapOK(blocks', headers', pages)
<1> DEFINE used == Heap!CapacityNeeded(n)
           i == Heap!FindBlock(list, used)
           split == Heap!SplitBlock(list, i, used)
           b == [split[i] EXCEPT !.requested = n, !.is_free = FALSE]
           grown == Len(split) > Len(list)
           y == split[i + 1].at
           tail == IF grown THEN [hs EXCEPT ![y] = "free"] ELSE hs
<1>1. /\ blocks' = [split EXCEPT ![i] = b]
      /\ headers' = [Heap!Poisoned(tail, split[i]) EXCEPT ![split[i].at] = "alloc"]
  BY Zenon DEF Heap!Place
<1>2. used \in Nat /\ used % Align = 0 /\ used >= n + Canary
  BY CapacityFacts
<1>3. /\ Sane /\ MinSplit \in Nat /\ Canary \in Nat /\ Header \in Nat \ {0}
      /\ Well(list) /\ NoneJoinable(list) /\ list \in Seq(Block)
  BY SaneFacts DEF HeapOK, Well
<1> HIDE DEF used
<1>4. i \in DOMAIN list /\ list[i].is_free /\ list[i].capacity >= used
  BY <1>3, FindFacts DEF used
<1> HIDE DEF i
<1>5. list[i].capacity \in Nat /\ list[i].at \in Nat /\ Heap!End(list[i]) \in Nat
      /\ list[i].at < Heap!End(list[i]) /\ list[i].at % Align = 0
  BY <1>3, <1>4, BlockFacts DEF Well
<1>6. SplitOK(list, i, used, split)
  <2>1. used <= list[i].capacity
    BY <1>2, <1>4, <1>5
  <2> QED BY <1>2, <1>3, <1>4, <2>1, SplitKeeps
<1> HIDE DEF split
<1>7. /\ Well(split) /\ split \in Seq(Block) /\ i \in DOMAIN split
      /\ split[i].at = list[i].at /\ split[i].capacity >= used
      /\ Heap!End(split[i]) <= Heap!End(list[i])
  BY <1>6, Zenon DEF SplitOK, Well
<1>8. /\ split[i] \in Block /\ split[i].capacity \in Nat
      /\ Heap!End(split[i]) \in Nat /\ Heap!End(split[i]) = list[i].at + Header + split[i].capacity
  BY <1>3, <1>7, BlockFacts
<1>9. /\ b \in Block /\ b.at = list[i].at /\ b.capacity = split[i].capacity
      /\ b.requested = n /\ b.is_free = FALSE
  BY <1>7, <1>8, Zenon DEF Block
<1> HIDE DEF b
<1>10. Heap!End(b) = Heap!End(split[i])
  BY <1>7, <1>9 DEF Heap!End, Heap!Payload
<1>11. ReplaceOK(split, i, b, blocks')
  <2>1. b.capacity % Align = 0 /\ b.capacity <= split[i].capacity
    <3>1. split[i].capacity % Align = 0
      BY <1>7, Zenon DEF Well
    <3> QED BY ONLY <1>8, <1>9, <3>1
  <2>2. b.requested + Canary <= b.capacity
    BY <1>2, <1>3, <1>7, <1>8, <1>9
  <2> QED BY <1>1, <1>3, <1>7, <1>9, <2>1, <2>2, ReplaceKeeps, Zenon
<1>12. Well(blocks')
  BY <1>11 DEF ReplaceOK
<1>13. NoneJoinable(blocks')
  <2> SUFFICES ASSUME NEW j \in Nat, Heap!Joinable(blocks', j) PROVE FALSE
    BY DEF NoneJoinable
  <2>1. j # i /\ Heap!Joinable(split, j)
    BY <1>9, <1>11 DEF ReplaceOK
  <2> QED BY <1>6, <2>1 DEF SplitOK
<1>14. ASSUME NEW a \in Nat PROVE In(blocks', a) <=> a \div PageSize \in pages
  <2>1. ~(Heap!End(b) <= a /\ a < Heap!End(split[i]))
    BY <1>8, <1>10
  <2>2. In(blocks', a) <=> In(split, a)
    BY <1>11, <2>1, Zenon DEF ReplaceOK
  <2> QED BY <1>6, <2>2, Zenon DEF SplitOK, HeapOK
<1>15. ASSUME NEW a \in Nat PROVE LiveAt(blocks', a) <=> a = list[i].at \/ LiveAt(list, a)
  <2>1. LiveAt(blocks', a) <=> IF a = b.at THEN ~b.is_free ELSE LiveAt(split, a)
    BY <1>11, Zenon DEF ReplaceOK
  <2>2. LiveAt(split, a) <=> LiveAt(list, a)
    BY <1>6, Zenon DEF SplitOK
  <2> QED BY <1>9, <2>1, <2>2
<1>16. ASSUME NEW a \in Nat, a % Align = 0, list[i].at <= a, a < Heap!End(list[i])
       PROVE  a \in Heap!Addresses
  BY <1>4, <1>16, InIsAddress, Zenon DEF In
<1>17. list[i].at \in Heap!Addresses
  BY <1>5, <1>16
<1>18. grown => y \in Heap!Addresses /\ list[i].at < y /\ y < Heap!End(list[i])
  <2> SUFFICES ASSUME grown PROVE y \in Heap!Addresses /\ list[i].at < y /\ y < Heap!End(list[i])
    OBVIOUS
  <2>1. y % Align = 0 /\ list[i].at < y /\ y < Heap!End(list[i])
    BY <1>6 DEF SplitOK
  <2>2. i + 1 \in DOMAIN split
    BY <1>3, <1>4, <1>7
  <2>3. y \in Nat
    BY <1>3, <1>7, <2>2, BlockFacts
  <2> QED BY <1>5, <1>16, <2>1, <2>3
<1> HIDE DEF y, grown
<1>19. tail \in [Heap!Addresses -> {"none", "free", "alloc"}]
  BY <1>18 DEF HeapOK
<1>20. ASSUME NEW a \in Heap!Addresses PROVE tail[a] = IF grown /\ a = y THEN "free" ELSE hs[a]
  BY <1>18 DEF HeapOK
<1> HIDE DEF tail
<1>21. headers' = [a \in Heap!Addresses |->
                     IF a = list[i].at THEN "alloc"
                     ELSE IF a >= list[i].at + Header /\ a < Heap!End(split[i]) THEN "none"
                     ELSE tail[a]]
  BY <1>1, <1>7, <1>17, Zenon DEF Heap!Poisoned, Heap!Payload
<1>22. headers' \in [Heap!Addresses -> {"none", "free", "alloc"}]
  BY <1>19, <1>21
<1>23. ASSUME NEW a \in Heap!Addresses PROVE headers'[a] = "alloc" <=> LiveAt(blocks', a)
  <2>1. a \in Nat
    BY DEF Heap!Addresses
  <2>2. hs[a] = "alloc" <=> LiveAt(list, a)
    BY DEF HeapOK
  <2>3. CASE a = list[i].at
    BY <1>15, <1>21, <2>1, <2>3, Zenon
  <2>4. CASE a # list[i].at /\ a >= list[i].at + Header /\ a < Heap!End(split[i])
    <3>1. list[i].at < a /\ a < Heap!End(list[i])
      <4>1. /\ a \in Nat /\ list[i].at \in Nat /\ Header \in Nat \ {0}
            /\ Heap!End(list[i]) \in Nat /\ Heap!End(split[i]) \in Nat
            /\ Heap!End(split[i]) <= Heap!End(list[i])
            /\ a >= list[i].at + Header /\ a < Heap!End(split[i])
        BY <1>3, <1>5, <1>7, <1>8, <2>1, <2>4, Zenon
      <4> QED BY ONLY <4>1
    <3>2. ~LiveAt(list, a)
      BY <1>3, <1>4, <2>1, <3>1, NoneInside
    <3>3. headers'[a] = "none"
      BY <1>21, <2>4
    <3> QED BY <1>15, <2>1, <2>4, <3>2, <3>3
  <2>5. CASE a # list[i].at /\ ~(a >= list[i].at + Header /\ a < Heap!End(split[i]))
    <3>1. headers'[a] = tail[a]
      BY <1>21, <2>5
    <3>2. CASE grown /\ a = y
      <4>1. ~LiveAt(list, a)
        BY <1>3, <1>4, <1>18, <2>1, <3>2, NoneInside
      <4>2. headers'[a] = "free"
        BY <1>20, <3>1, <3>2
      <4> QED BY <1>15, <2>1, <2>5, <4>1, <4>2
    <3>3. CASE ~(grown /\ a = y)
      <4>1. headers'[a] = hs[a]
        BY <1>20, <3>1, <3>3
      <4> QED BY <1>15, <2>1, <2>2, <2>5, <4>1
    <3> QED BY <3>2, <3>3
  <2> QED BY <2>3, <2>4, <2>5
<1> QED BY <1>12, <1>13, <1>14, <1>22, <1>23 DEF HeapOK

\* add_region: fresh pages become one free block.
LEMMA RegionKeeps ==
  ASSUME Heap!HeapAssumption, NEW list, NEW hs, NEW pages, HeapOK(list, hs, pages),
         pages \subseteq 0 .. Pages - 1, NEW p \in 0 .. Pages - 1, NEW g \in Nat \ {0},
         g * PageSize >= Header, p .. p + g - 1 \subseteq (0 .. Pages - 1) \ pages
  PROVE  HeapOK(Heap!InsertRegion(list, Heap!FreeBlock(p * PageSize, g * PageSize - Header)),
                [hs EXCEPT ![p * PageSize] = "free"], pages \cup (p .. p + g - 1))
<1> DEFINE at == p * PageSize
           size == g * PageSize
           new == p .. p + g - 1
           b == Heap!FreeBlock(at, size - Header)
           L == Len(list)
           later == {i \in 1 .. L + 1 : i <= L => list[i].at >= b.at}
           pos == Heap!First(later)
           n == Heap!Linked(list, pos, b)
           m == Heap!MergeAround(n, pos)
<1>1. /\ Sane /\ Align \in Nat \ {0} /\ Header \in Nat \ {0} /\ PageSize \in Nat \ {0}
      /\ Pages \in Nat /\ Header % Align = 0 /\ PageSize % Align = 0 /\ p \in Nat
  BY SaneFacts
<1>2. at \in Nat /\ size \in Nat /\ size >= Header /\ size - Header \in Nat
  BY <1>1
<1>3. at % Align = 0 /\ (size - Header) % Align = 0
  <2>1. at % Align = 0 /\ size % Align = 0
    BY <1>1, ModProduct, Zenon
  <2> HIDE DEF at, size
  <2> QED BY <1>1, <1>2, <2>1, ModMinus, Zenon
<1>4. ASSUME NEW a \in Nat PROVE a \div PageSize \in new <=> at <= a /\ a < at + size
  <2>1. a \div PageSize \in new <=> a \in at .. at + size - 1
    BY <1>1, PageOf
  <2> HIDE DEF at, size, new
  <2> QED BY <1>2, <2>1
<1>m. Heap!InsertRegion(list, b) = m
  BY Zenon DEF Heap!InsertRegion
<1>n. new \cap pages = {} /\ p \in new
  BY <1>1
<1>s. size > 0
  BY <1>1, <1>2
<1> HIDE DEF at, size, new
<1>5. /\ b \in Block /\ b.at = at /\ b.capacity = size - Header /\ b.is_free
      /\ Heap!End(b) = at + size
  <2>1. /\ b \in Block /\ b.at = at /\ b.capacity = size - Header /\ b.is_free
        /\ Heap!End(b) = at + Header + (size - Header)
    BY <1>1, <1>2, FreeBlockFacts
  <2> HIDE DEF b
  <2> QED BY <1>1, <1>2, <2>1
<1> HIDE DEF b
<1>6. /\ Well(list) /\ list \in Seq(Block) /\ L \in Nat /\ DOMAIN list = 1 .. L
      /\ NoneJoinable(list)
  BY DEF HeapOK, Well
<1>7. ASSUME NEW j \in DOMAIN list
      PROVE  /\ list[j].at \in Nat /\ Heap!End(list[j]) \in Nat
             /\ list[j].at < Heap!End(list[j])
             /\ Heap!End(list[j]) <= at \/ at + size <= list[j].at
  <2>1. list[j].at \in Nat /\ Heap!End(list[j]) \in Nat /\ list[j].at < Heap!End(list[j])
    BY <1>1, <1>6, BlockFacts, Zenon
  <2>2. ASSUME NEW a \in Nat, list[j].at <= a, a < Heap!End(list[j])
        PROVE  ~(at <= a /\ a < at + size)
    <3>1. a \div PageSize \in pages
      BY <2>2 DEF HeapOK, In
    <3> QED BY <1>4, <1>n, <3>1, Zenon
  <2>3. ~(list[j].at <= at /\ at < Heap!End(list[j]))
    BY <1>2, <1>s, <2>2
  <2>4. ~(at <= list[j].at /\ list[j].at < at + size)
    BY <2>1, <2>2
  <2> QED BY <1>2, <1>s, <2>1, <2>3, <2>4
<1>8. pos \in later /\ \A j \in later : pos <= j
  <2>1. later \in SUBSET Nat /\ L + 1 \in later
    BY <1>6
  <2> HIDE DEF later
  <2> QED BY <2>1, FirstFacts
<1> HIDE DEF pos
<1>9. pos \in 1 .. L + 1 /\ (pos <= L => list[pos].at >= at)
  BY <1>5, <1>8
<1>10. ASSUME NEW j \in DOMAIN list, j < pos PROVE Heap!End(list[j]) <= b.at
  <2>1. j \notin later
    BY <1>6, <1>8, <1>9, <1>10
  <2>2. ~(list[j].at >= at)
    BY <1>5, <1>6, <2>1
  <2>3. /\ list[j].at \in Nat /\ Heap!End(list[j]) \in Nat
        /\ Heap!End(list[j]) <= at \/ at + size <= list[j].at
    BY <1>7
  <2> QED BY <1>2, <1>5, <2>2, <2>3
<1> HIDE DEF later
<1>11. ASSUME NEW j \in DOMAIN list, j >= pos PROVE Heap!End(b) <= list[j].at
  <2>1. pos \in DOMAIN list /\ list[pos].at >= at
    BY <1>6, <1>9, <1>11
  <2>2. j = pos \/ Heap!End(list[pos]) <= list[j].at
    BY <1>6, <1>9, <1>11, <2>1 DEF Well
  <2>3. /\ list[pos].at \in Nat /\ Heap!End(list[pos]) \in Nat /\ list[j].at \in Nat
        /\ Heap!End(list[j]) \in Nat /\ list[j].at < Heap!End(list[j])
        /\ list[pos].at < Heap!End(list[pos])
        /\ Heap!End(list[j]) <= at \/ at + size <= list[j].at
    BY <1>7, <2>1
  <2>4. list[j].at >= at
    BY <1>2, <2>1, <2>2, <2>3
  <2> QED BY <1>2, <1>5, <2>3, <2>4
<1>12. LinkedOK(list, pos, b, n)
  BY <1>1, <1>3, <1>5, <1>6, <1>9, <1>10, <1>11, LinkedKeeps, Zenon
<1> HIDE DEF n
<1>13. ASSUME NEW j \in Nat, Heap!Joinable(n, j) PROVE j = pos - 1 \/ j = pos
  <2>1. \/ j = pos - 1 \/ j = pos
        \/ j < pos - 1 /\ Heap!Joinable(list, j)
        \/ j > pos /\ Heap!Joinable(list, j - 1)
    BY <1>12, <1>13 DEF LinkedOK
  <2>2. j > pos => j - 1 \in Nat
    BY <1>9
  <2> QED BY <1>6, <2>1, <2>2 DEF NoneJoinable
<1>14. Keeps(n, m) /\ \A j \in Nat : ~Heap!Joinable(m, j)
  <2>1. Well(n) /\ pos \in Nat \ {0}
    BY <1>6, <1>9, <1>12 DEF LinkedOK
  <2> QED BY <1>1, <1>13, <2>1, MergeAroundKeeps
<1> HIDE DEF m
<1>15. Well(m) /\ NoneJoinable(m)
  BY <1>14 DEF Keeps, NoneJoinable
<1>16. ASSUME NEW a \in Nat PROVE In(m, a) <=> a \div PageSize \in pages \cup new
  <2>1. In(m, a) <=> In(n, a)
    BY <1>14, Zenon DEF Keeps
  <2>2. In(n, a) <=> In(list, a) \/ (b.at <= a /\ a < Heap!End(b))
    BY <1>12, Zenon DEF LinkedOK
  <2>3. In(list, a) <=> a \div PageSize \in pages
    BY Zenon DEF HeapOK
  <2>4. a \div PageSize \in new <=> b.at <= a /\ a < Heap!End(b)
    BY <1>4, <1>5
  <2> QED BY <2>1, <2>2, <2>3, <2>4, Zenon
<1>17. ASSUME NEW a \in Nat PROVE LiveAt(m, a) <=> LiveAt(list, a)
  BY <1>12, <1>14, Zenon DEF Keeps, LinkedOK
<1>18. ~LiveAt(list, at)
  <2> SUFFICES ASSUME LiveAt(list, at) PROVE FALSE
    OBVIOUS
  <2>1. PICK j \in DOMAIN list : list[j].at = at
    BY DEF LiveAt
  <2> QED BY <1>2, <1>7, <1>s, <2>1
<1>19. ASSUME NEW a \in Heap!Addresses
       PROVE  [hs EXCEPT ![at] = "free"][a] = "alloc" <=> LiveAt(m, a)
  <2>1. a \in Nat
    BY DEF Heap!Addresses
  <2>2. hs[a] = "alloc" <=> LiveAt(list, a)
    BY DEF HeapOK
  <2>3. [hs EXCEPT ![at] = "free"][a] = IF a = at THEN "free" ELSE hs[a]
    BY DEF HeapOK
  <2> QED BY <1>17, <1>18, <2>1, <2>2, <2>3
<1>20. [hs EXCEPT ![at] = "free"] \in [Heap!Addresses -> {"none", "free", "alloc"}]
  BY Zenon DEF HeapOK
<1>21. HeapOK(m, [hs EXCEPT ![at] = "free"], pages \cup new)
  BY <1>15, <1>16, <1>19, <1>20 DEF HeapOK
<1> QED BY <1>21, <1>m, Zenon DEF at, size, new, b

\* kfree.
LEMMA KfreeKeeps ==
  ASSUME Heap!HeapAssumption, NEW pages, HeapOK(blocks, headers, pages),
         pages \subseteq 0 .. Pages - 1, NEW i \in DOMAIN blocks, Heap!Kfree(i)
  PROVE  HeapOK(blocks', headers', pages)
<1> DEFINE b == [blocks[i] EXCEPT !.requested = 0, !.is_free = TRUE]
           n == [blocks EXCEPT ![i] = b]
           at == blocks[i].at
<1>1. /\ blocks' = Heap!MergeAround(n, i)
      /\ headers' = [Heap!Poisoned(headers, blocks[i]) EXCEPT ![at] = "free"]
      /\ headers[at] = "alloc"
  BY Zenon DEF Heap!Kfree
<1>2. /\ Sane /\ Header \in Nat \ {0} /\ Well(blocks) /\ NoneJoinable(blocks)
      /\ blocks \in Seq(Block) /\ i \in Nat \ {0}
  BY SaneFacts DEF HeapOK, Well
<1>3. /\ blocks[i] \in Block /\ at \in Nat /\ Heap!End(blocks[i]) \in Nat
      /\ blocks[i].capacity \in Nat /\ at < Heap!End(blocks[i])
      /\ at % Align = 0 /\ blocks[i].capacity % Align = 0
  BY <1>2, BlockFacts DEF Well
<1>4. /\ b \in Block /\ b.at = at /\ b.capacity = blocks[i].capacity /\ b.is_free = TRUE
  BY <1>3, Zenon DEF Block
<1> HIDE DEF b
<1>5. Heap!End(b) = Heap!End(blocks[i])
  BY <1>4 DEF Heap!End, Heap!Payload
<1>6. ReplaceOK(blocks, i, b, n)
  <2>1. b.capacity % Align = 0 /\ b.capacity <= blocks[i].capacity
    BY <1>3, <1>4
  <2> QED BY <1>2, <1>4, <2>1, ReplaceKeeps
<1> HIDE DEF n
<1>a. at \in Heap!Addresses
  <2>1. In(blocks, at)
    BY <1>3 DEF In
  <2> QED BY <1>3, <2>1, InIsAddress, Zenon
<1> HIDE DEF at
<1>7. ASSUME NEW j \in Nat, Heap!Joinable(n, j) PROVE j = i - 1 \/ j = i
  BY <1>2, <1>6, <1>7 DEF ReplaceOK, NoneJoinable
<1>8. Keeps(n, blocks') /\ \A j \in Nat : ~Heap!Joinable(blocks', j)
  <2>1. Well(n)
    BY <1>6 DEF ReplaceOK
  <2> QED BY <1>1, <1>2, <1>7, <2>1, MergeAroundKeeps
<1>9. Well(blocks') /\ NoneJoinable(blocks')
  BY <1>8 DEF Keeps, NoneJoinable
<1>10. ASSUME NEW a \in Nat PROVE In(blocks', a) <=> a \div PageSize \in pages
  <2>1. ~(Heap!End(b) <= a /\ a < Heap!End(blocks[i]))
    BY <1>3, <1>5
  <2>2. In(n, a) <=> In(blocks, a)
    BY <1>6, <2>1, Zenon DEF ReplaceOK
  <2> QED BY <1>8, <2>2, Zenon DEF Keeps, HeapOK
<1>11. ASSUME NEW a \in Nat PROVE LiveAt(blocks', a) <=> a # at /\ LiveAt(blocks, a)
  <2>1. LiveAt(n, a) <=> IF a = b.at THEN ~b.is_free ELSE LiveAt(blocks, a)
    BY <1>6, Zenon DEF ReplaceOK
  <2>2. LiveAt(blocks', a) <=> LiveAt(n, a)
    BY <1>8, Zenon DEF Keeps
  <2> QED BY <1>4, <2>1, <2>2
<1>12. headers' = [a \in Heap!Addresses |->
                     IF a = at THEN "free"
                     ELSE IF a >= at + Header /\ a < Heap!End(blocks[i]) THEN "none"
                     ELSE headers[a]]
  BY <1>1, <1>a, Zenon DEF Heap!Poisoned, Heap!Payload, at
<1>13. headers' \in [Heap!Addresses -> {"none", "free", "alloc"}]
  BY <1>12 DEF HeapOK
<1>14. ASSUME NEW a \in Heap!Addresses PROVE headers'[a] = "alloc" <=> LiveAt(blocks', a)
  <2>1. a \in Nat
    BY DEF Heap!Addresses
  <2>2. headers[a] = "alloc" <=> LiveAt(blocks, a)
    BY DEF HeapOK
  <2>3. CASE a = at
    BY <1>11, <1>12, <2>1, <2>3
  <2>4. CASE a # at /\ a >= at + Header /\ a < Heap!End(blocks[i])
    <3>1. blocks[i].at < a /\ a < Heap!End(blocks[i])
      BY <1>2, <1>3, <2>1, <2>4 DEF at
    <3>2. ~LiveAt(blocks, a)
      BY <1>2, <2>1, <3>1, NoneInside
    <3>3. headers'[a] = "none"
      BY <1>12, <2>4
    <3> QED BY <1>11, <2>1, <3>2, <3>3
  <2>5. CASE a # at /\ ~(a >= at + Header /\ a < Heap!End(blocks[i]))
    BY <1>11, <1>12, <2>1, <2>2, <2>5
  <2> QED BY <2>3, <2>4, <2>5
<1> QED BY <1>9, <1>10, <1>13, <1>14 DEF HeapOK

\* A client that writes beyond its payload changes only the canary.
LEMMA OverrunKeeps ==
  ASSUME Heap!HeapAssumption, NEW pages, HeapOK(blocks, headers, pages),
         NEW i \in DOMAIN blocks, Heap!Overrun(i)
  PROVE  HeapOK(blocks', headers', pages)
<1> DEFINE b == [blocks[i] EXCEPT !.intact = FALSE]
<1>1. blocks' = [blocks EXCEPT ![i] = b] /\ headers' = headers /\ ~blocks[i].is_free
  BY DEF Heap!Overrun
<1>2. /\ Sane /\ Well(blocks) /\ NoneJoinable(blocks) /\ blocks \in Seq(Block) /\ i \in Nat \ {0}
  BY SaneFacts DEF HeapOK, Well
<1>3. /\ blocks[i] \in Block /\ blocks[i].capacity \in Nat /\ blocks[i].capacity % Align = 0
      /\ Heap!End(blocks[i]) \in Nat
      /\ blocks[i].requested + Canary <= blocks[i].capacity
  BY <1>1, <1>2, BlockFacts DEF Well
<1>4. /\ b \in Block /\ b.at = blocks[i].at /\ b.capacity = blocks[i].capacity
      /\ b.requested = blocks[i].requested /\ b.is_free = blocks[i].is_free
  BY <1>3, Zenon DEF Block
<1> HIDE DEF b
<1>5. Heap!End(b) = Heap!End(blocks[i])
  BY <1>4 DEF Heap!End, Heap!Payload
<1>6. ReplaceOK(blocks, i, b, blocks')
  <2>1. b.capacity % Align = 0 /\ b.capacity <= blocks[i].capacity
        /\ b.requested + Canary <= b.capacity
    BY <1>3, <1>4
  <2> QED BY <1>1, <1>2, <1>4, <2>1, ReplaceKeeps, Zenon
<1>7. Well(blocks') /\ NoneJoinable(blocks')
  BY <1>1, <1>2, <1>4, <1>6, Zenon DEF ReplaceOK, NoneJoinable
<1>8. ASSUME NEW a \in Nat PROVE In(blocks', a) <=> a \div PageSize \in pages
  <2>1. ~(Heap!End(b) <= a /\ a < Heap!End(blocks[i]))
    BY <1>3, <1>5
  <2> QED BY <1>6, <2>1, Zenon DEF ReplaceOK, HeapOK
<1>9. ASSUME NEW a \in Nat PROVE LiveAt(blocks', a) <=> LiveAt(blocks, a)
  <2>1. LiveAt(blocks', a) <=> IF a = b.at THEN ~b.is_free ELSE LiveAt(blocks, a)
    BY <1>6, Zenon DEF ReplaceOK
  <2>2. a = b.at => LiveAt(blocks, a)
    BY <1>1, <1>4 DEF LiveAt
  <2> QED BY <1>1, <1>4, <2>1, <2>2
<1>10. ASSUME NEW a \in Heap!Addresses PROVE headers'[a] = "alloc" <=> LiveAt(blocks', a)
  <2>1. a \in Nat
    BY DEF Heap!Addresses
  <2> QED BY <1>1, <1>9, <2>1, Zenon DEF HeapOK
<1> QED BY <1>1, <1>7, <1>8, <1>10, Zenon DEF HeapOK

\* The inductive invariant of the heap.
HeapInv ==
  /\ HeapOK(blocks, headers, taken)
  /\ taken \subseteq 0 .. Pages - 1
  /\ total_region_bytes = PageSize * Cardinality(taken)

\* kernel_heap_grow asks for enough pages for a header, however its rounding
\* comes out.
LEMMA GrowFacts ==
  ASSUME Heap!HeapAssumption, NEW n \in Nat
  PROVE  Heap!GrowPages(n) \in Nat \ {0} /\ Heap!GrowPages(n) * PageSize >= Header
<1> DEFINE x == Header + Heap!CapacityNeeded(n) + Canary + PageSize - 1
           pages == (x % (SizeMax + 1)) \div PageSize
           g == Heap!GrowPages(n)
<1>1. /\ Header \in Nat /\ Canary \in Nat /\ PageSize \in Nat \ {0} /\ SizeMax + 1 \in Nat \ {0}
      /\ MinGrowPages \in Nat \ {0} /\ MinSplit \in Nat
      /\ MinGrowPages * PageSize > Header + MinSplit
      /\ Heap!CapacityNeeded(n) \in Nat
  BY CapacityFacts DEF Heap!HeapAssumption
<1>2. g = IF pages < MinGrowPages THEN MinGrowPages ELSE pages
  BY Zenon DEF Heap!GrowPages
<1>3. x \in Nat
  BY <1>1
<1> HIDE DEF x
<1>4. x % (SizeMax + 1) \in Nat
  BY <1>1, <1>3, DivFacts
<1>5. pages \in Nat
  BY <1>1, <1>4, DivFacts
<1> HIDE DEF pages, g
<1>6. g \in Nat \ {0} /\ MinGrowPages <= g
  BY <1>1, <1>2, <1>5
<1>7. PageSize * MinGrowPages <= PageSize * g
  BY <1>1, <1>6, MulMono
<1>8. g * PageSize >= Header
  BY <1>1, <1>6, <1>7
<1> QED BY <1>6, <1>8 DEF g

INSTANCE FiniteSetTheorems

\* Every call keeps the invariant.
LEMMA HeapStep ==
  ASSUME Heap!HeapAssumption, HeapInv, [Heap!Next]_(Heap!vars)
  PROVE  HeapInv'
<1>1. HeapOK(blocks, headers, taken) /\ taken \subseteq 0 .. Pages - 1
      /\ total_region_bytes = PageSize * Cardinality(taken)
  BY Zenon DEF HeapInv
<1>2. ASSUME UNCHANGED <<taken, total_region_bytes>>, HeapOK(blocks', headers', taken)
      PROVE  HeapInv'
  BY <1>1, <1>2, Zenon DEF HeapInv
<1>3. ASSUME UNCHANGED Heap!vars PROVE HeapInv'
  <2>1. UNCHANGED <<blocks, headers, taken, total_region_bytes>>
    BY <1>3, Zenon DEF Heap!vars
  <2>2. HeapOK(blocks', headers', taken)
    BY <1>1, <2>1, Zenon
  <2> QED BY <1>2, <2>1, <2>2, Zenon
<1>4. ASSUME NEW n \in Sizes PROVE n \in Nat
  BY DEF Heap!HeapAssumption
<1>5. ASSUME NEW n \in Sizes, Heap!KmallocFound(n) PROVE HeapInv'
  <2>1. /\ Heap!FindBlock(blocks, Heap!CapacityNeeded(n)) # 0
        /\ Heap!Place(blocks, headers, n) /\ UNCHANGED <<taken, total_region_bytes>>
    BY <1>5, Zenon DEF Heap!KmallocFound
  <2>2. HeapOK(blocks', headers', taken)
    BY <1>1, <1>4, <2>1, PlaceKeeps, Zenon
  <2> QED BY <1>2, <2>1, <2>2, Zenon
<1>6. ASSUME NEW n \in Sizes, Heap!KmallocGrows(n) PROVE HeapInv'
  <2> DEFINE g == Heap!GrowPages(n)
  <2>1. PICK p \in 0 .. (Pages - 1) :
          LET new   == p .. (p + g - 1)
              bytes == g * PageSize
              list  == Heap!InsertRegion(blocks, Heap!FreeBlock(p * PageSize, bytes - Header))
              hs    == [headers EXCEPT ![p * PageSize] = "free"]
          IN  /\ new \subseteq (0 .. (Pages - 1)) \ taken
              /\ taken' = taken \cup new
              /\ total_region_bytes' = total_region_bytes + bytes
              /\ IF Heap!FindBlock(list, Heap!CapacityNeeded(n)) # 0
                 THEN Heap!Place(list, hs, n)
                 ELSE blocks' = list /\ headers' = hs
    BY <1>6, Zenon DEF Heap!KmallocGrows
  <2> DEFINE new   == p .. (p + g - 1)
             list  == Heap!InsertRegion(blocks, Heap!FreeBlock(p * PageSize, g * PageSize - Header))
             hs    == [headers EXCEPT ![p * PageSize] = "free"]
  <2>2. g \in Nat \ {0} /\ g * PageSize >= Header /\ p \in Nat
        /\ PageSize \in Nat \ {0} /\ Pages \in Nat
    BY <1>4, GrowFacts, SaneFacts
  <2>3. /\ new \subseteq (0 .. (Pages - 1)) \ taken
        /\ taken' = taken \cup new
        /\ total_region_bytes' = total_region_bytes + g * PageSize
    BY <2>1, Zenon
  <2>4. HeapOK(list, hs, taken')
    BY <1>1, <2>2, <2>3, RegionKeeps, Zenon
  <2>5. taken' \subseteq 0 .. Pages - 1
    BY <1>1, <2>3, Zenon
  <2>6. HeapOK(blocks', headers', taken')
    <3>1. CASE Heap!FindBlock(list, Heap!CapacityNeeded(n)) # 0
      <4>1. Heap!Place(list, hs, n)
        BY <2>1, <3>1, Zenon
      <4> HIDE DEF list, hs
      <4> QED BY <1>4, <2>4, <2>5, <3>1, <4>1, PlaceKeeps, Zenon
    <3>2. CASE ~(Heap!FindBlock(list, Heap!CapacityNeeded(n)) # 0)
      BY <2>1, <2>4, <3>2, Zenon
    <3> QED BY <3>1, <3>2, Zenon
  <2> HIDE DEF list, hs
  <2>7. total_region_bytes' = PageSize * Cardinality(taken')
    <3>1. IsFiniteSet(taken) /\ IsFiniteSet(new) /\ Cardinality(new) = g
      <4>0. 0 \in Int /\ Pages - 1 \in Int /\ p \in Int /\ p + g - 1 \in Int
        BY <2>2
      <4>1. IsFiniteSet(0 .. Pages - 1) /\ IsFiniteSet(new)
        BY <4>0, FS_Interval, Zenon
      <4>2. IsFiniteSet(taken)
        BY <1>1, <4>1, FS_Subset, Zenon
      <4>3. p \in Int /\ p + g - 1 \in Int /\ ~(p > p + g - 1) /\ (p + g - 1) - p + 1 = g
        BY <2>2
      <4>4. Cardinality(new) = g
        BY <4>3, FS_Interval, Zenon
      <4> QED BY <4>1, <4>2, <4>4, Zenon
    <3>2. taken \cap new = {}
      BY <2>3, Zenon
    <3> HIDE DEF new, g
    <3>3. Cardinality(taken') = Cardinality(taken) + g
      <4>1. Cardinality({}) = 0
        BY FS_EmptySet, Zenon
      <4>2. Cardinality(taken \cup new)
              = Cardinality(taken) + Cardinality(new) - Cardinality(taken \cap new)
        BY <3>1, FS_Union, Zenon
      <4>3. Cardinality(taken) \in Nat
        BY <3>1, FS_CardinalityType, Zenon
      <4>4. Cardinality(taken \cap new) = 0
        BY <3>2, <4>1, Zenon
      <4>5. Cardinality(taken') = Cardinality(taken) + g - 0
        BY <2>3, <3>1, <4>2, <4>4, Zenon
      <4>6. g \in Nat
        BY <2>2, Zenon
      <4> QED BY ONLY <4>3, <4>5, <4>6
    <3>4. Cardinality(taken) \in Nat
      BY <3>1, FS_CardinalityType, Zenon
    <3> QED BY <1>1, <2>2, <2>3, <3>3, <3>4
  <2> QED BY <2>5, <2>6, <2>7 DEF HeapInv
<1>7. ASSUME NEW i \in DOMAIN blocks, Heap!Overrun(i) PROVE HeapInv'
  <2>1. UNCHANGED <<taken, total_region_bytes>>
    BY <1>7, Zenon DEF Heap!Overrun
  <2> QED BY <1>1, <1>2, <1>7, <2>1, OverrunKeeps, Zenon
<1>8. ASSUME NEW i \in DOMAIN blocks, Heap!Kfree(i) PROVE HeapInv'
  <2>1. UNCHANGED <<taken, total_region_bytes>>
    BY <1>8 DEF Heap!Kfree
  <2> QED BY <1>1, <1>2, <1>8, <2>1, KfreeKeeps, Zenon
<1>9. ASSUME NEW n, Heap!KmallocFails(n) PROVE HeapInv'
  BY <1>3, <1>9 DEF Heap!KmallocFails
<1>10. ASSUME NEW a, Heap!KfreeRefused(a) PROVE HeapInv'
  BY <1>3, <1>10 DEF Heap!KfreeRefused
<1> QED BY <1>3, <1>5, <1>6, <1>7, <1>8, <1>9, <1>10, Zenon DEF Heap!Next

\* The invariant holds always.
LEMMA HeapInvariant ==
  ASSUME Heap!HeapAssumption PROVE Heap!Spec => []HeapInv
<1>1. Heap!Init => HeapInv
  <2> SUFFICES ASSUME Heap!Init PROVE HeapInv
    OBVIOUS
  <2>1. /\ blocks = <<>> /\ headers = [a \in Heap!Addresses |-> "none"]
        /\ total_region_bytes = 0 /\ taken = {}
    BY Zenon DEF Heap!Init
  <2>2. blocks \in Seq(Block) /\ DOMAIN blocks = {} /\ Len(blocks) = 0
    BY <2>1
  <2>3. Well(blocks) /\ (\A a \in Nat : ~In(blocks, a) /\ ~LiveAt(blocks, a))
    BY <2>2, Zenon DEF Well, In, LiveAt
  <2>4. NoneJoinable(blocks)
    BY <2>2 DEF NoneJoinable, Heap!Joinable
  <2>5. \A a \in Heap!Addresses : a \in Nat
    BY DEF Heap!Addresses
  <2>6. HeapOK(blocks, headers, taken)
    BY <2>1, <2>3, <2>4, <2>5 DEF HeapOK
  <2>7. PageSize * Cardinality({}) = 0
    BY SaneFacts, FS_EmptySet
  <2> QED BY <2>1, <2>6, <2>7 DEF HeapInv
<1> QED BY <1>1, HeapStep, PTL DEF Heap!Spec

\* The blocks of the kernel heap tile the pages it was given: kmalloc and kfree
\* lose no byte and give none to two clients, whatever the sizes, the order of
\* the calls and the place of the pages that the callback returns.
THEOREM HeapTiles ==
  ASSUME Heap!HeapAssumption PROVE Heap!Spec => []Heap!Tiling
<1>1. HeapInv => Heap!Tiling
  <2> SUFFICES ASSUME HeapInv PROVE Heap!Tiling
    OBVIOUS
  <2>1. /\ HeapOK(blocks, headers, taken) /\ taken \subseteq 0 .. Pages - 1
        /\ total_region_bytes = PageSize * Cardinality(taken)
    BY Zenon DEF HeapInv
  <2>2. /\ Sane /\ PageSize \in Nat \ {0} /\ Pages \in Nat /\ Well(blocks)
        /\ blocks \in Seq(Block) /\ NoneJoinable(blocks)
    BY <2>1, SaneFacts, Zenon DEF HeapOK, Well
  <2>3. ASSUME NEW i \in DOMAIN blocks
        PROVE  /\ blocks[i].capacity % Align = 0
               /\ i > 1 => Heap!End(blocks[i - 1]) <= blocks[i].at
               /\ i \in Heap!Live => blocks[i].requested + Canary <= blocks[i].capacity
               /\ ~Heap!Joinable(blocks, i)
    <3>1. i \in Nat /\ (i > 1 => i - 1 \in DOMAIN blocks /\ i - 1 < i)
      BY <2>2
    <3> QED BY <2>2, <3>1, Zenon DEF Well, NoneJoinable, Heap!Live
  <2>4. ASSUME NEW a
        PROVE  a \in UNION {Heap!Extent(blocks[i]) : i \in DOMAIN blocks} <=>
                 a \in Nat /\ In(blocks, a)
    <3>1. ASSUME NEW i \in DOMAIN blocks
          PROVE  a \in Heap!Extent(blocks[i]) <=>
                   a \in Nat /\ blocks[i].at <= a /\ a < Heap!End(blocks[i])
      <4>1. blocks[i].at \in Nat /\ Heap!End(blocks[i]) \in Nat
        BY <2>2, BlockFacts
      <4> QED BY <4>1 DEF Heap!Extent
    <3>2. a \in UNION {Heap!Extent(blocks[i]) : i \in DOMAIN blocks} <=>
            \E i \in DOMAIN blocks : a \in Heap!Extent(blocks[i])
      BY Zenon
    <3> QED BY <3>1, <3>2, Zenon DEF In
  <2>5. ASSUME NEW a \in Nat, a \div PageSize \in taken PROVE a \in 0 .. Pages * PageSize - 1
    <3>1. a \div PageSize \in 0 .. 0 + Pages - 1
      BY <2>1, <2>2, <2>5
    <3>2. a \in 0 * PageSize .. 0 * PageSize + Pages * PageSize - 1
      BY <2>2, <3>1, PageOf, Zenon
    <3>3. 0 * PageSize = 0 /\ Pages * PageSize \in Nat
      BY <2>2
    <3> QED BY <3>2, <3>3
  <2>6. ASSUME NEW a PROVE a \in Nat /\ In(blocks, a) <=>
                             a \in {x \in 0 .. (Pages * PageSize - 1) : x \div PageSize \in taken}
    <3>1. a \in Nat => (In(blocks, a) <=> a \div PageSize \in taken)
      BY <2>1, Zenon DEF HeapOK
    <3>2. a \in 0 .. (Pages * PageSize - 1) => a \in Nat
      OBVIOUS
    <3> QED BY <2>5, <3>1, <3>2, Zenon
  <2>7. UNION {Heap!Extent(blocks[i]) : i \in DOMAIN blocks}
          = {a \in 0 .. (Pages * PageSize - 1) : a \div PageSize \in taken}
    BY <2>4, <2>6, Zenon
  <2>8. Heap!Cardinality(taken) = Cardinality(taken)
    BY Zenon DEF Cardinality, Heap!Cardinality
  <2> QED BY <2>1, <2>3, <2>7, <2>8, Zenon DEF Heap!Tiling
<1> QED BY <1>1, HeapInvariant, PTL

\* The magic number that kfree looks for is in front of the allocated payloads
\* and nowhere else, though merge_with_next leaves headers behind.
THEOREM KfreeTakesOnlyAllocated ==
  ASSUME Heap!HeapAssumption PROVE Heap!Spec => []Heap!NoStaleHeader
<1>1. HeapInv => Heap!NoStaleHeader
  <2> SUFFICES ASSUME HeapInv, NEW a \in Heap!Addresses
               PROVE  headers[a] = "alloc" <=> \E i \in Heap!Live : blocks[i].at = a
    BY DEF Heap!NoStaleHeader
  <2>1. headers[a] = "alloc" <=> LiveAt(blocks, a)
    BY DEF HeapInv, HeapOK
  <2> QED BY <2>1, Zenon DEF LiveAt, Heap!Live
<1> QED BY <1>1, HeapInvariant, PTL

-----------------------------------------------------------------------------
\* The inductive invariant.  A used slot's id is below next_id and above the
\* bootstrap id, and distinct used slots have distinct ids.
SchedInv ==
  /\ TypeOK
  /\ OneRunning
  /\ BootstrapWaits
  /\ ReadyOwnsItsFrame
  /\ id[0] = BootstrapId
  /\ \A s \in Slots : id[s] < next_id
  /\ \A s \in Slots \ {0} : state[s] # "UNUSED" => id[s] > BootstrapId
  /\ \A s, r \in Slots \ {0} :
       state[s] # "UNUSED" /\ state[r] # "UNUSED" /\ id[s] = id[r] => s = r
  /\ next_id > BootstrapId

USE SchedulerAssumption DEF Slots, SlotCount, BootstrapId

-----------------------------------------------------------------------------

\* The scan of next_runnable visits slots only, and it visits every slot.
LEMMA SlotAtInSlots ==
  ASSUME NEW o \in 0..MaxThreads, scan_cursor \in Slots
  PROVE  SlotAt(o) \in Slots
  BY DEF SlotAt

\* Whatever the cursor, some offset of the scan lands on any given slot.
LEMMA ScanCoversSlots ==
  ASSUME NEW s \in Slots, scan_cursor \in Slots
  PROVE  \E o \in 0..MaxThreads : SlotAt(o) = s
<1>1. CASE s >= scan_cursor
  <2>1. s - scan_cursor \in 0..MaxThreads BY <1>1
  <2>2. SlotAt(s - scan_cursor) = s BY <1>1 DEF SlotAt
  <2> QED BY <2>1, <2>2, Zenon
<1>2. CASE s < scan_cursor
  <2>1. s + SlotCount - scan_cursor \in 0..MaxThreads BY <1>2
  <2>2. SlotAt(s + SlotCount - scan_cursor) = (s + SlotCount) % SlotCount
    BY <1>2 DEF SlotAt
  <2>3. (s + SlotCount) % SlotCount = s OBVIOUS
  <2> QED BY <2>1, <2>2, <2>3
<1> QED BY <1>1, <1>2

\* Bootstrap is ready after the demotion, so a yield always has a candidate.
LEMMA YieldHasCandidate ==
  ASSUME TypeOK, BootstrapWaits
  PROVE  Demoted[0] = "READY" /\ ~NoneRunnable(Demoted)
<1>1. Demoted[0] = "READY" BY DEF Demoted, TypeOK, BootstrapWaits
<1>2. PICK o \in 0..MaxThreads : SlotAt(o) = 0 BY ScanCoversSlots DEF TypeOK
<1> QED BY <1>1, <1>2 DEF NoneRunnable

\* next_runnable stops at a slot: the nearest ready offset exists.
LEMMA NearestExists ==
  ASSUME TypeOK, BootstrapWaits
  PROVE  \E o \in 0..MaxThreads : NextRunnable(Demoted, o)
<1> DEFINE T == {o \in 0..MaxThreads : Demoted[SlotAt(o)] = "READY"}
<1>1. T \in SUBSET Nat /\ T # {} BY YieldHasCandidate DEF NoneRunnable
<1> HIDE DEF T
<1>2. PICK o \in T : \A p \in T : o <= p BY <1>1, NatMinimum
<1>3. o \in 0..MaxThreads /\ Demoted[SlotAt(o)] = "READY" BY DEF T
<1>4. ASSUME NEW p \in 0..MaxThreads, p < o PROVE Demoted[SlotAt(p)] # "READY"
  BY <1>2, <1>3, <1>4 DEF T
<1> QED BY <1>3, <1>4 DEF NextRunnable

\* The state table seen by next_runnable.
LEMMA DemotedFacts ==
  ASSUME SchedInv
  PROVE  /\ Demoted \in [Slots -> ThreadState]
         /\ \A s \in Slots : s # current => Demoted[s] = state[s]
         /\ \A s \in Slots : Demoted[s] # "RUNNING"
         /\ Demoted[current] = IF state[current] = "RUNNING" THEN "READY" ELSE "DEAD"
  BY Zenon DEF Demoted, SchedInv, TypeOK, OneRunning, ThreadState

-----------------------------------------------------------------------------

\* scheduler_init leaves the tables in a good state.
LEMMA InitEstablishes == Init => SchedInv
  BY DEF Init, SchedInv, TypeOK, OneRunning, BootstrapWaits, ReadyOwnsItsFrame,
         ThreadState, Frame, NoFrame

\* scheduler_create fills a slot that is neither bootstrap's nor the caller's.
LEMMA CreatePreserves ==
  ASSUME SchedInv, Create
  PROVE  SchedInv'
<1> USE DEF SchedInv
<1>1. PICK s \in Slots :
        /\ Reusable(s)
        /\ id' = [id EXCEPT ![s] = next_id]
        /\ state' = [state EXCEPT ![s] = "READY"]
        /\ frame' = [frame EXCEPT ![s] = FreshFrame(next_id)]
  BY Zenon DEF Create
<1>2. s # 0 /\ s # current BY <1>1, Zenon DEF Reusable, OneRunning, Create, TypeOK
<1>3. TypeOK'
  <2>1. FreshFrame(next_id) \in Frame BY Zenon DEF TypeOK, FreshFrame, Frame
  <2>2. frame' \in [Slots -> Frame] BY <1>1, <2>1, Zenon DEF TypeOK
  <2> QED BY <1>1, <2>2 DEF Create, TypeOK, ThreadState
<1>4. OneRunning' BY <1>1, <1>2, Zenon DEF Create, TypeOK, OneRunning
<1>5. BootstrapWaits' BY <1>1, <1>2 DEF Create, TypeOK, BootstrapWaits
<1>6. ReadyOwnsItsFrame'
  BY <1>1, Zenon DEF Create, TypeOK, ReadyOwnsItsFrame, FreshFrame, Frame
<1>7. /\ id'[0] = BootstrapId
      /\ \A r \in Slots : id'[r] < next_id'
      /\ next_id' > BootstrapId
  BY <1>1, <1>2 DEF Create, TypeOK
<1>8. \A r \in Slots \ {0} : state'[r] # "UNUSED" => id'[r] > BootstrapId
  BY <1>1, Zenon DEF Create, TypeOK
<1>9. \A r, q \in Slots \ {0} :
        state'[r] # "UNUSED" /\ state'[q] # "UNUSED" /\ id'[r] = id'[q] => r = q
  BY <1>1 DEF Create, TypeOK
<1> QED BY <1>3, <1>4, <1>5, <1>6, <1>7, <1>8, <1>9, Zenon

\* thread_trampoline only kills the thread that runs it.
LEMMA ExitPreserves ==
  ASSUME SchedInv, Exit
  PROVE  SchedInv'
  BY DEF SchedInv, Exit, TypeOK, ThreadState, OneRunning, BootstrapWaits,
         ReadyOwnsItsFrame

\* A caller that yields to itself was running: a dead one is not a candidate.
LEMMA ReturnsToRunning ==
  ASSUME SchedInv, YieldReturns
  PROVE  state[current] = "RUNNING" /\ state' = state
<1>1. PICK o \in 0..MaxThreads : NextRunnable(Demoted, o)
  BY NearestExists DEF SchedInv
<1>2. Demoted[current] = "READY" BY <1>1, Zenon DEF YieldReturns, NextRunnable
<1>3. state[current] = "RUNNING" BY <1>2, DemotedFacts
<1>4. state' = [[state EXCEPT ![current] = "READY"] EXCEPT ![current] = "RUNNING"]
  BY <1>3 DEF YieldReturns, Demoted
<1>5. state' = state BY <1>3, <1>4 DEF SchedInv, TypeOK
<1> QED BY <1>3, <1>5

\* A yield that comes back to its caller at most moves the cursor.
LEMMA YieldReturnsPreserves ==
  ASSUME SchedInv, YieldReturns
  PROVE  SchedInv'
<1>1. scan_cursor' \in Slots BY DEF YieldReturns, SchedInv, TypeOK
<1>2. /\ state' = state
      /\ id' = id
      /\ frame' = frame
      /\ current' = current
      /\ next_id' = next_id
  BY ReturnsToRunning, Zenon DEF YieldReturns
<1>3. TypeOK' BY <1>1, <1>2, Zenon DEF SchedInv, TypeOK
<1>4. OneRunning' /\ BootstrapWaits' /\ ReadyOwnsItsFrame'
  BY <1>2, Zenon DEF SchedInv, OneRunning, BootstrapWaits, ReadyOwnsItsFrame
<1> QED BY <1>2, <1>3, <1>4, Zenon DEF SchedInv

\* A switch leaves the candidate as the one running thread and the caller, if it
\* was running, ready with its own context saved.
LEMMA YieldToPreserves ==
  ASSUME SchedInv, NEW o \in 0..MaxThreads, YieldTo(o)
  PROVE  SchedInv'
<1> DEFINE t == SlotAt(o)
<1>1. t \in Slots /\ t # current /\ state[t] = "READY"
  BY SlotAtInSlots, DemotedFacts, Zenon DEF YieldTo, NextRunnable, SchedInv, TypeOK
<1>2. (t + 1) % SlotCount \in Slots BY <1>1
<1> HIDE DEF t
<1>3. /\ state' = [Demoted EXCEPT ![t] = "RUNNING"]
      /\ current' = t
      /\ scan_cursor' = (t + 1) % SlotCount
      /\ frame' = [frame EXCEPT ![current] = SavedFrame(id[current])]
      /\ id' = id
      /\ next_id' = next_id
  BY DEF YieldTo, t
<1>4. state' \in [Slots -> ThreadState]
  BY <1>1, <1>3, DemotedFacts DEF ThreadState
<1>5. \A s \in Slots : state'[s] = IF s = t THEN "RUNNING" ELSE Demoted[s]
  BY <1>1, <1>3, DemotedFacts, Zenon
<1>6. TypeOK'
  BY <1>1, <1>2, <1>3, <1>4, Zenon DEF SchedInv, TypeOK, Frame, SavedFrame
<1>7. OneRunning' BY <1>1, <1>3, <1>5, DemotedFacts DEF OneRunning
<1>8. BootstrapWaits'
  BY <1>1, <1>3, <1>5, YieldHasCandidate DEF SchedInv, TypeOK, BootstrapWaits
<1>9. ReadyOwnsItsFrame'
  <2> SUFFICES ASSUME NEW s \in Slots, state'[s] = "READY"
               PROVE  frame'[s].kind # "none" /\ frame'[s].owner = id'[s]
    BY DEF ReadyOwnsItsFrame
  <2>1. CASE s = current
    BY <1>3, <2>1, Zenon DEF SchedInv, TypeOK, SavedFrame
  <2>2. CASE s # current
    <3>1. state[s] = "READY" BY <1>5, <2>2, DemotedFacts
    <3>2. frame'[s] = frame[s] BY <1>3, <2>2, Zenon DEF SchedInv, TypeOK
    <3> QED BY <1>3, <3>1, <3>2, Zenon DEF SchedInv, ReadyOwnsItsFrame
  <2> QED BY <2>1, <2>2
<1>10. \A s \in Slots : state'[s] # "UNUSED" => state[s] # "UNUSED"
  BY <1>1, <1>5, DemotedFacts, Zenon DEF SchedInv, OneRunning
<1> QED BY <1>3, <1>6, <1>7, <1>8, <1>9, <1>10, Zenon DEF SchedInv

\* SchedInv is inductive.
LEMMA NextPreserves == SchedInv /\ [Next]_vars => SchedInv'
<1> SUFFICES ASSUME SchedInv, [Next]_vars PROVE SchedInv' OBVIOUS
<1>1. CASE Create BY <1>1, CreatePreserves, Zenon
<1>2. CASE Exit BY <1>2, ExitPreserves
<1>3. CASE YieldReturns BY <1>3, YieldReturnsPreserves
<1>4. CASE \E o \in 0..MaxThreads : YieldTo(o) BY <1>4, YieldToPreserves
<1>5. CASE UNCHANGED vars
  BY <1>5, Zenon DEF vars, SchedInv, TypeOK, OneRunning, BootstrapWaits, ReadyOwnsItsFrame
<1> QED BY <1>1, <1>2, <1>3, <1>4, <1>5 DEF Next, Yield, CreateFails

-----------------------------------------------------------------------------

\* No sequence of scheduler_create, scheduler_yield and thread exits leaves the
\* tables outside SchedInv.
THEOREM SchedulerInvariant == Spec => []SchedInv
  BY InitEstablishes, NextPreserves, PTL DEF Spec

\* Type correctness of the scheduler's tables, for any number of slots.
THEOREM TypeCorrect == Spec => []TypeOK
<1>1. SchedInv => TypeOK BY DEF SchedInv
<1> QED BY <1>1, SchedulerInvariant, PTL

\* Yield, create and exit never leave two slots RUNNING, nor the processor with
\* a current thread that is neither running nor just dead.
THEOREM OneThreadRuns == Spec => []OneRunning
<1>1. SchedInv => OneRunning BY Zenon DEF SchedInv
<1> QED BY <1>1, SchedulerInvariant, PTL

\* Bootstrap is always running or ready, so a yield always finds a candidate.
THEOREM BootstrapAlwaysWaits == Spec => []BootstrapWaits
<1>1. SchedInv => BootstrapWaits BY Zenon DEF SchedInv
<1> QED BY <1>1, SchedulerInvariant, PTL

\* context_switch only ever restores a context of the thread now in the slot.
THEOREM SwitchTargetsAreSound == Spec => []ReadyOwnsItsFrame
<1>1. SchedInv => ReadyOwnsItsFrame BY Zenon DEF SchedInv
<1> QED BY <1>1, SchedulerInvariant, PTL

\* Thread ids are never ambiguous and never handed out twice.
THEOREM ThreadIdsUnambiguous == Spec => []IdsUnambiguous
<1>1. SchedInv => IdsUnambiguous
  <2> SUFFICES ASSUME SchedInv PROVE IdsUnambiguous OBVIOUS
  <2>1. ASSUME NEW i \in 1..next_id, NEW s \in FindThreadById(i), NEW r \in FindThreadById(i)
        PROVE  s = r
    <3>1. CASE i = BootstrapId BY <3>1 DEF FindThreadById
    <3>2. CASE i # BootstrapId
      <4>1. /\ s \in Slots \ {0} /\ state[s] # "UNUSED" /\ id[s] = i
            /\ r \in Slots \ {0} /\ state[r] # "UNUSED" /\ id[r] = i
        BY <3>2, Zenon DEF FindThreadById
      <4> QED BY <4>1 DEF SchedInv
    <3> QED BY <3>1, <3>2
  <2> QED BY <2>1 DEF IdsUnambiguous, SchedInv
<1> QED BY <1>1, SchedulerInvariant, PTL

-----------------------------------------------------------------------------

\* One step of the scheduler never revives a dead thread.
LEMMA StepKeepsTheDead ==
  ASSUME SchedInv, Next, NEW s \in Slots, state[s] = "DEAD", state'[s] # "DEAD"
  PROVE  state'[s] = "READY" /\ id'[s] # id[s] /\ s # current
<1>1. CASE Create
  <2>1. PICK r \in Slots :
          /\ id' = [id EXCEPT ![r] = next_id]
          /\ state' = [state EXCEPT ![r] = "READY"]
    BY <1>1, Zenon DEF Create
  <2>2. s = r /\ state'[s] = "READY" BY <2>1, Zenon DEF SchedInv, TypeOK
  <2>3. id'[s] = next_id BY <2>1, <2>2, Zenon DEF SchedInv, TypeOK
  <2>4. id'[s] # id[s] BY <2>3 DEF SchedInv, TypeOK
  <2> QED BY <1>1, <2>2, <2>4 DEF Create
<1>2. CASE Exit BY <1>2, Zenon DEF Exit, SchedInv, TypeOK
<1>3. CASE YieldReturns BY <1>3, ReturnsToRunning
<1>4. ASSUME NEW o \in 0..MaxThreads, YieldTo(o) PROVE FALSE
  <2>1. SlotAt(o) \in Slots /\ Demoted[SlotAt(o)] = "READY"
    BY <1>4, SlotAtInSlots, Zenon DEF YieldTo, NextRunnable, SchedInv, TypeOK
  <2>2. Demoted[s] = "DEAD" BY DemotedFacts
  <2>3. state'[s] = "DEAD" BY <1>4, <2>1, <2>2, DemotedFacts, Zenon DEF YieldTo
  <2> QED BY <2>3
<1> QED BY <1>1, <1>2, <1>3, <1>4, Zenon DEF Next, Yield, CreateFails, vars

\* Neither the fallback branch of scheduler_yield nor any other path makes a
\* dead thread runnable again; only its slot is reused, under a new id.
THEOREM DeadStayDead == Spec => NoResurrection
<1>1. SchedInv /\ [Next]_vars =>
        [\A s \in Slots :
           state[s] = "DEAD" /\ state'[s] # "DEAD" =>
             state'[s] = "READY" /\ id'[s] # id[s] /\ s # current]_vars
  BY StepKeepsTheDead DEF vars
<1> QED BY <1>1, SchedulerInvariant, PTL DEF Spec, NoResurrection

-----------------------------------------------------------------------------

\* The distance of a slot is the offset at which the scan meets it.
LEMMA DistanceIsOffset ==
  ASSUME NEW s \in Slots, scan_cursor \in Slots
  PROVE  /\ Distance(s) = IF s >= scan_cursor THEN s - scan_cursor
                          ELSE s + SlotCount - scan_cursor
         /\ Distance(s) \in 0..MaxThreads
         /\ SlotAt(Distance(s)) = s
<1>1. CASE s >= scan_cursor
  <2>1. Distance(s) = s - scan_cursor
    BY <1>1 DEF Distance
  <2> QED BY <1>1, <2>1 DEF SlotAt
<1>2. CASE s < scan_cursor
  <2>1. Distance(s) = s + SlotCount - scan_cursor BY <1>2 DEF Distance
  <2>2. SlotAt(s + SlotCount - scan_cursor) = (s + SlotCount) % SlotCount
    BY <1>2 DEF SlotAt
  <2>3. (s + SlotCount) % SlotCount = s OBVIOUS
  <2> QED BY <1>2, <2>1, <2>2, <2>3
<1> QED BY <1>1, <1>2

\* next_runnable leaves the cursor just past the slot it returns, strictly closer
\* to every other ready slot.
LEMMA ScanShrinksDistance ==
  ASSUME SchedInv, NEW o \in 0..MaxThreads, NextRunnable(Demoted, o),
         scan_cursor' = (SlotAt(o) + 1) % SlotCount,
         NEW s \in Slots, s # current, s # SlotAt(o), state[s] = "READY"
  PROVE  Distance(s)' < Distance(s)
<1> DEFINE t == SlotAt(o)
           d == Distance(s)
<1>1. scan_cursor \in Slots BY Zenon DEF SchedInv, TypeOK
<1>2. t \in Slots /\ t = IF scan_cursor + o < SlotCount THEN scan_cursor + o
                         ELSE scan_cursor + o - SlotCount
  <2>1. CASE scan_cursor + o < SlotCount BY <1>1, <2>1 DEF SlotAt
  <2>2. CASE scan_cursor + o >= SlotCount
    <3>1. (scan_cursor + o) % SlotCount = scan_cursor + o - SlotCount BY <1>1, <2>2
    <3> QED BY <1>1, <2>2, <3>1 DEF SlotAt
  <2> QED BY <1>1, <2>1, <2>2
<1>3. /\ d = IF s >= scan_cursor THEN s - scan_cursor ELSE s + SlotCount - scan_cursor
      /\ d \in 0..MaxThreads
      /\ SlotAt(d) = s
  BY <1>1, DistanceIsOffset, Zenon
<1>4. t # s /\ scan_cursor' = (t + 1) % SlotCount OBVIOUS
<1>5. ~(d < o)
  <2>1. Demoted[s] = "READY" BY DemotedFacts, Zenon
  <2>2. \A p \in 0..MaxThreads : p < o => Demoted[SlotAt(p)] # "READY"
    BY Zenon DEF NextRunnable
  <2> QED BY <1>3, <2>1, <2>2, Zenon
<1>6. d # o BY <1>3, <1>4, Zenon
<1>7. scan_cursor' = IF t = MaxThreads THEN 0 ELSE t + 1 BY <1>2, <1>4
<1>8. Distance(s)' = IF s >= scan_cursor' THEN s - scan_cursor'
                     ELSE s + SlotCount - scan_cursor'
  <2>1. scan_cursor' \in Slots BY <1>2, <1>7
  <2>2. CASE s >= scan_cursor' BY <2>1, <2>2 DEF Distance
  <2>3. CASE s < scan_cursor' BY <2>1, <2>3 DEF Distance
  <2> QED BY <2>1, <2>2, <2>3
<1> HIDE DEF t, d
<1>9. Distance(s)' < d BY <1>1, <1>2, <1>3, <1>4, <1>5, <1>6, <1>7, <1>8
<1> QED BY <1>9 DEF d

\* Round robin, for any number of threads: every yield that passes over a ready
\* thread brings next_runnable's cursor strictly closer to it.
THEOREM RoundRobin == Spec => WaitShrinks
<1>1. ASSUME SchedInv, [Next]_vars, NEW s \in Slots, Yield,
             s # current, s # current', state[s] = "READY"
      PROVE  Distance(s)' < Distance(s)
  <2>1. CASE YieldReturns
    <3>1. PICK o \in 0..MaxThreads : NextRunnable(Demoted, o)
      BY <1>1, NearestExists, Zenon DEF SchedInv
    <3>2. SlotAt(o) = current BY <2>1, <3>1, Zenon DEF YieldReturns
    <3>3. ~NoneRunnable(Demoted) BY <1>1, YieldHasCandidate, Zenon DEF SchedInv
    <3>4. scan_cursor' = (SlotAt(o) + 1) % SlotCount
      BY <2>1, <3>2, <3>3, Zenon DEF YieldReturns
    <3> QED BY <1>1, <3>1, <3>2, <3>4, ScanShrinksDistance, Zenon
  <2>2. CASE \E o \in 0..MaxThreads : YieldTo(o)
    BY <1>1, <2>2, ScanShrinksDistance, Zenon DEF YieldTo
  <2> QED BY <1>1, <2>1, <2>2 DEF Yield
<1>2. SchedInv /\ [Next]_vars =>
        [\A s \in Slots :
           Yield /\ s # current /\ s # current' /\ state[s] = "READY" =>
             Distance(s)' < Distance(s)]_vars
  BY <1>1
<1> QED BY <1>2, SchedulerInvariant, PTL DEF Spec, WaitShrinks
=============================================================================
