--------------------------- MODULE FrameworkProofs ---------------------------
(***************************************************************************)
(* The benchmark framework, for every size of its words, every list of     *)
(* streams, every set of distributions and every heap: buffers are sound,  *)
(* distributions draw what their bounds say, and generate() writes what it *)
(* was asked for.                                                          *)
(***************************************************************************)
EXTENDS Framework, BasicFacts

(***************************************************************************)
(* The aligned buffers.                                                    *)
(***************************************************************************)

LEMMA Allocator ==
  /\ Memory \in Nat /\ alignment \in Nat \ {0} /\ sizeof_canary \in Nat \ {0}
  /\ \A size \in Sizes : size \in Nat \ {0}
  /\ \A count \in Counts : count \in Nat
BY BufferAssumption DEF Buffer!ParameterAssumption

LEMMA SameCardinality == \A S : Buffer!Cardinality(S) = Cardinality(S)
BY DEF Buffer!Cardinality, Cardinality

BlockOf(p) ==
  [ptr |-> bufferDataMap[p].unalignedPtr,
   size |-> Buffer!count8(shape[p].count, shape[p].size)]

BlockBytes(p) == Buffer!Bytes(BlockOf(p).ptr, BlockOf(p).size)

(* The program's buffers, the map, and what is known of their canaries.    *)
BufferMaps ==
  /\ IsFiniteSet(Buffer!Buffers)
  /\ shape \in [Buffer!Buffers -> [count : Nat, size : Nat \ {0}]]
  /\ bufferDataMap \in [Buffer!Buffers -> [unalignedPtr : Nat, canaryPtr : Nat]]
  /\ intact \in [Buffer!Buffers -> BOOLEAN]
  /\ overrun \in [Buffer!Buffers -> BOOLEAN]
  /\ spilled \in BOOLEAN
  /\ \A p \in Buffer!Buffers :
       /\ overrun[p] => ~intact[p]
       /\ ~overrun[p] => intact[p] \/ spilled

(* Each is where allocateAlignedBuffer placed it in its block.             *)
BufferPlaces ==
  \A p \in Buffer!Buffers :
    /\ p = Buffer!AlignedPtr(bufferDataMap[p].unalignedPtr)
    /\ bufferDataMap[p].canaryPtr
         = Buffer!CanaryPtr(p, shape[p].count, shape[p].size)
    /\ BlockOf(p).ptr + BlockOf(p).size <= Memory

BlocksApart ==
  \A p, q \in Buffer!Buffers : p # q => BlockBytes(p) \cap BlockBytes(q) = {}

BufferInv ==
  /\ BufferMaps
  /\ BufferPlaces
  /\ BlocksApart
  /\ heap = {BlockOf(p) : p \in Buffer!Buffers}

-----------------------------------------------------------------------------
LEMMA AlignedPlace ==
  ASSUME NEW u \in Nat
  PROVE  /\ Buffer!AlignedPtr(u) \in u .. u + alignment - 1
         /\ Buffer!AlignedPtr(u) % alignment = 0
<1>. DEFINE r == u % alignment
            q == u \div alignment
            a == alignment
<1>1. u \in Int /\ a \in Nat \ {0}
  BY Allocator
<1>2. u = a * q + r /\ r \in 0 .. a - 1 /\ q \in Int
  BY <1>1, DivMod
<1>3. Buffer!AlignedPtr(u) = IF r # 0 THEN u + (a - r) ELSE u
  BY DEF Buffer!AlignedPtr
<1>4. ASSUME NEW k \in Int PROVE (a * k) % a = 0
  <2>1. (a * k + 0) % a = 0
    BY <1>1, ModOfSum
  <2>. DEFINE b == a * k
  <2>2. b \in Int /\ (b + 0) % a = 0
    BY <2>1, <1>1
  <2>. HIDE DEF b
  <2>3. b % a = 0
    BY <2>2
  <2>. QED BY <2>3 DEF b
<1>5. a * (q + 1) = a * q + a
  BY <1>1, <1>2, SMT
<1>. HIDE DEF q, r, a
<1>6. CASE r = 0
  <2>1. Buffer!AlignedPtr(u) = a * q
    BY <1>1, <1>2, <1>3, <1>6
  <2>2. (a * q) % a = 0
    BY <1>4, <1>2
  <2>. QED BY <2>1, <2>2, <1>1, <1>3, <1>6 DEF a
<1>7. CASE r # 0
  <2>1. Buffer!AlignedPtr(u) = a * (q + 1)
    BY <1>1, <1>2, <1>3, <1>5, <1>7
  <2>2. (a * (q + 1)) % a = 0
    BY <1>4, <1>2
  <2>3. Buffer!AlignedPtr(u) \in u .. u + a - 1
    BY <1>1, <1>2, <1>3, <1>7
  <2>. QED BY <2>1, <2>2, <2>3 DEF a
<1>. QED BY <1>6, <1>7

(* Elements and canary of a buffer, and its address, lie in its block.     *)
LEMMA InBlock ==
  ASSUME NEW u \in Nat, NEW count \in Nat, NEW size \in Nat \ {0}
  PROVE  LET p == Buffer!AlignedPtr(u) IN
         /\ count * size \in Nat
         /\ Buffer!count8(count, size) \in Nat \ {0}
         /\ p \in Nat /\ p % alignment = 0
         /\ p \in Buffer!Bytes(u, Buffer!count8(count, size))
         /\ u <= p
         /\ Buffer!CanaryPtr(p, count, size) = p + count * size
         /\ p + count * size + sizeof_canary <= u + Buffer!count8(count, size)
<1>. DEFINE p == Buffer!AlignedPtr(u)
            n == count * size
<1>1. n \in Nat
  BY Allocator, SMT
<1>2. /\ Buffer!count8(count, size) = n + alignment - 1 + sizeof_canary
      /\ Buffer!CanaryPtr(p, count, size) = p + n
  BY DEF Buffer!count8, Buffer!CanaryPtr
<1>. HIDE DEF n
<1>3. p \in u .. u + alignment - 1 /\ p % alignment = 0
  BY AlignedPlace
<1>. HIDE DEF p
<1>4. /\ Buffer!count8(count, size) \in Nat \ {0}
      /\ p \in Nat /\ u <= p /\ p < u + Buffer!count8(count, size)
      /\ p + n + sizeof_canary <= u + Buffer!count8(count, size)
  <2>. HIDE DEF Buffer!count8
  <2>. QED BY <1>1, <1>2, <1>3, Allocator
<1>5. p \in Buffer!Bytes(u, Buffer!count8(count, size))
  BY <1>4, <1>1 DEF Buffer!Bytes
<1>. QED BY <1>1, <1>2, <1>3, <1>4, <1>5 DEF n, p

LEMMA BufferInBlock ==
  ASSUME BufferMaps, BufferPlaces, NEW p \in Buffer!Buffers
  PROVE  /\ p \in Nat /\ p % alignment = 0 /\ p \in BlockBytes(p)
         /\ shape[p].count \in Nat /\ shape[p].size \in Nat \ {0}
         /\ shape[p].count * shape[p].size \in Nat
         /\ BlockOf(p).ptr \in Nat /\ BlockOf(p).size \in Nat \ {0}
         /\ BlockOf(p).ptr <= p
         /\ bufferDataMap[p].canaryPtr = p + shape[p].count * shape[p].size
         /\ p + shape[p].count * shape[p].size + sizeof_canary
              <= BlockOf(p).ptr + BlockOf(p).size
         /\ BlockOf(p).ptr + BlockOf(p).size <= Memory
<1>. DEFINE u == bufferDataMap[p].unalignedPtr
            count == shape[p].count
            size == shape[p].size
<1>1. u \in Nat /\ count \in Nat /\ size \in Nat \ {0}
  BY DEF BufferMaps
<1>2. /\ p = Buffer!AlignedPtr(u)
      /\ bufferDataMap[p].canaryPtr = Buffer!CanaryPtr(p, count, size)
      /\ BlockOf(p).ptr + BlockOf(p).size <= Memory
  BY DEF BufferPlaces
<1>3. BlockOf(p).ptr = u /\ BlockOf(p).size = Buffer!count8(count, size)
  BY DEF BlockOf
<1>. HIDE DEF u, count, size
<1>4. /\ count * size \in Nat
      /\ Buffer!count8(count, size) \in Nat \ {0}
      /\ p \in Nat /\ p % alignment = 0
      /\ p \in Buffer!Bytes(u, Buffer!count8(count, size))
      /\ u <= p
      /\ Buffer!CanaryPtr(p, count, size) = p + count * size
      /\ p + count * size + sizeof_canary <= u + Buffer!count8(count, size)
  <2>. DEFINE a == Buffer!AlignedPtr(u)
  <2>1. /\ count * size \in Nat
        /\ Buffer!count8(count, size) \in Nat \ {0}
        /\ a \in Nat /\ a % alignment = 0
        /\ a \in Buffer!Bytes(u, Buffer!count8(count, size))
        /\ u <= a
        /\ Buffer!CanaryPtr(a, count, size) = a + count * size
        /\ a + count * size + sizeof_canary <= u + Buffer!count8(count, size)
    BY <1>1, InBlock, Zenon
  <2>2. a = p
    BY <1>2
  <2>. HIDE DEF a
  <2>. QED BY <2>1, <2>2, Zenon
<1>5. p \in BlockBytes(p)
  BY <1>3, <1>4 DEF BlockBytes
<1>. QED BY <1>1, <1>2, <1>3, <1>4, <1>5 DEF u, count, size

(* A canary lies in its buffer's block, behind all elements but the one    *)
(* past the end.                                                           *)
LEMMA CanaryPlace ==
  ASSUME BufferMaps, BufferPlaces, NEW p \in Buffer!Buffers
  PROVE  Buffer!canary(p) \subseteq BlockBytes(p)
<1>. DEFINE n == shape[p].count * shape[p].size
            b == BlockOf(p).ptr
            s == BlockOf(p).size
<1>1. /\ p \in Nat /\ n \in Nat /\ b \in Nat /\ s \in Nat /\ b <= p
      /\ bufferDataMap[p].canaryPtr = p + n /\ p + n + sizeof_canary <= b + s
  BY BufferInBlock
<1>2. /\ Buffer!canary(p) = p + n .. p + n + sizeof_canary - 1
      /\ BlockBytes(p) = b .. b + s - 1
  BY <1>1 DEF Buffer!canary, Buffer!Bytes, BlockBytes
<1>. HIDE DEF n, b, s
<1>. QED BY <1>1, <1>2, Allocator

(* What a program writes lies in the buffer's block, and reaches the       *)
(* canary only past the end.                                               *)
LEMMA WrittenPlace ==
  ASSUME BufferMaps, BufferPlaces, NEW p \in Buffer!Buffers,
         NEW k \in 0 .. shape[p].count
  PROVE  LET written == Buffer!Bytes(p + k * shape[p].size, shape[p].size)
         IN  /\ k # shape[p].count \/ shape[p].size <= sizeof_canary
                  => written \subseteq BlockBytes(p)
             /\ Buffer!canary(p) \cap written = {} <=> k # shape[p].count
<1>. DEFINE c == shape[p].count
            z == shape[p].size
            n == c * z
            m == k * z
            b == BlockOf(p).ptr
            s == BlockOf(p).size
<1>1. /\ p \in Nat /\ n \in Nat /\ b \in Nat /\ s \in Nat /\ b <= p
      /\ c \in Nat /\ z \in Nat \ {0}
      /\ bufferDataMap[p].canaryPtr = p + n /\ p + n + sizeof_canary <= b + s
  BY BufferInBlock
<1>2. /\ Buffer!canary(p) = p + n .. p + n + sizeof_canary - 1
      /\ BlockBytes(p) = b .. b + s - 1
      /\ Buffer!Bytes(p + k * z, z) = p + m .. p + m + z - 1
  BY <1>1 DEF Buffer!canary, Buffer!Bytes, BlockBytes
<1>3. /\ m \in Nat /\ m <= n
      /\ k # c => m + z <= n
      /\ k = c => m = n
  <2>. HIDE DEF c, z
  <2>0. k \in Nat /\ k <= c /\ z \in Nat
    BY <1>1, Allocator DEF c
  <2>1. m \in Nat /\ m <= n
    BY <2>0, <1>1, ProductMonotone
  <2>2. ASSUME k # c PROVE m + z <= n
    <3>1. k + 1 \in Nat /\ k + 1 <= c
      BY <2>0, <2>2, <1>1
    <3>2. (k + 1) * z <= n
      BY <2>0, <1>1, <3>1, ProductMonotone
    <3>3. (k + 1) * z = m + z
      BY <2>0, ProductSuccessor
    <3>. QED BY <3>2, <3>3
  <2>. QED BY <2>1, <2>2
<1>. HIDE DEF n, b, s, m
<1>4. k \in Nat /\ sizeof_canary \in Nat \ {0}
  BY Allocator, <1>1
<1>5. k # c \/ z <= sizeof_canary => (p + m .. p + m + z - 1) \subseteq b .. b + s - 1
  BY <1>1, <1>3, <1>4
<1>6. ASSUME k = c PROVE p + n \in (p + n .. p + n + sizeof_canary - 1) \cap (p + m .. p + m + z - 1)
  BY <1>6, <1>1, <1>3, <1>4
<1>7. ASSUME k # c PROVE (p + n .. p + n + sizeof_canary - 1) \cap (p + m .. p + m + z - 1) = {}
  BY <1>7, <1>1, <1>3, <1>4
<1>. HIDE DEF c, z
<1>8. LET written == Buffer!Bytes(p + k * z, z)
      IN  /\ k # c \/ z <= sizeof_canary => written \subseteq BlockBytes(p)
          /\ Buffer!canary(p) \cap written = {} <=> k # c
  BY <1>2, <1>5, <1>6, <1>7
<1>. QED BY <1>8 DEF c, z

-----------------------------------------------------------------------------
LEMMA BufferInit == Buffer!Init => BufferInv
<1>. SUFFICES ASSUME Buffer!Init PROVE BufferInv
  OBVIOUS
<1>1. /\ Buffer!Buffers = {} /\ heap = {}
      /\ bufferDataMap = <<>> /\ shape = <<>> /\ intact = <<>> /\ overrun = <<>>
      /\ spilled = FALSE
  BY DEF Buffer!Init, Buffer!Buffers
<1>2. ASSUME NEW S PROVE <<>> \in [{} -> S]
  OBVIOUS
<1>3. IsFiniteSet({})
  BY FS_EmptySet
<1>. QED BY <1>1, <1>2, <1>3 DEF BufferInv, BufferMaps, BufferPlaces, BlocksApart

LEMMA AllocateKeeps ==
  ASSUME BufferInv, NEW count \in Counts, NEW size \in Sizes,
         Buffer!allocateAlignedBuffer(count, size)
  PROVE  BufferInv'
<1>. USE DEF BufferInv
<1>. DEFINE n == Buffer!count8(count, size)
<1>1. PICK ptr \in Buffer!New(n) :
        LET p == Buffer!AlignedPtr(ptr)
            c == Buffer!CanaryPtr(p, count, size)
        IN  /\ heap' = heap \cup {[ptr |-> ptr, size |-> n]}
            /\ p \notin Buffer!Buffers
                 => bufferDataMap' = Buffer!With(bufferDataMap, p,
                                       [unalignedPtr |-> ptr, canaryPtr |-> c])
            /\ shape' = Buffer!With(shape, p, [count |-> count, size |-> size])
            /\ intact' = Buffer!With([q \in Buffer!Buffers |->
                             intact[q] /\ Buffer!canary(q)
                                            \cap Buffer!Bytes(c, sizeof_canary) = {}],
                          p, TRUE)
            /\ overrun' = Buffer!With(overrun, p, FALSE)
            /\ spilled' = spilled
  BY DEF Buffer!allocateAlignedBuffer
<1>2. count \in Nat /\ size \in Nat \ {0}
  BY Allocator
<1>3. /\ n \in Nat \ {0} /\ ptr \in Nat /\ ptr + n <= Memory
      /\ \A block \in heap :
           Buffer!Bytes(ptr, n) \cap Buffer!Bytes(block.ptr, block.size) = {}
  <2>1. n \in Nat \ {0}
    <3>1. 0 \in Nat
      OBVIOUS
    <3>. QED BY <1>2, <3>1, InBlock
  <2>. HIDE DEF n
  <2>. QED BY <2>1, Allocator DEF Buffer!New
<1>. DEFINE p == Buffer!AlignedPtr(ptr)
            c == Buffer!CanaryPtr(p, count, size)
<1>4. /\ p \in Nat /\ p \in Buffer!Bytes(ptr, n) /\ ptr <= p
      /\ c = p + count * size /\ count * size \in Nat
      /\ p + count * size + sizeof_canary <= ptr + n
  BY <1>2, <1>3, InBlock
<1>5. \A q \in Buffer!Buffers : Buffer!Bytes(ptr, n) \cap BlockBytes(q) = {}
  BY <1>3 DEF BlockBytes
<1>6. p \notin Buffer!Buffers
  BY <1>4, <1>5, BufferInBlock
<1>7. /\ heap' = heap \cup {[ptr |-> ptr, size |-> n]}
      /\ bufferDataMap' = Buffer!With(bufferDataMap, p,
                            [unalignedPtr |-> ptr, canaryPtr |-> c])
      /\ shape' = Buffer!With(shape, p, [count |-> count, size |-> size])
      /\ intact' = Buffer!With([q \in Buffer!Buffers |->
                       intact[q] /\ Buffer!canary(q)
                                      \cap Buffer!Bytes(c, sizeof_canary) = {}],
                    p, TRUE)
      /\ overrun' = Buffer!With(overrun, p, FALSE)
      /\ spilled' = spilled
  BY <1>1, <1>6
<1>8. \A q \in Buffer!Buffers :
        Buffer!canary(q) \cap Buffer!Bytes(c, sizeof_canary) = {}
  <2>1. Buffer!Bytes(c, sizeof_canary) \subseteq Buffer!Bytes(ptr, n)
    <3>. DEFINE m == count * size
    <3>1. /\ c = p + m /\ m \in Nat /\ p + m + sizeof_canary <= ptr + n
          /\ p \in Nat /\ ptr <= p /\ ptr \in Nat /\ n \in Nat
      BY <1>3, <1>4
    <3>. HIDE DEF c, m, p, n
    <3>. QED BY <3>1, Allocator DEF Buffer!Bytes
  <2>. HIDE DEF c, n
  <2>. QED BY <2>1, <1>5, CanaryPlace
<1>. HIDE DEF p, c, n
<1>9. /\ Buffer!Buffers' = Buffer!Buffers \cup {p}
      /\ \A q \in Buffer!Buffers :
           /\ bufferDataMap'[q] = bufferDataMap[q] /\ shape'[q] = shape[q]
           /\ intact'[q] = intact[q] /\ overrun'[q] = overrun[q]
      /\ bufferDataMap'[p] = [unalignedPtr |-> ptr, canaryPtr |-> c]
      /\ shape'[p] = [count |-> count, size |-> size]
      /\ intact'[p] = TRUE /\ overrun'[p] = FALSE
  <2>1. /\ Buffer!Buffers' = Buffer!Buffers \cup {p}
        /\ \A q \in Buffer!Buffers : bufferDataMap'[q] = bufferDataMap[q]
        /\ bufferDataMap'[p] = [unalignedPtr |-> ptr, canaryPtr |-> c]
    BY <1>6, <1>7 DEF Buffer!With, Buffer!Buffers
  <2>2. /\ \A q \in Buffer!Buffers : shape'[q] = shape[q] /\ overrun'[q] = overrun[q]
        /\ shape'[p] = [count |-> count, size |-> size] /\ overrun'[p] = FALSE
    <3>1. DOMAIN shape = Buffer!Buffers /\ DOMAIN overrun = Buffer!Buffers
      BY DEF BufferMaps
    <3>. QED BY <1>6, <1>7, <3>1 DEF Buffer!With
  <2>3. intact'[p] = TRUE
    BY <1>7 DEF Buffer!With
  <2>4. ASSUME NEW q \in Buffer!Buffers PROVE intact'[q] = intact[q]
    <3>1. intact'[q] = (intact[q] /\ Buffer!canary(q)
                          \cap Buffer!Bytes(c, sizeof_canary) = {})
      BY <1>6, <1>7 DEF Buffer!With
    <3>2. intact[q] \in BOOLEAN
      BY DEF BufferMaps
    <3>. QED BY <3>1, <3>2, <1>8
  <2>. QED BY <2>1, <2>2, <2>3, <2>4
<1>10. BufferMaps'
  <2>1. IsFiniteSet(Buffer!Buffers')
    BY <1>9, FS_AddElement DEF BufferMaps
  <2>2. \A q \in Buffer!Buffers' :
          /\ shape'[q] \in [count : Nat, size : Nat \ {0}]
          /\ bufferDataMap'[q] \in [unalignedPtr : Nat, canaryPtr : Nat]
    BY <1>2, <1>3, <1>4, <1>9 DEF BufferMaps
  <2>3. \A q \in Buffer!Buffers' :
          /\ intact'[q] \in BOOLEAN /\ overrun'[q] \in BOOLEAN
          /\ overrun'[q] => ~intact'[q]
          /\ ~overrun'[q] => intact'[q] \/ spilled
    BY <1>9 DEF BufferMaps
  <2>4. /\ shape' = [q \in Buffer!Buffers' |-> shape'[q]]
        /\ bufferDataMap' = [q \in Buffer!Buffers' |-> bufferDataMap'[q]]
        /\ intact' = [q \in Buffer!Buffers' |-> intact'[q]]
        /\ overrun' = [q \in Buffer!Buffers' |-> overrun'[q]]
    <3>1. /\ DOMAIN shape = Buffer!Buffers /\ DOMAIN overrun = Buffer!Buffers
      BY DEF BufferMaps
    <3>. QED BY <1>7, <1>9, <3>1 DEF Buffer!With, Buffer!Buffers
  <2>. QED BY <2>1, <2>2, <2>3, <2>4, <1>7 DEF BufferMaps
<1>11. /\ \A q \in Buffer!Buffers : BlockOf(q)' = BlockOf(q)
       /\ BlockOf(p)' = [ptr |-> ptr, size |-> n]
  BY <1>9 DEF BlockOf, n
<1>12. BufferPlaces'
  <2>. SUFFICES ASSUME NEW q \in Buffer!Buffers'
                PROVE  /\ q = Buffer!AlignedPtr(bufferDataMap'[q].unalignedPtr)
                       /\ bufferDataMap'[q].canaryPtr
                            = Buffer!CanaryPtr(q, shape'[q].count, shape'[q].size)
                       /\ BlockOf(q)'.ptr + BlockOf(q)'.size <= Memory
    BY DEF BufferPlaces
  <2>1. CASE q \in Buffer!Buffers
    BY <2>1, <1>9, <1>11 DEF BufferPlaces
  <2>2. CASE q = p
    BY <2>2, <1>3, <1>9, <1>11 DEF p, c
  <2>. QED BY <2>1, <2>2, <1>9
<1>13. BlocksApart'
  <2>1. /\ \A q \in Buffer!Buffers : BlockBytes(q)' = BlockBytes(q)
        /\ BlockBytes(p)' = Buffer!Bytes(ptr, n)
    BY <1>11 DEF BlockBytes
  <2>. QED BY <2>1, <1>5, <1>9 DEF BlocksApart
<1>14. heap' = {BlockOf(q)' : q \in Buffer!Buffers'}
  BY <1>7, <1>9, <1>11
<1>. QED BY <1>10, <1>12, <1>13, <1>14


(* Where the map, the shapes and the heap stay, so do the places.          *)
LEMMA PlacesStay ==
  ASSUME BufferInv, UNCHANGED <<heap, bufferDataMap, shape>>
  PROVE  /\ Buffer!Buffers' = Buffer!Buffers
         /\ BufferPlaces' /\ BlocksApart'
         /\ heap' = {BlockOf(p)' : p \in Buffer!Buffers'}
<1>1. /\ Buffer!Buffers' = Buffer!Buffers
      /\ \A p : BlockOf(p)' = BlockOf(p) /\ BlockBytes(p)' = BlockBytes(p)
  BY DEF Buffer!Buffers, BlockOf, BlockBytes
<1>2. BufferPlaces' /\ BlocksApart'
  BY <1>1 DEF BufferInv, BufferPlaces, BlocksApart
<1>. QED BY <1>1, <1>2 DEF BufferInv

LEMMA WriteKeeps ==
  ASSUME BufferInv, NEW p \in DOMAIN shape, NEW k \in 0 .. shape[p].count,
         Buffer!Write(p, k)
  PROVE  BufferInv'
<1>. USE DEF BufferInv
<1>. DEFINE written == Buffer!Bytes(p + k * shape[p].size, shape[p].size)
<1>1. p \in Buffer!Buffers
  BY DEF BufferMaps
<1>2. /\ k # shape[p].count \/ shape[p].size <= sizeof_canary
           => written \subseteq BlockBytes(p)
      /\ Buffer!canary(p) \cap written = {} <=> k # shape[p].count
  BY <1>1, WrittenPlace
<1>3. /\ intact' = [q \in Buffer!Buffers |->
                      intact[q] /\ Buffer!canary(q) \cap written = {}]
      /\ overrun' = [overrun EXCEPT ![p] = @ \/ k = shape[p].count]
      /\ spilled' = (spilled \/ (k = shape[p].count /\ shape[p].size > sizeof_canary))
      /\ UNCHANGED <<heap, bufferDataMap, shape>>
  BY DEF Buffer!Write
<1>. HIDE DEF written
<1>4. ASSUME NEW q \in Buffer!Buffers, q # p, ~spilled'
      PROVE  Buffer!canary(q) \cap written = {}
  <2>1. Buffer!canary(q) \subseteq BlockBytes(q)
    BY CanaryPlace
  <2>2. BlockBytes(p) \cap BlockBytes(q) = {}
    BY <1>1, <1>4 DEF BlocksApart
  <2>3. shape[p].size \in Nat /\ sizeof_canary \in Nat
    BY <1>1, Allocator DEF BufferMaps
  <2>4. ~(k = shape[p].count /\ shape[p].size > sizeof_canary)
    BY <1>3, <1>4, Zenon
  <2>5. k # shape[p].count \/ shape[p].size <= sizeof_canary
    BY <2>3, <2>4
  <2>. QED BY <2>1, <2>2, <2>5, <1>2
<1>5. BufferMaps'
  <2>1. Buffer!Buffers' = Buffer!Buffers
    BY <1>3 DEF Buffer!Buffers
  <2>2. /\ intact' \in [Buffer!Buffers -> BOOLEAN]
        /\ overrun' \in [Buffer!Buffers -> BOOLEAN]
    BY <1>3 DEF BufferMaps
  <2>3. ASSUME NEW q \in Buffer!Buffers
        PROVE  /\ overrun'[q] => ~intact'[q]
               /\ ~overrun'[q] => intact'[q] \/ spilled'
    <3>1. (overrun[q] => ~intact[q]) /\ (~overrun[q] => intact[q] \/ spilled)
      BY DEF BufferMaps
    <3>0. spilled => spilled'
      BY <1>3
    <3>2. intact'[q] <=> (intact[q] /\ Buffer!canary(q) \cap written = {})
      BY <1>3
    <3>3. CASE q = p
      <4>1. overrun'[p] <=> (overrun[p] \/ k = shape[p].count)
        BY <1>1, <1>3 DEF BufferMaps
      <4>. QED BY <4>1, <3>0, <3>1, <3>2, <3>3, <1>2
    <3>4. CASE q # p
      <4>1. overrun'[q] <=> overrun[q]
        BY <3>4, <1>3 DEF BufferMaps
      <4>. QED BY <4>1, <3>0, <3>1, <3>2, <3>4, <1>4
    <3>. QED BY <3>3, <3>4
  <2>4. spilled' \in BOOLEAN
    BY <1>3
  <2>. QED BY <2>1, <2>2, <2>3, <2>4, <1>3 DEF BufferMaps
<1>. QED BY <1>3, <1>5, PlacesStay

LEMMA RestoreKeeps ==
  ASSUME BufferInv, NEW p \in DOMAIN shape, Buffer!restoreCanary(p)
  PROVE  BufferInv'
<1>. USE DEF BufferInv
<1>1. /\ intact' = [intact EXCEPT ![p] = TRUE]
      /\ overrun' = [overrun EXCEPT ![p] = FALSE]
      /\ UNCHANGED <<heap, bufferDataMap, shape, spilled>>
  BY DEF Buffer!restoreCanary
<1>2. Buffer!Buffers' = Buffer!Buffers
  BY <1>1 DEF Buffer!Buffers
<1>3. BufferMaps'
  BY <1>1, <1>2 DEF BufferMaps
<1>. QED BY <1>1, <1>3, PlacesStay

LEMMA FreeKeeps ==
  ASSUME BufferInv, NEW p \in DOMAIN shape, Buffer!freeAlignedBuffer(p)
  PROVE  BufferInv'
<1>. USE DEF BufferInv
<1>1. /\ heap' = {block \in heap : block.ptr # bufferDataMap[p].unalignedPtr}
      /\ bufferDataMap' = Buffer!Without(bufferDataMap, p)
      /\ shape' = Buffer!Without(shape, p)
      /\ intact' = Buffer!Without(intact, p)
      /\ overrun' = Buffer!Without(overrun, p)
      /\ spilled' = spilled
  BY DEF Buffer!freeAlignedBuffer
<1>2. p \in Buffer!Buffers
  BY DEF BufferMaps
<1>3. /\ Buffer!Buffers' = Buffer!Buffers \ {p}
      /\ bufferDataMap' = [q \in Buffer!Buffers \ {p} |-> bufferDataMap[q]]
      /\ shape' = [q \in Buffer!Buffers \ {p} |-> shape[q]]
      /\ intact' = [q \in Buffer!Buffers \ {p} |-> intact[q]]
      /\ overrun' = [q \in Buffer!Buffers \ {p} |-> overrun[q]]
  <2>1. /\ DOMAIN shape = Buffer!Buffers /\ DOMAIN overrun = Buffer!Buffers
        /\ DOMAIN intact = Buffer!Buffers
    BY DEF BufferMaps
  <2>. QED BY <1>1, <2>1 DEF Buffer!Without, Buffer!Buffers
<1>4. \A q \in Buffer!Buffers' :
        BlockOf(q)' = BlockOf(q) /\ BlockBytes(q)' = BlockBytes(q)
  BY <1>3 DEF BlockOf, BlockBytes
<1>5. BufferMaps'
  <2>1. IsFiniteSet(Buffer!Buffers')
    BY <1>3, FS_RemoveElement DEF BufferMaps
  <2>. QED BY <2>1, <1>1, <1>3 DEF BufferMaps
<1>6. BufferPlaces' /\ BlocksApart'
  BY <1>3, <1>4 DEF BufferPlaces, BlocksApart
<1>7. ASSUME NEW q \in Buffer!Buffers, q # p
      PROVE  BlockOf(q).ptr # BlockOf(p).ptr
  <2>1. BlockBytes(q) \cap BlockBytes(p) = {}
    BY <1>2, <1>7 DEF BlocksApart
  <2>2. BlockOf(q).ptr \in BlockBytes(q) /\ BlockOf(p).ptr \in BlockBytes(p)
    <3>1. ASSUME NEW r \in Buffer!Buffers PROVE BlockOf(r).ptr \in BlockBytes(r)
      <4>1. BlockOf(r).ptr \in Nat /\ BlockOf(r).size \in Nat \ {0}
        BY BufferInBlock
      <4>. QED BY <4>1 DEF BlockBytes, Buffer!Bytes
    <3>. QED BY <3>1, <1>2
  <2>. QED BY <2>1, <2>2
<1>8. heap' = {BlockOf(q) : q \in Buffer!Buffers \ {p}}
  <2>1. BlockOf(p).ptr = bufferDataMap[p].unalignedPtr
    BY DEF BlockOf
  <2>. QED BY <2>1, <1>1, <1>2, <1>7
<1>9. heap' = {BlockOf(q)' : q \in Buffer!Buffers'}
  BY <1>3, <1>4, <1>8
<1>. QED BY <1>5, <1>6, <1>9

LEMMA BufferStep == BufferInv /\ [Buffer!Next]_bufferVars => BufferInv'
<1>. SUFFICES ASSUME BufferInv, [Buffer!Next]_bufferVars PROVE BufferInv'
  OBVIOUS
<1>1. ASSUME NEW count \in Counts, NEW size \in Sizes,
             Buffer!allocateAlignedBuffer(count, size)
      PROVE  BufferInv'
  BY <1>1, AllocateKeeps
<1>2. ASSUME NEW p \in DOMAIN shape, NEW k \in 0 .. shape[p].count, Buffer!Write(p, k)
      PROVE  BufferInv'
  BY <1>2, WriteKeeps
<1>3. ASSUME NEW p \in DOMAIN shape, Buffer!restoreCanary(p) PROVE BufferInv'
  BY <1>3, RestoreKeeps
<1>4. ASSUME NEW p \in DOMAIN shape, Buffer!freeAlignedBuffer(p) PROVE BufferInv'
  BY <1>4, FreeKeeps
<1>5. CASE UNCHANGED bufferVars
  <2>1. UNCHANGED <<heap, bufferDataMap, shape>> /\ UNCHANGED <<intact, overrun, spilled>>
    BY <1>5 DEF bufferVars
  <2>2. BufferMaps'
    BY <2>1, PlacesStay DEF BufferInv, BufferMaps
  <2>. QED BY <2>1, <2>2, PlacesStay DEF BufferInv
<1>. QED BY <1>1, <1>2, <1>3, <1>4, <1>5 DEF Buffer!Next

LEMMA BufferTypes == BufferInv => Buffer!TypeOK
<1>. SUFFICES ASSUME BufferInv PROVE Buffer!TypeOK
  OBVIOUS
<1>. USE DEF BufferInv
<1>1. ASSUME NEW p \in Buffer!Buffers
      PROVE  /\ BlockOf(p) \in [ptr : 0 .. Memory - 1, size : 1 .. Memory]
             /\ bufferDataMap[p].canaryPtr \in 0 .. Memory - 1
             /\ BlockOf(p).ptr = bufferDataMap[p].unalignedPtr
  <2>. DEFINE n == shape[p].count * shape[p].size
              b == BlockOf(p).ptr
              s == BlockOf(p).size
  <2>1. /\ p \in Nat /\ n \in Nat /\ b \in Nat /\ s \in Nat \ {0} /\ b <= p
        /\ bufferDataMap[p].canaryPtr = p + n /\ p + n + sizeof_canary <= b + s
        /\ b + s <= Memory
    BY BufferInBlock
  <2>2. BlockOf(p) = [ptr |-> b, size |-> s] /\ b = bufferDataMap[p].unalignedPtr
    BY DEF BlockOf
  <2>. HIDE DEF n, b, s
  <2>3. b \in 0 .. Memory - 1 /\ s \in 1 .. Memory /\ p + n \in 0 .. Memory - 1
    BY <2>1, Allocator
  <2>. QED BY <2>1, <2>2, <2>3 DEF b
<1>2. heap \subseteq [ptr : 0 .. Memory - 1, size : 1 .. Memory]
  BY <1>1
<1>3. bufferDataMap \in [Buffer!Buffers ->
                          [unalignedPtr : 0 .. Memory - 1, canaryPtr : 0 .. Memory - 1]]
  <2>1. ASSUME NEW p \in Buffer!Buffers
        PROVE  bufferDataMap[p] \in
                 [unalignedPtr : 0 .. Memory - 1, canaryPtr : 0 .. Memory - 1]
    <3>1. bufferDataMap[p] \in [unalignedPtr : Nat, canaryPtr : Nat]
      BY DEF BufferMaps
    <3>2. bufferDataMap[p].unalignedPtr \in 0 .. Memory - 1
      <4>1. BlockOf(p).ptr \in 0 .. Memory - 1
        BY <1>1
      <4>. QED BY <4>1, <1>1
    <3>. QED BY <3>1, <3>2, <1>1
  <2>. QED BY <2>1 DEF BufferMaps
<1>. QED BY <1>2, <1>3 DEF Buffer!TypeOK, BufferMaps

LEMMA BuffersAreSound == BufferInv => Buffer!BuffersSound
<1>. SUFFICES ASSUME BufferInv PROVE Buffer!BuffersSound
  OBVIOUS
<1>. USE DEF BufferInv
<1>1. DOMAIN shape = Buffer!Buffers
  BY DEF BufferMaps
<1>2. Buffer!MapMatchesHeap
  <2>1. heap = {[ptr |-> bufferDataMap[p].unalignedPtr,
                 size |-> Buffer!count8(shape[p].count, shape[p].size)] :
                  p \in Buffer!Buffers}
    BY DEF BlockOf
  <2>2. Cardinality(heap) = Cardinality(Buffer!Buffers)
    <3>. DEFINE f == [p \in Buffer!Buffers |-> BlockOf(p)]
    <3>1. ASSUME NEW p \in Buffer!Buffers, NEW q \in Buffer!Buffers, f[p] = f[q]
          PROVE  p = q
      <4>1. BlockBytes(p) = BlockBytes(q)
        BY <3>1 DEF BlockBytes
      <4>2. p \in BlockBytes(p)
        BY BufferInBlock
      <4>. QED BY <4>1, <4>2 DEF BlocksApart
    <3>2. f \in Bijection(Buffer!Buffers, heap)
      BY <3>1 DEF Bijection, Injection, Surjection, IsInjective
    <3>3. IsFiniteSet(Buffer!Buffers)
      BY DEF BufferMaps
    <3>. QED BY <3>2, <3>3, FS_Bijection DEF ExistsBijection
  <2>. QED BY <1>1, <2>1, <2>2, SameCardinality DEF Buffer!MapMatchesHeap
<1>3. Buffer!AlignedInBlock
  <2>. SUFFICES ASSUME NEW p \in Buffer!Buffers
                PROVE  /\ p % alignment = 0
                       /\ \E block \in heap :
                            Buffer!Bytes(p, shape[p].count * shape[p].size)
                                \cup Buffer!canary(p)
                              \subseteq Buffer!Bytes(block.ptr, block.size)
    BY <1>1 DEF Buffer!AlignedInBlock
  <2>1. p % alignment = 0 /\ BlockOf(p) \in heap
    BY BufferInBlock
  <2>2. Buffer!canary(p) \subseteq BlockBytes(p)
    BY CanaryPlace
  <2>3. Buffer!Bytes(p, shape[p].count * shape[p].size) \subseteq BlockBytes(p)
    <3>. DEFINE n == shape[p].count * shape[p].size
                b == BlockOf(p).ptr
                s == BlockOf(p).size
    <3>1. /\ p \in Nat /\ n \in Nat /\ b \in Nat /\ s \in Nat /\ b <= p
          /\ p + n + sizeof_canary <= b + s
      BY BufferInBlock
    <3>2. BlockBytes(p) = b .. b + s - 1 /\ Buffer!Bytes(p, n) = p .. p + n - 1
      BY DEF Buffer!Bytes, BlockBytes
    <3>. HIDE DEF n, b, s
    <3>3. Buffer!Bytes(p, n) \subseteq BlockBytes(p)
      BY <3>1, <3>2, Allocator
    <3>. QED BY <3>3 DEF n
  <2>. QED BY <2>1, <2>2, <2>3 DEF BlockBytes
<1>4. Buffer!CanaryTells
  BY <1>1 DEF Buffer!CanaryTells, Buffer!checkCanary, BufferMaps
<1>. QED BY <1>2, <1>3, <1>4 DEF Buffer!BuffersSound


(***************************************************************************)
(* The distributions.                                                      *)
(***************************************************************************)

LEMMA Parameters ==
  /\ DistrWord \in Nat \ {0} /\ DistrWide \in Nat \ {0}
  /\ Initially \in [Distr -> [Random!Key -> 0 .. DistrWide - 1]]
  /\ \A b \in Distr : Initially[b]["offset"] < DistrWord
  /\ PropertyValues \in [Random!Key -> SUBSET (0 .. DistrWide - 1)]
  /\ Composites \subseteq [distrs : Seq(Distr), chooser : Distr]
BY RandomAssumption DEF Random!ParameterAssumption

Bound == 0 .. DistrWord - 1

Members ==
  /\ property \in [Distr -> [Random!Key -> 0 .. DistrWide - 1]]
  /\ \A b \in Distr : property[b]["offset"] < DistrWord

(* The distribution installed is that of the members, but for a setter     *)
(* that was refused.                                                       *)
InstalledInv ==
  /\ distribution \in
       [Distr -> [trials : Bound, never : BOOLEAN, always : BOOLEAN]]
  /\ refused \subseteq Distr
  /\ \A b \in Distr :
       b \notin refused => /\ ~Random!Refused(property[b])
                           /\ distribution[b] = Random!Installed(property[b])

(* The range of a composite encloses the bounds its parts had.             *)
CompositeInv ==
  Random!Built =>
    /\ composite.distrs \in Seq(Distr) /\ composite.chooser \in Distr
    /\ composite.range \in [minValue : Bound, maxValue : Bound]
    /\ composite.bounds \in [Distr -> Bound \X Bound]
    /\ composite.bounds[composite.chooser][2] < Len(composite.distrs)
    /\ \A n \in DOMAIN composite.distrs :
         /\ composite.range.minValue <= composite.bounds[composite.distrs[n]][1]
         /\ composite.bounds[composite.distrs[n]][2] <= composite.range.maxValue

RandomInv == Members /\ InstalledInv /\ CompositeInv

-----------------------------------------------------------------------------
LEMMA RandomMinimum ==
  ASSUME NEW S \in SUBSET Nat, S # {}
  PROVE  Random!Min(S) \in S /\ \A x \in S : Random!Min(S) <= x
<1>1. \E m \in S : \A n \in S : m <= n
  BY LeastElement
<1>. QED BY <1>1, Zenon DEF Random!Min

LEMMA RandomMaximum ==
  ASSUME NEW b \in Nat, NEW S \in SUBSET (0 .. b), S # {}
  PROVE  Random!Max(S) \in S /\ \A x \in S : x <= Random!Max(S)
<1>1. \E m \in S : \A n \in S : n <= m
  BY GreatestElement
<1>2. \A n \in S : n \in Int
  OBVIOUS
<1>3. \E m \in S : \A n \in S : m >= n
  BY <1>1, <1>2
<1>4. Random!Max(S) \in S /\ \A x \in S : Random!Max(S) >= x
  BY <1>3, Zenon DEF Random!Max
<1>. QED BY <1>2, <1>4

LEMMA ModAtMost ==
  ASSUME NEW a \in Nat, NEW c \in Nat \ {0}
  PROVE  a % c \in Nat /\ a % c <= a
<1>. DEFINE q == a \div c
            r == a % c
<1>1. a = c * q + r /\ r \in 0 .. c - 1 /\ q \in Int
  BY DivMod
<1>. HIDE DEF q, r
<1>2. q >= 0
  <2>. SUFFICES ASSUME q <= -1 PROVE FALSE
    BY <1>1
  <2>1. c * q <= -c
    BY <1>1, SMT
  <2>. DEFINE p == c * q
  <2>2. p \in Int /\ p <= -c /\ a = p + r
    BY <2>1, <1>1
  <2>. HIDE DEF p
  <2>. QED BY <2>2, <1>1
<1>3. c * q \in Nat
  BY <1>1, <1>2, SMT
<1>. DEFINE p == c * q
<1>4. p \in Nat /\ a = p + r
  BY <1>1, <1>3
<1>. HIDE DEF p
<1>5. r \in Nat /\ r <= a
  BY <1>1, <1>4
<1>. QED BY <1>5 DEF r

LEMMA InstalledType ==
  ASSUME NEW p \in [Random!Key -> 0 .. DistrWide - 1]
  PROVE  Random!Installed(p) \in [trials : Bound, never : BOOLEAN, always : BOOLEAN]
<1>1. p["countTrials"] \in Int
  BY DEF Random!Key
<1>2. p["countTrials"] % DistrWord \in Bound
  BY <1>1, Parameters, DivMod DEF Bound
<1>. QED BY <1>2 DEF Random!Installed

LEMMA BoundsOf ==
  ASSUME Members, NEW b \in Distr
  PROVE  Random!getMinValue(b) \in Bound /\ Random!getMaxValue(b) \in Bound
<1>. DEFINE o == property[b]["offset"]
            t == property[b]["countTrials"]
<1>1. o \in 0 .. DistrWide - 1 /\ t \in 0 .. DistrWide - 1 /\ o < DistrWord
  BY DEF Members, Random!Key
<1>2. Random!getMinValue(b) = o /\ Random!getMaxValue(b) = (o + t) % DistrWord
  BY DEF Random!getMinValue, Random!getMaxValue
<1>. HIDE DEF o, t
<1>3. o \in Bound /\ (o + t) % DistrWord \in Bound
  BY <1>1, Parameters, DivMod DEF Bound
<1>. QED BY <1>2, <1>3

(* Where the sum does not wrap in size_t, what initDistribution accepts    *)
(* fits a word.                                                            *)
LEMMA AcceptedFits ==
  ASSUME NEW p \in [Random!Key -> 0 .. DistrWide - 1], ~Random!Refused(p),
         p["offset"] + p["countTrials"] < DistrWide
  PROVE  /\ p["countTrials"] \in Bound /\ p["offset"] \in Bound
         /\ p["offset"] + p["countTrials"] \in Bound
         /\ (p["offset"] + p["countTrials"]) % DistrWord
              = p["offset"] + p["countTrials"]
         /\ p["countTrials"] % DistrWord = p["countTrials"]
<1>. DEFINE t == p["countTrials"]
            o == p["offset"]
<1>1. t \in Nat /\ o \in Nat /\ o + t < DistrWide /\ ~((o + t) % DistrWide >= DistrWord)
  BY DEF Random!Refused, Random!Key
<1>. HIDE DEF t, o
<1>2. (o + t) % DistrWide = o + t
  BY <1>1, Parameters, ModOfSmall
<1>3. t \in Bound /\ o \in Bound /\ o + t \in Bound
  BY <1>1, <1>2, Parameters DEF Bound
<1>4. (o + t) % DistrWord = o + t /\ t % DistrWord = t
  BY <1>3, Parameters, ModOfSmall DEF Bound
<1>. QED BY <1>3, <1>4 DEF t, o

LEMMA ExtremesEnclose ==
  ASSUME Members, NEW distrs \in Seq(Distr)
  PROVE  /\ \A n \in DOMAIN distrs :
              /\ Random!Extremes(distrs).minValue <= Random!getMinValue(distrs[n])
              /\ Random!getMaxValue(distrs[n]) <= Random!Extremes(distrs).maxValue
         /\ Random!Extremes(distrs) \in [minValue : Bound, maxValue : Bound]
<1>. DEFINE members == {distrs[n] : n \in DOMAIN distrs}
            lower == {DistrWord - 1} \cup {Random!getMinValue(b) : b \in members}
            upper == {0} \cup {Random!getMaxValue(b) : b \in members}
<1>1. Random!Extremes(distrs)
        = [minValue |-> Random!Min(lower), maxValue |-> Random!Max(upper)]
  BY DEF Random!Extremes
<1>2. \A n \in DOMAIN distrs : distrs[n] \in Distr
  OBVIOUS
<1>3. \A n \in DOMAIN distrs :
        Random!getMinValue(distrs[n]) \in lower /\ Random!getMaxValue(distrs[n]) \in upper
  OBVIOUS
<1>4. /\ DistrWord - 1 \in Nat /\ lower # {} /\ upper # {}
      /\ lower \in SUBSET Nat /\ upper \in SUBSET (0 .. DistrWord - 1)
      /\ lower \in SUBSET (0 .. DistrWord - 1)
  BY <1>2, BoundsOf, Parameters DEF Bound
<1>. HIDE DEF lower, upper
<1>5. Random!Min(lower) \in lower /\ \A x \in lower : Random!Min(lower) <= x
  BY <1>4, RandomMinimum
<1>6. Random!Max(upper) \in upper /\ \A x \in upper : x <= Random!Max(upper)
  BY <1>4, RandomMaximum
<1>7. Random!Min(lower) \in Bound /\ Random!Max(upper) \in Bound
  BY <1>4, <1>5, <1>6 DEF Bound
<1>. QED BY <1>1, <1>3, <1>5, <1>6, <1>7

-----------------------------------------------------------------------------
LEMMA RandomInit == Random!Init => RandomInv
<1>. SUFFICES ASSUME Random!Init PROVE RandomInv
  OBVIOUS
<1>1. /\ property = Initially /\ \A b \in Distr : ~Random!Refused(Initially[b])
      /\ distribution = [b \in Distr |-> Random!Installed(Initially[b])]
      /\ composite = Random!Nothing /\ refused = {}
  BY DEF Random!Init
<1>2. ~Random!Built
  BY <1>1 DEF Random!Built, Random!Nothing
<1>3. Members
  BY <1>1, Parameters DEF Members
<1>4. ASSUME NEW b \in Distr
      PROVE  Random!Installed(property[b]) \in
               [trials : Bound, never : BOOLEAN, always : BOOLEAN]
  BY <1>3, InstalledType DEF Members
<1>5. InstalledInv
  BY <1>1, <1>4 DEF InstalledInv
<1>. QED BY <1>2, <1>3, <1>5 DEF RandomInv, CompositeInv

LEMMA SetPropertyKeeps ==
  ASSUME RandomInv, NEW b \in Distr, NEW key \in Random!Key,
         NEW value \in PropertyValues[key],
         Random!setProperty(b, key, value)
  PROVE  RandomInv'
<1>. DEFINE v == Random!Converted(key, value)
            p == [property[b] EXCEPT ![key] = v]
<1>0. Members /\ InstalledInv /\ CompositeInv
  BY DEF RandomInv
<1>1. /\ property' = [property EXCEPT ![b] = p]
      /\ Random!Refused(p) =>
           refused' = refused \cup {b} /\ distribution' = distribution
      /\ ~Random!Refused(p) =>
           /\ refused' = refused \ {b}
           /\ distribution' = [distribution EXCEPT ![b] = Random!Installed(p)]
      /\ composite' = composite
  BY DEF Random!setProperty, Random!initDistribution
<1>2. /\ property[b] \in [Random!Key -> 0 .. DistrWide - 1]
      /\ property[b]["offset"] < DistrWord
  BY <1>0 DEF Members
<1>3. v \in 0 .. DistrWide - 1 /\ (key = "offset" => v < DistrWord)
  <2>1. value \in 0 .. DistrWide - 1
    BY Parameters
  <2>2. value \in Nat
    BY <2>1
  <2>3. value % DistrWord \in 0 .. DistrWord - 1
    BY <2>2, Parameters, DivMod
  <2>4. value % DistrWord <= value
    BY <2>2, Parameters, ModAtMost
  <2>. QED BY <2>1, <2>3, <2>4, Parameters DEF Random!Converted
<1>. HIDE DEF v
<1>4. p \in [Random!Key -> 0 .. DistrWide - 1] /\ p["offset"] < DistrWord
  <2>1. p \in [Random!Key -> 0 .. DistrWide - 1]
    BY <1>2, <1>3
  <2>2. "offset" \in Random!Key
    BY DEF Random!Key
  <2>3. p["offset"] = IF key = "offset" THEN v ELSE property[b]["offset"]
    BY <1>2, <2>2
  <2>. HIDE DEF p
  <2>. QED BY <2>1, <2>3, <1>2, <1>3
<1>. HIDE DEF p
<1>5. \A x \in Distr : property'[x] = IF x = b THEN p ELSE property[x]
  BY <1>0, <1>1 DEF Members
<1>6. Members'
  BY <1>0, <1>1, <1>4, <1>5 DEF Members
<1>7. InstalledInv'
  <2>1. CASE Random!Refused(p)
    BY <2>1, <1>0, <1>1, <1>5 DEF InstalledInv
  <2>2. CASE ~Random!Refused(p)
    <3>1. Random!Installed(p) \in [trials : Bound, never : BOOLEAN, always : BOOLEAN]
      BY <1>4, InstalledType
    <3>2. /\ distribution' = [distribution EXCEPT ![b] = Random!Installed(p)]
          /\ refused' = refused \ {b}
      BY <2>2, <1>1
    <3>3. distribution' \in
            [Distr -> [trials : Bound, never : BOOLEAN, always : BOOLEAN]]
      BY <3>1, <3>2, <1>0 DEF InstalledInv
    <3>4. \A x \in Distr : distribution'[x] =
            IF x = b THEN Random!Installed(p) ELSE distribution[x]
      BY <3>2, <1>0 DEF InstalledInv
    <3>5. ASSUME NEW x \in Distr, x \notin refused'
          PROVE  /\ ~Random!Refused(property'[x])
                 /\ distribution'[x] = Random!Installed(property'[x])
      <4>1. CASE x = b
        BY <4>1, <3>4, <2>2, <1>5
      <4>2. CASE x # b
        BY <4>2, <3>2, <3>4, <3>5, <1>0, <1>5 DEF InstalledInv
      <4>. QED BY <4>1, <4>2
    <3>6. refused' \subseteq Distr
      BY <3>2, <1>0 DEF InstalledInv
    <3>. QED BY <3>3, <3>5, <3>6 DEF InstalledInv
  <2>. QED BY <2>1, <2>2
<1>8. CompositeInv'
  BY <1>0, <1>1 DEF CompositeInv, Random!Built
<1>. QED BY <1>6, <1>7, <1>8 DEF RandomInv

LEMMA CompositeKeeps ==
  ASSUME RandomInv, NEW parts \in Composites, Random!CompositeDistribution(parts)
  PROVE  RandomInv'
<1>. DEFINE bounds == [b \in Distr |-> <<Random!getMinValue(b), Random!getMaxValue(b)>>]
            range == Random!Extremes(parts.distrs)
<1>1. /\ Members /\ InstalledInv
      /\ ~Random!ChooserTooHigh(parts)
      /\ composite' = [distrs |-> parts.distrs, chooser |-> parts.chooser,
                       range |-> range, bounds |-> bounds]
      /\ UNCHANGED <<property, distribution, refused>>
  BY DEF RandomInv, Random!CompositeDistribution
<1>2. Members' /\ InstalledInv'
  BY <1>1 DEF Members, InstalledInv
<1>3. parts.distrs \in Seq(Distr) /\ parts.chooser \in Distr
  BY Parameters
<1>4. bounds \in [Distr -> Bound \X Bound]
  BY <1>1, BoundsOf
<1>5. /\ \A n \in DOMAIN parts.distrs :
           /\ range.minValue <= Random!getMinValue(parts.distrs[n])
           /\ Random!getMaxValue(parts.distrs[n]) <= range.maxValue
      /\ range \in [minValue : Bound, maxValue : Bound]
  BY <1>1, <1>3, ExtremesEnclose
<1>6. \A n \in DOMAIN parts.distrs :
        /\ range.minValue <= bounds[parts.distrs[n]][1]
        /\ bounds[parts.distrs[n]][2] <= range.maxValue
  <2>1. \A n \in DOMAIN parts.distrs : parts.distrs[n] \in Distr
    BY <1>3
  <2>. HIDE DEF range
  <2>. QED BY <2>1, <1>5
<1>7. bounds[parts.chooser][2] < Len(parts.distrs)
  <2>1. Random!getMaxValue(parts.chooser) \in Bound /\ Len(parts.distrs) \in Nat
    BY <1>1, <1>3, BoundsOf
  <2>2. ~(Random!getMaxValue(parts.chooser) >= Len(parts.distrs))
    BY <1>1 DEF Random!ChooserTooHigh
  <2>3. bounds[parts.chooser][2] = Random!getMaxValue(parts.chooser)
    BY <1>3
  <2>. HIDE DEF bounds
  <2>. QED BY <2>1, <2>2, <2>3, Parameters DEF Bound
<1>. HIDE DEF bounds, range
<1>8. CompositeInv'
  BY <1>1, <1>3, <1>4, <1>5, <1>6, <1>7 DEF CompositeInv, Bound
<1>. QED BY <1>2, <1>8 DEF RandomInv

LEMMA RandomStep == RandomInv /\ [Random!Next]_randomVars => RandomInv'
<1>. SUFFICES ASSUME RandomInv, [Random!Next]_randomVars PROVE RandomInv'
  OBVIOUS
<1>1. ASSUME NEW b \in Distr, NEW key \in Random!Key, NEW value \in PropertyValues[key],
             Random!setProperty(b, key, value)
      PROVE  RandomInv'
  BY <1>1, SetPropertyKeeps
<1>2. ASSUME NEW parts \in Composites, Random!CompositeDistribution(parts)
      PROVE  RandomInv'
  BY <1>2, CompositeKeeps
<1>3. CASE UNCHANGED randomVars
  BY <1>3 DEF randomVars, RandomInv, Members, InstalledInv, CompositeInv, Random!Built
<1>. QED BY <1>1, <1>2, <1>3 DEF Random!Next

LEMMA RandomTypes == RandomInv => Random!TypeOK
BY DEF RandomInv, Members, InstalledInv, CompositeInv, Bound, Random!TypeOK

-----------------------------------------------------------------------------
LEMMA BinomialInRange ==
  ASSUME Members, InstalledInv, NEW b \in Distr, Random!Sound(b)
  PROVE  Random!RndValues(b) \subseteq
           Random!getMinValue(b) .. Random!getMaxValue(b)
<1>. DEFINE o == property[b]["offset"]
            t == property[b]["countTrials"]
<1>0. ~Random!Refused(property[b]) /\ distribution[b] = Random!Installed(property[b])
  BY DEF InstalledInv, Random!Sound
<1>1. property[b] \in [Random!Key -> 0 .. DistrWide - 1] /\ o + t < DistrWide
  BY DEF Members, Random!Sound
<1>2. /\ t \in Bound /\ o \in Bound /\ o + t \in Bound
      /\ (o + t) % DistrWord = o + t /\ t % DistrWord = t
  BY <1>0, <1>1, AcceptedFits
<1>3. Random!getMinValue(b) = o /\ Random!getMaxValue(b) = o + t
  BY <1>2 DEF Random!getMinValue, Random!getMaxValue
<1>4. Random!Successes(distribution[b]) \subseteq 0 .. t
  <2>1. distribution[b].trials = t
    BY <1>0, <1>2 DEF Random!Installed
  <2>2. t \in Nat
    BY <1>2, Parameters DEF Bound
  <2>. HIDE DEF t
  <2>. QED BY <2>1, <2>2 DEF Random!Successes
<1>5. ASSUME NEW x \in 0 .. t PROVE (o + x) % DistrWord \in o .. o + t
  <2>. HIDE DEF o, t
  <2>1. o + x \in 0 .. DistrWord - 1 /\ o + x \in o .. o + t
    BY <1>2, Parameters DEF Bound
  <2>2. (o + x) % DistrWord = o + x
    BY <2>1, Parameters, ModOfSmall
  <2>. QED BY <2>1, <2>2
<1>6. Random!RndValues(b) = {(o + x) % DistrWord : x \in Random!Successes(distribution[b])}
  BY DEF Random!RndValues
<1>. HIDE DEF o, t
<1>. QED BY <1>3, <1>4, <1>5, <1>6

LEMMA BinomialsInRange == RandomInv => Random!BinomialRange
BY BinomialInRange DEF RandomInv, Random!BinomialRange

LEMMA CompositesInRange == RandomInv => Random!CompositeRange
<1>. SUFFICES ASSUME RandomInv, Random!Built PROVE Random!CompositeRange
  BY DEF Random!CompositeRange
<1>. DEFINE distrs == composite.distrs
            chooser == composite.chooser
            lo == composite.range.minValue
            hi == composite.range.maxValue
<1>1. /\ distrs \in Seq(Distr) /\ chooser \in Distr
      /\ lo \in Bound /\ hi \in Bound
      /\ composite.bounds[chooser][2] < Len(distrs)
      /\ \A n \in DOMAIN distrs :
           /\ lo <= composite.bounds[distrs[n]][1]
           /\ composite.bounds[distrs[n]][2] <= hi
      /\ Members /\ InstalledInv
  BY DEF RandomInv, CompositeInv
<1>2. Len(distrs) \in Nat /\ DOMAIN distrs = 1 .. Len(distrs)
  BY <1>1
<1>3. ASSUME NEW b \in Distr, Random!Sound(b), Random!Unmoved(b)
      PROVE  /\ Random!RndValues(b) \subseteq composite.bounds[b][1] .. composite.bounds[b][2]
             /\ composite.bounds[b][1] \in Bound /\ composite.bounds[b][2] \in Bound
  <2>1. /\ composite.bounds[b][1] = Random!getMinValue(b)
        /\ composite.bounds[b][2] = Random!getMaxValue(b)
    BY <1>3 DEF Random!Unmoved
  <2>. QED BY <2>1, <1>1, <1>3, BinomialInRange, BoundsOf
<1>4. ASSUME Random!Sound(chooser), Random!Unmoved(chooser) PROVE Random!ChooserInRange
  <2>1. /\ Random!RndValues(chooser) \subseteq
             composite.bounds[chooser][1] .. composite.bounds[chooser][2]
        /\ composite.bounds[chooser][1] \in Bound /\ composite.bounds[chooser][2] \in Bound
    BY <1>1, <1>3, <1>4
  <2>2. Random!RndValues(chooser) \subseteq 0 .. Len(distrs) - 1
    <3>. HIDE DEF distrs, chooser
    <3>. QED BY <2>1, <1>1, <1>2, Parameters DEF Bound
  <2>. QED BY <2>2 DEF Random!ChooserInRange
<1>5. ASSUME \A b \in Random!Members : Random!Sound(b) /\ Random!Unmoved(b)
      PROVE  Random!ValuesInRange
  <2>1. ASSUME NEW n \in 0 .. Len(distrs) - 1
        PROVE  Random!RndValues(distrs[n + 1]) \subseteq lo .. hi
    <3>. DEFINE d == distrs[n + 1]
    <3>1. n + 1 \in DOMAIN distrs
      BY <1>2
    <3>2. d \in Distr /\ d \in Random!Members
      BY <3>1, <1>1 DEF Random!Members
    <3>3. lo <= composite.bounds[d][1] /\ composite.bounds[d][2] <= hi
      BY <3>1, <1>1
    <3>. HIDE DEF d, lo, hi
    <3>4. /\ Random!RndValues(d) \subseteq composite.bounds[d][1] .. composite.bounds[d][2]
          /\ composite.bounds[d][1] \in Bound /\ composite.bounds[d][2] \in Bound
      BY <3>2, <1>3, <1>5
    <3>5. Random!RndValues(d) \subseteq lo .. hi
      BY <3>3, <3>4, <1>1, Parameters DEF Bound
    <3>. QED BY <3>5 DEF d
  <2>2. Random!CompositeRndValues \subseteq lo .. hi
    <3>. HIDE DEF lo, hi
    <3>. QED BY <2>1 DEF Random!CompositeRndValues
  <2>. QED BY <2>2 DEF Random!ValuesInRange
<1>. QED BY <1>4, <1>5 DEF Random!CompositeRange


(***************************************************************************)
(* The data generator.                                                     *)
(***************************************************************************)

MaxValue == Max({streams[n].maxValue : n \in DOMAIN streams})

(* What emit() has written: the values drawn, or their running sums, whose *)
(* last one it remembers.                                                  *)
Emission(o, l, e, d) ==
  /\ o \in Seq(Value) /\ d \in Seq(Value) /\ Len(o) = Len(d)
  /\ l \in Value /\ e \in BOOLEAN
  /\ \A k \in 1 .. Len(d) : d[k] <= MaxValue
  /\ ~applyPrefixSum => \A k \in 1 .. Len(d) : o[k] = d[k]
  /\ applyPrefixSum =>
       /\ e <=> Len(o) # 0
       /\ Len(o) # 0 => o[1] = prefixSumFirstValue /\ l = o[Len(o)]
       /\ \A k \in 2 .. Len(o) : o[k] = (o[k - 1] + d[k]) % Word

GeneratorInv ==
  /\ TypeOK
  /\ streams \in Streams /\ countValues \in Lengths
  /\ pc # "idle" =>
       Emission(out, lastValue, emitted, drawn) /\ Len(out) <= countValues
  /\ pc = "finish" => Len(out) = countValues

-----------------------------------------------------------------------------
LEMMA GeneratorParameters ==
  /\ Word \in Nat \ {0} /\ Wide = Word * Word
  /\ Lengths \subseteq Nat /\ FirstValues \subseteq Value
  /\ \A list \in Streams :
       /\ list \in Seq([values : SUBSET Value, maxValue : Value,
                        runlengths : SUBSET Value, oneValue : BOOLEAN])
       /\ list # <<>>
       /\ \A n \in DOMAIN list :
            /\ list[n].values # {}
            /\ \A v \in list[n].values : v <= list[n].maxValue
BY ParameterAssumption

LEMMA ValueType == \A v \in Value : v \in Nat /\ v < Word
BY GeneratorParameters DEF Value

LEMMA ValuesBelow == \A k \in Int : k % Word \in Value
<1>1. ASSUME NEW k \in Int PROVE k % Word \in 0 .. Word - 1
  BY GeneratorParameters, DivMod
<1>. QED BY <1>1 DEF Value

(* The greatest value of a stream bounds the values it returns.            *)
LEMMA MaxValueBounds ==
  ASSUME streams \in Streams
  PROVE  /\ MaxValue \in Value
         /\ \A n \in DOMAIN streams : \A v \in streams[n].values : v <= MaxValue
<1>. DEFINE S == {streams[n].maxValue : n \in DOMAIN streams}
<1>1. /\ streams # <<>>
      /\ streams \in Seq([values : SUBSET Value, maxValue : Value,
                          runlengths : SUBSET Value, oneValue : BOOLEAN])
      /\ \A n \in DOMAIN streams : \A v \in streams[n].values : v <= streams[n].maxValue
  BY GeneratorParameters
<1>2. 1 \in DOMAIN streams
  BY <1>1
<1>. DEFINE R == [values : SUBSET Value, maxValue : Value,
                  runlengths : SUBSET Value, oneValue : BOOLEAN]
<1>a. \A n \in DOMAIN streams : streams[n] \in R
  <2>1. streams \in Seq(R)
    BY <1>1
  <2>. HIDE DEF R
  <2>. QED BY <2>1
<1>b. \A n \in DOMAIN streams :
        /\ streams[n].maxValue \in Value
        /\ \A v \in streams[n].values : v \in Value
  BY <1>a
<1>3. S \in SUBSET (0 .. Word - 1) /\ S # {} /\ Word - 1 \in Nat
  BY <1>b, <1>2, GeneratorParameters DEF Value
<1>4. \A n \in DOMAIN streams : streams[n].maxValue \in S
  OBVIOUS
<1>. HIDE DEF S
<1>5. \E m \in S : \A n \in S : n <= m
  BY <1>3, GreatestElement
<1>6. \E m \in S : \A n \in S : m >= n
  BY <1>3, <1>5
<1>7. Max(S) \in S /\ \A n \in S : Max(S) >= n
  BY <1>6, Zenon DEF Max
<1>8. MaxValue = Max(S)
  BY DEF MaxValue, S
<1>9. ASSUME NEW n \in DOMAIN streams, NEW v \in streams[n].values PROVE v <= MaxValue
  <2>1. v <= streams[n].maxValue /\ MaxValue >= streams[n].maxValue
    BY <1>1, <1>4, <1>7, <1>8
  <2>2. v \in Int /\ streams[n].maxValue \in Int
    BY <1>b, ValueType
  <2>3. MaxValue \in Int
    <3>1. MaxValue \in S
      BY <1>7, <1>8, Zenon
    <3>2. S \subseteq Int
      BY <1>3
    <3>. QED BY <3>1, <3>2, Zenon
  <2>. QED BY <2>1, <2>2, <2>3
<1>. QED BY <1>3, <1>7, <1>8, <1>9 DEF Value

-----------------------------------------------------------------------------
(* f is d with v behind it.                                                *)
OneMore(f, d, v) ==
  /\ f \in Seq(Value) /\ Len(f) = Len(d) + 1
  /\ v \in Value /\ v <= MaxValue
  /\ \A k \in 1 .. Len(d) : f[k] = d[k]
  /\ f[Len(d) + 1] = v

(* The state of emit() when it has written n values, those of d among them. *)
Emitted(sum, d, n) ==
  \E o \in Seq(Value), l \in Value, e \in BOOLEAN :
    /\ sum = [out |-> o, last |-> l, emitted |-> e]
    /\ Emission(o, l, e, d)
    /\ Len(o) = n

(* One call of emit().                                                     *)
LEMMA EmitKeeps ==
  ASSUME applyPrefixSum \in BOOLEAN, prefixSumFirstValue \in Value,
         NEW sum, NEW d, NEW n, Emitted(sum, d, n), NEW v, NEW f, OneMore(f, d, v)
  PROVE  Emitted(emit(sum, v), f, n + 1)
<1>. SUFFICES \E p \in Seq(Value), m \in Value, g \in BOOLEAN :
                /\ emit(sum, v) = [out |-> p, last |-> m, emitted |-> g]
                /\ Emission(p, m, g, f)
                /\ Len(p) = n + 1
  BY DEF Emitted
<1>b. PICK o \in Seq(Value), l \in Value, e \in BOOLEAN :
        /\ sum = [out |-> o, last |-> l, emitted |-> e]
        /\ Emission(o, l, e, d)
        /\ Len(o) = n
  BY DEF Emitted
<1>0. /\ o \in Seq(Value) /\ d \in Seq(Value) /\ Len(o) = Len(d) /\ l \in Value
      /\ e \in BOOLEAN /\ Len(o) \in Nat /\ n = Len(o)
  BY <1>b DEF Emission
<1>a. /\ f \in Seq(Value) /\ Len(f) = Len(d) + 1 /\ v \in Value /\ v <= MaxValue
      /\ \A k \in 1 .. Len(d) : f[k] = d[k]
      /\ f[Len(d) + 1] = v
  BY DEF OneMore
<1>1. \A k \in 1 .. Len(f) : f[k] <= MaxValue
  BY <1>0, <1>a, <1>b DEF Emission
<1>2. CASE ~applyPrefixSum
  <2>. DEFINE p == Append(o, v)
  <2>1. /\ p \in Seq(Value) /\ Len(p) = Len(o) + 1 /\ p[Len(o) + 1] = v
        /\ \A k \in 1 .. Len(o) : p[k] = o[k]
    BY <1>0, <1>a
  <2>2. emit(sum, v)
          = [out |-> p, last |-> l, emitted |-> e]
    BY <1>b, <1>2 DEF emit
  <2>. HIDE DEF p
  <2>3. \A k \in 1 .. Len(f) : p[k] = f[k]
    BY <2>1, <1>0, <1>a, <1>b, <1>2 DEF Emission
  <2>4. Emission(p, l, e, f)
    BY <2>1, <2>3, <1>0, <1>a, <1>1, <1>b, <1>2 DEF Emission
  <2>. QED BY <2>1, <2>2, <2>4, <1>0, <1>a
<1>3. CASE applyPrefixSum
  <2>. DEFINE last == IF e THEN l ELSE (prefixSumFirstValue - v) % Word
              next == (last + v) % Word
              p == Append(o, next)
  <2>1. emit(sum, v)
          = [out |-> p, last |-> next, emitted |-> TRUE]
    BY <1>b, <1>3 DEF emit
  <2>2. next \in Value
    <3>1. last \in Int
      <4>1. prefixSumFirstValue - v \in Int /\ l \in Int
        BY <1>0, <1>a, ValueType
      <4>2. (prefixSumFirstValue - v) % Word \in Value
        BY <4>1, ValuesBelow
      <4>3. l \in Int /\ (prefixSumFirstValue - v) % Word \in Int
        <5>. DEFINE m == (prefixSumFirstValue - v) % Word
        <5>1. m \in Value
          BY <4>2
        <5>. HIDE DEF m
        <5>2. m \in Int
          BY <5>1, ValueType
        <5>. QED BY <4>1, <5>2 DEF m
      <4>. QED BY <4>3, <1>0
    <3>. HIDE DEF last
    <3>2. last + v \in Int
      BY <3>1, <1>a, ValueType
    <3>. QED BY <3>2, ValuesBelow
  <2>3. ~e => next = prefixSumFirstValue
    <3>1. \A x \in 0 .. Word - 1, y \in Int : (((x - y) % Word) + y) % Word = x
      BY GeneratorParameters, ModOfDifference
    <3>2. prefixSumFirstValue \in 0 .. Word - 1 /\ v \in Int
      BY <1>a, ValueType DEF Value
    <3>3. (((prefixSumFirstValue - v) % Word) + v) % Word = prefixSumFirstValue
      BY <3>1, <3>2, Zenon
    <3>. QED BY <3>3
  <2>4. e => next = (l + v) % Word
    OBVIOUS
  <2>. HIDE DEF last, next
  <2>5. /\ p \in Seq(Value) /\ Len(p) = Len(o) + 1 /\ p[Len(o) + 1] = next
        /\ \A k \in 1 .. Len(o) : p[k] = o[k]
    BY <1>0, <1>a, <2>2
  <2>. HIDE DEF p
  <2>6. e <=> Len(o) # 0
    BY <1>b, <1>3 DEF Emission
  <2>7. Len(o) # 0 => o[1] = prefixSumFirstValue /\ l = o[Len(o)]
    BY <1>b, <1>3 DEF Emission
  <2>8. p[1] = prefixSumFirstValue
    <3>1. CASE Len(o) = 0
      BY <3>1, <2>3, <2>5, <2>6
    <3>2. CASE Len(o) # 0
      BY <3>2, <2>5, <2>7, <1>0, <1>a
    <3>. QED BY <3>1, <3>2
  <2>9. ASSUME NEW k \in 2 .. Len(p) PROVE p[k] = (p[k - 1] + f[k]) % Word
    <3>1. CASE k = Len(o) + 1
      <4>1. Len(o) # 0 /\ p[k - 1] = o[Len(o)] /\ p[k] = next /\ f[k] = v
        BY <3>1, <2>5, <1>0, <1>a
      <4>. QED BY <4>1, <2>4, <2>6, <2>7
    <3>2. CASE k # Len(o) + 1
      <4>1. /\ k \in 2 .. Len(o) /\ k \in 1 .. Len(o) /\ k - 1 \in 1 .. Len(o)
            /\ k \in 1 .. Len(d)
        BY <3>2, <2>5, <1>0, <1>a
      <4>2. o[k] = (o[k - 1] + d[k]) % Word
        BY <4>1, <1>b, <1>3 DEF Emission
      <4>3. p[k] = o[k] /\ p[k - 1] = o[k - 1] /\ f[k] = d[k]
        BY <4>1, <2>5, <1>a
      <4>. QED BY <4>2, <4>3
    <3>. QED BY <3>1, <3>2
  <2>10. Len(p) # 0 /\ p[Len(p)] = next /\ Len(p) = Len(f)
    BY <2>5, <1>0, <1>a
  <2>11. Emission(p, next, TRUE, f)
    BY <2>2, <2>5, <2>8, <2>9, <2>10, <1>1, <1>a, <1>b, <1>3 DEF Emission
  <2>. DEFINE g == TRUE
  <2>12. /\ p \in Seq(Value) /\ next \in Value /\ g \in BOOLEAN
         /\ emit(sum, v) = [out |-> p, last |-> next, emitted |-> g]
         /\ Emission(p, next, g, f)
         /\ Len(p) = n + 1
    BY <2>1, <2>2, <2>5, <2>11, <1>0
  <2>. HIDE DEF g
  <2>. QED BY <2>12
<1>. QED BY <1>2, <1>3


(* A run: emit() of one value after another.                               *)
EmissionTable(start, values, g) ==
  g = [n \in 0 .. Len(values) |->
         IF n = 0 THEN start ELSE emit(g[n - 1], values[n])]

LEMMA EmissionTableExists ==
  ASSUME NEW start, NEW values, Len(values) \in Nat
  PROVE  \E g : EmissionTable(start, values, g)
<1>. DEFINE Part(m, g) ==
              \A n \in 0 .. m : g[n] = IF n = 0 THEN start ELSE emit(g[n - 1], values[n])
            T == {m \in Nat : \E g : g = [n \in 0 .. m |-> g[n]] /\ Part(m, g)}
<1>1. 0 \in T
  <2>. DEFINE g == [n \in 0 .. 0 |-> start]
  <2>1. g = [n \in 0 .. 0 |-> g[n]] /\ Part(0, g)
    OBVIOUS
  <2>. HIDE DEF g, Part
  <2>2. \E h : h = [n \in 0 .. 0 |-> h[n]] /\ Part(0, h)
    BY <2>1
  <2>. QED BY <2>2
<1>2. ASSUME NEW m \in T PROVE m + 1 \in T
  <2>0. m \in Nat
    OBVIOUS
  <2>1. PICK g : g = [n \in 0 .. m |-> g[n]] /\ Part(m, g)
    BY <1>2
  <2>. DEFINE h == [n \in 0 .. m + 1 |->
                      IF n = m + 1 THEN emit(g[m], values[m + 1]) ELSE g[n]]
  <2>2. h = [n \in 0 .. m + 1 |-> h[n]]
    OBVIOUS
  <2>3. Part(m + 1, h)
    <3>. SUFFICES ASSUME NEW n \in 0 .. m + 1
                  PROVE  h[n] = IF n = 0 THEN start ELSE emit(h[n - 1], values[n])
      OBVIOUS
    <3>1. CASE n = m + 1
      <4>1. h[n] = emit(g[m], values[m + 1]) /\ h[m] = g[m] /\ n # 0 /\ n - 1 = m
        BY <3>1, <2>0
      <4>. QED BY <4>1, <3>1
    <3>2. CASE n # m + 1 /\ n # 0
      <4>1. n \in 0 .. m /\ n - 1 \in 0 .. m
        BY <3>2, <2>0
      <4>2. h[n] = g[n] /\ h[n - 1] = g[n - 1]
        BY <4>1, <2>0
      <4>3. g[n] = emit(g[n - 1], values[n])
        BY <4>1, <3>2, <2>1
      <4>. QED BY <4>2, <4>3, <3>2
    <3>3. CASE n = 0
      <4>1. 0 \in 0 .. m /\ 0 \in 0 .. m + 1 /\ 0 # m + 1
        BY <2>0
      <4>2. h[0] = g[0]
        BY <4>1
      <4>3. g[0] = start
        BY <4>1, <2>1
      <4>. QED BY <4>2, <4>3, <3>3
    <3>. QED BY <3>1, <3>2, <3>3, <2>0
  <2>. HIDE DEF h, Part
  <2>4. \E k : k = [n \in 0 .. m + 1 |-> k[n]] /\ Part(m + 1, k)
    BY <2>2, <2>3
  <2>. QED BY <2>0, <2>4
<1>3. T \in SUBSET Nat
  OBVIOUS
<1>. HIDE DEF T
<1>4. T = Nat
  BY <1>1, <1>2, <1>3, NatInductionOfSet
<1>5. PICK g : g = [n \in 0 .. Len(values) |-> g[n]] /\ Part(Len(values), g)
  BY <1>4 DEF T
<1>6. EmissionTable(start, values, g)
  BY <1>5 DEF EmissionTable
<1>. QED BY <1>6

LEMMA EmitAllKeeps ==
  ASSUME Emission(out, lastValue, emitted, drawn),
         applyPrefixSum \in BOOLEAN, prefixSumFirstValue \in Value,
         NEW values \in Seq(Value), \A k \in 1 .. Len(values) : values[k] <= MaxValue,
         EmitAll(values)
  PROVE  /\ Emission(out', lastValue', emitted', drawn')
         /\ Len(out') = Len(out) + Len(values)
<1>. DEFINE start == [out |-> out, last |-> lastValue, emitted |-> emitted]
            N == Len(values)
            g == CHOOSE g : g = [n \in 0 .. Len(values) |->
                    IF n = 0 THEN start ELSE emit(g[n - 1], values[n])]
            D(n) == [k \in 1 .. Len(drawn) + n |->
                       IF k <= Len(drawn) THEN drawn[k] ELSE values[k - Len(drawn)]]
<1>1. /\ out' = g[N].out /\ lastValue' = g[N].last /\ emitted' = g[N].emitted
      /\ drawn' = drawn \o values
  BY DEF EmitAll
<1>2. N \in Nat /\ drawn \in Seq(Value) /\ Len(drawn) \in Nat /\ Len(out) \in Nat
  BY DEF Emission
<1>3. EmissionTable(start, values, g)
  <2>. HIDE DEF start
  <2>1. \E h : EmissionTable(start, values, h)
    BY <1>2, EmissionTableExists
  <2>. QED BY <2>1, Zenon DEF EmissionTable
<1>. HIDE DEF g, start
<1>4. /\ g[0] = start
      /\ \A n \in 1 .. N : g[n] = emit(g[n - 1], values[n])
  <2>1. \A n \in 0 .. N : g[n] = IF n = 0 THEN start ELSE emit(g[n - 1], values[n])
    BY <1>3 DEF EmissionTable
  <2>. QED BY <2>1, <1>2
<1>5. ASSUME NEW n \in 0 .. N
      PROVE  /\ D(n) \in Seq(Value) /\ Len(D(n)) = Len(drawn) + n
             /\ \A k \in 1 .. Len(drawn) : D(n)[k] = drawn[k]
             /\ \A k \in 1 .. n : D(n)[Len(drawn) + k] = values[k]
  <2>1. \A k \in 1 .. Len(drawn) + n : D(n)[k] \in Value
    <3>. SUFFICES ASSUME NEW k \in 1 .. Len(drawn) + n PROVE D(n)[k] \in Value
      OBVIOUS
    <3>1. CASE k <= Len(drawn)
      BY <3>1, <1>2
    <3>2. CASE ~(k <= Len(drawn))
      <4>1. k - Len(drawn) \in 1 .. N
        BY <3>2, <1>2
      <4>. QED BY <4>1, <3>2, <1>2
    <3>. QED BY <3>1, <3>2
  <2>2. Len(drawn) + n \in Nat
    BY <1>2
  <2>3. D(n) \in [1 .. Len(drawn) + n -> Value]
    BY <2>1
  <2>4. D(n) \in Seq(Value) /\ Len(D(n)) = Len(drawn) + n
    <3>. DEFINE q == D(n)
                m == Len(drawn) + n
    <3>1. q \in [1 .. m -> Value] /\ m \in Nat
      BY <2>2, <2>3
    <3>. HIDE DEF q, m, D
    <3>2. q \in Seq(Value) /\ Len(q) = m
      BY <3>1
    <3>. QED BY <3>2 DEF q, m
  <2>5. \A k \in 1 .. Len(drawn) : D(n)[k] = drawn[k]
    BY <1>2
  <2>6. \A k \in 1 .. n : D(n)[Len(drawn) + k] = values[k]
    BY <1>2
  <2>. QED BY <2>4, <2>5, <2>6
<1>6. D(0) = drawn /\ D(N) = drawn \o values
  <2>1. D(0) = drawn
    BY <1>2
  <2>2. D(N) = drawn \o values
    <3>1. D(N) = [k \in 1 .. Len(drawn) + N |->
                    IF k <= Len(drawn) THEN drawn[k] ELSE values[k - Len(drawn)]]
      OBVIOUS
    <3>2. drawn \o values = [k \in 1 .. Len(drawn) + N |-> (drawn \o values)[k]]
      <4>. DEFINE w == drawn \o values
      <4>1. w \in Seq(Value) /\ Len(w) = Len(drawn) + N
        BY <1>2
      <4>. HIDE DEF w
      <4>2. w = [k \in 1 .. Len(w) |-> w[k]]
        BY <4>1
      <4>. QED BY <4>1, <4>2 DEF w
    <3>3. ASSUME NEW k \in 1 .. Len(drawn) + N
          PROVE  (drawn \o values)[k]
                   = IF k <= Len(drawn) THEN drawn[k] ELSE values[k - Len(drawn)]
      BY <1>2
    <3>. QED BY <3>1, <3>2, <3>3
  <2>. QED BY <2>1, <2>2
<1>. HIDE DEF D
<1>. DEFINE Good(n) == Emitted(g[n], D(n), Len(out) + n)
            T == {n \in Nat : n <= N => Good(n)}
<1>. HIDE DEF Good
<1>7. 0 \in T
  <2>1. /\ out \in Seq(Value) /\ lastValue \in Value /\ emitted \in BOOLEAN
        /\ Emission(out, lastValue, emitted, D(0))
    BY <1>6 DEF Emission
  <2>2. g[0] = [out |-> out, last |-> lastValue, emitted |-> emitted]
    BY <1>4 DEF start
  <2>3. Len(out) = Len(out) + 0
    BY <1>2
  <2>4. Good(0)
    BY <2>1, <2>2, <2>3 DEF Good, Emitted
  <2>. QED BY <2>4
<1>8. ASSUME NEW n \in T PROVE n + 1 \in T
  <2>. SUFFICES ASSUME n \in Nat, n + 1 <= N PROVE Good(n + 1)
    BY <1>8
  <2>0. n \in Nat /\ n \in 0 .. N /\ n + 1 \in 0 .. N /\ n + 1 \in 1 .. N
    BY <1>2
  <2>1. Good(n)
    BY <2>0, <1>8
  <2>. DEFINE v == values[n + 1]
              f == D(n + 1)
              d == D(n)
  <2>2. v \in Value /\ v <= MaxValue
    BY <2>0
  <2>3. /\ f \in Seq(Value) /\ Len(f) = Len(drawn) + (n + 1)
        /\ \A k \in 1 .. Len(drawn) : f[k] = drawn[k]
        /\ \A k \in 1 .. n + 1 : f[Len(drawn) + k] = values[k]
        /\ Len(d) = Len(drawn) + n
        /\ \A k \in 1 .. Len(drawn) : d[k] = drawn[k]
        /\ \A k \in 1 .. n : d[Len(drawn) + k] = values[k]
    BY <2>0, <1>5
  <2>4. g[n + 1] = emit(g[n], v)
    <3>1. g[n + 1] = emit(g[(n + 1) - 1], values[n + 1])
      BY <2>0, <1>4
    <3>2. (n + 1) - 1 = n
      BY <2>0
    <3>. QED BY <3>1, <3>2
  <2>5. Emitted(g[n], d, Len(out) + n)
    BY <2>1 DEF Good
  <2>. HIDE DEF v, f, d
  <2>6. \A k \in 1 .. Len(d) : f[k] = d[k]
    <3>. SUFFICES ASSUME NEW k \in 1 .. Len(d) PROVE f[k] = d[k]
      OBVIOUS
    <3>1. CASE k <= Len(drawn)
      BY <3>1, <2>0, <2>3, <1>2
    <3>2. CASE ~(k <= Len(drawn))
      <4>. DEFINE j == k - Len(drawn)
      <4>1. j \in 1 .. n /\ j \in 1 .. n + 1 /\ k = Len(drawn) + j
        BY <3>2, <2>0, <2>3, <1>2
      <4>. HIDE DEF j
      <4>2. f[Len(drawn) + j] = values[j] /\ d[Len(drawn) + j] = values[j]
        BY <4>1, <2>3
      <4>. QED BY <4>1, <4>2
    <3>. QED BY <3>1, <3>2
  <2>7. f[Len(d) + 1] = v /\ Len(f) = Len(d) + 1
    <3>1. f[Len(drawn) + (n + 1)] = values[n + 1]
      BY <2>0, <2>3
    <3>2. Len(drawn) + (n + 1) = Len(d) + 1
      BY <2>0, <2>3, <1>2
    <3>. QED BY <3>1, <3>2, <2>3 DEF v
  <2>a. f \in Seq(Value) /\ v \in Value /\ v <= MaxValue
    BY <2>2, <2>3
  <2>8. OneMore(f, d, v)
    BY <2>a, <2>6, <2>7 DEF OneMore
  <2>. DEFINE len == Len(out) + n
  <2>b. Emitted(g[n], d, len)
    BY <2>5
  <2>. HIDE DEF len
  <2>c. Emitted(emit(g[n], v), f, len + 1)
    BY <2>b, <2>8, EmitKeeps, Zenon
  <2>9. len + 1 = Len(out) + (n + 1)
    BY <2>0, <1>2 DEF len
  <2>. QED BY <2>4, <2>c, <2>9 DEF f, Good
<1>9. T \in SUBSET Nat
  OBVIOUS
<1>. HIDE DEF T
<1>10. T = Nat
  BY <1>7, <1>8, <1>9, NatInductionOfSet
<1>11. Good(N)
  <2>1. N \in T /\ N <= N
    BY <1>2, <1>10
  <2>. QED BY <2>1 DEF T
<1>12. PICK p \in Seq(Value), m \in Value, b \in BOOLEAN :
          /\ g[N] = [out |-> p, last |-> m, emitted |-> b]
          /\ Emission(p, m, b, D(N))
          /\ Len(p) = Len(out) + N
  BY <1>11 DEF Good, Emitted
<1>13. out' = p /\ lastValue' = m /\ emitted' = b /\ drawn' = D(N)
  BY <1>1, <1>6, <1>12
<1>. QED BY <1>12, <1>13


-----------------------------------------------------------------------------
LEMMA SmallerOfTwo ==
  ASSUME NEW a \in Nat, NEW b \in Nat
  PROVE  Min({a, b}) \in {a, b} /\ Min({a, b}) \in Nat /\ Min({a, b}) <= a
<1>. DEFINE S == {a, b}
<1>1. \E m \in S : \A n \in S : m <= n
  <2>1. S \in SUBSET Nat /\ S # {}
    OBVIOUS
  <2>. HIDE DEF S
  <2>. QED BY <2>1, LeastElement
<1>2. Min(S) \in S /\ \A n \in S : Min(S) <= n
  BY <1>1, Zenon DEF Min
<1>3. Min(S) \in {a, b} /\ Min(S) <= a
  BY <1>2, Zenon
<1>. QED BY <1>3

(* A run has room behind what was written.                                 *)
LEMMA RunFits ==
  ASSUME GeneratorInv, Len(out) < countValues, Len(out) \in Nat,
         NEW values \in Runs(streams[nextStreamIdx + 1])
  PROVE  /\ values \in Seq(Value)
         /\ \A k \in 1 .. Len(values) : values[k] <= MaxValue
         /\ Len(values) \in Nat /\ Len(out) + Len(values) <= countValues
<1>. DEFINE stream == streams[nextStreamIdx + 1]
            left == countValues - Len(out)
            R == [values : SUBSET Value, maxValue : Value,
                  runlengths : SUBSET Value, oneValue : BOOLEAN]
<1>1. /\ streams \in Streams /\ nextStreamIdx \in 0 .. Len(streams) - 1
      /\ countValues \in Nat
  BY DEF GeneratorInv, TypeOK
<1>2. streams \in Seq(R)
  BY <1>1, GeneratorParameters
<1>3. nextStreamIdx + 1 \in DOMAIN streams
  <2>. HIDE DEF R
  <2>. QED BY <1>1, <1>2
<1>4. stream \in R
  <2>. HIDE DEF R
  <2>. QED BY <1>2, <1>3
<1>5. /\ stream.values \subseteq Value /\ stream.runlengths \subseteq Value
      /\ \A v \in stream.values : v <= MaxValue
  BY <1>1, <1>3, <1>4, MaxValueBounds
<1>6. left \in Nat \ {0}
  BY <1>1
<1>7. valuesLeft \in Nat /\ valuesLeft <= left
  <2>1. valuesLeft = left % Word
    BY DEF valuesLeft
  <2>. HIDE DEF left
  <2>. QED BY <1>6, <2>1, GeneratorParameters, ModAtMost
<1>8. \A n \in RunLengths(stream) : n \in Nat /\ n <= left
  <2>. SUFFICES ASSUME NEW n \in RunLengths(stream) PROVE n \in Nat /\ n <= left
    OBVIOUS
  <2>. HIDE DEF stream, left
  <2>1. CASE n = 1
    BY <2>1, <1>6
  <2>2. CASE n # 1
    <3>1. PICK m \in stream.runlengths : n = Min({valuesLeft, m})
      BY <2>2 DEF RunLengths
    <3>2. m \in Nat
      BY <1>5, ValueType
    <3>3. n \in Nat /\ n <= valuesLeft
      BY <3>1, <3>2, <1>7, SmallerOfTwo
    <3>. QED BY <3>3, <1>6, <1>7
  <2>. QED BY <2>1, <2>2
<1>9. PICK n \in RunLengths(stream) : values \in [1 .. n -> stream.values]
  <2>. HIDE DEF stream
  <2>1. values \in Runs(stream)
    BY DEF stream
  <2>2. PICK n \in RunLengths(stream) :
          values \in IF stream.oneValue THEN {[k \in 1 .. n |-> v] : v \in stream.values}
                     ELSE [1 .. n -> stream.values]
    BY <2>1 DEF Runs
  <2>. QED BY <2>2
<1>10. n \in Nat /\ n <= left
  BY <1>8
<1>. HIDE DEF stream
<1>11. values \in Seq(Value) /\ Len(values) = n
  <2>1. values \in [1 .. n -> Value]
    BY <1>5, <1>9
  <2>. QED BY <2>1, <1>10
<1>12. \A k \in 1 .. Len(values) : values[k] <= MaxValue
  BY <1>5, <1>9, <1>11
<1>. QED BY <1>1, <1>10, <1>11, <1>12

-----------------------------------------------------------------------------
LEMMA NextStreamInRange ==
  ASSUME GeneratorInv
  PROVE  NextStream \in 0 .. Len(streams) - 1
<1>1. streams \in Streams /\ nextStreamIdx \in 0 .. Len(streams) - 1
  BY DEF GeneratorInv, TypeOK
<1>. DEFINE R == [values : SUBSET Value, maxValue : Value,
                  runlengths : SUBSET Value, oneValue : BOOLEAN]
<1>2. streams \in Seq(R) /\ streams # <<>>
  BY <1>1, GeneratorParameters
<1>. HIDE DEF R
<1>3. Len(streams) \in Nat \ {0}
  BY <1>2
<1>4. nextStreamIdx + 1 \in Int
  BY <1>1, <1>3
<1>5. ASSUME NEW a \in Int, NEW c \in Nat \ {0} PROVE a % c \in 0 .. c - 1
  BY DivMod
<1>. QED BY <1>3, <1>4, <1>5 DEF NextStream

LEMMA GeneratorInit == Init => GeneratorInv
<1>. SUFFICES ASSUME Init PROVE GeneratorInv
  OBVIOUS
<1>1. /\ streams \in Streams /\ countValues \in Lengths
      /\ applyPrefixSum = FALSE /\ prefixSumFirstValue = 0 /\ nextStreamIdx = 0
      /\ pc = "idle" /\ out = <<>> /\ drawn = <<>> /\ lastValue = 0 /\ emitted = FALSE
  BY DEF Init
<1>. DEFINE R == [values : SUBSET Value, maxValue : Value,
                  runlengths : SUBSET Value, oneValue : BOOLEAN]
<1>2. streams \in Seq(R) /\ streams # <<>>
  BY <1>1, GeneratorParameters
<1>. HIDE DEF R
<1>3. 0 \in 0 .. Len(streams) - 1
  BY <1>2
<1>4. 0 \in Value /\ <<>> \in Seq(Value) /\ countValues \in Nat
  BY <1>1, GeneratorParameters DEF Value
<1>. QED BY <1>1, <1>3, <1>4 DEF GeneratorInv, TypeOK

LEMMA SettersKeep ==
  ASSUME GeneratorInv,
         \/ \E n \in Lengths : setCountValues(n)
         \/ \E v \in FirstValues : setPrefixSumFirstValue(v)
  PROVE  GeneratorInv' /\ pc' = "idle" /\ out' = <<>>
<1>1. <<>> \in Seq(Value)
  OBVIOUS
<1>2. CASE \E n \in Lengths : setCountValues(n)
  BY <1>1, <1>2, GeneratorParameters DEF setCountValues, GeneratorInv, TypeOK
<1>3. CASE \E v \in FirstValues : setPrefixSumFirstValue(v)
  BY <1>1, <1>3, GeneratorParameters DEF setPrefixSumFirstValue, GeneratorInv, TypeOK
<1>. QED BY <1>2, <1>3

LEMMA GenerateKeeps ==
  ASSUME GeneratorInv, Generate
  PROVE  GeneratorInv' /\ pc' = "streams" /\ out' = <<>>
<1>1. /\ pc' = "streams" /\ out' = <<>> /\ drawn' = <<>> /\ emitted' = FALSE
      /\ UNCHANGED <<streams, sortOrder, countValues, applyPrefixSum,
                     prefixSumFirstValue, nextStreamIdx, lastValue>>
  BY DEF Generate, parameters
<1>2. <<>> \in Seq(Value) /\ Len(<<>>) = 0
  OBVIOUS
<1>3. TypeOK'
  BY <1>1, <1>2 DEF GeneratorInv, TypeOK
<1>4. Emission(out, lastValue, emitted, drawn)'
  BY <1>1, <1>2, <1>3 DEF Emission, TypeOK
<1>. QED BY <1>1, <1>2, <1>3, <1>4 DEF GeneratorInv, TypeOK

LEMMA EmitRunKeeps ==
  ASSUME GeneratorInv, EmitRun
  PROVE  GeneratorInv' /\ pc' = "streams"
<1>1. /\ pc = "streams" /\ pc' = "streams" /\ Len(out) < countValues
      /\ nextStreamIdx' = NextStream
      /\ UNCHANGED <<streams, sortOrder, countValues, applyPrefixSum,
                     prefixSumFirstValue>>
  BY DEF EmitRun, parameters
<1>2. PICK values \in Runs(streams[nextStreamIdx + 1]) : EmitAll(values)
  BY DEF EmitRun
<1>3. Emission(out, lastValue, emitted, drawn) /\ Len(out) \in Nat
  BY <1>1 DEF GeneratorInv, TypeOK
<1>4. /\ values \in Seq(Value)
      /\ \A k \in 1 .. Len(values) : values[k] <= MaxValue
      /\ Len(values) \in Nat /\ Len(out) + Len(values) <= countValues
  BY <1>1, <1>3, RunFits
<1>5. applyPrefixSum \in BOOLEAN /\ prefixSumFirstValue \in Value
  BY DEF GeneratorInv, TypeOK
<1>6. /\ Emission(out', lastValue', emitted', drawn')
      /\ Len(out') = Len(out) + Len(values)
  BY <1>2, <1>3, <1>4, <1>5, EmitAllKeeps
<1>7. Emission(out, lastValue, emitted, drawn)'
  BY <1>1, <1>6 DEF Emission, MaxValue
<1>8. NextStream \in 0 .. Len(streams) - 1
  BY NextStreamInRange
<1>9. TypeOK'
  BY <1>1, <1>6, <1>8 DEF GeneratorInv, TypeOK, Emission
<1>. QED BY <1>1, <1>4, <1>6, <1>7, <1>9 DEF GeneratorInv

LEMMA LeaveStreamsKeeps ==
  ASSUME GeneratorInv, LeaveStreams
  PROVE  GeneratorInv' /\ pc' = "finish"
<1>1. /\ pc = "streams" /\ pc' = "finish" /\ ~(Len(out) < countValues)
      /\ UNCHANGED <<streams, sortOrder, countValues, applyPrefixSum,
                     prefixSumFirstValue, nextStreamIdx, out, lastValue, emitted, drawn>>
  BY DEF LeaveStreams, parameters
<1>2. TypeOK'
  BY <1>1 DEF GeneratorInv, TypeOK
<1>3. Emission(out, lastValue, emitted, drawn)'
  BY <1>1 DEF GeneratorInv, Emission, MaxValue
<1>4. Len(out) \in Nat /\ countValues \in Nat /\ Len(out) <= countValues
  BY <1>1 DEF GeneratorInv, TypeOK
<1>5. Len(out') = countValues'
  BY <1>1, <1>4
<1>. QED BY <1>1, <1>2, <1>3, <1>4, <1>5 DEF GeneratorInv


-----------------------------------------------------------------------------
Ascending(s) == \A i, j \in 1 .. Len(s) : i < j => s[i] <= s[j]
Descending(s) == \A i, j \in 1 .. Len(s) : i < j => s[i] >= s[j]

LEMMA Rearranged ==
  ASSUME NEW values \in Seq(Value), NEW s \in [DOMAIN values -> Range(values)]
  PROVE  s \in Seq(Value) /\ Len(s) = Len(values)
<1>1. Range(values) \subseteq Value /\ DOMAIN values = 1 .. Len(values)
      /\ Len(values) \in Nat
  BY DEF Range
<1>2. s \in [1 .. Len(values) -> Value]
  BY <1>1
<1>. QED BY <1>1, <1>2

LEMMA ArrangementsUp ==
  ASSUME NEW values \in Seq(Value), NEW s \in Arrangements(values),
         IsSorted(s, <=)
  PROVE  s \in Seq(Value) /\ Len(s) = Len(values) /\ ToBag(s) = ToBag(values)
         /\ Ascending(s)
<1>1. /\ s \in [DOMAIN values -> Range(values)] /\ ToBag(s) = ToBag(values)
      /\ \A i, j \in 1 .. Len(s) : i < j => s[i] <= s[j]
  BY DEF Arrangements, IsSorted
<1>2. s \in Seq(Value) /\ Len(s) = Len(values)
  BY <1>1, Rearranged, Zenon
<1>. QED BY <1>1, <1>2, Zenon DEF Ascending

LEMMA ArrangementsDown ==
  ASSUME NEW values \in Seq(Value), NEW s \in Arrangements(values),
         IsSorted(s, >=)
  PROVE  s \in Seq(Value) /\ Len(s) = Len(values) /\ ToBag(s) = ToBag(values)
         /\ Descending(s)
<1>1. /\ s \in [DOMAIN values -> Range(values)] /\ ToBag(s) = ToBag(values)
      /\ \A i, j \in 1 .. Len(s) : i < j => s[i] >= s[j]
  BY DEF Arrangements, IsSorted
<1>2. s \in Seq(Value) /\ Len(s) = Len(values)
  BY <1>1, Rearranged, Zenon
<1>. QED BY <1>1, <1>2, Zenon DEF Descending

LEMMA Reversed ==
  ASSUME NEW S, NEW values \in Seq(S)
  PROVE  /\ Reverse(values) \in Seq(S) /\ Len(Reverse(values)) = Len(values)
         /\ \A k \in 1 .. Len(values) :
              Reverse(values)[k] = values[Len(values) - k + 1]
         /\ Reverse(Reverse(values)) = values
<1>. DEFINE n == Len(values)
            r == [i \in 1 .. n |-> values[(n - i) + 1]]
<1>1. n \in Nat /\ Reverse(values) = r /\ values = [i \in 1 .. n |-> values[i]]
  BY DEF Reverse
<1>2. r \in Seq(S) /\ Len(r) = n
  BY <1>1
<1>3. Reverse(r) = [i \in 1 .. n |-> r[(n - i) + 1]]
  BY <1>2 DEF Reverse
<1>4. \A i \in 1 .. n : r[(n - i) + 1] = values[i]
  BY <1>1
<1>. HIDE DEF r
<1>5. [i \in 1 .. n |-> r[(n - i) + 1]] = [i \in 1 .. n |-> values[i]]
  BY <1>4
<1>6. Reverse(r) = values
  BY <1>1, <1>3, <1>5
<1>. QED BY <1>1, <1>2, <1>6 DEF r

(* What Finish may leave: its values, and of what order.                   *)
Ordered(values, s) ==
  \/ ~applyPrefixSum /\ ToBag(s) = ToBag(values)
     /\ (sortOrder = "asc" => Ascending(s))
     /\ (sortOrder = "desc" => Descending(s))
  \/ applyPrefixSum /\ s = IF sortOrder = "desc" THEN Reverse(values) ELSE values

LEMMA SortedIsOrdered ==
  ASSUME applyPrefixSum \in BOOLEAN, NEW values \in Seq(Value), NEW s \in Sorted(values)
  PROVE  s \in Seq(Value) /\ Len(s) = Len(values) /\ Ordered(values, s)
<1>1. CASE sortOrder = "asc" /\ ~applyPrefixSum
  <2>1. s \in Arrangements(values) /\ IsSorted(s, <=)
    BY <1>1 DEF Sorted
  <2>2. s \in Seq(Value) /\ Len(s) = Len(values) /\ ToBag(s) = ToBag(values) /\ Ascending(s)
    BY <2>1, ArrangementsUp
  <2>. QED BY <2>2, <1>1 DEF Ordered
<1>2. CASE sortOrder = "desc" /\ ~applyPrefixSum
  <2>1. s \in Arrangements(values) /\ IsSorted(s, >=)
    BY <1>2 DEF Sorted
  <2>2. s \in Seq(Value) /\ Len(s) = Len(values) /\ ToBag(s) = ToBag(values) /\ Descending(s)
    BY <2>1, ArrangementsDown
  <2>. QED BY <2>2, <1>2 DEF Ordered
<1>3. CASE sortOrder = "desc" /\ applyPrefixSum
  <2>1. s = Reverse(values)
    BY <1>3 DEF Sorted
  <2>. QED BY <2>1, <1>3, Reversed DEF Ordered
<1>4. CASE ~(sortOrder = "asc" /\ ~applyPrefixSum) /\ sortOrder # "desc"
  <2>1. s = values
    BY <1>4 DEF Sorted
  <2>. QED BY <2>1, <1>4 DEF Ordered
<1>. QED BY <1>1, <1>2, <1>3, <1>4

LEMMA PrefixSummedIs ==
  ASSUME GeneratorInv, pc = "finish"
  PROVE  /\ PrefixSummed \in Seq(Value)
         /\ Len(out) # 0 => PrefixSummed = out
<1>1. /\ Emission(out, lastValue, emitted, drawn) /\ prefixSumFirstValue \in Value
      /\ applyPrefixSum \in BOOLEAN
  BY DEF GeneratorInv, TypeOK
<1>2. out \in Seq(Value) /\ Len(out) \in Nat
  BY <1>1 DEF Emission
<1>. DEFINE n == Max({1, Len(out)})
            p == [k \in 1 .. n |-> IF k = 1 THEN prefixSumFirstValue ELSE out[k]]
<1>3. n \in Nat /\ (Len(out) = 0 => n = 1) /\ (Len(out) # 0 => n = Len(out))
  <2>1. \E m \in {1, Len(out)} : \A k \in {1, Len(out)} : m >= k
    BY <1>2
  <2>2. n \in {1, Len(out)} /\ \A k \in {1, Len(out)} : n >= k
    BY <2>1, Zenon DEF Max
  <2>3. n \in {1, Len(out)} /\ n >= 1 /\ n >= Len(out)
    BY <2>2
  <2>. HIDE DEF n
  <2>. QED BY <2>3, <1>2
<1>4. PrefixSummed = IF ~applyPrefixSum THEN out ELSE p
  BY DEF PrefixSummed
<1>. HIDE DEF n
<1>5. p \in Seq(Value)
  <2>1. \A k \in 1 .. n : (IF k = 1 THEN prefixSumFirstValue ELSE out[k]) \in Value
    BY <1>1, <1>2, <1>3
  <2>2. p \in [1 .. n -> Value]
    BY <2>1
  <2>. QED BY <2>2, <1>3
<1>6. ASSUME Len(out) # 0, applyPrefixSum PROVE p = out
  <2>1. out[1] = prefixSumFirstValue
    BY <1>1, <1>6 DEF Emission
  <2>2. \A k \in 1 .. n : (IF k = 1 THEN prefixSumFirstValue ELSE out[k]) = out[k]
    BY <2>1
  <2>3. out = [k \in 1 .. n |-> out[k]]
    BY <1>2, <1>3, <1>6
  <2>. QED BY <2>2, <2>3
<1>. HIDE DEF p
<1>. QED BY <1>1, <1>2, <1>4, <1>5, <1>6

LEMMA FinishKeeps ==
  ASSUME GeneratorInv, Finish
  PROVE  GeneratorInv' /\ pc' = "idle"
<1>1. /\ pc = "finish" /\ pc' = "idle" /\ out' \in Sorted(PrefixSummed)
      /\ UNCHANGED <<streams, sortOrder, countValues, applyPrefixSum,
                     prefixSumFirstValue, nextStreamIdx, lastValue, emitted, drawn>>
  BY DEF Finish, parameters
<1>2. PrefixSummed \in Seq(Value) /\ applyPrefixSum \in BOOLEAN
  BY <1>1, PrefixSummedIs DEF GeneratorInv, TypeOK
<1>3. out' \in Seq(Value)
  BY <1>1, <1>2, SortedIsOrdered
<1>. QED BY <1>1, <1>3 DEF GeneratorInv, TypeOK

LEMMA GeneratorStep == GeneratorInv /\ [Next]_vars => GeneratorInv'
<1>. SUFFICES ASSUME GeneratorInv, [Next]_vars PROVE GeneratorInv'
  OBVIOUS
<1>1. CASE UNCHANGED vars
  <2>1. UNCHANGED <<streams, sortOrder, countValues, applyPrefixSum,
                    prefixSumFirstValue, nextStreamIdx, pc, out, lastValue,
                    emitted, drawn>>
    BY <1>1 DEF vars, parameters
  <2>. QED BY <2>1 DEF GeneratorInv, TypeOK, Emission, MaxValue
<1>2. CASE \/ \E n \in Lengths : setCountValues(n)
           \/ \E v \in FirstValues : setPrefixSumFirstValue(v)
  BY <1>2, SettersKeep
<1>3. CASE Generate
  BY <1>3, GenerateKeeps
<1>4. CASE EmitRun
  BY <1>4, EmitRunKeeps
<1>5. CASE LeaveStreams
  BY <1>5, LeaveStreamsKeeps
<1>6. CASE Finish
  BY <1>6, FinishKeeps
<1>. QED BY <1>1, <1>2, <1>3, <1>4, <1>5, <1>6 DEF Next


-----------------------------------------------------------------------------
(* What generate() returns.                                                *)
Nothing == pc # "idle" \/ out = <<>>

LEMMA NothingGenerated ==
  GeneratorInv /\ Nothing => GeneratedExactly /\ SortedAsAsked
<1>. SUFFICES ASSUME GeneratorInv, Nothing PROVE GeneratedExactly /\ SortedAsAsked
  OBVIOUS
<1>1. ~Generated
  BY DEF Generated, Nothing
<1>2. Len(out) <= countValues
  BY DEF GeneratorInv, TypeOK, Nothing
<1>. QED BY <1>1, <1>2
     DEF GeneratedExactly, StoresInBuffer, PrefixSumsExact, ValuesKept, SortedAsAsked

LEMMA FinishedValues ==
  ASSUME GeneratorInv, Finish, 0 \notin Lengths
  PROVE  /\ Emission(out, lastValue, emitted, drawn)
         /\ Len(out) = countValues /\ Len(out) \in Nat \ {0}
         /\ out' \in Seq(Value) /\ Len(out') = Len(out) /\ Ordered(out, out')
<1>1. pc = "finish" /\ out' \in Sorted(PrefixSummed)
  BY DEF Finish
<1>2. /\ Emission(out, lastValue, emitted, drawn) /\ Len(out) = countValues
      /\ countValues \in Lengths /\ countValues \in Nat /\ applyPrefixSum \in BOOLEAN
  BY <1>1 DEF GeneratorInv, TypeOK
<1>3. Len(out) \in Nat \ {0}
  BY <1>2
<1>4. PrefixSummed = out /\ PrefixSummed \in Seq(Value)
  BY <1>1, <1>3, PrefixSummedIs
<1>5. out' \in Seq(Value) /\ Len(out') = Len(out) /\ Ordered(out, out')
  BY <1>1, <1>2, <1>4, SortedIsOrdered
<1>. QED BY <1>2, <1>3, <1>5

LEMMA FinishGenerates ==
  ASSUME GeneratorInv, Finish, 0 \notin Lengths
  PROVE  GeneratedExactly'
<1>1. /\ pc' = "idle"
      /\ UNCHANGED <<sortOrder, countValues, applyPrefixSum, prefixSumFirstValue, drawn>>
  BY DEF Finish, parameters
<1>2. /\ Emission(out, lastValue, emitted, drawn)
      /\ Len(out) = countValues /\ Len(out) \in Nat \ {0}
      /\ out' \in Seq(Value) /\ Len(out') = Len(out) /\ Ordered(out, out')
  BY FinishedValues
<1>3. out \in Seq(Value) /\ drawn \in Seq(Value) /\ Len(out) = Len(drawn)
  BY <1>2 DEF Emission
<1>4. StoresInBuffer'
  BY <1>1, <1>2 DEF StoresInBuffer
<1>5. ASSUME ~applyPrefixSum PROVE ToBag(out') = ToBag(drawn)
  <2>1. \A k \in 1 .. Len(drawn) : out[k] = drawn[k]
    BY <1>2, <1>5 DEF Emission
  <2>2. out = [k \in 1 .. Len(out) |-> out[k]] /\ drawn = [k \in 1 .. Len(out) |-> drawn[k]]
    BY <1>3
  <2>3. [k \in 1 .. Len(out) |-> out[k]] = [k \in 1 .. Len(out) |-> drawn[k]]
    BY <2>1, <1>3
  <2>4. out = drawn
    BY <2>2, <2>3
  <2>. QED BY <2>4, <1>2, <1>5 DEF Ordered
<1>6. ValuesKept'
  BY <1>1, <1>5 DEF ValuesKept
<1>7. ASSUME applyPrefixSum
      PROVE  out = IF sortOrder = "desc" THEN Reverse(out') ELSE out'
  <2>1. out' = IF sortOrder = "desc" THEN Reverse(out) ELSE out
    BY <1>2, <1>7 DEF Ordered
  <2>2. Reverse(Reverse(out)) = out
    BY <1>3, Reversed
  <2>. QED BY <2>1, <2>2
<1>8. ASSUME applyPrefixSum
      PROVE  /\ out[1] = prefixSumFirstValue
             /\ \A k \in 2 .. Len(out) : out[k] = (out[k - 1] + drawn[k]) % Word
  BY <1>2, <1>8 DEF Emission
<1>9. PrefixSumsExact'
  BY <1>1, <1>7, <1>8 DEF PrefixSumsExact
<1>. QED BY <1>4, <1>6, <1>9 DEF GeneratedExactly

(* Running sums that stay below the word's end go up.                      *)
LEMMA SumsAscend ==
  ASSUME NEW o \in Seq(Value), NEW d \in Seq(Value), NEW n \in Nat \ {0},
         Len(o) = n, Len(d) = n,
         NEW M \in Nat, NEW first \in Nat, first + (n - 1) * M < Word,
         \A k \in 1 .. n : d[k] <= M,
         o[1] = first,
         \A k \in 2 .. n : o[k] = (o[k - 1] + d[k]) % Word
  PROVE  Ascending(o)
<1>0. Word \in Nat \ {0}
  BY GeneratorParameters
<1>t. /\ \A k \in 1 .. n : o[k] \in Value /\ d[k] \in Value
      /\ \A k \in 1 .. n : o[k] \in Nat /\ d[k] \in Nat
  <2>1. \A k \in 1 .. n : o[k] \in Value /\ d[k] \in Value
    OBVIOUS
  <2>. QED BY <2>1, ValueType
<1>. DEFINE Below(k) == k < n => o[k + 1] <= first + k * M
            T == {k \in Nat : Below(k)}
<1>1. ASSUME NEW k \in Nat, k + 1 < n, o[k + 1] <= first + k * M
      PROVE  o[k + 2] <= first + (k + 1) * M /\ o[k + 1] <= o[k + 2]
  <2>. DEFINE x == o[k + 1]
              y == d[k + 2]
              a == k * M
              b == (k + 1) * M
              c == (n - 1) * M
  <2>1. x \in Nat /\ y \in Nat /\ y <= M
    BY <1>t, <1>1
  <2>2. o[k + 2] = (x + y) % Word
    <3>1. k + 2 \in 2 .. n /\ (k + 2) - 1 = k + 1
      BY <1>1
    <3>2. o[k + 2] = (o[(k + 2) - 1] + d[k + 2]) % Word
      BY <3>1
    <3>. QED BY <3>1, <3>2
  <2>3. b = a + M /\ a \in Nat
    <3>1. a \in Nat
      BY ProductMonotone
    <3>. QED BY <3>1, ProductSuccessor
  <2>4. b <= c /\ c \in Nat
    <3>1. k + 1 \in Nat /\ n - 1 \in Nat /\ k + 1 <= n - 1
      BY <1>1
    <3>2. ASSUME NEW p \in Nat, NEW q \in Nat, p <= q PROVE q * M \in Nat /\ p * M <= q * M
      BY <3>2, ProductMonotone
    <3>. QED BY <3>1, <3>2
  <2>5. x <= first + a /\ first + c < Word
    BY <1>1
  <2>. HIDE DEF a, b, c, x, y
  <2>6. x + y \in 0 .. Word - 1 /\ x + y <= first + b
    BY <2>1, <2>3, <2>4, <2>5, <1>0
  <2>7. (x + y) % Word = x + y
    BY <2>6, <1>0, ModOfSmall
  <2>8. o[k + 2] = x + y
    BY <2>2, <2>7
  <2>9. o[k + 2] <= first + b /\ x <= o[k + 2]
    BY <2>1, <2>6, <2>8
  <2>. QED BY <2>9 DEF b, x
<1>2. 0 \in T
  <2>1. 0 * M = 0
    BY SMT
  <2>2. o[0 + 1] <= first + 0 * M
    BY <2>1
  <2>. QED BY <2>2
<1>3. ASSUME NEW k \in T PROVE k + 1 \in T
  <2>1. k \in Nat /\ Below(k)
    BY <1>3
  <2>2. ASSUME k + 1 < n PROVE o[(k + 1) + 1] <= first + (k + 1) * M
    <3>1. k < n /\ (k + 1) + 1 = k + 2
      BY <2>1, <2>2
    <3>2. o[k + 1] <= first + k * M
      BY <2>1, <3>1
    <3>3. o[k + 2] <= first + (k + 1) * M
      BY <2>1, <2>2, <3>2, <1>1
    <3>. QED BY <3>1, <3>3
  <2>. QED BY <2>1, <2>2
<1>4. T \in SUBSET Nat
  OBVIOUS
<1>. HIDE DEF T
<1>5. T = Nat
  BY <1>2, <1>3, <1>4, NatInductionOfSet
<1>. USE DEF T
<1>6. \A k \in Nat : k + 1 < n => o[k + 1] <= o[k + 2]
  <2>. SUFFICES ASSUME NEW k \in Nat, k + 1 < n PROVE o[k + 1] <= o[k + 2]
    OBVIOUS
  <2>1. k < n
    OBVIOUS
  <2>2. Below(k)
    BY <1>5
  <2>3. o[k + 1] <= first + k * M
    BY <2>1, <2>2
  <2>. QED BY <2>3, <1>1
<1>. HIDE DEF T, Below
<1>. DEFINE U == {m \in Nat : \A i \in 1 .. n : i + m <= n => o[i] <= o[i + m]}
<1>7. 0 \in U
  <2>. SUFFICES ASSUME NEW i \in 1 .. n PROVE o[i] <= o[i + 0]
    OBVIOUS
  <2>1. i + 0 = i /\ o[i] \in Nat
    BY <1>t
  <2>. QED BY <2>1
<1>8. ASSUME NEW m \in U PROVE m + 1 \in U
  <2>0. m \in Nat
    OBVIOUS
  <2>. SUFFICES ASSUME NEW i \in 1 .. n, i + (m + 1) <= n PROVE o[i] <= o[i + (m + 1)]
    BY <2>0
  <2>1. o[i] <= o[i + m]
    BY <2>0, <1>8
  <2>. DEFINE k == i + m - 1
  <2>2. k \in Nat /\ k + 1 < n /\ k + 1 = i + m /\ k + 2 = i + (m + 1)
    BY <2>0
  <2>. HIDE DEF k
  <2>3. o[k + 1] <= o[k + 2]
    BY <2>2, <1>6
  <2>4. o[i] \in Nat /\ o[k + 1] \in Nat /\ o[k + 2] \in Nat
    BY <2>2, <1>t
  <2>a. o[i] <= o[k + 1]
    BY <2>1, <2>2
  <2>5. o[i] <= o[k + 2]
    <3>. DEFINE x == o[i]
                y == o[k + 1]
                z == o[k + 2]
    <3>1. x \in Nat /\ y \in Nat /\ z \in Nat /\ x <= y /\ y <= z
      BY <2>3, <2>4, <2>a
    <3>. HIDE DEF x, y, z
    <3>2. x <= z
      BY <3>1
    <3>. QED BY <3>2 DEF x, z
  <2>. QED BY <2>2, <2>5
<1>9. U \in SUBSET Nat
  OBVIOUS
<1>. HIDE DEF U
<1>10. U = Nat
  BY <1>7, <1>8, <1>9, NatInductionOfSet
<1>11. ASSUME NEW i \in 1 .. n, NEW j \in 1 .. n, i < j PROVE o[i] <= o[j]
  <2>. DEFINE m == j - i
  <2>1. m \in Nat /\ i + m = j
    BY <1>11
  <2>2. m \in U
    BY <2>1, <1>10
  <2>. HIDE DEF m
  <2>3. i + m <= n => o[i] <= o[i + m]
    BY <2>2 DEF U
  <2>. QED BY <2>1, <2>3
<1>. QED BY <1>11 DEF Ascending


(* checkIfPossible() computes the greatest sum there may be: nothing wraps  *)
(* around for a column of at most as many values as a word has.            *)
LEMMA BoundIsExact ==
  ASSUME GeneratorInv, Lengths \subseteq 1 .. Word
  PROVE  /\ MaxValue \in Nat /\ countValues \in Nat \ {0}
         /\ prefixSumUpperBound = prefixSumFirstValue + (countValues - 1) * MaxValue
<1>. DEFINE c == countValues - 1
            m == MaxValue
            p == c * m
            first == prefixSumFirstValue
            w == Word - 1
<1>1. /\ countValues \in 1 .. Word /\ streams \in Streams /\ first \in Value
  BY DEF GeneratorInv, TypeOK
<1>2. Word \in Nat \ {0} /\ Wide = Word * Word
  BY GeneratorParameters
<1>3. /\ c \in Nat /\ c <= w /\ first \in Nat /\ first <= w /\ w \in Nat
      /\ countValues \in Nat \ {0} /\ Word = w + 1
  BY <1>1, <1>2 DEF Value
<1>4. m \in Nat /\ m <= w
  <2>1. MaxValue \in Value
    BY <1>1, MaxValueBounds
  <2>. QED BY <2>1, <1>2 DEF Value
<1>5. prefixSumUpperBound = (first + ((c % Wide) * m)) % Wide
  BY DEF prefixSumUpperBound, MaxValue
<1>. HIDE DEF c, m, first, w
<1>6. p \in Nat /\ p <= w * w
  <2>1. \A x, y, z \in Nat : x <= y => x * z \in Nat /\ x * z <= y * z
    BY ProductMonotone
  <2>2. p \in Nat /\ p <= w * m
    BY <2>1, <1>3, <1>4
  <2>3. m * w \in Nat /\ m * w <= w * w
    BY <2>1, <1>3, <1>4
  <2>4. w * m = m * w
    BY <1>3, <1>4, SMT
  <2>5. w * w \in Nat
    BY <2>1, <1>3
  <2>. DEFINE a == w * m
              b == w * w
  <2>6. a \in Nat /\ b \in Nat /\ p <= a /\ a <= b
    BY <2>2, <2>3, <2>4, <2>5
  <2>. HIDE DEF a, b, p
  <2>7. p <= b
    BY <2>2, <2>6
  <2>. QED BY <2>2, <2>7 DEF b
<1>7. Wide = w * w + w + w + 1 /\ w * w \in Nat
  <2>1. Wide = (w + 1) * (w + 1)
    BY <1>2, <1>3
  <2>2. (w + 1) * (w + 1) = w * (w + 1) + (w + 1)
    BY <1>3, ProductSuccessor
  <2>3. w * (w + 1) = w * w + w
    BY <1>3, SMT
  <2>4. w * w \in Nat
    BY <1>3, SMT
  <2>. DEFINE b == w * w
  <2>5. Wide = (b + w) + (w + 1) /\ b \in Nat
    BY <2>1, <2>2, <2>3, <2>4
  <2>. HIDE DEF b
  <2>6. Wide = b + w + w + 1
    BY <2>5, <1>3
  <2>. QED BY <2>4, <2>6 DEF b
<1>. DEFINE b == w * w
<1>8. p \in Nat /\ b \in Nat /\ p <= b /\ Wide = b + w + w + 1
  BY <1>6, <1>7
<1>. HIDE DEF b, p
<1>9. Wide \in Nat \ {0} /\ c \in 0 .. Wide - 1 /\ first + p \in 0 .. Wide - 1
  BY <1>3, <1>8
<1>10. c % Wide = c /\ (first + p) % Wide = first + p
  BY <1>9, ModOfSmall
<1>11. prefixSumUpperBound = first + p
  BY <1>5, <1>10 DEF p
<1>. QED BY <1>3, <1>4, <1>11 DEF first, p, c, m

LEMMA FinishSorts ==
  ASSUME GeneratorInv, Finish, Lengths \subseteq 1 .. Word
  PROVE  SortedAsAsked'
<1>0. 0 \notin Lengths
  BY GeneratorParameters
<1>1. /\ pc' = "idle"
      /\ UNCHANGED <<streams, sortOrder, countValues, applyPrefixSum,
                     prefixSumFirstValue, drawn>>
  BY DEF Finish, parameters
<1>2. /\ Emission(out, lastValue, emitted, drawn)
      /\ Len(out) = countValues /\ Len(out) \in Nat \ {0}
      /\ out' \in Seq(Value) /\ Len(out') = Len(out) /\ Ordered(out, out')
  BY <1>0, FinishedValues
<1>3. /\ applyPrefixSum \in BOOLEAN /\ prefixSumFirstValue \in Value
      /\ out \in Seq(Value) /\ drawn \in Seq(Value) /\ Len(drawn) = Len(out)
  BY <1>2 DEF GeneratorInv, TypeOK, Emission
<1>4. checkIfPossible' <=> checkIfPossible
  BY <1>1 DEF checkIfPossible, prefixSumUpperBound
<1>5. ASSUME applyPrefixSum, checkIfPossible PROVE Ascending(out)
  <2>. DEFINE n == countValues
              p == (n - 1) * MaxValue
              first == prefixSumFirstValue
  <2>1. /\ MaxValue \in Nat /\ n \in Nat \ {0}
        /\ prefixSumUpperBound = first + p
    BY BoundIsExact
  <2>2. ~(prefixSumUpperBound >= Word - 1)
    BY <1>5 DEF checkIfPossible
  <2>3. first \in Nat /\ Word \in Nat
    BY <1>3, ValueType, GeneratorParameters
  <2>4. p \in Nat
    <3>1. \A x \in Nat, z \in Nat : x * z \in Nat
      BY ProductMonotone
    <3>2. n - 1 \in Nat
      BY <2>1
    <3>. QED BY <2>1, <3>1, <3>2
  <2>. HIDE DEF p
  <2>5. first + p < Word
    BY <2>1, <2>2, <2>3, <2>4
  <2>6. /\ \A k \in 1 .. n : drawn[k] <= MaxValue
        /\ out[1] = first
        /\ \A k \in 2 .. n : out[k] = (out[k - 1] + drawn[k]) % Word
    BY <1>2, <1>3, <1>5 DEF Emission
  <2>7. Len(out) = n /\ Len(drawn) = n
    BY <1>2, <1>3
  <2>8. first + (n - 1) * MaxValue < Word
    BY <2>5 DEF p
  <2>. HIDE DEF n, first
  <2>. QED BY <2>1, <2>3, <2>6, <2>7, <2>8, <1>3, SumsAscend
<1>6. ASSUME checkIfPossible, sortOrder = "asc" PROVE Ascending(out')
  <2>1. CASE applyPrefixSum
    <3>1. out' = out
      BY <2>1, <1>2, <1>6 DEF Ordered
    <3>. QED BY <3>1, <2>1, <1>5, <1>6
  <2>2. CASE ~applyPrefixSum
    BY <2>2, <1>2, <1>6 DEF Ordered
  <2>. QED BY <2>1, <2>2
<1>7. ASSUME checkIfPossible, sortOrder = "desc" PROVE Descending(out')
  <2>1. CASE applyPrefixSum
    <3>1. out' = Reverse(out)
      BY <2>1, <1>2, <1>7 DEF Ordered
    <3>2. Ascending(out)
      BY <2>1, <1>5, <1>7
    <3>. DEFINE n == Len(out)
    <3>3. n \in Nat /\ Len(out') = n
      BY <1>2
    <3>4. \A k \in 1 .. n : out'[k] = out[n - k + 1]
      BY <3>1, <1>3, Reversed
    <3>. SUFFICES ASSUME NEW i \in 1 .. n, NEW j \in 1 .. n, i < j
                  PROVE  out'[i] >= out'[j]
      BY <3>3 DEF Descending
    <3>5. /\ n - i + 1 \in 1 .. n /\ n - j + 1 \in 1 .. n
          /\ n - j + 1 < n - i + 1
      BY <3>3
    <3>6. out[n - j + 1] <= out[n - i + 1]
      BY <3>2, <3>5 DEF Ascending
    <3>. DEFINE x == out[n - i + 1]
                y == out[n - j + 1]
    <3>7. out'[i] = x /\ out'[j] = y /\ y <= x
      BY <3>4, <3>6
    <3>8. x \in Nat /\ y \in Nat
      <4>1. x \in Value /\ y \in Value
        BY <3>5, <1>3
      <4>. QED BY <4>1, ValueType
    <3>. HIDE DEF x, y
    <3>. QED BY <3>7, <3>8
  <2>2. CASE ~applyPrefixSum
    BY <2>2, <1>2, <1>7 DEF Ordered
  <2>. QED BY <2>1, <2>2
<1>8. checkIfPossible' =>
        /\ sortOrder' = "asc" => Ascending(out')
        /\ sortOrder' = "desc" => Descending(out')
  BY <1>1, <1>4, <1>6, <1>7
<1>. QED BY <1>8, Zenon DEF SortedAsAsked, IsSorted, Ascending, Descending


-----------------------------------------------------------------------------
(* Only Finish ends a call; every other step leaves nothing generated, or  *)
(* all that was.                                                           *)
LEMMA StepsGenerate ==
  ASSUME GeneratorInv, [Next]_vars
  PROVE  Finish \/ Nothing' \/ UNCHANGED vars
<1>1. CASE \/ \E n \in Lengths : setCountValues(n)
           \/ \E v \in FirstValues : setPrefixSumFirstValue(v)
  BY <1>1, SettersKeep DEF Nothing
<1>2. CASE Generate
  BY <1>2, GenerateKeeps DEF Nothing
<1>3. CASE EmitRun
  BY <1>3, EmitRunKeeps DEF Nothing
<1>4. CASE LeaveStreams
  BY <1>4, LeaveStreamsKeeps DEF Nothing
<1>. QED BY <1>1, <1>2, <1>3, <1>4 DEF Next

LEMMA GeneratedStays ==
  ASSUME UNCHANGED vars
  PROVE  /\ GeneratedExactly => GeneratedExactly'
         /\ SortedAsAsked => SortedAsAsked'
<1>1. UNCHANGED <<streams, sortOrder, countValues, applyPrefixSum,
                  prefixSumFirstValue, pc, out, drawn>>
  BY DEF vars, parameters
<1>2. checkIfPossible' <=> checkIfPossible
  BY <1>1 DEF checkIfPossible, prefixSumUpperBound
<1>3. Generated' <=> Generated
  BY <1>1 DEF Generated
<1>4. GeneratedExactly => GeneratedExactly'
  BY <1>1, <1>3 DEF GeneratedExactly, StoresInBuffer, PrefixSumsExact, ValuesKept
<1>5. SortedAsAsked => SortedAsAsked'
  BY <1>1, <1>2, <1>3, Zenon DEF SortedAsAsked, IsSorted
<1>. QED BY <1>4, <1>5

LEMMA NothingGeneratedNext ==
  GeneratorInv' /\ Nothing' => GeneratedExactly' /\ SortedAsAsked'
BY NothingGenerated, PTL

LEMMA GeneratedStep ==
  ASSUME 0 \notin Lengths, GeneratorInv, GeneratedExactly, [Next]_vars
  PROVE  GeneratedExactly'
<1>1. CASE Finish
  BY <1>1, FinishGenerates
<1>2. CASE Nothing'
  BY <1>2, GeneratorStep, NothingGeneratedNext
<1>3. CASE UNCHANGED vars
  BY <1>3, GeneratedStays
<1>. QED BY <1>1, <1>2, <1>3, StepsGenerate

LEMMA SortedStep ==
  ASSUME Lengths \subseteq 1 .. Word, GeneratorInv, SortedAsAsked, [Next]_vars
  PROVE  SortedAsAsked'
<1>1. CASE Finish
  BY <1>1, FinishSorts
<1>2. CASE Nothing'
  BY <1>2, GeneratorStep, NothingGeneratedNext
<1>3. CASE UNCHANGED vars
  BY <1>3, GeneratedStays
<1>. QED BY <1>1, <1>2, <1>3, StepsGenerate

(***************************************************************************)
(* The framework: a step of one part leaves the others alone.              *)
(***************************************************************************)

FrameworkInv == GeneratorInv /\ RandomInv /\ BufferInv

LEMMA FrameworkStarts == FrameworkInit => FrameworkInv
BY GeneratorInit, RandomInit, BufferInit DEF FrameworkInit, FrameworkInv

LEMMA StepsOfParts ==
  ASSUME [FrameworkNext]_frameworkVars
  PROVE  /\ [Next]_vars
         /\ [Random!Next]_randomVars
         /\ [Buffer!Next]_bufferVars
<1>1. CASE part = "generator" /\ Next /\ UNCHANGED <<part, randomVars, bufferVars>>
  BY <1>1
<1>2. CASE part = "distributions" /\ Random!Next /\ UNCHANGED <<part, vars, bufferVars>>
  BY <1>2
<1>3. CASE part = "buffers" /\ Buffer!Next /\ UNCHANGED <<part, vars, randomVars>>
  BY <1>3
<1>4. CASE UNCHANGED frameworkVars
  BY <1>4 DEF frameworkVars
<1>. QED BY <1>1, <1>2, <1>3, <1>4 DEF FrameworkNext

LEMMA FrameworkSteps ==
  FrameworkInv /\ [FrameworkNext]_frameworkVars => FrameworkInv'
<1>. SUFFICES ASSUME FrameworkInv, [FrameworkNext]_frameworkVars PROVE FrameworkInv'
  OBVIOUS
<1>1. GeneratorInv /\ RandomInv /\ BufferInv
  BY DEF FrameworkInv
<1>2. GeneratorInv'
  BY <1>1, StepsOfParts, GeneratorStep
<1>3. RandomInv'
  BY <1>1, StepsOfParts, RandomStep
<1>4. BufferInv'
  BY <1>1, StepsOfParts, BufferStep
<1>. QED BY <1>2, <1>3, <1>4 DEF FrameworkInv

(* What each part relies on holds in every state: FrameworkInv is          *)
(* inductive.                                                              *)
THEOREM Invariance == FrameworkSpec => []FrameworkInv
BY FrameworkStarts, FrameworkSteps, PTL DEF FrameworkSpec

(* The variables keep their types, whatever the setters are asked for.     *)
THEOREM TypeCorrect == FrameworkSpec => []FrameworkTypeOK
<1>1. FrameworkInv => FrameworkTypeOK
  BY RandomTypes, BufferTypes DEF FrameworkInv, FrameworkTypeOK, GeneratorInv
<1>. QED BY <1>1, Invariance, PTL

(* Aligned buffers, whatever the size of their elements: each lies in its  *)
(* block, blocks are disjoint, and the canary of every buffer written past *)
(* its end is damaged, as is no other while no element wider than a canary *)
(* was written past an end.                                                *)
THEOREM BuffersStaySound == FrameworkSpec => []BuffersSound
<1>1. FrameworkInv => BuffersSound
  BY BuffersAreSound DEF FrameworkInv, BuffersSound
<1>. QED BY <1>1, Invariance, PTL

(* A binomial distribution returns what its bounds promise after every     *)
(* setter that was accepted and whose sum did not wrap in 64 bits,         *)
(* whatever refused calls came before.                                     *)
THEOREM BinomialsKeepRange == FrameworkSpec => []BinomialRange
<1>1. FrameworkInv => BinomialRange
  BY BinomialsInRange DEF FrameworkInv, BinomialRange
<1>. QED BY <1>1, Invariance, PTL

(* A composite distribution does too while its distributions have the      *)
(* bounds it was built with, in whatever way they left those in between.   *)
THEOREM CompositesKeepRange == FrameworkSpec => []CompositeRange
<1>1. FrameworkInv => CompositeRange
  BY CompositesInRange DEF FrameworkInv, CompositeRange
<1>. QED BY <1>1, Invariance, PTL

(* generate() fills the buffer asked for with what was drawn, or with its  *)
(* running sums, when it is asked for a value at all: for none it writes   *)
(* the first prefix sum behind the buffer.                                 *)
THEOREM GenerationIsExact ==
  ASSUME 0 \notin Lengths
  PROVE  FrameworkSpec => []GeneratedExactly
<1>1. FrameworkInit => GeneratedExactly
  <2>1. FrameworkInit => GeneratorInv /\ Nothing
    BY GeneratorInit DEF FrameworkInit, Init, Nothing
  <2>. QED BY <2>1, NothingGenerated
<1>2. FrameworkInv /\ GeneratedExactly /\ [FrameworkNext]_frameworkVars
        => GeneratedExactly'
  BY StepsOfParts, GeneratedStep DEF FrameworkInv
<1>. QED BY <1>1, <1>2, Invariance, PTL DEF FrameworkSpec

(* Prefix sums need no sorting once checkIfPossible() has passed them, for *)
(* columns of at most as many values as a word has.                        *)
THEOREM SumsNeedNoSorting ==
  ASSUME Lengths \subseteq 1 .. Word
  PROVE  FrameworkSpec => []SortedAsAsked
<1>1. FrameworkInit => SortedAsAsked
  <2>1. FrameworkInit => GeneratorInv /\ Nothing
    BY GeneratorInit DEF FrameworkInit, Init, Nothing
  <2>. QED BY <2>1, NothingGenerated
<1>2. FrameworkInv /\ SortedAsAsked /\ [FrameworkNext]_frameworkVars
        => SortedAsAsked'
  BY StepsOfParts, SortedStep DEF FrameworkInv
<1>. QED BY <1>1, <1>2, Invariance, PTL DEF FrameworkSpec

(***************************************************************************)
(* The end of generate(), as far as it can be proved: if there is a stream *)
(* that draws no empty runs, every step leaves fewer to come, whatever the *)
(* others draw.                                                            *)
(***************************************************************************)

\* No run of stream s is empty: it has none, or none of length 0, and what is
\* left is not a multiple of 2^32 values.
Emits(s) ==
  /\ s \in 0 .. Len(streams) - 1
  /\ \/ streams[s + 1].runlengths = NoRunlengths
     \/ 0 \notin streams[s + 1].runlengths /\ countValues < Word

\* How many streams have their turn before stream s.
TurnsTo(s) ==
  IF nextStreamIdx <= s THEN s - nextStreamIdx ELSE Len(streams) + s - nextStreamIdx

\* If stream s emits, no call takes more steps than this from where it is.
GenerateLeft(s) ==
  IF pc = "streams" THEN Len(streams) * (countValues - Len(out)) + (TurnsTo(s) + 2)
  ELSE IF pc = "finish" THEN 1
  ELSE 0

LEMMA NextStreamIs ==
  ASSUME GeneratorInv
  PROVE  /\ Len(streams) \in Nat \ {0}
         /\ nextStreamIdx \in 0 .. Len(streams) - 1
         /\ NextStream = IF nextStreamIdx + 1 = Len(streams) THEN 0 ELSE nextStreamIdx + 1
<1>. DEFINE R == [values : SUBSET Value, maxValue : Value,
                  runlengths : SUBSET Value, oneValue : BOOLEAN]
            c == Len(streams)
            k == nextStreamIdx + 1
<1>1. streams \in Streams /\ nextStreamIdx \in 0 .. c - 1
  BY DEF GeneratorInv, TypeOK
<1>2. streams \in Seq(R) /\ streams # <<>>
  BY <1>1, GeneratorParameters
<1>. HIDE DEF R
<1>3. c \in Nat \ {0}
  BY <1>2
<1>. HIDE DEF c
<1>4. k \in 1 .. c
  BY <1>1, <1>3
<1>5. NextStream = k % c
  BY DEF NextStream, c
<1>. HIDE DEF k
<1>6. CASE k = c
  <2>1. (c * 1 + 0) % c = 0
    BY <1>3, ModOfSum
  <2>2. c * 1 + 0 = k
    BY <1>3, <1>6
  <2>3. NextStream = 0
    BY <1>5, <2>1, <2>2
  <2>. QED BY <1>1, <1>3, <1>6, <2>3 DEF c, k
<1>7. CASE k # c
  <2>1. k \in 0 .. c - 1
    BY <1>3, <1>4, <1>7
  <2>2. (c * 0 + k) % c = k
    BY <1>3, <2>1, ModOfSum
  <2>3. c * 0 + k = k
    BY <1>3, <2>1
  <2>4. NextStream = k
    BY <1>5, <2>2, <2>3
  <2>. QED BY <1>1, <1>3, <1>7, <2>4 DEF c, k
<1>. QED BY <1>6, <1>7

(* A run of such a stream is not empty.                                    *)
LEMMA RunNotEmpty ==
  ASSUME GeneratorInv, Len(out) < countValues, Len(out) \in Nat, Emits(nextStreamIdx),
         NEW values \in Runs(streams[nextStreamIdx + 1])
  PROVE  Len(values) > 0
<1>. DEFINE stream == streams[nextStreamIdx + 1]
            left == countValues - Len(out)
            R == [values : SUBSET Value, maxValue : Value,
                  runlengths : SUBSET Value, oneValue : BOOLEAN]
<1>1. /\ streams \in Streams /\ nextStreamIdx \in 0 .. Len(streams) - 1
      /\ countValues \in Nat
  BY DEF GeneratorInv, TypeOK
<1>2. stream.runlengths \subseteq Value
  <2>1. streams \in Seq(R)
    BY <1>1, GeneratorParameters
  <2>. HIDE DEF R
  <2>2. stream \in R
    BY <1>1, <2>1
  <2>. HIDE DEF stream
  <2>. QED BY <2>2 DEF R
<1>3. countValues < Word => valuesLeft = left
  <2>. SUFFICES ASSUME countValues < Word PROVE valuesLeft = left
    OBVIOUS
  <2>1. left \in 0 .. Word - 1 /\ Word \in Nat \ {0}
    BY <1>1, GeneratorParameters
  <2>2. valuesLeft = left % Word
    BY DEF valuesLeft
  <2>. HIDE DEF left
  <2>3. (Word * 0 + left) % Word = left
    BY <2>1, ModOfSum
  <2>4. Word * 0 + left = left
    BY <2>1
  <2>. QED BY <2>2, <2>3, <2>4
<1>4. \A n \in RunLengths(stream) : n \in Nat \ {0}
  <2>1. \/ stream.runlengths = NoRunlengths
        \/ 0 \notin stream.runlengths /\ countValues < Word
    BY DEF Emits
  <2>2. left \in Nat \ {0}
    BY <1>1
  <2>. HIDE DEF stream, left
  <2>3. CASE stream.runlengths = NoRunlengths
    BY <2>3 DEF RunLengths
  <2>4. CASE stream.runlengths # NoRunlengths
    <3>. SUFFICES ASSUME NEW m \in stream.runlengths
                  PROVE  Min({valuesLeft, m}) \in Nat \ {0}
      BY <2>4 DEF RunLengths
    <3>1. m \in Nat \ {0} /\ valuesLeft \in Nat \ {0}
      BY <1>2, <1>3, <2>1, <2>2, <2>4, ValueType
    <3>. QED BY <3>1, SmallerOfTwo
  <2>. QED BY <2>3, <2>4
<1>. HIDE DEF stream
<1>5. PICK n \in RunLengths(stream) :
        values \in IF stream.oneValue THEN {[k \in 1 .. n |-> v] : v \in stream.values}
                   ELSE [1 .. n -> stream.values]
  BY DEF Runs, stream
<1>6. n \in Nat \ {0} /\ \E S : values \in [1 .. n -> S]
  <2>1. values \in [1 .. n -> stream.values]
    BY <1>5
  <2>. QED BY <1>4, <2>1
<1>. QED BY <1>6

LEMMA GenerateStepAdvances ==
  ASSUME GeneratorInv, GeneratorInv', Next, pc # "idle", NEW s, Emits(s)
  PROVE  /\ GenerateLeft(s) \in Nat /\ GenerateLeft(s)' \in Nat
         /\ GenerateLeft(s)' < GenerateLeft(s)
<1>. DEFINE N == Len(streams)
            d == TurnsTo(s)
            m == countValues - Len(out)
<1>1. /\ N \in Nat \ {0} /\ nextStreamIdx \in 0 .. N - 1 /\ s \in 0 .. N - 1
      /\ NextStream = IF nextStreamIdx + 1 = N THEN 0 ELSE nextStreamIdx + 1
  BY NextStreamIs DEF Emits
<1>2. Len(out) \in Nat /\ countValues \in Nat /\ Len(out) <= countValues
  BY DEF GeneratorInv, TypeOK
<1>3. m \in Nat /\ d \in 0 .. N - 1
  BY <1>1, <1>2 DEF TurnsTo
<1>4. CASE EmitRun
  <2>1. /\ pc = "streams" /\ pc' = "streams" /\ Len(out) < countValues
        /\ nextStreamIdx' = NextStream /\ UNCHANGED <<streams, countValues>>
    BY <1>4 DEF EmitRun, parameters
  <2>2. PICK values \in Runs(streams[nextStreamIdx + 1]) : EmitAll(values)
    BY <1>4 DEF EmitRun
  <2>3. /\ Len(values) \in Nat
        /\ Len(out') = Len(out) + Len(values)
        /\ Len(out') <= countValues
    <3>1. Emission(out, lastValue, emitted, drawn)
      BY <2>1 DEF GeneratorInv
    <3>2. /\ values \in Seq(Value)
          /\ \A k \in 1 .. Len(values) : values[k] <= MaxValue
          /\ Len(values) \in Nat /\ Len(out) + Len(values) <= countValues
      BY <1>2, <2>1, RunFits
    <3>3. applyPrefixSum \in BOOLEAN /\ prefixSumFirstValue \in Value
      BY DEF GeneratorInv, TypeOK
    <3>4. Len(out') = Len(out) + Len(values)
      BY <2>2, <3>1, <3>2, <3>3, EmitAllKeeps
    <3>. QED BY <3>2, <3>4
  <2>. DEFINE n == countValues - Len(out')
              e == TurnsTo(s)'
  <2>4. n \in Nat /\ n <= m /\ (Len(values) > 0 => n < m)
    BY <1>2, <2>3
  <2>5. e = IF NextStream <= s THEN s - NextStream ELSE N + s - NextStream
    BY <2>1 DEF TurnsTo
  <2>6. e \in 0 .. N - 1 /\ (nextStreamIdx # s => e = d - 1)
    BY <1>1, <2>5 DEF TurnsTo
  <2>7. \/ n <= m /\ e + 2 < d + 2
        \/ n < m /\ e + 2 < N + (d + 2)
    <3>1. CASE nextStreamIdx = s
      <4>1. n < m
        BY <1>2, <2>1, <2>4, <3>1, RunNotEmpty
      <4>. QED BY <1>1, <1>3, <2>6, <4>1
    <3>2. CASE nextStreamIdx # s
      BY <1>3, <2>4, <2>6, <3>2
    <3>. QED BY <3>1, <3>2
  <2>8. GenerateLeft(s) = N * m + (d + 2) /\ GenerateLeft(s)' = N * n + (e + 2)
    BY <2>1 DEF GenerateLeft
  <2>9. d + 2 \in Nat /\ e + 2 \in Nat /\ N \in Nat
    BY <1>1, <1>3, <2>6
  <2>. HIDE DEF N, d, m, n, e
  <2>10. N * n + (e + 2) \in Nat /\ N * m + (d + 2) \in Nat
         /\ N * n + (e + 2) < N * m + (d + 2)
    BY <1>3, <2>4, <2>7, <2>9, FewerSteps
  <2>. QED BY <2>8, <2>10
<1>5. CASE LeaveStreams
  <2>1. pc = "streams" /\ pc' = "finish" /\ ~ (Len(out) < countValues)
    BY <1>5 DEF LeaveStreams
  <2>2. m = 0
    BY <1>2, <2>1
  <2>3. GenerateLeft(s) = N * m + (d + 2) /\ GenerateLeft(s)' = 1
    BY <2>1 DEF GenerateLeft
  <2>. HIDE DEF N, d, m
  <2>4. N * m + (d + 2) = d + 2
    BY <1>1, <1>3, <2>2
  <2>. QED BY <1>1, <1>3, <2>3, <2>4
<1>6. CASE Finish
  BY <1>6 DEF Finish, GenerateLeft
<1>7. ~ \/ \E n \in Lengths : setCountValues(n)
        \/ \E v \in FirstValues : setPrefixSumFirstValue(v)
        \/ Generate
  BY DEF setCountValues, setPrefixSumFirstValue, Generate
<1>. QED BY <1>4, <1>5, <1>6, <1>7 DEF Next

(* If one of the streams draws no empty runs, every step of a call brings  *)
(* it nearer to its end, whatever the other streams draw, and how long the *)
(* call before it left the index of the next stream.                       *)
GenerateAdvancing ==
  [][\A s : pc # "idle" /\ Emits(s) =>
       /\ GenerateLeft(s) \in Nat /\ GenerateLeft(s)' \in Nat
       /\ GenerateLeft(s)' < GenerateLeft(s)]_vars

THEOREM GenerateAdvances == FrameworkSpec => GenerateAdvancing
<1>1. FrameworkInv /\ FrameworkInv' /\ [FrameworkNext]_frameworkVars
        => [\A s : pc # "idle" /\ Emits(s) =>
              /\ GenerateLeft(s) \in Nat /\ GenerateLeft(s)' \in Nat
              /\ GenerateLeft(s)' < GenerateLeft(s)]_vars
  BY StepsOfParts, GenerateStepAdvances DEF FrameworkInv
<1>. QED BY <1>1, Invariance, PTL DEF FrameworkSpec, GenerateAdvancing
=============================================================================
