-------------------------- MODULE CompressionProofs --------------------------
(***************************************************************************)
(* What the compression algorithms promise, for all columns, all numbers   *)
(* of lanes and elements and all types: the packed chunks keep to the      *)
(* layout and hold exactly the bits of their values, if the packers store  *)
(* the words they should; and the encodings keep what their formats say.   *)
(***************************************************************************)
EXTENDS Compression, BasicFacts

-----------------------------------------------------------------------------
(* The inductive invariant of vertical bit packing.                        *)

\* The words of a lane in a chunk that is one bit wide.
Groups == Vectors \div WordBits

\* The words of a packed chunk.
Words(c) == (ChunkWidth(c) * Groups) * Lanes

\* Where the chunks start in the packed data, and where the last one ends.
Start ==
  CHOOSE P \in [0 .. chunk_count -> Nat] :
    P[0] = 0 /\ \A c \in Chunk : P[c + 1] = P[c] + Words(c)

PackType ==
  /\ WordBits \in WordSizes /\ data \in ColumnsOf(WordBits)
  /\ phase \in {"measure", "size", "place", "compress"}
  /\ chunk \in 0 .. chunk_count \/ (phase = "place" /\ chunk = 1)
  /\ chunk_max_bitwidth_array \in [Chunk -> Width]
  /\ chunk_result_sizes \in [Chunk -> Nat]
  /\ chunk_result_ptr \in [Chunk -> Nat]

\* What the loops of the constructor have computed so far.
LayoutInv ==
  /\ \A c \in Chunk : (phase = "measure" => c < chunk) =>
       chunk_max_bitwidth_array[c] = ChunkWidth(c)
  /\ \A c \in Chunk : (phase # "measure" /\ (phase = "size" => c < chunk)) =>
       chunk_result_sizes[c] = Words(c) * sizeof_T
  /\ phase = "measure" => compress_size_8 = 0
  /\ phase = "size" => compress_size_8 = Start[chunk] * sizeof_T
  /\ phase \in {"place", "compress"} => compress_size_8 = Start[chunk_count] * sizeof_T
  /\ phase = "place" => chunk >= 1
  /\ \A c \in Chunk : phase \in {"measure", "size"} => chunk_result_ptr[c] = 0
  /\ \A c \in Chunk : (phase = "compress" \/ (phase = "place" /\ c < chunk)) =>
       chunk_result_ptr[c] = Start[c]

\* Where pack is in the current chunk: the words stored so far end in the
\* last of the vectors taken so far.
PlaceInv ==
  /\ ~ Packing => vec = 0 /\ result = 0
  /\ Packing =>
       /\ result \in 0 .. bw * Groups /\ vec \in 0 .. Vectors
       /\ bw = 0 => vec = 0
       /\ bw > 0 => /\ vec * bw >= result * WordBits
                    /\ (vec - 1) * bw < result * WordBits

\* The vectors of words of chunk c that the current call has stored.
Stored(c) ==
  IF c < chunk THEN ChunkWidth(c) * Groups ELSE IF c = chunk THEN result ELSE 0

ContentInv ==
  /\ phase # "compress" => packed_data = <<>>
  /\ DOMAIN packed_data \subseteq 0 .. Start[chunk_count] - 1
  /\ phase = "compress" =>
       \A c \in Chunk : \A k \in 0 .. Stored(c) - 1 : \A l \in Lane :
         /\ Start[c] + k * Lanes + l \in DOMAIN packed_data
         /\ packed_data[Start[c] + k * Lanes + l] = Expected(c, k, l)

PackInv == PackType /\ LayoutInv /\ PlaceInv /\ ContentInv

-----------------------------------------------------------------------------
(* Sizes.                                                                  *)

LEMMA Numbers ==
  ASSUME WordBits \in WordSizes
  PROVE  /\ WordBits \in Nat \ {0} /\ Lanes \in Nat \ {0} /\ count \in Nat
         /\ sizeof_T \in Nat \ {0} /\ WordBits = 8 * sizeof_T
         /\ Groups \in Nat \ {0} /\ Vectors = WordBits * Groups
         /\ Vectors \in Nat \ {0}
         /\ chunk_size = Vectors * Lanes /\ chunk_size \in Nat \ {0}
<1>1. /\ WordBits \in Nat \ {0} /\ Lanes \in Nat \ {0} /\ count \in Nat
      /\ WordBits % 8 = 0 /\ Vectors % WordBits = 0 /\ Vectors \in Nat \ {0}
  BY SizeAssumption DEF Lanes, count
<1>2. sizeof_T \in Nat \ {0} /\ WordBits = 8 * sizeof_T
  BY <1>1 DEF sizeof_T
<1>3. Vectors = WordBits * Groups /\ Groups \in Int
  <2>1. /\ Vectors = WordBits * (Vectors \div WordBits) + (Vectors % WordBits)
        /\ Vectors \div WordBits \in Int
    BY <1>1, DivMod
  <2>. QED BY <1>1, <2>1 DEF Groups
<1>4. Groups >= 1
  <2>. SUFFICES ASSUME Groups <= 0 PROVE FALSE
    BY <1>3
  <2>1. WordBits * Groups <= 0
    BY <1>1, <1>3, SMT
  <2>. QED BY <2>1, <1>1, <1>3
<1>5. Vectors * Lanes >= 1 /\ Vectors * Lanes \in Int
  BY <1>1, SMT
<1>. QED BY <1>1, <1>2, <1>3, <1>4, <1>5 DEF chunk_size

LEMMA Counts ==
  ASSUME WordBits \in WordSizes
  PROVE  chunk_count \in Nat /\ chunk_count * chunk_size <= count
<1>. DEFINE q == count \div chunk_size
            z == chunk_size
<1>1. count \in Nat /\ z \in Nat \ {0}
  BY Numbers
<1>. HIDE DEF z
<1>2. /\ count = z * (count \div z) + (count % z) /\ count % z \in 0 .. z - 1
      /\ count \div z \in Int
  BY <1>1, DivMod
<1>3. q = count \div z
  BY DEF z
<1>. HIDE DEF q
<1>4. q \in Int /\ z * q <= count /\ count < z * q + z
  BY <1>1, <1>2, <1>3
<1>5. q >= 0
  <2>. SUFFICES ASSUME q <= -1 PROVE FALSE
    BY <1>4
  <2>1. z * q <= -z
    BY <1>1, <1>4, SMT
  <2>. QED BY <2>1, <1>1, <1>4
<1>6. q * z = z * q
  BY <1>1, <1>4, SMT
<1>. QED BY <1>4, <1>5, <1>6 DEF chunk_count, q, z

(* The elements of a chunk are in the column.                              *)
LEMMA ChunkInColumn ==
  ASSUME WordBits \in WordSizes, NEW c \in Chunk, NEW e \in ChunkElement(c)
  PROVE  e \in Element
<1>1. chunk_count \in Nat /\ chunk_count * chunk_size <= count /\ count \in Nat
      /\ chunk_size \in Nat
  BY Numbers, Counts
<1>2. c \in Nat /\ c + 1 \in Nat /\ c + 1 <= chunk_count
  BY <1>1 DEF Chunk
<1>3. /\ c * chunk_size \in Nat
      /\ (c + 1) * chunk_size \in Nat
      /\ (c + 1) * chunk_size <= chunk_count * chunk_size
  BY <1>1, <1>2, ProductMonotone
<1>4. chunk_count * chunk_size \in Nat
  BY <1>1, ProductMonotone
<1>. DEFINE first == c * chunk_size
            next == (c + 1) * chunk_size
            end == chunk_count * chunk_size
<1>5. first \in Nat /\ next \in Nat /\ end \in Nat /\ next <= end /\ end <= count
  BY <1>1, <1>3, <1>4
<1>6. e \in first .. next - 1
  BY DEF ChunkElement
<1>. HIDE DEF first, next, end
<1>. QED BY <1>1, <1>5, <1>6 DEF Element

LEMMA ElementInChunk ==
  ASSUME WordBits \in WordSizes, NEW c \in Chunk, NEW v \in 0 .. Vectors - 1, NEW l \in Lane
  PROVE  ElementAt(c, v, l) \in ChunkElement(c)
<1>1. /\ Lanes \in Nat \ {0} /\ Vectors \in Nat \ {0} /\ chunk_size = Vectors * Lanes
      /\ chunk_size \in Nat /\ chunk_count \in Nat
  BY Numbers, Counts
<1>2. c \in Nat /\ v \in Nat /\ v + 1 \in Nat /\ v + 1 <= Vectors /\ l \in 0 .. Lanes - 1
  BY <1>1 DEF Chunk, Lane
<1>3. (v + 1) * Lanes = v * Lanes + Lanes /\ (v + 1) * Lanes <= Vectors * Lanes
      /\ v * Lanes \in Nat
  BY <1>1, <1>2, ProductMonotone, ProductSuccessor
<1>4. (c + 1) * chunk_size = c * chunk_size + chunk_size /\ c * chunk_size \in Nat
  BY <1>1, <1>2, ProductMonotone, ProductSuccessor
<1>. DEFINE first == c * chunk_size
            next == (c + 1) * chunk_size
            at == v * Lanes
<1>5. /\ first \in Nat /\ at \in Nat /\ chunk_size \in Nat /\ next = first + chunk_size
      /\ at + Lanes <= chunk_size
  BY <1>1, <1>3, <1>4
<1>6. ElementAt(c, v, l) = first + at + l /\ ChunkElement(c) = first .. next - 1
  BY DEF ElementAt, ChunkElement
<1>. HIDE DEF first, next, at
<1>. QED BY <1>1, <1>2, <1>5, <1>6

(* The width of a chunk is one that all of its elements fit.               *)
LEMMA ChunkWidthHolds ==
  ASSUME WordBits \in WordSizes, data \in ColumnsOf(WordBits), NEW c \in Chunk
  PROVE  ChunkWidth(c) \in Width /\ Holds(ChunkWidth(c), c)
<1>. DEFINE S == {w \in Width : Holds(w, c)}
<1>1. WordBits \in Nat
  BY Numbers
<1>2. WordBits \in S
  <2>1. data \in [Element -> 0 .. WordBits]
    BY ColumnAssumption DEF Element, count
  <2>2. \A e \in ChunkElement(c) : data[e] <= WordBits
    BY <1>1, <2>1, ChunkInColumn
  <2>. QED BY <1>1, <2>2 DEF Holds, Width
<1>3. PICK m \in S : \A n \in S : m <= n
  <2>1. S \in SUBSET Nat /\ S # {}
    BY <1>1, <1>2 DEF Width
  <2>. HIDE DEF S
  <2>. QED BY <2>1, LeastElement
<1>4. m \in Width /\ Holds(m, c)
  OBVIOUS
<1>5. ASSUME NEW u \in 0 .. m - 1 PROVE ~ Holds(u, c)
  <2>1. u \in Width /\ u < m /\ u \in Int /\ m \in Int
    BY <1>1, <1>4 DEF Width
  <2>. QED BY <1>3, <2>1
<1>. HIDE DEF S
<1>6. \E w \in Width : Holds(w, c) /\ \A u \in 0 .. w - 1 : ~ Holds(u, c)
  BY <1>4, <1>5
<1>. QED BY <1>6, Zenon DEF ChunkWidth

LEMMA WordsType ==
  ASSUME WordBits \in WordSizes, data \in ColumnsOf(WordBits), NEW c \in Chunk
  PROVE  /\ Words(c) \in Nat /\ ChunkWidth(c) \in Nat
         /\ ChunkWidth(c) * Groups \in Nat
<1>1. ChunkWidth(c) \in Nat
  BY ChunkWidthHolds, Numbers DEF Width
<1>2. Groups \in Nat /\ Lanes \in Nat
  BY Numbers
<1>. DEFINE g == ChunkWidth(c) * Groups
<1>3. g \in Nat
  BY <1>1, <1>2, ProductMonotone
<1>. HIDE DEF g
<1>4. g * Lanes \in Nat
  BY <1>2, <1>3, ProductMonotone
<1>. QED BY <1>1, <1>3, <1>4 DEF Words, g

(* Running totals of naturals exist, and grow.                             *)
LEMMA RunningTotals ==
  ASSUME NEW n \in Nat, NEW f \in [0 .. n - 1 -> Nat]
  PROVE  \E P \in [0 .. n -> Nat] : P[0] = 0 /\ \A c \in 0 .. n - 1 : P[c + 1] = P[c] + f[c]
<1>. DEFINE Totals(m, P) ==
              P[0] = 0 /\ \A c \in 0 .. n - 1 : c < m => P[c + 1] = P[c] + f[c]
            T == {m \in Nat : m <= n => \E P \in [0 .. n -> Nat] : Totals(m, P)}
<1>1. 0 \in T
  <2>. DEFINE P == [c \in 0 .. n |-> 0]
  <2>1. P \in [0 .. n -> Nat] /\ Totals(0, P)
    OBVIOUS
  <2>. HIDE DEF P, Totals
  <2>2. \E Q \in [0 .. n -> Nat] : Totals(0, Q)
    BY <2>1
  <2>. QED BY <2>2
<1>2. ASSUME NEW m \in T PROVE m + 1 \in T
  <2>. SUFFICES ASSUME m + 1 <= n PROVE \E P \in [0 .. n -> Nat] : Totals(m + 1, P)
    OBVIOUS
  <2>1. PICK P \in [0 .. n -> Nat] : Totals(m, P)
    OBVIOUS
  <2>. DEFINE Q == [P EXCEPT ![m + 1] = P[m] + f[m]]
  <2>2. m \in 0 .. n - 1 /\ m + 1 \in 0 .. n /\ m \in 0 .. n
    OBVIOUS
  <2>3. Q \in [0 .. n -> Nat]
    BY <2>2
  <2>4. Totals(m + 1, Q)
    <3>1. Q[0] = 0
      BY <2>1, <2>2
    <3>2. ASSUME NEW c \in 0 .. n - 1, c < m + 1 PROVE Q[c + 1] = Q[c] + f[c]
      <4>1. CASE c = m
        BY <4>1, <2>2
      <4>2. CASE c # m
        <5>1. c < m /\ c + 1 \in 0 .. n /\ c + 1 # m + 1 /\ c # m + 1 /\ c \in 0 .. n
          BY <3>2, <4>2
        <5>2. Q[c + 1] = P[c + 1] /\ Q[c] = P[c]
          BY <5>1
        <5>. QED BY <5>1, <5>2, <2>1
      <4>. QED BY <4>1, <4>2
    <3>. QED BY <3>1, <3>2
  <2>. HIDE DEF Q, Totals
  <2>. QED BY <2>3, <2>4
<1>3. T = Nat
  <2>1. T \subseteq Nat
    OBVIOUS
  <2>. HIDE DEF T
  <2>. QED BY <1>1, <1>2, <2>1, NatInductionOfSet
<1>4. n \in T
  BY <1>3
<1>5. \E P \in [0 .. n -> Nat] : Totals(n, P)
  <2>. HIDE DEF Totals
  <2>1. n <= n
    OBVIOUS
  <2>. QED BY <1>4, <2>1
<1>6. PICK P \in [0 .. n -> Nat] : Totals(n, P)
  <2>. HIDE DEF Totals
  <2>. QED BY <1>5
<1>7. P[0] = 0 /\ \A c \in 0 .. n - 1 : P[c + 1] = P[c] + f[c]
  BY <1>6
<1>. HIDE DEF Totals, T
<1>. QED BY <1>7

LEMMA TotalsGrow ==
  ASSUME NEW n \in Nat, NEW P \in [0 .. n -> Nat],
         \A c \in 0 .. n - 1 : P[c] <= P[c + 1],
         NEW c \in 0 .. n, NEW d \in 0 .. n, c <= d
  PROVE  P[c] <= P[d]
<1>. DEFINE T == {m \in Nat : c + m <= n => P[c] <= P[c + m]}
<1>1. 0 \in T
  OBVIOUS
<1>2. ASSUME NEW m \in T PROVE m + 1 \in T
  <2>. SUFFICES ASSUME c + (m + 1) <= n PROVE P[c] <= P[c + (m + 1)]
    OBVIOUS
  <2>. DEFINE k == c + m
  <2>1. k \in 0 .. n - 1 /\ k \in 0 .. n /\ k + 1 \in 0 .. n /\ c + (m + 1) = k + 1
    OBVIOUS
  <2>2. P[c] <= P[k]
    BY <2>1
  <2>. HIDE DEF k
  <2>3. P[k] <= P[k + 1] /\ P[k] \in Nat /\ P[k + 1] \in Nat /\ P[c] \in Nat
    BY <2>1
  <2>. QED BY <2>1, <2>2, <2>3
<1>3. T = Nat
  <2>1. T \subseteq Nat
    OBVIOUS
  <2>. HIDE DEF T
  <2>. QED BY <1>1, <1>2, <2>1, NatInductionOfSet
<1>4. d - c \in T
  <2>1. d - c \in Nat
    OBVIOUS
  <2>. HIDE DEF T
  <2>. QED BY <1>3, <2>1
<1>. DEFINE m == d - c
<1>5. m \in T /\ m \in Nat /\ c + m = d
  BY <1>4
<1>. HIDE DEF m
<1>6. c + m <= n => P[c] <= P[c + m]
  BY <1>5
<1>7. c + m <= n
  BY <1>5
<1>. QED BY <1>5, <1>6, <1>7

(* The chunks lie one after the other.                                     *)
LEMMA StartOfChunks ==
  ASSUME WordBits \in WordSizes, data \in ColumnsOf(WordBits)
  PROVE  /\ Start \in [0 .. chunk_count -> Nat]
         /\ Start[0] = 0
         /\ \A c \in Chunk : Start[c + 1] = Start[c] + Words(c)
         /\ \A c \in Chunk, d \in 0 .. chunk_count :
              c < d => Start[c] + Words(c) <= Start[d]
<1>. DEFINE n == chunk_count
            f == [c \in 0 .. n - 1 |-> Words(c)]
<1>1. n \in Nat /\ Chunk = 0 .. n - 1
  BY Counts DEF Chunk
<1>2. \A c \in Chunk : Words(c) \in Nat
  BY WordsType
<1>. HIDE DEF n
<1>3. f \in [0 .. n - 1 -> Nat] /\ \A c \in 0 .. n - 1 : f[c] = Words(c)
  BY <1>1, <1>2
<1>. HIDE DEF f
<1>4. \E P \in [0 .. n -> Nat] : P[0] = 0 /\ \A c \in 0 .. n - 1 : P[c + 1] = P[c] + f[c]
  BY <1>1, <1>3, RunningTotals
<1>5. \E P \in [0 .. n -> Nat] : P[0] = 0 /\ \A c \in Chunk : P[c + 1] = P[c] + Words(c)
  BY <1>1, <1>3, <1>4
<1>6. /\ Start \in [0 .. n -> Nat]
      /\ Start[0] = 0 /\ \A c \in Chunk : Start[c + 1] = Start[c] + Words(c)
  BY <1>5, Zenon DEF Start, n
<1>7. \A c \in 0 .. n - 1 : Start[c] <= Start[c + 1]
  BY <1>1, <1>2, <1>6
<1>8. ASSUME NEW c \in Chunk, NEW d \in 0 .. n, c < d
      PROVE  Start[c] + Words(c) <= Start[d]
  <2>1. c + 1 \in 0 .. n /\ c + 1 <= d
    BY <1>1, <1>8
  <2>2. Start[c + 1] <= Start[d]
    BY <2>1, <1>1, <1>6, <1>7, TotalsGrow
  <2>. QED BY <2>2, <1>6
<1>. QED BY <1>6, <1>8 DEF n

(* The bytes of a chunk, and its words again.                              *)
LEMMA BytesOfWords ==
  ASSUME WordBits \in WordSizes, NEW w \in Nat
  PROVE  /\ (w * chunk_size) \div 8 = ((w * Groups) * Lanes) * sizeof_T
         /\ \A n \in Nat : (n * sizeof_T) \div sizeof_T = n
<1>. DEFINE z == sizeof_T
<1>1. /\ Lanes \in Nat /\ Groups \in Nat /\ z \in Nat \ {0}
      /\ chunk_size = ((8 * z) * Groups) * Lanes
  BY Numbers
<1>. HIDE DEF z
<1>2. ASSUME NEW a \in Nat, NEW d \in Nat \ {0} PROVE (a * d) \div d = a
  <2>. DEFINE p == a * d
  <2>0. p \in Int /\ p = d * a + 0 /\ 0 \in 0 .. d - 1 /\ a \in Int
    BY SMT
  <2>. HIDE DEF p
  <2>1. p = d * (p \div d) + (p % d) /\ p % d \in 0 .. d - 1 /\ p \div d \in Int
    BY <2>0, DivMod
  <2>2. d * a + 0 = d * (p \div d) + (p % d)
    BY <2>0, <2>1
  <2>3. p \div d = a
    BY <2>0, <2>1, <2>2, DivModUnique
  <2>. QED BY <2>3 DEF p
<1>3. w * chunk_size = (((w * Groups) * Lanes) * z) * 8
  BY <1>1, SMT
<1>4. ((w * Groups) * Lanes) * z \in Nat
  <2>1. w * Groups \in Nat
    BY <1>1, ProductMonotone
  <2>2. (w * Groups) * Lanes \in Nat
    BY <2>1, <1>1, ProductMonotone
  <2>. QED BY <2>2, <1>1, ProductMonotone
<1>. DEFINE u == ((w * Groups) * Lanes) * z
<1>5. u \in Nat /\ w * chunk_size = u * 8
  BY <1>3, <1>4
<1>. HIDE DEF u
<1>6. (w * chunk_size) \div 8 = u
  BY <1>2, <1>5
<1>. QED BY <1>1, <1>2, <1>6 DEF u, z


-----------------------------------------------------------------------------
(* Packing one word.                                                       *)

(* The first vector in the word that begins at bit at of a lane.           *)
LEMMA FirstOfWord ==
  ASSUME NEW b \in Nat \ {0}, NEW at \in Nat, NEW v \in Nat,
         v * b >= at, (v - 1) * b < at
  PROVE  (IF at % b = 0 THEN v ELSE v - 1) = at \div b
<1>. DEFINE q == at \div b
            r == at % b
<1>1. at = b * q + r /\ r \in 0 .. b - 1 /\ q \in Int
  BY DivMod
<1>. HIDE DEF q, r
<1>2. /\ v * b \in Int /\ q * b \in Int /\ b * q = q * b
      /\ (v - 1) * b = v * b - b /\ (q + 1) * b = q * b + b /\ (q + 2) * b = q * b + 2 * b
  BY <1>1, SMT
<1>. DEFINE vb == v * b
            qb == q * b
<1>3. vb \in Int /\ qb \in Int /\ vb >= qb + r /\ vb - b < qb + r /\ r \in 0 .. b - 1
  BY <1>1, <1>2
<1>4. /\ (q - 1) * b = qb - b /\ (q - 1) * b < vb => q - 1 < v
      /\ qb < vb => q < v
      /\ vb < (q + 2) * b => v < q + 2
      /\ vb < (q + 1) * b => v < q + 1
  BY <1>1, <1>2, ProductOrder, SMT
<1>. HIDE DEF vb, qb
<1>5. (q - 1) * b = qb - b
  BY <1>1, SMT DEF qb
<1>6. (q + 1) * b = qb + b /\ (q + 2) * b = qb + 2 * b
  BY <1>2 DEF qb
<1>7. CASE r = 0
  <2>1. q - 1 < v /\ v < q + 1
    BY <1>3, <1>4, <1>5, <1>6, <1>7
  <2>. QED BY <2>1, <1>1, <1>7 DEF q, r
<1>8. CASE r # 0
  <2>1. q < v /\ v < q + 2
    BY <1>3, <1>4, <1>5, <1>6, <1>8
  <2>. QED BY <2>1, <1>1, <1>8 DEF q, r
<1>. QED BY <1>7, <1>8

(* The vectors of width b that it takes to fill m bits.                    *)
LEMMA VectorsToFill ==
  ASSUME NEW b \in Nat \ {0}, NEW m \in Nat
  PROVE  LET n == (m + b - 1) \div b
         IN  n \in Int /\ n * b >= m /\ (n - 1) * b < m
<1>. DEFINE a == m + b - 1
            n == a \div b
<1>1. a \in Int
  OBVIOUS
<1>2. a = b * n + (a % b) /\ a % b \in 0 .. b - 1 /\ n \in Int
  <2>. HIDE DEF a
  <2>. QED BY <1>1, DivMod
<1>3. a = m + b - 1
  OBVIOUS
<1>. HIDE DEF a, n
<1>4. b * n = n * b /\ (n - 1) * b = n * b - b /\ n * b \in Int
  BY <1>2, SMT
<1>. DEFINE nb == n * b
<1>5. nb \in Int /\ a = nb + (a % b) /\ (n - 1) * b = nb - b
  BY <1>2, <1>4
<1>. HIDE DEF nb
<1>6. nb >= m /\ nb - b < m
  BY <1>2, <1>3, <1>5
<1>. QED BY <1>2, <1>5, <1>6 DEF nb, n, a


(* What the packer of a width takes from the word before.                  *)
LEMMA FittingPacker ==
  ASSUME PackersFit, PackType, Packing
  PROVE  /\ chunk \in Chunk /\ bw \in 0 .. WordBits
         /\ bw * Groups \in Nat
         /\ result \in 0 .. bw * Groups =>
              /\ StoresLeft <=> result < bw * Groups
              /\ StoresLeft => bw > 0 /\ Carry = (result * WordBits) % bw
<1>1. /\ WordBits \in Nat \ {0} /\ Groups \in Nat /\ Vectors = WordBits * Groups
      /\ WordBits \in WordSizes
  BY Numbers DEF PackType
<1>2. chunk \in Chunk
  <2>1. chunk_count \in Nat
    BY <1>1, Counts
  <2>. QED BY <2>1 DEF PackType, Packing, Chunk
<1>3. bw \in 0 .. WordBits
  BY <1>2 DEF PackType, bw, Width
<1>4. bw * Groups \in Nat
  BY <1>1, <1>3, ProductMonotone
<1>5. CASE bw = 0
  <2>1. bw * Groups = 0
    BY <1>1, <1>5, SMT
  <2>. QED BY <1>2, <1>3, <1>4, <1>5, <2>1 DEF StoresLeft
<1>6. CASE bw # 0
  <2>. DEFINE stores == packer.batches * Len(packer.carry)
  <2>1. bw \in 1 .. WordBits
    BY <1>1, <1>3, <1>6
  <2>2. packer.batches \in Nat /\ packer.carry \in Seq(Nat)
    BY <1>1, <2>1, PackAssumption DEF packer
  <2>3. stores \in Nat
    <3>1. Len(packer.carry) \in Nat
      BY <2>2
    <3>. QED BY <2>2, <3>1, ProductMonotone
  <2>4. /\ stores * WordBits = bw * Vectors
        /\ \A r \in 0 .. stores - 1 :
             packer.carry[(r % Len(packer.carry)) + 1] = (r * WordBits) % bw
    BY <1>1, <2>1 DEF PackersFit, packer
  <2>. HIDE DEF stores
  <2>5. stores = bw * Groups
    <3>1. bw * (WordBits * Groups) = (bw * Groups) * WordBits
      BY <1>1, <1>3, SMT
    <3>2. stores * WordBits = (bw * Groups) * WordBits
      BY <2>4, <3>1, <1>1
    <3>. QED BY <3>2, <1>1, <1>4, <2>3, ProductOrder
  <2>6. StoresLeft <=> result < stores
    BY <2>1 DEF StoresLeft, stores
  <2>7. ASSUME result \in 0 .. stores - 1 PROVE Carry = (result * WordBits) % bw
    BY <2>4, <2>7 DEF Carry
  <2>. HIDE DEF bw
  <2>. DEFINE n == bw * Groups
  <2>8. n \in Nat /\ stores = n
    BY <1>4, <2>5
  <2>. HIDE DEF n
  <2>9. result \in 0 .. n =>
          /\ StoresLeft <=> result < n
          /\ StoresLeft => bw > 0 /\ Carry = (result * WordBits) % bw
    BY <2>1, <2>6, <2>7, <2>8
  <2>. QED BY <1>2, <1>3, <1>4, <2>9 DEF n
<1>. QED BY <1>5, <1>6

(* The vectors in the next word: the first is the one the word begins in,  *)
(* and they end behind the word, but not behind the chunk.                 *)
LEMMA VectorsOfWord ==
  ASSUME PackersFit, PackType, PlaceInv, Packing, StoresLeft
  PROVE  LET at == result * WordBits
             next == (result + 1) * WordBits
         IN  /\ at \in Nat /\ next = at + WordBits /\ next \in Nat
             /\ bw \in Nat \ {0}
             /\ Carry = at % bw /\ FirstVector = at \div bw
             /\ EndVector \in 0 .. Vectors
             /\ EndVector * bw >= next /\ (EndVector - 1) * bw < next
<1>. DEFINE at == result * WordBits
            next == (result + 1) * WordBits
            F == at \div bw
            C == at % bw
            m == WordBits + C
            n == (m + bw - 1) \div bw
<1>1. /\ WordBits \in Nat \ {0} /\ Groups \in Nat \ {0} /\ Vectors = WordBits * Groups
      /\ Vectors \in Nat \ {0}
  BY Numbers DEF PackType
<1>2. /\ result \in 0 .. bw * Groups /\ vec \in 0 .. Vectors
      /\ bw > 0 => vec * bw >= at /\ (vec - 1) * bw < at
  BY DEF PlaceInv
<1>3. /\ bw \in Nat \ {0} /\ bw * Groups \in Nat
      /\ result < bw * Groups /\ Carry = C
  BY <1>1, <1>2, FittingPacker
<1>4. /\ at \in Nat /\ next = at + WordBits
  BY <1>1, <1>2, <1>3, ProductMonotone, ProductSuccessor
<1>5. FirstVector = F
  <2>1. vec \in Nat /\ at \in Nat /\ bw \in Nat \ {0}
    BY <1>1, <1>2, <1>3, <1>4
  <2>2. vec * bw >= at /\ (vec - 1) * bw < at
    BY <1>2, <2>1
  <2>3. FirstVector = IF at % bw = 0 THEN vec ELSE vec - 1
    BY <1>3 DEF FirstVector
  <2>. HIDE DEF at
  <2>. QED BY <2>1, <2>2, <2>3, FirstOfWord
<1>6. at = bw * F + C /\ C \in 0 .. bw - 1 /\ F \in Int
  <2>1. at \in Int /\ bw \in Nat \ {0}
    BY <1>3, <1>4
  <2>. HIDE DEF at
  <2>. QED BY <2>1, DivMod
<1>7. n \in Int /\ n * bw >= m /\ (n - 1) * bw < m
  <2>1. m \in Nat
    BY <1>1, <1>3, <1>6
  <2>. HIDE DEF m
  <2>. QED BY <2>1, <1>3, VectorsToFill
<1>8. EndVector = F + n
  BY <1>3, <1>5 DEF EndVector
<1>. HIDE DEF at, next, F, C, n
<1>9. /\ EndVector * bw = F * bw + n * bw /\ F * bw + n * bw \in Int
      /\ (EndVector - 1) * bw = F * bw + (n - 1) * bw
      /\ F * bw = bw * F /\ F * bw \in Int /\ n * bw \in Int /\ (n - 1) * bw \in Int
  <2>1. EndVector - 1 = F + (n - 1) /\ n - 1 \in Int
    BY <1>6, <1>7, <1>8
  <2>. QED BY <1>3, <1>6, <1>7, <1>8, <2>1, ProductSum, SMT
<1>. DEFINE Fb == F * bw
            nb == n * bw
            pb == (n - 1) * bw
<1>10. /\ Fb \in Int /\ nb \in Int /\ pb \in Int /\ at = Fb + C /\ nb >= m /\ pb < m
       /\ EndVector * bw = Fb + nb /\ (EndVector - 1) * bw = Fb + pb
  BY <1>6, <1>7, <1>9
<1>. HIDE DEF Fb, nb, pb
<1>11. EndVector * bw >= next /\ (EndVector - 1) * bw < next
  BY <1>1, <1>3, <1>4, <1>6, <1>10
<1>12. next <= Vectors * bw
  <2>1. (bw * Groups) * WordBits = Vectors * bw
    BY <1>1, <1>3, SMT
  <2>2. result + 1 \in Nat /\ result + 1 <= bw * Groups
    BY <1>2, <1>3
  <2>. QED BY <2>1, <2>2, <1>1, <1>3, ProductMonotone DEF next
<1>13. EndVector \in Int
  BY <1>6, <1>7, <1>8
<1>14. EndVector - 1 < Vectors
  <2>. DEFINE e == EndVector - 1
              eb == e * bw
              vb == Vectors * bw
  <2>1. eb < next /\ next <= vb /\ e \in Int
    BY <1>11, <1>12, <1>13
  <2>2. eb \in Int /\ vb \in Int /\ next \in Int
    BY <1>1, <1>3, <1>4, <2>1, SMT
  <2>. HIDE DEF eb, vb
  <2>3. eb < vb
    BY <2>1, <2>2
  <2>. HIDE DEF e
  <2>4. e < Vectors
    BY <2>1, <2>3, <1>1, <1>3, ProductOrder DEF eb, vb
  <2>. QED BY <2>4 DEF e
<1>15. EndVector >= 0
  <2>. SUFFICES ASSUME EndVector <= -1 PROVE FALSE
    BY <1>13
  <2>1. EndVector * bw <= 0
    BY <1>3, <1>13, SMT
  <2>. QED BY <2>1, <1>1, <1>4, <1>10, <1>11
<1>16. next \in Nat
  BY <1>1, <1>4
<1>. QED BY <1>1, <1>3, <1>4, <1>5, <1>11, <1>13, <1>14, <1>15, <1>16 DEF at, next, F, C


(* The values of the current chunk fit its width.                          *)
LEMMA ValuesFit ==
  ASSUME PackType, LayoutInv, Packing, chunk \in Chunk,
         NEW v \in 0 .. Vectors - 1, NEW l \in Lane
  PROVE  data[ElementAt(chunk, v, l)] \in 0 .. bw
<1>1. WordBits \in WordSizes /\ data \in ColumnsOf(WordBits)
  BY DEF PackType
<1>2. bw = ChunkWidth(chunk)
  BY DEF LayoutInv, Packing, bw
<1>3. ElementAt(chunk, v, l) \in ChunkElement(chunk)
  BY <1>1, ElementInChunk
<1>4. ElementAt(chunk, v, l) \in Element
  BY <1>1, <1>3, ChunkInColumn
<1>5. data \in [Element -> 0 .. WordBits]
  BY <1>1, ColumnAssumption DEF Element, count
<1>6. data[ElementAt(chunk, v, l)] <= bw
  BY <1>1, <1>2, <1>3, ChunkWidthHolds DEF Holds
<1>7. bw \in Nat /\ WordBits \in Nat
  BY <1>1, <1>2, ChunkWidthHolds, Numbers DEF Width
<1>8. data[ElementAt(chunk, v, l)] \in 0 .. WordBits
  BY <1>4, <1>5
<1>. QED BY <1>6, <1>7, <1>8

(* Bit j of the v-th value of a lane lies in bit v * b + j of the lane.    *)
LEMMA BitOfLane ==
  ASSUME NEW b \in Nat \ {0}, NEW v \in Int, NEW j \in 0 .. b - 1
  PROVE  (v * b + j) \div b = v /\ (v * b + j) % b = j
<1>. DEFINE a == v * b + j
<1>1. a \in Int /\ a = b * v + j
  BY SMT
<1>. HIDE DEF a
<1>2. a = b * (a \div b) + (a % b) /\ a % b \in 0 .. b - 1 /\ a \div b \in Int
  BY <1>1, DivMod
<1>3. b * v + j = b * (a \div b) + (a % b)
  BY <1>1, <1>2
<1>4. v = a \div b /\ j = a % b
  BY <1>2, <1>3, DivModUnique
<1>. QED BY <1>4 DEF a

(* The word that pack stores is the one its lane should have.              *)
LEMMA WordPacked ==
  ASSUME PackersFit, PackType, LayoutInv, PlaceInv, Packing, StoresLeft, NEW l \in Lane
  PROVE  PackedWord(l) = Expected(chunk, result, l)
<1>. DEFINE at == result * WordBits
            next == (result + 1) * WordBits
            b == bw
            At(v) == ElementAt(chunk, v, l)
<1>1. /\ at \in Nat /\ next = at + WordBits /\ b \in Nat \ {0}
      /\ Carry = at % b /\ FirstVector = at \div b
      /\ EndVector \in 0 .. Vectors
      /\ EndVector * b >= next /\ (EndVector - 1) * b < next
  BY VectorsOfWord
<1>2. /\ chunk \in Chunk /\ chunk_max_bitwidth_array[chunk] = b
      /\ WordBits \in Nat \ {0} /\ Vectors \in Nat
  BY FittingPacker, Numbers DEF bw, PackType
<1>3. ASSUME NEW v \in 0 .. Vectors - 1 PROVE data[At(v)] \in 0 .. b
  BY <1>2, ValuesFit
<1>. DEFINE F == FirstVector
            N == EndVector
            C == Carry
            Put(v) == Shifted(At(v), (v - F) * b - C)
            bit(p) == at + p
            Full == {q \in 0 .. WordBits - 1 : bit(q) % b < data[At(bit(q) \div b)]}
            Wanted == {<<p, At(bit(p) \div b), bit(p) % b>> : p \in Full}
<1>. HIDE DEF at, next, b
<1>4. at = b * F + C /\ C \in 0 .. b - 1 /\ F \in Int
  BY <1>1, DivMod
<1>5. F >= 0
  <2>. SUFFICES ASSUME F <= -1 PROVE FALSE
    BY <1>4
  <2>1. b * F <= -b
    BY <1>1, <1>4, SMT
  <2>. QED BY <2>1, <1>1, <1>4
<1>. HIDE DEF F, N, C
<1>6. ASSUME NEW v \in F .. N - 1, NEW j \in 0 .. data[At(v)] - 1
      PROVE  /\ bit(j + ((v - F) * b - C)) \div b = v
             /\ bit(j + ((v - F) * b - C)) % b = j
  <2>1. v \in 0 .. Vectors - 1 /\ v \in Int
    BY <1>1, <1>2, <1>4, <1>5 DEF N
  <2>2. data[At(v)] \in 0 .. b
    BY <2>1, <1>3
  <2>3. j \in 0 .. b - 1
    <3>. HIDE DEF At
    <3>. QED BY <1>1, <2>2
  <2>4. (v - F) * b = v * b - F * b /\ F * b = b * F /\ v * b \in Int /\ F * b \in Int
    BY <2>1, <1>1, <1>4, ProductSum, SMT
  <2>5. bit(j + ((v - F) * b - C)) = v * b + j
    BY <2>3, <2>4, <1>1, <1>4
  <2>6. (v * b + j) \div b = v /\ (v * b + j) % b = j
    BY <2>1, <2>3, <1>1, BitOfLane
  <2>. HIDE DEF bit
  <2>. QED BY <2>5, <2>6
<1>7. ASSUME NEW p \in Full
      PROVE  \E v \in F .. N - 1 : <<p, At(bit(p) \div b), bit(p) % b>> \in Put(v)
  <2>. DEFINE x == bit(p)
              v == x \div b
              j == x % b
              s == (v - F) * b - C
  <2>1. p \in 0 .. WordBits - 1 /\ x \in Nat /\ x = at + p /\ at <= x /\ x < next
    BY <1>1, <1>2
  <2>2. j < data[At(v)]
    OBVIOUS
  <2>. HIDE DEF x, bit, Full
  <2>3. x = b * v + j /\ j \in 0 .. b - 1 /\ v \in Int
    <3>1. x \in Int /\ b \in Nat \ {0}
      BY <2>1, <1>1
    <3>. QED BY <3>1, DivMod
  <2>. HIDE DEF v, j
  <2>4. /\ b * v = v * b /\ v * b \in Int /\ F * b = b * F /\ F * b \in Int
        /\ (v + 1) * b = v * b + b /\ (v - F) * b = v * b - F * b
        /\ N \in Int /\ N * b \in Int
    BY <2>3, <1>1, <1>4, ProductSum, SMT DEF N
  <2>5. v < N
    <3>1. v * b < N * b
      BY <2>1, <2>3, <2>4, <1>1 DEF N
    <3>. QED BY <3>1, <2>3, <2>4, <1>1, ProductOrder
  <2>6. F < v + 1
    <3>1. F * b < (v + 1) * b
      BY <2>1, <2>3, <2>4, <1>1, <1>4
    <3>. QED BY <3>1, <2>3, <1>4, <1>1, ProductOrder
  <2>7. v \in F .. N - 1
    BY <2>3, <2>4, <2>5, <2>6, <1>4
  <2>8. s \in Int /\ j + s = p
    BY <2>1, <2>3, <2>4, <1>1, <1>4
  <2>9. v \in 0 .. Vectors - 1
    BY <2>7, <1>1, <1>2, <1>4, <1>5 DEF N
  <2>10. data[At(v)] \in 0 .. b
    BY <2>9, <1>3
  <2>. HIDE DEF At, s
  <2>11. j \in 0 .. data[At(v)] - 1
    BY <2>2, <2>3, <2>10
  <2>12. j \in {i \in 0 .. data[At(v)] - 1 : i + s \in 0 .. WordBits - 1}
    BY <2>1, <2>8, <2>11
  <2>13. <<j + s, At(v), j>> \in Shifted(At(v), s)
    BY <2>12 DEF Shifted
  <2>14. <<p, At(v), j>> \in Put(v)
    BY <2>8, <2>13 DEF s
  <2>. HIDE DEF Put
  <2>. QED BY <2>7, <2>14 DEF v, j, x
<1>8. ASSUME NEW v \in F .. N - 1, NEW t \in Put(v) PROVE t \in Wanted
  <2>. DEFINE s == (v - F) * b - C
  <2>1. PICK j \in {i \in 0 .. data[At(v)] - 1 : i + s \in 0 .. WordBits - 1} :
               t = <<j + s, At(v), j>>
    BY DEF Shifted
  <2>2. j \in 0 .. data[At(v)] - 1 /\ j + s \in 0 .. WordBits - 1
    OBVIOUS
  <2>3. bit(j + s) \div b = v /\ bit(j + s) % b = j
    BY <2>2, <1>6
  <2>. HIDE DEF s, bit
  <2>4. j + s \in Full
    <3>1. v \in 0 .. Vectors - 1
      BY <1>1, <1>2, <1>4, <1>5 DEF N
    <3>2. data[At(v)] \in 0 .. b
      BY <3>1, <1>3
    <3>. HIDE DEF At
    <3>3. j < data[At(v)]
      BY <2>2, <3>2, <1>1
    <3>. QED BY <2>2, <2>3, <3>3
  <2>. HIDE DEF Full, At
  <2>. QED BY <2>1, <2>3, <2>4
<1>9. ASSUME NEW t \in Wanted PROVE \E v \in F .. N - 1 : t \in Put(v)
  <2>. HIDE DEF Put, Full, bit, At
  <2>1. PICK p \in Full : t = <<p, At(bit(p) \div b), bit(p) % b>>
    OBVIOUS
  <2>. QED BY <2>1, <1>7
<1>10. PackedWord(l) = UNION {Put(v) : v \in F .. N - 1}
  BY DEF PackedWord, F, N, C, b
<1>11. Expected(chunk, result, l) = Wanted
  BY <1>2 DEF Expected, at
<1>. HIDE DEF Put, Wanted
<1>. QED BY <1>8, <1>9, <1>10, <1>11


-----------------------------------------------------------------------------
(* The steps.                                                              *)

(* What depends on the column alone.                                       *)
LEMMA SameColumn ==
  ASSUME UNCHANGED column
  PROVE  /\ WordBits' = WordBits /\ data' = data
         /\ Chunk' = Chunk /\ chunk_count' = chunk_count
         /\ Lanes' = Lanes /\ Lane' = Lane /\ Width' = Width
         /\ Groups' = Groups /\ sizeof_T' = sizeof_T /\ Start' = Start
         /\ \A c : ChunkWidth(c)' = ChunkWidth(c) /\ Words(c)' = Words(c)
<1>1. WordBits' = WordBits /\ data' = data
  BY DEF column
<1>2. /\ Lanes' = Lanes /\ count' = count /\ Groups' = Groups
      /\ sizeof_T' = sizeof_T /\ Width' = Width
  BY <1>1 DEF Lanes, count, Groups, sizeof_T, Width
<1>3. chunk_size' = chunk_size /\ Lane' = Lane
  BY <1>2 DEF chunk_size, Lane
<1>4. chunk_count' = chunk_count
  BY <1>2, <1>3 DEF chunk_count
<1>5. Chunk' = Chunk
  BY <1>4 DEF Chunk
<1>6. ASSUME NEW c PROVE ChunkWidth(c)' = ChunkWidth(c)
  BY <1>1, <1>2, <1>3, Zenon DEF ChunkWidth, Holds, ChunkElement
<1>7. ASSUME NEW c PROVE Words(c)' = Words(c)
  BY <1>2, <1>6 DEF Words
<1>8. Start' = Start
  BY <1>4, <1>5, <1>7, Zenon DEF Start
<1>. QED BY <1>1, <1>2, <1>3, <1>4, <1>5, <1>6, <1>7, <1>8

(* The content a word should have depends on the column and the widths.    *)
LEMMA SameExpected ==
  ASSUME UNCHANGED <<column, chunk_max_bitwidth_array>>
  PROVE  \A c, k, l : Expected(c, k, l)' = Expected(c, k, l)
<1>1. WordBits' = WordBits /\ data' = data /\ Lanes' = Lanes
  BY SameColumn DEF column
<1>2. chunk_size' = chunk_size
  BY <1>1 DEF chunk_size
<1>3. \A c, v, l : ElementAt(c, v, l)' = ElementAt(c, v, l)
  BY <1>1, <1>2 DEF ElementAt
<1>. QED BY <1>1, <1>3 DEF Expected

LEMMA InitPack ==
  ASSUME Init
  PROVE  PackInv
<1>1. WordBits \in WordSizes /\ data \in ColumnsOf(WordBits)
  BY DEF Init
<1>2. chunk_count \in Nat /\ sizeof_T \in Nat /\ WordBits \in Nat
  BY <1>1, Counts, Numbers
<1>3. Start \in [0 .. chunk_count -> Nat]
  BY <1>1, StartOfChunks
<1>4. PackType
  BY <1>1, <1>2 DEF Init, PackType, Width
<1>5. LayoutInv
  BY <1>2 DEF Init, LayoutInv, Chunk
<1>6. PlaceInv
  BY DEF Init, PlaceInv, Packing
<1>7. ContentInv
  BY DEF Init, ContentInv
<1>. QED BY <1>4, <1>5, <1>6, <1>7 DEF PackInv

(* Before compress() runs, pack has no state.                              *)
LEMMA NothingPacked ==
  ASSUME PackInv, phase # "compress", phase' # "compress",
         UNCHANGED <<column, packed_data, vec, result>>
  PROVE  PlaceInv' /\ ContentInv'
<1>1. vec = 0 /\ result = 0 /\ packed_data = <<>>
  BY DEF PackInv, PlaceInv, ContentInv, Packing
<1>2. PlaceInv'
  BY <1>1 DEF PlaceInv, Packing
<1>3. ContentInv'
  BY <1>1 DEF ContentInv
<1>. QED BY <1>2, <1>3

LEMMA MeasurePack ==
  ASSUME PackInv, Measure
  PROVE  PackInv'
<1>1. /\ WordBits \in WordSizes /\ data \in ColumnsOf(WordBits)
      /\ phase = "measure" /\ phase' = "measure" /\ chunk < chunk_count
      /\ chunk' = chunk + 1 /\ chunk \in 0 .. chunk_count
      /\ UNCHANGED <<column, chunk_result_sizes, compress_size_8, chunk_result_ptr,
                     packed_data, vec, result>>
      /\ chunk_max_bitwidth_array' =
           [chunk_max_bitwidth_array EXCEPT ![chunk] = ChunkWidth(chunk)]
  BY DEF PackInv, PackType, Measure
<1>2. /\ WordBits' = WordBits /\ data' = data /\ Chunk' = Chunk /\ Width' = Width
      /\ chunk_count' = chunk_count
      /\ sizeof_T' = sizeof_T /\ Start' = Start
      /\ \A c : ChunkWidth(c)' = ChunkWidth(c)
  BY <1>1, SameColumn
<1>3. chunk_count \in Nat /\ chunk \in Chunk
  BY <1>1, Counts DEF Chunk
<1>4. ChunkWidth(chunk) \in Width
  BY <1>1, <1>3, ChunkWidthHolds
<1>5. PackType'
  BY <1>1, <1>2, <1>3, <1>4 DEF PackInv, PackType
<1>6. LayoutInv'
  BY <1>1, <1>2, <1>3 DEF PackInv, PackType, LayoutInv, Chunk
<1>7. PlaceInv' /\ ContentInv'
  BY <1>1, NothingPacked
<1>. QED BY <1>5, <1>6, <1>7 DEF PackInv

LEMMA SizePack ==
  ASSUME PackInv, Size
  PROVE  PackInv'
<1>1. /\ WordBits \in WordSizes /\ data \in ColumnsOf(WordBits)
      /\ phase = "size" /\ phase' = "size" /\ chunk < chunk_count
      /\ chunk' = chunk + 1 /\ chunk \in 0 .. chunk_count
      /\ UNCHANGED <<column, chunk_max_bitwidth_array, chunk_result_ptr,
                     packed_data, vec, result>>
      /\ chunk_result_sizes' = [chunk_result_sizes EXCEPT ![chunk] = SizeOf(chunk)]
      /\ compress_size_8' = compress_size_8 + SizeOf(chunk)
  BY DEF PackInv, PackType, Size
<1>2. /\ WordBits' = WordBits /\ data' = data /\ Chunk' = Chunk /\ Width' = Width
      /\ chunk_count' = chunk_count
      /\ sizeof_T' = sizeof_T /\ Start' = Start
      /\ \A c : ChunkWidth(c)' = ChunkWidth(c) /\ Words(c)' = Words(c)
  BY <1>1, SameColumn
<1>3. chunk_count \in Nat /\ chunk \in Chunk /\ sizeof_T \in Nat
  BY <1>1, Counts, Numbers DEF Chunk
<1>4. SizeOf(chunk) = Words(chunk) * sizeof_T /\ Words(chunk) \in Nat
  <2>1. chunk_max_bitwidth_array[chunk] = ChunkWidth(chunk)
    BY <1>1, <1>3 DEF PackInv, LayoutInv
  <2>2. ChunkWidth(chunk) \in Nat /\ Words(chunk) \in Nat
    BY <1>1, <1>3, WordsType
  <2>3. (ChunkWidth(chunk) * chunk_size) \div 8 =
          ((ChunkWidth(chunk) * Groups) * Lanes) * sizeof_T
    BY <2>2, <1>1, BytesOfWords
  <2>. QED BY <2>1, <2>2, <2>3 DEF SizeOf, Words
<1>5. /\ Start[chunk] \in Nat /\ Start[chunk + 1] = Start[chunk] + Words(chunk)
      /\ Start[chunk + 1] \in Nat
  BY <1>1, <1>3, <1>4, StartOfChunks
<1>6. compress_size_8' = Start[chunk + 1] * sizeof_T
  <2>1. compress_size_8 = Start[chunk] * sizeof_T
    BY <1>1 DEF PackInv, LayoutInv
  <2>2. (Start[chunk] + Words(chunk)) * sizeof_T
          = Start[chunk] * sizeof_T + Words(chunk) * sizeof_T
    BY <1>3, <1>4, <1>5, ProductSum
  <2>. QED BY <2>1, <2>2, <1>1, <1>4, <1>5
<1>7. SizeOf(chunk) \in Nat
  BY <1>3, <1>4, ProductMonotone
<1>8. PackType'
  BY <1>1, <1>2, <1>3, <1>7 DEF PackInv, PackType
<1>9. \A c \in Chunk : c < chunk + 1 => chunk_result_sizes'[c] = Words(c) * sizeof_T
  <2>. SUFFICES ASSUME NEW c \in Chunk, c < chunk + 1
                PROVE  chunk_result_sizes'[c] = Words(c) * sizeof_T
    OBVIOUS
  <2>1. chunk_result_sizes \in [Chunk -> Nat]
    BY DEF PackInv, PackType
  <2>2. CASE c = chunk
    BY <2>1, <2>2, <1>1, <1>4
  <2>3. CASE c # chunk
    <3>1. c < chunk
      BY <2>3, <1>1, <1>3 DEF Chunk
    <3>. QED BY <2>1, <2>3, <3>1, <1>1 DEF PackInv, LayoutInv
  <2>. QED BY <2>2, <2>3
<1>10. LayoutInv'
  BY <1>1, <1>2, <1>6, <1>9 DEF PackInv, LayoutInv
<1>11. PlaceInv' /\ ContentInv'
  BY <1>1, NothingPacked
<1>. QED BY <1>8, <1>10, <1>11 DEF PackInv

LEMMA PlacePack ==
  ASSUME PackInv, Place
  PROVE  PackInv'
<1>1. /\ WordBits \in WordSizes /\ data \in ColumnsOf(WordBits)
      /\ phase = "place" /\ phase' = "place" /\ chunk < chunk_count
      /\ chunk' = chunk + 1
      /\ UNCHANGED <<column, chunk_max_bitwidth_array, chunk_result_sizes,
                     compress_size_8, packed_data, vec, result>>
      /\ chunk_result_ptr' =
           [chunk_result_ptr EXCEPT ![chunk] =
              chunk_result_ptr[chunk - 1] + chunk_result_sizes[chunk - 1] \div sizeof_T]
      /\ chunk_result_ptr \in [Chunk -> Nat]
  BY DEF PackInv, PackType, Place
<1>2. /\ WordBits' = WordBits /\ data' = data /\ Chunk' = Chunk /\ Width' = Width
      /\ chunk_count' = chunk_count
      /\ sizeof_T' = sizeof_T /\ Start' = Start
      /\ \A c : ChunkWidth(c)' = ChunkWidth(c) /\ Words(c)' = Words(c)
  BY <1>1, SameColumn
<1>. DEFINE p == chunk - 1
<1>3. /\ chunk_count \in Nat /\ sizeof_T \in Nat \ {0}
      /\ chunk \in Chunk /\ p \in Chunk /\ p < chunk /\ p + 1 = chunk
      /\ chunk' \in 0 .. chunk_count
  <2>1. chunk_count \in Nat /\ sizeof_T \in Nat \ {0}
    BY <1>1, Counts, Numbers
  <2>2. chunk >= 1 /\ chunk \in Nat
    BY <1>1, <2>1 DEF PackInv, PackType, LayoutInv
  <2>. QED BY <1>1, <2>1, <2>2 DEF Chunk
<1>. HIDE DEF p
<1>4. /\ chunk_result_ptr[p] = Start[p]
      /\ chunk_result_sizes[p] = Words(p) * sizeof_T
  BY <1>1, <1>3 DEF PackInv, LayoutInv
<1>5. /\ Words(p) \in Nat /\ Start[p] \in Nat /\ Start[chunk] = Start[p] + Words(p)
  <2>1. Words(p) \in Nat
    BY <1>1, <1>3, WordsType
  <2>2. Start[p + 1] = Start[p] + Words(p) /\ Start \in [0 .. chunk_count -> Nat]
    BY <1>1, <1>3, StartOfChunks
  <2>3. p \in 0 .. chunk_count
    BY <1>3 DEF Chunk
  <2>. QED BY <1>3, <2>1, <2>2, <2>3
<1>6. chunk_result_sizes[p] \div sizeof_T = Words(p)
  BY <1>1, <1>4, <1>5, BytesOfWords
<1>7. chunk_result_ptr' = [chunk_result_ptr EXCEPT ![chunk] = Start[chunk]]
      /\ Start[chunk] \in Nat
  <2>1. chunk_result_ptr' =
          [chunk_result_ptr EXCEPT ![chunk] =
             chunk_result_ptr[p] + chunk_result_sizes[p] \div sizeof_T]
    BY <1>1 DEF p
  <2>2. chunk_result_ptr[p] + chunk_result_sizes[p] \div sizeof_T = Start[chunk]
    BY <1>4, <1>5, <1>6
  <2>3. Start[chunk] \in Nat
    BY <1>5
  <2>. QED BY <2>1, <2>2, <2>3, Zenon
<1>8. PackType'
  BY <1>1, <1>2, <1>3, <1>7 DEF PackInv, PackType
<1>9. \A c \in Chunk : c < chunk + 1 => chunk_result_ptr'[c] = Start[c]
  BY <1>1, <1>3, <1>7 DEF PackInv, LayoutInv, Chunk
<1>10. LayoutInv'
  BY <1>1, <1>2, <1>3, <1>9 DEF PackInv, LayoutInv, Chunk
<1>11. PlaceInv' /\ ContentInv'
  BY <1>1, NothingPacked
<1>. QED BY <1>8, <1>10, <1>11 DEF PackInv


(* pack begins with a chunk.                                               *)
LEMMA PlaceAtStart ==
  ASSUME PackType, PackType', UNCHANGED column, vec' = 0, result' = 0
  PROVE  PlaceInv'
<1>1. /\ WordBits \in Nat \ {0} /\ Groups \in Nat /\ Vectors \in Nat /\ chunk_count \in Nat
      /\ WordBits' = WordBits /\ Groups' = Groups /\ chunk_count' = chunk_count
      /\ Chunk' = Chunk /\ Width' = Width
  BY Numbers, Counts, SameColumn DEF PackType
<1>2. ASSUME Packing' PROVE bw' \in Nat
  <2>1. chunk' \in Chunk'
    BY <1>1, <1>2 DEF Packing, PackType, Chunk
  <2>2. chunk_max_bitwidth_array'[chunk'] \in 0 .. WordBits
    BY <1>1, <2>1 DEF PackType, Width
  <2>. QED BY <1>1, <2>2 DEF bw
<1>3. ASSUME Packing' PROVE bw' * Groups' \in Nat
  BY <1>1, <1>2, <1>3, ProductMonotone
<1>4. 0 * WordBits' = 0
  BY <1>1
<1>5. ASSUME Packing' PROVE 0 * bw' = 0 /\ (0 - 1) * bw' = -bw'
  BY <1>2, <1>5, SMT
<1>. QED BY <1>1, <1>2, <1>3, <1>4, <1>5 DEF PlaceInv

LEMMA NextLoopPack ==
  ASSUME PackInv, NextLoop
  PROVE  PackInv'
<1>1. /\ WordBits \in WordSizes /\ data \in ColumnsOf(WordBits)
      /\ phase \in {"measure", "size", "place"} /\ chunk >= chunk_count
      /\ phase = "measure" => phase' = "size" /\ chunk' = 0
      /\ phase = "size" => phase' = "place" /\ chunk' = 1
      /\ phase = "place" => phase' = "compress" /\ chunk' = 0
      /\ UNCHANGED <<column, layout, packed_data, vec, result>>
  <2>1. phase \in {"measure", "size", "place"}
    BY DEF PackInv, PackType, NextLoop
  <2>2. /\ phase = "measure" => phase' = "size"
        /\ phase = "size" => phase' = "place"
        /\ phase = "place" => phase' = "compress"
    BY Zenon DEF NextLoop
  <2>. QED BY <2>1, <2>2 DEF PackInv, PackType, NextLoop
<1>2. /\ WordBits' = WordBits /\ data' = data /\ Chunk' = Chunk /\ Width' = Width
      /\ chunk_count' = chunk_count
      /\ sizeof_T' = sizeof_T /\ Start' = Start
      /\ \A c : ChunkWidth(c)' = ChunkWidth(c) /\ Words(c)' = Words(c)
  BY <1>1, SameColumn
<1>3. /\ chunk_count \in Nat /\ sizeof_T \in Nat
      /\ \A c \in Chunk : c \in Nat /\ c < chunk
      /\ chunk = chunk_count \/ (phase = "place" /\ chunk = 1)
  <2>1. chunk_count \in Nat /\ sizeof_T \in Nat
    BY <1>1, Counts, Numbers
  <2>2. chunk \in 0 .. chunk_count \/ (phase = "place" /\ chunk = 1)
    BY DEF PackInv, PackType
  <2>. QED BY <2>1, <2>2, <1>1 DEF Chunk
<1>4. layout' = layout /\ chunk_max_bitwidth_array' = chunk_max_bitwidth_array
      /\ chunk_result_sizes' = chunk_result_sizes /\ compress_size_8' = compress_size_8
      /\ chunk_result_ptr' = chunk_result_ptr
  BY <1>1 DEF layout
<1>5. PackType'
  BY <1>1, <1>2, <1>3, <1>4 DEF PackInv, PackType
<1>6. Start[0] = 0 /\ 0 * sizeof_T = 0
  BY <1>1, <1>3, StartOfChunks
<1>7. LayoutInv'
  <2>1. CASE phase = "measure"
    BY <2>1, <1>1, <1>2, <1>3, <1>4, <1>6 DEF PackInv, LayoutInv
  <2>2. CASE phase = "size"
    <3>1. \A c \in Chunk : c < 1 => chunk_result_ptr[c] = Start[c]
      <4>1. \A c \in Chunk : c < 1 => c = 0
        BY <1>3
      <4>. QED BY <2>2, <4>1, <1>6 DEF PackInv, LayoutInv
    <3>. QED BY <2>2, <3>1, <1>1, <1>2, <1>3, <1>4 DEF PackInv, LayoutInv
  <2>3. CASE phase = "place"
    BY <2>3, <1>1, <1>2, <1>3, <1>4 DEF PackInv, LayoutInv
  <2>. QED BY <2>1, <2>2, <2>3, <1>1
<1>8. CASE phase # "place"
  <2>1. PlaceInv' /\ ContentInv'
    BY <1>1, <1>8, NothingPacked
  <2>. QED BY <2>1, <1>5, <1>7 DEF PackInv
<1>9. CASE phase = "place"
  <2>1. vec' = 0 /\ result' = 0 /\ packed_data' = <<>>
    BY <1>1, <1>9 DEF PackInv, PlaceInv, ContentInv, Packing
  <2>2. PlaceInv'
    BY <2>1, <1>1, <1>5, PlaceAtStart DEF PackInv
  <2>3. ContentInv'
    <3>1. \A c \in Chunk : Stored(c)' = 0
      BY <1>1, <1>3, <1>9, <2>1 DEF Stored
    <3>2. DOMAIN packed_data' = {}
      BY <2>1
    <3>3. 0 .. 0 - 1 = {}
      OBVIOUS
    <3>4. phase' = "compress"
      BY <1>1, <1>9
    <3>. QED BY <3>1, <3>2, <3>3, <3>4, <1>2 DEF ContentInv
  <2>. QED BY <2>2, <2>3, <1>5, <1>7 DEF PackInv
<1>. QED BY <1>8, <1>9


(* compress() changes nothing the constructor has computed.                *)
LEMMA LayoutStays ==
  ASSUME PackInv, phase = "compress", phase' = "compress", UNCHANGED <<column, layout>>,
         chunk' \in 0 .. chunk_count
  PROVE  PackType' /\ LayoutInv'
<1>1. /\ WordBits' = WordBits /\ data' = data /\ Chunk' = Chunk /\ Width' = Width
      /\ chunk_count' = chunk_count
      /\ sizeof_T' = sizeof_T /\ Start' = Start
      /\ \A c : ChunkWidth(c)' = ChunkWidth(c) /\ Words(c)' = Words(c)
  BY SameColumn
<1>2. /\ chunk_max_bitwidth_array' = chunk_max_bitwidth_array
      /\ chunk_result_sizes' = chunk_result_sizes /\ compress_size_8' = compress_size_8
      /\ chunk_result_ptr' = chunk_result_ptr
  BY DEF layout
<1>3. PackType'
  BY <1>1, <1>2 DEF PackInv, PackType
<1>4. LayoutInv'
  BY <1>1, <1>2 DEF PackInv, LayoutInv
<1>. QED BY <1>3, <1>4

LEMMA EndChunkPack ==
  ASSUME PackersFit, PackInv, EndChunk
  PROVE  PackInv'
<1>1. /\ PackType /\ LayoutInv /\ PlaceInv /\ ContentInv /\ Packing /\ ~ StoresLeft
      /\ phase = "compress" /\ phase' = "compress" /\ chunk' = chunk + 1
      /\ vec' = 0 /\ result' = 0
      /\ UNCHANGED <<column, layout, packed_data>>
  BY DEF PackInv, EndChunk, Packing
<1>2. chunk \in Chunk /\ result = bw * Groups
  <2>1. result \in 0 .. bw * Groups
    BY <1>1 DEF PlaceInv
  <2>2. ~ (result < bw * Groups) /\ bw * Groups \in Nat /\ chunk \in Chunk
    BY <1>1, <2>1, FittingPacker
  <2>. DEFINE n == bw * Groups
  <2>3. result \in 0 .. n /\ ~ (result < n) /\ n \in Nat
    BY <2>1, <2>2
  <2>. HIDE DEF n
  <2>4. result = n
    BY <2>3
  <2>. QED BY <2>2, <2>4 DEF n
<1>3. result = ChunkWidth(chunk) * Groups
  BY <1>1, <1>2 DEF LayoutInv, bw
<1>4. chunk_count \in Nat /\ chunk' \in 0 .. chunk_count
  <2>1. chunk_count \in Nat
    BY <1>1, Counts DEF PackType
  <2>. QED BY <1>1, <1>2, <2>1 DEF Chunk
<1>5. PackType' /\ LayoutInv'
  BY <1>1, <1>4, LayoutStays
<1>6. PlaceInv'
  BY <1>1, <1>5, PlaceAtStart
<1>7. /\ Chunk' = Chunk /\ Start' = Start /\ Lane' = Lane /\ Lanes' = Lanes
      /\ chunk_count' = chunk_count /\ Groups' = Groups
      /\ \A c : ChunkWidth(c)' = ChunkWidth(c)
  BY <1>1, SameColumn
<1>8. \A c, k, l : Expected(c, k, l)' = Expected(c, k, l)
  BY <1>1, SameExpected DEF layout
<1>9. ASSUME NEW c \in Chunk PROVE Stored(c)' = 0 \/ Stored(c)' = Stored(c)
  <2>1. CASE c < chunk
    BY <2>1, <1>1, <1>2, <1>7 DEF Stored, Chunk
  <2>2. CASE c = chunk
    BY <2>2, <1>1, <1>2, <1>3, <1>7 DEF Stored, Chunk
  <2>3. CASE c > chunk
    BY <2>3, <1>1, <1>2 DEF Stored, Chunk
  <2>. QED BY <2>1, <2>2, <2>3, <1>2, <1>4 DEF Chunk
<1>10. ContentInv'
  BY <1>1, <1>7, <1>8, <1>9 DEF ContentInv
<1>. QED BY <1>5, <1>6, <1>10 DEF PackInv

LEMMA CompressAgainPack ==
  ASSUME PackInv, CompressAgain
  PROVE  PackInv'
<1>1. /\ PackType /\ ContentInv
      /\ phase = "compress" /\ phase' = "compress" /\ chunk' = 0
      /\ vec' = 0 /\ result' = 0
      /\ UNCHANGED <<column, layout, packed_data>>
  <2>1. PlaceInv /\ ~ Packing /\ chunk >= chunk_count
    <3>1. chunk_count \in Nat /\ chunk \in 0 .. chunk_count
      BY Counts DEF PackInv, PackType, CompressAgain, Packed
    <3>. QED BY <3>1 DEF PackInv, CompressAgain, Packed, Packing
  <2>. QED BY <2>1 DEF PackInv, CompressAgain, Packed, PlaceInv
<1>2. chunk' \in 0 .. chunk_count /\ chunk_count \in Nat
  BY <1>1, Counts DEF PackType
<1>3. PackType' /\ LayoutInv'
  BY <1>1, <1>2, LayoutStays
<1>4. PlaceInv'
  BY <1>1, <1>3, PlaceAtStart
<1>5. /\ Chunk' = Chunk /\ Start' = Start /\ chunk_count' = chunk_count
  BY <1>1, SameColumn
<1>6. ASSUME NEW c \in Chunk PROVE Stored(c)' = 0
  BY <1>1, <1>2 DEF Stored, Chunk
<1>7. ContentInv'
  BY <1>1, <1>5, <1>6 DEF ContentInv
<1>. QED BY <1>3, <1>4, <1>7 DEF PackInv


(* The k-th vector of words of a chunk lies in the chunk's words.          *)
LEMMA WordInChunk ==
  ASSUME WordBits \in WordSizes, data \in ColumnsOf(WordBits), NEW c \in Chunk,
         NEW k \in Nat, k < ChunkWidth(c) * Groups, NEW l \in Lane
  PROVE  /\ k * Lanes \in Nat /\ Start[c] \in Nat
         /\ k * Lanes + l < Words(c)
         /\ Start[c] + k * Lanes + l < Start[chunk_count]
<1>. DEFINE g == ChunkWidth(c) * Groups
            kl == k * Lanes
<1>1. g \in Nat /\ Words(c) \in Nat /\ Lanes \in Nat /\ l \in 0 .. Lanes - 1
      /\ k + 1 \in Nat /\ chunk_count \in Nat
  BY WordsType, Numbers, Counts DEF Lane
<1>2. Words(c) = g * Lanes
  BY DEF Words
<1>3. k + 1 <= g
  <2>. HIDE DEF g
  <2>1. k < g
    BY DEF g
  <2>. QED BY <2>1, <1>1
<1>. HIDE DEF g
<1>4. (k + 1) * Lanes = kl + Lanes /\ (k + 1) * Lanes <= Words(c) /\ kl \in Nat
  BY <1>1, <1>2, <1>3, ProductMonotone, ProductSuccessor
<1>. HIDE DEF kl
<1>5. kl + l < Words(c)
  BY <1>1, <1>4
<1>6. /\ Start \in [0 .. chunk_count -> Nat]
      /\ c < chunk_count => Start[c] + Words(c) <= Start[chunk_count]
      /\ chunk_count \in 0 .. chunk_count
  BY <1>1, StartOfChunks
<1>7. Start[c] \in Nat /\ Start[chunk_count] \in Nat /\ c < chunk_count
  BY <1>1, <1>6 DEF Chunk
<1>8. Start[c] + kl + l < Start[chunk_count]
  BY <1>1, <1>4, <1>5, <1>6, <1>7
<1>. QED BY <1>4, <1>5, <1>7, <1>8 DEF kl

LEMMA PackWordsPack ==
  ASSUME PackersFit, PackInv, PackWords
  PROVE  PackInv'
<1>. DEFINE first == Start[chunk] + result * Lanes
            written == first .. first + Lanes - 1
<1>1. /\ PackType /\ LayoutInv /\ PlaceInv /\ ContentInv /\ Packing /\ StoresLeft
      /\ phase = "compress" /\ phase' = "compress" /\ chunk' = chunk
      /\ vec' = EndVector /\ result' = result + 1
      /\ UNCHANGED <<column, layout>>
      /\ WordBits \in WordSizes /\ data \in ColumnsOf(WordBits)
  BY DEF PackInv, PackType, PackWords, Packing
<1>2. /\ chunk \in Chunk /\ chunk_count \in Nat /\ chunk < chunk_count
      /\ result \in Nat /\ result < bw * Groups /\ bw * Groups \in Nat
  BY <1>1, FittingPacker, Counts DEF PlaceInv, Packing
<1>3. bw = ChunkWidth(chunk) /\ chunk_result_ptr[chunk] = Start[chunk]
  BY <1>1, <1>2 DEF LayoutInv, bw
<1>4. packed_data' = [w \in DOMAIN packed_data \union written |->
                        IF w \in written THEN PackedWord(w - first) ELSE packed_data[w]]
  BY <1>3, Zenon DEF PackWords
<1>5. PackType' /\ LayoutInv'
  <2>1. chunk' \in 0 .. chunk_count
    BY <1>1, <1>2 DEF Chunk
  <2>. QED BY <2>1, <1>1, LayoutStays
<1>6. /\ Chunk' = Chunk /\ Start' = Start /\ Lane' = Lane /\ Lanes' = Lanes
      /\ chunk_count' = chunk_count /\ Groups' = Groups /\ WordBits' = WordBits
      /\ \A c : ChunkWidth(c)' = ChunkWidth(c)
      /\ \A c, k, l : Expected(c, k, l)' = Expected(c, k, l)
  BY <1>1, SameColumn, SameExpected DEF layout
<1>7. PlaceInv'
  <2>1. bw' = bw /\ Packing'
    BY <1>1, <1>6 DEF layout, bw, Packing
  <2>2. /\ EndVector \in 0 .. Vectors /\ bw \in Nat \ {0}
        /\ EndVector * bw >= (result + 1) * WordBits
        /\ (EndVector - 1) * bw < (result + 1) * WordBits
    BY <1>1, VectorsOfWord
  <2>3. result + 1 \in 0 .. bw * Groups
    BY <1>2
  <2>. QED BY <2>1, <2>2, <2>3, <1>1, <1>6 DEF PlaceInv
<1>8. /\ result * Lanes \in Nat /\ Start[chunk] \in Nat /\ first \in Nat
      /\ Lanes \in Nat \ {0} /\ Lane = 0 .. Lanes - 1
      /\ \A l \in Lane : first + l < Start[chunk_count]
  <2>1. 0 \in Lane /\ Lane = 0 .. Lanes - 1 /\ Lanes \in Nat \ {0}
    BY <1>1, Numbers DEF Lane
  <2>2. \A l \in Lane : /\ result * Lanes \in Nat /\ Start[chunk] \in Nat
                        /\ Start[chunk] + result * Lanes + l < Start[chunk_count]
    BY <1>1, <1>2, <1>3, WordInChunk
  <2>. QED BY <2>1, <2>2
<1>9. Start[chunk_count] \in Nat
  BY <1>1, <1>2, StartOfChunks
<1>. HIDE DEF first
<1>10. DOMAIN packed_data' = DOMAIN packed_data \union written
  BY <1>4
<1>11. written \subseteq 0 .. Start[chunk_count] - 1
  <2>. SUFFICES ASSUME NEW w \in written PROVE w \in 0 .. Start[chunk_count] - 1
    OBVIOUS
  <2>1. w - first \in Lane /\ first + (w - first) = w /\ w \in Nat
    BY <1>8
  <2>2. first + (w - first) < Start[chunk_count]
    BY <2>1, <1>8
  <2>. QED BY <2>1, <2>2, <1>9
<1>12. ASSUME NEW l \in Lane
       PROVE  /\ first + l \in DOMAIN packed_data'
              /\ packed_data'[first + l] = Expected(chunk, result, l)
  <2>1. first + l \in written /\ (first + l) - first = l
    BY <1>8
  <2>2. packed_data'[first + l] = PackedWord(l)
    BY <2>1, <1>4
  <2>3. PackedWord(l) = Expected(chunk, result, l)
    BY <1>1, WordPacked
  <2>. QED BY <2>1, <2>2, <2>3, <1>10
<1>13. ASSUME NEW c \in Chunk, NEW k \in 0 .. Stored(c) - 1, NEW l \in Lane
       PROVE  /\ Start[c] + k * Lanes + l \in DOMAIN packed_data'
              /\ packed_data'[Start[c] + k * Lanes + l] = Expected(c, k, l)
  <2>. DEFINE w == Start[c] + k * Lanes + l
  <2>1. w \in DOMAIN packed_data /\ packed_data[w] = Expected(c, k, l)
    BY <1>1 DEF ContentInv
  <2>2. /\ k \in Nat /\ k < ChunkWidth(c) * Groups
        /\ c < chunk \/ (c = chunk /\ k < result)
    <3>1. ChunkWidth(c) * Groups \in Nat
      BY <1>1, WordsType
    <3>2. c \in Nat /\ chunk \in Nat
      BY <1>2 DEF Chunk
    <3>3. CASE c < chunk
      BY <3>1, <3>2, <3>3 DEF Stored
    <3>4. CASE c = chunk
      BY <3>1, <3>2, <3>4, <1>2, <1>3 DEF Stored
    <3>5. CASE c > chunk
      BY <3>2, <3>5 DEF Stored
    <3>. QED BY <3>2, <3>3, <3>4, <3>5
  <2>3. /\ k * Lanes \in Nat /\ Start[c] \in Nat /\ Words(c) \in Nat
        /\ k * Lanes + l < Words(c)
    BY <2>2, <1>1, WordInChunk, WordsType
  <2>4. w < first
    <3>1. CASE c < chunk
      <4>1. Start[c] + Words(c) <= Start[chunk]
        BY <3>1, <1>1, <1>2, StartOfChunks DEF Chunk
      <4>. DEFINE kl == k * Lanes
                  rl == result * Lanes
      <4>2. /\ kl \in Nat /\ rl \in Nat /\ first = Start[chunk] + rl /\ w = Start[c] + kl + l
            /\ kl + l < Words(c) /\ l \in Nat /\ Start[chunk] \in Nat
            /\ Start[c] \in Nat /\ Words(c) \in Nat
        BY <2>3, <1>8 DEF first
      <4>. HIDE DEF kl, rl, w
      <4>. QED BY <4>1, <4>2
    <3>2. CASE c = chunk /\ k < result
      <4>1. k + 1 \in Nat /\ k + 1 <= result
        BY <3>2, <2>2, <1>2
      <4>2. (k + 1) * Lanes <= result * Lanes /\ (k + 1) * Lanes = k * Lanes + Lanes
        BY <4>1, <2>2, <1>2, <1>8, ProductMonotone, ProductSuccessor
      <4>. DEFINE kl == k * Lanes
                  rl == result * Lanes
      <4>3. /\ kl \in Nat /\ rl \in Nat /\ first = Start[c] + rl /\ w = Start[c] + kl + l
            /\ kl + Lanes <= rl /\ l \in Nat /\ l < Lanes /\ Lanes \in Nat
            /\ Start[c] \in Nat
        BY <4>2, <3>2, <2>3, <1>8 DEF first
      <4>. HIDE DEF kl, rl, w
      <4>. QED BY <4>3
    <3>. QED BY <2>2, <3>1, <3>2
  <2>5. w \in Nat
    BY <2>3, <1>8
  <2>. HIDE DEF w
  <2>6. w \notin written
    BY <2>4, <2>5, <1>8
  <2>7. w \in DOMAIN packed_data' /\ packed_data'[w] = packed_data[w]
    BY <2>1, <2>6, <1>4, <1>10
  <2>. QED BY <2>1, <2>7 DEF w
<1>14. ASSUME NEW c \in Chunk, NEW k \in 0 .. Stored(c)' - 1
       PROVE  k \in 0 .. Stored(c) - 1 \/ (c = chunk /\ k = result)
  <2>1. c \in Nat /\ chunk \in Nat
    BY <1>2 DEF Chunk
  <2>2. CASE c = chunk
    <3>1. Stored(c)' = result + 1 /\ Stored(c) = result
      BY <2>1, <2>2, <1>1, <1>2 DEF Stored
    <3>. QED BY <3>1, <2>2, <1>2
  <2>3. CASE c # chunk
    <3>1. Stored(c)' = Stored(c)
      BY <2>1, <2>3, <1>1, <1>6 DEF Stored
    <3>. QED BY <3>1
  <2>. QED BY <2>2, <2>3
<1>15. ContentInv'
  <2>1. DOMAIN packed_data' \subseteq 0 .. Start[chunk_count] - 1
    BY <1>1, <1>10, <1>11 DEF ContentInv
  <2>2. ASSUME NEW c \in Chunk, NEW k \in 0 .. Stored(c)' - 1, NEW l \in Lane
        PROVE  /\ Start[c] + k * Lanes + l \in DOMAIN packed_data'
               /\ packed_data'[Start[c] + k * Lanes + l] = Expected(c, k, l)
    <3>1. CASE k \in 0 .. Stored(c) - 1
      BY <3>1, <1>13
    <3>2. CASE c = chunk /\ k = result
      BY <3>2, <1>12 DEF first
    <3>. QED BY <3>1, <3>2, <1>14
  <2>. QED BY <2>1, <2>2, <1>1, <1>6 DEF ContentInv
<1>. QED BY <1>5, <1>7, <1>15 DEF PackInv


LEMMA StutterPack ==
  ASSUME PackInv, UNCHANGED vars
  PROVE  PackInv'
<1>1. /\ UNCHANGED column /\ UNCHANGED <<column, chunk_max_bitwidth_array>>
      /\ UNCHANGED <<phase, chunk, layout, packed_data, vec, result>>
      /\ UNCHANGED <<chunk_max_bitwidth_array, chunk_result_sizes, compress_size_8,
                     chunk_result_ptr>>
  BY DEF vars, layout
<1>2. /\ WordBits' = WordBits /\ data' = data
      /\ Chunk' = Chunk /\ chunk_count' = chunk_count
      /\ Lanes' = Lanes /\ Lane' = Lane /\ Width' = Width
      /\ Groups' = Groups /\ sizeof_T' = sizeof_T /\ Start' = Start
      /\ \A c : ChunkWidth(c)' = ChunkWidth(c) /\ Words(c)' = Words(c)
      /\ \A c, k, l : Expected(c, k, l)' = Expected(c, k, l)
  BY <1>1, SameColumn, SameExpected
<1>3. PackType'
  BY <1>1, <1>2 DEF PackInv, PackType
<1>4. LayoutInv'
  BY <1>1, <1>2 DEF PackInv, LayoutInv
<1>5. PlaceInv'
  <2>1. Packing' = Packing /\ bw' = bw
    BY <1>1, <1>2 DEF Packing, bw
  <2>. QED BY <2>1, <1>1, <1>2 DEF PackInv, PlaceInv
<1>6. ContentInv'
  <2>1. \A c : Stored(c)' = Stored(c)
    BY <1>1, <1>2 DEF Stored
  <2>. QED BY <2>1, <1>1, <1>2 DEF PackInv, ContentInv
<1>. QED BY <1>3, <1>4, <1>5, <1>6 DEF PackInv

(* What the invariant says when pack has stored its last word.             *)
LEMMA ChunkPacked ==
  ASSUME PackersFit, PackInv, Packing, ~ StoresLeft, bw > 0
  PROVE  vec = Vectors /\ result * Lanes * sizeof_T = chunk_result_sizes[chunk]
<1>1. /\ WordBits \in Nat \ {0} /\ Groups \in Nat /\ Vectors \in Nat
      /\ Vectors = WordBits * Groups
  BY Numbers DEF PackInv, PackType
<1>. DEFINE n == bw * Groups
<1>2. /\ result \in 0 .. n /\ vec \in 0 .. Vectors
      /\ vec * bw >= result * WordBits
  BY DEF PackInv, PlaceInv
<1>3. /\ chunk \in Chunk /\ bw \in 0 .. WordBits /\ n \in Nat /\ ~ (result < n)
  BY <1>2, FittingPacker DEF PackInv
<1>4. result = n
  <2>. HIDE DEF n
  <2>. QED BY <1>2, <1>3
<1>5. vec = Vectors
  <2>1. n * WordBits = Vectors * bw
    BY <1>1, <1>3, SMT
  <2>2. bw \in Nat \ {0}
    BY <1>1, <1>3
  <2>. DEFINE vb == vec * bw
              eb == Vectors * bw
  <2>3. vb >= eb
    BY <1>2, <1>4, <2>1
  <2>4. vb < eb <=> vec < Vectors
    <3>1. vb < eb => vec < Vectors
      BY <1>1, <1>2, <2>2, ProductOrder
    <3>2. vec < Vectors => vb < eb
      <4>1. vec < Vectors => (Vectors - vec) * bw >= 1
        BY <1>1, <1>2, <2>2, SMT
      <4>2. (Vectors - vec) * bw = eb - vb /\ eb \in Int /\ vb \in Int
        BY <1>1, <1>2, <2>2, ProductSum, SMT
      <4>. HIDE DEF vb, eb
      <4>. QED BY <4>1, <4>2
    <3>. QED BY <3>1, <3>2
  <2>5. vb \in Int /\ eb \in Int
    BY <1>1, <1>2, <2>2, SMT
  <2>. HIDE DEF vb, eb
  <2>. QED BY <2>3, <2>4, <2>5, <1>1, <1>2
<1>6. result * Lanes = Words(chunk)
  BY <1>3, <1>4 DEF PackInv, LayoutInv, Packing, Words, bw
<1>7. chunk_result_sizes[chunk] = Words(chunk) * sizeof_T
  BY <1>3 DEF PackInv, LayoutInv, Packing
<1>. QED BY <1>5, <1>6, <1>7

LEMMA Invariants ==
  ASSUME PackersFit, PackInv
  PROVE  TypeOK /\ LayoutKept /\ PackedExactly
<1>1. /\ WordBits \in WordSizes /\ data \in ColumnsOf(WordBits)
      /\ chunk_count \in Nat /\ sizeof_T \in Nat \ {0} /\ Vectors \in Nat
      /\ Start \in [0 .. chunk_count -> Nat]
      /\ phase \in {"measure", "size", "place", "compress"}
  BY Numbers, Counts, StartOfChunks DEF PackInv, PackType
<1>2. TypeOK
  <2>1. vec \in 0 .. Vectors /\ result \in Nat
    <3>1. CASE Packing
      BY <3>1, FittingPacker DEF PackInv, PlaceInv
    <3>2. CASE ~ Packing
      BY <3>2, <1>1 DEF PackInv, PlaceInv
    <3>. QED BY <3>1, <3>2
  <2>2. compress_size_8 \in Nat
    <3>1. \A d \in 0 .. chunk_count : Start[d] * sizeof_T \in Nat
      BY <1>1, ProductMonotone
    <3>2. chunk_count \in 0 .. chunk_count /\ (phase = "size" => chunk \in 0 .. chunk_count)
      BY <1>1 DEF PackInv, PackType
    <3>. QED BY <3>1, <3>2, <1>1 DEF PackInv, LayoutInv
  <2>. QED BY <2>1, <2>2 DEF TypeOK, PackInv, PackType
<1>3. WritesInBounds
  <2>1. CASE phase # "compress"
    <3>1. DOMAIN packed_data = {}
      BY <2>1 DEF PackInv, ContentInv
    <3>. QED BY <3>1 DEF WritesInBounds
  <2>2. CASE phase = "compress"
    <3>1. compress_size_8 = Start[chunk_count] * sizeof_T /\ Start[chunk_count] \in Nat
      BY <2>2, <1>1 DEF PackInv, LayoutInv
    <3>2. compress_size_8 \div sizeof_T = Start[chunk_count]
      BY <3>1, <1>1, BytesOfWords
    <3>. QED BY <3>2 DEF WritesInBounds, WordAddress, PackInv, ContentInv
  <2>. QED BY <2>1, <2>2
<1>4. ChunkConsumed
  BY ChunkPacked DEF ChunkConsumed
<1>5. PackedExactly
  <2>. SUFFICES ASSUME phase = "compress", NEW c \in 0 .. chunk - 1
                PROVE  /\ Holds(chunk_max_bitwidth_array[c], c)
                       /\ \A k \in 0 .. (Vectors * chunk_max_bitwidth_array[c]) \div WordBits - 1 :
                            \A l \in Lane :
                              LET w == chunk_result_ptr[c] + k * Lanes + l
                              IN w \in DOMAIN packed_data /\ packed_data[w] = Expected(c, k, l)
    BY DEF PackedExactly
  <2>1. c \in Chunk /\ c < chunk
    BY <1>1 DEF PackInv, PackType, Chunk
  <2>2. chunk_max_bitwidth_array[c] = ChunkWidth(c) /\ chunk_result_ptr[c] = Start[c]
    BY <2>1 DEF PackInv, LayoutInv
  <2>3. Holds(ChunkWidth(c), c) /\ ChunkWidth(c) \in Nat /\ ChunkWidth(c) * Groups \in Nat
    BY <2>1, <1>1, ChunkWidthHolds, WordsType
  <2>4. (Vectors * ChunkWidth(c)) \div WordBits = ChunkWidth(c) * Groups
    <3>. DEFINE n == ChunkWidth(c) * Groups
    <3>1. WordBits \in Nat \ {0} /\ Groups \in Nat /\ Vectors = WordBits * Groups
      BY <1>1, Numbers
    <3>2. Vectors * ChunkWidth(c) = n * WordBits + 0 /\ 0 \in 0 .. WordBits - 1
      BY <3>1, <2>3, SMT
    <3>3. n \in Nat
      BY <2>3
    <3>. HIDE DEF n
    <3>4. (n * WordBits + 0) \div WordBits = n
      BY <3>1, <3>2, <3>3, BitOfLane
    <3>. QED BY <3>2, <3>4 DEF n
  <2>5. Stored(c) = ChunkWidth(c) * Groups
    BY <2>1 DEF Stored
  <2>. QED BY <2>1, <2>2, <2>3, <2>4, <2>5 DEF PackInv, ContentInv
<1>. QED BY <1>2, <1>3, <1>4, <1>5 DEF LayoutKept


LEMMA NextPack ==
  ASSUME PackersFit, PackInv, [Next]_vars
  PROVE  PackInv'
<1>1. CASE Measure
  BY <1>1, MeasurePack
<1>2. CASE Size
  BY <1>2, SizePack
<1>3. CASE Place
  BY <1>3, PlacePack
<1>4. CASE NextLoop
  BY <1>4, NextLoopPack
<1>5. CASE PackWords
  BY <1>5, PackWordsPack
<1>6. CASE EndChunk
  BY <1>6, EndChunkPack
<1>7. CASE CompressAgain
  BY <1>7, CompressAgainPack
<1>8. CASE UNCHANGED vars
  BY <1>8, StutterPack
<1>. QED BY <1>1, <1>2, <1>3, <1>4, <1>5, <1>6, <1>7, <1>8 DEF Next

(* The constructor and compress() run in the order the program gives them, *)
(* whatever the other algorithms do: the steps of vertical bit packing in  *)
(* the composition are those of its own specification.                     *)
THEOREM PackingRuns ==
  CompressionSpec => Spec
<1>1. CompressionInit => Init
  BY DEF CompressionInit
<1>2. [CompressionNext]_compressionVars => [Next]_vars
  BY Zenon DEF CompressionNext, compressionVars
<1>. QED BY <1>1, <1>2, PTL DEF CompressionSpec, Spec

(* With packers that fit, the layout of the constructor and the loops of   *)
(* pack keep step, for every column: see PackInv.                          *)
THEOREM PackingInvariance ==
  ASSUME PackersFit
  PROVE  CompressionSpec => []PackInv
<1>1. Init => PackInv
  BY InitPack
<1>2. PackInv /\ [Next]_vars => PackInv'
  BY NextPack
<1>. QED BY <1>1, <1>2, PackingRuns, PTL DEF Spec

(* No chunk index leaves the constructor's arrays, and the variables keep  *)
(* their types.                                                            *)
THEOREM PackingTypeCorrect ==
  ASSUME PackersFit
  PROVE  CompressionSpec => []TypeOK
<1>1. PackInv => TypeOK
  BY Invariants
<1>. QED BY <1>1, PackingInvariance, PTL

(* pack never writes outside the memory that the constructor measured and  *)
(* allocated for the packed chunks, and uses up every chunk.               *)
THEOREM LayoutIsKept ==
  ASSUME PackersFit
  PROVE  CompressionSpec => []LayoutKept
<1>1. PackInv => LayoutKept
  BY Invariants
<1>. QED BY <1>1, PackingInvariance, PTL

(* Each word of a packed chunk holds the bits of its values, each in its   *)
(* place and nothing else, for every column, width and number of lanes.    *)
THEOREM PackingIsExact ==
  ASSUME PackersFit
  PROVE  CompressionSpec => []PackedExactly
<1>1. PackInv => PackedExactly
  BY Invariants
<1>. QED BY <1>1, PackingInvariance, PTL


-----------------------------------------------------------------------------
(* The logical compression.                                                *)

(* The instance has copies of the operators on finite sets.                *)
LEMMA SameCardinality ==
  /\ \A S : Logical!IsFiniteSet(S) = IsFiniteSet(S)
  /\ \A S : Logical!Cardinality(S) = Cardinality(S)
<1>1. ASSUME NEW S PROVE Logical!IsFiniteSet(S) = IsFiniteSet(S)
  BY DEF Logical!IsFiniteSet, IsFiniteSet
<1>2. ASSUME NEW S PROVE Logical!Cardinality(S) = Cardinality(S)
  BY Zenon DEF Logical!Cardinality, Cardinality
<1>. QED BY <1>1, <1>2

LEMMA ColumnType ==
  ASSUME plain \in Columns
  PROVE  /\ Word \in Nat \ {0} /\ FrameSize \in Nat \ {0}
         /\ Logical!data_count \in Nat \ {0}
         /\ DOMAIN plain = 0 .. Logical!data_count - 1
         /\ Logical!Value = 0 .. Word - 1
         /\ plain \in [DOMAIN plain -> 0 .. Word - 1]
<1>. DEFINE n == Logical!data_count
<1>1. /\ Word \in Nat \ {0} /\ FrameSize \in Nat \ {0}
      /\ \A c \in Columns :
          /\ Logical!IsFiniteSet(DOMAIN c) /\ DOMAIN c = 0 .. Logical!Cardinality(DOMAIN c) - 1
          /\ DOMAIN c # {} /\ c \in [DOMAIN c -> Logical!Value]
  BY LogicalAssumption, Zenon DEF Logical!ParameterAssumption
<1>2. Logical!Value = 0 .. Word - 1 /\ n = Cardinality(DOMAIN plain)
  BY SameCardinality DEF Logical!Value, Logical!data_count, Logical!Count
<1>3. /\ IsFiniteSet(DOMAIN plain) /\ DOMAIN plain # {}
      /\ plain \in [DOMAIN plain -> 0 .. Word - 1]
      /\ DOMAIN plain = 0 .. n - 1
  BY <1>1, <1>2, SameCardinality, Zenon
<1>4. n \in Nat
  BY <1>2, <1>3, FS_CardinalityType
<1>5. n # 0
  <2>1. 0 .. 0 - 1 = {}
    OBVIOUS
  <2>. HIDE DEF n
  <2>. QED BY <1>3, <2>1
<1>. QED BY <1>1, <1>2, <1>3, <1>4, <1>5

LEMMA LeastOfSet ==
  ASSUME NEW S \in SUBSET Nat, S # {}
  PROVE  Logical!Min(S) \in S /\ \A y \in S : Logical!Min(S) <= y
<1>1. \E x \in S : \A y \in S : x <= y
  BY LeastElement
<1>. QED BY <1>1, Zenon DEF Logical!Min

(* The differences add up to the column, in T's arithmetic.                *)
LEMMA DeltaSums ==
  ASSUME plain \in Columns, encoded = Logical!DeltaCompressed, NEW k \in DOMAIN plain
  PROVE  Logical!MapThenSumSet(LAMBDA j : encoded[j], 0 .. k) % Word = plain[k]
<1>. DEFINE D == 0 .. k
            f == [j \in D |-> encoded[j]]
            iter == CHOOSE iter : iter = [s \in SUBSET D |->
               IF s = {} THEN 0
                 ELSE encoded[CHOOSE x \in s : TRUE] + iter[s \ {CHOOSE x \in s : TRUE}]]
            T == {m \in Nat : m <= k => iter[0 .. m] % Word = plain[m]}
<1>1. Logical!MapThenSumSet(LAMBDA j : encoded[j], 0 .. k) = iter[D]
  BY DEF Logical!MapThenSumSet, Logical!MapThenFoldSet
<1>2. /\ Word \in Nat \ {0} /\ plain \in [DOMAIN plain -> 0 .. Word - 1]
      /\ k \in Nat /\ \A m \in 0 .. k : m \in DOMAIN plain /\ m \in Nat
  BY ColumnType
<1>3. /\ IsFiniteSet(D)
      /\ PartialSums(encoded, D, iter)
  <2>1. IsFiniteSet(D)
    <3>1. 0 \in Int /\ k \in Int
      BY <1>2
    <3>. QED BY <3>1, FS_Interval
  <2>2. \E it : PartialSums(encoded, D, it)
    BY <2>1, PartialSumsExist
  <2>. QED BY <2>1, <2>2, Zenon DEF PartialSums
<1>. HIDE DEF iter
<1>4. PartialSums(f, D, iter)
  <2>1. \A s \in SUBSET D : s # {} => (CHOOSE x \in s : TRUE) \in D
    OBVIOUS
  <2>. QED BY <1>3, <2>1 DEF PartialSums
<1>5. \A m \in D : f[m] = IF m = 0 THEN plain[0] ELSE (plain[m] - plain[m - 1]) % Word
  BY <1>2 DEF Logical!DeltaCompressed
<1>6. f \in [D -> Int]
  <2>1. \A m \in D : f[m] \in Int
    BY <1>2, <1>5
  <2>. QED BY <2>1
<1>. HIDE DEF f
<1>7. iter[{}] = 0 /\ \A s \in SUBSET D : iter[s] \in Int
  <2>. HIDE DEF D
  <2>1. iter[{}] = 0
    BY <1>4, PartialSumsStep
  <2>2. \A s \in SUBSET D : iter[s] \in Int
    BY <1>3, <1>4, <1>6, PartialSumsType
  <2>. QED BY <2>1, <2>2
<1>8. \A s \in SUBSET D : \A x \in s : iter[s] = f[x] + iter[s \ {x}]
  <2>. HIDE DEF D
  <2>. SUFFICES ASSUME NEW s \in SUBSET D, NEW x \in s
                PROVE  iter[s] = f[x] + iter[s \ {x}]
    OBVIOUS
  <2>1. IsFiniteSet(D) /\ f \in [D -> Int] /\ PartialSums(f, D, iter)
    BY <1>3, <1>4, <1>6
  <2>. QED BY <2>1, PartialSumsRemove
<1>9. 0 \in T
  <2>1. 0 .. 0 = {0} /\ {0} \in SUBSET D /\ 0 \in D /\ {0} \ {0} = {}
    BY <1>2
  <2>2. iter[{0}] = f[0] + iter[{}]
    BY <2>1, <1>8
  <2>3. iter[0 .. 0] = plain[0] /\ plain[0] \in 0 .. Word - 1
    BY <2>1, <2>2, <1>2, <1>5, <1>7
  <2>4. plain[0] % Word = plain[0]
    BY <2>3, <1>2
  <2>. QED BY <2>3, <2>4
<1>10. ASSUME NEW m \in T PROVE m + 1 \in T
  <2>. SUFFICES ASSUME m + 1 <= k PROVE iter[0 .. m + 1] % Word = plain[m + 1]
    OBVIOUS
  <2>1. /\ m \in Nat /\ m + 1 \in D /\ m \in D /\ m + 1 # 0 /\ (m + 1) - 1 = m
        /\ iter[0 .. m] % Word = plain[m]
    BY <1>2
  <2>2. /\ 0 .. m + 1 \in SUBSET D /\ m + 1 \in 0 .. m + 1
        /\ (0 .. m + 1) \ {m + 1} = 0 .. m /\ 0 .. m \in SUBSET D
    BY <2>1, <1>2
  <2>. HIDE DEF T, D
  <2>3. iter[0 .. m + 1] = f[m + 1] + iter[0 .. m]
    BY <2>1, <2>2, <1>8
  <2>4. f[m + 1] = (plain[m + 1] - plain[m]) % Word
    BY <2>1, <1>5
  <2>5. /\ plain[m + 1] \in 0 .. Word - 1 /\ plain[m] \in 0 .. Word - 1
        /\ iter[0 .. m] \in Int
    BY <2>1, <2>2, <1>2, <1>7 DEF D
  <2>6. plain[m] % Word = plain[m]
    BY <2>5, <1>2, ModOfSmall
  <2>. DEFINE x == plain[m + 1]
              y == plain[m]
              s == iter[0 .. m]
  <2>7. /\ x \in 0 .. Word - 1 /\ y \in Int /\ s \in Int /\ s % Word = y % Word
    BY <2>1, <2>5, <2>6
  <2>. HIDE DEF x, y, s
  <2>8. (((x - y) % Word) + s) % Word = x
    BY <2>7, <1>2, ModOfDifference
  <2>. QED BY <2>3, <2>4, <2>8 DEF x, y, s
<1>11. T = Nat
  <2>1. T \subseteq Nat
    OBVIOUS
  <2>. HIDE DEF T
  <2>. QED BY <1>9, <1>10, <2>1, NatInductionOfSet
<1>12. k \in T /\ k <= k
  BY <1>2, <1>11
<1>13. iter[0 .. k] % Word = plain[k]
  BY <1>12
<1>. QED BY <1>1, <1>13


(* Frames, the last of which may be partial.                               *)
FrameCount(array) == (Logical!Count(array) + FrameSize - 1) \div FrameSize
EncodedIndex(array) == 0 .. FrameCount(array) * (FrameSize + 1) - 1

\* What enc is for the column once it is encoded, by whatever code.
FramesEncode(array, enc) ==
  /\ enc \in [EncodedIndex(array) -> 0 .. Word - 1]
  /\ \A frame \in 0 .. Logical!Count(array) \div FrameSize - 1 :
       enc[frame * (FrameSize + 1)] = Logical!Minimum(array, frame)
  /\ \A k \in 0 .. FrameSize - 1 : k \in DOMAIN array =>
       (enc[0] + enc[k + 1]) % Word = array[k]

\* What for_decompression makes of it.
ForDecoded(array, enc) ==
  [k \in 0 .. FrameCount(array) * FrameSize - 1 |->
     (enc[Logical!DataPosition(k)]
       + enc[(k \div FrameSize) * (FrameSize + 1)]) % Word]

LEMMA FrameNumbers ==
  ASSUME plain \in Columns
  PROVE  LET n == Logical!data_count
             q == n \div FrameSize
             m == FrameCount(plain)
         IN  /\ m \in Nat \ {0} /\ q \in Nat /\ q <= m
             /\ n = q * FrameSize + (n % FrameSize) /\ n % FrameSize \in 0 .. FrameSize - 1
             /\ m * FrameSize >= n /\ (m - 1) * FrameSize < n
             /\ n % FrameSize = 0 => m = q
             /\ Logical!Cardinality(Logical!AllFrames) = m
             /\ Logical!Frames = 0 .. q - 1
<1>. DEFINE n == Logical!data_count
            F == FrameSize
            q == n \div F
            r == n % F
            m == FrameCount(plain)
<1>1. n \in Nat \ {0} /\ F \in Nat \ {0}
  BY ColumnType
<1>2. m = (n + F - 1) \div F
  BY DEF FrameCount, Logical!data_count
<1>3. Logical!AllFrames = 0 .. m - 1 /\ Logical!Frames = 0 .. q - 1
  BY <1>2 DEF Logical!AllFrames, Logical!Frames, Logical!Array
<1>. HIDE DEF n, F, m
<1>4. m \in Int /\ m * F >= n /\ (m - 1) * F < n
  BY <1>1, <1>2, VectorsToFill
<1>5. n = F * q + r /\ r \in 0 .. F - 1 /\ q \in Int
  BY <1>1, DivMod
<1>. HIDE DEF q, r
<1>. DEFINE mF == m * F
            qF == q * F
<1>6. /\ mF \in Int /\ qF \in Int /\ F * q = qF /\ (m - 1) * F = mF - F
      /\ (m + 1) * F = mF + F /\ (q + 1) * F = qF + F
  BY <1>1, <1>4, <1>5, SMT
<1>7. m >= 1
  <2>. SUFFICES ASSUME m <= 0 PROVE FALSE
    BY <1>4
  <2>1. m * F <= 0
    BY <1>1, <1>4, SMT
  <2>. QED BY <2>1, <1>1, <1>4
<1>8. q >= 0
  <2>. SUFFICES ASSUME q <= -1 PROVE FALSE
    BY <1>5
  <2>1. F * q <= -F
    BY <1>1, <1>5, SMT
  <2>. QED BY <2>1, <1>1, <1>5
<1>9. q <= m
  <2>1. qF < (m + 1) * F
    <3>. HIDE DEF mF, qF
    <3>1. n = qF + r /\ mF >= n
      BY <1>4, <1>5, <1>6 DEF mF
    <3>. QED BY <3>1, <1>1, <1>5, <1>6
  <2>2. q < m + 1
    BY <2>1, <1>1, <1>4, <1>5, ProductOrder
  <2>. QED BY <2>2, <1>4, <1>5
<1>10. ASSUME r = 0 PROVE m = q
  <2>1. (m - 1) * F < q * F
    BY <1>4, <1>5, <1>6, <1>10
  <2>2. m - 1 < q
    <3>. DEFINE p == m - 1
    <3>1. p \in Int /\ p * F < q * F
      BY <2>1, <1>4
    <3>. HIDE DEF p
    <3>2. p < q
      BY <3>1, <1>1, <1>5, ProductOrder
    <3>. QED BY <3>2 DEF p
  <2>. QED BY <2>2, <1>4, <1>5, <1>9
<1>11. Logical!Cardinality(Logical!AllFrames) = m
  <2>1. Cardinality(0 .. m - 1) = m
    <3>1. 0 \in Int /\ m - 1 \in Int /\ ~ (0 > m - 1) /\ (m - 1) - 0 + 1 = m
      BY <1>4, <1>7
    <3>. QED BY <3>1, FS_Interval
  <2>. QED BY <2>1, <1>3, SameCardinality
<1>12. n = q * F + r
  BY <1>5, <1>6
<1>. QED BY <1>1, <1>3, <1>4, <1>5, <1>7, <1>8, <1>9, <1>10, <1>11, <1>12 DEF n, F, q, r, m

(* A place in an encoded column is a frame and a position, the first of    *)
(* which is the minimum.                                                   *)
LEMMA PlaceInFrame ==
  ASSUME plain \in Columns, NEW frame \in 0 .. FrameCount(plain) - 1,
         NEW position \in 0 .. FrameSize
  PROVE  LET k == frame * (FrameSize + 1) + position
         IN  /\ k \in EncodedIndex(plain)
             /\ k \div (FrameSize + 1) = frame /\ k % (FrameSize + 1) = position
<1>. DEFINE F == FrameSize + 1
            m == FrameCount(plain)
<1>1. /\ F \in Nat \ {0} /\ m \in Nat \ {0} /\ position \in 0 .. F - 1
      /\ frame \in Nat /\ frame + 1 \in Nat /\ frame + 1 <= m
  <2>1. m \in Nat \ {0}
    BY FrameNumbers
  <2>2. F \in Nat \ {0} /\ position \in 0 .. F - 1
    BY ColumnType
  <2>. HIDE DEF F, m
  <2>3. frame \in 0 .. m - 1
    BY DEF m
  <2>. QED BY <2>1, <2>2, <2>3
<1>2. EncodedIndex(plain) = 0 .. m * F - 1
  BY DEF EncodedIndex
<1>. HIDE DEF F, m
<1>3. /\ (frame * F + position) \div F = frame /\ (frame * F + position) % F = position
  BY <1>1, BitOfLane
<1>. DEFINE a == frame * F
            e == m * F
<1>4. /\ a \in Nat /\ (frame + 1) * F = a + F /\ (frame + 1) * F <= e /\ e \in Nat
  BY <1>1, ProductMonotone, ProductSuccessor
<1>. HIDE DEF a, e
<1>5. a + position \in 0 .. e - 1
  BY <1>1, <1>4
<1>. QED BY <1>2, <1>3, <1>5 DEF a, e, F

(* Each place is one of these.                                             *)
LEMMA FrameOfPlace ==
  ASSUME plain \in Columns, NEW b \in Nat \ {0},
         NEW k \in 0 .. FrameCount(plain) * b - 1
  PROVE  /\ k \div b \in 0 .. FrameCount(plain) - 1 /\ k % b \in 0 .. b - 1
         /\ k = (k \div b) * b + (k % b)
<1>. DEFINE m == FrameCount(plain)
            f == k \div b
            p == k % b
<1>1. m \in Nat /\ m * b \in Nat
  BY FrameNumbers, ProductMonotone
<1>2. k \in Nat /\ k < m * b
  <2>. DEFINE e == m * b
  <2>1. e \in Nat /\ k \in 0 .. e - 1
    BY <1>1
  <2>. HIDE DEF e
  <2>2. k \in Nat /\ k < e
    BY <2>1
  <2>. QED BY <2>2 DEF e
<1>. HIDE DEF m
<1>3. k = b * f + p /\ p \in 0 .. b - 1 /\ f \in Int
  <2>1. k \in Int /\ b \in Nat \ {0}
    BY <1>2
  <2>. QED BY <2>1, DivMod
<1>. HIDE DEF f, p
<1>4. b * f = f * b /\ f * b \in Int /\ (f + 1) * b = f * b + b
  BY <1>3, SMT
<1>5. f < m
  <2>1. f * b < m * b
    BY <1>1, <1>2, <1>3, <1>4
  <2>. QED BY <2>1, <1>1, <1>3, ProductOrder
<1>6. f >= 0
  <2>. SUFFICES ASSUME f <= -1 PROVE FALSE
    BY <1>3
  <2>1. f * b <= -b
    BY <1>3, SMT
  <2>. QED BY <2>1, <1>2, <1>3, <1>4
<1>7. k = f * b + p
  BY <1>3, <1>4
<1>. QED BY <1>1, <1>3, <1>5, <1>6, <1>7 DEF f, p, m


(* The elements of a full frame are in the column, and the minimum is one  *)
(* of them.                                                                *)
LEMMA MinimumOfFrame ==
  ASSUME plain \in Columns,
         NEW frame \in 0 .. Logical!data_count \div FrameSize - 1
  PROVE  LET low == Logical!Minimum(plain, frame)
         IN  /\ low \in 0 .. Word - 1
             /\ \A p \in 0 .. FrameSize - 1 :
                  frame * FrameSize + p \in DOMAIN plain /\ low <= plain[frame * FrameSize + p]
             /\ \E p \in 0 .. FrameSize - 1 : low = plain[frame * FrameSize + p]
<1>. DEFINE n == Logical!data_count
            F == FrameSize
            q == n \div F
            S == {plain[frame * F + p] : p \in 0 .. F - 1}
<1>1. /\ n \in Nat \ {0} /\ F \in Nat \ {0} /\ Word \in Nat \ {0} /\ DOMAIN plain = 0 .. n - 1
      /\ plain \in [DOMAIN plain -> 0 .. Word - 1]
  BY ColumnType
<1>2. q \in Nat
  BY FrameNumbers
<1>12. n = q * F + (n % F) /\ n % F \in 0 .. F - 1
  BY FrameNumbers
<1>. HIDE DEF n, F, q
<1>3. frame \in 0 .. q - 1
  BY DEF q, n, F
<1>4. ASSUME NEW p \in 0 .. F - 1 PROVE frame * F + p \in DOMAIN plain
  <2>. DEFINE a == frame * F
              e == q * F
  <2>1. /\ a \in Nat /\ (frame + 1) * F = a + F /\ (frame + 1) * F <= e /\ e \in Nat
    <3>1. frame \in Nat /\ frame + 1 \in Nat /\ frame + 1 <= q /\ q \in Nat /\ F \in Nat
      BY <1>1, <1>2, <1>3
    <3>. QED BY <3>1, ProductMonotone, ProductSuccessor
  <2>2. e <= n
    <3>. HIDE DEF a
    <3>1. e \in Nat /\ n = e + (n % F)
      BY <1>12, <2>1
    <3>. HIDE DEF e
    <3>. QED BY <3>1, <1>1, <1>12
  <2>. HIDE DEF a, e
  <2>3. a + p \in 0 .. n - 1
    BY <1>1, <2>1, <2>2
  <2>. QED BY <2>3, <1>1 DEF a
<1>5. S \in SUBSET (0 .. Word - 1) /\ S # {}
  <2>1. 0 \in 0 .. F - 1
    BY <1>1
  <2>. QED BY <2>1, <1>1, <1>4
<1>6. S \in SUBSET Nat
  BY <1>1, <1>5
<1>7. Logical!Minimum(plain, frame) = Logical!Min(S)
  BY DEF Logical!Minimum, Logical!Position, Logical!Array, F
<1>. HIDE DEF S
<1>8. Logical!Min(S) \in S /\ \A y \in S : Logical!Min(S) <= y
  BY <1>5, <1>6, LeastOfSet
<1>9. \A p \in 0 .. F - 1 : plain[frame * F + p] \in S
  BY DEF S
<1>10. \E p \in 0 .. F - 1 : Logical!Min(S) = plain[frame * F + p]
  BY <1>8 DEF S
<1>11. Logical!Min(S) \in 0 .. Word - 1
  BY <1>5, <1>8
<1>. QED BY <1>4, <1>7, <1>8, <1>9, <1>10, <1>11 DEF F

(* The reference encoding is one.                                          *)
LEMMA ForOfEncodes ==
  ASSUME plain \in Columns, Logical!data_count % FrameSize = 0
  PROVE  /\ FramesEncode(plain, Logical!ForOf(plain))
         /\ \A frame \in 0 .. FrameCount(plain) - 1 : \A p \in 0 .. FrameSize - 1 :
              Logical!ForOf(plain)[frame * (FrameSize + 1) + (p + 1)]
                = plain[frame * FrameSize + p] - Logical!Minimum(plain, frame)
<1>. DEFINE n == Logical!data_count
            F == FrameSize
            m == FrameCount(plain)
            enc == Logical!ForOf(plain)
            Low(f) == Logical!Minimum(plain, f)
<1>1. /\ n \in Nat \ {0} /\ F \in Nat \ {0} /\ Word \in Nat \ {0} /\ DOMAIN plain = 0 .. n - 1
      /\ plain \in [DOMAIN plain -> 0 .. Word - 1] /\ m \in Nat \ {0}
  BY ColumnType, FrameNumbers
<1>0. m = n \div F /\ n = m * F + (n % F)
  BY FrameNumbers
<1>2. n + n \div F = m * (F + 1) /\ n = Logical!Count(plain)
  <2>1. m * (F + 1) = m * F + m
    BY <1>1, SMT
  <2>2. n % F = 0 /\ n = Logical!Count(plain)
    BY DEF Logical!data_count
  <2>. QED BY <2>1, <2>2, <1>0, <1>1
<1>3. DOMAIN enc = EncodedIndex(plain)
  BY <1>2 DEF EncodedIndex, Logical!ForOf, Logical!Array
<1>4. ASSUME NEW f \in 0 .. m - 1, NEW p \in 0 .. F
      PROVE  /\ f * (F + 1) + p \in EncodedIndex(plain)
             /\ enc[f * (F + 1) + p] = IF p = 0 THEN Low(f)
                                        ELSE plain[f * F + p - 1] - Low(f)
  <2>. DEFINE k == f * (F + 1) + p
  <2>1. k \in EncodedIndex(plain) /\ k \div (F + 1) = f /\ k % (F + 1) = p
    BY PlaceInFrame
  <2>. HIDE DEF k
  <2>2. k \in Logical!Array(Logical!Count(plain) + Logical!Count(plain) \div FrameSize)
    BY <1>2, <2>1 DEF EncodedIndex, Logical!Array
  <2>3. enc[k] = LET frame == k \div (FrameSize + 1)
                     position == k % (FrameSize + 1)
                 IN  IF position = 0 THEN Logical!Minimum(plain, frame)
                     ELSE plain[frame * FrameSize + position - 1] - Logical!Minimum(plain, frame)
    BY <2>2, Zenon DEF Logical!ForOf
  <2>4. enc[k] = IF p = 0 THEN Low(f) ELSE plain[f * F + p - 1] - Low(f)
    <3>. HIDE DEF enc
    <3>. QED BY <2>1, <2>3
  <2>. QED BY <2>1, <2>4 DEF k
<1>. HIDE DEF n, F, m, enc, Low
<1>5. ASSUME NEW f \in 0 .. m - 1
      PROVE  /\ Low(f) \in 0 .. Word - 1
             /\ \A p \in 0 .. F - 1 : f * F + p \in DOMAIN plain /\ Low(f) <= plain[f * F + p]
  <2>1. f \in 0 .. Logical!data_count \div FrameSize - 1
    BY <1>0 DEF n, F
  <2>. QED BY <2>1, MinimumOfFrame DEF Low, F
<1>6. ASSUME NEW f \in 0 .. m - 1, NEW p \in 0 .. F - 1
      PROVE  enc[f * (F + 1) + (p + 1)] = plain[f * F + p] - Low(f)
  <2>1. p + 1 \in 0 .. F /\ p + 1 # 0 /\ f * F + (p + 1) - 1 = f * F + p
    <3>1. f * F \in Int
      BY <1>1, SMT
    <3>. QED BY <3>1, <1>1
  <2>. QED BY <2>1, <1>4
<1>7. ASSUME NEW k \in EncodedIndex(plain) PROVE enc[k] \in 0 .. Word - 1
  <2>. DEFINE f == k \div (F + 1)
              p == k % (F + 1)
  <2>1. f \in 0 .. m - 1 /\ p \in 0 .. (F + 1) - 1 /\ k = f * (F + 1) + p
    <3>1. F + 1 \in Nat \ {0} /\ k \in 0 .. FrameCount(plain) * (F + 1) - 1
      BY <1>1 DEF EncodedIndex, F
    <3>. QED BY <3>1, FrameOfPlace DEF m
  <2>. HIDE DEF f, p
  <2>2. CASE p = 0
    <3>1. enc[f * (F + 1) + p] = Low(f)
      <4>1. p \in 0 .. F
        BY <2>2, <1>1
      <4>. QED BY <2>1, <2>2, <4>1, <1>4, Zenon
    <3>. QED BY <3>1, <2>1, <1>5
  <2>3. CASE p # 0
    <3>1. p - 1 \in 0 .. F - 1 /\ (p - 1) + 1 = p
      BY <2>1, <2>3, <1>1
    <3>. DEFINE j == p - 1
    <3>2. j \in 0 .. F - 1 /\ j + 1 = p
      BY <3>1
    <3>. HIDE DEF j
    <3>3. enc[k] = plain[f * F + j] - Low(f)
      BY <3>2, <2>1, <1>6
    <3>4. /\ f * F + j \in DOMAIN plain /\ Low(f) <= plain[f * F + j]
          /\ Low(f) \in 0 .. Word - 1
      BY <3>2, <2>1, <1>5
    <3>5. plain[f * F + j] \in 0 .. Word - 1
      BY <3>4, <1>1
    <3>. QED BY <3>3, <3>4, <3>5, <1>1
  <2>. QED BY <2>2, <2>3
<1>8. enc \in [EncodedIndex(plain) -> 0 .. Word - 1]
  <2>1. enc = [k \in EncodedIndex(plain) |-> enc[k]]
    BY <1>3 DEF enc, Logical!ForOf
  <2>. QED BY <2>1, <1>7
<1>9. ASSUME NEW f \in 0 .. Logical!Count(plain) \div FrameSize - 1
      PROVE  enc[f * (FrameSize + 1)] = Logical!Minimum(plain, f)
  <2>1. f \in 0 .. m - 1 /\ f \in Int /\ 0 \in 0 .. F
    BY <1>0, <1>1, <1>2 DEF F
  <2>2. f * (F + 1) + 0 = f * (F + 1)
    BY <2>1, <1>1, SMT
  <2>3. enc[f * (F + 1) + 0] = Low(f)
    BY <2>1, <1>4
  <2>. QED BY <2>2, <2>3 DEF F, Low
<1>10. ASSUME NEW k \in 0 .. F - 1
       PROVE  (enc[0] + enc[k + 1]) % Word = plain[k]
  <2>1. 0 \in 0 .. m - 1 /\ 0 \in 0 .. F /\ 0 * (F + 1) + 0 = 0 /\ 0 * (F + 1) + (k + 1) = k + 1
        /\ 0 * F + k = k
    BY <1>1
  <2>2. enc[0] = Low(0)
    BY <2>1, <1>4
  <2>3. enc[k + 1] = plain[k] - Low(0)
    BY <2>1, <1>6
  <2>4. Low(0) \in 0 .. Word - 1 /\ k \in DOMAIN plain
    BY <2>1, <1>5
  <2>5. plain[k] \in 0 .. Word - 1
    BY <2>4, <1>1
  <2>6. enc[0] + enc[k + 1] = plain[k]
    BY <2>2, <2>3, <2>4, <2>5
  <2>7. plain[k] % Word = plain[k]
    BY <2>5, <1>1, ModOfSmall
  <2>. QED BY <2>6, <2>7
<1>11. FramesEncode(plain, enc)
  BY <1>8, <1>9, <1>10 DEF FramesEncode, F
<1>. QED BY <1>6, <1>11 DEF enc, m, F, Low


(* Behind the column, a frame reads values of T that are not the column's. *)
LEMMA ReadType ==
  ASSUME plain \in Columns, NEW junk \in Logical!Junk,
         NEW k \in Nat, k < Logical!data_count + FrameSize
  PROVE  /\ Logical!Read(plain, k, junk) \in 0 .. Word - 1
         /\ k \in DOMAIN plain => Logical!Read(plain, k, junk) = plain[k]
<1>. DEFINE n == Logical!data_count
<1>1. /\ n \in Nat /\ FrameSize \in Nat \ {0} /\ DOMAIN plain = 0 .. n - 1
      /\ plain \in [DOMAIN plain -> 0 .. Word - 1] /\ n = Logical!Count(plain)
      /\ junk \in [0 .. FrameSize - 1 -> 0 .. Word - 1]
  BY ColumnType DEF Logical!data_count, Logical!Junk, Logical!Position, Logical!Array,
                    Logical!Value
<1>2. k < n + FrameSize
  OBVIOUS
<1>. HIDE DEF n
<1>3. k \notin DOMAIN plain => k - n \in 0 .. FrameSize - 1
  BY <1>1, <1>2
<1>. QED BY <1>1, <1>3 DEF Logical!Read

LEMMA FrameMinType ==
  ASSUME plain \in Columns, NEW junk \in Logical!Junk,
         NEW frame \in 0 .. FrameCount(plain) - 1
  PROVE  /\ Logical!FrameMin(frame, junk) \in 0 .. Word - 1
         /\ frame < Logical!data_count \div FrameSize =>
              Logical!FrameMin(frame, junk) = Logical!Minimum(plain, frame)
<1>. DEFINE n == Logical!data_count
            F == FrameSize
            m == FrameCount(plain)
            low == Logical!FrameMin(frame, junk)
            Part == {Logical!Read(plain, frame * F + p, junk) : p \in 0 .. F - 1}
            S == {Word - 1} \union Part
<1>1. /\ n \in Nat /\ F \in Nat \ {0} /\ Word \in Nat \ {0}
      /\ plain \in [DOMAIN plain -> 0 .. Word - 1]
  BY ColumnType
<1>2. m \in Nat \ {0} /\ (m - 1) * F < n
  BY FrameNumbers
<1>3. n \div F \in Nat
  BY FrameNumbers
<1>. HIDE DEF n, m
<1>4. frame \in Nat /\ frame <= m - 1 /\ m - 1 \in Nat
  BY <1>2 DEF m
<1>5. frame * F \in Nat /\ frame * F < n
  <2>1. frame * F \in Nat /\ frame * F <= (m - 1) * F
    BY <1>1, <1>4, ProductMonotone
  <2>2. (m - 1) * F \in Int
    BY <1>1, <1>4, SMT
  <2>. QED BY <2>1, <2>2, <1>1, <1>2
<1>6. ASSUME NEW p \in 0 .. F - 1
      PROVE  LET k == frame * F + p
             IN  /\ Logical!Read(plain, k, junk) \in 0 .. Word - 1
                 /\ k \in DOMAIN plain => Logical!Read(plain, k, junk) = plain[k]
  <2>. DEFINE k == frame * F + p
  <2>1. k \in Nat /\ k < n + F
    BY <1>1, <1>5
  <2>. HIDE DEF k
  <2>2. k < Logical!data_count + FrameSize
    BY <2>1 DEF n, F
  <2>3. /\ Logical!Read(plain, k, junk) \in 0 .. Word - 1
        /\ k \in DOMAIN plain => Logical!Read(plain, k, junk) = plain[k]
    BY <2>1, <2>2, ReadType
  <2>. QED BY <2>3 DEF k
<1>7. low = Logical!Min(S)
  BY DEF Logical!FrameMin, Logical!Position, Logical!Array, F
<1>8. S \in SUBSET (0 .. Word - 1) /\ S \in SUBSET Nat /\ S # {} /\ Word - 1 \in S
  <2>1. Part \in SUBSET (0 .. Word - 1)
    BY <1>6
  <2>. HIDE DEF Part
  <2>. QED BY <2>1, <1>1
<1>9. Part = S \ {Word - 1} \/ Part = S
  <2>. HIDE DEF Part
  <2>. QED OBVIOUS
<1>. HIDE DEF S, low
<1>10. low \in S /\ (\A y \in S : low <= y) /\ low \in 0 .. Word - 1
  BY <1>7, <1>8, LeastOfSet
<1>11. ASSUME frame < n \div F PROVE low = Logical!Minimum(plain, frame)
  <2>. DEFINE least == Logical!Minimum(plain, frame)
  <2>1. frame \in 0 .. Logical!data_count \div FrameSize - 1
    BY <1>3, <1>4, <1>11 DEF n, F
  <2>2. /\ least \in 0 .. Word - 1
        /\ \A p \in 0 .. F - 1 : frame * F + p \in DOMAIN plain /\ least <= plain[frame * F + p]
        /\ \E p \in 0 .. F - 1 : least = plain[frame * F + p]
    BY <2>1, MinimumOfFrame DEF F
  <2>. HIDE DEF least
  <2>3. Part = {plain[frame * F + p] : p \in 0 .. F - 1}
    BY <2>2, <1>6
  <2>4. least \in S
    BY <2>2, <2>3 DEF S
  <2>5. \A y \in S : least <= y
    <3>1. \A y \in Part : least <= y
      BY <2>2, <2>3
    <3>2. least <= Word - 1
      BY <2>2, <1>1
    <3>. HIDE DEF Part
    <3>. QED BY <3>1, <3>2 DEF S
  <2>6. low <= least /\ least <= low /\ low \in Int /\ least \in Int
    BY <2>2, <2>4, <2>5, <1>1, <1>10
  <2>. QED BY <2>6 DEF least
<1>. QED BY <1>10, <1>11 DEF n, F, low

(* So is what for_compression stores.                                      *)
LEMMA CompressedEncodes ==
  ASSUME plain \in Columns, NEW junk \in Logical!Junk, NEW enc,
         enc = [k \in Logical!Array(Logical!Cardinality(Logical!AllFrames) * (FrameSize + 1)) |->
                  LET frame == k \div (FrameSize + 1)
                      position == k % (FrameSize + 1)
                  IN  IF position = 0 THEN Logical!FrameMin(frame, junk)
                      ELSE (Logical!Read(plain, position - 1, junk)
                              - Logical!FrameMin(frame, junk)) % Word]
  PROVE  FramesEncode(plain, enc)
<1>. DEFINE n == Logical!data_count
            F == FrameSize
            m == FrameCount(plain)
            Low(f) == Logical!FrameMin(f, junk)
            Raw(p) == Logical!Read(plain, p - 1, junk)
<1>1. /\ n \in Nat \ {0} /\ F \in Nat \ {0} /\ Word \in Nat \ {0} /\ DOMAIN plain = 0 .. n - 1
      /\ plain \in [DOMAIN plain -> 0 .. Word - 1] /\ m \in Nat \ {0}
  BY ColumnType, FrameNumbers
<1>2. /\ Logical!Array(Logical!Cardinality(Logical!AllFrames) * (FrameSize + 1))
           = EncodedIndex(plain)
      /\ n = Logical!Count(plain)
  BY FrameNumbers DEF EncodedIndex, Logical!Array, Logical!data_count
<1>3. ASSUME NEW f \in 0 .. m - 1, NEW p \in 0 .. F
      PROVE  enc[f * (F + 1) + p] = IF p = 0 THEN Low(f) ELSE (Raw(p) - Low(f)) % Word
  <2>. DEFINE k == f * (F + 1) + p
  <2>1. k \in EncodedIndex(plain) /\ k \div (F + 1) = f /\ k % (F + 1) = p
    BY PlaceInFrame
  <2>. HIDE DEF k
  <2>2. enc[k] = LET frame == k \div (FrameSize + 1)
                     position == k % (FrameSize + 1)
                 IN  IF position = 0 THEN Logical!FrameMin(frame, junk)
                     ELSE (Logical!Read(plain, position - 1, junk)
                             - Logical!FrameMin(frame, junk)) % Word
    BY <1>2, <2>1, Zenon
  <2>3. enc[k] = IF p = 0 THEN Low(f) ELSE (Raw(p) - Low(f)) % Word
    BY <2>1, <2>2
  <2>. QED BY <2>3 DEF k
<1>4. DOMAIN enc = EncodedIndex(plain) /\ enc = [k \in DOMAIN enc |-> enc[k]]
  BY <1>2
<1>5. ASSUME NEW f \in 0 .. m - 1
      PROVE  /\ Low(f) \in 0 .. Word - 1
             /\ f < n \div F => Low(f) = Logical!Minimum(plain, f)
  BY FrameMinType
<1>6. ASSUME NEW p \in 1 .. F
      PROVE  Raw(p) \in 0 .. Word - 1 /\ (p - 1 \in DOMAIN plain => Raw(p) = plain[p - 1])
  <2>. DEFINE k == p - 1
  <2>1. k \in Nat /\ k < n + F
    <3>. HIDE DEF n, F
    <3>. QED BY <1>1
  <2>. HIDE DEF k
  <2>2. /\ Logical!Read(plain, k, junk) \in 0 .. Word - 1
        /\ k \in DOMAIN plain => Logical!Read(plain, k, junk) = plain[k]
    BY <2>1, ReadType
  <2>. QED BY <2>2 DEF k
<1>7. n \div F <= m /\ n \div F \in Nat
  BY FrameNumbers
<1>. DEFINE q == n \div F
<1>8. q <= m /\ q \in Nat
  BY <1>7
<1>9. \A f \in 0 .. m - 1 : f < q => Low(f) = Logical!Minimum(plain, f)
  BY <1>5
<1>10. q = Logical!Count(plain) \div FrameSize
  BY <1>2
<1>. HIDE DEF n, F, m, Low, Raw, q
<1>11. ASSUME NEW k \in EncodedIndex(plain) PROVE enc[k] \in 0 .. Word - 1
  <2>. DEFINE f == k \div (F + 1)
              p == k % (F + 1)
  <2>1. f \in 0 .. m - 1 /\ p \in 0 .. (F + 1) - 1 /\ k = f * (F + 1) + p
    <3>1. F + 1 \in Nat \ {0} /\ k \in 0 .. FrameCount(plain) * (F + 1) - 1
      BY <1>1 DEF EncodedIndex, F
    <3>. QED BY <3>1, FrameOfPlace DEF m
  <2>. HIDE DEF f, p
  <2>2. p \in 0 .. F /\ (p # 0 => p \in 1 .. F)
    BY <2>1, <1>1
  <2>3. enc[k] = IF p = 0 THEN Low(f) ELSE (Raw(p) - Low(f)) % Word
    BY <2>1, <2>2, <1>3, Zenon
  <2>4. CASE p = 0
    BY <2>1, <2>3, <2>4, <1>5
  <2>5. CASE p # 0
    <3>1. Raw(p) \in Int /\ Low(f) \in Int
      BY <2>1, <2>2, <2>5, <1>1, <1>5, <1>6
    <3>. DEFINE d == Raw(p) - Low(f)
    <3>2. d \in Int /\ enc[k] = d % Word
      BY <3>1, <2>3, <2>5
    <3>. HIDE DEF d
    <3>. QED BY <3>2, <1>1, DivMod
  <2>. QED BY <2>4, <2>5
<1>12. ASSUME NEW f \in 0 .. q - 1
       PROVE  enc[f * (FrameSize + 1)] = Logical!Minimum(plain, f)
  <2>1. f \in 0 .. m - 1 /\ f \in Int /\ 0 \in 0 .. F /\ f < q
    BY <1>1, <1>8
  <2>2. f * (F + 1) + 0 = f * (F + 1)
    BY <2>1, <1>1, SMT
  <2>3. enc[f * (F + 1) + 0] = Low(f)
    BY <2>1, <1>3
  <2>4. Low(f) = Logical!Minimum(plain, f)
    BY <2>1, <1>9
  <2>. QED BY <2>2, <2>3, <2>4 DEF F
<1>13. ASSUME NEW k \in 0 .. F - 1, k \in DOMAIN plain
       PROVE  (enc[0] + enc[k + 1]) % Word = plain[k]
  <2>1. /\ 0 \in 0 .. m - 1 /\ 0 \in 0 .. F /\ 0 * (F + 1) + 0 = 0
        /\ 0 * (F + 1) + (k + 1) = k + 1 /\ k + 1 \in 0 .. F /\ k + 1 # 0
        /\ k + 1 \in 1 .. F /\ (k + 1) - 1 = k
    BY <1>1
  <2>2. enc[0] = Low(0)
    BY <2>1, <1>3
  <2>3. enc[k + 1] = (Raw(k + 1) - Low(0)) % Word
    BY <2>1, <1>3
  <2>4. Low(0) \in Int /\ Raw(k + 1) = plain[k] /\ plain[k] \in 0 .. Word - 1
    BY <2>1, <1>1, <1>5, <1>6, <1>13
  <2>. DEFINE x == plain[k]
              y == Low(0)
              d == (x - y) % Word
  <2>5. /\ x \in 0 .. Word - 1 /\ y \in Int /\ enc[0] = y /\ enc[k + 1] = d
    BY <2>2, <2>3, <2>4
  <2>. HIDE DEF x, y
  <2>6. (d + y) % Word = x
    BY <2>5, <1>1, ModOfDifference
  <2>7. d \in Int
    BY <2>5, <1>1
  <2>. HIDE DEF d
  <2>. QED BY <2>5, <2>6, <2>7 DEF x
<1>14. enc \in [EncodedIndex(plain) -> 0 .. Word - 1]
  BY <1>4, <1>11
<1>. QED BY <1>10, <1>12, <1>13, <1>14 DEF FramesEncode, F


(* What decompression yields.                                              *)
LEMMA DecodedPlaces ==
  ASSUME plain \in Columns, NEW enc, NEW k \in 0 .. FrameCount(plain) * FrameSize - 1
  PROVE  LET f == k \div FrameSize
             p == k % FrameSize
         IN  /\ f \in 0 .. FrameCount(plain) - 1 /\ p \in 0 .. FrameSize - 1
             /\ k = f * FrameSize + p
             /\ f * (FrameSize + 1) + (p + 1) \in EncodedIndex(plain)
             /\ f * (FrameSize + 1) \in EncodedIndex(plain)
             /\ ForDecoded(plain, enc)[k] =
                  (enc[f * (FrameSize + 1) + (p + 1)] + enc[f * (FrameSize + 1)]) % Word
<1>. DEFINE F == FrameSize
            f == k \div F
            p == k % F
<1>1. F \in Nat \ {0}
  BY ColumnType
<1>2. f \in 0 .. FrameCount(plain) - 1 /\ p \in 0 .. F - 1 /\ k = f * F + p
  BY <1>1, FrameOfPlace
<1>3. ForDecoded(plain, enc)[k] = (enc[Logical!DataPosition(k)] + enc[f * (F + 1)]) % Word
  BY DEF ForDecoded
<1>4. Logical!DataPosition(k) = f * (F + 1) + 1 + p
  BY DEF Logical!DataPosition
<1>. HIDE DEF f, p
<1>5. f \in Int /\ f * (F + 1) \in Int /\ f * (F + 1) + 0 = f * (F + 1)
      /\ p + 1 \in 0 .. FrameSize /\ 0 \in 0 .. FrameSize
      /\ f * (F + 1) + 1 + p = f * (F + 1) + (p + 1)
  <2>1. f \in Int /\ p \in 0 .. F - 1
    BY <1>2
  <2>2. f * (F + 1) \in Int
    BY <2>1, <1>1, SMT
  <2>. QED BY <2>1, <2>2, <1>1
<1>6. /\ f * (F + 1) + (p + 1) \in EncodedIndex(plain)
      /\ f * (F + 1) + 0 \in EncodedIndex(plain)
  BY <1>2, <1>5, PlaceInFrame
<1>. QED BY <1>2, <1>3, <1>4, <1>5, <1>6 DEF f, p

LEMMA DecodedType ==
  ASSUME plain \in Columns, NEW enc, FramesEncode(plain, enc)
  PROVE  \A k \in DOMAIN ForDecoded(plain, enc) : ForDecoded(plain, enc)[k] \in 0 .. Word - 1
<1>. SUFFICES ASSUME NEW k \in 0 .. FrameCount(plain) * FrameSize - 1
              PROVE  ForDecoded(plain, enc)[k] \in 0 .. Word - 1
  BY DEF ForDecoded
<1>. DEFINE a == (k \div FrameSize) * (FrameSize + 1) + ((k % FrameSize) + 1)
            b == (k \div FrameSize) * (FrameSize + 1)
<1>1. /\ a \in EncodedIndex(plain) /\ b \in EncodedIndex(plain)
      /\ ForDecoded(plain, enc)[k] = (enc[a] + enc[b]) % Word
  BY DecodedPlaces
<1>. HIDE DEF a, b
<1>2. Word \in Nat \ {0} /\ enc[a] \in Int /\ enc[b] \in Int
  BY <1>1, ColumnType DEF FramesEncode
<1>. DEFINE s == enc[a] + enc[b]
<1>3. s \in Int /\ ForDecoded(plain, enc)[k] = s % Word
  BY <1>1, <1>2
<1>. HIDE DEF s
<1>. QED BY <1>2, <1>3, DivMod

LEMMA DecodedInverts ==
  ASSUME plain \in Columns, Logical!data_count % FrameSize = 0
  PROVE  ForDecoded(plain, Logical!ForOf(plain)) = plain
<1>. DEFINE n == Logical!data_count
            F == FrameSize
            m == FrameCount(plain)
            enc == Logical!ForOf(plain)
<1>1. /\ n \in Nat \ {0} /\ F \in Nat \ {0} /\ Word \in Nat \ {0} /\ DOMAIN plain = 0 .. n - 1
      /\ plain \in [DOMAIN plain -> 0 .. Word - 1]
  BY ColumnType
<1>2. m * F = n
  <2>1. n % F = 0 /\ n = (n \div F) * F + (n % F) /\ m = n \div F
    BY FrameNumbers
  <2>2. m * F \in Int
    BY FrameNumbers, <1>1, SMT
  <2>. HIDE DEF n, F, m
  <2>3. n = m * F + 0
    BY <2>1
  <2>. QED BY <2>2, <2>3
<1>3. ASSUME NEW k \in 0 .. n - 1 PROVE ForDecoded(plain, enc)[k] = plain[k]
  <2>. DEFINE f == k \div F
              p == k % F
              low == Logical!Minimum(plain, f)
  <2>1. /\ f \in 0 .. m - 1 /\ p \in 0 .. F - 1 /\ k = f * F + p
        /\ ForDecoded(plain, enc)[k] = (enc[f * (F + 1) + (p + 1)] + enc[f * (F + 1)]) % Word
    <3>1. k \in 0 .. FrameCount(plain) * FrameSize - 1
      BY <1>2
    <3>. QED BY <3>1, DecodedPlaces
  <2>2. enc[f * (F + 1) + (p + 1)] = plain[f * F + p] - low
    BY <2>1, ForOfEncodes
  <2>3. f \in 0 .. n \div F - 1 /\ n = Logical!Count(plain)
    BY <2>1, FrameNumbers DEF Logical!data_count
  <2>4. enc[f * (F + 1)] = low
    BY <2>3, ForOfEncodes DEF FramesEncode
  <2>5. low \in 0 .. Word - 1
    BY <2>3, MinimumOfFrame
  <2>6. plain[k] \in 0 .. Word - 1
    BY <1>1
  <2>. HIDE DEF n, F, m, enc, f, p, low
  <2>7. enc[f * (F + 1) + (p + 1)] + enc[f * (F + 1)] = plain[k]
    BY <2>1, <2>2, <2>4, <2>5, <2>6, <1>1
  <2>8. plain[k] % Word = plain[k]
    BY <2>6, <1>1, ModOfSmall
  <2>. QED BY <2>1, <2>7, <2>8
<1>4. DOMAIN ForDecoded(plain, enc) = 0 .. n - 1
  BY <1>2 DEF ForDecoded
<1>5. ForDecoded(plain, enc) = [k \in 0 .. n - 1 |-> ForDecoded(plain, enc)[k]]
  BY <1>4 DEF ForDecoded
<1>. HIDE DEF n, enc
<1>6. plain = [k \in 0 .. n - 1 |-> plain[k]]
  BY <1>1
<1>. QED BY <1>3, <1>5, <1>6 DEF enc


-----------------------------------------------------------------------------
(* The inductive invariant of logical compression.                         *)

LogicalInv ==
  /\ plain \in Columns /\ scheme \in {"delta", "for"}
  /\ stage \in {"column", "encoded", "decoded"}
  /\ stage = "column" => encoded = <<>>
  /\ stage # "column" /\ scheme = "delta" => encoded = Logical!DeltaCompressed
  /\ stage # "column" /\ scheme = "for" => FramesEncode(plain, encoded)
  /\ stage # "decoded" => decoded = <<>>
  /\ stage = "decoded" /\ scheme = "delta" =>
       \A k \in DOMAIN decoded : decoded[k] \in 0 .. Word - 1
  /\ stage = "decoded" /\ scheme = "for" => decoded = ForDecoded(plain, encoded)

(* The differences of a column are values.                                 *)
LEMMA DeltaType ==
  ASSUME plain \in Columns
  PROVE  Logical!DeltaCompressed \in [DOMAIN plain -> 0 .. Word - 1]
<1>1. /\ Word \in Nat \ {0} /\ plain \in [DOMAIN plain -> 0 .. Word - 1]
      /\ Logical!data_count \in Nat \ {0} /\ DOMAIN plain = 0 .. Logical!data_count - 1
  BY ColumnType
<1>2. ASSUME NEW k \in DOMAIN plain
      PROVE  (IF k = 0 THEN plain[0] ELSE (plain[k] - plain[k - 1]) % Word) \in 0 .. Word - 1
  <2>1. CASE k = 0
    BY <2>1, <1>1
  <2>2. CASE k # 0
    <3>1. k - 1 \in DOMAIN plain
      BY <2>2, <1>1
    <3>. DEFINE d == plain[k] - plain[k - 1]
    <3>2. d \in Int
      <4>1. plain[k] \in 0 .. Word - 1 /\ plain[k - 1] \in 0 .. Word - 1
        BY <3>1, <1>1
      <4>. QED BY <4>1, <1>1
    <3>. HIDE DEF d
    <3>3. d % Word \in 0 .. Word - 1
      BY <3>2, <1>1, DivMod
    <3>. QED BY <2>2, <3>3 DEF d
  <2>. QED BY <2>1, <2>2
<1>. QED BY <1>2 DEF Logical!DeltaCompressed

LEMMA InitLogical ==
  ASSUME Logical!Init
  PROVE  LogicalInv
<1>1. plain \in Columns /\ scheme \in Schemes /\ Schemes \subseteq {"delta", "for"} /\ decoded = <<>>
  BY LogicalAssumption DEF Logical!Init, Logical!ParameterAssumption
<1>2. CASE stage = "column" /\ encoded = <<>>
  BY <1>1, <1>2 DEF LogicalInv
<1>3. CASE /\ scheme = "for" /\ Logical!data_count % FrameSize = 0
           /\ stage = "encoded" /\ encoded = Logical!ForOf(plain)
  <2>1. FramesEncode(plain, encoded)
    BY <1>1, <1>3, ForOfEncodes
  <2>. QED BY <1>1, <1>3, <2>1 DEF LogicalInv
<1>. QED BY <1>2, <1>3 DEF Logical!Init

LEMMA DeltaCompressionStep ==
  ASSUME LogicalInv, Logical!delta_compression
  PROVE  LogicalInv'
<1>1. /\ scheme = "delta" /\ scheme' = "delta" /\ plain' = plain /\ decoded' = decoded
      /\ stage = "column" /\ stage' = "encoded" /\ encoded' = Logical!DeltaCompressed
      /\ decoded = <<>> /\ plain \in Columns
  BY DEF LogicalInv, Logical!delta_compression
<1>2. Logical!DeltaCompressed' = Logical!DeltaCompressed
  BY <1>1 DEF Logical!DeltaCompressed
<1>. QED BY <1>1, <1>2 DEF LogicalInv

LEMMA DeltaDecompressionStep ==
  ASSUME LogicalInv, Logical!delta_decompression
  PROVE  LogicalInv'
<1>1. /\ scheme = "delta" /\ scheme' = "delta" /\ plain' = plain /\ encoded' = encoded
      /\ stage = "encoded" /\ stage' = "decoded" /\ encoded = Logical!DeltaCompressed
      /\ plain \in Columns
  BY DEF LogicalInv, Logical!delta_decompression
<1>2. PICK junk \in Logical!Junk :
        decoded' = [k \in DOMAIN plain |->
                      IF k = 0 THEN encoded[0]
                      ELSE (encoded[k] + Logical!Read(encoded, k + 1, junk)) % Word]
  BY DEF Logical!delta_decompression
<1>. DEFINE n == Logical!data_count
<1>3. /\ Word \in Nat \ {0} /\ n \in Nat \ {0} /\ DOMAIN plain = 0 .. n - 1
      /\ FrameSize \in Nat \ {0}
      /\ encoded \in [0 .. n - 1 -> 0 .. Word - 1]
      /\ junk \in [0 .. FrameSize - 1 -> 0 .. Word - 1]
  BY <1>1, DeltaType, ColumnType DEF Logical!Junk, Logical!Position, Logical!Array,
                                     Logical!Value
<1>4. Logical!Count(encoded) = n
  <2>1. DOMAIN encoded = DOMAIN plain
    BY <1>1, <1>3
  <2>. QED BY <2>1 DEF Logical!Count, Logical!data_count
<1>. HIDE DEF n
<1>5. ASSUME NEW k \in 0 .. n - 1, k # 0
      PROVE  Logical!Read(encoded, k + 1, junk) \in Int
  <2>1. CASE k + 1 \in 0 .. n - 1
    BY <2>1, <1>3 DEF Logical!Read
  <2>2. CASE k + 1 \notin 0 .. n - 1
    <3>1. (k + 1) - n = 0 /\ 0 \in 0 .. FrameSize - 1
      BY <2>2, <1>3
    <3>. QED BY <2>2, <3>1, <1>3, <1>4 DEF Logical!Read
  <2>. QED BY <2>1, <2>2
<1>6. ASSUME NEW k \in 0 .. n - 1 PROVE decoded'[k] \in 0 .. Word - 1
  <2>1. CASE k = 0
    BY <2>1, <1>2, <1>3
  <2>2. CASE k # 0
    <3>. DEFINE s == encoded[k] + Logical!Read(encoded, k + 1, junk)
    <3>1. s \in Int
      <4>1. encoded[k] \in Int /\ Logical!Read(encoded, k + 1, junk) \in Int
        BY <2>2, <1>3, <1>5
      <4>. QED BY <4>1
    <3>2. decoded'[k] = s % Word
      BY <2>2, <1>2, <1>3
    <3>. HIDE DEF s
    <3>. QED BY <3>1, <3>2, <1>3, DivMod
  <2>. QED BY <2>1, <2>2
<1>7. DOMAIN decoded' = 0 .. n - 1
  BY <1>2, <1>3
<1>8. Logical!DeltaCompressed' = Logical!DeltaCompressed
  BY <1>1 DEF Logical!DeltaCompressed
<1>. QED BY <1>1, <1>6, <1>7, <1>8 DEF LogicalInv

LEMMA ForCompressionStep ==
  ASSUME LogicalInv, Logical!for_compression
  PROVE  LogicalInv'
<1>1. /\ scheme = "for" /\ scheme' = "for" /\ plain' = plain /\ decoded' = decoded
      /\ stage = "column" /\ stage' = "encoded" /\ decoded = <<>> /\ plain \in Columns
  BY DEF LogicalInv, Logical!for_compression
<1>2. PICK junk \in Logical!Junk :
        encoded' = [k \in Logical!Array(Logical!Cardinality(Logical!AllFrames) * (FrameSize + 1)) |->
                      LET frame == k \div (FrameSize + 1)
                          position == k % (FrameSize + 1)
                      IN  IF position = 0 THEN Logical!FrameMin(frame, junk)
                          ELSE (Logical!Read(plain, position - 1, junk)
                                  - Logical!FrameMin(frame, junk)) % Word]
  BY Zenon DEF Logical!for_compression
<1>3. FramesEncode(plain, encoded')
  BY <1>1, <1>2, CompressedEncodes
<1>. QED BY <1>1, <1>3 DEF LogicalInv

LEMMA ForDecompressionStep ==
  ASSUME LogicalInv, Logical!for_decompression
  PROVE  LogicalInv'
<1>1. /\ scheme = "for" /\ scheme' = "for" /\ plain' = plain /\ encoded' = encoded
      /\ stage = "encoded" /\ stage' = "decoded" /\ FramesEncode(plain, encoded)
      /\ plain \in Columns
  BY DEF LogicalInv, Logical!for_decompression
<1>2. decoded' = ForDecoded(plain, encoded)
  <2>1. Logical!Cardinality(Logical!AllFrames) = FrameCount(plain)
    BY <1>1, FrameNumbers
  <2>. QED BY <2>1 DEF Logical!for_decompression, ForDecoded, Logical!Array
<1>. QED BY <1>1, <1>2 DEF LogicalInv

LEMMA NextLogical ==
  ASSUME LogicalInv, [Logical!Next]_logicalVars
  PROVE  LogicalInv'
<1>1. CASE Logical!delta_compression
  BY <1>1, DeltaCompressionStep
<1>2. CASE Logical!delta_decompression
  BY <1>2, DeltaDecompressionStep
<1>3. CASE Logical!for_compression
  BY <1>3, ForCompressionStep
<1>4. CASE Logical!for_decompression
  BY <1>4, ForDecompressionStep
<1>5. CASE UNCHANGED logicalVars
  <2>1. Logical!DeltaCompressed' = Logical!DeltaCompressed
    BY <1>5 DEF logicalVars, Logical!DeltaCompressed
  <2>. QED BY <1>5, <2>1 DEF logicalVars, LogicalInv
<1>. QED BY <1>1, <1>2, <1>3, <1>4, <1>5 DEF Logical!Next

LEMMA LogicalInvariants ==
  ASSUME LogicalInv
  PROVE  Logical!TypeOK /\ DeltasAndMinimaKept /\ ForDecompressionInverts
<1>1. /\ plain \in Columns /\ Logical!Value = 0 .. Word - 1
      /\ stage \in {"column", "encoded", "decoded"} /\ scheme \in {"delta", "for"}
  BY ColumnType DEF LogicalInv
<1>2. Logical!TypeOK
  <2>1. \A k \in DOMAIN encoded : encoded[k] \in 0 .. Word - 1
    <3>1. CASE stage = "column"
      BY <3>1 DEF LogicalInv
    <3>2. CASE stage # "column" /\ scheme = "delta"
      BY <3>2, <1>1, DeltaType DEF LogicalInv
    <3>3. CASE stage # "column" /\ scheme = "for"
      BY <3>3, <1>1 DEF LogicalInv, FramesEncode
    <3>. QED BY <3>1, <3>2, <3>3, <1>1
  <2>2. \A k \in DOMAIN decoded : decoded[k] \in 0 .. Word - 1
    <3>1. CASE stage # "decoded"
      BY <3>1 DEF LogicalInv
    <3>2. CASE stage = "decoded" /\ scheme = "delta"
      BY <3>2 DEF LogicalInv
    <3>3. CASE stage = "decoded" /\ scheme = "for"
      BY <3>3, <1>1, DecodedType DEF LogicalInv
    <3>. QED BY <3>1, <3>2, <3>3, <1>1
  <2>. QED BY <2>1, <2>2, <1>1 DEF Logical!TypeOK
<1>3. Logical!DeltaSumsToColumn
  <2>. SUFFICES ASSUME scheme = "delta", stage # "column", NEW k \in DOMAIN plain
                PROVE  Logical!MapThenSumSet(LAMBDA j : encoded[j], 0 .. k) % Word = plain[k]
    BY DEF Logical!DeltaSumsToColumn
  <2>1. encoded = Logical!DeltaCompressed
    BY DEF LogicalInv
  <2>. QED BY <2>1, <1>1, DeltaSums
<1>4. Logical!FramesStartWithMinimum
  <2>. SUFFICES ASSUME scheme = "for", stage # "column"
                PROVE  /\ \A frame \in Logical!Frames :
                            encoded[frame * (FrameSize + 1)] = Logical!Minimum(plain, frame)
                       /\ \A k \in Logical!Position \cap DOMAIN plain :
                            (encoded[0] + encoded[k + 1]) % Word = plain[k]
    BY DEF Logical!FramesStartWithMinimum
  <2>1. FramesEncode(plain, encoded)
    BY DEF LogicalInv
  <2>2. Logical!Frames = 0 .. Logical!Count(plain) \div FrameSize - 1
    BY DEF Logical!Frames, Logical!Array, Logical!data_count
  <2>3. Logical!Position = 0 .. FrameSize - 1
    BY DEF Logical!Position, Logical!Array
  <2>. QED BY <2>1, <2>2, <2>3 DEF FramesEncode
<1>5. Logical!ForDecompressionInverts
  <2>. SUFFICES ASSUME scheme = "for", stage = "decoded",
                       Logical!data_count % FrameSize = 0, encoded = Logical!ForOf(plain)
                PROVE  decoded = plain
    BY DEF Logical!ForDecompressionInverts
  <2>1. decoded = ForDecoded(plain, encoded)
    BY DEF LogicalInv
  <2>. QED BY <2>1, <1>1, DecodedInverts
<1>. QED BY <1>2, <1>3, <1>4, <1>5 DEF DeltasAndMinimaKept, ForDecompressionInverts

(* The encodings and their decompression keep the invariant, whatever lies *)
(* in the memory behind the columns.                                       *)
THEOREM LogicalInvariance ==
  CompressionSpec => []LogicalInv
<1>1. CompressionInit => LogicalInv
  BY InitLogical DEF CompressionInit
<1>2. LogicalInv /\ [CompressionNext]_compressionVars => LogicalInv'
  <2>1. [CompressionNext]_compressionVars => [Logical!Next]_logicalVars
    BY Zenon DEF CompressionNext, compressionVars
  <2>. QED BY <2>1, NextLogical
<1>. QED BY <1>1, <1>2, PTL DEF CompressionSpec

(* Delta compression loses no element, a full frame starts with its least  *)
(* value and the first frame keeps its elements: for every column and      *)
(* type, also where differences wrap around.                               *)
THEOREM DeltasAndMinimaAreKept ==
  CompressionSpec => []DeltasAndMinimaKept
<1>1. LogicalInv => DeltasAndMinimaKept
  BY LogicalInvariants
<1>. QED BY <1>1, LogicalInvariance, PTL

(* for_decompression restores every column of whole frames that was        *)
(* encoded frame by frame.                                                 *)
THEOREM ForDecompressionIsInverse ==
  CompressionSpec => []ForDecompressionInverts
<1>1. LogicalInv => ForDecompressionInverts
  BY LogicalInvariants
<1>. QED BY <1>1, LogicalInvariance, PTL

(* The variables of both parts keep their types, no index leaves an array. *)
THEOREM TypeCorrect ==
  ASSUME PackersFit
  PROVE  CompressionSpec => []CompressionTypeOK
<1>1. LogicalInv => Logical!TypeOK
  BY LogicalInvariants
<1>2. TypeOK /\ Logical!TypeOK => CompressionTypeOK
  BY DEF CompressionTypeOK
<1>. QED BY <1>1, <1>2, LogicalInvariance, PackingTypeCorrect, PTL
=============================================================================
