-------------------------- MODULE BitweavingProofs --------------------------
(***************************************************************************)
(* Theorems about the BitWeaving/H store and the BitWeaving tasks, for      *)
(* every size of words and codes: the addition of words is that of the     *)
(* machine, every comparison sets the delimiter bits of exactly the codes  *)
(* it holds for, and format leaves the codes alone.                        *)
(***************************************************************************)
EXTENDS BitweavingStore, BitweavingTasks, BasicFacts

-----------------------------------------------------------------------------
(* Numbers.                                                                *)

\* read holds the numbers of the n highest bits of w.
Reads(w, read) ==
  /\ read \in [0 .. WordBits -> Nat]
  /\ read[0] = 0
  /\ \A n \in 1 .. WordBits :
       read[n] = 2 * read[n - 1] + (IF WordBits - n \in w THEN 1 ELSE 0)

LEMMA ReadingExists ==
  ASSUME NEW w, NEW N \in Nat
  PROVE  \E f : f = [n \in 0 .. N |->
                       IF n = 0 THEN 0
                       ELSE 2 * f[n - 1] + (IF WordBits - n \in w THEN 1 ELSE 0)]
<1>. DEFINE bit(n) == IF WordBits - n \in w THEN 1 ELSE 0
            Reading(f, m) ==
              f = [n \in 0 .. m |-> IF n = 0 THEN 0 ELSE 2 * f[n - 1] + bit(n)]
            S == {m \in Nat : \E f : Reading(f, m)}
<1>1. 0 \in S
  <2>. DEFINE f == [n \in 0 .. 0 |-> 0]
  <2>1. f = [n \in 0 .. 0 |-> IF n = 0 THEN 0 ELSE 2 * f[n - 1] + bit(n)]
    OBVIOUS
  <2>. QED BY <2>1, Zenon
<1>2. ASSUME NEW m \in S PROVE m + 1 \in S
  <2>1. PICK f : Reading(f, m)
    OBVIOUS
  <2>. DEFINE g == [n \in 0 .. m + 1 |->
                      IF n = m + 1 THEN 2 * f[m] + bit(m + 1) ELSE f[n]]
  <2>. HIDE DEF bit
  <2>2. \A n \in 0 .. m + 1 : g[n] = IF n = 0 THEN 0 ELSE 2 * g[n - 1] + bit(n)
    <3>. SUFFICES ASSUME NEW n \in 0 .. m + 1
                  PROVE  g[n] = IF n = 0 THEN 0 ELSE 2 * g[n - 1] + bit(n)
      OBVIOUS
    <3>. m \in Nat
      OBVIOUS
    <3>1. \A i \in 0 .. m : f[i] = IF i = 0 THEN 0 ELSE 2 * f[i - 1] + bit(i)
      BY <2>1
    <3>2. \A i \in 0 .. m : g[i] = f[i]
      OBVIOUS
    <3>3. CASE n = m + 1
      BY <3>2, <3>3
    <3>4. CASE n \in 0 .. m
      <4>1. n # 0 => n - 1 \in 0 .. m
        BY <3>4
      <4>. QED BY <3>1, <3>2, <3>4, <4>1
    <3>. QED BY <3>3, <3>4
  <2>3. Reading(g, m + 1)
    BY <2>2
  <2>4. \E h : Reading(h, m + 1)
    BY <2>3, Zenon
  <2>. QED BY <2>4
<1>3. S = Nat
  <2>1. S \in SUBSET Nat
    OBVIOUS
  <2>. HIDE DEF S
  <2>. QED BY <2>1, <1>1, <1>2, NatInductionOfSet
<1>. QED BY <1>3

LEMMA NumberReads ==
  ASSUME NEW w
  PROVE  \E read : Reads(w, read) /\ Number(w) = read[WordBits]
<1>. DEFINE Reading(f) ==
              f = [n \in 0 .. WordBits |->
                     IF n = 0 THEN 0
                     ELSE 2 * f[n - 1] + (IF WordBits - n \in w THEN 1 ELSE 0)]
            read == CHOOSE f : Reading(f)
<1>. WordBits \in Nat
  BY CodeSizeAssumption
<1>1. Number(w) = read[WordBits]
  BY Zenon DEF Number
<1>2. Reading(read)
  <2>1. \E f : Reading(f)
    BY ReadingExists
  <2>. QED BY <2>1, Zenon
<1>. HIDE DEF read
<1>3. /\ read[0] = 0
      /\ \A n \in 1 .. WordBits :
           read[n] = 2 * read[n - 1] + (IF WordBits - n \in w THEN 1 ELSE 0)
  BY <1>2
<1>. DEFINE S == {n \in Nat : n <= WordBits => read[n] \in Nat}
<1>4. S = Nat
  <2>1. 0 \in S
    BY <1>3
  <2>2. ASSUME NEW n \in S PROVE n + 1 \in S
    <3>. SUFFICES ASSUME n + 1 <= WordBits PROVE read[n + 1] \in Nat
      OBVIOUS
    <3>1. n + 1 \in 1 .. WordBits /\ (n + 1) - 1 = n /\ read[n] \in Nat
      OBVIOUS
    <3>2. read[n + 1] = 2 * read[n] + (IF WordBits - (n + 1) \in w THEN 1 ELSE 0)
      BY <1>3, <3>1
    <3>. QED BY <3>1, <3>2
  <2>3. S \in SUBSET Nat
    OBVIOUS
  <2>. HIDE DEF S
  <2>. QED BY <2>1, <2>2, <2>3, NatInductionOfSet
<1>5. read \in [0 .. WordBits -> Nat]
  <2>1. \A n \in 0 .. WordBits : read[n] \in Nat
    BY <1>4
  <2>. QED BY <2>1, <1>2
<1>. QED BY <1>1, <1>3, <1>5 DEF Reads

LEMMA NumberType ==
  ASSUME NEW w
  PROVE  Number(w) \in Nat
<1>1. PICK read : Reads(w, read) /\ Number(w) = read[WordBits]
  BY NumberReads
<1>2. WordBits \in 0 .. WordBits
  BY CodeSizeAssumption
<1>. QED BY <1>1, <1>2 DEF Reads

\* The highest bit in which u and v differ is one of v's.
Less(u, v) ==
  \E h \in Bit : h \in v /\ h \notin u /\ \A i \in h + 1 .. WordBits - 1 : i \in u <=> i \in v

LEMMA LessNumber ==
  ASSUME NEW u, NEW v, Less(u, v)
  PROVE  Number(u) < Number(v)
<1>1. PICK h \in Bit :
        h \in v /\ h \notin u /\ \A i \in h + 1 .. WordBits - 1 : i \in u <=> i \in v
  BY DEF Less
<1>2. PICK f : Reads(u, f) /\ Number(u) = f[WordBits]
  BY NumberReads
<1>3. PICK g : Reads(v, g) /\ Number(v) = g[WordBits]
  BY NumberReads
<1>. WordBits \in Nat /\ h \in 0 .. WordBits - 1
  BY CodeSizeAssumption DEF Bit
<1>. DEFINE S == {n \in Nat :
              /\ n < WordBits - h => f[n] = g[n]
              /\ n >= WordBits - h /\ n <= WordBits => f[n] < g[n]}
<1>4. 0 \in S
  BY <1>2, <1>3 DEF Reads
<1>5. ASSUME NEW n \in S PROVE n + 1 \in S
  <2>. SUFFICES ASSUME n + 1 <= WordBits PROVE n + 1 \in S
    OBVIOUS
  <2>. DEFINE b == WordBits - (n + 1)
  <2>1. n + 1 \in 1 .. WordBits /\ (n + 1) - 1 = n /\ n \in 0 .. WordBits
    OBVIOUS
  <2>2. /\ f[n + 1] = 2 * f[n] + (IF b \in u THEN 1 ELSE 0)
        /\ g[n + 1] = 2 * g[n] + (IF b \in v THEN 1 ELSE 0)
        /\ f[n] \in Nat /\ g[n] \in Nat
    BY <1>2, <1>3, <2>1 DEF Reads
  <2>3. CASE b > h
    <3>1. b \in u <=> b \in v
      BY <1>1, <2>1, <2>3
    <3>2. f[n] = g[n]
      BY <2>3
    <3>. QED BY <2>2, <2>3, <3>1, <3>2
  <2>4. CASE b = h
    <3>1. f[n] = g[n]
      BY <2>4
    <3>2. f[n + 1] < g[n + 1]
      BY <1>1, <2>2, <2>4, <3>1
    <3>. QED BY <2>4, <3>2
  <2>5. CASE b < h
    <3>1. f[n] < g[n]
      BY <2>1, <2>5
    <3>2. f[n + 1] < g[n + 1]
      BY <2>2, <3>1
    <3>. QED BY <2>5, <3>2
  <2>. QED BY <2>1, <2>3, <2>4, <2>5
<1>6. S = Nat
  <2>1. S \in SUBSET Nat
    OBVIOUS
  <2>. HIDE DEF S
  <2>. QED BY <2>1, <1>4, <1>5, NatInductionOfSet
<1>. QED BY <1>2, <1>3, <1>6

LEMMA OneIsLess ==
  ASSUME NEW u \in T, NEW v \in T, u # v
  PROVE  Less(u, v) \/ Less(v, u)
<1>. DEFINE D == {i \in Bit : ~ (i \in u <=> i \in v)}
<1>1. D # {}
  BY DEF T
<1>2. WordBits - 1 \in Nat /\ Bit = 0 .. WordBits - 1
  BY CodeSizeAssumption DEF Bit
<1>3. PICK h \in D : \A i \in D : i <= h
  BY <1>1, <1>2, GreatestElement
<1>4. \A i \in h + 1 .. WordBits - 1 : i \in u <=> i \in v
  BY <1>2, <1>3
<1>. QED BY <1>3, <1>4 DEF Less

(* The order of the numbers is decided by the highest bit that differs.    *)
LEMMA NumberOrder ==
  ASSUME NEW u \in T, NEW v \in T
  PROVE  /\ Number(u) < Number(v) <=> Less(u, v)
         /\ Number(u) = Number(v) <=> u = v
<1>. Number(u) \in Nat /\ Number(v) \in Nat
  BY NumberType
<1>1. CASE u = v
  <2>1. ~ Less(u, v)
    BY <1>1 DEF Less
  <2>. QED BY <1>1, <2>1
<1>2. CASE Less(u, v)
  <2>1. Number(u) < Number(v)
    BY <1>2, LessNumber
  <2>. QED BY <1>2, <2>1
<1>3. CASE Less(v, u)
  <2>1. Number(v) < Number(u)
    BY <1>3, LessNumber
  <2>2. ~ Less(u, v)
    BY <2>1, LessNumber
  <2>. QED BY <2>1, <2>2
<1>. QED BY <1>1, <1>2, <1>3, OneIsLess

(* The assertion of create_predicate, pred <= max_value, admits exactly the *)
(* words with no other bits than those of a code.                          *)
LEMMA MaxValue ==
  ASSUME NEW pred \in T
  PROVE  Number(pred) <= Number(max_value) <=> pred \in SUBSET max_value
<1>. /\ WordBits \in Nat /\ WordBits - 1 \in Nat /\ CodeSize \in Nat /\ CodeSize < WordBits
     /\ Bit = 0 .. WordBits - 1 /\ max_value = 0 .. CodeSize - 1
  BY CodeSizeAssumption DEF Bit, max_value, CodeBit
<1>1. max_value \in T /\ Number(pred) \in Nat /\ Number(max_value) \in Nat
  BY NumberType DEF T
<1>2. Number(max_value) < Number(pred) <=> Less(max_value, pred)
  BY <1>1, NumberOrder
<1>3. ASSUME pred \in SUBSET max_value PROVE ~ Less(max_value, pred)
  BY <1>3 DEF Less
<1>4. ASSUME pred \notin SUBSET max_value PROVE Less(max_value, pred)
  <2>1. pred \in SUBSET (0 .. WordBits - 1) /\ pred # {}
    BY <1>4 DEF T
  <2>2. PICK h \in pred : \A i \in pred : i <= h
    BY <2>1, GreatestElement
  <2>3. h \notin max_value
    BY <1>4, <2>1, <2>2
  <2>4. \A i \in h + 1 .. WordBits - 1 : i \notin pred /\ i \notin max_value
    BY <2>1, <2>2, <2>3
  <2>. QED BY <2>1, <2>2, <2>3, <2>4 DEF Less
<1>. QED BY <1>1, <1>2, <1>3, <1>4

-----------------------------------------------------------------------------
(* Carries.                                                                *)

(* A bit hands on a carry, or generates one: the full adder.               *)
LEMMA CarryUnfolds ==
  ASSUME NEW x, NEW y
  PROVE  /\ ~ Carried(x, y, 0)
         /\ \A b \in Nat :
              Carried(x, y, b + 1) <=>
                (b \in x /\ b \in y) \/ ((b \in x \/ b \in y) /\ Carried(x, y, b))
<1>1. ~ Carried(x, y, 0)
  BY DEF Carried
<1>. SUFFICES ASSUME NEW b \in Nat
     PROVE  Carried(x, y, b + 1) <=>
              (b \in x /\ b \in y) \/ ((b \in x \/ b \in y) /\ Carried(x, y, b))
  BY <1>1
<1>2. ASSUME Carried(x, y, b + 1)
      PROVE  (b \in x /\ b \in y) \/ ((b \in x \/ b \in y) /\ Carried(x, y, b))
  <2>1. PICK g \in 0 .. b :
          g \in x /\ g \in y /\ \A h \in g + 1 .. b : h \in x \/ h \in y
    BY <1>2 DEF Carried
  <2>2. CASE g = b
    BY <2>1, <2>2
  <2>3. CASE g # b
    <3>1. g \in 0 .. b - 1 /\ b \in g + 1 .. b
      BY <2>3
    <3>2. \A h \in g + 1 .. b - 1 : h \in x \/ h \in y
      BY <2>1
    <3>. QED BY <2>1, <3>1, <3>2 DEF Carried
  <2>. QED BY <2>2, <2>3
<1>3. ASSUME b \in x, b \in y PROVE Carried(x, y, b + 1)
  <2>1. b \in 0 .. (b + 1) - 1 /\ b + 1 .. (b + 1) - 1 = {}
    OBVIOUS
  <2>. QED BY <1>3, <2>1 DEF Carried
<1>4. ASSUME b \in x \/ b \in y, Carried(x, y, b) PROVE Carried(x, y, b + 1)
  <2>1. PICK g \in 0 .. b - 1 :
          g \in x /\ g \in y /\ \A h \in g + 1 .. b - 1 : h \in x \/ h \in y
    BY <1>4 DEF Carried
  <2>2. \A h \in g + 1 .. (b + 1) - 1 : h = b \/ h \in g + 1 .. b - 1
    OBVIOUS
  <2>3. g \in 0 .. (b + 1) - 1
    OBVIOUS
  <2>. QED BY <1>4, <2>1, <2>2, <2>3 DEF Carried
<1>. QED BY <1>2, <1>3, <1>4

LEMMA SumBit ==
  ASSUME NEW x \in T, NEW y \in T, NEW b \in Bit
  PROVE  b \in Add(x, y) <=> ((b \in x <=> b \in y) <=> Carried(x, y, b))
BY DEF Add, Xor, T

LEMMA WordTypes ==
  ASSUME NEW x \in T, NEW y \in T
  PROVE  Xor(x, y) \in T /\ Complement(x) \in T /\ Add(x, y) \in T
BY DEF T, Xor, Complement, Add

(* The sum of two words is that of their numbers, without what does not    *)
(* fit into a word.                                                        *)
THEOREM AdditionIsExact ==
  ASSUME NEW x \in T, NEW y \in T
  PROVE  Number(Add(x, y)) = (Number(x) + Number(y)) % (Number(Bit) + 1)
<1>. DEFINE s == Add(x, y)
            N == WordBits
            c(b) == IF Carried(x, y, b) THEN 1 ELSE 0
            bit(w, b) == IF b \in w THEN 1 ELSE 0
<1>. N \in Nat \ {0}
  BY CodeSizeAssumption
<1>1. PICK f : Reads(x, f) /\ Number(x) = f[N]
  BY NumberReads
<1>2. PICK g : Reads(y, g) /\ Number(y) = g[N]
  BY NumberReads
<1>3. PICK r : Reads(s, r) /\ Number(s) = r[N]
  BY NumberReads
<1>4. PICK m : Reads(Bit, m) /\ Number(Bit) = m[N]
  BY NumberReads
<1>5. \A b \in Bit : bit(x, b) + bit(y, b) + c(b) = bit(s, b) + 2 * c(b + 1)
  <2>. SUFFICES ASSUME NEW b \in Bit
                PROVE  bit(x, b) + bit(y, b) + c(b) = bit(s, b) + 2 * c(b + 1)
    OBVIOUS
  <2>1. b \in Nat
    BY DEF Bit
  <2>2. Carried(x, y, b + 1) <=>
          (b \in x /\ b \in y) \/ ((b \in x \/ b \in y) /\ Carried(x, y, b))
    BY <2>1, CarryUnfolds
  <2>3. b \in s <=> ((b \in x <=> b \in y) <=> Carried(x, y, b))
    BY SumBit
  <2>. QED BY <2>2, <2>3
<1>. DEFINE Exact(n) == /\ f[n] + g[n] + c(N - n) = r[n] + c(N) * (m[n] + 1)
                        /\ r[n] \in 0 .. m[n]
            S == {n \in Nat : n <= N => Exact(n)}
<1>6. 0 \in S
  <2>1. f[0] = 0 /\ g[0] = 0 /\ r[0] = 0 /\ m[0] = 0 /\ N - 0 = N
    BY <1>1, <1>2, <1>3, <1>4 DEF Reads
  <2>2. c(N) \in {0, 1}
    OBVIOUS
  <2>. HIDE DEF c
  <2>3. Exact(0)
    BY <2>1, <2>2
  <2>. QED BY <2>3
<1>7. ASSUME NEW n \in S PROVE n + 1 \in S
  <2>. SUFFICES ASSUME n + 1 <= N PROVE Exact(n + 1)
    OBVIOUS
  <2>. DEFINE b == N - (n + 1)
  <2>1. /\ n + 1 \in 1 .. N /\ (n + 1) - 1 = n /\ n \in 0 .. N
        /\ b \in 0 .. N - 1 /\ b + 1 = N - n
    OBVIOUS
  <2>2. /\ f[n + 1] = 2 * f[n] + bit(x, b) /\ f[n] \in Nat
        /\ g[n + 1] = 2 * g[n] + bit(y, b) /\ g[n] \in Nat
        /\ r[n + 1] = 2 * r[n] + bit(s, b) /\ r[n] \in Nat
        /\ m[n + 1] = 2 * m[n] + bit(Bit, b) /\ m[n] \in Nat
    BY <1>1, <1>2, <1>3, <1>4, <2>1 DEF Reads
  <2>3. bit(x, b) + bit(y, b) + c(b) = bit(s, b) + 2 * c(N - n)
    BY <1>5, <2>1 DEF Bit
  <2>4. bit(Bit, b) = 1
    BY <2>1 DEF Bit
  <2>5. Exact(n)
    OBVIOUS
  <2>6. \A w, i : bit(w, i) \in {0, 1} /\ c(i) \in {0, 1}
    OBVIOUS
  <2>. HIDE DEF bit, c, s, b
  <2>7. r[n + 1] \in 0 .. m[n + 1]
    <3>1. bit(s, b) \in {0, 1}
      BY <2>6
    <3>. QED BY <2>2, <2>4, <2>5, <3>1
  <2>8. f[n + 1] + g[n + 1] + c(b) = r[n + 1] + c(N) * (m[n + 1] + 1)
    <3>. DEFINE fn == f[n] gn == g[n] rn == r[n] mn == m[n] cn == c(N - n)
                bx == bit(x, b) by == bit(y, b) bs == bit(s, b) cb == c(b) cN == c(N)
    <3>1. /\ fn \in Nat /\ gn \in Nat /\ rn \in Nat /\ mn \in Nat
          /\ cN \in {0, 1} /\ cn \in {0, 1} /\ cb \in {0, 1}
          /\ bx \in {0, 1} /\ by \in {0, 1} /\ bs \in {0, 1}
      BY <2>2, <2>6
    <3>2. fn + gn + cn = rn + cN * (mn + 1)
      BY <2>5
    <3>3. bx + by + cb = bs + 2 * cn
      BY <2>3
    <3>4. /\ f[n + 1] = 2 * fn + bx /\ g[n + 1] = 2 * gn + by
          /\ r[n + 1] = 2 * rn + bs /\ m[n + 1] = 2 * mn + 1
      BY <2>2, <2>4
    <3>. HIDE DEF fn, gn, rn, mn, cn, bx, by, bs, cb, cN
    <3>5. (2 * fn + bx) + (2 * gn + by) + cb = (2 * rn + bs) + cN * ((2 * mn + 1) + 1)
      <4>1. CASE cN = 0
        BY <3>1, <3>2, <3>3, <4>1
      <4>2. CASE cN = 1
        BY <3>1, <3>2, <3>3, <4>2
      <4>. QED BY <3>1, <4>1, <4>2
    <3>6. f[n + 1] + g[n + 1] + cb = r[n + 1] + cN * (m[n + 1] + 1)
      BY <3>4, <3>5
    <3>. QED BY <3>6 DEF cb, cN
  <2>9. N - (n + 1) = b
    BY DEF b
  <2>. QED BY <2>7, <2>8, <2>9
<1>8. S = Nat
  <2>1. S \in SUBSET Nat
    OBVIOUS
  <2>. HIDE DEF S
  <2>. QED BY <2>1, <1>6, <1>7, NatInductionOfSet
<1>9. f[N] + g[N] + c(0) = r[N] + c(N) * (m[N] + 1) /\ r[N] \in 0 .. m[N]
  <2>1. N \in S
    BY <1>8
  <2>2. Exact(N) /\ N - N = 0
    BY <2>1
  <2>. QED BY <2>2
<1>10. c(0) = 0
  BY CarryUnfolds
<1>11. f[N] \in Nat /\ g[N] \in Nat /\ m[N] \in Nat /\ c(N) \in {0, 1}
  BY <1>1, <1>2, <1>4 DEF Reads
<1>. DEFINE M == m[N] + 1
            q == c(N)
<1>. HIDE DEF c, q
<1>12. f[N] + g[N] = M * q + r[N] /\ M \in Nat \ {0} /\ r[N] \in 0 .. M - 1 /\ q \in Int
  <2>1. f[N] + g[N] = r[N] + q * M
    BY <1>9, <1>10, <1>11 DEF q
  <2>2. q \in {0, 1} /\ M \in Nat \ {0} /\ r[N] \in 0 .. M - 1
    BY <1>9, <1>11 DEF q
  <2>. HIDE DEF M
  <2>3. q * M = M * q
    BY <2>2
  <2>. QED BY <1>11, <2>1, <2>2, <2>3
<1>13. (f[N] + g[N]) % M = r[N]
  <2>. HIDE DEF M
  <2>. QED BY <1>12, ModOfSum
<1>. QED BY <1>1, <1>2, <1>3, <1>4, <1>13

-----------------------------------------------------------------------------
(* The places of the codes in a word.                                      *)

LEMMA CodePlaces ==
  /\ code_count \in Nat
  /\ \A c \in Code, j \in 0 .. CodeSize :
       At(c, j) \in Bit /\ At(c, j) \in Nat /\ At(c, j) % (CodeSize + 1) = j
  /\ \A c \in Code : c # 0 => At(c, 0) = At(c - 1, CodeSize) + 1
  /\ \A c \in Code, j \in Nat : At(c, j) = At(c, 0) + j
  /\ At(0, 0) = 0
<1>. DEFINE w == CodeSize + 1
<1>1. w \in Nat \ {0} /\ WordBits \in Nat /\ WordBits % w = 0
  BY CodeSizeAssumption
<1>2. WordBits = w * code_count /\ code_count \in Nat
  <2>. HIDE DEF w
  <2>1. WordBits = w * (WordBits \div w) + (WordBits % w) /\ WordBits \div w \in Int
    BY <1>1, DivMod
  <2>2. WordBits = w * code_count /\ code_count \in Int
    BY <1>1, <2>1 DEF code_count, w
  <2>3. CASE code_count < 0
    <3>1. 0 - code_count \in Nat /\ 1 <= 0 - code_count
      BY <2>2, <2>3
    <3>2. 1 * w <= (0 - code_count) * w
      BY <1>1, <3>1, ProductMonotone
    <3>3. (0 - code_count) * w = 0 - w * code_count
      BY <1>1, <2>2, ProductSum
    <3>. QED BY <1>1, <2>2, <3>2, <3>3
  <2>. QED BY <2>2, <2>3
<1>3. ASSUME NEW c \in Code, NEW j \in 0 .. CodeSize
      PROVE  At(c, j) \in Bit /\ At(c, j) \in Nat /\ At(c, j) % w = j
  <2>1. c \in Nat /\ c + 1 <= code_count /\ j \in 0 .. w - 1
    BY <1>2, CodeSizeAssumption DEF Code
  <2>2. c * w \in Nat /\ (c + 1) * w <= code_count * w /\ (c + 1) * w = c * w + w
    <3>. HIDE DEF w
    <3>. QED BY <1>1, <1>2, <2>1, ProductMonotone, ProductSuccessor
  <2>3. At(c, j) = c * w + j
    BY DEF At
  <2>. HIDE DEF w
  <2>4. c * w = w * c /\ code_count * w = w * code_count
    BY <1>1, <1>2, <2>1
  <2>5. (w * c + j) % w = j
    BY <1>1, <2>1, ModOfSum
  <2>6. c * w + j \in 0 .. WordBits - 1
    BY <1>1, <1>2, <2>1, <2>2, <2>4
  <2>. QED BY <2>3, <2>4, <2>5, <2>6 DEF Bit
<1>4. ASSUME NEW c \in Code, c # 0 PROVE At(c, 0) = At(c - 1, CodeSize) + 1
  <2>1. c \in Int /\ c - 1 \in Int /\ (c - 1) + 1 = c
    BY <1>2 DEF Code
  <2>2. c * w = (c - 1) * w + w
    <3>. HIDE DEF w
    <3>. QED BY <1>1, <2>1, ProductSuccessor
  <2>3. At(c, 0) = c * w + 0 /\ At(c - 1, CodeSize) = (c - 1) * w + CodeSize
    BY DEF At
  <2>4. c * w \in Int /\ (c - 1) * w \in Int
    <3>. HIDE DEF w
    <3>. QED BY <1>1, <2>1
  <2>5. w = CodeSize + 1 /\ CodeSize \in Nat
    BY CodeSizeAssumption
  <2>. HIDE DEF w
  <2>. QED BY <2>2, <2>3, <2>4, <2>5
<1>5. ASSUME NEW c \in Code, NEW j \in Nat PROVE At(c, j) = At(c, 0) + j
  <2>1. c * w \in Int
    <3>1. c \in Int
      BY <1>2 DEF Code
    <3>. HIDE DEF w
    <3>. QED BY <1>1, <3>1
  <2>2. At(c, j) = c * w + j /\ At(c, 0) = c * w + 0
    BY DEF At
  <2>. HIDE DEF w
  <2>. QED BY <2>1, <2>2
<1>6. At(0, 0) = 0
  BY CodeSizeAssumption DEF At
<1>. QED BY <1>2, <1>3, <1>4, <1>5, <1>6

(* What the masks and the predicate have at the places of a code.          *)
LEMMA Masks ==
  ASSUME NEW c \in Code, NEW j \in 0 .. CodeSize
  PROVE  /\ \A p : At(c, j) \in Spread(p) <=> j \in p
         /\ At(c, j) \in delimeter_bits_mask <=> j = CodeSize
         /\ At(c, j) \in code_bits_mask <=> j # CodeSize
         /\ At(c, j) \in first_bit_mask <=> j = 0
<1>1. At(c, j) \in Bit /\ At(c, j) % (CodeSize + 1) = j
  BY CodePlaces
<1>2. \A p : At(c, j) \in Spread(p) <=> j \in p
  BY <1>1 DEF Spread
<1>. QED BY <1>1, <1>2 DEF delimeter_bits_mask, code_bits_mask, first_bit_mask, Complement

LEMMA MaskTypes ==
  /\ \A p : Spread(p) \in T
  /\ delimeter_bits_mask \in T /\ code_bits_mask \in T /\ first_bit_mask \in T
BY DEF Spread, delimeter_bits_mask, code_bits_mask, first_bit_mask, Complement, T

-----------------------------------------------------------------------------
(* Carries and codes.                                                      *)

(* A delimiter bit that no operand has stops every carry.                  *)
LEMMA DelimiterStops ==
  ASSUME NEW x, NEW y, NEW c \in Code,
         c # 0 => ~ Delimiter(x, c - 1) /\ ~ Delimiter(y, c - 1)
  PROVE  ~ Carried(x, y, At(c, 0))
<1>1. CASE c = 0
  BY <1>1, CodePlaces, CarryUnfolds
<1>2. CASE c # 0
  <2>1. c - 1 \in Code /\ CodeSize \in 0 .. CodeSize
    BY <1>2, CodePlaces, CodeSizeAssumption DEF Code
  <2>2. At(c, 0) = At(c - 1, CodeSize) + 1 /\ At(c - 1, CodeSize) \in Nat
    BY <1>2, <2>1, CodePlaces
  <2>. QED BY <1>2, <2>2, CarryUnfolds DEF Delimiter
<1>. QED BY <1>1, <1>2

(* Without a carry into a code, those within it are its own.               *)
LEMMA CarryInCode ==
  ASSUME NEW x, NEW y, NEW c \in Code, ~ Carried(x, y, At(c, 0)),
         NEW j \in 0 .. CodeSize
  PROVE  Carried(x, y, At(c, j)) <=>
           \E g \in 0 .. j - 1 :
             /\ At(c, g) \in x /\ At(c, g) \in y
             /\ \A h \in g + 1 .. j - 1 : At(c, h) \in x \/ At(c, h) \in y
<1>. DEFINE a == At(c, 0)
            m == At(c, j)
<1>0. a \in Nat /\ j \in Nat /\ m = a + j /\ \A i \in Nat : At(c, i) = a + i
  <2>1. 0 \in 0 .. CodeSize /\ j \in Nat
    BY CodeSizeAssumption
  <2>. QED BY <2>1, CodePlaces
<1>. HIDE DEF a, m
<1>1. ASSUME Carried(x, y, m)
      PROVE  \E g \in 0 .. j - 1 :
               /\ At(c, g) \in x /\ At(c, g) \in y
               /\ \A h \in g + 1 .. j - 1 : At(c, h) \in x \/ At(c, h) \in y
  <2>1. PICK b \in 0 .. m - 1 :
          b \in x /\ b \in y /\ \A i \in b + 1 .. m - 1 : i \in x \/ i \in y
    BY <1>1 DEF Carried
  <2>2. CASE b < a
    <3>1. b \in 0 .. a - 1 /\ \A i \in b + 1 .. a - 1 : i \in b + 1 .. m - 1
      BY <1>0, <2>2
    <3>2. Carried(x, y, a)
      BY <2>1, <3>1 DEF Carried
    <3>. QED BY <3>2 DEF a
  <2>3. CASE b >= a
    <3>. DEFINE g == b - a
    <3>1. g \in 0 .. j - 1 /\ a + g = b
      BY <1>0, <2>3
    <3>2. \A h \in g + 1 .. j - 1 : h \in Nat /\ a + h \in b + 1 .. m - 1
      BY <1>0, <2>3
    <3>. HIDE DEF g
    <3>3. At(c, g) \in x /\ At(c, g) \in y
      BY <1>0, <2>1, <3>1
    <3>4. \A h \in g + 1 .. j - 1 : At(c, h) \in x \/ At(c, h) \in y
      BY <1>0, <2>1, <3>2
    <3>. QED BY <3>1, <3>3, <3>4
  <2>. QED BY <1>0, <2>2, <2>3
<1>2. ASSUME NEW g \in 0 .. j - 1, At(c, g) \in x, At(c, g) \in y,
             \A h \in g + 1 .. j - 1 : At(c, h) \in x \/ At(c, h) \in y
      PROVE  Carried(x, y, m)
  <2>1. a + g \in 0 .. m - 1 /\ a + g \in x /\ a + g \in y
    BY <1>0, <1>2
  <2>2. ASSUME NEW i \in a + g + 1 .. m - 1 PROVE i \in x \/ i \in y
    <3>. DEFINE h == i - a
    <3>1. h \in g + 1 .. j - 1 /\ h \in Nat /\ a + h = i
      BY <1>0
    <3>. QED BY <1>0, <1>2, <3>1
  <2>. QED BY <2>1, <2>2 DEF Carried
<1>. QED BY <1>1, <1>2 DEF m

LEMMA CodeTypes ==
  ASSUME NEW f \in SUBSET CodeBit
  PROVE  f \in T
BY CodeSizeAssumption DEF CodeBit, T, Bit

(* The carry of q - r - 1 is that of the comparison of their bits.         *)
LEMMA LookAhead ==
  ASSUME NEW q \in SUBSET CodeBit, NEW r \in SUBSET CodeBit
  PROVE  Less(r, q) <=>
           \E g \in 0 .. CodeSize - 1 :
             /\ g \in q /\ g \notin r
             /\ \A h \in g + 1 .. CodeSize - 1 : h \in q \/ h \notin r
<1>. /\ CodeSize \in Nat /\ WordBits \in Nat /\ CodeSize < WordBits
     /\ CodeBit = 0 .. CodeSize - 1 /\ Bit = 0 .. WordBits - 1
  BY CodeSizeAssumption DEF CodeBit, Bit
<1>1. ASSUME Less(r, q)
      PROVE  \E g \in 0 .. CodeSize - 1 :
               /\ g \in q /\ g \notin r
               /\ \A h \in g + 1 .. CodeSize - 1 : h \in q \/ h \notin r
  <2>1. PICK g \in Bit :
          g \in q /\ g \notin r /\ \A i \in g + 1 .. WordBits - 1 : i \in r <=> i \in q
    BY <1>1 DEF Less
  <2>2. g \in 0 .. CodeSize - 1
    BY <2>1
  <2>3. \A h \in g + 1 .. CodeSize - 1 : h \in g + 1 .. WordBits - 1
    BY <2>2
  <2>. QED BY <2>1, <2>2, <2>3
<1>2. ASSUME NEW g \in 0 .. CodeSize - 1, g \in q, g \notin r,
             \A h \in g + 1 .. CodeSize - 1 : h \in q \/ h \notin r
      PROVE  Less(r, q)
  <2>. DEFINE D == {i \in CodeBit : ~ (i \in q <=> i \in r)}
  <2>1. g \in D
    BY <1>2
  <2>2. PICK h \in D : \A i \in D : i <= h
    <3>1. CodeSize - 1 \in Nat /\ D \in SUBSET (0 .. CodeSize - 1) /\ D # {}
      BY <2>1
    <3>. HIDE DEF D
    <3>. QED BY <3>1, GreatestElement
  <2>3. h \in q /\ h \notin r
    <3>1. h = g \/ h \in g + 1 .. CodeSize - 1
      BY <2>1, <2>2
    <3>. QED BY <1>2, <2>2, <3>1
  <2>4. ASSUME NEW i \in h + 1 .. WordBits - 1 PROVE i \in r <=> i \in q
    <3>1. CASE i \in CodeBit
      BY <2>2, <3>1
    <3>2. CASE i \notin CodeBit
      BY <3>2
    <3>. QED BY <3>1, <3>2
  <2>. QED BY <2>2, <2>3, <2>4 DEF Less
<1>. QED BY <1>1, <1>2

-----------------------------------------------------------------------------
(* The comparisons.                                                        *)

(* x has q at the place of a code, y the complement of r, and both have    *)
(* their delimiter bits clear.                                             *)
Operands(x, y, c, q, r) ==
  /\ \A j \in CodeBit : (At(c, j) \in x <=> j \in q) /\ (At(c, j) \in y <=> j \notin r)
  /\ ~ Delimiter(x, c) /\ ~ Delimiter(y, c)
  /\ c # 0 => ~ Delimiter(x, c - 1) /\ ~ Delimiter(y, c - 1)

LEMMA Subtraction ==
  ASSUME NEW x \in T, NEW y \in T, NEW c \in Code,
         NEW q \in SUBSET CodeBit, NEW r \in SUBSET CodeBit, Operands(x, y, c, q, r)
  PROVE  /\ Delimiter(Add(x, y), c) <=> Number(r) < Number(q)
         /\ (\A j \in CodeBit : At(c, j) \in Add(x, y)) <=> q = r
<1>. DEFINE Gen(j) == \E g \in 0 .. j - 1 :
                        /\ g \in q /\ g \notin r
                        /\ \A h \in g + 1 .. j - 1 : h \in q \/ h \notin r
<1>. CodeSize \in Nat \ {0} /\ CodeBit = 0 .. CodeSize - 1
  BY CodeSizeAssumption DEF CodeBit
<1>1. \A j \in 0 .. CodeSize : Carried(x, y, At(c, j)) <=> Gen(j)
  <2>. SUFFICES ASSUME NEW j \in 0 .. CodeSize
                PROVE  Carried(x, y, At(c, j)) <=> Gen(j)
    OBVIOUS
  <2>1. ~ Carried(x, y, At(c, 0))
    BY DelimiterStops DEF Operands
  <2>2. Carried(x, y, At(c, j)) <=>
           \E g \in 0 .. j - 1 :
             /\ At(c, g) \in x /\ At(c, g) \in y
             /\ \A h \in g + 1 .. j - 1 : At(c, h) \in x \/ At(c, h) \in y
    BY <2>1, CarryInCode
  <2>3. \A g \in 0 .. j - 1 :
          /\ (At(c, g) \in x <=> g \in q) /\ (At(c, g) \in y <=> g \notin r)
          /\ \A h \in g + 1 .. j - 1 :
               (At(c, h) \in x <=> h \in q) /\ (At(c, h) \in y <=> h \notin r)
    BY DEF Operands
  <2>. QED BY <2>2, <2>3
<1>2. Delimiter(Add(x, y), c) <=> Number(r) < Number(q)
  <2>1. Delimiter(Add(x, y), c) <=> Carried(x, y, At(c, CodeSize))
    <3>1. At(c, CodeSize) \in Bit
      BY CodePlaces
    <3>. QED BY <3>1, SumBit DEF Delimiter, Operands
  <2>2. Gen(CodeSize) <=> Less(r, q)
    BY LookAhead
  <2>3. Less(r, q) <=> Number(r) < Number(q)
    BY CodeTypes, NumberOrder
  <2>. QED BY <1>1, <2>1, <2>2, <2>3
<1>3. \A j \in CodeBit :
        At(c, j) \in Add(x, y) <=> ((j \in q <=> j \notin r) <=> Gen(j))
  <2>. SUFFICES ASSUME NEW j \in CodeBit
                PROVE  At(c, j) \in Add(x, y) <=> ((j \in q <=> j \notin r) <=> Gen(j))
    OBVIOUS
  <2>1. At(c, j) \in Bit /\ j \in 0 .. CodeSize
    BY CodePlaces
  <2>2. Carried(x, y, At(c, j)) <=> Gen(j)
    BY <1>1, <2>1
  <2>3. (At(c, j) \in x <=> j \in q) /\ (At(c, j) \in y <=> j \notin r)
    BY DEF Operands
  <2>. HIDE DEF Gen
  <2>. QED BY <2>1, <2>2, <2>3, SumBit
<1>4. ASSUME q = r, NEW j \in CodeBit PROVE At(c, j) \in Add(x, y)
  <2>1. ~ Gen(j)
    BY <1>4
  <2>. HIDE DEF Gen
  <2>. QED BY <1>3, <1>4, <2>1
<1>5. ASSUME q # r PROVE \E j \in CodeBit : At(c, j) \notin Add(x, y)
  <2>. DEFINE D == {i \in CodeBit : ~ (i \in q <=> i \in r)}
  <2>1. D # {}
    BY <1>5
  <2>2. PICK m \in D : \A i \in D : m <= i
    <3>1. D \in SUBSET Nat
      OBVIOUS
    <3>. HIDE DEF D
    <3>. QED BY <2>1, <3>1, LeastElement
  <2>3. \A g \in 0 .. m - 1 : g \in q <=> g \in r
    <3>1. \A g \in 0 .. m - 1 : g \in CodeBit /\ g \notin D
      BY <2>2
    <3>. QED BY <3>1
  <2>4. ~ Gen(m)
    BY <2>3
  <2>. HIDE DEF Gen
  <2>. QED BY <1>3, <2>2, <2>4
<1>. QED BY <1>2, <1>4, <1>5

(* The carry of first_bit_mask leaves a code that has all bits.            *)
LEMMA FirstBitCarry ==
  ASSUME NEW s \in T, NEW c \in Code, ~ Carried(s, first_bit_mask, At(c, 0))
  PROVE  Carried(s, first_bit_mask, At(c, CodeSize)) <=>
           \A j \in CodeBit : At(c, j) \in s
<1>. CodeSize \in Nat \ {0} /\ CodeBit = 0 .. CodeSize - 1
  BY CodeSizeAssumption DEF CodeBit
<1>1. Carried(s, first_bit_mask, At(c, CodeSize)) <=>
        \E g \in CodeBit :
          /\ At(c, g) \in s /\ At(c, g) \in first_bit_mask
          /\ \A h \in g + 1 .. CodeSize - 1 :
               At(c, h) \in s \/ At(c, h) \in first_bit_mask
  <2>1. CodeSize \in 0 .. CodeSize
    OBVIOUS
  <2>. QED BY <2>1, CarryInCode
<1>2. \A j \in CodeBit : At(c, j) \in first_bit_mask <=> j = 0
  BY Masks
<1>3. ASSUME NEW g \in CodeBit, At(c, g) \in s, At(c, g) \in first_bit_mask,
             \A h \in g + 1 .. CodeSize - 1 :
               At(c, h) \in s \/ At(c, h) \in first_bit_mask,
             NEW j \in CodeBit
      PROVE  At(c, j) \in s
  <2>1. g = 0
    BY <1>2, <1>3
  <2>2. j # 0 => j \in g + 1 .. CodeSize - 1 /\ At(c, j) \notin first_bit_mask
    BY <1>2, <2>1
  <2>. QED BY <1>3, <2>1, <2>2
<1>4. ASSUME \A j \in CodeBit : At(c, j) \in s
      PROVE  \E g \in CodeBit :
               /\ At(c, g) \in s /\ At(c, g) \in first_bit_mask
               /\ \A h \in g + 1 .. CodeSize - 1 :
                    At(c, h) \in s \/ At(c, h) \in first_bit_mask
  <2>1. 0 \in CodeBit /\ \A h \in 0 + 1 .. CodeSize - 1 : h \in CodeBit
    OBVIOUS
  <2>. QED BY <1>2, <1>4, <2>1
<1>. QED BY <1>1, <1>3, <1>4

(* It never leaves one whose delimiter bit is set: the two additions of    *)
(* "<=" and ">=" carry at most once between them.                          *)
LEMMA NoSecondCarry ==
  ASSUME NEW x \in T, NEW y \in T, NEW c \in Code, NEW q, NEW r,
         \A d \in 0 .. c :
           /\ q[d] \in SUBSET CodeBit /\ r[d] \in SUBSET CodeBit
           /\ Operands(x, y, d, q[d], r[d])
  PROVE  ~ Carried(Add(x, y), first_bit_mask, At(c, 0))
<1>. DEFINE s == Add(x, y)
            D == {d \in 0 .. c : Carried(s, first_bit_mask, At(d, 0))}
<1>. c \in Nat /\ \A d \in 0 .. c : d \in Code
  BY CodePlaces DEF Code
<1>. SUFFICES ASSUME D # {} PROVE FALSE
  OBVIOUS
<1>1. PICK d \in D : \A i \in D : d <= i
  <2>1. D \in SUBSET Nat
    OBVIOUS
  <2>. HIDE DEF D
  <2>. QED BY <2>1, LeastElement
<1>2. d # 0
  BY <1>1, CarryUnfolds, CodePlaces
<1>. DEFINE e == d - 1
<1>3. e \in 0 .. c /\ e \in Code /\ e \notin D
  BY <1>1, <1>2
<1>4. At(d, 0) = At(e, CodeSize) + 1 /\ At(e, CodeSize) \in Nat
  <2>1. CodeSize \in 0 .. CodeSize
    BY CodeSizeAssumption
  <2>. QED BY <1>1, <1>2, <1>3, <2>1, CodePlaces
<1>5. At(e, CodeSize) \notin first_bit_mask
  BY <1>3, Masks, CodeSizeAssumption
<1>6. Carried(s, first_bit_mask, At(e, CodeSize)) /\ Delimiter(s, e)
  <2>1. Carried(s, first_bit_mask, At(e, CodeSize) + 1)
    BY <1>1, <1>4
  <2>. QED BY <1>4, <1>5, <2>1, CarryUnfolds DEF Delimiter
<1>. HIDE DEF e
<1>7. q[e] \in SUBSET CodeBit /\ r[e] \in SUBSET CodeBit /\ Operands(x, y, e, q[e], r[e])
  BY <1>3
<1>8. \A j \in CodeBit : At(e, j) \in s
  <2>1. s \in T
    BY WordTypes
  <2>2. ~ Carried(s, first_bit_mask, At(e, 0))
    BY <1>3
  <2>. HIDE DEF s
  <2>. QED BY <1>3, <1>6, <2>1, <2>2, FirstBitCarry
<1>9. q[e] = r[e] /\ Number(r[e]) < Number(q[e])
  BY <1>3, <1>6, <1>7, <1>8, Subtraction
<1>. QED BY <1>9, NumberType

LEMMA SubtractionAndOne ==
  ASSUME NEW x \in T, NEW y \in T, NEW c \in Code, NEW q, NEW r,
         \A d \in 0 .. c :
           /\ q[d] \in SUBSET CodeBit /\ r[d] \in SUBSET CodeBit
           /\ Operands(x, y, d, q[d], r[d])
  PROVE  Delimiter(Add(Add(x, y), first_bit_mask), c) <=> Number(r[c]) <= Number(q[c])
<1>. DEFINE s == Add(x, y)
<1>1. s \in T /\ first_bit_mask \in T
  BY WordTypes, MaskTypes
<1>2. At(c, CodeSize) \in Bit /\ At(c, CodeSize) \notin first_bit_mask
  BY Masks, CodePlaces, CodeSizeAssumption
<1>3. /\ q[c] \in SUBSET CodeBit /\ r[c] \in SUBSET CodeBit
      /\ Operands(x, y, c, q[c], r[c])
  <2>1. c \in 0 .. c
    BY CodePlaces DEF Code
  <2>. QED BY <2>1
<1>4. /\ Delimiter(s, c) <=> Number(r[c]) < Number(q[c])
      /\ (\A j \in CodeBit : At(c, j) \in s) <=> q[c] = r[c]
  BY <1>3, Subtraction
<1>5. ~ Carried(s, first_bit_mask, At(c, 0))
  BY NoSecondCarry
<1>. HIDE DEF s
<1>6. Carried(s, first_bit_mask, At(c, CodeSize)) <=> q[c] = r[c]
  BY <1>1, <1>4, <1>5, FirstBitCarry
<1>7. Delimiter(Add(s, first_bit_mask), c) <=>
        ~ (Delimiter(s, c) <=> Carried(s, first_bit_mask, At(c, CodeSize)))
  <2>1. At(c, CodeSize) \in Add(s, first_bit_mask) <=>
          ((At(c, CodeSize) \in s <=> At(c, CodeSize) \in first_bit_mask)
             <=> Carried(s, first_bit_mask, At(c, CodeSize)))
    BY <1>1, <1>2, SumBit
  <2>. QED BY <1>2, <2>1 DEF Delimiter
<1>8. /\ Number(q[c]) \in Nat /\ Number(r[c]) \in Nat
      /\ Number(r[c]) = Number(q[c]) <=> q[c] = r[c]
  <2>1. q[c] \in T /\ r[c] \in T
    BY <1>3, CodeTypes
  <2>2. Number(r[c]) = Number(q[c]) <=> r[c] = q[c]
    BY <2>1, NumberOrder
  <2>. QED BY <2>2, NumberType
<1>9. Delimiter(Add(s, first_bit_mask), c) <=> Number(r[c]) <= Number(q[c])
  BY <1>4, <1>6, <1>7, <1>8
<1>. QED BY <1>9 DEF s

(* All bits of the codes are added to words whose codes differ somewhere.  *)
LEMMA Difference ==
  ASSUME NEW x \in T, NEW c \in Code,
         ~ Delimiter(x, c), c # 0 => ~ Delimiter(x, c - 1)
  PROVE  Delimiter(Add(x, code_bits_mask), c) <=> CodeOf(x, c) # {}
<1>. CodeSize \in Nat \ {0} /\ CodeBit = 0 .. CodeSize - 1
  BY CodeSizeAssumption DEF CodeBit
<1>1. ~ Carried(x, code_bits_mask, At(c, 0))
  <2>1. c # 0 => ~ Delimiter(code_bits_mask, c - 1)
    <3>1. c # 0 => c - 1 \in Code
      BY CodePlaces DEF Code
    <3>. QED BY <3>1, Masks DEF Delimiter
  <2>. QED BY <2>1, DelimiterStops
<1>2. \A j \in CodeBit : At(c, j) \in code_bits_mask
  BY Masks
<1>3. ~ Delimiter(code_bits_mask, c)
  BY Masks DEF Delimiter
<1>4. Carried(x, code_bits_mask, At(c, CodeSize)) <=>
        \E g \in CodeBit :
          /\ At(c, g) \in x /\ At(c, g) \in code_bits_mask
          /\ \A h \in g + 1 .. CodeSize - 1 :
               At(c, h) \in x \/ At(c, h) \in code_bits_mask
  <2>1. CodeSize \in 0 .. CodeSize
    OBVIOUS
  <2>. QED BY <1>1, <2>1, CarryInCode
<1>5. Carried(x, code_bits_mask, At(c, CodeSize)) <=> \E g \in CodeBit : At(c, g) \in x
  <2>1. \A g \in CodeBit : \A h \in g + 1 .. CodeSize - 1 : h \in CodeBit
    OBVIOUS
  <2>. QED BY <1>2, <1>4, <2>1
<1>6. Delimiter(Add(x, code_bits_mask), c) <=>
        Carried(x, code_bits_mask, At(c, CodeSize))
  <2>1. At(c, CodeSize) \in Bit
    BY CodePlaces
  <2>. QED BY <1>3, <2>1, MaskTypes, SumBit DEF Delimiter
<1>. QED BY <1>5, <1>6 DEF CodeOf

(* The words that the comparisons combine, at each code up to c.           *)
LEMMA ComparedOperands ==
  ASSUME NEW x \in T, NEW pred \in SUBSET max_value, NEW c \in Code, ClearUpTo(x, c),
         NEW d \in 0 .. c
  PROVE  LET P == create_predicate(pred)
         IN  /\ d \in Code /\ CodeOf(x, d) \in SUBSET CodeBit
             /\ Operands(P, Xor(x, code_bits_mask), d, pred, CodeOf(x, d))
             /\ Operands(x, Xor(P, code_bits_mask), d, CodeOf(x, d), pred)
             /\ CodeOf(Xor(x, P), d) = {} <=> CodeOf(x, d) = pred
             /\ ~ Delimiter(Xor(x, P), d)
<1>. DEFINE P == create_predicate(pred)
            M == code_bits_mask
<1>. CodeSize \in Nat \ {0} /\ CodeBit = 0 .. CodeSize - 1 /\ pred \in SUBSET CodeBit
  BY CodeSizeAssumption DEF CodeBit, max_value
<1>0. c \in Nat /\ \A e \in 0 .. c : e \in Code
  BY CodePlaces DEF Code
<1>1. \A e \in 0 .. c, j \in CodeBit :
        (At(e, j) \in P <=> j \in pred) /\ At(e, j) \in M
  BY <1>0, Masks DEF create_predicate
<1>2. \A e \in 0 .. c : ~ Delimiter(P, e) /\ ~ Delimiter(M, e) /\ ~ Delimiter(x, e)
  BY <1>0, Masks DEF create_predicate, Delimiter, ClearUpTo
<1>3. \A e \in 0 .. c, j \in CodeBit : j \in CodeOf(x, e) <=> At(e, j) \in x
  BY DEF CodeOf
<1>4. CodeOf(x, d) \in SUBSET CodeBit
  BY DEF CodeOf
<1>5. d \in 0 .. c /\ (d # 0 => d - 1 \in 0 .. c)
  BY <1>0
<1>. HIDE DEF P, M
<1>6. \A y, z, b : b \in Xor(y, z) <=> ~ (b \in y <=> b \in z)
  BY DEF Xor
<1>7. \A e \in 0 .. c :
        ~ Delimiter(Xor(x, M), e) /\ ~ Delimiter(Xor(P, M), e) /\ ~ Delimiter(Xor(x, P), e)
  BY <1>2, <1>6 DEF Delimiter
<1>8. \A j \in CodeBit :
        /\ At(d, j) \in Xor(x, M) <=> j \notin CodeOf(x, d)
        /\ At(d, j) \in Xor(P, M) <=> j \notin pred
        /\ At(d, j) \in Xor(x, P) <=> ~ (j \in CodeOf(x, d) <=> j \in pred)
  BY <1>1, <1>3, <1>5, <1>6
<1>9. Operands(P, Xor(x, M), d, pred, CodeOf(x, d))
  BY <1>1, <1>2, <1>5, <1>7, <1>8 DEF Operands
<1>10. Operands(x, Xor(P, M), d, CodeOf(x, d), pred)
  BY <1>2, <1>3, <1>5, <1>7, <1>8 DEF Operands
<1>11. CodeOf(Xor(x, P), d) = {} <=> CodeOf(x, d) = pred
  <2>1. CodeOf(Xor(x, P), d) = {j \in CodeBit : ~ (j \in CodeOf(x, d) <=> j \in pred)}
    BY <1>8 DEF CodeOf
  <2>. QED BY <1>4, <2>1
<1>. QED BY <1>0, <1>4, <1>7, <1>9, <1>10, <1>11 DEF P, M

(* Every comparison sets the delimiter bit of a code if, and only if, it   *)
(* holds for the code, provided no delimiter bit is set up to there: the   *)
(* formulas of the six methods are right for all sizes of T and CodeSize.  *)
THEOREM ComparisonIsExact ==
  ASSUME NEW x \in T, NEW op \in Operation, NEW pred \in SUBSET max_value,
         NEW c \in Code, ClearUpTo(x, c)
  PROVE  Delimiter(Compare(op, x, create_predicate(pred)), c)
           <=> Holds(op, CodeOf(x, c), pred)
<1>. DEFINE P == create_predicate(pred)
            M == code_bits_mask
            f == CodeOf(x, c)
            q == [d \in 0 .. c |-> pred]
            r == [d \in 0 .. c |-> CodeOf(x, d)]
<1>0. c \in 0 .. c /\ pred \in SUBSET CodeBit
  BY CodePlaces DEF Code, max_value
<1>1. P \in T /\ M \in T /\ Xor(x, M) \in T /\ Xor(P, M) \in T /\ Xor(x, P) \in T
  BY WordTypes, MaskTypes DEF create_predicate
<1>2. \A d \in 0 .. c :
        /\ d \in Code /\ CodeOf(x, d) \in SUBSET CodeBit
        /\ Operands(P, Xor(x, M), d, pred, CodeOf(x, d))
        /\ Operands(x, Xor(P, M), d, CodeOf(x, d), pred)
        /\ CodeOf(Xor(x, P), d) = {} <=> CodeOf(x, d) = pred
        /\ ~ Delimiter(Xor(x, P), d)
  BY ComparedOperands
<1>. HIDE DEF P, M
<1>3. /\ f \in SUBSET CodeBit /\ Number(f) \in Nat /\ Number(pred) \in Nat
      /\ Number(f) = Number(pred) <=> f = pred
  BY <1>0, <1>2, NumberType, NumberOrder, CodeTypes
<1>4. Delimiter(Add(Xor(x, P), M), c) <=> f # pred
  <2>1. c # 0 => c - 1 \in 0 .. c
    BY CodePlaces DEF Code
  <2>2. ~ Delimiter(Xor(x, P), c) /\ (c # 0 => ~ Delimiter(Xor(x, P), c - 1))
    BY <1>0, <1>2, <2>1
  <2>3. Delimiter(Add(Xor(x, P), M), c) <=> CodeOf(Xor(x, P), c) # {}
    BY <1>1, <2>2, Difference DEF M
  <2>. QED BY <1>0, <1>2, <2>3
<1>5. Delimiter(Add(P, Xor(x, M)), c) <=> Number(f) < Number(pred)
  BY <1>0, <1>1, <1>2, Subtraction
<1>6. Delimiter(Add(x, Xor(P, M)), c) <=> Number(f) > Number(pred)
  <2>1. Delimiter(Add(x, Xor(P, M)), c) <=> Number(pred) < Number(f)
    BY <1>0, <1>1, <1>2, Subtraction
  <2>. QED BY <1>3, <2>1
<1>7. Delimiter(Add(Add(P, Xor(x, M)), first_bit_mask), c) <=> Number(f) <= Number(pred)
  <2>1. \A d \in 0 .. c :
          /\ q[d] \in SUBSET CodeBit /\ r[d] \in SUBSET CodeBit
          /\ Operands(P, Xor(x, M), d, q[d], r[d])
    BY <1>0, <1>2
  <2>2. q[c] = pred /\ r[c] = f
    BY <1>0
  <2>. HIDE DEF q, r
  <2>. QED BY <1>1, <2>1, <2>2, SubtractionAndOne
<1>8. Delimiter(Add(Add(x, Xor(P, M)), first_bit_mask), c) <=> Number(f) >= Number(pred)
  <2>1. \A d \in 0 .. c :
          /\ q[d] \in SUBSET CodeBit /\ r[d] \in SUBSET CodeBit
          /\ Operands(x, Xor(P, M), d, r[d], q[d])
    BY <1>0, <1>2
  <2>2. q[c] = pred /\ r[c] = f
    BY <1>0
  <2>. HIDE DEF q, r
  <2>3. Delimiter(Add(Add(x, Xor(P, M)), first_bit_mask), c) <=> Number(pred) <= Number(f)
    BY <1>1, <2>1, <2>2, SubtractionAndOne
  <2>. QED BY <1>3, <2>3
<1>9. \A w : Delimiter(Complement(w), c) <=> ~ Delimiter(w, c)
  <2>1. At(c, CodeSize) \in Bit
    BY CodePlaces, CodeSizeAssumption
  <2>. QED BY <2>1 DEF Delimiter, Complement
<1>. HIDE DEF f
<1>10. CASE op = "neq"
  <2>1. Compare(op, x, create_predicate(pred)) = Add(Xor(x, P), M)
    BY <1>10 DEF Compare, cmp_neq, M, P
  <2>2. Holds(op, CodeOf(x, c), pred) <=> Number(f) # Number(pred)
    BY <1>10 DEF Holds, f
  <2>. QED BY <1>3, <1>4, <2>1, <2>2
<1>11. CASE op = "eq"
  <2>1. Compare(op, x, create_predicate(pred)) = Complement(Add(Xor(x, P), M))
    BY <1>11 DEF Compare, cmp_eq, M, P
  <2>2. Holds(op, CodeOf(x, c), pred) <=> Number(f) = Number(pred)
    BY <1>11 DEF Holds, f
  <2>. QED BY <1>3, <1>4, <1>9, <2>1, <2>2
<1>12. CASE op = "lt"
  <2>1. Compare(op, x, create_predicate(pred)) = Add(P, Xor(x, M))
    BY <1>12 DEF Compare, cmp_lt, M, P
  <2>2. Holds(op, CodeOf(x, c), pred) <=> Number(f) < Number(pred)
    BY <1>12 DEF Holds, f
  <2>. QED BY <1>5, <2>1, <2>2
<1>13. CASE op = "leq"
  <2>1. Compare(op, x, create_predicate(pred)) = Add(Add(P, Xor(x, M)), first_bit_mask)
    BY <1>13 DEF Compare, cmp_leq, M, P
  <2>2. Holds(op, CodeOf(x, c), pred) <=> Number(f) <= Number(pred)
    BY <1>13 DEF Holds, f
  <2>. QED BY <1>7, <2>1, <2>2
<1>14. CASE op = "gt"
  <2>1. Compare(op, x, create_predicate(pred)) = Add(x, Xor(P, M))
    BY <1>14 DEF Compare, cmp_gt, M, P
  <2>2. Holds(op, CodeOf(x, c), pred) <=> Number(f) > Number(pred)
    BY <1>14 DEF Holds, f
  <2>. QED BY <1>6, <2>1, <2>2
<1>15. CASE op = "geq"
  <2>1. Compare(op, x, create_predicate(pred)) = Add(Add(x, Xor(P, M)), first_bit_mask)
    BY <1>15 DEF Compare, cmp_geq, M, P
  <2>2. Holds(op, CodeOf(x, c), pred) <=> Number(f) >= Number(pred)
    BY <1>15 DEF Holds, f
  <2>. QED BY <1>8, <2>1, <2>2
<1>. QED BY <1>10, <1>11, <1>12, <1>13, <1>14, <1>15 DEF Operation

OperationOf(k) ==
  CASE k = "bw_h_eq" -> "eq" [] k = "bw_h_neq" -> "neq" [] k = "bw_h_lt" -> "lt"
    [] k = "bw_h_leq" -> "leq" [] k = "bw_h_gt" -> "gt" [] k = "bw_h_geq" -> "geq"

(* The BitWeaving tasks of the memory benchmark decide the same about the  *)
(* words of their buffer, for the code that they cut from WRITE_VAL64.     *)
THEOREM TaskComparisonIsExact ==
  ASSUME NEW x \in T, NEW k \in BwNames, NEW c \in Code, ClearUpTo(x, c)
  PROVE  Delimiter(Comparison(k, x), c)
           <=> Holds(OperationOf(k), CodeOf(x, c), WriteVal \intersect max_value)
<1>1. OperationOf(k) \in Operation
  BY DEF OperationOf, Operation, BwNames
<1>2. Comparison(k, x) = Compare(OperationOf(k), x, predicate)
  <2>1. CASE k = "bw_h_eq"
    BY <2>1 DEF Comparison, Compare, OperationOf, BitWeaving_H_EQ, cmp_eq
  <2>2. CASE k = "bw_h_neq"
    BY <2>2 DEF Comparison, Compare, OperationOf, BitWeaving_H_NEQ, cmp_neq
  <2>3. CASE k = "bw_h_lt"
    BY <2>3 DEF Comparison, Compare, OperationOf, BitWeaving_H_LT, cmp_lt
  <2>4. CASE k = "bw_h_leq"
    BY <2>4 DEF Comparison, Compare, OperationOf, BitWeaving_H_LEQ, cmp_leq
  <2>5. CASE k = "bw_h_gt"
    BY <2>5 DEF Comparison, Compare, OperationOf, BitWeaving_H_GT, cmp_gt
  <2>6. CASE k = "bw_h_geq"
    BY <2>6 DEF Comparison, Compare, OperationOf, BitWeaving_H_GEQ, cmp_geq
  <2>. QED BY <2>1, <2>2, <2>3, <2>4, <2>5, <2>6 DEF BwNames
<1>3. WriteVal \intersect max_value \in SUBSET max_value
  OBVIOUS
<1>. QED BY <1>1, <1>2, <1>3, ComparisonIsExact DEF predicate

-----------------------------------------------------------------------------
(* The store.                                                              *)

(* The column holds words, and the result is that of the last comparison   *)
(* with the column it was called on.                                       *)
StoreInv ==
  /\ data \in [Index -> T]
  /\ last # NoResult =>
       /\ last.op \in Operation
       /\ last.pred \in SUBSET max_value
       /\ last.of \in [Index -> T]
       /\ result = [j \in Index |->
                      Compare(last.op, last.of[j], create_predicate(last.pred))]

LEMMA StoreInvInductive == StoreSpec => []StoreInv
<1>1. StoreInit => StoreInv
  BY DEF StoreInit, StoreInv
<1>2. StoreInv /\ [StoreNext]_storeVars => StoreInv'
  <2>. SUFFICES ASSUME StoreInv, [StoreNext]_storeVars PROVE StoreInv'
    OBVIOUS
  <2>1. CASE format
    <3>1. \A j \in Index : Xor(data[j], delimeter_bits_mask) \in T
      BY WordTypes, MaskTypes DEF StoreInv
    <3>2. data' \in [Index -> T]
      BY <2>1, <3>1 DEF format, StoreInv
    <3>. QED BY <2>1, <3>2 DEF format, StoreInv
  <2>2. ASSUME NEW op \in Operation, NEW pred \in SUBSET max_value, cmp(op, pred)
        PROVE  StoreInv'
    <3>1. last'.op = op /\ last'.pred = pred /\ last'.of = data /\ data' = data
      BY <2>2 DEF cmp
    <3>2. result' = [j \in Index |-> Compare(op, data[j], create_predicate(pred))]
      BY <2>2 DEF cmp
    <3>. QED BY <3>1, <3>2 DEF StoreInv
  <2>3. CASE UNCHANGED storeVars
    BY <2>3 DEF storeVars, StoreInv
  <2>. QED BY <2>1, <2>2, <2>3 DEF StoreNext
<1>. QED BY <1>1, <1>2, PTL DEF StoreSpec

(* Whatever was called before, the delimiter bits of a result are those of *)
(* the codes for which the comparison holds.                               *)
THEOREM ComparisonsAreExact == StoreSpec => []ComparisonsExact
<1>1. StoreInv => ComparisonsExact
  <2>. SUFFICES ASSUME StoreInv, last # NoResult, NEW j \in Index, NEW c \in Code,
                       ClearUpTo(last.of[j], c)
                PROVE  Delimiter(result[j], c)
                         <=> Holds(last.op, CodeOf(last.of[j], c), last.pred)
    BY DEF ComparisonsExact
  <2>1. /\ last.op \in Operation /\ last.pred \in SUBSET max_value /\ last.of[j] \in T
        /\ result[j] = Compare(last.op, last.of[j], create_predicate(last.pred))
    BY DEF StoreInv
  <2>. QED BY <2>1, ComparisonIsExact
<1>. QED BY <1>1, StoreInvInductive, PTL

(* format inverts delimiter bits and nothing else writes the column: the   *)
(* codes stay what the caller stored.                                      *)
THEOREM CodesStay == StoreSpec => CodesKept
<1>1. StoreInv /\ [StoreNext]_storeVars =>
        [\A j \in Index, c \in Code : CodeOf(data'[j], c) = CodeOf(data[j], c)]_storeVars
  <2>. SUFFICES ASSUME StoreInv, StoreNext, NEW j \in Index, NEW c \in Code
                PROVE  CodeOf(data'[j], c) = CodeOf(data[j], c)
    BY Zenon
  <2>1. CASE format
    <3>1. data'[j] = data[j] \/ data'[j] = Xor(data[j], delimeter_bits_mask)
      BY <2>1 DEF format
    <3>2. \A b \in CodeBit : At(c, b) \notin delimeter_bits_mask
      BY Masks, CodeSizeAssumption DEF CodeBit
    <3>3. CodeOf(Xor(data[j], delimeter_bits_mask), c) = CodeOf(data[j], c)
      BY <3>2 DEF CodeOf, Xor
    <3>. QED BY <3>1, <3>3
  <2>2. ASSUME NEW op \in Operation, NEW pred \in SUBSET max_value, cmp(op, pred)
        PROVE  CodeOf(data'[j], c) = CodeOf(data[j], c)
    BY <2>2 DEF cmp
  <2>. QED BY <2>1, <2>2 DEF StoreNext
<1>. QED BY <1>1, StoreInvInductive, PTL DEF StoreSpec, CodesKept
=============================================================================
