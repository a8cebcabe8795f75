------------------------------ MODULE BasicFacts ------------------------------
(***************************************************************************)
(* Lemmas about numbers, finite sets and sums that the proofs of several   *)
(* components cite.  The library states induction for a predicate, which   *)
(* no prover here instantiates; the first lemmas state it for a set.       *)
(***************************************************************************)
EXTENDS Integers, FiniteSets, Functions, FiniteSetTheorems, WellFoundedInduction, TLAPS

-----------------------------------------------------------------------------
(* Induction, for a set in place of a predicate.                           *)

LEMMA LeastElement ==
  ASSUME NEW S \in SUBSET Nat, S # {}
  PROVE  \E m \in S : \A n \in S : m <= n
<1>1. \E m \in S : \A n \in S : ~ (<<n, m>> \in OpToRel(<, Nat))
  BY NatLessThanWellFounded, WFMin, Zenon
<1>2. ASSUME NEW m \in Nat, NEW n \in Nat, n < m PROVE <<n, m>> \in OpToRel(<, Nat)
  BY <1>2 DEF OpToRel
<1>3. PICK m \in S : \A n \in S : ~ (n < m)
  BY <1>1, <1>2, Zenon
<1>. QED BY <1>3

LEMMA GreatestElement ==
  ASSUME NEW b \in Nat, NEW S \in SUBSET (0 .. b), S # {}
  PROVE  \E m \in S : \A n \in S : n <= m
<1>. DEFINE T == {b - x : x \in S}
<1>1. T \in SUBSET Nat /\ T # {}
  OBVIOUS
<1>2. PICK t \in T : \A u \in T : t <= u
  BY <1>1, LeastElement
<1>3. PICK m \in S : t = b - m
  BY <1>2
<1>4. \A n \in S : b - m <= b - n
  BY <1>2, <1>3
<1>5. \A n \in S : n <= m
  BY <1>4
<1>. QED BY <1>5

LEMMA NatInductionOfSet ==
  ASSUME NEW T \in SUBSET Nat, 0 \in T, \A n \in T : n + 1 \in T
  PROVE  T = Nat
<1>. SUFFICES ASSUME Nat \ T # {} PROVE FALSE
  OBVIOUS
<1>1. PICK m \in Nat \ T : \A n \in Nat \ T : m <= n
  BY LeastElement
<1>2. m # 0 /\ m - 1 \in Nat /\ m - 1 < m /\ (m - 1) + 1 = m
  BY <1>1
<1>. QED BY <1>1, <1>2

LEMMA SubsetInduction ==
  ASSUME NEW D, IsFiniteSet(D), NEW T \in SUBSET (SUBSET D),
         {} \in T,
         \A s \in SUBSET D : s # {} /\ (\A x \in s : s \ {x} \in T) => s \in T
  PROVE  T = SUBSET D
<1>. DEFINE N == {n \in Nat : \A s \in SUBSET D : Cardinality(s) = n => s \in T}
<1>1. \A s \in SUBSET D : IsFiniteSet(s) /\ Cardinality(s) \in Nat
  BY FS_Subset, FS_CardinalityType
<1>2. 0 \in N
  BY <1>1, FS_EmptySet
<1>3. ASSUME NEW n \in N PROVE n + 1 \in N
  <2>. SUFFICES ASSUME NEW s \in SUBSET D, Cardinality(s) = n + 1 PROVE s \in T
    OBVIOUS
  <2>1. s # {}
    <3>1. Cardinality({}) = 0 /\ n + 1 # 0
      BY FS_EmptySet, <1>3
    <3>. QED BY <3>1
  <2>2. ASSUME NEW x \in s PROVE s \ {x} \in T
    <3>1. Cardinality(s \ {x}) = n
      BY <1>1, <1>3, FS_RemoveElement
    <3>. QED BY <3>1, <1>3
  <2>. QED BY <2>1, <2>2
<1>4. N \in SUBSET Nat
  OBVIOUS
<1>. HIDE DEF N
<1>5. N = Nat
  BY <1>2, <1>3, <1>4, NatInductionOfSet
<1>. QED BY <1>1, <1>5 DEF N

-----------------------------------------------------------------------------
(* Products and division.                                                  *)

(* Products, which the SMT backend treats as it likes.                     *)
LEMMA ProductMonotone ==
  ASSUME NEW a \in Nat, NEW b \in Nat, NEW c \in Nat, a <= b
  PROVE  /\ a * c \in Nat
         /\ a * c <= b * c
<1>1. (b - a) * c >= 0
  BY SMT
<1>. QED BY <1>1, SMT

LEMMA ProductSuccessor ==
  ASSUME NEW a \in Int, NEW c \in Int
  PROVE  (a + 1) * c = a * c + c
  BY SMT

LEMMA ProductSum ==
  ASSUME NEW a \in Int, NEW b \in Int, NEW c \in Int
  PROVE  (a + b) * c = a * c + b * c /\ (a - b) * c = a * c - b * c
  BY SMT

LEMMA ProductOrder ==
  ASSUME NEW a \in Int, NEW b \in Int, NEW c \in Nat \ {0}
  PROVE  /\ a * c < b * c => a < b
         /\ a * c = b * c => a = b
<1>1. ASSUME NEW p \in Int, NEW q \in Int, p >= q PROVE p * c >= q * c
  <2>1. (p - q) * c >= 0
    BY <1>1, SMT
  <2>2. (p - q) * c = p * c - q * c /\ p * c \in Int /\ q * c \in Int
    BY SMT
  <2>. QED BY <2>1, <2>2
<1>2. ASSUME NEW p \in Int, NEW q \in Int, p > q PROVE p * c > q * c
  <2>1. (p - q) * c >= c
    BY <1>2, SMT
  <2>2. (p - q) * c = p * c - q * c /\ p * c \in Int /\ q * c \in Int
    BY SMT
  <2>. QED BY <2>1, <2>2
<1>. DEFINE x == a * c
            y == b * c
<1>3. x \in Int /\ y \in Int
  BY SMT
<1>4. (a >= b => x >= y) /\ (a > b => x > y) /\ (b > a => y > x)
  BY <1>1, <1>2
<1>. HIDE DEF x, y
<1>5. (x < y => a < b) /\ (x = y => a = b)
  BY <1>3, <1>4
<1>. QED BY <1>5 DEF x, y

(* Quotient and remainder, as the SMT backend knows them.                  *)
LEMMA DivMod ==
  ASSUME NEW a \in Int, NEW c \in Nat \ {0}
  PROVE  /\ a = c * (a \div c) + (a % c)
         /\ a % c \in 0 .. c - 1
         /\ a \div c \in Int
  BY SMT

(* They are determined by this.                                            *)
LEMMA DivModUnique ==
  ASSUME NEW c \in Nat \ {0},
         NEW q \in Int, NEW r \in 0 .. c - 1,
         NEW p \in Int, NEW t \in 0 .. c - 1,
         c * q + r = c * p + t
  PROVE  q = p /\ r = t
<1>1. c * (q - p) = t - r
  BY SMT
<1>2. CASE q - p >= 1
  <2>1. c * (q - p) >= c
    BY <1>2, SMT
  <2>. QED BY <2>1, <1>1
<1>3. CASE p - q >= 1
  <2>1. c * (p - q) >= c
    BY <1>3, SMT
  <2>. QED BY <2>1, <1>1
<1>. QED BY <1>2, <1>3, <1>1

LEMMA ModOfSmall ==
  ASSUME NEW c \in Nat \ {0}, NEW r \in 0 .. c - 1
  PROVE  r % c = r
  BY SMT

LEMMA ModOfSum ==
  ASSUME NEW c \in Nat \ {0}, NEW q \in Int, NEW r \in 0 .. c - 1
  PROVE  (c * q + r) % c = r
<1>. DEFINE a == c * q + r
<1>1. a \in Int
  BY SMT
<1>2. /\ a = c * (a \div c) + (a % c)
      /\ a % c \in 0 .. c - 1
      /\ a \div c \in Int
  BY <1>1, DivMod
<1>. HIDE DEF a
<1>3. c * q + r = c * (a \div c) + (a % c)
  BY <1>2 DEF a
<1>4. a % c = r
  BY <1>2, <1>3, DivModUnique, Zenon
<1>. QED BY <1>4 DEF a

LEMMA ModPeriod ==
  ASSUME NEW a \in Int, NEW c \in Nat \ {0}
  PROVE  (a + c) % c = (a % c)
<1>. DEFINE q == a \div c
            r == a % c
<1>1. a = c * q + r /\ r \in 0 .. c - 1 /\ q \in Int
  BY DivMod
<1>. HIDE DEF q, r
<1>2. a + c = c * (q + 1) + r
  <2>1. c * (q + 1) = c * q + c
    BY <1>1, SMT
  <2>. QED BY <1>1, <2>1, SMT
<1>3. (c * (q + 1) + r) % c = r
  BY <1>1, ModOfSum
<1>. QED BY <1>2, <1>3 DEF r

(* A difference in the arithmetic of c values, added again.                *)
LEMMA ModOfDifference ==
  ASSUME NEW c \in Nat \ {0}, NEW x \in 0 .. c - 1, NEW y \in Int, NEW s \in Int,
         s % c = y % c
  PROVE  (((x - y) % c) + s) % c = x
<1>1. /\ x - y = c * ((x - y) \div c) + ((x - y) % c) /\ (x - y) \div c \in Int
      /\ (x - y) % c \in Int
  <2>. DEFINE d == x - y
  <2>1. d \in Int
    OBVIOUS
  <2>. HIDE DEF d
  <2>2. d = c * (d \div c) + (d % c) /\ d \div c \in Int /\ d % c \in 0 .. c - 1
    BY <2>1, DivMod
  <2>. QED BY <2>2 DEF d
<1>. DEFINE p == (x - y) \div c
            r == (x - y) % c
            q == s \div c
            u == y \div c
            z == y % c
<1>2. s = c * q + z /\ q \in Int /\ z \in Int /\ y = c * u + z /\ u \in Int
  BY DivMod
<1>3. x - y = c * p + r /\ p \in Int /\ r \in Int
  BY <1>1
<1>. HIDE DEF p, q, r, u, z
<1>4. r + s = c * (q - p - u) + x
  <2>1. c * (q - p - u) = c * q - c * p - c * u /\ c * q \in Int /\ c * p \in Int /\ c * u \in Int
    BY <1>2, <1>3, SMT
  <2>. QED BY <1>2, <1>3, <2>1
<1>5. (c * (q - p - u) + x) % c = x
  <2>. DEFINE v == q - p - u
  <2>1. v \in Int
    BY <1>2, <1>3
  <2>. HIDE DEF v
  <2>2. (c * v + x) % c = x
    BY <2>1, ModOfSum
  <2>. QED BY <2>2 DEF v
<1>6. (r + s) % c = x
  BY <1>4, <1>5
<1>. QED BY <1>6 DEF r

-----------------------------------------------------------------------------
(* The sum of a function's values (SumFunction of the community modules).  *)

(* iter is a table of the partial sums of f over the subsets of D: a sum   *)
(* takes one element at a time, whichever CHOOSE yields.                   *)
PartialSums(f, D, iter) ==
  iter = [s \in SUBSET D |->
            IF s = {} THEN 0
              ELSE f[CHOOSE x \in s : TRUE] + iter[s \ {CHOOSE x \in s : TRUE}]]

LEMMA PartialSumsExist ==
  ASSUME NEW D, IsFiniteSet(D), NEW f
  PROVE  \E iter : PartialSums(f, D, iter)
<1>. DEFINE Small(n) == {s \in SUBSET D : Cardinality(s) <= n}
            el(s) == CHOOSE x \in s : TRUE
            Part(n, g) == \A s \in Small(n) :
               g[s] = IF s = {} THEN 0 ELSE f[el(s)] + g[s \ {el(s)}]
            T == {n \in Nat : \E g : g = [s \in Small(n) |-> g[s]] /\ Part(n, g)}
<1>0. \A s \in SUBSET D :
        /\ IsFiniteSet(s) /\ Cardinality(s) \in Nat
        /\ s # {} => el(s) \in s /\ Cardinality(s \ {el(s)}) = Cardinality(s) - 1
  BY FS_Subset, FS_CardinalityType, FS_RemoveElement
<1>1. 0 \in T
  <2>. DEFINE g == [s \in Small(0) |-> 0]
  <2>1. \A s \in Small(0) : s = {}
    BY FS_EmptySet, <1>0
  <2>2. Part(0, g) /\ g = [s \in Small(0) |-> g[s]]
    BY <2>1
  <2>. HIDE DEF g, Part, Small
  <2>3. \E h : h = [s \in Small(0) |-> h[s]] /\ Part(0, h)
    BY <2>2
  <2>. QED BY <2>3
<1>2. ASSUME NEW n \in T PROVE n + 1 \in T
  <2>1. PICK g : g = [s \in Small(n) |-> g[s]] /\ Part(n, g)
    BY <1>2
  <2>. DEFINE h == [s \in Small(n + 1) |->
                      IF s \in Small(n) THEN g[s] ELSE f[el(s)] + g[s \ {el(s)}]]
  <2>2. Part(n + 1, h)
    <3>. SUFFICES ASSUME NEW s \in Small(n + 1)
                  PROVE  h[s] = IF s = {} THEN 0 ELSE f[el(s)] + h[s \ {el(s)}]
      OBVIOUS
    <3>0. n \in Nat
      OBVIOUS
    <3>1. CASE s = {}
      <4>1. s \in Small(n)
        BY <3>1, <3>0, FS_EmptySet
      <4>. QED BY <4>1, <3>1, <2>1
    <3>2. CASE s # {}
      <4>1. s \ {el(s)} \in Small(n)
        BY <3>2, <3>0, <1>0
      <4>2. s \ {el(s)} \in Small(n + 1)
        BY <4>1, <3>0, <1>0
      <4>3. h[s \ {el(s)}] = g[s \ {el(s)}]
        BY <4>1, <4>2
      <4>4. s \in Small(n) => g[s] = f[el(s)] + g[s \ {el(s)}]
        BY <2>1, <3>2
      <4>5. h[s] = IF s \in Small(n) THEN g[s] ELSE f[el(s)] + g[s \ {el(s)}]
        OBVIOUS
      <4>6. h[s] = f[el(s)] + g[s \ {el(s)}]
        BY <4>4, <4>5, Zenon
      <4>. QED BY <4>3, <4>6, <3>2, Zenon
    <3>. QED BY <3>1, <3>2
  <2>3. h = [s \in Small(n + 1) |-> h[s]]
    OBVIOUS
  <2>. HIDE DEF h, Part, Small
  <2>4. \E k : k = [s \in Small(n + 1) |-> k[s]] /\ Part(n + 1, k)
    BY <2>2, <2>3
  <2>. QED BY <2>4
<1>. HIDE DEF T
<1>3. T = Nat
  <2>1. T \in SUBSET Nat
    BY DEF T
  <2>. QED BY <1>1, <1>2, <2>1, NatInductionOfSet
<1>4. PICK g : /\ g = [s \in Small(Cardinality(D)) |-> g[s]]
               /\ Part(Cardinality(D), g)
  BY <1>3, FS_CardinalityType DEF T
<1>5. Small(Cardinality(D)) = SUBSET D
  BY FS_Subset
<1>6. PartialSums(f, D, g)
  <2>. HIDE DEF Small
  <2>. QED BY <1>4, <1>5 DEF PartialSums
<1>. QED BY <1>6

(* One step of such a table.                                               *)
LEMMA PartialSumsStep ==
  ASSUME NEW D, NEW f, NEW iter, PartialSums(f, D, iter)
  PROVE  /\ iter[{}] = 0
         /\ \A s \in SUBSET D : s # {} =>
              LET x == CHOOSE y \in s : TRUE
              IN  x \in s /\ iter[s] = f[x] + iter[s \ {x}]
<1>1. iter[{}] = 0
  BY DEF PartialSums
<1>2. ASSUME NEW s \in SUBSET D, s # {}
      PROVE  LET x == CHOOSE y \in s : TRUE
             IN  x \in s /\ iter[s] = f[x] + iter[s \ {x}]
  <2>1. (CHOOSE y \in s : TRUE) \in s
    BY <1>2
  <2>. QED BY <1>2, <2>1 DEF PartialSums
<1>. QED BY <1>1, <1>2

LEMMA PartialSumsType ==
  ASSUME NEW D, IsFiniteSet(D), NEW f \in [D -> Int], NEW iter, PartialSums(f, D, iter)
  PROVE  \A s \in SUBSET D : iter[s] \in Int
<1>. DEFINE T == {s \in SUBSET D : iter[s] \in Int}
<1>1. {} \in T
  BY PartialSumsStep
<1>2. ASSUME NEW s \in SUBSET D, s # {}, \A x \in s : s \ {x} \in T PROVE s \in T
  <2>. DEFINE x == CHOOSE y \in s : TRUE
  <2>1. x \in s /\ iter[s] = f[x] + iter[s \ {x}]
    BY <1>2, PartialSumsStep
  <2>. HIDE DEF x
  <2>2. f[x] \in Int /\ iter[s \ {x}] \in Int
    BY <2>1, <1>2
  <2>. QED BY <2>1, <2>2
<1>3. T \in SUBSET (SUBSET D)
  OBVIOUS
<1>. HIDE DEF T
<1>4. T = SUBSET D
  BY <1>1, <1>2, <1>3, SubsetInduction
<1>. QED BY <1>4 DEF T

(* A sum may take any of its elements first.                               *)
LEMMA PartialSumsRemove ==
  ASSUME NEW D, IsFiniteSet(D), NEW f \in [D -> Int], NEW iter, PartialSums(f, D, iter)
  PROVE  \A s \in SUBSET D : \A x \in s : iter[s] = f[x] + iter[s \ {x}]
<1>. DEFINE T == {s \in SUBSET D : \A x \in s : iter[s] = f[x] + iter[s \ {x}]}
<1>1. {} \in T
  OBVIOUS
<1>2. ASSUME NEW s \in SUBSET D, s # {}, \A x \in s : s \ {x} \in T PROVE s \in T
  <2>. SUFFICES ASSUME NEW x \in s PROVE iter[s] = f[x] + iter[s \ {x}]
    OBVIOUS
  <2>. DEFINE c == CHOOSE y \in s : TRUE
  <2>1. c \in s /\ iter[s] = f[c] + iter[s \ {c}]
    <3>. HIDE DEF T
    <3>. QED BY <1>2, PartialSumsStep
  <2>. HIDE DEF c
  <2>2. CASE x = c
    BY <2>1, <2>2
  <2>3. CASE x # c
    <3>1. iter[s \ {c}] = f[x] + iter[(s \ {c}) \ {x}]
      BY <1>2, <2>1, <2>3
    <3>2. iter[s \ {x}] = f[c] + iter[(s \ {x}) \ {c}]
      BY <1>2, <2>1, <2>3
    <3>3. (s \ {c}) \ {x} = (s \ {x}) \ {c}
      OBVIOUS
    <3>4. f[c] \in Int /\ f[x] \in Int /\ iter[(s \ {x}) \ {c}] \in Int
      BY <2>1, PartialSumsType
    <3>. DEFINE rest == iter[(s \ {x}) \ {c}]
    <3>5. /\ iter[s] = f[c] + iter[s \ {c}] /\ iter[s \ {c}] = f[x] + rest
          /\ iter[s \ {x}] = f[c] + rest /\ rest \in Int
      BY <2>1, <3>1, <3>2, <3>3, <3>4
    <3>. HIDE DEF rest, T
    <3>. QED BY <3>4, <3>5
  <2>. QED BY <2>2, <2>3
<1>3. T \in SUBSET (SUBSET D)
  OBVIOUS
<1>. HIDE DEF T
<1>4. T = SUBSET D
  BY <1>1, <1>2, <1>3, SubsetInduction
<1>. QED BY <1>4 DEF T

LEMMA SumUnfolds ==
  ASSUME NEW D, IsFiniteSet(D), NEW f, D = DOMAIN f
  PROVE  \E iter : PartialSums(f, D, iter) /\ SumFunction(f) = iter[D]
<1>. DEFINE iter == CHOOSE iter : iter = [s \in SUBSET D |->
               IF s = {} THEN 0
                 ELSE f[CHOOSE x \in s : TRUE] + iter[s \ {CHOOSE x \in s : TRUE}]]
<1>1. SumFunction(f) = iter[D]
  BY DEF SumFunction, SumFunctionOnSet, FoldFunctionOnSet, MapThenFoldSet
<1>2. PartialSums(f, D, iter)
  <2>1. \E it : PartialSums(f, D, it)
    BY PartialSumsExist
  <2>. QED BY <2>1, Zenon DEF PartialSums
<1>. QED BY <1>1, <1>2

LEMMA SumType ==
  ASSUME NEW D, IsFiniteSet(D), NEW f \in [D -> Int]
  PROVE  SumFunction(f) \in Int
BY SumUnfolds, PartialSumsType

LEMMA SumOfZeros ==
  ASSUME NEW D, IsFiniteSet(D)
  PROVE  SumFunction([x \in D |-> 0]) = 0
<1>. DEFINE f == [x \in D |-> 0]
<1>1. PICK u : PartialSums(f, D, u) /\ SumFunction(f) = u[D]
  BY SumUnfolds
<1>. DEFINE T == {s \in SUBSET D : u[s] = 0}
<1>2. {} \in T
  BY <1>1, PartialSumsStep
<1>3. ASSUME NEW s \in SUBSET D, s # {}, \A x \in s : s \ {x} \in T PROVE s \in T
  <2>. DEFINE x == CHOOSE y \in s : TRUE
  <2>1. x \in s /\ u[s] = f[x] + u[s \ {x}]
    BY <1>1, <1>3, PartialSumsStep
  <2>. HIDE DEF x
  <2>. QED BY <2>1, <1>3
<1>4. T \in SUBSET (SUBSET D)
  OBVIOUS
<1>. HIDE DEF T
<1>5. T = SUBSET D
  BY <1>2, <1>3, <1>4, SubsetInduction
<1>. QED BY <1>1, <1>5 DEF T

(* When one value changes, the sum changes by as much.                     *)
LEMMA SumOfChange ==
  ASSUME NEW D, IsFiniteSet(D), NEW f \in [D -> Int], NEW g \in [D -> Int],
         NEW t \in D, \A x \in D \ {t} : g[x] = f[x]
  PROVE  SumFunction(g) = SumFunction(f) + (g[t] - f[t])
<1>1. PICK u : PartialSums(f, D, u) /\ SumFunction(f) = u[D]
  BY SumUnfolds
<1>2. PICK v : PartialSums(g, D, v) /\ SumFunction(g) = v[D]
  BY SumUnfolds
<1>. DEFINE Change(s) == IF t \in s THEN g[t] - f[t] ELSE 0
            T == {s \in SUBSET D : v[s] = u[s] + Change(s)}
<1>3. {} \in T
  BY <1>1, <1>2, PartialSumsStep
<1>4. ASSUME NEW s \in SUBSET D, s # {}, \A x \in s : s \ {x} \in T PROVE s \in T
  <2>. DEFINE x == CHOOSE y \in s : TRUE
  <2>1. x \in s /\ u[s] = f[x] + u[s \ {x}]
    BY <1>1, <1>4, PartialSumsStep
  <2>2. v[s] = g[x] + v[s \ {x}]
    BY <1>2, <1>4, PartialSumsStep
  <2>. HIDE DEF x
  <2>3. v[s \ {x}] = u[s \ {x}] + Change(s \ {x})
    BY <2>1, <1>4
  <2>4. u[s \ {x}] \in Int /\ g[x] \in Int /\ f[x] \in Int /\ g[t] \in Int /\ f[t] \in Int
    BY <1>1, <2>1, PartialSumsType
  <2>5. CASE x = t
    <3>1. Change(s \ {x}) = 0 /\ Change(s) = g[t] - f[t]
      BY <2>1, <2>5
    <3>. HIDE DEF Change
    <3>2. v[s] = u[s] + Change(s)
      BY <3>1, <2>1, <2>2, <2>3, <2>4, <2>5
    <3>. QED BY <3>2
  <2>6. CASE x # t
    <3>1. Change(s \ {x}) = Change(s) /\ g[x] = f[x] /\ Change(s) \in Int
      BY <2>1, <2>4, <2>6
    <3>. HIDE DEF Change
    <3>2. v[s] = u[s] + Change(s)
      BY <3>1, <2>1, <2>2, <2>3, <2>4
    <3>. QED BY <3>2
  <2>. QED BY <2>5, <2>6
<1>5. T \in SUBSET (SUBSET D)
  OBVIOUS
<1>. HIDE DEF T
<1>6. T = SUBSET D
  BY <1>3, <1>4, <1>5, SubsetInduction
<1>. QED BY <1>1, <1>2, <1>6 DEF T

(* A sum of no greater values is no greater, and smaller if one of them is. *)
LEMMA SumOrder ==
  ASSUME NEW D, IsFiniteSet(D), NEW f \in [D -> Int], NEW g \in [D -> Int],
         \A x \in D : f[x] <= g[x]
  PROVE  SumFunction(f) <= SumFunction(g)
<1>1. PICK u : PartialSums(f, D, u) /\ SumFunction(f) = u[D]
  BY SumUnfolds
<1>2. PICK v : PartialSums(g, D, v) /\ SumFunction(g) = v[D]
  BY SumUnfolds
<1>. DEFINE T == {s \in SUBSET D : u[s] <= v[s]}
<1>3. {} \in T
  BY <1>1, <1>2, PartialSumsStep
<1>4. ASSUME NEW s \in SUBSET D, s # {}, \A x \in s : s \ {x} \in T PROVE s \in T
  <2>. DEFINE x == CHOOSE y \in s : TRUE
  <2>1. x \in s /\ u[s] = f[x] + u[s \ {x}]
    BY <1>1, <1>4, PartialSumsStep
  <2>2. v[s] = g[x] + v[s \ {x}]
    BY <1>2, <1>4, PartialSumsStep
  <2>. HIDE DEF x
  <2>3. u[s \ {x}] <= v[s \ {x}]
    BY <2>1, <1>4
  <2>4. /\ u[s \ {x}] \in Int /\ v[s \ {x}] \in Int
        /\ f[x] \in Int /\ g[x] \in Int /\ f[x] <= g[x]
    BY <1>1, <1>2, <2>1, PartialSumsType
  <2>5. u[s] <= v[s]
    BY <2>1, <2>2, <2>3, <2>4
  <2>. QED BY <2>5
<1>5. T \in SUBSET (SUBSET D)
  OBVIOUS
<1>. HIDE DEF T
<1>6. T = SUBSET D
  BY <1>3, <1>4, <1>5, SubsetInduction
<1>. QED BY <1>1, <1>2, <1>6 DEF T

LEMMA SumStrictOrder ==
  ASSUME NEW D, IsFiniteSet(D), NEW f \in [D -> Int], NEW g \in [D -> Int],
         \A x \in D : f[x] <= g[x], NEW t \in D, f[t] < g[t]
  PROVE  SumFunction(f) < SumFunction(g)
<1>. DEFINE h == [x \in D |-> IF x = t THEN g[t] ELSE f[x]]
<1>1. h \in [D -> Int] /\ h[t] = g[t] /\ \A x \in D \ {t} : h[x] = f[x]
  OBVIOUS
<1>2. \A x \in D : h[x] <= g[x]
  BY <1>1
<1>. HIDE DEF h
<1>3. SumFunction(h) = SumFunction(f) + (h[t] - f[t])
  BY <1>1, SumOfChange
<1>4. SumFunction(h) <= SumFunction(g)
  BY <1>1, <1>2, SumOrder
<1>5. /\ SumFunction(f) \in Int /\ SumFunction(g) \in Int /\ SumFunction(h) \in Int
      /\ f[t] \in Int /\ g[t] \in Int
  BY <1>1, SumType
<1>. QED BY <1>1, <1>3, <1>4, <1>5

LEMMA SumNat ==
  ASSUME NEW D, IsFiniteSet(D), NEW f \in [D -> Nat]
  PROVE  SumFunction(f) \in Nat
<1>. DEFINE z == [x \in D |-> 0]
<1>1. z \in [D -> Int] /\ f \in [D -> Int] /\ \A x \in D : z[x] <= f[x]
  OBVIOUS
<1>2. SumFunction(z) = 0
  BY SumOfZeros
<1>. HIDE DEF z
<1>3. SumFunction(z) <= SumFunction(f)
  BY <1>1, SumOrder
<1>4. SumFunction(f) \in Int
  BY <1>1, SumType
<1>. QED BY <1>2, <1>3, <1>4

-----------------------------------------------------------------------------
(* A number of w turns for each of m things to do, and r more: less is     *)
(* left after a turn, and after something was done, whatever that takes.   *)
LEMMA FewerSteps ==
  ASSUME NEW w \in Nat, NEW m \in Nat, NEW n \in Nat, NEW r \in Nat, NEW s \in Nat,
         (n <= m /\ s < r) \/ (n < m /\ s < w + r)
  PROVE  /\ w * n + s \in Nat /\ w * m + r \in Nat
         /\ w * n + s < w * m + r
<1>1. w * n \in Nat /\ w * m \in Nat /\ w * n = n * w /\ w * m = m * w
  OBVIOUS
<1>2. CASE n <= m /\ s < r
  <2>1. n * w <= m * w
    BY <1>2, ProductMonotone
  <2>. QED BY <1>1, <1>2, <2>1
<1>3. CASE n < m /\ s < w + r
  <2>1. (n + 1) * w <= m * w /\ (n + 1) * w = n * w + w
    BY <1>3, ProductMonotone, ProductSuccessor
  <2>. QED BY <1>1, <1>3, <2>1
<1>. QED BY <1>2, <1>3
=============================================================================
