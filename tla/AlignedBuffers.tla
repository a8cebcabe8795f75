--------------------------- MODULE AlignedBuffers ---------------------------
(***************************************************************************)
(* The aligned buffers of the benchmark framework.  Each is part of a      *)
(* block of the heap; a canary behind its last element shows whether a     *)
(* program wrote past it.  Of the memory only the canaries are kept, and   *)
(* of each only whether it still has its value: a write to one of its      *)
(* bytes is taken to change it.                                            *)
(***************************************************************************)
EXTENDS Integers, FiniteSets

CONSTANTS
  Memory,        \* number of bytes of the heap
  alignment,     \* 64
  sizeof_canary, \* sizeof(uint32_t)
  Sizes,         \* element sizes, sizeof(T)
  Counts         \* numbers of elements

ParameterAssumption ==
  /\ Memory \in Nat /\ alignment \in Nat \ {0} /\ sizeof_canary \in Nat \ {0}
  /\ Sizes \subseteq Nat \ {0} /\ Counts \subseteq Nat

VARIABLES
  heap,           \* the blocks in use: [ptr, size]
  bufferDataMap,  \* aligned pointer -> [unalignedPtr, canaryPtr]
  shape,          \* aligned pointer -> [count, size], what the caller asked for
  intact,         \* aligned pointer -> its canary has its value
  overrun,        \* aligned pointer -> written past since the last restore
  spilled         \* an element wider than a canary was written past its buffer

vars == <<heap, bufferDataMap, shape, intact, overrun, spilled>>

Bytes(ptr, n) == ptr .. ptr + n - 1

Buffers == DOMAIN bufferDataMap

canary(p) == Bytes(bufferDataMap[p].canaryPtr, sizeof_canary)

With(f, p, value) == [q \in DOMAIN f \cup {p} |-> IF q = p THEN value ELSE f[q]]

Without(f, p) == [q \in DOMAIN f \ {p} |-> f[q]]

-----------------------------------------------------------------------------
Init ==
  /\ heap = {}
  /\ bufferDataMap = <<>> /\ shape = <<>>
  /\ intact = <<>> /\ overrun = <<>>
  /\ spilled = FALSE

\* new uint8_t[n]: a block that lies beside the others.
New(n) ==
  {ptr \in 0 .. Memory - n :
     \A block \in heap : Bytes(ptr, n) \cap Bytes(block.ptr, block.size) = {}}

count8(count, size) == count * size + alignment - 1 + sizeof_canary

AlignedPtr(unalignedPtr) ==
  LET offset == unalignedPtr % alignment
  IN  IF offset # 0 THEN unalignedPtr + (alignment - offset) ELSE unalignedPtr

\* Mutant: one element more is left before the canary.
CanaryPtr_Late(alignedPtr, count, size) == alignedPtr + (count + 1) * size

CanaryPtr(alignedPtr, count, size) == alignedPtr + count * size

allocateAlignedBuffer(count, size) ==
  \E ptr \in New(count8(count, size)) :
    LET p == AlignedPtr(ptr)
        c == CanaryPtr(p, count, size)
    IN  /\ heap' = heap \cup {[ptr |-> ptr, size |-> count8(count, size)]}
        /\ p \notin Buffers     \* emplace keeps an entry that exists
             => bufferDataMap' = With(bufferDataMap, p,
                                      [unalignedPtr |-> ptr, canaryPtr |-> c])
        /\ p \in Buffers => UNCHANGED bufferDataMap
        /\ shape' = With(shape, p, [count |-> count, size |-> size])
        /\ intact' = With([q \in Buffers |->
                             intact[q] /\ canary(q) \cap Bytes(c, sizeof_canary) = {}],
                          p, TRUE)
        /\ overrun' = With(overrun, p, FALSE)
        /\ UNCHANGED spilled

\* The program writes element k, or the one behind the last.
Write(p, k) ==
  LET written == Bytes(p + k * shape[p].size, shape[p].size)
  IN  /\ intact' = [q \in Buffers |-> intact[q] /\ canary(q) \cap written = {}]
      /\ overrun' = [overrun EXCEPT ![p] = @ \/ k = shape[p].count]
      /\ spilled' = (spilled \/ (k = shape[p].count /\ shape[p].size > sizeof_canary))
      /\ UNCHANGED <<heap, bufferDataMap, shape>>

checkCanary(p) == intact[p]

restoreCanary(p) ==
  /\ intact' = [intact EXCEPT ![p] = TRUE]
  /\ overrun' = [overrun EXCEPT ![p] = FALSE]
  /\ UNCHANGED <<heap, bufferDataMap, shape, spilled>>

freeAlignedBuffer(p) ==
  /\ heap' = {block \in heap : block.ptr # bufferDataMap[p].unalignedPtr}
  /\ bufferDataMap' = Without(bufferDataMap, p)
  /\ shape' = Without(shape, p)
  /\ intact' = Without(intact, p)
  /\ overrun' = Without(overrun, p)
  /\ UNCHANGED spilled

Next ==
  \/ \E count \in Counts, size \in Sizes : allocateAlignedBuffer(count, size)
  \/ \E p \in DOMAIN shape :
       \/ \E k \in 0 .. shape[p].count : Write(p, k)
       \/ restoreCanary(p)
       \/ freeAlignedBuffer(p)

Spec == Init /\ [][Next]_vars

-----------------------------------------------------------------------------
TypeOK ==
  /\ heap \subseteq [ptr : 0 .. Memory - 1, size : 1 .. Memory]
  /\ bufferDataMap \in
       [Buffers -> [unalignedPtr : 0 .. Memory - 1, canaryPtr : 0 .. Memory - 1]]
  /\ intact \in [Buffers -> BOOLEAN] /\ overrun \in [Buffers -> BOOLEAN]
  /\ spilled \in BOOLEAN

(* The map has the buffers the program holds and no other, each in a block *)
(* of its own that is freed with it: no leak, no entry of a freed block,   *)
(* across any sequence of calls, though new returns the same bytes again.  *)
MapMatchesHeap ==
  /\ Buffers = DOMAIN shape
  /\ heap = {[ptr |-> bufferDataMap[p].unalignedPtr,
              size |-> count8(shape[p].count, shape[p].size)] : p \in Buffers}
  /\ Cardinality(heap) = Cardinality(Buffers)

(* "A 64-byte aligned pointer": wherever new places the block, the aligned *)
(* elements and the canary behind them lie inside it.                      *)
AlignedInBlock ==
  \A p \in DOMAIN shape :
    /\ p % alignment = 0
    /\ \E block \in heap :
         Bytes(p, shape[p].count * shape[p].size) \cup canary(p)
           \subseteq Bytes(block.ptr, block.size)

(* checkCanary() of a buffer that was written past its last element fails, *)
(* whatever was done with the other buffers.  It fails of no other buffer  *)
(* until an element wider than a canary is written past the end of one,    *)
(* for that reaches past its canary and may change that of another buffer. *)
CanaryTells ==
  \A p \in DOMAIN shape :
    /\ overrun[p] => ~checkCanary(p)
    /\ ~overrun[p] => checkCanary(p) \/ spilled

(* Every buffer the program holds is aligned, in a block of its own, and   *)
(* guarded by its canary.                                                  *)
BuffersSound == MapMatchesHeap /\ AlignedInBlock /\ CanaryTells
=============================================================================
