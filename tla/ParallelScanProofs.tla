------------------------- MODULE ParallelScanProofs -------------------------
(***************************************************************************)
(* The chunks of partition_manager_even_chunks are disjoint and cover the  *)
(* column for every number of threads; from this, the contexts of a call    *)
(* share out the column, and the results are complete if the threads find   *)
(* their contexts.  Whatever they find, a call joins them all and ends.     *)
(***************************************************************************)
EXTENDS ParallelScan, BasicFacts

LEMMA SizeTypes == data_count \in Nat /\ SizeMax \in Nat /\ data_count <= SizeMax
BY CountAssumption

(* The chunks together are as long as the column.                          *)
LEMMA PartitionSums ==
  ASSUME NEW n \in 1 .. MAX_THREAD_COUNT
  PROVE  LET m == Partition(n)
         IN  /\ m.num_threads = n
             /\ m.chunk_size \in Nat
             /\ m.residual \in Nat
             /\ data_count = n * m.chunk_size + m.residual
<1>. DEFINE q == data_count \div n
            r == data_count % n
<1>1. n \in Nat \ {0} /\ data_count \in Nat
  BY SizeTypes, ThreadAssumption
<1>2. data_count = n * q + r /\ r \in 0 .. n - 1 /\ q \in Int
  BY <1>1, SMT
<1>3. q >= 0
  <2>. SUFFICES ASSUME q <= -1 PROVE FALSE
    BY <1>2
  <2>1. n * q <= -n
    BY <1>1, <1>2, SMT
  <2>. QED BY <2>1, <1>1, <1>2
<1>. HIDE DEF q, r
<1>. QED BY <1>1, <1>2, <1>3 DEF Partition, q, r

(* A chunk lies in the column.                                             *)
LEMMA ChunkInColumn ==
  ASSUME NEW n \in 1 .. MAX_THREAD_COUNT, NEW t \in 0 .. n - 1
  PROVE  LET m == Partition(n)
         IN  /\ ChunkStart(m, t) \in Nat
             /\ ChunkCount(m, t) \in Nat
             /\ ChunkStart(m, t) + ChunkCount(m, t) <= data_count
             /\ ChunkCount(m, t) \in 0 .. SizeMax
<1>. DEFINE m == Partition(n)
<1>1. /\ m.num_threads = n /\ m.chunk_size \in Nat /\ m.residual \in Nat
      /\ data_count = n * m.chunk_size + m.residual
  BY PartitionSums
<1>. HIDE DEF m
<1>2. n \in Nat /\ t \in Nat /\ t + 1 <= n
  BY ThreadAssumption
<1>3. t * m.chunk_size \in Nat
  BY <1>1, <1>2, ProductMonotone
<1>4. (t + 1) * m.chunk_size <= n * m.chunk_size
  BY <1>1, <1>2, ProductMonotone
<1>5. (t + 1) * m.chunk_size = t * m.chunk_size + m.chunk_size
  <2>1. t \in Int /\ m.chunk_size \in Int
    BY <1>1, <1>2
  <2>. QED BY <2>1, ProductSuccessor, Zenon
<1>6. n * m.chunk_size \in Nat
  BY <1>1, <1>2, ProductMonotone
<1>7. CASE t = n - 1
  <2>1. t * m.chunk_size + m.chunk_size = n * m.chunk_size
    BY <1>5, <1>7, <1>2
  <2>. QED BY <2>1, <1>1, <1>3, <1>6, <1>7, SizeTypes DEF ChunkStart, ChunkCount, m
<1>8. CASE t # n - 1
  BY <1>1, <1>3, <1>4, <1>5, <1>6, <1>8, SizeTypes DEF ChunkStart, ChunkCount, m
<1>. QED BY <1>7, <1>8

(* A chunk ends where the next one begins, or before.                      *)
LEMMA ChunksOrdered ==
  ASSUME NEW n \in 1 .. MAX_THREAD_COUNT,
         NEW t \in 0 .. n - 1, NEW u \in 0 .. n - 1, t < u
  PROVE  LET m == Partition(n)
         IN  ChunkStart(m, t) + ChunkCount(m, t) <= ChunkStart(m, u)
<1>. DEFINE m == Partition(n)
<1>1. m.num_threads = n /\ m.chunk_size \in Nat
  BY PartitionSums
<1>. HIDE DEF m
<1>2. t \in Nat /\ u \in Nat /\ t + 1 <= u /\ t # n - 1
  BY ThreadAssumption
<1>3. (t + 1) * m.chunk_size <= u * m.chunk_size
  BY <1>1, <1>2, ProductMonotone
<1>4. (t + 1) * m.chunk_size = t * m.chunk_size + m.chunk_size
  BY <1>1, <1>2, ProductSuccessor
<1>5. t * m.chunk_size \in Nat
  BY <1>1, <1>2, ProductMonotone
<1>. QED BY <1>1, <1>2, <1>3, <1>4, <1>5 DEF ChunkStart, ChunkCount, m

(* Every word of the column is in a chunk.                                 *)
LEMMA ChunksCover ==
  ASSUME NEW n \in 1 .. MAX_THREAD_COUNT, NEW j \in Index
  PROVE  LET m == Partition(n)
         IN  \E t \in 0 .. n - 1 :
               /\ ChunkStart(m, t) <= j
               /\ j < ChunkStart(m, t) + ChunkCount(m, t)
<1>. DEFINE m == Partition(n)
            c == m.chunk_size
            q == j \div c
<1>1. /\ m.num_threads = n /\ c \in Nat /\ m.residual \in Nat
      /\ data_count = n * c + m.residual
  BY PartitionSums
<1>2. n \in Nat \ {0} /\ j \in Nat /\ j < data_count
  BY ThreadAssumption, SizeTypes DEF Index
<1>. HIDE DEF m, c
<1>3. ((n - 1) + 1) * c = (n - 1) * c + c
  BY <1>1, <1>2, ProductSuccessor
<1>4. (n - 1) + 1 = n
  BY <1>2
<1>5. (n - 1) * c \in Nat
  BY <1>1, <1>2, ProductMonotone
<1>6. ASSUME (n - 1) * c <= j
      PROVE  \E t \in 0 .. n - 1 :
               ChunkStart(m, t) <= j /\ j < ChunkStart(m, t) + ChunkCount(m, t)
  <2>1. n * c = (n - 1) * c + c
    BY <1>3, <1>4
  <2>2. /\ ChunkStart(m, n - 1) <= j
        /\ j < ChunkStart(m, n - 1) + ChunkCount(m, n - 1)
    BY <2>1, <1>1, <1>2, <1>5, <1>6 DEF ChunkStart, ChunkCount, c
  <2>. QED BY <2>2, <1>2
<1>7. ASSUME ~ ((n - 1) * c <= j)
      PROVE  \E t \in 0 .. n - 1 :
               ChunkStart(m, t) <= j /\ j < ChunkStart(m, t) + ChunkCount(m, t)
  <2>1. c \in Nat \ {0}
    <3>. SUFFICES ASSUME c = 0 PROVE FALSE
      BY <1>1
    <3>1. (n - 1) * 0 = 0
      BY <1>2, SMT
    <3>. QED BY <3>1, <1>7, <1>2
  <2>2. j = c * q + (j % c) /\ j % c \in 0 .. c - 1 /\ q \in Int
    BY <2>1, <1>2, SMT
  <2>. DEFINE r == j % c
  <2>3. j = q * c + r /\ r \in 0 .. c - 1
    <3>1. c * q = q * c
      BY <2>1, <2>2, SMT
    <3>. QED BY <2>2, <3>1
  <2>. HIDE DEF q, r
  <2>4. q \in Nat
    <3>. SUFFICES ASSUME q <= -1 PROVE FALSE
      BY <2>2
    <3>1. q * c <= -c
      BY <2>1, <2>2, SMT
    <3>. QED BY <3>1, <2>1, <2>2, <2>3, <1>2
  <2>5. q * c \in Nat
    BY <2>1, <2>4, ProductMonotone
  <2>6. q < n - 1
    <3>. SUFFICES ASSUME n - 1 <= q PROVE FALSE
      BY <2>4, <1>2
    <3>1. (n - 1) * c <= q * c
      BY <2>4, <1>1, <1>2, ProductMonotone
    <3>. QED BY <3>1, <1>5, <1>7, <2>3, <2>5, <2>1
  <2>7. /\ ChunkStart(m, q) <= j
        /\ j < ChunkStart(m, q) + ChunkCount(m, q)
    BY <2>1, <2>3, <2>4, <2>5, <2>6, <1>1, <1>2 DEF ChunkStart, ChunkCount, c
  <2>. QED BY <2>4, <2>6, <2>7, <1>2
<1>. QED BY <1>6, <1>7 DEF m

-----------------------------------------------------------------------------

numthreadsRange == numthreads \in 1 .. MAX_THREAD_COUNT /\ numthreads \in Nat \ {0}

LEMMA NumThreads ==
  ASSUME TypeOK
  PROVE  numthreadsRange
BY ThreadAssumption DEF TypeOK, PartitionType, numthreads, numthreadsRange

(* The context of a thread is its chunk, and lies in the column.           *)
LEMMA ContextOf ==
  ASSUME IInv, pc # "idle", NEW t \in 0 .. numthreads - 1
  PROVE  /\ contexts[t].base_addr = ChunkStart(Partition(numthreads), t)
         /\ contexts[t].offset = ChunkStart(Partition(numthreads), t)
         /\ contexts[t].count = ChunkCount(Partition(numthreads), t)
         /\ contexts[t].result = base_addr
         /\ contexts[t].predicate = contexts[0].predicate
         /\ contexts[t].offset \in Nat
         /\ contexts[t].count \in Nat
         /\ contexts[t].offset + contexts[t].count <= data_count
         /\ contexts[t] \in ContextType
         /\ base_addr \in Buffer
<1>. DEFINE m == Partition(numthreads)
<1>1. contexts[t] = Context(m, m, base_addr, contexts[0].predicate, t)
  BY DEF IInv, ContextsFilled, ManagersAgree
<1>2. /\ ChunkStart(m, t) \in Nat
      /\ ChunkCount(m, t) \in Nat
      /\ ChunkStart(m, t) + ChunkCount(m, t) <= data_count
      /\ ChunkCount(m, t) \in 0 .. SizeMax
  BY NumThreads, ChunkInColumn DEF IInv, numthreadsRange
<1>3. base_addr \in Buffer /\ contexts[0].predicate \in Predicate
  BY DEF IInv, ContextsFilled
<1>. HIDE DEF m
<1>4. /\ contexts[t].base_addr = ChunkStart(m, t)
      /\ contexts[t].offset = ChunkStart(m, t)
      /\ contexts[t].count = ChunkCount(m, t)
      /\ contexts[t].result = base_addr
      /\ contexts[t].predicate = contexts[0].predicate
  <2>. DEFINE p == contexts[0].predicate
  <2>. HIDE DEF p
  <2>1. contexts[t] = Context(m, m, base_addr, p, t)
    BY <1>1 DEF p
  <2>2. contexts[t].predicate = p
    BY <2>1 DEF Context
  <2>. QED BY <2>1, <2>2 DEF Context, p
<1>5. contexts[t] \in ContextType
  <2>. DEFINE p == contexts[0].predicate
  <2>. HIDE DEF p
  <2>1. contexts[t] = Context(m, m, base_addr, p, t) /\ p \in Predicate
    BY <1>1, <1>3 DEF p
  <2>. QED BY <2>1, <1>2, <1>3 DEF Context, ContextType
<1>. QED BY <1>2, <1>3, <1>4, <1>5 DEF m

(* The chunks of two threads have no word in common.                       *)
LEMMA ContextsDisjoint ==
  ASSUME IInv, pc # "idle",
         NEW t \in 0 .. numthreads - 1, NEW u \in 0 .. numthreads - 1, t # u,
         NEW j \in Nat, j < contexts[t].count,
         NEW k \in Nat, k < contexts[u].count
  PROVE  contexts[t].offset + j # contexts[u].offset + k
<1>. DEFINE m == Partition(numthreads)
<1>1. /\ contexts[t].offset = ChunkStart(m, t)
      /\ contexts[t].count = ChunkCount(m, t)
      /\ contexts[t].offset \in Nat /\ contexts[t].count \in Nat
      /\ contexts[u].offset = ChunkStart(m, u)
      /\ contexts[u].count = ChunkCount(m, u)
      /\ contexts[u].offset \in Nat /\ contexts[u].count \in Nat
  BY ContextOf
<1>2. numthreads \in 1 .. MAX_THREAD_COUNT /\ numthreads \in Nat
  BY NumThreads DEF IInv, numthreadsRange
<1>. HIDE DEF m
<1>3. CASE t < u
  <2>1. ChunkStart(m, t) + ChunkCount(m, t) <= ChunkStart(m, u)
    BY <1>2, <1>3, ChunksOrdered DEF m
  <2>. QED BY <1>1, <2>1
<1>4. CASE u < t
  <2>1. ChunkStart(m, u) + ChunkCount(m, u) <= ChunkStart(m, t)
    BY <1>2, <1>4, ChunksOrdered DEF m
  <2>. QED BY <1>1, <2>1
<1>. QED BY <1>2, <1>3, <1>4

-----------------------------------------------------------------------------

LEMMA PartitionTyped ==
  ASSUME NEW n \in 1 .. MAX_THREAD_COUNT
  PROVE  Partition(n) \in PartitionType /\ Partition(n).num_threads = n
<1>1. /\ Partition(n).num_threads = n
      /\ Partition(n).chunk_size \in Nat
      /\ Partition(n).residual \in Nat
  BY PartitionSums
<1>. QED BY <1>1 DEF Partition, PartitionType

LEMMA InitIInv == Init => IInv
<1>. SUFFICES ASSUME Init PROVE IInv
  OBVIOUS
<1>0. /\ Partition(MAX_THREAD_COUNT) \in PartitionType
      /\ Partition(MAX_THREAD_COUNT).num_threads = MAX_THREAD_COUNT
      /\ 0 \in Thread
      /\ DOMAIN << >> = {}
  BY PartitionTyped, ThreadAssumption DEF Thread
<1>1. TypeOK
  BY <1>0 DEF Init, Constructed, TypeOK, Entered
<1>2. ManagersAgree
  BY <1>0 DEF Init, Constructed, ManagersAgree, numthreads
<1>3. CallerProgress
  BY <1>0, ThreadAssumption DEF Init, Constructed, CallerProgress, numthreads, Thread
<1>. QED BY <1>1, <1>2, <1>3
         DEF Init, Constructed, IInv, ContextsFilled, LoopsBounded, WordsWritten, NoThreadLeft,
             Running, Entered

LEMMA CallIInv ==
  ASSUME IInv, NEW b \in Buffer, NEW p \in Predicate, NEW n \in 1 .. MAX_THREAD_COUNT,
         Call(b, p, n)
  PROVE  IInv'
<1>. DEFINE m == Partition(n)
            c == [t \in 0 .. n - 1 |-> Context(m, m, b, p, t)]
<1>0. m \in PartitionType /\ m.num_threads = n /\ n \in Nat /\ 0 \in 0 .. n - 1
  BY PartitionTyped, ThreadAssumption
<1>1. /\ part_manager_data' = m /\ part_manager_result' = m
      /\ base_addr' = b /\ contexts' = c
      /\ threads' = [t \in Thread |-> "none"] /\ pc' = "create" /\ i' = 0
      /\ data' = data /\ results' = results
      /\ frame' = [t \in Thread |-> << >>]
  BY DEF Call
<1>2. \A t \in 0 .. n - 1 : c[t] \in ContextType
  <2>. SUFFICES ASSUME NEW t \in 0 .. n - 1 PROVE c[t] \in ContextType
    OBVIOUS
  <2>1. ChunkStart(m, t) \in Nat /\ ChunkCount(m, t) \in 0 .. SizeMax
    BY ChunkInColumn
  <2>. HIDE DEF m
  <2>. QED BY <2>1 DEF Context, ContextType
<1>3. c[0].predicate = p
  BY <1>0 DEF Context
<1>4. numthreads' = n /\ Entered' = {} /\ Running' = {}
  BY <1>0, <1>1 DEF numthreads, Entered, Running
<1>5. TypeOK'
  <2>1. 0 \in Thread
    BY ThreadAssumption DEF Thread
  <2>2. \A t \in DOMAIN contexts' : contexts'[t] \in ContextType
    BY <1>1, <1>2
  <2>. HIDE DEF m, c
  <2>. QED BY <1>0, <1>1, <1>4, <2>1, <2>2 DEF IInv, TypeOK
<1>6. ManagersAgree'
  BY <1>1, <1>4 DEF ManagersAgree
<1>7. ContextsFilled'
  BY <1>0, <1>1, <1>3, <1>4 DEF ContextsFilled
<1>8. CallerProgress'
  BY <1>0, <1>1, <1>4 DEF CallerProgress
<1>. QED BY <1>1, <1>4, <1>5, <1>6, <1>7, <1>8
         DEF IInv, LoopsBounded, WordsWritten, NoThreadLeft

(* What the loop control does.                                             *)
LEMMA NextThreadEffect ==
  ASSUME IInv, NEW after \in {"join", "return"}, NextThread(after)
  PROVE  /\ i' \in Thread
         /\ i' < numthreads
         /\ i \in Nat /\ numthreads \in Nat
         /\ \/ pc' = pc /\ i' = i + 1
            \/ pc' = after /\ i' = 0 /\ i = numthreads - 1
<1>1. i \in Nat /\ i < numthreads /\ i \in Thread
  BY DEF IInv, TypeOK, CallerProgress, Thread
<1>2. numthreads \in Nat /\ numthreads <= MAX_THREAD_COUNT /\ MAX_THREAD_COUNT \in Nat
  BY NumThreads, ThreadAssumption DEF IInv, numthreadsRange
<1>. QED BY <1>1, <1>2 DEF NextThread, Thread

LEMMA CreateIInv ==
  ASSUME IInv, CreateThread \/ CreateFails
  PROVE  IInv'
<1>0. UNCHANGED <<data, results, managers, contexts, frame>> /\ numthreads' = numthreads
  BY DEF CreateThread, CreateFails, managers, numthreads
<1>1. /\ pc = "create" /\ NextThread("join")
      /\ \/ threads' = [threads EXCEPT ![i] = "created"]
         \/ threads' = threads
      /\ i \in Thread
  BY DEF CreateThread, CreateFails, IInv, TypeOK
<1>2. /\ i' \in Thread /\ i' < numthreads /\ i \in Nat /\ numthreads \in Nat
      /\ \/ pc' = "create" /\ i' = i + 1
         \/ pc' = "join" /\ i' = 0 /\ i = numthreads - 1
  BY <1>1, NextThreadEffect
<1>a. threads \in [Thread -> {"none", "created", "running", "exited", "joined"}]
  BY DEF IInv, TypeOK
<1>b. threads[i] = "none"
  BY <1>1, <1>2 DEF IInv, CallerProgress
<1>3. Entered' = Entered
  BY <1>1, <1>a, <1>b DEF Entered
<1>4. \A t \in Entered : threads'[t] = threads[t]
  BY <1>1, <1>a, <1>b DEF Entered
<1>5. TypeOK'
  BY <1>0, <1>1, <1>2, <1>3 DEF IInv, TypeOK, managers
<1>6. ManagersAgree'
  BY <1>0 DEF IInv, ManagersAgree, managers
<1>7. ContextsFilled'
  BY <1>0, <1>1 DEF IInv, ContextsFilled, managers
<1>8. LoopsBounded'
  BY <1>0, <1>1, <1>3, <1>4 DEF IInv, LoopsBounded
<1>9. CallerProgress'
  <2>1. \A t \in Thread : threads'[t] # "none" => t < numthreads
    BY <1>1, <1>2, <1>a DEF IInv, CallerProgress
  <2>2. \A t \in Thread : /\ threads'[t] # "joined"
                          /\ t >= i + 1 => threads'[t] = "none"
    <3>1. \A t \in Thread : /\ threads[t] # "joined"
                            /\ t >= i => threads[t] = "none"
      BY <1>1 DEF IInv, CallerProgress
    <3>2. \A t \in Thread : t >= i + 1 => t >= i /\ t # i
      BY <1>2 DEF Thread
    <3>. QED BY <1>1, <1>a, <3>1, <3>2
  <2>3. CASE pc' = "create" /\ i' = i + 1
    BY <1>0, <1>2, <2>1, <2>2, <2>3 DEF CallerProgress
  <2>4. CASE pc' = "join" /\ i' = 0
    <3>1. \A t \in Thread : ~ (t < i')
      BY <2>4 DEF Thread
    <3>. QED BY <1>0, <1>2, <2>1, <2>2, <2>4, <3>1 DEF CallerProgress
  <2>. QED BY <1>2, <2>3, <2>4
<1>10. WordsWritten'
  BY <1>0, <1>1, <1>3 DEF IInv, WordsWritten, AllOwn, managers
<1>. QED BY <1>2, <1>5, <1>6, <1>7, <1>8, <1>9, <1>10 DEF IInv, NoThreadLeft

LEMMA JoinIInv ==
  ASSUME IInv, JoinThread \/ JoinNoThread
  PROVE  IInv'
<1>0. UNCHANGED <<data, results, managers, contexts, frame>> /\ numthreads' = numthreads
  BY DEF JoinThread, JoinNoThread, managers, numthreads
<1>1. /\ pc = "join" /\ i \in Thread
      /\ threads[i] \in {"exited", "none"}
      /\ threads' = [threads EXCEPT ![i] = IF @ = "exited" THEN "joined" ELSE @]
      /\ NextThread("return") \/ (pc' = "crashed" /\ i' = i)
  BY DEF JoinThread, JoinNoThread, IInv, TypeOK
<1>2. /\ i' \in Thread /\ i' < numthreads /\ i \in Nat /\ numthreads \in Nat
      /\ \/ pc' = "join" /\ i' = i + 1
         \/ pc' = "return" /\ i' = 0 /\ i = numthreads - 1
         \/ pc' = "crashed"
  BY <1>1, NextThreadEffect, NumThreads
     DEF IInv, TypeOK, CallerProgress, numthreadsRange, Thread
<1>3. Entered' = Entered
  BY <1>1 DEF IInv, TypeOK, Entered
<1>4. \A t \in Entered : threads'[t] # "running" => threads[t] # "running"
  BY <1>1 DEF IInv, TypeOK, Entered
<1>5. TypeOK'
  BY <1>0, <1>1, <1>2, <1>3 DEF IInv, TypeOK, managers
<1>6. ManagersAgree'
  BY <1>0 DEF IInv, ManagersAgree, managers
<1>7. ContextsFilled'
  BY <1>0, <1>1 DEF IInv, ContextsFilled, managers
<1>8. LoopsBounded'
  BY <1>0, <1>1, <1>3, <1>4 DEF IInv, LoopsBounded
<1>9. CallerProgress'
  BY <1>0, <1>1, <1>2 DEF IInv, TypeOK, CallerProgress, Running, Thread
<1>10. WordsWritten'
  BY <1>0, <1>1, <1>3 DEF IInv, WordsWritten, AllOwn, managers
<1>11. NoThreadLeft'
  <2>. SUFFICES ASSUME pc' \in {"return", "idle"}, NEW t \in Running' PROVE FALSE
    BY DEF NoThreadLeft
  <2>1. i = numthreads - 1 /\ t \in Thread /\ threads'[t] # "none"
    BY <1>2 DEF Running
  <2>2. t < numthreads
    BY <1>1, <2>1 DEF IInv, TypeOK, CallerProgress
  <2>3. t # i
    BY <1>1 DEF Running, IInv, TypeOK
  <2>. QED BY <1>1, <1>2, <2>1, <2>2, <2>3
           DEF IInv, TypeOK, CallerProgress, Running, Thread
<1>. QED BY <1>5, <1>6, <1>7, <1>8, <1>9, <1>10, <1>11 DEF IInv

LEMMA ReturnIInv ==
  ASSUME IInv, Return
  PROVE  IInv'
<1>1. DOMAIN contexts' = {} /\ numthreads' = numthreads /\ Entered' = Entered
  BY DEF Return, managers, numthreads, Entered
<1>2. pc' = "idle" /\ UNCHANGED <<data, results, managers, threads, frame, i>>
  BY DEF Return
<1>3. TypeOK'
  BY <1>1, <1>2 DEF IInv, TypeOK, managers
<1>. QED BY <1>1, <1>2, <1>3
         DEF IInv, managers, ManagersAgree, ContextsFilled, LoopsBounded,
             CallerProgress, WordsWritten, NoThreadLeft, Running, Return

-----------------------------------------------------------------------------

(* A thread that has not ended belongs to the call that goes on.           *)
LEMMA ThreadInCall ==
  ASSUME IInv, NEW t \in Thread, threads[t] \in {"created", "running"}
  PROVE  /\ pc \notin {"idle", "return"}
         /\ t \in 0 .. numthreads - 1
BY NumThreads DEF IInv, TypeOK, NoThreadLeft, Running, CallerProgress, Thread, numthreadsRange

(* The caller's progress does not depend on how far the threads are.       *)
LEMMA ThreadKeepsProgress ==
  ASSUME IInv, NEW t \in Thread, UNCHANGED <<managers, caller>>,
         \/ threads' = threads
         \/ /\ threads[t] = "created"
            /\ threads' = [threads EXCEPT ![t] = "running"]
         \/ /\ threads[t] = "running"
            /\ threads' = [threads EXCEPT ![t] = "exited"]
  PROVE  CallerProgress' /\ NoThreadLeft' /\ ManagersAgree' /\ numthreads' = numthreads
<1>1. UNCHANGED <<part_manager_data, part_manager_result, pc, i>> /\ numthreads' = numthreads
  BY DEF managers, caller, numthreads
<1>2. Running' = Running
  BY DEF IInv, TypeOK, Running
<1>. QED BY <1>1, <1>2
         DEF IInv, TypeOK, CallerProgress, NoThreadLeft, ManagersAgree, Running

LEMMA EnterIInv ==
  ASSUME IInv, NEW t \in Thread, Enter(t)
  PROVE  IInv'
<1>1. /\ threads[t] = "created"
      /\ threads' = [threads EXCEPT ![t] = "running"]
      /\ UNCHANGED <<data, results, managers, contexts, caller>>
      /\ UNCHANGED <<data, results, contexts, pc, i, base_addr,
                     part_manager_data, part_manager_result>>
  BY DEF Enter, managers, caller
<1>2. CallerProgress' /\ NoThreadLeft' /\ ManagersAgree' /\ numthreads' = numthreads
  BY <1>1, ThreadKeepsProgress
<1>3. PICK ctx \in {contexts[u] : u \in DOMAIN contexts} \cup Stray :
        frame' = [frame EXCEPT ![t] = [ctx |-> ctx, i |-> 0]]
  BY DEF Enter
<1>4. ctx \in ContextType /\ ctx.count \in Nat
  <2>1. ctx \in ContextType
    BY <1>3, StrayAssumption DEF IInv, TypeOK
  <2>. QED BY <2>1, SizeTypes DEF ContextType
<1>5. Entered' = Entered \cup {t} /\ t \notin Entered
  BY <1>1 DEF IInv, TypeOK, Entered
<1>6. /\ frame'[t] = [ctx |-> ctx, i |-> 0]
      /\ \A u \in Entered : frame'[u] = frame[u] /\ threads'[u] = threads[u]
      /\ threads'[t] = "running"
  BY <1>1, <1>3, <1>5 DEF IInv, TypeOK, Entered
<1>7. TypeOK'
  <2>1. \A u \in Entered' : frame'[u] \in [ctx : ContextType, i : Nat]
    BY <1>4, <1>5, <1>6 DEF IInv, TypeOK
  <2>. QED BY <1>1, <1>3, <2>1 DEF IInv, TypeOK
<1>8. ContextsFilled'
  BY <1>1, <1>2 DEF IInv, ContextsFilled
<1>9. LoopsBounded'
  BY <1>1, <1>4, <1>5, <1>6 DEF IInv, LoopsBounded
<1>10. WordsWritten'
  BY <1>1, <1>5, <1>6 DEF IInv, WordsWritten, AllOwn
<1>. QED BY <1>2, <1>7, <1>8, <1>9, <1>10 DEF IInv

(* What a round of a thread's loop does to its frame.                      *)
LEMMA WriteWordFrame ==
  ASSUME IInv, NEW t \in Thread, WriteWord(t)
  PROVE  /\ t \in Entered /\ threads[t] = "running"
         /\ frame[t] \in [ctx : ContextType, i : Nat]
         /\ frame[t].ctx.count \in Nat
         /\ frame[t].i < frame[t].ctx.count
         /\ frame'[t].ctx = frame[t].ctx /\ frame'[t].i = frame[t].i + 1
         /\ frame'[t] \in [ctx : ContextType, i : Nat]
         /\ \A u \in Thread : u # t => frame'[u] = frame[u]
         /\ DOMAIN frame' = Thread
         /\ Entered' = Entered
         /\ UNCHANGED <<data, managers, contexts, threads, caller>>
         /\ UNCHANGED <<part_manager_data, part_manager_result, base_addr, pc, i>>
<1>1. /\ threads[t] = "running"
      /\ frame[t].i < frame[t].ctx.count
      /\ frame' = [frame EXCEPT ![t].i = frame[t].i + 1]
      /\ UNCHANGED <<data, managers, contexts, threads, caller>>
  BY DEF WriteWord
<1>2. t \in Entered /\ Entered' = Entered
  BY <1>1 DEF Entered
<1>3. frame[t] \in [ctx : ContextType, i : Nat] /\ DOMAIN frame = Thread
  BY <1>2 DEF IInv, TypeOK
<1>4. frame[t].ctx.count \in Nat
  BY <1>3, SizeTypes DEF ContextType
<1>5. /\ frame'[t].ctx = frame[t].ctx /\ frame'[t].i = frame[t].i + 1
      /\ frame'[t] \in [ctx : ContextType, i : Nat]
      /\ \A u \in Thread : u # t => frame'[u] = frame[u]
      /\ DOMAIN frame' = Thread
  BY <1>1, <1>3
<1>. QED BY <1>1, <1>2, <1>3, <1>4, <1>5 DEF managers, caller

(* What WriteWord writes if the threads have found their contexts.         *)
LEMMA WriteWordEffect ==
  ASSUME IInv, NEW t \in Thread, WriteWord(t), AllOwn
  PROVE  LET k == contexts[t].offset + frame[t].i
         IN  /\ t \in 0 .. numthreads - 1 /\ pc \notin {"idle", "return"}
             /\ frame[t].i < contexts[t].count
             /\ k \in Index
             /\ base_addr \in Buffer
             /\ results' = [results EXCEPT ![base_addr][k] =
                              Method(data[k], contexts[0].predicate)]
<1>1. /\ threads[t] = "running" /\ frame[t].i < frame[t].ctx.count
      /\ t \in Entered /\ frame[t].i \in Nat
  BY WriteWordFrame
<1>2. t \in 0 .. numthreads - 1 /\ pc \notin {"idle", "return"}
  BY <1>1, ThreadInCall
<1>3. frame[t].ctx = contexts[t]
  BY <1>1 DEF AllOwn
<1>4. /\ contexts[t].base_addr = contexts[t].offset
      /\ contexts[t].result = base_addr
      /\ contexts[t].predicate = contexts[0].predicate
      /\ contexts[t].offset \in Nat
      /\ contexts[t].count \in Nat
      /\ contexts[t].offset + contexts[t].count <= data_count
      /\ base_addr \in Buffer
  BY <1>2, ContextOf
<1>. DEFINE k == contexts[t].offset + frame[t].i
<1>5. k \in Index
  BY <1>1, <1>3, <1>4, SizeTypes DEF Index
<1>6. PICK v \in WordAt(k) :
        results' = [results EXCEPT ![base_addr][k] = Method(v, contexts[0].predicate)]
  BY <1>3, <1>4, <1>5 DEF WriteWord
<1>7. v = data[k]
  BY <1>5 DEF WordAt
<1>. QED BY <1>1, <1>2, <1>3, <1>4, <1>5, <1>6, <1>7

(* Whatever context a thread works on, words of the arrays are written.    *)
LEMMA WriteWordTyped ==
  ASSUME IInv, NEW t \in Thread, WriteWord(t)
  PROVE  results' \in [Buffer -> [Index -> Value \cup {Unwritten}]]
<1>. DEFINE ctx == frame[t].ctx
            k == ctx.offset + frame[t].i
<1>1. ctx.result \in Buffer /\ ctx.predicate \in Predicate
  BY WriteWordFrame DEF ContextType
<1>2. PICK v \in WordAt(ctx.base_addr + frame[t].i) :
        results' = IF k \in Index
                   THEN [results EXCEPT ![ctx.result][k] = Method(v, ctx.predicate)]
                   ELSE results
  BY DEF WriteWord
<1>3. v \in Value
  BY DEF WordAt, IInv, TypeOK
<1>4. Method(v, ctx.predicate) \in Value
  BY <1>1, <1>3, MethodAssumption
<1>. HIDE DEF ctx, k
<1>. QED BY <1>1, <1>2, <1>4 DEF IInv, TypeOK

LEMMA WriteWordIInv ==
  ASSUME IInv, NEW t \in Thread, WriteWord(t)
  PROVE  IInv'
<1>1. /\ t \in Entered /\ threads[t] = "running"
      /\ frame[t].i \in Nat /\ frame[t].ctx.count \in Nat
      /\ frame[t].i < frame[t].ctx.count
      /\ frame'[t].ctx = frame[t].ctx /\ frame'[t].i = frame[t].i + 1
      /\ frame'[t] \in [ctx : ContextType, i : Nat]
      /\ \A u \in Thread : u # t => frame'[u] = frame[u]
      /\ DOMAIN frame' = Thread
      /\ Entered' = Entered
      /\ UNCHANGED <<data, managers, contexts, threads, caller>>
      /\ UNCHANGED <<part_manager_data, part_manager_result, base_addr, pc, i>>
  BY WriteWordFrame
<1>a. \A u \in Entered : u \in Thread
  BY DEF Entered
<1>2. CallerProgress' /\ NoThreadLeft' /\ ManagersAgree' /\ numthreads' = numthreads
  BY <1>1, ThreadKeepsProgress
<1>3. TypeOK'
  <2>1. \A u \in Entered' : frame'[u] \in [ctx : ContextType, i : Nat]
    BY <1>1, <1>a DEF IInv, TypeOK
  <2>. QED BY <1>1, <2>1, WriteWordTyped DEF IInv, TypeOK
<1>4. ContextsFilled'
  BY <1>1, <1>2 DEF IInv, ContextsFilled
<1>5. LoopsBounded'
  <2>. SUFFICES ASSUME NEW u \in Entered
                PROVE  /\ frame'[u].i <= frame'[u].ctx.count
                       /\ threads[u] # "running" => frame'[u].i = frame'[u].ctx.count
    BY <1>1 DEF LoopsBounded
  <2>1. CASE u = t
    BY <1>1, <2>1
  <2>2. CASE u # t
    BY <1>1, <1>a, <2>2 DEF IInv, LoopsBounded
  <2>. QED BY <2>1, <2>2
<1>6. AllOwn' => AllOwn
  BY <1>1, <1>a DEF AllOwn
<1>7. WordsWritten'
  <2>. SUFFICES ASSUME AllOwn, NEW u \in Entered, NEW j \in 0 .. frame'[u].i - 1
                PROVE  results'[base_addr][contexts[u].offset + j] =
                         Method(data[contexts[u].offset + j], contexts[0].predicate)
    BY <1>1, <1>6 DEF WordsWritten
  <2>. DEFINE k == contexts[t].offset + frame[t].i
  <2>0. /\ t \in 0 .. numthreads - 1 /\ pc # "idle"
        /\ frame[t].i < contexts[t].count
        /\ k \in Index
        /\ base_addr \in Buffer
        /\ results' = [results EXCEPT ![base_addr][k] =
                         Method(data[k], contexts[0].predicate)]
    BY WriteWordEffect
  <2>1. /\ frame[u].i \in Nat
        /\ frame[u].i <= contexts[u].count
        /\ u \in 0 .. numthreads - 1
    <3>1. u \in Thread /\ threads[u] # "none"
      BY DEF Entered
    <3>2. numthreads \in Nat
      BY NumThreads DEF IInv, numthreadsRange
    <3>. QED BY <3>1, <3>2 DEF IInv, TypeOK, LoopsBounded, AllOwn, CallerProgress, Thread
  <2>2. /\ contexts[u].offset \in Nat /\ contexts[u].count \in Nat
        /\ contexts[u].offset + contexts[u].count <= data_count
    BY <2>0, <2>1, ContextOf
  <2>3. CASE u = t /\ j = frame[t].i
    <3>. HIDE DEF k
    <3>1. results'[base_addr][k] = Method(data[k], contexts[0].predicate)
      BY <2>0 DEF IInv, TypeOK
    <3>. QED BY <2>3, <3>1 DEF k
  <2>4. CASE ~ (u = t /\ j = frame[t].i)
    <3>1. j \in Nat /\ j < frame[u].i /\ j < contexts[u].count
      <4>1. CASE u = t
        BY <1>1, <2>1, <2>2, <2>4, <4>1
      <4>2. CASE u # t
        BY <1>1, <1>a, <2>1, <2>2, <4>2
      <4>. QED BY <4>1, <4>2
    <3>2. contexts[u].offset + j # k
      <4>1. CASE u = t
        BY <4>1, <2>4, <2>2, <3>1, <1>1
      <4>2. CASE u # t
        BY <4>2, <1>1, <2>0, <2>1, <3>1, ContextsDisjoint
      <4>. QED BY <4>1, <4>2
    <3>3. results[base_addr][contexts[u].offset + j] =
            Method(data[contexts[u].offset + j], contexts[0].predicate)
      BY <2>0, <2>1, <3>1 DEF IInv, WordsWritten
    <3>. DEFINE l == contexts[u].offset + j
    <3>4. l \in Index
      BY <2>2, <3>1, SizeTypes DEF Index
    <3>5. l # k
      BY <3>2
    <3>. HIDE DEF k, l
    <3>6. results'[base_addr][l] = results[base_addr][l]
      BY <2>0, <3>4, <3>5 DEF IInv, TypeOK
    <3>. QED BY <3>3, <3>6 DEF l
  <2>. QED BY <2>3, <2>4
<1>. QED BY <1>2, <1>3, <1>4, <1>5, <1>7 DEF IInv

LEMMA ExitIInv ==
  ASSUME IInv, NEW t \in Thread, Exit(t)
  PROVE  IInv'
<1>1. /\ threads[t] = "running"
      /\ frame[t].i >= frame[t].ctx.count
      /\ threads' = [threads EXCEPT ![t] = "exited"]
      /\ UNCHANGED <<data, results, managers, contexts, frame, caller>>
      /\ UNCHANGED <<pc, i, base_addr, part_manager_data, part_manager_result>>
  BY DEF Exit, managers, caller
<1>2. CallerProgress' /\ NoThreadLeft' /\ ManagersAgree' /\ numthreads' = numthreads
  BY <1>1, ThreadKeepsProgress
<1>3. Entered' = Entered /\ t \in Entered
  BY <1>1 DEF IInv, TypeOK, Entered
<1>4. frame[t].i = frame[t].ctx.count
  <2>1. frame[t] \in [ctx : ContextType, i : Nat] /\ frame[t].i <= frame[t].ctx.count
    BY <1>3 DEF IInv, TypeOK, LoopsBounded
  <2>2. frame[t].ctx.count \in Nat
    BY <2>1, SizeTypes DEF ContextType
  <2>. QED BY <1>1, <2>1, <2>2
<1>5. TypeOK'
  BY <1>1, <1>3 DEF IInv, TypeOK
<1>6. ContextsFilled'
  BY <1>1, <1>2 DEF IInv, ContextsFilled
<1>7. LoopsBounded'
  BY <1>1, <1>3, <1>4 DEF IInv, TypeOK, LoopsBounded, Entered
<1>8. WordsWritten'
  BY <1>1, <1>3 DEF IInv, WordsWritten, AllOwn
<1>. QED BY <1>2, <1>5, <1>6, <1>7, <1>8 DEF IInv

LEMMA FaultIInv ==
  ASSUME IInv, NEW t \in Thread, Fault(t)
  PROVE  IInv'
<1>1. /\ threads[t] \in {"created", "running"}
      /\ pc' = "crashed"
      /\ UNCHANGED <<data, results, managers, contexts, threads, frame, i>>
      /\ UNCHANGED <<base_addr, part_manager_data, part_manager_result>>
  BY DEF Fault, managers
<1>2. pc # "idle"
  BY <1>1, ThreadInCall
<1>3. Entered' = Entered /\ numthreads' = numthreads
  BY <1>1 DEF Entered, numthreads
<1>. QED BY <1>1, <1>2, <1>3
         DEF IInv, TypeOK, ManagersAgree, ContextsFilled, LoopsBounded, CallerProgress,
             WordsWritten, AllOwn, NoThreadLeft

LEMMA StutterIInv ==
  ASSUME IInv, UNCHANGED vars
  PROVE  IInv'
BY DEF IInv, vars, TypeOK, ManagersAgree, ContextsFilled, LoopsBounded, CallerProgress,
       WordsWritten, AllOwn, NoThreadLeft, numthreads, Entered, Running

LEMMA NextIInv == IInv /\ [Next]_vars => IInv'
<1>. SUFFICES ASSUME IInv, [Next]_vars PROVE IInv'
  OBVIOUS
<1>1. ASSUME NEW b \in Buffer, NEW p \in Predicate, NEW n \in 1 .. MAX_THREAD_COUNT,
             Call(b, p, n)
      PROVE  IInv'
  BY <1>1, CallIInv
<1>2. CASE CallerStep
  BY <1>2, CreateIInv, JoinIInv, ReturnIInv DEF CallerStep
<1>3. ASSUME NEW t \in Thread, ThreadStep(t) PROVE IInv'
  BY <1>3, EnterIInv, WriteWordIInv, ExitIInv, FaultIInv DEF ThreadStep
<1>4. CASE Crashed \/ UNCHANGED vars
  BY <1>4, StutterIInv DEF Crashed
<1>. QED BY <1>1, <1>2, <1>3, <1>4 DEF Next

-----------------------------------------------------------------------------

(* IInv holds in every state.                                              *)
THEOREM Invariance == SafeSpec => []IInv
<1>1. Init => IInv
  BY InitIInv
<1>2. IInv /\ [Next]_vars => IInv'
  BY NextIInv
<1>. QED BY <1>1, <1>2, PTL DEF SafeSpec

(* Hence every variable keeps its type.                                    *)
THEOREM TypeCorrect == SafeSpec => []TypeOK
<1>1. IInv => TypeOK
  BY DEF IInv
<1>. QED BY <1>1, Invariance, PTL

(* No thread outlives the call, and with it the contexts, that started it. *)
THEOREM AllJoined == SafeSpec => []NoThreadLeft
<1>1. IInv => NoThreadLeft
  BY DEF IInv
<1>. QED BY <1>1, Invariance, PTL

(* The words of a context, as its chunk.                                   *)
LEMMA WordsOf ==
  ASSUME IInv, pc # "idle", NEW t \in 0 .. numthreads - 1, NEW j \in Nat
  PROVE  j \in Words(contexts[t].offset, contexts[t]) <=>
           /\ ChunkStart(Partition(numthreads), t) <= j
           /\ j < ChunkStart(Partition(numthreads), t) + ChunkCount(Partition(numthreads), t)
<1>. DEFINE o == contexts[t].offset
            c == contexts[t].count
            d == j - o
<1>1. /\ o = ChunkStart(Partition(numthreads), t)
      /\ c = ChunkCount(Partition(numthreads), t)
      /\ o \in Nat /\ c \in Nat
  BY ContextOf
<1>2. Words(o, contexts[t]) = {o + k : k \in 0 .. c - 1}
  BY DEF Words
<1>. HIDE DEF o, c, d
<1>3. ASSUME o <= j, j < o + c PROVE j \in {o + k : k \in 0 .. c - 1}
  <2>1. d \in 0 .. c - 1 /\ j = o + d
    BY <1>1, <1>3 DEF d
  <2>. QED BY <2>1
<1>4. ASSUME NEW k \in 0 .. c - 1, j = o + k PROVE o <= j /\ j < o + c
  BY <1>1, <1>4
<1>. QED BY <1>1, <1>2, <1>3, <1>4 DEF o, c

LEMMA ContextsShareColumnHolds == IInv => ContextsShareColumn
<1>. SUFFICES ASSUME IInv, pc # "idle" PROVE ContextsShareColumn
  BY DEF ContextsShareColumn
<1>. DEFINE m == Partition(numthreads)
<1>1. /\ numthreads \in 1 .. MAX_THREAD_COUNT
      /\ DOMAIN contexts = 0 .. numthreads - 1
  BY NumThreads DEF IInv, numthreadsRange, ContextsFilled
<1>. HIDE DEF m
<1>2. ASSUME NEW t \in DOMAIN contexts
      PROVE  /\ contexts[t].result = base_addr
             /\ contexts[t].predicate = contexts[0].predicate
             /\ contexts[t].offset = contexts[t].base_addr
             /\ Words(contexts[t].offset, contexts[t]) \subseteq Index
  <2>. DEFINE o == contexts[t].offset
              c == contexts[t].count
  <2>1. /\ contexts[t].result = base_addr
        /\ contexts[t].predicate = contexts[0].predicate
        /\ o = contexts[t].base_addr
        /\ o \in Nat /\ c \in Nat /\ o + c <= data_count
    BY <1>1, <1>2, ContextOf
  <2>2. Words(o, contexts[t]) = {o + k : k \in 0 .. c - 1}
    BY DEF Words
  <2>. HIDE DEF o, c
  <2>3. \A k \in 0 .. c - 1 : o + k \in Index
    BY <2>1, SizeTypes DEF Index
  <2>. QED BY <2>1, <2>2, <2>3 DEF o
<1>3. ASSUME NEW j \in Index
      PROVE  \E t \in DOMAIN contexts :
               /\ j \in Words(contexts[t].offset, contexts[t])
               /\ \A u \in DOMAIN contexts \ {t} :
                    j \notin Words(contexts[u].offset, contexts[u])
  <2>0. j \in Nat
    BY DEF Index
  <2>1. PICK t \in 0 .. numthreads - 1 :
          ChunkStart(m, t) <= j /\ j < ChunkStart(m, t) + ChunkCount(m, t)
    BY <1>1, <1>3, ChunksCover DEF m
  <2>2. ASSUME NEW u \in 0 .. numthreads - 1, u # t,
               ChunkStart(m, u) <= j, j < ChunkStart(m, u) + ChunkCount(m, u)
        PROVE  FALSE
    <3>1. /\ ChunkStart(m, t) \in Nat /\ ChunkCount(m, t) \in Nat
          /\ ChunkStart(m, u) \in Nat /\ ChunkCount(m, u) \in Nat
      BY <1>1, ChunkInColumn DEF m
    <3>2. CASE t < u
      <4>1. ChunkStart(m, t) + ChunkCount(m, t) <= ChunkStart(m, u)
        BY <1>1, <3>2, ChunksOrdered DEF m
      <4>. QED BY <2>0, <2>1, <2>2, <3>1, <4>1
    <3>3. CASE u < t
      <4>1. ChunkStart(m, u) + ChunkCount(m, u) <= ChunkStart(m, t)
        BY <1>1, <3>3, ChunksOrdered DEF m
      <4>. QED BY <2>0, <2>1, <2>2, <3>1, <4>1
    <3>. QED BY <1>1, <2>2, <3>2, <3>3
  <2>3. j \in Words(contexts[t].offset, contexts[t])
    BY <2>0, <2>1, WordsOf DEF m
  <2>4. \A u \in (0 .. numthreads - 1) \ {t} :
          j \notin Words(contexts[u].offset, contexts[u])
    BY <2>0, <2>2, WordsOf DEF m
  <2>. QED BY <1>1, <2>3, <2>4
<1>. QED BY <1>2, <1>3 DEF ContextsShareColumn

(* The contexts of a call share out the column, for every number of words   *)
(* and threads.                                                            *)
THEOREM ColumnShared == SafeSpec => []ContextsShareColumn
BY Invariance, ContextsShareColumnHolds, PTL

(* A thread that found its context and has ended has written its chunk.    *)
LEMMA ChunkWritten ==
  ASSUME IInv, AllOwn, pc # "idle", NEW t \in 0 .. numthreads - 1,
         threads[t] \in {"exited", "joined"},
         NEW j \in Index, j \in Words(contexts[t].offset, contexts[t])
  PROVE  results[base_addr][j] = Method(data[j], contexts[0].predicate)
<1>1. t \in Entered
  <2>1. t \in Thread
    BY NumThreads, ThreadAssumption DEF IInv, numthreadsRange, Thread
  <2>. QED BY <2>1 DEF Entered
<1>2. frame[t].i = contexts[t].count
  BY <1>1 DEF IInv, LoopsBounded, AllOwn
<1>3. PICK d \in 0 .. contexts[t].count - 1 : j = contexts[t].offset + d
  BY DEF Words
<1>. QED BY <1>1, <1>2, <1>3 DEF IInv, WordsWritten

LEMMA ReturnCompleteHolds ==
  ASSUME IInv, AllOwn, pc = "return", NEW j \in Index
  PROVE  \E t \in 0 .. numthreads - 1 :
           /\ j \in Words(contexts[t].offset, contexts[t])
           /\ \/ threads[t] = "none"
              \/ results[base_addr][j] = Method(data[j], contexts[0].predicate)
<1>1. /\ numthreads \in 1 .. MAX_THREAD_COUNT
      /\ DOMAIN contexts = 0 .. numthreads - 1
  BY NumThreads DEF IInv, numthreadsRange, ContextsFilled
<1>2. PICK t \in 0 .. numthreads - 1 : j \in Words(contexts[t].offset, contexts[t])
  BY <1>1, ContextsShareColumnHolds DEF ContextsShareColumn
<1>3. threads[t] \in {"none", "joined"}
  <2>1. t \in Thread
    BY <1>1, ThreadAssumption DEF Thread
  <2>. QED BY <2>1 DEF IInv, TypeOK, NoThreadLeft, Running
<1>4. CASE threads[t] = "joined"
  BY <1>2, <1>4, ChunkWritten
<1>. QED BY <1>2, <1>3, <1>4

-----------------------------------------------------------------------------

LEMMA InitAllCreated == Init => AllCreated
BY DEF Init, Constructed, AllCreated

LEMMA NextAllCreated ==
  ASSUME IInv, AllCreated, [Next]_vars
  PROVE  AllCreated'
<1>. SUFFICES ASSUME ~ CreateMayFail,
                     NEW t \in 0 .. numthreads' - 1, threads'[t] = "none"
              PROVE  pc' \in {"idle", "crashed"} \/ (pc' = "create" /\ t >= i')
  BY DEF AllCreated
<1>0. /\ threads \in [Thread -> {"none", "created", "running", "exited", "joined"}]
      /\ numthreads \in 1 .. MAX_THREAD_COUNT /\ numthreads \in Nat
      /\ i \in Nat /\ i < numthreads /\ i \in Thread
  BY NumThreads DEF IInv, TypeOK, CallerProgress, numthreadsRange, Thread
<1>1. ASSUME NEW b \in Buffer, NEW p \in Predicate, NEW n \in 1 .. MAX_THREAD_COUNT,
             Call(b, p, n)
      PROVE  pc' = "create" /\ t >= i'
  BY <1>1 DEF Call
<1>2. CASE CreateThread
  <2>1. numthreads' = numthreads /\ pc = "create" /\ NextThread("join")
    BY <1>2 DEF CreateThread, managers, numthreads
  <2>2. t # i /\ threads[t] = "none"
    BY <1>0, <1>2 DEF CreateThread
  <2>3. t >= i
    BY <2>1, <2>2 DEF AllCreated
  <2>4. \/ pc' = pc /\ i' = i + 1
        \/ i = numthreads - 1
    BY <2>1, NextThreadEffect
  <2>. QED BY <1>0, <2>1, <2>2, <2>3, <2>4
<1>3. CASE CreateFails
  BY <1>3 DEF CreateFails
<1>4. CASE JoinThread
  <2>1. numthreads' = numthreads /\ pc = "join" /\ threads[t] = "none"
    BY <1>0, <1>4 DEF JoinThread, managers, numthreads
  <2>. QED BY <2>1 DEF AllCreated
<1>5. CASE JoinNoThread
  <2>1. pc = "join" /\ threads[i] = "none" /\ i \in 0 .. numthreads - 1
    BY <1>0, <1>5 DEF JoinNoThread
  <2>. QED BY <2>1 DEF AllCreated
<1>6. CASE Return
  BY <1>6 DEF Return
<1>7. ASSUME NEW u \in Thread, ThreadStep(u)
      PROVE  pc' \in {"idle", "crashed"} \/ (pc' = "create" /\ t >= i')
  <2>1. CASE Fault(u)
    BY <2>1 DEF Fault
  <2>2. CASE Enter(u) \/ WriteWord(u) \/ Exit(u)
    <3>1. numthreads' = numthreads /\ pc' = pc /\ i' = i /\ threads[t] = "none"
      <4>1. CASE Enter(u)
        BY <1>0, <1>7, <4>1 DEF Enter, managers, caller, numthreads
      <4>2. CASE WriteWord(u)
        BY <4>2 DEF WriteWord, managers, caller, numthreads
      <4>3. CASE Exit(u)
        BY <1>0, <1>7, <4>3 DEF Exit, managers, caller, numthreads
      <4>. QED BY <2>2, <4>1, <4>2, <4>3
    <3>. QED BY <3>1 DEF AllCreated
  <2>. QED BY <1>7, <2>1, <2>2 DEF ThreadStep
<1>8. CASE Crashed \/ UNCHANGED vars
  BY <1>8 DEF Crashed, vars, AllCreated, numthreads
<1>. QED BY <1>1, <1>2, <1>3, <1>4, <1>5, <1>6, <1>7, <1>8 DEF Next, CallerStep

LEMMA AllCreatedInvariance == SafeSpec => []AllCreated
<1>1. IInv /\ AllCreated /\ [Next]_vars => AllCreated'
  BY NextAllCreated
<1>. QED BY <1>1, InitAllCreated, Invariance, PTL DEF SafeSpec

(* A call whose threads found their contexts returns with every word       *)
(* compared but those of the threads that could not be created.            *)
THEOREM CallsComplete == SafeSpec => []ReturnComplete
<1>1. IInv /\ AllCreated => ReturnComplete
  <2>. SUFFICES ASSUME IInv, AllCreated, AllOwn, pc = "return", NEW j \in Index
                PROVE  \/ results[base_addr][j] = Method(data[j], contexts[0].predicate)
                       \/ \E t \in Failed : j \in Words(contexts[t].offset, contexts[t])
    BY DEF ReturnComplete
  <2>1. PICK t \in 0 .. numthreads - 1 :
          /\ j \in Words(contexts[t].offset, contexts[t])
          /\ \/ threads[t] = "none"
             \/ results[base_addr][j] = Method(data[j], contexts[0].predicate)
    BY ReturnCompleteHolds
  <2>. QED BY <2>1, FailAssumption DEF Failed, AllCreated
<1>. QED BY <1>1, Invariance, AllCreatedInvariance, PTL

(***************************************************************************)
(* The end of a call, as far as it can be proved: every step of the caller *)
(* or of a thread leaves fewer to come, however they interleave.  That a   *)
(* step is taken as long as there is one is the fairness of Spec.          *)
(***************************************************************************)

\* The steps of thread t still to come, at most: its start, the words of the
\* context it finds, its end.
WorkLeft(t) ==
  IF \/ threads[t] = "created"
     \/ threads[t] = "none" /\ pc = "create" /\ i <= t /\ t < numthreads
    THEN SizeMax + 2
  ELSE IF threads[t] = "running" THEN frame[t].ctx.count - frame[t].i + 1
  ELSE 0

\* The turns of the caller's two loops, and its return.
TurnsLeft ==
  IF pc = "create" THEN 2 * numthreads - i + 1
  ELSE IF pc = "join" THEN numthreads - i + 1
  ELSE IF pc = "return" THEN 1
  ELSE 0

\* No call takes more steps than this from where it is.
CallLeft == TurnsLeft + SumFunction([t \in Thread |-> WorkLeft(t)])

LEMMA LeftTypes ==
  ASSUME IInv
  PROVE  TurnsLeft \in Nat /\ \A u \in Thread : WorkLeft(u) \in Nat
<1>1. numthreads \in 1 .. MAX_THREAD_COUNT /\ numthreads \in Nat \ {0}
  BY NumThreads DEF IInv, numthreadsRange
<1>2. i \in Nat /\ i < numthreads
  BY DEF IInv, TypeOK, CallerProgress, Thread
<1>3. TurnsLeft \in Nat
  BY <1>1, <1>2 DEF TurnsLeft
<1>4. ASSUME NEW t \in Thread PROVE WorkLeft(t) \in Nat
  <2>1. CASE threads[t] = "running"
    <3>1. t \in Entered
      BY <2>1 DEF Entered
    <3>2. frame[t] \in [ctx : ContextType, i : Nat] /\ frame[t].i <= frame[t].ctx.count
      BY <3>1 DEF IInv, TypeOK, LoopsBounded
    <3>3. frame[t].ctx.count \in Nat
      BY <3>2, SizeTypes DEF ContextType
    <3>. QED BY <2>1, <3>2, <3>3 DEF WorkLeft
  <2>2. CASE threads[t] # "running"
    BY <2>2, SizeTypes DEF WorkLeft
  <2>. QED BY <2>1, <2>2
<1>. QED BY <1>3, <1>4

LEMMA LeftTypesNext ==
  IInv' => TurnsLeft' \in Nat /\ \A u \in Thread : WorkLeft(u)' \in Nat
<1>1. (IInv => TurnsLeft \in Nat /\ \A u \in Thread : WorkLeft(u) \in Nat)'
  BY LeftTypes, PTL
<1>. QED BY <1>1 DEF Thread

\* What a step does to the turns and to the work.
Advanced ==
  /\ TurnsLeft' <= TurnsLeft
  /\ \A t \in Thread : WorkLeft(t)' <= WorkLeft(t)
  /\ TurnsLeft' < TurnsLeft \/ \E t \in Thread : WorkLeft(t)' < WorkLeft(t)

LEMMA CallerAdvances ==
  ASSUME IInv, IInv', InCall, CallerStep
  PROVE  Advanced
<1>0. UNCHANGED <<part_manager_data, frame>>
  BY DEF CallerStep, CreateThread, CreateFails, JoinThread, JoinNoThread, Return, managers
<1>1. numthreads \in Nat /\ numthreads' = numthreads
  BY <1>0, NumThreads DEF IInv, numthreadsRange, numthreads
<1>2. i \in Nat /\ i < numthreads /\ i' \in Nat /\ i' < numthreads
  BY <1>1 DEF IInv, TypeOK, CallerProgress, Thread
<1>a. /\ i \in Thread
      /\ threads \in [Thread -> {"none", "created", "running", "exited", "joined"}]
      /\ \A t \in Thread : t \in Nat
  BY DEF IInv, TypeOK, Thread
<1>b. TurnsLeft \in Nat /\ \A t \in Thread : WorkLeft(t) \in Nat
  BY LeftTypes
<1>d. TurnsLeft' \in Nat
  BY LeftTypesNext
<1>3. CASE CreateThread \/ CreateFails
  <2>1. /\ pc = "create"
        /\ \/ pc' = "create" /\ i' = i + 1
           \/ pc' = "join" /\ i' = 0 /\ i = numthreads - 1
    BY <1>3, NextThreadEffect DEF CreateThread, CreateFails
  <2>2. TurnsLeft' < TurnsLeft
    <3>1. TurnsLeft = 2 * numthreads - i + 1
      BY <2>1 DEF TurnsLeft
    <3>2. CASE pc' = "create" /\ i' = i + 1
      BY <1>1, <1>2, <3>1, <3>2 DEF TurnsLeft
    <3>3. CASE pc' = "join" /\ i' = 0 /\ i = numthreads - 1
      BY <1>1, <1>2, <3>1, <3>3 DEF TurnsLeft
    <3>. QED BY <2>1, <3>2, <3>3
  <2>3. ASSUME NEW t \in Thread PROVE WorkLeft(t)' <= WorkLeft(t)
    <3>1. \/ threads'[t] = threads[t]
          \/ t = i /\ threads[t] = "none" /\ threads'[t] = "created"
      <4>1. threads[i] = "none"
        BY <1>2, <1>a, <2>1 DEF IInv, CallerProgress
      <4>. QED BY <1>3, <1>a, <4>1 DEF CreateThread, CreateFails
    <3>2. CASE threads[t] = "none"
      <4>1. CASE t >= numthreads
        <5>1. threads'[t] = "none"
          <6>1. t # i
            BY <1>1, <1>2, <4>1
          <6>. QED BY <3>1, <3>2, <6>1
        <5>2. ~ (t < numthreads) /\ ~ (t < numthreads')
          BY <1>1, <1>a, <4>1
        <5>3. WorkLeft(t)' = 0
          BY <5>1, <5>2 DEF WorkLeft
        <5>4. WorkLeft(t) \in Nat
          BY <1>b
        <5>. QED BY <5>3, <5>4
      <4>2. CASE t < i
        <5>1. threads'[t] = "none" /\ ~ (pc' = "create" /\ i' <= t)
          BY <1>1, <1>2, <1>a, <2>1, <3>1, <3>2, <4>2
        <5>2. WorkLeft(t)' = 0
          BY <5>1 DEF WorkLeft
        <5>3. WorkLeft(t) \in Nat
          BY <1>b
        <5>. QED BY <5>2, <5>3
      <4>3. CASE i <= t /\ t < numthreads
        <5>1. WorkLeft(t) = SizeMax + 2
          BY <2>1, <3>2, <4>3 DEF WorkLeft
        <5>2. threads'[t] \in {"none", "created"}
          BY <3>1, <3>2
        <5>3. WorkLeft(t)' \in {SizeMax + 2, 0}
          BY <5>2 DEF WorkLeft
        <5>4. WorkLeft(t) \in Nat
          BY <1>b
        <5>. QED BY <5>1, <5>3, <5>4
      <4>. QED BY <1>1, <1>2, <1>a, <4>1, <4>2, <4>3
    <3>3. CASE threads[t] # "none"
      BY <1>0, <1>1, <1>b, <3>1, <3>3 DEF WorkLeft
    <3>. QED BY <3>2, <3>3
  <2>. QED BY <1>b, <1>d, <2>2, <2>3 DEF Advanced
<1>4. CASE JoinThread \/ JoinNoThread \/ Return
  <2>1. \/ /\ pc = "join"
           /\ \/ pc' = "join" /\ i' = i + 1
              \/ pc' = "return"
              \/ pc' = "crashed"
        \/ pc = "return" /\ pc' = "idle"
    BY <1>4, NextThreadEffect DEF JoinThread, JoinNoThread, Return
  <2>2. TurnsLeft' < TurnsLeft
    <3>1. CASE pc = "join"
      <4>1. TurnsLeft = numthreads - i + 1
        BY <3>1 DEF TurnsLeft
      <4>2. TurnsLeft' \in {numthreads - (i + 1) + 1, 1, 0}
        BY <1>1, <2>1, <3>1 DEF TurnsLeft
      <4>. QED BY <1>1, <1>2, <4>1, <4>2
    <3>2. CASE pc = "return"
      BY <2>1, <3>2 DEF TurnsLeft
    <3>. QED BY <2>1, <3>1, <3>2
  <2>3. ASSUME NEW t \in Thread PROVE WorkLeft(t)' <= WorkLeft(t)
    <3>1. \/ threads'[t] = threads[t]
          \/ threads'[t] = "joined"
      BY <1>a, <1>4 DEF JoinThread, JoinNoThread, Return
    <3>2. pc # "create" /\ pc' # "create"
      BY <2>1
    <3>3. WorkLeft(t) \in Nat
      BY <1>b
    <3>. QED BY <1>0, <1>1, <3>1, <3>2, <3>3 DEF WorkLeft
  <2>. QED BY <1>b, <1>d, <2>2, <2>3 DEF Advanced
<1>. QED BY <1>3, <1>4 DEF CallerStep

LEMMA ThreadAdvances ==
  ASSUME IInv, IInv', InCall, NEW t \in Thread, Enter(t) \/ WriteWord(t) \/ Exit(t)
  PROVE  Advanced
<1>1. /\ UNCHANGED <<pc, i, part_manager_data>> /\ numthreads' = numthreads
  BY DEF Enter, WriteWord, Exit, managers, caller, numthreads
<1>2. /\ threads \in [Thread -> {"none", "created", "running", "exited", "joined"}]
      /\ DOMAIN frame = Thread
  BY DEF IInv, TypeOK
<1>a. TurnsLeft \in Nat /\ TurnsLeft' = TurnsLeft
  BY <1>1, LeftTypes DEF TurnsLeft
<1>b. \A u \in Thread : WorkLeft(u) \in Nat
  BY LeftTypes
<1>3. ASSUME NEW u \in Thread \ {t} PROVE WorkLeft(u)' = WorkLeft(u)
  <2>1. threads'[u] = threads[u] /\ frame'[u] = frame[u]
    BY <1>2 DEF Enter, WriteWord, Exit
  <2>. QED BY <1>1, <2>1 DEF WorkLeft
<1>4. WorkLeft(t)' < WorkLeft(t)
  <2>1. CASE Enter(t)
    <3>1. PICK ctx \in {contexts[u] : u \in DOMAIN contexts} \cup Stray :
            frame' = [frame EXCEPT ![t] = [ctx |-> ctx, i |-> 0]]
      BY <2>1 DEF Enter
    <3>2. ctx.count \in 0 .. SizeMax
      <4>1. ctx \in ContextType
        BY <3>1, StrayAssumption DEF IInv, TypeOK
      <4>. QED BY <4>1 DEF ContextType
    <3>3. /\ threads[t] = "created" /\ threads'[t] = "running"
          /\ frame'[t] = [ctx |-> ctx, i |-> 0]
      BY <1>2, <2>1, <3>1 DEF Enter
    <3>4. WorkLeft(t) = SizeMax + 2 /\ WorkLeft(t)' = ctx.count - 0 + 1
      BY <3>3 DEF WorkLeft
    <3>. QED BY <3>2, <3>4, SizeTypes
  <2>2. CASE WriteWord(t)
    <3>1. /\ frame[t].i \in Nat /\ frame[t].ctx.count \in Nat
          /\ frame'[t].ctx = frame[t].ctx /\ frame'[t].i = frame[t].i + 1
          /\ threads[t] = "running" /\ threads'[t] = "running"
      BY <2>2, WriteWordFrame
    <3>. QED BY <3>1 DEF WorkLeft
  <2>3. CASE Exit(t)
    <3>1. threads[t] = "running" /\ threads'[t] = "exited" /\ t \in Entered
      BY <1>2, <2>3 DEF Exit, Entered
    <3>2. frame[t] \in [ctx : ContextType, i : Nat] /\ frame[t].i <= frame[t].ctx.count
      BY <3>1 DEF IInv, TypeOK, LoopsBounded
    <3>3. frame[t].ctx.count \in Nat
      BY <3>2, SizeTypes DEF ContextType
    <3>. QED BY <3>1, <3>2, <3>3 DEF WorkLeft
  <2>. QED BY <2>1, <2>2, <2>3
<1>d. \A u \in Thread : WorkLeft(u)' \in Nat
  BY LeftTypesNext
<1>5. \A u \in Thread : WorkLeft(u)' <= WorkLeft(u)
  BY <1>3, <1>4, <1>b, <1>d
<1>. QED BY <1>a, <1>4, <1>5 DEF Advanced

\* The end of the process is that of the call.
LEMMA FaultAdvances ==
  ASSUME IInv, IInv', InCall, NEW t \in Thread, Fault(t)
  PROVE  Advanced
<1>1. pc' = "crashed" /\ UNCHANGED <<threads, frame, i>> /\ numthreads' = numthreads
  BY DEF Fault, managers, numthreads
<1>2. numthreads \in Nat \ {0} /\ i \in Nat /\ i < numthreads
  BY NumThreads DEF IInv, TypeOK, CallerProgress, Thread, numthreadsRange
<1>3. TurnsLeft' = 0
  BY <1>1 DEF TurnsLeft
<1>4. TurnsLeft \in {2 * numthreads - i + 1, numthreads - i + 1, 1}
  BY DEF InCall, TurnsLeft
<1>5. TurnsLeft' < TurnsLeft
  BY <1>2, <1>3, <1>4
<1>6. \A u \in Thread : WorkLeft(u) \in Nat /\ WorkLeft(u)' \in {WorkLeft(u), 0}
  BY <1>1, LeftTypes DEF WorkLeft
<1>7. \A u \in Thread : WorkLeft(u)' <= WorkLeft(u)
  BY <1>6
<1>8. TurnsLeft \in Nat
  BY LeftTypes
<1>. QED BY <1>3, <1>5, <1>7, <1>8 DEF Advanced

(* The steps left, before and after a step of a call.                      *)
LEMMA FewerLeft ==
  ASSUME IInv, IInv', Advanced
  PROVE  CallLeft \in Nat /\ CallLeft' \in Nat /\ CallLeft' < CallLeft
<1>. DEFINE f == [t \in Thread |-> WorkLeft(t)']
            g == [t \in Thread |-> WorkLeft(t)]
<1>1. IsFiniteSet(Thread)
  BY FS_Interval, ThreadAssumption DEF Thread
<1>3. /\ g \in [Thread -> Nat] /\ f \in [Thread -> Nat]
      /\ TurnsLeft \in Nat /\ TurnsLeft' \in Nat
  BY LeftTypes, LeftTypesNext
<1>4. \A t \in Thread : f[t] = WorkLeft(t)' /\ g[t] = WorkLeft(t)
  OBVIOUS
<1>5. CallLeft = TurnsLeft + SumFunction(g) /\ CallLeft' = TurnsLeft' + SumFunction(f)
  BY DEF CallLeft, Thread
<1>. HIDE DEF f, g
<1>6. \A t \in Thread : f[t] <= g[t]
  BY <1>4 DEF Advanced
<1>7. SumFunction(f) \in Nat /\ SumFunction(g) \in Nat
  BY <1>1, <1>3, SumNat
<1>8. f \in [Thread -> Int] /\ g \in [Thread -> Int]
  BY <1>3
<1>9. /\ SumFunction(f) <= SumFunction(g)
      /\ (\E t \in Thread : f[t] < g[t]) => SumFunction(f) < SumFunction(g)
  BY <1>1, <1>6, <1>8, SumOrder, SumStrictOrder
<1>. QED BY <1>3, <1>4, <1>5, <1>7, <1>9 DEF Advanced

(* Whatever contexts the threads find and whatever they do in between,     *)
(* every step taken during a call brings the call nearer to its end or to   *)
(* that of the process, also if some of its threads could not be created.  *)
CallAdvancing ==
  [][InCall => CallLeft \in Nat /\ CallLeft' \in Nat /\ CallLeft' < CallLeft]_vars

THEOREM CallAdvances == SafeSpec => CallAdvancing
<1>1. IInv /\ IInv' /\ [Next]_vars
        => [InCall => CallLeft \in Nat /\ CallLeft' \in Nat /\ CallLeft' < CallLeft]_vars
  <2>1. IInv /\ IInv' /\ Next /\ InCall => Advanced
    BY CallerAdvances, ThreadAdvances, FaultAdvances DEF Next, ThreadStep, Call, Crashed, InCall
  <2>. QED BY <2>1, FewerLeft
<1>. QED BY <1>1, Invariance, PTL DEF SafeSpec, CallAdvancing
=============================================================================
