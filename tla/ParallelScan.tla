---------------------------- MODULE ParallelScan ----------------------------
(***************************************************************************)
(* A parallel comparison of the BitWeaving/H store (bitweaving_h_store.h,   *)
(* start_thread_with_pinning and cmp_neq_seq_par) over the chunks of        *)
(* partition_manager_even_chunks (threading.h).  The calling thread fills  *)
(* one context per thread, creates the threads and joins them; each thread *)
(* copies the context its parameter ctx_ points to and then writes the     *)
(* results of that chunk.                                                  *)
(*                                                                         *)
(* What ctx_ points to is undefined.  cmp_neq_par makes a member function  *)
(* the start routine of the threads by a cast; pthread_create hands it one *)
(* argument, which arrives as its unused this, and ctx_ is whatever the    *)
(* register of a second argument holds.  That may be the address of the    *)
(* thread's own context or of another one, of other memory that is then    *)
(* read as a context (Stray), or an address that cannot be read.           *)
(*                                                                         *)
(* pthread_create may fail, and start_thread_with_pinning does not look at *)
(* its result: the handle then belongs to no thread, and pthread_join on   *)
(* it is undefined.  It returns at once or brings the process down.        *)
(***************************************************************************)
EXTENDS BitweavingColumn

CONSTANTS
  MAX_THREAD_COUNT,  \* the length of the store's array of threads
  Value,             \* the words
  Predicate,         \* the predicates compared with
  Buffer,            \* the result arrays of the caller
  NoBuffer,          \* the null pointer
  Unwritten,         \* the contents of a word of them nobody has written
  Method(_, _),      \* what the thread function computes from a word
  CreateMayFail,     \* whether pthread_create can fail
  SizeMax,           \* the largest size_t
  Stray              \* what memory that is no context may be read as

ContextType ==
  [base_addr : Nat, count : 0 .. SizeMax, result : Buffer, offset : Nat,
   predicate : Predicate]

ASSUME CountAssumption == SizeMax \in Nat /\ data_count \in 0 .. SizeMax
ASSUME ThreadAssumption == MAX_THREAD_COUNT \in Nat \ {0}
ASSUME FailAssumption == CreateMayFail \in BOOLEAN
ASSUME StrayAssumption == Stray \subseteq ContextType
ASSUME MethodAssumption ==
  \A v \in Value, p \in Predicate : Method(v, p) \in Value

VARIABLES
  results,             \* the contents of the result arrays
  part_manager_data,   \* how the column is split
  part_manager_result, \* how the result is split
  base_addr,           \* of part_manager_result: the result array
  contexts,            \* the vector the threads' arguments point into
  threads,             \* what is behind the handles: the state of each thread
  frame,               \* each thread's copy of its context, and its loop variable
  pc, i                \* where the calling thread is, and its loop variable

caller == <<pc, i>>
managers == <<part_manager_data, part_manager_result, base_addr>>
vars == <<data, results, part_manager_data, part_manager_result, base_addr,
          contexts, threads, frame, pc, i>>

Thread == 0 .. MAX_THREAD_COUNT - 1

(***************************************************************************)
(* partition_manager_even_chunks                                           *)
(***************************************************************************)
\* Mutant: the remainder of the division is lost.
Partition_NoResidual(n) ==
  [num_threads |-> n, chunk_size |-> data_count \div n, residual |-> 0]

\* The constructor with n = MAX_THREAD_COUNT, and set_thread_count.
Partition(n) ==
  [num_threads |-> n, chunk_size |-> data_count \div n, residual |-> data_count % n]

\* The length of thread t's chunk: the last one also takes the residual.
ChunkCount(m, t) ==
  m.chunk_size + IF t = m.num_threads - 1 THEN m.residual ELSE 0

ChunkStart(m, t) == t * m.chunk_size

\* The context of thread t: its chunk of the column by m, and by r the place in
\* the result array b.
Context(m, r, b, p, t) ==
  [base_addr |-> ChunkStart(m, t), count |-> ChunkCount(m, t),
   result |-> b, offset |-> ChunkStart(r, t), predicate |-> p]

(***************************************************************************)
(* The calling thread.                                                     *)
(***************************************************************************)
\* What the constructor leaves, and the caller's result arrays.
Constructed ==
  /\ results = [b \in Buffer |-> [j \in Index |-> Unwritten]]
  /\ part_manager_data = Partition(MAX_THREAD_COUNT)
  /\ part_manager_result = Partition(MAX_THREAD_COUNT)
  /\ base_addr = NoBuffer
  /\ contexts = << >>
  /\ threads = [t \in Thread |-> "none"]
  /\ frame = [t \in Thread |-> << >>]
  /\ pc = "idle"
  /\ i = 0

Init == data \in [Index -> Value] /\ Constructed

numthreads == part_manager_data.num_threads

\* Mutant: set_base_addr comes after the contexts are filled.
Call_StaleBase(b, p, n) ==
  /\ pc = "idle"
  /\ part_manager_data' = Partition(n)
  /\ part_manager_result' = Partition(n)
  /\ base_addr' = b
  /\ contexts' = [t \in 0 .. n - 1 |-> Context(part_manager_data', part_manager_result', base_addr, p, t)]
  /\ threads' = [t \in Thread |-> "none"]
  /\ frame' = [t \in Thread |-> << >>]
  /\ pc' = "create"
  /\ i' = 0
  /\ UNCHANGED <<data, results>>

\* Mutant: set_thread_count of part_manager_result comes after that.
Call_StaleResultChunks(b, p, n) ==
  /\ pc = "idle"
  /\ part_manager_data' = Partition(n)
  /\ part_manager_result' = Partition(n)
  /\ base_addr' = b
  /\ contexts' = [t \in 0 .. n - 1 |-> Context(part_manager_data', part_manager_result, base_addr', p, t)]
  /\ threads' = [t \in Thread |-> "none"]
  /\ frame' = [t \in Thread |-> << >>]
  /\ pc' = "create"
  /\ i' = 0
  /\ UNCHANGED <<data, results>>

\* The call, up to the end of the loop that fills the contexts.  The handles
\* still in threads are uninitialised or belong to threads joined before, whose
\* stacks are gone.
Call(b, p, n) ==
  /\ pc = "idle"
  /\ part_manager_data' = Partition(n)
  /\ part_manager_result' = Partition(n)
  /\ base_addr' = b
  /\ contexts' = [t \in 0 .. n - 1 |-> Context(part_manager_data', part_manager_result', base_addr', p, t)]
  /\ threads' = [t \in Thread |-> "none"]
  /\ frame' = [t \in Thread |-> << >>]
  /\ pc' = "create"
  /\ i' = 0
  /\ UNCHANGED <<data, results>>

\* The end of a loop body over the threads.
NextThread(after) ==
  IF i + 1 < numthreads
  THEN pc' = pc /\ i' = i + 1
  ELSE pc' = after /\ i' = 0

\* pthread_create, which starts a thread with its context ...
CreateThread ==
  /\ pc = "create"
  /\ threads' = [threads EXCEPT ![i] = "created"]
  /\ NextThread("join")
  /\ UNCHANGED <<data, results, managers, contexts, frame>>

\* ... or fails, which nobody notices.
CreateFails ==
  /\ CreateMayFail
  /\ pc = "create"
  /\ NextThread("join")
  /\ UNCHANGED <<data, results, managers, contexts, threads, frame>>

\* Mutant: pthread_join does not wait.
JoinThread_NoWait ==
  /\ pc = "join"
  /\ threads[i] # "none"
  /\ NextThread("return")
  /\ UNCHANGED <<data, results, managers, contexts, threads, frame>>

\* pthread_join waits for the end of the thread.
JoinThread ==
  /\ pc = "join"
  /\ threads[i] = "exited"
  /\ threads' = [threads EXCEPT ![i] = "joined"]
  /\ NextThread("return")
  /\ UNCHANGED <<data, results, managers, contexts, frame>>

\* pthread_join on a handle without a thread: it fails, which nobody notices,
\* or the process ends.
JoinNoThread ==
  /\ pc = "join"
  /\ threads[i] = "none"
  /\ \/ NextThread("return")
     \/ pc' = "crashed" /\ UNCHANGED i
  /\ UNCHANGED <<data, results, managers, contexts, threads, frame>>

\* The call returns, and contexts goes out of scope.
Return ==
  /\ pc = "return"
  /\ pc' = "idle"
  /\ contexts' = << >>
  /\ UNCHANGED <<data, results, managers, threads, frame, i>>

(***************************************************************************)
(* A created thread.  Nothing runs any more once the process has crashed.  *)
(***************************************************************************)
\* It copies what ctx_ points to, if that can be read.
Enter(t) ==
  /\ pc # "crashed"
  /\ threads[t] = "created"
  /\ threads' = [threads EXCEPT ![t] = "running"]
  /\ \E ctx \in {contexts[u] : u \in DOMAIN contexts} \cup Stray :
       frame' = [frame EXCEPT ![t] = [ctx |-> ctx, i |-> 0]]
  /\ UNCHANGED <<data, results, managers, contexts, caller>>

\* The word at k of the column, or what is behind it.
WordAt(k) == IF k \in Index THEN {data[k]} ELSE Value

\* Mutant: the loop variable is not incremented.
WriteWord_Stuck(t) ==
  LET ctx == frame[t].ctx
      j == frame[t].i
  IN  /\ pc # "crashed"
      /\ threads[t] = "running"
      /\ j < ctx.count
      /\ \E v \in WordAt(ctx.base_addr + j) :
           results' = IF ctx.offset + j \in Index
                      THEN [results EXCEPT ![ctx.result][ctx.offset + j] =
                              Method(v, ctx.predicate)]
                      ELSE results
      /\ UNCHANGED <<data, managers, contexts, threads, frame, caller>>

\* One round of its loop.  A word behind the result array belongs to no array.
WriteWord(t) ==
  LET ctx == frame[t].ctx
      j == frame[t].i
  IN  /\ pc # "crashed"
      /\ threads[t] = "running"
      /\ j < ctx.count
      /\ \E v \in WordAt(ctx.base_addr + j) :
           results' = IF ctx.offset + j \in Index
                      THEN [results EXCEPT ![ctx.result][ctx.offset + j] =
                              Method(v, ctx.predicate)]
                      ELSE results
      /\ frame' = [frame EXCEPT ![t].i = j + 1]
      /\ UNCHANGED <<data, managers, contexts, threads, caller>>

\* Its pointers lead to memory the process may not use: ctx_, or those of the
\* context behind the arrays.
Fault(t) ==
  /\ pc # "crashed"
  /\ \/ threads[t] = "created"
     \/ /\ threads[t] = "running"
        /\ frame[t].i < frame[t].ctx.count
        /\ \/ frame[t].ctx.base_addr + frame[t].i \notin Index
           \/ frame[t].ctx.offset + frame[t].i \notin Index
  /\ pc' = "crashed"
  /\ UNCHANGED <<data, results, managers, contexts, threads, frame, i>>

\* Its end.
Exit(t) ==
  /\ pc # "crashed"
  /\ threads[t] = "running"
  /\ frame[t].i >= frame[t].ctx.count
  /\ threads' = [threads EXCEPT ![t] = "exited"]
  /\ UNCHANGED <<data, results, managers, contexts, frame, caller>>

\* The process has ended.
Crashed == pc = "crashed" /\ UNCHANGED vars

CallerStep == CreateThread \/ CreateFails \/ JoinThread \/ JoinNoThread \/ Return

ThreadStep(t) == Enter(t) \/ WriteWord(t) \/ Exit(t) \/ Fault(t)

Next ==
  \/ \E b \in Buffer, p \in Predicate, n \in 1 .. MAX_THREAD_COUNT : Call(b, p, n)
  \/ CallerStep
  \/ \E t \in Thread : ThreadStep(t)
  \/ Crashed

SafeSpec == Init /\ [][Next]_vars

\* The operating system runs the calling thread and every created thread.
Spec ==
  /\ SafeSpec
  /\ WF_vars(CallerStep)
  /\ \A t \in Thread : WF_vars(ThreadStep(t))

-----------------------------------------------------------------------------

\* The threads that may still use their context.
Running == {t \in Thread : threads[t] \in {"created", "running", "exited"}}

\* The threads that have copied a context, and that all of them found their own.
Entered == {t \in Thread : threads[t] \in {"running", "exited", "joined"}}

AllOwn == \A t \in Entered : frame[t].ctx = contexts[t]

\* The threads of the call that pthread_create has not started.
Failed ==
  {t \in 0 .. numthreads - 1 :
     CreateMayFail /\ threads[t] = "none" /\ (pc = "create" => t < i)}

\* The words from address a on that a context counts.
Words(a, ctx) == {a + j : j \in 0 .. ctx.count - 1}

PartitionType == [num_threads : 1 .. MAX_THREAD_COUNT, chunk_size : Nat, residual : Nat]

TypeOK ==
  /\ data \in [Index -> Value]
  /\ results \in [Buffer -> [Index -> Value \cup {Unwritten}]]
  /\ part_manager_data \in PartitionType
  /\ part_manager_result \in PartitionType
  /\ base_addr \in Buffer \cup {NoBuffer}
  /\ threads \in [Thread -> {"none", "created", "running", "exited", "joined"}]
  /\ pc \in {"idle", "create", "join", "return", "crashed"}
  /\ i \in Thread
  /\ \A t \in DOMAIN contexts : contexts[t] \in ContextType
  /\ DOMAIN frame = Thread
  /\ \A t \in Entered : frame[t] \in [ctx : ContextType, i : Nat]

(* The contexts of a call share out the column: every word is in exactly   *)
(* one of them, is compared with one predicate, and its result goes to the *)
(* same place of the array this call was given, whatever the call before   *)
(* was given and whether or not the threads divide the words.  This is     *)
(* what makes the unlocked writes of the threads safe (once they get their *)
(* contexts).                                                              *)
ContextsShareColumn ==
  pc # "idle" =>
    /\ \A t \in DOMAIN contexts :
         /\ contexts[t].result = base_addr
         /\ contexts[t].predicate = contexts[0].predicate
         /\ contexts[t].offset = contexts[t].base_addr
         /\ Words(contexts[t].offset, contexts[t]) \subseteq Index
    /\ \A j \in Index : \E t \in DOMAIN contexts :
         /\ j \in Words(contexts[t].offset, contexts[t])
         /\ \A u \in DOMAIN contexts \ {t} : j \notin Words(contexts[u].offset, contexts[u])

(* When a call returns whose threads have all found their own contexts,    *)
(* its result array holds the comparison of every word, but for the chunks *)
(* of the threads that could not be created.                               *)
ReturnComplete ==
  pc = "return" /\ AllOwn =>
    \A j \in Index :
      \/ results[base_addr][j] = Method(data[j], contexts[0].predicate)
      \/ \E t \in Failed : j \in Words(contexts[t].offset, contexts[t])

(* The contexts the threads were given pointers to, and the arrays, are     *)
(* theirs until they end: no thread of a call is left when it returns.     *)
NoThreadLeft == pc \in {"return", "idle"} => Running = {}

(* A call returns, or brings the process down, whatever its threads find   *)
(* for a context.                                                          *)
CallReturns == pc = "create" ~> pc \in {"idle", "crashed"}

(***************************************************************************)
(* The inductive invariant.                                                *)
(***************************************************************************)
\* Both managers split alike, by the number of threads of the last call.
ManagersAgree ==
  /\ part_manager_data = Partition(numthreads)
  /\ part_manager_result = Partition(numthreads)

\* While a call goes on each of its threads has a context, its chunk.
ContextsFilled ==
  pc # "idle" =>
    /\ base_addr \in Buffer
    /\ DOMAIN contexts = 0 .. numthreads - 1
    /\ contexts[0].predicate \in Predicate
    /\ \A t \in 0 .. numthreads - 1 :
         contexts[t] = Context(part_manager_data, part_manager_result,
                               base_addr, contexts[0].predicate, t)

\* A thread ends with the words its context counts.
LoopsBounded ==
  \A t \in Entered :
    /\ frame[t].i <= frame[t].ctx.count
    /\ threads[t] # "running" => frame[t].i = frame[t].ctx.count

\* What the caller's loops have done up to thread i.
CallerProgress ==
  /\ \A t \in Thread : threads[t] # "none" => t < numthreads
  /\ i < numthreads
  /\ pc = "create" =>
       \A t \in Thread : /\ threads[t] # "joined"
                         /\ t >= i => threads[t] = "none"
  /\ pc = "join" =>
       \A t \in Thread : IF t < i THEN t \notin Running ELSE threads[t] # "joined"

\* The words before a thread's loop variable hold their comparison.
WordsWritten ==
  pc # "idle" /\ AllOwn =>
    \A t \in Entered : \A j \in 0 .. frame[t].i - 1 :
      results[base_addr][contexts[t].offset + j] =
        Method(data[contexts[t].offset + j], contexts[0].predicate)

\* Every thread of the call is there once its turn is over, if none can fail.
AllCreated ==
  ~ CreateMayFail =>
    \A t \in 0 .. numthreads - 1 :
      threads[t] = "none" => pc \in {"idle", "crashed"} \/ (pc = "create" /\ t >= i)

(* ContextsShareColumn and ReturnComplete are not inductive: they do not   *)
(* say how the contexts came about, nor what has been written so far.      *)
IInv ==
  /\ TypeOK
  /\ ManagersAgree
  /\ ContextsFilled
  /\ LoopsBounded
  /\ CallerProgress
  /\ WordsWritten
  /\ NoThreadLeft

InCall == pc \in {"create", "join", "return"}
=============================================================================
