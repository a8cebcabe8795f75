-------------------------- MODULE BitweavingHStore --------------------------
(***************************************************************************)
(* The BitWeaving/H store (bitweaving_h_store.h): its sequential operations *)
(* and cmp_neq_par, whose threads (ParallelScan) run cmp_neq_seq_par over   *)
(* the words of the column.  They share nothing but the column, which only  *)
(* format changes, so a behaviour is about one of the two.                 *)
(***************************************************************************)
EXTENDS ParallelScan, BitweavingStore

CONSTANT Parts    \* what is explored: "sequential", "parallel"

VARIABLE part

hStoreVars == <<part, vars, result, last>>

HStoreInit ==
  /\ part \in Parts
  /\ part = "sequential" => data \in [Index -> T]
  /\ part = "parallel" => data \in [Index -> Value]
  /\ Constructed
  /\ result = NoResult
  /\ last = NoResult

HStoreNext ==
  \/ part = "sequential" /\ StoreNext /\ UNCHANGED part
     /\ UNCHANGED <<results, managers, contexts, threads, frame, caller>>
  \/ part = "parallel" /\ Next /\ UNCHANGED <<part, result, last>>

HStoreSpec == HStoreInit /\ [][HStoreNext]_hStoreVars

\* The variables of the parallel part keep their types.
HStoreTypeOK == part = "parallel" => TypeOK

(* The parallel inequality gives the words the sequential one gives, as the *)
(* comment beside the thread function's assignment has it.                 *)
ParallelIsSequential ==
  pc = "return" =>
    \A j \in Index : results[base_addr][j] = cmp_neq(data[j], contexts[0].predicate)
=============================================================================
