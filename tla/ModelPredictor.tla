--------------------------- MODULE ModelPredictor ---------------------------
(***************************************************************************)
(* ModelPredictor: a model that threads share. The first prediction loads  *)
(* it, under a lock that is taken only when it does not look loaded, and   *)
(* every prediction is counted, under no lock at all.                      *)
(***************************************************************************)
EXTENDS Integers, FiniteSets, FiniteSetsExt

CONSTANTS Threads,     \* executor threads, and the worker of BatchingPredictor
          NoThread,    \* the lock is free
          Batches,     \* sizes of batches
          MaxBatches   \* BOUND: batches of one thread

VARIABLES
    pc,      \* where a thread is in predict_batch
    size,    \* the batch it has
    seen,    \* num_predictions as it read it
    lock,    \* _lock
    ready,   \* _is_loaded
    model,   \* "none" | "bare": without weights | "cold": with them | "warm": and run
    count,   \* model_info.num_predictions
    begun    \* BOUND: batches begun

vars == <<pc, size, seen, lock, ready, model, count, begun>>

TypeOK ==
    /\ pc \in [Threads -> {"idle", "asking", "loading", "warming", "inferring", "counting",
                           "writing"}]
    /\ size \in [Threads -> Nat] /\ seen \in [Threads -> Nat]
    /\ lock \in Threads \cup {NoThread}
    /\ ready \in BOOLEAN /\ model \in {"none", "bare", "cold", "warm"}
    /\ count \in Nat
    /\ begun \in [Threads -> 0 .. MaxBatches]

Init ==
    /\ pc = [t \in Threads |-> "idle"] /\ size = [t \in Threads |-> 0]
    /\ seen = size /\ begun = size
    /\ lock = NoThread /\ ready = FALSE /\ model = "none" /\ count = 0

Goto(t, place) == pc' = [pc EXCEPT ![t] = place]

-----------------------------------------------------------------------------
Begin(t, n) ==
    /\ pc[t] = "idle" /\ begun[t] < MaxBatches
    /\ begun' = [begun EXCEPT ![t] = @ + 1]
    /\ size' = [size EXCEPT ![t] = n]
    /\ Goto(t, IF ready THEN "inferring" ELSE "asking")
    /\ UNCHANGED <<seen, lock, ready, model, count>>

\* Mutant: whether another thread has loaded it in the meantime is not asked.
AcquireUnchecked(t) ==
    /\ pc[t] = "asking" /\ lock = NoThread
    /\ Goto(t, "loading") /\ lock' = t
    /\ UNCHANGED <<size, seen, ready, model, count, begun>>

\* Another thread may have loaded it in the meantime.
Acquire(t) ==
    /\ pc[t] = "asking" /\ lock = NoThread
    /\ IF ready THEN Goto(t, "inferring") /\ UNCHANGED lock
                ELSE Goto(t, "loading") /\ lock' = t
    /\ UNCHANGED <<size, seen, ready, model, count, begun>>

LoadWeights(t) ==
    /\ pc[t] = "loading"
    /\ model' = "cold" /\ count' = 0
    /\ Goto(t, "warming")
    /\ UNCHANGED <<size, seen, lock, ready, begun>>

WarmUp(t) ==
    /\ pc[t] = "warming"
    /\ model' = "warm" /\ ready' = TRUE
    /\ lock' = NoThread
    /\ Goto(t, "inferring")
    /\ UNCHANGED <<size, seen, count, begun>>

\* Without a file there is nothing to load, and the model still counts as loaded.
LoadNothing(t) ==
    /\ pc[t] = "loading"
    /\ ready' = TRUE
    /\ lock' = NoThread
    /\ Goto(t, "inferring")
    /\ UNCHANGED <<size, seen, model, count, begun>>

\* An exception releases the lock and ends the call. What there was of the model stays:
\* it is created before its weights are.
LoadFails(t) ==
    /\ pc[t] \in {"loading", "warming"}
    /\ \/ UNCHANGED model
       \/ pc[t] = "loading" /\ model' = "bare"
    /\ lock' = NoThread
    /\ Goto(t, "idle")
    /\ UNCHANGED <<size, seen, ready, count, begun>>

Infer(t) ==
    /\ pc[t] = "inferring" /\ model # "none"
    /\ Goto(t, "counting")
    /\ UNCHANGED <<size, seen, lock, ready, model, count, begun>>

\* "Model not loaded", or the inference raises.
Refuse(t) ==
    /\ pc[t] = "inferring"
    /\ Goto(t, "idle")
    /\ UNCHANGED <<size, seen, lock, ready, model, count, begun>>

\* num_predictions += len(...) is a read and a write; between them another thread may
\* run. (The average latency that follows is a read and a write as well.)
ReadCount(t) ==
    /\ pc[t] = "counting"
    /\ seen' = [seen EXCEPT ![t] = count]
    /\ Goto(t, "writing")
    /\ UNCHANGED <<size, lock, ready, model, count, begun>>

WriteCount(t) ==
    /\ pc[t] = "writing"
    /\ count' = seen[t] + size[t]
    /\ Goto(t, "idle")
    /\ UNCHANGED <<size, seen, lock, ready, model, begun>>

Step(t) == \/ Acquire(t) \/ LoadWeights(t) \/ WarmUp(t) \/ LoadNothing(t) \/ LoadFails(t)
           \/ Infer(t) \/ Refuse(t) \/ ReadCount(t) \/ WriteCount(t)
Next == \E t \in Threads : Step(t) \/ \E n \in Batches : Begin(t, n)
Spec == Init /\ [][Next]_vars

-----------------------------------------------------------------------------
(* Properties.                                                               *)

\* The model is replaced by nobody once it counts as loaded, although the flag is read
\* without the lock: no thread infers with a model that another is still loading.
LoadedOnce ==
    /\ ready => \A t \in Threads : pc[t] \notin {"loading", "warming"}
    /\ \A t \in Threads : pc[t] = "inferring" => ready
=============================================================================
