----------------------------- MODULE ModelCache -----------------------------
(***************************************************************************)
(* ModelCache: versions of a model, loaded on demand and evicted when      *)
(* there are too many, and the version that is current.                    *)
(*                                                                         *)
(* Every method holds the lock for all it does, loading the files          *)
(* included, so that a thread that has the lock is an action apart from    *)
(* the one that waits for it. The lock is not reentrant.                   *)
(***************************************************************************)
EXTENDS Integers, Sequences, FiniteSets, Functions, SequencesExt

CONSTANTS Threads,
          Versions,
          MaxModels,   \* max_models
          NoVersion,   \* _current_version is None
          NoThread,    \* the lock is free
          MaxCalls     \* BOUND: calls, all threads together

VARIABLES
    calls,    \* BOUND: calls made
    pc,       \* where a thread is
    op,       \* the method it runs, "none" without one
    version,  \* its argument
    lock,     \* _lock
    models,   \* _models, oldest first
    current   \* _current_version

threadVars == <<calls, pc, op, version>>
vars == <<threadVars, lock, models, current>>

TypeOK ==
    /\ calls \in 0 .. MaxCalls
    /\ pc \in [Threads -> {"idle", "waiting", "inside", "again"}]
    /\ op \in [Threads -> {"none", "load", "set", "get"}]
    /\ version \in [Threads -> Versions]
    /\ lock \in Threads \cup {NoThread}
    /\ models \in Seq(Versions)
    /\ current \in Versions \cup {NoVersion}

Init ==
    /\ calls = 0
    /\ pc = [t \in Threads |-> "idle"] /\ op = [t \in Threads |-> "none"]
    /\ version = [t \in Threads |-> CHOOSE v \in Versions : TRUE]
    /\ lock = NoThread /\ models = <<>> /\ current = NoVersion

-----------------------------------------------------------------------------
Call(t, method, v) ==
    /\ pc[t] = "idle" /\ calls < MaxCalls
    /\ calls' = calls + 1
    /\ pc' = [pc EXCEPT ![t] = "waiting"]
    /\ op' = [op EXCEPT ![t] = method] /\ version' = [version EXCEPT ![t] = v]
    /\ UNCHANGED <<lock, models, current>>

Acquire(t) ==
    /\ pc[t] = "waiting" /\ lock = NoThread
    /\ pc' = [pc EXCEPT ![t] = "inside"] /\ lock' = t
    /\ UNCHANGED <<calls, op, version, models, current>>

Release(t) ==
    /\ pc' = [pc EXCEPT ![t] = "idle"] /\ op' = [op EXCEPT ![t] = "none"]
    /\ lock' = NoThread
    /\ UNCHANGED <<calls, version>>

Cached(v) == v \in Range(models)

\* Mutant: the oldest version is removed, current or not.
OldestEvicted == IF Len(models) < MaxModels THEN models ELSE Tail(models)

\* With the cache full, the oldest version that is not current is removed, if any.
Evicted ==
    LET other == {i \in DOMAIN models : models[i] # current}
    IN  IF Len(models) < MaxModels \/ other = {} THEN models
        ELSE RemoveAt(models, CHOOSE i \in other : \A k \in other : i <= k)

\* A model without files loads all the same, with nothing in it.
LoadModel(t) ==
    /\ pc[t] = "inside" /\ op[t] = "load"
    /\ models' = IF Cached(version[t]) THEN models ELSE Append(Evicted, version[t])
    /\ Release(t)
    /\ UNCHANGED current

\* Mutant: an exception leaves the lock taken.
LoadFailsLocked(t) ==
    /\ pc[t] = "inside" /\ op[t] = "load" /\ ~Cached(version[t])
    /\ models' = Evicted
    /\ pc' = [pc EXCEPT ![t] = "idle"] /\ op' = [op EXCEPT ![t] = "none"]
    /\ UNCHANGED <<calls, version, lock, current>>

\* The files do not load: what was evicted is gone, and the lock is released.
LoadFails(t) ==
    /\ pc[t] = "inside" /\ op[t] = "load" /\ ~Cached(version[t])
    /\ models' = Evicted
    /\ Release(t)
    /\ UNCHANGED current

SetCurrent(t) ==
    /\ pc[t] = "inside" /\ op[t] = "set" /\ Cached(version[t])
    /\ current' = version[t]
    /\ Release(t)
    /\ UNCHANGED models

\* A version that is not cached: load_model asks for the lock that this thread holds,
\* and there is no next step.
CallLoad(t) ==
    /\ pc[t] = "inside" /\ op[t] = "set" /\ ~Cached(version[t])
    /\ pc' = [pc EXCEPT ![t] = "again"]
    /\ UNCHANGED <<calls, op, version, lock, models, current>>

GetCurrent(t) ==
    /\ pc[t] = "inside" /\ op[t] = "get"
    /\ Release(t)
    /\ UNCHANGED <<models, current>>

Step(t) == \/ Acquire(t) \/ LoadModel(t) \/ LoadFails(t) \/ SetCurrent(t) \/ CallLoad(t)
           \/ GetCurrent(t)

Next == \E t \in Threads :
            Step(t) \/ \E m \in {"load", "set", "get"}, v \in Versions : Call(t, m, v)

\* Threads are scheduled, and calls are few, so that a thread that waits gets its turn.
Fairness == \A t \in Threads : WF_vars(Step(t))
Spec == Init /\ [][Next]_vars /\ Fairness

-----------------------------------------------------------------------------
(* Properties.                                                               *)

\* The version that is current is not evicted ("hot-swap without downtime"):
\* get_current finds a model once one has been set.
CurrentIsCached == current # NoVersion => Cached(current)

\* A thread that holds the lock and asks for it again waits for itself.
StuckOnItself(t) == pc[t] = "again" /\ lock = t

\* Every call ends, whatever fails to load, unless some thread has made a version
\* current that is not cached: set_current then waits for itself, and all others for it.
CallsEndUnlessStuck ==
    \A t \in Threads :
        pc[t] = "waiting" ~> (pc[t] = "idle" \/ \E u \in Threads : StuckOnItself(u))
=============================================================================
