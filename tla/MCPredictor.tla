---------------------------- MODULE MCPredictor ----------------------------
(* The three classes of serving/predictor.py. Nothing in the repository puts  *)
(* them together, so that each behaviour is of one of them, which is chosen   *)
(* in the initial state, and the others rest.                                 *)
EXTENDS Batching, TLC

CONSTANTS Threads, NoThread, Batches, MaxBatches, Versions, MaxModels, NoVersion, CacheCalls

\* Other features have another prediction.
MCPrediction == [f \in Features |-> <<"prediction", f>>]

\* A free lock is held by no thread.
ASSUME PredictorAssumption ==
    /\ NoThread \notin Threads
    /\ Batches \subseteq Nat /\ MaxBatches \in Nat
    /\ Versions # {} /\ MaxModels \in Nat /\ CacheCalls \in Nat

VARIABLES class,
          mpc, size, seen, mlock, ready, model, count, begun,
          calls, cpc, op, version, clock, models, current

MP == INSTANCE ModelPredictor WITH pc <- mpc, lock <- mlock
MC == INSTANCE ModelCache WITH pc <- cpc, lock <- clock, MaxCalls <- CacheCalls

mpVars == <<mpc, size, seen, mlock, ready, model, count, begun>>
mcVars == <<calls, cpc, op, version, clock, models, current>>
all == <<class, vars, mpVars, mcVars>>

MCInit == class \in {"batching", "predictor", "cache"} /\ Init /\ MP!Init /\ MC!Init

MCNext ==
    \/ class = "batching" /\ Next /\ UNCHANGED <<class, mpVars, mcVars>>
    \/ class = "predictor" /\ MP!Next /\ UNCHANGED <<class, vars, mcVars>>
    \/ class = "cache" /\ MC!Next /\ UNCHANGED <<class, vars, mpVars>>

\* Each class is scheduled as its own specification says.
MCSpec ==
    /\ MCInit /\ [][MCNext]_all
    /\ class = "batching" => Fairness
    /\ class = "cache" => MC!Fairness

TypesOK == TypeOK /\ MP!TypeOK /\ MC!TypeOK
LoadedOnce == MP!LoadedOnce
CurrentIsCached == MC!CurrentIsCached
CallsEndUnlessStuck == MC!CallsEndUnlessStuck
=============================================================================
