------------------------------ MODULE Batching ------------------------------
(***************************************************************************)
(* BatchingPredictor: threads that ask for a prediction, and the worker    *)
(* thread that takes requests from their queue and answers them in batches.*)
(*                                                                         *)
(* Queue, results and the counter of ids are used under one lock, so that  *)
(* each critical section is an action; setting, waiting for and clearing   *)
(* the event, and the prediction itself, are outside of it. A caller polls *)
(* for its result until its time is up. What ties an answer to its request *)
(* between queue and results is only its position: the worker keeps the    *)
(* features and the ids in two lists, and zips what comes back to the ids. *)
(***************************************************************************)
EXTENDS Integers, Sequences, Functions

CONSTANTS Callers,     \* threads in predict()
          Features,    \* what a caller asks about
          Prediction,  \* the model in evaluation mode: a result for each features
          BatchSize,   \* batch_size
          Default,     \* PredictionResult(pctr=0.01)
          NoAnswer,    \* no answer yet, or not any more
          MaxCalls     \* BOUND: calls of predict, all callers together

ASSUME BatchingAssumption ==
    /\ BatchSize \in Nat \ {0} /\ MaxCalls \in Nat
    /\ DOMAIN Prediction = Features
    /\ \A f \in Features : Prediction[f] # NoAnswer
    /\ Default # NoAnswer

\* A request is its req_id.
Requests == 0 .. MaxCalls - 1
Results == {Prediction[f] : f \in Features}
Answers == Results \cup {Default}
Entry == [req : Requests, features : Features]

VARIABLES
    pc,        \* where a caller is: "idle" | "queued" | "polling"
    id,        \* its req_id
    asked,     \* HISTORY: the features of each request so far
    returned,  \* HISTORY: what each finished call returned, by request
    queue,     \* _queue: pairs of a req_id and the features
    results,   \* _results: an answer for each of some requests
    next,      \* _request_id
    event,     \* _event
    running,   \* _running
    worker,    \* where it is: "loop" | "woken" | "batch" | "predicted" | "stopped"
    batch,     \* its batch: the features, by position
    ids,       \* its request_ids, by position
    outputs    \* its results: what predict_batch returned, by position

callerVars == <<pc, id, asked, returned>>
sharedVars == <<queue, results, next>>
workerVars == <<worker, batch, ids, outputs>>
vars == <<callerVars, sharedVars, event, running, workerVars>>

TypeOK ==
    /\ pc \in [Callers -> {"idle", "queued", "polling"}]
    /\ \A p \in Callers : pc[p] # "idle" => id[p] \in Requests
    /\ asked \in [0 .. next - 1 -> Features]
    /\ returned \in [Requests -> Answers \cup {NoAnswer}]
    /\ results \in [Requests -> Answers \cup {NoAnswer}]
    /\ queue \in Seq(Entry)
    /\ batch \in Seq(Features) /\ ids \in Seq(Requests) /\ outputs \in Seq(Results)
    /\ next \in 0 .. MaxCalls /\ event \in BOOLEAN /\ running \in BOOLEAN
    /\ worker \in {"loop", "woken", "batch", "predicted", "stopped"}
    /\ Len(batch) <= BatchSize

Init ==
    /\ pc = [p \in Callers |-> "idle"] /\ id = [p \in Callers |-> 0]
    /\ returned = [r \in Requests |-> NoAnswer] /\ results = returned
    /\ queue = <<>> /\ next = 0 /\ asked \in [0 .. next - 1 -> Features]
    /\ event = FALSE /\ running = TRUE
    /\ worker = "loop" /\ batch = <<>> /\ ids = <<>> /\ outputs = <<>>

-----------------------------------------------------------------------------
(* The callers.                                                              *)

Submit(p, f) ==
    /\ pc[p] = "idle" /\ next < MaxCalls
    /\ pc' = [pc EXCEPT ![p] = "queued"] /\ id' = [id EXCEPT ![p] = next]
    /\ queue' = Append(queue, [req |-> next, features |-> f])
    /\ asked' = [r \in 0 .. next |-> IF r = next THEN f ELSE asked[r]]
    /\ next' = next + 1
    /\ UNCHANGED <<returned, results, event, running, workerVars>>

Signal(p) ==
    /\ pc[p] = "queued"
    /\ pc' = [pc EXCEPT ![p] = "polling"]
    /\ event' = TRUE
    /\ UNCHANGED <<id, asked, returned, sharedVars, running, workerVars>>

Return(p, value) ==
    /\ pc' = [pc EXCEPT ![p] = "idle"]
    /\ returned' = [returned EXCEPT ![id[p]] = value]
    /\ UNCHANGED <<id, asked, queue, next, event, running, workerVars>>

\* Mutant: the answer is read and left where it is.
CollectCopy(p) ==
    /\ pc[p] = "polling" /\ results[id[p]] # NoAnswer
    /\ Return(p, results[id[p]])
    /\ UNCHANGED results

Collect(p) ==
    /\ pc[p] = "polling" /\ results[id[p]] # NoAnswer
    /\ Return(p, results[id[p]])
    /\ results' = [results EXCEPT ![id[p]] = NoAnswer]

\* Mutant: a call waits for its answer without a limit.
TimeOutNever(p) ==
    /\ pc[p] = "polling" /\ results[id[p]] # NoAnswer
    /\ Return(p, Default)
    /\ UNCHANGED results

\* The time may be up at any poll, with the answer there or not.
TimeOut(p) ==
    /\ pc[p] = "polling"
    /\ Return(p, Default)
    /\ UNCHANGED results

Shutdown ==
    /\ running
    /\ running' = FALSE /\ event' = TRUE
    /\ UNCHANGED <<callerVars, sharedVars, workerVars>>

-----------------------------------------------------------------------------
(* The worker.                                                               *)

\* The wait ends when the event is set or after max_wait_ms.
Wake ==
    /\ worker = "loop" /\ running
    /\ worker' = "woken" /\ event' = FALSE
    /\ UNCHANGED <<callerVars, sharedVars, running, batch, ids, outputs>>

Stop ==
    /\ worker = "loop" /\ ~running
    /\ worker' = "stopped"
    /\ UNCHANGED <<callerVars, sharedVars, event, running, batch, ids, outputs>>

\* The first n entries of the queue become two lists.
TakeFirst(n) ==
    /\ worker = "woken"
    /\ worker' = IF n = 0 THEN "loop" ELSE "batch"
    /\ batch' = [i \in 1 .. n |-> queue[i].features]
    /\ ids' = [i \in 1 .. n |-> queue[i].req]
    /\ queue' = SubSeq(queue, n + 1, Len(queue))
    /\ UNCHANGED <<callerVars, results, next, event, running, outputs>>

\* Mutant: a full batch is one longer.
TakeOneMore == TakeFirst(IF Len(queue) <= BatchSize THEN Len(queue) ELSE BatchSize + 1)

Take == TakeFirst(IF Len(queue) < BatchSize THEN Len(queue) ELSE BatchSize)

\* Mutant: an input the model has no features of is left out of the tensors, so that
\* the answers behind it move up.
PredictBatchKnown(inputs) ==
    LET known == SelectSeq(inputs, LAMBDA f : f # CHOOSE g \in Features : TRUE)
    IN  [i \in 1 .. Len(known) |-> Prediction[known[i]]]

\* The tensors have a row for each input, and the results an entry for each row.
PredictBatch(inputs) == [i \in 1 .. Len(inputs) |-> Prediction[inputs[i]]]

Predict ==
    /\ worker = "batch"
    /\ worker' = "predicted" /\ outputs' = PredictBatch(batch)
    /\ UNCHANGED <<callerVars, sharedVars, event, running, batch, ids>>

\* Answers are stored for the requests by position, as far as both lists go, and the
\* lists are dropped.
Zip(answers) ==
    /\ LET positions == DOMAIN ids \cap DOMAIN answers
       IN  results' = [r \in Requests |->
               IF \E i \in positions : ids[i] = r
               THEN answers[CHOOSE i \in positions : ids[i] = r]
               ELSE results[r]]
    /\ worker' = "loop" /\ batch' = <<>> /\ ids' = <<>> /\ outputs' = <<>>
    /\ UNCHANGED <<callerVars, queue, next, event, running>>

Store == worker = "predicted" /\ Zip(outputs)

\* A prediction that fails answers all of its batch with the default.
Fail == worker = "batch" /\ Zip([i \in DOMAIN ids |-> Default])

Caller(p) == (\E f \in Features : Submit(p, f)) \/ Signal(p) \/ Collect(p) \/ TimeOut(p)
Worker == Wake \/ Stop \/ Take \/ Predict \/ Store \/ Fail
Next == (\E p \in Callers : Caller(p)) \/ Shutdown \/ Worker

\* The threads are scheduled. A caller's clock runs; nobody has to call or shut down.
Fairness ==
    /\ WF_vars(Worker)
    /\ \A p \in Callers : WF_vars(Signal(p) \/ Collect(p) \/ TimeOut(p))

Spec == Init /\ [][Next]_vars /\ Fairness

-----------------------------------------------------------------------------
(* Properties.                                                               *)

Waiting == {id[p] : p \in {q \in Callers : pc[q] # "idle"}}

\* A call returns the prediction for its own features or the default. Nothing but the
\* position in three lists ties an answer to its request, from the queue to the zip:
\* no batch, failure or overtaking of callers may shift them against each other.
OwnAnswer ==
    \A r \in Requests : returned[r] # NoAnswer =>
        r < next /\ returned[r] \in {Prediction[asked[r]], Default}

\* A request is in one place: the queue, the batch, the results, or gone; and it stays
\* only for a call that still waits for it or one whose time was up (whose result is
\* never removed). Nothing a call has collected is answered again.
InOnePlace ==
    LET pending == [i \in 1 .. Len(queue) |-> queue[i].req] \o ids
    IN  /\ IsInjective(pending)
        /\ \A r \in Range(pending) : results[r] = NoAnswer
        /\ \A r \in Requests : r \in Range(pending) \/ results[r] # NoAnswer
                                => r \in Waiting \/ returned[r] = Default

\* Every call returns, also when the worker has stopped.
EveryCallReturns == \A p \in Callers : pc[p] # "idle" ~> pc[p] = "idle"
=============================================================================
