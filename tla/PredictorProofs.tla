-------------------------- MODULE PredictorProofs --------------------------
(***************************************************************************)
(* Theorems about Batching, for every number of callers and calls and every *)
(* size of a batch, and about ModelPredictor and ModelCache as MCPredictor  *)
(* puts them beside it, for every number of threads, versions and models.   *)
(***************************************************************************)
EXTENDS MCPredictor, SequenceTheorems, WellFoundedInduction, TLAPS

USE DEF callerVars, sharedVars, workerVars, vars, Requests, Answers

-----------------------------------------------------------------------------
(* The inductive invariant.                                                  *)

Queued(r) == \E i \in 1 .. Len(queue) : queue[i].req = r
Batched(r) == \E i \in 1 .. Len(ids) : ids[i] = r
Pending(r) == Queued(r) \/ Batched(r)

\* Ids are handed out, queued and batched in their order.
Fifo ==
    /\ \A i, j \in 1 .. Len(queue) : i < j => queue[i].req < queue[j].req
    /\ \A i, j \in 1 .. Len(ids) : i < j => ids[i] < ids[j]
    /\ \A i \in 1 .. Len(ids), j \in 1 .. Len(queue) : ids[i] < queue[j].req
    /\ \A r \in Requests : Pending(r) => r < next

\* The lists stay aligned: what stands at a position belongs to the request there.
Aligned ==
    /\ \A i \in 1 .. Len(queue) : queue[i].features = asked[queue[i].req]
    /\ Len(batch) = Len(ids)
    /\ \A i \in 1 .. Len(ids) : batch[i] = asked[ids[i]]
    /\ worker = "predicted" =>
           /\ Len(outputs) = Len(ids)
           /\ \A i \in 1 .. Len(ids) : outputs[i] = Prediction[asked[ids[i]]]

IdsDiffer ==
    /\ id \in [Callers -> Nat]
    /\ \A p \in Callers : pc[p] # "idle" => id[p] < next
    /\ \A p, q \in Callers : pc[p] # "idle" /\ pc[q] # "idle" /\ id[p] = id[q] => p = q

Own(r, a) == a # NoAnswer => r < next /\ a \in {Prediction[asked[r]], Default}

RightAnswers == \A r \in Requests : Own(r, returned[r]) /\ Own(r, results[r])

\* Who has an answer is neither pending nor still to come, and whoever is pending or
\* has an answer is waited for, or was given up.
Accounted ==
    \A r \in Requests :
        /\ Pending(r) \/ r >= next => results[r] = NoAnswer
        /\ Pending(r) \/ results[r] # NoAnswer => r \in Waiting \/ returned[r] = Default

IInv == /\ TypeOK /\ Fifo /\ Aligned /\ IdsDiffer /\ RightAnswers /\ Accounted
        /\ worker \notin {"batch", "predicted"} => ids = <<>>

-----------------------------------------------------------------------------

\* A function from 1 .. n is a sequence of length n.
LEMMA ListIsSeq ==
    ASSUME NEW S, NEW n \in Nat, NEW f \in [1 .. n -> S]
    PROVE  f \in Seq(S) /\ Len(f) = n /\ DOMAIN f = 1 .. n
<1>1. f \in Seq(S)
  BY SeqDef
<1>2. DOMAIN f = 1 .. Len(f) /\ Len(f) \in Nat /\ DOMAIN f = 1 .. n
  BY <1>1, LenProperties
<1>3. QED
  BY <1>1, <1>2

LEMMA InitInv == Init => IInv
<1> SUFFICES ASSUME Init PROVE IInv
  OBVIOUS
<1>1. next \in 0 .. MaxCalls /\ queue = <<>> /\ batch = <<>> /\ ids = <<>> /\ outputs = <<>>
  BY BatchingAssumption DEF Init
<1>2. TypeOK
  <2>1. /\ queue \in Seq(Entry) /\ batch \in Seq(Features) /\ ids \in Seq(Requests)
        /\ outputs \in Seq(Results) /\ Len(batch) = 0
    BY <1>1
  <2>2. Len(batch) <= BatchSize
    BY <2>1, BatchingAssumption
  <2>3. pc \in [Callers -> {"idle", "queued", "polling"}]
    BY DEF Init
  <2>4. \A p \in Callers : pc[p] = "idle"
    BY DEF Init
  <2>5. returned \in [Requests -> Answers \cup {NoAnswer}] /\ results = returned
    BY DEF Init
  <2>6. asked \in [0 .. next - 1 -> Features]
    BY DEF Init
  <2>7. QED
    BY <1>1, <2>1, <2>2, <2>3, <2>4, <2>5, <2>6 DEF Init, TypeOK
<1>3. \A r : ~Pending(r)
  BY <1>1 DEF Pending, Queued, Batched
<1>4. Fifo /\ Aligned
  BY <1>1, <1>3 DEF Init, Fifo, Aligned
<1>5. RightAnswers
  BY DEF Init, RightAnswers, Own
<1>6. QED
  BY <1>1, <1>2, <1>3, <1>4, <1>5 DEF Init, IInv, IdsDiffer, Accounted

\* What is queued or in the batch was asked already.
LEMMA PendingAsked ==
    ASSUME IInv
    PROVE  /\ next \in Nat
           /\ queue \in Seq(Entry) /\ Len(queue) \in Nat
           /\ ids \in Seq(Requests) /\ Len(ids) \in Nat
           /\ \A i \in 1 .. Len(queue) :
                  /\ queue[i] \in Entry /\ queue[i].req \in Requests
                  /\ queue[i].req \in Nat /\ queue[i].req < next
           /\ \A i \in 1 .. Len(ids) : ids[i] \in Requests /\ ids[i] \in Nat /\ ids[i] < next
<1> USE DEF IInv
<1>1. /\ queue \in Seq(Entry) /\ ids \in Seq(Requests) /\ next \in Nat
      /\ Requests \subseteq Nat
  BY BatchingAssumption DEF TypeOK
<1>2. /\ Len(queue) \in Nat /\ Len(ids) \in Nat
      /\ \A i \in 1 .. Len(queue) : queue[i] \in Entry
      /\ \A i \in 1 .. Len(ids) : ids[i] \in Requests
  BY <1>1, LenProperties, ElementOfSeq
<1>3. ASSUME NEW i \in 1 .. Len(queue)
      PROVE  queue[i].req \in Requests /\ queue[i].req < next
  <2>1. queue[i].req \in Requests
    BY <1>2 DEF Entry
  <2>2. Pending(queue[i].req)
    BY DEF Pending, Queued
  <2>3. QED
    BY <2>1, <2>2 DEF Fifo
<1>4. ASSUME NEW i \in 1 .. Len(ids) PROVE ids[i] < next
  <2>1. Pending(ids[i])
    BY DEF Pending, Batched
  <2>2. QED
    BY <1>2, <2>1 DEF Fifo
<1>5. QED
  BY <1>1, <1>2, <1>3, <1>4

\* A step that leaves queue, batch and results alone only has to mind who waits.
LEMMA SubmitInv == ASSUME IInv, NEW p \in Callers, NEW f \in Features, Submit(p, f) PROVE IInv'
<1> USE DEF IInv
<1> DEFINE entry == [req |-> next, features |-> f]
<1>1. /\ next \in Requests /\ next \in Nat /\ next' = next + 1 /\ next' \in 0 .. MaxCalls
      /\ queue \in Seq(Entry) /\ ids' = ids /\ batch' = batch /\ outputs' = outputs
      /\ worker' = worker /\ results' = results /\ returned' = returned
      /\ queue' = Append(queue, entry)
      /\ entry \in Entry /\ entry.req = next /\ entry.features = f
  BY BatchingAssumption DEF Submit, TypeOK, Entry
<1> HIDE DEF entry
<1>2. /\ queue' \in Seq(Entry) /\ Len(queue') = Len(queue) + 1 /\ Len(queue) \in Nat
      /\ \A i \in 1 .. Len(queue) : queue'[i] = queue[i]
      /\ queue'[Len(queue) + 1] = entry
  BY <1>1, AppendProperties, LenProperties
<1>3. /\ \A i \in 1 .. Len(ids) : ids[i] \in Requests /\ ids[i] \in Nat /\ ids[i] < next
      /\ \A i \in 1 .. Len(queue) : queue[i].req \in Requests /\ queue[i].req \in Nat
                                    /\ queue[i].req < next
      /\ Len(ids) \in Nat
  BY PendingAsked
<1>4. \A r \in Requests : Pending(r)' <=> Pending(r) \/ r = next
  BY <1>1, <1>2 DEF Pending, Queued, Batched
<1>5. /\ asked' \in [0 .. next' - 1 -> Features]
      /\ asked'[next] = f
      /\ \A r \in 0 .. next - 1 : asked'[r] = asked[r]
  <2>1. 0 .. next' - 1 = 0 .. next
    BY <1>1
  <2>2. asked' = [r \in 0 .. next |-> IF r = next THEN f ELSE asked[r]]
    BY DEF Submit
  <2>3. asked \in [0 .. next - 1 -> Features]
    BY DEF TypeOK
  <2>4. \A r \in 0 .. next : r = next \/ r \in 0 .. next - 1
    BY <1>1
  <2>5. \A r \in 0 .. next - 1 : r \in 0 .. next /\ r # next
    BY <1>1
  <2>6. asked' \in [0 .. next -> Features]
    BY <2>2, <2>3, <2>4
  <2>7. QED
    BY <1>1, <2>1, <2>2, <2>5, <2>6
<1>6. TypeOK'
  BY <1>1, <1>2, <1>5 DEF Submit, TypeOK, IdsDiffer
<1>7. Fifo'
  <2>1. \A r \in Requests : Pending(r)' => r < next'
    BY <1>1, <1>4, BatchingAssumption DEF Fifo
  <2>2. ASSUME NEW i \in 1 .. Len(queue'), NEW j \in 1 .. Len(queue'), i < j
        PROVE  queue'[i].req < queue'[j].req
    <3>1. i \in 1 .. Len(queue) /\ queue'[i] = queue[i]
      BY <1>2, <2>2
    <3>2. CASE j \in 1 .. Len(queue)
      <4>1. queue[i].req < queue[j].req
        BY <2>2, <3>1, <3>2 DEF Fifo
      <4>2. QED
        BY <1>2, <3>1, <3>2, <4>1
    <3>3. CASE j = Len(queue) + 1
      BY <1>1, <1>2, <1>3, <3>1, <3>3
    <3>4. QED
      BY <1>2, <3>2, <3>3
  <2>3. \A i \in 1 .. Len(ids'), j \in 1 .. Len(queue') : ids'[i] < queue'[j].req
    BY <1>1, <1>2, <1>3 DEF Fifo
  <2>4. QED
    BY <1>1, <2>1, <2>2, <2>3 DEF Fifo
<1>8. Aligned'
  <2>1. \A i \in 1 .. Len(queue') : queue'[i].features = asked'[queue'[i].req]
    <3>1. ASSUME NEW i \in 1 .. Len(queue)
          PROVE  queue[i].features = asked'[queue[i].req]
      <4>1. queue[i].req \in 0 .. next - 1
        BY <1>1, <1>3
      <4>2. QED
        BY <1>5, <4>1 DEF Aligned
    <3>2. QED
      BY <1>1, <1>2, <1>5, <3>1
  <2>2. ASSUME NEW i \in 1 .. Len(ids) PROVE asked'[ids[i]] = asked[ids[i]]
    <3>1. ids[i] \in 0 .. next - 1
      BY <1>1, <1>3
    <3>2. QED
      BY <1>5, <3>1
  <2>3. QED
    BY <1>1, <2>1, <2>2 DEF Aligned
<1>9. IdsDiffer'
  BY <1>1 DEF Submit, TypeOK, IdsDiffer
<1>10. RightAnswers'
  <2>1. ASSUME NEW r \in Requests, NEW a, Own(r, a) PROVE Own(r, a)'
    <3>1. CASE a = NoAnswer
      BY <3>1 DEF Own
    <3>2. CASE r < next
      <4>1. r \in 0 .. next - 1 /\ r < next'
        BY <1>1, <3>2
      <4>2. QED
        BY <1>5, <2>1, <4>1 DEF Own
    <3>3. QED
      BY <2>1, <3>1, <3>2 DEF Own
  <2>2. QED
    BY <1>1, <2>1 DEF RightAnswers
<1>11. \A r \in Requests : r \in Waiting \/ r = next => r \in Waiting'
  BY DEF Submit, TypeOK, IdsDiffer, Waiting
<1>12. Accounted'
  BY <1>1, <1>4, <1>11 DEF Submit, Accounted
<1>13. QED
  BY <1>1, <1>6, <1>7, <1>8, <1>9, <1>10, <1>12

\* A call that ends with answer a, for which its own request is not pending any more
\* or was given up.
LEMMA ReturnInv ==
    ASSUME IInv, NEW p \in Callers, pc[p] = "polling", NEW a, Return(p, a),
           a \in Answers, Own(id[p], a),
           \/ a = Default /\ results' = results
           \/ results[id[p]] # NoAnswer /\ results' = [results EXCEPT ![id[p]] = NoAnswer]
    PROVE  IInv'
<1> USE DEF IInv
<1>0. PICK s : s = id[p]
  OBVIOUS
<1>1. s \in Requests /\ a \in Answers
  BY <1>0 DEF TypeOK
<1>2. \A r \in Requests : Pending(r)' <=> Pending(r)
  BY DEF Return, Pending, Queued, Batched
<1>3. /\ returned' = [returned EXCEPT ![s] = a]
      /\ results' \in [Requests -> Answers \cup {NoAnswer}]
      /\ \A r \in Requests : results'[r] = results[r] \/ results'[r] = NoAnswer
  BY <1>0, <1>1 DEF Return, TypeOK
<1>4. TypeOK'
  BY <1>1, <1>3 DEF Return, TypeOK
<1>5. Fifo' /\ Aligned'
  BY <1>2 DEF Return, Fifo, Aligned
<1>6. IdsDiffer'
  BY DEF Return, IdsDiffer, TypeOK
<1>7. RightAnswers'
  <2>1. next' = next /\ asked' = asked
    BY DEF Return
  <2>2. ASSUME NEW r \in Requests PROVE Own(r, returned'[r]) /\ Own(r, results'[r])
    <3>1. returned'[r] = IF r = s THEN a ELSE returned[r]
      BY <1>3 DEF TypeOK
    <3>2. Own(r, results'[r])
      BY <1>3 DEF RightAnswers, Own
    <3>3. QED
      BY <1>0, <3>1, <3>2 DEF RightAnswers
  <2>3. QED
    BY <2>1, <2>2 DEF RightAnswers, Own
<1>8. \A r \in Requests : r \in Waiting /\ r # s => r \in Waiting'
  BY <1>0 DEF Return, TypeOK, IdsDiffer, Waiting
<1>9. Accounted'
  <2>1. ASSUME NEW r \in Requests, Pending(r)' \/ r >= next' PROVE results'[r] = NoAnswer
    BY <1>2, <1>3, <2>1 DEF Return, Accounted
  <2>2. ASSUME NEW r \in Requests, r # s, Pending(r)' \/ results'[r] # NoAnswer
        PROVE  r \in Waiting' \/ returned'[r] = Default
    <3>1. returned'[r] = returned[r]
      BY <1>3, <2>2 DEF TypeOK
    <3>2. QED
      BY <1>2, <1>3, <1>8, <2>2, <3>1 DEF Accounted
  <2>3. ASSUME Pending(s)' \/ results'[s] # NoAnswer PROVE returned'[s] = Default
    <3>1. returned'[s] = a
      BY <1>1, <1>3 DEF TypeOK
    <3>2. CASE results[s] # NoAnswer /\ results' = [results EXCEPT ![s] = NoAnswer]
      <4>1. ~Pending(s)
        BY <1>1, <3>2 DEF Accounted
      <4>2. results'[s] = NoAnswer
        BY <1>1, <3>2 DEF TypeOK
      <4>3. ~Pending(s)'
        BY <1>1, <1>2, <4>1
      <4>4. QED
        BY <2>3, <4>2, <4>3
    <3>3. QED
      BY <1>0, <3>1, <3>2
  <2>4. ASSUME NEW r \in Requests, Pending(r)' \/ results'[r] # NoAnswer
        PROVE  r \in Waiting' \/ returned'[r] = Default
    <3>1. CASE r = s
      BY <2>3, <2>4, <3>1
    <3>2. CASE r # s
      BY <2>2, <2>4, <3>2
    <3>3. QED
      BY <3>1, <3>2
  <2>5. QED
    BY <2>1, <2>4 DEF Accounted
<1>10. QED
  BY <1>4, <1>5, <1>6, <1>7, <1>9 DEF Return

\* Take moves the head of the queue into the empty lists, a pair to each position.
LEMMA TakeInv == ASSUME IInv, Take PROVE IInv'
<1> USE DEF IInv
<1> DEFINE L == Len(queue)
           n == IF L < BatchSize THEN L ELSE BatchSize
<1>1. /\ L \in Nat /\ n \in 0 .. L /\ n \in Nat /\ n <= BatchSize /\ ids = <<>>
      /\ queue \in Seq(Entry)
      /\ \A i \in 1 .. L : /\ queue[i] \in Entry /\ queue[i].req \in Requests
                           /\ queue[i].req \in Nat
  BY BatchingAssumption, PendingAsked DEF Take, TakeFirst, TypeOK
<1>2. /\ batch' = [i \in 1 .. n |-> queue[i].features]
      /\ ids' = [i \in 1 .. n |-> queue[i].req]
      /\ queue' = SubSeq(queue, n + 1, L)
      /\ worker' = (IF n = 0 THEN "loop" ELSE "batch")
      /\ UNCHANGED <<callerVars, results, next, event, running, outputs>>
  BY DEF Take, TakeFirst
<1> HIDE DEF n, L
<1>3. /\ ids' \in Seq(Requests) /\ Len(ids') = n
      /\ \A i \in 1 .. n : ids'[i] = queue[i].req
  <2>1. ids' \in [1 .. n -> Requests]
    BY <1>1, <1>2
  <2>2. QED
    BY <1>1, <1>2, <2>1, ListIsSeq
<1>4. /\ batch' \in Seq(Features) /\ Len(batch') = n
      /\ \A i \in 1 .. n : batch'[i] = queue[i].features
  <2>1. \A i \in 1 .. n : queue[i] \in Entry
    BY <1>1
  <2>2. batch' \in [1 .. n -> Features]
    BY <1>2, <2>1 DEF Entry
  <2>3. QED
    BY <1>1, <1>2, <2>2, ListIsSeq
<1>5. /\ queue' \in Seq(Entry) /\ Len(queue') = L - n
      /\ \A i \in 1 .. L - n : queue'[i] = queue[n + i]
  <2>1. \A i \in n + 1 .. L : queue[i] \in Entry
    BY <1>1
  <2>2. n + 1 \in Int /\ L \in Int /\ L - (n + 1) + 1 = L - n
    BY <1>1
  <2>3. /\ SubSeq(queue, n + 1, L) \in Seq(Entry)
        /\ Len(SubSeq(queue, n + 1, L)) = IF n + 1 <= L THEN L - (n + 1) + 1 ELSE 0
        /\ \A i \in 1 .. L - (n + 1) + 1 :
               SubSeq(queue, n + 1, L)[i] = queue[n + 1 + i - 1]
    BY <2>1, <2>2, SubSeqProperties
  <2>4. \A i \in 1 .. L - n : n + 1 + i - 1 = n + i
    BY <1>1
  <2>5. QED
    BY <1>1, <1>2, <2>2, <2>3, <2>4
<1>6. TypeOK'
  BY <1>1, <1>2, <1>3, <1>4, <1>5 DEF TypeOK
<1>7. \A r \in Requests : Pending(r)' => Pending(r)
  <2>1. ASSUME NEW r \in Requests, Queued(r)' PROVE Pending(r)
    <3>1. PICK i \in 1 .. L - n : queue'[i].req = r
      BY <1>5, <2>1 DEF Queued
    <3>2. n + i \in 1 .. L /\ queue[n + i].req = r
      BY <1>1, <1>5, <3>1
    <3>3. QED
      BY <3>2 DEF Pending, Queued, L
  <2>2. ASSUME NEW r \in Requests, Batched(r)' PROVE Pending(r)
    <3>1. PICK i \in 1 .. n : ids'[i] = r
      BY <1>3, <2>2 DEF Batched
    <3>2. i \in 1 .. L /\ queue[i].req = r
      BY <1>1, <1>3, <3>1
    <3>3. QED
      BY <3>2 DEF Pending, Queued, L
  <2>3. QED
    BY <2>1, <2>2 DEF Pending
<1>8. Fifo'
  <2>1. \A r \in Requests : Pending(r)' => r < next'
    BY <1>2, <1>7 DEF Fifo
  <2>2. \A i, j \in 1 .. L : i < j => queue[i].req < queue[j].req
    BY DEF Fifo, L
  <2>3. ASSUME NEW i \in 1 .. L - n, NEW j \in 1 .. L - n, i < j
        PROVE  queue'[i].req < queue'[j].req
    <3>1. n + i \in 1 .. L /\ n + j \in 1 .. L /\ n + i < n + j
      BY <1>1, <2>3
    <3>2. QED
      BY <1>5, <2>2, <3>1
  <2>4. \A i, j \in 1 .. n : i < j => ids'[i] < ids'[j]
    BY <1>1, <1>3, <2>2
  <2>5. ASSUME NEW i \in 1 .. n, NEW j \in 1 .. L - n PROVE ids'[i] < queue'[j].req
    <3>1. i \in 1 .. L /\ n + j \in 1 .. L /\ i < n + j
      BY <1>1
    <3>2. queue[i].req < queue[n + j].req
      BY <2>2, <3>1
    <3>3. QED
      BY <1>3, <1>5, <3>2
  <2>6. QED
    BY <1>3, <1>5, <2>1, <2>3, <2>4, <2>5 DEF Fifo
<1>9. Aligned'
  <2>1. \A i \in 1 .. L : queue[i].features = asked[queue[i].req]
    BY DEF Aligned, L
  <2>2. \A i \in 1 .. n : batch'[i] = asked[ids'[i]]
    BY <1>1, <1>3, <1>4, <2>1
  <2>3. \A i \in 1 .. L - n : n + i \in 1 .. L
    BY <1>1
  <2>4. \A i \in 1 .. L - n : queue'[i].features = asked[queue'[i].req]
    BY <1>5, <2>1, <2>3
  <2>5. QED
    BY <1>2, <1>3, <1>4, <1>5, <2>2, <2>4 DEF Aligned
<1>10. IdsDiffer' /\ RightAnswers' /\ Waiting' = Waiting
  BY <1>2 DEF IdsDiffer, RightAnswers, Own, Waiting
<1>11. Accounted'
  BY <1>2, <1>7, <1>10 DEF Accounted
<1>12. worker' \notin {"batch", "predicted"} => ids' = <<>>
  BY <1>1, <1>2, <1>3, EmptySeq
<1>13. QED
  BY <1>6, <1>8, <1>9, <1>10, <1>11, <1>12

\* predict_batch keeps the order of its inputs.
LEMMA PredictInv == ASSUME IInv, Predict PROVE IInv'
<1> USE DEF IInv
<1>1. /\ batch \in Seq(Features) /\ Len(batch) \in Nat /\ Len(batch) = Len(ids)
      /\ \A i \in 1 .. Len(batch) : batch[i] \in Features /\ batch[i] = asked[ids[i]]
  BY LenProperties, ElementOfSeq DEF TypeOK, Aligned
<1>2. /\ outputs' = [i \in 1 .. Len(batch) |-> Prediction[batch[i]]]
      /\ worker = "batch" /\ worker' = "predicted"
      /\ UNCHANGED <<callerVars, sharedVars, event, running, batch, ids>>
  BY DEF Predict, PredictBatch
<1>3. outputs' \in Seq(Results) /\ Len(outputs') = Len(batch)
  <2>1. outputs' \in [1 .. Len(batch) -> Results]
    BY <1>1, <1>2 DEF Results
  <2>2. QED
    BY <1>1, <2>1, ListIsSeq
<1>4. TypeOK'
  BY <1>2, <1>3 DEF TypeOK
<1>5. Aligned'
  BY <1>1, <1>2, <1>3 DEF Aligned
<1>6. \A r \in Requests : Pending(r)' <=> Pending(r)
  BY <1>2 DEF Pending, Queued, Batched
<1>7. Fifo' /\ IdsDiffer' /\ RightAnswers' /\ Waiting' = Waiting
  BY <1>2, <1>6 DEF Fifo, IdsDiffer, RightAnswers, Own, Waiting
<1>8. Accounted'
  BY <1>2, <1>6, <1>7 DEF Accounted
<1>9. QED
  BY <1>2, <1>4, <1>5, <1>7, <1>8

\* The batch is answered, each of its requests by what stands at its position, and gone.
LEMMA ZipInv ==
    ASSUME IInv, NEW answers \in Seq(Answers), Zip(answers), Len(answers) = Len(ids),
           \A i \in 1 .. Len(ids) : answers[i] \in {Prediction[asked[ids[i]]], Default}
    PROVE  IInv'
<1> USE DEF IInv
<1>1. /\ ids' = <<>> /\ Len(ids') = 0 /\ batch' = <<>> /\ Len(batch') = 0
      /\ outputs' = <<>> /\ queue' = queue /\ next' = next /\ asked' = asked
      /\ returned' = returned /\ worker' = "loop"
  BY DEF Zip
<1>2. /\ DOMAIN ids = 1 .. Len(ids) /\ DOMAIN answers = 1 .. Len(ids)
      /\ \A i \in 1 .. Len(ids) : answers[i] \in Answers
  BY PendingAsked, LenProperties, ElementOfSeq
<1>3. ASSUME NEW r \in Requests
      PROVE  /\ Batched(r) => results'[r] \in Answers /\ Own(r, results'[r])
             /\ ~Batched(r) => results'[r] = results[r]
  <2>1. results'[r] = IF \E i \in 1 .. Len(ids) : ids[i] = r
                      THEN answers[CHOOSE i \in 1 .. Len(ids) : ids[i] = r]
                      ELSE results[r]
    BY <1>2 DEF Zip
  <2>2. ASSUME Batched(r) PROVE results'[r] \in Answers /\ Own(r, results'[r])
    <3>1. PICK i \in 1 .. Len(ids) : ids[i] = r /\ results'[r] = answers[i]
      BY <2>1, <2>2 DEF Batched
    <3>2. r < next
      BY <3>1, PendingAsked
    <3>3. QED
      BY <1>2, <3>1, <3>2 DEF Own
  <2>3. QED
    BY <2>1, <2>2 DEF Batched
<1>4. TypeOK'
  <2>1. results' \in [Requests -> Answers \cup {NoAnswer}]
    <3>1. \A r \in Requests : results'[r] \in Answers \cup {NoAnswer}
      BY <1>3 DEF TypeOK
    <3>2. results' = [r \in Requests |-> results'[r]]
      BY DEF Zip
    <3>3. QED
      BY <3>1, <3>2
  <2>2. Len(batch') <= BatchSize
    BY <1>1, BatchingAssumption
  <2>3. batch' \in Seq(Features) /\ ids' \in Seq(Requests) /\ outputs' \in Seq(Results)
    BY <1>1
  <2>4. QED
    BY <1>1, <2>1, <2>2, <2>3 DEF Zip, TypeOK
<1>5. \A r \in Requests : Pending(r)' <=> Queued(r)
  BY <1>1 DEF Pending, Queued, Batched
<1>6. Fifo' /\ Aligned'
  BY <1>1, <1>5 DEF Fifo, Aligned, Pending
<1>7. IdsDiffer' /\ Waiting' = Waiting
  BY DEF Zip, IdsDiffer, Waiting
<1>8. RightAnswers'
  BY <1>1, <1>3 DEF RightAnswers, Own
<1>9. ASSUME NEW r \in Requests, Queued(r) PROVE ~Batched(r)
  <2>1. PICK j \in 1 .. Len(queue) : queue[j].req = r
    BY <1>9 DEF Queued
  <2>2. ASSUME NEW i \in 1 .. Len(ids), ids[i] = r PROVE FALSE
    <3>1. r < r
      BY <2>1, <2>2 DEF Fifo
    <3>2. r \in Int
      BY BatchingAssumption
    <3>3. QED
      BY <3>1, <3>2
  <2>3. QED
    BY <2>2 DEF Batched
<1>10. Accounted'
  <2>1. ASSUME NEW r \in Requests, Queued(r) \/ r >= next PROVE results'[r] = NoAnswer
    <3>1. ~Batched(r)
      <4>1. r \in Int /\ next \in Int
        BY BatchingAssumption DEF TypeOK
      <4>2. QED
        BY <1>9, <2>1, <4>1 DEF Fifo, Pending
    <3>2. QED
      BY <1>3, <2>1, <3>1 DEF Accounted, Pending
  <2>2. ASSUME NEW r \in Requests, Queued(r) \/ results'[r] # NoAnswer
        PROVE  r \in Waiting \/ returned[r] = Default
    BY <1>3, <2>2 DEF Accounted, Pending
  <2>3. QED
    BY <1>1, <1>5, <1>7, <2>1, <2>2 DEF Accounted
<1>11. QED
  BY <1>1, <1>4, <1>6, <1>7, <1>8, <1>10

LEMMA StepInv == IInv /\ [Next]_vars => IInv'
<1> SUFFICES ASSUME IInv, [Next]_vars PROVE IInv'
  OBVIOUS
<1> DEFINE Kept == UNCHANGED <<id, asked, returned, queue, results, next, batch, ids, outputs>>
<1>0. ASSUME Kept, pc' \in [Callers -> {"idle", "queued", "polling"}],
             \A p \in Callers : pc'[p] = "idle" <=> pc[p] = "idle",
             event' \in BOOLEAN, running' \in BOOLEAN,
             worker' \in {"loop", "woken", "batch", "predicted", "stopped"},
             worker' = worker \/ ids = <<>>, worker' = "predicted" => worker = "predicted"
      PROVE  IInv'
  <2>1. Waiting' = Waiting
    BY <1>0 DEF Waiting
  <2>2. TypeOK' /\ IdsDiffer' /\ RightAnswers' /\ Aligned'
    BY <1>0 DEF IInv, TypeOK, IdsDiffer, RightAnswers, Own, Aligned
  <2>3. \A r \in Requests : Pending(r)' <=> Pending(r)
    BY <1>0 DEF Pending, Queued, Batched
  <2>4. Fifo' /\ Accounted'
    BY <1>0, <2>1, <2>3 DEF IInv, Fifo, Accounted
  <2>5. QED
    BY <1>0, <2>2, <2>4 DEF IInv
<1>1. ASSUME NEW p \in Callers, Caller(p) PROVE IInv'
  <2>1. CASE \E f \in Features : Submit(p, f)
    BY <2>1, SubmitInv
  <2>2. CASE Signal(p)
    BY <1>0, <2>2 DEF Signal, IInv, TypeOK
  <2>3. CASE Collect(p)
    <3>1. id[p] \in Requests
      BY <2>3 DEF Collect, IInv, TypeOK
    <3>2. results[id[p]] \in Answers /\ Own(id[p], results[id[p]])
      BY <2>3, <3>1 DEF Collect, IInv, TypeOK, RightAnswers
    <3>3. QED
      BY <2>3, <3>2, ReturnInv DEF Collect
  <2>4. CASE TimeOut(p)
    <3>1. Default \in Answers /\ Own(id[p], Default)
      BY <2>4 DEF TimeOut, IInv, IdsDiffer, Own
    <3>2. QED
      BY <2>4, <3>1, ReturnInv DEF TimeOut
  <2>5. QED
    BY <1>1, <2>1, <2>2, <2>3, <2>4 DEF Caller
<1>2. CASE Shutdown
  BY <1>0, <1>2 DEF Shutdown, IInv, TypeOK
<1>3. CASE Worker
  <2>1. CASE Wake
    BY <1>0, <2>1 DEF Wake, IInv, TypeOK
  <2>2. CASE Stop
    BY <1>0, <2>2 DEF Stop, IInv, TypeOK
  <2>3. CASE Take
    BY <2>3, TakeInv
  <2>4. CASE Predict
    BY <2>4, PredictInv
  <2>5. CASE Store
    <3>1. /\ outputs \in Seq(Answers) /\ Zip(outputs) /\ Len(outputs) = Len(ids)
          /\ \A i \in 1 .. Len(ids) : outputs[i] \in {Prediction[asked[ids[i]]], Default}
      BY <2>5, SeqMonotonic DEF Store, IInv, TypeOK, Aligned
    <3>2. QED
      BY <3>1, ZipInv
  <2>6. CASE Fail
    <3> DEFINE answers == [i \in DOMAIN ids |-> Default]
    <3>1. DOMAIN ids = 1 .. Len(ids) /\ Len(ids) \in Nat
      BY PendingAsked, LenProperties
    <3>2. answers \in [1 .. Len(ids) -> Answers]
      BY <3>1
    <3>3. answers \in Seq(Answers) /\ Len(answers) = Len(ids)
      BY <3>1, <3>2, ListIsSeq
    <3>4. \A i \in 1 .. Len(ids) : answers[i] \in {Prediction[asked[ids[i]]], Default}
      BY <3>1
    <3>5. Zip(answers)
      BY <2>6 DEF Fail
    <3> HIDE DEF answers
    <3>6. QED
      BY <3>3, <3>4, <3>5, ZipInv
  <2>7. QED
    BY <1>3, <2>1, <2>2, <2>3, <2>4, <2>5, <2>6 DEF Worker
<1>4. CASE UNCHANGED vars
  BY <1>0, <1>4 DEF IInv, TypeOK
<1>5. QED
  BY <1>1, <1>2, <1>3, <1>4 DEF Next

LEMMA Invariance == Spec => []IInv
  BY InitInv, StepInv, PTL DEF Spec

-----------------------------------------------------------------------------

\* The queue behind the batch holds nothing twice.
LEMMA PendingOnce == IInv => InOnePlace
<1> SUFFICES ASSUME IInv PROVE InOnePlace
  OBVIOUS
<1> USE DEF IInv
<1> DEFINE m == Len(queue)
           k == Len(ids)
           reqs == [i \in 1 .. m |-> queue[i].req]
           both == reqs \o ids
<1>1. /\ ids \in Seq(Requests) /\ m \in Nat /\ k \in Nat
      /\ \A i \in 1 .. m : queue[i].req \in Requests /\ queue[i].req \in Nat
      /\ \A i \in 1 .. k : ids[i] \in Requests /\ ids[i] \in Nat
  BY PendingAsked
<1>2. reqs \in Seq(Requests) /\ Len(reqs) = m
  <2>1. reqs \in [1 .. m -> Requests]
    BY <1>1
  <2>2. QED
    BY <1>1, <2>1, ListIsSeq
<1>3. \A i \in 1 .. m : reqs[i] = queue[i].req
  OBVIOUS
<1> HIDE DEF reqs
<1>4. /\ both \in Seq(Requests) /\ Len(both) = m + k
      /\ \A i \in 1 .. m + k : both[i] = IF i <= m THEN reqs[i] ELSE ids[i - m]
  <2> HIDE DEF Requests
  <2>1. /\ reqs \o ids \in Seq(Requests) /\ Len(reqs \o ids) = Len(reqs) + Len(ids)
        /\ \A i \in 1 .. Len(reqs) + Len(ids) :
               (reqs \o ids)[i] = IF i <= Len(reqs) THEN reqs[i] ELSE ids[i - Len(reqs)]
    BY <1>1, <1>2, ConcatProperties
  <2>2. QED
    BY <1>2, <2>1
<1>5. DOMAIN both = 1 .. m + k
  BY <1>4, LenProperties
<1>6. /\ \A i, j \in 1 .. m : i < j => reqs[i] < reqs[j]
      /\ \A i, j \in 1 .. k : i < j => ids[i] < ids[j]
      /\ \A i \in 1 .. k, j \in 1 .. m : ids[i] < reqs[j]
  BY <1>3 DEF Fifo
<1>7. Range(both) = {both[i] : i \in 1 .. m + k}
  BY <1>4, RangeEquality
<1>8. InOnePlace <=>
        /\ IsInjective(both)
        /\ \A r \in Range(both) : results[r] = NoAnswer
        /\ \A r \in Requests : r \in Range(both) \/ results[r] # NoAnswer
                                => r \in Waiting \/ returned[r] = Default
  BY DEF InOnePlace, reqs
<1> HIDE DEF both, m, k
<1>9. \A i, j \in 1 .. m + k : i < j => both[i] # both[j]
  <2> SUFFICES ASSUME NEW i \in 1 .. m + k, NEW j \in 1 .. m + k, i < j
               PROVE  both[i] # both[j]
    OBVIOUS
  <2>0. \A l \in 1 .. m : reqs[l] \in Nat
    BY <1>1, <1>3
  <2>1. CASE j <= m
    BY <1>1, <1>4, <1>6, <2>0, <2>1
  <2>2. CASE i > m
    <3>1. i - m \in 1 .. k /\ j - m \in 1 .. k /\ i - m < j - m
      BY <1>1, <2>2
    <3>2. ids[i - m] < ids[j - m]
      BY <1>6, <3>1
    <3>3. QED
      BY <1>1, <1>4, <2>2, <3>1, <3>2
  <2>3. CASE i <= m /\ j > m
    <3>1. j - m \in 1 .. k /\ i \in 1 .. m
      BY <1>1, <2>3
    <3>2. ids[j - m] < reqs[i]
      BY <1>6, <3>1
    <3>3. QED
      BY <1>1, <1>4, <2>0, <2>3, <3>1, <3>2
  <2>4. QED
    BY <1>1, <2>1, <2>2, <2>3
<1>10. IsInjective(both)
  BY <1>1, <1>5, <1>9 DEF IsInjective
<1>11. ASSUME NEW r \in Range(both) PROVE r \in Requests /\ Pending(r)
  <2>1. PICK i \in 1 .. m + k : r = both[i]
    BY <1>7
  <2>2. CASE i <= m
    <3>1. i \in 1 .. m /\ r = queue[i].req
      BY <1>1, <1>3, <1>4, <2>1, <2>2
    <3>2. QED
      BY <1>1, <3>1 DEF Pending, Queued, m
  <2>3. CASE i > m
    <3>1. i - m \in 1 .. k /\ r = ids[i - m]
      BY <1>1, <1>4, <2>1, <2>3
    <3>2. QED
      BY <1>1, <3>1 DEF Pending, Batched, k
  <2>4. QED
    BY <1>1, <2>2, <2>3
<1>12. QED
  BY <1>8, <1>10, <1>11 DEF Accounted

\* Every variable keeps its type; a batch is never longer than batch_size.
THEOREM TypeCorrect == Spec => []TypeOK
<1>1. IInv => TypeOK
  BY DEF IInv
<1>2. QED
  BY <1>1, Invariance, PTL

\* A call returns the prediction for the features it asked about, or the default: the
\* features, the ids and the outputs of a batch stay aligned from the queue to the zip.
THEOREM AnswersAreOwn == Spec => []OwnAnswer
<1>1. IInv => OwnAnswer
  BY DEF IInv, RightAnswers, Own, OwnAnswer
<1>2. QED
  BY <1>1, Invariance, PTL

\* A request is in one place, and only as long as it is waited for or given up.
THEOREM RequestsInOnePlace == Spec => []InOnePlace
  BY PendingOnce, Invariance, PTL

-----------------------------------------------------------------------------
(* ModelPredictor: whoever loads holds the lock.                             *)

SharedInv ==
    /\ MP!TypeOK /\ LoadedOnce
    /\ \A t \in Threads : mpc[t] \in {"loading", "warming"} => mlock = t

LEMMA SharedInit == MP!Init => SharedInv
<1> SUFFICES ASSUME MP!Init PROVE SharedInv
  OBVIOUS
<1>1. 0 \in Nat /\ 0 \in 0 .. MaxBatches
  BY PredictorAssumption
<1>2. /\ size = [t \in Threads |-> 0] /\ seen = [t \in Threads |-> 0]
      /\ begun = [t \in Threads |-> 0]
  BY DEF MP!Init
<1>3. MP!TypeOK
  BY <1>1, <1>2 DEF MP!Init, MP!TypeOK
<1>4. QED
  BY <1>3 DEF MP!Init, SharedInv, LoadedOnce, MP!LoadedOnce

LEMMA SharedStep == SharedInv /\ [MP!Next]_mpVars => SharedInv'
<1> SUFFICES ASSUME SharedInv, [MP!Next]_mpVars PROVE SharedInv'
  OBVIOUS
<1> USE PredictorAssumption
    DEF SharedInv, LoadedOnce, MP!LoadedOnce, MP!TypeOK, MP!Goto
<1>1. ASSUME NEW t \in Threads, NEW n \in Batches, MP!Begin(t, n) PROVE SharedInv'
  BY <1>1 DEF MP!Begin
<1>2. ASSUME NEW t \in Threads, MP!Acquire(t) PROVE SharedInv'
  BY <1>2 DEF MP!Acquire
<1>3. ASSUME NEW t \in Threads, MP!LoadWeights(t) PROVE SharedInv'
  BY <1>3 DEF MP!LoadWeights
<1>4. ASSUME NEW t \in Threads, MP!WarmUp(t) \/ MP!LoadNothing(t) PROVE SharedInv'
  BY <1>4 DEF MP!WarmUp, MP!LoadNothing
<1>5. ASSUME NEW t \in Threads, MP!LoadFails(t) PROVE SharedInv'
  BY <1>5 DEF MP!LoadFails
<1>6. ASSUME NEW t \in Threads, MP!Infer(t) \/ MP!Refuse(t) PROVE SharedInv'
  BY <1>6 DEF MP!Infer, MP!Refuse
<1>7. ASSUME NEW t \in Threads, MP!ReadCount(t) \/ MP!WriteCount(t) PROVE SharedInv'
  BY <1>7 DEF MP!ReadCount, MP!WriteCount
<1>8. CASE UNCHANGED mpVars
  BY <1>8 DEF mpVars
<1>9. QED
  BY <1>1, <1>2, <1>3, <1>4, <1>5, <1>6, <1>7, <1>8 DEF MP!Next, MP!Step

-----------------------------------------------------------------------------
(* ModelCache: what is removed for a new version is not the current one.     *)

CacheInv == MC!TypeOK /\ CurrentIsCached

LEMMA LeastExists ==
    ASSUME NEW S \in SUBSET Nat, S # {}
    PROVE  \E i \in S : \A k \in S : i <= k
<1>1. IsWellFoundedOn(OpToRel(<, Nat), Nat)
  BY NatLessThanWellFounded
<1>2. PICK i \in S : \A k \in S : ~ (<<k, i>> \in OpToRel(<, Nat))
  BY <1>1, WFMin
<1>3. ASSUME NEW k \in S PROVE i <= k
  <2>1. i \in Nat /\ k \in Nat
    OBVIOUS
  <2>2. k < i => <<k, i>> \in OpToRel(<, Nat)
    BY <2>1 DEF OpToRel
  <2>3. ~(k < i)
    BY <1>2, <2>2
  <2>4. QED
    BY <2>1, <2>3
<1>4. QED
  BY <1>3

LEMMA CachedElements ==
    ASSUME NEW s \in Seq(Versions), NEW v
    PROVE  v \in MC!Range(s) <=> \E i \in 1 .. Len(s) : s[i] = v
<1>1. DOMAIN s = 1 .. Len(s)
  BY LenProperties
<1>2. QED
  BY <1>1 DEF MC!Range

\* What stays of the cache: versions, the current one among them if it was.
LEMMA EvictedKeepsCurrent ==
    ASSUME models \in Seq(Versions)
    PROVE  /\ MC!Evicted \in Seq(Versions)
           /\ current \in MC!Range(models) => current \in MC!Range(MC!Evicted)
<1> DEFINE other == {i \in DOMAIN models : models[i] # current}
           L == Len(models)
           x == CHOOSE i \in other : \A k \in other : i <= k
<1>1. L \in Nat /\ DOMAIN models = 1 .. L
  BY LenProperties
<1>2. CASE Len(models) < MaxModels \/ other = {}
  BY <1>2 DEF MC!Evicted
<1>3. CASE ~(Len(models) < MaxModels \/ other = {})
  <2>1. x \in other
    <3>1. other \in SUBSET Nat
      BY <1>1
    <3>2. \E i \in other : \A k \in other : i <= k
      BY <1>3, <3>1, LeastExists
    <3> HIDE DEF other
    <3>3. QED
      BY <3>2
  <2>2. x \in 1 .. L /\ models[x] # current
    BY <1>1, <2>1
  <2>3. MC!Evicted = SubSeq(models, 1, x - 1) \o SubSeq(models, x + 1, L)
    BY <1>3 DEF MC!Evicted, MC!RemoveAt
  <2> HIDE DEF x, other
  <2>4. \A i \in 1 .. L : models[i] \in Versions
    BY ElementOfSeq
  <2>5. PICK a : a = SubSeq(models, 1, x - 1)
    OBVIOUS
  <2>6. /\ a \in Seq(Versions) /\ Len(a) = x - 1
        /\ \A i \in 1 .. x - 1 : a[i] = models[i]
    <3>1. \A i \in 1 .. x - 1 : models[i] \in Versions
      BY <1>1, <2>2, <2>4
    <3>2. QED
      BY <1>1, <2>2, <2>5, <3>1, SubSeqProperties, Z3
  <2>7. PICK b : b = SubSeq(models, x + 1, L)
    OBVIOUS
  <2>8. /\ b \in Seq(Versions) /\ Len(b) = L - x
        /\ \A i \in 1 .. L - x : b[i] = models[x + i]
    <3>1. \A i \in x + 1 .. L : models[i] \in Versions
      BY <1>1, <2>2, <2>4
    <3>2. QED
      BY <1>1, <2>2, <2>7, <3>1, SubSeqProperties, Z3
  <2>9. MC!Evicted \in Seq(Versions)
    BY <2>3, <2>5, <2>6, <2>7, <2>8, ConcatProperties
  <2>10. /\ Len(MC!Evicted) = (x - 1) + (L - x)
         /\ \A i \in 1 .. (x - 1) + (L - x) :
                MC!Evicted[i] = IF i <= x - 1 THEN a[i] ELSE b[i - (x - 1)]
    <3>1. /\ Len(a \o b) = Len(a) + Len(b)
          /\ \A i \in 1 .. Len(a) + Len(b) :
                 (a \o b)[i] = IF i <= Len(a) THEN a[i] ELSE b[i - Len(a)]
      BY <2>6, <2>8, ConcatProperties
    <3>2. MC!Evicted = a \o b
      BY <2>3, <2>5, <2>7
    <3>3. QED
      BY <2>6, <2>8, <3>1, <3>2
  <2>11. ASSUME NEW i \in 1 .. L, models[i] = current
         PROVE  \E j \in 1 .. Len(MC!Evicted) : MC!Evicted[j] = current
    <3>1. i # x
      BY <2>2, <2>11
    <3>2. CASE i < x
      <4>1. i \in 1 .. (x - 1) + (L - x) /\ i \in 1 .. x - 1
        BY <1>1, <2>2, <3>2
      <4>2. MC!Evicted[i] = current
        BY <2>6, <2>10, <2>11, <4>1
      <4>3. QED
        BY <2>10, <4>1, <4>2
    <3>3. CASE i > x
      <4>1. /\ i - 1 \in 1 .. (x - 1) + (L - x) /\ ~(i - 1 <= x - 1)
            /\ i - x \in 1 .. L - x /\ (i - 1) - (x - 1) = i - x /\ x + (i - x) = i
        BY <1>1, <2>2, <3>3
      <4>2. MC!Evicted[i - 1] = current
        BY <2>8, <2>10, <2>11, <4>1
      <4>3. QED
        BY <2>10, <4>1, <4>2
    <3>4. QED
      BY <1>1, <2>2, <3>1, <3>2, <3>3
  <2>12. QED
    BY <2>9, <2>11, CachedElements
<1>4. QED
  BY <1>2, <1>3

LEMMA CacheInit == MC!Init => CacheInv
<1> SUFFICES ASSUME MC!Init PROVE CacheInv
  OBVIOUS
<1>1. (CHOOSE v \in Versions : TRUE) \in Versions
  BY PredictorAssumption
<1>2. 0 \in 0 .. CacheCalls /\ <<>> \in Seq(Versions)
  BY PredictorAssumption
<1>3. QED
  BY <1>1, <1>2 DEF MC!Init, CacheInv, MC!TypeOK, CurrentIsCached, MC!CurrentIsCached

LEMMA CacheStep == CacheInv /\ [MC!Next]_mcVars => CacheInv'
<1> SUFFICES ASSUME CacheInv, [MC!Next]_mcVars PROVE CacheInv'
  OBVIOUS
<1> USE PredictorAssumption
    DEF CacheInv, MC!TypeOK, CurrentIsCached, MC!CurrentIsCached, MC!Cached, MC!Release
<1>1. ASSUME NEW t \in Threads, NEW m \in {"load", "set", "get"}, NEW v \in Versions,
             MC!Call(t, m, v)
      PROVE  CacheInv'
  BY <1>1 DEF MC!Call
<1>2. ASSUME NEW t \in Threads, MC!Acquire(t) PROVE CacheInv'
  BY <1>2 DEF MC!Acquire
<1>3. ASSUME NEW t \in Threads, MC!LoadModel(t) PROVE CacheInv'
  <2>1. PICK v \in Versions : v = version[t]
    BY <1>3
  <2>2. CASE v \in MC!Range(models)
    BY <1>3, <2>1, <2>2 DEF MC!LoadModel
  <2>3. CASE v \notin MC!Range(models)
    <3>1. PICK s : s = MC!Evicted
      OBVIOUS
    <3>2. s \in Seq(Versions) /\ (current \in MC!Range(models) => current \in MC!Range(s))
      BY <3>1, EvictedKeepsCurrent
    <3>3. models' = Append(s, v) /\ current' = current
      BY <1>3, <2>1, <2>3, <3>1 DEF MC!LoadModel
    <3>4. /\ models' \in Seq(Versions) /\ Len(models') = Len(s) + 1 /\ Len(s) \in Nat
          /\ \A i \in 1 .. Len(s) : models'[i] = s[i]
      BY <3>2, <3>3, AppendProperties, LenProperties
    <3>5. current \in MC!Range(s) => current \in MC!Range(models')
      <4>1. 1 .. Len(s) \subseteq 1 .. Len(models')
        BY <3>4
      <4>2. QED
        BY <3>2, <3>4, <4>1, CachedElements
    <3>6. QED
      BY <1>3, <3>2, <3>3, <3>4, <3>5 DEF MC!LoadModel
  <2>4. QED
    BY <2>2, <2>3
<1>4. ASSUME NEW t \in Threads, MC!LoadFails(t) PROVE CacheInv'
  BY <1>4, EvictedKeepsCurrent DEF MC!LoadFails
<1>5. ASSUME NEW t \in Threads, MC!SetCurrent(t) PROVE CacheInv'
  BY <1>5 DEF MC!SetCurrent
<1>6. ASSUME NEW t \in Threads, MC!CallLoad(t) PROVE CacheInv'
  BY <1>6 DEF MC!CallLoad
<1>7. ASSUME NEW t \in Threads, MC!GetCurrent(t) PROVE CacheInv'
  BY <1>7 DEF MC!GetCurrent
<1>8. CASE UNCHANGED mcVars
  BY <1>8 DEF mcVars
<1>9. QED
  BY <1>1, <1>2, <1>3, <1>4, <1>5, <1>6, <1>7, <1>8 DEF MC!Next, MC!Step

-----------------------------------------------------------------------------
(* The three classes side by side: one of them moves, the others rest.       *)

LEMMA ClassesStep ==
    ASSUME IInv, SharedInv, CacheInv, [MCNext]_all
    PROVE  IInv' /\ SharedInv' /\ CacheInv'
<1>1. [Next]_vars /\ [MP!Next]_mpVars /\ [MC!Next]_mcVars
  BY DEF MCNext, all
<1>2. QED
  BY <1>1, StepInv, SharedStep, CacheStep

LEMMA ClassesInvariance == MCSpec => [](IInv /\ SharedInv /\ CacheInv)
<1>1. MCInit => IInv /\ SharedInv /\ CacheInv
  BY InitInv, SharedInit, CacheInit DEF MCInit
<1>2. IInv /\ SharedInv /\ CacheInv /\ [MCNext]_all => (IInv /\ SharedInv /\ CacheInv)'
  BY ClassesStep
<1>3. QED
  BY <1>1, <1>2, PTL DEF MCSpec

\* Every variable of the three classes keeps its type.
THEOREM ClassesTypeCorrect == MCSpec => []TypesOK
<1>1. IInv /\ SharedInv /\ CacheInv => TypesOK
  BY DEF IInv, SharedInv, CacheInv, TypesOK
<1>2. QED
  BY <1>1, ClassesInvariance, PTL

\* However many threads ask first, one loads the model, and none infers before it counts
\* as loaded or while it is being loaded.
THEOREM ModelLoadedOnce == MCSpec => []LoadedOnce
<1>1. SharedInv => LoadedOnce
  BY DEF SharedInv
<1>2. QED
  BY <1>1, ClassesInvariance, PTL

\* Whatever is loaded, evicted or fails to load, the version that is current stays.
THEOREM CurrentStaysCached == MCSpec => []CurrentIsCached
<1>1. CacheInv => CurrentIsCached
  BY DEF CacheInv
<1>2. QED
  BY <1>1, ClassesInvariance, PTL
=============================================================================
