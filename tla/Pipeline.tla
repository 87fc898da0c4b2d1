------------------------------- MODULE Pipeline ------------------------------
(***************************************************************************)
(* A pipeline of two workers (eyot-runtime-cpu-pipeline.c): the program's  *)
(* thread, the copying thread of the pipeline, and the two workers it      *)
(* joins.  A worker is what module CpuWorker shows it to be: a counter of  *)
(* the values underway and a queue that is processed in order; "busy" are  *)
(* the values not processed yet and "ready" the results.                   *)
(***************************************************************************)
EXTENDS Integers, Sequences

CONSTANTS Values,     \* what is sent
          MaxBatch,   \* bound on the length of a sent vector
          MaxSent     \* bound on the values sent in a behaviour

ASSUME PipelineAssumption == MaxBatch \in Nat /\ MaxSent \in Nat

Workers == {"lhs", "rhs"}

VARIABLES underway,   \* EyNaivePipeline.underway_count
          count,      \* underway_count of each of the two workers
          busy,       \* values sent to each worker and not processed
          ready,      \* results of each worker, not received
          tpc,        \* the copying thread: see ThreadPCs
          required,   \* what its drain of lhs still waits for
          batch,      \* the results it has drained
          upc,        \* the program's thread: see UserPCs
          need,       \* receives its call still has to make
          draining,   \* it is inside drain
          todo,       \* what its send still has to pass to lhs
          accepted,   \* history: values sent to the pipeline
          delivered   \* history: values received from the pipeline

workerVars == <<count, busy, ready>>
threadVars == <<tpc, required, batch>>
userVars == <<upc, need, draining, todo>>
vars == <<underway, count, busy, ready, tpc, required, batch, upc, need, draining,
          todo, accepted, delivered>>

ThreadPCs == {"count", "drain", "send", "gone"}
\* "send": lhs->send is due, "take": rhs->receive is due, "count": the
\* decrement of the pipeline's own counter is due
UserPCs == {"idle", "send", "take", "count"}

TypeOK ==
    /\ underway \in Nat
    /\ count \in [Workers -> Nat]
    /\ busy \in [Workers -> Seq(Values)]
    /\ ready \in [Workers -> Seq(Values)]
    /\ tpc \in ThreadPCs /\ required \in Nat /\ batch \in Seq(Values)
    /\ upc \in UserPCs /\ need \in Nat /\ draining \in BOOLEAN
    /\ todo \in Seq(Values)

\* ey_worker_create_pipeline: the copying thread runs from the start
Init ==
    /\ underway = 0
    /\ count = [w \in Workers |-> 0]
    /\ busy = [w \in Workers |-> <<>>]
    /\ ready = [w \in Workers |-> <<>>]
    /\ tpc = "count" /\ required = 0 /\ batch = <<>>
    /\ upc = "idle" /\ need = 0 /\ draining = FALSE
    /\ todo = <<>>
    /\ accepted = <<>> /\ delivered = <<>>

-----------------------------------------------------------------------------
(* The two workers                                                         *)

SendTo(w, vs) == /\ count' = [count EXCEPT ![w] = @ + Len(vs)]
                 /\ busy' = [busy EXCEPT ![w] = @ \o vs]

ReceiveFrom(w) == /\ ready[w] # <<>>
                  /\ ready' = [ready EXCEPT ![w] = Tail(@)]
                  /\ count' = [count EXCEPT ![w] = @ - 1]

Process(w) ==
    /\ busy[w] # <<>>
    /\ ready' = [ready EXCEPT ![w] = Append(@, Head(busy[w]))]
    /\ busy' = [busy EXCEPT ![w] = Tail(@)]
    /\ UNCHANGED <<underway, count, threadVars, userVars, accepted, delivered>>

-----------------------------------------------------------------------------
(* ey_naive_pipeline_entry_point: one drain of lhs, one send to rhs        *)

\* The first step of the drain reads the counter of lhs.
ThreadCount ==
    /\ tpc = "count"
    /\ required' = count["lhs"]
    /\ tpc' = "drain"
    /\ UNCHANGED <<underway, workerVars, batch, userVars, accepted, delivered>>

ThreadReceive ==
    /\ tpc = "drain" /\ required > 0
    /\ ReceiveFrom("lhs")
    /\ batch' = Append(batch, Head(ready["lhs"]))
    /\ required' = required - 1
    /\ UNCHANGED <<underway, busy, tpc, userVars, accepted, delivered>>

\* Mutant of Drained: the thread waits for an empty worker, not for a count.
DrainedWhenEmpty == count["lhs"] = 0

Drained == required = 0

ThreadDrained ==
    /\ tpc = "drain" /\ Drained
    /\ tpc' = "send"
    /\ UNCHANGED <<underway, workerVars, required, batch, userVars, accepted, delivered>>

\* Mutant of Moved: the results are passed on newest first.
MovedReversed == [i \in DOMAIN batch |-> batch[Len(batch) + 1 - i]]

Moved == batch

ThreadSend ==
    /\ tpc = "send"
    /\ SendTo("rhs", Moved)
    /\ batch' = <<>>
    /\ tpc' = "gone"
    /\ UNCHANGED <<underway, ready, required, userVars, accepted, delivered>>

-----------------------------------------------------------------------------
(* ey_pipeline_send                                                        *)

Batches == UNION {[1..n -> Values] : n \in 0..MaxBatch}

Announced(vs) == underway + Len(vs)

SendBegin(vs) ==
    /\ upc = "idle"
    /\ Len(accepted) + Len(vs) <= MaxSent
    /\ underway' = Announced(vs)
    /\ todo' = vs
    /\ upc' = "send"
    /\ UNCHANGED <<workerVars, threadVars, need, draining, accepted, delivered>>

SendForward ==
    /\ upc = "send"
    /\ SendTo("lhs", todo)
    /\ accepted' = accepted \o todo
    /\ todo' = <<>>
    /\ upc' = "idle"
    /\ UNCHANGED <<underway, ready, threadVars, need, draining, delivered>>

-----------------------------------------------------------------------------
(* ey_pipeline_receive and ey_pipeline_drain                               *)

ReceiveBegin ==
    /\ upc = "idle"
    /\ need' = 1
    /\ upc' = "take"
    /\ UNCHANGED <<underway, workerVars, threadVars, draining, todo, accepted, delivered>>

DrainBegin ==
    /\ upc = "idle"
    /\ need' = underway
    /\ upc' = IF underway = 0 THEN "idle" ELSE "take"
    /\ draining' = (underway > 0)
    /\ UNCHANGED <<underway, workerVars, threadVars, todo, accepted, delivered>>

Take ==
    /\ upc = "take"
    /\ ReceiveFrom("rhs")
    /\ delivered' = Append(delivered, Head(ready["rhs"]))
    /\ upc' = "count"
    /\ UNCHANGED <<underway, busy, threadVars, need, draining, todo, accepted>>

\* Mutant of Uncounted: the pipeline leaves the counting to the worker.
UncountedNever == underway

Uncounted == underway - 1

Count ==
    /\ upc = "count"
    /\ underway' = Uncounted
    /\ need' = need - 1
    /\ upc' = IF need = 1 THEN "idle" ELSE "take"
    /\ draining' = (draining /\ need > 1)
    /\ UNCHANGED <<workerVars, threadVars, todo, accepted, delivered>>

-----------------------------------------------------------------------------
ThreadStep == ThreadCount \/ ThreadReceive \/ ThreadDrained \/ ThreadSend
CallStep == SendForward \/ Take \/ Count

Next == \/ \E w \in Workers : Process(w)
        \/ ThreadStep
        \/ \E vs \in Batches : SendBegin(vs)
        \/ ReceiveBegin \/ DrainBegin
        \/ CallStep

Spec == Init /\ [][Next]_vars

\* All three background threads are scheduled and the functions return; the
\* program's thread goes on with a call it has begun.
FairWorker(w) == WF_vars(Process(w))
FairWorkers   == \A w \in Workers : FairWorker(w)

Fairness == /\ FairWorkers
            /\ WF_vars(ThreadStep)
            /\ WF_vars(CallStep)

FairSpec == Spec /\ Fairness

-----------------------------------------------------------------------------
(* Correctness                                                             *)

\* The pipeline's counter is the number of values sent and not received,
\* wherever they are: in either worker or in the copying thread.
UnderwayIsOutstanding ==
    /\ TypeOK
    /\ underway = Len(todo) + Len(busy["lhs"]) + Len(ready["lhs"]) + Len(batch)
                  + Len(busy["rhs"]) + Len(ready["rhs"]) + (IF upc = "count" THEN 1 ELSE 0)

\* The results come out once and in the order of the values sent, so the
\* pipeline is a worker whose function is the composition of the two.
W == INSTANCE Worker WITH
        delivered <- [i \in DOMAIN delivered |-> <<"result", delivered[i]>>]
ImplementsWorker == W!Spec

\* What the copying thread found underway in lhs when it counted reaches rhs, all
\* of it, and the drain inside the thread cannot hang: for every number n it still
\* waits for it gets the next one, or it has them all and passes them on, whatever
\* is sent to the pipeline meanwhile.
CopyGoesOn(n) == (tpc = "drain" /\ required = n) ~> (tpc = "gone" \/ required < n)
CopyAdvances  == \A n \in 0..MaxSent : CopyGoesOn(n)

\* What fairness needs, read off the guards: a worker waits for nothing but a
\* value; the copying thread for nothing but the values it has counted.  The
\* hypothesis of the theorem on liveness.
WorkerGoesOn(w) == busy[w] # <<>> => ENABLED <<Process(w)>>_vars
CopyingGoesOn ==
    tpc \in {"count", "send"} \/ (tpc = "drain" /\ (required = 0 \/ ready["lhs"] # <<>>))
        => ENABLED <<ThreadStep>>_vars
StepsAreEnabled == CopyingGoesOn /\ \A w \in Workers : WorkerGoesOn(w)

\* What basic-pipeline.ey expects: a drain of the pipeline returns.
DrainReturns == draining ~> ~draining
=============================================================================
