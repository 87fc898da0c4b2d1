------------------------------ MODULE CpuWorker ------------------------------
(***************************************************************************)
(* A CPU worker (eyot-runtime-cpu-worker.c): any number of caller threads, *)
(* the worker thread, an input pipe and an output pipe.  The pipes are the *)
(* abstract channels that module Pipe implements; the interleavings here   *)
(* are those between pipe operations and the underway counter, which has a *)
(* mutex of its own that is never held across a pipe operation.            *)
(***************************************************************************)
EXTENDS Integers, Sequences, FiniteSets

CONSTANTS Callers,      \* threads that hold a reference to the worker
          Values,       \* what is sent
          Settings,     \* the workers and programs looked at: see Setting
          MaxBatch,     \* bound on the length of a sent vector
          MaxSent       \* bound on the values sent in a behaviour

\* Who receives and drains; whether the worker's function returns nothing; and
\* whether the collector knows of the callers' references to the worker.
Setting == [consumers : SUBSET Callers, void : BOOLEAN, rooted : BOOLEAN]

ASSUME CpuWorkerAssumption ==
    /\ IsFiniteSet(Callers)
    /\ Settings \subseteq Setting
    /\ MaxBatch \in Nat
    /\ MaxSent \in Nat

VARIABLES setting,    \* chosen when the program starts
          underway,   \* EyCpuWorker.underway_count
          input,      \* the values in input_pipe
          inClosed,   \* input_pipe is closed: the EyWorker was finalised
          output,     \* the values in output_pipe
          outClosed,  \* output_pipe is closed
          wpc,        \* the worker thread: see WorkerPCs
          item,       \* its local buffer "input", as a sequence of at most one
          pinned,     \* the EyCpuWorker is a root object of the collector
          cpc,        \* the callers: see CallerPCs
          todo,       \* values a caller still has to put into input_pipe
          need,       \* receives a caller still has to make
          draining,   \* the callers that are inside drain
          asked,      \* history: Len(accepted) when each caller's drain began
          panicked,   \* the process has ended abnormally
          accepted,   \* history: values put into input_pipe
          delivered   \* history: results taken from output_pipe

callerVars == <<cpc, todo, need, draining, asked>>
workerThread == <<wpc, item, pinned, outClosed>>
vars == <<setting, underway, input, inClosed, output, outClosed, wpc, item, pinned,
          cpc, todo, need, draining, asked, panicked, accepted, delivered>>

WorkerPCs == {"receive", "send", "ended"}
\* "put": sending, "take": a pipe receive is due, "count": the decrement is due
CallerPCs == {"idle", "put", "take", "count"}

W == INSTANCE Worker

Consumers == setting.consumers

Batches == UNION {[1..n -> Values] : n \in 0..MaxBatch}

TypeOK ==
    /\ setting \in Setting
    /\ underway \in Nat
    /\ input \in Seq(Values)
    /\ output \in Seq({W!Result(v) : v \in Values})
    /\ inClosed \in BOOLEAN /\ outClosed \in BOOLEAN
    /\ wpc \in WorkerPCs
    /\ item \in Seq(Values) /\ Len(item) = (IF wpc = "send" THEN 1 ELSE 0)
    /\ pinned \in BOOLEAN
    /\ cpc \in [Callers -> CallerPCs]
    /\ todo \in [Callers -> Seq(Values)]
    /\ need \in [Callers -> Nat]
    /\ draining \subseteq Consumers
    /\ asked \in [Callers -> Nat]
    /\ panicked \in BOOLEAN

\* ey_worker_create_cpu
Init ==
    /\ setting \in Settings
    /\ underway = 0
    /\ input = <<>> /\ inClosed = FALSE
    /\ output = <<>> /\ outClosed = FALSE
    /\ wpc = "receive" /\ item = <<>> /\ pinned = TRUE
    /\ cpc = [c \in Callers |-> "idle"]
    /\ todo = [c \in Callers |-> <<>>]
    /\ need = [c \in Callers |-> 0]
    /\ draining = {}
    /\ asked = [c \in Callers |-> 0]
    /\ panicked = FALSE
    /\ accepted = <<>> /\ delivered = <<>>

\* A call begins only while the collector has not seen that nobody will make
\* one; where it does not know of the callers' references, at any time.
MayBegin == setting.rooted => ~inClosed

\* The values in the sequences f, each by its caller and its place.
Places(f) == UNION {{c} \X (1..Len(f[c])) : c \in Callers}
SumLen(f) == Cardinality(Places(f))

-----------------------------------------------------------------------------
(* ey_worker_send: the whole vector is counted first, then its values go   *)
(* into the pipe one at a time                                             *)

\* Mutant of Announced: the vector is counted as one value.
AnnouncedOnce(vs) == underway + 1

Announced(vs) == underway + Len(vs)

SendBegin(c, vs) ==
    /\ cpc[c] = "idle" /\ MayBegin
    /\ SumLen(todo) + Len(accepted) + Len(vs) <= MaxSent
    /\ underway' = Announced(vs)
    /\ todo' = [todo EXCEPT ![c] = vs]
    /\ cpc' = [cpc EXCEPT ![c] = IF vs = <<>> THEN "idle" ELSE "put"]
    /\ UNCHANGED <<setting, input, inClosed, output, workerThread, need, draining, asked, panicked,
                   accepted, delivered>>

SendOne(c) ==
    /\ cpc[c] = "put" /\ ~inClosed
    /\ input' = Append(input, Head(todo[c]))
    /\ accepted' = Append(accepted, Head(todo[c]))
    /\ todo' = [todo EXCEPT ![c] = Tail(@)]
    /\ cpc' = [cpc EXCEPT ![c] = IF Len(todo[c]) = 1 THEN "idle" ELSE "put"]
    /\ UNCHANGED <<setting, underway, inClosed, output, workerThread, need, draining, asked, panicked,
                   delivered>>

\* ey_pipe_send: "sending on a closed pipe"
SendPanic(c) ==
    /\ cpc[c] = "put" /\ inClosed
    /\ panicked' = TRUE
    /\ UNCHANGED <<setting, underway, input, inClosed, output, workerThread, callerVars,
                   accepted, delivered>>

-----------------------------------------------------------------------------
(* ey_worker_receive and ey_worker_drain                                   *)

ReceiveBegin(c) ==
    /\ cpc[c] = "idle" /\ MayBegin
    /\ need' = [need EXCEPT ![c] = 1]
    /\ cpc' = [cpc EXCEPT ![c] = "take"]
    /\ UNCHANGED <<setting, underway, input, inClosed, output, workerThread, todo, draining, asked,
                   panicked, accepted, delivered>>

\* Mutant of Required: drain waits for what has already been processed only.
RequiredReady == Len(output)

\* required_count of drain, read once under the mutex
Required == underway

DrainBegin(c) ==
    /\ cpc[c] = "idle" /\ MayBegin
    /\ need' = [need EXCEPT ![c] = Required]
    /\ cpc' = [cpc EXCEPT ![c] = IF Required = 0 THEN "idle" ELSE "take"]
    /\ draining' = IF Required = 0 THEN draining ELSE draining \cup {c}
    /\ asked' = IF Required = 0 THEN asked ELSE [asked EXCEPT ![c] = Len(accepted)]
    /\ UNCHANGED <<setting, underway, input, inClosed, output, workerThread, todo, panicked,
                   accepted, delivered>>

Take(c) ==
    /\ cpc[c] = "take"
    /\ output # <<>>
    /\ delivered' = Append(delivered, Head(output))
    /\ output' = Tail(output)
    /\ cpc' = [cpc EXCEPT ![c] = "count"]
    /\ UNCHANGED <<setting, underway, input, inClosed, workerThread, todo, need, draining, asked,
                   panicked, accepted>>

\* ey_pipe_receive returned false: "failed to receive"
TakePanic(c) ==
    /\ cpc[c] = "take"
    /\ output = <<>> /\ outClosed
    /\ panicked' = TRUE
    /\ UNCHANGED <<setting, underway, input, inClosed, output, workerThread, callerVars,
                   accepted, delivered>>

\* Mutant of Counted: a drained value is not counted down.
CountedUnlessDrain(c) == IF c \in draining THEN underway ELSE underway - 1

Counted(c) == underway - 1

StillNeeded(c) == need[c] - 1

\* The decrement, and the end of receive or of one turn of drain's loop
Count(c) ==
    /\ cpc[c] = "count"
    /\ underway' = Counted(c)
    /\ need' = [need EXCEPT ![c] = StillNeeded(c)]
    /\ cpc' = [cpc EXCEPT ![c] = IF StillNeeded(c) = 0 THEN "idle" ELSE "take"]
    /\ draining' = IF StillNeeded(c) = 0 THEN draining \ {c} ELSE draining
    /\ asked' = IF StillNeeded(c) = 0 THEN [asked EXCEPT ![c] = 0] ELSE asked
    /\ UNCHANGED <<setting, input, inClosed, output, workerThread, todo, panicked, accepted,
                   delivered>>

-----------------------------------------------------------------------------
(* ey_worker_entry_point                                                   *)

WorkerReceive ==
    /\ wpc = "receive" /\ input # <<>>
    /\ item' = <<Head(input)>>
    /\ input' = Tail(input)
    /\ wpc' = "send"
    /\ UNCHANGED <<setting, underway, inClosed, output, outClosed, pinned, callerVars, panicked,
                   accepted, delivered>>

\* Mutant of Emitted: the send of the void case is not in an else branch.
EmittedTwice == <<W!Result(item[1]), W!Result(item[1])>>

\* A void function sends back one byte, so drain can count it.
Emitted == <<W!Result(item[1])>>

\* The function call and the send of its result
WorkerSend ==
    /\ wpc = "send"
    /\ output' = output \o Emitted
    /\ item' = <<>>
    /\ wpc' = "receive"
    /\ UNCHANGED <<setting, underway, input, inClosed, outClosed, pinned, callerVars, panicked,
                   accepted, delivered>>

\* Mutant of NothingMore: the loop ends at the close, not at the last value.
NothingMoreEarly == inClosed

NothingMore == inClosed /\ input = <<>>

\* The input pipe has ended: the output pipe of a function that returns
\* something is closed, and the thread's root reference is given up.
WorkerEnd ==
    /\ wpc = "receive" /\ NothingMore
    /\ outClosed' = ~setting.void
    /\ pinned' = FALSE
    /\ wpc' = "ended"
    /\ UNCHANGED <<setting, underway, input, inClosed, output, item, callerVars, panicked,
                   accepted, delivered>>

-----------------------------------------------------------------------------
(* finalise_cpu_worker, run by a collection that found the EyWorker        *)
(* unreachable.  When rooted this is when no caller uses it any more, and  *)
(* none will.  A local variable of worker type is not registered with the  *)
(* collector by the code generator, so otherwise it may be any time, with  *)
(* calls that are under way and calls that begin later.                    *)
Finalise ==
    /\ ~inClosed
    /\ setting.rooted => \A c \in Callers : cpc[c] = "idle"
    /\ inClosed' = TRUE
    /\ UNCHANGED <<setting, underway, input, output, workerThread, callerVars, panicked, accepted,
                   delivered>>

-----------------------------------------------------------------------------
WorkerStep == WorkerReceive \/ WorkerSend \/ WorkerEnd

CallStep(c) == SendOne(c) \/ SendPanic(c) \/ Take(c) \/ TakePanic(c) \/ Count(c)

Call(c) == \/ \E vs \in Batches : SendBegin(c, vs)
           \/ c \in Consumers /\ (ReceiveBegin(c) \/ DrainBegin(c))

Next == /\ ~panicked
        /\ \/ \E c \in Callers : Call(c) \/ CallStep(c)
           \/ WorkerStep
           \/ Finalise

Spec == Init /\ [][Next]_vars

\* Every thread that can take a step inside a call, and the worker thread, is
\* scheduled, and the worker's function returns.  Calls need not be made, and
\* the collector need not run.
ThreadRuns  == ~panicked /\ WorkerStep
CallRuns(c) == ~panicked /\ CallStep(c)

FairCall(c) == WF_vars(CallRuns(c))
FairCalls   == \A c \in Callers : FairCall(c)

Fairness == WF_vars(ThreadRuns) /\ FairCalls

FairSpec == Spec /\ Fairness

-----------------------------------------------------------------------------
(* Correctness                                                             *)

\* The counter is exactly what drain may wait for: values announced and not
\* yet in a pipe, in one of the pipes, in the worker thread, or taken by a
\* caller that has not counted them down yet.
UnderwayIsOutstanding ==
    /\ TypeOK
    /\ underway = SumLen(todo) + Len(input) + Len(item) + Len(output)
                  + Cardinality({c \in Callers : cpc[c] = "count"})

\* The worker implements the abstract one: every accepted value is processed
\* once and the results come out in order, whatever the callers interleave
\* and whenever the collector finalises the worker.
ImplementsWorker == W!Spec

\* "If you want to wait for all data to be processed, you can drain"
\* (workers.md:41): when a drain returns, everything that was in the worker
\* when it began has been processed and delivered, although other threads
\* have sent, received and drained meanwhile.
DrainWaitsForAll ==
    [][\A c \in draining : c \notin draining' => Len(delivered') >= asked[c]]_vars

\* A drain returns, also while other threads go on sending, provided that no
\* other thread takes the values it has counted: for every number k of receives
\* that it still has to make it makes another one.  It never waits for a value
\* that is lost between its announcement and the output pipe.
DrainGoesOn(c, k) ==
    (c \in draining /\ Consumers = {c} /\ need[c] = k)
        ~> (c \notin draining \/ need[c] < k \/ panicked)
DrainAdvances == \A c \in Callers, k \in 0..MaxSent : DrainGoesOn(c, k)

\* Once the EyWorker is finalised the worker thread processes what it was
\* sent, ends, and gives up its root reference, so that it does not leak: for
\* every number n of values that are left it takes another one, or ends.
ThreadGoesOn(n) ==
    (inClosed /\ Len(input) = n)
        ~> ((wpc = "ended" /\ ~pinned /\ input = <<>>) \/ Len(input) < n \/ panicked)
ThreadAdvances == \A n \in 0..MaxSent : ThreadGoesOn(n)

\* Nobody who waits for a worker, or whom it waits for, waits for ever.
WorkerAdvances == DrainAdvances /\ ThreadAdvances

\* What fairness needs, read off the guards: a thread waits for nothing but a
\* value or the end of its pipe.  The hypothesis of the theorems on liveness.
WorkerGoesOn == wpc = "send" \/ (wpc = "receive" /\ (input # <<>> \/ inClosed))
                    => ENABLED <<ThreadRuns>>_vars
CallGoesOn(c) == cpc[c] \in {"put", "count"} \/ (cpc[c] = "take" /\ output # <<>>)
                    => ENABLED <<CallRuns(c)>>_vars
StepsAreEnabled == ~panicked => WorkerGoesOn /\ \A c \in Callers : CallGoesOn(c)
=============================================================================
