------------------------------- MODULE ClWorker -------------------------------
(***************************************************************************)
(* A GPU worker (eyot-runtime-opencl.c).  Every handler holds the worker's *)
(* mutex from its first to its last access, and every OpenCL transfer is a *)
(* blocking one, so a handler is one step: the kernel has run when send    *)
(* returns.  A send is a batch; batches are read in order.  The array of   *)
(* batches is never cleared, so a batch that is no longer in use can still *)
(* be read.  Work item i of a batch prints one line, its value, into log   *)
(* buffer i, which all batches share.                                      *)
(***************************************************************************)
EXTENDS Integers, Sequences, SequencesExt

CONSTANTS Values,     \* what is sent
          MaxBatch,   \* bound on the length of a sent vector
          MaxSent,    \* bound on the values sent in a behaviour
          MaxDrains,  \* bound on the drains in a behaviour
          LogLimit    \* lines that fit into k_worker_buffer_size

ASSUME ClWorkerAssumption ==
    /\ MaxBatch \in Nat /\ MaxSent \in Nat /\ MaxDrains \in Nat
    /\ LogLimit \in Nat \ {0}

VARIABLES setting,    \* of the worker and the program, chosen at the start
          batches,    \* the array: every entry that was ever written
          used,       \* batches_used
          activity,   \* activity_count
          shared,     \* OpenCL reference count of shared_buffers_gpu
          closure,    \* OpenCL reference count of closure_buffer
          pins,       \* root count of the EyClWorker
          log,        \* the shared log buffers, as lines
          pumped,     \* buffer_used: lines of them that were shown
          panicked,
          accepted, delivered,   \* history: values in, results out
          printed, shown         \* history: lines kept, lines shown

logs == <<log, pumped, printed, shown>>
vars == <<setting, batches, used, activity, shared, closure, pins, log, pumped, panicked,
          accepted, delivered, printed, shown>>

\* The worker was created from a partial application.
Closure == setting.closure
\* The caller sends no empty vector, and receives and drains only if a batch is
\* in use.
Careful == setting.careful

\* What a caller without care gets is not compared with the abstract worker.
W == INSTANCE Worker WITH accepted  <- IF Careful THEN accepted ELSE <<>>,
                          delivered <- IF Careful THEN delivered ELSE <<>>

Items   == 1..MaxBatch
Results == {W!Result(v) : v \in Values}
\* read < 0 until the batch is first read; output is output_vector
Batch   == [output : Seq(Results), read : Int]
Vectors == UNION {[1..n -> Values] : n \in 0..MaxBatch}

TypeOK ==
    /\ setting \in [closure : BOOLEAN, careful : BOOLEAN]
    /\ batches \in Seq(Batch)
    /\ used \in 0..Len(batches)
    /\ \A b \in 1..Len(batches) : batches[b].read \in -1..Len(batches[b].output)
    /\ log \in [Items -> Seq(Values)] /\ \A i \in Items : Len(log[i]) <= LogLimit
    /\ pumped \in [Items -> Nat] /\ \A i \in Items : pumped[i] <= Len(log[i])
    /\ activity \in Int /\ shared \in Int /\ closure \in Int /\ pins \in Int
    /\ panicked \in BOOLEAN

\* ey_worker_create_opencl; the log buffers are cleared there too
Init ==
    /\ setting \in [closure : BOOLEAN, careful : BOOLEAN]
    /\ batches = <<>> /\ used = 0
    /\ activity = 0
    /\ shared = 1
    /\ closure = IF Closure THEN 1 ELSE 0
    /\ pins = 0
    /\ log = [i \in Items |-> <<>>] /\ pumped = [i \in Items |-> 0]
    /\ panicked = FALSE
    /\ accepted = <<>> /\ delivered = <<>>
    /\ printed = [i \in Items |-> <<>>] /\ shown = [i \in Items |-> <<>>]

-----------------------------------------------------------------------------
(* Log buffers                                                             *)

\* Work item i prints its line if there is room for it (ey_print_byte).
Prints(vs, f, i) == i <= Len(vs) /\ Len(f[i]) < LogLimit
Kept(vs, f) == [i \in Items |-> IF Prints(vs, log, i) THEN Append(f[i], vs[i]) ELSE f[i]]

\* The lines _ey_cl_pump_logs has not shown yet
Unshown(i) == SubSeq(log[i], pumped[i] + 1, Len(log[i]))

\* Mutant of Idle: cleared when the count is back at zero exactly.
IdleExact(n) == n = 0

\* _ey_activity_count_reduced: nothing is awaited, so the logs may go.
Idle(n) == n <= 0

\* _ey_clear_logs, called only if some position is not zero.
Cleared(n, done) ==
    LET clear == Idle(n) /\ \E i \in Items : done[i] # 0
    IN  /\ log' = IF clear THEN [i \in Items |-> <<>>] ELSE log
        /\ pumped' = IF clear THEN [i \in Items |-> 0] ELSE done

\* The count goes down to n, after the logs were pumped (or not).
Reduced(pump, n) ==
    /\ Cleared(n, IF pump THEN [i \in Items |-> Len(log[i])] ELSE pumped)
    /\ shown' = IF pump THEN [i \in Items |-> shown[i] \o Unshown(i)] ELSE shown
    /\ UNCHANGED printed

-----------------------------------------------------------------------------
(* ey_cl_send                                                              *)

\* A buffer of no bytes cannot be created, and a released one is no argument.
Refused(vs) == vs = <<>> \/ shared <= 0 \/ (Closure /\ closure <= 0)

NewBatch(vs) == [output |-> [i \in DOMAIN vs |-> W!Result(vs[i])], read |-> -1]

Send(vs) ==
    /\ ~Refused(vs)
    /\ Len(accepted) + Len(vs) <= MaxSent
    /\ batches' = Append(SubSeq(batches, 1, used), NewBatch(vs))
                    \o SubSeq(batches, used + 2, Len(batches))
    /\ used' = used + 1
    /\ activity' = activity + Len(vs)
    /\ log' = Kept(vs, log) /\ printed' = Kept(vs, printed)
    /\ accepted' = accepted \o vs
    /\ UNCHANGED <<setting, shared, closure, pins, pumped, panicked, delivered, shown>>

SendPanic(vs) ==
    /\ Refused(vs)
    /\ panicked' = TRUE
    /\ UNCHANGED <<setting, batches, used, activity, shared, closure, pins, logs, accepted, delivered>>

-----------------------------------------------------------------------------
(* ey_cl_receive: always from the first entry of the array                 *)

\* The array is zeroed when it is allocated.
First  == IF batches = <<>> THEN [output |-> <<>>, read |-> 0] ELSE batches[1]
Unread == First.read < 0
At     == IF Unread THEN 0 ELSE First.read

\* The entry was never written, is exhausted, or is not in use and would be
\* popped: ey_vector_access or clworker_pop_batch ends the program.
NothingToReceive == \/ At >= Len(First.output)
                    \/ used = 0 /\ At + 1 = Len(First.output)

\* Mutant of Popped: the entries are not moved down.
PoppedInPlace(bs) == bs

\* clworker_pop_batch moves the entries in use down by one.
Popped(bs) == SubSeq(bs, 2, used) \o SubSeq(bs, used, Len(bs))

Receive ==
    /\ Careful => used > 0
    /\ ~NothingToReceive
    /\ LET n    == IF Unread THEN activity - Len(First.output) ELSE activity
           read == [batches EXCEPT ![1].read = At + 1]
           pop  == At + 1 = Len(First.output)
           free == IF pop /\ Closure THEN 1 ELSE 0
       IN  /\ activity' = n
           /\ IF Unread THEN Reduced(TRUE, n) ELSE UNCHANGED logs
           /\ batches' = IF pop THEN Popped(read) ELSE read
           /\ used' = IF pop THEN used - 1 ELSE used
           /\ shared' = shared - free /\ closure' = closure - free
    /\ delivered' = Append(delivered, First.output[At + 1])
    /\ UNCHANGED <<setting, pins, panicked, accepted>>

ReceivePanic ==
    /\ Careful => used > 0
    /\ NothingToReceive
    /\ panicked' = TRUE
    /\ UNCHANGED <<setting, batches, used, activity, shared, closure, pins, logs, accepted, delivered>>

-----------------------------------------------------------------------------
(* ey_cl_drain                                                             *)

Rest(b) == SubSeq(b.output, (IF b.read < 0 THEN 0 ELSE b.read) + 1, Len(b.output))

\* Mutant of Drained: a batch that was read from is taken as a whole again.
DrainedWhole == FlattenSeq([b \in 1..used |-> batches[b].output])

Drained == FlattenSeq([b \in 1..used |-> Rest(batches[b])])

\* With no batch in use the code looks at the entry before the first one: it
\* waits for whatever event it finds there, or for none.
Drain ==
    /\ Careful => used > 0
    /\ pins > -MaxDrains
    /\ \E pump \in IF used > 0 THEN {batches[used].read < 0} ELSE BOOLEAN :
          LET n == activity - Len(Drained)
          IN  /\ activity' = n
              /\ Reduced(pump, n)
    /\ batches' = [b \in DOMAIN batches |->
                      IF b <= used /\ batches[b].read >= 0
                      THEN [batches[b] EXCEPT !.read = Len(batches[b].output)]
                      ELSE batches[b]]
    /\ used' = 0
    /\ closure' = IF Closure THEN closure - 1 ELSE closure
    /\ pins' = pins - 1
    /\ delivered' = delivered \o Drained
    /\ UNCHANGED <<setting, shared, panicked, accepted>>

-----------------------------------------------------------------------------
Next == /\ ~panicked
        /\ \/ \E vs \in Vectors : (Careful => vs # <<>>) /\ (Send(vs) \/ SendPanic(vs))
           \/ Receive \/ ReceivePanic
           \/ Drain

Spec == Init /\ [][Next]_vars

-----------------------------------------------------------------------------
(* Correctness                                                             *)

\* The worker implements the abstract one, as the CPU worker does: results
\* come out once and in the order sent, whichever way they are taken.
ImplementsWorker == W!Spec

\* A line that fits is shown once and in order, and when every result has been
\* handed out, every line has been shown (gpu-print.ey) and a worker that is
\* used with care has all its log space again: "Check that the buffers get
\* cleared" (check-buffer-clearing-b.ey).
LinesShown ==
    /\ TypeOK
    /\ \A i \in Items : /\ IsPrefix(shown[i], printed[i])
                        /\ shown[i] \o Unshown(i) = printed[i]
                        /\ used = 0 => shown[i] = printed[i]
                        /\ used = 0 /\ Careful => log[i] = <<>>

\* A worker that is used with care goes on working.  (One made from a partial
\* application does not: clworker_pop_batch and ey_cl_drain release buffers
\* that are created once per worker.)
NeverPanics == Careful /\ ~Closure => ~panicked
=============================================================================
