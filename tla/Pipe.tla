-------------------------------- MODULE Pipe ---------------------------------
(***************************************************************************)
(* The thread-safe pipe of the runtime (eyot-runtime-pipes.c).             *)
(*                                                                         *)
(* A pipe is an array behind a mutex plus a counting semaphore that is     *)
(* posted AFTER the mutex is released.  All accesses to the array happen   *)
(* between lock and unlock, so a critical section is one action here; what *)
(* other threads can observe in between is the gap between a critical      *)
(* section and the semaphore operation before or after it, and each side   *)
(* of that gap is an action of its own.                                    *)
(***************************************************************************)
EXTENDS Naturals, Sequences, FiniteSets

CONSTANTS Senders,        \* threads that send on this pipe and may close it
          Receivers,      \* threads that receive from it
          Values,         \* what is sent
          InitialSize,    \* k_pipe_allocated_size
          MaxSends,       \* bound on the length of a behaviour's input
          MaxCloses       \* bound on the calls of close

ASSUME PipeAssumption ==
    /\ IsFiniteSet(Senders)
    /\ IsFiniteSet(Receivers)
    /\ Senders \cap Receivers = {}
    /\ InitialSize \in Nat
    /\ MaxSends \in Nat
    /\ MaxCloses \in Nat

VARIABLES closed,     \* EyPipe.closed
          allocated,  \* EyPipe.allocated_size
          buf,        \* EyPipe.values[0 .. used_size - 1]
          semaphore,  \* the value of EyPipe.semaphore
          pc,         \* where each thread is: see PCs
          panicked,   \* ey_runtime_panic has ended the process
          sent,       \* history: every value appended
          received,   \* history: every value handed to a receiver
          closes,     \* history: calls of close
          ends        \* history: receives that returned false

pipe  == <<closed, allocated, buf>>
hist  == <<sent, received, closes, ends>>
vars  == <<closed, allocated, buf, semaphore, pc, panicked, sent, received, closes, ends>>

Threads == Senders \cup Receivers

\* "post": the critical section of send or close is over, sem_post is due.
\* "take": sem_wait has returned, the critical section of receive is due.
PCs == {"idle", "post", "take"}

TypeOK ==
    /\ closed \in BOOLEAN
    /\ allocated \in Nat
    /\ buf \in Seq(Values)
    /\ semaphore \in Nat
    /\ pc \in [Threads -> PCs]
    /\ panicked \in BOOLEAN
    /\ sent \in Seq(Values)
    /\ received \in Seq(Values)
    /\ closes \in Nat
    /\ ends \in Nat

Init ==
    /\ closed = FALSE
    /\ allocated = InitialSize
    /\ buf = <<>>
    /\ semaphore = 0
    /\ pc = [t \in Threads |-> "idle"]
    /\ panicked = FALSE
    /\ sent = <<>>
    /\ received = <<>>
    /\ closes = 0
    /\ ends = 0

-----------------------------------------------------------------------------
(* ey_pipe_send                                                            *)

\* Mutant of Grown: the full array is not reallocated.
NeverGrown == allocated

\* The array is full, so it is reallocated one slot longer.
Grown == IF allocated = Len(buf) THEN allocated + 1 ELSE allocated

SendAppend(t, v) ==
    /\ pc[t] = "idle"
    /\ ~closed
    /\ Len(sent) < MaxSends
    /\ allocated' = Grown
    /\ buf' = Append(buf, v)
    /\ sent' = Append(sent, v)
    /\ pc' = [pc EXCEPT ![t] = "post"]
    /\ UNCHANGED <<closed, semaphore, panicked, received, closes, ends>>

\* "sending on a closed pipe" ends the whole process.
SendPanic(t) ==
    /\ pc[t] = "idle"
    /\ closed
    /\ panicked' = TRUE
    /\ UNCHANGED <<pipe, semaphore, pc, hist>>

\* Mutants of Post: the semaphore counts twice, or only up to one.
PostTwice(t) ==
    /\ pc[t] = "post"
    /\ semaphore' = semaphore + 2
    /\ pc' = [pc EXCEPT ![t] = "idle"]
    /\ UNCHANGED <<pipe, panicked, hist>>

PostBinary(t) ==
    /\ pc[t] = "post"
    /\ semaphore' = 1
    /\ pc' = [pc EXCEPT ![t] = "idle"]
    /\ UNCHANGED <<pipe, panicked, hist>>

\* sem_post, outside the mutex; the last step of send and of close.
Post(t) ==
    /\ pc[t] = "post"
    /\ semaphore' = semaphore + 1
    /\ pc' = [pc EXCEPT ![t] = "idle"]
    /\ UNCHANGED <<pipe, panicked, hist>>

-----------------------------------------------------------------------------
(* ey_pipe_receive                                                         *)

\* sem_wait
Wait(t) ==
    /\ pc[t] = "idle"
    /\ semaphore > 0
    /\ semaphore' = semaphore - 1
    /\ pc' = [pc EXCEPT ![t] = "take"]
    /\ UNCHANGED <<pipe, panicked, hist>>

\* Mutant of AtEnd: the test for values that are still there is dropped.
AtEndWhenClosed == closed

AtEnd == closed /\ buf = <<>>

MovedDown == Tail(buf)

\* closed and empty: receive returns false
TakeEnd(t) ==
    /\ pc[t] = "take"
    /\ AtEnd
    /\ ends' = ends + 1
    /\ pc' = [pc EXCEPT ![t] = "idle"]
    /\ UNCHANGED <<pipe, semaphore, panicked, sent, received, closes>>

\* The first value is handed over and the others move one slot down.  The
\* code does not test that there is a value (see WokenReceiverFindsValue).
TakeValue(t) ==
    /\ pc[t] = "take"
    /\ ~AtEnd
    /\ received' = Append(received, Head(buf))
    /\ buf' = MovedDown
    /\ pc' = [pc EXCEPT ![t] = "idle"]
    /\ UNCHANGED <<closed, allocated, semaphore, panicked, sent, closes, ends>>

-----------------------------------------------------------------------------
(* ey_pipe_close                                                           *)

CloseMark(t) ==
    /\ pc[t] = "idle"
    /\ closes < MaxCloses
    /\ closed' = TRUE
    /\ closes' = closes + 1
    /\ pc' = [pc EXCEPT ![t] = "post"]
    /\ UNCHANGED <<allocated, buf, semaphore, panicked, sent, received, ends>>

-----------------------------------------------------------------------------
SendStep(t) == \/ \E v \in Values : SendAppend(t, v)
               \/ SendPanic(t)
               \/ Post(t)
               \/ CloseMark(t)

ReceiveStep(t) == \/ Wait(t)
                  \/ TakeEnd(t)
                  \/ TakeValue(t)

Next == /\ ~panicked
        /\ \/ \E t \in Senders : SendStep(t)
           \/ \E t \in Receivers : ReceiveStep(t)

Spec == Init /\ [][Next]_vars

(***************************************************************************)
(* A thread that is inside a call is scheduled until it leaves it, and the *)
(* receivers (the loop of ey_worker_entry_point) call receive again and    *)
(* again.  Nothing obliges a sender to start a send or a close.  The       *)
(* receivers share one semaphore, so only "some receiver is woken" may be  *)
(* assumed of sem_wait, not that each one is.                              *)
(***************************************************************************)
PostOf(t) == ~panicked /\ Post(t)
SomeWait  == ~panicked /\ \E t \in Receivers : Wait(t)
TakeOf(t) == ~panicked /\ (TakeEnd(t) \/ TakeValue(t))

FairPost(t) == WF_vars(PostOf(t))
FairTake(t) == WF_vars(TakeOf(t))
FairPosts   == \A t \in Senders : FairPost(t)
FairTakes   == \A t \in Receivers : FairTake(t)

Fairness == FairPosts /\ WF_vars(SomeWait) /\ FairTakes

FairSpec == Spec /\ Fairness

-----------------------------------------------------------------------------
(* Correctness                                                             *)

\* Threads that have moved a value or the close mark but not yet the
\* semaphore, or the semaphore but not yet the value.
Holders == {t \in Threads : pc[t] # "idle"}

\* Every value in the array and every close not yet reported is matched by
\* exactly one unit: in the semaphore, or owed or held by one thread.  This
\* is what makes posting outside the mutex safe.
TokenAccounting ==
    semaphore + Cardinality(Holders) + ends = Len(buf) + closes

\* A receiver whose sem_wait returned finds a value unless the pipe was
\* closed, so ey_pipe_receive never lowers used_size below zero and never
\* copies slot 0 of an empty pipe, though it tests neither.
WokenReceiverFindsValue ==
    \A t \in Receivers : pc[t] = "take" => buf # <<>> \/ closed

\* ey_pipe_send never writes a slot beyond the allocated array, however long the
\* array was when the pipe was created.
BufferFits == TypeOK /\ Len(buf) <= allocated

\* No value is lost, duplicated or reordered between the critical sections.
NothingLost == sent = received \o buf

\* The pipe implements the abstract channel.
Chan == INSTANCE Channel
ImplementsChannel == Chan!Spec

\* Whatever is sent is received, and after a close a receiver is told so, as long
\* as the process lives: for every number n of values received, no receiver sleeps
\* on while a value is in the array, or while a close was not reported, although
\* the unit that is to wake it may still be owed by a sender, or be taken by a
\* receiver for another's value.  No interleaving of posts and waits loses a wakeup.
HeadIsReceived(n) ==
    (Len(received) = n /\ Len(sent) > n) ~> (Len(received) > n \/ panicked)
EndIsReported(n) ==
    (Len(received) = n /\ closed) ~> (Len(received) > n \/ ends > 0 \/ panicked)

NoReceiverSleepsOn == \A n \in 0..MaxSends : HeadIsReceived(n) /\ EndIsReported(n)

\* What fairness needs, read off the guards: a thread inside a call is never
\* refused its next step, since sem_post does not wait, sem_wait waits for
\* nothing but a unit, and a woken receiver finds either a value or the end.
\* The hypothesis of the theorem on liveness.
CallsGoOn ==
    ~panicked =>
        /\ \A t \in Senders : pc[t] = "post" => ENABLED <<PostOf(t)>>_vars
        /\ semaphore > 0 /\ (\E t \in Receivers : pc[t] = "idle") => ENABLED <<SomeWait>>_vars
        /\ \A t \in Receivers : pc[t] = "take" => ENABLED <<TakeOf(t)>>_vars
=============================================================================
