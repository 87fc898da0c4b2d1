-------------------------- MODULE Playground_proofs ---------------------------
(***************************************************************************)
(* Proofs, for any number of clients and any programs, that a client of    *)
(* the playground is only told about the program it sent, that the cache   *)
(* holds nothing but runs, under the source that was run, and that every   *)
(* request is answered.                                                    *)
(***************************************************************************)
EXTENDS Playground, TLAPS

\* The runner works for a client that waits for it, and so cannot replace its
\* request: the folder and the response belong to the request made.
JobWaits ==
    /\ runner = "receive" <=> job = None
    /\ job # None => handler[job] = "waiting"
    /\ \A c \in Clients : handler[c] # "idle" => request[c] # None

\* What is in the folder that all jobs share: the source of this job from the
\* moment it is written, and a program built from it once there is one.
FolderIsOfJob ==
    /\ runner \in {"compile", "run", "wait", "out", "err"} =>
        folder = request[job] /\ folder \notin TooLong
    /\ runner \in {"run", "wait", "out", "err"} =>
        exe = folder /\ exe \notin Wrong

\* Nothing that was refused is in the cache: a hit is as good as a run.
CachedCompiles ==
    \A s \in Sources : cached[s] # None => s \notin TooLong \cup Wrong

\* The inductive invariant.  That the response is the job's own needs to know
\* whose source is in the folder and what the cache holds.
IInv == /\ ResponseIsOwn
        /\ CacheIsSound
        /\ JobWaits
        /\ FolderIsOfJob
        /\ CachedCompiles

-----------------------------------------------------------------------------
(* One lemma per group of actions                                          *)

LEMMA InitEstablishes == Init => IInv
<1> SUFFICES ASSUME Init PROVE IInv
    OBVIOUS
<1>1. made \in [Clients -> 0..MaxRequests]
    BY PlaygroundAssumption DEF Init
<1>2. TypeOK
    BY <1>1 DEF Init, TypeOK
<1> QED
    BY <1>2 DEF Init, IInv, ResponseIsOwn, CacheIsSound, JobWaits, FolderIsOfJob,
                CachedCompiles

\* The source of the job that is run.
LEMMA JobHasSource ==
    ASSUME IInv, runner # "receive"
    PROVE  /\ job \in Clients /\ Source \in Sources
           /\ handler[job] = "waiting" /\ job # None
BY DEF IInv, ResponseIsOwn, TypeOK, JobWaits, Source

\* A request replaces no request that the runner works on.
LEMMA RequestKeeps ==
    ASSUME IInv, NEW c \in Clients, NEW s \in Sources, Request(c, s)
    PROVE  IInv'
<1> USE PlaygroundAssumption DEF Request, files, running
<1>1. made'[c] \in 0..MaxRequests
    BY DEF IInv, ResponseIsOwn, TypeOK
<1>2. TypeOK'
    BY <1>1 DEF IInv, ResponseIsOwn, TypeOK
<1>3. job # c
    BY DEF IInv, JobWaits
<1>4. ResponseIsOwn'
    BY <1>2 DEF IInv, ResponseIsOwn, TypeOK
<1>5. JobWaits'
    BY <1>3 DEF IInv, ResponseIsOwn, TypeOK, JobWaits
<1>6. FolderIsOfJob'
    BY <1>3, JobHasSource DEF IInv, ResponseIsOwn, TypeOK, FolderIsOfJob
<1>7. CacheIsSound' /\ CachedCompiles'
    BY DEF IInv, CacheIsSound, CachedCompiles
<1> QED
    BY <1>4, <1>5, <1>6, <1>7 DEF IInv

LEMMA ReceiveKeeps ==
    ASSUME IInv, NEW c \in Clients, Receive(c)
    PROVE  IInv'
BY PlaygroundAssumption
DEF Receive, files, running, IInv, ResponseIsOwn, TypeOK, CacheIsSound,
    JobWaits, FolderIsOfJob, CachedCompiles

\* The runner lets its job go, answered or (Fail) not.
LEMMA EndOfJobKeeps ==
    ASSUME IInv, Signal \/ Fail
    PROVE  IInv'
<1>1. CASE Signal
    BY <1>1, PlaygroundAssumption, JobHasSource
    DEF Signal, files, running, IInv, ResponseIsOwn, TypeOK, CacheIsSound,
        JobWaits, FolderIsOfJob, CachedCompiles
<1>2. CASE Fail
    BY <1>2, PlaygroundAssumption
    DEF Fail, clients, files, running, IInv, ResponseIsOwn, TypeOK, CacheIsSound,
        JobWaits, FolderIsOfJob, CachedCompiles
<1> QED
    BY <1>1, <1>2

\* An answer that is the job's own keeps every client's response its own.
LEMMA AnswerIsOwn ==
    ASSUME IInv, runner # "receive", NEW r \in Responses, Answer(r, "signal"),
           r.of = Source, r.ok <=> Source \notin TooLong \cup Wrong
    PROVE  /\ response' \in [Clients -> Responses \cup {None}]
           /\ \A c \in Clients : response'[c] # None =>
                /\ response'[c].of = request'[c]
                /\ response'[c].ok <=> request'[c] \notin TooLong \cup Wrong
           /\ JobWaits'
           /\ runner' = "signal" /\ job' = job
           /\ UNCHANGED <<faulty, handler, request, made>>
<1>1. job \in Clients /\ handler[job] = "waiting" /\ job # None
    BY JobHasSource
<1>2. response' \in [Clients -> Responses \cup {None}]
    BY <1>1 DEF IInv, ResponseIsOwn, TypeOK, Answer
<1>3. ASSUME NEW c \in Clients, response'[c] # None
      PROVE  /\ response'[c].of = request'[c]
             /\ response'[c].ok <=> request'[c] \notin TooLong \cup Wrong
    <2>1. CASE c = job
        BY <1>1, <2>1 DEF IInv, ResponseIsOwn, TypeOK, Answer, Source
    <2>2. CASE c # job
        BY <1>1, <1>3, <2>2 DEF IInv, ResponseIsOwn, TypeOK, Answer
    <2> QED
        BY <2>1, <2>2
<1>4. JobWaits'
    BY <1>1 DEF IInv, JobWaits, Answer
<1> QED
    BY <1>2, <1>3, <1>4 DEF Answer

\* What is refused is refused rightly, and not cached.
LEMMA RefusalKeeps ==
    ASSUME IInv, RefuseLong \/ CompileFails
    PROVE  IInv'
<1>1. runner \in {"start", "compile"}
    BY DEF RefuseLong, CompileFails
<1>2. Source \in TooLong \cup Wrong
    BY DEF RefuseLong, CompileFails, IInv, FolderIsOfJob, Source
<1>3. /\ Refusal \in Responses /\ Refusal.of = Source
      /\ ~Refusal.ok
    BY <1>1, JobHasSource DEF Refusal, Responses
<1>4. Answer(Refusal, "signal")
    BY DEF RefuseLong, CompileFails, AfterRefusal
<1>5. UNCHANGED <<faulty, files, cached, running>>
    BY <1>3 DEF RefuseLong, CompileFails, Remembered
<1> HIDE DEF Refusal
<1>6. /\ response' \in [Clients -> Responses \cup {None}]
      /\ \A c \in Clients : response'[c] # None =>
            /\ response'[c].of = request'[c]
            /\ response'[c].ok <=> request'[c] \notin TooLong \cup Wrong
      /\ JobWaits'
      /\ runner' = "signal" /\ job' = job
      /\ UNCHANGED <<faulty, handler, request, made>>
    BY <1>1, <1>2, <1>3, <1>4, AnswerIsOwn
<1>7. ResponseIsOwn'
    BY <1>5, <1>6 DEF IInv, ResponseIsOwn, TypeOK, files, running
<1> QED
    BY <1>5, <1>6, <1>7 DEF IInv, CacheIsSound, FolderIsOfJob, CachedCompiles, files

\* What was cached under the source of the job is the answer to it.
LEMMA CacheHitKeeps ==
    ASSUME IInv, CacheHit
    PROVE  IInv'
<1>1. runner = "start" /\ Source \in Sources
    BY JobHasSource DEF CacheHit
<1> DEFINE r == cached[Source]
<1>2. /\ r \in Responses /\ r.of = Source /\ r.ok
      /\ Source \notin TooLong \cup Wrong
    BY <1>1 DEF CacheHit, IInv, ResponseIsOwn, TypeOK, CacheIsSound, CachedCompiles
<1>3. Answer(r, "signal") /\ UNCHANGED <<faulty, files, cached, running>>
    BY DEF CacheHit
<1> HIDE DEF r
<1>4. /\ response' \in [Clients -> Responses \cup {None}]
      /\ \A c \in Clients : response'[c] # None =>
            /\ response'[c].of = request'[c]
            /\ response'[c].ok <=> request'[c] \notin TooLong \cup Wrong
      /\ JobWaits'
      /\ runner' = "signal" /\ job' = job
      /\ UNCHANGED <<faulty, handler, request, made>>
    BY <1>1, <1>2, <1>3, AnswerIsOwn
<1>5. ResponseIsOwn'
    BY <1>3, <1>4 DEF IInv, ResponseIsOwn, TypeOK, files, running
<1> QED
    BY <1>3, <1>4, <1>5 DEF IInv, CacheIsSound, FolderIsOfJob, CachedCompiles, files

\* What a run answers is the output of the program built from the job's
\* source, and that is what is cached.
LEMMA FinishKeeps ==
    ASSUME IInv, Finish
    PROVE  IInv'
<1> DEFINE r == [ok |-> TRUE, of |-> exe, whole |-> whole]
<1>1. runner = "err" /\ job \in Clients /\ Source \in Sources
    BY JobHasSource DEF Finish
<1>2. exe = Source /\ exe \notin TooLong \cup Wrong
    BY <1>1 DEF IInv, FolderIsOfJob, Source
<1>3. r \in Responses /\ r.of = Source /\ r.ok
    BY <1>1, <1>2 DEF IInv, ResponseIsOwn, TypeOK, Responses
<1>4. /\ Answer(r, "signal")
      /\ cached' = [cached EXCEPT ![Source] = r]
    BY <1>3 DEF Finish, Remembered
<1>5. /\ reader' \in [Streams -> {"none", "reading", "sending"}]
      /\ process' = "none"
      /\ UNCHANGED <<faulty, folder, exe, closed, whole>>
    BY DEF Finish, files, IInv, ResponseIsOwn, TypeOK
<1> HIDE DEF r
<1>6. /\ response' \in [Clients -> Responses \cup {None}]
      /\ \A c \in Clients : response'[c] # None =>
            /\ response'[c].of = request'[c]
            /\ response'[c].ok <=> request'[c] \notin TooLong \cup Wrong
      /\ JobWaits'
      /\ runner' = "signal" /\ job' = job
      /\ UNCHANGED <<faulty, handler, request, made>>
    BY <1>1, <1>2, <1>3, <1>4, AnswerIsOwn
<1>7. cached' \in [Sources -> Responses \cup {None}]
    BY <1>1, <1>3, <1>4 DEF IInv, ResponseIsOwn, TypeOK
<1>8. CacheIsSound' /\ CachedCompiles'
    BY <1>1, <1>2, <1>3, <1>4
    DEF IInv, ResponseIsOwn, TypeOK, CacheIsSound, CachedCompiles
<1>9. ResponseIsOwn'
    BY <1>5, <1>6, <1>7 DEF IInv, ResponseIsOwn, TypeOK
<1> QED
    BY <1>6, <1>8, <1>9 DEF IInv, FolderIsOfJob

\* The folder is written with the source of the job and built from it.
LEMMA BuildKeeps ==
    ASSUME IInv, Prepare \/ Compile
    PROVE  IInv'
<1>1. CASE Prepare
    BY <1>1, JobHasSource, PlaygroundAssumption
    DEF Prepare, Written, Source, clients, running, IInv, ResponseIsOwn, TypeOK,
        CacheIsSound, JobWaits, FolderIsOfJob, CachedCompiles
<1>2. CASE Compile
    BY <1>2, JobHasSource, PlaygroundAssumption
    DEF Compile, clients, running, IInv, ResponseIsOwn, TypeOK,
        CacheIsSound, JobWaits, FolderIsOfJob, CachedCompiles
<1> QED
    BY <1>1, <1>2

\* While the program runs only its output is collected.
LEMMA RunningKeeps ==
    ASSUME IInv,
           \/ StartProgram \/ ProgramExits \/ Wait \/ Collect
           \/ \E s \in Streams : ReaderReturns(s)
    PROVE  IInv'
<1>1. UNCHANGED <<faulty, clients, job, files, cached>>
    BY DEF StartProgram, ProgramExits, Wait, Collect, ReaderReturns
<1>2. \/ runner' = runner
      \/ runner \in {"run", "wait", "out"} /\ runner' \in {"wait", "out", "err"}
    BY DEF StartProgram, ProgramExits, Wait, Collect, ReaderReturns
<1>3. /\ process' \in {"none", "running", "exited"}
      /\ reader' \in [Streams -> {"none", "reading", "sending"}]
      /\ closed' \in BOOLEAN /\ whole' \in BOOLEAN
    <2>1. CASE StartProgram
        BY <2>1 DEF StartProgram
    <2>2. CASE ProgramExits \/ Wait
        BY <2>2 DEF ProgramExits, Wait, IInv, ResponseIsOwn, TypeOK
    <2>3. CASE Collect
        BY <2>3 DEF Collect, Streams, IInv, ResponseIsOwn, TypeOK
    <2>4. ASSUME NEW s \in Streams, ReaderReturns(s)
          PROVE  /\ process' \in {"none", "running", "exited"}
                 /\ reader' \in [Streams -> {"none", "reading", "sending"}]
                 /\ closed' \in BOOLEAN /\ whole' \in BOOLEAN
        BY <2>4 DEF ReaderReturns, IInv, ResponseIsOwn, TypeOK
    <2> QED
        BY <2>1, <2>2, <2>3, <2>4
<1>4. ResponseIsOwn'
    BY <1>1, <1>2, <1>3 DEF clients, files, IInv, ResponseIsOwn, TypeOK
<1>5. CacheIsSound' /\ JobWaits' /\ FolderIsOfJob' /\ CachedCompiles'
    BY <1>1, <1>2 DEF clients, files, IInv, CacheIsSound, JobWaits, FolderIsOfJob,
                      CachedCompiles
<1> QED
    BY <1>4, <1>5 DEF IInv

-----------------------------------------------------------------------------
(* The theorems                                                            *)

LEMMA StepKeeps == IInv /\ [Next]_vars => IInv'
<1> SUFFICES ASSUME IInv, [Next]_vars PROVE IInv'
    OBVIOUS
<1>1. CASE UNCHANGED vars
    BY <1>1 DEF vars, IInv, ResponseIsOwn, TypeOK, CacheIsSound, JobWaits,
                FolderIsOfJob, CachedCompiles
<1>2. ASSUME NEW c \in Clients, NEW s \in Sources, Request(c, s)
      PROVE  IInv'
    BY <1>2, RequestKeeps
<1>3. ASSUME NEW c \in Clients, Receive(c)
      PROVE  IInv'
    BY <1>3, ReceiveKeeps
<1>4. CASE RefuseLong \/ CompileFails
    BY <1>4, RefusalKeeps
<1>5. CASE CacheHit
    BY <1>5, CacheHitKeeps
<1>6. CASE Prepare \/ Compile
    BY <1>6, BuildKeeps
<1>7. CASE Finish
    BY <1>7, FinishKeeps
<1>8. CASE Signal \/ Fail
    BY <1>8, EndOfJobKeeps
<1>9. CASE \/ StartProgram \/ ProgramExits \/ Wait \/ Collect
           \/ \E s \in Streams : ReaderReturns(s)
    BY <1>9, RunningKeeps
<1> QED
    BY <1>1, <1>2, <1>3, <1>4, <1>5, <1>6, <1>7, <1>8, <1>9 DEF Next, Run

LEMMA Invariance == Spec => []IInv
BY InitEstablishes, StepKeeps, PTL DEF Spec

\* Every response a client was given is about the program of its last request,
\* and says of it what is so, although requests of all clients are built in one
\* folder and an earlier job may have failed halfway (JobRunner.Run).
THEOREM ResponsesAreOwn == Spec => []ResponseIsOwn
<1>1. IInv => ResponseIsOwn
    BY DEF IInv
<1> QED
    BY <1>1, Invariance, PTL

\* The cache holds only what a run of that very source answered
\* (JobRunner.CachedResponses).
THEOREM CacheStaysSound == Spec => []CacheIsSound
<1>1. IInv => CacheIsSound
    BY DEF IInv
<1> QED
    BY <1>1, Invariance, PTL

-----------------------------------------------------------------------------
(* No job is stuck                                                         *)

\* The program and its readers belong to the step of the job that needs them:
\* there is none before the program is started, and each reader is there until
\* its log is taken.
ProcessOfJob ==
    /\ runner \in {"receive", "start", "compile", "run", "signal"} => process = "none"
    /\ runner = "wait" => process \in {"running", "exited"}
    /\ runner \in {"out", "err"} => process = "exited"
    /\ runner \in {"wait", "out"} => reader["out"] \in {"reading", "sending"}
    /\ runner \in {"wait", "out", "err"} => reader["err"] \in {"reading", "sending"}

PInv == IInv /\ ProcessOfJob

\* What each step of the runner does to the program and its readers.
LEMMA ProcessStaysOfJob ==
    ASSUME PInv, [Next]_vars
    PROVE  ProcessOfJob'
<1>1. reader \in [Streams -> {"none", "reading", "sending"}]
    BY DEF PInv, IInv, ResponseIsOwn, TypeOK
<1> USE DEF PInv, ProcessOfJob, Streams
<1>2. CASE UNCHANGED vars
    BY <1>2 DEF vars
<1>3. ASSUME NEW c \in Clients, NEW s \in Sources, Request(c, s)
      PROVE  ProcessOfJob'
    BY <1>3 DEF Request, running
<1>4. ASSUME NEW c \in Clients, Receive(c)
      PROVE  ProcessOfJob'
    BY <1>4 DEF Receive, running
<1>5. CASE RefuseLong \/ CacheHit \/ Prepare
    BY <1>5 DEF RefuseLong, CacheHit, Prepare, Answer, AfterRefusal, running
<1>6. CASE CompileFails \/ Compile \/ Fail
    BY <1>6 DEF CompileFails, Compile, Fail, Answer, running
<1>7. CASE StartProgram
    BY <1>7 DEF StartProgram
<1>8. CASE ProgramExits \/ Wait
    BY <1>8 DEF ProgramExits, Wait
<1>9. CASE \E s \in Streams : ReaderReturns(s)
    BY <1>1, <1>9 DEF ReaderReturns
<1>10. CASE Collect
    BY <1>1, <1>10 DEF Collect
<1>11. CASE Finish
    BY <1>1, <1>11 DEF Finish, Answer
<1>12. CASE Signal
    BY <1>12 DEF Signal, running
<1> QED
    BY <1>2, <1>3, <1>4, <1>5, <1>6, <1>7, <1>8, <1>9, <1>10, <1>11, <1>12 DEF Next, Run

LEMMA ProcessInvariance == Spec => []PInv
<1>1. Init => ProcessOfJob
    BY DEF Init, ProcessOfJob
<1>2. PInv /\ [Next]_vars => ProcessOfJob'
    BY ProcessStaysOfJob
<1> QED
    BY <1>1, <1>2, Invariance, PTL DEF Spec, PInv

\* Run never waits for a program that was not started or a log that nobody
\* hands over: a job that is being run goes on.
THEOREM JobsGoOn == Spec => []JobGoesOn
<1>1. PInv => JobGoesOn
    <2> SUFFICES ASSUME PInv, runner # "receive"
                 PROVE  \/ RunnerGoesOn \/ process = "running"
                        \/ \E s \in Streams : ReaderGoesOn(s)
        BY DEF JobGoesOn
    <2>1. runner \in {"receive", "start", "compile", "run", "wait", "out", "err", "signal"}
        BY DEF PInv, IInv, ResponseIsOwn, TypeOK
    <2>2. handler[job] = "waiting"
        BY JobHasSource DEF PInv
    <2> QED
        BY <2>1, <2>2 DEF PInv, ProcessOfJob, RunnerGoesOn, ReaderGoesOn, Streams
<1> QED
    BY <1>1, ProcessInvariance, PTL

-----------------------------------------------------------------------------
(* Every request is answered.  A step of the runner's path is left by the  *)
(* step that fairness promises, and by no other; so the runner is back at  *)
(* the channel again and again, and a client that waits there is served.   *)

\* What leaves the runner where it is.
Elsewhere ==
    \/ UNCHANGED vars
    \/ \E c \in Clients : Receive(c) \/ \E s \in Sources : Request(c, s)
    \/ ProgramExits
    \/ \E s \in Streams : ReaderReturns(s)

LEMMA ElsewhereKeepsRunner ==
    ASSUME Elsewhere, runner # "receive"
    PROVE  /\ runner' = runner
           /\ process' = process \/ (process = "running" /\ process' = "exited")
BY DEF Elsewhere, vars, Receive, Request, running, ProgramExits, ReaderReturns

\* The steps in which the runner needs nobody.
LEMMA RunnerAlone ==
    ASSUME PInv, [Next]_vars
    PROVE  /\ runner = "start" => runner' \in {"start", "compile", "signal"}
           /\ runner = "compile" => runner' \in {"compile", "run", "signal", "receive"}
           /\ runner = "run" => runner' \in {"run", "wait", "receive"}
           /\ runner = "signal" => runner' \in {"signal", "receive"}
<1> USE ElsewhereKeepsRunner DEF Elsewhere
<1>1. CASE Elsewhere
    BY <1>1
<1>2. CASE Run
    BY <1>2 DEF Run, RefuseLong, CacheHit, Prepare, CompileFails, Compile, StartProgram,
                Wait, Collect, Finish, Signal, Answer, AfterRefusal
<1>3. CASE Fail
    BY <1>3 DEF Fail
<1> QED
    BY <1>1, <1>2, <1>3 DEF Next

LEMMA RunLeaves ==
    ASSUME PInv, <<Run>>_vars
    PROVE  /\ runner = "start" => runner' \in {"compile", "signal"}
           /\ runner = "compile" => runner' \in {"run", "signal"}
           /\ runner = "run" => runner' = "wait"
           /\ runner = "wait" => runner' = "out"
           /\ runner = "out" => runner' = "err"
           /\ runner = "err" => runner' = "signal"
           /\ runner = "signal" => runner' = "receive"
BY DEF Run, RefuseLong, CacheHit, Prepare, CompileFails, Compile, StartProgram,
       Wait, Collect, Finish, Signal, Answer, AfterRefusal

\* The steps in which the runner waits for the program and its readers.
LEMMA RunnerWaits ==
    ASSUME PInv, [Next]_vars
    PROVE  /\ runner = "wait" =>
                \/ runner' = "wait" /\ (process = "exited" => process' = "exited")
                \/ runner' = "out"
           /\ runner = "out" =>
                \/ runner' = "out" /\ (reader["out"] = "sending" => reader'["out"] = "sending")
                \/ runner' = "err"
           /\ runner = "err" =>
                \/ runner' = "err" /\ (reader["err"] = "sending" => reader'["err"] = "sending")
                \/ runner' = "signal"
<1>1. reader \in [Streams -> {"none", "reading", "sending"}]
    BY DEF PInv, IInv, ResponseIsOwn, TypeOK
<1>2. CASE Elsewhere
    <2>1. \/ reader' = reader
          \/ \E s \in Streams : reader[s] = "reading" /\ reader' = [reader EXCEPT ![s] = "sending"]
        BY <1>2 DEF Elsewhere, vars, Receive, Request, running, ProgramExits, ReaderReturns
    <2>2. \A s \in Streams : reader[s] = "sending" => reader'[s] = "sending"
        BY <1>1, <2>1
    <2> QED
        BY <1>2, <2>2, ElsewhereKeepsRunner DEF Streams
<1>3. CASE Run
    BY <1>3 DEF Run, RefuseLong, CacheHit, Prepare, CompileFails, Compile, StartProgram,
                Wait, Collect, Finish, Signal, Answer, AfterRefusal
<1>4. CASE Fail
    BY <1>4 DEF Fail
<1> QED
    BY <1>2, <1>3, <1>4 DEF Next, Elsewhere

\* What is assumed of a behavior: the fairness of the server, and that what the
\* guards let go on is enabled (an invariant that TLC evaluates).
LivelySpec == FairSpec /\ []GoingOnIsEnabled

\* A step of the runner that waits for nobody is left.
LEMMA RunnerAloneLeaves ==
    LivelySpec => /\ runner = "start" ~> runner \in {"compile", "signal"}
                  /\ runner = "compile" ~> runner \in {"run", "signal", "receive"}
                  /\ runner = "run" ~> runner \in {"wait", "receive"}
                  /\ runner = "signal" ~> runner = "receive"
<1> DEFINE Next2 == PInv /\ [Next]_vars
           Run2  == PInv /\ <<Run>>_vars
<1>1. PInv /\ GoingOnIsEnabled /\ runner \in {"start", "compile", "run", "signal"}
        => ENABLED <<Run>>_vars
    BY JobHasSource DEF PInv, GoingOnIsEnabled, RunnerGoesOn
<1>2. LivelySpec => []PInv /\ [][Next]_vars /\ WF_vars(Run) /\ []GoingOnIsEnabled
    BY ProcessInvariance, PTL DEF LivelySpec, FairSpec, Spec, Fairness
<1>3. LivelySpec => (runner = "start" ~> runner \in {"compile", "signal"})
    <2>1. Next2 /\ runner = "start" => (runner = "start" \/ runner \in {"compile", "signal"})'
        BY RunnerAlone
    <2>2. Run2 /\ runner = "start" => (runner \in {"compile", "signal"})'
        BY RunLeaves
    <2>3. runner = "start" => runner \in {"start", "compile", "run", "signal"}
        OBVIOUS
    <2> QED
        BY <1>1, <1>2, <2>1, <2>2, <2>3, PTL
<1>4. LivelySpec => (runner = "compile" ~> runner \in {"run", "signal", "receive"})
    <2>1. Next2 /\ runner = "compile"
            => (runner = "compile" \/ runner \in {"run", "signal", "receive"})'
        BY RunnerAlone
    <2>2. Run2 /\ runner = "compile" => (runner \in {"run", "signal", "receive"})'
        BY RunLeaves
    <2>3. runner = "compile" => runner \in {"start", "compile", "run", "signal"}
        OBVIOUS
    <2> QED
        BY <1>1, <1>2, <2>1, <2>2, <2>3, PTL
<1>5. LivelySpec => (runner = "run" ~> runner \in {"wait", "receive"})
    <2>1. Next2 /\ runner = "run" => (runner = "run" \/ runner \in {"wait", "receive"})'
        BY RunnerAlone
    <2>2. Run2 /\ runner = "run" => (runner \in {"wait", "receive"})'
        BY RunLeaves
    <2>3. runner = "run" => runner \in {"start", "compile", "run", "signal"}
        OBVIOUS
    <2> QED
        BY <1>1, <1>2, <2>1, <2>2, <2>3, PTL
<1>6. LivelySpec => (runner = "signal" ~> runner = "receive")
    <2>1. Next2 /\ runner = "signal" => (runner = "signal" \/ runner = "receive")'
        BY RunnerAlone
    <2>2. Run2 /\ runner = "signal" => (runner = "receive")'
        BY RunLeaves
    <2>3. runner = "signal" => runner \in {"start", "compile", "run", "signal"}
        OBVIOUS
    <2> QED
        BY <1>1, <1>2, <2>1, <2>2, <2>3, PTL
<1> QED
    BY <1>3, <1>4, <1>5, <1>6

\* The program that the runner waits for ends.
LEMMA ProgramIsWaitedFor ==
    LivelySpec => (runner = "wait" ~> runner = "out")
<1> DEFINE Runs  == runner = "wait" /\ process = "running"
           Ended == runner = "wait" /\ process = "exited"
<1>1. LivelySpec => []PInv /\ [][Next]_vars /\ []GoingOnIsEnabled
    BY ProcessInvariance, PTL DEF LivelySpec, FairSpec, Spec
<1>2. LivelySpec => WF_vars(Run) /\ WF_vars(ProgramExits)
    BY PTL DEF LivelySpec, FairSpec, Fairness
<1>3. PInv /\ runner = "wait" => Runs \/ Ended
    BY DEF PInv, ProcessOfJob
<1>4. LivelySpec => (Runs ~> Ended \/ runner = "out")
    <2>1. PInv /\ PInv' /\ [Next]_vars /\ Runs => (Runs \/ Ended \/ runner = "out")'
        BY RunnerWaits DEF PInv, ProcessOfJob
    <2>2. PInv /\ PInv' /\ [Next]_vars /\ <<ProgramExits>>_vars /\ Runs => Ended'
        BY DEF ProgramExits
    <2>3. GoingOnIsEnabled /\ Runs => ENABLED <<ProgramExits>>_vars
        BY DEF GoingOnIsEnabled
    <2> HIDE DEF Runs, Ended
    <2> QED
        BY <1>1, <1>2, <2>1, <2>2, <2>3, PTL
<1>5. LivelySpec => (Ended ~> runner = "out")
    <2>1. PInv /\ [Next]_vars /\ Ended => (Ended \/ runner = "out")'
        BY RunnerWaits
    <2>2. PInv /\ <<Run>>_vars /\ Ended => (runner = "out")'
        BY RunLeaves
    <2>3. GoingOnIsEnabled /\ Ended => ENABLED <<Run>>_vars
        BY DEF GoingOnIsEnabled, RunnerGoesOn
    <2> HIDE DEF Runs, Ended
    <2> QED
        BY <1>1, <1>2, <2>1, <2>2, <2>3, PTL
<1> HIDE DEF Runs, Ended
<1> QED
    BY <1>1, <1>3, <1>4, <1>5, PTL

\* The runner waits for the logs one after the other; a step that waits for a
\* log is named after its stream.
AfterLog(s) == IF s = "out" THEN "err" ELSE "signal"

LogIsTaken(s) == runner = s ~> runner = AfterLog(s)

LEMMA LogsAreTaken ==
    LivelySpec => \A s \in Streams : LogIsTaken(s)
<1> SUFFICES ASSUME NEW s \in Streams PROVE LivelySpec => LogIsTaken(s)
    OBVIOUS
<1> DEFINE Reads == runner = s /\ reader[s] = "reading"
           Sends == runner = s /\ reader[s] = "sending"
<1>1. LivelySpec => []PInv /\ [][Next]_vars /\ []GoingOnIsEnabled
    BY ProcessInvariance, PTL DEF LivelySpec, FairSpec, Spec
<1>2. LivelySpec => WF_vars(Run)
    BY PTL DEF LivelySpec, FairSpec, Fairness
<1>3. LivelySpec => FairReader(s)
    <2>1. FairReaders => FairReader(s)
        BY DEF FairReaders
    <2> QED
        BY <2>1, PTL DEF LivelySpec, FairSpec, Fairness
<1>4. PInv /\ runner = s => Reads \/ Sends
    BY DEF PInv, ProcessOfJob, Streams
<1>5. PInv /\ PInv' /\ [Next]_vars /\ Reads => (Reads \/ Sends \/ runner = AfterLog(s))'
    BY RunnerWaits DEF PInv, ProcessOfJob, Streams, AfterLog
<1>6. PInv /\ [Next]_vars /\ Sends => (Sends \/ runner = AfterLog(s))'
    BY RunnerWaits DEF Streams, AfterLog
<1>7. PInv /\ <<ReaderReturns(s)>>_vars /\ Reads => Sends'
    <2> SUFFICES ASSUME PInv, <<ReaderReturns(s)>>_vars, Reads PROVE Sends'
        OBVIOUS
    <2>1. reader \in [Streams -> {"none", "reading", "sending"}]
        BY DEF PInv, IInv, ResponseIsOwn, TypeOK
    <2> QED
        BY <2>1 DEF ReaderReturns
<1>8. PInv /\ <<Run>>_vars /\ Sends => (runner = AfterLog(s))'
    BY RunLeaves DEF Streams, AfterLog
<1>9. PInv /\ GoingOnIsEnabled /\ Reads => ENABLED <<ReaderReturns(s)>>_vars
    <2>1. PInv /\ Reads => ReaderGoesOn(s)
        BY DEF ReaderGoesOn, PInv, ProcessOfJob, Streams
    <2>2. GoingOnIsEnabled /\ ReaderGoesOn(s) => ENABLED <<ReaderReturns(s)>>_vars
        BY DEF GoingOnIsEnabled
    <2> QED
        BY <2>1, <2>2
<1>10. GoingOnIsEnabled /\ Sends => ENABLED <<Run>>_vars
    BY DEF GoingOnIsEnabled, RunnerGoesOn, Streams
<1> HIDE DEF Reads, Sends
<1>11. LivelySpec => (Reads ~> Sends \/ runner = AfterLog(s))
    BY <1>1, <1>3, <1>5, <1>7, <1>9, PTL DEF FairReader
<1>12. LivelySpec => (Sends ~> runner = AfterLog(s))
    BY <1>1, <1>2, <1>6, <1>8, <1>10, PTL
<1> QED
    BY <1>1, <1>4, <1>11, <1>12, PTL DEF LogIsTaken

LEMMA RunnerWaitsNotForEver ==
    LivelySpec => /\ runner = "wait" ~> runner = "out"
                  /\ runner = "out" ~> runner = "err"
                  /\ runner = "err" ~> runner = "signal"
<1>1. (\A s \in Streams : LogIsTaken(s)) => LogIsTaken("out") /\ LogIsTaken("err")
    BY DEF Streams
<1>2. /\ runner = AfterLog("out") => runner = "err"
      /\ runner = AfterLog("err") => runner = "signal"
    BY DEF AfterLog
<1>3. LivelySpec => LogIsTaken("out") /\ LogIsTaken("err")
    BY <1>1, LogsAreTaken
<1> QED
    BY <1>2, <1>3, ProgramIsWaitedFor, PTL DEF LogIsTaken

\* The runner comes back to the channel from wherever it is.
LEMMA RunnerReturns ==
    LivelySpec => []<>(runner = "receive")
<1>1. PInv => \/ runner = "receive" \/ runner = "start" \/ runner = "compile"
              \/ runner = "run" \/ runner = "wait" \/ runner = "out"
              \/ runner = "err" \/ runner = "signal"
    BY DEF PInv, IInv, ResponseIsOwn, TypeOK
<1>2. LivelySpec => []PInv
    BY ProcessInvariance DEF LivelySpec, FairSpec
<1>3. /\ runner \in {"compile", "signal"} => runner = "compile" \/ runner = "signal"
      /\ runner \in {"run", "signal", "receive"}
            => runner = "run" \/ runner = "signal" \/ runner = "receive"
      /\ runner \in {"wait", "receive"} => runner = "wait" \/ runner = "receive"
    OBVIOUS
<1> QED
    BY <1>1, <1>2, <1>3, RunnerAloneLeaves, RunnerWaitsNotForEver, PTL

\* A job belongs to its client until the client is told.
LEMMA JobStaysOfClient ==
    ASSUME NEW c \in Clients, PInv, [Next]_vars
    PROVE  /\ job = c => (job = c \/ handler[c] = "finished" \/ faulty)'
           /\ handler[c] = "sending" => (handler[c] = "sending" \/ job = c)'
<1>1. /\ handler \in [Clients -> {"idle", "sending", "waiting", "finished"}]
      /\ c # None
    BY PlaygroundAssumption DEF PInv, IInv, ResponseIsOwn, TypeOK
<1>2. handler[c] = "sending" => job # c
    BY <1>1 DEF PInv, IInv, JobWaits
<1>3. job = c => handler[c] = "waiting" /\ runner # "receive"
    BY <1>1 DEF PInv, IInv, JobWaits
<1>4. CASE UNCHANGED vars
    BY <1>4 DEF vars
<1>5. ASSUME NEW d \in Clients, NEW s \in Sources, Request(d, s)
      PROVE  /\ job' = job
             /\ handler[c] = "sending" => handler'[c] = "sending"
    BY <1>1, <1>5 DEF Request
<1>6. ASSUME NEW d \in Clients, Receive(d)
      PROVE  /\ job = c => FALSE
             /\ handler[c] = "sending" => handler'[c] = "sending" \/ job' = c
    BY <1>1, <1>3, <1>6 DEF Receive
<1>7. CASE Signal
    BY <1>1, <1>2, <1>7 DEF Signal
<1>8. CASE Fail
    BY <1>8 DEF Fail, clients
<1>9. CASE \/ RefuseLong \/ CacheHit \/ Prepare \/ CompileFails \/ Compile \/ StartProgram
           \/ Wait \/ Collect \/ Finish \/ ProgramExits \/ \E s \in Streams : ReaderReturns(s)
    BY <1>9 DEF RefuseLong, CacheHit, Prepare, CompileFails, Compile, StartProgram,
                Wait, Collect, Finish, ProgramExits, ReaderReturns, Answer, clients
<1> QED
    BY <1>4, <1>5, <1>6, <1>7, <1>8, <1>9 DEF Next, Run

\* "any value here when finished": every request is answered, whatever the
\* other clients do, unless pipes and processes may fail to be created.
THEOREM RequestsAreAnswered ==
    FairSpec /\ []GoingOnIsEnabled => EveryRequestIsAnswered
<1> SUFFICES ASSUME NEW c \in Clients PROVE LivelySpec => IsAnswered(c)
    BY DEF LivelySpec, EveryRequestIsAnswered
<1>1. LivelySpec => []PInv /\ [][Next]_vars /\ []GoingOnIsEnabled
    BY ProcessInvariance, PTL DEF LivelySpec, FairSpec, Spec
\* The channel: the client is taken when the runner is there often enough.
<1>2. LivelySpec => (handler[c] = "sending" ~> job = c)
    <2>1. LivelySpec => IsServed(c)
        <3>1. FairChannel => IsServed(c)
            BY DEF FairChannel
        <3> QED
            BY <3>1, PTL DEF LivelySpec, FairSpec, Fairness
    <2>2. PInv /\ [Next]_vars /\ handler[c] = "sending"
            => (handler[c] = "sending" \/ job = c)'
        BY JobStaysOfClient
    <2>3. <<Receive(c)>>_vars => (job = c)'
        BY DEF Receive
    <2>4. GoingOnIsEnabled /\ runner = "receive" /\ handler[c] = "sending"
            => ENABLED <<Receive(c)>>_vars
        BY DEF GoingOnIsEnabled
    <2> QED
        BY <1>1, <2>1, <2>2, <2>3, <2>4, RunnerReturns, PTL DEF IsServed
\* The job: when the runner is back at the channel, the client was told.
<1>3. LivelySpec => (job = c ~> handler[c] = "finished" \/ faulty)
    <2>1. PInv /\ [Next]_vars /\ job = c => (job = c \/ handler[c] = "finished" \/ faulty)'
        BY JobStaysOfClient
    <2>2. PInv /\ runner = "receive" => ~(job = c)
        BY PlaygroundAssumption DEF PInv, IInv, JobWaits
    <2> QED
        BY <1>1, <2>1, <2>2, RunnerReturns, PTL
<1> QED
    BY <1>2, <1>3, PTL DEF IsAnswered
=============================================================================
