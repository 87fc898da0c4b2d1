------------------------------ MODULE Playground ------------------------------
(***************************************************************************)
(* The playground server (contrib/playground/main.go): one goroutine per   *)
(* HTTP request hands its job to a single runner over a channel without a  *)
(* buffer and waits on the job's own channel.  The runner compiles and     *)
(* runs the job in one folder that all jobs share, with two goroutines     *)
(* that read the output of the program, and caches what it answered.       *)
(***************************************************************************)
EXTENDS Naturals, FiniteSets

CONSTANTS Clients,      \* connections, each making one request after another
          Sources,      \* the texts of programs
          TooLong,      \* those longer than KMaxRequestLength
          Wrong,        \* those that do not compile
          None,         \* no source, no response
          MaxRequests   \* bound on the requests of a client

ASSUME PlaygroundAssumption ==
    /\ TooLong \subseteq Sources /\ Wrong \subseteq Sources
    /\ None \notin Sources \cup Clients
    /\ MaxRequests \in Nat

VARIABLES faulty,    \* pipes and processes may fail to be created
          handler,   \* the request goroutine of a client
          request,   \* Job.Request.Source
          response,  \* what was written to the client
          made,      \* requests the client has made
          runner,    \* where JobRunner.Run is; "receive" between jobs
          job,       \* the client whose job it runs
          folder,    \* main.ey in JobRunner.Path
          exe,       \* the source out.exe was built from
          cached,    \* JobRunner.CachedResponses
          process,   \* the program that is run: "none", "running", "exited"
          reader,    \* the goroutines that read stdout and stderr
          closed,    \* runCmd.Wait has closed both pipes
          whole      \* what the readers returned is all that was written

clients == <<handler, request, response, made>>
files   == <<folder, exe>>
running == <<process, reader, closed, whole>>
vars == <<faulty, handler, request, response, made, runner, job, folder, exe, cached,
          process, reader, closed, whole>>

Streams   == {"out", "err"}
\* of: the source whose program produced the log
Responses == [ok : BOOLEAN, of : Sources, whole : BOOLEAN]

TypeOK ==
    /\ faulty \in BOOLEAN
    /\ handler \in [Clients -> {"idle", "sending", "waiting", "finished"}]
    /\ request \in [Clients -> Sources \cup {None}]
    /\ response \in [Clients -> Responses \cup {None}]
    /\ made \in [Clients -> 0..MaxRequests]
    /\ runner \in {"receive", "start", "compile", "run", "wait", "out", "err", "signal"}
    /\ job \in Clients \cup {None}
    /\ folder \in Sources \cup {None} /\ exe \in Sources \cup {None}
    /\ cached \in [Sources -> Responses \cup {None}]
    /\ process \in {"none", "running", "exited"}
    /\ reader \in [Streams -> {"none", "reading", "sending"}]
    /\ closed \in BOOLEAN /\ whole \in BOOLEAN

\* NewServer, RunJobsInBackground
Init ==
    /\ faulty \in BOOLEAN
    /\ handler = [c \in Clients |-> "idle"]
    /\ request = [c \in Clients |-> None] /\ response = [c \in Clients |-> None]
    /\ made = [c \in Clients |-> 0]
    /\ runner = "receive" /\ job = None
    /\ folder = None /\ exe = None
    /\ cached = [s \in Sources |-> None]
    /\ process = "none" /\ reader = [s \in Streams |-> "none"]
    /\ closed = FALSE /\ whole = TRUE

Source == request[job]
Refusal == [ok |-> FALSE, of |-> Source, whole |-> TRUE]

-----------------------------------------------------------------------------
(* ServeHTTP                                                               *)

Request(c, s) ==
    /\ handler[c] \in {"idle", "finished"} /\ made[c] < MaxRequests
    /\ handler' = [handler EXCEPT ![c] = "sending"]
    /\ request' = [request EXCEPT ![c] = s]
    /\ response' = [response EXCEPT ![c] = None]
    /\ made' = [made EXCEPT ![c] = @ + 1]
    /\ UNCHANGED <<faulty, runner, job, files, cached, running>>

\* s.JobChannel <- job meets job := <-s.JobChannel
Receive(c) ==
    /\ runner = "receive" /\ handler[c] = "sending"
    /\ handler' = [handler EXCEPT ![c] = "waiting"]
    /\ job' = c /\ runner' = "start"
    /\ UNCHANGED <<faulty, request, response, made, files, cached, running>>

\* j.Done <- true meets _ = <-job.Done
Signal ==
    /\ runner = "signal" /\ handler[job] = "waiting"
    /\ handler' = [handler EXCEPT ![job] = "finished"]
    /\ runner' = "receive" /\ job' = None
    /\ UNCHANGED <<faulty, request, response, made, files, cached, running>>

-----------------------------------------------------------------------------
(* JobRunner.Run                                                           *)

\* The response r is encoded and written, and the runner goes on at next.
Answer(r, next) ==
    /\ response' = [response EXCEPT ![job] = r]
    /\ runner' = next
    /\ UNCHANGED <<faulty, handler, request, made, job>>

\* Mutant of AfterRefusal: an early return that does not signal.
AfterRefusalReturn == "receive"

AfterRefusal == "signal"

RefuseLong ==
    /\ runner = "start" /\ Source \in TooLong
    /\ Answer(Refusal, AfterRefusal)
    /\ UNCHANGED <<faulty, files, cached, running>>

CacheHit ==
    /\ runner = "start" /\ Source \notin TooLong /\ cached[Source] # None
    /\ Answer(cached[Source], "signal")
    /\ UNCHANGED <<faulty, files, cached, running>>

\* Mutant of Written: a main.ey that exists is not written again.
WrittenOnce(s) == IF folder = None THEN s ELSE folder

\* The folder is removed with everything in it, then main.ey is written.
Written(s) == s

Prepare ==
    /\ runner = "start" /\ Source \notin TooLong /\ cached[Source] = None
    /\ folder' = Written(Source) /\ exe' = None
    /\ runner' = "compile"
    /\ UNCHANGED <<faulty, clients, job, cached, running>>

\* No pipe or process: Run returns an error, which the loop only logs.
Fail ==
    /\ faulty /\ runner \in {"compile", "run"}
    /\ runner' = "receive" /\ job' = None
    /\ UNCHANGED <<faulty, clients, files, cached, running>>

\* Mutant of Remembered: a failed compilation is cached as well.
RememberedAlways(r) == [cached EXCEPT ![Source] = r]

Remembered(r) == IF r.ok THEN [cached EXCEPT ![Source] = r] ELSE cached

CompileFails ==
    /\ runner = "compile" /\ folder \in Wrong
    /\ Answer(Refusal, "signal")
    /\ cached' = Remembered(Refusal)
    /\ UNCHANGED <<faulty, files, running>>

Compile ==
    /\ runner = "compile" /\ folder \notin Wrong
    /\ exe' = folder /\ runner' = "run"
    /\ UNCHANGED <<faulty, clients, job, folder, cached, running>>

StartProgram ==
    /\ runner = "run"
    /\ process' = "running" /\ reader' = [s \in Streams |-> "reading"]
    /\ closed' = FALSE /\ whole' = TRUE
    /\ runner' = "wait"
    /\ UNCHANGED <<faulty, clients, job, files, cached>>

\* The program ends by itself, or "timeout 10s" ends it.
ProgramExits ==
    /\ process = "running" /\ process' = "exited"
    /\ UNCHANGED <<faulty, clients, runner, job, files, cached, reader, closed, whole>>

\* io.ReadAll returns at the end of the output, or where it was when the pipe
\* was closed: the rest of the output is lost.
ReaderReturns(s) ==
    /\ reader[s] = "reading" /\ process = "exited"
    /\ reader' = [reader EXCEPT ![s] = "sending"]
    /\ whole' \in IF closed THEN {whole, FALSE} ELSE {whole}
    /\ UNCHANGED <<faulty, clients, runner, job, files, cached, process, closed>>

\* runCmd.Wait closes the pipes once the program has ended.
Wait ==
    /\ runner = "wait" /\ process = "exited"
    /\ closed' = TRUE /\ runner' = "out"
    /\ UNCHANGED <<faulty, clients, job, files, cached, process, reader, whole>>

Collect ==
    /\ runner = "out" /\ reader["out"] = "sending"
    /\ reader' = [reader EXCEPT !["out"] = "none"]
    /\ runner' = "err"
    /\ UNCHANGED <<faulty, clients, job, files, cached, process, closed, whole>>

Finish ==
    /\ runner = "err" /\ reader["err"] = "sending"
    /\ reader' = [reader EXCEPT !["err"] = "none"] /\ process' = "none"
    /\ LET r == [ok |-> TRUE, of |-> exe, whole |-> whole]
       IN  cached' = Remembered(r) /\ Answer(r, "signal")
    /\ UNCHANGED <<faulty, files, closed, whole>>

-----------------------------------------------------------------------------
Run == RefuseLong \/ CacheHit \/ Prepare \/ CompileFails \/ Compile \/ StartProgram
       \/ Wait \/ Collect \/ Finish \/ Signal

Next == \/ \E c \in Clients : Receive(c) \/ \E s \in Sources : Request(c, s)
        \/ Run \/ Fail
        \/ ProgramExits
        \/ \E s \in Streams : ReaderReturns(s)

Spec == Init /\ [][Next]_vars

\* Goroutines are scheduled, "timeout" ends a program, the compiler ends, and
\* a Go channel serves blocked senders in the order in which they arrived.
FairReader(s) == WF_vars(ReaderReturns(s))
FairReaders   == \A s \in Streams : FairReader(s)

IsServed(c) == SF_vars(Receive(c))
FairChannel == \A c \in Clients : IsServed(c)

Fairness == WF_vars(Run) /\ WF_vars(ProgramExits) /\ FairReaders /\ FairChannel

FairSpec == Spec /\ Fairness

-----------------------------------------------------------------------------
(* Correctness                                                             *)

\* Where the runner waits for nobody, or for somebody who is ready.
RunnerGoesOn ==
    \/ runner \in {"start", "compile", "run"}
    \/ runner = "wait" /\ process = "exited"
    \/ runner = "out" /\ reader["out"] = "sending"
    \/ runner = "err" /\ reader["err"] = "sending"
    \/ runner = "signal" /\ handler[job] = "waiting"

ReaderGoesOn(s) == reader[s] = "reading" /\ process = "exited"

\* A job that is being run is never stuck: what the runner waits for is a
\* program that runs, or a reader that was started for this very program and
\* has not handed over its log; and nobody waits for the runner's signal but
\* the client of the job.
JobGoesOn ==
    runner # "receive" =>
        RunnerGoesOn \/ process = "running" \/ \E s \in Streams : ReaderGoesOn(s)

\* What fairness needs, read off the guards: where somebody goes on, the program
\* has a step for it, as the tests of the runner leave out no case.  The
\* hypothesis of the theorem on liveness.
GoingOnIsEnabled ==
    /\ RunnerGoesOn => ENABLED <<Run>>_vars
    /\ process = "running" => ENABLED <<ProgramExits>>_vars
    /\ \A s \in Streams : ReaderGoesOn(s) => ENABLED <<ReaderReturns(s)>>_vars
    /\ \A c \in Clients :
        runner = "receive" /\ handler[c] = "sending" => ENABLED <<Receive(c)>>_vars

\* A client is told about the program it sent, although all programs are built
\* in the same folder and readers of the program before may be late.
ResponseIsOwn ==
    /\ TypeOK
    /\ \A c \in Clients : response[c] # None =>
        /\ response[c].of = request[c]
        /\ response[c].ok <=> request[c] \notin TooLong \cup Wrong

\* Only runs are cached, and under the source that was run.
CacheIsSound ==
    \A s \in Sources : cached[s] # None => cached[s].ok /\ cached[s].of = s

\* "any value here when finished" (main.go:55): every request is answered, as
\* long as pipes and processes can be created.  (Otherwise Run returns an error
\* that its caller only logs, and the request waits for ever.)
IsAnswered(c) == handler[c] = "sending" ~> (handler[c] = "finished" \/ faulty)

EveryRequestIsAnswered == \A c \in Clients : IsAnswered(c)
=============================================================================
