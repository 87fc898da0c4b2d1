----------------------------- MODULE MCCpuWorker ------------------------------
(* Two callers of one worker: both may receive and drain, or only one of them *)
(* does and the other one sends; the worker's function returns a value or     *)
(* nothing; the collector keeps the worker while it is used or does not.      *)
EXTENDS CpuWorker
CONSTANTS a, b

MCCallers == {a, b}
MCSettings == {s \in Setting : s.consumers \in {{a}, {a, b}}}
=============================================================================
