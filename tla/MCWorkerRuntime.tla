-------------------------- MODULE MCWorkerRuntime ---------------------------
(* Instance of WorkerRuntime for TLC: a task of each kind on two slots.    *)
EXTENDS WorkerRuntime, TLC

CONSTANTS d1, d2, d3, c1, c2

MCKind == d1 :> "io" @@ d2 :> "cpu" @@ d3 :> "async"
=============================================================================
