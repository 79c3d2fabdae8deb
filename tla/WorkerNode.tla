----------------------------- MODULE WorkerNode -----------------------------
(***************************************************************************)
(* What one worker node promises the scheduler, whatever happens inside    *)
(* it: the environment that SchedulerEngine assumes.  A node has at most   *)
(* Capacity open ReserveTask calls and tasks in work together; it reports  *)
(* a task it was handed at most once, and nothing else; a heartbeat counts *)
(* the tasks in work when it is sent.  A delivery is one task handed over  *)
(* by one ReserveTask reply.                                               *)
(***************************************************************************)
EXTENDS Integers, FiniteSets

CONSTANTS
    Deliveries, \* the deliveries of this node
    Capacity    \* WorkerInfo.capacity

VARIABLES
    calls,    \* number of open ReserveTask calls
    working,  \* deliveries in work
    reported, \* deliveries the scheduler has a report of
    load      \* running_tasks of the last heartbeat

nodeVars == <<calls, working, reported, load>>

Init ==
    /\ calls = 0
    /\ working = {}
    /\ reported = {}
    /\ load = 0

Call ==
    /\ calls + Cardinality(working) < Capacity
    /\ calls' = calls + 1
    /\ UNCHANGED <<working, reported, load>>

Receive(d) ==
    /\ calls > 0
    /\ d \notin working \cup reported
    /\ calls' = calls - 1
    /\ working' = working \cup {d}
    /\ UNCHANGED <<reported, load>>

Report(d) ==
    /\ d \in working
    /\ working' = working \ {d}
    /\ reported' = reported \cup {d}
    /\ UNCHANGED <<calls, load>>

\* Calls end without a task, and tasks are given up: an empty reply, an RPC
\* error, a cancellation.  The reports R of some may have arrived all the same.
GiveUp(n, S, R) ==
    /\ calls' = calls - n
    /\ working' = working \ S
    /\ reported' = reported \cup R
    /\ UNCHANGED load

Beat ==
    /\ load' = Cardinality(working)
    /\ UNCHANGED <<calls, working, reported>>

Next ==
    \/ Call
    \/ \E d \in Deliveries : Receive(d) \/ Report(d)
    \/ \E n \in 0 .. calls, S \in SUBSET working : \E R \in SUBSET S : GiveUp(n, S, R)
    \/ Beat

Spec == Init /\ [][Next]_nodeVars

=============================================================================
