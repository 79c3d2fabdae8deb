------------------------ MODULE WorkerRuntime_proofs -------------------------
(* Proofs about one worker node: its executions, its pools, and that it keeps *)
(* the promises of WorkerNode, for any tasks, capacity and pool sizes.        *)
EXTENDS WorkerRuntime, FiniteSetTheorems, TLAPS

\* Positions of a job.
Positions == OnLoop \cup {"none", "queued", "fetched", "running", "ended", "cancelled"}

\* The types, without the sizes of the pools.
TypeInv ==
    /\ main \in {"register", "wait", "drain", "join", "closed", "raised", "exited"}
    /\ stop \in BOOLEAN
    /\ heart \in Loops \cup {"beat", "register", "sleep"}
    /\ told \in 0 .. Capacity
    /\ consumer \in [Consumers -> Loops \cup {"reserve", "sleep", "call", "report"}]
    /\ delivery \in [Consumers -> Deliveries \cup {None}]
    /\ job \in [Deliveries -> Positions]
    /\ puts \in [tasks : Nat, results : Nat]
    /\ reported \subseteq Deliveries

\* What makes CallAwaited inductive: no loop exists before the registration, and
\* a delivery that is held or reported has been handed to a pool or the loop, so
\* a reply never brings it again.
HandedOver ==
    /\ main = "register" => \A c \in Consumers : consumer[c] = "none"
    /\ \A c \in Consumers : delivery[c] # None => job[delivery[c]] # "none"
    /\ \A d \in reported : job[d] # "none"

NodeInv == TypeInv /\ CallAwaited /\ HandedOver

-----------------------------------------------------------------------------
(* Types *)

\* The number of executions is a legal heartbeat.
LEMMA RunningBounded ==
    /\ IsFiniteSet(Running)
    /\ Cardinality(Running) \in 0 .. Capacity
  <1>1. Running \in SUBSET Consumers /\ IsFiniteSet(Consumers)
    BY NodeAssumption DEF Running
  <1>2. /\ IsFiniteSet(Running) /\ Cardinality(Running) <= Cardinality(Consumers)
        /\ Cardinality(Running) \in Nat /\ Cardinality(Consumers) \in Nat
    BY <1>1, FS_Subset, FS_CardinalityType
  <1> QED BY <1>2 DEF Capacity

\* A node that has not registered yet satisfies the invariant.
LEMMA NodeInit == Init => NodeInv
  <1> SUFFICES ASSUME Init PROVE NodeInv
    OBVIOUS
  <1>1. Capacity \in Nat
    BY NodeAssumption, FS_CardinalityType DEF Capacity
  <1>2. stop \in BOOLEAN /\ puts \in [tasks : Nat, results : Nat]
    BY DEF Init
  <1>3. TypeInv
    BY <1>1, <1>2 DEF Init, TypeInv, Loops, Positions
  <1> QED BY <1>3 DEF Init, NodeInv, CallAwaited, HandedOver, Running

\* What is held: a running execution has a task, and no other loop the same.
LEMMA HeldTask ==
    ASSUME NodeInv, NEW c \in Running
    PROVE  /\ c \in Consumers
           /\ delivery[c] \in Deliveries \ reported
           /\ \A b \in Consumers \ {c} : delivery[b] # delivery[c]
  BY DEF NodeInv, TypeInv, CallAwaited, Running

\* Every step keeps the types.
LEMMA TypeStep == NodeInv /\ [Next]_runtimeVars => TypeInv'
  <1> SUFFICES ASSUME NodeInv, [Next]_runtimeVars PROVE TypeInv'
    OBVIOUS
  <1>0. TypeInv
    BY DEF NodeInv
  <1> USE <1>0 DEF TypeInv, loops, executions, Loops, Positions, OnLoop
  <1>1. CASE RegisterOk \/ RegisterError \/ Drain \/ JoinPools \/ Exit \/ RequestShutdown
    BY <1>1 DEF RegisterOk, RegisterError, Drain, JoinPools, Exit, RequestShutdown
  <1>2. CASE CancelConsumers
    <2>1. Cancelled(Running) \in [Deliveries -> Positions]
      BY DEF Cancelled
    <2>2. PICK S \in SUBSET {c \in Running : consumer[c] = "report"} :
             reported' = reported \cup {delivery[c] : c \in S}
      BY <1>2 DEF CancelConsumers
    <2>3. reported' \subseteq Deliveries
      BY <2>2, HeldTask
    <2> QED BY <1>2, <2>1, <2>3 DEF CancelConsumers
  <1>3. CASE HeartLoop
    BY <1>3, RunningBounded DEF HeartLoop
  <1>4. CASE HeartStep
    BY <1>4 DEF HeartStep
  <1>5. ASSUME NEW c \in Consumers,
               \/ ConsumerLoop(c) \/ ReserveNone(c) \/ Resume(c) \/ EndOnLoop(c)
               \/ \E d \in Deliveries : ReserveFound(c, d)
        PROVE  TypeInv'
    BY <1>5 DEF ConsumerLoop, ReserveNone, ReserveFound, Starts, Resume, EndOnLoop
  <1>6. ASSUME NEW c \in Consumers, TimeOut(c) PROVE TypeInv'
    <2>1. Cancelled({c}) \in [Deliveries -> Positions]
      BY DEF Cancelled
    <2> QED BY <1>6, <2>1 DEF TimeOut
  <1>7. ASSUME NEW c \in Consumers, ReportOk(c) \/ ReportError(c) PROVE TypeInv'
    <2>1. delivery[c] \in Deliveries
      BY <1>7, HeldTask DEF ReportOk, ReportError, Running
    <2> QED BY <1>7, <2>1 DEF ReportOk, ReportError
  <1>8. ASSUME NEW d \in Deliveries, Pool(d) \/ EndJob(d) PROVE TypeInv'
    BY <1>8 DEF Pool, StartThread, Fetch, StartProcess, EndJob
  <1>9. CASE UNCHANGED runtimeVars
    BY <1>9 DEF runtimeVars
  <1> QED BY <1>1, <1>2, <1>3, <1>4, <1>5, <1>6, <1>7, <1>8, <1>9 DEF Next, Main, Heart, Consume, GiveUp

-----------------------------------------------------------------------------
(* Executions and their tasks *)

\* Every step keeps what is known of executions: a loop takes a task that was
\* never handed over, lets go of it when it reports or is cancelled, and a call
\* that is awaited ends only together with the wait.
LEMMA AwaitedStep == NodeInv /\ [Next]_runtimeVars => CallAwaited' /\ HandedOver'
  <1> SUFFICES ASSUME NodeInv, [Next]_runtimeVars PROVE CallAwaited' /\ HandedOver'
    OBVIOUS
  <1>0. TypeInv /\ CallAwaited /\ HandedOver /\ None \notin Deliveries
    BY NodeAssumption DEF NodeInv
  <1> USE <1>0 DEF TypeInv, CallAwaited, HandedOver, loops, executions, Loops, Running
  <1> USE DEF Positions
  <1>1. CASE RegisterOk
    BY <1>1 DEF RegisterOk
  <1>2. CASE \/ RegisterError \/ Drain \/ JoinPools \/ Exit \/ RequestShutdown
             \/ HeartLoop \/ HeartStep
    BY <1>2 DEF RegisterError, Drain, JoinPools, Exit, RequestShutdown, HeartLoop, HeartStep
  <1>3. CASE CancelConsumers
    <2>1. /\ \A c \in Consumers :
                \/ /\ consumer'[c] \in {"none", "ended", "failed"} /\ delivery'[c] = None
                \/ /\ Deaf(c) /\ consumer'[c] = "call" /\ delivery'[c] = delivery[c]
          /\ main' = "drain"
      BY <1>3 DEF CancelConsumers, Ended, Deaf
    <2>2. \A d \in Deliveries : /\ job[d] # "none" => job'[d] # "none"
                                /\ job[d] = "stubborn" => job'[d] = "stubborn"
      BY <1>3 DEF CancelConsumers, Cancelled
    <2>3. PICK S \in SUBSET {c \in Running : consumer[c] = "report"} :
             reported' = reported \cup {delivery[c] : c \in S}
      BY <1>3 DEF CancelConsumers
    <2>4. \A d \in reported' : d \in Deliveries /\ job[d] # "none"
      BY <2>3, HeldTask
    <2>5. \A c \in Consumers : Deaf(c) => delivery[c] \notin reported'
      <3> SUFFICES ASSUME NEW c \in Consumers, Deaf(c), delivery[c] \in reported'
                   PROVE  FALSE
        OBVIOUS
      <3>1. c \in Running /\ delivery[c] \notin reported
        BY DEF Deaf
      <3>2. PICK b \in S : delivery[b] = delivery[c]
        BY <2>3, <3>1
      <3>3. b # c /\ b \in Consumers
        BY DEF Deaf
      <3> QED BY <3>1, <3>2, <3>3, HeldTask
    <2>6. \A c \in Consumers : Deaf(c) =>
             /\ delivery[c] \in Deliveries /\ job'[delivery[c]] = "stubborn"
             /\ \A b \in Consumers \ {c} : delivery[b] # delivery[c]
      BY <2>2 DEF Deaf
    <2>7. CallAwaited'
      BY <2>1, <2>5, <2>6
    <2>8. HandedOver'
      BY <2>1, <2>2, <2>4, <2>6
    <2> QED BY <2>7, <2>8
  <1>4. ASSUME NEW c \in Consumers, ConsumerLoop(c) \/ ReserveNone(c)
        PROVE  CallAwaited' /\ HandedOver'
    BY <1>4 DEF ConsumerLoop, ReserveNone
  <1>5. ASSUME NEW c \in Consumers, NEW d \in Deliveries, ReserveFound(c, d)
        PROVE  CallAwaited' /\ HandedOver'
    <2>1. /\ d \notin reported /\ \A b \in Consumers : delivery[b] # d
          /\ main # "register"
      BY <1>5 DEF ReserveFound
    <2>2. \A b \in Consumers \ {c} : consumer'[b] = consumer[b] /\ delivery'[b] = delivery[b]
      BY <1>5 DEF ReserveFound
    <2>3. \A f \in Deliveries \ {d} : job'[f] = job[f]
      BY <1>5 DEF ReserveFound
    <2>4. /\ consumer'[c] = "call" /\ delivery'[c] = d
          /\ job'[d] \in OnLoop \cup {"queued"} /\ UNCHANGED <<main, reported>>
      BY <1>5 DEF ReserveFound, Starts
    <2> QED BY <2>1, <2>2, <2>3, <2>4 DEF OnLoop
  <1>6. ASSUME NEW c \in Consumers, TimeOut(c) PROVE CallAwaited' /\ HandedOver'
    <2>1. /\ consumer[c] = "call" /\ consumer' = [consumer EXCEPT ![c] = "report"]
          /\ UNCHANGED <<main, delivery, reported>>
      BY <1>6 DEF TimeOut
    <2>2. \A d \in Deliveries : /\ d # delivery[c] => job'[d] = job[d]
                                /\ job[d] # "none" => job'[d] # "none"
      BY <1>6 DEF TimeOut, Cancelled
    <2> QED BY <2>1, <2>2
  <1>7. ASSUME NEW c \in Consumers, ReportOk(c) \/ ReportError(c)
        PROVE  CallAwaited' /\ HandedOver'
    <2>1. /\ consumer[c] = "report" /\ consumer'[c] \in {"loop", "failed"}
          /\ delivery'[c] = None /\ reported' \subseteq reported \cup {delivery[c]}
          /\ UNCHANGED <<main, job>>
      BY <1>7 DEF ReportOk, ReportError
    <2>2. \A b \in Consumers \ {c} : consumer'[b] = consumer[b] /\ delivery'[b] = delivery[b]
      BY <1>7 DEF ReportOk, ReportError
    <2> QED BY <2>1, <2>2
  <1>8. ASSUME NEW d \in Deliveries, Pool(d) PROVE CallAwaited' /\ HandedOver'
    BY <1>8 DEF Pool, StartThread, Fetch, StartProcess, InPool
  <1>9. ASSUME NEW d \in Deliveries, EndJob(d) PROVE CallAwaited' /\ HandedOver'
    BY <1>9 DEF EndJob
  <1>11. ASSUME NEW c \in Consumers, Resume(c) PROVE CallAwaited' /\ HandedOver'
    BY <1>11 DEF Resume
  <1>12. ASSUME NEW c \in Consumers, EndOnLoop(c) PROVE CallAwaited' /\ HandedOver'
    <2>1. /\ consumer[c] = "call" /\ consumer' = [consumer EXCEPT ![c] = "report"]
          /\ delivery[c] \in Deliveries /\ job' = [job EXCEPT ![delivery[c]] = "ended"]
          /\ UNCHANGED <<main, delivery, reported>>
      BY <1>12 DEF EndOnLoop
    <2>2. \A d \in Deliveries : /\ d # delivery[c] => job'[d] = job[d]
                                /\ job[d] # "none" => job'[d] # "none"
      BY <2>1
    <2> QED BY <2>1, <2>2
  <1>10. CASE UNCHANGED runtimeVars
    BY <1>10 DEF runtimeVars
  <1> QED BY <1>1, <1>2, <1>3, <1>4, <1>5, <1>6, <1>7, <1>8, <1>9, <1>10,
             <1>11, <1>12
          DEF Next, Main, Heart, Consume, GiveUp

LEMMA NodeStep == NodeInv /\ [Next]_runtimeVars => NodeInv'
  BY TypeStep, AwaitedStep DEF NodeInv

\* A running execution holds a task of its own that nobody has reported, and is
\* never left waiting for a call that was cancelled or has ended.
THEOREM CallIsAwaited == Spec => []CallAwaited
  <1>1. NodeInv => CallAwaited
    BY DEF NodeInv
  <1> QED BY <1>1, NodeInit, NodeStep, PTL DEF Spec

-----------------------------------------------------------------------------
(* The sizes of the pools *)

PoolsWithinSize ==
    /\ Cardinality(InPool("io", "running")) <= Threads
    /\ Cardinality(InPool("cpu", "running")) <= Capacity
    /\ Cardinality(InPool("cpu", "fetched")) <= Capacity + 1

\* A set that was below a bound and takes one element in, or takes none in.
LEMMA WithinBound ==
    ASSUME NEW S, IsFiniteSet(S), NEW T, NEW n \in Nat,
           \/ T \subseteq S /\ Cardinality(S) <= n
           \/ (\E x : T \subseteq S \cup {x}) /\ Cardinality(S) < n
    PROVE  Cardinality(T) <= n
  <1>1. CASE T \subseteq S /\ Cardinality(S) <= n
    <2>1. IsFiniteSet(T) /\ Cardinality(T) <= Cardinality(S)
      BY <1>1, FS_Subset
    <2>2. Cardinality(T) \in Nat /\ Cardinality(S) \in Nat
      BY <2>1, FS_CardinalityType
    <2> QED BY <1>1, <2>1, <2>2
  <1>2. ASSUME NEW x, T \subseteq S \cup {x}, Cardinality(S) < n
        PROVE  Cardinality(T) <= n
    <2>1. /\ IsFiniteSet(S \cup {x})
          /\ Cardinality(S \cup {x}) = Cardinality(S) \/
             Cardinality(S \cup {x}) = Cardinality(S) + 1
      BY FS_AddElement
    <2>2. IsFiniteSet(T) /\ Cardinality(T) <= Cardinality(S \cup {x})
      BY <1>2, <2>1, FS_Subset
    <2>3. Cardinality(T) \in Nat /\ Cardinality(S) \in Nat
      BY <2>2, FS_CardinalityType
    <2> QED BY <1>2, <2>1, <2>2, <2>3
  <1> QED BY <1>1, <1>2

LEMMA PoolsFinite ==
    /\ \A kind, at : IsFiniteSet(InPool(kind, at))
    /\ Capacity \in Nat /\ Capacity + 1 \in Nat
  <1>1. ASSUME NEW kind, NEW at PROVE IsFiniteSet(InPool(kind, at))
    <2>1. InPool(kind, at) \in SUBSET Deliveries
      BY DEF InPool
    <2> QED BY <2>1, NodeAssumption, FS_Subset
  <1>2. Capacity \in Nat
    BY NodeAssumption, FS_CardinalityType DEF Capacity
  <1> QED BY <1>1, <1>2

\* Who changes the state of jobs.
LEMMA JobSteps ==
    ASSUME [Next]_runtimeVars
    PROVE  \/ \E d \in Deliveries : Pool(d) \/ EndJob(d)
           \/ \E c \in Consumers, d \in Deliveries : ReserveFound(c, d)
           \/ \E c \in Consumers : EndOnLoop(c)
           \/ \E S : job' = Cancelled(S)
           \/ UNCHANGED job
  BY DEF Next, Main, Heart, Consume, GiveUp, Resume, RegisterOk, RegisterError, CancelConsumers, Drain, JoinPools,
         Exit, RequestShutdown, HeartLoop, HeartStep, ConsumerLoop, ReserveNone, TimeOut,
         ReportOk, ReportError, runtimeVars, loops, executions

\* Only the pools let a job in, one at a time, and below their size.
LEMMA PoolsStep == TypeInv /\ PoolsWithinSize /\ [Next]_runtimeVars => PoolsWithinSize'
  <1> SUFFICES ASSUME TypeInv, PoolsWithinSize, [Next]_runtimeVars
               PROVE  PoolsWithinSize'
    OBVIOUS
  <1> DEFINE io == InPool("io", "running")
             cpu == InPool("cpu", "running")
             fetched == InPool("cpu", "fetched")
  <1>0. job \in [Deliveries -> Positions]
    BY DEF TypeInv
  <1>1. SUFFICES
           /\ io' \subseteq io \/ ((\E x : io' \subseteq io \cup {x}) /\ Cardinality(io) < Threads)
           /\ cpu' \subseteq cpu
                 \/ ((\E x : cpu' \subseteq cpu \cup {x}) /\ Cardinality(cpu) < Capacity)
           /\ fetched' \subseteq fetched
                 \/ ((\E x : fetched' \subseteq fetched \cup {x})
                        /\ Cardinality(fetched) < Capacity + 1)
    <2>1. /\ Cardinality(io) <= Threads /\ Cardinality(cpu) <= Capacity
          /\ Cardinality(fetched) <= Capacity + 1
      BY DEF PoolsWithinSize
    <2>2. /\ IsFiniteSet(io) /\ IsFiniteSet(cpu) /\ IsFiniteSet(fetched)
          /\ Threads \in Nat /\ Capacity \in Nat /\ Capacity + 1 \in Nat
      BY PoolsFinite, NodeAssumption
    <2> HIDE DEF io, cpu, fetched
    <2>3. /\ Cardinality(io') <= Threads /\ Cardinality(cpu') <= Capacity
          /\ Cardinality(fetched') <= Capacity + 1
      BY <1>1, <2>1, <2>2, WithinBound
    <2> QED BY <2>3 DEF PoolsWithinSize, io, cpu, fetched, Capacity
  <1>2. CASE \A d \in Deliveries : job'[d] \in {"running", "fetched"} => job'[d] = job[d]
    BY <1>2 DEF InPool
  <1>3. ASSUME NEW d \in Deliveries, StartThread(d)
        PROVE  /\ io' \subseteq io \cup {d} /\ Cardinality(io) < Threads
               /\ cpu' \subseteq cpu /\ fetched' \subseteq fetched
    BY <1>0, <1>3 DEF StartThread, InPool
  <1>4. ASSUME NEW d \in Deliveries, Fetch(d)
        PROVE  /\ fetched' \subseteq fetched \cup {d} /\ Cardinality(fetched) < Capacity + 1
               /\ cpu' \subseteq cpu /\ io' \subseteq io
    BY <1>0, <1>4 DEF Fetch, InPool
  <1>5. ASSUME NEW d \in Deliveries, StartProcess(d)
        PROVE  /\ cpu' \subseteq cpu \cup {d} /\ Cardinality(cpu) < Capacity
               /\ fetched' \subseteq fetched /\ io' \subseteq io
    BY <1>0, <1>5 DEF StartProcess, InPool
  <1>6. ASSUME NEW c \in Consumers, NEW d \in Deliveries, ReserveFound(c, d)
        PROVE  \A f \in Deliveries : job'[f] \in {"running", "fetched"} => job'[f] = job[f]
    BY <1>0, <1>6 DEF ReserveFound, Starts, OnLoop
  <1>7. ASSUME NEW d \in Deliveries, EndJob(d)
        PROVE  \A f \in Deliveries : job'[f] \in {"running", "fetched"} => job'[f] = job[f]
    BY <1>0, <1>7 DEF EndJob
  <1>8. ASSUME NEW S, job' = Cancelled(S)
        PROVE  \A f \in Deliveries : job'[f] \in {"running", "fetched"} => job'[f] = job[f]
    BY <1>8 DEF Cancelled
  <1>9. ASSUME UNCHANGED job
        PROVE  \A f \in Deliveries : job'[f] \in {"running", "fetched"} => job'[f] = job[f]
    BY <1>9
  <1>10. ASSUME NEW c \in Consumers, EndOnLoop(c)
        PROVE  \A f \in Deliveries : job'[f] \in {"running", "fetched"} => job'[f] = job[f]
    BY <1>0, <1>10 DEF EndOnLoop
  <1> HIDE DEF io, cpu, fetched
  <1> QED BY <1>2, <1>3, <1>4, <1>5, <1>6, <1>7, <1>8, <1>9, <1>10, JobSteps DEF Pool

\* The node is type correct, and no pool ever holds more jobs than its size: the
\* threads max_threads, the processes the capacity, their call queue one more.
THEOREM NodeIsTypeCorrect == Spec => []NodeTypeOK
  <1>1. Init => PoolsWithinSize
    <2> SUFFICES ASSUME Init PROVE PoolsWithinSize
      OBVIOUS
    <2>1. /\ InPool("io", "running") = {} /\ InPool("cpu", "running") = {}
          /\ InPool("cpu", "fetched") = {}
      BY DEF Init, InPool
    <2> QED BY <2>1, FS_EmptySet, PoolsFinite, NodeAssumption DEF PoolsWithinSize
  <1>2. NodeInv /\ PoolsWithinSize => NodeTypeOK
    BY DEF NodeInv, TypeInv, Positions, PoolsWithinSize, NodeTypeOK
  <1>3. NodeInv => TypeInv
    BY DEF NodeInv
  <1> QED BY <1>1, <1>2, <1>3, NodeInit, NodeStep, PoolsStep, PTL DEF Spec

-----------------------------------------------------------------------------
(* No late start *)

\* A job of the thread pool that has not started is awaited: whatever ends the
\* wait cancels its future, which still reaches it.
QueuedAwaited ==
    \A d \in Deliveries : Kind[d] = "io" =>
        /\ job[d] \notin OnLoop \cup {"fetched"}
        /\ job[d] = "queued" => \E c \in Consumers : consumer[c] = "call" /\ delivery[c] = d

LEMMA QueuedStep == NodeInv /\ QueuedAwaited /\ [Next]_runtimeVars => QueuedAwaited'
  <1> SUFFICES ASSUME NodeInv, QueuedAwaited, [Next]_runtimeVars, NEW d \in Deliveries,
                      Kind[d] = "io"
               PROVE  /\ job'[d] \notin OnLoop \cup {"fetched"}
                      /\ job'[d] = "queued" =>
                            \E c \in Consumers : consumer'[c] = "call" /\ delivery'[c] = d
    BY DEF QueuedAwaited
  <1> DEFINE Kept == /\ job'[d] \notin OnLoop \cup {"fetched"}
                     /\ job'[d] = "queued" =>
                           \E c \in Consumers : consumer'[c] = "call" /\ delivery'[c] = d
  <1>0. /\ TypeInv
        /\ job[d] \notin OnLoop \cup {"fetched"}
        /\ job[d] = "queued" => \E c \in Consumers : consumer[c] = "call" /\ delivery[c] = d
    BY DEF NodeInv, QueuedAwaited
  <1> USE <1>0 DEF TypeInv, loops, executions, OnLoop
  <1>1. CASE job'[d] = job[d] /\ \A c \in Consumers : consumer[c] = "call" =>
                                    consumer'[c] = "call" /\ delivery'[c] = delivery[c]
    BY <1>1
  <1>2. CASE RegisterOk
    BY <1>2 DEF RegisterOk, NodeInv, HandedOver
  <1>3. CASE CancelConsumers
    BY <1>3 DEF CancelConsumers, Cancelled, Running
  <1>4. ASSUME NEW c \in Consumers, NEW f \in Deliveries, ReserveFound(c, f) PROVE Kept
    <2>1. PICK at \in Starts(f) : job' = [job EXCEPT ![f] = at]
      BY <1>4 DEF ReserveFound
    <2>2. CASE f = d
      BY <1>4, <2>1, <2>2 DEF ReserveFound, Starts, OnLoop
    <2>3. CASE f # d
      BY <1>4, <2>1, <2>3 DEF ReserveFound
    <2> QED BY <2>2, <2>3
  <1>5. ASSUME NEW c \in Consumers, TimeOut(c) PROVE Kept
    BY <1>5 DEF TimeOut, Cancelled
  <1>6. ASSUME NEW f \in Deliveries, Pool(f) PROVE Kept
    BY <1>6 DEF Pool, StartThread, Fetch, StartProcess, InPool
  <1>7. ASSUME NEW f \in Deliveries, EndJob(f) PROVE Kept
    <2>1. CASE f = d
      BY <1>7, <2>1 DEF EndJob
    <2>2. CASE f # d
      BY <1>7, <2>2 DEF EndJob
    <2> QED BY <2>1, <2>2
  <1>8. ASSUME NEW c \in Consumers,
               ConsumerLoop(c) \/ ReserveNone(c) \/ ReportOk(c) \/ ReportError(c)
        PROVE  Kept
    BY <1>1, <1>8 DEF ConsumerLoop, ReserveNone, ReportOk, ReportError
  <1>9. CASE \/ RegisterError \/ Drain \/ JoinPools \/ Exit \/ RequestShutdown
             \/ HeartLoop \/ HeartStep \/ UNCHANGED runtimeVars
    BY <1>1, <1>9 DEF RegisterError, Drain, JoinPools, Exit, RequestShutdown, HeartLoop,
                      HeartStep, runtimeVars
  <1>10. ASSUME NEW c \in Consumers, Resume(c) \/ EndOnLoop(c) PROVE Kept
    <2>1. /\ consumer[c] = "call" /\ delivery[c] \in Deliveries
          /\ job[delivery[c]] \in OnLoop \cup {"ended"}
          /\ consumer' = [consumer EXCEPT ![c] = "report"] /\ UNCHANGED delivery
          /\ job'[delivery[c]] = "ended"
          /\ \A f \in Deliveries \ {delivery[c]} : job'[f] = job[f]
      BY <1>10, NodeAssumption DEF Resume, EndOnLoop, NodeInv, CallAwaited, Running
    <2>2. CASE d = delivery[c]
      BY <2>1, <2>2 DEF OnLoop
    <2>3. CASE d # delivery[c]
      BY <2>1, <2>3
    <2> QED BY <2>2, <2>3
  <1> QED BY <1>2, <1>3, <1>4, <1>5, <1>6, <1>7, <1>8, <1>9, <1>10
          DEF Next, Main, Heart, Consume, GiveUp

\* A task of the thread pool starts only while its execution still waits for it,
\* and not after it was reported as timed out or dropped by a shutdown.
THEOREM NothingStartsLate == Spec => NoLateStart
  <1>1. Init => QueuedAwaited
    BY DEF Init, QueuedAwaited, OnLoop
  <1>2. ASSUME NodeInv, QueuedAwaited, [Next]_runtimeVars,
               NEW d \in Deliveries, Kind[d] = "io", job[d] # "running", job'[d] = "running"
        PROVE  \E c \in Consumers : consumer[c] = "call" /\ delivery[c] = d
    <2>1. job[d] = "queued"
      <3> USE DEF NodeInv, TypeInv, loops, executions
      <3>1. CASE \E f \in Deliveries : Pool(f) \/ EndJob(f)
        BY <1>2, <3>1 DEF Pool, StartThread, Fetch, StartProcess, EndJob, InPool
      <3>2. ASSUME NEW c \in Consumers, NEW f \in Deliveries, ReserveFound(c, f)
            PROVE  job'[d] # "running"
        BY <1>2, <3>2 DEF ReserveFound, Starts, OnLoop
      <3>4. ASSUME NEW c \in Consumers, EndOnLoop(c) PROVE job'[d] # "running"
        BY <1>2, <3>4 DEF EndOnLoop
      <3>3. ASSUME NEW S, job' = Cancelled(S) PROVE job'[d] # "running"
        BY <1>2, <3>3 DEF Cancelled
      <3> QED BY <1>2, <3>1, <3>2, <3>3, <3>4, JobSteps
    <2> QED BY <1>2, <2>1 DEF QueuedAwaited
  <1>3. NodeInv /\ QueuedAwaited /\ [Next]_runtimeVars =>
           [\A d \in Deliveries :
               Kind[d] = "io" /\ job[d] # "running" /\ job'[d] = "running" =>
                   \E c \in Consumers : consumer[c] = "call" /\ delivery[c] = d]_runtimeVars
    BY <1>2
  <1> QED BY <1>1, <1>3, NodeInit, NodeStep, QueuedStep, PTL DEF Spec, NoLateStart

-----------------------------------------------------------------------------
(* The node keeps the promises of WorkerNode *)

\* The refinement mapping of Node: its open calls and its tasks in work.
Reserving == {c \in Consumers : consumer[c] = "reserve"}

Working == {delivery[c] : c \in Running}

\* Every running execution has a task of its own.
LEMMA WorkingCounted ==
    ASSUME NodeInv
    PROVE  /\ IsFiniteSet(Working) /\ Cardinality(Working) = Cardinality(Running)
           /\ IsFiniteSet(Reserving) /\ Cardinality(Reserving) \in Nat
           /\ Cardinality(Running) \in Nat
           /\ Working \subseteq Deliveries \ reported
  <1> DEFINE held == [c \in Running |-> delivery[c]]
  <1>1. held \in Surjection(Running, Working)
    BY DEF Surjection, Working
  <1>2. held \in Injection(Running, Working)
    BY HeldTask DEF Injection, IsInjective, Working
  <1>3. IsFiniteSet(Working) /\ Cardinality(Working) = Cardinality(Running)
    BY <1>1, <1>2, RunningBounded, FS_Surjection
  <1>4. IsFiniteSet(Reserving)
    BY NodeAssumption, FS_Subset DEF Reserving
  <1>5. Working \subseteq Deliveries \ reported
    BY HeldTask DEF Working
  <1> QED BY <1>3, <1>4, <1>5, RunningBounded, FS_CardinalityType

\* A loop that neither calls nor executes leaves room for a call.
LEMMA RoomForCall ==
    ASSUME NodeInv, NEW c \in Consumers, consumer[c] = "loop"
    PROVE  Cardinality(Reserving) + Cardinality(Working) < Capacity
  <1> DEFINE busy == Reserving \cup Running
  <1>1. /\ Reserving \cap Running = {} /\ busy \in SUBSET (Consumers \ {c})
    BY DEF Reserving, Running
  <1>2. IsFiniteSet(Reserving) /\ IsFiniteSet(Running)
    BY WorkingCounted, RunningBounded
  <1>3. Cardinality(busy) = Cardinality(Reserving) + Cardinality(Running) - Cardinality({})
    BY <1>1, <1>2, FS_Union
  <1>4. /\ IsFiniteSet(Consumers \ {c})
        /\ Cardinality(Consumers \ {c}) = Cardinality(Consumers) - 1
    BY NodeAssumption, FS_RemoveElement
  <1>5. Cardinality(busy) <= Cardinality(Consumers) - 1
    BY <1>1, <1>4, FS_Subset
  <1>6. Cardinality(Consumers) \in Nat /\ Cardinality({}) = 0
    BY NodeAssumption, FS_CardinalityType, FS_EmptySet
  <1> HIDE DEF busy
  <1> QED BY <1>3, <1>5, <1>6, WorkingCounted DEF Capacity

\* The positions that matter to the mapping.
Seen == <<Reserving, Working, reported, told>>

\* A step of a loop that the scheduler does not see.
LEMMA Unseen ==
    ASSUME UNCHANGED <<reported, told>>,
           \A b \in Consumers :
              /\ consumer'[b] = "reserve" <=> consumer[b] = "reserve"
              /\ consumer'[b] \in {"call", "report"} <=> consumer[b] \in {"call", "report"}
              /\ consumer[b] \in {"call", "report"} => delivery'[b] = delivery[b]
    PROVE  UNCHANGED Seen
  <1>1. Reserving' = Reserving /\ Running' = Running
    BY DEF Reserving, Running
  <1>2. Working' = Working
    BY <1>1 DEF Working, Running
  <1> QED BY <1>1, <1>2 DEF Seen

\* Taking one element away from, or adding one to, the open calls.
LEMMA OneCall ==
    ASSUME NodeInv, NEW c \in Consumers
    PROVE  /\ c \in Reserving => /\ Cardinality(Reserving) >= 1
                                 /\ Cardinality(Reserving \ {c}) = Cardinality(Reserving) - 1
           /\ c \notin Reserving => Cardinality(Reserving \cup {c}) = Cardinality(Reserving) + 1
  <1>1. IsFiniteSet(Reserving) /\ Cardinality(Reserving) \in Nat
    BY WorkingCounted
  <1>2. c \in Reserving => Cardinality(Reserving) # 0
    BY <1>1, FS_EmptySet
  <1>3. /\ c \in Reserving => Cardinality(Reserving \ {c}) = Cardinality(Reserving) - 1
        /\ c \notin Reserving => Cardinality(Reserving \cup {c}) = Cardinality(Reserving) + 1
    BY <1>1, FS_AddElement, FS_RemoveElement
  <1> QED BY <1>1, <1>2, <1>3

LEMMA SameCardinality == \A S : Node!Cardinality(S) = Cardinality(S)
  BY DEF Node!Cardinality, Cardinality

\* The actions of Node, in terms of Seen.
LEMMA NodeActions ==
    /\ Node!Call <=> /\ Cardinality(Reserving) + Cardinality(Working) < Capacity
                     /\ Cardinality(Reserving)' = Cardinality(Reserving) + 1
                     /\ UNCHANGED <<Working, reported, told>>
    /\ \A d : Node!Receive(d) <=> /\ Cardinality(Reserving) > 0
                                  /\ d \notin Working \cup reported
                                  /\ Cardinality(Reserving)' = Cardinality(Reserving) - 1
                                  /\ Working' = Working \cup {d}
                                  /\ UNCHANGED <<reported, told>>
    /\ \A d : Node!Report(d) <=> /\ d \in Working
                                 /\ Working' = Working \ {d}
                                 /\ reported' = reported \cup {d}
                                 /\ UNCHANGED <<Cardinality(Reserving), told>>
    /\ \A n, S, R : Node!GiveUp(n, S, R) <=>
                        /\ Cardinality(Reserving)' = Cardinality(Reserving) - n
                        /\ Working' = Working \ S
                        /\ reported' = reported \cup R
                        /\ UNCHANGED told
    /\ Node!Beat <=> /\ told' = Cardinality(Working)
                     /\ UNCHANGED <<Cardinality(Reserving), Working, reported>>
  BY SameCardinality DEF Node!Call, Node!Receive, Node!Report, Node!GiveUp, Node!Beat,
                         Reserving, Working

\* Node!Next with its call count named.
LEMMA NodeNext ==
    Node!Next <=>
        \/ Node!Call
        \/ \E d \in Deliveries : Node!Receive(d) \/ Node!Report(d)
        \/ \E n \in 0 .. Cardinality(Reserving), S \in SUBSET Working :
              \E R \in SUBSET S : Node!GiveUp(n, S, R)
        \/ Node!Beat
  BY DEF Node!Next, Reserving, Working

\* A step whose every effect is invisible is a stutter of Node.
LEMMA Stutter == UNCHANGED Seen => [Node!Next]_(Node!nodeVars)
  BY DEF Seen, Node!nodeVars, Reserving, Working

\* Every step of the node is a step of WorkerNode or invisible to the scheduler.
LEMMA RefineStep == NodeInv /\ [Next]_runtimeVars => [Node!Next]_(Node!nodeVars)
  <1> SUFFICES ASSUME NodeInv, [Next]_runtimeVars PROVE [Node!Next]_(Node!nodeVars)
    OBVIOUS
  <1> DEFINE Seems == [Node!Next]_(Node!nodeVars)
  <1>0. TypeInv /\ CallAwaited /\ HandedOver /\ Cardinality(Reserving) \in Nat
    BY WorkingCounted DEF NodeInv
  <1> USE <1>0 DEF TypeInv, loops, executions
  <1>1. CASE RegisterOk
    BY <1>1, Unseen, Stutter DEF RegisterOk, HandedOver
  <1>2. CASE \/ RegisterError \/ Drain \/ JoinPools \/ Exit \/ RequestShutdown
             \/ HeartStep \/ UNCHANGED runtimeVars
    BY <1>2, Unseen, Stutter
       DEF RegisterError, Drain, JoinPools, Exit, RequestShutdown, HeartStep, runtimeVars
  <1>3. CASE CancelConsumers
    <2> DEFINE Kept == {c \in Consumers : Deaf(c)}
               given == {delivery[c] : c \in Running \ Kept}
    <2>1. /\ Reserving' = {} /\ Running' = Kept /\ Kept \subseteq Running
          /\ \A c \in Kept : delivery'[c] = delivery[c]
      BY <1>3 DEF CancelConsumers, Ended, Deaf, Reserving, Running
    <2>2. Working' = {delivery[c] : c \in Kept}
      BY <2>1 DEF Working
    <2>3. \A c \in Kept, b \in Running \ Kept : delivery[c] # delivery[b]
      BY <2>1, HeldTask DEF Running
    <2>4. given \in SUBSET Working /\ Working' = Working \ given
      BY <2>1, <2>2, <2>3 DEF Working
    <2>5. PICK S \in SUBSET {c \in Running : consumer[c] = "report"} :
             reported' = reported \cup {delivery[c] : c \in S}
      BY <1>3 DEF CancelConsumers
    <2> DEFINE R == {delivery[c] : c \in S}
    <2>6. R \in SUBSET given
      BY DEF Deaf
    <2>7. Cardinality(Reserving)' = 0 /\ reported' = reported \cup R /\ UNCHANGED told
      BY <1>3, <2>1, <2>5, FS_EmptySet DEF CancelConsumers
    <2> HIDE DEF R, given, Kept
    <2>8. PICK n \in 0 .. Cardinality(Reserving), W \in SUBSET Working :
             n = Cardinality(Reserving) /\ W = given
      BY <2>4
    <2>9. PICK Q \in SUBSET W : Q = R
      BY <2>6, <2>8
    <2>10. Node!GiveUp(n, W, Q)
      BY <2>4, <2>7, <2>8, <2>9, NodeActions
    <2> QED BY <2>8, <2>9, <2>10, NodeNext
  <1>4. CASE HeartLoop
    <2>1. UNCHANGED <<Reserving, Working, reported>>
      BY <1>4, Unseen DEF HeartLoop, Reserving, Working, Running
    <2>2. CASE stop
      BY <1>4, <2>1, <2>2, Stutter DEF HeartLoop, Seen
    <2>3. CASE ~stop
      BY <1>4, <2>1, <2>3, WorkingCounted, NodeActions, NodeNext DEF HeartLoop
    <2> QED BY <2>2, <2>3
  <1>5. ASSUME NEW c \in Consumers, ConsumerLoop(c) PROVE Seems
    <2>1. CASE stop
      BY <1>5, <2>1, Unseen, Stutter DEF ConsumerLoop
    <2>2. CASE ~stop
      <3>1. Reserving' = Reserving \cup {c} /\ c \notin Reserving
        BY <1>5, <2>2 DEF ConsumerLoop, Reserving
      <3>2. UNCHANGED <<Working, reported, told>>
        BY <1>5, <2>2 DEF ConsumerLoop, Working, Running
      <3>3. Cardinality(Reserving)' = Cardinality(Reserving) + 1
        BY <3>1, OneCall
      <3>4. Node!Call
        BY <1>5, <3>2, <3>3, RoomForCall, NodeActions DEF ConsumerLoop
      <3> QED BY <3>4, NodeNext
    <2> QED BY <2>1, <2>2
  <1>6. ASSUME NEW c \in Consumers, ReserveNone(c) PROVE Seems
    <2>1. CASE consumer[c] = "sleep"
      BY <1>6, <2>1, Unseen, Stutter DEF ReserveNone
    <2>2. CASE consumer[c] = "reserve"
      <3>1. Reserving' = Reserving \ {c} /\ c \in Reserving
        BY <1>6, <2>2 DEF ReserveNone, Reserving
      <3>2. UNCHANGED <<Working, reported, told>>
        BY <1>6, <2>2 DEF ReserveNone, Working, Running
      <3>3. /\ Cardinality(Reserving)' = Cardinality(Reserving) - 1
            /\ 1 \in 0 .. Cardinality(Reserving)
        BY <3>1, OneCall
      <3>4. Node!GiveUp(1, {}, {})
        BY <3>2, <3>3, NodeActions
      <3> QED BY <3>3, <3>4, NodeNext
    <2> QED BY <1>6, <2>1, <2>2 DEF ReserveNone
  <1>7. ASSUME NEW c \in Consumers, NEW d \in Deliveries, ReserveFound(c, d) PROVE Seems
    <2>1. Reserving' = Reserving \ {c} /\ c \in Reserving /\ Running' = Running \cup {c}
      BY <1>7 DEF ReserveFound, Reserving, Running
    <2>2. Working' = Working \cup {d}
      BY <1>7, <2>1 DEF ReserveFound, Working, Running
    <2>3. d \notin Working \cup reported
      BY <1>7, HeldTask, NodeAssumption DEF ReserveFound, HandedOver, Working
    <2>4. Node!Receive(d)
      BY <1>7, <2>1, <2>2, <2>3, OneCall, NodeActions DEF ReserveFound
    <2> QED BY <2>4, NodeNext
  <1>8. ASSUME NEW c \in Consumers, TimeOut(c) PROVE Seems
    BY <1>8, Unseen, Stutter DEF TimeOut
  <1>9. ASSUME NEW c \in Consumers, ReportOk(c) \/ ReportError(c) PROVE Seems
    <2>1. /\ c \in Running /\ Running' = Running \ {c} /\ Reserving' = Reserving
          /\ \A b \in Consumers \ {c} : delivery'[b] = delivery[b]
      BY <1>9 DEF ReportOk, ReportError, Running, Reserving
    <2>2. PICK d \in Deliveries : d = delivery[c]
      BY <2>1, HeldTask
    <2>3. Working' = Working \ {d} /\ d \in Working
      BY <2>1, <2>2, HeldTask DEF Working
    <2>4. CASE reported' = reported \cup {d}
      <3>1. Node!Report(d)
        BY <1>9, <2>1, <2>3, <2>4, NodeActions DEF ReportOk, ReportError
      <3> QED BY <3>1, NodeNext
    <2>5. CASE reported' = reported
      <3>1. Node!GiveUp(0, {d}, {})
        BY <1>9, <2>1, <2>3, <2>5, NodeActions DEF ReportOk, ReportError
      <3> QED BY <2>3, <3>1, NodeNext
    <2> QED BY <1>9, <2>2, <2>4, <2>5 DEF ReportOk, ReportError
  <1>10. ASSUME NEW d \in Deliveries, Pool(d) \/ EndJob(d) PROVE Seems
    BY <1>10, Unseen, Stutter DEF Pool, StartThread, Fetch, StartProcess, EndJob
  <1>11. ASSUME NEW c \in Consumers, Resume(c) \/ EndOnLoop(c) PROVE Seems
    BY <1>11, Unseen, Stutter DEF Resume, EndOnLoop
  <1> QED BY <1>1, <1>2, <1>3, <1>4, <1>5, <1>6, <1>7, <1>8, <1>9, <1>10, <1>11
          DEF Next, Main, Heart, Consume, GiveUp

\* The node implements what the scheduler assumes of it: no more calls and tasks
\* than its capacity, every task reported at most once, honest heartbeats.
THEOREM NodeImplementsWorkerNode == Spec => ImplementsNode
  <1>1. Init => Node!Init
    <2> SUFFICES ASSUME Init PROVE Node!Init
      OBVIOUS
    <2>1. {c \in Consumers : consumer[c] = "reserve"} = {} /\ Running = {}
      BY DEF Init, Running
    <2> QED BY <2>1, FS_EmptySet DEF Init, Node!Init
  <1> QED BY <1>1, NodeInit, NodeStep, RefineStep, PTL DEF Spec, ImplementsNode, Node!Spec

=============================================================================
