------------------------------ MODULE SpecCodec ------------------------------
(***************************************************************************)
(* What becomes of a TaskSpec, a WorkerInfo and a TaskResult on the way    *)
(* between the processes: codec.py, the defaults and clamps of models.py,  *)
(* app.py, cli/main.py and manager.py, and the int32 fields of the .proto  *)
(* file (protobuf raises ValueError for a value that does not fit).  In a  *)
(* proto3 message an absent value is 0 or "", and codec.py takes both for  *)
(* absent.  Fields that are only copied (target, payload, kind, ids, sets  *)
(* of names) are left out; times are integers, in tenths of a second.      *)
(***************************************************************************)
EXTENDS Integers

CONSTANTS
    Ints,            \* numbers that clients write
    MaxInt,          \* largest int32
    None             \* Python's None

ASSUME CodecAssumption ==
    /\ Ints \subseteq Int
    /\ MaxInt \in Nat /\ MaxInt >= 100
    /\ None \notin Int

\* None is none of the texts below.
ASSUME NoneAssumption ==
    None \notin {"default", "io", "b", "e", "succeeded", "failed",
                 "text", "list", "dict", "tuple", "intkeys", "instance", "circular"}

\* The empty string, which proto3 reads for a string that was not set.
NoText == ""

\* A spec as the client states it.
SpecsOf(N) ==
    [priority : N, delay_seconds : N, max_retries : N, retry_backoff_seconds : N,
     timeout_seconds : N, queue : {NoText, "default", "io"}, batch_key : {None, NoText, "b"}]

\* The options of the worker command, and TASKRUNNER_WORKER_CAPACITY.
Options == [queues : {{}, {"io"}}, capacity : Ints \cup {None}, worker_capacity : Ints]

\* What a target returns, by what JSON makes of it: the values that JSON has (a
\* string, number or truth value; a list; a dict with string keys), and a tuple, a
\* dict with keys that are numbers, an object that only str can write, and a value
\* that json.dumps refuses (a cycle, a key of another type).
JsonValues == {"text", "list", "dict"}
Values == JsonValues \cup {"tuple", "intkeys", "instance", "circular"}

\* What TaskExecutor.execute returns and a worker reports.
Results ==
    {[status |-> "succeeded", result |-> r, error |-> None] : r \in Values \cup {None}}
        \cup {[status |-> "failed", result |-> None, error |-> "e"]}

VARIABLES
    origin, \* how the message comes in: "grpc", "http", "worker" or "result"
    given,  \* the message as its sender has it
    stage,  \* how far it is
    stored, \* what the scheduler keeps of it
    copy    \* what the worker that reserves the task gets

codecVars == <<origin, given, stage, stored, copy>>

Init ==
    /\ \/ origin \in {"grpc", "http"} /\ given \in SpecsOf(Ints)
       \/ origin = "worker" /\ given \in Options
       \/ origin = "result" /\ given \in Results
    /\ stage = "given"
    /\ stored = None
    /\ copy = None

-----------------------------------------------------------------------------
(* Conversions *)

AtLeastLoose(n, low) == IF n < low - 1 THEN low ELSE n   \* faulty variant: off by one

AtLeast(n, low) == IF n < low THEN low ELSE n

\* Python's x or default
Or(x, default) == IF x \in {0, None} THEN default ELSE x
OrText(x, default) == IF x \in {NoText, None} THEN default ELSE x

ClampZero(n) == AtLeast(n, 0)   \* faulty variant: a time-out may be 0

ClampTimeout(n) == AtLeast(n, 1)

\* TaskSpec.normalized
Normalized(s) ==
    [priority |-> AtLeast(s.priority, 0),
     delay_seconds |-> AtLeast(s.delay_seconds, 0),
     max_retries |-> AtLeast(s.max_retries, 0),
     retry_backoff_seconds |-> AtLeast(s.retry_backoff_seconds, 0),
     timeout_seconds |-> ClampTimeout(s.timeout_seconds),
     queue |-> OrText(s.queue, "default"),
     batch_key |-> s.batch_key]

Int32(n) == n \in -MaxInt - 1 .. MaxInt

EncodableAlways(s) == TRUE   \* faulty variant: nothing is refused

\* spec_to_proto raises unless the two int32 fields fit.
Encodable(s) == Int32(s.priority) /\ Int32(s.max_retries)

SpecToProto(s) == [s EXCEPT !.batch_key = OrText(@, NoText)]

SpecFromProto(m) ==
    Normalized([priority |-> Or(m.priority, 100),
                delay_seconds |-> m.delay_seconds,
                max_retries |-> m.max_retries,
                retry_backoff_seconds |-> Or(m.retry_backoff_seconds, 15),
                timeout_seconds |-> Or(m.timeout_seconds, 600),
                queue |-> OrText(m.queue, "default"),
                batch_key |-> OrText(m.batch_key, None)])

RuntimeAnyQueues(o) ==   \* faulty variant: no default queue
    [queues |-> o.queues, capacity |-> Or(o.capacity, o.worker_capacity)]

\* WorkerRuntime.__init__: the WorkerInfo a node runs with.
Runtime(o) ==
    [queues |-> IF o.queues = {} THEN {"default"} ELSE o.queues,
     capacity |-> Or(o.capacity, o.worker_capacity)]

\* worker_from_proto of worker_to_proto
WorkerOverGrpc(i) ==
    [queues |-> IF i.queues = {} THEN {"default"} ELSE i.queues,
     capacity |-> Or(i.capacity, 1)]

\* json.dumps(value, default=str): the JSON text, by its form.
Dumped(v) ==
    CASE v = None -> "null"
      [] v \in {"text", "instance"} -> "string"
      [] v \in {"list", "tuple"} -> "array"
      [] v \in {"dict", "intkeys"} -> "object"

\* json.loads; an empty field is no value.
Loaded(j) ==
    CASE j \in {NoText, "null"} -> None
      [] j = "string" -> "text"
      [] j = "array" -> "list"
      [] j = "object" -> "dict"

ResultToProto(r) ==
    [status |-> r.status, result_json |-> Dumped(r.result), error |-> OrText(r.error, NoText)]

ResultFromProtoRaw(m) ==   \* faulty variant: the empty error string is kept
    [status |-> OrText(m.status, "failed"), result |-> Loaded(m.result_json),
     error |-> m.error]

ResultFromProto(m) ==
    [status |-> OrText(m.status, "failed"), result |-> Loaded(m.result_json),
     error |-> OrText(m.error, None)]

-----------------------------------------------------------------------------
(* Messages *)

\* SchedulerClient.submit, SubmitTask and engine.submit: the client raises for a
\* spec that does not fit its message.
SubmitGrpc ==
    /\ origin = "grpc" /\ stage = "given"
    /\ IF Encodable(given)
       THEN stage' = "stored" /\ stored' = Normalized(SpecFromProto(SpecToProto(given)))
       ELSE stage' = "refused" /\ stored' = stored
    /\ UNCHANGED <<origin, given, copy>>

\* POST /tasks and /tasks/batch: SubmitTaskBody.to_spec, engine.submit.
SubmitHttp ==
    /\ origin = "http" /\ stage = "given"
    /\ stage' = "stored"
    /\ stored' = Normalized(Normalized(given))
    /\ UNCHANGED <<origin, given, copy>>

\* The ReserveTask handler has leased the task and encodes it for the worker; if
\* that raises, the call fails and the lease stays.
Deliver ==
    /\ origin \in {"grpc", "http"} /\ stage = "stored"
    /\ IF Encodable(stored)
       THEN stage' = "delivered" /\ copy' = SpecFromProto(SpecToProto(stored))
       ELSE stage' = "undeliverable" /\ copy' = copy
    /\ UNCHANGED <<origin, given, stored>>

\* taskrunner worker: ProcessPoolExecutor refuses a capacity below 0, and protobuf
\* one that does not fit.  With 0 the node starts, with a pool of the size of the
\* machine and no consume loop.
Register ==
    /\ origin = "worker" /\ stage = "given"
    /\ IF Runtime(given).capacity \in 0 .. MaxInt
       THEN stage' = "stored" /\ stored' = WorkerOverGrpc(Runtime(given))
       ELSE stage' = "refused" /\ stored' = stored
    /\ UNCHANGED <<origin, given, copy>>

\* SchedulerClient.report_result and the handler.  If json.dumps raises, nothing is
\* sent and the error ends the consume loop (WorkerRuntime!ReportError).
Report ==
    /\ origin = "result" /\ stage = "given"
    /\ IF given.result # "circular"
       THEN stage' = "stored" /\ stored' = ResultFromProto(ResultToProto(given))
       ELSE stage' = "refused" /\ stored' = stored
    /\ UNCHANGED <<origin, given, copy>>

Next == SubmitGrpc \/ SubmitHttp \/ Deliver \/ Register \/ Report

Spec == Init /\ [][Next]_codecVars

-----------------------------------------------------------------------------
(* Properties *)

Kept(o) == stage \notin {"given", "refused"} /\ origin \in o

\* Whatever a client writes, over either API, the scheduler keeps a spec that the
\* broker can work with (TaskQueue!TaskSpecAssumption) and a time-out of 0.1 s.
StoredNormal ==
    Kept({"grpc", "http"}) =>
        /\ stored \in SpecsOf(Nat)
        /\ stored.timeout_seconds >= 1
        /\ stored.queue # NoText

\* The worker's copy has the time-out, the queue and the retries that the
\* scheduler keeps: after normalisation no falsy value is left in them that the
\* codec would take for a default (priority, backoff and batch_key may differ).
CopyAgrees ==
    stage = "delivered" =>
        /\ copy.timeout_seconds = stored.timeout_seconds
        /\ copy.queue = stored.queue
        /\ copy.max_retries = stored.max_retries
        /\ copy.delay_seconds = stored.delay_seconds

\* A task accepted over gRPC can be encoded for the client and for a worker.
GrpcDeliverable ==
    Kept({"grpc"}) => Int32(stored.priority) /\ Int32(stored.max_retries)

\* The scheduler registers the queues of the node and, for every capacity but 0, the
\* number of its consume loops, though both sides of the RPC have defaults for them;
\* a node with capacity 0, which reserves nothing, is registered with one slot.
RegisteredAsRun ==
    Kept({"worker"}) =>
        /\ stored.queues = Runtime(given).queues /\ stored.queues # {}
        /\ stored.capacity \in 1 .. MaxInt
        /\ Runtime(given).capacity # 0 => stored.capacity = Runtime(given).capacity

\* A report that is sent arrives with its status and its error (the error decides
\* there between the log levels, and on the node between the counters).  Its value
\* arrives unchanged if JSON has it, and otherwise as one that JSON has: a target
\* that returns something never looks like one that returned None, and the store
\* and the API can write the value again.
ResultKept ==
    Kept({"result"}) =>
        /\ stored.status = given.status /\ stored.error = given.error
        /\ given.result \in JsonValues \cup {None} => stored.result = given.result
        /\ given.result \notin JsonValues \cup {None} => stored.result \in JsonValues

=============================================================================
