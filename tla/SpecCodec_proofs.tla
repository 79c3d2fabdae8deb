-------------------------- MODULE SpecCodec_proofs ---------------------------
(***************************************************************************)
(* What normalisation and the codec guarantee for every integer a client   *)
(* may write, checked by TLAPS.                                            *)
(***************************************************************************)
EXTENDS SpecCodec, TLAPS

\* The empty string is no name; the facts the other lemmas use of it.
LEMMA TextsDiffer ==
    /\ NoText # "default" /\ NoText # "io" /\ NoText # "b"
    /\ NoText # "succeeded" /\ NoText # "failed" /\ NoText # "e"
  BY Zenon DEF NoText

\* The clamps return legal numbers and leave legal ones alone.
LEMMA Clamps ==
    ASSUME NEW n \in Int
    PROVE  /\ AtLeast(n, 0) \in Nat
           /\ ClampTimeout(n) \in Nat /\ ClampTimeout(n) >= 1
           /\ n >= 0 => AtLeast(n, 0) = n
           /\ n >= 1 => ClampTimeout(n) = n
  BY DEF AtLeast, ClampTimeout

LEMMA Defaults ==
    ASSUME NEW q \in {NoText, "default", "io"}
    PROVE  /\ OrText(q, "default") \in {NoText, "default", "io"}
           /\ OrText(q, "default") # NoText
           /\ OrText(OrText(q, "default"), "default") = OrText(q, "default")
  BY TextsDiffer DEF OrText

\* A normalised spec is a legal one.
LEMMA NormalizedLegal ==
    ASSUME NEW s \in SpecsOf(Int)
    PROVE  /\ Normalized(s) \in SpecsOf(Nat)
           /\ Normalized(s).timeout_seconds >= 1
           /\ Normalized(s).queue # NoText
<1>1. /\ s.priority \in Int /\ s.delay_seconds \in Int /\ s.max_retries \in Int
      /\ s.retry_backoff_seconds \in Int /\ s.timeout_seconds \in Int
      /\ s.queue \in {NoText, "default", "io"} /\ s.batch_key \in {None, NoText, "b"}
  BY DEF SpecsOf
<1> QED BY <1>1, Clamps, Defaults DEF Normalized, SpecsOf

\* normalized is idempotent: engine.submit may repeat it on a spec that the codec
\* or the HTTP body has normalised.
THEOREM NormalizedIdempotent ==
    ASSUME NEW s \in SpecsOf(Int)
    PROVE  Normalized(Normalized(s)) = Normalized(s)
<1>1. /\ s.priority \in Int /\ s.delay_seconds \in Int /\ s.max_retries \in Int
      /\ s.retry_backoff_seconds \in Int /\ s.timeout_seconds \in Int
      /\ s.queue \in {NoText, "default", "io"}
  BY DEF SpecsOf
<1>2. \A n \in Int : /\ AtLeast(AtLeast(n, 0), 0) = AtLeast(n, 0)
                     /\ ClampTimeout(ClampTimeout(n)) = ClampTimeout(n)
  BY DEF AtLeast, ClampTimeout
<1> QED BY <1>1, <1>2, Defaults DEF Normalized

\* A legal spec, and the integers in it.
LEMMA LegalFields ==
    ASSUME NEW s \in SpecsOf(Nat)
    PROVE  /\ s \in SpecsOf(Int)
           /\ s.priority \in Nat /\ s.max_retries \in Nat
           /\ s.delay_seconds \in Nat /\ s.timeout_seconds \in Nat
           /\ s.queue \in {NoText, "default", "io"}
<1>1. SpecsOf(Nat) \subseteq SpecsOf(Int)
  BY DEF SpecsOf
<1>2. s \in SpecsOf(Int)
  BY <1>1
<1>3. /\ s.priority \in Nat /\ s.max_retries \in Nat
      /\ s.delay_seconds \in Nat /\ s.timeout_seconds \in Nat
      /\ s.queue \in {NoText, "default", "io"}
  BY DEF SpecsOf
<1> QED BY <1>2, <1>3

\* What spec_from_proto makes of the message of a spec.
LEMMA DecodedFields ==
    ASSUME NEW s \in SpecsOf(Int), NEW d, d = SpecFromProto(SpecToProto(s))
    PROVE  /\ d \in SpecsOf(Nat)
           /\ d.priority = AtLeast(Or(s.priority, 100), 0)
           /\ d.max_retries = AtLeast(s.max_retries, 0)
           /\ d.delay_seconds = AtLeast(s.delay_seconds, 0)
           /\ d.timeout_seconds = ClampTimeout(Or(s.timeout_seconds, 600))
           /\ d.queue = OrText(OrText(s.queue, "default"), "default")
<1>1. PICK u : u = [priority |-> Or(s.priority, 100),
                    delay_seconds |-> s.delay_seconds,
                    max_retries |-> s.max_retries,
                    retry_backoff_seconds |-> Or(s.retry_backoff_seconds, 15),
                    timeout_seconds |-> Or(s.timeout_seconds, 600),
                    queue |-> OrText(s.queue, "default"),
                    batch_key |-> OrText(OrText(s.batch_key, NoText), None)]
  OBVIOUS
<1>2. /\ s.priority \in Int /\ s.delay_seconds \in Int /\ s.max_retries \in Int
      /\ s.retry_backoff_seconds \in Int /\ s.timeout_seconds \in Int
      /\ s.queue \in {NoText, "default", "io"} /\ s.batch_key \in {None, NoText, "b"}
  BY DEF SpecsOf
<1>3. d = Normalized(u)
  <2>1. PICK m : m = SpecToProto(s)
    OBVIOUS
  <2>2. /\ m.priority = s.priority /\ m.delay_seconds = s.delay_seconds
        /\ m.max_retries = s.max_retries
        /\ m.retry_backoff_seconds = s.retry_backoff_seconds
        /\ m.timeout_seconds = s.timeout_seconds /\ m.queue = s.queue
        /\ m.batch_key = OrText(s.batch_key, NoText)
    BY <2>1 DEF SpecToProto, SpecsOf
  <2>3. SpecFromProto(m) = Normalized(u)
    BY <1>1, <2>2 DEF SpecFromProto
  <2> QED BY <2>1, <2>3
<1>4. u \in SpecsOf(Int)
  <2>1. Or(s.priority, 100) \in Int /\ Or(s.retry_backoff_seconds, 15) \in Int
        /\ Or(s.timeout_seconds, 600) \in Int
    BY <1>2 DEF Or
  <2>2. OrText(OrText(s.batch_key, NoText), None) \in {None, NoText, "b"}
    BY <1>2 DEF OrText
  <2>3. OrText(s.queue, "default") \in {NoText, "default", "io"}
    BY <1>2, Defaults
  <2> QED BY <1>1, <1>2, <2>1, <2>2, <2>3 DEF SpecsOf
<1>5. d \in SpecsOf(Nat)
  BY <1>3, <1>4, NormalizedLegal
<1> QED BY <1>1, <1>3, <1>5 DEF Normalized

\* Normalisation and the codec leave the numbers of a normal spec alone.
LEMMA NormalFixed ==
    ASSUME NEW s \in SpecsOf(Nat)
    PROVE  Normalized(s).priority = s.priority /\ Normalized(s).max_retries = s.max_retries
<1>1. s.priority \in Nat /\ s.max_retries \in Nat
  BY LegalFields
<1>2. \A n \in Nat : AtLeast(n, 0) = n
  BY DEF AtLeast
<1> QED BY <1>1, <1>2 DEF Normalized

LEMMA CodecKeepsNormal ==
    ASSUME NEW s \in SpecsOf(Nat), s.timeout_seconds >= 1, s.queue # NoText,
           NEW d, d = SpecFromProto(SpecToProto(s))
    PROVE  /\ d.timeout_seconds = s.timeout_seconds
           /\ d.queue = s.queue
           /\ d.max_retries = s.max_retries
           /\ d.delay_seconds = s.delay_seconds
<1>1. /\ s \in SpecsOf(Int)
      /\ s.max_retries \in Nat /\ s.delay_seconds \in Nat /\ s.timeout_seconds \in Nat
      /\ s.queue \in {NoText, "default", "io"}
  BY LegalFields
<1>2. /\ d.max_retries = AtLeast(s.max_retries, 0)
      /\ d.delay_seconds = AtLeast(s.delay_seconds, 0)
      /\ d.timeout_seconds = ClampTimeout(Or(s.timeout_seconds, 600))
      /\ d.queue = OrText(OrText(s.queue, "default"), "default")
  BY <1>1, DecodedFields
<1>3. \A n \in Nat : AtLeast(n, 0) = n /\ (n >= 1 => ClampTimeout(n) = n)
  BY DEF AtLeast, ClampTimeout
<1>4. Or(s.timeout_seconds, 600) = s.timeout_seconds
  <2>1. s.timeout_seconds # 0
    BY <1>1
  <2>2. s.timeout_seconds # None
    BY <1>1, CodecAssumption
  <2> QED BY <2>1, <2>2 DEF Or
<1>5. OrText(s.queue, "default") = s.queue
  <2>1. s.queue # None
    BY <1>1, NoneAssumption
  <2> QED BY <2>1 DEF OrText
<1>6. d.max_retries = s.max_retries /\ d.delay_seconds = s.delay_seconds
  BY <1>1, <1>2, <1>3
<1>7. d.timeout_seconds = s.timeout_seconds
  BY <1>1, <1>2, <1>3, <1>4
<1>8. d.queue = s.queue
  BY <1>2, <1>5
<1> QED BY <1>6, <1>7, <1>8

\* The defaults of worker_from_proto change a capacity of 0 and nothing else that a
\* node can run with.
LEMMA RegistrationKept ==
    ASSUME NEW o, Runtime(o).capacity \in 0 .. MaxInt,
           NEW i, i = Runtime(o), NEW k, k = WorkerOverGrpc(i)
    PROVE  /\ k.queues = i.queues /\ k.queues # {}
           /\ k.capacity \in 1 .. MaxInt
           /\ i.capacity # 0 => k.capacity = i.capacity
<1>1. i.queues # {}
  BY DEF Runtime
<1>2. k.queues = i.queues
  BY <1>1 DEF WorkerOverGrpc
<1>3. k.capacity = Or(i.capacity, 1)
  BY DEF WorkerOverGrpc
<1>4. i.capacity \in 0 .. MaxInt /\ i.capacity # None
  BY CodecAssumption
<1> QED BY <1>1, <1>2, <1>3, <1>4, CodecAssumption DEF Or

\* What json.dumps and json.loads make of a value that can be written.
LEMMA JsonRoundTrip ==
    ASSUME NEW v \in Values \cup {None}, v # "circular"
    PROVE  /\ v \in JsonValues \cup {None} => Loaded(Dumped(v)) = v
           /\ v \notin JsonValues \cup {None} => Loaded(Dumped(v)) \in JsonValues
<1>1. CASE v = None
  BY <1>1, NoneAssumption DEF Dumped, Loaded, JsonValues
<1>2. CASE v \in {"text", "instance"}
  BY <1>2, NoneAssumption DEF Dumped, Loaded, JsonValues, NoText
<1>3. CASE v \in {"list", "tuple"}
  BY <1>3, NoneAssumption DEF Dumped, Loaded, JsonValues, NoText
<1>4. CASE v \in {"dict", "intkeys"}
  BY <1>4, NoneAssumption DEF Dumped, Loaded, JsonValues, NoText
<1> QED BY <1>1, <1>2, <1>3, <1>4 DEF Values, JsonValues

\* What the codec makes of a report that is sent.
LEMMA ReportKept ==
    ASSUME NEW r \in Results, r.result # "circular",
           NEW k, k = ResultFromProto(ResultToProto(r))
    PROVE  /\ k.status = r.status /\ k.error = r.error
           /\ r.result \in JsonValues \cup {None} => k.result = r.result
           /\ r.result \notin JsonValues \cup {None} => k.result \in JsonValues
<1>1. /\ k.status = OrText(r.status, "failed")
      /\ k.result = Loaded(Dumped(r.result))
      /\ k.error = OrText(OrText(r.error, NoText), None)
  BY DEF ResultToProto, ResultFromProto
<1>2. /\ r.status \in {"succeeded", "failed"}
      /\ r.error \in {None, "e"}
      /\ r.result \in Values \cup {None}
  BY DEF Results
<1>3. k.status = r.status /\ k.error = r.error
  BY <1>1, <1>2, TextsDiffer, NoneAssumption DEF OrText
<1> QED BY <1>1, <1>2, <1>3, JsonRoundTrip

-----------------------------------------------------------------------------

\* The invariant: what is kept is normal, what came over gRPC fits its message,
\* the worker's copy agrees with it, and so do registrations and results with
\* what was sent.
CodecInv ==
    /\ origin \in {"grpc", "http"} => given \in SpecsOf(Int)
    /\ origin = "result" => given \in Results
    /\ stage \in {"given", "refused", "stored", "delivered", "undeliverable"}
    /\ stage \in {"delivered", "undeliverable"} => origin \in {"grpc", "http"}
    /\ StoredNormal
    /\ CopyAgrees
    /\ GrpcDeliverable
    /\ RegisteredAsRun
    /\ ResultKept

LEMMA CodecInit == Init => CodecInv
<1> SUFFICES ASSUME Init PROVE CodecInv
  OBVIOUS
<1>1. SpecsOf(Ints) \subseteq SpecsOf(Int)
  BY CodecAssumption DEF SpecsOf
<1> QED BY <1>1 DEF Init, CodecInv, StoredNormal, CopyAgrees, GrpcDeliverable,
                RegisteredAsRun, ResultKept, Kept

LEMMA CodecStep == CodecInv /\ [Next]_codecVars => CodecInv'
<1> SUFFICES ASSUME CodecInv, [Next]_codecVars PROVE CodecInv'
  OBVIOUS
<1> USE DEF CodecInv, StoredNormal, CopyAgrees, GrpcDeliverable,
                RegisteredAsRun, ResultKept, Kept
<1>1. CASE SubmitGrpc
  <2>1. CASE ~ Encodable(given)
    BY <1>1, <2>1 DEF SubmitGrpc
  <2>2. CASE Encodable(given)
    <3>1. given \in SpecsOf(Int)
      BY <1>1 DEF SubmitGrpc
    <3>2. PICK d : d = SpecFromProto(SpecToProto(given))
      OBVIOUS
    <3>3. /\ stored' = Normalized(d)
          /\ stage' = "stored"
          /\ UNCHANGED <<origin, given, copy>>
          /\ origin = "grpc"
      BY <1>1, <2>2, <3>2 DEF SubmitGrpc
    <3>4. /\ d \in SpecsOf(Nat)
          /\ d.priority = AtLeast(Or(given.priority, 100), 0)
          /\ d.max_retries = AtLeast(given.max_retries, 0)
      BY <3>1, <3>2, DecodedFields
    <3>5. /\ d \in SpecsOf(Int) /\ d.priority \in Nat /\ d.max_retries \in Nat
      BY <3>4, LegalFields
    <3>6. Int32(d.priority) /\ Int32(d.max_retries)
      <4>1. given.priority \in Int /\ given.max_retries \in Int
        BY <3>1 DEF SpecsOf
      <4> QED
        BY <2>2, <3>4, <4>1, CodecAssumption DEF Encodable, Int32, AtLeast, Or
    <3>7. /\ Normalized(d) \in SpecsOf(Nat)
          /\ Normalized(d).timeout_seconds >= 1
          /\ Normalized(d).queue # NoText
      BY <3>5, NormalizedLegal
    <3>8. Normalized(d).priority = d.priority /\ Normalized(d).max_retries = d.max_retries
      BY <3>4, NormalFixed
    <3> QED BY <3>1, <3>3, <3>6, <3>7, <3>8
  <2> QED BY <2>1, <2>2
<1>2. CASE SubmitHttp
  <2>1. /\ given \in SpecsOf(Int)
        /\ stored' = Normalized(given)
        /\ stage' = "stored"
        /\ UNCHANGED <<origin, given, copy>>
        /\ origin = "http"
    BY <1>2, NormalizedIdempotent DEF SubmitHttp
  <2>2. /\ Normalized(given) \in SpecsOf(Nat)
        /\ Normalized(given).timeout_seconds >= 1
        /\ Normalized(given).queue # NoText
    BY <2>1, NormalizedLegal
  <2> QED BY <2>1, <2>2
<1>3. CASE Deliver
  <2>1. CASE ~ Encodable(stored)
    BY <1>3, <2>1 DEF Deliver
  <2>2. CASE Encodable(stored)
    <3>1. /\ stored \in SpecsOf(Nat)
          /\ stored.timeout_seconds >= 1
          /\ stored.queue # NoText
      BY <1>3 DEF Deliver
    <3>2. /\ copy' = SpecFromProto(SpecToProto(stored))
          /\ stage' = "delivered"
          /\ UNCHANGED <<origin, given, stored>>
          /\ stage = "stored"
          /\ origin \in {"grpc", "http"}
      BY <1>3, <2>2 DEF Deliver
    <3>3. PICK d : d = SpecFromProto(SpecToProto(stored))
      OBVIOUS
    <3>4. /\ d.timeout_seconds = stored.timeout_seconds
          /\ d.queue = stored.queue
          /\ d.max_retries = stored.max_retries
          /\ d.delay_seconds = stored.delay_seconds
      BY <3>1, <3>3, CodecKeepsNormal
    <3> QED BY <3>1, <3>2, <3>3, <3>4
  <2> QED BY <2>1, <2>2
<1>4. CASE Register
  <2>1. CASE Runtime(given).capacity \notin 0 .. MaxInt
    BY <1>4, <2>1 DEF Register
  <2>2. CASE Runtime(given).capacity \in 0 .. MaxInt
    <3>1. /\ origin = "worker" /\ stage' = "stored"
          /\ stored' = WorkerOverGrpc(Runtime(given))
          /\ UNCHANGED <<origin, given, copy>>
      BY <1>4, <2>2 DEF Register
    <3>2. Runtime(given)' = Runtime(given)
      BY <3>1 DEF Runtime
    <3>3. RegisteredAsRun'
      BY <2>2, <3>1, <3>2, RegistrationKept
    <3> QED BY <3>1, <3>3
  <2> QED BY <2>1, <2>2
<1>5. CASE Report
  <2>1. CASE given.result = "circular"
    BY <1>5, <2>1 DEF Report
  <2>2. CASE given.result # "circular"
    <3>1. /\ origin = "result" /\ stage' = "stored" /\ given \in Results
          /\ stored' = ResultFromProto(ResultToProto(given))
          /\ UNCHANGED <<origin, given, copy>>
      BY <1>5, <2>2 DEF Report
    <3>2. ResultKept'
      BY <2>2, <3>1, ReportKept
    <3> QED BY <3>1, <3>2
  <2> QED BY <2>1, <2>2
<1>6. CASE UNCHANGED codecVars
  BY <1>6 DEF codecVars
<1> QED BY <1>1, <1>2, <1>3, <1>4, <1>5, <1>6 DEF Next

\* CodecInv holds in every state.
THEOREM CodecInvariant == Spec => []CodecInv
  BY CodecInit, CodecStep, PTL DEF Spec

\* Whatever integers a client writes, engine.submit keeps a normal spec.
THEOREM StoredIsNormal == Spec => []StoredNormal
<1>1. CodecInv => StoredNormal
  BY DEF CodecInv
<1> QED BY <1>1, CodecInvariant, PTL

\* The worker's copy of the spec has the queue, times and retries that the
\* scheduler keeps.
THEOREM CopyIsFaithful == Spec => []CopyAgrees
<1>1. CodecInv => CopyAgrees
  BY DEF CodecInv
<1> QED BY <1>1, CodecInvariant, PTL

\* A task that was accepted over gRPC fits the messages it is sent in later.
THEOREM GrpcIsDeliverable == Spec => []GrpcDeliverable
<1>1. CodecInv => GrpcDeliverable
  BY DEF CodecInv
<1> QED BY <1>1, CodecInvariant, PTL

\* Whatever integers the command line and the environment give, the registry shows
\* the queues of the node, at least one slot, and the true number of slots of every
\* node that has any.
THEOREM RegistrationIsTrue == Spec => []RegisteredAsRun
<1>1. CodecInv => RegisteredAsRun
  BY DEF CodecInv
<1> QED BY <1>1, CodecInvariant, PTL

\* A report that json.dumps can write arrives with its status, its error and the
\* JSON image of its value.
THEOREM ResultArrives == Spec => []ResultKept
<1>1. CodecInv => ResultKept
  BY DEF CodecInv
<1> QED BY <1>1, CodecInvariant, PTL

=============================================================================
