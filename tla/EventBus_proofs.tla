--------------------------- MODULE EventBus_proofs ---------------------------
(* Proofs about the event bus, for any number of connections and any sizes:  *)
(* what a client gets is in order, and is complete but for full queues.      *)
EXTENDS EventBus, SequenceTheorems, FiniteSetTheorems, TLAPS

-----------------------------------------------------------------------------
(* Sequences *)

\* The elements of a sequence decide what it is a sequence of.
LEMMA ElementsInSet ==
    ASSUME NEW S, NEW T, NEW s \in Seq(S), \A i \in 1 .. Len(s) : s[i] \in T
    PROVE  s \in Seq(T)
  <1>1. Len(s) \in Nat /\ s \in [1 .. Len(s) -> S] /\ DOMAIN s = 1 .. Len(s)
    BY LenProperties
  <1>2. s \in [1 .. Len(s) -> T]
    BY <1>1
  <1> QED BY <1>1, <1>2

\* Moving the head of a sequence to the end of the one before it.
LEMMA MoveHead ==
    ASSUME NEW S, NEW s \in Seq(S), NEW h \in Seq(S), h # <<>>
    PROVE  Append(s, Head(h)) \o Tail(h) = s \o h
  <1>1. /\ Head(h) \in S /\ Tail(h) \in Seq(S) /\ <<Head(h)>> \in Seq(S) /\ Head(h) = h[1]
        /\ Tail(h) = SubSeq(h, 2, Len(h))
    BY HeadTailProperties, TailIsSubSeq
  <1>2. Len(h) \in Nat /\ 1 \in 1 .. Len(h) /\ Len(h) \in 1 .. Len(h)
    BY EmptySeq, LenProperties
  <1>3. <<Head(h)>> \o Tail(h) = h
    BY <1>1, <1>2, SubSeqRecursiveFirst, SubSeqFull
  <1>4. Append(s, Head(h)) = s \o <<Head(h)>>
    BY <1>1, AppendIsConcat
  <1>5. (s \o <<Head(h)>>) \o Tail(h) = s \o (<<Head(h)>> \o Tail(h))
    BY <1>1, ConcatAssociative
  <1> QED BY <1>3, <1>4, <1>5

\* Events in the order of publish, none later than p.
Ordered(s, p) ==
    /\ s \in Seq(1 .. p)
    /\ \A i, j \in DOMAIN s : i < j => s[i] < s[j]

LEMMA OrderedAppend ==
    ASSUME NEW p \in Nat, NEW s, Ordered(s, p)
    PROVE  Ordered(Append(s, p + 1), p + 1) /\ Ordered(s, p + 1)
  <1>1. s \in Seq(1 .. p) /\ s \in Seq(1 .. p + 1)
    BY SeqMonotonic DEF Ordered
  <1>2. /\ Append(s, p + 1) \in Seq(1 .. p + 1)
        /\ Len(Append(s, p + 1)) = Len(s) + 1
        /\ \A i \in 1 .. Len(s) : Append(s, p + 1)[i] = s[i]
        /\ Append(s, p + 1)[Len(s) + 1] = p + 1
    BY <1>1, AppendProperties
  <1>3. /\ Len(s) \in Nat /\ DOMAIN s = 1 .. Len(s)
        /\ DOMAIN Append(s, p + 1) = 1 .. Len(s) + 1
        /\ \A i \in 1 .. Len(s) : s[i] \in 1 .. p
    BY <1>1, <1>2, LenProperties, ElementOfSeq
  <1> QED BY <1>1, <1>2, <1>3 DEF Ordered

-----------------------------------------------------------------------------
(* The invariant *)

Types ==
    /\ published \in 0 .. MaxEvents
    /\ replay \in Seq(Nat)
    /\ subscribers \subseteq Connections
    /\ queue \in [Connections -> Seq(Nat)]
    /\ history \in [Connections -> Seq(Nat)]
    /\ sent \in [Connections -> Seq(Nat)]
    /\ handler \in [Connections -> {"none", "accept", "get", "send", "ended"}]
    /\ peer \in [Connections -> BOOLEAN]
    /\ joined \in [Connections -> Nat]
    /\ refused \in [Connections -> SUBSET (1 .. published)]

\* Nothing is sent or queued before the subscription, and a handler waits for
\* live events only when the history is used up.
Positions ==
    \A c \in Connections :
        /\ handler[c] \in {"none", "accept"} =>
              /\ c \notin subscribers
              /\ sent[c] = <<>> /\ history[c] = <<>> /\ queue[c] = <<>>
        /\ handler[c] \in {"get", "send"} => c \in subscribers
        /\ handler[c] = "get" => history[c] = <<>>

\* _replay holds the last ReplaySize events, or all of them.
ReplayIsLast ==
    /\ Len(replay) <= ReplaySize /\ Len(replay) <= published
    /\ Len(replay) < ReplaySize => Len(replay) = published
    /\ \A i \in 1 .. Len(replay) : replay[i] = published - Len(replay) + i

\* A queue holds events that were published after the subscription.
After(q, j) == \A i \in 1 .. Len(q) : q[i] > j

Live ==
    \A c \in Connections :
        /\ Len(queue[c]) <= QueueSize
        /\ joined[c] <= published
        /\ After(queue[c], joined[c])

StreamsOrdered == \A c \in Connections : Ordered(Stream(c), published)

BusInv == Types /\ Positions /\ ReplayIsLast /\ Live /\ StreamsOrdered /\ NothingSkipped

-----------------------------------------------------------------------------
(* Types and positions *)

LEMMA BusInit == Init => BusInv
  <1> SUFFICES ASSUME Init PROVE BusInv
    OBVIOUS
  <1>1. <<>> \in Seq(Nat) /\ Len(<<>>) = 0 /\ <<>> \in Seq(1 .. published) /\ <<>> \o <<>> = <<>>
    BY EmptySeq, ConcatEmptySeq
  <1>2. Types
    BY <1>1, BusAssumption DEF Init, Types
  <1>3. Positions /\ ReplayIsLast /\ Live /\ NothingSkipped
    BY <1>1, BusAssumption DEF Init, Positions, ReplayIsLast, Live, After,
                                    NothingSkipped
  <1>4. \A c \in Connections : Stream(c) = <<>>
    BY <1>1 DEF Init, Stream
  <1>5. StreamsOrdered
    <2>1. DOMAIN <<>> = {}
      OBVIOUS
    <2> QED BY <1>1, <1>4, <2>1 DEF StreamsOrdered, Ordered
  <1> QED BY <1>2, <1>3, <1>5 DEF BusInv

\* Taking the head off a sequence of events, or adding one.
LEMMA Shift ==
    /\ \A s \in Seq(Nat) : s # <<>> => Head(s) \in Nat /\ Tail(s) \in Seq(Nat)
    /\ \A s \in Seq(Nat), e \in Nat : Append(s, e) \in Seq(Nat) /\ Append(s, e) # <<>>
  BY HeadTailProperties, AppendProperties

LEMMA TypesStep == Types /\ [Next]_busVars => Types'
  <1> SUFFICES ASSUME Types, [Next]_busVars PROVE Types'
    OBVIOUS
  <1> USE DEF Types, bus, stream
  <1>0. published \in Nat /\ MaxEvents \in Nat
    BY BusAssumption
  <1>1. CASE Publish
    <2>1. published' \in 0 .. MaxEvents /\ published' \in Nat
      BY <1>0, <1>1 DEF Publish
    <2>2. Append(replay, published') \in Seq(Nat) /\ Append(replay, published') # <<>>
      BY <2>1, Shift
    <2>3. replay' \in Seq(Nat)
      BY <1>1, <2>2, Shift DEF Publish, Bounded
    <2>4. queue' \in [Connections -> Seq(Nat)]
      BY <1>1, <2>1, Shift DEF Publish
    <2> QED BY <1>1, <2>1, <2>3, <2>4 DEF Publish
  <1>2. ASSUME NEW c \in Connections, Connect(c) \/ Disconnect(c) \/ Fails(c) \/ Finalize(c)
        PROVE  Types'
    BY <1>2 DEF Connect, Disconnect, Fails, OnFailure, Finalize
  <1>3. ASSUME NEW c \in Connections, NEW h \in Seq(Nat), Yield(c, h)
        PROVE  /\ history' \in [Connections -> Seq(Nat)]
               /\ sent' \in [Connections -> Seq(Nat)]
               /\ handler' \in [Connections -> {"none", "accept", "get", "send", "ended"}]
    BY <1>3, Shift DEF Yield
  <1>4. ASSUME NEW c \in Connections, Subscribe(c) PROVE Types'
    BY <1>0, <1>3, <1>4 DEF Subscribe
  <1>5. ASSUME NEW c \in Connections, Sent(c) PROVE Types'
    BY <1>3, <1>5 DEF Sent
  <1>6. ASSUME NEW c \in Connections, Get(c) PROVE Types'
    BY <1>6, Shift DEF Get
  <1>7. CASE UNCHANGED busVars
    BY <1>7 DEF busVars
  <1> QED BY <1>1, <1>2, <1>4, <1>5, <1>6, <1>7 DEF Next, Handle

LEMMA PositionsStep == Types /\ Positions /\ [Next]_busVars => Positions'
  <1> SUFFICES ASSUME Types, Positions, [Next]_busVars PROVE Positions'
    OBVIOUS
  <1> USE DEF Types, Positions, bus, stream
  <1>1. CASE Publish
    BY <1>1 DEF Publish, Served
  <1>2. ASSUME NEW c \in Connections, Connect(c) \/ Disconnect(c) \/ Fails(c) \/ Finalize(c)
        PROVE  Positions'
    BY <1>2 DEF Connect, Disconnect, Fails, OnFailure, Finalize
  <1>3. ASSUME NEW c \in Connections, Subscribe(c) PROVE Positions'
    BY <1>3 DEF Subscribe, Yield
  <1>4. ASSUME NEW c \in Connections, Sent(c) PROVE Positions'
    BY <1>4 DEF Sent, Yield
  <1>5. ASSUME NEW c \in Connections, Get(c) PROVE Positions'
    BY <1>5 DEF Get
  <1>6. CASE UNCHANGED busVars
    BY <1>6 DEF busVars
  <1> QED BY <1>1, <1>2, <1>3, <1>4, <1>5, <1>6 DEF Next, Handle

-----------------------------------------------------------------------------
(* Replay and queues *)

LEMMA ReplayStep ==
    Types /\ ReplayIsLast /\ [Next]_busVars => ReplayIsLast'
  <1> SUFFICES ASSUME Types, ReplayIsLast, [Next]_busVars PROVE ReplayIsLast'
    OBVIOUS
  <1> USE DEF ReplayIsLast
  <1>0. /\ published \in Nat /\ published + 1 \in Nat
        /\ ReplaySize \in Nat /\ ReplaySize >= 1
        /\ replay \in Seq(Nat) /\ Len(replay) \in Nat
    BY BusAssumption, LenProperties DEF Types
  <1>1. CASE Publish
    <2>1. PICK a \in Seq(Nat) : a = Append(replay, published + 1)
      BY <1>0, Shift
    <2>2. /\ Len(a) = Len(replay) + 1 /\ a # <<>>
          /\ \A i \in 1 .. Len(replay) : a[i] = replay[i]
          /\ a[Len(replay) + 1] = published + 1
      BY <1>0, <2>1, AppendProperties
    <2>3. ASSUME NEW i \in 1 .. Len(a) PROVE a[i] = published + 1 - Len(a) + i
      <3>1. CASE i \in 1 .. Len(replay)
        <4>1. replay[i] = published - Len(replay) + i
          BY <3>1
        <4> QED BY <1>0, <2>2, <3>1, <4>1
      <3>2. CASE i = Len(replay) + 1
        BY <1>0, <2>2, <3>2
      <3> QED BY <1>0, <2>2, <3>1, <3>2
    <2>4. /\ Len(Tail(a)) = Len(a) - 1
          /\ \A i \in 1 .. Len(Tail(a)) : Tail(a)[i] = a[i + 1]
      BY <2>2, HeadTailProperties
    <2>5. published' = published + 1
          /\ replay' = IF Len(a) > ReplaySize THEN Tail(a) ELSE a
      BY <1>1, <2>1 DEF Publish, Bounded
    <2>6. CASE Len(a) > ReplaySize
      <3>1. /\ replay' = Tail(a) /\ Len(replay') = ReplaySize
            /\ ReplaySize = Len(replay)
        BY <1>0, <2>2, <2>4, <2>5, <2>6
      <3>2. \A i \in 1 .. Len(replay') : replay'[i] = published' - Len(replay') + i
        <4>1. /\ Len(Tail(a)) = ReplaySize /\ Len(a) = ReplaySize + 1
              /\ published' = published + 1 /\ replay' = Tail(a)
          BY <1>0, <2>2, <2>4, <2>5, <3>1
        <4>2. ASSUME NEW i \in 1 .. ReplaySize
              PROVE  Tail(a)[i] = published + 1 - ReplaySize + i
          <5>1. i + 1 \in 1 .. Len(a) /\ i \in 1 .. Len(Tail(a))
            BY <1>0, <4>1
          <5>2. Tail(a)[i] = a[i + 1] /\ a[i + 1] = published + 1 - Len(a) + (i + 1)
            BY <2>3, <2>4, <5>1
          <5> QED BY <1>0, <4>1, <5>2
        <4>3. Len(replay') = ReplaySize /\ \A i \in 1 .. ReplaySize :
                 replay'[i] = published + 1 - ReplaySize + i
          BY <4>1, <4>2
        <4>4. published' - ReplaySize = published + 1 - ReplaySize
          BY <1>0, <4>1
        <4> QED BY <1>0, <4>1, <4>3, <4>4
      <3>3. ReplaySize <= published'
        BY <1>0, <2>5, <3>1
      <3> QED BY <1>0, <3>1, <3>2, <3>3
    <2>7. CASE ~ (Len(a) > ReplaySize)
      BY <1>0, <2>2, <2>3, <2>5, <2>7
    <2> QED BY <2>6, <2>7
  <1>2. CASE UNCHANGED <<published, replay>>
    BY <1>2
  <1> QED BY <1>1, <1>2
          DEF Next, Handle, Connect, Disconnect, Fails, Finalize, Subscribe, Sent, Get,
              busVars, bus

\* The replay is in order, and ends with the latest event.
LEMMA ReplayOrdered ==
    ASSUME Types, ReplayIsLast
    PROVE  /\ Ordered(replay, published)
           /\ \A e \in 1 .. published : published - ReplaySize < e => e \in Elements(replay)
  <1>1. published \in Nat /\ ReplaySize \in Nat /\ Len(replay) \in Nat
    BY BusAssumption, LenProperties DEF Types
  <1>2. DOMAIN replay = 1 .. Len(replay)
    BY LenProperties DEF Types
  <1>3. \A i \in 1 .. Len(replay) : replay[i] \in 1 .. published
    BY <1>1 DEF ReplayIsLast
  <1>4. /\ replay \in Seq(1 .. published)
        /\ \A i, j \in 1 .. Len(replay) : i < j => replay[i] < replay[j]
    <2>1. replay \in Seq(1 .. published)
      BY <1>3, ElementsInSet DEF Types
    <2>2. \A i, j \in 1 .. Len(replay) : i < j => replay[i] < replay[j]
      BY <1>1 DEF ReplayIsLast
    <2> QED BY <2>1, <2>2
  <1>5. ASSUME NEW e \in 1 .. published, published - ReplaySize < e
        PROVE  e \in Elements(replay)
    <2> DEFINE i == e - (published - Len(replay))
    <2>1. i \in 1 .. Len(replay) /\ replay[i] = e
      BY <1>1, <1>5 DEF ReplayIsLast
    <2> QED BY <1>2, <2>1 DEF Elements
  <1> QED BY <1>2, <1>4, <1>5 DEF Ordered

LEMMA AfterKept ==
    ASSUME NEW q \in Seq(Nat), NEW j \in Nat, After(q, j)
    PROVE  /\ After(<<>>, j)
           /\ q # <<>> => After(Tail(q), j) /\ Len(Tail(q)) = Len(q) - 1
           /\ \A e \in Nat : e > j => After(Append(q, e), j) /\ Len(Append(q, e)) = Len(q) + 1
  <1>0. Len(q) \in Nat
    BY LenProperties
  <1>1. After(<<>>, j)
    BY EmptySeq DEF After
  <1>2. ASSUME q # <<>> PROVE After(Tail(q), j) /\ Len(Tail(q)) = Len(q) - 1
    <2>1. /\ Len(Tail(q)) = Len(q) - 1
          /\ \A i \in 1 .. Len(Tail(q)) : Tail(q)[i] = q[i + 1]
      BY <1>2, HeadTailProperties
    <2>2. \A i \in 1 .. Len(Tail(q)) : i + 1 \in 1 .. Len(q)
      BY <1>0, <2>1
    <2> QED BY <2>1, <2>2 DEF After
  <1>3. ASSUME NEW e \in Nat, e > j
        PROVE  After(Append(q, e), j) /\ Len(Append(q, e)) = Len(q) + 1
    <2>1. /\ Len(Append(q, e)) = Len(q) + 1
          /\ \A i \in 1 .. Len(q) : Append(q, e)[i] = q[i]
          /\ Append(q, e)[Len(q) + 1] = e
      BY AppendProperties
    <2>2. \A i \in 1 .. Len(q) + 1 : i \in 1 .. Len(q) \/ i = Len(q) + 1
      BY <1>0
    <2> QED BY <1>3, <2>1, <2>2 DEF After
  <1> QED BY <1>1, <1>2, <1>3

LEMMA LiveStep == Types /\ Positions /\ Live /\ [Next]_busVars => Live'
  <1> SUFFICES ASSUME Types, Positions, Live, [Next]_busVars, NEW c \in Connections
               PROVE  /\ Len(queue[c])' <= QueueSize
                      /\ joined'[c] <= published'
                      /\ After(queue[c], joined[c])'
    BY DEF Live
  <1> DEFINE Kept == /\ Len(queue'[c]) <= QueueSize
                     /\ joined'[c] <= published'
                     /\ After(queue'[c], joined'[c])
  <1>0. /\ published \in Nat /\ QueueSize \in Nat /\ joined[c] \in Nat
        /\ queue[c] \in Seq(Nat)
        /\ Len(queue[c]) \in Nat
    BY BusAssumption, LenProperties DEF Types
  <1>1. /\ Len(queue[c]) <= QueueSize /\ joined[c] <= published
        /\ After(queue[c], joined[c])
    BY DEF Live
  <1>2. CASE queue'[c] = queue[c] /\ joined'[c] = joined[c] /\ published' \in {published, published + 1}
    <2>1. Kept
      BY <1>0, <1>1, <1>2
    <2> QED BY <2>1 DEF After
  <1>3. CASE Publish
    <2>1. CASE c \in Served
      <3>1. queue'[c] = Append(queue[c], published + 1) /\ Len(queue[c]) < QueueSize
        BY <1>3, <2>1 DEF Publish, Served, Types
      <3>2. /\ After(Append(queue[c], published + 1), joined[c])
            /\ Len(Append(queue[c], published + 1)) = Len(queue[c]) + 1
        BY <1>0, <1>1, AfterKept
      <3>3. joined'[c] = joined[c] /\ published' = published + 1
        BY <1>3 DEF Publish, stream
      <3>4. Kept
        BY <1>0, <1>1, <3>1, <3>2, <3>3
      <3> QED BY <3>4 DEF After
    <2>2. CASE c \notin Served
      BY <1>2, <1>3, <2>2 DEF Publish, stream, Types
    <2> QED BY <2>1, <2>2
  <1>4. CASE Subscribe(c)
    <2>1. queue'[c] = <<>> /\ joined'[c] = published /\ published' = published
      BY <1>4 DEF Subscribe, Positions, Types
    <2>2. Kept
      BY <1>0, <2>1, EmptySeq DEF After
    <2> QED BY <2>2 DEF After
  <1>5. CASE Get(c)
    <2>1. /\ queue'[c] = Tail(queue[c]) /\ queue[c] # <<>>
          /\ joined'[c] = joined[c] /\ published' = published
      BY <1>5 DEF Get, bus, Types
    <2>2. Kept
      BY <1>0, <1>1, <2>1, AfterKept
    <2> QED BY <2>2 DEF After
  <1>6. ASSUME NEW b \in Connections, b # c, Subscribe(b) \/ Get(b) PROVE <1>2!1
    BY <1>6 DEF Subscribe, Get, bus, Types
  <1>7. ASSUME NEW b \in Connections,
               Connect(b) \/ Disconnect(b) \/ Sent(b) \/ Fails(b) \/ Finalize(b)
        PROVE  <1>2!1
    BY <1>7 DEF Connect, Disconnect, Sent, Fails, Finalize, bus, stream
  <1>8. CASE UNCHANGED busVars
    BY <1>2, <1>8 DEF busVars, bus, stream
  <1> QED BY <1>2, <1>3, <1>4, <1>5, <1>6, <1>7, <1>8 DEF Next, Handle

-----------------------------------------------------------------------------
(* The stream of a connection *)

\* A stream of three parts.
Whole(s, h, q) == s \o h \o q

\* What a stream is made of may move from one part to the next.
LEMMA Parts ==
    ASSUME NEW s \in Seq(Nat), NEW h \in Seq(Nat), NEW q \in Seq(Nat)
    PROVE  /\ Whole(s, h, q) \in Seq(Nat)
           /\ h # <<>> => Whole(Append(s, Head(h)), Tail(h), q) = Whole(s, h, q)
           /\ h = <<>> /\ q # <<>> => Whole(Append(s, Head(q)), h, Tail(q)) = Whole(s, h, q)
           /\ \A e \in Nat : Whole(s, h, Append(q, e)) = Append(Whole(s, h, q), e)
           /\ Whole(<<>>, h, <<>>) = h
  <1>0. <<>> \in Seq(Nat)
    BY EmptySeq
  <1>1. s \o h \in Seq(Nat) /\ s \o h \o q \in Seq(Nat)
    BY ConcatProperties
  <1>2. h # <<>> => Append(s, Head(h)) \o Tail(h) \o q = s \o h \o q
    BY MoveHead
  <1>3. ASSUME q # <<>> PROVE Append(s, Head(q)) \o <<>> \o Tail(q) = s \o <<>> \o q
    <2>1. Append(s, Head(q)) \in Seq(Nat)
      BY <1>3, Shift
    <2>2. Append(s, Head(q)) \o <<>> = Append(s, Head(q)) /\ s \o <<>> = s
      BY <2>1, ConcatEmptySeq
    <2>3. Append(s, Head(q)) \o Tail(q) = s \o q
      BY <1>3, MoveHead
    <2> QED BY <2>2, <2>3
  <1>4. ASSUME NEW e \in Nat PROVE s \o h \o Append(q, e) = Append(s \o h \o q, e)
    <2>1. Append(q, e) = q \o <<e>> /\ <<e>> \in Seq(Nat)
      BY AppendIsConcat
    <2>2. Append(s \o h \o q, e) = s \o h \o q \o <<e>>
      BY <1>1, AppendIsConcat
    <2>3. (s \o h) \o q \o <<e>> = (s \o h) \o (q \o <<e>>)
      BY <1>1, <2>1, ConcatAssociative
    <2> QED BY <2>1, <2>2, <2>3
  <1>5. <<>> \o h \o <<>> = h
    BY ConcatEmptySeq
  <1> QED BY <1>1, <1>2, <1>3, <1>4, <1>5 DEF Whole

Still(c) ==
    /\ Stream(c)' = Stream(c) /\ UNCHANGED <<published, joined[c]>>
    /\ c \in subscribers' => c \in subscribers

Joins(c) ==
    Stream(c)' = replay /\ published' = published /\ joined'[c] = published

Grows(c) ==
    /\ published' = published + 1 /\ UNCHANGED <<subscribers, joined[c]>>
    /\ Stream(c)' = IF c \in Served THEN Append(Stream(c), published + 1) ELSE Stream(c)

\* A stream starts as a copy of the replay and grows by what is published: all
\* that handlers do moves events along it.
LEMMA StreamStep ==
    ASSUME Types, Positions, [Next]_busVars, NEW c \in Connections
    PROVE  Still(c) \/ Joins(c) \/ Grows(c)
  <1>0. /\ sent[c] \in Seq(Nat) /\ history[c] \in Seq(Nat) /\ queue[c] \in Seq(Nat)
        /\ replay \in Seq(Nat) /\ published \in Nat /\ published + 1 \in Nat
    BY DEF Types
  <1>1. PICK s \in Seq(Nat), h \in Seq(Nat), q \in Seq(Nat) :
           /\ s = sent[c] /\ h = history[c] /\ q = queue[c]
           /\ Stream(c) = Whole(s, h, q)
    BY <1>0 DEF Stream, Whole
  <1>2. /\ h # <<>> => Whole(Append(s, Head(h)), Tail(h), q) = Whole(s, h, q)
        /\ h = <<>> /\ q # <<>> => Whole(Append(s, Head(q)), h, Tail(q)) = Whole(s, h, q)
        /\ \A e \in Nat : Whole(s, h, Append(q, e)) = Append(Whole(s, h, q), e)
    BY Parts
  <1>3. CASE UNCHANGED <<published, sent[c], history[c], queue[c], joined[c]>>
             /\ (c \in subscribers' => c \in subscribers)
    BY <1>3 DEF Still, Stream
  <1>4. CASE Publish
    <2>1. /\ published' = published + 1 /\ UNCHANGED <<subscribers, joined[c], sent[c], history[c]>>
          /\ queue'[c] = IF c \in Served THEN Append(q, published + 1) ELSE q
      BY <1>1, <1>4 DEF Publish, stream, Types
    <2>2. Whole(s, h, Append(q, published + 1)) = Append(Whole(s, h, q), published + 1)
      BY <1>0, <1>2
    <2>3. Stream(c)' = IF c \in Served THEN Whole(s, h, Append(q, published + 1))
                       ELSE Whole(s, h, q)
      BY <1>1, <2>1 DEF Stream, Whole
    <2> QED BY <1>1, <2>1, <2>2, <2>3 DEF Grows
  <1>5. CASE Subscribe(c)
    <2>1. /\ published' = published /\ joined'[c] = published /\ queue'[c] = <<>>
          /\ sent[c] = <<>>
      BY <1>5 DEF Subscribe, Positions, Types
    <2>2. CASE replay = <<>>
      <3>1. sent'[c] = <<>> /\ history'[c] = <<>>
        BY <1>5, <2>1, <2>2 DEF Subscribe, Yield, Types
      <3>2. Whole(<<>>, replay, <<>>) = replay
        BY <1>0, Parts, EmptySeq
      <3> QED BY <2>1, <2>2, <3>1, <3>2 DEF Joins, Stream, Whole
    <2>3. CASE replay # <<>>
      <3>1. sent'[c] = Append(<<>>, Head(replay)) /\ history'[c] = Tail(replay)
        BY <1>5, <2>1, <2>3 DEF Subscribe, Yield, Types
      <3>2. /\ Whole(Append(<<>>, Head(replay)), Tail(replay), <<>>) = Whole(<<>>, replay, <<>>)
            /\ Whole(<<>>, replay, <<>>) = replay
        <4>1. <<>> \in Seq(Nat)
          BY EmptySeq
        <4>2. PICK e \in Seq(Nat), r \in Seq(Nat) : e = <<>> /\ r = replay
          BY <1>0, <4>1
        <4>3. /\ r # <<>> => Whole(Append(e, Head(r)), Tail(r), e) = Whole(e, r, e)
              /\ Whole(<<>>, r, <<>>) = r
          BY Parts
        <4> QED BY <2>3, <4>2, <4>3
      <3> QED BY <2>1, <3>1, <3>2 DEF Joins, Stream, Whole
    <2> QED BY <2>2, <2>3
  <1>6. CASE Sent(c)
    <2>1. UNCHANGED <<published, subscribers, joined[c], queue[c]>>
      BY <1>6 DEF Sent, bus
    <2>2. CASE history[c] = <<>>
      <3>1. UNCHANGED <<sent[c], history[c]>>
        BY <1>6, <2>2 DEF Sent, Yield, Types
      <3> QED BY <1>3, <2>1, <3>1
    <2>3. CASE history[c] # <<>>
      <3>1. sent'[c] = Append(s, Head(h)) /\ history'[c] = Tail(h)
        BY <1>1, <1>6, <2>3 DEF Sent, Yield, Types
      <3>2. Stream(c)' = Whole(Append(s, Head(h)), Tail(h), q)
        BY <1>1, <2>1, <3>1 DEF Stream, Whole
      <3> QED BY <1>1, <1>2, <2>1, <2>3, <3>2 DEF Still
    <2> QED BY <2>2, <2>3
  <1>7. CASE Get(c)
    <2>1. /\ UNCHANGED <<published, subscribers, joined[c]>> /\ queue[c] # <<>>
          /\ h = <<>> /\ history'[c] = h
          /\ sent'[c] = Append(s, Head(q)) /\ queue'[c] = Tail(q)
      BY <1>1, <1>7 DEF Get, bus, Positions, Types
    <2>2. Stream(c)' = Whole(Append(s, Head(q)), h, Tail(q))
      BY <2>1 DEF Stream, Whole
    <2> QED BY <1>1, <1>2, <2>1, <2>2 DEF Still
  <1>8. ASSUME NEW b \in Connections, b # c, Handle(b) PROVE <1>3!1
    BY <1>8 DEF Handle, Subscribe, Sent, Get, Fails, OnFailure, Finalize, Yield,
                bus, stream, Types
  <1>9. ASSUME NEW b \in Connections, Connect(b) \/ Disconnect(b) \/ Fails(b) \/ Finalize(b)
        PROVE  <1>3!1
    BY <1>9 DEF Connect, Disconnect, Fails, OnFailure, Finalize, bus, stream
  <1>10. CASE UNCHANGED busVars
    BY <1>3, <1>10 DEF busVars, bus, stream
  <1> QED BY <1>3, <1>4, <1>5, <1>6, <1>7, <1>8, <1>9, <1>10 DEF Next, Handle

LEMMA OrderedStep ==
    BusInv /\ [Next]_busVars => StreamsOrdered'
  <1> SUFFICES ASSUME BusInv, [Next]_busVars, NEW c \in Connections
               PROVE  Ordered(Stream(c)', published')
    BY DEF StreamsOrdered
  <1>1. Ordered(Stream(c), published) /\ published \in Nat
    BY DEF BusInv, StreamsOrdered, Types
  <1>2. CASE Still(c)
    BY <1>1, <1>2 DEF Still
  <1>3. CASE Joins(c)
    BY <1>3, ReplayOrdered DEF Joins, BusInv
  <1>4. CASE Grows(c)
    BY <1>1, <1>4, OrderedAppend DEF Grows
  <1> QED BY <1>2, <1>3, <1>4, StreamStep DEF BusInv

-----------------------------------------------------------------------------
(* What is skipped *)

LEMMA AppendElements ==
    ASSUME NEW s \in Seq(Nat), NEW e \in Nat
    PROVE  Elements(s) \subseteq Elements(Append(s, e)) /\ e \in Elements(Append(s, e))
  <1>1. /\ Append(s, e) \in Seq(Nat) /\ Len(Append(s, e)) = Len(s) + 1
        /\ \A i \in 1 .. Len(s) : Append(s, e)[i] = s[i]
        /\ Append(s, e)[Len(s) + 1] = e
    BY AppendProperties
  <1>2. Len(s) \in Nat /\ DOMAIN s = 1 .. Len(s) /\ DOMAIN Append(s, e) = 1 .. Len(s) + 1
    BY <1>1, LenProperties
  <1>3. Len(s) + 1 \in 1 .. Len(s) + 1 /\ \A i \in 1 .. Len(s) : i \in 1 .. Len(s) + 1
    BY <1>2
  <1> QED BY <1>1, <1>2, <1>3 DEF Elements

\* What was refused stays so, and a publication that meets a full queue is.
LEMMA RefusedKept ==
    ASSUME Types, [Next]_busVars, NEW c \in Connections
    PROVE  /\ refused[c] \subseteq refused'[c]
           /\ published' # published /\ c \in subscribers /\ Len(queue[c]) = QueueSize =>
                 published' \in refused'[c]
  <1>0. published \in Nat
    BY DEF Types
  <1>1. CASE Publish
    BY <1>0, <1>1 DEF Publish, Types
  <1>2. CASE UNCHANGED <<published, refused>>
    BY <1>2
  <1> QED BY <1>1, <1>2
          DEF Next, Handle, Connect, Disconnect, Fails, Finalize, Subscribe, Sent, Get,
              busVars, bus

\* An event that comes to a subscriber is queued, or its queue is full and the
\* event is refused; what was owed and sent, queued or refused remains so.
LEMMA SkippedStep == BusInv /\ [Next]_busVars => NothingSkipped'
  <1> SUFFICES ASSUME BusInv, [Next]_busVars PROVE NothingSkipped'
    OBVIOUS
  <1>1. SUFFICES ASSUME NEW c \in Connections, c \in subscribers',
                        NEW e \in 1 .. published', joined'[c] - ReplaySize < e
                 PROVE  e \in Elements(Stream(c)') \/ e \in refused'[c]
    <2>1. subscribers' \subseteq Connections
      BY TypesStep DEF BusInv, Types
    <2> QED BY <2>1 DEF NothingSkipped
  <1>2. /\ published \in Nat /\ joined[c] \in Nat /\ ReplaySize \in Nat /\ QueueSize \in Nat
        /\ Stream(c) \in Seq(Nat)
    <2>1. Stream(c) \in Seq(1 .. published)
      BY DEF BusInv, StreamsOrdered, Ordered
    <2> QED BY <2>1, BusAssumption, SeqMonotonic DEF BusInv, Types
  <1>3. refused[c] \subseteq refused'[c]
    BY RefusedKept DEF BusInv
  <1>4. ASSUME c \in subscribers, e \in 1 .. published, joined'[c] = joined[c],
               Elements(Stream(c)) \subseteq Elements(Stream(c)')
        PROVE  e \in Elements(Stream(c)') \/ e \in refused'[c]
    BY <1>1, <1>3, <1>4 DEF BusInv, NothingSkipped
  <1>5. CASE Still(c)
    BY <1>1, <1>4, <1>5 DEF Still, Elements
  <1>6. CASE Joins(c)
    BY <1>1, <1>6, ReplayOrdered DEF Joins, BusInv
  <1>7. CASE Grows(c)
    <2>1. Elements(Stream(c)) \subseteq Elements(Stream(c)')
      BY <1>2, <1>7, AppendElements DEF Grows
    <2>2. CASE e \in 1 .. published
      BY <1>1, <1>4, <1>7, <2>1, <2>2 DEF Grows
    <2>3. CASE e = published + 1
      <3>1. CASE c \in Served
        BY <1>2, <1>7, <2>3, <3>1, AppendElements DEF Grows
      <3>2. CASE c \notin Served
        <4>1. c \in subscribers /\ Len(queue[c]) \in Nat /\ ~ (Len(queue[c]) < QueueSize)
          BY <1>1, <1>7, <3>2, LenProperties DEF Grows, Served, BusInv, Types
        <4>2. Len(queue[c]) = QueueSize
          BY <1>2, <4>1 DEF BusInv, Live
        <4>3. published + 1 \in refused'[c]
          BY <4>1, <4>2, <1>7, RefusedKept DEF Grows, BusInv
        <4> QED BY <2>3, <4>3
      <3> QED BY <3>1, <3>2
    <2> QED BY <1>1, <1>2, <1>7, <2>2, <2>3 DEF Grows
  <1> QED BY <1>5, <1>6, <1>7, StreamStep DEF BusInv

-----------------------------------------------------------------------------

LEMMA BusStep == BusInv /\ [Next]_busVars => BusInv'
  BY TypesStep, PositionsStep, ReplayStep, LiveStep, OrderedStep, SkippedStep DEF BusInv

\* BusInv holds in every state.
THEOREM BusInvariant == Spec => []BusInv
  BY BusInit, BusStep, PTL DEF Spec

\* Histories and queues stay within their sizes, and handlers that stream are
\* subscribed.
THEOREM BusIsTypeCorrect == Spec => []BusTypeOK
  <1>1. BusInv => BusTypeOK
    <2> SUFFICES ASSUME BusInv PROVE BusTypeOK
      OBVIOUS
    <2>1. replay \in Seq(1 .. published) /\ \A c \in Connections : Stream(c) \in Seq(1 .. published)
      BY ReplayOrdered DEF BusInv, StreamsOrdered, Ordered
    <2>2. joined \in [Connections -> 0 .. published]
      BY DEF BusInv, Types, Live
    <2> QED BY <2>1, <2>2 DEF BusInv, Types, Positions, ReplayIsLast, Live, BusTypeOK
  <1> QED BY <1>1, BusInvariant, PTL

\* A client gets every event at most once and in the order of publication, across
\* the end of the replay too, whatever is published while it connects and reads.
THEOREM EventsInOrder == Spec => []InOrder
  <1>1. BusInv => InOrder
    BY DEF BusInv, StreamsOrdered, Ordered, InOrder
  <1> QED BY <1>1, BusInvariant, PTL

\* A subscriber is sent every event of the replay and since its subscription,
\* except those whose publication met QueueSize unread events in its queue.
THEOREM NoEventIsSkipped == Spec => []NothingSkipped
  <1>1. BusInv => NothingSkipped
    BY DEF BusInv
  <1> QED BY <1>1, BusInvariant, PTL

=============================================================================
