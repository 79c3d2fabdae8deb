------------------------------ MODULE EventBus ------------------------------
(***************************************************************************)
(* EventBus of shared/events.py, and its one reader: the /events websocket *)
(* handler of api/app.py.  An event is its number in the order of publish. *)
(*                                                                         *)
(* The bus lock is never held across a suspension, so publish is one step. *)
(* A handler suspends in accept, send_json and queue.get, and not between  *)
(* its registration and its first send.  It does not close the subscribe() *)
(* generator: its queue stays registered until the loop finalises that.    *)
(***************************************************************************)
EXTENDS Integers, Sequences, FiniteSets

CONSTANTS
    Connections, \* websocket connections
    ReplaySize,  \* EventBus(replay_size)
    QueueSize,   \* maxsize of a subscriber's queue
    MaxEvents    \* bound: publish calls

ASSUME BusAssumption == {ReplaySize, QueueSize, MaxEvents} \subseteq Nat \ {0}

VARIABLES
    published,   \* number of events published
    replay,      \* _replay
    subscribers, \* connections whose queue is in _subscribers
    queue,       \* the queue of each connection
    history,     \* what subscribe() has still to yield of its copy of _replay
    handler,     \* where each handler is
    peer,        \* whether the client is still there
    sent,        \* events given to send_json; in "send" the last is on its way
    \* for the properties
    joined,      \* published when the connection subscribed
    refused      \* events published while its queue held QueueSize unread ones

bus == <<published, replay, subscribers, refused>>
stream == <<history, sent, joined>>
busVars == <<bus, queue, stream, handler, peer>>

Init ==
    /\ published = 0
    /\ replay = <<>>
    /\ subscribers = {}
    /\ queue = [c \in Connections |-> <<>>]
    /\ history = [c \in Connections |-> <<>>]
    /\ handler = [c \in Connections |-> "none"]
    /\ peer = [c \in Connections |-> FALSE]
    /\ sent = [c \in Connections |-> <<>>]
    /\ joined = [c \in Connections |-> 0]
    /\ refused = [c \in Connections |-> {}]

-----------------------------------------------------------------------------

BoundedOneMore(s) == IF Len(s) > ReplaySize + 1 THEN Tail(s) ELSE s   \* faulty variant

\* deque(maxlen=replay_size) after an append
Bounded(s) == IF Len(s) > ReplaySize THEN Tail(s) ELSE s

ServedIdle == {c \in subscribers : handler[c] = "get"}   \* faulty variant: busy readers get nothing

\* The subscribers whose put_nowait does not raise QueueFull.
Served == {c \in subscribers : Len(queue[c]) < QueueSize}

Publish ==
    /\ published < MaxEvents
    /\ published' = published + 1
    /\ replay' = Bounded(Append(replay, published'))
    /\ queue' = [c \in Connections |->
          IF c \in Served THEN Append(queue[c], published') ELSE queue[c]]
    /\ refused' = [c \in Connections |->
          IF c \in subscribers /\ Len(queue[c]) = QueueSize
          THEN refused[c] \cup {published'} ELSE refused[c]]
    /\ UNCHANGED <<subscribers, stream, handler, peer>>

ConnectRegisters(c) ==   \* faulty variant: registers before the replay is copied
    /\ handler[c] = "none"
    /\ handler' = [handler EXCEPT ![c] = "accept"]
    /\ peer' = [peer EXCEPT ![c] = TRUE]
    /\ subscribers' = subscribers \cup {c}
    /\ UNCHANGED <<published, replay, refused, queue, stream>>

Connect(c) ==
    /\ handler[c] = "none"
    /\ handler' = [handler EXCEPT ![c] = "accept"]
    /\ peer' = [peer EXCEPT ![c] = TRUE]
    /\ UNCHANGED <<bus, queue, stream>>

\* The client closes the connection or is lost.
Disconnect(c) ==
    /\ peer[c]
    /\ peer' = [peer EXCEPT ![c] = FALSE]
    /\ UNCHANGED <<bus, queue, stream, handler>>

YieldReplay(c, h) ==   \* faulty variant: the generator ends with the history
    /\ h # <<>>
    /\ history' = [history EXCEPT ![c] = Tail(h)]
    /\ sent' = [sent EXCEPT ![c] = Append(@, Head(h))]
    /\ handler' = [handler EXCEPT ![c] = "send"]

\* The generator yields the next event of its history h to send_json, or goes on
\* to queue.get when there is none.
Yield(c, h) ==
    /\ history' = [history EXCEPT ![c] = IF h = <<>> THEN h ELSE Tail(h)]
    /\ sent' = [sent EXCEPT ![c] = IF h = <<>> THEN @ ELSE Append(@, Head(h))]
    /\ handler' = [handler EXCEPT ![c] = IF h = <<>> THEN "get" ELSE "send"]

\* accept returns: subscribe(replay=True) registers the queue, copies the replay.
Subscribe(c) ==
    /\ handler[c] = "accept"
    /\ subscribers' = subscribers \cup {c}
    /\ Yield(c, replay)
    /\ joined' = [joined EXCEPT ![c] = published]
    /\ UNCHANGED <<published, replay, refused, queue, peer>>

\* send_json returns.
Sent(c) ==
    /\ handler[c] = "send"
    /\ peer[c]
    /\ Yield(c, history[c])
    /\ UNCHANGED <<bus, queue, joined, peer>>

\* queue.get returns; it does not notice that the client is gone.
Get(c) ==
    /\ handler[c] = "get"
    /\ queue[c] # <<>>
    /\ queue' = [queue EXCEPT ![c] = Tail(@)]
    /\ sent' = [sent EXCEPT ![c] = Append(@, Head(queue[c]))]
    /\ handler' = [handler EXCEPT ![c] = "send"]
    /\ UNCHANGED <<bus, history, joined, peer>>

OnFailureIgnored(c) == Yield(c, history[c])   \* faulty variant: the handler goes on

OnFailure(c) == handler' = [handler EXCEPT ![c] = "ended"] /\ UNCHANGED <<history, sent>>

\* accept or send_json raises: the handler ends.  A failure of the keepalive's
\* own send_json ends that task only.
Fails(c) ==
    /\ handler[c] \in {"accept", "send"}
    /\ ~ peer[c]
    /\ OnFailure(c)
    /\ UNCHANGED <<bus, queue, joined, peer>>

\* The event loop closes the abandoned generator: its finally block runs.
Finalize(c) ==
    /\ handler[c] = "ended"
    /\ c \in subscribers
    /\ subscribers' = subscribers \ {c}
    /\ UNCHANGED <<published, replay, refused, queue, stream, handler, peer>>

Handle(c) == Subscribe(c) \/ Sent(c) \/ Get(c) \/ Fails(c) \/ Finalize(c)

Next ==
    \/ Publish
    \/ \E c \in Connections : Connect(c) \/ Disconnect(c) \/ Handle(c)

\* Fairness: the event loop runs handlers that are ready and finalisers; a client
\* that stays connected reads what it is sent.
Spec == Init /\ [][Next]_busVars /\ \A c \in Connections : WF_busVars(Handle(c))

-----------------------------------------------------------------------------
(* Properties *)

Elements(s) == {s[i] : i \in DOMAIN s}

\* All the events of a connection, sent or to be sent, in order.
Stream(c) == sent[c] \o history[c] \o queue[c]

BusTypeOK ==
    /\ published \in 0 .. MaxEvents
    /\ replay \in Seq(1 .. published)
    /\ Len(replay) <= ReplaySize
    /\ subscribers \subseteq Connections
    /\ handler \in [Connections -> {"none", "accept", "get", "send", "ended"}]
    /\ peer \in [Connections -> BOOLEAN]
    /\ joined \in [Connections -> 0 .. published]
    /\ refused \in [Connections -> SUBSET (1 .. published)]
    /\ \A c \in Connections : /\ Stream(c) \in Seq(1 .. published)
                              /\ Len(queue[c]) <= QueueSize
                              /\ handler[c] \in {"get", "send"} => c \in subscribers

\* A client sees every event at most once and in the order of publication, also
\* where the replay ends and the queue begins.
InOrder ==
    \A c \in Connections :
        \A i, j \in DOMAIN Stream(c) : i < j => Stream(c)[i] < Stream(c)[j]

\* A subscriber is owed the last ReplaySize events before it joined and every
\* event since.  Each one was sent or is still to be sent, unless at its own
\* publication QueueSize unread events filled the queue: no event is lost while a
\* handler moves from replay to queue or is busy sending.
NothingSkipped ==
    \A c \in subscribers : \A e \in 1 .. published :
        joined[c] - ReplaySize < e => e \in Elements(Stream(c)) \cup refused[c]

\* An event that reached the queue of a client that stays connected is sent.
EventDelivered ==
    \A c \in Connections, e \in 1 .. MaxEvents :
        e \in Elements(queue[c]) ~> (e \in Elements(sent[c]) \/ ~ peer[c])

\* A client that is gone is unsubscribed once an event is due to it; until then
\* its handler sits in queue.get, and nothing but its keepalive notices.
GoneUnsubscribed ==
    \A c \in Connections :
        (c \in subscribers /\ ~ peer[c] /\ (queue[c] # <<>> \/ handler[c] = "send"))
            ~> c \notin subscribers

=============================================================================
