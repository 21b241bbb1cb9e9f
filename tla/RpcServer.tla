----------------------------- MODULE RpcServer ------------------------------
(***************************************************************************)
(* The RPC server (Server of reccy/protocol/rpc.py): two accept loops, a    *)
(* worker for each connection, a writer for each event subscriber, publish *)
(* and close.  A section under self.lock is one step.                      *)
(*                                                                         *)
(* self.threads is not a variable: a worker or writer is in it from the     *)
(* section that starts it to the one that discards it, see Threads.  The   *)
(* subscribers (event_connections) are always the keys of event_queues.    *)
(***************************************************************************)
EXTENDS Naturals, Sequences, FiniteSets

CONSTANTS
  Control,       \* connections peers open to the control endpoint
  Events,        \* connections peers open to the event endpoint
  RequestSlots,  \* MAX_CONCURRENT_REQUESTS
  EventSlots,    \* MAX_EVENT_CONNECTIONS
  MaxPending,    \* MAX_PENDING_EVENTS
  MaxPublished   \* bound: events that are published

ASSUME ConnectionsAssumption ==
  /\ IsFiniteSet(Control) /\ IsFiniteSet(Events)
  /\ Control \cap Events = {}

ASSUME LimitsAssumption ==
  /\ RequestSlots \in Nat \ {0} /\ EventSlots \in Nat \ {0}
  /\ MaxPending \in Nat \ {0} /\ MaxPublished \in Nat

Connection == Control \cup Events
Endpoint == {"control", "events"}
ConnectionsOf(endpoint) == IF endpoint = "control" THEN Control ELSE Events
EndpointOf(c) == IF c \in Control THEN "control" ELSE "events"
Slots(endpoint) == IF endpoint = "control" THEN RequestSlots ELSE EventSlots

Stop == 0   \* the None that ends a writer; events are 1, 2, ...

VARIABLES
  running,     \* self.running
  backends,    \* endpoints that listen
  accepting,   \* the accept loops
  worker,      \* position of the worker of a connection
  open,        \* connections whose socket is open on this side
  timed,       \* connections whose handshake timer is armed
  listed,      \* self.connections
  slots,       \* free places of request_slots and event_slots
  cancellable, \* keys of self.cancellations
  cancelled,   \* connections whose cancellation event is set
  queue,       \* pending queue of each subscriber
  subscribed,  \* keys of event_queues
  writer,      \* position of the writer of a connection
  holding,     \* message the writer has taken from the queue
  published,   \* events published so far
  last,        \* history: last event written, or published before subscribing
  closer,      \* position in close()
  taken        \* connections, queues and cancellations taken by close()

loops == <<backends, accepting>>
sockets == <<worker, open, timed, listed, slots>>
requests == <<cancellable, cancelled>>
events == <<queue, subscribed, writer, holding, published, last>>
closing == <<running, closer, taken>>
serverVars == <<loops, sockets, requests, events, closing>>

WorkerPc == {"new", "accepted", "refused", "reading", "received",
             "registering", "watched", "handling", "handled",
             "replying", "draining", "leaving", "unlisted", "done"}
WriterPc == {"none", "waiting", "holding", "writing", "leaving", "unlisted", "done"}
CloserPc == {"no", "cancel", "queues", "transports", "joining", "late", "closed"}
NoneTaken == [connections |-> {}, queues |-> {}, cancellations |-> {}]

ServerTypeOK ==
  /\ running \in BOOLEAN
  /\ backends \subseteq Endpoint
  /\ accepting \in [Endpoint -> {"unstarted", "waiting", "ended"}]
  /\ worker \in [Connection -> WorkerPc]
  /\ open \subseteq Connection /\ timed \subseteq Connection
  /\ listed \subseteq Connection
  /\ slots \in [Endpoint -> Nat]
  /\ \A endpoint \in Endpoint : slots[endpoint] <= Slots(endpoint)
  /\ cancellable \subseteq Control /\ cancelled \subseteq Control
  /\ queue \in [Events -> Seq(0..MaxPublished)]
  /\ subscribed \subseteq Events
  /\ writer \in [Events -> WriterPc]
  /\ holding \in [Events -> 0..MaxPublished]
  /\ published \in 0..MaxPublished
  /\ last \in [Events -> 0..MaxPublished]
  /\ closer \in CloserPc
  /\ taken \in [connections : SUBSET Connection, queues : SUBSET Events,
                cancellations : SUBSET Control]

ServerInit ==
  /\ running = FALSE /\ backends = {}
  /\ accepting = [endpoint \in Endpoint |-> "unstarted"]
  /\ worker = [c \in Connection |-> "new"]
  /\ open = {} /\ timed = {} /\ listed = {}
  /\ slots = [endpoint \in Endpoint |-> Slots(endpoint)]
  /\ cancellable = {} /\ cancelled = {}
  /\ queue = [c \in Events |-> <<>>] /\ subscribed = {}
  /\ writer = [c \in Events |-> "none"]
  /\ holding = [c \in Events |-> Stop]
  /\ published = 0 /\ last = [c \in Events |-> 0]
  /\ closer = "no" /\ taken = NoneTaken

WorkersAlive ==
  {c \in Connection : worker[c] \notin {"new", "accepted", "refused", "done"}}
WritersAlive == {c \in Events : writer[c] \notin {"none", "done"}}

(* A mistake: the writers are not in self.threads. *)
ThreadsOfWorkers == WorkersAlive

(* self.threads, by connection. *)
Threads == WorkersAlive \cup WritersAlive

Move(c, from, to) == worker[c] = from /\ worker' = [worker EXCEPT ![c] = to]
MoveWriter(c, from, to) == writer[c] = from /\ writer' = [writer EXCEPT ![c] = to]

-----------------------------------------------------------------------------
(* Accepting.  The loop reads running without the lock before each accept,  *)
(* which gives up after SOCKET_TIMEOUT and when the listener is closed.     *)

AcceptConnection(c) ==
  /\ accepting[EndpointOf(c)] = "waiting" /\ EndpointOf(c) \in backends
  /\ \A d \in ConnectionsOf(EndpointOf(c)) : worker[d] /= "accepted"
  /\ Move(c, "new", "accepted")
  /\ open' = open \cup {c}
  /\ UNCHANGED <<loops, timed, listed, slots, requests, events, closing>>

NextAccept(endpoint) ==
  accepting' = [accepting EXCEPT ![endpoint] = IF running THEN @ ELSE "ended"]

Admit(c) ==
  /\ running /\ slots[EndpointOf(c)] > 0
  /\ Move(c, "accepted", "reading")
  /\ listed' = listed \cup {c} /\ timed' = timed \cup {c}
  /\ slots' = [slots EXCEPT ![EndpointOf(c)] = @ - 1]
  /\ UNCHANGED <<loops, open, requests, events, closing>>

(* A mistake: the slot is given back though none was taken. *)
RefuseAndRelease(c) ==
  /\ Move(c, "accepted", "refused")
  /\ open' = open \ {c}
  /\ slots' = [slots EXCEPT ![EndpointOf(c)] = @ + 1]
  /\ NextAccept(EndpointOf(c))
  /\ UNCHANGED <<backends, timed, listed, requests, events, closing>>

(* Not running, no slot, or the thread does not start and all is undone. *)
Refuse(c) ==
  /\ Move(c, "accepted", "refused")
  /\ open' = open \ {c}
  /\ NextAccept(EndpointOf(c))
  /\ UNCHANGED <<backends, timed, listed, slots, requests, events, closing>>

StopAccepting(endpoint) ==
  /\ ~running /\ accepting[endpoint] = "waiting"
  /\ \A c \in ConnectionsOf(endpoint) : worker[c] /= "accepted"
  /\ accepting' = [accepting EXCEPT ![endpoint] = "ended"]
  /\ UNCHANGED <<backends, sockets, requests, events, closing>>

-----------------------------------------------------------------------------
(* The part that both kinds of worker share.  The handshake timer closes    *)
(* the connection behind the worker's back; reading it then ends.           *)

HandshakeExpires(c) ==
  /\ c \in timed
  /\ timed' = timed \ {c} /\ open' = open \ {c}
  /\ UNCHANGED <<loops, worker, listed, slots, requests, events, closing>>

(* timer.cancel() does not wait for a timer that is running already, which   *)
(* may close the connection while the worker goes on.                       *)
CloseLateHandshake(c) ==
  /\ worker[c] \in {"registering", "watched", "handling", "handled", "replying",
                   "draining", "leaving", "unlisted"}
  /\ c \in open /\ open' = open \ {c}
  /\ UNCHANGED <<loops, worker, timed, listed, slots, requests, events, closing>>

(* The hello, then the message. *)
ReceiveMessage(c) ==
  /\ c \in open /\ Move(c, "reading", "received")
  /\ UNCHANGED <<loops, open, timed, listed, slots, requests, events, closing>>

(* The peer closes or sends what it must not, or the socket is closed. *)
StopReading(c) ==
  /\ worker[c] \in {"reading", "draining"}
  /\ worker' = [worker EXCEPT ![c] = "leaving"]
  /\ UNCHANGED <<loops, open, timed, listed, slots, requests, events, closing>>

StopQueue(q) == Append(IF Len(q) < MaxPending THEN q ELSE Tail(q), Stop)

(* The locked part of _close_connection. *)
Unlist(c) ==
  /\ listed' = listed \ {c}
  /\ subscribed' = subscribed \ {c}
  /\ queue' = IF c \in subscribed
              THEN [queue EXCEPT ![c] = StopQueue(@)] ELSE queue

Leave(c) ==
  /\ Move(c, "leaving", "unlisted")
  /\ Unlist(c) /\ timed' = timed \ {c}
  /\ UNCHANGED <<loops, open, slots, requests, writer, holding, published, last,
                 closing>>

(* The socket is closed, the slot given back and the thread discarded. *)
EndWorker(c) ==
  /\ Move(c, "unlisted", "done")
  /\ open' = open \ {c} /\ cancelled' = cancelled \ {c}
  /\ slots' = [slots EXCEPT ![EndpointOf(c)] = @ + 1]
  /\ UNCHANGED <<loops, timed, listed, cancellable, events, closing>>

-----------------------------------------------------------------------------
(* _serve_control after a request was read.                                 *)

TakeRequest(c) ==
  /\ c \in Control
  /\ Move(c, "received", IF running THEN "registering" ELSE "leaving")
  /\ timed' = timed \ {c}
  /\ UNCHANGED <<loops, open, listed, slots, requests, events, closing>>

(* A mistake: running is not read again under the lock. *)
RegisterUnchecked(c) ==
  /\ Move(c, "registering", "watched")
  /\ cancellable' = cancellable \cup {c}
  /\ UNCHANGED <<loops, open, timed, listed, slots, cancelled, events, closing>>

(* The cancellation is registered and the watcher started. *)
Register(c) ==
  /\ Move(c, "registering", IF running THEN "watched" ELSE "leaving")
  /\ cancellable' = IF running THEN cancellable \cup {c} ELSE cancellable
  /\ UNCHANGED <<loops, open, timed, listed, slots, cancelled, events, closing>>

(* The watcher's thread does not start: the cancellation stays registered. *)
FailWatcher(c) ==
  /\ running /\ Move(c, "registering", "leaving")
  /\ cancellable' = cancellable \cup {c}
  /\ UNCHANGED <<loops, open, timed, listed, slots, cancelled, events, closing>>

(* EOF, a further message, or a socket closed on this side. *)
WatchDisconnect(c) ==
  /\ worker[c] \in {"watched", "handling", "handled", "replying"}
  /\ cancelled' = cancelled \cup {c}
  /\ UNCHANGED <<loops, sockets, cancellable, events, closing>>

(* The handler is called; accepts is its own first test. *)
Handle(c, accepts) ==
  /\ Move(c, "watched", IF c \in cancelled \/ ~accepts THEN "handled" ELSE "handling")
  /\ UNCHANGED <<loops, open, timed, listed, slots, requests, events, closing>>

(* A mistake: the timer cancels nothing, and only closes the connection. *)
CloseExpired(c) ==
  /\ worker[c] \in {"handling", "handled", "replying"}
  /\ cancelled' = cancelled /\ open' = open \ {c}
  /\ UNCHANGED <<loops, worker, timed, listed, slots, cancellable, events, closing>>

(* The request timer; timer.cancel() does not wait for one that has fired. *)
ExpireRequest(c) ==
  /\ worker[c] \in {"handling", "handled", "replying"}
  /\ cancelled' = cancelled \cup {c} /\ open' = open \ {c}
  /\ UNCHANGED <<loops, worker, timed, listed, slots, cancellable, events, closing>>

(* The handler returns, or raises, or the request timer does not start. *)
EndHandler(c) ==
  /\ worker[c] \in {"watched", "handling"}
  /\ worker' = [worker EXCEPT ![c] = "handled"]
  /\ UNCHANGED <<loops, open, timed, listed, slots, requests, events, closing>>

Unregister(c) ==
  /\ Move(c, "handled", "replying")
  /\ cancellable' = cancellable \ {c}
  /\ UNCHANGED <<loops, open, timed, listed, slots, cancelled, events, closing>>

(* Unless cancelled the result is written, which closes a socket it blocks on. *)
Reply(c) ==
  /\ Move(c, "replying", "leaving")
  /\ open' \in {open} \cup (IF c \in cancelled THEN {} ELSE {open \ {c}})
  /\ UNCHANGED <<loops, timed, listed, slots, requests, events, closing>>

-----------------------------------------------------------------------------
(* Events.                                                                  *)

Activate(c) ==
  /\ subscribed' = subscribed \cup {c}
  /\ queue' = [queue EXCEPT ![c] = <<>>]
  /\ last' = [last EXCEPT ![c] = published]

Subscribe(c) ==
  /\ c \in Events /\ running
  /\ Move(c, "received", "draining") /\ timed' = timed \ {c}
  /\ Activate(c)
  /\ MoveWriter(c, "none", "waiting")
  /\ UNCHANGED <<loops, open, listed, slots, requests, holding, published, closing>>

(* The writer's thread does not start; the worker's finally cleans up. *)
FailWriter(c) ==
  /\ c \in Events /\ running
  /\ Move(c, "received", "leaving") /\ timed' = timed \ {c}
  /\ Activate(c)
  /\ UNCHANGED <<loops, open, listed, slots, requests, writer, holding, published,
                 closing>>

SubscribeTooLate(c) ==
  /\ c \in Events /\ ~running
  /\ Move(c, "received", "leaving") /\ timed' = timed \ {c}
  /\ UNCHANGED <<loops, open, listed, slots, requests, events, closing>>

Full == {c \in subscribed : Len(queue[c]) = MaxPending}

(* What a subscriber's queue becomes: one without room is ended. *)
QueueEvent(c) ==
  IF c \in Full THEN StopQueue(queue[c]) ELSE Append(queue[c], published + 1)

(* A mistake: a full queue makes room by forgetting its oldest event. *)
PublishLatest ==
  /\ published < MaxPublished /\ subscribed /= {}
  /\ published' = published + 1
  /\ queue' = [c \in Events |->
       IF c \notin subscribed THEN queue[c]
       ELSE Append(IF c \in Full THEN Tail(queue[c]) ELSE queue[c], published + 1)]
  /\ UNCHANGED <<subscribed, writer, holding, last>>

(* Without subscribers nothing happens; events are counted from the first    *)
(* that somebody may be sent.                                               *)
Publish ==
  /\ published < MaxPublished /\ subscribed /= {}
  /\ published' = published + 1
  /\ queue' = [c \in Events |->
                 IF c \in subscribed THEN QueueEvent(c) ELSE queue[c]]
  /\ subscribed' = subscribed \ Full
  /\ UNCHANGED <<writer, holding, last>>

TakeEvent(c) ==
  /\ queue[c] /= <<>>
  /\ queue' = [queue EXCEPT ![c] = Tail(@)]
  /\ holding' = [holding EXCEPT ![c] = Head(queue[c])]
  /\ MoveWriter(c, "waiting", IF Head(queue[c]) = Stop THEN "leaving" ELSE "holding")
  /\ UNCHANGED <<loops, sockets, requests, subscribed, published, last, closing>>

CheckSubscribed(c) ==
  /\ MoveWriter(c, "holding", IF c \in subscribed THEN "writing" ELSE "leaving")
  /\ UNCHANGED <<loops, sockets, requests, queue, subscribed, holding, published,
                 last, closing>>

WriteEvent(c) ==
  /\ c \in open
  /\ MoveWriter(c, "writing", "waiting")
  /\ last' = [last EXCEPT ![c] = holding[c]]
  /\ holding' = [holding EXCEPT ![c] = Stop]
  /\ UNCHANGED <<loops, sockets, requests, queue, subscribed, published, closing>>

(* Closed, or closed by the write itself after WRITE_TIMEOUT. *)
FailWrite(c) ==
  /\ MoveWriter(c, "writing", "leaving")
  /\ open' = open \ {c}
  /\ UNCHANGED <<loops, worker, timed, listed, slots, requests, queue, subscribed,
                 holding, published, last, closing>>

LeaveWriter(c) ==
  /\ MoveWriter(c, "leaving", "unlisted")
  /\ Unlist(c) /\ holding' = [holding EXCEPT ![c] = Stop]
  /\ UNCHANGED <<loops, worker, open, timed, slots, requests, published, last,
                 closing>>

(* What its queue still holds is never read, and the numbers of events mean  *)
(* nothing once no writer is left.                                          *)
DiscardWriter(c) ==
  /\ MoveWriter(c, "unlisted", "done")
  /\ open' = open \ {c}
  /\ queue' = [queue EXCEPT ![c] = <<>>] /\ last' = [last EXCEPT ![c] = 0]
  /\ published' = IF WritersAlive = {c} THEN 0 ELSE published
  /\ UNCHANGED <<loops, worker, timed, listed, slots, requests, subscribed,
                 holding, closing>>

-----------------------------------------------------------------------------
(* start() and close().  start's steps are for its caller to put in order.  *)

Listen ==
  /\ backends' = Endpoint /\ running' = TRUE
  /\ UNCHANGED <<accepting, sockets, requests, events, closer, taken>>

StartLoop(endpoint) ==
  /\ accepting' = [accepting EXCEPT ![endpoint] = "waiting"]
  /\ UNCHANGED <<backends, sockets, requests, events, closing>>

CloseServer ==
  /\ closer \in {"no", "late", "closed"}
  /\ closer' = "cancel" /\ running' = FALSE
  /\ taken' = [connections |-> listed, queues |-> subscribed,
               cancellations |-> cancellable]
  /\ listed' = {} /\ subscribed' = {}
  /\ UNCHANGED <<loops, worker, open, timed, slots, requests, queue, writer,
                 holding, published, last>>

CloseCancellations ==
  /\ closer = "cancel" /\ closer' = "queues"
  /\ cancelled' = cancelled \cup taken.cancellations
  /\ UNCHANGED <<loops, sockets, cancellable, events, running, taken>>

(* A mistake: nothing wakes the writers. *)
ForgetQueues ==
  /\ closer = "queues" /\ closer' = "transports"
  /\ UNCHANGED <<loops, sockets, requests, events, running, taken>>

CloseQueues ==
  /\ closer = "queues" /\ closer' = "transports"
  /\ queue' = [c \in Events |->
       IF c \in taken.queues THEN StopQueue(queue[c]) ELSE queue[c]]
  /\ UNCHANGED <<loops, sockets, requests, subscribed, writer, holding, published,
                 last, running, taken>>

CloseTransports ==
  /\ closer = "transports" /\ closer' = "joining"
  /\ backends' = {} /\ open' = open \ taken.connections
  /\ taken' = NoneTaken
  /\ UNCHANGED <<accepting, worker, timed, listed, slots, requests, events, running>>

LoopsEnded == \A endpoint \in Endpoint : accepting[endpoint] /= "waiting"

JoinAll ==
  /\ closer = "joining" /\ LoopsEnded /\ Threads = {}
  /\ closer' = "closed"
  /\ UNCHANGED <<loops, sockets, requests, events, running, taken>>

(* TimeoutError: a thread is left at the deadline. *)
JoinTimesOut ==
  /\ closer = "joining" /\ ~(LoopsEnded /\ Threads = {})
  /\ closer' = "late"
  /\ UNCHANGED <<loops, sockets, requests, events, running, taken>>

Closing == CloseCancellations \/ CloseQueues \/ CloseTransports \/ JoinAll

Worker(c) ==
  \/ Admit(c) \/ Refuse(c)
  \/ Leave(c) \/ EndWorker(c)
  \/ TakeRequest(c) \/ Register(c) \/ FailWatcher(c)
  \/ Unregister(c) \/ Reply(c)

Subscriber(c) ==
  \/ Subscribe(c) \/ FailWriter(c) \/ SubscribeTooLate(c)
  \/ TakeEvent(c) \/ CheckSubscribed(c) \/ WriteEvent(c) \/ FailWrite(c)
  \/ LeaveWriter(c) \/ DiscardWriter(c)

(* What peers and handlers do, and a timer may. *)
Surroundings ==
  \/ \E c \in Connection :
       \/ AcceptConnection(c) \/ ReceiveMessage(c) \/ StopReading(c)
       \/ CloseLateHandshake(c)
  \/ \E c \in Control : WatchDisconnect(c) \/ EndHandler(c)

(* What the threads of the server and its timers do by themselves; a handler *)
(* returns once it is cancelled.                                            *)
Progress ==
  \/ \E c \in Connection :
       \/ Worker(c) \/ HandshakeExpires(c)
       \/ (c \notin open /\ StopReading(c))
  \/ \E c \in Control :
       \/ ExpireRequest(c)
       \/ (c \in cancelled /\ EndHandler(c))
  \/ \E c \in Events : Subscriber(c)
  \/ \E endpoint \in Endpoint : StopAccepting(endpoint)

ServerNext ==
  \/ Surroundings \/ Progress
  \/ Closing \/ JoinTimesOut

-----------------------------------------------------------------------------
(* Properties.                                                              *)

(* When close() has returned, no thread of the server is left, every socket *)
(* is closed, every slot is free and nothing is queued for anybody.         *)
ServerIsEmpty ==
  closer = "closed" =>
    /\ LoopsEnded /\ WorkersAlive = {} /\ WritersAlive = {}
    /\ open = {} /\ listed = {} /\ subscribed = {}
    /\ \A endpoint \in Endpoint : slots[endpoint] = Slots(endpoint)

(* From the moment close() has set the cancellations it found, every        *)
(* handler that still runs is cancelled: none slips in between.             *)
CloseCancels ==
  closer \notin {"no", "cancel"} =>
    \A c \in Control : worker[c] = "handling" => c \in cancelled

(* A subscriber is sent every event published since it subscribed, in       *)
(* order, until it is disconnected: the stream has no hole.                 *)
NothingSkipped ==
  [][\A c \in Events : WriteEvent(c) => last'[c] = last[c] + 1]_serverVars

=============================================================================
