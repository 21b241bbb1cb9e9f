-------------------------- MODULE RpcServerProofs --------------------------
(***************************************************************************)
(* Proofs about ReccyLifecycle and its RPC server: what close() leaves, what*)
(* it cancels, and that a subscriber's stream has no hole.                  *)
(***************************************************************************)
EXTENDS ReccyLifecycle, FiniteSetTheorems, SequenceTheorems, TLAPS

Ended == {"new", "accepted", "refused", "done"}
Requesting == {"registering", "watched", "handling", "handled", "replying"}

TypeInv ==
  /\ running \in BOOLEAN
  /\ backends \subseteq Endpoint
  /\ accepting \in [Endpoint -> {"unstarted", "waiting", "ended"}]
  /\ worker \in [Connection -> WorkerPc]
  /\ open \subseteq Connection /\ timed \subseteq Connection
  /\ listed \subseteq Connection
  /\ slots \in [Endpoint -> Nat]
  /\ cancellable \subseteq Control /\ cancelled \subseteq Control
  /\ queue \in [Events -> Seq(0..MaxPublished)]
  /\ subscribed \subseteq Events
  /\ writer \in [Events -> WriterPc]
  /\ holding \in [Events -> 0..MaxPublished]
  /\ published \in 0..MaxPublished
  /\ last \in [Events -> 0..MaxPublished]
  /\ closer \in CloserPc
  /\ taken \in [connections : SUBSET Connection, queues : SUBSET Events,
                cancellations : SUBSET Control]
  /\ \A c \in Connection : worker[c] \in Requesting => c \in Control

(* Once close() has begun nobody joins, and once it has returned nobody is   *)
(* left.                                                                    *)
CloseInv ==
  /\ closer # "no" => ~ running /\ listed = {} /\ subscribed = {}
  /\ closer = "closed" =>
       /\ LoopsEnded
       /\ \A c \in Connection : worker[c] \in Ended
       /\ \A c \in Events : writer[c] \in {"none", "done"}

(* A socket is open while its worker runs, or its accept loop holds it: one  *)
(* for each loop.                                                           *)
SocketInv ==
  /\ \A c \in open : worker[c] \notin {"new", "refused", "done"}
  /\ \A c \in Connection : worker[c] = "accepted" =>
       /\ accepting[EndpointOf(c)] = "waiting"
       /\ \A d \in Connection :
            worker[d] = "accepted" /\ EndpointOf(d) = EndpointOf(c) => d = c

Using(endpoint) == {c \in ConnectionsOf(endpoint) : worker[c] \notin Ended}

SlotInv ==
  \A endpoint \in Endpoint :
    slots[endpoint] + Cardinality(Using(endpoint)) = Slots(endpoint)

(* A request about to be handled can be cancelled, and has been if close()   *)
(* came by.                                                                 *)
CancelInv ==
  \A c \in Control : worker[c] \in {"watched", "handling"} =>
    /\ c \in cancellable
    /\ closer = "cancel" => c \in taken.cancellations
    /\ closer \notin {"no", "cancel"} => c \in cancelled

(* The last event that a writer has in hand. *)
Reached(c) == IF writer[c] = "waiting" THEN last[c] ELSE last[c] + 1

(* A connection that has subscribed has a writer, and what it is still to be *)
(* sent are the events published since.                                     *)
StreamOf(c) ==
  /\ worker[c] \in {"new", "accepted", "refused", "reading", "received"} =>
       writer[c] = "none"
  /\ writer[c] = "writing" => holding[c] = last[c] + 1
  /\ c \in subscribed /\ writer[c] \in {"waiting", "holding", "writing"} =>
       /\ writer[c] # "waiting" => holding[c] = last[c] + 1
       /\ Len(queue[c]) = published - Reached(c)
       /\ \A i \in 1 .. Len(queue[c]) : queue[c][i] = Reached(c) + i

StreamInv == \A c \in Events : StreamOf(c)

Inv == TypeInv /\ CloseInv /\ SocketInv /\ SlotInv /\ CancelInv /\ StreamInv

(* The owner starts before it closes, and keeps its resources while there is *)
(* a server.                                                                *)
OwnerInv ==
  /\ owner \in {"stopped", "hook", "listen", "control", "events", "serving",
                "undoing", "aborting", "announcing", "closing", "late", "failed",
                "closed"}
  /\ started \in BOOLEAN /\ stopping \in BOOLEAN /\ server \in BOOLEAN
  /\ resources \in {"none", "held", "released"}
  /\ owner \in {"stopped", "hook", "listen", "control", "events", "serving",
                "announcing"} => closer = "no"
  /\ owner \in {"stopped", "hook"} => ~ server
  /\ server => resources = "held"
  /\ owner = "closed" => closer = "closed"

-----------------------------------------------------------------------------
(* The steps of the server, by whom they are about. *)

ConnectionStep(c) ==
  \/ AcceptConnection(c) \/ ReceiveMessage(c) \/ StopReading(c) \/ HandshakeExpires(c)
  \/ CloseLateHandshake(c) \/ Worker(c)

RequestStep(c) ==
  \/ WatchDisconnect(c) \/ EndHandler(c) \/ ExpireRequest(c)
  \/ \E accepts \in BOOLEAN : Handle(c, accepts)

OwnStep ==
  \/ Publish /\ UNCHANGED <<loops, sockets, requests, closing>>
  \/ Listen /\ closer = "no"
  \/ \E endpoint \in Endpoint :
       StopAccepting(endpoint) \/ (StartLoop(endpoint) /\ closer = "no")
  \/ CloseServer \/ Closing \/ JoinTimesOut

ServerStep ==
  \/ UNCHANGED serverVars
  \/ \E c \in Connection : ConnectionStep(c)
  \/ \E c \in Control : RequestStep(c)
  \/ \E c \in Events : Subscriber(c)
  \/ OwnStep

LEMMA Endpoints ==
  /\ \A c \in Connection : EndpointOf(c) \in Endpoint /\ c \in ConnectionsOf(EndpointOf(c))
  /\ \A c \in Control : EndpointOf(c) = "control" /\ c \in Connection /\ c \notin Events
  /\ \A c \in Events : EndpointOf(c) = "events" /\ c \in Connection /\ c \notin Control
  /\ \A endpoint \in Endpoint : \A c \in ConnectionsOf(endpoint) :
       c \in Connection /\ EndpointOf(c) = endpoint
BY ConnectionsAssumption DEF EndpointOf, ConnectionsOf, Endpoint, Connection

LEMMA StepCases ==
  ASSUME OwnerInv, [Next]_vars
  PROVE  ServerStep
<1>1. CASE Owner
  BY <1>1
  DEF Owner, Start, OnStarted, FailStart, StartBackends, StartControl, StartEvents,
      FailServer, AbortStart, EndAbort, Close, Announce, CloseAgain, EndClose, CloseTimesOut,
      OwnerInv, ServerStep, OwnStep, Endpoint
<1>2. CASE PublishEvent
  BY <1>2 DEF PublishEvent, ServerStep, OwnStep
<1>3. ASSUME NEW c \in Control, RpcResponse(c) PROVE ServerStep
  <2>1. (started /\ ~stopping) \in BOOLEAN
    BY DEF OwnerInv
  <2>2. QED BY <1>3, <2>1 DEF RpcResponse, ServerStep, RequestStep
<1>4. CASE ServerNext
  BY <1>4, Endpoints
  DEF ServerNext, Surroundings, Progress, ServerStep, ConnectionStep, RequestStep, OwnStep
<1>5. CASE UNCHANGED vars
  BY <1>5 DEF vars, ServerStep
<1>6. QED BY <1>1, <1>2, <1>3, <1>4, <1>5 DEF Next

LEMMA StopQueueType ==
  ASSUME NEW q \in Seq(0..MaxPublished)
  PROVE  StopQueue(q) \in Seq(0..MaxPublished)
<1>1. MaxPublished \in Nat /\ MaxPending \in Nat \ {0}
  BY LimitsAssumption
<1>2. CASE Len(q) < MaxPending
  BY <1>1, <1>2 DEF StopQueue, Stop
<1>3. CASE ~ (Len(q) < MaxPending)
  <2>1. q # <<>>
    BY <1>1, <1>3
  <2>2. Tail(q) \in Seq(0..MaxPublished)
    BY <2>1
  <2>3. QED BY <1>1, <1>3, <2>2 DEF StopQueue, Stop
<1>4. QED BY <1>2, <1>3

(* Types: a queue that is ended keeps its bound, and only requests' workers *)
(* register.                                                                *)
LEMMA TypeConnection ==
  ASSUME Inv, NEW c \in Connection, ConnectionStep(c)
  PROVE  TypeInv'
<1> USE DEF Inv, TypeInv, CloserPc, WorkerPc, WriterPc, Requesting, NoneTaken, Endpoint,
            Stop, loops, sockets, requests, events, closing, Move
<1>1. CASE AcceptConnection(c)
  BY <1>1 DEF AcceptConnection
<1>2. CASE ReceiveMessage(c)
  BY <1>2 DEF ReceiveMessage
<1>3. CASE StopReading(c)
  BY <1>3 DEF StopReading
<1>4. CASE HandshakeExpires(c)
  BY <1>4 DEF HandshakeExpires
<1>5. CASE Admit(c)
  BY <1>5, Endpoints DEF Admit
<1>6. CASE Refuse(c)
  BY <1>6 DEF Refuse, NextAccept
<1>7. CASE Leave(c)
  BY <1>7, StopQueueType DEF Leave, Unlist
<1>8. CASE EndWorker(c)
  BY <1>8, Endpoints DEF EndWorker
<1>9. CASE TakeRequest(c)
  BY <1>9 DEF TakeRequest
<1>10. CASE Register(c)
  BY <1>10 DEF Register
<1>11. CASE FailWatcher(c)
  BY <1>11 DEF FailWatcher
<1>12. CASE Unregister(c)
  BY <1>12 DEF Unregister
<1>13. CASE Reply(c)
  BY <1>13 DEF Reply
<1>14. CASE CloseLateHandshake(c)
  BY <1>14 DEF CloseLateHandshake
<1>15. QED
  BY <1>1, <1>2, <1>3, <1>4, <1>5, <1>6, <1>7, <1>8, <1>9, <1>10, <1>11, <1>12, <1>13,
     <1>14
  DEF ConnectionStep, Worker

LEMMA TypeRequest ==
  ASSUME Inv, NEW c \in Control, RequestStep(c)
  PROVE  TypeInv'
<1> USE DEF Inv, TypeInv, CloserPc, WorkerPc, WriterPc, Requesting, NoneTaken, Endpoint,
            Stop, loops, sockets, requests, events, closing, Move
<1>1. CASE WatchDisconnect(c)
  BY <1>1 DEF WatchDisconnect
<1>2. CASE EndHandler(c)
  BY <1>2 DEF EndHandler
<1>3. CASE ExpireRequest(c)
  BY <1>3 DEF ExpireRequest
<1>4. ASSUME NEW accepts \in BOOLEAN, Handle(c, accepts) PROVE TypeInv'
  BY <1>4 DEF Handle
<1>5. QED BY <1>1, <1>2, <1>3, <1>4 DEF RequestStep

LEMMA TypeSubscriber ==
  ASSUME Inv, NEW c \in Events, Subscriber(c)
  PROVE  TypeInv'
<1> USE DEF Inv, TypeInv, CloserPc, WorkerPc, WriterPc, Requesting, NoneTaken, Endpoint,
            Stop, loops, sockets, requests, events, closing, Move, MoveWriter
<1>1. CASE Subscribe(c)
  BY <1>1, Endpoints DEF Subscribe, Activate
<1>2. CASE FailWriter(c)
  BY <1>2, Endpoints DEF FailWriter, Activate
<1>3. CASE SubscribeTooLate(c)
  BY <1>3 DEF SubscribeTooLate
<1>4. CASE TakeEvent(c)
  BY <1>4, LimitsAssumption DEF TakeEvent
<1>5. CASE CheckSubscribed(c)
  BY <1>5 DEF CheckSubscribed
<1>6. CASE WriteEvent(c)
  BY <1>6, LimitsAssumption DEF WriteEvent
<1>7. CASE FailWrite(c)
  BY <1>7 DEF FailWrite
<1>8. CASE LeaveWriter(c)
  BY <1>8, StopQueueType, LimitsAssumption DEF LeaveWriter, Unlist
<1>9. CASE DiscardWriter(c)
  BY <1>9, LimitsAssumption DEF DiscardWriter
<1>10. QED BY <1>1, <1>2, <1>3, <1>4, <1>5, <1>6, <1>7, <1>8, <1>9 DEF Subscriber

LEMMA TypeOwn ==
  ASSUME Inv, OwnStep
  PROVE  TypeInv'
<1> USE DEF Inv, TypeInv, CloserPc, WorkerPc, WriterPc, Requesting, NoneTaken, Endpoint,
            Stop, loops, sockets, requests, events, closing
<1>1. CASE Publish /\ UNCHANGED <<loops, sockets, requests, closing>>
  <2>1. published \in 0..MaxPublished /\ published < MaxPublished /\ MaxPublished \in Nat
    BY <1>1, LimitsAssumption DEF Publish
  <2>2. published' = published + 1 /\ published' \in 0..MaxPublished
    BY <1>1, <2>1 DEF Publish
  <2>3. ASSUME NEW d \in Events
        PROVE  queue'[d] \in Seq(0..MaxPublished)
    <3>1. Append(queue[d], published + 1) \in Seq(0..MaxPublished)
      BY <2>2
    <3>2. StopQueue(queue[d]) \in Seq(0..MaxPublished)
      BY StopQueueType
    <3>3. QED BY <1>1, <3>1, <3>2 DEF Publish, QueueEvent
  <2>4. queue' \in [Events -> Seq(0..MaxPublished)]
    BY <1>1, <2>3 DEF Publish
  <2>5. subscribed' \subseteq Events
    BY <1>1 DEF Publish
  <2>6. QED BY <1>1, <2>2, <2>4, <2>5 DEF Publish
<1>2. CASE Listen /\ closer = "no"
  BY <1>2 DEF Listen
<1>3. CASE CloseServer
  BY <1>3 DEF CloseServer
<1>4. CASE CloseCancellations
  BY <1>4 DEF CloseCancellations
<1>5. CASE CloseQueues
  BY <1>5, StopQueueType DEF CloseQueues
<1>6. CASE CloseTransports
  BY <1>6 DEF CloseTransports
<1>7. CASE JoinAll
  BY <1>7 DEF JoinAll
<1>8. CASE JoinTimesOut
  BY <1>8 DEF JoinTimesOut
<1>9. ASSUME NEW endpoint \in Endpoint, StopAccepting(endpoint) PROVE TypeInv'
  BY <1>9 DEF StopAccepting
<1>10. ASSUME NEW endpoint \in Endpoint, StartLoop(endpoint), closer = "no"
      PROVE  TypeInv'
  BY <1>10 DEF StartLoop
<1>11. QED BY <1>1, <1>2, <1>3, <1>4, <1>5, <1>6, <1>7, <1>8, <1>9, <1>10 DEF OwnStep, Closing

(* Streams: only the steps of a subscriber, a publication and the end of one's*)
(* own queue matter.                                                        *)
LEMMA StreamConnection ==
  ASSUME Inv, NEW c \in Connection, ConnectionStep(c)
  PROVE  StreamInv'
<1> USE DEF Inv, TypeInv, StreamInv, StreamOf, CloseInv, Reached, Stop, loops, sockets,
            requests, events, closing, Move
<1>1. CASE AcceptConnection(c)
  BY <1>1 DEF AcceptConnection
<1>2. CASE ReceiveMessage(c)
  BY <1>2 DEF ReceiveMessage
<1>3. CASE StopReading(c)
  BY <1>3 DEF StopReading
<1>4. CASE HandshakeExpires(c)
  BY <1>4 DEF HandshakeExpires
<1>5. CASE Admit(c)
  BY <1>5 DEF Admit
<1>6. CASE Refuse(c)
  BY <1>6 DEF Refuse, NextAccept
<1>7. CASE Leave(c)
  BY <1>7 DEF Leave, Unlist
<1>8. CASE EndWorker(c)
  BY <1>8 DEF EndWorker
<1>9. CASE TakeRequest(c)
  BY <1>9 DEF TakeRequest
<1>10. CASE Register(c)
  BY <1>10 DEF Register
<1>11. CASE FailWatcher(c)
  BY <1>11 DEF FailWatcher
<1>12. CASE Unregister(c)
  BY <1>12 DEF Unregister
<1>13. CASE Reply(c)
  BY <1>13 DEF Reply
<1>14. CASE CloseLateHandshake(c)
  BY <1>14 DEF CloseLateHandshake
<1>15. QED
  BY <1>1, <1>2, <1>3, <1>4, <1>5, <1>6, <1>7, <1>8, <1>9, <1>10, <1>11, <1>12, <1>13,
     <1>14
  DEF ConnectionStep, Worker

LEMMA StreamRequest ==
  ASSUME Inv, NEW c \in Control, RequestStep(c)
  PROVE  StreamInv'
<1> USE DEF Inv, TypeInv, StreamInv, StreamOf, CloseInv, Reached, Stop, loops, sockets,
            requests, events, closing, Move
<1>1. CASE WatchDisconnect(c)
  BY <1>1 DEF WatchDisconnect
<1>2. CASE EndHandler(c)
  BY <1>2 DEF EndHandler
<1>3. CASE ExpireRequest(c)
  BY <1>3 DEF ExpireRequest
<1>4. ASSUME NEW accepts \in BOOLEAN, Handle(c, accepts) PROVE StreamInv'
  BY <1>4 DEF Handle
<1>5. QED BY <1>1, <1>2, <1>3, <1>4 DEF RequestStep

LEMMA StreamSubscriber ==
  ASSUME Inv, NEW c \in Events, Subscriber(c)
  PROVE  StreamInv'
<1> USE DEF Inv, TypeInv, StreamInv, StreamOf, CloseInv, Reached, Stop, loops, sockets,
            requests, events, closing, Move, MoveWriter
<1>1. CASE Subscribe(c)
  BY <1>1, Endpoints DEF Subscribe, Activate
<1>2. CASE FailWriter(c)
  BY <1>2 DEF FailWriter, Activate
<1>3. CASE SubscribeTooLate(c)
  BY <1>3 DEF SubscribeTooLate
<1>4. CASE TakeEvent(c)
  <2>1. /\ \A d \in Events \ {c} :
             /\ queue'[d] = queue[d] /\ writer'[d] = writer[d] /\ holding'[d] = holding[d]
        /\ UNCHANGED <<worker, subscribed, published, last>>
        /\ writer[c] = "waiting" /\ writer'[c] \in {"leaving", "holding"}
        /\ queue[c] # <<>> /\ holding'[c] = Head(queue[c]) /\ queue'[c] = Tail(queue[c])
    BY <1>4 DEF TakeEvent
  <2>2. ASSUME c \in subscribed
        PROVE  /\ holding'[c] = last[c] + 1
               /\ Len(queue'[c]) = published - (last[c] + 1)
               /\ \A i \in 1 .. Len(queue'[c]) : queue'[c][i] = last[c] + 1 + i
    <3>1. /\ queue[c] \in Seq(0..MaxPublished) /\ last[c] \in Nat /\ published \in Nat
          /\ Len(queue[c]) = published - last[c]
          /\ \A i \in 1 .. Len(queue[c]) : queue[c][i] = last[c] + i
      BY <2>1, <2>2
    <3>2. /\ Head(queue[c]) = queue[c][1] /\ Len(queue[c]) \in Nat \ {0}
          /\ Len(Tail(queue[c])) = Len(queue[c]) - 1
          /\ \A i \in 1 .. Len(Tail(queue[c])) : Tail(queue[c])[i] = queue[c][i + 1]
      BY <2>1, <3>1, HeadTailProperties, EmptySeq
    <3> DEFINE q == queue[c]
    <3>3. queue'[c] = Tail(q) /\ holding'[c] = Head(q)
      BY <2>1
    <3> HIDE DEF Inv, TypeInv, StreamInv, StreamOf, Reached, q
    <3>4. Len(Tail(q)) = published - (last[c] + 1)
      BY <3>1, <3>2 DEF q
    <3>5. Head(q) = last[c] + 1
      BY <3>1, <3>2 DEF q
    <3>6. ASSUME NEW i \in 1 .. Len(Tail(q)) PROVE Tail(q)[i] = last[c] + 1 + i
      <4>1. i \in Nat /\ i + 1 \in 1 .. Len(q) /\ Tail(q)[i] = q[i + 1]
        BY <3>2 DEF q
      <4>2. q[i + 1] = last[c] + (i + 1)
        BY <3>1, <4>1 DEF q
      <4>3. QED BY <3>1, <4>1, <4>2
    <3>7. QED BY <3>3, <3>4, <3>5, <3>6
  <2>3. c \in Connection /\ writer[c] # "none"
    BY <2>1, Endpoints
  <2> SUFFICES ASSUME NEW d \in Events PROVE StreamOf(d)'
    BY DEF StreamInv
  <2>4. CASE d = c
    BY <2>1, <2>2, <2>3, <2>4 DEF StreamOf
  <2>5. CASE d # c
    BY <2>1, <2>5 DEF StreamOf
  <2>6. QED BY <2>4, <2>5
<1>5. CASE CheckSubscribed(c)
  BY <1>5 DEF CheckSubscribed
<1>6. CASE WriteEvent(c)
  BY <1>6 DEF WriteEvent
<1>7. CASE FailWrite(c)
  BY <1>7 DEF FailWrite
<1>8. CASE LeaveWriter(c)
  BY <1>8 DEF LeaveWriter, Unlist
<1>9. CASE DiscardWriter(c)
  <2>1. ASSUME NEW d \in Events \ {c}, writer[d] \notin {"none", "done"}
        PROVE  published' = published
    BY <1>9, <2>1 DEF DiscardWriter, WritersAlive
  <2>2. writer'[c] = "done" /\ \A d \in Events \ {c} : writer'[d] = writer[d]
    BY <1>9 DEF DiscardWriter
  <2> SUFFICES ASSUME NEW d \in Events PROVE StreamOf(d)'
    BY DEF StreamInv
  <2>3. CASE d = c
    BY <1>9, <2>2, <2>3 DEF DiscardWriter, StreamOf
  <2>4. CASE d # c
    <3>1. /\ queue'[d] = queue[d] /\ writer'[d] = writer[d] /\ last'[d] = last[d]
          /\ UNCHANGED <<worker, holding, subscribed>>
      BY <1>9, <2>4 DEF DiscardWriter
    <3>2. writer[d] \in {"waiting", "holding", "writing"} => published' = published
      <4> SUFFICES ASSUME writer[d] \in {"waiting", "holding", "writing"}
                   PROVE  published' = published
        OBVIOUS
      <4>1. d \in Events \ {c} /\ writer[d] \notin {"none", "done"}
        BY <2>4
      <4>2. QED BY <2>1, <4>1
    <3>3. QED BY <3>1, <3>2 DEF StreamOf
  <2>5. QED BY <2>3, <2>4
<1>10. QED BY <1>1, <1>2, <1>3, <1>4, <1>5, <1>6, <1>7, <1>8, <1>9 DEF Subscriber

LEMMA StreamOwn ==
  ASSUME Inv, OwnStep
  PROVE  StreamInv'
<1> USE DEF Inv, TypeInv, StreamInv, StreamOf, CloseInv, Reached, Stop, loops, sockets,
            requests, events, closing
<1>1. CASE Publish /\ UNCHANGED <<loops, sockets, requests, closing>>
  <2> SUFFICES ASSUME NEW d \in Events, d \in subscribed',
                      writer[d] \in {"waiting", "holding", "writing"}
               PROVE  /\ Len(queue'[d]) = published' - Reached(d)
                      /\ \A i \in 1 .. Len(queue'[d]) : queue'[d][i] = Reached(d) + i
    BY <1>1 DEF Publish
  <2>1. /\ d \in subscribed /\ published' = published + 1
        /\ queue'[d] = Append(queue[d], published + 1)
    BY <1>1 DEF Publish, QueueEvent
  <2>2. /\ published \in Nat /\ last[d] \in Nat /\ queue[d] \in Seq(0..MaxPublished)
        /\ published + 1 \in 0..MaxPublished
    BY <1>1, LimitsAssumption DEF Publish
  <2>3. /\ Len(queue[d]) = published - Reached(d)
        /\ \A i \in 1 .. Len(queue[d]) : queue[d][i] = Reached(d) + i
    BY <2>1
  <2>4. Reached(d) \in Nat
    BY <2>2
  <2> HIDE DEF Inv, TypeInv, StreamInv, StreamOf, Reached
  <2>5. /\ Len(queue'[d]) = Len(queue[d]) + 1
        /\ \A i \in 1 .. Len(queue[d]) : queue'[d][i] = queue[d][i]
        /\ queue'[d][Len(queue[d]) + 1] = published + 1
    BY <2>1, <2>2, AppendProperties
  <2>6. QED BY <2>1, <2>2, <2>3, <2>4, <2>5
<1>2. CASE Listen /\ closer = "no"
  BY <1>2 DEF Listen
<1>3. CASE CloseServer
  BY <1>3 DEF CloseServer
<1>4. CASE CloseCancellations
  BY <1>4 DEF CloseCancellations
<1>5. CASE CloseQueues
  BY <1>5 DEF CloseQueues
<1>6. CASE CloseTransports
  BY <1>6 DEF CloseTransports
<1>7. CASE JoinAll
  BY <1>7 DEF JoinAll
<1>8. CASE JoinTimesOut
  BY <1>8 DEF JoinTimesOut
<1>9. ASSUME NEW endpoint \in Endpoint, StopAccepting(endpoint) PROVE StreamInv'
  BY <1>9 DEF StopAccepting
<1>10. ASSUME NEW endpoint \in Endpoint, StartLoop(endpoint), closer = "no"
      PROVE  StreamInv'
  BY <1>10 DEF StartLoop
<1>11. QED BY <1>1, <1>2, <1>3, <1>4, <1>5, <1>6, <1>7, <1>8, <1>9, <1>10 DEF OwnStep, Closing

LEMMA UsingIsFinite ==
  \A endpoint \in Endpoint : IsFiniteSet(Using(endpoint))
<1>1. \A endpoint \in Endpoint : IsFiniteSet(ConnectionsOf(endpoint))
  BY ConnectionsAssumption DEF ConnectionsOf
<1>2. QED BY <1>1, FS_Subset DEF Using

(* Most steps neither take a slot nor give one back. *)
LEMMA UsingStays ==
  ASSUME Inv, slots' = slots,
         \A d \in Connection : worker[d] \in Ended <=> worker'[d] \in Ended
  PROVE  SlotInv'
<1>1. \A endpoint \in Endpoint : Using(endpoint)' = Using(endpoint)
  BY Endpoints DEF Using
<1>2. QED BY <1>1 DEF Inv, SlotInv

LEMMA UsingGrows ==
  ASSUME Inv, NEW c \in Connection, slots[EndpointOf(c)] > 0,
         slots' = [slots EXCEPT ![EndpointOf(c)] = @ - 1],
         worker[c] \in Ended, worker'[c] \notin Ended,
         \A d \in Connection \ {c} : worker'[d] = worker[d]
  PROVE  SlotInv'
<1> SUFFICES ASSUME NEW endpoint \in Endpoint
             PROVE  slots'[endpoint] + Cardinality(Using(endpoint)') = Slots(endpoint)
  BY DEF SlotInv
<1>1. /\ slots[endpoint] \in Nat
      /\ slots[endpoint] + Cardinality(Using(endpoint)) = Slots(endpoint)
      /\ slots'[endpoint] =
           IF endpoint = EndpointOf(c) THEN slots[endpoint] - 1 ELSE slots[endpoint]
  BY Endpoints DEF Inv, TypeInv, SlotInv
<1>2. IsFiniteSet(Using(endpoint)) /\ Cardinality(Using(endpoint)) \in Nat
  BY UsingIsFinite, FS_CardinalityType
<1>3. CASE endpoint = EndpointOf(c)
  <2>1. c \notin Using(endpoint) /\ Using(endpoint)' = Using(endpoint) \cup {c}
    BY <1>3, Endpoints DEF Using
  <2>2. Cardinality(Using(endpoint)') = Cardinality(Using(endpoint)) + 1
    BY <1>2, <2>1, FS_AddElement
  <2>3. QED BY <1>1, <1>2, <1>3, <2>2
<1>4. CASE endpoint # EndpointOf(c)
  <2>1. Using(endpoint)' = Using(endpoint)
    BY <1>4, Endpoints DEF Using
  <2>2. QED BY <1>1, <1>4, <2>1
<1>5. QED BY <1>3, <1>4

LEMMA UsingShrinks ==
  ASSUME Inv, NEW c \in Connection,
         slots' = [slots EXCEPT ![EndpointOf(c)] = @ + 1],
         worker[c] \notin Ended, worker'[c] \in Ended,
         \A d \in Connection \ {c} : worker'[d] = worker[d]
  PROVE  SlotInv'
<1> SUFFICES ASSUME NEW endpoint \in Endpoint
             PROVE  slots'[endpoint] + Cardinality(Using(endpoint)') = Slots(endpoint)
  BY DEF SlotInv
<1>1. /\ slots[endpoint] \in Nat
      /\ slots[endpoint] + Cardinality(Using(endpoint)) = Slots(endpoint)
      /\ slots'[endpoint] =
           IF endpoint = EndpointOf(c) THEN slots[endpoint] + 1 ELSE slots[endpoint]
  BY Endpoints DEF Inv, TypeInv, SlotInv
<1>2. IsFiniteSet(Using(endpoint)) /\ Cardinality(Using(endpoint)) \in Nat
  BY UsingIsFinite, FS_CardinalityType
<1>3. CASE endpoint = EndpointOf(c)
  <2>1. c \in Using(endpoint) /\ Using(endpoint)' = Using(endpoint) \ {c}
    BY <1>3, Endpoints DEF Using
  <2>2. Cardinality(Using(endpoint)') = Cardinality(Using(endpoint)) - 1
    BY <1>2, <2>1, FS_RemoveElement
  <2>3. QED BY <1>1, <1>2, <1>3, <2>2
<1>4. CASE endpoint # EndpointOf(c)
  <2>1. Using(endpoint)' = Using(endpoint)
    BY <1>4, Endpoints DEF Using
  <2>2. QED BY <1>1, <1>4, <2>1
<1>5. QED BY <1>3, <1>4

(* Slots: taken by Admit, given back by EndWorker. *)
LEMMA SlotConnection ==
  ASSUME Inv, NEW c \in Connection, ConnectionStep(c)
  PROVE  SlotInv'
<1> USE DEF Inv, TypeInv, Ended, loops, sockets, requests, events, closing, Move
<1>1. CASE AcceptConnection(c)
  BY <1>1, UsingStays DEF AcceptConnection
<1>2. CASE ReceiveMessage(c)
  BY <1>2, UsingStays DEF ReceiveMessage
<1>3. CASE StopReading(c)
  BY <1>3, UsingStays DEF StopReading
<1>4. CASE HandshakeExpires(c)
  BY <1>4, UsingStays DEF HandshakeExpires
<1>5. CASE Admit(c)
  BY <1>5, UsingGrows DEF Admit
<1>6. CASE Refuse(c)
  BY <1>6, UsingStays DEF Refuse, NextAccept
<1>7. CASE Leave(c)
  BY <1>7, UsingStays DEF Leave, Unlist
<1>8. CASE EndWorker(c)
  BY <1>8, UsingShrinks DEF EndWorker
<1>9. CASE TakeRequest(c)
  BY <1>9, UsingStays DEF TakeRequest
<1>10. CASE Register(c)
  BY <1>10, UsingStays DEF Register
<1>11. CASE FailWatcher(c)
  BY <1>11, UsingStays DEF FailWatcher
<1>12. CASE Unregister(c)
  BY <1>12, UsingStays DEF Unregister
<1>13. CASE Reply(c)
  BY <1>13, UsingStays DEF Reply
<1>14. CASE CloseLateHandshake(c)
  BY <1>14, UsingStays DEF CloseLateHandshake
<1>15. QED
  BY <1>1, <1>2, <1>3, <1>4, <1>5, <1>6, <1>7, <1>8, <1>9, <1>10, <1>11, <1>12, <1>13,
     <1>14
  DEF ConnectionStep, Worker

LEMMA SlotRequest ==
  ASSUME Inv, NEW c \in Control, RequestStep(c)
  PROVE  SlotInv'
<1> USE DEF Inv, TypeInv, Ended, loops, sockets, requests, events, closing, Move
<1>1. CASE WatchDisconnect(c)
  BY <1>1, UsingStays DEF WatchDisconnect
<1>2. CASE EndHandler(c)
  BY <1>2, UsingStays DEF EndHandler
<1>3. CASE ExpireRequest(c)
  BY <1>3, UsingStays DEF ExpireRequest
<1>4. ASSUME NEW accepts \in BOOLEAN, Handle(c, accepts) PROVE SlotInv'
  BY <1>4, UsingStays DEF Handle
<1>5. QED BY <1>1, <1>2, <1>3, <1>4 DEF RequestStep

LEMMA SlotSubscriber ==
  ASSUME Inv, NEW c \in Events, Subscriber(c)
  PROVE  SlotInv'
<1> USE DEF Inv, TypeInv, Ended, loops, sockets, requests, events, closing, Move, MoveWriter
<1>1. CASE Subscribe(c)
  BY <1>1, UsingStays DEF Subscribe, Activate
<1>2. CASE FailWriter(c)
  BY <1>2, UsingStays DEF FailWriter, Activate
<1>3. CASE SubscribeTooLate(c)
  BY <1>3, UsingStays DEF SubscribeTooLate
<1>4. CASE TakeEvent(c)
  BY <1>4, UsingStays DEF TakeEvent
<1>5. CASE CheckSubscribed(c)
  BY <1>5, UsingStays DEF CheckSubscribed
<1>6. CASE WriteEvent(c)
  BY <1>6, UsingStays DEF WriteEvent
<1>7. CASE FailWrite(c)
  BY <1>7, UsingStays DEF FailWrite
<1>8. CASE LeaveWriter(c)
  BY <1>8, UsingStays DEF LeaveWriter, Unlist
<1>9. CASE DiscardWriter(c)
  BY <1>9, UsingStays DEF DiscardWriter
<1>10. QED BY <1>1, <1>2, <1>3, <1>4, <1>5, <1>6, <1>7, <1>8, <1>9 DEF Subscriber

LEMMA SlotOwn ==
  ASSUME Inv, OwnStep
  PROVE  SlotInv'
<1> USE DEF Inv, TypeInv, Ended, loops, sockets, requests, events, closing
<1>1. CASE Publish /\ UNCHANGED <<loops, sockets, requests, closing>>
  BY <1>1, UsingStays DEF Publish
<1>2. CASE Listen /\ closer = "no"
  BY <1>2, UsingStays DEF Listen
<1>3. CASE CloseServer
  BY <1>3, UsingStays DEF CloseServer
<1>4. CASE CloseCancellations
  BY <1>4, UsingStays DEF CloseCancellations
<1>5. CASE CloseQueues
  BY <1>5, UsingStays DEF CloseQueues
<1>6. CASE CloseTransports
  BY <1>6, UsingStays DEF CloseTransports
<1>7. CASE JoinAll
  BY <1>7, UsingStays DEF JoinAll
<1>8. CASE JoinTimesOut
  BY <1>8, UsingStays DEF JoinTimesOut
<1>9. ASSUME NEW endpoint \in Endpoint, StopAccepting(endpoint) PROVE SlotInv'
  BY <1>9, UsingStays DEF StopAccepting
<1>10. ASSUME NEW endpoint \in Endpoint, StartLoop(endpoint), closer = "no"
      PROVE  SlotInv'
  BY <1>10, UsingStays DEF StartLoop
<1>11. QED BY <1>1, <1>2, <1>3, <1>4, <1>5, <1>6, <1>7, <1>8, <1>9, <1>10 DEF OwnStep, Closing

(* After the beginning of close(), nobody is admitted; after its end, nobody is*)
(* left to move.                                                            *)
LEMMA CloseConnection ==
  ASSUME Inv, NEW c \in Connection, ConnectionStep(c)
  PROVE  CloseInv'
<1> USE DEF Inv, TypeInv, CloseInv, Ended, LoopsEnded, Threads, WorkersAlive, WritersAlive,
            loops, sockets, requests, events, closing, Move
<1>1. CASE AcceptConnection(c)
  BY <1>1 DEF AcceptConnection
<1>2. CASE ReceiveMessage(c)
  BY <1>2 DEF ReceiveMessage
<1>3. CASE StopReading(c)
  BY <1>3 DEF StopReading
<1>4. CASE HandshakeExpires(c)
  BY <1>4 DEF HandshakeExpires
<1>5. CASE Admit(c)
  BY <1>5 DEF Admit
<1>6. CASE Refuse(c)
  BY <1>6 DEF Refuse, NextAccept
<1>7. CASE Leave(c)
  BY <1>7 DEF Leave, Unlist
<1>8. CASE EndWorker(c)
  BY <1>8 DEF EndWorker
<1>9. CASE TakeRequest(c)
  BY <1>9 DEF TakeRequest
<1>10. CASE Register(c)
  BY <1>10 DEF Register
<1>11. CASE FailWatcher(c)
  BY <1>11 DEF FailWatcher
<1>12. CASE Unregister(c)
  BY <1>12 DEF Unregister
<1>13. CASE Reply(c)
  BY <1>13 DEF Reply
<1>14. CASE CloseLateHandshake(c)
  BY <1>14 DEF CloseLateHandshake
<1>15. QED
  BY <1>1, <1>2, <1>3, <1>4, <1>5, <1>6, <1>7, <1>8, <1>9, <1>10, <1>11, <1>12, <1>13,
     <1>14
  DEF ConnectionStep, Worker

LEMMA CloseRequest ==
  ASSUME Inv, NEW c \in Control, RequestStep(c)
  PROVE  CloseInv'
<1> USE DEF Inv, TypeInv, CloseInv, Ended, LoopsEnded, Threads, WorkersAlive, WritersAlive,
            loops, sockets, requests, events, closing, Move
<1>1. CASE WatchDisconnect(c)
  BY <1>1 DEF WatchDisconnect
<1>2. CASE EndHandler(c)
  BY <1>2 DEF EndHandler
<1>3. CASE ExpireRequest(c)
  BY <1>3 DEF ExpireRequest
<1>4. ASSUME NEW accepts \in BOOLEAN, Handle(c, accepts) PROVE CloseInv'
  BY <1>4 DEF Handle
<1>5. QED BY <1>1, <1>2, <1>3, <1>4 DEF RequestStep

LEMMA CloseSubscriber ==
  ASSUME Inv, NEW c \in Events, Subscriber(c)
  PROVE  CloseInv'
<1> USE DEF Inv, TypeInv, CloseInv, Ended, LoopsEnded, Threads, WorkersAlive, WritersAlive,
            loops, sockets, requests, events, closing, Move, MoveWriter
<1>1. CASE Subscribe(c)
  BY <1>1 DEF Subscribe, Activate
<1>2. CASE FailWriter(c)
  BY <1>2 DEF FailWriter, Activate
<1>3. CASE SubscribeTooLate(c)
  BY <1>3 DEF SubscribeTooLate
<1>4. CASE TakeEvent(c)
  BY <1>4 DEF TakeEvent
<1>5. CASE CheckSubscribed(c)
  BY <1>5 DEF CheckSubscribed
<1>6. CASE WriteEvent(c)
  BY <1>6 DEF WriteEvent
<1>7. CASE FailWrite(c)
  BY <1>7 DEF FailWrite
<1>8. CASE LeaveWriter(c)
  BY <1>8 DEF LeaveWriter, Unlist
<1>9. CASE DiscardWriter(c)
  BY <1>9 DEF DiscardWriter
<1>10. QED BY <1>1, <1>2, <1>3, <1>4, <1>5, <1>6, <1>7, <1>8, <1>9 DEF Subscriber

LEMMA CloseOwn ==
  ASSUME Inv, OwnStep
  PROVE  CloseInv'
<1> USE DEF Inv, TypeInv, CloseInv, Ended, LoopsEnded, Threads, WorkersAlive, WritersAlive,
            loops, sockets, requests, events, closing
<1>1. CASE Publish /\ UNCHANGED <<loops, sockets, requests, closing>>
  BY <1>1 DEF Publish
<1>2. CASE Listen /\ closer = "no"
  BY <1>2 DEF Listen
<1>3. CASE CloseServer
  BY <1>3 DEF CloseServer
<1>4. CASE CloseCancellations
  BY <1>4 DEF CloseCancellations
<1>5. CASE CloseQueues
  BY <1>5 DEF CloseQueues
<1>6. CASE CloseTransports
  BY <1>6 DEF CloseTransports
<1>7. CASE JoinAll
  BY <1>7 DEF JoinAll
<1>8. CASE JoinTimesOut
  BY <1>8 DEF JoinTimesOut
<1>9. ASSUME NEW endpoint \in Endpoint, StopAccepting(endpoint) PROVE CloseInv'
  BY <1>9 DEF StopAccepting
<1>10. ASSUME NEW endpoint \in Endpoint, StartLoop(endpoint), closer = "no"
      PROVE  CloseInv'
  BY <1>10 DEF StartLoop
<1>11. QED BY <1>1, <1>2, <1>3, <1>4, <1>5, <1>6, <1>7, <1>8, <1>9, <1>10 DEF OwnStep, Closing

(* Cancellation: a request is registered before it is handled, and only while*)
(* the server runs.                                                         *)
LEMMA CancelConnection ==
  ASSUME Inv, NEW c \in Connection, ConnectionStep(c)
  PROVE  CancelInv'
<1> USE DEF Inv, TypeInv, CancelInv, CloseInv, loops, sockets, requests, events, closing,
            Move
<1>1. CASE AcceptConnection(c)
  BY <1>1 DEF AcceptConnection
<1>2. CASE ReceiveMessage(c)
  BY <1>2 DEF ReceiveMessage
<1>3. CASE StopReading(c)
  BY <1>3 DEF StopReading
<1>4. CASE HandshakeExpires(c)
  BY <1>4 DEF HandshakeExpires
<1>5. CASE Admit(c)
  BY <1>5 DEF Admit
<1>6. CASE Refuse(c)
  BY <1>6 DEF Refuse, NextAccept
<1>7. CASE Leave(c)
  BY <1>7 DEF Leave, Unlist
<1>8. CASE EndWorker(c)
  BY <1>8 DEF EndWorker
<1>9. CASE TakeRequest(c)
  BY <1>9 DEF TakeRequest
<1>10. CASE Register(c)
  BY <1>10 DEF Register
<1>11. CASE FailWatcher(c)
  BY <1>11 DEF FailWatcher
<1>12. CASE Unregister(c)
  BY <1>12 DEF Unregister
<1>13. CASE Reply(c)
  BY <1>13 DEF Reply
<1>14. CASE CloseLateHandshake(c)
  BY <1>14 DEF CloseLateHandshake
<1>15. QED
  BY <1>1, <1>2, <1>3, <1>4, <1>5, <1>6, <1>7, <1>8, <1>9, <1>10, <1>11, <1>12, <1>13,
     <1>14
  DEF ConnectionStep, Worker

LEMMA CancelRequest ==
  ASSUME Inv, NEW c \in Control, RequestStep(c)
  PROVE  CancelInv'
<1> USE DEF Inv, TypeInv, CancelInv, CloseInv, loops, sockets, requests, events, closing,
            Move
<1>1. CASE WatchDisconnect(c)
  BY <1>1 DEF WatchDisconnect
<1>2. CASE EndHandler(c)
  BY <1>2 DEF EndHandler
<1>3. CASE ExpireRequest(c)
  BY <1>3 DEF ExpireRequest
<1>4. ASSUME NEW accepts \in BOOLEAN, Handle(c, accepts) PROVE CancelInv'
  BY <1>4 DEF Handle
<1>5. QED BY <1>1, <1>2, <1>3, <1>4 DEF RequestStep

LEMMA CancelSubscriber ==
  ASSUME Inv, NEW c \in Events, Subscriber(c)
  PROVE  CancelInv'
<1> USE DEF Inv, TypeInv, CancelInv, CloseInv, loops, sockets, requests, events, closing,
            Move, MoveWriter
<1>1. CASE Subscribe(c)
  BY <1>1 DEF Subscribe, Activate
<1>2. CASE FailWriter(c)
  BY <1>2 DEF FailWriter, Activate
<1>3. CASE SubscribeTooLate(c)
  BY <1>3 DEF SubscribeTooLate
<1>4. CASE TakeEvent(c)
  BY <1>4 DEF TakeEvent
<1>5. CASE CheckSubscribed(c)
  BY <1>5 DEF CheckSubscribed
<1>6. CASE WriteEvent(c)
  BY <1>6 DEF WriteEvent
<1>7. CASE FailWrite(c)
  BY <1>7 DEF FailWrite
<1>8. CASE LeaveWriter(c)
  BY <1>8 DEF LeaveWriter, Unlist
<1>9. CASE DiscardWriter(c)
  BY <1>9 DEF DiscardWriter
<1>10. QED BY <1>1, <1>2, <1>3, <1>4, <1>5, <1>6, <1>7, <1>8, <1>9 DEF Subscriber

LEMMA CancelOwn ==
  ASSUME Inv, OwnStep
  PROVE  CancelInv'
<1> USE DEF Inv, TypeInv, CancelInv, CloseInv, loops, sockets, requests, events, closing
<1>1. CASE Publish /\ UNCHANGED <<loops, sockets, requests, closing>>
  BY <1>1 DEF Publish
<1>2. CASE Listen /\ closer = "no"
  BY <1>2 DEF Listen
<1>3. CASE CloseServer
  BY <1>3 DEF CloseServer
<1>4. CASE CloseCancellations
  BY <1>4 DEF CloseCancellations
<1>5. CASE CloseQueues
  BY <1>5 DEF CloseQueues
<1>6. CASE CloseTransports
  BY <1>6 DEF CloseTransports
<1>7. CASE JoinAll
  BY <1>7 DEF JoinAll
<1>8. CASE JoinTimesOut
  BY <1>8 DEF JoinTimesOut
<1>9. ASSUME NEW endpoint \in Endpoint, StopAccepting(endpoint) PROVE CancelInv'
  BY <1>9 DEF StopAccepting
<1>10. ASSUME NEW endpoint \in Endpoint, StartLoop(endpoint), closer = "no"
      PROVE  CancelInv'
  BY <1>10 DEF StartLoop
<1>11. QED BY <1>1, <1>2, <1>3, <1>4, <1>5, <1>6, <1>7, <1>8, <1>9, <1>10 DEF OwnStep, Closing

(* Sockets: opened for the accept loop, closed by the worker's end or before. *)
LEMMA SocketConnection ==
  ASSUME Inv, NEW c \in Connection, ConnectionStep(c)
  PROVE  SocketInv'
<1> USE DEF Inv, TypeInv, SocketInv, loops, sockets, requests, events, closing, Move
<1>1. CASE AcceptConnection(c)
  BY <1>1, Endpoints DEF AcceptConnection
<1>2. CASE ReceiveMessage(c)
  BY <1>2 DEF ReceiveMessage
<1>3. CASE StopReading(c)
  BY <1>3 DEF StopReading
<1>4. CASE HandshakeExpires(c)
  BY <1>4 DEF HandshakeExpires
<1>5. CASE Admit(c)
  BY <1>5 DEF Admit
<1>6. CASE Refuse(c)
  BY <1>6 DEF Refuse, NextAccept
<1>7. CASE Leave(c)
  BY <1>7 DEF Leave, Unlist
<1>8. CASE EndWorker(c)
  BY <1>8 DEF EndWorker
<1>9. CASE TakeRequest(c)
  BY <1>9 DEF TakeRequest
<1>10. CASE Register(c)
  BY <1>10 DEF Register
<1>11. CASE FailWatcher(c)
  BY <1>11 DEF FailWatcher
<1>12. CASE Unregister(c)
  BY <1>12 DEF Unregister
<1>13. CASE Reply(c)
  BY <1>13 DEF Reply
<1>14. CASE CloseLateHandshake(c)
  BY <1>14 DEF CloseLateHandshake
<1>15. QED
  BY <1>1, <1>2, <1>3, <1>4, <1>5, <1>6, <1>7, <1>8, <1>9, <1>10, <1>11, <1>12, <1>13,
     <1>14
  DEF ConnectionStep, Worker

LEMMA SocketRequest ==
  ASSUME Inv, NEW c \in Control, RequestStep(c)
  PROVE  SocketInv'
<1> USE DEF Inv, TypeInv, SocketInv, loops, sockets, requests, events, closing, Move
<1>1. CASE WatchDisconnect(c)
  BY <1>1 DEF WatchDisconnect
<1>2. CASE EndHandler(c)
  BY <1>2 DEF EndHandler
<1>3. CASE ExpireRequest(c)
  BY <1>3 DEF ExpireRequest
<1>4. ASSUME NEW accepts \in BOOLEAN, Handle(c, accepts) PROVE SocketInv'
  BY <1>4 DEF Handle
<1>5. QED BY <1>1, <1>2, <1>3, <1>4 DEF RequestStep

LEMMA SocketSubscriber ==
  ASSUME Inv, NEW c \in Events, Subscriber(c)
  PROVE  SocketInv'
<1> USE DEF Inv, TypeInv, SocketInv, loops, sockets, requests, events, closing, Move,
            MoveWriter
<1>1. CASE Subscribe(c)
  BY <1>1 DEF Subscribe, Activate
<1>2. CASE FailWriter(c)
  BY <1>2 DEF FailWriter, Activate
<1>3. CASE SubscribeTooLate(c)
  BY <1>3 DEF SubscribeTooLate
<1>4. CASE TakeEvent(c)
  BY <1>4 DEF TakeEvent
<1>5. CASE CheckSubscribed(c)
  BY <1>5 DEF CheckSubscribed
<1>6. CASE WriteEvent(c)
  BY <1>6 DEF WriteEvent
<1>7. CASE FailWrite(c)
  BY <1>7 DEF FailWrite
<1>8. CASE LeaveWriter(c)
  BY <1>8 DEF LeaveWriter, Unlist
<1>9. CASE DiscardWriter(c)
  BY <1>9 DEF DiscardWriter
<1>10. QED BY <1>1, <1>2, <1>3, <1>4, <1>5, <1>6, <1>7, <1>8, <1>9 DEF Subscriber

LEMMA SocketOwn ==
  ASSUME Inv, OwnStep
  PROVE  SocketInv'
<1> USE DEF Inv, TypeInv, SocketInv, loops, sockets, requests, events, closing
<1>1. CASE Publish /\ UNCHANGED <<loops, sockets, requests, closing>>
  BY <1>1 DEF Publish
<1>2. CASE Listen /\ closer = "no"
  BY <1>2 DEF Listen
<1>3. CASE CloseServer
  BY <1>3 DEF CloseServer
<1>4. CASE CloseCancellations
  BY <1>4 DEF CloseCancellations
<1>5. CASE CloseQueues
  BY <1>5 DEF CloseQueues
<1>6. CASE CloseTransports
  BY <1>6 DEF CloseTransports
<1>7. CASE JoinAll
  BY <1>7 DEF JoinAll
<1>8. CASE JoinTimesOut
  BY <1>8 DEF JoinTimesOut
<1>9. ASSUME NEW endpoint \in Endpoint, StopAccepting(endpoint) PROVE SocketInv'
  BY <1>9, Endpoints DEF StopAccepting
<1>10. ASSUME NEW endpoint \in Endpoint, StartLoop(endpoint), closer = "no"
      PROVE  SocketInv'
  BY <1>10 DEF StartLoop
<1>11. QED BY <1>1, <1>2, <1>3, <1>4, <1>5, <1>6, <1>7, <1>8, <1>9, <1>10 DEF OwnStep, Closing

LEMMA StepInv ==
  ASSUME Inv, ServerStep
  PROVE  Inv'
<1>1. CASE UNCHANGED serverVars
  BY <1>1
    DEF serverVars, loops, sockets, requests, events, closing, Inv, TypeInv, CloseInv,
     SocketInv,
      SlotInv, CancelInv, StreamInv, StreamOf, Reached, Using, LoopsEnded
<1>2. ASSUME NEW c \in Connection, ConnectionStep(c) PROVE Inv'
  BY <1>2, TypeConnection, CloseConnection, SocketConnection, SlotConnection,
     CancelConnection, StreamConnection DEF Inv
<1>3. ASSUME NEW c \in Control, RequestStep(c) PROVE Inv'
  BY <1>3, TypeRequest, CloseRequest, SocketRequest, SlotRequest, CancelRequest, StreamRequest
  DEF Inv
<1>4. ASSUME NEW c \in Events, Subscriber(c) PROVE Inv'
  BY <1>4, TypeSubscriber, CloseSubscriber, SocketSubscriber, SlotSubscriber,
     CancelSubscriber, StreamSubscriber DEF Inv
<1>5. CASE OwnStep
  BY <1>5, TypeOwn, CloseOwn, SocketOwn, SlotOwn, CancelOwn, StreamOwn DEF Inv
<1>6. QED BY <1>1, <1>2, <1>3, <1>4, <1>5 DEF ServerStep

LEMMA InitInv == Init => Inv /\ OwnerInv
<1> SUFFICES ASSUME Init PROVE Inv /\ OwnerInv
  OBVIOUS
<1> USE DEF Init, ServerInit, Ended
<1>1. TypeInv
  <2>1. slots \in [Endpoint -> Nat]
    BY LimitsAssumption DEF Slots, Endpoint
  <2>2. queue \in [Events -> Seq(0..MaxPublished)]
    BY EmptySeq
  <2>3. /\ published \in 0..MaxPublished
        /\ holding \in [Events -> 0..MaxPublished] /\ last \in [Events -> 0..MaxPublished]
    BY LimitsAssumption DEF Stop
  <2>4. worker \in [Connection -> WorkerPc] /\ writer \in [Events -> WriterPc]
    BY DEF WorkerPc, WriterPc
  <2>5. accepting \in [Endpoint -> {"unstarted", "waiting", "ended"}]
    OBVIOUS
  <2>6. taken \in [connections : SUBSET Connection, queues : SUBSET Events,
                   cancellations : SUBSET Control]
    BY DEF NoneTaken
  <2>7. QED
    BY <2>1, <2>2, <2>3, <2>4, <2>5, <2>6 DEF TypeInv, CloserPc, Requesting
<1>2. CloseInv /\ StreamInv
  BY DEF CloseInv, StreamInv, StreamOf
<1>3. SocketInv /\ CancelInv
  <2>1. open = {} /\ \A c \in Connection : worker[c] = "new"
    OBVIOUS
  <2>2. \A c \in Control : worker[c] = "new"
    BY <2>1, Endpoints
  <2> HIDE DEF Init, ServerInit
  <2>3. QED BY <2>1, <2>2 DEF SocketInv, CancelInv
<1>4. SlotInv
  <2>1. \A endpoint \in Endpoint : Using(endpoint) = {}
    BY Endpoints DEF Using
  <2>2. \A endpoint \in Endpoint :
          slots[endpoint] = Slots(endpoint) /\ Slots(endpoint) \in Nat
    BY LimitsAssumption DEF Slots, Endpoint
  <2>3. \A endpoint \in Endpoint : Cardinality(Using(endpoint)) = 0
    BY <2>1, FS_EmptySet
  <2> HIDE DEF Init, ServerInit
  <2>4. QED BY <2>2, <2>3 DEF SlotInv
<1>5. OwnerInv
  BY DEF OwnerInv
<1>6. QED BY <1>1, <1>2, <1>3, <1>4, <1>5 DEF Inv

LEMMA OwnerStep ==
  ASSUME OwnerInv, [Next]_vars
  PROVE  OwnerInv'
<1> USE DEF OwnerInv, lifecycle, loops, sockets, requests, events, closing
<1>1. CASE Owner
  <2>1. CASE Start
    BY <2>1 DEF Start, serverVars
  <2>2. CASE OnStarted
    BY <2>2 DEF OnStarted, serverVars
  <2>3. CASE FailStart
    BY <2>3 DEF FailStart, serverVars
  <2>4. CASE StartBackends
    BY <2>4 DEF StartBackends, Listen
  <2>5. CASE StartControl
    BY <2>5 DEF StartControl, StartLoop
  <2>6. CASE StartEvents
    BY <2>6 DEF StartEvents, StartLoop
  <2>7. CASE FailServer
    BY <2>7 DEF FailServer, CloseServer
  <2>8. CASE AbortStart
    BY <2>8 DEF AbortStart, CloseServer
  <2>9. CASE EndAbort
    BY <2>9 DEF EndAbort, serverVars
  <2>10. CASE Close
    BY <2>10 DEF Close, serverVars
  <2>11. CASE Announce
    BY <2>11 DEF Announce, CloseServer
  <2>12. CASE CloseAgain
    BY <2>12 DEF CloseAgain, CloseServer
  <2>13. CASE EndClose
    BY <2>13 DEF EndClose, serverVars
  <2>14. CASE CloseTimesOut
    BY <2>14 DEF CloseTimesOut, serverVars
  <2>15. QED
        BY <1>1, <2>1, <2>2, <2>3, <2>4, <2>5, <2>6, <2>7, <2>8, <2>9, <2>10, <2>11, <2>12,
       <2>13, <2>14
    DEF Owner
<1>2. CASE UNCHANGED lifecycle /\ (closer' = closer \/ closer \notin {"no", "closed"})
  BY <1>2
<1>3. CASE PublishEvent
  BY <1>2, <1>3 DEF PublishEvent
<1>4. ASSUME NEW c \in Control, RpcResponse(c) PROVE OwnerInv'
  BY <1>2, <1>4 DEF RpcResponse, Handle
<1>5. CASE ServerNext /\ UNCHANGED lifecycle
  <2>1. CASE Surroundings
    BY <1>2, <1>5, <2>1
        DEF Surroundings, AcceptConnection, ReceiveMessage, StopReading, CloseLateHandshake,
        WatchDisconnect, EndHandler
  <2>2. CASE Progress
    BY <1>2, <1>5, <2>2
        DEF Progress, Worker, HandshakeExpires, StopReading, ExpireRequest, EndHandler,
       Subscriber,
        StopAccepting, Admit, Refuse, Leave, EndWorker, TakeRequest, Register, FailWatcher,
                Unregister, Reply, Subscribe, FailWriter, SubscribeTooLate, TakeEvent,
           CheckSubscribed,
        WriteEvent, FailWrite, LeaveWriter, DiscardWriter
  <2>3. CASE Closing \/ JoinTimesOut
    BY <1>2, <1>5, <2>3
    DEF Closing, CloseCancellations, CloseQueues, CloseTransports, JoinAll, JoinTimesOut
  <2>4. QED BY <1>5, <2>1, <2>2, <2>3 DEF ServerNext
<1>6. CASE UNCHANGED vars
  BY <1>2, <1>6 DEF vars, serverVars
<1>7. QED BY <1>1, <1>3, <1>4, <1>5, <1>6 DEF Next

LEMMA InvCorrect == Spec => [](Inv /\ OwnerInv)
<1>1. Inv /\ OwnerInv /\ [Next]_vars => Inv' /\ OwnerInv'
  BY StepCases, StepInv, OwnerStep
<1>2. QED BY <1>1, InitInv, PTL DEF Spec

-----------------------------------------------------------------------------
(* Every variable of the server and its owner keeps its type, and no slot is *)
(* given back that was not taken, for any numbers of peers and places.      *)
THEOREM TypeCorrect == Spec => []TypeOK
<1>1. Inv /\ OwnerInv => TypeOK
  <2> SUFFICES ASSUME Inv, OwnerInv PROVE TypeOK
    OBVIOUS
  <2>1. \A endpoint \in Endpoint : slots[endpoint] <= Slots(endpoint)
    <3> TAKE endpoint \in Endpoint
    <3>1. /\ slots[endpoint] \in Nat /\ Cardinality(Using(endpoint)) \in Nat
          /\ slots[endpoint] + Cardinality(Using(endpoint)) = Slots(endpoint)
      BY UsingIsFinite, FS_CardinalityType DEF Inv, TypeInv, SlotInv
    <3>2. QED BY <3>1
  <2>2. QED BY <2>1 DEF Inv, TypeInv, OwnerInv, TypeOK, ServerTypeOK
<1>2. QED BY <1>1, InvCorrect, PTL

(* close() that returns leaves nothing behind, whoever was connecting,       *)
(* leaving or being refused when it began.                                  *)
THEOREM ClosedServerIsEmpty == Spec => []ServerIsEmpty
<1>1. Inv => ServerIsEmpty
  <2> SUFFICES ASSUME Inv, closer = "closed" PROVE ServerIsEmpty
    BY DEF ServerIsEmpty
  <2>1. /\ LoopsEnded /\ listed = {} /\ subscribed = {}
        /\ \A c \in Connection : worker[c] \in Ended
        /\ \A c \in Events : writer[c] \in {"none", "done"}
    BY DEF Inv, CloseInv
  <2>2. WorkersAlive = {} /\ WritersAlive = {}
    BY <2>1 DEF WorkersAlive, WritersAlive, Ended
  <2>3. open = {}
    <3> SUFFICES ASSUME NEW c \in open PROVE FALSE
      OBVIOUS
    <3>1. c \in Connection /\ worker[c] = "accepted"
      BY <2>1 DEF Inv, TypeInv, SocketInv, Ended
    <3>2. EndpointOf(c) \in Endpoint /\ accepting[EndpointOf(c)] = "waiting"
      BY <3>1, Endpoints DEF Inv, SocketInv
    <3>3. QED BY <2>1, <3>2 DEF LoopsEnded
  <2>4. ASSUME NEW endpoint \in Endpoint
        PROVE  slots[endpoint] = Slots(endpoint)
    <3>1. Using(endpoint) = {}
      BY <2>1, Endpoints DEF Using
    <3>2. /\ Cardinality(Using(endpoint)) = 0 /\ slots[endpoint] \in Nat
          /\ slots[endpoint] + Cardinality(Using(endpoint)) = Slots(endpoint)
      BY <3>1, FS_EmptySet DEF Inv, TypeInv, SlotInv
    <3>3. QED BY <3>2
  <2>5. QED BY <2>1, <2>2, <2>3, <2>4 DEF ServerIsEmpty
<1>2. QED BY <1>1, InvCorrect, PTL

(* No handler runs uncancelled once close() has cancelled the requests that  *)
(* it found, however the workers were interleaved with it.                  *)
THEOREM ClosingCancels == Spec => []CloseCancels
<1>1. Inv => CloseCancels
  BY DEF Inv, CancelInv, CloseCancels
<1>2. QED BY <1>1, InvCorrect, PTL

(* on_closed is called once no handler uses what it releases. *)
THEOREM ResourcesAreHeld == Spec => []ResourcesOutliveHandlers
<1>1. Inv /\ OwnerInv => ResourcesOutliveHandlers
  <2> SUFFICES ASSUME Inv, OwnerInv PROVE ResourcesOutliveHandlers
    OBVIOUS
  <2>1. owner = "closed" => \A c \in Control : worker[c] # "handling"
    BY Endpoints DEF Inv, CloseInv, OwnerInv, Ended
  <2>2. QED BY <2>1 DEF OwnerInv, ResourcesOutliveHandlers
<1>2. QED BY <1>1, InvCorrect, PTL

(* What a subscriber is sent next is the event after the last it was sent,   *)
(* for any number of subscribers and any length of their queues.            *)
THEOREM StreamsHaveNoHole == Spec => NothingSkipped
<1>1. Inv => [\A c \in Events : WriteEvent(c) => last'[c] = last[c] + 1]_serverVars
  <2> SUFFICES ASSUME Inv, NEW c \in Events, WriteEvent(c)
               PROVE  last'[c] = last[c] + 1
    OBVIOUS
  <2>1. writer[c] = "writing" /\ last'[c] = holding[c]
    BY DEF WriteEvent, MoveWriter, Inv, TypeInv
  <2>2. QED BY <2>1 DEF Inv, StreamInv, StreamOf
<1>2. QED BY <1>1, InvCorrect, PTL DEF NothingSkipped
=============================================================================
