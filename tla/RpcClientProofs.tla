--------------------------- MODULE RpcClientProofs ---------------------------
(***************************************************************************)
(* Proofs about RpcClient: a client that has ended left no connection open   *)
(* that it was given, a call that failed by itself is not wrongly said not   *)
(* to have started, and a completed stream is closed.                       *)
(*                                                                         *)
(* Clients share only CONNECTING_PIPES, so the invariant is about one       *)
(* client, and a step of one leaves it true of the others.                  *)
(***************************************************************************)
EXTENDS RpcClient, TLAPS

TypeInv ==
  /\ PipeTypeOK
  /\ pc \in [Client -> CallPc \cup StreamPc]
  /\ timer \in [Client -> {"off", "armed", "firing", "done"}]
  /\ expired \subseteq Client
  /\ outcome \in [Caller -> {"not_started", "unknown"}]
  /\ result \in [Caller -> {"none", "result", "remote", "transport", "timeout"}]
  /\ sent \subseteq Caller /\ executed \subseteq Caller
  /\ connection \subseteq Stream
  /\ reason \in [Stream -> Reason \cup {"none"}]
  /\ finishing \in [Stream -> Finisher \cup {"no", "done"}]
  /\ reader \in [Stream -> {"none", "reading", "callback", "finishing", "done"}]
  /\ orphaned \subseteq Stream

(* The helper of c will do nothing any more. *)
Gone(c) == helper[c] \in {"none", "done"}

(* Who has the connection that a helper makes: the queue it is put in, the  *)
(* client that takes it, or, of a client that gave up, nobody.              *)
PipeInv(c) ==
  /\ attempt[c] = "idle" => helper[c] = "none"
  /\ helper[c] = "none" => transport[c] = "none" /\ attempt[c] \in {"idle", "failed"}
  /\ c \in abandoned => attempt[c] = "failed"
  /\ c \in results => helper[c] = "done" /\ attempt[c] \in {"waiting", "late"}
  /\ attempt[c] = "connected" => helper[c] = "done"
  /\ attempt[c] = "failed" => c \in abandoned \/ (Gone(c) /\ ~ IsOpen(c))
  /\ attempt[c] \in {"waiting", "late"} /\ helper[c] = "done" => c \in results

(* A call that has begun holds its connection until it has closed it, and    *)
(* unless the server tells it, knows whether that can have its request.     *)
CallInv(c) ==
  /\ pc[c] \in CallPc
  /\ pc[c] = "new" <=> attempt[c] = "idle"
  /\ pc[c] \in {"hello", "request", "reply", "finally"} => attempt[c] = "connected"
  /\ pc[c] = "ended" =>
       attempt[c] = "failed" \/ (attempt[c] = "connected" /\ ~ IsOpen(c))
  /\ pc[c] = "untimed" => attempt[c] = "connected"
  /\ pc[c] \in {"new", "connecting", "hello", "request", "reply"} => result[c] # "remote"
  /\ outcome[c] = "not_started" =>
       result[c] = "remote" \/ (c \notin sent \cup executed /\ pc[c] # "reply")

(* A stream that has a connection and is finished has closed it, unless it   *)
(* was finished before.                                                     *)
StreamInv(c) ==
  /\ pc[c] \in StreamPc
  /\ pc[c] = "new" => attempt[c] = "idle"
  /\ reason[c] = "none" <=> finishing[c] = "no"
  /\ c \in connection => attempt[c] = "connected"
  /\ pc[c] \in {"new", "connecting"} => c \notin connection
  /\ pc[c] = "connecting" /\ finishing[c] = "done" => c \in orphaned
  /\ pc[c] \in {"hello", "subscribe", "joining", "except", "finally", "untimed"} =>
       c \in connection
  /\ pc[c] \in {"raising", "raised"} =>
       \/ attempt[c] \in {"idle", "failed"}
       \/ c \in connection /\ reason[c] # "none"
  /\ c \in connection \ orphaned /\ finishing[c] = "done" => ~ IsOpen(c)

ClientInv(c) ==
  /\ PipeInv(c)
  /\ c \in Caller => CallInv(c)
  /\ c \in Stream => StreamInv(c)

Inv == TypeInv /\ \A c \in Client : ClientInv(c)

(* What the invariant says of d is about variables that do not change. *)
Untouched(d) ==
  /\ attempt'[d] = attempt[d] /\ helper'[d] = helper[d] /\ transport'[d] = transport[d]
  /\ (d \in results' <=> d \in results) /\ (d \in abandoned' <=> d \in abandoned)
  /\ pc'[d] = pc[d]
  /\ d \in Caller =>
       /\ outcome'[d] = outcome[d] /\ result'[d] = result[d]
       /\ (d \in sent' <=> d \in sent) /\ (d \in executed' <=> d \in executed)
  /\ d \in Stream =>
       /\ reason'[d] = reason[d] /\ finishing'[d] = finishing[d]
       /\ (d \in connection' <=> d \in connection)
       /\ (d \in orphaned' <=> d \in orphaned)

(* A step of one client, and what it leaves alone. *)
Kept(c) == TypeInv' /\ ClientInv(c)' /\ \A d \in Client \ {c} : Untouched(d)

-----------------------------------------------------------------------------
LEMMA InitInv == Init => Inv
<1> SUFFICES ASSUME Init PROVE Inv
  OBVIOUS
<1>1. TypeInv
  BY DEF Init, PipeInit, TypeInv, PipeTypeOK, CallPc
<1>2. ASSUME NEW c \in Client PROVE ClientInv(c)
  BY ClientsAssumption
  DEF Init, PipeInit, ClientInv, PipeInv, CallInv, StreamInv, Gone, IsOpen,
      CallPc, StreamPc
<1>3. QED BY <1>1, <1>2 DEF Inv

LEMMA Others ==
  ASSUME NEW d \in Client, ClientInv(d), Untouched(d)
  PROVE  ClientInv(d)'
BY DEF ClientInv, PipeInv, CallInv, StreamInv, Untouched, Gone, IsOpen

(* The helper, and the client that waits for it. *)
LEMMA PipeKept ==
  ASSUME NEW c \in Client, TypeInv, ClientInv(c), Connecting(c)
  PROVE  Kept(c)
<1> USE ClientsAssumption
    DEF Kept, TypeInv, PipeTypeOK, ClientInv, PipeInv, CallInv, StreamInv,
        Untouched, IsOpen, Gone,
        pipes, calls, streams, CloseTransport, Connecting
<1>1. CASE HelperConnects(c)
  BY <1>1 DEF HelperConnects
<1>2. CASE HelperDiscards(c)
  BY <1>2 DEF HelperDiscards
<1>3. CASE HelperDelivers(c)
  BY <1>3 DEF HelperDelivers
<1>4. CASE TakeResult(c)
  BY <1>4 DEF TakeResult
<1>5. CASE GiveUp(c)
  BY <1>5 DEF GiveUp
<1>6. CASE Abandon(c)
  BY <1>6 DEF Abandon
<1>7. CASE Reclaim(c)
  BY <1>7 DEF Reclaim
<1>8. QED
  BY <1>1, <1>2, <1>3, <1>4, <1>5, <1>6, <1>7
  DEF Connecting, PipeStep, Helper

LEMMA CallKept ==
  ASSUME NEW c \in Caller, TypeInv, ClientInv(c),
         \/ Connect(c) \/ CallStep(c) \/ CallExpires(c) \/ ReclaimUntimed(c)
         \/ CallHello(c) \/ Execute(c) \/ ReadReply(c) \/ ReadError(c)
         \/ FailRead(c)
  PROVE  Kept(c)
<1> USE ClientsAssumption
    DEF Kept, TypeInv, PipeTypeOK, ClientInv, PipeInv, CallInv, Goto, Arm,
        StopTimer, Untouched, IsOpen, Gone,
        pipes, calls, streams, CloseTransport, CallPc, StreamPc
<1>1. CASE Connect(c) /\ BeginConnect(c)
  BY <1>1 DEF Connect, BeginConnect
<1>2. CASE Connect(c) /\ RefuseConnect(c)
  BY <1>2 DEF Connect, RefuseConnect
<1>3. CASE FailCallConnection(c)
  BY <1>3 DEF FailCallConnection
<1>4. CASE BeginCall(c)
  BY <1>4 DEF BeginCall
<1>5. CASE CallExpires(c)
  BY <1>5 DEF CallExpires
<1>6. CASE CloseExpiredCall(c)
  BY <1>6 DEF CloseExpiredCall
<1>7. CASE CallHello(c)
  BY <1>7 DEF CallHello
<1>8. CASE WriteRequest(c)
  BY <1>8 DEF WriteRequest
<1>9. CASE FailWriteRequest(c)
  BY <1>9 DEF FailWriteRequest
<1>10. CASE Execute(c)
  BY <1>10 DEF Execute
<1>11. CASE ReadReply(c)
  BY <1>11 DEF ReadReply
<1>12. CASE ReadError(c)
  BY <1>12 DEF ReadError
<1>13. CASE FailRead(c)
  BY <1>13 DEF FailRead
<1>14. CASE EndCall(c)
  BY <1>14 DEF EndCall
<1>15. CASE FailTimer(c)
  BY <1>15 DEF FailTimer
<1>16. CASE ReclaimUntimed(c)
  BY <1>16 DEF ReclaimUntimed
<1>17. QED
  BY <1>1, <1>2, <1>3, <1>4, <1>5, <1>6, <1>7, <1>8, <1>9, <1>10, <1>11, <1>12,
     <1>13, <1>14, <1>15, <1>16
  DEF CallStep, Connect

LEMMA StreamKept ==
  ASSUME NEW c \in Stream, TypeInv, ClientInv(c),
         \/ StartStream(c) \/ RejectStart(c) \/ CloseStream(c) \/ StreamStep(c)
         \/ HandshakeExpires(c) \/ StreamHello(c) \/ FailHandshake(c) \/ ReadEvent(c)
         \/ EndCallback(c)
  PROVE  Kept(c)
<1> USE ClientsAssumption
    DEF Kept, TypeInv, PipeTypeOK, ClientInv, PipeInv, StreamInv, Goto, Arm,
        StopTimer, Finish, Untouched, IsOpen, Gone,
        pipes, calls, streams, CloseTransport, CallPc, StreamPc, Reason, Finisher
<1>1. CASE StartStream(c) /\ BeginConnect(c)
  BY <1>1 DEF StartStream, Connect, BeginConnect
<1>2. CASE StartStream(c) /\ RefuseConnect(c)
  BY <1>2 DEF StartStream, Connect, RefuseConnect
<1>3. CASE RejectStart(c)
  BY <1>3 DEF RejectStart
<1>4. CASE FailStreamConnection(c)
  BY <1>4 DEF FailStreamConnection
<1>5. CASE Connected(c)
  BY <1>5 DEF Connected
<1>6. CASE HandshakeExpires(c)
  BY <1>6 DEF HandshakeExpires
<1>7. CASE FinishExpired(c)
  BY <1>7 DEF FinishExpired
<1>8. CASE EndExpired(c)
  BY <1>8 DEF EndExpired
<1>9. CASE EndFinish(c)
  BY <1>9 DEF EndFinish
<1>10. CASE CloseStream(c)
  BY <1>10 DEF CloseStream
<1>11. CASE StreamHello(c)
  BY <1>11 DEF StreamHello
<1>12. CASE SubscribeStream(c)
  BY <1>12 DEF SubscribeStream
<1>13. CASE FailHandshake(c)
  BY <1>13 DEF FailHandshake
<1>14. CASE StartReader(c)
  BY <1>14 DEF StartReader
<1>15. CASE FailReader(c)
  BY <1>15 DEF FailReader
<1>16. CASE Except(c)
  BY <1>16 DEF Except
<1>17. CASE Finally(c)
  BY <1>17 DEF Finally
<1>18. CASE Raise(c)
  BY <1>18 DEF Raise
<1>19. CASE EndReader(c)
  BY <1>19 DEF EndReader
<1>20. CASE ReadEvent(c)
  BY <1>20 DEF ReadEvent
<1>21. CASE EndCallback(c)
  BY <1>21 DEF EndCallback
<1>22. CASE FailTimer(c)
  BY <1>22 DEF FailTimer
<1>23. QED
  BY <1>1, <1>2, <1>3, <1>4, <1>5, <1>6, <1>7, <1>8, <1>9, <1>10, <1>11, <1>12,
     <1>13, <1>14, <1>15, <1>16, <1>17, <1>18, <1>19, <1>20, <1>21, <1>22
  DEF StreamStep, StartStream, Connect

LEMMA EndReadingKept ==
  ASSUME NEW c \in Stream, TypeInv, ClientInv(c), NEW from,
  NEW causes \in SUBSET Reason,
         EndReading(c, from, causes)
  PROVE  Kept(c)
BY ClientsAssumption
DEF EndReading, Kept, TypeInv, PipeTypeOK, ClientInv, PipeInv, StreamInv,
    Untouched, IsOpen, Gone, pipes, calls, Finish, Reason, Finisher

LEMMA StepKept ==
  ASSUME Inv, Next
  PROVE  \E c \in Client : Kept(c)
<1> USE ClientsAssumption DEF Inv
<1>1. ASSUME NEW c \in Client, Connecting(c) PROVE Kept(c)
  BY <1>1, PipeKept
<1>2. ASSUME NEW c \in Caller,
             \/ Connect(c) \/ CallStep(c) \/ CallExpires(c) \/ ReclaimUntimed(c)
             \/ CallHello(c) \/ Execute(c) \/ ReadReply(c) \/ ReadError(c)
             \/ FailRead(c)
      PROVE  Kept(c)
  BY <1>2, CallKept
<1>3. ASSUME NEW c \in Stream,
             \/ StartStream(c) \/ RejectStart(c) \/ CloseStream(c) \/ StreamStep(c)
             \/ HandshakeExpires(c) \/ StreamHello(c) \/ FailHandshake(c) \/ ReadEvent(c)
             \/ EndCallback(c)
      PROVE  Kept(c)
  BY <1>3, StreamKept
<1>4. ASSUME NEW c \in Stream,
             \/ EndReading(c, "reading", {"peer_eof"})
             \/ EndReading(c, "reading",
                  {"peer_eof", "protocol_error", "transport_error"})
             \/ EndReading(c, "callback", {"callback_error"})
      PROVE  Kept(c)
  BY <1>4, EndReadingKept DEF Reason
<1>5. ASSUME NEW c \in Client, Peer(c) \/ Unblock(c) PROVE Kept(c)
  BY <1>2, <1>3, <1>4, <1>5 DEF Peer, Unblock
<1>6. QED BY <1>1, <1>2, <1>3, <1>4, <1>5 DEF Next

LEMMA NextInv == Inv /\ [Next]_vars => Inv'
<1> SUFFICES ASSUME Inv, [Next]_vars PROVE Inv'
  OBVIOUS
<1>1. CASE Next
  <2>1. PICK c \in Client : Kept(c)
    BY <1>1, StepKept
  <2>2. ASSUME NEW d \in Client PROVE ClientInv(d)'
    BY <2>1, Others DEF Kept, Inv
  <2>3. QED BY <2>1, <2>2 DEF Kept, Inv
<1>2. CASE UNCHANGED vars
  <2>1. TypeInv'
    BY <1>2 DEF vars, pipes, calls, streams, Inv, TypeInv, PipeTypeOK
  <2>2. ASSUME NEW d \in Client PROVE ClientInv(d)'
    BY <1>2, Others DEF vars, pipes, calls, streams, Inv, Untouched
  <2>3. QED BY <2>1, <2>2 DEF Inv
<1>3. QED BY <1>1, <1>2

LEMMA InvCorrect == Spec => []Inv
BY InitInv, NextInv, PTL DEF Spec

-----------------------------------------------------------------------------
(* Every variable of the clients keeps its type. *)
THEOREM TypeCorrect == Spec => []TypeOK
<1>1. Inv => TypeOK
  BY ClientsAssumption DEF Inv, TypeInv, TypeOK, ClientInv, CallInv, StreamInv
<1>2. QED BY <1>1, InvCorrect, PTL

(* Whoever closes, fails or times out: a client that was given a connection  *)
(* and has ended has closed it, and only one that gave up was not given one *)
(* that is still open.                                                      *)
THEOREM NoConnectionIsLeft == Spec => []NothingLeftOpen
<1>1. Inv => NothingLeftOpen
  <2> SUFFICES ASSUME Inv, NEW c \in Client
               PROVE  /\ attempt[c] = "failed" /\ IsOpen(c) => c \in abandoned
                      /\ c \in Caller \ abandoned /\ pc[c] = "ended" => ~IsOpen(c)
                      /\ /\ c \in Stream \ (orphaned \cup abandoned) /\ pc[c] = "raised"
                         /\ finishing[c] \notin Finisher
                         => ~IsOpen(c)
    BY DEF NothingLeftOpen
  <2>1. ClientInv(c) /\ TypeInv
    BY DEF Inv
  <2>2. attempt[c] = "failed" /\ IsOpen(c) => c \in abandoned
    BY <2>1 DEF ClientInv, PipeInv
  <2>3. c \in Caller \ abandoned /\ pc[c] = "ended" => ~IsOpen(c)
    BY <2>1, <2>2 DEF ClientInv, CallInv
  <2>4. ASSUME c \in Stream \ (orphaned \cup abandoned), pc[c] = "raised",
               finishing[c] \notin Finisher
        PROVE  ~IsOpen(c)
    <3>1. CASE attempt[c] \in {"idle", "failed"}
      BY <2>1, <2>2, <2>4, <3>1 DEF ClientInv, PipeInv, IsOpen
    <3>2. CASE c \in connection /\ reason[c] # "none"
      BY <2>1, <2>4, <3>2 DEF ClientInv, StreamInv, TypeInv
    <3>3. QED BY <2>1, <2>4, <3>1, <3>2 DEF ClientInv, StreamInv
  <2>5. QED BY <2>2, <2>3, <2>4
<1>2. QED BY <1>1, InvCorrect, PTL

(* A call that fails by the transport or its timeout, and says that it was   *)
(* not started, never is.                                                   *)
THEOREM FailedCallsAreHonest == Spec => []OutcomeIsHonest
<1>1. Inv => OutcomeIsHonest
  BY ClientsAssumption DEF Inv, ClientInv, CallInv, OutcomeIsHonest
<1>2. QED BY <1>1, InvCorrect, PTL

(* wait_closed tells the truth of every stream that was not finished before  *)
(* it had a connection.                                                     *)
THEOREM CompletedStreamsAreClosed == Spec => []CompletionIsTruthful
<1>1. Inv => CompletionIsTruthful
  BY ClientsAssumption DEF Inv, TypeInv, ClientInv, StreamInv, CompletionIsTruthful
<1>2. QED BY <1>1, InvCorrect, PTL
=============================================================================
