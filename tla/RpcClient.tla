----------------------------- MODULE RpcClient ------------------------------
(***************************************************************************)
(* The RPC clients of reccy/protocol/rpc.py, each used once: a Caller makes *)
(* one Client.call, a Stream is one EventClient.  Each has a thread of its   *)
(* own and a timer; a Stream also has a reader thread, and any thread may    *)
(* close it.                                                                *)
(*                                                                         *)
(* Of the server it matters only which requests it carries out.  It may say *)
(* anything at any time, also that it has not started what it has carried    *)
(* out, and close.                                                          *)
(***************************************************************************)
EXTENDS PipeConnect

CONSTANTS Caller, Stream

ASSUME ClientsAssumption ==
  Caller \cup Stream = Client /\ Caller \cap Stream = {}

VARIABLES
  pc,         \* position in call() or start()
  timer,      \* the request or handshake timer
  expired,    \* clients whose timer has run
  outcome,    \* of a call: what it reports, if it raises
  result,     \* of a call: what it returned or raised
  sent,       \* callers whose request the server can read
  executed,   \* callers whose request the server has carried out
  connection, \* streams with self.connection
  reason,     \* of a stream: terminal_reason
  finishing,  \* the thread in the unlocked part of _finish; done: _completion set
  reader,     \* position of the reader thread
  orphaned    \* history: streams whose _finish was done before they connected

calls == <<outcome, result, sent, executed>>
streams == <<connection, reason, finishing, reader, orphaned>>
vars == <<pipes, pc, timer, expired, calls, streams>>

Reason == {"local_close", "peer_eof", "protocol_error", "callback_error",
           "transport_error", "timeout"}
Finisher == {"start", "timer", "reader", "closer"}
StreamPc == {"new", "connecting", "hello", "subscribe", "joining", "except",
             "finally", "raising", "started", "raised", "untimed"}
CallPc == {"new", "connecting", "hello", "request", "reply", "finally", "ended",
           "untimed"}

TypeOK ==
  /\ PipeTypeOK
  /\ \A c \in Caller : pc[c] \in CallPc
  /\ \A c \in Stream : pc[c] \in StreamPc
  /\ timer \in [Client -> {"off", "armed", "firing", "done"}]
  /\ expired \subseteq Client
  /\ outcome \in [Caller -> {"not_started", "unknown"}]
  /\ result \in [Caller -> {"none", "result", "remote", "transport", "timeout"}]
  /\ sent \subseteq Caller /\ executed \subseteq Caller
  /\ connection \subseteq Stream
  /\ reason \in [Stream -> Reason \cup {"none"}]
  /\ finishing \in [Stream -> Finisher \cup {"no", "done"}]
  /\ reader \in [Stream -> {"none", "reading", "callback", "finishing", "done"}]
  /\ orphaned \subseteq Stream

Init ==
  /\ PipeInit
  /\ pc = [c \in Client |-> "new"]
  /\ timer = [c \in Client |-> "off"] /\ expired = {}
  /\ outcome = [c \in Caller |-> "not_started"]
  /\ result = [c \in Caller |-> "none"]
  /\ sent = {} /\ executed = {}
  /\ connection = {}
  /\ reason = [c \in Stream |-> "none"]
  /\ finishing = [c \in Stream |-> "no"]
  /\ reader = [c \in Stream |-> "none"]
  /\ orphaned = {}

Goto(c, from, to) == pc[c] = from /\ pc' = [pc EXCEPT ![c] = to]
Arm(c) == timer' = [timer EXCEPT ![c] = "armed"]
IsOpen(c) == transport[c] = "open"

(* timer.cancel() and timer.join(). *)
StopTimer(c) ==
  /\ timer[c] /= "firing"
  /\ timer' = [timer EXCEPT ![c] = IF @ = "armed" THEN "off" ELSE @]

Connect(c) ==
  /\ BeginConnect(c) \/ RefuseConnect(c)
  /\ Goto(c, "new", "connecting")
  /\ UNCHANGED <<timer, expired, calls, streams>>

Connecting(c) ==
  /\ PipeStep(c)
  /\ UNCHANGED <<pc, timer, expired, calls, streams>>

(* The timer's thread does not start, outside of any try: the connection     *)
(* stays open, for a stream until somebody closes that.                     *)
FailTimer(c) ==
  /\ attempt[c] = "connected" /\ Goto(c, "connecting", "untimed")
  /\ connection' = connection \cup ({c} \cap Stream)
  /\ UNCHANGED <<pipes, timer, expired, calls, reason, finishing, reader, orphaned>>

-----------------------------------------------------------------------------
(* Client.call                                                              *)

(* Nobody has the connection of a call that could not start its timer. *)
ReclaimUntimed(c) ==
  /\ pc[c] = "untimed" /\ IsOpen(c) /\ CloseTransport(c)
  /\ UNCHANGED <<connecting, attempt, helper, results, abandoned, pc, timer, expired,
                 calls, streams>>

FailCallConnection(c) ==
  /\ attempt[c] = "failed" /\ Goto(c, "connecting", "ended")
  /\ result' = [result EXCEPT ![c] = "transport"]
  /\ UNCHANGED <<pipes, timer, expired, outcome, sent, executed, streams>>

BeginCall(c) ==
  /\ attempt[c] = "connected" /\ Goto(c, "connecting", "hello")
  /\ Arm(c)
  /\ UNCHANGED <<pipes, expired, calls, streams>>

(* close_for_timeout *)
CallExpires(c) ==
  /\ timer[c] = "armed" /\ timer' = [timer EXCEPT ![c] = "firing"]
  /\ expired' = expired \cup {c}
  /\ UNCHANGED <<pipes, pc, calls, streams>>

CloseExpiredCall(c) ==
  /\ timer[c] = "firing" /\ timer' = [timer EXCEPT ![c] = "done"]
  /\ CloseTransport(c)
  /\ UNCHANGED <<connecting, attempt, helper, results, abandoned, pc, expired, calls,
                 streams>>

CallHello(c) ==
  /\ IsOpen(c) /\ Goto(c, "hello", "request")
  /\ UNCHANGED <<pipes, timer, expired, calls, streams>>

(* The outcome is unknown from before the write, which may succeed, *)
WriteRequest(c) ==
  /\ IsOpen(c) /\ Goto(c, "request", "reply")
  /\ outcome' = [outcome EXCEPT ![c] = "unknown"]
  /\ sent' = sent \cup {c}
  /\ UNCHANGED <<pipes, timer, expired, result, executed, streams>>

(* A mistake: or fail and leave the outcome as before, *)
FailWriteUnmarked(c) ==
  /\ Goto(c, "request", "finally")
  /\ \E read \in SUBSET {c} : sent' = sent \cup read
  /\ result' = [result EXCEPT ![c] = IF c \in expired THEN "timeout" ELSE "transport"]
  /\ UNCHANGED <<pipes, timer, expired, outcome, executed, streams>>

(* or report a failure though the server can read all of the request. *)
FailWriteRequest(c) ==
  /\ Goto(c, "request", "finally")
  /\ \E read \in SUBSET {c} : sent' = sent \cup (IF IsOpen(c) THEN read ELSE {})
  /\ outcome' = [outcome EXCEPT ![c] = "unknown"]
  /\ result' = [result EXCEPT ![c] = IF c \in expired THEN "timeout" ELSE "transport"]
  /\ UNCHANGED <<pipes, timer, expired, executed, streams>>

(* The server reads the request, at once or after the call has ended. *)
Execute(c) ==
  /\ c \in sent \ executed
  /\ executed' = executed \cup {c}
  /\ UNCHANGED <<pipes, pc, timer, expired, outcome, result, sent, streams>>

(* A line of reply; a timer that has run is believed before it. *)
ReadReply(c) ==
  /\ IsOpen(c) /\ Goto(c, "reply", "finally")
  /\ result' = [result EXCEPT ![c] = IF c \in expired THEN "timeout" ELSE "result"]
  /\ UNCHANGED <<pipes, timer, expired, outcome, sent, executed, streams>>

(* A line with an error: its word is taken for the outcome. *)
ReadError(c) ==
  /\ IsOpen(c) /\ c \notin expired /\ Goto(c, "reply", "finally")
  /\ result' = [result EXCEPT ![c] = "remote"]
  /\ \E word \in {"not_started", "unknown"} : outcome' = [outcome EXCEPT ![c] = word]
  /\ UNCHANGED <<pipes, timer, expired, sent, executed, streams>>

(* EOF, an invalid line, a rejected hello, or the connection was closed. *)
FailRead(c) ==
  /\ pc[c] \in {"hello", "reply"} /\ pc' = [pc EXCEPT ![c] = "finally"]
  /\ result' = [result EXCEPT ![c] = IF c \in expired THEN "timeout" ELSE "transport"]
  /\ UNCHANGED <<pipes, timer, expired, outcome, sent, executed, streams>>

EndCall(c) ==
  /\ Goto(c, "finally", "ended")
  /\ StopTimer(c) /\ CloseTransport(c)
  /\ UNCHANGED <<connecting, attempt, helper, results, abandoned, expired, calls,
                 streams>>

-----------------------------------------------------------------------------
(* EventClient._finish: the first cause is kept, and its thread closes the  *)
(* connection and sets the completion.                                      *)

Finish(c, by, cause) ==
  IF reason[c] = "none"
  THEN /\ reason' = [reason EXCEPT ![c] = cause]
       /\ finishing' = [finishing EXCEPT ![c] = by]
  ELSE UNCHANGED <<reason, finishing>>

(* A mistake: the completion is set and the connection is not closed. *)
CompleteOnly(c) ==
  /\ finishing[c] \in Finisher
  /\ finishing' = [finishing EXCEPT ![c] = "done"]
  /\ UNCHANGED <<pipes, pc, timer, expired, calls, connection, reason, reader, orphaned>>

EndFinish(c) ==
  /\ finishing[c] \in Finisher
  /\ finishing' = [finishing EXCEPT ![c] = "done"]
  /\ IF c \in connection THEN CloseTransport(c) ELSE UNCHANGED transport
  /\ orphaned' = IF c \notin connection /\ pc[c] = "connecting"
                 THEN orphaned \cup {c} ELSE orphaned
  /\ UNCHANGED <<connecting, attempt, helper, results, abandoned, pc, timer, expired,
                 calls, connection, reason, reader>>

(* close(), by any thread. *)
CloseStream(c) ==
  /\ reason[c] = "none" /\ Finish(c, "closer", "local_close")
  /\ UNCHANGED <<pipes, pc, timer, expired, calls, connection, reader, orphaned>>

-----------------------------------------------------------------------------
(* EventClient.start                                                        *)

StartStream(c) == reason[c] = "none" /\ Connect(c)

(* Closed before it was started: RuntimeError. *)
RejectStart(c) ==
  /\ reason[c] /= "none" /\ Goto(c, "new", "raised")
  /\ UNCHANGED <<pipes, timer, expired, calls, streams>>

FailStreamConnection(c) ==
  /\ attempt[c] = "failed" /\ Goto(c, "connecting", "raising")
  /\ Finish(c, "start", "transport_error")
  /\ UNCHANGED <<pipes, timer, expired, calls, connection, reader, orphaned>>

Connected(c) ==
  /\ attempt[c] = "connected" /\ Goto(c, "connecting", "hello")
  /\ connection' = connection \cup {c} /\ Arm(c)
  /\ UNCHANGED <<pipes, expired, calls, reason, finishing, reader, orphaned>>

(* A mistake: the timer only notes that it has run. *)
ExpireQuietly(c) ==
  /\ timer[c] = "armed" /\ timer' = [timer EXCEPT ![c] = "done"]
  /\ expired' = expired \cup {c}
  /\ UNCHANGED <<pipes, pc, calls, streams>>

(* expire() *)
HandshakeExpires(c) ==
  /\ timer[c] = "armed" /\ timer' = [timer EXCEPT ![c] = "firing"]
  /\ expired' = expired \cup {c}
  /\ UNCHANGED <<pipes, pc, calls, streams>>

FinishExpired(c) ==
  /\ timer[c] = "firing" /\ reason[c] = "none"
  /\ Finish(c, "timer", "timeout")
  /\ UNCHANGED <<pipes, pc, timer, expired, calls, connection, reader, orphaned>>

EndExpired(c) ==
  /\ timer[c] = "firing" /\ reason[c] /= "none" /\ finishing[c] /= "timer"
  /\ timer' = [timer EXCEPT ![c] = "done"]
  /\ UNCHANGED <<pipes, pc, expired, calls, streams>>

(* Hello and its answer, then the subscription. *)
StreamHello(c) ==
  /\ IsOpen(c) /\ Goto(c, "hello", "subscribe")
  /\ UNCHANGED <<pipes, timer, expired, calls, streams>>

SubscribeStream(c) ==
  /\ IsOpen(c) /\ Goto(c, "subscribe", "joining")
  /\ UNCHANGED <<pipes, timer, expired, calls, streams>>

(* The peer says something else, or nothing more, or the write fails. *)
FailHandshake(c) ==
  /\ pc[c] \in {"hello", "subscribe"} /\ pc' = [pc EXCEPT ![c] = "except"]
  /\ UNCHANGED <<pipes, timer, expired, calls, streams>>

StartReader(c) ==
  /\ c \notin expired /\ StopTimer(c) /\ timer'[c] /= "done"
  /\ Goto(c, "joining", "started")
  /\ reader' = [reader EXCEPT ![c] = "reading"]
  /\ UNCHANGED <<pipes, expired, calls, connection, reason, finishing, orphaned>>

(* TimeoutError, or the thread does not start. *)
FailReader(c) ==
  /\ StopTimer(c) /\ Goto(c, "joining", "finally")
  /\ UNCHANGED <<pipes, expired, calls, streams>>

Except(c) ==
  /\ Goto(c, "except", "finally")
  /\ IF c \in expired
     THEN UNCHANGED <<reason, finishing>>
     ELSE \E cause \in {"protocol_error", "transport_error"} : Finish(c, "start", cause)
  /\ UNCHANGED <<pipes, timer, expired, calls, connection, reader, orphaned>>

(* A mistake: only the except clause finishes the stream. *)
FinallyUnfinished(c) ==
  /\ finishing[c] /= "start"
  /\ Goto(c, "finally", "raising")
  /\ StopTimer(c)
  /\ UNCHANGED <<pipes, expired, calls, streams>>

Finally(c) ==
  /\ finishing[c] /= "start"
  /\ Goto(c, "finally", "raising")
  /\ StopTimer(c) /\ Finish(c, "start", "protocol_error")
  /\ UNCHANGED <<pipes, expired, calls, connection, reader, orphaned>>

Raise(c) ==
  /\ finishing[c] /= "start"
  /\ Goto(c, "raising", "raised")
  /\ UNCHANGED <<pipes, timer, expired, calls, streams>>

-----------------------------------------------------------------------------
(* EventClient._read                                                        *)

ReadEvent(c) ==
  /\ IsOpen(c) /\ reader[c] = "reading"
  /\ reader' = [reader EXCEPT ![c] = "callback"]
  /\ UNCHANGED <<pipes, pc, timer, expired, calls, connection, reason, finishing,
                 orphaned>>

EndCallback(c) ==
  /\ reader[c] = "callback" /\ reader' = [reader EXCEPT ![c] = "reading"]
  /\ UNCHANGED <<pipes, pc, timer, expired, calls, connection, reason, finishing,
                 orphaned>>

(* The stream ends or is invalid, or the callback raises. *)
EndReading(c, from, causes) ==
  /\ reader[c] = from /\ reader' = [reader EXCEPT ![c] = "finishing"]
  /\ \E cause \in causes : Finish(c, "reader", cause)
  /\ UNCHANGED <<pipes, pc, timer, expired, calls, connection, orphaned>>

EndReader(c) ==
  /\ reader[c] = "finishing" /\ finishing[c] /= "reader"
  /\ reader' = [reader EXCEPT ![c] = "done"]
  /\ UNCHANGED <<pipes, pc, timer, expired, calls, connection, reason, finishing,
                 orphaned>>

-----------------------------------------------------------------------------

(* What the thread of a client does by itself. *)
CallStep(c) ==
  \/ FailCallConnection(c) \/ BeginCall(c) \/ FailTimer(c) \/ CloseExpiredCall(c)
  \/ WriteRequest(c) \/ FailWriteRequest(c) \/ EndCall(c)

StreamStep(c) ==
  \/ FailStreamConnection(c) \/ Connected(c) \/ FailTimer(c)
  \/ FinishExpired(c) \/ EndExpired(c) \/ EndFinish(c)
  \/ SubscribeStream(c) \/ StartReader(c) \/ FailReader(c)
  \/ Except(c) \/ Finally(c) \/ Raise(c) \/ EndReader(c)

(* What a closed connection ends. *)
Unblock(c) ==
  /\ ~IsOpen(c)
  /\ \/ c \in Caller /\ FailRead(c)
     \/ c \in Stream /\ (FailHandshake(c) \/ EndReading(c, "reading", {"peer_eof"}))

Peer(c) ==
  \/ c \in Caller /\ \/ CallHello(c) \/ Execute(c) \/ ReadReply(c) \/ ReadError(c)
                     \/ FailRead(c)
  \/ c \in Stream /\ \/ StreamHello(c) \/ FailHandshake(c) \/ ReadEvent(c)
                     \/ EndReading(c, "reading",
                          {"peer_eof", "protocol_error", "transport_error"})

Next ==
  \/ \E c \in Client : Connecting(c) \/ Peer(c) \/ Unblock(c)
  \/ \E c \in Caller : Connect(c) \/ CallStep(c) \/ CallExpires(c) \/ ReclaimUntimed(c)
  \/ \E c \in Stream :
       \/ StartStream(c) \/ RejectStart(c) \/ CloseStream(c)
       \/ StreamStep(c) \/ HandshakeExpires(c)
       \/ EndCallback(c) \/ EndReading(c, "callback", {"callback_error"})

(* Threads are scheduled and timers fire: no client waits for its peer.      *)
(* connection.Client itself, in the helper, may never return.               *)
Fairness ==
  /\ \A c \in Client :
       WF_vars((TakeResult(c) \/ GiveUp(c) \/ Abandon(c))
               /\ UNCHANGED <<pc, timer, expired, calls, streams>>)
  /\ \A c \in Client : WF_vars(Unblock(c))
  /\ \A c \in Caller : WF_vars(CallStep(c)) /\ WF_vars(CallExpires(c))
  /\ \A c \in Stream : WF_vars(StreamStep(c)) /\ WF_vars(HandshakeExpires(c))

Spec == Init /\ [][Next]_vars /\ Fairness

-----------------------------------------------------------------------------
(* Properties.                                                              *)

(* A connection that a client was given is closed once its call has ended or *)
(* its start() has raised, by whatever failed and whoever finished it.  A    *)
(* stream that was closed before it had a connection is an exception, and    *)
(* so is a client whose timer did not start ("untimed").  What is left to the *)
(* garbage collector are connections their client had given up on.          *)
NothingLeftOpen ==
  \A c \in Client :
    /\ attempt[c] = "failed" /\ IsOpen(c) => c \in abandoned
    /\ c \in Caller \ abandoned /\ pc[c] = "ended" => ~IsOpen(c)
    /\ /\ c \in Stream \ (orphaned \cup abandoned) /\ pc[c] = "raised"
       /\ finishing[c] \notin Finisher
       => ~IsOpen(c)

(* When a call fails by the transport or by its timeout and says not_started,*)
(* the request was not and will not be carried out, whoever closed the       *)
(* connection.  An error that the server sent is the server's word, and     *)
(* rpc.Server says not_started also of a request whose result it could not  *)
(* write (the except ValueError of _serve_control).                         *)
OutcomeIsHonest ==
  \A c \in Caller :
    /\ pc[c] = "ended" /\ result[c] \in {"transport", "timeout"}
    /\ outcome[c] = "not_started"
    => c \notin sent \cup executed

(* wait_closed returns True only when the stream's connection is closed, if  *)
(* it had one when it was closed.                                           *)
CompletionIsTruthful ==
  \A c \in connection \ orphaned : finishing[c] = "done" => ~IsOpen(c)

(* The same for every stream: "wait_closed(timeout) returns whether the      *)
(* transport has closed" (doc/shared-features.md).                          *)
WaitClosedIsTruthful ==
  \A c \in connection : finishing[c] = "done" => ~IsOpen(c)

(* start() and call() end, whatever the peer does or leaves undone.          *)
ClientsReturn ==
  /\ \A c \in Caller : pc[c] = "connecting" ~> pc[c] \in {"ended", "untimed"}
  /\ \A c \in Stream :
       pc[c] = "connecting" ~>
         (pc[c] \in {"started", "raised", "untimed"} \/ c \in orphaned)

=============================================================================
