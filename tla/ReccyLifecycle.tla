--------------------------- MODULE ReccyLifecycle ---------------------------
(***************************************************************************)
(* Reccy of reccy/reccy.py with its RPC server: start, the handler of       *)
(* requests, publication and close, all called by one owner, for one server.*)
(*                                                                         *)
(* Hooks of the application (on_started, on_stopping) and the write of the *)
(* status file may raise; on_closed returns.                               *)
(***************************************************************************)
EXTENDS RpcServer

VARIABLES
  owner,     \* position of the owner in start() or close()
  started,   \* self._started
  stopping,  \* self._stopping
  server,    \* whether self._rpc_server is set
  resources  \* what on_started acquires and on_closed releases

lifecycle == <<owner, started, stopping, server, resources>>
vars == <<lifecycle, serverVars>>

TypeOK ==
  /\ ServerTypeOK
  /\ owner \in {"stopped", "hook", "listen", "control", "events", "serving",
                "undoing", "aborting", "announcing", "closing", "late", "failed",
                "closed"}
  /\ started \in BOOLEAN /\ stopping \in BOOLEAN /\ server \in BOOLEAN
  /\ resources \in {"none", "held", "released"}

Init ==
  /\ ServerInit
  /\ owner = "stopped"
  /\ started = FALSE /\ stopping = FALSE /\ server = FALSE
  /\ resources = "none"

-----------------------------------------------------------------------------
(* start()                                                                  *)

Start ==
  /\ owner = "stopped" /\ owner' = "hook"
  /\ started' = TRUE /\ stopping' = FALSE
  /\ UNCHANGED <<server, resources, serverVars>>

(* on_started and publish_status. *)
OnStarted ==
  /\ owner = "hook" /\ owner' = "listen"
  /\ resources' = "held" /\ server' = TRUE
  /\ UNCHANGED <<started, stopping, serverVars>>

(* One of them raises: there is no server to close. *)
FailStart ==
  /\ owner = "hook" /\ owner' = "failed"
  /\ started' = FALSE /\ resources' = "released"
  /\ UNCHANGED <<stopping, server, serverVars>>

StartBackends ==
  /\ owner = "listen" /\ owner' = "control"
  /\ Listen
  /\ UNCHANGED <<started, stopping, server, resources>>

StartControl ==
  /\ owner = "control" /\ owner' = "events"
  /\ StartLoop("control")
  /\ UNCHANGED <<started, stopping, server, resources>>

StartEvents ==
  /\ owner = "events" /\ owner' = "serving"
  /\ StartLoop("events")
  /\ UNCHANGED <<started, stopping, server, resources>>

(* A listener or a thread does not start: Server.start closes the server. *)
FailServer ==
  /\ owner \in {"listen", "control", "events"} /\ owner' = "undoing"
  /\ CloseServer
  /\ UNCHANGED <<started, stopping, server, resources>>

(* Then Reccy.start does so again, *)
AbortStart ==
  /\ owner = "undoing" /\ closer \in {"closed", "late"}
  /\ owner' = "aborting" /\ started' = FALSE
  /\ CloseServer
  /\ UNCHANGED <<stopping, server, resources>>

(* and calls on_closed whether or not that one timed out. *)
EndAbort ==
  /\ owner = "aborting" /\ closer \in {"closed", "late"}
  /\ owner' = "failed"
  /\ server' = FALSE /\ resources' = "released"
  /\ UNCHANGED <<started, stopping, serverVars>>

-----------------------------------------------------------------------------
(* While it runs, and close()                                               *)

(* publish_status, publish_error and publish_event, by any thread. *)
PublishEvent ==
  /\ server /\ Publish
  /\ UNCHANGED <<lifecycle, loops, sockets, requests, closing>>

(* rpc_response: a request is not carried out unless the application runs. *)
RpcResponse(c) ==
  /\ Handle(c, started /\ ~stopping)
  /\ UNCHANGED lifecycle

Close ==
  /\ owner = "serving" /\ owner' = "announcing"
  /\ stopping' = TRUE
  /\ UNCHANGED <<started, server, resources, serverVars>>

(* on_stopping, the last status and 'stopped'; if one raises, the rest is    *)
(* skipped.  The events themselves are PublishEvent's.                      *)
Announce ==
  /\ owner = "announcing" /\ owner' = "closing"
  /\ started' = FALSE
  /\ CloseServer
  /\ UNCHANGED <<stopping, server, resources>>

(* close() called again after a TimeoutError. *)
CloseAgain ==
  /\ owner = "late" /\ owner' = "closing"
  /\ stopping' = TRUE
  /\ CloseServer
  /\ UNCHANGED <<started, server, resources>>

(* A mistake: on_closed is called after a TimeoutError too. *)
EndCloseAnyway ==
  /\ owner = "closing" /\ closer \in {"closed", "late"}
  /\ owner' = "closed"
  /\ server' = FALSE /\ resources' = "released"
  /\ UNCHANGED <<started, stopping, serverVars>>

EndClose ==
  /\ owner = "closing" /\ closer = "closed"
  /\ owner' = "closed"
  /\ server' = FALSE /\ resources' = "released"
  /\ UNCHANGED <<started, stopping, serverVars>>

(* The server is kept and on_closed is not called. *)
CloseTimesOut ==
  /\ owner = "closing" /\ closer = "late"
  /\ owner' = "late"
  /\ UNCHANGED <<started, stopping, server, resources, serverVars>>

Owner ==
  \/ Start \/ OnStarted \/ FailStart
  \/ StartBackends \/ StartControl \/ StartEvents
  \/ FailServer \/ AbortStart \/ EndAbort
  \/ Close \/ Announce \/ CloseAgain \/ EndClose \/ CloseTimesOut

Next ==
  \/ Owner \/ PublishEvent
  \/ \E c \in Control : RpcResponse(c)
  \/ ServerNext /\ UNCHANGED lifecycle

(* Threads are scheduled, timers fire, and a handler returns once it is      *)
(* cancelled.  Peers promise nothing and close() may time out.  All threads *)
(* share one condition: none of them runs forever.                          *)
Fairness ==
  /\ WF_vars(\/ Progress /\ UNCHANGED lifecycle
             \/ \E c \in Control : RpcResponse(c))
  /\ WF_vars(Closing /\ UNCHANGED lifecycle)

Spec == Init /\ [][Next]_vars /\ Fairness

-----------------------------------------------------------------------------
(* Properties.                                                              *)

(* What on_closed releases is not in use: once close() has returned, no      *)
(* handler runs any more.  (A start() that fails promises less, EndAbort.)   *)
ResourcesOutliveHandlers ==
  /\ owner = "closed" => \A c \in Control : worker[c] /= "handling"
  /\ \A c \in Control : worker[c] = "handling" /\ server => resources = "held"

(* Every accepted request connection ends and gives its slot back, whatever  *)
(* the peer does: by a reply, the handshake timer or the request timer.     *)
RequestsEnd == \A c \in Control : worker[c] = "reading" ~> worker[c] = "done"

(* After close() has stopped the transports, every thread ends, even those   *)
(* it did not wait for.                                                     *)
ThreadsEnd == closer = "joining" ~> LoopsEnded /\ Threads = {}

=============================================================================
