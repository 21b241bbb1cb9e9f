---------------------------- MODULE PipeConnect -----------------------------
(***************************************************************************)
(* Connecting to a Windows pipe with a timeout (connect_windows_pipe of     *)
(* reccy/protocol/ipc.py): a helper thread connects, the caller waits for   *)
(* its result and abandons it after PIPE_CONNECT_TIMEOUT.  The clients are  *)
(* those of one endpoint, each of which connects once.                      *)
(***************************************************************************)
CONSTANT Client

VARIABLES
  connecting,  \* the endpoint is in CONNECTING_PIPES
  attempt,     \* position of the client in connect_windows_pipe
  helper,      \* position of its helper thread
  results,     \* clients whose results queue holds a result
  abandoned,   \* clients that gave up on their helper
  transport    \* the connection made for the client

pipes == <<connecting, attempt, helper, results, abandoned, transport>>

PipeTypeOK ==
  /\ connecting \in BOOLEAN
  /\ attempt \in [Client -> {"idle", "waiting", "late", "connected", "failed"}]
  /\ helper \in [Client -> {"none", "connecting", "known", "discarded", "done"}]
  /\ results \subseteq Client /\ abandoned \subseteq Client \ results
  /\ transport \in [Client -> {"none", "open", "closed"}]

PipeInit ==
  /\ connecting = FALSE
  /\ attempt = [c \in Client |-> "idle"] /\ helper = [c \in Client |-> "none"]
  /\ results = {} /\ abandoned = {}
  /\ transport = [c \in Client |-> "none"]

CloseTransport(c) ==
  transport' = [transport EXCEPT ![c] = IF @ = "open" THEN "closed" ELSE @]

BeginConnect(c) ==
  /\ ~connecting /\ connecting' = TRUE
  /\ attempt[c] = "idle" /\ attempt' = [attempt EXCEPT ![c] = "waiting"]
  /\ helper' = [helper EXCEPT ![c] = "connecting"]
  /\ UNCHANGED <<results, abandoned, transport>>

(* TimeoutError at once: another thread is connecting to the endpoint. *)
RefuseConnect(c) ==
  /\ connecting
  /\ attempt[c] = "idle" /\ attempt' = [attempt EXCEPT ![c] = "failed"]
  /\ UNCHANGED <<connecting, helper, results, abandoned, transport>>

(* connection.Client returns a connection or raises. *)
HelperConnects(c) ==
  /\ helper[c] = "connecting" /\ helper' = [helper EXCEPT ![c] = "known"]
  /\ \E outcome \in {"open", "none"} : transport' = [transport EXCEPT ![c] = outcome]
  /\ UNCHANGED <<connecting, attempt, results, abandoned>>

HelperDiscards(c) ==
  /\ helper[c] = "known" /\ helper' = [helper EXCEPT ![c] = "discarded"]
  /\ connecting' = FALSE
  /\ UNCHANGED <<attempt, results, abandoned, transport>>

(* A mistake: the result is queued though nobody waits for it. *)
DeliverAlways(c) ==
  /\ helper[c] = "discarded" /\ helper' = [helper EXCEPT ![c] = "done"]
  /\ results' = results \cup {c}
  /\ UNCHANGED <<connecting, attempt, abandoned, transport>>

(* A result that nobody waits for is dropped as it is: only a Connection is  *)
(* closed, and what connection.Client returns for a pipe is none.           *)
HelperDelivers(c) ==
  /\ helper[c] = "discarded" /\ helper' = [helper EXCEPT ![c] = "done"]
  /\ results' = results \cup ({c} \ abandoned)
  /\ UNCHANGED <<connecting, attempt, abandoned, transport>>

TakeResult(c) ==
  /\ attempt[c] = "waiting" /\ c \in results
  /\ results' = results \ {c}
  /\ attempt' = [attempt EXCEPT ![c] =
                   IF transport[c] = "open" THEN "connected" ELSE "failed"]
  /\ UNCHANGED <<connecting, helper, abandoned, transport>>

(* queue.Empty: a result may still come before the lock is taken. *)
GiveUp(c) ==
  /\ attempt[c] = "waiting" /\ c \notin results
  /\ attempt' = [attempt EXCEPT ![c] = "late"]
  /\ UNCHANGED <<connecting, helper, results, abandoned, transport>>

(* A result that came in between is dropped in the same way. *)
Abandon(c) ==
  /\ attempt[c] = "late" /\ attempt' = [attempt EXCEPT ![c] = "failed"]
  /\ abandoned' = abandoned \cup {c}
  /\ results' = results \ {c}
  /\ UNCHANGED <<connecting, helper, transport>>

(* A connection that was dropped is closed when it is collected as garbage,  *)
(* if it is.                                                                *)
Reclaim(c) ==
  /\ attempt[c] = "failed" /\ helper[c] = "done"
  /\ transport[c] = "open" /\ CloseTransport(c)
  /\ UNCHANGED <<connecting, attempt, helper, results, abandoned>>

Helper(c) == HelperConnects(c) \/ HelperDiscards(c) \/ HelperDelivers(c)

PipeStep(c) == Helper(c) \/ TakeResult(c) \/ GiveUp(c) \/ Abandon(c) \/ Reclaim(c)

=============================================================================
