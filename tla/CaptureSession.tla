--------------------------- MODULE CaptureSession ---------------------------
(***************************************************************************)
(* One bounded capture (CaptureSession of reccy/runtime/capture.py): a     *)
(* provider's callback copies fragments into a preallocated ring; drain,   *)
(* finish, abort and salvage, from any thread, move them into the asset    *)
(* store and publish the record of the capture.                            *)
(*                                                                         *)
(* What happens under _lock is one step.  _drain_lock is held while pc is  *)
(* not "idle", so one pc serves every thread; the others wait as "idle".   *)
(* A byte of the stream is the native frame its fragment starts at and its *)
(* index in the fragment.                                                  *)
(***************************************************************************)
EXTENDS Integers, Sequences, FiniteSets, ByteCount

CONSTANTS
  Lengths,            \* byte lengths the provider offers
  FrameCounts,        \* native frames it offers at a time
  MaximumQueueBytes,  \* CaptureSpec.maximum_queue_bytes, the size of the ring
  MaximumBytes,       \* CaptureSpec.maximum_bytes
  FrameLimit,         \* CaptureSpec.frame_limit, when the bound is "frames"
  MaxFrames,          \* bound: how many frames the provider offers
  NoRecord

ASSUME LengthsAssumption == Lengths \subseteq Nat \ {0}
ASSUME FrameCountsAssumption == FrameCounts \subseteq Nat \ {0}
ASSUME CapacityAssumption ==
  /\ MaximumQueueBytes \in Nat \ {0}
  /\ MaximumBytes \in Nat
  /\ MaximumQueueBytes <= MaximumBytes
ASSUME LimitAssumption == FrameLimit \in Nat \ {0} /\ MaxFrames \in Nat

VARIABLES
  bound,         \* which of the three limits the CaptureSpec has
  overflow,      \* CaptureOverflowPolicy
  buffer,        \* _buffer
  write_offset,
  queued,        \* _queued: fragments in the ring
  queued_bytes,
  pending,       \* _pending: fragments copied out of the ring
  pending_bytes,
  fragments,     \* _fragments: fragments in the asset store
  stored_bytes,
  gaps,
  observed_frames,
  bound_reached,
  elapsed,       \* the duration limit has passed
  accepting,
  closed,
  pc,            \* where the holder of _drain_lock is
  operation,     \* what it was called for
  capture,       \* captures/<id>.json
  recovery       \* staging/capture-<id>.json

spec == <<bound, overflow>>
ring == <<buffer, write_offset, queued, queued_bytes>>
work == <<pending, pending_bytes, fragments, stored_bytes>>
extent == <<gaps, observed_frames, bound_reached>>
records == <<capture, recovery>>
vars == <<spec, ring, work, extent, elapsed, accepting, closed, pc, operation, records>>

-----------------------------------------------------------------------------
Operation == {"drain", "eof", "bound", "abort", "salvage"}   \* "eof": clean_stop too
Offset == 0 .. MaximumQueueBytes - 1
Byte == [start : Nat, index : Nat]

Fragment == [offset : Offset, length : Lengths, start : Nat, frames : FrameCounts]
Gap == [start : Nat, frames : FrameCounts]
Record == [termination : Operation, observed : Nat, stored : Nat,
           fragments : Seq(Fragment), gaps : Seq(Gap)]

TypeOK ==
  /\ bound \in {"frames", "duration", "manual"}
  /\ overflow \in {"fail", "gap"}
  /\ buffer \in [Offset -> Byte]
  /\ write_offset \in Offset
  /\ queued \in Seq(Fragment)
  /\ queued_bytes \in 0 .. MaximumQueueBytes
  /\ pending \in Seq([payload : Seq(Byte), item : Fragment])
  /\ pending_bytes \in 0 .. MaximumBytes
  /\ fragments \in Seq(Fragment)
  /\ stored_bytes \in 0 .. MaximumBytes
  /\ gaps \in Seq(Gap)
  /\ observed_frames \in 0 .. MaxFrames
  /\ bound_reached \in BOOLEAN
  /\ elapsed \in BOOLEAN
  /\ accepting \in BOOLEAN
  /\ closed \in BOOLEAN
  /\ pc \in {"idle", "stop", "take", "import", "count", "record", "publish"}
  /\ operation \in Operation
  /\ capture \in Record \cup {NoRecord}
  /\ recovery \in Record \cup {NoRecord}

Init ==
  /\ bound \in {"frames", "duration", "manual"}
  /\ overflow \in {"fail", "gap"}
  /\ buffer = [i \in Offset |-> [start |-> 0, index |-> 0]]
  /\ write_offset = 0
  /\ queued = <<>> /\ queued_bytes = 0
  /\ pending = <<>> /\ pending_bytes = 0
  /\ fragments = <<>> /\ stored_bytes = 0
  /\ gaps = <<>> /\ observed_frames = 0
  /\ bound_reached = FALSE /\ elapsed = FALSE
  /\ accepting = TRUE /\ closed = FALSE
  /\ pc = "idle" /\ operation = "drain"
  /\ capture = NoRecord /\ recovery = NoRecord

-----------------------------------------------------------------------------
(* queue_fragment.  What it raises for changes nothing. *)

RefuseLate ==
  /\ accepting
  /\ elapsed
  /\ bound_reached' = TRUE
  /\ UNCHANGED <<ring, gaps, observed_frames>>

(* A mistake: only what is stored counts against the budget. *)
AdmissibleUncounted(length, frames) ==
  /\ accepting
  /\ ~ elapsed
  /\ bound = "frames" => observed_frames + frames <= FrameLimit
  /\ stored_bytes + length <= MaximumBytes
  /\ observed_frames + frames <= MaxFrames

Admissible(length, frames) ==
  /\ accepting
  /\ ~ elapsed
  /\ bound = "frames" => observed_frames + frames <= FrameLimit
  /\ stored_bytes + pending_bytes + queued_bytes + length <= MaximumBytes
  /\ observed_frames + frames <= MaxFrames

(* A mistake: one fragment more than the ring has room for. *)
QueueHasRoom(length) == queued_bytes < MaximumQueueBytes /\ length <= MaximumQueueBytes

QueueFits(length) == length <= MaximumQueueBytes - queued_bytes

Observe(frames) ==
  /\ observed_frames' = observed_frames + frames
  /\ bound_reached' =
       (bound_reached \/ (bound = "frames" /\ observed_frames' = FrameLimit))

RecordGap(length, frames) ==
  /\ Admissible(length, frames)
  /\ ~ QueueFits(length)
  /\ overflow = "gap"
  /\ Observe(frames)
  /\ gaps' = Append(gaps, [start |-> observed_frames, frames |-> frames])
  /\ UNCHANGED ring

(* A mistake: what does not fit before the end of the ring is dropped. *)
CopyFirst(length, start) ==
  [i \in Offset |-> IF i \in write_offset .. write_offset + length - 1
                      THEN [start |-> start, index |-> i - write_offset + 1]
                      ELSE buffer[i]]

(* The two slice assignments: indexes wrap around at the end of the ring. *)
Copy(length, start) ==
  LET index(i) == ((i - write_offset + MaximumQueueBytes) % MaximumQueueBytes) + 1
  IN  [i \in Offset |-> IF index(i) <= length
                          THEN [start |-> start, index |-> index(i)]
                          ELSE buffer[i]]

Enqueue(length, frames) ==
  /\ Admissible(length, frames)
  /\ QueueFits(length)
  /\ Observe(frames)
  /\ buffer' = Copy(length, observed_frames)
  /\ write_offset' = (write_offset + length) % MaximumQueueBytes
  /\ queued_bytes' = queued_bytes + length
  /\ queued' = Append(queued, [offset |-> write_offset, length |-> length,
                               start |-> observed_frames, frames |-> frames])
  /\ UNCHANGED gaps

QueueFragment ==
  /\ \/ RefuseLate
     \/ \E length \in Lengths, frames \in FrameCounts :
          RecordGap(length, frames) \/ Enqueue(length, frames)
  /\ UNCHANGED <<spec, work, elapsed, accepting, closed, pc, operation, records>>

(* The clock passes duration_limit. *)
Elapse ==
  /\ bound = "duration" /\ ~ elapsed
  /\ elapsed' = TRUE
  /\ UNCHANGED <<spec, ring, work, extent, accepting, closed, pc, operation, records>>

-----------------------------------------------------------------------------
(* drain, finish, abort, salvage: the thread that holds _drain_lock. *)

Goto(label) == pc' = label /\ UNCHANGED operation

Drain ==
  /\ pc = "idle"
  /\ pc' = "take" /\ operation' = "drain"
  /\ UNCHANGED <<ring, work, accepting, closed, records>>

(* A mistake: the bound is taken on trust. *)
CloseUnbounded(asked) ==
  /\ pc = "idle"
  /\ ~ closed
  /\ pc' = "stop" /\ operation' = asked
  /\ UNCHANGED <<ring, work, accepting, closed, records>>

(* finish, abort and salvage check what they were asked for. *)
Close(asked) ==
  /\ pc = "idle"
  /\ ~ closed
  /\ asked = "bound" => bound_reached \/ elapsed
  /\ pc' = "stop" /\ operation' = asked
  /\ UNCHANGED <<ring, work, accepting, closed, records>>

(* A mistake: the provider is still listened to while the queue drains. *)
KeepAccepting ==
  /\ pc = "stop"
  /\ Goto("take")
  /\ UNCHANGED <<ring, work, accepting, closed, records>>

StopAccepting ==
  /\ pc = "stop"
  /\ accepting' = FALSE
  /\ Goto("take")
  /\ UNCHANGED <<ring, work, closed, records>>

Payload(item) ==
  [k \in 1 .. item.length |-> buffer[(item.offset + k - 1) % MaximumQueueBytes]]

TakeQueue ==
  /\ pc = "take"
  /\ pending' = pending \o
       [i \in DOMAIN queued |-> [payload |-> Payload(queued[i]), item |-> queued[i]]]
  /\ pending_bytes' = pending_bytes + queued_bytes
  /\ queued' = <<>> /\ queued_bytes' = 0
  /\ Goto("import")
  /\ UNCHANGED <<buffer, write_offset, fragments, stored_bytes, accepting, closed, records>>

ImportFragment ==
  /\ pc = "import" /\ pending # <<>>
  /\ fragments' = Append(fragments, Head(pending).item)
  /\ Goto("count")
  /\ UNCHANGED <<ring, pending, pending_bytes, stored_bytes, accepting, closed, records>>

(* A mistake: a failed import is tried again at once. *)
RetryImport ==
  /\ pc = "import" /\ pending # <<>>
  /\ Goto("take")
  /\ UNCHANGED <<ring, work, accepting, closed, records>>

(* import_bytes raises: the fragment stays pending for the next call. *)
FailImport ==
  /\ pc = "import" /\ pending # <<>>
  /\ Goto("idle")
  /\ UNCHANGED <<ring, work, accepting, closed, records>>

CountFragment ==
  /\ pc = "count"
  /\ stored_bytes' = stored_bytes + Head(pending).item.length
  /\ pending_bytes' = pending_bytes - Head(pending).item.length
  /\ pending' = Tail(pending)
  /\ Goto("import")
  /\ UNCHANGED <<ring, fragments, accepting, closed, records>>

EndDrain ==
  /\ pc = "import" /\ pending = <<>>
  /\ Goto(CASE operation = "drain" -> "idle"
            [] operation \in {"eof", "bound"} -> "publish"
            [] operation \in {"abort", "salvage"} -> "record")
  /\ UNCHANGED <<ring, work, accepting, closed, records>>

(* A mistake: what the queue could not take is not told. *)
EvidenceWithoutGaps ==
  [termination |-> operation, observed |-> observed_frames, stored |-> stored_bytes,
   fragments |-> fragments, gaps |-> <<>>]

(* _manifest and _recovery: what the session knows by then. *)
Evidence ==
  [termination |-> operation, observed |-> observed_frames, stored |-> stored_bytes,
   fragments |-> fragments, gaps |-> gaps]

RecordRecovery ==
  /\ pc = "record"
  /\ recovery' = Evidence
  /\ closed' = (operation = "abort")
  /\ Goto(IF operation = "abort" THEN "idle" ELSE "publish")
  /\ UNCHANGED <<ring, work, accepting, capture>>

Publish ==
  /\ pc = "publish"
  /\ capture = NoRecord
  /\ capture' = Evidence
  /\ closed' = TRUE
  /\ Goto("idle")
  /\ UNCHANGED <<ring, work, accepting, recovery>>

(* The claim times out or the write fails: the session can be closed again. *)
FailRecord ==
  /\ pc \in {"record", "publish"}
  /\ Goto("idle")
  /\ UNCHANGED <<ring, work, accepting, closed, records>>

Work ==
  /\ \/ StopAccepting \/ TakeQueue \/ ImportFragment \/ FailImport \/ CountFragment
     \/ EndDrain \/ RecordRecovery \/ Publish \/ FailRecord
  /\ UNCHANGED <<spec, extent, elapsed>>

Call ==
  /\ Drain \/ \E asked \in Operation \ {"drain"} : Close(asked)
  /\ UNCHANGED <<spec, extent, elapsed>>

Next == QueueFragment \/ Elapse \/ Call \/ Work

(* A thread inside drain runs on: its claims have timeouts and its I/O ends. *)
Spec == Init /\ [][Next]_vars /\ WF_vars(Work)

-----------------------------------------------------------------------------
(* Properties *)

(* No byte of a fragment is overwritten in the ring before it is taken, and *)
(* a fragment that wraps around is put together again: what drain imports   *)
(* is what the provider handed over.                                        *)
PayloadIntact ==
  \A i \in DOMAIN pending : LET item == pending[i].item IN
    pending[i].payload = [k \in 1 .. item.length |-> [start |-> item.start, index |-> k]]

Bytes(S) == Total([i \in DOMAIN S |-> S[i].length])

(* The three counters, updated by three threads of control, keep what the   *)
(* capture puts into the store within CaptureSpec.maximum_bytes.            *)
WithinBudget ==
  Bytes(fragments) + Bytes(queued) <= MaximumBytes

Covers(S, frame) == {i \in DOMAIN S : frame \in S[i].start .. S[i].start + S[i].frames - 1}

(* A published record accounts for every frame the provider showed, once:   *)
(* as part of a stored fragment or as part of a gap, whatever fails or      *)
(* overflows between.                                                       *)
PublishedTiles ==
  \A record \in {capture, recovery} \ {NoRecord} :
    /\ record.stored = Bytes(record.fragments)
    /\ \A frame \in 0 .. record.observed - 1 :
         Cardinality(Covers(record.fragments, frame))
           + Cardinality(Covers(record.gaps, frame)) = 1

(* A provider's call that is under way while the session closes is either   *)
(* in the record or was refused: nothing is accepted behind it.             *)
NothingAfterRecord ==
  capture # NoRecord =>
    /\ capture.observed = observed_frames
    /\ queued = <<>> /\ pending = <<>>

(* A capture that says it ended at its bound reached that bound. *)
BoundIsReached ==
  capture # NoRecord /\ capture.termination = "bound" =>
    CASE bound = "frames" -> capture.observed = FrameLimit
      [] bound = "duration" -> elapsed
      [] bound = "manual" -> FALSE

(* drain, finish, abort and salvage return, also while the provider keeps   *)
(* queueing: they take the queue once.                                      *)
Returns == pc # "idle" ~> pc = "idle"
=============================================================================
