------------------------ MODULE CaptureSessionProofs ------------------------
(***************************************************************************)
(* Proofs about CaptureSession: the ring gives back every byte it was given, *)
(* what a record says of the end of its capture is true, and nothing is      *)
(* accepted behind it.                                                      *)
(***************************************************************************)
EXTENDS CaptureSession, ByteCountProofs, SequenceTheorems, TLAPS

(* How far the capture has come, and why its bound can be claimed: exactly   *)
(* at the frame limit, after the duration, and never by hand.               *)
BoundInv ==
  /\ bound \in {"frames", "duration", "manual"}
  /\ observed_frames \in Nat
  /\ bound_reached \in BOOLEAN /\ elapsed \in BOOLEAN
  /\ elapsed => bound = "duration"
  /\ bound_reached =>
       \/ bound = "frames" /\ observed_frames = FrameLimit
       \/ bound = "duration" /\ elapsed
  /\ pc # "idle" /\ operation = "bound" => bound_reached \/ elapsed

(* A thread that is closing the capture has stopped the provider before it   *)
(* takes the queue, so that the queue stays empty from then on.             *)
CloseInv ==
  /\ operation \in Operation
  /\ pc \in {"take", "import", "count", "record", "publish"} /\ operation # "drain" =>
       ~ accepting
  /\ pc \in {"record", "publish"} => operation # "drain" /\ pending = <<>>
  /\ pc \in {"import", "count", "record", "publish"} /\ ~ accepting => queued = <<>>
  /\ pc = "count" => pending # <<>>

RecordInv ==
  capture # NoRecord =>
    /\ ~ accepting /\ queued = <<>> /\ pending = <<>>
    /\ capture.observed = observed_frames
    /\ capture.termination = "bound" => bound_reached \/ elapsed

Inv == BoundInv /\ CloseInv /\ RecordInv

-----------------------------------------------------------------------------
LEMMA InitInv == Init => Inv
<1> SUFFICES ASSUME Init PROVE Inv
  OBVIOUS
<1>1. BoundInv
  BY DEF Init, BoundInv
<1>2. CloseInv /\ RecordInv
  BY DEF Init, CloseInv, RecordInv, Operation
<1>3. QED BY <1>1, <1>2 DEF Inv

(* A provider that is still listened to moves the bound, never a record. *)
LEMMA QueueInv ==
  ASSUME Inv, QueueFragment
  PROVE  Inv'
<1> USE DEF Inv, BoundInv, CloseInv, RecordInv, QueueFragment, spec, work, records, ring
<1>1. accepting
  BY DEF RefuseLate, RecordGap, Enqueue, Admissible
<1>2. capture = NoRecord
  BY <1>1
<1>3. CASE RefuseLate
  BY <1>1, <1>2, <1>3 DEF RefuseLate
<1>4. ASSUME NEW length \in Lengths, NEW frames \in FrameCounts,
             Admissible(length, frames), Observe(frames), UNCHANGED elapsed
      PROVE  BoundInv'
  <2>1. frames \in Nat \ {0} /\ FrameLimit \in Nat
    BY FrameCountsAssumption, LimitAssumption
  <2>2. /\ observed_frames' = observed_frames + frames
        /\ bound_reached' =
             (bound_reached \/ (bound = "frames" /\ observed_frames' = FrameLimit))
        /\ bound = "frames" => observed_frames + frames <= FrameLimit
        /\ ~ elapsed
    BY <1>4 DEF Admissible, Observe
  <2>3. QED BY <1>4, <2>1, <2>2
<1>5. ASSUME NEW length \in Lengths, NEW frames \in FrameCounts,
             RecordGap(length, frames) \/ Enqueue(length, frames)
      PROVE  Inv'
  BY <1>1, <1>2, <1>4, <1>5 DEF RecordGap, Enqueue
<1>6. QED BY <1>3, <1>5

LEMMA TakeNothing ==
  ASSUME queued = <<>>, pending = <<>>, TakeQueue
  PROVE  pending' = <<>>
BY DEF TakeQueue

LEMMA WorkInv ==
  ASSUME Inv, Work
  PROVE  Inv'
<1> USE DEF Inv, BoundInv, CloseInv, RecordInv, Goto, spec, extent, ring, work, records
<1>0. UNCHANGED <<spec, extent, elapsed>>
  BY DEF Work
<1>1. CASE StopAccepting
  BY <1>0, <1>1 DEF StopAccepting
<1>2. CASE TakeQueue
  BY <1>0, <1>2, TakeNothing DEF TakeQueue
<1>3. CASE ImportFragment
  BY <1>0, <1>3 DEF ImportFragment
<1>4. CASE FailImport
  BY <1>0, <1>4 DEF FailImport
<1>5. CASE CountFragment
  BY <1>0, <1>5 DEF CountFragment
<1>6. CASE EndDrain
  BY <1>0, <1>6 DEF EndDrain, Operation
<1>7. CASE RecordRecovery
  BY <1>0, <1>7 DEF RecordRecovery
<1>8. CASE Publish
  BY <1>0, <1>8 DEF Publish, Evidence
<1>9. CASE FailRecord
  BY <1>0, <1>9 DEF FailRecord
<1>10. QED
  BY <1>1, <1>2, <1>3, <1>4, <1>5, <1>6, <1>7, <1>8, <1>9 DEF Work

LEMMA NextInv == Inv /\ [Next]_vars => Inv'
<1> SUFFICES ASSUME Inv, [Next]_vars PROVE Inv'
  OBVIOUS
<1>1. CASE Elapse
  BY <1>1
  DEF Elapse, Inv, BoundInv, CloseInv, RecordInv, spec, ring, work, extent, records
<1>2. CASE Call
  <2>1. CASE Drain
    BY <1>2, <2>1
    DEF Call, Drain, Operation, Inv, BoundInv, CloseInv, RecordInv, spec, ring, work, extent, records
  <2>2. ASSUME NEW asked \in Operation \ {"drain"}, Close(asked) PROVE Inv'
    BY <1>2, <2>2
    DEF Call, Close, Inv, BoundInv, CloseInv, RecordInv, spec, ring, work, extent, records
  <2>3. QED BY <1>2, <2>1, <2>2 DEF Call
<1>3. CASE UNCHANGED vars
  BY <1>3
  DEF vars, Inv, BoundInv, CloseInv, RecordInv, spec, ring, work, extent, records
<1>4. QED BY <1>1, <1>2, <1>3, QueueInv, WorkInv DEF Next

LEMMA InvCorrect == Spec => []Inv
BY InitInv, NextInv, PTL DEF Spec

-----------------------------------------------------------------------------
(* For any ring, budget and fragments: when the record of a capture is       *)
(* published, no call of the provider can add to it and nothing that was     *)
(* accepted is still on its way.                                            *)
THEOREM RecordsAreFinal == Spec => []NothingAfterRecord
<1>1. Inv => NothingAfterRecord
  BY DEF Inv, RecordInv, NothingAfterRecord
<1>2. QED BY <1>1, InvCorrect, PTL

(* A record says "bound" only when that bound was reached, to the frame.     *)
THEOREM BoundsAreReached == Spec => []BoundIsReached
<1>1. Inv => BoundIsReached
  BY DEF Inv, BoundInv, RecordInv, BoundIsReached
<1>2. QED BY <1>1, InvCorrect, PTL

-----------------------------------------------------------------------------
(* The ring.  head counts the bytes ever copied into it: what is queued lies *)
(* among the last queued_bytes of them, each at its position modulo the size *)
(* of the ring, and a copy of what the ring has room for leaves them alone.  *)

LEMMA DivMod ==
  ASSUME NEW a \in Int, NEW M \in Nat \ {0}
  PROVE  /\ a = M * (a \div M) + (a % M)
         /\ a % M \in 0 .. M - 1
         /\ a \div M \in Int
OBVIOUS

LEMMA ModUnique ==
  ASSUME NEW M \in Nat \ {0}, NEW q \in Int, NEW r \in 0 .. M - 1, NEW a \in Int,
         a = M * q + r
  PROVE  a % M = r
OBVIOUS

(* A step of b from a place in the ring. *)
LEMMA ModAdd ==
  ASSUME NEW a \in Int, NEW b \in Int, NEW M \in Nat \ {0}
  PROVE  ((a % M) + b) % M = (a + b) % M
<1> DEFINE q == (a \div M) + (((a % M) + b) \div M)
           r == ((a % M) + b) % M
           sum == a + b
<1>1. q \in Int /\ r \in 0 .. M - 1
  BY DivMod
<1>2. sum = M * q + r
  <2>1. a = M * (a \div M) + (a % M) /\ a \div M \in Int /\ a % M \in Int
    BY DivMod
  <2>2. (a % M) + b = M * (((a % M) + b) \div M) + r
    BY <2>1, DivMod
  <2>3. ((a % M) + b) \div M \in Int
    BY <2>1, DivMod
  <2>4. M * q = M * (a \div M) + M * (((a % M) + b) \div M)
    BY <2>1, <2>3
  <2>5. QED BY <2>1, <2>2, <2>3, <2>4, <1>1
<1>3. sum \in Int
  OBVIOUS
<1> HIDE DEF sum, q, r
<1>4. sum % M = r
  BY <1>1, <1>2, <1>3, ModUnique
<1>5. QED BY <1>4 DEF sum, r

(* The distance between two places, as Copy computes it. *)
LEMMA Distance ==
  ASSUME NEW M \in Nat \ {0}, NEW a \in Int, NEW b \in Int,
         NEW r \in 0 .. M - 1, NEW t \in Int, a - b = r + M * t
  PROVE  ((a % M) - (b % M) + M) % M = r
<1> DEFINE x == (a % M) - (b % M) + M
           q == t - (a \div M) + (b \div M) + 1
<1>1. /\ a = M * (a \div M) + (a % M) /\ b = M * (b \div M) + (b % M)
      /\ a \div M \in Int /\ b \div M \in Int /\ a % M \in Int /\ b % M \in Int
  BY DivMod
<1>2. x \in Int /\ q \in Int
  BY <1>1
<1>3. M * q = M * t - M * (a \div M) + M * (b \div M) + M
  BY <1>1
<1>4. x = M * q + r
  <2>1. x = a - M * (a \div M) - b + M * (b \div M) + M
    BY <1>1
  <2>2. a - b = r + M * t
    OBVIOUS
  <2>3. /\ M * (a \div M) \in Int /\ M * (b \div M) \in Int /\ M * t \in Int
        /\ M \in Int /\ r \in Int
    BY <1>1
  <2> HIDE DEF x, q
  <2>4. x = r + M * t - M * (a \div M) + M * (b \div M) + M
    BY <2>1, <2>2, <2>3
  <2>5. QED BY <1>3, <2>3, <2>4
<1> HIDE DEF x, q
<1>5. x % M = r
  BY <1>2, <1>4, ModUnique
<1>6. QED BY <1>5 DEF x

Whole(item) == [k \in 1 .. item.length |-> [start |-> item.start, index |-> k]]

(* The fragments that lie unharmed among the last `bytes` before `head`. *)
Held(head, bytes, ringed) ==
  {item \in Fragment : \E p \in Int :
     /\ head - bytes <= p /\ p + item.length <= head
     /\ item.offset = p % MaximumQueueBytes
     /\ \A k \in 1 .. item.length :
          ringed[(p + k - 1) % MaximumQueueBytes] = Whole(item)[k]}

Taken == {[payload |-> Whole(item), item |-> item] : item \in Fragment}

RingInv ==
  /\ queued_bytes \in 0 .. MaximumQueueBytes
  /\ observed_frames \in Nat
  /\ pending \in Seq(Taken)
  /\ \E head \in Int :
       /\ write_offset = head % MaximumQueueBytes
       /\ queued \in Seq(Held(head, queued_bytes, buffer))

LEMMA InitRing == Init => RingInv
<1> SUFFICES ASSUME Init PROVE RingInv
  OBVIOUS
<1>1. MaximumQueueBytes \in Nat \ {0}
  BY CapacityAssumption
<1>2. 0 = 0 % MaximumQueueBytes
  BY <1>1
<1>3. /\ queued_bytes = 0 /\ observed_frames = 0 /\ write_offset = 0
      /\ pending = <<>> /\ queued = <<>>
  BY DEF Init
<1>4. <<>> \in Seq(Taken) /\ <<>> \in Seq(Held(0, 0, buffer))
  BY EmptySeq
<1>5. QED BY <1>1, <1>2, <1>3, <1>4 DEF RingInv

(* What is still queued is not overwritten. *)
LEMMA CopyKeeps ==
  ASSUME NEW head \in Int, NEW bytes \in 0 .. MaximumQueueBytes,
         NEW length \in Lengths, length <= MaximumQueueBytes - bytes,
         write_offset = head % MaximumQueueBytes,
         NEW j \in Int, head - bytes <= j, j < head, NEW start
  PROVE  Copy(length, start)[j % MaximumQueueBytes] = buffer[j % MaximumQueueBytes]
<1> DEFINE M == MaximumQueueBytes
           r == M - (head - j)
<1>1. M \in Nat \ {0} /\ length \in Nat \ {0}
  BY CapacityAssumption, LengthsAssumption
<1>2. r \in 0 .. M - 1 /\ -1 \in Int /\ j - head = r + M * (-1)
  BY <1>1
<1>3. ((j % M) - (head % M) + M) % M = r
  <2> HIDE DEF r, M
  <2>1. QED BY <1>1, <1>2, Distance
<1>4. r + 1 > length
  BY <1>1
<1>5. j % M \in Offset
  BY <1>1, DivMod DEF Offset
<1>6. ((j % M) - write_offset + M) % M = r
  BY <1>3
<1> HIDE DEF r
<1>7. ~ (r + 1 <= length)
  BY <1>1, <1>2, <1>4
<1>8. QED BY <1>5, <1>6, <1>7 DEF Copy

(* The new fragment lies whole behind head. *)
LEMMA CopyPlaces ==
  ASSUME NEW head \in Int, NEW bytes \in 0 .. MaximumQueueBytes,
         NEW length \in Lengths, length <= MaximumQueueBytes - bytes,
         write_offset = head % MaximumQueueBytes,
         NEW k \in 1 .. length, NEW start
  PROVE  Copy(length, start)[(head + k - 1) % MaximumQueueBytes] =
           [start |-> start, index |-> k]
<1> DEFINE M == MaximumQueueBytes
           j == head + k - 1
           r == k - 1
<1>1. M \in Nat \ {0} /\ length \in Nat \ {0}
  BY CapacityAssumption, LengthsAssumption
<1>2. r \in 0 .. M - 1 /\ j \in Int /\ 0 \in Int /\ j - head = r + M * 0
  BY <1>1
<1>3. ((j % M) - (head % M) + M) % M = r
  <2> HIDE DEF r, M, j
  <2>1. QED BY <1>1, <1>2, Distance
<1>4. j % M \in Offset
  BY <1>1, <1>2, DivMod DEF Offset
<1>5. ((j % M) - write_offset + M) % M = r
  BY <1>3
<1>6. r + 1 = k
  BY <1>1
<1> HIDE DEF r, j
<1>7. Copy(length, start)[j % M] = [start |-> start, index |-> k]
  BY <1>4, <1>5, <1>6 DEF Copy
<1>8. QED BY <1>7 DEF j

(* Membership of Held, with its place. *)
LEMMA HeldThere ==
  ASSUME NEW head, NEW bytes, NEW ringed, NEW item \in Fragment,
         \E p \in Int :
           /\ head - bytes <= p /\ p + item.length <= head
           /\ item.offset = p % MaximumQueueBytes
           /\ \A k \in 1 .. item.length :
                ringed[(p + k - 1) % MaximumQueueBytes] = Whole(item)[k]
  PROVE  item \in Held(head, bytes, ringed)
BY DEF Held

LEMMA EnqueueRing ==
  ASSUME RingInv, NEW length \in Lengths, NEW frames \in FrameCounts,
         Enqueue(length, frames), UNCHANGED pending
  PROVE  RingInv'
<1> DEFINE M == MaximumQueueBytes
           item == [offset |-> write_offset, length |-> length,
                    start |-> observed_frames, frames |-> frames]
<1>0. /\ buffer' = Copy(length, observed_frames)
      /\ write_offset' = (write_offset + length) % M
      /\ queued' = Append(queued, item)
  BY DEF Enqueue
<1>1. /\ M \in Nat \ {0} /\ length \in Nat \ {0} /\ frames \in Nat \ {0}
      /\ queued_bytes \in 0 .. M /\ observed_frames \in Nat
  BY CapacityAssumption, LengthsAssumption, FrameCountsAssumption DEF RingInv
<1>2. PICK head \in Int : /\ write_offset = head % M
                          /\ queued \in Seq(Held(head, queued_bytes, buffer))
  BY DEF RingInv
<1>3. /\ length <= M - queued_bytes
      /\ queued_bytes' = queued_bytes + length
      /\ observed_frames' = observed_frames + frames
  BY DEF Enqueue, Observe, QueueFits
<1>4. queued_bytes' \in 0 .. M /\ observed_frames' \in Nat
  BY <1>1, <1>3
<1>5. pending' \in Seq(Taken)
  BY DEF RingInv
<1>6. head + length \in Int /\ write_offset' = (head + length) % M
  <2>1. length \in Int /\ head + length \in Int
    BY <1>1
  <2>2. ((head % M) + length) % M = (head + length) % M
    BY <1>1, <2>1, ModAdd
  <2>3. QED BY <1>0, <1>2, <2>1, <2>2
<1> DEFINE Now == Held(head, queued_bytes, buffer)
           total == queued_bytes + length
           copied == Copy(length, observed_frames)
           Then == Held(head + length, total, copied)
<1>7. Now \subseteq Then
  <2> SUFFICES ASSUME NEW old \in Now PROVE old \in Then
    OBVIOUS
  <2>1. old \in Fragment /\ old.length \in Nat
    BY LengthsAssumption DEF Held, Fragment
  <2>2. PICK p \in Int :
          /\ head - queued_bytes <= p /\ p + old.length <= head
          /\ old.offset = p % M
          /\ \A k \in 1 .. old.length : buffer[(p + k - 1) % M] = Whole(old)[k]
    BY DEF Held
  <2>3. (head + length) - total <= p /\ p + old.length <= head + length
    <3>1. head - queued_bytes <= p /\ p + old.length <= head
      BY <2>2
    <3> DEFINE size == old.length
    <3>2. size \in Nat
      BY <2>1
    <3> HIDE DEF size
    <3>3. length \in Nat /\ queued_bytes \in Nat
      BY <1>1
    <3>4. (head + length) - total <= p
      BY <1>3, <3>1, <3>3
    <3>5. p + size <= head + length
      BY <3>1, <3>2, <3>3 DEF size
    <3>6. QED BY <3>4, <3>5 DEF size
  <2>4. ASSUME NEW k \in 1 .. old.length
        PROVE  copied[(p + k - 1) % M] = Whole(old)[k]
    <3>1. p + k - 1 \in Int /\ head - queued_bytes <= p + k - 1 /\ p + k - 1 < head
      BY <1>1, <2>1, <2>2
    <3>2. copied[(p + k - 1) % M] = buffer[(p + k - 1) % M]
      BY <1>1, <1>2, <1>3, <3>1, CopyKeeps
    <3>3. QED BY <2>2, <3>2
  <2> HIDE DEF Now, total, copied
  <2>5. \E q \in Int :
          /\ (head + length) - total <= q /\ q + old.length <= head + length
          /\ old.offset = q % M
          /\ \A k \in 1 .. old.length : copied[(q + k - 1) % M] = Whole(old)[k]
    BY <2>2, <2>3, <2>4
  <2>6. QED BY <2>1, <2>5, HeldThere
<1>8. item \in Then
  <2>1. item \in Fragment
    BY <1>1, <1>2, DivMod DEF Fragment, Offset
  <2>2. (head + length) - total <= head /\ head + item.length <= head + length
    BY <1>1, <1>3
  <2>3. ASSUME NEW k \in 1 .. item.length
        PROVE  copied[(head + k - 1) % M] = Whole(item)[k]
    <3>1. Whole(item)[k] = [start |-> observed_frames, index |-> k]
      BY DEF Whole
    <3>2. k \in 1 .. length
      OBVIOUS
    <3> HIDE DEF item
    <3>3. Copy(length, observed_frames)[(head + k - 1) % M] =
            [start |-> observed_frames, index |-> k]
      <4>1. /\ queued_bytes \in 0 .. MaximumQueueBytes
            /\ length <= MaximumQueueBytes - queued_bytes
            /\ write_offset = head % MaximumQueueBytes
        BY <1>1, <1>2, <1>3
      <4>2. QED BY <3>2, <4>1, CopyPlaces
    <3>4. QED BY <3>1, <3>3
  <2>4. item.offset = head % M
    BY <1>2
  <2> HIDE DEF item, total, copied
  <2>5. \E q \in Int :
          /\ (head + length) - total <= q /\ q + item.length <= head + length
          /\ item.offset = q % M
          /\ \A k \in 1 .. item.length : copied[(q + k - 1) % M] = Whole(item)[k]
    BY <2>2, <2>3, <2>4
  <2>6. QED BY <2>1, <2>5, HeldThere
<1>9. queued' \in Seq(Then)
  <2> HIDE DEF item, Now, Then
  <2>1. queued \in Seq(Then)
    BY <1>2, <1>7, SeqMonotonic DEF Now
  <2>2. QED BY <1>0, <1>8, <2>1, AppendProperties
<1>10. Then = Held(head + length, queued_bytes', buffer')
  BY <1>0, <1>3
<1>11. QED
  <2> HIDE DEF Then
  <2>1. QED BY <1>4, <1>5, <1>6, <1>9, <1>10 DEF RingInv

(* What TakeQueue copies out of the ring, whole. *)
Moved == [i \in DOMAIN queued |-> [payload |-> Payload(queued[i]), item |-> queued[i]]]

LEMMA MovedWhole ==
  ASSUME RingInv
  PROVE  Moved \in Seq(Taken) /\ Len(Moved) = Len(queued)
<1> DEFINE M == MaximumQueueBytes
           entry(i) == [payload |-> Payload(queued[i]), item |-> queued[i]]
           moved == [i \in 1 .. Len(queued) |-> entry(i)]
<1>1. M \in Nat \ {0}
  BY CapacityAssumption
<1>2. PICK head \in Int : queued \in Seq(Held(head, queued_bytes, buffer))
  BY DEF RingInv
<1>3. Len(queued) \in Nat /\ DOMAIN queued = 1 .. Len(queued)
  BY <1>2, LenProperties
<1>4. ASSUME NEW i \in 1 .. Len(queued) PROVE entry(i) \in Taken
  <2>1. queued[i] \in Held(head, queued_bytes, buffer)
    BY <1>2, ElementOfSeq
  <2> DEFINE item == queued[i]
  <2>2. item \in Fragment /\ item.length \in Nat
    BY <2>1, LengthsAssumption DEF Held, Fragment
  <2>3. PICK p \in Int :
          /\ item.offset = p % M
          /\ \A k \in 1 .. item.length : buffer[(p + k - 1) % M] = Whole(item)[k]
    BY <2>1 DEF Held
  <2> HIDE DEF item
  <2>4. ASSUME NEW k \in 1 .. item.length
        PROVE  buffer[(item.offset + k - 1) % M] = Whole(item)[k]
    <3>1. k - 1 \in Int /\ item.offset \in Int
      BY <1>1, <2>2, <2>3, DivMod
    <3>2. ((p % M) + (k - 1)) % M = (p + (k - 1)) % M
      BY <1>1, <3>1, ModAdd
    <3>3. item.offset + k - 1 = (p % M) + (k - 1) /\ p + k - 1 = p + (k - 1)
      BY <2>3, <3>1
    <3>4. (item.offset + k - 1) % M = (p + k - 1) % M
      BY <3>2, <3>3
    <3>5. QED BY <2>3, <3>4
  <2>5. Payload(item) = Whole(item)
    BY <2>4 DEF Payload, Whole
  <2>6. QED BY <2>2, <2>5 DEF Taken, item
<1>5. moved \in Seq(Taken)
  <2> HIDE DEF entry
  <2>1. QED BY <1>3, <1>4, IsASeq
<1>6. Moved = moved /\ Len(moved) = Len(queued)
  BY <1>3 DEF Moved
<1>7. QED BY <1>5, <1>6

LEMMA TakeRing ==
  ASSUME RingInv, TakeQueue, UNCHANGED observed_frames
  PROVE  RingInv'
<1>1. PICK head \in Int : /\ write_offset = head % MaximumQueueBytes
                          /\ queued \in Seq(Held(head, queued_bytes, buffer))
  BY DEF RingInv
<1>2. /\ pending' = pending \o Moved /\ pending \in Seq(Taken)
      /\ queued' = <<>> /\ queued_bytes' = 0
      /\ write_offset' = write_offset /\ buffer' = buffer
  BY DEF TakeQueue, RingInv, Moved
<1>3. pending' \in Seq(Taken)
  BY <1>2, MovedWhole, ConcatProperties
<1>4. queued' \in Seq(Held(head, queued_bytes', buffer'))
  BY <1>2, EmptySeq
<1>5. observed_frames' \in Nat /\ queued_bytes' \in 0 .. MaximumQueueBytes
  BY <1>2, CapacityAssumption DEF RingInv
<1>6. QED BY <1>1, <1>2, <1>3, <1>4, <1>5 DEF RingInv

LEMMA NextRing == Inv /\ RingInv /\ [Next]_vars => RingInv'
<1> SUFFICES ASSUME Inv, RingInv, [Next]_vars PROVE RingInv'
  OBVIOUS
<1>1. ASSUME UNCHANGED <<ring, observed_frames>>, pending' \in Seq(Taken)
      PROVE  RingInv'
  BY <1>1 DEF RingInv, ring
<1>2. pending \in Seq(Taken) /\ observed_frames \in Nat
  BY DEF RingInv
<1>3. CASE QueueFragment
  <2>1. UNCHANGED pending
    BY <1>3 DEF QueueFragment, work
  <2>2. CASE RefuseLate
    BY <1>1, <1>2, <2>1, <2>2 DEF RefuseLate
  <2>3. ASSUME NEW length \in Lengths, NEW frames \in FrameCounts,
               RecordGap(length, frames)
        PROVE  RingInv'
    <3>1. observed_frames' \in Nat
      BY <1>2, <2>3, FrameCountsAssumption DEF RecordGap, Observe
    <3>2. QED BY <2>1, <2>3, <3>1 DEF RingInv, RecordGap, ring
  <2>4. QED BY <1>3, <2>1, <2>2, <2>3, EnqueueRing DEF QueueFragment
<1>4. CASE Work
  <2>1. UNCHANGED observed_frames
    BY <1>4 DEF Work, extent
  <2>2. CASE TakeQueue
    BY <2>1, <2>2, TakeRing
  <2>3. CASE CountFragment
    <3>1. pending # <<>> => Tail(pending) \in Seq(Taken)
      BY <1>2, HeadTailProperties
    <3>2. pending # <<>>
      BY <2>3 DEF CountFragment, Inv, CloseInv
    <3>3. QED BY <1>1, <2>1, <2>3, <3>1, <3>2 DEF CountFragment
  <2>4. QED
    BY <1>1, <1>2, <1>4, <2>1, <2>2, <2>3
    DEF Work, StopAccepting, ImportFragment, FailImport, EndDrain, RecordRecovery, Publish,
        FailRecord, work, ring
<1>5. CASE Elapse \/ Call \/ UNCHANGED vars
  BY <1>1, <1>2, <1>5 DEF Elapse, Call, Drain, Close, vars, extent, work, ring
<1>6. QED BY <1>3, <1>4, <1>5 DEF Next

(* For any size of the ring and any fragments, wrapped around its end or not *)
(* and however the provider's calls fall between those of drain: what goes   *)
(* into the asset store is what the provider handed over.                   *)
THEOREM PayloadsAreWhole == Spec => []PayloadIntact
<1>1. RingInv => PayloadIntact
  <2> SUFFICES ASSUME RingInv, NEW i \in DOMAIN pending
               PROVE  pending[i].payload = Whole(pending[i].item)
    BY DEF PayloadIntact, Whole
  <2>1. pending \in Seq(Taken)
    BY DEF RingInv
  <2>2. pending[i] \in Taken
    BY <2>1, LenProperties, ElementOfSeq
  <2>3. QED BY <2>2 DEF Taken
<1>2. QED BY <1>1, InitRing, NextRing, InvCorrect, PTL DEF Spec

-----------------------------------------------------------------------------
(* What a fragment counts for is a function w of it: its length, or whether  *)
(* it shows a frame.  Each fragment the provider handed over is in the ring, *)
(* pending or stored, and counts once; between ImportFragment and            *)
(* CountFragment the head of pending is in two places.                       *)

Of(w) == [x \in Taken |-> w[x.item]]

Again(w) == IF pc = "count" THEN w[Head(pending).item] ELSE 0

Accepted(w) ==
  Along(fragments, w) + Along(pending, Of(w)) + Along(queued, w) - Again(w)

Size == [x \in Fragment |-> x.length]

Shows(X, frame) ==
  [x \in X |-> IF frame \in x.start .. x.start + x.frames - 1 THEN 1 ELSE 0]

LEMMA TakenItem ==
  ASSUME NEW x \in Taken
  PROVE  x.item \in Fragment /\ x.payload = Whole(x.item)
<1>1. PICK item \in Fragment : x = [payload |-> Whole(item), item |-> item]
  BY DEF Taken
<1>2. x.item = item /\ x.payload = Whole(item)
  BY <1>1
<1>3. QED BY <1>2

LEMMA Weights ==
  /\ Size \in [Fragment -> Nat]
  /\ \A X, frame : Shows(X, frame) \in [X -> Nat]
  /\ \A w \in [Fragment -> Nat] : Of(w) \in [Taken -> Nat]
<1>1. Size \in [Fragment -> Nat]
  BY LengthsAssumption DEF Size, Fragment
<1>2. ASSUME NEW X, NEW frame PROVE Shows(X, frame) \in [X -> Nat]
  BY DEF Shows
<1>3. ASSUME NEW w \in [Fragment -> Nat] PROVE Of(w) \in [Taken -> Nat]
  BY TakenItem DEF Of
<1>4. QED BY <1>1, <1>2, <1>3

(* Bytes, which the records and the budget speak of, along a sequence. *)
LEMMA BytesAlong ==
  ASSUME NEW S \in Seq(Fragment)
  PROVE  Bytes(S) = Along(S, Size)
<1>1. DOMAIN S = 1 .. Len(S) /\ \A i \in DOMAIN S : S[i] \in Fragment
  BY LenProperties, ElementOfSeq
<1>2. [i \in DOMAIN S |-> S[i].length] = [i \in 1 .. Len(S) |-> Size[S[i]]]
  BY <1>1 DEF Size
<1>3. QED BY <1>2 DEF Bytes, Along

(* The fragments or gaps that cover a frame, counted along a sequence. *)
LEMMA CoversAlong ==
  ASSUME NEW X, NEW S \in Seq(X), NEW frame
  PROVE  Cardinality(Covers(S, frame)) = Along(S, Shows(X, frame))
<1> DEFINE n == Len(S)
           C == Covers(S, frame)
           w == Shows(X, frame)
           f == [i \in 1 .. n |-> w[S[i]]]
           g == [i \in C |-> <<i, 1>>]
<1>1. n \in Nat /\ DOMAIN S = 1 .. n /\ \A i \in 1 .. n : S[i] \in X
  BY LenProperties, ElementOfSeq
<1>2. C \subseteq 1 .. n
  BY <1>1 DEF Covers
<1>3. \A i \in 1 .. n : f[i] = IF i \in C THEN 1 ELSE 0
  BY <1>1 DEF Covers, Shows
<1>4. DOMAIN f = 1 .. n
  OBVIOUS
<1> HIDE DEF C, f, n
<1>5. ASSUME NEW b PROVE b \in ByteSet(f) <=> \E i \in C : b = <<i, 1>>
  <2>1. b \in ByteSet(f) <=> \E i \in 1 .. n : \E k \in 1 .. f[i] : b = <<i, k>>
    <3>1. b \in ByteSet(f) <=> \E i \in DOMAIN f : \E k \in 1 .. f[i] : b = <<i, k>>
      BY ByteOf
    <3>2. QED BY ONLY <1>4, <3>1
  <2>2. \A i \in 1 .. n : \A k : k \in 1 .. f[i] <=> i \in C /\ k = 1
    BY <1>3
  <2>3. QED BY <1>2, <2>1, <2>2
<1>6. g \in Bijection(C, ByteSet(f))
  <2>1. g \in [C -> ByteSet(f)]
    BY <1>5
  <2>2. \A i, k \in C : g[i] = g[k] => i = k
    OBVIOUS
  <2>3. \A b \in ByteSet(f) : \E i \in C : g[i] = b
    BY <1>5
  <2> HIDE DEF g
  <2>4. QED BY <2>1, <2>2, <2>3 DEF Bijection, Injection, Surjection, IsInjective
<1>7. IsFiniteSet(C)
  <2>1. IsFiniteSet(1 .. n)
    BY <1>1, FS_Interval
  <2>2. QED BY <1>2, <2>1, FS_Subset
<1>8. Cardinality(ByteSet(f)) = Cardinality(C)
  <2>1. ExistsBijection(C, ByteSet(f))
    BY <1>6 DEF ExistsBijection
  <2>2. QED BY <1>7, <2>1, FS_Bijection
<1>9. QED BY <1>8 DEF Along, Total, C, f, n

(* What is in the ring is now pending. *)
LEMMA TakeAlong ==
  ASSUME RingInv, TakeQueue, NEW w \in [Fragment -> Nat]
  PROVE  Along(pending', Of(w)) = Along(pending, Of(w)) + Along(queued, w)
<1>1. pending' = pending \o Moved
  BY DEF TakeQueue, Moved
<1>2. Moved \in Seq(Taken) /\ Len(Moved) = Len(queued) /\ pending \in Seq(Taken)
  BY MovedWhole DEF RingInv
<1>3. Along(Moved, Of(w)) = Along(queued, w)
  <2>1. ASSUME NEW i \in 1 .. Len(queued) PROVE Of(w)[Moved[i]] = w[queued[i]]
    <3>1. Moved[i] \in Taken
      BY <1>2, ElementOfSeq
    <3>2. i \in DOMAIN queued
      BY LenProperties DEF RingInv
    <3>3. Moved[i].item = queued[i]
      BY <3>2 DEF Moved
    <3>4. QED BY <3>1, <3>3 DEF Of
  <2>2. [i \in 1 .. Len(Moved) |-> Of(w)[Moved[i]]] = [i \in 1 .. Len(queued) |-> w[queued[i]]]
    BY <1>2, <2>1
  <2>3. QED BY <2>2 DEF Along
<1>4. Of(w) \in [Taken -> Nat]
  BY Weights
<1>5. Along(pending \o Moved, Of(w)) = Along(pending, Of(w)) + Along(Moved, Of(w))
  BY ONLY <1>2, <1>4, AlongConcat
<1>6. QED BY <1>1, <1>3, <1>5

(* The head of pending, and the others. *)
LEMMA HeadAlong ==
  ASSUME RingInv, pending # <<>>, NEW w \in [Fragment -> Nat]
  PROVE  /\ Head(pending).item \in Fragment
         /\ Along(pending, Of(w)) = w[Head(pending).item] + Along(Tail(pending), Of(w))
<1>1. pending \in Seq(Taken) /\ Of(w) \in [Taken -> Nat]
  BY Weights DEF RingInv
<1>2. Head(pending) \in Taken
  BY <1>1, HeadTailProperties
<1>3. Along(pending, Of(w)) = Of(w)[Head(pending)] + Along(Tail(pending), Of(w))
  BY ONLY <1>1, pending # <<>>, AlongTail
<1>4. Head(pending).item \in Fragment
  BY <1>2, TakenItem
<1>5. QED BY <1>2, <1>3, <1>4 DEF Of

-----------------------------------------------------------------------------
(* The other types.  The counters have theirs from the budget below. *)

BaseInv ==
  /\ overflow \in {"fail", "gap"}
  /\ buffer \in [Offset -> Byte]
  /\ fragments \in Seq(Fragment)
  /\ gaps \in Seq(Gap)
  /\ observed_frames <= MaxFrames
  /\ accepting \in BOOLEAN /\ closed \in BOOLEAN
  /\ pc \in {"idle", "stop", "take", "import", "count", "record", "publish"}

LEMMA RingTypes ==
  ASSUME RingInv
  PROVE  /\ write_offset \in Offset
         /\ queued \in Seq(Fragment) /\ queued_bytes \in Nat
         /\ pending \in Seq(Taken)
         /\ observed_frames \in Nat
<1>1. PICK head \in Int : /\ write_offset = head % MaximumQueueBytes
                          /\ queued \in Seq(Held(head, queued_bytes, buffer))
  BY DEF RingInv
<1>2. write_offset \in Offset
  BY <1>1, CapacityAssumption, DivMod DEF Offset
<1>3. Held(head, queued_bytes, buffer) \subseteq Fragment
  BY DEF Held
<1>4. queued \in Seq(Fragment)
  BY <1>1, <1>3, SeqMonotonic
<1>5. queued_bytes \in Nat
  BY CapacityAssumption DEF RingInv
<1>6. QED BY <1>2, <1>4, <1>5 DEF RingInv

(* The fragment an Enqueue puts into the ring. *)
Fresh(length, frames) ==
  [offset |-> write_offset, length |-> length, start |-> observed_frames, frames |-> frames]

LEMMA FreshType ==
  ASSUME RingInv, NEW length \in Lengths, NEW frames \in FrameCounts
  PROVE  Fresh(length, frames) \in Fragment
BY RingTypes DEF Fresh, Fragment

LEMMA InitBase == Init => BaseInv
<1> SUFFICES ASSUME Init PROVE BaseInv
  OBVIOUS
<1>1. buffer \in [Offset -> Byte]
  BY DEF Init, Byte
<1>2. <<>> \in Seq(Fragment) /\ <<>> \in Seq(Gap)
  BY EmptySeq
<1>3. observed_frames <= MaxFrames
  BY LimitAssumption DEF Init
<1>4. QED BY <1>1, <1>2, <1>3 DEF Init, BaseInv

LEMMA NextBase ==
  ASSUME Inv, RingInv, BaseInv, [Next]_vars
  PROVE  BaseInv'
<1>1. CASE QueueFragment
  <2>1. UNCHANGED <<overflow, fragments, accepting, closed, pc>>
    BY <1>1 DEF QueueFragment, spec, work
  <2>2. ASSUME NEW length \in Lengths, NEW frames \in FrameCounts,
               Admissible(length, frames), Observe(frames)
        PROVE  observed_frames' <= MaxFrames
    BY <2>2 DEF Admissible, Observe
  <2>3. CASE RefuseLate
    BY <2>1, <2>3 DEF RefuseLate, BaseInv, ring
  <2>4. ASSUME NEW length \in Lengths, NEW frames \in FrameCounts, RecordGap(length, frames)
        PROVE  BaseInv'
    <3>1. [start |-> observed_frames, frames |-> frames] \in Gap
      BY RingTypes DEF Gap
    <3>2. gaps' \in Seq(Gap)
      BY <2>4, <3>1, AppendProperties DEF RecordGap, BaseInv
    <3>3. QED BY <2>1, <2>2, <2>4, <3>2 DEF RecordGap, BaseInv, ring
  <2>5. ASSUME NEW length \in Lengths, NEW frames \in FrameCounts, Enqueue(length, frames)
        PROVE  BaseInv'
    <3>1. ASSUME NEW i \in Offset
          PROVE  ((i - write_offset + MaximumQueueBytes) % MaximumQueueBytes) + 1 \in Nat
      <4>1. i - write_offset + MaximumQueueBytes \in Int /\ MaximumQueueBytes \in Nat \ {0}
        BY RingTypes, CapacityAssumption DEF Offset
      <4>2. QED BY <4>1, DivMod
    <3>2. Copy(length, observed_frames) \in [Offset -> Byte]
      <4> DEFINE index(i) == ((i - write_offset + MaximumQueueBytes) % MaximumQueueBytes) + 1
      <4>1. ASSUME NEW i \in Offset
            PROVE  [start |-> observed_frames, index |-> index(i)] \in Byte
        BY <3>1, RingTypes DEF Byte
      <4>2. \A i \in Offset : buffer[i] \in Byte
        BY DEF BaseInv
      <4>3. Copy(length, observed_frames) =
              [i \in Offset |-> IF index(i) <= length
                                  THEN [start |-> observed_frames, index |-> index(i)]
                                  ELSE buffer[i]]
        BY DEF Copy
      <4> HIDE DEF index
      <4>4. QED BY <4>1, <4>2, <4>3
    <3>3. QED BY <2>1, <2>2, <2>5, <3>2 DEF Enqueue, BaseInv
  <2>6. QED BY <1>1, <2>3, <2>4, <2>5 DEF QueueFragment
<1>2. CASE Work
  <2>1. UNCHANGED <<overflow, gaps, observed_frames, buffer>>
    BY <1>2 DEF Work, spec, extent, StopAccepting, TakeQueue, ImportFragment, FailImport,
         CountFragment, EndDrain, RecordRecovery, Publish, FailRecord, ring
  <2>2. CASE ImportFragment
    <3>1. fragments' = Append(fragments, Head(pending).item) /\ pending # <<>>
      BY <2>2 DEF ImportFragment
    <3>2. Head(pending).item \in Fragment
      <4>1. Head(pending) \in Taken
        BY <3>1, RingTypes, HeadTailProperties
      <4>2. QED BY <4>1, TakenItem
    <3>3. fragments' \in Seq(Fragment)
      BY <3>1, <3>2, AppendProperties DEF BaseInv
    <3>4. QED BY <2>1, <2>2, <3>3 DEF ImportFragment, BaseInv, Goto
  <2>3. CASE ~ ImportFragment
    <3>1. UNCHANGED fragments
      BY <1>2, <2>3 DEF Work, StopAccepting, TakeQueue, FailImport, CountFragment, EndDrain,
           RecordRecovery, Publish, FailRecord, work
    <3>2. /\ accepting' \in BOOLEAN /\ closed' \in BOOLEAN
          /\ pc' \in {"idle", "stop", "take", "import", "count", "record", "publish"}
      BY <1>2, <2>3 DEF Work, StopAccepting, TakeQueue, FailImport, CountFragment, EndDrain,
           RecordRecovery, Publish, FailRecord, Goto, BaseInv, Inv, CloseInv, Operation
    <3>3. QED BY <2>1, <3>1, <3>2 DEF BaseInv
  <2>4. QED BY <2>2, <2>3
<1>3. CASE Elapse \/ Call \/ UNCHANGED vars
  BY <1>3 DEF Elapse, Call, Drain, Close, vars, spec, extent, work, ring, BaseInv
<1>4. QED BY <1>1, <1>2, <1>3 DEF Next

-----------------------------------------------------------------------------
(* The budget: each counter is the length of what it counts, also when the   *)
(* provider's call falls between two steps of drain, and admission has them  *)
(* all within the limit.                                                     *)

BudgetInv ==
  /\ queued_bytes = Along(queued, Size)
  /\ pending_bytes = Along(pending, Of(Size))
  /\ stored_bytes + Again(Size) = Along(fragments, Size)
  /\ stored_bytes \in Nat
  /\ stored_bytes + pending_bytes + queued_bytes <= MaximumBytes

LEMMA Counts ==
  ASSUME Inv, RingInv, BaseInv, NEW w \in [Fragment -> Nat]
  PROVE  /\ Along(fragments, w) \in Nat
         /\ Along(pending, Of(w)) \in Nat
         /\ Along(queued, w) \in Nat
         /\ Again(w) \in Nat
         /\ Again(w) <= Along(pending, Of(w))
<1>1. fragments \in Seq(Fragment) /\ queued \in Seq(Fragment) /\ pending \in Seq(Taken)
  BY RingTypes DEF BaseInv
<1>2. w \in [Fragment -> Nat] /\ Of(w) \in [Taken -> Nat]
  BY Weights
<1>3. /\ Along(fragments, w) \in Nat /\ Along(queued, w) \in Nat
      /\ Along(pending, Of(w)) \in Nat
  BY ONLY <1>1, <1>2, AlongType
<1>4. CASE pc = "count"
  <2>1. pending # <<>>
    BY <1>4 DEF Inv, CloseInv
  <2>2. /\ Head(pending).item \in Fragment
        /\ Along(pending, Of(w)) = w[Head(pending).item] + Along(Tail(pending), Of(w))
    BY <2>1, HeadAlong
  <2>3. Tail(pending) \in Seq(Taken)
    BY <1>1, <2>1, HeadTailProperties
  <2>4. Along(Tail(pending), Of(w)) \in Nat
    BY ONLY <1>2, <2>3, AlongType
  <2>5. Again(w) = w[Head(pending).item] /\ w[Head(pending).item] \in Nat
    BY <1>4, <2>2 DEF Again
  <2>6. QED BY <1>3, <2>2, <2>4, <2>5
<1>5. QED BY <1>3, <1>4 DEF Again

LEMMA InitBudget == Init => BudgetInv
<1> SUFFICES ASSUME Init PROVE BudgetInv
  OBVIOUS
<1>1. /\ queued = <<>> /\ pending = <<>> /\ fragments = <<>> /\ pc = "idle"
      /\ queued_bytes = 0 /\ pending_bytes = 0 /\ stored_bytes = 0
  BY DEF Init
<1>2. Along(<<>>, Size) = 0 /\ Along(<<>>, Of(Size)) = 0
  BY AlongEmpty
<1>3. QED BY <1>1, <1>2, CapacityAssumption DEF BudgetInv, Again

LEMMA NextBudget ==
  ASSUME Inv, RingInv, BaseInv, BudgetInv, [Next]_vars
  PROVE  BudgetInv'
<1>0. /\ Size \in [Fragment -> Nat]
      /\ queued_bytes \in Nat /\ pending_bytes \in Nat /\ stored_bytes \in Nat
      /\ Along(fragments, Size) \in Nat /\ MaximumBytes \in Nat
  BY Weights, Counts, CapacityAssumption DEF BudgetInv
<1>1. ASSUME UNCHANGED <<queued, queued_bytes, work>>,
             pc' = pc \/ (pc # "count" /\ pc' # "count")
      PROVE  BudgetInv'
  BY <1>1 DEF BudgetInv, work, Again, Along
<1>2. CASE QueueFragment
  <2>1. UNCHANGED <<work, pc>>
    BY <1>2 DEF QueueFragment
  <2>2. CASE RefuseLate
    BY <1>1, <2>1, <2>2 DEF RefuseLate, ring
  <2>3. ASSUME NEW length \in Lengths, NEW frames \in FrameCounts, RecordGap(length, frames)
        PROVE  BudgetInv'
    BY <1>1, <2>1, <2>3 DEF RecordGap, ring
  <2>4. ASSUME NEW length \in Lengths, NEW frames \in FrameCounts, Enqueue(length, frames)
        PROVE  BudgetInv'
    <3>1. /\ queued' = Append(queued, Fresh(length, frames))
          /\ queued_bytes' = queued_bytes + length
          /\ stored_bytes + pending_bytes + queued_bytes + length <= MaximumBytes
      BY <2>4 DEF Enqueue, Fresh, Admissible
    <3>2. Fresh(length, frames) \in Fragment /\ queued \in Seq(Fragment)
      BY FreshType, RingTypes
    <3>3. Size[Fresh(length, frames)] = length
      BY <3>2 DEF Size, Fresh
    <3>4. Along(Append(queued, Fresh(length, frames)), Size) =
            Along(queued, Size) + Size[Fresh(length, frames)]
      BY ONLY <1>0, <3>2, AlongAppend
    <3>5. queued_bytes' = Along(queued, Size)'
      BY <3>1, <3>3, <3>4 DEF BudgetInv
    <3>6. length \in Nat
      BY LengthsAssumption
    <3>7. UNCHANGED <<pending_bytes, stored_bytes, Again(Size), Along(pending, Of(Size)),
                      Along(fragments, Size)>>
      BY <2>1 DEF work, Again
    <3>8. stored_bytes' + pending_bytes' + queued_bytes' <= MaximumBytes
      BY <1>0, <3>1, <3>6, <3>7
    <3>9. QED BY <3>5, <3>7, <3>8 DEF BudgetInv
  <2>5. QED BY <1>2, <2>2, <2>3, <2>4 DEF QueueFragment
<1>3. CASE Work
  <2>1. CASE TakeQueue
    <3>1. /\ queued' = <<>> /\ queued_bytes' = 0
          /\ pending_bytes' = pending_bytes + queued_bytes
          /\ pc # "count" /\ pc' # "count" /\ UNCHANGED <<fragments, stored_bytes>>
      BY <2>1 DEF TakeQueue, Goto
    <3>2. Along(queued', Size) = 0
      BY <3>1, AlongEmpty
    <3>3. Along(pending', Of(Size)) = Along(pending, Of(Size)) + Along(queued, Size)
      BY <1>0, <2>1, TakeAlong
    <3>4. pending_bytes' = Along(pending', Of(Size))
      BY <3>1, <3>3 DEF BudgetInv
    <3>5. stored_bytes' + pending_bytes' + queued_bytes' <= MaximumBytes
      BY <1>0, <3>1 DEF BudgetInv
    <3>6. stored_bytes' + Again(Size)' = Along(fragments, Size)'
      BY <3>1 DEF BudgetInv, Again
    <3>7. QED BY <1>0, <3>1, <3>2, <3>4, <3>5, <3>6 DEF BudgetInv
  <2>2. CASE ImportFragment
    <3>1. /\ fragments' = Append(fragments, Head(pending).item) /\ pending # <<>>
          /\ pc # "count" /\ pc' = "count"
          /\ UNCHANGED <<queued, queued_bytes, pending, pending_bytes, stored_bytes>>
      BY <2>2 DEF ImportFragment, Goto, ring
    <3>2. Head(pending).item \in Fragment /\ fragments \in Seq(Fragment)
      BY <1>0, <3>1, HeadAlong DEF BaseInv
    <3>3. Along(Append(fragments, Head(pending).item), Size) =
            Along(fragments, Size) + Size[Head(pending).item]
      BY ONLY <1>0, <3>2, AlongAppend
    <3>4. stored_bytes = Along(fragments, Size)
      BY <1>0, <3>1 DEF BudgetInv, Again
    <3>5. Again(Size)' = Size[Head(pending).item]
      BY <3>1 DEF Again
    <3>6. stored_bytes' + Again(Size)' = Along(fragments, Size)'
      BY <3>1, <3>3, <3>4, <3>5
    <3>7. QED BY <3>1, <3>6 DEF BudgetInv
  <2>3. CASE CountFragment
    <3>1. /\ stored_bytes' = stored_bytes + Head(pending).item.length
          /\ pending_bytes' = pending_bytes - Head(pending).item.length
          /\ pending' = Tail(pending)
          /\ pc = "count" /\ pc' # "count"
          /\ UNCHANGED <<queued, queued_bytes, fragments>>
      BY <2>3 DEF CountFragment, Goto, ring
    <3>2. pending # <<>>
      BY <3>1 DEF Inv, CloseInv
    <3>3. /\ Head(pending).item \in Fragment
          /\ Along(pending, Of(Size)) =
               Size[Head(pending).item] + Along(Tail(pending), Of(Size))
      BY <1>0, <3>2, HeadAlong
    <3>4. Size[Head(pending).item] = Head(pending).item.length
      BY <3>3 DEF Size
    <3>5. Along(Tail(pending), Of(Size)) \in Nat /\ Size[Head(pending).item] \in Nat
      <4>1. Tail(pending) \in Seq(Taken) /\ Of(Size) \in [Taken -> Nat]
        BY <1>0, <3>2, RingTypes, HeadTailProperties, Weights
      <4>2. Along(Tail(pending), Of(Size)) \in Nat
        BY ONLY <4>1, AlongType
      <4>3. QED BY <1>0, <3>3, <4>2
    <3>6. pending_bytes' = Along(pending', Of(Size))
      BY <3>1, <3>3, <3>4, <3>5 DEF BudgetInv
    <3>7. stored_bytes' + Again(Size)' = Along(fragments, Size)'
      <4>1. stored_bytes + Size[Head(pending).item] = Along(fragments, Size)
        BY <3>1 DEF BudgetInv, Again
      <4>2. Again(Size)' = 0
        BY <3>1 DEF Again
      <4>3. QED BY <1>0, <3>1, <3>4, <4>1, <4>2
    <3>8. /\ stored_bytes' \in Nat
          /\ stored_bytes' + pending_bytes' + queued_bytes' <= MaximumBytes
      <4>1. /\ stored_bytes' = stored_bytes + Size[Head(pending).item]
            /\ pending_bytes' = pending_bytes - Size[Head(pending).item]
            /\ queued_bytes' = queued_bytes
        BY <3>1, <3>4
      <4>2. stored_bytes + pending_bytes + queued_bytes <= MaximumBytes
        BY DEF BudgetInv
      <4>3. QED BY <1>0, <3>5, <4>1, <4>2
    <3>9. QED BY <3>1, <3>6, <3>7, <3>8 DEF BudgetInv
  <2>4. CASE StopAccepting \/ FailImport \/ EndDrain \/ RecordRecovery \/ Publish \/ FailRecord
    <3>1. UNCHANGED <<queued, queued_bytes, work>> /\ pc # "count" /\ pc' # "count"
      BY <2>4 DEF StopAccepting, FailImport, EndDrain, RecordRecovery, Publish, FailRecord,
           Goto, ring, Inv, CloseInv, Operation
    <3>2. QED BY <1>1, <3>1
  <2>5. QED BY <1>3, <2>1, <2>2, <2>3, <2>4 DEF Work
<1>4. CASE Elapse \/ Call \/ UNCHANGED vars
  BY <1>1, <1>4 DEF Elapse, Call, Drain, Close, vars, ring
<1>5. QED BY <1>2, <1>3, <1>4 DEF Next

-----------------------------------------------------------------------------
(* The frames: each one the provider showed is in one fragment that was      *)
(* accepted, or in one gap, and no other frame is.                           *)

TileInv ==
  \A frame \in Nat :
    Accepted(Shows(Fragment, frame)) + Along(gaps, Shows(Gap, frame)) =
      IF frame < observed_frames THEN 1 ELSE 0

(* A drain moves fragments: what counts stays. *)
LEMMA WorkKeeps ==
  ASSUME Inv, RingInv, BaseInv, Work, NEW w \in [Fragment -> Nat]
  PROVE  Accepted(w)' = Accepted(w)
<1>0. /\ Along(fragments, w) \in Nat /\ Along(pending, Of(w)) \in Nat
      /\ Along(queued, w) \in Nat /\ Again(w) \in Nat
  BY Counts
<1>1. CASE TakeQueue
  <2>1. /\ queued' = <<>> /\ pc # "count" /\ pc' # "count" /\ UNCHANGED fragments
    BY <1>1 DEF TakeQueue, Goto
  <2>2. Along(pending', Of(w)) = Along(pending, Of(w)) + Along(queued, w)
    BY <1>1, TakeAlong
  <2>3. Along(queued', w) = 0
    BY <2>1, AlongEmpty
  <2>4. Again(w) = 0 /\ Again(w)' = 0
    BY <2>1 DEF Again
  <2>5. Accepted(w)' = Along(fragments, w) + Along(pending', Of(w)) + Along(queued', w) - 0
    BY <2>1, <2>4 DEF Accepted
  <2>6. QED BY <1>0, <2>2, <2>3, <2>4, <2>5 DEF Accepted
<1>2. CASE ImportFragment
  <2>1. /\ fragments' = Append(fragments, Head(pending).item) /\ pending # <<>>
        /\ pc # "count" /\ pc' = "count" /\ UNCHANGED <<queued, pending>>
    BY <1>2 DEF ImportFragment, Goto, ring
  <2>2. Head(pending).item \in Fragment /\ fragments \in Seq(Fragment)
    BY <2>1, HeadAlong DEF BaseInv
  <2>3. Along(Append(fragments, Head(pending).item), w) =
          Along(fragments, w) + w[Head(pending).item]
    BY ONLY w \in [Fragment -> Nat], <2>2, AlongAppend
  <2>4. Again(w) = 0 /\ Again(w)' = w[Head(pending).item]
    BY <2>1 DEF Again
  <2>5. Accepted(w)' = Along(fragments', w) + Along(pending, Of(w)) + Along(queued, w)
                         - w[Head(pending).item]
    BY <2>1, <2>4 DEF Accepted
  <2>6. w[Head(pending).item] \in Nat
    BY <2>2
  <2>7. QED BY <1>0, <2>1, <2>3, <2>4, <2>5, <2>6 DEF Accepted
<1>3. CASE CountFragment
  <2>1. /\ pending' = Tail(pending) /\ pc = "count" /\ pc' # "count"
        /\ UNCHANGED <<queued, fragments>>
    BY <1>3 DEF CountFragment, Goto, ring
  <2>2. pending # <<>>
    BY <2>1 DEF Inv, CloseInv
  <2>3. /\ Head(pending).item \in Fragment
        /\ Along(pending, Of(w)) = w[Head(pending).item] + Along(Tail(pending), Of(w))
    BY <2>2, HeadAlong
  <2>4. Again(w) = w[Head(pending).item] /\ Again(w)' = 0
    BY <2>1 DEF Again
  <2>5. Along(Tail(pending), Of(w)) \in Nat
    <3>1. Tail(pending) \in Seq(Taken) /\ Of(w) \in [Taken -> Nat]
      BY <2>2, RingTypes, HeadTailProperties, Weights
    <3>2. QED BY ONLY <3>1, AlongType
  <2>6. Accepted(w)' = Along(fragments, w) + Along(Tail(pending), Of(w)) + Along(queued, w) - 0
    BY <2>1, <2>4 DEF Accepted
  <2>7. w[Head(pending).item] \in Nat
    BY <2>3
  <2>8. QED BY <1>0, <2>3, <2>4, <2>5, <2>6, <2>7 DEF Accepted
<1>4. CASE StopAccepting \/ FailImport \/ EndDrain \/ RecordRecovery \/ Publish \/ FailRecord
  <2>1. UNCHANGED <<queued, pending, fragments>> /\ pc # "count" /\ pc' # "count"
    BY <1>4 DEF StopAccepting, FailImport, EndDrain, RecordRecovery, Publish, FailRecord,
         Goto, ring, work, Inv, CloseInv, Operation
  <2>2. QED BY <2>1 DEF Accepted, Again
<1>5. QED BY <1>1, <1>2, <1>3, <1>4 DEF Work

(* A copy into the ring counts once more. *)
LEMMA EnqueueAdds ==
  ASSUME Inv, RingInv, BaseInv, NEW length \in Lengths, NEW frames \in FrameCounts,
         Enqueue(length, frames), UNCHANGED <<work, pc>>, NEW w \in [Fragment -> Nat]
  PROVE  Accepted(w)' = Accepted(w) + w[Fresh(length, frames)]
<1>1. queued' = Append(queued, Fresh(length, frames))
  BY DEF Enqueue, Fresh
<1>2. Fresh(length, frames) \in Fragment /\ queued \in Seq(Fragment)
  BY FreshType, RingTypes
<1>3. Along(Append(queued, Fresh(length, frames)), w) =
        Along(queued, w) + w[Fresh(length, frames)]
  BY ONLY w \in [Fragment -> Nat], <1>2, AlongAppend
<1>4. Accepted(w)' = Along(fragments, w) + Along(pending, Of(w)) + Along(queued', w) - Again(w)
  BY DEF Accepted, Again, work
<1>5. w[Fresh(length, frames)] \in Nat
  BY <1>2
<1>6. /\ Along(fragments, w) \in Nat /\ Along(pending, Of(w)) \in Nat
      /\ Along(queued, w) \in Nat /\ Again(w) \in Nat
  BY Counts
<1>7. QED BY <1>1, <1>3, <1>4, <1>5, <1>6 DEF Accepted

LEMMA InitTile == Init => TileInv
<1> SUFFICES ASSUME Init, NEW frame \in Nat
             PROVE  Accepted(Shows(Fragment, frame)) + Along(gaps, Shows(Gap, frame)) =
                      IF frame < observed_frames THEN 1 ELSE 0
  BY DEF TileInv
<1>1. /\ queued = <<>> /\ pending = <<>> /\ fragments = <<>> /\ gaps = <<>>
      /\ pc = "idle" /\ observed_frames = 0
  BY DEF Init
<1>2. \A w : Along(<<>>, w) = 0
  BY AlongEmpty
<1>3. Accepted(Shows(Fragment, frame)) = 0
  BY <1>1, <1>2 DEF Accepted, Again
<1>4. QED BY <1>1, <1>2, <1>3

LEMMA NextTile ==
  ASSUME Inv, RingInv, BaseInv, TileInv, [Next]_vars
  PROVE  TileInv'
<1> SUFFICES ASSUME NEW frame \in Nat
             PROVE  (Accepted(Shows(Fragment, frame)) + Along(gaps, Shows(Gap, frame)) =
                       IF frame < observed_frames THEN 1 ELSE 0)'
  BY DEF TileInv
<1> DEFINE w == Shows(Fragment, frame)
           v == Shows(Gap, frame)
<1>0. /\ w \in [Fragment -> Nat] /\ v \in [Gap -> Nat]
      /\ observed_frames \in Nat /\ gaps \in Seq(Gap)
      /\ Accepted(w) + Along(gaps, v) = IF frame < observed_frames THEN 1 ELSE 0
  BY Weights, RingTypes DEF BaseInv, TileInv
<1>1. ASSUME Accepted(w)' = Accepted(w), UNCHANGED <<gaps, observed_frames>>
      PROVE  Accepted(w)' + Along(gaps', v) = IF frame < observed_frames' THEN 1 ELSE 0
  BY <1>0, <1>1
<1>2. Accepted(w) \in Int
  BY <1>0, Counts DEF Accepted
<1>3. Along(gaps, v) \in Nat
  <2> HIDE DEF v
  <2>1. QED BY ONLY <1>0, AlongType
<1> HIDE DEF w, v
<1>4. CASE QueueFragment
  <2>1. UNCHANGED <<work, pc>>
    BY <1>4 DEF QueueFragment
  <2>2. CASE RefuseLate
    <3>1. Accepted(w)' = Accepted(w) /\ UNCHANGED <<gaps, observed_frames>>
      BY <2>1, <2>2 DEF RefuseLate, Accepted, Again, ring, work, w
    <3>2. QED BY <1>1, <3>1 DEF w, v
  <2>3. ASSUME NEW length \in Lengths, NEW frames \in FrameCounts, RecordGap(length, frames)
        PROVE  Accepted(w)' + Along(gaps', v) = IF frame < observed_frames' THEN 1 ELSE 0
    <3> DEFINE gap == [start |-> observed_frames, frames |-> frames]
    <3>1. Accepted(w)' = Accepted(w)
      BY <2>1, <2>3 DEF RecordGap, Accepted, Again, ring, work, w
    <3>2. gaps' = Append(gaps, gap) /\ observed_frames' = observed_frames + frames
      BY <2>3 DEF RecordGap, Observe
    <3>3. gap \in Gap /\ frames \in Nat \ {0}
      BY <1>0, FrameCountsAssumption DEF Gap
    <3>4. v[gap] = IF frame \in observed_frames .. observed_frames + frames - 1 THEN 1 ELSE 0
      BY <3>3 DEF v, Shows
    <3> HIDE DEF gap
    <3>5. Along(Append(gaps, gap), v) = Along(gaps, v) + v[gap]
      BY ONLY <1>0, <3>3, AlongAppend
    <3>6. QED BY <1>0, <1>2, <1>3, <3>1, <3>2, <3>3, <3>4, <3>5
  <2>4. ASSUME NEW length \in Lengths, NEW frames \in FrameCounts, Enqueue(length, frames)
        PROVE  Accepted(w)' + Along(gaps', v) = IF frame < observed_frames' THEN 1 ELSE 0
    <3> DEFINE item == Fresh(length, frames)
    <3>1. Accepted(w)' = Accepted(w) + w[item]
      BY <1>0, <2>1, <2>4, EnqueueAdds
    <3>2. gaps' = gaps /\ observed_frames' = observed_frames + frames
      BY <2>4 DEF Enqueue, Observe
    <3>3. item \in Fragment /\ frames \in Nat \ {0}
      BY FreshType, FrameCountsAssumption
    <3>4. w[item] = IF frame \in observed_frames .. observed_frames + frames - 1 THEN 1 ELSE 0
      BY <3>3 DEF w, Shows, Fresh
    <3> HIDE DEF item
    <3>5. QED BY <1>0, <1>2, <1>3, <3>1, <3>2, <3>3, <3>4
  <2>5. QED BY <1>4, <2>2, <2>3, <2>4 DEF QueueFragment, w, v
<1>5. CASE Work
  <2>1. UNCHANGED <<gaps, observed_frames>>
    BY <1>5 DEF Work, extent
  <2>2. Accepted(w)' = Accepted(w)
    BY <1>0, <1>5, WorkKeeps
  <2>3. QED BY <1>1, <2>1, <2>2 DEF w, v
<1>6. CASE Elapse \/ Call \/ UNCHANGED vars
  <2>1. UNCHANGED <<queued, pending, fragments, gaps, observed_frames>>
    BY <1>6 DEF Elapse, Call, Drain, Close, vars, ring, work, extent
  <2>2. pc' = pc \/ (pc # "count" /\ pc' # "count")
    BY <1>6 DEF Elapse, Call, Drain, Close, vars
  <2>3. Accepted(w)' = Accepted(w)
    BY <2>1, <2>2 DEF Accepted, Again, w
  <2>4. QED BY <1>1, <2>1, <2>3 DEF w, v
<1>7. QED BY <1>4, <1>5, <1>6 DEF Next

-----------------------------------------------------------------------------
(* What a record says.  It is written when the ring and pending are empty,   *)
(* so that everything accepted is among the fragments it lists.              *)

Tells(record) ==
  /\ record \in Record
  /\ record.stored = Along(record.fragments, Size)
  /\ \A frame \in Nat :
       Along(record.fragments, Shows(Fragment, frame)) + Along(record.gaps, Shows(Gap, frame)) =
         IF frame < record.observed THEN 1 ELSE 0

EvidenceInv == \A record \in {capture, recovery} \ {NoRecord} : Tells(record)

LEMMA EvidenceTells ==
  ASSUME Inv, RingInv, BaseInv, BudgetInv, TileInv, pc \in {"record", "publish"}
  PROVE  Tells(Evidence)
<1>1. queued = <<>> /\ pending = <<>> /\ operation \in Operation
  BY DEF Inv, CloseInv
<1>2. Evidence \in Record
  BY <1>1, RingTypes DEF Evidence, Record, BaseInv, BudgetInv
<1>3. stored_bytes = Along(fragments, Size)
  <2>1. stored_bytes + 0 = Along(fragments, Size)
    BY DEF BudgetInv, Again
  <2>2. QED BY <2>1 DEF BudgetInv
<1>4. ASSUME NEW frame \in Nat
      PROVE  Along(fragments, Shows(Fragment, frame)) + Along(gaps, Shows(Gap, frame)) =
               IF frame < observed_frames THEN 1 ELSE 0
  <2> DEFINE w == Shows(Fragment, frame)
  <2>1. w \in [Fragment -> Nat]
    BY Weights
  <2> HIDE DEF w
  <2>2. Along(fragments, w) \in Nat
    BY <2>1, Counts
  <2>3. Along(queued, w) = 0 /\ Along(pending, Of(w)) = 0
    BY <1>1, AlongEmpty
  <2>4. Accepted(w) = Along(fragments, w)
    BY <2>2, <2>3 DEF Accepted, Again
  <2>5. QED BY <2>4 DEF TileInv, w
<1>5. QED BY <1>2, <1>3, <1>4 DEF Tells, Evidence

LEMMA NextEvidence ==
  ASSUME Inv, RingInv, BaseInv, BudgetInv, TileInv, EvidenceInv, [Next]_vars
  PROVE  EvidenceInv'
<1>1. ASSUME UNCHANGED <<capture, recovery>> PROVE EvidenceInv'
  BY <1>1 DEF EvidenceInv
<1>2. CASE Work
  <2>1. CASE RecordRecovery
    <3>1. recovery' = Evidence /\ capture' = capture /\ Tells(Evidence)
      BY <2>1, EvidenceTells DEF RecordRecovery
    <3>2. QED BY <3>1 DEF EvidenceInv
  <2>2. CASE Publish
    <3>1. capture' = Evidence /\ recovery' = recovery /\ Tells(Evidence)
      BY <2>2, EvidenceTells DEF Publish
    <3>2. QED BY <3>1 DEF EvidenceInv
  <2>3. CASE ~ RecordRecovery /\ ~ Publish
    BY <1>1, <1>2, <2>3
    DEF Work, StopAccepting, TakeQueue, ImportFragment, FailImport, CountFragment, EndDrain,
        FailRecord, records
  <2>4. QED BY <2>1, <2>2, <2>3
<1>3. CASE QueueFragment \/ Elapse \/ Call \/ UNCHANGED vars
  BY <1>1, <1>3 DEF QueueFragment, Elapse, Call, Drain, Close, vars, records
<1>4. QED BY <1>2, <1>3 DEF Next

-----------------------------------------------------------------------------
WholeInv == Inv /\ RingInv /\ BaseInv /\ BudgetInv /\ TileInv /\ EvidenceInv

LEMMA WholeCorrect == Spec => []WholeInv
<1>1. Init => WholeInv
  <2>1. Init => EvidenceInv
    BY DEF Init, EvidenceInv
  <2>2. QED BY <2>1, InitInv, InitRing, InitBase, InitBudget, InitTile DEF WholeInv
<1>2. WholeInv /\ [Next]_vars => WholeInv'
  BY NextInv, NextRing, NextBase, NextBudget, NextTile, NextEvidence DEF WholeInv
<1>3. QED BY <1>1, <1>2, PTL DEF Spec

(* Every variable keeps its type; the counters stay within the ring and the  *)
(* budget, which no assignment of the code checks again.                     *)
THEOREM TypeCorrect == Spec => []TypeOK
<1>1. WholeInv => TypeOK
  <2> SUFFICES ASSUME WholeInv PROVE TypeOK
    OBVIOUS
  <2> USE DEF WholeInv
  <2>1. /\ bound \in {"frames", "duration", "manual"} /\ overflow \in {"fail", "gap"}
        /\ buffer \in [Offset -> Byte] /\ fragments \in Seq(Fragment) /\ gaps \in Seq(Gap)
        /\ bound_reached \in BOOLEAN /\ elapsed \in BOOLEAN
        /\ accepting \in BOOLEAN /\ closed \in BOOLEAN
        /\ pc \in {"idle", "stop", "take", "import", "count", "record", "publish"}
        /\ operation \in Operation
    BY DEF Inv, BoundInv, CloseInv, BaseInv
  <2>2. write_offset \in Offset /\ queued \in Seq(Fragment)
    BY RingTypes
  <2>3. queued_bytes \in 0 .. MaximumQueueBytes
    BY DEF RingInv
  <2>4. pending_bytes \in 0 .. MaximumBytes /\ stored_bytes \in 0 .. MaximumBytes
    <3>1. pending_bytes \in Nat /\ stored_bytes \in Nat /\ queued_bytes \in Nat
      BY Weights, Counts DEF BudgetInv
    <3>2. stored_bytes + pending_bytes + queued_bytes <= MaximumBytes
      BY DEF BudgetInv
    <3>3. MaximumBytes \in Nat
      BY CapacityAssumption
    <3>4. QED BY <3>1, <3>2, <3>3
  <2>5. pending \in Seq([payload : Seq(Byte), item : Fragment])
    <3>1. ASSUME NEW x \in Taken PROVE x \in [payload : Seq(Byte), item : Fragment]
      <4>1. PICK item \in Fragment : x = [payload |-> Whole(item), item |-> item]
        BY DEF Taken
      <4>2. item.length \in Nat /\ item.start \in Nat
        BY LengthsAssumption DEF Fragment
      <4> DEFINE n == item.length
                 byte(k) == [start |-> item.start, index |-> k]
      <4>3. \A k \in 1 .. n : byte(k) \in Byte
        BY <4>2 DEF Byte
      <4>4. [k \in 1 .. n |-> byte(k)] \in Seq(Byte)
        <5> HIDE DEF byte
        <5>1. n \in Nat
          BY <4>2
        <5> HIDE DEF n
        <5>2. QED BY <4>3, <5>1, IsASeq
      <4>5. Whole(item) \in Seq(Byte)
        BY <4>4 DEF Whole
      <4>6. QED BY <4>1, <4>5
    <3>2. QED BY <3>1, RingTypes, SeqMonotonic
  <2>6. observed_frames \in 0 .. MaxFrames
    BY RingTypes, LimitAssumption DEF BaseInv
  <2>7. capture \in Record \cup {NoRecord} /\ recovery \in Record \cup {NoRecord}
    BY DEF EvidenceInv, Tells
  <2>8. QED BY <2>1, <2>2, <2>3, <2>4, <2>5, <2>6, <2>7 DEF TypeOK
<1>2. QED BY <1>1, WholeCorrect, PTL

(* What a capture puts into the store stays within its limit for any limit,  *)
(* ring and fragments, however the three counters are updated in between.    *)
THEOREM BudgetHolds == Spec => []WithinBudget
<1>1. WholeInv => WithinBudget
  <2> SUFFICES ASSUME WholeInv PROVE WithinBudget
    OBVIOUS
  <2> USE DEF WholeInv
  <2>1. Bytes(fragments) = Along(fragments, Size) /\ Bytes(queued) = Along(queued, Size)
    BY BytesAlong, RingTypes DEF BaseInv
  <2>2. Along(fragments, Size) = stored_bytes + Again(Size) /\ Along(queued, Size) = queued_bytes
    BY DEF BudgetInv
  <2>3. /\ Again(Size) <= pending_bytes /\ Again(Size) \in Nat /\ pending_bytes \in Nat
        /\ stored_bytes \in Nat /\ queued_bytes \in Nat /\ MaximumBytes \in Nat
    BY Weights, Counts, CapacityAssumption DEF BudgetInv
  <2>4. stored_bytes + pending_bytes + queued_bytes <= MaximumBytes
    BY DEF BudgetInv
  <2>5. stored_bytes + Again(Size) + queued_bytes <= MaximumBytes
    BY <2>3, <2>4
  <2>6. QED BY <2>1, <2>2, <2>5 DEF WithinBudget
<1>2. QED BY <1>1, WholeCorrect, PTL

(* A record of any capture accounts for every frame up to its end exactly    *)
(* once, in what it stored or in what it says is missing.                    *)
THEOREM RecordsTile == Spec => []PublishedTiles
<1>1. WholeInv => PublishedTiles
  <2> SUFFICES ASSUME WholeInv, NEW record \in {capture, recovery} \ {NoRecord}
               PROVE  /\ record.stored = Bytes(record.fragments)
                      /\ \A frame \in 0 .. record.observed - 1 :
                           Cardinality(Covers(record.fragments, frame))
                             + Cardinality(Covers(record.gaps, frame)) = 1
    BY DEF PublishedTiles
  <2>1. Tells(record)
    BY DEF WholeInv, EvidenceInv
  <2>2. /\ record.fragments \in Seq(Fragment) /\ record.gaps \in Seq(Gap)
        /\ record.observed \in Nat
    BY <2>1 DEF Tells, Record
  <2>3. record.stored = Bytes(record.fragments)
    BY <2>1, <2>2, BytesAlong DEF Tells
  <2>4. ASSUME NEW frame \in 0 .. record.observed - 1
        PROVE  Cardinality(Covers(record.fragments, frame))
                 + Cardinality(Covers(record.gaps, frame)) = 1
    <3>1. frame \in Nat /\ frame < record.observed
      BY <2>2
    <3>2. /\ Cardinality(Covers(record.fragments, frame)) =
               Along(record.fragments, Shows(Fragment, frame))
          /\ Cardinality(Covers(record.gaps, frame)) = Along(record.gaps, Shows(Gap, frame))
      BY <2>2, CoversAlong
    <3>3. QED BY <2>1, <3>1, <3>2 DEF Tells
  <2>5. QED BY <2>3, <2>4
<1>2. QED BY <1>1, WholeCorrect, PTL
=============================================================================
