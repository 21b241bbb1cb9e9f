---------------------------- MODULE CaptureStore ----------------------------
(***************************************************************************)
(* The records of bounded captures (CaptureStore of                        *)
(* reccy/runtime/capture.py), their roots, and the fragments they pin in   *)
(* the asset store, of which this module assumes RetainedBytes.            *)
(*                                                                         *)
(* A Session captures, then publishes a capture record, a recovery record, *)
(* or by salvage one after the other.  A record is <<kind, session>>; the  *)
(* session's ID is the capture ID.  Nothing happens in a session or a      *)
(* collection between two steps of the one that holds state/metadata.lock, *)
(* so an update that writes one file is one step; one that writes several  *)
(* has a step per file, and can fail or crash before each.                 *)
(***************************************************************************)
EXTENDS Naturals, FiniteSets

CONSTANTS
  Entry,       \* asset entry IDs; a fragment is one
  Session,     \* capture sessions
  Collector,   \* threads in CaptureStore.collect
  Reader,      \* threads in open_record
  Reference,   \* capture reference names
  Nobody, NoSession

ASSUME NamesAssumption ==
  /\ Nobody \notin Session \cup Collector
  /\ NoSession \notin Session
  /\ Session \cap Collector = {}

Kind == {"capture", "recovery"}
Record == Kind \X Session

VARIABLES
  retained,     \* entries the asset store has the bytes of
  pins,         \* entries with an asset pin
  metadata,     \* holder of state/metadata.lock over several steps
  fragments,    \* CaptureSession._fragments
  open,         \* sessions that can still be closed
  records,      \* captures/<id>.json and staging/capture-<id>.json
  torn,         \* history: sessions whose salvage ended between its two records
  references,   \* state/capture-references
  capture_pins, \* state/capture-pins, by session; bound: one each
  leases,       \* state/capture-leases of the readers alive, sets of one record
  stale,        \* records of the lease files whose reader is gone
  pc,           \* of the collectors
  listed,       \* planned records, then those to unlink
  released      \* pins to unlink

assets == <<retained, pins>>
sessions == <<fragments, open, torn>>
roots == <<references, capture_pins, leases, stale>>
collectors == <<pc, listed, released>>
vars == <<assets, metadata, sessions, records, roots, collectors>>

Assets == INSTANCE RetainedBytes WITH roots <- pins

TypeOK ==
  /\ retained \subseteq Entry
  /\ pins \subseteq Entry
  /\ metadata \in Session \cup Collector \cup {Nobody}
  /\ fragments \in [Session -> SUBSET Entry]
  /\ open \subseteq Session
  /\ records \subseteq Record
  /\ torn \subseteq Session
  /\ references \in [Reference -> Session \cup {NoSession}]
  /\ capture_pins \subseteq Session
  /\ leases \in [Reader -> SUBSET Record]
  /\ stale \subseteq Record
  /\ pc \in [Collector -> {"idle", "planned", "records", "pins"}]
  /\ listed \in [Collector -> SUBSET Record]
  /\ released \in [Collector -> SUBSET Entry]

Init ==
  /\ Assets!Init
  /\ metadata = Nobody
  /\ fragments = [s \in Session |-> {}]
  /\ open = Session
  /\ records = {} /\ torn = {}
  /\ references = [r \in Reference |-> NoSession]
  /\ capture_pins = {}
  /\ leases = [d \in Reader |-> {}]
  /\ stale = {}
  /\ pc = [c \in Collector |-> "idle"]
  /\ listed = [c \in Collector |-> {}]
  /\ released = [c \in Collector |-> {}]

-----------------------------------------------------------------------------
(* Sessions.  drain imports each fragment with pin=True: the pin, named     *)
(* after the entry, is on disk before the entry is.  What is left to drain  *)
(* is drained before salvage writes its first record.                       *)

Unused(e) ==
  /\ e \notin retained \cup pins
  /\ \A s \in Session : e \notin fragments[s]
  /\ \A c \in Collector : e \notin released[c]

Drain(s, e) ==
  /\ s \in open \ torn /\ metadata = Nobody
  /\ Unused(e)
  /\ Assets!Import(e) /\ pins' = pins \cup {e}
  /\ fragments' = [fragments EXCEPT ![s] = @ \cup {e}]
  /\ UNCHANGED <<metadata, open, torn, records>>

(* The import fails after its pin, which nothing will ever remove. *)
FailDrain(s, e) ==
  /\ s \in open \ torn /\ metadata = Nobody
  /\ Unused(e)
  /\ Assets!ChangeRoots /\ pins' = pins \cup {e}
  /\ UNCHANGED <<metadata, sessions, records>>

(* finish and abort end in one record. *)
PublishRecord(s, kind) ==
  /\ s \in open /\ metadata = Nobody
  /\ <<"capture", s>> \notin records
  /\ records' = records \cup {<<kind, s>>}
  /\ open' = open \ {s}
  /\ UNCHANGED <<assets, metadata, fragments, torn>>

(* _salvage_publish: the recovery record, then the capture. *)
SalvageRecovery(s) ==
  /\ s \in open /\ metadata = Nobody
  /\ records' = records \cup {<<"recovery", s>>}
  /\ metadata' = s
  /\ UNCHANGED <<assets, sessions>>

SalvageCapture(s) ==
  /\ metadata = s
  /\ records' = records \cup {<<"capture", s>>}
  /\ open' = open \ {s}
  /\ metadata' = Nobody
  /\ UNCHANGED <<assets, fragments, torn>>

FailSalvage(s) ==
  /\ metadata = s
  /\ torn' = torn \cup {s}
  /\ metadata' = Nobody
  /\ UNCHANGED <<assets, fragments, open, records>>

CrashSession(s) ==
  /\ s \in open
  /\ open' = open \ {s}
  /\ metadata' = IF metadata = s THEN Nobody ELSE metadata
  /\ UNCHANGED <<assets, fragments, torn, records>>

Capture(s) ==
  /\ \/ \E e \in Entry : Drain(s, e) \/ FailDrain(s, e)
     \/ \E kind \in Kind : PublishRecord(s, kind)
     \/ SalvageRecovery(s) \/ SalvageCapture(s) \/ FailSalvage(s) \/ CrashSession(s)
  /\ UNCHANGED <<roots, collectors>>

-----------------------------------------------------------------------------
(* set_reference, remove_reference, pin_reference, remove_pin, open_record *)

SetReference(r, s) ==
  /\ <<"capture", s>> \in records
  /\ references' = [references EXCEPT ![r] = s]
  /\ UNCHANGED <<capture_pins, leases, stale>>

RemoveReference(r) ==
  /\ references' = [references EXCEPT ![r] = NoSession]
  /\ UNCHANGED <<capture_pins, leases, stale>>

(* A mistake: the reference is not looked up. *)
PinAnyReference(r) ==
  /\ capture_pins' = capture_pins \cup {references[r]}
  /\ UNCHANGED <<references, leases, stale>>

PinReference(r) ==
  /\ <<"capture", references[r]>> \in records
  /\ capture_pins' = capture_pins \cup {references[r]}
  /\ UNCHANGED <<references, leases, stale>>

RemovePin(s) ==
  /\ capture_pins' = capture_pins \ {s}
  /\ UNCHANGED <<references, leases, stale>>

OpenRecord(d, record) ==
  /\ leases[d] = {}
  /\ record \in records
  /\ leases' = [leases EXCEPT ![d] = {record}]
  /\ UNCHANGED <<references, capture_pins, stale>>

CloseRecord(d) ==
  /\ leases' = [leases EXCEPT ![d] = {}]
  /\ UNCHANGED <<references, capture_pins, stale>>

UpdateRoot ==
  /\ metadata = Nobody
  /\ \/ \E r \in Reference, s \in Session : SetReference(r, s)
     \/ \E r \in Reference : RemoveReference(r) \/ PinReference(r)
     \/ \E s \in Session : RemovePin(s)
     \/ \E d \in Reader, record \in Record : OpenRecord(d, record)
     \/ \E d \in Reader : CloseRecord(d)
  /\ UNCHANGED <<assets, metadata, sessions, records, collectors>>

(* The reader dies, or its last metadata claim times out. *)
LeaveLease(d) ==
  /\ leases[d] # {}
  /\ leases' = [leases EXCEPT ![d] = {}]
  /\ stale' = stale \cup leases[d]
  /\ UNCHANGED <<assets, metadata, sessions, records, references, capture_pins,
                 collectors>>

(* AssetStore.recover, which waits for no reader to be left. *)
RecoverLeases ==
  /\ metadata = Nobody
  /\ \A d \in Reader : leases[d] = {}
  /\ stale' = {}
  /\ UNCHANGED <<assets, metadata, sessions, records, references, capture_pins, leases,
                 collectors>>

-----------------------------------------------------------------------------
(* plan_collection and collect.  Any unrooted record may be eligible. *)

Leased == UNION {leases[d] : d \in Reader}

RecordRoots ==
  {<<"capture", references[r]>> : r \in Reference}
    \cup {<<"capture", s>> : s \in capture_pins}
    \cup Leased
    \cup stale

Plan(c) ==
  /\ pc[c] = "idle"
  /\ \E planned \in SUBSET (records \ RecordRoots) :
       listed' = [listed EXCEPT ![c] = planned]
  /\ pc' = [pc EXCEPT ![c] = "planned"]
  /\ metadata = Nobody
  /\ UNCHANGED <<metadata, released, records, pins>>

(* A mistake: the plan is trusted. *)
Planned(planned) == planned \cap records

(* Under the second claim, records and roots are read again. *)
Renewed(planned) == (planned \cap records) \ RecordRoots

FragmentsOf(S) == UNION {fragments[record[2]] : record \in S}

(* A mistake: a capture and a recovery record do not share their pins. *)
ReleasedAll(deleted) == FragmentsOf(deleted)

(* surviving_pins are those of every record that stays, of either kind. *)
Released(deleted) == FragmentsOf(deleted) \ FragmentsOf(records \ deleted)

Claim(c) ==
  /\ pc[c] = "planned" /\ metadata = Nobody
  /\ metadata' = c
  /\ \E deleted \in SUBSET Renewed(listed[c]) :
       /\ listed' = [listed EXCEPT ![c] = deleted]
       /\ released' = [released EXCEPT ![c] = Released(deleted)]
  /\ pc' = [pc EXCEPT ![c] = "records"]
  /\ UNCHANGED <<records, pins>>

UnlinkRecord(c, record) ==
  /\ pc[c] = "records"
  /\ record \in listed[c]
  /\ records' = records \ {record}
  /\ listed' = [listed EXCEPT ![c] = @ \ {record}]
  /\ UNCHANGED <<metadata, pc, released, pins>>

RecordsUnlinked(c) ==
  /\ pc[c] = "records" /\ listed[c] = {}
  /\ pc' = [pc EXCEPT ![c] = "pins"]
  /\ UNCHANGED <<metadata, listed, released, records, pins>>

UnlinkPin(c, e) ==
  /\ pc[c] = "pins"
  /\ e \in released[c]
  /\ pins' = pins \ {e}
  /\ released' = [released EXCEPT ![c] = @ \ {e}]
  /\ UNCHANGED <<metadata, pc, listed, records>>

(* The end, the claim's timeout, an unlink that fails, or a crash. *)
Leave(c) ==
  /\ pc[c] # "idle"
  /\ metadata' = IF metadata = c THEN Nobody ELSE metadata
  /\ pc' = [pc EXCEPT ![c] = "idle"]
  /\ listed' = [listed EXCEPT ![c] = {}]
  /\ released' = [released EXCEPT ![c] = {}]
  /\ UNCHANGED <<records, pins>>

Collect(c) ==
  /\ \/ Plan(c) \/ Claim(c) \/ RecordsUnlinked(c) \/ Leave(c)
     \/ \E record \in Record : UnlinkRecord(c, record)
     \/ \E e \in Entry : UnlinkPin(c, e)
  /\ UNCHANGED <<retained, sessions, roots>>

(* AssetStore.collect, which takes the same claim. *)
CollectAssets ==
  /\ metadata = Nobody
  /\ \E S \in SUBSET retained : S # {} /\ Assets!Collect(S)
  /\ UNCHANGED <<metadata, sessions, records, roots, collectors>>

-----------------------------------------------------------------------------
Next ==
  \/ \E s \in Session : Capture(s)
  \/ UpdateRoot \/ (\E d \in Reader : LeaveLease(d)) \/ RecoverLeases
  \/ \E c \in Collector : Collect(c)
  \/ CollectAssets

Spec == Init /\ [][Next]_vars

-----------------------------------------------------------------------------
(* Properties *)

(* The bytes of every fragment that a record on disk names can be read,     *)
(* whichever collections ran, failed or crashed, and although a salvaged    *)
(* capture shares its fragments with its recovery record.  Not so for a     *)
(* session whose salvage failed between the two: see PublishedIsReadable.   *)
RecordsKeepFragments ==
  \A record \in records : record[2] \notin torn => fragments[record[2]] \subseteq retained

(* What a reference, a capture pin or the lease of a reader names is there  *)
(* to be opened, although collect decides on what it read before.           *)
RootsResolve == RecordRoots \subseteq records \cup {<<"capture", NoSession>>}

(* shared-features.md says of the fragment pins that an interrupted writer  *)
(* cannot leave a published manifest pointing to collected bytes.  It can:  *)
(* salvage fails between its records, a collection deletes the recovery     *)
(* record and with it the pins, and the session, still open, is closed      *)
(* again with a manifest.                                                   *)
PublishedIsReadable ==
  \A s \in Session : <<"capture", s>> \in records => fragments[s] \subseteq retained
=============================================================================
