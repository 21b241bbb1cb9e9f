----------------------------- MODULE AssetStore -----------------------------
(***************************************************************************)
(* The store of verified bytes kept by reccy/runtime/assets.py, shared by  *)
(* cooperating processes through three advisory lock files.                *)
(*                                                                         *)
(* A Proc is one thread of control that uses the store: it runs one        *)
(* operation at a time; pc and the variables after it are its position,   *)
(* parameters and locals.  Everything else but the claims is on disk and   *)
(* survives a crash.  A claim timeout is an action that may happen while   *)
(* the claim is busy; waiting for a first claim is the same as idle.       *)
(***************************************************************************)
EXTENDS Integers, FiniteSets, ByteCount

CONSTANTS
  Proc,                 \* threads that operate on the store
  Entry,                \* entry IDs
  Object,               \* distinct contents
  Reference,            \* names of references
  ObjectOf,             \* the contents an entry is imported with
  Length,               \* the byte length of each object
  MaximumObjectBytes,   \* AssetCapacity.maximum_object_bytes
  MaximumStagingBytes,  \* AssetCapacity.maximum_staging_bytes
  MaxFaults,            \* bound: how many crashes and failed writes happen
  NoProc, NoEntry

ASSUME ProcAssumption == NoProc \notin Proc
ASSUME EntryAssumption == NoEntry \notin Entry
ASSUME ReferenceAssumption ==
  Reference \cap {"entry", "pinned", "pin", "timed", "lease", "expired"} = {}
ASSUME ObjectAssumption == ObjectOf \in [Entry -> Object]
ASSUME LengthAssumption == Length \in [Object -> Nat \ {0}]
ASSUME CapacityAssumption == {MaximumObjectBytes, MaximumStagingBytes} \subseteq Nat \ {0}
ASSUME FaultAssumption == MaxFaults \in Nat

VARIABLES
  admission,    \* holder of state/admission.lock
  metadata,     \* holder of state/metadata.lock
  readers,      \* shared holders of state/readers.lock
  recoverer,    \* exclusive holder of state/readers.lock
  entries,      \* entries/<id>.json
  objects,      \* objects/sha256/..
  staging,      \* staging/<random>, one per import
  references,   \* state/references/<name>.json
  pins,         \* state/pins/<id>.json; bound: one pin per entry
  leases,       \* state/leases/<id>.json of the readers alive
  stale,        \* entries of the lease files whose reader is gone
  temporaries,  \* abandoned temporary files of atomic_output
  pc,           \* where the operation of each Proc stands
  target,       \* the entry it is about
  kind,         \* the record it writes next
  listed,       \* import: staged files measured; collect, recover: to delete
  counted,      \* collect: the entries in object_counts
  orphans,      \* recover: objects to delete
  faults        \* crashes and failed writes so far

claims == <<admission, metadata, readers, recoverer>>
payload == <<entries, objects, staging>>
roots == <<references, pins, leases, stale>>
locals == <<target, kind, listed, counted, orphans>>
vars == <<claims, payload, roots, temporaries, pc, locals, faults>>

-----------------------------------------------------------------------------
(* The record files atomic_output writes, and the temporary of each. *)

EntryKind == {"entry", "pinned"}     \* "pinned": by an import with pin=True
PinKind == {"pin", "timed"}          \* "timed": with expires_at
RootKind == PinKind \cup Reference \cup {"lease"}   \* a reference by its name
FileKind == EntryKind \cup RootKind

Temporary == [kind : FileKind \cup {"expired"}, entry : Entry, full : BOOLEAN]

PC == {"idle",
       "stage", "write", "staged", "publish", "move", "unstage",  \* import
       "create", "fill", "replace",                               \* a record
       "select", "open", "reading", "close",                      \* a reader
       "planned", "sweep", "unlink",                              \* collect
       "recover"}

TypeOK ==
  /\ admission \in Proc \cup {NoProc}
  /\ metadata \in Proc \cup {NoProc}
  /\ readers \subseteq Proc
  /\ recoverer \in Proc \cup {NoProc}
  /\ entries \subseteq Entry
  /\ objects \subseteq Object
  /\ staging \in [Entry -> {"none", "empty", "full"}]
  /\ references \in [Reference -> Entry \cup {NoEntry}]
  /\ pins \in [Entry -> {"none", "expired"} \cup PinKind]
  /\ leases \in [Proc -> Entry \cup {NoEntry}]
  /\ stale \subseteq Entry
  /\ temporaries \subseteq Temporary
  /\ pc \in [Proc -> PC]
  /\ target \in [Proc -> Entry \cup {NoEntry}]
  /\ kind \in [Proc -> FileKind]
  /\ listed \in [Proc -> SUBSET Entry]
  /\ counted \in [Proc -> SUBSET Entry]
  /\ orphans \in [Proc -> SUBSET Object]
  /\ faults \in 0 .. MaxFaults

Init ==
  /\ admission = NoProc
  /\ metadata = NoProc
  /\ readers = {}
  /\ recoverer = NoProc
  /\ entries = {}
  /\ objects = {}
  /\ staging = [e \in Entry |-> "none"]
  /\ references = [r \in Reference |-> NoEntry]
  /\ pins = [e \in Entry |-> "none"]
  /\ leases = [p \in Proc |-> NoEntry]
  /\ stale = {}
  /\ temporaries = {}
  /\ pc = [p \in Proc |-> "idle"]
  /\ target = [p \in Proc |-> NoEntry]
  /\ kind = [p \in Proc |-> "entry"]
  /\ listed = [p \in Proc |-> {}]
  /\ counted = [p \in Proc |-> {}]
  /\ orphans = [p \in Proc |-> {}]
  /\ faults = 0

-----------------------------------------------------------------------------
(* What the operations read.  glob('*.json') also finds an abandoned       *)
(* temporary, whose name is .<stem>-<random>.json: a complete one reads    *)
(* like the record it was to become, a torn one fails validation.          *)

ObjectBytes(S) == Total([o \in S |-> Length[o]])

StagingBytes(S) == Total([e \in S |-> Length[ObjectOf[e]]])
Staged == {e \in Entry : staging[e] = "full"}

Complete(kinds) ==
  {e \in Entry : \E t \in temporaries : t.entry = e /\ t.full /\ t.kind \in kinds}
Readable(kinds) == \A t \in temporaries : t.kind \in kinds => t.full

Entries == entries \cup Complete(EntryKind)

(* Mistakes: references are not roots, or leases are not. *)
UnreferencedRootIds ==
  {e \in Entry : \/ pins[e] \in PinKind
                 \/ \E p \in Proc : leases[p] = e
                 \/ e \in stale
                 \/ e \in Complete(RootKind)}

UnleasedRootIds ==
  {e \in Entry : \/ \E r \in Reference : references[r] = e
                 \/ pins[e] \in PinKind
                 \/ e \in Complete(RootKind)}

RootEntryIds ==
  {e \in Entry :
     \/ \E r \in Reference : references[r] = e
     \/ pins[e] \in PinKind
     \/ \E p \in Proc : leases[p] = e
     \/ e \in stale
     \/ e \in Complete(RootKind)}

CollectReadable == Readable(FileKind \cup {"expired"})

(* uuid4: an ID that no file and no operation remembers is a new one. *)
Fresh(e) ==
  /\ e \notin entries \cup stale
  /\ staging[e] = "none"
  /\ pins[e] = "none"
  /\ \A r \in Reference : references[r] # e
  /\ \A t \in temporaries : t.entry # e
  /\ \A p \in Proc : /\ leases[p] # e
                     /\ target[p] # e
                     /\ e \notin listed[p] \cup counted[p]

-----------------------------------------------------------------------------
(* Steps.  Each family of actions ends in a definition that also says what  *)
(* none of its steps changes.                                               *)

Goto(p, label) == pc' = [pc EXCEPT ![p] = label] /\ UNCHANGED locals

Begin(p, label, e, record) ==
  /\ pc' = [pc EXCEPT ![p] = label]
  /\ target' = [target EXCEPT ![p] = e]
  /\ kind' = [kind EXCEPT ![p] = record]
  /\ UNCHANGED <<listed, counted, orphans>>

List(p, S) ==
  /\ listed' = [listed EXCEPT ![p] = S]
  /\ UNCHANGED <<target, kind, counted, orphans>>

Return(p) ==
  /\ pc' = [pc EXCEPT ![p] = "idle"]
  /\ target' = [target EXCEPT ![p] = NoEntry]
  /\ kind' = [kind EXCEPT ![p] = "entry"]
  /\ listed' = [listed EXCEPT ![p] = {}]
  /\ counted' = [counted EXCEPT ![p] = {}]
  /\ orphans' = [orphans EXCEPT ![p] = {}]

Acquire(p) == metadata = NoProc /\ metadata' = p

(* atomic_output, under the metadata claim: create, fill, then replace. *)
StartRecord(p, record) == Begin(p, "create", target[p], record)

WriteTemporary(p) ==
  /\ \/ pc[p] = "create" /\ Goto(p, "fill")
     \/ pc[p] = "fill" /\ Goto(p, "replace")
  /\ UNCHANGED <<claims, payload, roots, temporaries, faults>>

Replacing(p, kinds) == pc[p] = "replace" /\ kind[p] \in kinds

-----------------------------------------------------------------------------
(* import_bytes, import_stream, import_file *)

AdmitImport(p, e, pin) ==
  /\ pc[p] = "idle"
  /\ admission = NoProc /\ admission' = p
  /\ Fresh(e)
  /\ Begin(p, "stage", e, IF pin THEN "pin" ELSE "entry")
  /\ UNCHANGED <<metadata, payload, pins>>

StagingFits(existing, e) ==
  StagingBytes(existing) + Length[ObjectOf[e]] <= MaximumStagingBytes

(* _stage checks the growth before it creates the file. *)
RefuseStaging(p) ==
  /\ pc[p] = "stage"
  /\ ~ StagingFits(Staged, target[p])
  /\ admission' = NoProc
  /\ Return(p)
  /\ UNCHANGED <<metadata, payload, pins>>

(* _stage_stream measures once, then checks before each write. *)
OpenStaging(p) ==
  /\ pc[p] = "stage"
  /\ staging' = [staging EXCEPT ![target[p]] = "empty"]
  /\ pc' = [pc EXCEPT ![p] = "write"]
  /\ List(p, Staged)
  /\ UNCHANGED <<admission, metadata, entries, objects, pins>>

WriteStaging(p) ==
  /\ pc[p] = "write"
  /\ StagingFits(listed[p], target[p])
  /\ staging' = [staging EXCEPT ![target[p]] = "full"]
  /\ Goto(p, "staged")
  /\ UNCHANGED <<admission, metadata, entries, objects, pins>>

(* The source fails, is too long or not the expected contents, staging is   *)
(* full, or the metadata claim times out: the import raises.                *)
AbandonImport(p) ==
  /\ pc[p] \in {"write", "staged"}
  /\ Goto(p, "unstage")
  /\ UNCHANGED <<admission, metadata, payload, pins>>

ClaimPublish(p) ==
  /\ pc[p] = "staged"
  /\ Acquire(p)
  /\ Goto(p, "publish")
  /\ UNCHANGED <<admission, payload, pins>>

(* A mistake: the manifest first, its pin after it. *)
ReuseUnpinned(p) ==
  /\ pc[p] = "publish"
  /\ ObjectOf[target[p]] \in objects
  /\ StartRecord(p, IF kind[p] = "pin" THEN "pinned" ELSE kind[p])
  /\ UNCHANGED <<admission, metadata, payload, pins>>

ReuseObject(p) ==
  /\ pc[p] = "publish"
  /\ ObjectOf[target[p]] \in objects
  /\ StartRecord(p, kind[p])
  /\ UNCHANGED <<admission, metadata, payload, pins>>

(* A mistake: only what is there already is compared with the budget. *)
ObjectsFit(o) == ObjectBytes(objects) <= MaximumObjectBytes

ObjectFits(o) == ObjectBytes(objects) + Length[o] <= MaximumObjectBytes

AdmitObject(p) ==
  /\ pc[p] = "publish"
  /\ ObjectOf[target[p]] \notin objects
  /\ IF ObjectFits(ObjectOf[target[p]])
       THEN Goto(p, "move") /\ UNCHANGED metadata
       ELSE Goto(p, "unstage") /\ metadata' = NoProc
  /\ UNCHANGED <<admission, payload, pins>>

MoveObject(p) ==
  /\ pc[p] = "move"
  /\ objects' = objects \cup {ObjectOf[target[p]]}
  /\ staging' = [staging EXCEPT ![target[p]] = "none"]
  /\ StartRecord(p, kind[p])
  /\ UNCHANGED <<admission, metadata, entries, pins>>

(* A pinned import writes its pin before its entry. *)
PublishPin(p) ==
  /\ Replacing(p, {"pin"}) /\ admission = p
  /\ pins' = [pins EXCEPT ![target[p]] = "pin"]
  /\ StartRecord(p, "pinned")
  /\ UNCHANGED <<admission, metadata, payload>>

PublishEntry(p) ==
  /\ Replacing(p, EntryKind)
  /\ entries' = entries \cup {target[p]}
  /\ metadata' = NoProc
  /\ Goto(p, "unstage")
  /\ UNCHANGED <<admission, objects, staging, pins>>

(* The finally of _stage, then the end of _admission. *)
Unstage(p) ==
  /\ pc[p] = "unstage"
  /\ staging' = [staging EXCEPT ![target[p]] = "none"]
  /\ admission' = NoProc
  /\ Return(p)
  /\ UNCHANGED <<metadata, entries, objects, pins>>

Import(p) ==
  /\ \/ \E e \in Entry, pin \in BOOLEAN : AdmitImport(p, e, pin)
     \/ RefuseStaging(p) \/ OpenStaging(p) \/ WriteStaging(p) \/ AbandonImport(p)
     \/ ClaimPublish(p) \/ ReuseObject(p) \/ AdmitObject(p) \/ MoveObject(p)
     \/ PublishPin(p) \/ PublishEntry(p) \/ Unstage(p)
  /\ UNCHANGED <<readers, recoverer, references, leases, stale, temporaries, faults>>

-----------------------------------------------------------------------------
(* set_reference, remove_reference, add_pin, remove_pin *)

SetReference(p, r, e) ==
  /\ pc[p] = "idle"
  /\ e \in entries
  /\ Acquire(p)
  /\ Begin(p, "create", e, r)
  /\ UNCHANGED <<references, pins>>

ReplaceReference(p) ==
  /\ Replacing(p, Reference)
  /\ references' = [references EXCEPT ![kind[p]] = target[p]]
  /\ metadata' = NoProc
  /\ Return(p)
  /\ UNCHANGED pins

RemoveReference(r) ==
  /\ metadata = NoProc
  /\ references[r] # NoEntry
  /\ references' = [references EXCEPT ![r] = NoEntry]
  /\ UNCHANGED <<metadata, pins, pc, locals>>

AddPin(p, e, life) ==
  /\ pc[p] = "idle"
  /\ e \in entries
  /\ pins[e] = "none"
  /\ Acquire(p)
  /\ Begin(p, "create", e, life)
  /\ UNCHANGED <<references, pins>>

ReplacePin(p) ==
  /\ Replacing(p, PinKind) /\ admission # p
  /\ pins' = [pins EXCEPT ![target[p]] = kind[p]]
  /\ metadata' = NoProc
  /\ Return(p)
  /\ UNCHANGED references

RemovePin(e) ==
  /\ metadata = NoProc
  /\ pins[e] # "none"
  /\ pins' = [pins EXCEPT ![e] = "none"]
  /\ UNCHANGED <<metadata, references, pc, locals>>

UpdateRoot ==
  /\ \/ \E p \in Proc : \/ ReplaceReference(p) \/ ReplacePin(p)
                        \/ \E r \in Reference, e \in Entry : SetReference(p, r, e)
                        \/ \E e \in Entry, life \in PinKind : AddPin(p, e, life)
     \/ \E r \in Reference : RemoveReference(r)
     \/ \E e \in Entry : RemovePin(e)
  /\ UNCHANGED <<admission, readers, recoverer, payload, leases, stale, temporaries, faults>>

(* expires_at passes, for a pin and for a complete temporary of one. *)
ExpirePin(e) ==
  LET due == {t \in temporaries : t.kind = "timed" /\ t.entry = e}
  IN  /\ pins[e] = "timed" \/ due # {}
      /\ pins' = [pins EXCEPT ![e] = IF @ = "timed" THEN "expired" ELSE @]
      /\ temporaries' = (temporaries \ due) \cup 
           {[kind |-> "expired", entry |-> e, full |-> t.full] : t \in due}
      /\ UNCHANGED <<claims, payload, references, leases, stale, pc, locals, faults>>

-----------------------------------------------------------------------------
(* open_entry, verified_path, open_expected, export_entry: _open_selected *)

ClaimReader(p) ==
  /\ pc[p] = "idle"
  /\ recoverer = NoProc
  /\ readers' = readers \cup {p}
  /\ Goto(p, "select")
  /\ UNCHANGED <<metadata, leases, stale>>

(* open_entry reads the entry's own path, open_expected scans the directory. *)
SelectEntry(p, e) ==
  /\ pc[p] = "select"
  /\ e \in entries \/ (e \in Entries /\ Readable(EntryKind))
  /\ Acquire(p)
  /\ Begin(p, "create", e, "lease")
  /\ UNCHANGED <<readers, leases, stale>>

(* Unknown entry, no match, a torn manifest, or the claim times out. *)
FailSelect(p) ==
  /\ pc[p] = "select"
  /\ readers' = readers \ {p}
  /\ Return(p)
  /\ UNCHANGED <<metadata, leases, stale>>

PublishLease(p) ==
  /\ Replacing(p, {"lease"})
  /\ leases' = [leases EXCEPT ![p] = target[p]]
  /\ metadata' = NoProc
  /\ Goto(p, "open")
  /\ UNCHANGED <<readers, stale>>

(* A missing object raises AssetCorruptionError. *)
OpenObject(p) ==
  /\ pc[p] = "open"
  /\ Goto(p, IF ObjectOf[target[p]] \in objects THEN "reading" ELSE "close")
  /\ UNCHANGED <<metadata, readers, leases, stale>>

CloseReader(p) ==
  /\ pc[p] = "reading"
  /\ Goto(p, "close")
  /\ UNCHANGED <<metadata, readers, leases, stale>>

(* A mistake: every thread is taken to have leased something. *)
SomeLeaseFile(p) == {leases[p]}

LeaseFile(p) == {leases[p]} \ {NoEntry}

(* When the last metadata claim times out the lease file stays behind. *)
ReleaseLease(p) ==
  /\ pc[p] = "close"
  /\ leases' = [leases EXCEPT ![p] = NoEntry]
  /\ stale' = stale \cup IF metadata = NoProc THEN {} ELSE LeaseFile(p)
  /\ readers' = readers \ {p}
  /\ Return(p)
  /\ UNCHANGED metadata

Read(p) ==
  /\ \/ ClaimReader(p) \/ FailSelect(p) \/ PublishLease(p) \/ OpenObject(p)
     \/ CloseReader(p) \/ ReleaseLease(p)
     \/ \E e \in Entry : SelectEntry(p, e)
  /\ UNCHANGED <<admission, recoverer, payload, references, pins, temporaries, faults>>

-----------------------------------------------------------------------------
(* plan_collection and collect.  Which entries the rules protect or retain  *)
(* is open here: any unrooted entry may be eligible.                        *)

Unrooted(S) == {e \in S : e \notin RootEntryIds}

PlanCollection(p) ==
  /\ pc[p] = "idle"
  /\ metadata = NoProc
  /\ CollectReadable
  /\ \E planned \in SUBSET Unrooted(Entries) : List(p, planned)
  /\ pc' = [pc EXCEPT ![p] = "planned"]
  /\ UNCHANGED <<metadata, entries, objects, pins, temporaries>>

(* The claim times out, or a record cannot be read. *)
AbandonCollection(p) ==
  /\ pc[p] = "planned"
  /\ metadata # NoProc \/ ~ CollectReadable
  /\ Return(p)
  /\ UNCHANGED <<metadata, entries, objects, pins, temporaries>>

(* A mistake: the plan is trusted under the second claim. *)
Planned(planned) == planned \cap Entries

(* The second claim: roots, entries and object counts are read again. *)
Renewed(planned) == Unrooted(planned \cap Entries)

ClaimCollection(p) ==
  /\ pc[p] = "planned"
  /\ CollectReadable
  /\ Acquire(p)
  /\ \E eligible \in SUBSET Renewed(listed[p]) :
       listed' = [listed EXCEPT ![p] = eligible]
  /\ counted' = [counted EXCEPT ![p] = Entries]
  /\ pc' = [pc EXCEPT ![p] = "sweep"]
  /\ UNCHANGED <<entries, objects, pins, temporaries, target, kind, orphans>>

(* A mistake: the object goes with every entry. *)
AlwaysLast(p, e) == TRUE

(* object_counts: no other counted entry has this entry's object. *)
LastOfObject(p, e) ==
  \A other \in counted[p] \ {e} : ObjectOf[other] # ObjectOf[e]

UnlinkEntry(p, e) ==
  /\ pc[p] = "sweep"
  /\ e \in listed[p]
  /\ e \in entries
  /\ entries' = entries \ {e}
  /\ listed' = [listed EXCEPT ![p] = @ \ {e}]
  /\ counted' = [counted EXCEPT ![p] = @ \ {e}]
  /\ target' = [target EXCEPT ![p] = e]
  /\ pc' = [pc EXCEPT ![p] = IF LastOfObject(p, e) THEN "unlink" ELSE "sweep"]
  /\ UNCHANGED <<metadata, objects, pins, temporaries, kind, orphans>>

(* The entry was read from a temporary: its own path does not exist. *)
FailUnlink(p) ==
  /\ pc[p] = "sweep"
  /\ \E e \in listed[p] : e \notin entries
  /\ metadata' = NoProc
  /\ Return(p)
  /\ UNCHANGED <<entries, objects, pins, temporaries>>

UnlinkObject(p) ==
  /\ pc[p] = "unlink"
  /\ objects' = objects \ {ObjectOf[target[p]]}
  /\ Goto(p, "sweep")
  /\ UNCHANGED <<metadata, entries, pins, temporaries>>

UnlinkExpired(p, e) ==
  LET due == {t \in temporaries : t.kind = "expired" /\ t.entry = e}
  IN  /\ pc[p] = "sweep"
      /\ listed[p] = {}
      /\ pins[e] = "expired" \/ due # {}
      /\ pins' = [pins EXCEPT ![e] = IF @ = "expired" THEN "none" ELSE @]
      /\ temporaries' = temporaries \ due
      /\ UNCHANGED <<metadata, entries, objects, pc, locals>>

EndCollection(p) ==
  /\ pc[p] = "sweep"
  /\ listed[p] = {}
  /\ metadata' = NoProc
  /\ Return(p)
  /\ UNCHANGED <<entries, objects, pins, temporaries>>

Collect(p) ==
  /\ \/ PlanCollection(p) \/ AbandonCollection(p) \/ ClaimCollection(p)
     \/ FailUnlink(p) \/ UnlinkObject(p) \/ EndCollection(p)
     \/ \E e \in Entry : UnlinkEntry(p, e) \/ UnlinkExpired(p, e)
  /\ UNCHANGED <<admission, readers, recoverer, staging, references, leases, stale, faults>>

-----------------------------------------------------------------------------
(* recover.  Its three claims are nonblocking and taken one after the       *)
(* other; a failed one releases those before it, so only their success      *)
(* shows.  A torn entry manifest raises before anything is deleted.         *)

(* A mistake: imports are not waited for. *)
ReaderClaims(p) ==
  /\ readers = {} /\ recoverer = NoProc /\ recoverer' = p
  /\ Acquire(p)
  /\ UNCHANGED admission

RecoveryClaims(p) ==
  /\ admission = NoProc /\ admission' = p
  /\ readers = {} /\ recoverer = NoProc /\ recoverer' = p
  /\ Acquire(p)

(* A mistake: a root is enough for an object to stay. *)
Unused == objects \ {ObjectOf[e] : e \in Entries \cup RootEntryIds}

Orphans == objects \ {ObjectOf[e] : e \in Entries}

ClaimRecovery(p) ==
  /\ pc[p] = "idle"
  /\ RecoveryClaims(p)
  /\ Readable(EntryKind)
  /\ listed' = [listed EXCEPT ![p] = {e \in Entry : staging[e] # "none"}]
  /\ orphans' = [orphans EXCEPT ![p] = Orphans]
  /\ pc' = [pc EXCEPT ![p] = "recover"]
  /\ UNCHANGED <<objects, staging, leases, stale, temporaries, target, kind, counted>>

DiscardOrphan(p, o) ==
  /\ pc[p] = "recover"
  /\ o \in orphans[p]
  /\ objects' = objects \ {o}
  /\ orphans' = [orphans EXCEPT ![p] = @ \ {o}]
  /\ UNCHANGED <<admission, metadata, recoverer, staging, leases, stale, temporaries,
                 pc, target, kind, listed, counted>>

DiscardStaging(p, e) ==
  /\ pc[p] = "recover"
  /\ orphans[p] = {}
  /\ e \in listed[p]
  /\ staging' = [staging EXCEPT ![e] = "none"]
  /\ List(p, listed[p] \ {e})
  /\ UNCHANGED <<admission, metadata, recoverer, objects, leases, stale, temporaries, pc>>

(* Every file in state/leases goes, whoever wrote it. *)
LeaseFiles(e) == {t \in temporaries : t.kind = "lease" /\ t.entry = e}

DiscardLease(p, e) ==
  /\ pc[p] = "recover"
  /\ orphans[p] = {} /\ listed[p] = {}
  /\ e \in stale \/ LeaseFiles(e) # {} \/ \E q \in Proc : leases[q] = e
  /\ stale' = stale \ {e}
  /\ leases' = [q \in Proc |-> IF leases[q] = e THEN NoEntry ELSE leases[q]]
  /\ temporaries' = temporaries \ LeaseFiles(e)
  /\ UNCHANGED <<admission, metadata, recoverer, objects, staging, pc, locals>>

EndRecovery(p) ==
  /\ pc[p] = "recover"
  /\ orphans[p] = {} /\ listed[p] = {} /\ stale = {}
  /\ \A q \in Proc : leases[q] = NoEntry
  /\ \A t \in temporaries : t.kind # "lease"
  /\ admission' = NoProc /\ metadata' = NoProc /\ recoverer' = NoProc
  /\ Return(p)
  /\ UNCHANGED <<objects, staging, leases, stale, temporaries>>

Recover(p) ==
  /\ \/ ClaimRecovery(p) \/ EndRecovery(p)
     \/ \E o \in Object : DiscardOrphan(p, o)
     \/ \E e \in Entry : DiscardStaging(p, e) \/ DiscardLease(p, e)
  /\ UNCHANGED <<readers, entries, references, pins, faults>>

-----------------------------------------------------------------------------
(* Faults *)

(* atomic_output raises: its finally removes the temporary, and each        *)
(* operation unwinds through the claims it holds.                           *)
FailRecord(p) ==
  /\ pc[p] \in {"create", "fill", "replace"}
  /\ metadata' = NoProc
  /\ readers' = readers \ {p}
  /\ IF admission = p THEN Goto(p, "unstage") ELSE Return(p)
  /\ UNCHANGED <<admission, recoverer, leases, stale, temporaries>>

Vacated(holder, p) == IF holder = p THEN NoProc ELSE holder

(* The process dies: the kernel drops its claims, its files stay. *)
Crash(p) ==
  /\ pc[p] # "idle"
  /\ admission' = Vacated(admission, p)
  /\ metadata' = Vacated(metadata, p)
  /\ recoverer' = Vacated(recoverer, p)
  /\ readers' = readers \ {p}
  /\ leases' = [leases EXCEPT ![p] = NoEntry]
  /\ stale' = stale \cup LeaseFile(p)
  /\ temporaries' = temporaries \cup
       IF pc[p] \in {"fill", "replace"}
         THEN {[kind |-> kind[p], entry |-> target[p], full |-> pc[p] = "replace"]}
         ELSE {}
  /\ Return(p)

Fault(p) ==
  /\ faults < MaxFaults
  /\ faults' = faults + 1
  /\ FailRecord(p) \/ Crash(p)
  /\ UNCHANGED <<payload, references, pins>>

-----------------------------------------------------------------------------
Next ==
  \/ \E p \in Proc : \/ Import(p) \/ Read(p) \/ Collect(p) \/ Recover(p)
                    \/ WriteTemporary(p) \/ Fault(p)
  \/ UpdateRoot
  \/ \E e \in Entry : ExpirePin(e)

Spec == Init /\ [][Next]_vars

-----------------------------------------------------------------------------
(* Properties *)

(* A manifest in entries/ never names bytes that are gone: collect unlinks  *)
(* the manifest before the object and only the last manifest takes the      *)
(* object along, and import and recover see no manifest being taken away,   *)
(* wherever any of them crashes.                                            *)
EntryHasObject == \A e \in Entries : ObjectOf[e] \in objects

(* From the lease to the close of _open_selected the entry and the bytes a  *)
(* reader selected stay on disk, whoever collects or recovers meanwhile.    *)
ReaderKeepsEntry ==
  \A p \in Proc : pc[p] \in {"open", "reading"} =>
    /\ leases[p] = target[p]
    /\ target[p] \in Entries
    /\ ObjectOf[target[p]] \in objects

(* recover discards abandoned staging files only: the complete staged file  *)
(* of an import that is alive stays until that import moves or unlinks it.  *)
LiveStagingStays ==
  \A p \in Proc : pc[p] \in {"staged", "publish", "move"} =>
    staging[target[p]] = "full"

(* Distinct objects, and staged files of concurrent imports and of crashed  *)
(* ones, stay within the byte budgets of AssetCapacity.                     *)
WithinCapacity ==
  /\ ObjectBytes(objects) <= MaximumObjectBytes
  /\ StagingBytes(Staged) <= MaximumStagingBytes

(* The entry a reference names is there: set_reference looks it up under    *)
(* the claim it writes under, and collect reads the roots again under its   *)
(* second claim.                                                            *)
ReferencesResolve ==
  \A r \in Reference : references[r] # NoEntry => references[r] \in entries

(* The store implements RetainedBytes: no step takes the manifest or the    *)
(* bytes of an entry away while a reference, an unexpired pin or a lease    *)
(* roots it, although collect decides on what it read before.               *)
Retained == INSTANCE RetainedBytes WITH
  retained <- {e \in entries : ObjectOf[e] \in objects}, roots <- RootEntryIds
RetainsRooted == Retained!Spec

(* A pinned import is never visible without its pin: a collection between   *)
(* the two records, or a crash, cannot take the entry its caller asked to   *)
(* keep.                                                                    *)
PinnedFromBirth ==
  [][\A p \in Proc :
       kind[p] = "pinned" /\ target[p] \in entries' \ entries => pins[target[p]] = "pin"]_vars

(* When recover returns, no staged file, orphan object or asset lease is    *)
(* left: nothing new appeared after it listed what to discard.              *)
RecoveryIsComplete ==
  [][\A p \in Proc : (pc[p] = "recover" /\ pc'[p] = "idle" /\ faults' = faults) =>
       /\ \A e \in Entry : staging'[e] = "none"
       /\ objects' = {ObjectOf[e] : e \in Entries'}
       /\ stale' = {}]_vars

(* shared-features.md says plan_recovery lists abandoned staging files and  *)
(* unreferenced objects once no writer or reader is active.  It does not    *)
(* while a crash has left a torn entry manifest: _recovery_candidates reads *)
(* every entries/*.json first.                                              *)
AbandonedIsListed ==
  /\ \A p \in Proc : pc[p] = "idle"
  /\ Orphans # {} \/ \E e \in Entry : staging[e] # "none"
  => Readable(EntryKind)
=============================================================================
