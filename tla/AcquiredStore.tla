---------------------------- MODULE AcquiredStore ----------------------------
(***************************************************************************)
(* What CurrentUrl and ValueAssets share: the entries of one source key,   *)
(* their readers, the collections that take them away, and the claim that  *)
(* lets one thread at a time resolve the key.                              *)
(*                                                                         *)
(* The store itself is taken at its word: imports, leases and collections  *)
(* are the steps RetainedBytes allows, which AssetStore implements; Bytes  *)
(* says so.                                                                *)
(***************************************************************************)
EXTENDS HttpFreshness, Retention

CONSTANTS
  Proc,       \* threads that open the asset
  MaxEntry,   \* bound: entry IDs, as numbers
  MaxBody,    \* bound: versions of the URL, or values a provider produces
  MaxNow,     \* bound: the clock
  Rules,      \* the RetentionRules of every collection
  Requests,   \* what a caller's headers may ask for
  NoProc

ASSUME StoreAssumption ==
  /\ NoProc \notin Proc
  /\ MaxEntry \in Nat /\ MaxBody \in Nat \ {0} /\ MaxNow \in Nat
  /\ \A rule \in Rules : ValidRule(rule)

Entry == 1..MaxEntry
Body == 1..MaxBody
Time == 0..MaxNow
NoEntry == 0
NoBody == 0

VARIABLES
  source,      \* the source kind of the key: "download" or "complete_array"
  request,     \* the headers of every call, which are part of the key
  now,         \* the clock
  retained,    \* entries whose manifest and bytes are there
  contents,    \* the body of each of them
  created,     \* created_at of each of them
  access,      \* state/access/<id>.json, or Never
  record,      \* state/http/<key>.json, or NoRecord
  collection,  \* a collection between its two claims, or NoCollection
  holder,      \* holder of the key's claim
  pc,          \* where it stands
  call,        \* its locals
  answer,      \* the response it was sent, or NoAnswer
  reader       \* what each thread was yielded

store == <<retained, contents, created>>
key == <<source, request>>
calls == <<holder, pc, call, answer>>

NoRecord == [entry |-> NoEntry]
NoCollection == [planned |-> {}, at |-> Never, pressure |-> FALSE]
NoAnswer == [version |-> NoBody]
NoCall == [usable |-> FALSE, attempt |-> 0, entry |-> NoEntry, body |-> NoBody,
           since |-> 0, requested |-> 0, responded |-> 0]
NoReader == [entry |-> NoEntry, body |-> NoBody, since |-> 0]

StoreInit ==
  /\ source \in {"download", "complete_array"}
  /\ request \in IF source = "download" THEN Requests ELSE {Plain}
  /\ now = 0
  /\ retained = {}
  /\ contents = [e \in Entry |-> NoBody]
  /\ created = [e \in Entry |-> 0]
  /\ access = [e \in Entry |-> Never]
  /\ record = NoRecord
  /\ collection = NoCollection
  /\ holder = NoProc /\ pc = "idle" /\ call = NoCall /\ answer = NoAnswer
  /\ reader = [p \in Proc |-> NoReader]

-----------------------------------------------------------------------------
(* Collections.                                                             *)

Leased == {reader[p].entry : p \in Proc} \ {NoEntry}

Bytes == INSTANCE RetainedBytes WITH roots <- Leased

Manifest(e) ==
  [id |-> e, source |-> source, created |-> created[e], access |-> access[e]]
Manifests == {Manifest(e) : e \in retained}

(* _fresh_entry_ids.  A record from after the collection's instant is out of *)
(* order for response_freshness, which raises, and grants nothing.          *)
FreshEntryIds(at) ==
  IF /\ record # NoRecord /\ record.entry \in retained
     /\ record.responded <= at
     /\ Fresh(record.headers, Plain, record.requested, record.responded, at)
    THEN {record.entry} ELSE {}

EligibleEntries(at, pressure) ==
  {e \in retained \ Leased :
     Eligible(Manifest(e), Rules, Manifests, FreshEntryIds(at), at, pressure)}

PlanCollection(pressure) ==
  /\ collection = NoCollection
  /\ EligibleEntries(now, pressure) # {}
  /\ collection' = [planned |-> EligibleEntries(now, pressure), at |-> now,
                    pressure |-> pressure]
  /\ UNCHANGED <<key, now, store, access, record, calls, reader>>

(* A mistake: only the roots are read again. *)
Unleased == collection.planned \ Leased

(* What of the plan still holds under the second claim. *)
Renewed == collection.planned \cap EligibleEntries(collection.at, collection.pressure)

(* The access record stays, but nothing asks for it again. *)
Forget(S) ==
  /\ retained' = retained \ S
  /\ contents' = [e \in Entry |-> IF e \in S THEN NoBody ELSE contents[e]]
  /\ created' = [e \in Entry |-> IF e \in S THEN 0 ELSE created[e]]
  /\ access' = [e \in Entry |-> IF e \in S THEN Never ELSE access[e]]

(* All of them, unless the collector dies halfway. *)
Collect ==
  /\ collection # NoCollection
  /\ \E deleted \in SUBSET Renewed : Forget(deleted)
  /\ collection' = NoCollection
  /\ UNCHANGED <<key, now, record, calls, reader>>

-----------------------------------------------------------------------------
(* The claim of the key, and the readers.                                   *)

Claim(p, label) ==
  /\ holder = NoProc /\ reader[p] = NoReader
  /\ holder' = p /\ pc' = label
  /\ UNCHANGED <<key, now, store, access, record, collection, call, answer, reader>>

Release == holder' = NoProc /\ pc' = "idle" /\ call' = NoCall /\ answer' = NoAnswer

(* The call raises, wherever it stands, or its process dies. *)
Abandon ==
  /\ holder # NoProc
  /\ Release
  /\ UNCHANGED <<key, now, store, access, record, collection, reader>>

(* An ID that no file and no thread remembers is a new one. *)
NewEntry(e) ==
  e \notin retained \cup collection.planned \cup {record.entry, call.entry}

Import(e, body) ==
  /\ retained' = retained \cup {e}
  /\ contents' = [contents EXCEPT ![e] = body]
  /\ created' = [created EXCEPT ![e] = now]

(* The caller has the bytes; the claim is released before it is yielded to. *)
Yield(e, body, since) ==
  /\ reader' = [reader EXCEPT ![holder] =
                  [entry |-> e, body |-> body, since |-> since]]
  /\ Release

(* A caller that consumed a stored entry leaves an access record; one that   *)
(* never closes is a lease that a crash left behind.                        *)
CloseReader(p, consumed) ==
  /\ reader[p] # NoReader
  /\ reader' = [reader EXCEPT ![p] = NoReader]
  /\ access' = IF consumed /\ reader[p].entry # NoEntry
               THEN [access EXCEPT ![reader[p].entry] = now] ELSE access
  /\ UNCHANGED <<key, now, store, record, collection, calls>>

Tick ==
  /\ now < MaxNow
  /\ now' = now + 1
  /\ UNCHANGED <<key, store, access, record, collection, calls, reader>>

StoreNext ==
  \/ Tick \/ Collect \/ Abandon
  \/ \E pressure \in BOOLEAN : PlanCollection(pressure)
  \/ \E p \in Proc, consumed \in BOOLEAN : CloseReader(p, consumed)

-----------------------------------------------------------------------------
(* An ordinary collection leaves the body of a response alone that is fresh  *)
(* at its instant, also one that was stale when the collection was planned   *)
(* and has been revalidated since; only pressure may take it.               *)
FreshIsKept ==
  [][ collection # NoCollection /\ ~ collection.pressure
      /\ collection' = NoCollection
      => FreshEntryIds(collection.at) \subseteq retained' ]_<<store, collection>>
=============================================================================
