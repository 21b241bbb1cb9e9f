# Specifications of reccy

TLA+ models of the concurrent and failure-prone parts of `reccy` (`src/reccy`),
the TLC runs that check them on small instances, and TLAPS proofs of their main
theorems for every instance.

## The system

`reccy` is a library for long-running local services. These are its parts.

| Part | State | Operations | Interacts with | Hard about it |
|---|---|---|---|---|
| Asset store (`runtime/assets.py`, `claims.py`, `files.py`) | manifests, objects, staged files, references, pins, leases, access records, three lock files | import, set/remove roots, open, plan/collect, recover | every process that shares the directory | interleaved processes, crashes between files, claims that time out |
| Capture session (`runtime/capture.py`) | ring buffer, pending and stored fragments, gaps, counters | `queue_fragment`, `drain`, `finish`, `abort`, `salvage` | a provider's callback thread; the asset store | a producer under way while the session drains or closes; imports that fail halfway |
| Capture store (`runtime/capture.py`) | capture and recovery records, references, pins, leases | publish, roots, `open_record`, plan/collect | asset store (pins, metadata claim) | two collectors over one set of files, updates of several files |
| RPC server (`protocol/rpc.py`) | connections, workers, event queues, cancellations, free places | accept, serve, publish, close | IPC transport, request handlers, subscribers | shutdown against new connections, laggards, timers |
| RPC clients (`protocol/rpc.py`) | one connection, a terminal reason, the outcome of a call | `call`; `start`, `close`, `wait_closed` | server, callbacks, IPC transport | close racing start, timer or reader |
| IPC transport (`protocol/ipc.py`) | sockets, pipes being connected, framing of messages | listen, accept, connect, write with timeout, close | operating system | a connection that is made after its caller has gone |
| Delta codec (`protocol/jsonl.py`) | the record before | compress, decompress | | nothing: one pass over records |
| Reccy lifecycle (`reccy.py`) | started, stopping, server, status file | start, handle requests, publish, close | RPC server, hooks of the application | failure inside start or close |
| Service controller (`services/`) | installed files, what the service manager has loaded | install, uninstall, start, stop, restart, status | launchd, systemd, Task Scheduler | rollback of a partial change |
| Current-URL assets (`runtime/http_*.py`) | response records per request key | `open_current_https_asset` | asset store, network, caches | stale record, collected body, revalidation |
| Deterministic values (`runtime/value_assets.py`) | first identity of each value | `open_deterministic_asset` | asset store, provider | two writers of one value, a crash before the record |
| Asset sets, files, Git | none of their own beyond roots | acquire, open | asset store | little: sequential |
| Snapshot publication (`runtime/publication.py`) | one pending value, a worker | publish, close | a writer callback | losing the last value |
| Retry schedule, randomizer, log rotation, processes | small counters | next delay, random numbers, rotate, terminate | | numeric edges |
| Configuration, renderers, developer tools | none shared | parse, generate | | nothing a model checker reaches |

What makes each part correct: the asset store never leaves a manifest without its
bytes, never takes rooted or leased bytes, keeps to its byte budgets, and recovers
exactly what is abandoned; a capture accounts for every frame it was shown, loses no
byte of a fragment, and its record keeps its fragments; a closed server leaves no
thread, connection or place behind and what on_closed releases is not in use; a
subscriber misses nothing until it is dropped; a client never waits for its peer
forever, closes the connection it was given and does not conclude that a request was not
started which was; a failed installation is undone; what a URL yields is not older than its
response permits, and a declared value is always the same bytes.

## Modules

| Module | Models | Checked by |
|---|---|---|
| `RetainedBytes` | abstract: entries stay readable while they are rooted | as a property of `AssetStore` |
| `ByteCount` | how many bytes files or fragments have together (operators) | `asset_capacity`, `capture_session` |
| `AssetStore` | `AssetStore`, `ResourceClaim`, `atomic_output` | `asset_shared`, `asset_capacity`, `asset_torn` |
| `CaptureSession` | `CaptureSession` and its ring | `capture_session` |
| `CaptureStore` | `CaptureStore`, on top of `RetainedBytes` | `capture_store`, `capture_salvage` |
| `RpcServer` | `rpc.Server` | `rpc_server`, through `ReccyLifecycle` |
| `ReccyLifecycle` | `Reccy` composed with its `RpcServer` | `rpc_server` |
| `PipeConnect` | `connect_windows_pipe` | `rpc_client`, through `RpcClient` |
| `RpcClient` | `Client.call` and `EventClient` over `PipeConnect` | `rpc_client`, `event_orphan` |
| `ServiceController` | `ServiceController` and its service managers | `service_install`, `service_unloaded` |
| `HttpFreshness` | `response_freshness` (operators) | `acquired` |
| `Retention` | retention rules of the asset store (operators) | `acquired` |
| `AcquiredStore` | entries, readers, collections and claim of one source key | `acquired` |
| `CurrentUrl` | `open_current_https_asset` over `AcquiredStore` | `acquired` |
| `ValueAssets` | `open_deterministic_asset` over `AcquiredStore` | `acquired` |
| `AcquiredAssets` | both of them on one store | `acquired` |
| `AssetStoreProofs`, `CaptureSessionProofs`, `CaptureStoreProofs`, `RpcServerProofs`, `RpcClientProofs`, `ServiceControllerProofs`, `AcquiredProofs`, `ByteCountProofs` | theorems | TLAPS |
| `MCAssetStore`, `MCCaptureStore`, `MCAcquired` | values and symmetry for TLC | |

A section of the code under a lock is one step. Everything that a section does not
cover is a step of its own: a file that is created, replaced or unlinked, a call that
blocks, a timer that fires.

### AssetStore

A `Proc` is a thread of some process. Its `pc` names the position in the operation
it runs; `target`, `kind`, `listed`, `counted` and `orphans` are the locals of that
operation. The other variables are the files in the store and the holders of the
three lock files. Each file that is created, replaced or unlinked is a step of its
own, so every operation interleaves with every other wherever the claims let it,
and a `Crash` can happen between any two files: the claims of the thread are
dropped by the kernel and its files stay. `atomic_output` has three steps (create,
fill, replace); a crash in the second leaves a torn temporary, in the third a
complete one. Because `glob('*.json')` finds these temporaries too, a complete one
counts as the record it was to become (`Entries`, `RootEntryIds`) and a torn one
makes the readers of its directory fail (`Readable`).

A claim that times out is an action which is enabled while the claim is busy. Waiting
for the first claim of an operation is the same as being idle. Recovery's three claims
do not wait; taking them one by one only to release them on a conflict changes nothing
that another operation waits for longer than its timeout, so only their joint success
is a step.

Abstracted: contents are an `Object` with a length, and the blocks of a staged file are
written in one step, so that a crash leaves it empty or whole; an object that is there
already has the bytes it should (`verify_object`, which looks, is left out); time is `ExpirePin`, which may
expire a timed pin at any moment; retention rules are any choice among the unrooted
entries, which includes every rule (`Retention` has the rules themselves); an entry
has at most one pin (two pins of one entry root it like one that lasts longer); the
free-space margin is a failure of the import like any other (`AbandonImport`); records
of access, which only feed the rules, and the directory fsync that the code does not
do are left out.

### CaptureSession

`_lock` sections are single steps; `_drain_lock` is held while `pc` is not `idle`.
A byte in the ring is identified by its fragment's first frame and its index, so that
`PayloadIntact` can tell whether the bytes taken are the bytes queued. Imports and
record writes fail at any time, any number of times.

### CaptureStore

A record is a pair of kind and session. The metadata claim is held over several steps
by a salvage and by a collection; every other update is one file and one step. Fragments
are entries of `RetainedBytes`, whose actions the module uses for imports
and for `AssetStore.collect`. A session or collector can fail or crash before each
file. Temporaries left by a crash are not modelled here: a torn one stops collections
and a complete one is one more record or root, so both only keep more than the model
does, and an unlink that fails on one is `Leave`. A crash between the records and the
pins of a collection (`capture.py:376`) leaves pins that no record owns and nothing removes:
the model reaches this, but they only keep more, and `RecordsKeepFragments` does not speak
of them. A host that removes fragment pins by `AssetStore.remove_pin` itself is outside the
model.

### RpcServer and ReccyLifecycle

`RpcServer` has the position of each accept loop, of the worker of each connection and
of the writer of each subscriber, next to the fields of `Server`: `running`, the
backends, `connections`, the free places of the two semaphores, `cancellations`,
`event_queues` and what `close` has taken of them. A peer connects once, sends what it
likes and closes when it likes. The handshake and request timers fire at any time,
also after `timer.cancel()` when they were already running (`CloseLateHandshake`,
`ExpireRequest`). A thread that does not
start (`Refuse`, `FailWatcher`, `FailWriter`) undoes what the code undoes. `close` is
five steps (take under the lock, set cancellations, wake the writers, close the
transports, join) and may time out and be called again. The thread of a disconnect
watcher is not a thread of `self.threads`; its effect is `WatchDisconnect`.

`ReccyLifecycle` adds the owner, one thread that calls `start` and `close`, with hooks
that may raise at each place, `rpc_response`, whose first test reads `started` and
`stopping`, and publication by any thread. A `start` that fails closes the server
twice and then calls `on_closed` even when both timed out (`EndAbort`), so a handler
may then still run: `ResourcesOutliveHandlers` is about `close`, which does not.

Abstracted: messages are not distinguished beyond what the next step is; events are
numbered from the first that anybody is subscribed to, and the numbers start again
when no writer is left. The settings, the status and the paths of `Reccy` are data.

### PipeConnect and RpcClient

`PipeConnect` is the helper thread that connects to a Windows pipe, the caller that
waits for its `results` queue and gives up after `PIPE_CONNECT_TIMEOUT`, and the set of
endpoints that are being connected. The places where each of the two may find that the
other has gone are steps of their own. A connection that comes too late is dropped and not
closed: the code closes what `isinstance(result, connection.Connection)`, and what
`connection.Client` returns for `AF_PIPE`, a `PipeConnection`, is none. It is open until it is
collected as garbage (`Reclaim`, an external step that nothing obliges to happen). (Sockets
are connected by the caller itself, which is a case of this with nothing in between.)

`RpcClient` composes it with both clients. A `Caller` is one `Client.call`: its timer,
which closes the connection from another thread, the request, which the server may have
read although the write failed, and the `outcome` it reports. The server may answer anything
at any time; the client takes the word of an error line for the outcome, also when it
is wrong (`ReadError`), so `OutcomeIsHonest` is about the failures that the client finds
itself. A `Stream` is one
`EventClient`: `start`, its timer, its reader and `close` by any thread all meet in
`_finish`, whose first part (under the lock) decides who finishes and whose second
closes the connection and sets the completion. A timer whose thread does not start raises
outside of the `try` of both and leaves the connection open (`FailTimer`); `NothingLeftOpen`
speaks of neither these clients nor of `orphaned` streams, and of the connections that came
too late it says that they are the only other ones.

### ServiceController

An operation is a list of steps still to do, and a failure replaces it by the list of
its rollback, as the code computes it from `attempted`, `completed` and what it read
before. A step may succeed, fail without effect or raise after its effect (a timeout,
an interrupt). The three service managers are modelled by which commands they accept
and what these change; the installed program writes its files while it runs, and on
Linux somebody may enable or disable the unit between two operations. The rollback's
own steps may fail and are then noted (`uncertain`); the properties are about rollbacks
that did all they meant to.

### AcquiredStore, CurrentUrl, ValueAssets

`AcquiredStore` has the entries of one source key, the claim that lets one thread at a
time resolve it, the readers with their leases, the access records they leave and
collections between their two claims: planned under one, renewed under the other,
by the rules of `Retention` and the freshness of `HttpFreshness`. The store itself is
taken at the word of `RetainedBytes`, which `AssetStore` implements; `Bytes` is the mapping
under which the module keeps to it, with the leased entries for roots.

`CurrentUrl` follows one call through reuse, request, answer, revalidation or fetch,
record and lease. The origin changes its body at any time; a cache on the way may
answer with what the origin said `age` seconds ago and confuse one version with another
in a 304, whose ETag then says so. `ValueAssets` follows a call through
finding, producing, comparing, remembering, importing and naming. Each step can be the
last of its process (`Abandon`).

A record refreshed after a collection's instant counts as not fresh for it, because
`response_freshness` raises for instants out of order and `_fresh_entry_ids` then
grants nothing (`assets.py:1115`); `FreshIsKept` speaks of responses no later than
that instant. The error "HTTP validation did not provide a usable body" cannot be
reached: the second round asks without a condition. A 304 to an unconditional request
is not modelled, nor is the cap of 2^31 seconds of `_delta`, which is beyond TLC's
integers.

## Runs

| Run | Instance | States | Question |
|---|---|---|---|
| `asset_shared` | 2 threads, 2 entries with one shared object, 1 reference, 1 fault | 1 538 814 | the interplay of all operations, the object count, crashes |
| `asset_capacity` | 2 threads, entries of length 1 and 2, budgets of 2, 2 faults | 1 026 246 | byte budgets with leftovers of crashes |
| `asset_torn` | as `asset_shared` | | finding: recovery after a torn manifest |
| `capture_session` | ring of 3 bytes, budget of 4, fragments of 1 or 2 bytes and frames, 5 frames | 169 045 | ring, counters, gaps and closing, for every bound and overflow policy |
| `capture_store` | 2 sessions, 2 fragments, 1 collector, 1 reader, 1 reference | 1 801 724 | records and roots against both collections |
| `capture_salvage` | as `capture_store` | | finding: a salvage that fails halfway |
| `rpc_server` | 1 request and 1 event connection, 1 place each, queue of 1, 2 events | 353 866 | shutdown, cancellation, laggards, timers, and that everything ends |
| `rpc_client` | 1 call and 1 stream that connect to one pipe | 33 802 | races of timers, helpers, readers and close; that clients return |
| `event_orphan` | as `rpc_client` | | finding: close during start |
| `service_install` | all platforms; no constants | 47 220 | rollbacks after any failing step of any sequence of operations |
| `service_unloaded` | as `service_install` | | finding: uninstall of a stopped service |
| `acquired` | 2 threads, 2 entries, 2 bodies, clock to 2, 3 responses, 3 requests, 3 rules | 1 352 351 | staleness, identity and retention, with collections and crashes anywhere |

**Asset store.** Two threads are enough for the conflicts of two operations, which the
claims reduce all conflicts to; the proofs cover any number. Two entries with one
object let the count reach two; budgets of 2 refuse a second object of length 2 and
admit one of length 1. One fault reaches each crash and what the operations make of it,
two (in `asset_capacity`) a crash after the leftovers of another.

**Captures.** A ring of 3 with fragments of 2 wraps around and overflows, and the budget
of 4 refuses before the frames run out.

**RPC.** One connection of each kind meets `close`, both timers, and the publication that
fills its queue of one place; two events distinguish order from loss. What more
connections add, refusal for want of a place and a laggard next to a subscriber that
keeps up, TLC does not see; the safety theorems are for any number of connections,
places and events. Two clients of one endpoint reach `RefuseConnect`; a third changes
nothing for either.

**Service controller.** The model is finite as it is, so TLC's answer is complete; the
proofs give the reason as well.

**Acquired assets.** A clock of 3 instants and lifetimes of 2 let a response be fresh,
stale and fresh again; two entries are one that is read and one that replaces it; the
responses are one with a lifetime and an ETag, one from a cache with an age, and one that
may not be stored. The rules are one of each kind.

Named bounds: `MaxFaults`, `MaxFrames`, `MaxPublished`, `MaxEntry`, `MaxBody`, `MaxNow`,
one pin per entry and one capture pin per session. `CHECK_DEADLOCK FALSE` is said of
`rpc_server`, `rpc_client`, `event_orphan` and `acquired`: a closed server, clients that
are used up, and a full clock with nothing left to ask for are ends.

Each property has a *mistake* in its module: an operator that a plausible bug would put
in the place of the one that follows it, under which the property fails.

### Liveness

* `Returns` (`CaptureSession`) assumes `WF_vars(Work)`: the thread inside `drain` is
  scheduled and the calls it makes return. Claims have timeouts of five seconds and file
  operations end, so the code justifies it; nothing is assumed of the provider.
* `RequestsEnd` and `ThreadsEnd` (`rpc_server`) assume that the threads of the server are
  scheduled, that its timers fire and that a handler returns once it is cancelled. Peers
  promise nothing: a silent one is ended by the handshake timer and a blocked
  one by the write timeout, a request that lasts by the request timer. `close`
  may time out at any moment before its threads have ended, so `ThreadsEnd` does not
  rest on its patience.
* `ClientsReturn` (`rpc_client`) assumes that the clients' threads are scheduled and their
  timers fire. Neither the server nor `connection.Client` in the helper need ever answer.
  A stream that was closed during `start` is the exception, since its handshake timer
  then does nothing (`event_orphan`); a client whose timer does not start has ended.

The other modules state no liveness: an operation of the stores waits for nothing but
claims, each with a timeout.

## What the runs found

* **A torn manifest stops recovery** (`asset_torn`). `_recovery_candidates` reads every
  `entries/*.json` before anything else. A crash inside `atomic_output` leaves a torn
  file that this pattern matches, so `plan_recovery` and `recover` raise until
  somebody removes it by hand, although `shared-features.md` promises the list of
  abandoned files.
* **A salvaged capture can lose its bytes** (`capture_salvage`). When
  `_salvage_publish` fails on its second file the session stays open. The recovery
  record may be collected with its pins, and its fragments after them; closing the session
  again publishes a manifest of bytes that are gone. `shared-features.md` says that pinning
  on drain rules this out. `RecordsKeepFragments` is the promise without these sessions
  (`torn`), and it holds.
* **A stream closed during start goes on** (`event_orphan`). `_finish` finds no connection
  to close and sets the completion; `start` then connects, and as the terminal reason is
  set, neither the handshake timer nor another `close` closes anything.
  `wait_closed` has returned True, which `shared-features.md` says means that the
  transport has closed. `CompletionIsTruthful` is the promise without these streams.
* **A failed uninstall starts a stopped service** (`service_unloaded`). On macOS `stop` unloads
  the service, so the first command of a later `uninstall` fails, and the rollback
  bootstraps a service that was not loaded. `README.md` promises an attempt to restore the
  prior manager state; its warning about already-unloaded services says they may need
  attention, not that they will be started. `ManagerRestored` is the promise for services
  that were loaded.

Two more disagreements have no run, because what they rest on is not a step of these models:
the kind of object a library returns, and the text that a server's handler returns.

* **Late pipe connections are not closed.** `ipc.py:487` and `503` mean to close a connection
  that nobody waits for, and `test_late_windows_pipe_connection_is_closed` checks it with a
  `Connection`. A `PipeConnection` is no subclass of that, only of the same base class.
* **A request that was carried out can be reported as not started.** When `_serve_control`
  cannot write the result of a handler as JSON (`rpc.py:510`), or `error_response` what
  it raised (`rpc.py:504`), the `ValueError` reaches line 514, which takes it for an invalid
  request, and `_write_error` answers `not_started` (line 668). `README.md:71-74` says that it is
  `unknown` which means that effects may have occurred.

## Proofs

Each theorem is for every value of the constants, which TLC's instances only sample. Every
invariant and action property of every passing run is the statement of one. None of them
is inductive but the types of some modules; each proof module states the invariant that is.

**`AssetStoreProofs`**, for every set of threads, entries, objects and references, finite
or not, and every number of faults: each safety property of `asset_shared` and
`asset_capacity`. `IInv` has six layers, each preserved by every action given the ones before:

1. `TypeInv`: types, and a target wherever a step uses one;
2. `ClaimInv`: which claims are held at which position, so that two operations whose
   positions need one claim are the same operation;
3. `FileInv`: the manifest an import is about to publish is new and its object is there;
   `object_counts` is exact while the claim is held; what collect and recover are about
   to unlink is not in use;
4. `RootInv`: a collection under its claim holds no root; leases of readers are on disk;
5. `WorkInv`: staged files of live imports, and the completeness of a recovery's list;
6. `CapacityInv`: at any moment only finitely many objects and staged files are there and
   their bytes are within the budgets; what an import about to write has listed is
   all that is staged, and the object of an import about to move still fits.
   `WithinCapacity` is not inductive because the room is looked for one step before the
   file appears. Everybody else can only make the total smaller in between
   (`CapacityShrinks`), for want of the claim.

`ImplementsRetainedBytes` maps entries with bytes to `retained` and `RootEntryIds` to
`roots`: only `PublishEntry` adds to the first and only `UnlinkEntry` takes from it,
and each leaves the roots alone.

**`ByteCountProofs`** has what the byte budgets and the tiling of frames rest on. A total
over a set or a sequence is usually a recursion or a fold, and what these compute for
every input takes induction over data, which no theorem of the library can be used for
here. So `Total` counts bytes as a set of pairs, a thing and a place in it, of
which the theorems about finite sets know enough: the total of nothing, of one more, of
two disjoint parts, of a part, and of the same things under other names. `Along` is the
total of a weight over the items of a sequence, and what it is for an item appended, for
two sequences in a row and for the tail of one. The weight need not be a length: with 1
for the items that cover a frame and 0 for the others, it counts them.

**`CaptureSessionProofs`**: the six safety properties of `capture_session`, for every size
of ring and budget and all fragments. `NothingAfterRecord` and `BoundIsReached` follow from
`CloseInv` (a thread that closes a capture has stopped the provider before it takes the
queue) and `BoundInv`. `PayloadIntact` needs `RingInv`: there is a number of bytes ever copied
into the ring, `write_offset` is that number modulo the size, and the fragments queued lie
in the last `queued_bytes` of them, so a copy of what still fits lands on none of them
(`CopyKeeps`), also where it wraps around. The lemmas on quotients say that two places
less than a ring apart are different.

`WithinBudget` and `PublishedTiles` both say that a fragment counts once, wherever it is:
`Accepted(w)` is the total of a weight over the ring, the queue of a drain and what is
stored, less `Again(w)`, since between the import of a fragment and its counting the first
of the queue is also the last of what is stored. `BudgetInv` takes the length as weight: each
counter is the length of what it counts, and the three together are within the budget.
`TileInv` takes 1 for what covers a frame: a frame that was shown is covered once by what was
accepted and the gaps together, and no other is covered at all. When a record is written
the ring and the queue are empty, so that what was accepted is what is stored
(`EvidenceInv`).

**`CaptureStoreProofs`**: `RecordsKeepFragments` and `RootsResolve`, from
`FragmentInv` (sessions that can still be closed and records on disk have all their
fragments pinned and retained, and no two sessions share one) and `CollectInv` (what a
collection under its claim may unlink is used by no other record and no open session).

**`RpcServerProofs`**, about `ReccyLifecycle`, for any number of connections, places,
pending and published events: its four invariants and `NothingSkipped`. `SlotInv` counts
free places and working connections, which `ServerIsEmpty` rests on together with
`CloseInv` (once `close` has begun nobody joins) and `SocketInv` (a socket is open only
while its worker runs or its accept loop holds it). `CancelInv` follows a cancellation
through `close`: registered, taken, set. `StreamInv` says that a subscriber's queue
holds exactly the events published since the one its writer has in hand, which a
full queue ends rather than breaks. `OwnerInv` relates the owner to the server. Steps are
sorted by whom they are about (`StepCases`), so that a step of one connection is seen
to leave the others alone.

**`RpcClientProofs`**, for any number of clients of an endpoint: the four invariants of
`rpc_client`. The invariant is about one client: who has the connection that a helper makes
(`PipeInv`), what a call holds and knows (`CallInv`), and who finishes a stream
(`StreamInv`). `CallInv` says of a call that reports `not_started` that the server told it
so or never had the request; that it can be told so by the one and not by a failure of its
own is what `FailedCallsAreHonest` needs.

**`ServiceControllerProofs`**: its types, `FilesRestored` and `ManagerRestored`. The
model is finite, but the reason that TLC does not give is an order. Every list of steps
that a rollback computes, and so every rest of it, is `Ordered`: first stop and forget
what is loaded, then restore files, then load, then start. Hence what a step loads is
what was restored, and no later step undoes an earlier one. `FileInv` says which files are as they
were or have their step still to come, `InstallInv` the same of what a first installation
has loaded, `RemovalInv` of what a removal has unloaded; a step that fails sets `uncertain`,
of which nothing is said.

**`AcquiredProofs`**, for any threads, headers, rules and bounds: the six properties of
`acquired`. `NeverStale` needs, at each position of a call, an instant at which the
version it holds was not yet retired: for an answer and a record, when it was requested
less the age it admits to (`AnswerInv`, `RecordInv`), for the entry about to be opened,
`since` (`OpenInv`); `AgeCoversDelay` and `FreshIsYoung` are the arithmetic of
`response_freshness` that turns this into a lifetime. `ValueInv` says that the identity
is on disk before an entry can be. `FreshBodiesAreKept` assumes that some rule retains
downloads while they are fresh, which is what asks for it. `LeasedBytesStay` maps the
leased entries to the roots of `RetainedBytes`: an import is of a new entry, calls and
readers change only who leases what, and a collection, whatever it planned, looks for
leases again under its second claim.

The other assumptions are the named `ASSUME`s of the modules: names of nobody are not names
of somebody, connections are finite sets, limits and byte budgets are positive, objects have
positive lengths, a ring is no larger than its budget, rules are those that `validate_rule`
accepts and headers have the types that parsing gives them.

Model-checked only: liveness (`Returns`, `RequestsEnd`, `ThreadsEnd`, `ClientsReturn`).
It rests on fairness, which is about what is enabled, and `ENABLED` is out of the prover's
reach. The four documented promises that the runs refute are, of course, no theorems.

## Not modelled

* **Snapshot publication.** `LatestPublisher` is one lock and one worker, and nothing else
  of the repository uses it. Its hazard is that a writer which raises anything but `OSError`
  or `ReccyError` ends the worker with a snapshot pending (`publication.py:53`).
* **ProtocolListener and ProtocolClient** of `ipc.py` have the shape of `Server` and
  `EventClient`, with the same race of `close` and `start` (`ipc.py:245`). Also left out:
  `remove_stale_socket`, which looks at a path before it listens.
* **A helper thread that does not start** (`ipc.py:492`) leaves its endpoint in
  `CONNECTING_PIPES`; `PipeConnect` assumes that it starts. (Timers that do not start are
  modelled.)
* **Leftovers nobody reclaims**: torn pins and references stop later collections
  (`assets.py:1003`), and a pin may stay on an entry that was never published
  (`assets.py:887`). `AssetStore` reaches both and its properties hold with them; no
  document promises that they are reclaimed.
* **Choosing entries** by category, media kind and tags, `explain_retention`,
  `inspect_recovery` and `export_entry`, which only read; the capture store's retention
  rules, which are those of `Retention` over captures.
* **Pinned URLs** (an import with an expected identity, which `AssetStore` has), redirects,
  encodings, byte limits and Last-Modified as a second validator.
* **Retry schedule and randomizer**: functions of floating-point numbers. **Delta codec**:
  one sequential pass over records.
* **Asset sets, local files and Git sources**: sequential use of `import_stream` and
  `open_entry`; the rest is paths, commands and manifests.
* **Service renderers, configuration, processes, logging, release and documentation tools**:
  text and calls to the operating system, without state that is shared or survives.

What would come next: `ProtocolClient` with a fix of the race, which is that of
`EventClient`; two subscribers in `rpc_server` once its state space allows it; and service
managers that fail in other ways.
