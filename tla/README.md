# Overgo: a verification project

TLA+ models of the concurrent and the crash-prone parts of overgo, TLC
configurations that check them on small instances, and proofs that TLAPS checks.
Paths below are relative to the repository; `internal/` holds the Go packages.

## 1. The system

Overgo serves and trains models from one Go program. A request enters the HTTP
server (`internal/server`), which resolves a *recipe*, starts an *operation* in
the operation manager (`internal/operation`), leases a model from a *session
director* (`internal/capabilityruntime`), and records what happened as batches in
*OvergoDB* (`internal/overgodb`), a store that is one append-only journal of
commits shared by every process on the machine. The workbench in the browser
(`internal/server/webui`) watches operations and sessions over one event stream.
`cmd/swap` puts a supervisor of child servers (`internal/modelswap`) in front.

| Component | State | Operations | Talks to | What is hard | What must hold |
|---|---|---|---|---|---|
| OvergoDB journal, writers, checkpoints (`overgodb/log.go`, `store.go`, `commit_coordinator.go`, `checkpoints.go`, `snapshot.go`) | active segment, sealed segments, checkpoint generations, lock file; per handle a head, a replay offset, a fault | Open, CommitAs, Refresh, Snapshot, Close; rotation inside Snapshot | every other component commits through it, several processes at once | crash between any two file operations, power loss, failed append or sync, retries, writers with an old view | one chain, no key twice, nothing acknowledged lost, the store always opens |
| OvergoDB readers | a view of the journal | Open, Refresh, queries | read the files a writer changes; no lock | a rotation between two reads | a past of the chain, never backwards, current when undisturbed |
| Catalog, queries, facets | materialised view | fold of a batch, queries | the handle's journal | size of the domain, not interleaving | equals the fold of the chain |
| Blobs, retention, packing, backup, rebuild (`overgodb/blobs.go`, `blob_pack.go`, `retention.go`) | blob files, one pack, a pack index per handle, aliases | prepare, read, collect, release, sweep, pack; back up, replace the store | commits of other processes | check-then-act over three transactions, crash between publication and removal, stale index | what the catalog names has its bytes, what a root reaches is not released |
| Operation manager (`operation/runtime.go`) | entries, retention order, one goroutine per attempt | Submit, run, report, Cancel, RecoverAfterDecision, Close | the observer (event hub), executors, decisions | unlocks between check and act; late reports; Close | one active attempt per identity, cancelled is not completed, retention, Close waits for everything |
| Human decisions (`server/operations.go`, `runrecord/human_decision.go`) | a chain of decisions per operation, in the store | decide | manager, store | two deciders | nothing resumes without a grant |
| Runtime stream (`server/event_hub.go`, `runtime_activity.go`, `serving_observation.go`, `webui/workflow.js`) | bounded queue per stream, serving cursor, page | publish, resync, snapshot, fold | manager, store, browser | full queue, snapshots that overtake queued events, eviction | the page is current whenever nothing is on its way |
| Session director (`capabilityruntime/session_director.go`) | keyed entries with a mutex, borrowers, capacity, wait set; or one resident model and numbered slots | lease, run, release, evict, supersede, retire, Close | model loaders, the server | lock order, wake-ups, Close in the middle of anything | capacity, no model closed under a user, nobody left waiting |
| Model swapping (`modelswap`) | one child process, its counters, a drain condition, timers | route, Acquire, release, hold, idle stop, Close | child servers | timers and wake-ups that race swaps, failed launches, late releases | one process, counters of the right child, every Acquire answered, nobody cut off without a grace |
| Workflow runtime (`workflowruntime`, `runrecord/stage_receipt.go`) | a chain of receipts per stage, in the store; the ready set of a run | plan, replay, admit, run, finish, cancel siblings | store, adapters | two runs of one operation, crash between receipts, a receipt that does not commit | one history per attempt, nothing built on what is not recorded, a restart is never refused |
| Continuous batching and caches (`inference/continuous_generation.go`, `continuous_batch.go`, `device_cache.go`) | a queue, the admitted requests with their ids, a device cache per sequence, reference counts on device memory, deferred releases | Generate, admit, step, deliver, remove, Close | the server's requests, the device | callers that go away, steps that fail for all, memory shared by the sequences of a step, releases that fail half way, a stop beside a full queue | a cache has read its request's ids, memory has owners, every call ends |
| Agent loop and tools (`agentloop`, `agenttool`) | conversation, file checkpoints | turns, tool calls, restore | model, files | partial restore | |
| Downloads, object store (`server/hub_workspace.go`, `hfhub`, `objectstore`) | registry of transfers | start, resume, cancel, shut down | network, disk | cancel against completion | |
| Conversations (`server/workspace_conversations.go`) | bounded registry of turns | begin, stop, shut down | manager, store | turns that outlive the request | |
| Locks and processes (`processlock`, `authoritylock`, `processcontrol`) | lock files, process groups | acquire, probe, wait | operating system | death of a holder | exclusion |
| Inference, tokenizers, sampling, formats, training, evaluation, CUDA, command line, development tools | numeric and document code | | | numeric parity | |

`PROJECT.json` lists each with its status, and under `hazards` every place found
so far where something can go wrong that a test would hardly reach, with the
property that watches it or the reason none does yet.

## 2. The modules

```
 Chain  <-- ImplementsChain --  Journal  <-- EXTENDS --  Tailing
 Lifecycle  <-- ImplementsLifecycle --  Operations
 Lifecycle  <-- EXTENDS --  Streams
 Sessions    Residents    Supervisor    Blobs    Stages    Batching
 OperationsProofs, SessionsProofs, BlobsProofs, StagesProofs, StreamsProofs, BatchingProofs
 EXTEND the module they prove about,
 JournalProofs EXTENDS Tailing and proves about Journal and Tailing,
 LeasesProofs EXTENDS Residents and Supervisor and proves about each
 MC<Module> EXTENDS <Module>: model values and symmetry for the .cfg files
```

Definitions named `...` in a comment that begins with "Mutant:" are plausible
bugs of the definition that follows them. They are not part of any
specification; `PROJECT.json` names the property that each of them breaks.

### Journal

The files of one store and the handles of several processes on them.

* A commit identity is a hash over sequence number, previous identity and payload.
  It is modelled as what it determines: the sequence of batches up to the commit.
  The head of a handle is such a sequence, its length the sequence number.
* `active`, `torn`, `stable` are the active segment: its complete frames, whether a
  torn frame follows, and what the last sync covered. `sealed` are the sealed
  segments, `gens` the checkpoint generations (complete or half written), `lock`
  the lock file. File offsets count frames.
* `pc[w]` is where a handle is. Between `Acquire` and the release the code runs
  under the lock, but every file operation of it (start of the append, its last
  byte, sync, publication of a sealed segment, reset, sync of the reset, staging,
  completion and removal of generations) is an action, with `Crash` possible in
  between, and a failure of the operation where the code handles one. `LosePower`
  is a step of `PowerSpec`, not of `Spec`: `tailing_rotation` takes it. It leaves of the active
  segment what was synced and any prefix of the rest, perhaps torn, or its state before an unsynced
  reset (`Survivors`); the last sealed segment may be gone with its rename as long as the reset behind it
  is not durable (`SegmentGoes`), and so may generations whose directory entries are not (`GenerationsGo`).
* `Replayed` and `Refreshed` are the results an open and a refresh can have:
  `FullReplay`, `ReplayActive`, `PendingRotation` and `FinishRotation` are translated
  as operators on the files. A checkpoint generation gives the anchor of a replay.
* `acked` records every answer a client was given; it is history, read by no action.
  `minted` tells an answer behind a sync of its own frame from the answer to a
  repeated key.

`Chain` is the promise: a log that only grows at the end, with a key once, and a
prefix that clients have been told about and that no power loss takes.
`ImplementsChain` maps the files to it: the log is the chain the files hold
(`Tip`), whatever files it is in.

### Tailing

Adds read-only handles to Journal. A reader takes no lock, so each read it makes
is an action (`StartRefresh` stats the file, `ListSegments` lists the directory,
`ReadTail`, and for a rebuild `LoadCheckpoint`, `ListForReplay`, `CheckRotation`,
`CheckDuplicate`, `ReadActive`), and any writer step may fall between two of them.
`quiet` remembers that none did. A rebuild may end on an anchor that a rotation has left behind,
when the active segment it meets has no frame (finding 2); `AnchoredBehind` says what such a handle looks like.

### Operations

The operation manager and the requests that decide about blocked operations.
Everything a method does under the manager's mutex is one action; each unlock
separates two: `Admit`/`Launch` (start), `ReadCancel`/`CallCancel`,
`ReadBlocked`/`PublishDecision`/`CheckGranted`/`Resume`, `Close`/`CloseReturns`.
`attempts` keeps every attempt there ever was, also those whose identity has been
evicted or reused, because their goroutines go on. `notified` is what the observer
was told last of each identity.

`Lifecycle` is what an observer may rely on. Its constant `GivesWay` says which
ended attempts another may follow: Operations implements it with all of them
(see finding 3), the stream is checked for a manager that resumes blocked ones only.

### Streams

The hub and one runtime stream between the manager (of which it knows what
Lifecycle says) and the page. The queue is bounded by `Limit`, which also bounds the list of
serving observations (`MaxStoredResponses` is both); `Push` clears a full
queue and leaves one resync. `stream.at` goes through the snapshots the handler sends
(`SendSessions`, `ReadCursor`, `SendActivity`, `SendOperations`) before it relays.
`FoldOperation` and `FoldServing` are `publish` of `workflow.js`: an observation goes to the front
of the list, is taken from where it was, and the list is cut to the limit (`ToFront`). The
snapshot reads as many from the store, newest first (`Newest`). `PumpTakes` and
`PumpPublishes` are the goroutine that computes sessions snapshots outside the lock.
A serving observation is recorded durably (`RecordServing`), or fails to be and is only counted
(`ServingFails`), before it is published (`PublishServing`), all under one mutex (`BeginServing`).

### Sessions

The director with keyed entries. One action is what a goroutine does between two
blocking points: a turn of the loop of `leaseEntry` (`Refuse`, `SupersedeIdle`,
`Reuse`, `MeetFailure`, `ParkForEntry`, `ParkForPlace`, `Evict`, `StartLoad`), the
end of a load, a retirement, a release, a step of Close. An entry has the mutex its
user holds, the number of its borrowers and where its model is; `retiring` are the
two counters; `parked` requests become `woken` when the signal is closed, which is
how `notify` works. Of the clock that `oldestIdle` compares only the order is kept: `recency` holds
the pairs of keys of which the first was last used before the second.

### Residents

The same type as the server configures it: one model, `SlotCount` numbered slots in a
channel, `TryLease` without waiting and `Lease` with (`AskSlot`). A waiting request *holds* the
signal it read before it tried again (`Look`, then `TryAgain`), as the code does.
Both modules model `Close`, each with what its kind of director has to close. A director is one or the
other, so `MCSessions` checks both in one run: each behaviour is one of Sessions or one of Residents.

### Supervisor

`modelswap/supervisor.go` and the routing of `proxy.go`. The mutex is held through a whole Acquire, the
launch and the wait for readiness included, and only `drained.Wait` lets go of it; so Acquire is one action
from its call or a wake-up to its answer (`TurnedAway`, `Ride`), its next `Sleep` or the stop of the old
child (`BeginLaunch`). The launch that follows ends as `Launch` or `LaunchFails`, or not at all: nothing but
the child and the context of the request that launches bounds it, and all who need the mutex wait for it
(`MuFree`). A child whose termination fails is dropped like one that ended and goes on (`Stop`); `left`
holds these. What calls back from a goroutine of its own is an action of its own: the grace timer sets its
flag under the lock (`GraceEnds`) and broadcasts after it (`GraceTells`), a context's callback broadcasts
(`ContextTells`), an idle timer fires (`IdleFires`) and gets the lock later (`StopIfIdle`). A child is named
by the request that launched it, which is one child at most, so a lease on an earlier child of the same
model is told from one on the child that runs (`Release`, `ReleaseSevered`). `Arrivals` are the requests
that reach the proxy. `Route` reads what Status reports; the acquire follows later.

### Blobs

The bytes that are not in the journal. The journal is its catalog here: where the bytes of each content are
(`absent`, `inline`, `blob`), what is released, the one alias, and a sequence number for the head that a
release expects. A *handle* is an open store in a process, a *goroutine* one caller on it (`Uses`). A commit
is `BeginCommit`, `Prepare` and `Append`; a release is collected on one view (`Collect`), reads the head
later (`ReadHead`), commits (`CommitReleases` or `ReleasesRefused`) and sweeps in a transaction of its own
(`BeginSweep`, `Remove`, `Finish`); packing is `BeginPack`, `Publish` (the rename), `Forget` (the index,
once the directory is synced) and the removal of what was packed. `Fails` ends a pack or a sweep at any of
these. `packedBy` is history: the handle that wrote the pack and has forgotten its index since. `Verifies`
says what the length and hash check of a read finds: a file, or a pack index that was read from the pack
that is there. `Crash` reopens the handle between any two steps.

### Stages

One operation of the workflow runtime as runs that share only the store: a request's
execution, its replay, a second request with the same key, a start after a crash. `phase`
is the run's own goroutine, `job` the goroutines of its ready set. Publishing a receipt is
two steps, what was read of the alias (`Admit`, `Run`, `Finish` set `note`) and the commit,
which is applied, answered as a repeat, refused or failed (`Commit`, `CommitRepeats`,
`CommitConflicts`, `CommitFails`). The first error of a ready set is its `cause` and turns away
what has not entered its adapter. `beside` is history: runs that were live together. `left` holds
the places of the ready set `level` that a run has still to read, while it plans, or to begin, while it works,
so that the least of them is the next. What `recipe/program.go` guarantees of a compiled program is
`ProgramAssumption`: every stage is in one place, in a later ready set than the stages it reads, and no
ready set is empty.

### Batching

The `ContinuousGenerator`, which serves the resident model when the server admits more than one
request (`server.go:677`), over its `ContinuousBatch` and the device memory of its caches.
`call` is where each Generate is in its two selects (`Submit`, `Return`); the scheduler is one
goroutine whose `phase` goes from `idle` through `admitting` (`Admit`), a step of the batch
(`Sweep`, then `Step` or `StepFails` with `failStates`) and the tokens of each sequence in turn
(`Evaluate`, `Accept`, `Refuse`, `Deliver`) to the next round, or to its end (`Stop`, `Reject`,
`CloseBatch`). A context is asked in `Accept` and its request called back in `Deliver`, so a
caller can go away in between.
Requests are numbered in the order in which they enter the queue, which no step can tell. The
scheduler admits in that order, the ids it gives ascend and every pass of it but `failAll` follows the
ids; so `queue`, `active` and `todo` are sets, and whose turn it is has the least number.
`heap` is what `device_cache.go` counts: the references to the outputs of a step, which all its
caches share, and to the storage of a sequence's tokens, which its next cache may take over
(`Sole`, `StoreAfter`) or leave for a new one. `Release` gives back the outputs and then the
storage, and the device may refuse either. A context shift is a copy with outputs of its own
(`Copies`); whether the context is full is left open. New blocks are `Fresh`, any that nobody
refers to, one for each that needs one. Token values are left out; `position`
counts what the batch has read of a sequence, `produced` what its request was given.

## 3. The runs

Every run finishes; bounds are named in the modules (`Max...`). `CHECK_DEADLOCK FALSE`
is set everywhere but in `workflow_stages`, because these systems may come to rest: requests,
attempts, loads and transitions are bounded, a store may be closed by everybody and a director
shut. That nobody rests who should not is stated as a property instead (`NoStandstill`,
`NoSleepBesideSlot`, `CloseCompletes`, `PageCatchesUp`, `DrainWakes`, `AcquireAnswers`,
`EveryCallEnds`). `workflow_stages` checks for deadlock: its only rest is `Rest`, where every
run has ended.

| Run | Instance | What it shows |
|---|---|---|
| `journal_crash` | 2 writers, 2 keys, one of them with two bodies, 2 rotations, crashes and failed file operations anywhere, no power loss; a rotation is interrupted only while no generation exists | `OneChain` with the handle in a transaction at its end, `AnswersKept`, `AlwaysOpens` and the refinement of `Chain` |
| `journal_interrupted` | as above with interruptions of later rotations | **violation** of `AnswersKept` (finding 1) |
| `tailing_rotation` | 1 writer, 1 reader, 2 keys, 2 rotations, power losses that may take what is not synced, directory entries included | what readers show is a past, and after an undisturbed refresh it is current and never goes back, but for a handle that a rebuild left at an anchor behind the segments; `MintedKept` under power loss |
| `tailing_behind` | 1 writer, 1 reader, 2 keys, 2 rotations, in which no rotation fails or is interrupted and no power is lost | **violation** of `QuietRefreshIsCurrent` (finding 2) |
| `operations_attempts` | 2 identities, retention 1, 3 attempts, 2 deciders, 1 canceller | one active attempt per identity, cancellation, grants, the refinement of `Lifecycle`, retention included, and Close returns with everything settled (liveness) |
| `operations_replay` | 1 identity, 3 attempts, 2 deciders | **violation** of `ResumesOnlyBlocked` (finding 3) |
| `streams_page` | 2 operations, queue and list of one, 2 notifications in all, 3 serving observations, 2 connections | the page is current when nothing is on its way, lists of the serving observations up to its cursor none twice and all that newer ones do not crowd out, finished stays finished, and the page catches up (liveness) |
| `sessions_entries` | keyed entries: 2 requests, 2 Close calls, 2 keys, 2 scopes, 1 place, 3 loads, 3 requests made; or slots: 3 requests, 2 slots, 2 Close calls, 3 leases asked for | capacity, no model closed in use, wake-ups, shutdown, no standstill; slots are neither lost nor doubled, no lease of a closing model, no sleep beside a free slot, Close calls agree |
| `supervisor_children` | 3 requests, 2 of which may go away, 3 models, no default, launches that fail or last, one child that may survive its stop, one Close | the counters are the leases of the child that runs, one process beside those that could not be terminated, no sleep beside a drained child, nobody severed but by a swap that waited or Close, every Acquire answered if no launch lasts for ever (liveness) |
| `blobs_maintenance` | 3 contents (one small, one derived from another), a writer and two keepers on 3 handles, 3 commits, crashes and failing packs and sweeps anywhere | live bytes are kept, the packer reads what it packed once it has forgotten its index, no release of what the alias reaches |
| `workflow_stages` | 2 runs, beside or after each other, two stages of one module and a third that joins them, one of them not durable, crashes and failed commits anywhere | receipts and answers rest on recorded outputs, one history per attempt, a restart is not refused, a whole answer is not given up |
| `batching_rounds` | 3 requests, one of which may go away, a batch of two, two tokens each, context shifts, one refused release, a stop at any moment | caches follow the ids, device memory has owners, one callback at most comes after Generate returned, every Generate and the scheduler end (liveness) |

The type invariants of Journal, Tailing, Streams, Sessions, Supervisor, Blobs and Batching are the first conjunct
of the property that needs the most of the state there (`OneChain`, `ReadersSeePast`,
`QuietPageIsCurrent`, `NoStandstill`, `RefsAreLeases`, `LiveBytesKept`, `CacheFollowsIds`).

Why the bounds are enough for what they ask. *Journal*: the second rotation is the first that meets an older
segment and an older generation; two writers give every stale view there is (a handle is behind or it is
not), and the second body of a key tells a repeat from a conflict. *Tailing*: one reader suffices since
readers do not interact; two rotations move every read of a rebuild before or after each of their steps, and
give a generation that the segments have passed. `NoRepeats` cuts off what follows the answer to a repeated
key: it changes no file, and nothing of Tailing depends on it. `CalmSpec` of `tailing_behind` is
`TailingSpec` without rotations that fail or stop, so that the trace needs none. *Operations*: three
attempts are the fewest in which an identity is resumed while another's end evicts; retention one makes
every end evict; one report falls before, after or beside each end. Identities are numbered in the order of
their submission, which no step can tell. *Streams*: a queue of one clears at every second event, so each of
the other actions falls before and after a clear; two connections give a reconnect. *Sessions*: one place
for two keys makes each request of another key an eviction, a supersession or a wait; the third load follows
an eviction. *Residents*: three requests on two slots leave one waiting with a choice of slots; a request
may ask again after another's release. *Supervisor*: with three requests one leases while two wait, for the
same model or for two, so one can be overtaken by the other's swap and meet a child that its grace did not
run against; a third model is a swap of a swap. The child that may survive is that of a request that may go
away, so it can also be one whose launch was given up; the third request never goes away and its launch may
last. *Blobs*: three commits are an introduction, a release and an introduction again, in any order with the
packing; a packed content that is released and one that is introduced anew make the second pack differ from
the first. *Stages*: two runs are every pair of an earlier or a parallel run and a later one, and a crash
followed by another crash adds no receipt state that one does not; the join has a ready set with siblings
and a stage that reads a durable and a value-only output. *Batching*: the third request waits while two are
served and joins one in the middle of its tokens; two tokens are the prompt's step and one that reads the
last id only; one refused release, at any of the places there are, leaves a deferred cache while the others
go on. Five blocks are as many as a step of two sequences ever finds it needs, both copied, beside what the
refused release holds; so with six `Room` is never missing, and `EveryCallEnds` would fail if it were.

Symmetry is used for writers, requests, keys, scopes, Close calls, runs and keepers (with the handles that
go by their names), only where the run checks no liveness. In Sessions an idle request keeps an arbitrary
fixed key and scope, which the request that follows overwrites.

### Fairness

* `Operations`: a goroutine that can run does run (`Launch`, `Prepare`, `Execute`); an
  executor whose context is cancelled returns, which is the contract of an executor
  (it is handed the context) and the only reason Close can wait for it; a Cancel that
  has read a function calls it. Nobody is obliged to submit, decide or close.
* `Streams`: the handler, the pump and a serving publication that has begun go on, and the mutex of
  the serving observations does not starve the handler that waits for it (Go's mutex hands itself over to
  one that waits long; `SF` of `ReadCursor`). No fairness for transitions, for observations to come or
  for the page's reconnection.
* `Supervisor`: a request that has called or was woken gets the mutex when it is free (`Acquire`), timers
  fire (`GraceEnds`, `IdleFires`) and their callbacks and a context's get to run (`GraceTells`,
  `ContextTells`, `StopIfIdle`). A launch whose context is done returns (`LaunchReturns`), since the waits
  for the device and for the child watch it (`launcher.go:112`, `:194`). It is not assumed that a lease ends,
  that a launch succeeds or, while its client waits, returns at all, or that anybody cancels.
  `AcquireAnswers` therefore has the premise that no launch lasts for ever, and otherwise rests on the
  grace. Weak fairness suffices for what needs the mutex: if launches begin again and again, each
  is an Acquire's answer, of which there are finitely many.
* `Batching`: the scheduler goes on, so steps and callbacks return; a Generate that can submit or
  return does. Nobody is obliged to go away or to stop the scheduler.
* `Journal`, `Tailing`, `Sessions`, `Residents`, `Blobs` and `Stages` state safety only and assume none. That
  nobody waits for ever there is stated as safety: what a waiter needs is not there, or
  somebody who is not waiting is about to provide it.

## 4. Findings

1. **A commit that was acknowledged can be lost after an interrupted rotation**
   (`journal_interrupted`, `checkpoints.go:54`, `log.go:265`). If a rotation or a new
   generation stops half way while an older generation exists, the next open takes
   the older generation as its anchor, replays only the active segment and misses the
   sealed one.
2. **A reader can be left behind by a rotation, without any failure** (`tailing_behind`, `log.go:266`,
   `log.go:268`). A rebuild that falls between the reset of a second rotation and its new generation, or that
   loads the generation before and lists the segments after, meets an active segment with no frame. Nothing
   tells it then that its anchor lies before the last sealed segment. It takes the
   anchor's head, which is behind what it showed, and since the list it remembers is complete it stays there
   until the next commit (`store.go:431`). `checkpoint_tail_test.go:15` asks that "a reader held across
   rotation must match a fresh reader".
3. **A grant can run a completed operation again** (`operations_replay`,
   `operation/runtime.go:301`). The check for a blocked attempt and the start of the
   next are two critical sections.

Observations made while modelling, which no run states:

* A frame whose sync failed may be in the file. The next open replays it and answers a
  repeat of its key as committed although no sync stands behind it; a power loss can
  then take it (this is why `MintedKept` is about answers behind a sync).
* A reader's rebuild that meets a rotation between two of its reads can end in an
  error, and the handle stays faulted until it is reopened.
* A load that was superseded while it ran is answered with the error that the director
  is closed (`session_director.go:758`).
* Close of a director with keyed entries waits for retiring entries, but not for leases
  that are out: it takes the table and then blocks on each entry's mutex
  (`session_director.go:825`), where its context no longer cancels it.
* A turn of `leaseEntry` that takes an entry in use out of the table and then reuses or
  parks for another does not notify (`session_director.go:654`). A request that was parked for that entry could
  load another one for its key now, if a place is free or held by an idle entry, and sleeps until the use of
  the superseded entry ends. It needs three places or more: the superseded entry and the one the turn was
  for fill two. `NoLostWakeup`
  therefore counts the user of a superseded entry among those about to notify
  (`AboutToNotify`), and claims no more.
* Close of the operation manager can return before an attempt that was admitted starts,
  since `wait.Go` comes after the unlock (`operation/runtime.go:222`).
* The end of an operation can pass a slow page by: it is cleared from the queue, and evicted
  before the snapshot that follows (`event_hub.go:91`).
* A request that waits for a child to drain is not told when another waiter launches the model
  it wants, nor when that launch failed and nothing runs: it sleeps until a release or its own
  grace (`supervisor.go:91`). `AcquireAnswers` holds because of the grace.
* A launch that hangs holds the supervisor's mutex, and nobody is answered while it does: not who calls
  or is woken, whether cancelled or not, nor a Release, Status or Close (`supervisor.go:179`; the waits
  `launcher.go:112` and `:194` end with the device, the child or the context of the request that launches).
* A child whose `Terminate` fails is dropped like one that ended, because the error is ignored
  (`launcher.go:230`, `supervisor.go:186`, `:299`). It goes on beside the next child, and nobody stops it again;
  `OneChild` speaks of the others. A `Stop` that waits in vain for the
  exit of what it terminated (`launcher.go:233`) would hold the mutex as a launch does.
* A grace is armed once per Acquire. A waiter whose grace ran against an earlier child cuts off
  one that was launched in between (`supervisor.go:161`).
* A request that names no model reads the one that runs and acquires it later, which may swap
  back to it (`proxy.go:249`).
* A handle that did not pack keeps the index it read from the earlier pack (`blob_pack.go:51`).
  Its reads of what moved fail their check, and its commits of such content are refused, until it
  is reopened; no byte is lost. The same holds for the handle that packed when the sync of the directory
  failed after the rename: it returns before it forgets its index (`blob_pack.go:291`, `Fails`), and
  `PackersRead` does not speak of it.
* A power loss just after an open has finished a rotation can take the sealed segment on a file system that
  may lose a rename although a later sync of another file succeeded: `finishRotation` truncates and syncs
  the active file and not the directory of the segment, which the process before may have died before
  syncing (`log.go:349`, `store.go:552`). The model supposes that a rename is durable no later than the next
  sync of a file.
* A power loss that takes the entry of the newest generation and leaves an older one (`checkpoints.go:129` syncs
  the parent after the removal of the older ones) ends as finding 1 does; `GenerationsGo` counts it among the
  interruptions of later rotations.
* Release collects, and reads the head it will expect afterwards (`retention.go:207`). With two
  goroutines on one handle a commit in between is not noticed, and what it reaches can be
  released; with a handle for each process, as the only caller has it, the view cannot move in
  between, and `ReachableKept` holds.
* Two runs of one operation can publish the same admitted and running receipts, since a repeat of
  a batch is answered as it was, and both execute the attempt. One is refused at the end.
* A run that planned while an answer was being made executes a completed stage again
  (`AnswerKept` exempts it), and until it ends Replay does not answer.
* If a stage of a ready set cannot be begun, the stages begun before it keep a running receipt
  that nobody ends; the next run starts a new attempt.

* Generate returns as soon as its context is done, and OnToken or OnPromptEvaluated may be called
  once after that, when the handler whose state they write to has ended
  (`continuous_generation.go:131`, `:388`). `OneLateCallback` says that it is once.
* If the forward pass of a step fails and the device refuses to free what it had allocated,
  nobody names that memory any more (`device_cache.go:1124`, `:1193`); `MemoryIsOwned` exempts it.
* A cache whose release failed is tried again only when the generator closes, and only once
  (`continuous_batch.go:404`).
* One failing step ends every request of its round with the error (`failStates`), also those whose
  own tokens did not cause it.
* A request that waits for another's load inherits its error, the cancellation of that request
  included (`session_director.go:693`).

## 5. What is proved

`JournalProofs` proves `TypeCorrect`, that is `Spec => []TypeOK` for Journal, for every
set of writers and batches and every value of the bounds, from `JournalAssumption` alone,
and `TypeCorrectUnderPowerLoss`, the same for `PowerSpec`.

`TypeOK` is not inductive: the frame an append writes is built from the batch of the
request, which a handle has only if its request is a commit. The invariant that is
proved is `TypeInv == TypeOK /\ CommitPlaces`, where `CommitPlaces` says that a handle that
waits or is in the places of a commit works on a commit. The argument goes in layers:

1. lemmas about the operators on files (`IdType`, `HeadAfterType`, `SealedHeadType`,
   `RecoveredType`, `ReplayActiveType`, `FullReplayType`, `ReplayedType`, `RefreshedType`):
   whatever an open or a refresh finds is a view;
2. lemmas about the pieces the actions share (`RepairType`, `TakeViewType`, `LeaveType`,
   `VanishType`, `AnswerType`, `EnterType`);
3. `TypeStep` with one step per action, `CommitPlacesStep`, `TypePowerLoss`;
4. `TypeInductive`, and the temporal theorems from it and the initial states.

It goes on to every property of `journal_crash`, for any writers, batches and bounds:
`ChainIsOne` (`OneChain`), `AnswersAreKept` (`AnswersKept`), `StoreOpens` (`AlwaysOpens`) and
`JournalIsAChain`, the whole refinement `ImplementsChain`. Each assumes `~InterruptLaterRotations`, that
is what finding 1 violates: a rotation stops half way only while no generation is complete. `OneChain` is
not inductive, since it does not say what a handle knows nor where a replay starts. `Core` adds

* `GoodFiles`: the active segment goes on where the sealed ones end (`Plain`), or is the untorn
  `Duplicate` of the last one, which is what a rotation that stopped leaves; and identities grow along it;
* `GoodGens`: no generation is ahead of the sealed segments and, unless somebody rotates, the newest
  complete one is where they end. This is what the hypothesis buys, and why `ReplayFrom` is right to
  replay the active segment only;
* `Knows`: a handle that knows all sealed segments stands at some frame of the active one, so that the
  frames behind it continue its head; one that does not is rebuilt by its next refresh;
* `OneHolder` and `AtPlace`: one handle is between two writes of its own, and what it has done so far.

`ReplayedHere` and `RefreshedHere` show that every replay ends at the tip, with the active file whole
or reset (`Sound`); the lemmas of the steps rest on these two. For the refinement, `TipMoves` says that only
the last byte of a frame moves the tip, and `MintsNone` that only the return of a sync mints an answer;
`Longest` ties `Kept`, a maximum, to the answers without counting them.

Power loss has two theorems of `PowerSpec` under the same hypothesis: `MintedAreKept` (`MintedKept`) and
`ChainSurvivesPowerLoss`, which is `OneChain` and `AlwaysOpens` again. `Durable` is the chain up to what
the last sync of the active segment covered. `StableStep` shows that a step leaves it or moves it to the tip,
`PowerFiles` that what survives goes at least as far and is well formed, and `MintedSafe` that minted
answers lie within it. `SegmentsLeft` and `GensLeft` say which segments and generations are left when
directory entries go. `GoodStable` says which two things `stable` can be: the first frames of the
active segment or, between a reset and its sync, the last sealed segment (`NotSealedAgain` tells them apart).

The readers have three theorems of `TailingSpec`, with the same hypothesis about rotations and for any
readers: `ReadersShowThePast` (`ReadersSeePast`), `RefreshIsCurrent` (`CurrentUnlessBehind`) and
`ReadersOnlyAdvance` (`BackOnlyToAnAnchor`), so the schedule of finding 2 is the only one that leaves a reader
behind or takes it back. What a
reader holds may be several rotations old, so the invariant (`TailInv`) compares it with what is never undone:

* `SealedAscends` and `GensSealed`: the segments end at ever longer pasts of one chain, and every
  generation, complete or not, at one of these ends. So whatever anchor a rebuild took, and whatever was
  sealed since, its anchor is the end of a segment it lists or one before (`Settled` is all that readers
  rely on);
* `Follows`: a handle at rest, or between the reads of a refresh, knows some of the segments. If
  it knows them all, it stands at a frame of the active file; if not, what it shows lies before the end of the
  next segment, since only that one can hold the frames it has read. `era` tells a file
  that was reset and written again from one that only grew;
* `Replays`: what a handle showed before its rebuild is sealed by then, so the rebuild, which starts
  with the sealed segments, cannot end behind it; and a rebuild that takes the active file for
  the continuation of all segments it lists is right unless a segment was added since;
* `Undisturbed`: what the two say when no writer moved, with the lock free and the anchor at the
  end of the segments.

`FileMoves` sorts the steps of writers into four by what they do to the segments (`FilesStay`,
`FrameGoesOn`, `SegmentSealed`, `ActiveReset`), and `FollowsKept` and `ReplaysKept` show that none of them makes
what a reader knows untrue. `FirstFrame` tells from the first frame of the active file which segment it continues,
so that an anchor that is too old fits an active file with frames only when that is still the copy of the last
segment, which a rotation has yet to reset. Each step of
a reader then has a lemma that says what view it takes and that this is good (`ReaderMoves`).

`LeasesProofs` proves every property of Residents that `sessions_entries` checks, and a type invariant that
the run leaves out (`TypeCorrect`), for any finite set of requests, any set of Close calls and any number of
slots, from `ResidentsAssumption`: `SlotsKept`, `ClosingUnleased`, `NoLostSignal` and `ShutClosed`. None of
them is inductive alone; the invariant `Inv` adds

* `SlotsAreOut`: who has a slot has one of the director's, which is not in the channel
  (without it a release could put back what was never taken);
* `Counted`: `residentUsers` and `waiters` are the numbers of requests that lease and that
  wait, by which a Close that finds no users knows that there are no leases;
* `OneInside`: `shutting` is set by exactly one Close, which alone makes the model closing;
* `ClosedOff`: a model that is not open has admission closed;
* `SignalsAreOpen`: a request that goes to sleep on a signal not yet closed read it from
  an open director.

`RequestKinds` sorts the actions of a request into six kinds by what they do to slots, users
and waiters; the lemmas that follow are about kinds, not actions. `CloserSteps` shows that a
Close changes none of the three. Requests must be finite for the counting only.

`SessionsProofs` proves `PlacesSuffice` (`CapacityHeld`), `ModelsInUseStayOpen` (`UsedModelsAreOpen`),
`CloseLeavesNothing` (`ShutClosesAll`) and `NobodyStandsStill` (`NoStandstill`) for any finite set of
requests, any Close calls, keys and scopes, any capacity and any bounds, from `SessionsAssumption`. One
invariant stands behind the first three. `Shape` apart, its conjuncts are

* `TableLive` and `ReadyOpen`: the table leads each key to an entry of its own that is not dead,
  and a model is closed only once its entry is dead, so what a request finds in the table is open;
* `GoodRequest` and `GoodCloser`: who works on an entry has its mutex, and what somebody still has
  to close is dead, which is why nobody else takes the mutex to use it;
* `Books`: every model that takes up the device has its entry in `Held`, that is in the table,
  flagged as retiring or taken by a Close, and `Held` never exceeds the capacity. `retiring.count`
  is the number of the flagged, so that `Full` counts `Held` (no Close has taken anything while
  admission is open). `Emptied` and `ShutdownRecord` say what is left while a Close works and after
  it: with nothing in the table, nothing taken and the flagged among the taken, `Held` is empty;
* `Lends`: the borrowers of an entry are the requests that have it, and a loading entry has exactly
  one loader. An idle entry that is evicted is therefore loaded and nobody's.

The lemmas follow the operators: `SupersededKeeps`, `SupersedeBooks` and `Rebinds` say what a turn that
supersedes does to each conjunct, `BooksByRequest`, `BooksByCloser` and `BooksFlag` what the books need
of a step, `LendsKept`, `LendsBorrowed`, `LendsGivenBack` and `LendsLoading` how a count of borrowers
moves with its request. Then there is one lemma per action, or per kind of actions where they do the
same to an entry. Requests must be finite for the counting.

`NobodyStandsStill` rests on a second invariant, `Busy`, which gives whatever may be waited for somebody
who gets on with it:

* `GoodEntry`: a mutex that is held has a request or a Close that will let go of it (`HoldsIt`,
  `Inside`); what is retiring has a request that is to close it, or borrowers of whom the last will
  (`WillClose`); and a load that failed is still in the hands of its loader, so that it does not stay in
  the table;
* `GoodWork` and `GoodInside`: who is to close entries has some, and what it works on is dead;
* `ShuttingDown`: while the director is shutting a Close is at it; once it is closed nobody is parked;
* `UseOrdered`: any two keys of the table are ordered by their last use;
* `NoLostWakeup` itself: what a parked request was turned away for still stands, or somebody is about to notify.

`CouldMeans` puts `CouldProceed`, which asks what the table would be after a turn, into terms of the table
as it is (`Could`): superseding moves a place from the table to the retiring and frees none, so `Full` is a
count of `Tabled \cup Flagged` alike before and after it (`FullCount`). `SleepOn` covers the steps that
leave the table alone, `AllWoken` those that notify and `SoonNotified` those that must notify next; what
remains are the turns that rebind an entry or park (`TurnSleeps`). One more lemma per action gives
`NextBusy`. `RequestGoing` and `CloserGoing` then follow each wait to its end: for an entry, to who has it;
for a place, to who has what fills it; for a Close, to what is retiring or to the Close before it. No wait
leads to another one that could lead back.

`OperationsProofs` proves four properties of `operations_attempts` for any identities,
deciders and callers and any limit: `OneAtATime`, `NoRunWithoutGrant` and
`CancelledEndsCancelled`. The bounds on attempts, reports and decisions are guards in the
model and no part of the argument. The invariant `Inv` adds to the first two

* `Typed`: the shapes of attempts, map and decisions, and that a request that has read a
  blocked operation names an identity and an answer;
* `GrantsCommitted`: a request that goes on to resume has a grant in the chain. A decision
  that lost its place goes on only as a repeat of the one that won it, which is a grant too.

`Moves` says what a step may do to one attempt (keep its identity, stay settled, not complete
once cancelled); `AttemptSteps` and `CallCancelMoves` show it of the steps, `TrimSpares` that
eviction takes settled operations only, `Admission` that a new attempt takes over from settled
ones.

For the refinement (`ObserverIsToldTheTruth`: `OperationsSpec => ImplementsLifecycle`) a second
invariant, `Watched`, says what the abstract state is made of: the last notification about a
retained identity is the state of the attempt that holds it, and about any other one it is of an
end (`Told`); an attempt has settled exactly when its goroutine has ended (`Goroutines`); the line
holds every retained identity once (`Lined`). A step is then one of four: the observer hears
nothing (`Unheard`), or of a change (`HeardChange`), an end (`SettleHeard`) or an admission
(`AdmitHeard`). The last two evict, and `RetainMaps` counts: of the settled identities as many go as
the line exceeds the limit by, or all of them. The model therefore says which place of the line comes
after how many others (`Before`) and not with `SelectSeq`, of which the library has no theorem;
`Ranks` and `FirstPlaces` are its facts.

It also proves the safety of `supervisor_children` for any finite set of requests that arrive and
any models: `CountersAreLeases`, `OneProcess`, `DrainNeverSleeps` and `SeveredForASwap`. The
invariant `SwapInv` adds

* `Tallied`: the counters of the current child are numbers of leases, from which a drain of zero
  follows only when no request is in flight;
* `ChildrenLaunched`: a child, also one that a failed stop left, is named by a request that has launched,
  so a launch names a new one, and no lease on an earlier child is mistaken for one on it;
* `LeasesOnly`: who has no lease has no child and holds nothing open;
* `SleepersWait`: a sleeper's grace is armed, and its child is in use.

`BlobsProofs` proves the three properties of `blobs_maintenance` for any contents, ancestors,
handles and goroutines. `BytesKept` and `PackerReads` hold for shared handles too. The invariant
is `Kept` (the bytes of what the catalog names are there) with `KnowsInside` (the view of the handle
inside a transaction is the catalog), `PackIsPackable` and `PackerIndex` (the handle that packed and
has forgotten its index has none since, or that of the pack). `ReleaseSparesReached` is
proved under the hypothesis `OwnHandles`, that each goroutine has a handle of its own, which is how
the program calls Release (`cmd/overgodb/precheck.go:148`); it needs `ViewsArePast` (a view with
the catalog's sequence number is the catalog) and `CollectedUnreached`.

`StagesProofs` proves `EachAttemptEndsOnce` (`OneResultPerAttempt`), `NothingUnrecorded`
(`LineageComplete`), `RestartGoesOn` (`RestartNotWedged`) and the action property `AnswerIsKept`
(`AnswerKept`) for every compiled program, any runs and
any number of them at a time, from `StagesAssumption`, `NoneAssumption` and `ProgramAssumption`. One
invariant stands behind the first three. Of the store it says

* `GoodStore`: the history of a stage, in which each receipt is of a later attempt than the one before or
  further on in the same one (`Onward`), and that each receipt rests on outputs that are recorded and
  names its own if they are durable, without which a run that recovers it could hold nothing.

Of a run it says

* `GoodPlan`: what a stage that must run reads, and every output, the run has or must run as well,
  and what it must run of earlier ready sets it has. The first half is that `Asked` is closed under
  `MustRun` (`AskedCloses`); with the order of the ready sets it gives a stage its inputs
  (`InputsHeld`) and a run that concludes its outputs (`SetThrough`);
* `GoodHeld` and `GoodEnd`: what a run has of a durable stage is recorded, and it succeeds with all outputs;
* `GoodBegun`: the attempt a run works on is in the store with the inputs the run has, and they
  do not change until it ends, since no stage of a ready set reads another. This is why two runs that
  repeat each other's receipts agree on an attempt's inputs;
* `GoodNote`: a receipt that is on its way follows the one its writer read, and fits where
  the writer is. If nobody moved the alias since, it continues the history (`HistoryGoesOn`);
* `GoodAlone`: a run that nobody was beside finds the alias where it read it, at its own admitted or
  running receipt for what it has begun. A refusal is therefore another run's doing.

`OtherRun` says that the step of one run keeps all this for another, because receipts are only
added (`Grown`); then there is one lemma per action, or per kind of actions.

`AnswerKept` needs two more conjuncts (`KeptInv`). `GoodTodo`: what a run must do is `Asked` of what it
had found (`Had`), and of that it has only what it has come to. `GoodSight`: while nobody is beside a
run, what it has read and does not have is not in the store; a run that plans reads the store stage by stage,
and it is this conjunct that fails once another commits in between. A run that has a receipt to commit then
lacks its stage, and the stages it must run and has by now cannot be all that `Asked` calls for: the least
set is closed, so one that it lacks is an output or read by none, and the store lacks it as well
(`AnswerMissing`). So a commit that undoes a whole answer is of a run that was beside another.

`StreamsProofs` proves `PageIsCurrent` (`QuietPageIsCurrent`) and `FinishedStays`
(`FinishedStaysFinished`) for any operations and statuses, any queue limit and any numbers of
transitions, observations and connections, from `StreamsAssumption`. The invariant says that the queue is
a true account of what the page has yet to learn:

* `LastTold`: the last event about an operation tells it as it is; `Followed`: an operation with no
  event is shown as it is, or is evicted and not shown as active. Neither is claimed while a
  resync is in the queue or a snapshot is still to come, which will tell all (`Placed`);
* `FinalQueue` and `FinalPage`: what is finished, in the queue or on the page, is told as the manager
  has it, since an end that nothing may follow does not change. Late events therefore change nothing;
* `InOrder` and `Complete`: servings are queued in the order of their cursors and, beyond the cursor
  that the stream has read, without a gap up to the last published (`NoGap`), so that the page never
  moves its cursor past an observation that it has not listed;
* `GoodList` and `Gapless`: the list has nothing twice and nothing that is not in the store; of what is at
  or before the cursor it lacks only what a full list of newer ones crowds out (`Covers`), and whatever
  stands before such an observation is newer (`Ordered`), so that the cut at the end of a full list takes
  the oldest (`FrontedCovers`). What is newer than the cursor may stand anywhere, and may be cut: its event comes.

`PushStep` and `Accounts` say what publishing does to this, for the three actions that publish: a queue
that overflows keeps nothing but a resync (`Dropped`), any other keeps the order and adds one
event at its end (`Kept`). The lemmas on `Relay` take the first event off and fold it into the page.

`BatchingProofs` proves `CachesFollow` (`CacheFollowsIds`), `MemoryHasOwners` (`MemoryIsOwned`) and
`OneIsLate` (`OneLateCallback`) for any number of calls, any size of the batch, any numbers of tokens,
blocks and refused releases, from `BatchingAssumption`. The invariant `Inv` says

* `Rounds`: who is admitted when; a token that is accepted is that of the request whose turn it is, and
  that request has read its prompt;
* `Follows`: a cache is that of an admitted request which has read its prompt or is about to, and its
  position is that of its ids; a request whose token is to come has a cache;
* `Memory`: every count of `heap` is accounted for (`Accounts`), no two sequences append to one
  storage, and as many releases failed as caches are deferred, or more (`Balance`);
* `Calls`: a request is queued, admitted or answered, one of these; Generate leaves the first two only
  for its context or the scheduler's end; and a request that was called back late has had its last
  callback, because its context is done and it has no token accepted that is still to be delivered. Without
  this last part `OneLateCallback` is not inductive.

The memory has the longest argument. `Accounts(h, rest, own, D)` says that each block is referred to as
often as the caches `own` of `D` name it, the deferred caches name it and it is lost, beyond a `rest`; a
release moves one cache out of `D`, into the deferred ones or away (`ReleaseAccounts`), and a sequence of
releases moves all of theirs (`ReleasedAccounts`). `MoveIn` moves the caches of a set into the rest.
So a step is an account of the sequences' caches, to which the copies are added (`CopiedAccounts`) and the new
caches (`AppendedAccounts`), and from which the copies (`CopiesGo`) and then the past caches (`HeldSettled`)
are released; what the memory counted at the start is not needed again. A step that fails gives back in the
same way all it had taken but for what is lost (`AbandonedAccounts`, `FailsMemory`). That two storages differ
after a step rests on `Referred`: a storage that a sequence keeps is not free, so no other gets it anew.

`Released` is a function over the caches to release, of which the library's induction theorems say
nothing here, since none of the provers instantiates their operator parameter. Instead `Least`
states that a set of naturals has a least member, from the well-foundedness of the library's order, and
`AfterExists` and `ReleasedAccounts` refute a least counterexample.

Model-checked only is liveness under fairness (`CloseCompletes`, `PageCatchesUp`, `AcquireAnswers`,
`EveryCallEnds`), which cannot be proved with the provers at hand, nor can facts about ENABLED; and so are
the disagreements of section 4, of which a run shows a behaviour.

## 6. What is not modelled

Contents of batches and the catalog they fold into, backup, clone, rebuild and replacement of a store,
verification of blobs; of Release, roots other than aliases (pinned content, followed children), causality
and the halving of releases that are too large for one batch; power loss for blob files (their sync before
the append is part of `Prepare`). Of the workflow runtime, the publication of execution authority,
delegation, stages that produce JSON, and the wait for a slot: a runtime has as many as its widest ready
set. Of the serving observations, one whose commit fails although its frame is in the file, and those
another process records: the page learns of them with its next snapshot. Of a commit of the workflow
runtime, the second read of the alias in `beginStage`, which the commit compares anyway. Of batching, the
packed cohorts (`device_batch_packed.go`: several outputs per step, in memory that no sequence shares),
prefill in chunks (`device_prefill.go`), the host caches, prompt caches, span slots and decode sessions, and
what a forward pass computes. `Abandoned` and `Releases` lose one storage for a failed step, as the one
refused release of the run can; with several, `device_cache.go:1124` and `:1193` may lose more in one step,
which the theorem about `MemoryIsOwned` does not speak of. A child that is terminated is taken to end:
`Stop` waits for it (`launcher.go:233`). Status of children and their output are not modelled, and the
components marked not modelled in `PROJECT.json` not at all. The file lock is taken by its contract:
exclusive, and released by the operating system when its holder dies. A write of a frame is torn or
complete; a file system that reorders the bytes of one append is not considered, and a rename is taken to be
durable no later than the next sync of a file. Time is not modelled: a timer or a cancellation may happen at
any moment.

## 7. Plan

Modules, in this order:

1. `Cutover` (`overgodb/store.go`, `ReplaceStore`): two renames and handles that are open.
2. `Turns` and `Downloads` (`workspace_conversations.go`, `hub_workspace.go`): bounded
   registries with shutdown, and the order in which the server closes its parts.

A component's safety and liveness are kept in one run where the state space allows, and a
finding's run goes when the finding is settled.

Theorems, in this order:

1. `Cutover`: wherever the process stops, the store that opens is the old one or the new one whole.
2. `Turns`: no turn outlives the shutdown that waited for it.
