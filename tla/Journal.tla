------------------------------- MODULE Journal -------------------------------
(***************************************************************************)
(* The OvergoDB commit journal (internal/overgodb): the active segment,    *)
(* the sealed segments, the checkpoint generations and the writable        *)
(* handles of several processes that share one store directory.            *)
(*                                                                         *)
(* A commit identity is a hash over the sequence number, the previous      *)
(* identity and the payload, so it is modelled as what it determines: the  *)
(* sequence of batches from the first commit to this one.  The zero head   *)
(* is the empty sequence and a sequence number is a length.                *)
(*                                                                         *)
(* A handle's catalog is the fold of the batches of its head; both are     *)
(* replaced together in the code and are one variable here.  Every file    *)
(* offset is a number of frames after the store header.                    *)
(***************************************************************************)
EXTENDS Integers, Sequences, SequencesExt, FiniteSetsExt

CONSTANTS
  Writers,       \* the writable handles, each in a process of its own
  Batches,       \* the requests: records with a field key, and a body
  NoOne,         \* the writer lock when no process holds it
  MaxSeals,      \* bound: rotations of the active segment
  CheckpointTail, \* the bound a closing writer holds its journal tail to
  InterruptLaterRotations, \* may a rotation stop half way once a
                           \* checkpoint generation exists?
  PowerLoss      \* may the machine lose what no sync has made durable?

ASSUME JournalAssumption ==
  /\ NoOne \notin Writers
  /\ MaxSeals \in Nat
  /\ CheckpointTail \in Nat
  /\ InterruptLaterRotations \in BOOLEAN
  /\ PowerLoss \in BOOLEAN

VARIABLES
  active,    \* the complete frames of the active segment
  torn,      \* bytes of an incomplete frame follow them
  stable,    \* the frames the last sync of the active segment covered
  sealed,    \* the sealed segments in name order, each a sequence of frames
  gens,      \* the checkpoint generations
  lock,      \* the holder of the writer lock file
  pc,        \* where each handle is; Store.fault is the place "faulted"
  req,       \* the request each handle works on
  head,      \* Store.head, and with it Store.sequence and Store.state
  segs,      \* Store.log.sealed: how many sealed segments the handle knows
  end,       \* Store.replayEnd
  anchored,  \* Store.anchored
  acked      \* every answer a committing client has been given

disk == <<active, torn, stable, sealed, gens>>
handles == <<head, segs, end, anchored>>
vars == <<active, torn, stable, sealed, gens, lock, pc, req,
          head, segs, end, anchored, acked>>

------------------------------------------------------------------------------
(* Frames and chains *)

Chain == Seq(Batches)

Frame == [prev : Chain, batch : Batches]

\* commitIdentity: what a frame commits to, its predecessors included.
Id(frame) == Append(frame.prev, frame.batch)

\* The identity a sequence of frames leaves the chain at.
HeadAfter(frames, from) ==
  IF frames = <<>> THEN from ELSE Id(Last(frames))

\* Every frame names its predecessor, the first one the head it continues.
Chained(frames, from) ==
  \A i \in 1 .. Len(frames) :
    frames[i].prev = IF i = 1 THEN from ELSE Id(frames[i - 1])

\* commitCoordinator.replay refuses a record whose key is in the log already.
KeyOnce(chain) ==
  \A i, j \in 1 .. Len(chain) : chain[i].key = chain[j].key => i = j

\* Mutant: the last commit is not looked at.
CommittedShort(chain, key) == \E i \in 1 .. Len(chain) - 1 : chain[i].key = key

\* The key a batch asks for is committed under this head.
Committed(chain, key) == \E i \in 1 .. Len(chain) : chain[i].key = key

\* The identity the key was committed under.
CommitOf(chain, key) ==
  SubSeq(chain, 1, CHOOSE i \in 1 .. Len(chain) : chain[i].key = key)

\* The chain after the first n sealed segments.
SealedHead(n) == IF n = 0 THEN <<>> ELSE Id(Last(sealed[n]))

\* A sealed segment is named for the sequence its last frame carries.
SegmentName(n) == Len(SealedHead(n))

\* replaySealedSegments: every segment continues the one before it.
SealedChained ==
  \A n \in 1 .. Len(sealed) :
    sealed[n] # <<>> /\ Chained(sealed[n], SealedHead(n - 1))

\* Mutant: a segment of one frame is not recognised.
PendingRotationStrict ==
  /\ sealed # <<>>
  /\ active # <<>>
  /\ Len(Id(active[1])) < SegmentName(Len(sealed))

\* The active segment repeats frames a sealed segment already holds: a
\* rotation stopped between publishing the segment and resetting the file.
PendingRotation ==
  /\ sealed # <<>>
  /\ active # <<>>
  /\ Len(Id(active[1])) <= SegmentName(Len(sealed))

------------------------------------------------------------------------------
(* Opening and refreshing.  A view is what replayLocked or refreshLocked   *)
(* leaves in a handle and, because a writer repairs what it replays, in    *)
(* the active file.  Each definition is the set of the views the files     *)
(* allow, empty when the replay refuses them.                              *)

\* Nothing to repair beyond an incomplete last frame, which is cut and synced.
Recovered(newHead, newAnchor) ==
  [head |-> newHead, anchored |-> newAnchor,
   active |-> active, stable |-> IF torn THEN active ELSE stable]

\* finishRotation: the active segment must be an exact duplicate of the last
\* sealed one; a writer completes the reset.
FinishRotation ==
  IF ~torn /\ active = Last(sealed)
  THEN {[head |-> SealedHead(Len(sealed)), anchored |-> 0,
         active |-> <<>>, stable |-> <<>>]}
  ELSE {}

\* The active segment replayed after this head.
ReplayActive(from, anchor) ==
  IF Chained(active, from) /\ KeyOnce(HeadAfter(active, from))
  THEN {Recovered(HeadAfter(active, from), anchor)}
  ELSE {}

\* The whole journal: the sealed segments, then the active one.
FullReplay ==
  IF ~SealedChained \/ ~KeyOnce(SealedHead(Len(sealed))) THEN {}
  ELSE IF PendingRotation THEN FinishRotation
  ELSE ReplayActive(SealedHead(Len(sealed)), 0)

Complete == {g \in gens : g.complete}

\* loadProjectionCheckpoints: the head of the newest generation whose members
\* are all there.
Newest ==
  {g.head : g \in {h \in Complete : \A k \in Complete : Len(k.head) <= Len(h.head)}}

\* openRecordLog from an anchor.  It lies at the header of the active segment,
\* where its digest covers no bytes; only a first frame that does not continue
\* it tells it from a wrong one, and sends the open to a full replay.
ReplayFrom(base) ==
  IF PendingRotation \/ (active # <<>> /\ active[1].prev # base)
  THEN FullReplay
  ELSE ReplayActive(base, Len(base))

\* replayLocked: the newest generation and the active segment after it.
Replayed ==
  IF Complete = {} THEN FullReplay ELSE UNION {ReplayFrom(base) : base \in Newest}

\* Mutant: the lock is held, the view is the one the handle had.
RefreshedStale(w) == {Recovered(head[w], anchored[w])}

\* refreshLocked of a writable handle: the frames after its replay end, or a
\* rebuild when the journal was rotated under it.
Refreshed(w) ==
  LET frames == SubSeq(active, end[w] + 1, Len(active))
  IN  IF segs[w] # Len(sealed) \/ Len(active) < end[w] THEN Replayed
      ELSE IF Chained(frames, head[w])
           THEN IF KeyOnce(HeadAfter(frames, head[w]))
                THEN {Recovered(HeadAfter(frames, head[w]), anchored[w])}
                ELSE {}
           ELSE IF head[w] # <<>> /\ frames[1].prev # head[w]
                THEN Replayed
                ELSE {}

\* A writer that replays leaves the active file whole.
Repair(view) ==
  /\ active' = view.active
  /\ stable' = view.stable
  /\ torn' = FALSE
  /\ UNCHANGED <<sealed, gens>>

\* The handle takes the view, and the active file its repair.
TakeView(w, view) ==
  /\ head' = [head EXCEPT ![w] = view.head]
  /\ anchored' = [anchored EXCEPT ![w] = view.anchored]
  /\ segs' = [segs EXCEPT ![w] = Len(sealed)]
  /\ end' = [end EXCEPT ![w] = Len(view.active)]
  /\ Repair(view)

------------------------------------------------------------------------------
(* The writable handles *)

Idle == [op |-> "none"]

\* Where the lock holder is between two writes of its own.
Rotating == {"published", "reset", "settled", "staging"}
Holding == {"holding", "appending", "written", "complete"} \cup Rotating

\* The transaction ends and its deferred Close gives up the lock.
Leave(w) ==
  /\ lock' = NoOne
  /\ pc' = [pc EXCEPT ![w] = "idle"]
  /\ req' = [req EXCEPT ![w] = Idle]

\* The handle's memory is gone, or nothing reads it again: ready refuses every
\* request of a faulted handle until it is closed.
Vanish(w, place) ==
  /\ pc' = [pc EXCEPT ![w] = place]
  /\ req' = [req EXCEPT ![w] = Idle]
  /\ head' = [head EXCEPT ![w] = <<>>]
  /\ segs' = [segs EXCEPT ![w] = 0]
  /\ end' = [end EXCEPT ![w] = 0]
  /\ anchored' = [anchored EXCEPT ![w] = 0]

\* A client learns that its batch is committed under the identity.
Answer(w, id, minted) ==
  acked' = acked \cup {[id |-> id, batch |-> req[w].batch, minted |-> minted]}

\* Open: a non-blocking or awaited lock around one replay; a refused replay
\* leaves no handle.
Open(w) ==
  /\ pc[w] = "closed"
  /\ lock = NoOne
  /\ \E view \in Replayed : TakeView(w, view)
  /\ pc' = [pc EXCEPT ![w] = "idle"]
  /\ UNCHANGED <<lock, req, acked>>

\* Commit, Refresh or Snapshot: the caller waits for the lock with what it
\* asked for.  Only a precondition was read before the wait, so only a commit
\* that carries one has a state of its own while it waits.
Ask(w) ==
  /\ pc[w] = "idle"
  /\ \E batch \in Batches :
       req' = [req EXCEPT ![w] = [op |-> "commit", batch |-> batch,
                                  expected |-> {head[w]}]]
  /\ pc' = [pc EXCEPT ![w] = "waiting"]
  /\ UNCHANGED <<disk, lock, handles, acked>>

\* The caller's context ends while it waits.
Withdraw(w) ==
  /\ pc[w] = "waiting"
  /\ pc' = [pc EXCEPT ![w] = "idle"]
  /\ req' = [req EXCEPT ![w] = Idle]
  /\ UNCHANGED <<disk, lock, handles, acked>>

\* writeTransaction up to its mutation: the lock, then the refresh.
Enter(w, request) ==
  /\ lock = NoOne
  /\ \E view \in Refreshed(w) : TakeView(w, view)
  /\ lock' = w
  /\ req' = [req EXCEPT ![w] = request]
  /\ pc' = [pc EXCEPT ![w] = "holding"]
  /\ UNCHANGED acked

\* The requests a caller makes without a precondition.
Requests ==
  {[op |-> "refresh"], [op |-> "snapshot"]}
  \cup {[op |-> "commit", batch |-> batch, expected |-> {}] : batch \in Batches}

Acquire(w) ==
  \/ pc[w] = "waiting" /\ Enter(w, req[w])
  \/ pc[w] = "idle" /\ \E request \in Requests : Enter(w, request)

\* The refresh refuses the journal, or one of its reads and repairs of the
\* file fails: the handle faults.
AcquireFaults(w) ==
  /\ pc[w] \in {"idle", "waiting"}
  /\ lock = NoOne
  /\ Vanish(w, "faulted")
  /\ UNCHANGED <<disk, lock, acked>>

\* The caller only wanted the view.
Release(w) ==
  /\ pc[w] = "holding"
  /\ req[w].op = "refresh"
  /\ Leave(w)
  /\ UNCHANGED <<disk, handles, acked>>

(* commitCoordinator.commit under the lock *)

\* The key is committed: an exact repeat is answered with its identity, any
\* other batch under the key is a conflict.
Repeat(w) ==
  /\ pc[w] = "holding"
  /\ req[w].op = "commit"
  /\ LET batch == req[w].batch
         id == CommitOf(head[w], batch.key)
     IN  /\ Committed(head[w], batch.key)
         /\ IF Last(id) = batch THEN Answer(w, id, FALSE) ELSE UNCHANGED acked
  /\ Leave(w)
  /\ UNCHANGED <<disk, handles>>

\* The expected head is not the head, or admission refuses the batch.
Refuse(w) ==
  /\ pc[w] = "holding"
  /\ req[w].op = "commit"
  /\ ~Committed(head[w], req[w].batch.key)
  /\ Leave(w)
  /\ UNCHANGED <<disk, handles, acked>>

\* The precondition a commit carries.
AtExpectedHead(w) == \A expected \in req[w].expected : expected = head[w]

\* recordLog.append: the frame's bytes start to reach the file.
StartAppend(w) ==
  /\ pc[w] = "holding"
  /\ req[w].op = "commit"
  /\ ~Committed(head[w], req[w].batch.key)
  /\ AtExpectedHead(w)
  /\ torn' = TRUE
  /\ pc' = [pc EXCEPT ![w] = "appending"]
  /\ UNCHANGED <<active, stable, sealed, gens, lock, req, handles, acked>>

\* The last byte of the frame is written.
FinishAppend(w) ==
  /\ pc[w] = "appending"
  /\ active' = Append(active, [prev |-> head[w], batch |-> req[w].batch])
  /\ torn' = FALSE
  /\ pc' = [pc EXCEPT ![w] = "written"]
  /\ UNCHANGED <<stable, sealed, gens, lock, req, handles, acked>>

\* Mutant: the caller is answered without a sync.
SyncAppendUnsynced(w) ==
  /\ pc[w] = "written"
  /\ head' = [head EXCEPT ![w] = Append(@, req[w].batch)]
  /\ end' = [end EXCEPT ![w] = @ + 1]
  /\ Answer(w, Append(head[w], req[w].batch), TRUE)
  /\ Leave(w)
  /\ UNCHANGED <<active, stable, torn, sealed, gens, segs, anchored>>

\* The sync returned: the state advances and the caller is answered.
SyncAppend(w) ==
  /\ pc[w] = "written"
  /\ stable' = active
  /\ head' = [head EXCEPT ![w] = Append(@, req[w].batch)]
  /\ end' = [end EXCEPT ![w] = @ + 1]
  /\ Answer(w, Append(head[w], req[w].batch), TRUE)
  /\ Leave(w)
  /\ UNCHANGED <<active, torn, sealed, gens, segs, anchored>>

\* Mutant: a failed write is answered like a commit.
FailAppendAnswers(w) ==
  /\ pc[w] \in {"appending", "written"}
  /\ Answer(w, Append(head[w], req[w].batch), TRUE)
  /\ Vanish(w, "faulted")
  /\ lock' = NoOne
  /\ UNCHANGED disk

\* Mutant: a failed sync takes the written frame back.
FailAppendRollsBack(w) ==
  /\ pc[w] \in {"appending", "written"}
  /\ active' = IF pc[w] = "written" THEN Front(active) ELSE active
  /\ Vanish(w, "faulted")
  /\ lock' = NoOne
  /\ UNCHANGED <<torn, stable, sealed, gens, acked>>

\* A write or the sync failed: appendFault, the journal is uncertain.
FailAppend(w) ==
  /\ pc[w] \in {"appending", "written"}
  /\ Vanish(w, "faulted")
  /\ lock' = NoOne
  /\ UNCHANGED <<disk, acked>>

(* snapshotLocked under the lock: the rotation, then one generation *)

\* sealLocked: sync, copy, publish under the name of the last sequence.  The
\* segment is there for every process from the rename on; what a power loss
\* leaves of it is in LosePower.
PublishSegment(w) ==
  /\ pc[w] = "holding"
  /\ req[w].op \in {"snapshot", "close"}
  /\ end[w] > 0
  /\ Len(sealed) < MaxSeals
  /\ \A n \in 1 .. Len(sealed) : SegmentName(n) # Len(head[w])
  /\ stable' = active
  /\ sealed' = Append(sealed, active)
  /\ pc' = [pc EXCEPT ![w] = "published"]
  /\ UNCHANGED <<active, torn, gens, lock, req, handles, acked>>

\* The active file shrinks to its header ...
ResetActive(w) ==
  /\ pc[w] = "published"
  /\ active' = <<>>
  /\ pc' = [pc EXCEPT ![w] = "reset"]
  /\ UNCHANGED <<torn, stable, sealed, gens, lock, req, handles, acked>>

\* ... and the handle follows it once that is durable.
SyncReset(w) ==
  /\ pc[w] = "reset"
  /\ stable' = active
  /\ segs' = [segs EXCEPT ![w] = Len(sealed)]
  /\ end' = [end EXCEPT ![w] = 0]
  /\ pc' = [pc EXCEPT ![w] = "settled"]
  /\ UNCHANGED <<active, torn, sealed, gens, lock, req, head, anchored, acked>>

\* The generation of this head, its members not all written yet; a set this
\* sequence already has is replaced member by member.
StageGeneration(w) ==
  /\ \/ pc[w] = "settled"
     \/ /\ pc[w] = "holding"
        /\ req[w].op \in {"snapshot", "close"}
        /\ end[w] = 0
        /\ head[w] # <<>>
  /\ gens' = {g \in gens : Len(g.head) # Len(head[w])}
             \cup {[head |-> head[w], complete |-> FALSE]}
  /\ pc' = [pc EXCEPT ![w] = "staging"]
  /\ UNCHANGED <<active, torn, stable, sealed, lock, req, handles, acked>>

\* Its members are all there, for every process; what a power loss leaves of
\* it is in LosePower.
CompleteGeneration(w) ==
  /\ pc[w] = "staging"
  /\ gens' = {g \in gens : Len(g.head) # Len(head[w])}
             \cup {[head |-> head[w], complete |-> TRUE]}
  /\ pc' = [pc EXCEPT ![w] = "complete"]
  /\ UNCHANGED <<active, torn, stable, sealed, lock, req, handles, acked>>

\* The other generations go, and the handle is anchored at its head; a
\* handle that was closing is gone.
RetireGenerations(w) ==
  /\ pc[w] = "complete"
  /\ gens' = {g \in gens : Len(g.head) = Len(head[w])}
  /\ IF req[w].op = "close"
     THEN Vanish(w, "closed") /\ lock' = NoOne
     ELSE /\ Leave(w)
          /\ anchored' = [anchored EXCEPT ![w] = Len(head[w])]
          /\ UNCHANGED <<head, segs, end>>
  /\ UNCHANGED <<active, torn, stable, sealed, acked>>

\* May a rotation stop here: always while there is no generation an open
\* could take for the newest, and afterwards only if the constant says so.
MayInterrupt(w) ==
  pc[w] \in Rotating /\ Complete # {} => InterruptLaterRotations

\* A file operation of the snapshot fails, or there is nothing to snapshot:
\* the error is returned and the handle does not fault.
FailSnapshot(w) ==
  /\ pc[w] \in {"holding", "complete"} \cup Rotating
  /\ req[w].op \in {"snapshot", "close"}
  /\ MayInterrupt(w)
  /\ IF req[w].op = "close"
     THEN Vanish(w, "closed") /\ lock' = NoOne
     ELSE Leave(w) /\ UNCHANGED handles
  /\ UNCHANGED <<disk, acked>>

\* Close of a handle that cannot or need not write a checkpoint; its refresh
\* repairs the active file like any other.
Close(w) ==
  /\ pc[w] \in {"idle", "faulted"}
  /\ IF pc[w] = "faulted" \/ lock # NoOne \/ Refreshed(w) = {}
     THEN UNCHANGED disk
     ELSE \E view \in Refreshed(w) :
            Len(view.head) - view.anchored <= CheckpointTail /\ Repair(view)
  /\ Vanish(w, "closed")
  /\ UNCHANGED <<lock, acked>>

\* Close of a handle whose tail is too long takes the snapshot first.
CloseLong(w) ==
  /\ pc[w] = "idle"
  /\ Enter(w, [op |-> "close"])
  /\ Len(head'[w]) - anchored'[w] > CheckpointTail

------------------------------------------------------------------------------
(* Failures *)

\* The process dies: its handle is gone, the operating system drops its lock
\* and the files stay as they were written.
Crash(w) ==
  /\ pc[w] # "closed"
  /\ MayInterrupt(w)
  /\ lock' = IF lock = w THEN NoOne ELSE lock
  /\ Vanish(w, "closed")
  /\ UNCHANGED <<disk, acked>>

\* What the active file may hold after a power loss, which keeps the order of
\* the writes to it: at least what its last sync covered, the first lost frame
\* perhaps in part; or, when it was reset since, what it held before.
Survivors ==
  LET kept == {SubSeq(active, 1, n) : n \in 0 .. Len(active)}
      whole == {[frames |-> s, torn |-> FALSE] : s \in kept}
      cut == {[frames |-> s, torn |-> TRUE] :
                s \in IF torn THEN kept ELSE kept \ {active}}
  IN  IF IsPrefix(stable, active)
      THEN {s \in whole \cup cut : Len(stable) <= Len(s.frames)}
      ELSE whole \cup cut \cup {[frames |-> stable, torn |-> FALSE]}

\* The last segment may be gone with its rename: the reset that follows it in
\* the active file is not durable, so the file holds what the segment held, and
\* no generation was built on it.
SegmentGoes ==
  /\ sealed # <<>> /\ active' = Last(sealed) /\ stable = active' /\ ~torn'
  /\ \A g \in gens : g.head # SealedHead(Len(sealed))
  /\ sealed' = Front(sealed)

\* The generations may be gone, or those that were not whole.  That the newest
\* one goes and leaves an older one is a rotation that stopped half way.
GenerationsGo ==
  \/ gens' \in {gens, Complete, {}}
  \/ InterruptLaterRotations /\ gens' \in SUBSET gens

\* The machine stops: every process dies, and of the files is there what
\* survives.  The file system is one on which a rename is durable no later than
\* the next sync of a file: an open that resets the active file for a rotation
\* that stopped syncs that file only.
LosePower ==
  /\ PowerLoss
  /\ \A w \in Writers : MayInterrupt(w)
  /\ \E s \in Survivors :
       /\ active' = s.frames
       /\ stable' = s.frames
       /\ torn' = s.torn
  /\ sealed' = sealed \/ SegmentGoes
  /\ GenerationsGo
  /\ lock' = NoOne
  /\ pc' = [w \in Writers |-> "closed"]
  /\ req' = [w \in Writers |-> Idle]
  /\ head' = [w \in Writers |-> <<>>]
  /\ segs' = [w \in Writers |-> 0]
  /\ end' = [w \in Writers |-> 0]
  /\ anchored' = [w \in Writers |-> 0]
  /\ UNCHANGED acked

------------------------------------------------------------------------------
Init ==
  /\ active = <<>> /\ torn = FALSE /\ stable = <<>>
  /\ sealed = <<>> /\ gens = {}
  /\ lock = NoOne
  /\ pc = [w \in Writers |-> "closed"]
  /\ req = [w \in Writers |-> Idle]
  /\ head = [w \in Writers |-> <<>>]
  /\ segs = [w \in Writers |-> 0]
  /\ end = [w \in Writers |-> 0]
  /\ anchored = [w \in Writers |-> 0]
  /\ acked = {}

Step(w) ==
  \/ Open(w) \/ Ask(w) \/ Withdraw(w)
  \/ Acquire(w) \/ AcquireFaults(w) \/ Release(w)
  \/ Repeat(w) \/ Refuse(w)
  \/ StartAppend(w) \/ FinishAppend(w) \/ SyncAppend(w) \/ FailAppend(w)
  \/ PublishSegment(w) \/ ResetActive(w) \/ SyncReset(w)
  \/ StageGeneration(w) \/ CompleteGeneration(w) \/ RetireGenerations(w)
  \/ FailSnapshot(w) \/ Close(w) \/ CloseLong(w) \/ Crash(w)

Next == \E w \in Writers : Step(w)

\* The journal as its processes leave it; Tailing adds the loss of power.
Spec == Init /\ [][Next]_vars

\* The journal on a machine that may stop.
PowerSpec == Init /\ [][Next \/ LosePower]_vars

------------------------------------------------------------------------------
(* Properties *)

\* The chain the files hold, whoever reads them.
Tip == IF active = <<>> THEN SealedHead(Len(sealed)) ELSE Id(Last(active))

\* What a handle may be working on.
Request ==
  {[op |-> op] : op \in {"none", "refresh", "snapshot", "close"}}
  \cup [op : {"commit"}, batch : Batches, expected : SUBSET Chain]

\* Every variable keeps its shape.
TypeOK ==
  /\ active \in Seq(Frame) /\ stable \in Seq(Frame)
  /\ torn \in BOOLEAN
  /\ sealed \in Seq(Seq(Frame))
  /\ gens \subseteq [head : Chain, complete : BOOLEAN]
  /\ lock \in Writers \cup {NoOne}
  /\ pc \in [Writers -> {"closed", "idle", "waiting", "faulted"} \cup Holding]
  /\ req \in [Writers -> Request]
  /\ head \in [Writers -> Chain]
  /\ segs \in [Writers -> Nat]
  /\ end \in [Writers -> Nat]
  /\ anchored \in [Writers -> Nat]
  /\ acked \subseteq [id : Chain, batch : Batches, minted : BOOLEAN]

\* A handle that has refreshed under the lock stands at the end of the chain
\* the files hold, so what it appends continues it (sealLocked and append).
HolderAtTip ==
  \A w \in Writers :
    pc[w] \in Holding \ {"written"} => head[w] = Tip

\* One chain runs through the sealed segments and the active one, no key
\* twice on it, whatever stopped half way before (segments_test.go: "the
\* commit chain is continuous across sealed files"), and who holds the lock
\* is at its end.
OneChain ==
  /\ TypeOK
  /\ SealedChained
  /\ IF PendingRotation THEN active = Last(sealed)
     ELSE Chained(active, SealedHead(Len(sealed)))
  /\ KeyOnce(Tip)
  /\ HolderAtTip

\* An answered commit is on the chain for good: no crash, failed append,
\* rotation, checkpoint or reopening takes it back.
AnswersKept ==
  \A a \in acked : IsPrefix(a.id, Tip)

\* The same for the answers a sync stands behind, when power may be lost.
MintedKept ==
  \A a \in acked : a.minted => IsPrefix(a.id, Tip)

\* How much of the chain a client has been told about by a commit of its own.
Kept == Max({0} \cup {Len(a.id) : a \in {b \in acked : b.minted}})

\* The files, the handles, the crashes and the rotations together implement
\* the chain the store promises.
Promise == INSTANCE Chain WITH log <- Tip, kept <- Kept
ImplementsChain == Promise!Spec

\* Whatever stopped half way, a store no transaction holds can be opened (the
\* replay accepts the files: log.go, finishRotation and the torn tail).
AlwaysOpens == lock = NoOne => Replayed # {}
=============================================================================
