------------------------------ MODULE Batching ------------------------------
(***************************************************************************)
(* Continuous batching: the ContinuousGenerator of                         *)
(* internal/inference/continuous_generation.go, which serves a resident    *)
(* model when the server admits more than one request, over the            *)
(* ContinuousBatch of continuous_batch.go and the device memory that its   *)
(* caches hold (device_cache.go).                                          *)
(*                                                                         *)
(* Generate runs in the goroutine of its request: it queues the request    *)
(* and waits.  One goroutine, the scheduler, admits requests, appends to   *)
(* all admitted sequences in one step, hands each its token and answers.   *)
(* It alone calls the batch, so what a call does to the batch is one step. *)
(* What a forward pass computes is external: it returns caches or fails.   *)
(* Contexts that one pass over the requests asks are asked at once: nobody *)
(* sees in which order they ended.                                         *)
(***************************************************************************)
EXTENDS Integers, Sequences, FiniteSets, Functions

CONSTANTS
  MaxCalls,      \* bound: Generate calls ever made
  MaxSequences,  \* options.MaxSequences, also the length of the queue
  MaxNewTokens,
  PromptTokens,
  Shifting,      \* options.ContextShift
  MaxLeaving,    \* bound: requests whose context ends
  MaxFaults,     \* bound: releases of device memory that fail
  MaxBlocks,     \* bound: allocations of each kind at a time
  None

\* Requests are numbered in the order in which they enter the queue: a request's
\* number stands for the id of its sequence.
Requests == 1 .. MaxCalls

\* The caches of one step share its outputs; the tokens of a sequence are in a storage
\* that its next cache may take over.  0 is nil.
Blocks == 1 .. MaxBlocks
Cache(o, s) == [outputs |-> o, store |-> s]
Caches == [outputs : Blocks \cup {0}, store : Blocks \cup {0}]

ASSUME BatchingAssumption ==
  /\ MaxCalls \in Nat /\ MaxSequences \in Nat \ {0}
  /\ MaxNewTokens \in Nat \ {0} /\ PromptTokens \in Nat \ {0}
  /\ Shifting \in BOOLEAN /\ MaxLeaving \in Nat /\ MaxFaults \in Nat /\ MaxBlocks \in Nat
  /\ None \notin Caches

VARIABLES
  call,      \* where each Generate is
  answered,  \* requests whose response channel holds an answer, ids or an error
  cancelled, \* requests whose context is done
  late,      \* history: callbacks begun after Generate returned
  stop,      \* ContinuousGenerator.ctx is done
  queue,     \* ContinuousGenerator.submit, whose first is the least
  phase,     \* where run is
  active,    \* the admitted requests
  todo,      \* those to append to, then those whose token is still to come
  accepted,  \* the first of todo has a token and its context was asked
  evaluated, \* active requests whose prompt the batch has read
  produced,  \* tokens in the ids of an active request, beyond the prompt
  device,    \* each sequence's device cache, or None
  position,  \* tokens its sequence has appended, those a shift discarded included
  heap       \* the memory of the caches, and ContinuousBatch.deferred

callVars == <<call, answered, cancelled, late>>
stateVars == <<evaluated, produced>>
batchVars == <<device, position, heap>>
roundVars == <<queue, phase, active, todo, accepted>>
vars == <<callVars, stop, roundVars, stateVars, batchVars>>

------------------------------------------------------------------------------
(* Device memory *)

\* A block for each of S, and whether there are as many as it takes.
Unused(refs) == {b \in Blocks : refs[b] = 0}
Room(refs, n) == Cardinality(Unused(refs)) >= n
Fresh(refs, S) == CHOOSE f \in Injection(S, Unused(refs)) : TRUE

Gives(refs, b) == [x \in Blocks |-> IF x = b THEN refs[x] - 1 ELSE refs[x]]

\* What a release would free, and the cache if the device refuses to.
Alone(refs, b) == b # 0 /\ refs[b] = 1
Defers(h, c) == [h EXCEPT !.deferred = Append(@, c), !.faults = @ + 1]

\* Mutant: a cache whose storage could not be freed keeps naming the outputs it gave back.
ReleaseNamesOutputs(h, c) ==
  LET given == [h EXCEPT !.outputs = Gives(@, c.outputs)]
  IN  {[given EXCEPT !.stores = Gives(@, c.store)]}
      \cup (IF Alone(h.outputs, c.outputs) THEN {Defers(h, c)} ELSE {})
      \cup (IF Alone(h.stores, c.store) THEN {Defers(given, c)} ELSE {})

\* deviceKVCache.Release: the outputs, then the storage.  The last holder frees them,
\* which the device may refuse; the cache is then deferred with what it still holds.
Release(h, c) ==
  LET given == [h EXCEPT !.outputs = Gives(@, c.outputs)]
  IN  {[given EXCEPT !.stores = Gives(@, c.store)]}
      \cup (IF Alone(h.outputs, c.outputs) THEN {Defers(h, c)} ELSE {})
      \cup (IF Alone(h.stores, c.store) THEN {Defers(given, Cache(0, c.store))} ELSE {})

\* What releasing the caches up to the n-th, one after the other, can lead to.
Released(n, h, caches) ==
  LET after[i \in 0 .. n] ==
        IF i = 0 THEN {h}
        ELSE IF i \notin DOMAIN caches THEN after[i - 1]
        ELSE {g \in UNION {Release(k, caches[i]) : k \in after[i - 1]} : g.faults <= MaxFaults}
  IN  after[n]

Init ==
  /\ call = [r \in Requests |-> "submitting"] /\ answered = {}
  /\ cancelled = {} /\ late = [r \in Requests |-> 0]
  /\ stop = FALSE /\ queue = {} /\ phase = "idle"
  /\ active = {} /\ todo = {} /\ accepted = FALSE
  /\ evaluated = {} /\ produced = [r \in Requests |-> 0]
  /\ device = [r \in Requests |-> None] /\ position = [r \in Requests |-> 0]
  /\ heap = [outputs |-> [b \in Blocks |-> 0], stores |-> [b \in Blocks |-> 0],
             deferred |-> <<>>, lost |-> {}, faults |-> 0]

------------------------------------------------------------------------------
(* Generate *)

Submit(r) ==
  /\ call[r] = "submitting" /\ Cardinality(queue) < MaxSequences
  /\ \A q \in Requests : q < r => call[q] # "submitting"
  /\ queue' = queue \cup {r}
  /\ call' = [call EXCEPT ![r] = "waiting"]
  /\ UNCHANGED <<answered, cancelled, late, stop, phase, active, todo, accepted, stateVars, batchVars>>

\* Mutant: the wait for an answer does not watch for the scheduler's end.
ReturnUnlessDone(r) ==
  /\ \/ call[r] = "submitting" /\ (r \in cancelled \/ phase = "done")
     \/ call[r] = "waiting" /\ (r \in answered \/ r \in cancelled)
  /\ call' = [call EXCEPT ![r] = "returned"]
  /\ UNCHANGED <<answered, cancelled, late, stop, roundVars, stateVars, batchVars>>

\* An answer, the request's context or the scheduler's end, whichever select finds.
Return(r) ==
  /\ \/ call[r] = "submitting" /\ (r \in cancelled \/ phase = "done")
     \/ call[r] = "waiting" /\ (r \in answered \/ r \in cancelled \/ phase = "done")
  /\ call' = [call EXCEPT ![r] = "returned"]
  /\ UNCHANGED <<answered, cancelled, late, stop, roundVars, stateVars, batchVars>>

Cancel(r) ==
  /\ r \notin cancelled /\ call[r] # "returned" /\ Cardinality(cancelled) < MaxLeaving
  /\ cancelled' = cancelled \cup {r}
  /\ UNCHANGED <<call, answered, late, stop, roundVars, stateVars, batchVars>>

\* ContinuousGenerator.Close, which then waits for the scheduler.
Close ==
  /\ ~stop
  /\ stop' = TRUE
  /\ UNCHANGED <<callVars, roundVars, stateVars, batchVars>>

------------------------------------------------------------------------------
(* Rounds of the scheduler *)

\* Before the next round: with nothing active it waits for a request or the end.
Round(running) == IF running = {} THEN "idle" ELSE "admitting"

\* admit of the next request.  One that is cancelled, malformed, or wants no token is
\* answered at once.
Admit ==
  /\ phase = "idle" \/ (phase = "admitting" /\ Cardinality(active) < MaxSequences)
  /\ \E r \in queue :
       /\ \A q \in queue : r <= q
       /\ queue' = queue \ {r} /\ phase' = "admitting"
       /\ \/ r \notin cancelled /\ active' = active \cup {r} /\ UNCHANGED answered
          \/ answered' = answered \cup {r} /\ UNCHANGED active
  /\ UNCHANGED <<call, cancelled, late, stop, todo, accepted, stateVars, batchVars>>

\* What the batch and the scheduler know of those that leave.
Forget(gone) ==
  /\ device' = [r \in Requests |-> IF r \in gone THEN None ELSE device[r]]
  /\ position' = [r \in Requests |-> IF r \in gone THEN 0 ELSE position[r]]
  /\ active' = active \ gone
  /\ evaluated' = evaluated \ gone
  /\ produced' = [r \in Requests |-> IF r \in gone THEN 0 ELSE produced[r]]

\* The requests in the order of their ids, and the caches of those that have one.
ById(S) == [r \in S |-> r]
Held(order) == [i \in {i \in DOMAIN order : device[order[i]] # None} |-> device[order[i]]]

\* For each, ContinuousBatch.Remove, delete(active, id) and the answer.
Leave(order) ==
  /\ heap' \in Released(MaxCalls, heap, Held(order))
  /\ Forget(Range(order))
  /\ answered' = answered \cup Range(order)

\* Nobody else is queued, or nobody fits: the round begins.
RoundBegins == phase = "admitting" /\ (queue = {} \/ Cardinality(active) >= MaxSequences)

\* A request whose context is done leaves; the others are to append.
Sweep ==
  /\ RoundBegins /\ ~stop
  /\ Leave(ById(active \cap cancelled))
  /\ todo' = active'
  /\ phase' = IF active' = {} THEN "idle" ELSE "stepping"
  /\ UNCHANGED <<call, cancelled, late, stop, queue, accepted>>

\* The sequences whose cache may have to be copied without the tokens to discard.
Shiftable == {r \in todo : Shifting /\ device[r] # None}

\* Each copy has outputs of its own, and so has the forward pass.
Outputs(S) == Fresh(heap.outputs, S \cup {0})
Copies(S) == [r \in S |-> Cache(Outputs(S)[r], 0)]
Copied(S) == [heap EXCEPT !.outputs =
               [b \in Blocks |-> IF \E r \in S : Outputs(S)[r] = b THEN 1 ELSE @[b]]]

\* What the forward pass allocated is released by it; if the device refuses that, nobody
\* names the outputs, or the storage, any more.
Abandoned(h, o, b) ==
  {g \in {h,
          [h EXCEPT !.faults = @ + 1, !.outputs[o] = 1, !.lost = @ \cup {<<"outputs", o>>}],
          [h EXCEPT !.faults = @ + 1, !.stores[b] = 1, !.lost = @ \cup {<<"store", b>>}]} :
     g.faults <= MaxFaults}

\* stepDeviceLocked fails: the copies it made go, the sequences stay as they were.
\* failStates then removes those it was for, each with the error.
StepFails ==
  /\ phase = "stepping"
  /\ \E S \in SUBSET Shiftable :
       /\ Room(heap.outputs, Cardinality(S) + 1) /\ Room(heap.stores, 1)
       /\ \E h \in Abandoned(Copied(S), Outputs(S)[0], Fresh(heap.stores, {0})[0]) :
            \E g \in Released(MaxCalls, h, Copies(S)) :
              heap' \in Released(MaxCalls, g, Held(ById(todo)))
  /\ Forget(todo)
  /\ answered' = answered \cup todo
  /\ todo' = {} /\ phase' = Round(active')
  /\ UNCHANGED <<call, cancelled, late, stop, queue, accepted>>

\* The storages a step may append to in place: the sequence's cache alone holds it.
Sole(S) == {r \in todo \ S : device[r] # None /\ heap.stores[device[r].store] = 1}

\* A storage that is shared or too small gives way to a new one.
StoreAfter(inPlace, r) ==
  IF r \in inPlace THEN device[r].store ELSE Fresh(heap.stores, todo \ inPlace)[r]

\* The memory once the forward pass has its outputs and storages.
Appended(S, inPlace) ==
  [Copied(S) EXCEPT
     !.outputs[Outputs(S)[0]] = Cardinality(todo),
     !.stores = [b \in Blocks |-> @[b] + Cardinality({r \in todo : StoreAfter(inPlace, r) = b})]]

\* stepDeviceLocked: the step's caches, which share its outputs, replace the past ones.
\* Those are released after the copies.
Step ==
  /\ phase = "stepping" /\ phase' = "accepting"
  /\ \E S \in SUBSET Shiftable : \E inPlace \in SUBSET Sole(S) :
       /\ Room(heap.outputs, Cardinality(S) + 1) /\ Room(heap.stores, Cardinality(todo \ inPlace))
       /\ device' = [r \in Requests |->
            IF r \in todo THEN Cache(Outputs(S)[0], StoreAfter(inPlace, r)) ELSE device[r]]
       /\ \E h \in Released(MaxCalls, Appended(S, inPlace), Copies(S)) :
            heap' \in Released(MaxCalls, h, Held(ById(todo)))
  /\ position' = [r \in Requests |->
       IF r \notin todo THEN position[r]
       ELSE IF r \in evaluated THEN position[r] + 1 ELSE position[r] + PromptTokens + produced[r]]
  /\ UNCHANGED <<callVars, stop, queue, active, todo, accepted, stateVars>>

------------------------------------------------------------------------------
(* Tokens *)

Turn(r) == phase = "accepting" /\ r \in todo /\ \A q \in todo : r <= q
CalledBack(r) == late' = [late EXCEPT ![r] = IF call[r] = "returned" THEN @ + 1 ELSE @]

\* OnPromptEvaluated, after a sequence's first step.
Evaluate(r) ==
  /\ Turn(r) /\ r \notin evaluated
  /\ evaluated' = evaluated \cup {r}
  /\ CalledBack(r)
  /\ UNCHANGED <<call, answered, cancelled, stop, roundVars, produced, batchVars>>

\* Mutant: the request's context is not asked.
AcceptAlways(r) ==
  /\ Turn(r) /\ r \in evaluated /\ ~accepted
  /\ accepted' = TRUE
  /\ UNCHANGED <<callVars, stop, queue, phase, active, todo, stateVars, batchVars>>

\* A token is sampled and acceptSampleEvent asks the request's context.
Accept(r) ==
  /\ Turn(r) /\ r \in evaluated /\ ~accepted /\ r \notin cancelled
  /\ accepted' = TRUE
  /\ UNCHANGED <<callVars, stop, queue, phase, active, todo, stateVars, batchVars>>

\* Mutant: a sequence that was given up stays in the batch.
RefuseKeepsSequence(r) ==
  /\ Turn(r) /\ ~accepted
  /\ todo' = todo \ {r}
  /\ active' = active \ {r}
  /\ answered' = answered \cup {r}
  /\ evaluated' = evaluated \ {r} /\ produced' = [produced EXCEPT ![r] = 0]
  /\ UNCHANGED <<call, cancelled, late, stop, queue, phase, accepted, batchVars>>

\* The clock cannot be read before OnPromptEvaluated, the sampler fails, or the
\* context is done.
Refuse(r) ==
  /\ Turn(r) /\ ~accepted
  /\ todo' = todo \ {r}
  /\ Leave(ById({r}))
  /\ UNCHANGED <<call, cancelled, late, stop, queue, phase, accepted>>

\* The token joins the ids and goes to OnToken.  OnToken's error, a token the request
\* stops at, or its last one ends the sequence.
Deliver(r) ==
  /\ Turn(r) /\ accepted
  /\ accepted' = FALSE /\ todo' = todo \ {r}
  /\ CalledBack(r)
  /\ \/ /\ produced[r] + 1 < MaxNewTokens
        /\ produced' = [produced EXCEPT ![r] = @ + 1]
        /\ UNCHANGED <<answered, active, evaluated, batchVars>>
     \/ Leave(ById({r}))
  /\ UNCHANGED <<call, cancelled, stop, queue, phase>>

RoundEnds ==
  /\ phase = "accepting" /\ todo = {}
  /\ phase' = Round(active)
  /\ UNCHANGED <<callVars, stop, queue, active, todo, accepted, stateVars, batchVars>>

------------------------------------------------------------------------------
(* The end *)

\* The scheduler is idle, or the next round would begin: failAll, in some order.
Stop ==
  /\ stop /\ (phase = "idle" \/ RoundBegins)
  /\ phase' = "rejecting"
  /\ \E order \in Bijection(1 .. Cardinality(active), active) : Leave(order)
  /\ UNCHANGED <<call, cancelled, late, stop, queue, todo, accepted>>

\* rejectQueued: who is queued is answered; who comes later finds the scheduler done.
Reject ==
  /\ phase = "rejecting" /\ phase' = "closing"
  /\ queue' = {}
  /\ answered' = answered \cup queue
  /\ UNCHANGED <<call, cancelled, late, stop, active, todo, accepted, stateVars, batchVars>>

\* ContinuousBatch.Close, of which the sequences are gone: what was deferred is
\* released once more; then close(done).
CloseBatch ==
  /\ phase = "closing" /\ phase' = "done"
  /\ heap' \in Released(Len(heap.deferred), [heap EXCEPT !.deferred = <<>>], heap.deferred)
  /\ UNCHANGED <<callVars, stop, queue, active, todo, accepted, stateVars, device, position>>

Scheduler ==
  \/ Admit \/ Sweep \/ StepFails \/ Step
  \/ \E r \in Requests : Evaluate(r) \/ Accept(r) \/ Refuse(r) \/ Deliver(r)
  \/ RoundEnds \/ Stop \/ Reject \/ CloseBatch

Next ==
  \/ Scheduler
  \/ \E r \in Requests : Submit(r) \/ Return(r) \/ Cancel(r)
  \/ Close

\* The scheduler runs; steps and callbacks return.  A select that can go on does.
\* Nobody is obliged to cancel or to close.
Fairness ==
  /\ WF_vars(Scheduler)
  /\ \A r \in Requests : WF_vars(Submit(r) \/ Return(r))

BatchingSpec == Init /\ [][Next]_vars /\ Fairness

------------------------------------------------------------------------------
(* Properties *)

BatchingTypeOK ==
  /\ call \in [Requests -> {"submitting", "waiting", "returned"}]
  /\ late \in [Requests -> Nat] /\ produced \in [Requests -> Nat] /\ position \in [Requests -> Nat]
  /\ stop \in BOOLEAN /\ accepted \in BOOLEAN
  /\ \A S \in {answered, cancelled, evaluated, queue, active, todo} : S \subseteq Requests
  /\ phase \in {"idle", "admitting", "stepping", "accepting", "rejecting", "closing", "done"}
  /\ device \in [Requests -> Caches \cup {None}]
  /\ heap \in [outputs : [Blocks -> Nat], stores : [Blocks -> Nat], deferred : Seq(Caches),
               lost : SUBSET ({"outputs", "store"} \X Blocks), faults : Nat]

\* A step has appended to r, and its token is still to come.
Awaits(r) == phase = "accepting" /\ r \in todo

\* The scheduler and the batch agree, whoever failed or left: the batch holds sequences
\* of admitted requests only, never more than it admits, and a sequence's cache has
\* read every id of its request but the one sampled last; who sends only the last one
\* has a cache.
CacheFollowsIds ==
  /\ BatchingTypeOK
  /\ Cardinality(active) <= MaxSequences
  /\ \A r \in evaluated : device[r] # None
  /\ \A r \in Requests : device[r] # None =>
       /\ r \in active
       /\ position[r] = PromptTokens + produced[r] - (IF Awaits(r) THEN 0 ELSE 1)

Names(field, b) ==
    Cardinality({r \in Requests : device[r] # None /\ device[r][field] = b})
  + Cardinality({i \in DOMAIN heap.deferred : heap.deferred[i][field] = b})
  + Cardinality({<<field, b>>} \cap heap.lost)

\* Every reference to device memory is that of a sequence's cache or of a deferred one:
\* a step or a release that fails half way neither forgets memory, but for what a
\* failed forward pass could not give back, nor gives back what another sequence
\* reads.  A storage is appended to by one sequence.  The scheduler leaves nothing
\* behind but what the device refused to free.
MemoryIsOwned ==
  /\ \A b \in Blocks :
       /\ heap.outputs[b] = Names("outputs", b)
       /\ heap.stores[b] = Names("store", b)
  /\ \A q, r \in Requests : q # r /\ device[q] # None /\ device[r] # None => device[q].store # device[r].store
  /\ phase = "done" => (\A r \in Requests : device[r] = None) /\ Len(heap.deferred) <= heap.faults

\* Generate returns as soon as its context is done, while the scheduler may be about
\* to call its request back: of all callbacks one at most comes that late.
OneLateCallback == \A r \in Requests : late[r] <= 1

\* Every Generate returns, and a scheduler that is told to stop ends, whatever fails,
\* whoever goes away, and whenever a request enters the queue.
EveryCallEnds ==
  /\ <>(\A r \in Requests : call[r] = "returned")
  /\ stop ~> phase = "done"
==============================================================================
