------------------------------ MODULE Sessions ------------------------------
(***************************************************************************)
(* ModelSessionDirector (internal/capabilityruntime/session_director.go)   *)
(* as the owner of loaded models: requests lease an entry for their key,   *)
(* load, reuse, retire and release it; an entry is evicted when another    *)
(* needs its place, superseded when its scope moves to another key, and    *)
(* closed when the director is.                                            *)
(*                                                                         *)
(* Everything done under the director's mutex is one action, together with *)
(* the unlocking of an entry that follows it.  A load, a reset, a run and  *)
(* the Close of a model take as long as they take.                         *)
(***************************************************************************)
EXTENDS Integers, Sequences, FiniteSets, FiniteSetsExt

CONSTANTS
  Requests,   \* goroutines that lease, one request at a time
  Closers,    \* goroutines that call Close
  Keys,       \* session keys: model, recipe, resources, device and policy
  Scopes,     \* execution scopes
  Capacity,   \* the director's capacity
  Free,       \* the holder of a free entry mutex
  MaxLoads,   \* bound: entries ever created
  MaxAsks     \* bound: requests ever made

ASSUME SessionsAssumption ==
  /\ Capacity \in Nat \ {0} /\ MaxLoads \in Nat /\ MaxAsks \in Nat
  /\ Keys # {} /\ Scopes # {} /\ IsFiniteSet(Requests)
  /\ Requests \cap Closers = {} /\ Free \notin Requests \cup Closers

VARIABLES
  entries,  \* every session entry there ever was
  table,    \* ModelSessionDirector.entries: the entry of a key, 0 if none
  recency,  \* the pairs of keys of which the first was last used before the second (sessionEntry.used)
  retiring, \* ModelSessionDirector.retiring and retiringUsers
  shutdown, \* ModelSessionDirector.closed, shutting and shut
  request,  \* where each request is
  closer,   \* where each Close is
  asked     \* how many requests were made

vars == <<entries, table, recency, retiring, shutdown, request, closer, asked>>

------------------------------------------------------------------------------
Waiting(r) == request[r].at \in {"parked", "woken", "awaiting"}
Waiters == Cardinality({r \in Requests : Waiting(r)})

\* notify: whoever is parked on the director's signal looks again.
Notified(f) ==
  [p \in DOMAIN f |-> IF f[p].at = "parked" THEN [f[p] EXCEPT !.at = "woken"] ELSE f[p]]

NotifyWith(moved) == request' = Notified(moved) /\ closer' = Notified(closer)

\* A goroutine between two requests.
Unasked ==
  [at |-> "idle", key |-> CHOOSE k \in Keys : TRUE, scope |-> CHOOSE s \in Scopes : TRUE,
   scoped |-> FALSE, entry |-> 0, first |-> TRUE, again |-> FALSE, live |-> TRUE,
   todo |-> {}]

\* The request returns, with a result or an error: nothing here depends on which.
Done(r) == [request EXCEPT ![r] = Unasked]

\* Where a request goes once it let go of its entry: a session that refused it
\* is replaced once, unless the request was cancelled.
Onward(r) ==
  IF request[r].again /\ request[r].live
  THEN [request EXCEPT ![r].at = "lease", ![r].entry = 0, ![r].again = FALSE]
  ELSE Done(r)

Entry(r) == request[r].entry
Idle(e) == entries[e].borrowers = 0
Ready(e) == entries[e].state # "loading"

------------------------------------------------------------------------------
(* A request asks, or is cancelled *)

Ask(r) ==
  /\ request[r].at = "idle" /\ asked < MaxAsks
  /\ asked' = asked + 1
  /\ \E key \in Keys, scope \in Scopes, scoped \in BOOLEAN :
       request' = [request EXCEPT ![r] = [Unasked EXCEPT
         !.at = "lease", !.key = key, !.scope = scope, !.scoped = scoped]]
  /\ UNCHANGED <<entries, table, recency, retiring, shutdown, closer>>

Cancel(r) ==
  /\ request[r].at # "idle" /\ request[r].live
  /\ request' = [request EXCEPT ![r].live = FALSE]
  /\ UNCHANGED <<entries, table, recency, retiring, shutdown, closer, asked>>

------------------------------------------------------------------------------
(* leaseEntry, one turn of its loop *)

Refuse(r) ==
  /\ request[r].at = "lease"
  /\ ~request[r].live \/ shutdown.closed
  /\ request' = Done(r)
  /\ UNCHANGED <<entries, table, recency, retiring, shutdown, closer, asked>>

\* The keys whose entry supersedeLocked takes out of the request's way.
Stale(r) ==
  {k \in Keys \ {request[r].key} : table[k] # 0 /\ entries[table[k]].scope = request[r].scope}

StaleIdle(r) == {table[k] : k \in {k \in Stale(r) : Ready(table[k]) /\ Idle(table[k])}}

\* supersedeLocked: what the director holds once it is done.
Superseded(r) ==
  LET gone == {table[k] : k \in Stale(r)}
  IN  [entries |-> [e \in DOMAIN entries |->
         IF e \in gone
         THEN [entries[e] EXCEPT !.dead = TRUE, !.retiring = TRUE, !.closing = Ready(e) /\ Idle(e)]
         ELSE entries[e]],
       table |-> [k \in Keys |-> IF k \in Stale(r) THEN 0 ELSE table[k]],
       retiring |-> [count |-> retiring.count + Cardinality(gone),
                     users |-> retiring.users + MapThenSumSet(LAMBDA e : entries[e].borrowers, gone)]]

Leasing(r) == request[r].at = "lease" /\ request[r].live /\ ~shutdown.closed

\* The request's key is now the last used of those in the table.
Touched(r, view) ==
  LET others == {k \in Keys \ {request[r].key} : view.table[k] # 0}
  IN  (recency \cap (others \X others)) \cup (others \X {request[r].key})

\* Idle entries of the scope are closed before the loop turns again.
SupersedeIdle(r) ==
  /\ Leasing(r) /\ StaleIdle(r) # {}
  /\ LET view == Superseded(r)
     IN  entries' = view.entries /\ table' = view.table /\ retiring' = view.retiring
  /\ NotifyWith([request EXCEPT ![r].at = "finishing", ![r].todo = StaleIdle(r),
                                ![r].again = TRUE])
  /\ UNCHANGED <<recency, shutdown, asked>>

\* The rest of the turn, with what it superseded on the way.
Turning(r, view) ==
  /\ Leasing(r) /\ StaleIdle(r) = {}
  /\ table' = view.table /\ retiring' = view.retiring

\* The resident entry is not in use.
Reuse(r) ==
  LET view == Superseded(r)
      e == view.table[request[r].key]
  IN  /\ Turning(r, view)
      /\ e # 0 /\ entries[e].state = "ready" /\ entries[e].mu = Free
      /\ entries' = [view.entries EXCEPT ![e].mu = r, ![e].scope = request[r].scope,
                                         ![e].borrowers = @ + 1]
      /\ recency' = Touched(r, view)
      /\ request' = [request EXCEPT ![r].at = "resetting", ![r].entry = e]
      /\ UNCHANGED <<shutdown, closer, asked>>

\* Its load has failed, and it is about to be taken out of the table.
MeetFailure(r) ==
  LET view == Superseded(r)
      e == view.table[request[r].key]
  IN  /\ Turning(r, view)
      /\ e # 0 /\ entries[e].state = "failed"
      /\ entries' = [view.entries EXCEPT ![e].scope = request[r].scope]
      /\ recency' = Touched(r, view)
      /\ request' = Done(r)
      /\ UNCHANGED <<shutdown, closer, asked>>

\* parkLocked: the wait set is as large as the capacity.
Parked(r, at, e) ==
  IF Waiters < Capacity THEN [request EXCEPT ![r].at = at, ![r].entry = e] ELSE Done(r)

\* The resident entry is loading or in use.
ParkForEntry(r) ==
  LET view == Superseded(r)
      e == view.table[request[r].key]
  IN  /\ e # 0 /\ Turning(r, view)
      /\ \/ entries[e].state = "loading" /\ request' = Parked(r, "awaiting", e)
         \/ /\ entries[e].state = "ready" /\ entries[e].mu # Free
            /\ request' = Parked(r, "parked", 0)
      /\ entries' = [view.entries EXCEPT ![e].scope = request[r].scope]
      /\ recency' = Touched(r, view)
      /\ UNCHANGED <<shutdown, closer, asked>>

\* Mutant: what is being retired does not count.
FullWithoutRetiring(view) ==
  Cardinality({k \in Keys : view.table[k] # 0}) >= Capacity

Full(view) ==
  Cardinality({k \in Keys : view.table[k] # 0}) + view.retiring.count >= Capacity

\* oldestIdle
Evictable(view) == {k \in Keys : view.table[k] # 0 /\ Idle(view.table[k])}

ParkForPlace(r) ==
  LET view == Superseded(r)
  IN  /\ Turning(r, view)
      /\ view.table[request[r].key] = 0 /\ Full(view) /\ Evictable(view) = {}
      /\ entries' = view.entries
      /\ request' = Parked(r, "parked", 0)
      /\ UNCHANGED <<recency, shutdown, closer, asked>>

\* The least recently used idle entry makes room.
Evict(r) ==
  LET view == Superseded(r)
  IN  /\ Leasing(r) /\ StaleIdle(r) = {}
      /\ view.table[request[r].key] = 0 /\ Full(view)
      /\ \E oldest \in Evictable(view) :
           LET e == view.table[oldest]
           IN  /\ \A k \in Evictable(view) : <<k, oldest>> \notin recency
               /\ entries' = [view.entries EXCEPT ![e].dead = TRUE, ![e].closing = TRUE,
                                                  ![e].retiring = TRUE]
               /\ table' = [view.table EXCEPT ![oldest] = 0]
               /\ retiring' = [view.retiring EXCEPT !.count = @ + 1]
               /\ NotifyWith([request EXCEPT ![r].at = "evicting", ![r].todo = {e}, ![r].again = TRUE])
      /\ UNCHANGED <<recency, shutdown, asked>>

\* A place for a new entry: the request loads it.
StartLoad(r) ==
  LET view == Superseded(r)
      e == Len(entries) + 1
  IN  /\ Leasing(r) /\ StaleIdle(r) = {}
      /\ view.table[request[r].key] = 0 /\ ~Full(view) /\ e <= MaxLoads
      /\ entries' = Append(view.entries,
           [scope |-> request[r].scope, state |-> "loading", model |-> "none", mu |-> Free,
            borrowers |-> 1, dead |-> FALSE, closing |-> FALSE, retiring |-> FALSE])
      /\ table' = [view.table EXCEPT ![request[r].key] = e]
      /\ retiring' = view.retiring
      /\ recency' = Touched(r, view)
      /\ NotifyWith([request EXCEPT ![r].at = "loading", ![r].entry = e])
      /\ UNCHANGED <<shutdown, asked>>

\* parkLocked ends: by its signal or by the request's cancellation.
Wake(r) ==
  /\ Waiting(r)
  /\ LET signalled == \/ request[r].at = "woken"
                      \/ request[r].at = "awaiting" /\ Ready(Entry(r))
         onward == IF request[r].at = "awaiting" /\ entries[Entry(r)].state = "failed"
                   THEN Done(r)
                   ELSE [request EXCEPT ![r].at = "lease", ![r].entry = 0]
     IN  \/ signalled /\ NotifyWith(onward)
         \/ ~request[r].live /\ NotifyWith(Done(r))
  /\ UNCHANGED <<entries, table, recency, retiring, shutdown, asked>>

------------------------------------------------------------------------------
(* Loading *)

\* load and refresh return: with a model, with none, or with one the capability
\* authority no longer admits.
LoadEnds(r) ==
  /\ request[r].at = "loading"
  /\ entries[Entry(r)].mu = Free
  /\ \E loaded \in {[state |-> "ready", model |-> "open"], [state |-> "failed", model |-> "none"],
                    [state |-> "failed", model |-> "open"]} :
       entries' = [entries EXCEPT ![Entry(r)].state = loaded.state,
                                  ![Entry(r)].model = loaded.model, ![Entry(r)].mu = r]
  /\ request' = [request EXCEPT ![r].at = "loaded"]
  /\ UNCHANGED <<table, recency, retiring, shutdown, closer, asked>>

\* The entry is the request's, unless it was superseded or the director closed
\* while it loaded.
TakeLoaded(r) ==
  /\ request[r].at = "loaded"
  /\ entries[Entry(r)].state = "ready" /\ ~entries[Entry(r)].dead
  /\ NotifyWith([request EXCEPT ![r].at = "running"])
  /\ UNCHANGED <<entries, table, recency, retiring, shutdown, asked>>

DropLoaded(r) ==
  LET e == Entry(r)
      held == \E k \in Keys : table[k] = e
  IN  /\ request[r].at = "loaded"
      /\ entries[e].state = "failed" \/ entries[e].dead
      /\ entries' = [entries EXCEPT ![e].dead = TRUE, ![e].mu = Free,
                                    ![e].retiring = @ \/ held]
      /\ table' = [k \in Keys |-> IF table[k] = e THEN 0 ELSE table[k]]
      /\ retiring' = IF held THEN [count |-> retiring.count + 1,
                                   users |-> retiring.users + entries[e].borrowers]
                     ELSE retiring
      /\ NotifyWith([request EXCEPT ![r].at = "releasing"])
      /\ UNCHANGED <<recency, shutdown, asked>>

------------------------------------------------------------------------------
(* Using and giving back *)

\* retire up to the model's Close; the request keeps the entry's mutex.
BeginRetire(r, again) ==
  LET e == Entry(r)
  IN  /\ entries' = [entries EXCEPT ![e].dead = TRUE, ![e].closing = TRUE, ![e].retiring = TRUE,
                                    ![e].model = "closing"]
      /\ table' = [k \in Keys |-> IF table[k] = e THEN 0 ELSE table[k]]
      /\ retiring' = IF entries[e].retiring THEN retiring
                     ELSE [count |-> retiring.count + 1,
                           users |-> retiring.users + entries[e].borrowers]
      /\ NotifyWith([request EXCEPT ![r].at = "retiring", ![r].again = again,
                                    ![r].first = FALSE])
      /\ UNCHANGED <<recency, shutdown, asked>>

\* A reused session takes the request ...
Reset(r) ==
  /\ request[r].at = "resetting"
  /\ request' = [request EXCEPT ![r].at = "running"]
  /\ UNCHANGED <<entries, table, recency, retiring, shutdown, closer, asked>>

\* ... or refuses it and is retired.
RefuseReset(r) ==
  /\ request[r].at = "resetting"
  /\ BeginRetire(r, request[r].first)

\* The run, or the use of a leased component, ends: a session that failed or
\* that was for one request is retired ...
RunRetires(r) ==
  /\ request[r].at = "running"
  /\ BeginRetire(r, FALSE)

\* ... and another is unlocked for the next request.
RunReleases(r) ==
  /\ request[r].at = "running" /\ ~request[r].scoped
  /\ entries' = [entries EXCEPT ![Entry(r)].mu = Free]
  /\ request' = [request EXCEPT ![r].at = "releasing"]
  /\ UNCHANGED <<table, recency, retiring, shutdown, closer, asked>>

\* The model's Close returned.
EndRetire(r) ==
  LET e == Entry(r)
  IN  /\ request[r].at = "retiring"
      /\ entries' = [entries EXCEPT ![e].model = "closed", ![e].retiring = FALSE, ![e].mu = Free]
      /\ retiring' = IF entries[e].retiring
                     THEN [count |-> retiring.count - 1,
                           users |-> retiring.users - entries[e].borrowers]
                     ELSE retiring
      /\ NotifyWith([request EXCEPT ![r].at = "releasing"])
      /\ UNCHANGED <<table, recency, shutdown, asked>>

\* Mutant: the last borrower of a dead entry leaves it open.
ReleaseBorrowerForgets(r) ==
  LET e == Entry(r)
  IN  /\ request[r].at = "releasing"
      /\ entries' = [entries EXCEPT ![e].borrowers = @ - 1]
      /\ retiring' = [retiring EXCEPT !.users = @ - (IF entries[e].retiring THEN 1 ELSE 0)]
      /\ NotifyWith(Onward(r))
      /\ UNCHANGED <<table, recency, shutdown, asked>>

\* releaseBorrower: the last one to leave a dead entry closes it.
ReleaseBorrower(r) ==
  LET e == Entry(r)
      closes == entries[e].borrowers = 1 /\ entries[e].dead /\ ~entries[e].closing
  IN  /\ request[r].at = "releasing"
      /\ entries' = [entries EXCEPT ![e].borrowers = @ - 1, ![e].closing = @ \/ closes]
      /\ retiring' = [retiring EXCEPT !.users = @ - (IF entries[e].retiring THEN 1 ELSE 0)]
      /\ NotifyWith(IF closes THEN [request EXCEPT ![r].at = "finishing", ![r].todo = {e}]
                    ELSE Onward(r))
      /\ UNCHANGED <<table, recency, shutdown, asked>>

\* closeEntry begins under the entry's mutex: a model is closed once.
Closing(e, p) ==
  entries' = [entries EXCEPT ![e].mu = p, ![e].model = IF @ = "open" THEN "closing" ELSE @]

ClosedModel(model) == IF model = "closing" THEN "closed" ELSE model

\* finishRetirement of one of the entries.
BeginFinish(r) ==
  /\ request[r].at \in {"finishing", "evicting"}
  /\ \E e \in request[r].todo :
       /\ entries[e].mu = Free
       /\ Closing(e, r)
       /\ request' = [request EXCEPT ![r].at = IF @ = "evicting" THEN "evicted" ELSE "finished",
                                     ![r].entry = e, ![r].todo = @ \ {e}]
  /\ UNCHANGED <<table, recency, retiring, shutdown, closer, asked>>

\* Its Close returned; one that failed ends the request that evicted it.
EndFinish(r) ==
  LET e == Entry(r)
  IN  /\ request[r].at \in {"finished", "evicted"}
      /\ entries' = [entries EXCEPT ![e].mu = Free, ![e].model = ClosedModel(@), ![e].retiring = FALSE]
      /\ retiring' = [retiring EXCEPT !.count = @ - (IF entries[e].retiring THEN 1 ELSE 0)]
      /\ IF request[r].todo # {} THEN NotifyWith([request EXCEPT ![r].at = "finishing"])
         ELSE \/ NotifyWith(Onward(r))
              \/ request[r].at = "evicted" /\ NotifyWith(Done(r))
      /\ UNCHANGED <<table, recency, shutdown, asked>>

------------------------------------------------------------------------------
(* Close *)

\* Mutant: a Close does not wait for what is being retired.
MustWaitForOthers == shutdown.shutting

MustWait == retiring.count > 0 \/ shutdown.shutting

\* Close under the mutex: admission closes, and it waits for what is being
\* retired and for a Close before it, ...
CloseWaits(c) ==
  /\ MustWait
  /\ closer[c].at \in {"idle", "woken"}
  /\ closer' = [(IF shutdown.closed THEN closer ELSE Notified(closer)) EXCEPT ![c].at = "parked"]
  /\ request' = IF shutdown.closed THEN request ELSE Notified(request)
  /\ shutdown' = [shutdown EXCEPT !.closed = TRUE]
  /\ UNCHANGED <<entries, table, recency, retiring, asked>>

\* ... ends as that one did, ...
CloseFollows(c) ==
  /\ ~MustWait /\ shutdown.shut
  /\ closer[c].at \in {"idle", "woken"}
  /\ closer' = [closer EXCEPT ![c].at = "returned"]
  /\ UNCHANGED <<entries, table, recency, retiring, shutdown, request, asked>>

\* ... or takes the entries.
CloseTakes(c) ==
  /\ ~MustWait /\ ~shutdown.shut
  /\ closer[c].at \in {"idle", "woken"}
  /\ LET held == {table[k] : k \in {k \in Keys : table[k] # 0}}
     IN  /\ closer' = [Notified(closer) EXCEPT ![c].at = "closing", ![c].todo = held]
         /\ entries' = [e \in DOMAIN entries |->
              IF e \in held THEN [entries[e] EXCEPT !.dead = TRUE] ELSE entries[e]]
  /\ request' = Notified(request)
  /\ table' = [k \in Keys |-> 0]
  /\ shutdown' = [shutdown EXCEPT !.closed = TRUE, !.shutting = TRUE]
  /\ UNCHANGED <<recency, retiring, asked>>

\* The context of a waiting Close ends: it may be called again.
CloseCancelled(c) ==
  /\ closer[c].at \in {"parked", "woken"}
  /\ closer' = [closer EXCEPT ![c].at = "idle"]
  /\ UNCHANGED <<entries, table, recency, retiring, shutdown, request, asked>>

\* Mutant: one of them, whoever uses it.
CloseBeginsAtOnce(c) ==
  /\ closer[c].at = "closing"
  /\ \E e \in closer[c].todo :
       /\ Ready(e)
       /\ Closing(e, c)
       /\ closer' = [closer EXCEPT ![c].at = "inside", ![c].entry = e, ![c].todo = @ \ {e}]
  /\ UNCHANGED <<table, recency, retiring, shutdown, request, asked>>

\* One of them, once it is loaded and nobody uses it.
CloseBegins(c) ==
  /\ closer[c].at = "closing"
  /\ \E e \in closer[c].todo :
       /\ Ready(e) /\ entries[e].mu = Free
       /\ Closing(e, c)
       /\ closer' = [closer EXCEPT ![c].at = "inside", ![c].entry = e, ![c].todo = @ \ {e}]
  /\ UNCHANGED <<table, recency, retiring, shutdown, request, asked>>

CloseEnds(c) ==
  /\ closer[c].at = "inside"
  /\ entries' = [entries EXCEPT ![closer[c].entry].mu = Free,
                                ![closer[c].entry].model = ClosedModel(@)]
  /\ closer' = [closer EXCEPT ![c].at = "closing", ![c].entry = 0]
  /\ UNCHANGED <<table, recency, retiring, shutdown, request, asked>>

CloseReturns(c) ==
  /\ closer[c].at = "closing" /\ closer[c].todo = {}
  /\ shutdown' = [shutdown EXCEPT !.shutting = FALSE, !.shut = TRUE]
  /\ request' = Notified(request)
  /\ closer' = [Notified(closer) EXCEPT ![c].at = "returned"]
  /\ UNCHANGED <<entries, table, recency, retiring, asked>>

------------------------------------------------------------------------------
SessionsInit ==
  /\ entries = <<>>
  /\ table = [k \in Keys |-> 0]
  /\ recency = {}
  /\ retiring = [count |-> 0, users |-> 0]
  /\ shutdown = [closed |-> FALSE, shutting |-> FALSE, shut |-> FALSE]
  /\ request = [r \in Requests |-> Unasked]
  /\ closer = [c \in Closers |-> [at |-> "idle", todo |-> {}, entry |-> 0]]
  /\ asked = 0

LeaseTurn(r) ==
  \/ Refuse(r) \/ SupersedeIdle(r) \/ Reuse(r) \/ MeetFailure(r)
  \/ ParkForEntry(r) \/ ParkForPlace(r) \/ Evict(r) \/ StartLoad(r)

RequestStep(r) ==
  \/ LeaseTurn(r) \/ Wake(r)
  \/ LoadEnds(r) \/ TakeLoaded(r) \/ DropLoaded(r)
  \/ Reset(r) \/ RefuseReset(r) \/ RunRetires(r) \/ RunReleases(r) \/ EndRetire(r)
  \/ ReleaseBorrower(r) \/ BeginFinish(r) \/ EndFinish(r)

CloserStep(c) ==
  CloseWaits(c) \/ CloseFollows(c) \/ CloseTakes(c) \/ CloseBegins(c) \/ CloseEnds(c) \/ CloseReturns(c)

SessionsNext ==
  \/ \E r \in Requests : Ask(r) \/ Cancel(r) \/ RequestStep(r)
  \/ \E c \in Closers : CloseCancelled(c) \/ CloserStep(c)

SessionsSpec == SessionsInit /\ [][SessionsNext]_vars

------------------------------------------------------------------------------
(* Properties *)

\* Every variable keeps its shape, and the table leads to entries not dead.
SessionsTypeOK ==
  /\ \A e \in DOMAIN entries :
       /\ entries[e].scope \in Scopes
       /\ entries[e].state \in {"loading", "ready", "failed"}
       /\ entries[e].model \in {"none", "open", "closing", "closed"}
       /\ entries[e].mu \in Requests \cup Closers \cup {Free}
       /\ entries[e].borrowers \in 0 .. Cardinality(Requests)
  /\ \A k \in Keys : table[k] \in 0 .. Len(entries) /\ (table[k] # 0 => ~entries[table[k]].dead)
  /\ \A k, l \in {k \in Keys : table[k] # 0} :
       k # l => (<<k, l>> \in recency <=> <<l, k>> \notin recency)
  /\ Waiters <= Capacity
  /\ asked \in 0 .. MaxAsks

\* The entries whose model takes up the device: loading, loaded, or not yet
\* through its Close.
Resident == {e \in DOMAIN entries : entries[e].state = "loading" \/ entries[e].model \in {"open", "closing"}}

\* Never more models than the capacity, whether they are being loaded, used,
\* evicted, superseded or retired (retirement_close_test.go: "a model leaves it
\* only when its Close returns").
CapacityHeld == Cardinality(Resident) <= Capacity

\* A model in use is not closed under its user, whoever evicts, supersedes or
\* closes meanwhile, and has one user.
UsedModelsAreOpen ==
  \A r \in Requests : request[r].at \in {"resetting", "running"} =>
    entries[Entry(r)].model = "open" /\ entries[Entry(r)].mu = r

\* Would a turn of the loop get a parked request on?
CouldProceed(r) ==
  LET e == table[request[r].key]
  IN  \/ shutdown.closed
      \/ StaleIdle(r) # {}
      \/ e # 0 /\ (~Ready(e) \/ entries[e].mu = Free)
      \/ e = 0 /\ Evictable(Superseded(r)) # {}
      \/ e = 0 /\ ~Full(Superseded(r))

\* Its load ended, it is letting go of its entry, or it uses an entry that was
\* superseded meanwhile: whatever it does next, it notifies.
AboutToNotify(p) ==
  \/ request[p].at \in {"loaded", "releasing"}
  \/ request[p].at \in {"resetting", "running"} /\ entries[Entry(p)].dead

\* Nobody sleeps through the change it waits for: a parked request that could
\* go on is about to be notified by another, however long the models still in
\* the table are used.  (A turn that supersedes an entry in use notifies nobody
\* of the place that leaves in the table: who could take it sleeps until that
\* use ends.)
NoLostWakeup ==
  /\ \A r \in Requests : request[r].at = "parked" /\ CouldProceed(r)
       => \E p \in Requests : AboutToNotify(p)
  /\ \A c \in Closers : closer[c].at = "parked" => MustWait

\* Once a Close returned for good no model is left open, not even one that was
\* loading, superseded or in use when it was called (session_director.go:
\* "closes every model the director holds, once").
ShutClosesAll == shutdown.shut => Resident = {}

\* Where a request or a Close is held up by nobody.
Moving(r) ==
  \/ request[r].at \notin {"idle", "parked", "awaiting", "finishing", "evicting"}
  \/ request[r].at = "awaiting" /\ Ready(Entry(r))
  \/ request[r].at \in {"finishing", "evicting"} /\ \E e \in request[r].todo : entries[e].mu = Free

ClosingOn(c) ==
  \/ closer[c].at \in {"woken", "inside"}
  \/ closer[c].at = "closing" /\ (closer[c].todo = {} \/
       \E e \in closer[c].todo : Ready(e) /\ entries[e].mu = Free)

\* Nobody waits for someone who waits: as long as a request or a Close is held
\* up, by a signal, a load or an entry's mutex, another one is getting on, so
\* that a Close asked for during any loads, evictions and retirements returns;
\* nobody sleeps through the change it waits for, and the state is well formed.
NoStandstill ==
  /\ SessionsTypeOK /\ NoLostWakeup
  /\ \/ /\ \A r \in Requests : request[r].at = "idle"
        /\ \A c \in Closers : closer[c].at \in {"idle", "returned"}
     \/ \E r \in Requests : Moving(r)
     \/ \E c \in Closers : ClosingOn(c)
=============================================================================
