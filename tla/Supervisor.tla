----------------------------- MODULE Supervisor -----------------------------
(***************************************************************************)
(* The Supervisor of internal/modelswap/supervisor.go and the routing of   *)
(* proxy.go in front of it: one child server runs at a time, requests lease*)
(* it, and a request for another model swaps it, once the requests in      *)
(* flight have drained or its own grace is over.                           *)
(*                                                                         *)
(* mu is held through a whole Acquire; only drained.Wait lets go of it.  So*)
(* Acquire is one action from its call, or from a wake-up, to its answer,  *)
(* its next sleep or its launch.  A launch, with the wait for readiness, is*)
(* under mu as well and may last: whoever needs mu waits for it (MuFree).  *)
(* Timers and contexts call back from goroutines of their own.             *)
(* An Acquire launches at most one child: a child is named by the request  *)
(* that launched it, and an upstream is that name.                         *)
(***************************************************************************)
EXTENDS Integers, FiniteSets

CONSTANTS
  Arrivals,  \* one HTTP request each: routed, acquired, released
  Leavers,   \* those whose client may go away
  Stubborn,  \* those whose child may not be terminated when it is stopped
  Models,    \* the servables of the catalog
  Default,   \* Proxy.Default: a model, or NoModel
  NoModel,
  NoChild

ASSUME SupervisorAssumption ==
  /\ IsFiniteSet(Arrivals) /\ NoChild \notin Arrivals
  /\ Stubborn \subseteq Arrivals
  /\ NoModel \notin Models /\ Default \in Models \cup {NoModel}

VARIABLES
  current, \* Supervisor.current: the child, or NoChild
  serving, \* its servable
  closed,
  running, \* child processes being started, or started and not stopped
  left,    \* those of them whose Stop failed: nobody stops them again
  refs,    \* upstream.refs of each child
  held,    \* upstream.held
  armed,   \* children whose idle timer runs
  firing,  \* how many of its idle timers fired and have not the lock yet
  pc,      \* where each request is
  want,    \* the servable a request is routed to, until it is answered
  owner,   \* the child each lease is on
  open,    \* leases held open: Lease.held
  grace,   \* each Acquire's own drain timer: over when graceOver is set, told when broadcast
  context  \* each request's context: live, done, or done and its callback run

childVars == <<current, serving, closed, running, left, refs, held, armed, firing>>
requestVars == <<pc, want, owner, open, grace, context>>
swapVars == <<childVars, requestVars>>

------------------------------------------------------------------------------
Draining(c) == refs[c] - held[c]   \* the requests a swap of c waits for
GraceOver(r) == grace[r] \in {"over", "told"}
Serves(r) == current # NoChild /\ serving = want[r]

\* Who is in the middle of a launch has mu.
Launching == {r \in Arrivals : pc[r] = "launching"}
MuFree == Launching = {}

\* drained.Broadcast.
Woken(f) == [r \in Arrivals |-> IF f[r] = "asleep" THEN "woken" ELSE f[r]]

\* Process.Stop: the child ends, or its Terminate fails and it goes on; the
\* supervisor ignores which.
Stop(c) ==
  \/ running' = running \ {c} /\ UNCHANGED left
  \/ c \in running \cap Stubborn /\ left' = left \cup {c} /\ UNCHANGED running

\* stopCurrentLocked: the upstream is dropped, with its counters.
Drop ==
  /\ armed' = armed \ {current}
  /\ refs' = [c \in Arrivals |-> IF c = current THEN 0 ELSE refs[c]]
  /\ held' = [c \in Arrivals |-> IF c = current THEN 0 ELSE held[c]]
  /\ current' = NoChild /\ serving' = NoModel

StopCurrent == Stop(current) /\ Drop

Init ==
  /\ current = NoChild /\ serving = NoModel /\ closed = FALSE
  /\ running = {} /\ left = {} /\ armed = {} /\ open = {}
  /\ refs = [c \in Arrivals |-> 0] /\ held = [c \in Arrivals |-> 0]
  /\ firing = [c \in Arrivals |-> 0]
  /\ pc = [r \in Arrivals |-> "away"]
  /\ want = [r \in Arrivals |-> NoModel]
  /\ owner = [r \in Arrivals |-> NoChild]
  /\ grace = [r \in Arrivals |-> "unset"]
  /\ context = [r \in Arrivals |-> "live"]

------------------------------------------------------------------------------
(* The proxy *)

\* routeServable: the model named, else the one Status reports, else the
\* default.  The answer is acquired later.
Route(r) ==
  /\ pc[r] = "away" /\ MuFree
  /\ \E m \in Models \cup {IF current = NoChild THEN Default ELSE serving} :
       /\ want' = [want EXCEPT ![r] = m]
       /\ pc' = [pc EXCEPT ![r] = IF m = NoModel THEN "done" ELSE "called"]
  /\ UNCHANGED <<childVars, owner, open, grace, context>>

\* The client goes away while its Acquire waits.
HangUp(r) ==
  /\ r \in Leavers /\ context[r] = "live"
  /\ pc[r] \in {"called", "asleep", "woken", "launching"}
  /\ context' = [context EXCEPT ![r] = "done"]
  /\ UNCHANGED <<childVars, pc, want, owner, open, grace>>

------------------------------------------------------------------------------
(* Acquire *)

\* At the head of the loop, with mu.
Holding(r) == pc[r] \in {"called", "woken"} /\ MuFree
Admitted(r) == Holding(r) /\ context[r] = "live" /\ ~closed

\* Acquire returns: its timer is stopped, unless it fired, and its context's
\* callback too, unless the context is done.
Answer(r, to) ==
  /\ pc' = [pc EXCEPT ![r] = to]
  /\ want' = [want EXCEPT ![r] = NoModel]
  /\ grace' = [grace EXCEPT ![r] = IF @ = "over" THEN @ ELSE "unset"]
  /\ context' = [context EXCEPT ![r] = IF @ = "done" THEN @ ELSE "live"]

\* The context is done or the supervisor closed.
TurnedAway(r) ==
  /\ Holding(r) /\ (context[r] # "live" \/ closed)
  /\ Answer(r, "done")
  /\ UNCHANGED <<childVars, owner, open>>

\* leaseLocked on the child that runs: its idle timer is stopped.
Ride(r) ==
  /\ Admitted(r) /\ Serves(r)
  /\ refs' = [refs EXCEPT ![current] = @ + 1]
  /\ armed' = armed \ {current}
  /\ owner' = [owner EXCEPT ![r] = current]
  /\ Answer(r, "leased")
  /\ UNCHANGED <<current, serving, closed, running, left, held, firing, open>>

MustDrain(r) == current # NoChild /\ Draining(current) > 0 /\ ~GraceOver(r)

\* The other model's requests are waited for, at most one grace long: the
\* timer is armed once, however often the request wakes.
Sleep(r) ==
  /\ Admitted(r) /\ ~Serves(r) /\ MustDrain(r)
  /\ pc' = [pc EXCEPT ![r] = "asleep"]
  /\ grace' = [grace EXCEPT ![r] = IF @ = "unset" THEN "running" ELSE @]
  /\ UNCHANGED <<childVars, want, owner, open, context>>

\* The old child is stopped and a new one started.  Launch and Ready wait for the
\* device, for the child's announcement or its exit, and for this request's context.
BeginLaunch(r) ==
  /\ Admitted(r) /\ ~Serves(r) /\ ~MustDrain(r)
  /\ \/ running' = (running \ {current}) \cup {r} /\ UNCHANGED left
     \/ current \in Stubborn /\ running' = running \cup {r} /\ left' = left \cup {current}
  /\ Drop
  /\ pc' = [pc EXCEPT ![r] = "launching"]
  /\ UNCHANGED <<closed, firing, want, owner, open, grace, context>>

\* The new child is ready and leased.
Launch(r) ==
  /\ pc[r] = "launching"
  /\ refs' = [refs EXCEPT ![r] = 1]
  /\ current' = r /\ serving' = want[r]
  /\ owner' = [owner EXCEPT ![r] = r]
  /\ Answer(r, "leased")
  /\ UNCHANGED <<closed, running, left, held, armed, firing, open>>

\* Mutant: a child that did not become ready is not stopped.
LaunchFailsRunning(r) ==
  /\ pc[r] = "launching"
  /\ Answer(r, "done")
  /\ UNCHANGED <<childVars, owner, open>>

\* The new child does not start, or does not become ready and is stopped: nothing
\* runs, and nobody is told.
LaunchFails(r) ==
  /\ pc[r] = "launching"
  /\ Stop(r)
  /\ Answer(r, "done")
  /\ UNCHANGED <<current, serving, closed, refs, held, armed, firing, owner, open>>

Acquire(r) == TurnedAway(r) \/ Ride(r) \/ Sleep(r) \/ BeginLaunch(r)

------------------------------------------------------------------------------
(* What wakes a sleeper *)

\* Mutant: graceOver is set and nobody told.
GraceTellsNobody(r) ==
  /\ grace[r] = "over"
  /\ grace' = [grace EXCEPT ![r] = IF pc[r] \in {"asleep", "woken"} THEN "told" ELSE "unset"]
  /\ UNCHANGED <<childVars, pc, want, owner, open, context>>

\* The timer fires and sets graceOver under the lock ...
GraceEnds(r) ==
  /\ grace[r] = "running" /\ MuFree
  /\ grace' = [grace EXCEPT ![r] = "over"]
  /\ UNCHANGED <<childVars, pc, want, owner, open, context>>

\* ... and broadcasts after letting go of it.
GraceTells(r) ==
  /\ grace[r] = "over"
  /\ grace' = [grace EXCEPT ![r] = IF pc[r] \in {"asleep", "woken"} THEN "told" ELSE "unset"]
  /\ pc' = Woken(pc)
  /\ UNCHANGED <<childVars, want, owner, open, context>>

\* The callback of a context that is done, once Acquire has registered it.
ContextTells(r) ==
  /\ context[r] = "done" /\ pc[r] # "called" /\ MuFree
  /\ context' = [context EXCEPT ![r] = IF pc[r] \in {"asleep", "woken"} THEN "told" ELSE "live"]
  /\ pc' = Woken(pc)
  /\ UNCHANGED <<childVars, want, owner, open, grace>>

------------------------------------------------------------------------------
(* Leases *)

\* Mutant: the hold wakes nobody.
HoldOpenQuietly(r) ==
  /\ pc[r] = "leased" /\ owner[r] = current /\ r \notin open /\ MuFree
  /\ open' = open \cup {r}
  /\ held' = [held EXCEPT ![current] = @ + 1]
  /\ UNCHANGED <<current, serving, closed, running, left, refs, armed, firing>>
  /\ UNCHANGED <<pc, want, owner, grace, context>>

\* Lease.HoldOpen: a subscription that no swap waits for.
HoldOpen(r) ==
  /\ pc[r] = "leased" /\ owner[r] = current /\ r \notin open /\ MuFree
  /\ open' = open \cup {r}
  /\ held' = [held EXCEPT ![current] = @ + 1]
  /\ pc' = Woken(pc)
  /\ UNCHANGED <<current, serving, closed, running, left, refs, armed, firing>>
  /\ UNCHANGED <<want, owner, grace, context>>

\* Mutant: the child that runs now pays for a lease on an earlier one.
ReleaseOfCurrent(r) ==
  /\ pc[r] = "leased" /\ current # NoChild /\ refs[current] > 0 /\ MuFree
  /\ refs' = [refs EXCEPT ![current] = @ - 1]
  /\ held' = [held EXCEPT ![current] = IF r \in open /\ @ > 0 THEN @ - 1 ELSE @]
  /\ pc' = [(IF refs'[current] = held'[current] THEN Woken(pc) ELSE pc) EXCEPT ![r] = "done"]
  /\ armed' = IF refs'[current] = 0 THEN armed \cup {current} ELSE armed
  /\ owner' = [owner EXCEPT ![r] = NoChild] /\ open' = open \ {r}
  /\ UNCHANGED <<current, serving, closed, running, left, firing, want, grace, context>>

\* Lease.Release on the child that still runs: the drain is told at the last
\* request it waits for, and a child with no lease at all starts to idle.
Release(r) ==
  /\ pc[r] = "leased" /\ owner[r] = current /\ MuFree
  /\ refs' = [refs EXCEPT ![current] = @ - 1]
  /\ held' = [held EXCEPT ![current] = IF r \in open THEN @ - 1 ELSE @]
  /\ pc' = [(IF refs'[current] = held'[current] THEN Woken(pc) ELSE pc) EXCEPT ![r] = "done"]
  /\ armed' = IF refs'[current] = 0 THEN armed \cup {current} ELSE armed
  /\ owner' = [owner EXCEPT ![r] = NoChild] /\ open' = open \ {r}
  /\ UNCHANGED <<current, serving, closed, running, left, firing, want, grace, context>>

\* Lease.Release on a child that was stopped.
ReleaseSevered(r) ==
  /\ pc[r] = "leased" /\ owner[r] # current /\ MuFree
  /\ pc' = [pc EXCEPT ![r] = "done"]
  /\ owner' = [owner EXCEPT ![r] = NoChild] /\ open' = open \ {r}
  /\ UNCHANGED <<childVars, want, grace, context>>

------------------------------------------------------------------------------
(* Idleness and Close *)

\* A child's idle timer fires; its callback waits for the lock.
IdleFires(c) ==
  /\ c \in armed
  /\ armed' = armed \ {c}
  /\ firing' = [firing EXCEPT ![c] = @ + 1]
  /\ UNCHANGED <<current, serving, closed, running, left, refs, held, requestVars>>

\* Mutant: only the requests a swap waits for keep a child from idling.
StopIfDrained(c) ==
  /\ firing[c] > 0 /\ MuFree
  /\ firing' = [firing EXCEPT ![c] = @ - 1]
  /\ IF current = c /\ Draining(c) = 0
     THEN StopCurrent
     ELSE UNCHANGED <<current, serving, running, left, armed, refs, held>>
  /\ UNCHANGED <<closed, requestVars>>

\* stopIfIdle: nothing, when the child was acquired again or swapped away.
StopIfIdle(c) ==
  /\ firing[c] > 0 /\ MuFree
  /\ firing' = [firing EXCEPT ![c] = @ - 1]
  /\ IF current = c /\ refs[c] = 0
     THEN StopCurrent
     ELSE UNCHANGED <<current, serving, running, left, armed, refs, held>>
  /\ UNCHANGED <<closed, requestVars>>

Close ==
  /\ ~closed /\ MuFree
  /\ closed' = TRUE
  /\ StopCurrent
  /\ pc' = Woken(pc)
  /\ UNCHANGED <<firing, want, owner, open, grace, context>>

Next ==
  \/ \E r \in Arrivals :
       \/ Route(r) \/ HangUp(r)
       \/ TurnedAway(r) \/ Ride(r) \/ Sleep(r) \/ BeginLaunch(r) \/ Launch(r) \/ LaunchFails(r)
       \/ GraceEnds(r) \/ GraceTells(r) \/ ContextTells(r)
       \/ HoldOpen(r) \/ Release(r) \/ ReleaseSevered(r)
       \/ IdleFires(r) \/ StopIfIdle(r)
  \/ Close

\* A launch whose request is gone returns, with the child or without.
LaunchReturns(r) == context[r] # "live" /\ (Launch(r) \/ LaunchFails(r))

\* Timers fire, callbacks get the lock when it is free, and so does a request that has
\* called or was woken.  That a request ends, that a launch succeeds, or even returns
\* while its client waits, is not assumed.
Fairness ==
  \A r \in Arrivals :
    /\ WF_swapVars(Acquire(r)) /\ WF_swapVars(LaunchReturns(r))
    /\ WF_swapVars(GraceEnds(r)) /\ WF_swapVars(GraceTells(r))
    /\ WF_swapVars(ContextTells(r))
    /\ WF_swapVars(IdleFires(r)) /\ WF_swapVars(StopIfIdle(r))

SupervisorSpec == Init /\ [][Next]_swapVars /\ Fairness

------------------------------------------------------------------------------
(* Properties *)

Leases(c) == {r \in Arrivals : pc[r] = "leased" /\ owner[r] = c}
InFlight(c) == Leases(c) \ open

\* Types; no child counts more subscriptions than leases, so what a swap waits
\* for is never negative.
SupervisorTypeOK ==
  /\ current \in Arrivals \cup {NoChild} /\ serving \in Models \cup {NoModel}
  /\ closed \in BOOLEAN
  /\ running \subseteq Arrivals /\ left \subseteq running /\ armed \subseteq Arrivals /\ open \subseteq Arrivals
  /\ refs \in [Arrivals -> Nat] /\ held \in [Arrivals -> Nat] /\ firing \in [Arrivals -> Nat]
  /\ \A c \in Arrivals : held[c] <= refs[c]
  /\ pc \in [Arrivals -> {"away", "called", "asleep", "woken", "launching", "leased", "done"}]
  /\ want \in [Arrivals -> Models \cup {NoModel}]
  /\ owner \in [Arrivals -> Arrivals \cup {NoChild}]
  /\ grace \in [Arrivals -> {"unset", "running", "over", "told"}]
  /\ context \in [Arrivals -> {"live", "done", "told"}]

\* The counters of the child that runs are its own leases: a late release of an
\* earlier child, one of the same model included, does not take from them.
RefsAreLeases ==
  /\ SupervisorTypeOK
  /\ current # NoChild => /\ refs[current] = Cardinality(Leases(current))
                          /\ held[current] = Cardinality(Leases(current) \cap open)

\* One child at most has a process, the current one or the one being launched, besides
\* those that a failed Stop left behind; once closed, only those have.
OneChild ==
  /\ current # NoChild => MuFree
  /\ \A p, q \in Launching : p = q
  /\ running \ left = IF current = NoChild THEN Launching ELSE {current}
  /\ closed => running = left

\* A child with leases is given up only by Close or for a request for another model,
\* which has waited out a grace if any of them is not held open: an idle timer that
\* fired late never cuts a request off.
SeveredOnlyForASwap ==
  [][ current # NoChild /\ current' # current /\ Leases(current) # {} =>
        \/ closed'
        \/ \E r \in Arrivals : /\ Holding(r) /\ pc'[r] # pc[r]
                               /\ InFlight(current) = {} \/ GraceOver(r) ]_swapVars

\* No request sleeps beside a drained child, whoever launched it: the end of the last
\* request in flight, and one that turns out to be a subscription, wake every swap.
DrainWakes ==
  \A r \in Arrivals : pc[r] = "asleep" /\ current # NoChild => InFlight(current) # {}

\* Every Acquire is answered unless a launch lasts for ever, even if no request on the
\* old child ever ends, every launch that returns fails and others swap in between.
AcquireAnswers ==
  (\A q \in Arrivals : []<>(pc[q] # "launching"))
    => \A r \in Arrivals : pc[r] = "called" ~> pc[r] \in {"leased", "done"}

==============================================================================
