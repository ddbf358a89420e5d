------------------------------ MODULE Residents ------------------------------
(***************************************************************************)
(* ModelSessionDirector (internal/capabilityruntime/session_director.go)   *)
(* as the server has it: one resident model behind numbered slots, which   *)
(* requests lease without waiting (TryLease) or park for (Lease).          *)
(*                                                                         *)
(* A slot is taken and put back under admissionMu; admission, users and    *)
(* waiters change under mu.  TryLease holds the first around the second,   *)
(* so it is one action; a release is two.                                  *)
(***************************************************************************)
EXTENDS Integers, FiniteSets

CONSTANTS
  Lessees,   \* goroutines that lease
  Enders,    \* goroutines that call Close
  SlotCount, \* the director's capacity: its slots
  MaxLeases  \* bound: leases ever asked for

ASSUME ResidentsAssumption ==
  SlotCount \in Nat \ {0} /\ MaxLeases \in Nat /\ IsFiniteSet(Lessees)

VARIABLES
  admissions, \* the slots in the channel
  users,      \* residentUsers
  waiters,    \* ModelSessionDirector.waiters
  ending,     \* closed, shutting and shut
  model,      \* the resident model: "open", "closing" or "closed"
  lessee,     \* where each request is
  ender,      \* where each Close is
  leases      \* how many leases were asked for

residentVars == <<admissions, users, waiters, ending, model, lessee, ender, leases>>

------------------------------------------------------------------------------
Slots == 0 .. SlotCount - 1
AnySlot == -1

\* The slots that would do.
Fitting(r) == {id \in admissions : lessee[r].wants \in {AnySlot, id}}

\* notify: the signal a request or a Close holds is closed.
LeaseNotified(f) == [p \in DOMAIN f |-> IF f[p].holds THEN [f[p] EXCEPT !.holds = FALSE] ELSE f[p]]

NoLease == [at |-> "idle", wants |-> AnySlot, slot |-> AnySlot, holds |-> FALSE, live |-> TRUE]

End(r) == [lessee EXCEPT ![r] = NoLease]

\* A request asks for any slot or for one, to wait for it or not.
AskSlot(r) ==
  /\ lessee[r].at = "idle" /\ leases < MaxLeases
  /\ leases' = leases + 1
  /\ \E wants \in Slots \cup {AnySlot}, at \in {"try", "ask"} :
       lessee' = [lessee EXCEPT ![r] = [NoLease EXCEPT !.at = at, !.wants = wants]]
  /\ UNCHANGED <<admissions, users, waiters, ending, model, ender>>

CancelSlot(r) ==
  /\ lessee[r].at # "idle" /\ lessee[r].live
  /\ lessee' = [lessee EXCEPT ![r].live = FALSE]
  /\ UNCHANGED <<admissions, users, waiters, ending, model, ender, leases>>

------------------------------------------------------------------------------
(* Leasing *)

\* Mutant: the slot is looked for in the channel and not taken out.
AdmitPeeks(r) ==
  \E id \in Fitting(r) :
    /\ admissions' = admissions
    /\ lessee' = [lessee EXCEPT ![r].at = "leased", ![r].slot = id, ![r].holds = FALSE]
    /\ users' = users + 1

\* TryLease, when a slot fits and the director is open.
Admit(r) ==
  \E id \in Fitting(r) :
    /\ admissions' = admissions \ {id}
    /\ lessee' = [lessee EXCEPT ![r].at = "leased", ![r].slot = id, ![r].holds = FALSE]
    /\ users' = users + 1

Refused(r) == Fitting(r) = {} \/ ending.closed

\* The first TryLease; one that may wait goes on to the wait set.
FirstTry(r) ==
  /\ lessee[r].at \in {"try", "ask"}
  /\ \/ ~Refused(r) /\ Admit(r)
     \/ /\ Refused(r)
        /\ lessee' = IF lessee[r].at = "ask" THEN [lessee EXCEPT ![r].at = "join"] ELSE End(r)
        /\ UNCHANGED <<admissions, users>>
  /\ UNCHANGED <<waiters, ending, model, ender, leases>>

\* Lease joins the wait set, one waiter per slot.
Join(r) ==
  /\ lessee[r].at = "join"
  /\ IF ending.closed \/ waiters >= SlotCount
     THEN lessee' = End(r) /\ UNCHANGED waiters
     ELSE lessee' = [lessee EXCEPT ![r].at = "look"] /\ waiters' = waiters + 1
  /\ UNCHANGED <<admissions, users, ending, model, ender, leases>>

\* It reads the signal before it tries again ...
Look(r) ==
  /\ lessee[r].at = "look"
  /\ lessee' = IF ending.closed THEN [lessee EXCEPT ![r].at = "leave"]
                ELSE [lessee EXCEPT ![r].at = "again", ![r].holds = TRUE]
  /\ UNCHANGED <<admissions, users, waiters, ending, model, ender, leases>>

\* ... and parks on that signal when there is no slot.
TryAgain(r) ==
  /\ lessee[r].at = "again"
  /\ \/ /\ ~Refused(r)
        /\ \E id \in Fitting(r) :
             /\ admissions' = admissions \ {id}
             /\ lessee' = [lessee EXCEPT ![r].at = "unwait", ![r].slot = id, ![r].holds = FALSE]
        /\ users' = users + 1
     \/ /\ Refused(r)
        /\ lessee' = [lessee EXCEPT ![r].at = "parked"]
        /\ UNCHANGED <<admissions, users>>
  /\ UNCHANGED <<waiters, ending, model, ender, leases>>

WakeLessee(r) ==
  /\ lessee[r].at = "parked"
  /\ \/ ~lessee[r].holds /\ lessee' = [lessee EXCEPT ![r].at = "look"]
     \/ ~lessee[r].live /\ lessee' = [lessee EXCEPT ![r].at = "leave", ![r].holds = FALSE]
  /\ UNCHANGED <<admissions, users, waiters, ending, model, ender, leases>>

\* The deferred end of the wait, with a lease or without.
Unwait(r) ==
  /\ lessee[r].at \in {"unwait", "leave"}
  /\ waiters' = waiters - 1
  /\ lessee' = IF lessee[r].at = "leave" THEN End(r) ELSE [lessee EXCEPT ![r].at = "leased"]
  /\ UNCHANGED <<admissions, users, ending, model, ender, leases>>

\* Release: the slot goes back ...
ReturnSlot(r) ==
  /\ lessee[r].at = "leased"
  /\ admissions' = admissions \cup {lessee[r].slot}
  /\ lessee' = [lessee EXCEPT ![r].at = "returned"]
  /\ UNCHANGED <<users, waiters, ending, model, ender, leases>>

\* Mutant: nobody is notified of the release.
EndLeaseQuietly(r) ==
  /\ lessee[r].at = "returned"
  /\ users' = users - 1
  /\ lessee' = End(r)
  /\ UNCHANGED <<admissions, waiters, ending, model, ender, leases>>

\* ... then the user leaves, and the director is notified.
EndLease(r) ==
  /\ lessee[r].at = "returned"
  /\ users' = users - 1
  /\ lessee' = LeaseNotified(End(r))
  /\ ender' = LeaseNotified(ender)
  /\ UNCHANGED <<admissions, waiters, ending, model, leases>>

------------------------------------------------------------------------------
(* Close *)

\* Mutant: a Close does not wait for the one before it.
MustWaitForUsers == users > 0

\* Mutant: a Close does not wait for the leases that are out.
EnderMustWaitForOthers == ending.shutting

EnderMustWait == users > 0 \/ ending.shutting

CloseLooks(c) ==
  \/ ender[c].at = "idle"
  \/ ender[c].at = "parked" /\ ~ender[c].holds

\* Admission closes; the Close waits for leases and for a Close before it ...
EnderWaits(c) ==
  /\ CloseLooks(c) /\ EnderMustWait
  /\ ending' = [ending EXCEPT !.closed = TRUE]
  /\ LET news == ~ending.closed
     IN  /\ lessee' = IF news THEN LeaseNotified(lessee) ELSE lessee
         /\ ender' = [IF news THEN LeaseNotified(ender) ELSE ender
                       EXCEPT ![c] = [at |-> "parked", holds |-> TRUE]]
  /\ UNCHANGED <<admissions, users, waiters, model, leases>>

\* ... unless its context ends; it may be called again ...
EnderCancelled(c) ==
  /\ ender[c].at = "parked"
  /\ ender' = [ender EXCEPT ![c] = [at |-> "idle", holds |-> FALSE]]
  /\ UNCHANGED <<admissions, users, waiters, ending, model, lessee, leases>>

\* ... and ends as the other did, ...
EnderFollows(c) ==
  /\ CloseLooks(c) /\ ~EnderMustWait /\ ending.shut
  /\ ender' = [ender EXCEPT ![c] = [at |-> "returned", holds |-> FALSE]]
  /\ UNCHANGED <<admissions, users, waiters, ending, model, lessee, leases>>

\* ... or closes the model itself, unless a Close did (residentClose).
EnderTakes(c) ==
  /\ CloseLooks(c) /\ ~EnderMustWait /\ ~ending.shut
  /\ ending' = [ending EXCEPT !.closed = TRUE, !.shutting = TRUE]
  /\ model' = IF model = "open" THEN "closing" ELSE model
  /\ lessee' = LeaseNotified(lessee)
  /\ ender' = [LeaseNotified(ender) EXCEPT
       ![c] = [at |-> IF model = "open" THEN "closing" ELSE "leaving", holds |-> FALSE]]
  /\ UNCHANGED <<admissions, users, waiters, leases>>

EnderReturns(c) ==
  /\ ender[c].at \in {"closing", "leaving"}
  /\ model' = IF ender[c].at = "closing" THEN "closed" ELSE model
  /\ ending' = [ending EXCEPT !.shutting = FALSE, !.shut = TRUE]
  /\ lessee' = LeaseNotified(lessee)
  /\ ender' = [LeaseNotified(ender) EXCEPT ![c] = [at |-> "returned", holds |-> FALSE]]
  /\ UNCHANGED <<admissions, users, waiters, leases>>

------------------------------------------------------------------------------
ResidentsInit ==
  /\ admissions = Slots /\ users = 0 /\ waiters = 0
  /\ ending = [closed |-> FALSE, shutting |-> FALSE, shut |-> FALSE]
  /\ model = "open"
  /\ lessee = [r \in Lessees |-> NoLease]
  /\ ender = [c \in Enders |-> [at |-> "idle", holds |-> FALSE]]
  /\ leases = 0

LesseeStep(r) ==
  \/ FirstTry(r) \/ Join(r) \/ Look(r) \/ TryAgain(r) \/ WakeLessee(r) \/ Unwait(r)
  \/ ReturnSlot(r) \/ EndLease(r)

EnderStep(c) == EnderWaits(c) \/ EnderFollows(c) \/ EnderTakes(c) \/ EnderReturns(c)

ResidentsNext ==
  \/ \E r \in Lessees : AskSlot(r) \/ CancelSlot(r) \/ LesseeStep(r)
  \/ \E c \in Enders : EnderCancelled(c) \/ EnderStep(c)

ResidentsSpec == ResidentsInit /\ [][ResidentsNext]_residentVars

------------------------------------------------------------------------------
(* Properties *)

Places == {"idle", "try", "ask", "join", "look", "again", "parked", "unwait", "leave",
           "leased", "returned"}

\* Every variable keeps its shape.
ResidentsTypeOK ==
  /\ admissions \subseteq Slots
  /\ users \in 0 .. Cardinality(Lessees) /\ waiters \in 0 .. SlotCount
  /\ ending \in [closed : BOOLEAN, shutting : BOOLEAN, shut : BOOLEAN]
  /\ model \in {"open", "closing", "closed"}
  /\ lessee \in [Lessees -> [at : Places, wants : Slots \cup {AnySlot}, slot : Slots \cup {AnySlot},
                               holds : BOOLEAN, live : BOOLEAN]]
  /\ ender \in [Enders -> [at : {"idle", "parked", "closing", "leaving", "returned"}, holds : BOOLEAN]]
  /\ leases \in 0 .. MaxLeases

HasSlot(r) == lessee[r].at \in {"leased", "unwait"}
HasLease(r) == HasSlot(r) \/ lessee[r].at = "returned"

\* A slot is in the channel or with one lease: none is lost, none is had twice,
\* whatever order requests for particular slots come in.
SlotsAreKept ==
  /\ \A id \in Slots : id \notin admissions <=> \E r \in Lessees : HasSlot(r) /\ lessee[r].slot = id
  /\ \A r, s \in Lessees :
       r # s /\ HasSlot(r) /\ HasSlot(s) => lessee[r].slot # lessee[s].slot

\* The model is not closed under a lease, nor leased once it is being closed.
NoLeaseOfClosing == model # "open" => \A r \in Lessees : ~HasLease(r)

\* A request parked on a signal nobody has closed has no slot to take and no
\* shutdown to heed, and a parked Close something to wait for, or a release is
\* about to close the signal.
NoSleepBesideSlot ==
  \/ /\ \A r \in Lessees :
          lessee[r].at = "parked" /\ lessee[r].holds => Fitting(r) = {} /\ ~ending.closed
     /\ \A c \in Enders : ender[c].at = "parked" /\ ender[c].holds => EnderMustWait
  \/ \E s \in Lessees : lessee[s].at = "returned"

\* No Close returns before the model's own has, whichever of them closed it
\* (session_director.go: "While one call is closing the models another waits
\* for it").
ShutIsClosed == ending.shut => model = "closed"
=============================================================================
