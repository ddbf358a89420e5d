---------------------------- MODULE LeasesProofs ----------------------------
(* Theorems about the two components that count leases: Residents, for every  *)
(* set of requests and Close calls and every number of slots, and Supervisor, *)
(* for every finite set of requests that arrive and every catalog.            *)
EXTENDS Residents, Supervisor, FiniteSetTheorems, TLAPS

------------------------------------------------------------------------------
(* Residents *)

RequestRecord ==
  [at : Places, wants : Slots \cup {AnySlot}, slot : Slots \cup {AnySlot},
   holds : BOOLEAN, live : BOOLEAN]

CloserRecord == [at : {"idle", "parked", "closing", "leaving", "returned"}, holds : BOOLEAN]

\* The shapes of the variables, without the bounds of the two counters.
Shape ==
  /\ admissions \subseteq Slots
  /\ users \in Int /\ waiters \in Int
  /\ ending \in [closed : BOOLEAN, shutting : BOOLEAN, shut : BOOLEAN]
  /\ model \in {"open", "closing", "closed"}
  /\ lessee \in [Lessees -> RequestRecord]
  /\ ender \in [Enders -> CloserRecord]
  /\ leases \in 0 .. MaxLeases

\* Those who have a slot have one of the director's, which is not in the
\* channel.
SlotsAreOut ==
  \A r \in Lessees : HasSlot(r) => lessee[r].slot \in Slots \ admissions

\* residentUsers and waiters count whom they should.
Leased == {r \in Lessees : HasLease(r)}
InWait(r) == lessee[r].at \in {"look", "again", "parked", "unwait", "leave"}
Waits == {r \in Lessees : InWait(r)}

Counted ==
  /\ users = Cardinality(Leased)
  /\ waiters = Cardinality(Waits)
  /\ waiters <= SlotCount

------------------------------------------------------------------------------
(* What the actions have in common *)

\* A notification moves nobody and changes no slot.
LEMMA NotifiedRequests ==
  ASSUME NEW f \in [Lessees -> RequestRecord]
  PROVE  /\ LeaseNotified(f) \in [Lessees -> RequestRecord]
         /\ \A r \in Lessees : /\ LeaseNotified(f)[r].at = f[r].at
                               /\ LeaseNotified(f)[r].slot = f[r].slot
                               /\ LeaseNotified(f)[r].wants = f[r].wants
                               /\ LeaseNotified(f)[r].live = f[r].live
                               /\ LeaseNotified(f)[r].holds = FALSE
<1>1. \A r \in Lessees : f[r] \in RequestRecord
  OBVIOUS
<1>2. ASSUME NEW r \in Lessees
      PROVE  /\ [f[r] EXCEPT !.holds = FALSE] \in RequestRecord
             /\ [f[r] EXCEPT !.holds = FALSE].at = f[r].at
             /\ [f[r] EXCEPT !.holds = FALSE].slot = f[r].slot
             /\ [f[r] EXCEPT !.holds = FALSE].wants = f[r].wants
             /\ [f[r] EXCEPT !.holds = FALSE].live = f[r].live
             /\ [f[r] EXCEPT !.holds = FALSE].holds = FALSE
  BY <1>1 DEF RequestRecord
<1>3. \A r \in Lessees : f[r].holds \in BOOLEAN
  BY <1>1 DEF RequestRecord
<1> QED BY <1>1, <1>2, <1>3 DEF LeaseNotified

\* Nor does it move a Close.
LEMMA NotifiedClosers ==
  ASSUME NEW f \in [Enders -> CloserRecord]
  PROVE  /\ LeaseNotified(f) \in [Enders -> CloserRecord]
         /\ \A c \in Enders : LeaseNotified(f)[c].at = f[c].at /\ LeaseNotified(f)[c].holds = FALSE
<1>1. \A c \in Enders : f[c] \in CloserRecord
  OBVIOUS
<1>2. ASSUME NEW c \in Enders
      PROVE  /\ [f[c] EXCEPT !.holds = FALSE] \in CloserRecord
             /\ [f[c] EXCEPT !.holds = FALSE].at = f[c].at
             /\ [f[c] EXCEPT !.holds = FALSE].holds = FALSE
  BY <1>1 DEF CloserRecord
<1>3. \A c \in Enders : f[c].holds \in BOOLEAN
  BY <1>1 DEF CloserRecord
<1> QED BY <1>1, <1>2, <1>3 DEF LeaseNotified

\* The record of a goroutine between two requests.
LEMMA IdleType == NoLease \in RequestRecord
  BY DEF NoLease, RequestRecord, Places

\* What a record of the request function is after an action, and that the
\* others stay as they were.
OnlyMoves(r, f, at, slot, holds) ==
  /\ f \in [Lessees -> RequestRecord]
  /\ f[r].at = at /\ f[r].slot = slot /\ f[r].holds = holds
  /\ \A p \in Lessees \ {r} : f[p] = lessee[p]

\* A request goes somewhere else with what it has ...
LEMMA Goes ==
  ASSUME Shape, NEW r \in Lessees, NEW at \in Places
  PROVE  OnlyMoves(r, [lessee EXCEPT ![r].at = at], at, lessee[r].slot, lessee[r].holds)
<1>1. lessee[r] \in RequestRecord /\ lessee \in [Lessees -> RequestRecord]
  BY DEF Shape
<1>2. [lessee[r] EXCEPT !.at = at] \in RequestRecord
  BY <1>1 DEF RequestRecord
<1> QED BY <1>1, <1>2 DEF OnlyMoves, RequestRecord

\* ... with another signal ...
LEMMA GoesHolding ==
  ASSUME Shape, NEW r \in Lessees, NEW at \in Places, NEW holds \in BOOLEAN
  PROVE  OnlyMoves(r, [lessee EXCEPT ![r].at = at, ![r].holds = holds],
                   at, lessee[r].slot, holds)
<1>1. lessee[r] \in RequestRecord /\ lessee \in [Lessees -> RequestRecord]
  BY DEF Shape
<1>2. [lessee[r] EXCEPT !.at = at, !.holds = holds] \in RequestRecord
  BY <1>1 DEF RequestRecord
<1>3. [lessee EXCEPT ![r].at = at, ![r].holds = holds]
      = [lessee EXCEPT ![r] = [lessee[r] EXCEPT !.at = at, !.holds = holds]]
  BY <1>1
<1> QED BY <1>1, <1>2, <1>3 DEF OnlyMoves, RequestRecord

\* ... with a slot ...
LEMMA GoesWithSlot ==
  ASSUME Shape, NEW r \in Lessees, NEW at \in Places, NEW id \in Slots
  PROVE  OnlyMoves(r, [lessee EXCEPT ![r].at = at, ![r].slot = id, ![r].holds = FALSE],
                   at, id, FALSE)
<1>1. lessee[r] \in RequestRecord /\ lessee \in [Lessees -> RequestRecord]
  BY DEF Shape
<1>2. [lessee[r] EXCEPT !.at = at, !.slot = id, !.holds = FALSE] \in RequestRecord
  BY <1>1 DEF RequestRecord
<1>3. [lessee EXCEPT ![r].at = at, ![r].slot = id, ![r].holds = FALSE]
      = [lessee EXCEPT ![r] = [lessee[r] EXCEPT !.at = at, !.slot = id, !.holds = FALSE]]
  BY <1>1
<1> QED BY <1>1, <1>2, <1>3 DEF OnlyMoves, RequestRecord

\* ... or ends.
LEMMA Ends ==
  ASSUME Shape, NEW r \in Lessees
  PROVE  OnlyMoves(r, End(r), "idle", AnySlot, FALSE)
  BY IdleType DEF End, Shape, NoLease, OnlyMoves

------------------------------------------------------------------------------
(* What a request does to slots, users and waiters, one kind of step each *)

\* Neither a slot nor a place in the wait set changes hands.
Plain(r) ==
  /\ (HasLease(r)' <=> HasLease(r)) /\ (HasSlot(r)' <=> HasSlot(r)) /\ (InWait(r)' <=> InWait(r))
  /\ HasSlot(r) => lessee'[r].slot = lessee[r].slot
  /\ UNCHANGED <<admissions, users, waiters>>

\* A slot is taken, and the request is a user.
Takes(r) ==
  /\ ~HasLease(r) /\ HasSlot(r)' /\ (InWait(r)' <=> InWait(r)) /\ ~ending.closed
  /\ \E id \in admissions : admissions' = admissions \ {id} /\ lessee'[r].slot = id
  /\ users' = users + 1 /\ UNCHANGED waiters

\* The request joins the wait set, or leaves it.
Joins(r) ==
  /\ ~InWait(r) /\ InWait(r)' /\ ~HasLease(r) /\ ~HasLease(r)'
  /\ waiters < SlotCount /\ waiters' = waiters + 1 /\ UNCHANGED <<admissions, users>>

Leaves(r) ==
  /\ InWait(r) /\ ~InWait(r)' /\ (HasLease(r)' <=> HasLease(r)) /\ (HasSlot(r)' <=> HasSlot(r))
  /\ HasSlot(r) => lessee'[r].slot = lessee[r].slot
  /\ waiters' = waiters - 1 /\ UNCHANGED <<admissions, users>>

\* A slot is put back, and then its user leaves.
Returns(r) ==
  /\ HasSlot(r) /\ ~HasSlot(r)' /\ HasLease(r)' /\ (InWait(r)' <=> InWait(r))
  /\ admissions' = admissions \cup {lessee[r].slot} /\ UNCHANGED <<users, waiters>>

Finishes(r) ==
  /\ HasLease(r) /\ ~HasSlot(r) /\ ~HasLease(r)' /\ (InWait(r)' <=> InWait(r))
  /\ users' = users - 1 /\ UNCHANGED <<admissions, waiters>>

\* The other requests keep what they have; the director's state stays.
Kind(r) ==
  /\ Plain(r) \/ Takes(r) \/ Joins(r) \/ Leaves(r) \/ Returns(r) \/ Finishes(r)
  /\ lessee' \in [Lessees -> RequestRecord]
  /\ \A p \in Lessees \ {r} : lessee'[p].at = lessee[p].at /\ lessee'[p].slot = lessee[p].slot
  /\ ender' \in [Enders -> CloserRecord]
  /\ \A c \in Enders : ender'[c].at = ender[c].at
  /\ leases' \in 0 .. MaxLeases
  /\ UNCHANGED <<ending, model>>

\* Each action of a request is of one of the kinds.
LEMMA RequestKinds ==
  ASSUME Shape, NEW r \in Lessees, AskSlot(r) \/ CancelSlot(r) \/ LesseeStep(r)
  PROVE  Kind(r)
<1> USE DEF HasLease, HasSlot, InWait
<1>0. ender \in [Enders -> CloserRecord] /\ leases \in 0 .. MaxLeases /\ Fitting(r) \subseteq admissions
      /\ admissions \subseteq Slots /\ MaxLeases \in Nat
  BY ResidentsAssumption DEF Shape, Fitting
<1>1. CASE AskSlot(r)
  <2>1. PICK wants \in Slots \cup {AnySlot}, at \in {"try", "ask"} :
          lessee' = [lessee EXCEPT ![r] = [NoLease EXCEPT !.at = at, !.wants = wants]]
    BY <1>1 DEF AskSlot
  <2>2. /\ [NoLease EXCEPT !.at = at, !.wants = wants] \in RequestRecord
        /\ [NoLease EXCEPT !.at = at, !.wants = wants].at = at
    BY DEF NoLease, RequestRecord, Places
  <2>3. lessee' \in [Lessees -> RequestRecord] /\ lessee'[r].at = at
        /\ \A p \in Lessees \ {r} : lessee'[p] = lessee[p]
    BY <2>1, <2>2 DEF Shape
  <2>4. Plain(r)
    <3>1. lessee'[r].at \in {"try", "ask"} /\ lessee[r].at = "idle"
      BY <1>1, <2>3 DEF AskSlot
    <3>2. ~HasLease(r) /\ ~HasSlot(r) /\ ~InWait(r) /\ ~HasLease(r)' /\ ~HasSlot(r)' /\ ~InWait(r)'
      BY <3>1
    <3>3. UNCHANGED <<admissions, users, waiters>>
      BY <1>1 DEF AskSlot
    <3> HIDE DEF HasLease, HasSlot, InWait
    <3> QED BY <3>2, <3>3 DEF Plain
  <2>5. leases' \in 0 .. MaxLeases
    <3>1. leases < MaxLeases /\ leases' = leases + 1
      BY <1>1 DEF AskSlot
    <3>2. leases \in 0 .. MaxLeases /\ MaxLeases \in Nat
      BY <1>0
    <3> HIDE DEF HasLease, HasSlot, InWait
    <3> QED BY <3>1, <3>2
  <2> QED BY <1>1, <1>0, <2>3, <2>4, <2>5 DEF AskSlot, Kind
<1>2. CASE CancelSlot(r)
  <2>1. lessee[r] \in RequestRecord /\ lessee \in [Lessees -> RequestRecord]
    BY DEF Shape
  <2>2. [lessee[r] EXCEPT !.live = FALSE] \in RequestRecord
    BY <2>1 DEF RequestRecord
  <2>3. /\ lessee' \in [Lessees -> RequestRecord]
        /\ lessee'[r].at = lessee[r].at /\ lessee'[r].slot = lessee[r].slot
        /\ \A p \in Lessees \ {r} : lessee'[p] = lessee[p]
    BY <1>2, <2>1, <2>2 DEF CancelSlot, RequestRecord
  <2>4. Plain(r)
    BY <1>2, <2>3 DEF CancelSlot, Plain
  <2> QED BY <1>2, <1>0, <2>3, <2>4 DEF CancelSlot, Kind
<1>3. CASE FirstTry(r) /\ ~Refused(r)
  <2>1. PICK id \in Fitting(r) :
          /\ admissions' = admissions \ {id} /\ users' = users + 1
          /\ lessee' = [lessee EXCEPT ![r].at = "leased", ![r].slot = id, ![r].holds = FALSE]
    BY <1>3 DEF FirstTry, Admit
  <2>2. OnlyMoves(r, lessee', "leased", id, FALSE)
    BY <1>0, <2>1, GoesWithSlot, Zenon DEF Places
  <2>3. Takes(r)
    BY <1>3, <1>0, <2>1, <2>2 DEF FirstTry, Takes, Refused, OnlyMoves
  <2> QED BY <1>3, <1>0, <2>2, <2>3 DEF FirstTry, Kind, OnlyMoves
<1>4. CASE FirstTry(r) /\ Refused(r)
  <2>1. \/ OnlyMoves(r, lessee', "join", lessee[r].slot, lessee[r].holds)
        \/ OnlyMoves(r, lessee', "idle", AnySlot, FALSE)
    BY <1>4, Goes, Ends DEF FirstTry, Places
  <2>2. Plain(r)
    BY <1>4, <2>1 DEF FirstTry, Plain, OnlyMoves
  <2> QED BY <1>4, <1>0, <2>1, <2>2 DEF FirstTry, Kind, OnlyMoves
<1>5. CASE Join(r)
  <2>1. CASE ending.closed \/ waiters >= SlotCount
    <3>1. OnlyMoves(r, lessee', "idle", AnySlot, FALSE)
      BY <1>5, <2>1, Ends DEF Join
    <3>2. Plain(r)
      BY <1>5, <2>1, <3>1 DEF Join, Plain, OnlyMoves
    <3> QED BY <1>5, <1>0, <3>1, <3>2 DEF Join, Kind, OnlyMoves
  <2>2. CASE ~(ending.closed \/ waiters >= SlotCount)
    <3>1. OnlyMoves(r, lessee', "look", lessee[r].slot, lessee[r].holds)
      BY <1>5, <2>2, Goes DEF Join, Places
    <3>2. waiters < SlotCount
      BY <2>2, ResidentsAssumption DEF Shape
    <3>3. Joins(r)
      BY <1>5, <2>2, <3>1, <3>2 DEF Join, Joins, OnlyMoves
    <3> QED BY <1>5, <1>0, <3>1, <3>3 DEF Join, Kind, OnlyMoves
  <2> QED BY <2>1, <2>2
<1>6. CASE Look(r) \/ WakeLessee(r)
  <2>1. \E at \in {"leave", "again", "look"}, holds \in BOOLEAN :
          OnlyMoves(r, lessee', at, lessee[r].slot, holds)
    <3>1. lessee[r].holds \in BOOLEAN
      BY DEF Shape, RequestRecord
    <3>2. CASE Look(r)
      BY <3>1, <3>2, Goes, GoesHolding DEF Look, Places
    <3>3. CASE WakeLessee(r)
      BY <3>1, <3>3, Goes, GoesHolding DEF WakeLessee, Places
    <3> QED BY <1>6, <3>2, <3>3
  <2>2. Plain(r)
    BY <1>6, <2>1 DEF Look, WakeLessee, Plain, OnlyMoves
  <2> QED BY <1>6, <1>0, <2>1, <2>2 DEF Look, WakeLessee, Kind, OnlyMoves
<1>7. CASE TryAgain(r) /\ ~Refused(r)
  <2>1. PICK id \in Fitting(r) :
          /\ admissions' = admissions \ {id} /\ users' = users + 1
          /\ lessee' = [lessee EXCEPT ![r].at = "unwait", ![r].slot = id, ![r].holds = FALSE]
    BY <1>7 DEF TryAgain
  <2>2. OnlyMoves(r, lessee', "unwait", id, FALSE)
    BY <1>0, <2>1, GoesWithSlot, Zenon DEF Places
  <2>3. Takes(r)
    <3>1. lessee[r].at = "again" /\ lessee'[r].at = "unwait" /\ lessee'[r].slot = id
      BY <1>7, <2>2 DEF TryAgain, OnlyMoves
    <3>2. ~HasLease(r) /\ HasSlot(r)' /\ (InWait(r)' <=> InWait(r))
      BY <3>1
    <3> HIDE DEF HasLease, HasSlot, InWait
    <3> QED BY <1>7, <1>0, <2>1, <3>1, <3>2 DEF TryAgain, Takes, Refused
  <2> QED BY <1>7, <1>0, <2>2, <2>3 DEF TryAgain, Kind, OnlyMoves
<1>8. CASE TryAgain(r) /\ Refused(r)
  <2>1. OnlyMoves(r, lessee', "parked", lessee[r].slot, lessee[r].holds)
    BY <1>8, Goes DEF TryAgain, Places
  <2>2. Plain(r)
    BY <1>8, <2>1 DEF TryAgain, Plain, OnlyMoves
  <2> QED BY <1>8, <1>0, <2>1, <2>2 DEF TryAgain, Kind, OnlyMoves
<1>9. CASE Unwait(r)
  <2>1. \/ lessee[r].at = "leave" /\ OnlyMoves(r, lessee', "idle", AnySlot, FALSE)
        \/ lessee[r].at = "unwait" /\ OnlyMoves(r, lessee', "leased", lessee[r].slot, lessee[r].holds)
    BY <1>9, Goes, Ends DEF Unwait, Places
  <2>2. Leaves(r)
    BY <1>9, <2>1 DEF Unwait, Leaves, OnlyMoves
  <2> QED BY <1>9, <1>0, <2>1, <2>2 DEF Unwait, Kind, OnlyMoves
<1>10. CASE ReturnSlot(r)
  <2>1. OnlyMoves(r, lessee', "returned", lessee[r].slot, lessee[r].holds)
    BY <1>10, Goes DEF ReturnSlot, Places
  <2>2. Returns(r)
    BY <1>10, <2>1 DEF ReturnSlot, Returns, OnlyMoves
  <2> QED BY <1>10, <1>0, <2>1, <2>2 DEF ReturnSlot, Kind, OnlyMoves
<1>11. CASE EndLease(r)
  <2>1. OnlyMoves(r, End(r), "idle", AnySlot, FALSE)
    BY Ends
  <2>2. /\ lessee' \in [Lessees -> RequestRecord] /\ lessee'[r].at = "idle"
        /\ \A p \in Lessees \ {r} : lessee'[p].at = lessee[p].at /\ lessee'[p].slot = lessee[p].slot
    <3>1. lessee' = LeaseNotified(End(r))
      BY <1>11 DEF EndLease
    <3>2. PICK f \in [Lessees -> RequestRecord] : f = End(r)
      BY <2>1 DEF OnlyMoves
    <3>3. f[r].at = "idle" /\ \A p \in Lessees \ {r} : f[p] = lessee[p]
      BY <2>1, <3>2 DEF OnlyMoves
    <3>4. lessee' = LeaseNotified(f)
      BY <3>1, <3>2
    <3>5. /\ lessee' \in [Lessees -> RequestRecord]
          /\ \A p \in Lessees : lessee'[p].at = f[p].at /\ lessee'[p].slot = f[p].slot
      BY <3>4, NotifiedRequests
    <3> QED BY <3>3, <3>5
  <2>3. Finishes(r)
    BY <1>11, <2>2 DEF EndLease, Finishes
  <2>4. ender' \in [Enders -> CloserRecord] /\ \A c \in Enders : ender'[c].at = ender[c].at
    BY <1>11, NotifiedClosers DEF EndLease, Shape
  <2>5. leases' \in 0 .. MaxLeases /\ UNCHANGED <<ending, model>>
    BY <1>11 DEF EndLease, Shape
  <2> QED BY <2>2, <2>3, <2>4, <2>5 DEF Kind
<1> QED
  BY <1>1, <1>2, <1>3, <1>4, <1>5, <1>6, <1>7, <1>8, <1>9, <1>10, <1>11 DEF LesseeStep

------------------------------------------------------------------------------
(* What a Close does to them: nothing *)

Bystanding ==
  /\ lessee' \in [Lessees -> RequestRecord]
  /\ \A r \in Lessees : /\ lessee'[r].at = lessee[r].at /\ lessee'[r].slot = lessee[r].slot
                        /\ lessee'[r].wants = lessee[r].wants
                        /\ lessee'[r].holds => lessee[r].holds
  /\ UNCHANGED <<admissions, users, waiters, leases>>

LEMMA CloserSteps ==
  ASSUME Shape, NEW c \in Enders, EnderCancelled(c) \/ EnderStep(c)
  PROVE  Shape' /\ Bystanding
<1>0. lessee \in [Lessees -> RequestRecord] /\ ender \in [Enders -> CloserRecord]
  BY DEF Shape
<1>1. ASSUME NEW at \in {"idle", "parked", "closing", "leaving", "returned"}, NEW holds \in BOOLEAN
      PROVE  [at |-> at, holds |-> holds] \in CloserRecord
  BY DEF CloserRecord
<1>2. Bystanding
  <2>1. CASE EnderCancelled(c) \/ EnderFollows(c)
    BY <1>0, <2>1 DEF EnderCancelled, EnderFollows, Bystanding
  <2>2. CASE EnderWaits(c)
    BY <1>0, <2>2, NotifiedRequests DEF EnderWaits, Bystanding
  <2>3. CASE EnderTakes(c) \/ EnderReturns(c)
    <3>1. lessee' = LeaseNotified(lessee) /\ UNCHANGED <<admissions, users, waiters, leases>>
      BY <2>3 DEF EnderTakes, EnderReturns
    <3> QED BY <1>0, <3>1, NotifiedRequests DEF Bystanding
  <2> QED BY <2>1, <2>2, <2>3 DEF EnderStep
<1>3. ender' \in [Enders -> CloserRecord]
  <2>1. CASE EnderCancelled(c) \/ EnderFollows(c)
    BY <1>0, <1>1, <2>1 DEF EnderCancelled, EnderFollows
  <2>2. CASE EnderWaits(c)
    BY <1>0, <1>1, <2>2, NotifiedClosers DEF EnderWaits
  <2>3. CASE EnderTakes(c)
    BY <1>0, <1>1, <2>3, NotifiedClosers DEF EnderTakes
  <2>4. CASE EnderReturns(c)
    BY <1>0, <1>1, <2>4, NotifiedClosers DEF EnderReturns
  <2> QED BY <2>1, <2>2, <2>3, <2>4 DEF EnderStep
<1>4. /\ ending' \in [closed : BOOLEAN, shutting : BOOLEAN, shut : BOOLEAN]
      /\ model' \in {"open", "closing", "closed"}
  BY DEF EnderStep, EnderCancelled, EnderFollows, EnderWaits, EnderTakes, EnderReturns, Shape
<1> QED BY <1>2, <1>3, <1>4 DEF Bystanding, Shape

------------------------------------------------------------------------------
(* Slots *)

\* A step of a request keeps the shapes.
LEMMA RequestShape ==
  ASSUME Shape, SlotsAreOut, NEW r \in Lessees, Kind(r)
  PROVE  Shape'
<1>1. admissions' \subseteq Slots /\ users' \in Int /\ waiters' \in Int
  BY DEF Shape, SlotsAreOut, Kind, Plain, Takes, Joins, Leaves, Returns, Finishes
<1> QED BY <1>1 DEF Shape, Kind

\* A slot that goes out is with the request that took it, and one that is put
\* back with nobody: the others' slots are their own.
LEMMA RequestSlots ==
  ASSUME Shape, SlotsAreOut, SlotsAreKept, NEW r \in Lessees, Kind(r)
  PROVE  SlotsAreOut' /\ SlotsAreKept'
<1>0. /\ admissions \subseteq Slots
      /\ \A p \in Lessees \ {r} : (HasSlot(p)' <=> HasSlot(p)) /\ lessee'[p].slot = lessee[p].slot
  BY DEF Shape, Kind, HasSlot
<1>1. CASE Plain(r) \/ Joins(r) \/ Leaves(r) \/ Finishes(r)
  <2>1. /\ admissions' = admissions
        /\ HasSlot(r)' <=> HasSlot(r)
        /\ HasSlot(r) => lessee'[r].slot = lessee[r].slot
    BY <1>1 DEF Plain, Joins, Leaves, Finishes, HasLease
  <2>2. \A p \in Lessees : /\ HasSlot(p)' <=> HasSlot(p)
                           /\ HasSlot(p) => lessee'[p].slot = lessee[p].slot
    BY <1>0, <2>1
  <2> HIDE DEF HasSlot
  <2> QED BY <2>1, <2>2 DEF SlotsAreOut, SlotsAreKept
<1>2. CASE Takes(r)
  <2>1. PICK id \in admissions : admissions' = admissions \ {id} /\ lessee'[r].slot = id
    BY <1>2 DEF Takes
  <2>2. ~HasSlot(r) /\ HasSlot(r)'
    BY <1>2 DEF Takes, HasLease
  <2>3. \A p \in Lessees \ {r} : HasSlot(p)' => lessee'[p].slot # id
    BY <1>0, <2>1 DEF SlotsAreOut
  <2>4. SlotsAreOut'
    BY <1>0, <2>1, <2>2, <2>3 DEF SlotsAreOut
  <2>5. \A s \in Slots : s \notin admissions' <=> \E p \in Lessees : HasSlot(p)' /\ lessee'[p].slot = s
    BY <1>0, <2>1, <2>2, <2>3 DEF SlotsAreKept
  <2>6. \A p, q \in Lessees : p # q /\ HasSlot(p)' /\ HasSlot(q)' => lessee'[p].slot # lessee'[q].slot
    BY <1>0, <2>1, <2>2, <2>3 DEF SlotsAreKept
  <2> QED BY <2>4, <2>5, <2>6 DEF SlotsAreKept
<1>3. CASE Returns(r)
  <2>1. /\ HasSlot(r) /\ ~HasSlot(r)' /\ admissions' = admissions \cup {lessee[r].slot}
        /\ lessee[r].slot \in Slots
    BY <1>3 DEF Returns, SlotsAreOut
  <2>2. \A p \in Lessees \ {r} : HasSlot(p) => lessee[p].slot # lessee[r].slot
    BY <2>1 DEF SlotsAreKept
  <2>3. SlotsAreOut'
    BY <1>0, <2>1, <2>2 DEF SlotsAreOut
  <2>4. \A s \in Slots : s \notin admissions' <=> \E p \in Lessees : HasSlot(p)' /\ lessee'[p].slot = s
    BY <1>0, <2>1, <2>2 DEF SlotsAreKept
  <2>5. \A p, q \in Lessees : p # q /\ HasSlot(p)' /\ HasSlot(q)' => lessee'[p].slot # lessee'[q].slot
    BY <1>0, <2>1 DEF SlotsAreKept
  <2> QED BY <2>3, <2>4, <2>5 DEF SlotsAreKept
<1> QED BY <1>1, <1>2, <1>3 DEF Kind

\* A bystander keeps its slot.
LEMMA BystandingSlots ==
  ASSUME SlotsAreOut, SlotsAreKept, Bystanding
  PROVE  SlotsAreOut' /\ SlotsAreKept'
<1>1. \A p \in Lessees : (HasSlot(p)' <=> HasSlot(p)) /\ lessee'[p].slot = lessee[p].slot
  BY DEF Bystanding, HasSlot
<1>2. admissions' = admissions
  BY DEF Bystanding
<1> HIDE DEF HasSlot
<1> QED BY <1>1, <1>2 DEF SlotsAreOut, SlotsAreKept

------------------------------------------------------------------------------
(* Counters *)

\* Who leases and who waits are finite sets.
LEMMA Finite ==
  /\ IsFiniteSet(Leased) /\ IsFiniteSet(Waits)
  /\ Cardinality(Leased) \in Nat /\ Cardinality(Waits) \in Nat
  /\ Cardinality(Leased) <= Cardinality(Lessees)
<1>1. Leased \subseteq Lessees /\ Waits \subseteq Lessees /\ IsFiniteSet(Lessees)
  BY ResidentsAssumption DEF Leased, Waits
<1> QED BY <1>1, FS_Subset, FS_CardinalityType

\* A step of a request moves each counter with its set.
LEMMA RequestCounts ==
  ASSUME Shape, Counted, NEW r \in Lessees, Kind(r)
  PROVE  Counted'
<1>0. /\ \A p \in Lessees \ {r} : (HasLease(p)' <=> HasLease(p)) /\ (InWait(p)' <=> InWait(p))
      /\ users = Cardinality(Leased) /\ waiters = Cardinality(Waits) /\ waiters <= SlotCount
  BY DEF Kind, HasLease, HasSlot, InWait, Counted
<1>1. ASSUME HasLease(r)' <=> HasLease(r), users' = users
      PROVE  users' = Cardinality(Leased)'
  <2>1. Leased' = Leased
    BY <1>0, <1>1 DEF Leased
  <2> QED BY <1>0, <1>1, <2>1
<1>2. ASSUME InWait(r)' <=> InWait(r), waiters' = waiters
      PROVE  waiters' = Cardinality(Waits)' /\ waiters' <= SlotCount
  <2>1. Waits' = Waits
    BY <1>0, <1>2 DEF Waits
  <2> QED BY <1>0, <1>2, <2>1
<1>3. CASE Plain(r) \/ Returns(r)
  BY <1>1, <1>2, <1>3 DEF Plain, Returns, HasLease, Counted
<1>4. CASE Takes(r)
  <2>1. Leased' = Leased \cup {r} /\ r \notin Leased
    BY <1>0, <1>4 DEF Takes, Leased, HasLease
  <2>2. users' = Cardinality(Leased)'
    BY <1>0, <1>4, <2>1, Finite, FS_AddElement DEF Takes
  <2> QED BY <1>2, <1>4, <2>2 DEF Takes, Counted
<1>5. CASE Joins(r)
  <2>1. Waits' = Waits \cup {r} /\ r \notin Waits
    BY <1>0, <1>5 DEF Joins, Waits
  <2>2. waiters' = Cardinality(Waits)'
    BY <1>0, <1>5, <2>1, Finite, FS_AddElement DEF Joins
  <2>3. waiters' <= SlotCount
    BY <1>5, ResidentsAssumption DEF Joins, Shape
  <2> QED BY <1>1, <1>5, <2>2, <2>3 DEF Joins, Counted
<1>6. CASE Leaves(r)
  <2>1. Waits' = Waits \ {r} /\ r \in Waits
    BY <1>0, <1>6 DEF Leaves, Waits
  <2>2. waiters' = Cardinality(Waits)'
    BY <1>0, <1>6, <2>1, Finite, FS_RemoveElement DEF Leaves
  <2>3. waiters' <= SlotCount
    BY <1>0, <1>6, ResidentsAssumption DEF Leaves, Shape
  <2> QED BY <1>1, <1>6, <2>2, <2>3 DEF Leaves, Counted
<1>7. CASE Finishes(r)
  <2>1. Leased' = Leased \ {r} /\ r \in Leased
    BY <1>0, <1>7 DEF Finishes, Leased
  <2>2. users' = Cardinality(Leased)'
    BY <1>0, <1>7, <2>1, Finite, FS_RemoveElement DEF Finishes
  <2> QED BY <1>2, <1>7, <2>2 DEF Finishes, Counted
<1> QED BY <1>3, <1>4, <1>5, <1>6, <1>7 DEF Kind

\* A bystander stays in the sets it is in.
LEMMA BystandingCounts ==
  ASSUME Counted, Bystanding
  PROVE  Counted'
<1>1. \A p \in Lessees : (HasLease(p)' <=> HasLease(p)) /\ (InWait(p)' <=> InWait(p))
  BY DEF Bystanding, HasLease, HasSlot, InWait
<1>2. Leased' = Leased /\ Waits' = Waits
  BY <1>1 DEF Leased, Waits
<1> QED BY <1>2 DEF Counted, Bystanding

------------------------------------------------------------------------------
(* The director's shutdown *)

\* A Close that is past its wait.
Inside(c) == ender[c].at \in {"closing", "leaving"}

\* shutting is set by the one Close that is inside, and tells what it does.
OneInside ==
  /\ ending.shutting <=> \E c \in Enders : Inside(c)
  /\ \A c, d \in Enders : Inside(c) /\ Inside(d) => c = d
  /\ model = "closing" <=> \E c \in Enders : ender[c].at = "closing"
  /\ \A c \in Enders : ender[c].at = "leaving" => model = "closed"

\* The model is not open only once admission has closed and the leases are back.
ClosedOff == (model # "open" => ending.closed) /\ NoLeaseOfClosing

\* A step of a request leaves the shutdown alone and leases only an open model.
LEMMA RequestShutdown ==
  ASSUME Shape, OneInside, ClosedOff, ShutIsClosed, NEW r \in Lessees, Kind(r)
  PROVE  OneInside' /\ ClosedOff' /\ ShutIsClosed'
<1>1. UNCHANGED <<ending, model>> /\ \A c \in Enders : ender'[c].at = ender[c].at
  BY DEF Kind
<1>2. OneInside' /\ ShutIsClosed'
  BY <1>1 DEF OneInside, Inside, ShutIsClosed
<1>3. \A p \in Lessees \ {r} : HasLease(p)' <=> HasLease(p)
  BY DEF Kind, HasLease, HasSlot
<1>4. model # "open" => ~HasLease(r)'
  <2>1. ASSUME model # "open" PROVE ~HasLease(r) /\ ending.closed
    BY <2>1 DEF ClosedOff, NoLeaseOfClosing
  <2> QED BY <2>1 DEF Kind, Plain, Takes, Joins, Leaves, Returns, Finishes, HasLease
<1>5. ClosedOff'
  BY <1>1, <1>3, <1>4 DEF ClosedOff, NoLeaseOfClosing
<1> QED BY <1>2, <1>5

\* What a step of one Close is to the places of the others.
LEMMA CloserPlaces ==
  ASSUME Shape, NEW c \in Enders, EnderCancelled(c) \/ EnderStep(c)
  PROVE  /\ \A d \in Enders \ {c} : ender'[d].at = ender[d].at
         /\ EnderCancelled(c) \/ EnderFollows(c) \/ EnderWaits(c) => ~Inside(c) /\ ~Inside(c)'
         /\ EnderTakes(c) => /\ ~Inside(c)
                             /\ ender'[c].at = IF model = "open" THEN "closing" ELSE "leaving"
         /\ EnderReturns(c) => Inside(c) /\ ender'[c].at = "returned"
<1>0. ender \in [Enders -> CloserRecord]
  BY DEF Shape
<1>1. CASE EnderCancelled(c) \/ EnderFollows(c)
  BY <1>0, <1>1 DEF EnderCancelled, EnderFollows, CloseLooks, EnderTakes, EnderReturns, Inside
<1>2. CASE EnderWaits(c)
  BY <1>0, <1>2, NotifiedClosers DEF EnderWaits, CloseLooks, EnderTakes, EnderReturns, Inside
<1>3. CASE EnderTakes(c)
  BY <1>0, <1>3, NotifiedClosers
  DEF EnderTakes, CloseLooks, EnderReturns, EnderCancelled, EnderFollows, EnderWaits, Inside
<1>4. CASE EnderReturns(c)
  BY <1>0, <1>4, NotifiedClosers
  DEF EnderReturns, CloseLooks, EnderTakes, EnderCancelled, EnderFollows, EnderWaits, Inside
<1> QED BY <1>1, <1>2, <1>3, <1>4 DEF EnderStep

\* A Close goes inside alone, once the leases are back, and comes out with the
\* model closed.
LEMMA CloserShutdown ==
  ASSUME Shape, Counted, OneInside, ClosedOff, ShutIsClosed,
         NEW c \in Enders, EnderCancelled(c) \/ EnderStep(c)
  PROVE  OneInside' /\ ClosedOff' /\ ShutIsClosed'
<1>0. /\ \A d \in Enders \ {c} : ender'[d].at = ender[d].at
      /\ \A r \in Lessees : HasLease(r)' <=> HasLease(r)
      /\ ending \in [closed : BOOLEAN, shutting : BOOLEAN, shut : BOOLEAN]
      /\ model \in {"open", "closing", "closed"}
  BY CloserPlaces, CloserSteps DEF Bystanding, HasLease, HasSlot, Shape
<1>1. CASE EnderCancelled(c) \/ EnderFollows(c) \/ EnderWaits(c)
  <2>1. /\ ~Inside(c) /\ ~Inside(c)' /\ model' = model
        /\ ending'.shutting = ending.shutting /\ ending'.shut = ending.shut
        /\ ending.closed => ending'.closed
    BY <1>0, <1>1, CloserPlaces DEF EnderCancelled, EnderFollows, EnderWaits
  <2> QED BY <1>0, <2>1 DEF OneInside, Inside, ClosedOff, NoLeaseOfClosing, ShutIsClosed
<1>2. CASE EnderTakes(c)
  <2>1. /\ users = 0 /\ ~ending.shutting /\ ~ending.shut
        /\ ending'.shutting /\ ~ending'.shut /\ ending'.closed
        /\ model' = IF model = "open" THEN "closing" ELSE model
    <3>1. users <= 0 /\ users \in Nat
      BY <1>2, Finite DEF EnderTakes, EnderMustWait, Counted
    <3> QED BY <1>0, <1>2, <3>1 DEF EnderTakes, EnderMustWait
  <2>2. \A r \in Lessees : ~HasLease(r)
    <3>1. Leased = {}
      BY <2>1, Finite, FS_EmptySet DEF Counted
    <3> QED BY <3>1 DEF Leased
  <2>3. \A d \in Enders : ~Inside(d)
    BY <2>1 DEF OneInside
  <2>4. model # "closing"
    BY <2>3 DEF OneInside, Inside
  <2>5. ender'[c].at = IF model = "open" THEN "closing" ELSE "leaving"
    BY <1>2, CloserPlaces
  <2>6. OneInside'
    BY <1>0, <2>1, <2>3, <2>4, <2>5 DEF OneInside, Inside
  <2> QED BY <1>0, <2>1, <2>2, <2>6 DEF ClosedOff, NoLeaseOfClosing, ShutIsClosed
<1>3. CASE EnderReturns(c)
  <2>1. Inside(c) /\ ender'[c].at = "returned"
    BY <1>3, CloserPlaces
  <2>2. \A d \in Enders \ {c} : ~Inside(d)
    BY <2>1 DEF OneInside
  <2>3. /\ ~ending'.shutting /\ ending'.closed = ending.closed
        /\ model' = IF ender[c].at = "closing" THEN "closed" ELSE model
    BY <1>0, <1>3 DEF EnderReturns
  <2>4. model' = "closed" /\ model # "open"
    BY <2>1, <2>3 DEF Inside, OneInside
  <2>5. OneInside'
    BY <1>0, <2>1, <2>2, <2>3, <2>4 DEF OneInside, Inside
  <2> QED BY <1>0, <2>3, <2>4, <2>5 DEF ClosedOff, NoLeaseOfClosing, ShutIsClosed
<1> QED BY <1>1, <1>2, <1>3 DEF EnderStep

------------------------------------------------------------------------------
(* Signals *)

\* A request that tries again, or parks, on a signal not yet closed read it
\* from an open director.
SignalsAreOpen ==
  \A r \in Lessees :
    lessee[r].at \in {"again", "parked"} /\ lessee[r].holds => ~ending.closed

\* What the request itself comes to in a step that does not end its lease.
Dozes(r) ==
  /\ lessee[r].at = "returned" => lessee'[r].at = "returned"
  /\ lessee'[r].at \in {"again", "parked"} /\ lessee'[r].holds => ~ending.closed
  /\ lessee'[r].at = "parked" /\ lessee'[r].holds =>
       \/ \A id \in admissions : lessee'[r].wants \notin {AnySlot, id}
       \/ lessee[r].at = "parked" /\ lessee[r].holds /\ lessee'[r].wants = lessee[r].wants
  /\ \A p \in Lessees \ {r} : lessee'[p] = lessee[p]
  /\ admissions' \subseteq admissions \/ lessee'[r].at = "returned"
  /\ users' >= users
  /\ UNCHANGED <<ender, ending>>

LEMMA RequestDozes ==
  ASSUME Shape, SignalsAreOpen, NEW r \in Lessees, AskSlot(r) \/ CancelSlot(r) \/ LesseeStep(r), ~EndLease(r)
  PROVE  Dozes(r)
<1>0. /\ lessee \in [Lessees -> RequestRecord] /\ lessee[r] \in RequestRecord
      /\ users \in Int /\ Fitting(r) \subseteq Slots
  BY DEF Shape, Fitting
<1>1. CASE AskSlot(r)
  <2>1. PICK wants \in Slots \cup {AnySlot}, at \in {"try", "ask"} :
          lessee' = [lessee EXCEPT ![r] = [NoLease EXCEPT !.at = at, !.wants = wants]]
    BY <1>1 DEF AskSlot
  <2>2. lessee'[r].at \in {"try", "ask"} /\ \A p \in Lessees \ {r} : lessee'[p] = lessee[p]
    BY <1>0, <2>1 DEF NoLease
  <2>3. lessee[r].at = "idle" /\ UNCHANGED <<admissions, users, ender, ending>>
    BY <1>1 DEF AskSlot
  <2> QED BY <1>0, <2>2, <2>3 DEF Dozes
<1>2. CASE CancelSlot(r)
  <2>1. /\ lessee'[r].at = lessee[r].at /\ lessee'[r].holds = lessee[r].holds
        /\ lessee'[r].wants = lessee[r].wants
        /\ \A p \in Lessees \ {r} : lessee'[p] = lessee[p]
    BY <1>0, <1>2 DEF CancelSlot, RequestRecord
  <2> QED BY <1>0, <1>2, <2>1 DEF CancelSlot, Dozes, SignalsAreOpen
<1>3. CASE (FirstTry(r) \/ TryAgain(r)) /\ ~Refused(r)
  <2>1. PICK id \in Fitting(r), at \in {"leased", "unwait"} :
          /\ admissions' = admissions \ {id} /\ users' = users + 1
          /\ lessee' = [lessee EXCEPT ![r].at = at, ![r].slot = id, ![r].holds = FALSE]
    BY <1>3 DEF FirstTry, TryAgain, Admit
  <2>2. OnlyMoves(r, lessee', at, id, FALSE)
    <3>1. at \in Places /\ id \in Slots
      <4>1. at \in Places
        BY <2>1, Zenon DEF Places
      <4>2. id \in admissions /\ admissions \subseteq Slots
        BY <1>0, <2>1 DEF Fitting, Shape
      <4> QED BY <4>1, <4>2
    <3>2. OnlyMoves(r, [lessee EXCEPT ![r].at = at, ![r].slot = id, ![r].holds = FALSE], at, id, FALSE)
      BY <1>0, <3>1, GoesWithSlot, Zenon
    <3> QED BY <2>1, <3>2, Zenon
  <2>3. /\ lessee'[r].at \in {"leased", "unwait"}
        /\ \A p \in Lessees \ {r} : lessee'[p] = lessee[p]
    BY <2>2 DEF OnlyMoves
  <2>4. lessee[r].at # "returned" /\ UNCHANGED <<ender, ending>>
    BY <1>3 DEF FirstTry, TryAgain
  <2>5. admissions' \subseteq admissions /\ users' >= users
    BY <1>0, <2>1
  <2> QED BY <2>3, <2>4, <2>5 DEF Dozes
<1>4. CASE (FirstTry(r) /\ Refused(r)) \/ Join(r) \/ Unwait(r) \/ ReturnSlot(r)
  <2>1. \E at \in {"join", "idle", "look", "leased", "returned"} :
          /\ at = "returned" <=> ReturnSlot(r)
          /\ \E slot, holds : OnlyMoves(r, lessee', at, slot, holds)
    <3>1. CASE FirstTry(r) /\ Refused(r)
      <4>1. \/ OnlyMoves(r, lessee', "join", lessee[r].slot, lessee[r].holds)
            \/ OnlyMoves(r, lessee', "idle", AnySlot, FALSE)
        BY <3>1, Goes, Ends DEF FirstTry, Places
      <4>2. ~ReturnSlot(r)
        BY <3>1 DEF FirstTry, ReturnSlot
      <4> QED BY <4>1, <4>2
    <3>2. CASE Join(r)
      <4>1. \/ OnlyMoves(r, lessee', "look", lessee[r].slot, lessee[r].holds)
            \/ OnlyMoves(r, lessee', "idle", AnySlot, FALSE)
        BY <3>2, Goes, Ends DEF Join, Places
      <4>2. ~ReturnSlot(r)
        BY <3>2 DEF Join, ReturnSlot
      <4> QED BY <4>1, <4>2
    <3>3. CASE Unwait(r)
      BY <3>3, Goes, Ends DEF Unwait, ReturnSlot, Places
    <3>4. CASE ReturnSlot(r)
      BY <3>4, Goes DEF ReturnSlot, Places
    <3> QED BY <1>4, <3>1, <3>2, <3>3, <3>4
  <2>2. /\ lessee'[r].at \in {"join", "idle", "look", "leased", "returned"}
        /\ lessee'[r].at = "returned" <=> ReturnSlot(r)
        /\ \A p \in Lessees \ {r} : lessee'[p] = lessee[p]
    BY <2>1 DEF OnlyMoves
  <2>3. /\ lessee[r].at # "returned" /\ UNCHANGED <<users, ender, ending>>
        /\ ReturnSlot(r) \/ admissions' = admissions
    BY <1>4 DEF FirstTry, Join, Unwait, ReturnSlot
  <2> QED BY <1>0, <2>2, <2>3 DEF Dozes
<1>5. CASE Look(r) \/ WakeLessee(r)
  <2>1. \E at \in {"leave", "again", "look"}, holds \in BOOLEAN :
          /\ OnlyMoves(r, lessee', at, lessee[r].slot, holds)
          /\ at = "again" => ~ending.closed
    <3>1. lessee[r].holds \in BOOLEAN
      BY <1>0 DEF RequestRecord
    <3>2. CASE Look(r)
      BY <3>1, <3>2, Goes, GoesHolding DEF Look, Places
    <3>3. CASE WakeLessee(r)
      BY <3>1, <3>3, Goes, GoesHolding DEF WakeLessee, Places
    <3> QED BY <1>5, <3>2, <3>3
  <2> QED BY <1>0, <1>5, <2>1 DEF Look, WakeLessee, Dozes, OnlyMoves
<1>6. CASE TryAgain(r) /\ Refused(r)
  <2>1. /\ lessee[r].at = "again" /\ lessee'[r].at = "parked"
        /\ lessee'[r].holds = lessee[r].holds /\ lessee'[r].wants = lessee[r].wants
        /\ \A p \in Lessees \ {r} : lessee'[p] = lessee[p]
        /\ UNCHANGED <<admissions, users, ender, ending>>
    BY <1>0, <1>6 DEF TryAgain, RequestRecord
  <2>2. lessee[r].holds => ~ending.closed /\ Fitting(r) = {}
    BY <1>6, <2>1 DEF SignalsAreOpen, Refused
  <2>3. Fitting(r) = {} => \A id \in admissions : lessee[r].wants \notin {AnySlot, id}
    BY DEF Fitting
  <2> QED BY <1>0, <2>1, <2>2, <2>3 DEF Dozes
<1> QED BY <1>1, <1>2, <1>3, <1>4, <1>5, <1>6 DEF LesseeStep

\* A release in two steps, or what it takes to sleep soundly: the request's
\* part and the Close's.
Releasing == \E s \in Lessees : lessee[s].at = "returned"

RequestSleeps(r) == lessee[r].at = "parked" /\ lessee[r].holds => Fitting(r) = {} /\ ~ending.closed
CloserSleeps(c) == ender[c].at = "parked" /\ ender[c].holds => EnderMustWait

LEMMA SleepParts ==
  NoSleepBesideSlot <=>
    \/ (\A r \in Lessees : RequestSleeps(r)) /\ (\A c \in Enders : CloserSleeps(c))
    \/ Releasing
  BY DEF NoSleepBesideSlot, RequestSleeps, CloserSleeps, Releasing

\* The end of a lease closes every signal; no other step of a request leaves a
\* sleeper beside what it waits for.
LEMMA RequestSleep ==
  ASSUME Shape, NoSleepBesideSlot, SignalsAreOpen,
         NEW r \in Lessees, AskSlot(r) \/ CancelSlot(r) \/ LesseeStep(r)
  PROVE  NoSleepBesideSlot' /\ SignalsAreOpen'
<1>1. CASE EndLease(r)
  <2>1. \A p \in Lessees : lessee'[p].holds = FALSE
    BY <1>1, Ends, NotifiedRequests DEF EndLease, OnlyMoves
  <2>2. \A c \in Enders : ender'[c].holds = FALSE
    BY <1>1, NotifiedClosers DEF EndLease, Shape
  <2> QED BY <2>1, <2>2 DEF NoSleepBesideSlot, SignalsAreOpen
<1>2. CASE ~EndLease(r)
  <2>1. Dozes(r)
    BY <1>2, RequestDozes
  <2>2. SignalsAreOpen'
    BY <2>1 DEF Dozes, SignalsAreOpen
  <2>3. Releasing => Releasing'
    BY <2>1 DEF Dozes, Releasing
  <2>4. lessee'[r].at = "returned" => Releasing'
    BY DEF Releasing
  <2>5. ASSUME \A p \in Lessees : RequestSleeps(p), \A c \in Enders : CloserSleeps(c),
               lessee'[r].at # "returned"
        PROVE  (\A p \in Lessees : RequestSleeps(p)') /\ (\A c \in Enders : CloserSleeps(c)')
    <3>1. admissions' \subseteq admissions
      BY <2>1, <2>5 DEF Dozes
    <3>2. ASSUME NEW p \in Lessees, p # r PROVE RequestSleeps(p)'
      BY <2>1, <2>5, <3>1, <3>2 DEF Dozes, RequestSleeps, Fitting
    <3>3. RequestSleeps(r)'
      <4>1. \A id \in admissions : id \in Fitting(r) <=> lessee[r].wants \in {AnySlot, id}
        BY DEF Fitting
      <4>2. ASSUME lessee'[r].at = "parked", lessee'[r].holds
            PROVE  ~ending.closed /\ \A id \in admissions : lessee'[r].wants \notin {AnySlot, id}
        BY <2>1, <2>5, <4>1, <4>2 DEF Dozes, RequestSleeps
      <4> QED BY <2>1, <3>1, <4>2 DEF Dozes, RequestSleeps, Fitting
    <3>4. ASSUME NEW c \in Enders PROVE CloserSleeps(c)'
      <4>1. users \in Int /\ users' \in Int
        BY RequestKinds DEF Shape, Kind, Plain, Takes, Joins, Leaves, Returns, Finishes
      <4>2. EnderMustWait => EnderMustWait'
        BY <2>1, <4>1 DEF Dozes, EnderMustWait
      <4> QED BY <2>1, <2>5, <4>2 DEF Dozes, CloserSleeps
    <3> QED BY <3>2, <3>3, <3>4
  <2>6. NoSleepBesideSlot'
    BY <2>3, <2>4, <2>5, SleepParts DEF NoSleepBesideSlot, RequestSleeps, CloserSleeps, Releasing
  <2> QED BY <2>2, <2>6
<1> QED BY <1>1, <1>2

\* A Close that changes the director closes every signal, and one that parks
\* has something to wait for.
LEMMA CloserSleep ==
  ASSUME Shape, NoSleepBesideSlot, SignalsAreOpen,
         NEW c \in Enders, EnderCancelled(c) \/ EnderStep(c)
  PROVE  NoSleepBesideSlot' /\ SignalsAreOpen'
<1>0. /\ lessee \in [Lessees -> RequestRecord] /\ ender \in [Enders -> CloserRecord]
      /\ ending \in [closed : BOOLEAN, shutting : BOOLEAN, shut : BOOLEAN]
      /\ UNCHANGED <<admissions, users>>
  BY CloserSteps DEF Shape, Bystanding
<1>1. CASE EnderCancelled(c) \/ EnderFollows(c)
  <2>1. UNCHANGED <<lessee, ending>>
    BY <1>1 DEF EnderCancelled, EnderFollows
  <2>2. ender'[c].at \in {"idle", "returned"} /\ \A d \in Enders \ {c} : ender'[d] = ender[d]
    BY <1>0, <1>1 DEF EnderCancelled, EnderFollows
  <2>3. SignalsAreOpen'
    BY <2>1 DEF SignalsAreOpen
  <2>4. NoSleepBesideSlot'
    BY <1>0, <2>1, <2>2 DEF NoSleepBesideSlot, Fitting, EnderMustWait
  <2> QED BY <2>3, <2>4
<1>2. CASE EnderWaits(c) /\ ending.closed
  <2>1. /\ UNCHANGED lessee /\ ending'.shutting = ending.shutting /\ EnderMustWait
        /\ \A d \in Enders \ {c} : ender'[d] = ender[d]
    BY <1>0, <1>2 DEF EnderWaits
  <2>2. EnderMustWait'
    BY <1>0, <2>1 DEF EnderMustWait
  <2>3. \A p \in Lessees : lessee[p].at \in {"again", "parked"} => ~lessee[p].holds
    BY <1>2 DEF SignalsAreOpen
  <2> QED BY <2>1, <2>2, <2>3 DEF NoSleepBesideSlot, SignalsAreOpen
<1>3. CASE EnderWaits(c) /\ ~ending.closed
  <2>1. /\ lessee' = LeaseNotified(lessee) /\ ending'.shutting = ending.shutting /\ EnderMustWait
    BY <1>0, <1>3 DEF EnderWaits
  <2>2. EnderMustWait'
    BY <1>0, <2>1 DEF EnderMustWait
  <2>3. \A p \in Lessees : lessee'[p].holds = FALSE
    BY <1>0, <2>1, NotifiedRequests
  <2> QED BY <2>2, <2>3 DEF NoSleepBesideSlot, SignalsAreOpen
<1>4. CASE EnderTakes(c) \/ EnderReturns(c)
  <2>1. lessee' = LeaseNotified(lessee)
    BY <1>4 DEF EnderTakes, EnderReturns
  <2>2. \A p \in Lessees : lessee'[p].holds = FALSE
    BY <1>0, <2>1, NotifiedRequests
  <2>3. \A d \in Enders : ender'[d].holds = FALSE
    <3>1. \E at : ender' = [LeaseNotified(ender) EXCEPT ![c] = [at |-> at, holds |-> FALSE]]
      BY <1>4 DEF EnderTakes, EnderReturns
    <3>2. /\ LeaseNotified(ender) \in [Enders -> CloserRecord]
          /\ \A d \in Enders : LeaseNotified(ender)[d].holds = FALSE
      BY <1>0, NotifiedClosers
    <3>3. PICK at : ender' = [LeaseNotified(ender) EXCEPT ![c] = [at |-> at, holds |-> FALSE]]
      BY <3>1
    <3>4. ender'[c].holds = FALSE /\ \A d \in Enders \ {c} : ender'[d] = LeaseNotified(ender)[d]
      BY <3>2, <3>3
    <3> QED BY <3>2, <3>4
  <2> QED BY <2>2, <2>3 DEF NoSleepBesideSlot, SignalsAreOpen
<1> QED BY <1>1, <1>2, <1>3, <1>4 DEF EnderStep

------------------------------------------------------------------------------
(* The invariant *)

Inv ==
  /\ Shape
  /\ SlotsAreOut /\ SlotsAreKept
  /\ Counted
  /\ OneInside /\ ClosedOff /\ ShutIsClosed
  /\ NoSleepBesideSlot /\ SignalsAreOpen

\* Every slot is in the channel, nobody asks, and the director is open.
LEMMA InvInit == ResidentsInit => Inv
<1> SUFFICES ASSUME ResidentsInit PROVE Inv
  OBVIOUS
<1>0. \A r \in Lessees : lessee[r] = NoLease
  BY DEF ResidentsInit
<1>1. Shape
  <2>1. 0 \in 0 .. MaxLeases
    BY ResidentsAssumption
  <2> QED BY <2>1, IdleType DEF ResidentsInit, Shape, CloserRecord
<1>2. \A r \in Lessees : ~HasLease(r) /\ ~HasSlot(r) /\ ~InWait(r)
  BY <1>0 DEF NoLease, HasLease, HasSlot, InWait
<1>3. SlotsAreOut /\ SlotsAreKept
  BY <1>2 DEF ResidentsInit, SlotsAreOut, SlotsAreKept
<1>4. Counted
  <2>1. Leased = {} /\ Waits = {}
    BY <1>2 DEF Leased, Waits
  <2> QED BY <2>1, FS_EmptySet, ResidentsAssumption DEF ResidentsInit, Counted
<1>5. OneInside /\ ClosedOff /\ ShutIsClosed
  BY <1>2 DEF ResidentsInit, OneInside, Inside, ClosedOff, NoLeaseOfClosing, ShutIsClosed
<1>6. NoSleepBesideSlot /\ SignalsAreOpen
  BY <1>0 DEF ResidentsInit, NoLease, NoSleepBesideSlot, SignalsAreOpen
<1> QED BY <1>1, <1>3, <1>4, <1>5, <1>6 DEF Inv

\* Every step keeps the invariant.
LEMMA InvStep == Inv /\ [ResidentsNext]_residentVars => Inv'
<1> SUFFICES ASSUME Inv, [ResidentsNext]_residentVars PROVE Inv'
  OBVIOUS
<1>1. ASSUME NEW r \in Lessees, AskSlot(r) \/ CancelSlot(r) \/ LesseeStep(r) PROVE Inv'
  BY <1>1, RequestKinds, RequestShape, RequestSlots, RequestCounts, RequestShutdown, RequestSleep
  DEF Inv
<1>2. ASSUME NEW c \in Enders, EnderCancelled(c) \/ EnderStep(c) PROVE Inv'
  BY <1>2, CloserSteps, BystandingSlots, BystandingCounts, CloserShutdown, CloserSleep
  DEF Inv
<1>3. CASE UNCHANGED residentVars
  BY <1>3
  DEF residentVars, Inv, Shape, SlotsAreOut, SlotsAreKept, Counted, Leased, Waits, InWait, OneInside, Inside,
      ClosedOff, NoLeaseOfClosing, ShutIsClosed, NoSleepBesideSlot, SignalsAreOpen, HasLease,
      HasSlot, Fitting, EnderMustWait
<1> QED BY <1>1, <1>2, <1>3 DEF ResidentsNext

\* The invariant holds of every reachable state.
LEMMA Invariant == ResidentsSpec => []Inv
  BY InvInit, InvStep, PTL DEF ResidentsSpec

\* Every variable keeps its shape, and the two counters their bounds: no more
\* users than requests, no more waiters than slots.
THEOREM TypeCorrect == ResidentsSpec => []ResidentsTypeOK
<1>1. Inv => ResidentsTypeOK
  BY Finite, ResidentsAssumption
  DEF Inv, Shape, Counted, ResidentsTypeOK, RequestRecord, CloserRecord
<1> QED BY <1>1, Invariant, PTL

\* No slot of the director's is lost or had twice, whatever order requests for
\* particular slots, releases and shutdowns come in.
THEOREM SlotsKept == ResidentsSpec => []SlotsAreKept
<1>1. Inv => SlotsAreKept
  BY DEF Inv
<1> QED BY <1>1, Invariant, PTL

\* The resident model is never closed under a lease nor leased while it closes,
\* because residentUsers counts the leases that Close waits for.
THEOREM ClosingUnleased == ResidentsSpec => []NoLeaseOfClosing
<1>1. Inv => NoLeaseOfClosing
  BY DEF Inv, ClosedOff
<1> QED BY <1>1, Invariant, PTL

\* Nobody sleeps beside a slot it could take or a shutdown it should heed:
\* Lease reads the signal before it tries again.
THEOREM NoLostSignal == ResidentsSpec => []NoSleepBesideSlot
<1>1. Inv => NoSleepBesideSlot
  BY DEF Inv
<1> QED BY <1>1, Invariant, PTL

\* The director is shut only once its model's Close has returned, however many
\* Close calls there are.
THEOREM ShutClosed == ResidentsSpec => []ShutIsClosed
<1>1. Inv => ShutIsClosed
  BY DEF Inv
<1> QED BY <1>1, Invariant, PTL

------------------------------------------------------------------------------
(* Supervisor *)

Stations == {"away", "called", "asleep", "woken", "launching", "leased", "done"}

\* The types, without the comparison of the two counters.
Types ==
  /\ current \in Arrivals \cup {NoChild} /\ serving \in Models \cup {NoModel}
  /\ closed \in BOOLEAN
  /\ running \subseteq Arrivals /\ left \subseteq running
  /\ armed \subseteq Arrivals /\ open \subseteq Arrivals
  /\ refs \in [Arrivals -> Nat] /\ held \in [Arrivals -> Nat] /\ firing \in [Arrivals -> Nat]
  /\ pc \in [Arrivals -> Stations]
  /\ want \in [Arrivals -> Models \cup {NoModel}]
  /\ owner \in [Arrivals -> Arrivals \cup {NoChild}]
  /\ grace \in [Arrivals -> {"unset", "running", "over", "told"}]
  /\ context \in [Arrivals -> {"live", "done", "told"}]

\* The counters of the child that runs count its leases, those of any other nothing.
Tallied ==
  /\ current # NoChild => /\ refs[current] = Cardinality(Leases(current))
                          /\ held[current] = Cardinality(Leases(current) \cap open)
  /\ \A c \in Arrivals : c # current => refs[c] = 0 /\ held[c] = 0

\* A request that has not launched has no child that runs, was left behind or is leased.
Launched(c) == pc[c] \in {"leased", "done"}
ChildrenLaunched ==
  /\ current # NoChild => Launched(current)
  /\ \A c \in left : Launched(c)
  /\ \A r \in Arrivals : owner[r] # NoChild => Launched(owner[r])

\* Only a lease has a child or is held open.
LeasesOnly ==
  \A r \in Arrivals :
    /\ pc[r] # "leased" => owner[r] = NoChild /\ r \notin open
    /\ pc[r] = "leased" => owner[r] # NoChild

\* A request sleeps for a child only that has requests to wait for.
SleepersWait ==
  \A r \in Arrivals : pc[r] = "asleep" /\ current # NoChild => held[current] < refs[current]

SwapInv == Types /\ Tallied /\ ChildrenLaunched /\ LeasesOnly /\ SleepersWait /\ OneChild

------------------------------------------------------------------------------
(* What the counters say *)

\* Leases are requests, hence finitely many.
LEMMA LeasesFinite ==
  \A c : IsFiniteSet(Leases(c)) /\ IsFiniteSet(Leases(c) \cap open)
<1> TAKE c
<1>1. Leases(c) \in SUBSET Arrivals
  BY DEF Leases
<1>2. IsFiniteSet(Leases(c))
  BY <1>1, SupervisorAssumption, FS_Subset
<1> QED BY <1>2, FS_Intersection

\* No child counts more subscriptions than leases.
LEMMA HeldAreLeased ==
  ASSUME Types, Tallied
  PROVE  \A c \in Arrivals : held[c] <= refs[c]
<1> SUFFICES ASSUME NEW c \in Arrivals PROVE held[c] <= refs[c]
  OBVIOUS
<1>1. CASE c = current
  <2>1. Cardinality(Leases(c) \cap open) <= Cardinality(Leases(c))
    BY LeasesFinite, FS_Intersection
  <2> QED BY <1>1, <2>1, SupervisorAssumption DEF Tallied
<1>2. CASE c # current
  BY <1>2 DEF Tallied
<1> QED BY <1>1, <1>2

\* What a swap waits for is what is in flight.
LEMMA DrainingInFlight ==
  ASSUME Types, Tallied, current # NoChild
  PROVE  /\ Draining(current) = Cardinality(InFlight(current))
         /\ Draining(current) > 0 <=> InFlight(current) # {}
<1>1. /\ IsFiniteSet(InFlight(current))
      /\ Cardinality(InFlight(current)) = Cardinality(Leases(current)) - Cardinality(Leases(current) \cap open)
  BY LeasesFinite, FS_Difference DEF InFlight
<1>2. Draining(current) = Cardinality(InFlight(current))
  BY <1>1 DEF Draining, Tallied
<1>3. Cardinality(InFlight(current)) \in Nat
  BY <1>1, FS_CardinalityType
<1>4. Cardinality(InFlight(current)) = 0 <=> InFlight(current) = {}
  BY <1>1, FS_EmptySet
<1> QED BY <1>2, <1>3, <1>4

LEMMA SwapInvGives == SwapInv => RefsAreLeases /\ OneChild /\ DrainWakes
<1> SUFFICES ASSUME SwapInv PROVE RefsAreLeases /\ OneChild /\ DrainWakes
  OBVIOUS
<1>1. SupervisorTypeOK
  BY HeldAreLeased DEF SwapInv, Types, SupervisorTypeOK, Stations
<1>2. RefsAreLeases
  BY <1>1 DEF RefsAreLeases, SwapInv, Tallied
<1>3. ASSUME NEW r \in Arrivals, pc[r] = "asleep", current # NoChild PROVE InFlight(current) # {}
  <2>1. held[current] < refs[current] /\ held[current] \in Nat /\ refs[current] \in Nat
    BY <1>3 DEF SwapInv, SleepersWait, Types
  <2> QED BY <1>3, <2>1, DrainingInFlight DEF SwapInv, Draining
<1> QED BY <1>2, <1>3 DEF DrainWakes, SwapInv

------------------------------------------------------------------------------
(* Steps *)

LEMMA WokenType ==
  ASSUME NEW f \in [Arrivals -> Stations]
  PROVE  /\ Woken(f) \in [Arrivals -> Stations]
         /\ \A r \in Arrivals : /\ Woken(f)[r] # "asleep"
                                /\ \A p \in {"called", "launching", "leased", "done"} :
                                     Woken(f)[r] = p <=> f[r] = p
BY DEF Woken, Stations

LEMMA ShapeInit == Init => Types
<1> SUFFICES ASSUME Init PROVE Types
  OBVIOUS
<1>1. /\ refs \in [Arrivals -> Nat] /\ held \in [Arrivals -> Nat] /\ firing \in [Arrivals -> Nat]
      /\ want \in [Arrivals -> Models \cup {NoModel}]
      /\ owner \in [Arrivals -> Arrivals \cup {NoChild}]
  BY DEF Init
<1>2. /\ pc \in [Arrivals -> Stations]
      /\ grace \in [Arrivals -> {"unset", "running", "over", "told"}]
      /\ context \in [Arrivals -> {"live", "done", "told"}]
  BY DEF Init, Stations
<1> QED BY <1>1, <1>2 DEF Init, Types

\* A release finds its lease counted.
LEMMA ReleasedCounted ==
  ASSUME Types, Tallied, NEW r \in Arrivals, pc[r] = "leased", owner[r] = current
  PROVE  current # NoChild => /\ refs[current] > 0
                              /\ r \in open => held[current] > 0
<1> SUFFICES ASSUME current # NoChild PROVE refs[current] > 0 /\ (r \in open => held[current] > 0)
  OBVIOUS
<1>1. r \in Leases(current)
  BY DEF Leases
<1>2. refs[current] \in Nat /\ held[current] \in Nat
  BY DEF Types
<1>3. Cardinality(Leases(current)) # 0
  BY <1>1, LeasesFinite, FS_EmptySet
<1>4. r \in open => Cardinality(Leases(current) \cap open) # 0
  BY <1>1, LeasesFinite, FS_EmptySet
<1> QED BY <1>2, <1>3, <1>4 DEF Tallied

LEMMA ShapeStep == SwapInv /\ [Next]_swapVars => Types'
<1> SUFFICES ASSUME SwapInv, [Next]_swapVars PROVE Types'
  OBVIOUS
<1> USE DEF SwapInv, Stations
<1>1. ASSUME NEW r \in Arrivals, Route(r) PROVE Types'
  <2>1. PICK m \in Models \cup {IF current = NoChild THEN Default ELSE serving} :
          /\ want' = [want EXCEPT ![r] = m]
          /\ pc' = [pc EXCEPT ![r] = IF m = NoModel THEN "done" ELSE "called"]
    BY <1>1 DEF Route
  <2>2. m \in Models \cup {NoModel}
    BY <2>1, SupervisorAssumption DEF Types
  <2>3. want' \in [Arrivals -> Models \cup {NoModel}]
    BY <2>1, <2>2 DEF Types
  <2>4. pc' \in [Arrivals -> Stations]
    BY <2>1 DEF Types
  <2> QED BY <1>1, <2>3, <2>4 DEF Route, Types, childVars
<1>2. ASSUME NEW r \in Arrivals, HangUp(r) \/ Sleep(r) \/ GraceEnds(r) PROVE Types'
  BY <1>2 DEF HangUp, Sleep, GraceEnds, Types, childVars
<1>3. ASSUME NEW r \in Arrivals, GraceTells(r) \/ ContextTells(r) PROVE Types'
  BY <1>3, WokenType DEF GraceTells, ContextTells, Types, childVars
<1>4. ASSUME NEW r \in Arrivals, NEW to \in {"leased", "done"}, Answer(r, to)
      PROVE  /\ pc' \in [Arrivals -> Stations]
             /\ want' \in [Arrivals -> Models \cup {NoModel}]
             /\ grace' \in [Arrivals -> {"unset", "running", "over", "told"}]
             /\ context' \in [Arrivals -> {"live", "done", "told"}]
  BY <1>4 DEF Answer, Types
<1>5. ASSUME NEW r \in Arrivals, TurnedAway(r) PROVE Types'
  BY <1>4, <1>5 DEF TurnedAway, Types, childVars
<1>0. \A x \in Arrivals : refs[x] + 1 \in Nat /\ held[x] + 1 \in Nat
  BY DEF Types
<1>6. ASSUME NEW r \in Arrivals, Ride(r) PROVE Types'
  <2>1. refs' \in [Arrivals -> Nat]
    BY <1>6, <1>0 DEF Ride, Types
  <2>2. owner' \in [Arrivals -> Arrivals \cup {NoChild}]
    BY <1>6 DEF Ride, Types
  <2>3. armed' \subseteq Arrivals
    BY <1>6 DEF Ride, Types
  <2> QED BY <1>4, <1>6, <2>1, <2>2, <2>3 DEF Ride, Types
<1>7. ASSUME NEW r \in Arrivals, Launch(r) PROVE Types'
  <2>1. want[r] \in Models \cup {NoModel}
    BY DEF Types
  <2>2. refs' \in [Arrivals -> Nat]
    BY <1>7 DEF Launch, Types
  <2>3. owner' \in [Arrivals -> Arrivals \cup {NoChild}]
    BY <1>7 DEF Launch, Types
  <2> QED BY <1>4, <1>7, <2>1, <2>2, <2>3 DEF Launch, Types
<1>8. ASSUME Drop
      PROVE  /\ current' \in Arrivals \cup {NoChild} /\ serving' \in Models \cup {NoModel}
             /\ armed' \subseteq Arrivals
             /\ refs' \in [Arrivals -> Nat] /\ held' \in [Arrivals -> Nat]
  BY <1>8 DEF Drop, Types
<1>19. current # NoChild => current \in running /\ current \notin left
  BY DEF OneChild
<1>20. \A r \in Launching : current = NoChild /\ r \in running /\ r \notin left
  BY DEF OneChild, MuFree
<1>21. NoChild \notin running
  BY SupervisorAssumption DEF Types
<1>17. ASSUME NEW c \in Launching \cup {current}, Stop(c)
       PROVE  running' \subseteq Arrivals /\ left' \subseteq running'
  BY <1>17, <1>19, <1>20, <1>21 DEF Stop, Types
<1>18. ASSUME NEW r \in Arrivals, BeginLaunch(r) PROVE Types'
  <2>1. pc' \in [Arrivals -> Stations]
    BY <1>18 DEF BeginLaunch, Types
  <2>2. running' \subseteq Arrivals /\ left' \subseteq running'
    BY <1>18, <1>19, <1>21, SupervisorAssumption DEF BeginLaunch, Types
  <2> QED BY <1>8, <1>18, <2>1, <2>2 DEF BeginLaunch, Types
<1>9. ASSUME NEW r \in Arrivals, LaunchFails(r) PROVE Types'
  <2>1. r \in Launching /\ current = NoChild
    BY <1>9 DEF LaunchFails, Launching, OneChild, MuFree
  <2>2. running' \subseteq Arrivals /\ left' \subseteq running'
    BY <1>9, <1>17, <2>1 DEF LaunchFails
  <2> QED BY <1>4, <1>9, <2>2 DEF LaunchFails, Types
<1>10. ASSUME NEW r \in Arrivals, HoldOpen(r) PROVE Types'
  <2>1. pc' \in [Arrivals -> Stations]
    BY <1>10, WokenType DEF HoldOpen, Types
  <2>2. held' \in [Arrivals -> Nat]
    BY <1>10, <1>0 DEF HoldOpen, Types
  <2> QED BY <1>10, <2>1, <2>2 DEF HoldOpen, Types
<1>11. ASSUME NEW r \in Arrivals, Release(r) PROVE Types'
  <2>1. current \in Arrivals
    BY <1>11 DEF Release, LeasesOnly, Types
  <2>2. refs[current] > 0 /\ (r \in open => held[current] > 0)
    BY <1>11, <2>1, ReleasedCounted, SupervisorAssumption DEF Release
  <2>3. refs' \in [Arrivals -> Nat] /\ held' \in [Arrivals -> Nat]
    BY <1>11, <2>1, <2>2 DEF Release, Types
  <2>4. pc' \in [Arrivals -> Stations]
    BY <1>11, WokenType DEF Release, Types
  <2>5. armed' \subseteq Arrivals
    BY <1>11, <2>1 DEF Release, Types
  <2> QED BY <1>11, <2>3, <2>4, <2>5 DEF Release, Types
<1>12. ASSUME NEW r \in Arrivals, ReleaseSevered(r) PROVE Types'
  BY <1>12 DEF ReleaseSevered, Types, childVars
<1>13. ASSUME NEW c \in Arrivals, IdleFires(c) PROVE Types'
  BY <1>13 DEF IdleFires, Types, requestVars
<1>14. ASSUME NEW c \in Arrivals, StopIfIdle(c) PROVE Types'
  <2>1. firing' \in [Arrivals -> Nat]
    BY <1>14 DEF StopIfIdle, Types
  <2>2. CASE current = c /\ refs[c] = 0
    <3>1. running' \subseteq Arrivals /\ left' \subseteq running'
      BY <1>14, <1>17, <2>2 DEF StopIfIdle, StopCurrent
    <3> QED BY <1>8, <1>14, <2>1, <2>2, <3>1 DEF StopIfIdle, StopCurrent, Types, requestVars
  <2>3. CASE ~(current = c /\ refs[c] = 0)
    BY <1>14, <2>1, <2>3 DEF StopIfIdle, Types, requestVars
  <2> QED BY <2>2, <2>3
<1>15. ASSUME Close PROVE Types'
  <2>1. running' \subseteq Arrivals /\ left' \subseteq running'
    BY <1>15, <1>17 DEF Close, StopCurrent, Types
  <2> QED BY <1>8, <1>15, <2>1, WokenType DEF Close, StopCurrent, Types
<1>16. CASE UNCHANGED swapVars
  BY <1>16 DEF swapVars, childVars, requestVars, Types
<1> QED
  BY <1>1, <1>2, <1>3, <1>5, <1>6, <1>7, <1>9, <1>10, <1>11, <1>12, <1>13, <1>14, <1>15, <1>16, <1>18 DEF Next

\* The invariant but for the types.
Rest == Tallied /\ ChildrenLaunched /\ LeasesOnly /\ SleepersWait /\ OneChild

\* A step that leaves the child, its counters and the leases alone.
LEMMA QuietStep ==
  ASSUME SwapInv, Types',
         UNCHANGED <<current, running, left, refs, held, closed, owner, open>>,
         \A r \in Arrivals : pc'[r] = "leased" <=> pc[r] = "leased",
         \A r \in Arrivals : pc'[r] = "launching" <=> pc[r] = "launching",
         \A r \in Arrivals : pc[r] = "done" => pc'[r] = "done",
         \A r \in Arrivals : pc'[r] = "asleep" /\ pc[r] # "asleep" /\ current # NoChild =>
                               held[current] < refs[current]
  PROVE  Rest'
<1> USE DEF SwapInv, Rest
<1>1. \A c : Leases(c)' = Leases(c)
  BY DEF Leases
<1>2. Tallied'
  BY <1>1 DEF Tallied
<1>3. ChildrenLaunched'
  BY DEF ChildrenLaunched, Launched, Types
<1>4. LeasesOnly'
  BY DEF LeasesOnly
<1>5. SleepersWait'
  BY DEF SleepersWait
<1>6. OneChild'
  <2>1. Launching' = Launching
    BY DEF Launching
  <2> QED BY <2>1 DEF OneChild, MuFree
<1> QED BY <1>2, <1>3, <1>4, <1>5, <1>6

\* A step that stops the child and starts none.
LEMMA StopStep ==
  ASSUME SwapInv, Types', MuFree, StopCurrent, UNCHANGED <<owner, open>>, closed => closed',
         \A r \in Arrivals : pc'[r] = "leased" <=> pc[r] = "leased",
         \A r \in Arrivals : pc'[r] = "launching" <=> pc[r] = "launching",
         \A r \in Arrivals : pc[r] = "done" => pc'[r] = "done"
  PROVE  Rest'
<1> USE DEF SwapInv, Rest, StopCurrent, Drop
<1>1. Tallied'
  BY DEF Tallied, Types
<1>2. ChildrenLaunched'
  <2>1. left' = left \/ (current \in Arrivals /\ left' = left \cup {current})
    BY DEF Stop, Types
  <2>2. \A c \in left' : Launched(c)
    BY <2>1, SupervisorAssumption DEF ChildrenLaunched
  <2> QED BY <2>2, SupervisorAssumption DEF ChildrenLaunched, Launched, Types
<1>3. LeasesOnly'
  BY DEF LeasesOnly
<1>4. SleepersWait'
  BY DEF SleepersWait
<1>5. OneChild'
  <2>1. Launching = {} /\ Launching' = {} /\ current' = NoChild
    BY DEF Launching, MuFree
  <2>2. running' = left'
    <3>1. current = NoChild => running = left /\ current \notin running
      BY <2>1, SupervisorAssumption DEF OneChild, Types
    <3>2. current # NoChild => running \ left = {current}
      BY DEF OneChild
    <3> QED BY <3>1, <3>2 DEF Stop, Types
  <2> QED BY <2>1, <2>2 DEF OneChild
<1> QED BY <1>1, <1>2, <1>3, <1>4, <1>5

\* A request rides on the child that runs.
LEMMA RideStep ==
  ASSUME SwapInv, Types', NEW r \in Arrivals, Ride(r)
  PROVE  Rest'
<1> USE DEF SwapInv, Rest
<1>1. /\ current \in Arrivals /\ current' = current
      /\ pc[r] # "leased" /\ pc[r] # "done" /\ owner[r] = NoChild /\ r \notin open /\ open' = open
  BY DEF Ride, Admitted, Holding, Serves, LeasesOnly, Types, Answer
<1>2. refs' = [refs EXCEPT ![current] = @ + 1] /\ held' = held /\ owner' = [owner EXCEPT ![r] = current]
  BY DEF Ride
<1>3. pc' = [pc EXCEPT ![r] = "leased"]
  BY DEF Ride, Answer
<1>4. /\ Leases(current)' = Leases(current) \cup {r}
      /\ (Leases(current) \cap open)' = Leases(current) \cap open
      /\ r \notin Leases(current)
  BY <1>1, <1>2, <1>3 DEF Leases, Types
<1>5. Tallied'
  <2>1. Cardinality(Leases(current) \cup {r}) = Cardinality(Leases(current)) + 1
    BY <1>4, LeasesFinite, FS_AddElement
  <2> QED BY <1>1, <1>2, <1>4, <2>1 DEF Tallied, Types
<1>6. ChildrenLaunched'
  <2>1. left' = left /\ left \subseteq Arrivals
    BY DEF Ride, Types
  <2> QED BY <1>1, <1>2, <1>3, <2>1, SupervisorAssumption DEF ChildrenLaunched, Launched, Types
<1>7. LeasesOnly'
  BY <1>1, <1>2, <1>3, SupervisorAssumption DEF LeasesOnly, Types
<1>8. SleepersWait'
  <2>1. held[current] \in Nat /\ refs[current] \in Nat /\ refs'[current] = refs[current] + 1
    BY <1>1, <1>2 DEF Types
  <2> QED BY <1>1, <1>2, <1>3, <2>1 DEF SleepersWait, Types
<1>9. OneChild'
  <2>1. Launching = {} /\ UNCHANGED <<running, left, closed>>
    BY DEF Ride, Admitted, Holding, MuFree
  <2>2. Launching' = {}
    BY <1>3, <2>1 DEF Launching, Types
  <2> QED BY <1>1, <2>1, <2>2 DEF OneChild, MuFree
<1> QED BY <1>5, <1>6, <1>7, <1>8, <1>9

\* A request stops the child that runs, if any does, and launches its own.
LEMMA BeginLaunchStep ==
  ASSUME SwapInv, Types', NEW r \in Arrivals, BeginLaunch(r)
  PROVE  Rest'
<1> USE DEF SwapInv, Rest
<1>1. /\ pc[r] \in {"called", "woken"} /\ MuFree /\ ~closed /\ pc' = [pc EXCEPT ![r] = "launching"]
      /\ current' = NoChild /\ UNCHANGED <<closed, owner, open>>
  BY DEF BeginLaunch, Admitted, Holding, Drop
<1>2. r \notin left /\ r # current /\ r # NoChild
  BY <1>1, SupervisorAssumption DEF ChildrenLaunched, Launched
<1>3. Tallied'
  BY <1>1 DEF Tallied, BeginLaunch, Drop, Types
<1>4. left' = left \/ (current \in Arrivals /\ left' = left \cup {current})
  BY SupervisorAssumption DEF BeginLaunch, Types
<1>5. ChildrenLaunched'
  BY <1>1, <1>4, SupervisorAssumption DEF ChildrenLaunched, Launched, Types
<1>6. LeasesOnly'
  BY <1>1 DEF LeasesOnly, Types
<1>7. SleepersWait'
  BY <1>1 DEF SleepersWait
<1>8. OneChild'
  <2>1. Launching' = {r}
    BY <1>1 DEF Launching, MuFree, Types
  <2>2. running \ left = IF current = NoChild THEN {} ELSE {current}
    BY <1>1 DEF OneChild, MuFree
  <2>3. CASE running' = (running \ {current}) \cup {r} /\ left' = left
    <3>1. running' \ left' = {r}
      BY <1>2, <2>2, <2>3
    <3> QED BY <1>1, <2>1, <3>1 DEF OneChild
  <2>4. CASE current # NoChild /\ running' = running \cup {r} /\ left' = left \cup {current}
    <3>1. running' \ left' = {r}
      BY <1>2, <2>2, <2>4
    <3> QED BY <1>1, <2>1, <3>1 DEF OneChild
  <2> QED BY <2>3, <2>4, SupervisorAssumption DEF BeginLaunch
<1> QED BY <1>3, <1>5, <1>6, <1>7, <1>8

\* Its child is ready, and leased by it.
LEMMA LaunchStep ==
  ASSUME SwapInv, Types', NEW r \in Arrivals, Launch(r)
  PROVE  Rest'
<1> USE DEF SwapInv, Rest
<1>1. /\ pc[r] = "launching" /\ pc' = [pc EXCEPT ![r] = "leased"]
      /\ owner[r] = NoChild /\ r \notin open /\ open' = open
      /\ current = NoChild /\ r # NoChild /\ current' = r
      /\ UNCHANGED <<closed, running, left>>
  BY SupervisorAssumption DEF Launch, Answer, LeasesOnly, OneChild, MuFree, Launching
<1>2. /\ refs' = [refs EXCEPT ![r] = 1] /\ held' = held
      /\ owner' = [owner EXCEPT ![r] = r]
  BY DEF Launch
<1>3. \A x \in Arrivals : owner[x] # r
  BY <1>1 DEF ChildrenLaunched, Launched
<1>4. Leases(r)' = {r} /\ (Leases(r) \cap open)' = {}
  BY <1>1, <1>2, <1>3 DEF Leases, Types
<1>5. refs'[r] = 1 /\ held'[r] = 0
  BY <1>1, <1>2 DEF Tallied, Types
<1>6. Tallied'
  <2>1. \A c \in Arrivals : c # r => refs'[c] = 0 /\ held'[c] = 0
    BY <1>1, <1>2, SupervisorAssumption DEF Tallied, Types
  <2> QED BY <1>1, <1>4, <1>5, <2>1, FS_Singleton, FS_EmptySet DEF Tallied
<1>7. ChildrenLaunched'
  BY <1>1, <1>2 DEF ChildrenLaunched, Launched, Types
<1>8. LeasesOnly'
  BY <1>1, <1>2 DEF LeasesOnly, Types
<1>9. SleepersWait'
  BY <1>1, <1>5 DEF SleepersWait
<1>10. OneChild'
  <2>1. Launching = {r}
    BY <1>1 DEF OneChild, Launching
  <2>2. Launching' = {}
    BY <1>1, <2>1 DEF Launching, Types
  <2> QED BY <1>1, <2>1, <2>2 DEF OneChild, MuFree
<1> QED BY <1>6, <1>7, <1>8, <1>9, <1>10

\* Or it is not, and stopped.
LEMMA LaunchFailsStep ==
  ASSUME SwapInv, Types', NEW r \in Arrivals, LaunchFails(r)
  PROVE  Rest'
<1> USE DEF SwapInv, Rest
<1>1. /\ pc[r] = "launching" /\ pc' = [pc EXCEPT ![r] = "done"] /\ Stop(r)
      /\ current = NoChild /\ UNCHANGED <<current, closed, refs, held, owner, open>>
  BY DEF LaunchFails, Answer, OneChild, MuFree, Launching
<1>2. Leases(current)' = Leases(current) /\ owner[r] = NoChild
  BY <1>1 DEF Leases, LeasesOnly, Types
<1>3. Tallied'
  BY <1>1 DEF Tallied
<1>4. ChildrenLaunched'
  <2>1. left' = left \/ left' = left \cup {r}
    BY <1>1 DEF Stop
  <2> QED BY <1>1, <2>1 DEF ChildrenLaunched, Launched, Types
<1>5. LeasesOnly'
  BY <1>1 DEF LeasesOnly, Types
<1>6. SleepersWait'
  BY <1>1 DEF SleepersWait
<1>7. OneChild'
  <2>1. Launching = {r}
    BY <1>1 DEF OneChild, Launching
  <2>2. Launching' = {}
    BY <1>1, <2>1 DEF Launching, Types
  <2>3. running \ left = {r} /\ left \subseteq running
    BY <1>1, <2>1 DEF OneChild, Types
  <2>4. running' = left'
    BY <1>1, <2>3 DEF Stop
  <2> QED BY <1>1, <2>2, <2>4 DEF OneChild
<1> QED BY <1>3, <1>4, <1>5, <1>6, <1>7

\* A lease becomes a subscription.
LEMMA HoldOpenStep ==
  ASSUME SwapInv, Types', NEW r \in Arrivals, HoldOpen(r)
  PROVE  Rest'
<1> USE DEF SwapInv, Rest
<1>1. /\ current \in Arrivals /\ pc[r] = "leased" /\ owner[r] = current /\ r \notin open
      /\ open' = open \cup {r} /\ held' = [held EXCEPT ![current] = @ + 1]
      /\ UNCHANGED <<current, refs, owner, running, left, closed>>
  BY DEF HoldOpen, LeasesOnly, Types
<1>2. \A x \in Arrivals : /\ pc'[x] # "asleep"
                          /\ pc'[x] = "leased" <=> pc[x] = "leased"
                          /\ pc'[x] = "launching" <=> pc[x] = "launching"
                          /\ pc'[x] = "done" <=> pc[x] = "done"
  BY WokenType DEF HoldOpen, Types
<1>3. /\ \A c : Leases(c)' = Leases(c)
      /\ (Leases(current) \cap open)' = (Leases(current) \cap open) \cup {r}
      /\ r \notin Leases(current) \cap open
  BY <1>1, <1>2 DEF Leases
<1>4. Tallied'
  <2>1. Cardinality((Leases(current) \cap open) \cup {r}) = Cardinality(Leases(current) \cap open) + 1
    BY <1>3, LeasesFinite, FS_AddElement
  <2>2. held'[current] = held[current] + 1 /\ \A c \in Arrivals : c # current => held'[c] = held[c]
    BY <1>1 DEF Types
  <2> QED BY <1>1, <1>3, <2>1, <2>2 DEF Tallied
<1>5. ChildrenLaunched'
  BY <1>1, <1>2 DEF ChildrenLaunched, Launched, Types
<1>6. LeasesOnly'
  BY <1>1, <1>2 DEF LeasesOnly
<1>7. SleepersWait'
  BY <1>2 DEF SleepersWait
<1>8. OneChild'
  <2>1. Launching' = Launching
    BY <1>2 DEF Launching
  <2> QED BY <1>1, <2>1 DEF OneChild, MuFree
<1> QED BY <1>4, <1>5, <1>6, <1>7, <1>8

\* A lease of the child that runs ends.
LEMMA ReleaseStep ==
  ASSUME SwapInv, Types', NEW r \in Arrivals, Release(r)
  PROVE  Rest'
<1> USE DEF SwapInv, Rest
<1>1. /\ current \in Arrivals /\ current # NoChild /\ pc[r] = "leased" /\ owner[r] = current
      /\ open' = open \ {r} /\ owner' = [owner EXCEPT ![r] = NoChild]
      /\ refs' = [refs EXCEPT ![current] = @ - 1]
      /\ held' = [held EXCEPT ![current] = IF r \in open THEN @ - 1 ELSE @]
      /\ UNCHANGED <<current, running, left, closed>>
  BY SupervisorAssumption DEF Release, LeasesOnly, Types
<1>2. /\ pc'[r] = "done"
      /\ \A x \in Arrivals \ {r} :
           /\ pc'[x] = "asleep" => pc[x] = "asleep" /\ refs'[current] # held'[current]
           /\ pc'[x] = "leased" <=> pc[x] = "leased"
           /\ pc'[x] = "launching" <=> pc[x] = "launching"
           /\ pc[x] = "done" => pc'[x] = "done"
  BY WokenType DEF Release, Types
<1>3. /\ Leases(current)' = Leases(current) \ {r}
      /\ (Leases(current) \cap open)' = (Leases(current) \cap open) \ {r}
      /\ r \in Leases(current)
  BY <1>1, <1>2 DEF Leases, Types
<1>4. Tallied'
  <2>1. Cardinality(Leases(current) \ {r}) = Cardinality(Leases(current)) - 1
    BY <1>3, LeasesFinite, FS_RemoveElement
  <2>2. Cardinality((Leases(current) \cap open) \ {r}) =
          IF r \in open THEN Cardinality(Leases(current) \cap open) - 1 ELSE Cardinality(Leases(current) \cap open)
    BY <1>3, LeasesFinite, FS_RemoveElement
  <2>3. /\ refs'[current] = refs[current] - 1
        /\ held'[current] = IF r \in open THEN held[current] - 1 ELSE held[current]
        /\ \A c \in Arrivals : c # current => refs'[c] = refs[c] /\ held'[c] = held[c]
    BY <1>1 DEF Types
  <2> QED BY <1>1, <1>3, <2>1, <2>2, <2>3 DEF Tallied
<1>5. ChildrenLaunched'
  BY <1>1, <1>2 DEF ChildrenLaunched, Launched, Types
<1>6. LeasesOnly'
  BY <1>1, <1>2 DEF LeasesOnly, Types
<1>7. SleepersWait'
  <2>1. IsFiniteSet(Leases(current) \ {r})
    BY LeasesFinite, FS_RemoveElement
  <2>2. (Leases(current) \cap open) \ {r} \in SUBSET (Leases(current) \ {r})
    OBVIOUS
  <2>3. Cardinality((Leases(current) \cap open) \ {r}) <= Cardinality(Leases(current) \ {r})
    BY <2>1, <2>2, FS_Subset
  <2>4. held'[current] <= refs'[current] /\ held'[current] \in Nat /\ refs'[current] \in Nat
    <3>1. refs'[current] = Cardinality(Leases(current)') /\ held'[current] = Cardinality((Leases(current) \cap open)')
      BY <1>1, <1>4 DEF Tallied
    <3>2. held'[current] \in Nat /\ refs'[current] \in Nat
      BY <1>1 DEF Types
    <3> QED BY <1>3, <2>3, <3>1, <3>2
  <2>5. \A x \in Arrivals : pc'[x] = "asleep" => refs'[current] # held'[current]
    BY <1>2
  <2> QED BY <1>1, <2>4, <2>5 DEF SleepersWait
<1>8. OneChild'
  <2>1. Launching' = Launching
    BY <1>1, <1>2 DEF Launching
  <2> QED BY <1>1, <2>1 DEF OneChild, MuFree
<1> QED BY <1>4, <1>5, <1>6, <1>7, <1>8

\* A lease of a child that was stopped ends.
LEMMA ReleaseSeveredStep ==
  ASSUME SwapInv, Types', NEW r \in Arrivals, ReleaseSevered(r)
  PROVE  Rest'
<1> USE DEF SwapInv, Rest
<1>1. /\ pc[r] = "leased" /\ owner[r] # current /\ pc' = [pc EXCEPT ![r] = "done"]
      /\ open' = open \ {r} /\ owner' = [owner EXCEPT ![r] = NoChild]
      /\ UNCHANGED <<current, running, left, closed, refs, held>>
  BY DEF ReleaseSevered, childVars
<1>2. Leases(current)' = Leases(current) /\ (Leases(current) \cap open)' = Leases(current) \cap open
  BY <1>1 DEF Leases, Types
<1>3. Tallied'
  BY <1>1, <1>2 DEF Tallied
<1>4. ChildrenLaunched'
  BY <1>1 DEF ChildrenLaunched, Launched, Types
<1>5. LeasesOnly'
  BY <1>1 DEF LeasesOnly, Types
<1>6. SleepersWait'
  BY <1>1 DEF SleepersWait, Types
<1>7. OneChild'
  <2>1. Launching' = Launching
    BY <1>1 DEF Launching, Types
  <2> QED BY <1>1, <2>1 DEF OneChild, MuFree
<1> QED BY <1>3, <1>4, <1>5, <1>6, <1>7

------------------------------------------------------------------------------
(* The invariant *)

LEMMA SwapInvInit == Init => SwapInv
<1> SUFFICES ASSUME Init PROVE SwapInv
  OBVIOUS
<1>1. Types
  BY ShapeInit
<1>2. Tallied /\ OneChild
  BY DEF Init, Tallied, OneChild, MuFree, Launching
<1>3. ChildrenLaunched /\ LeasesOnly /\ SleepersWait
  BY DEF Init, ChildrenLaunched, LeasesOnly, SleepersWait
<1> QED BY <1>1, <1>2, <1>3 DEF SwapInv

LEMMA SwapInvStep == SwapInv /\ [Next]_swapVars => SwapInv'
<1> SUFFICES ASSUME SwapInv, [Next]_swapVars PROVE SwapInv'
  OBVIOUS
<1>1. Types'
  BY ShapeStep
<1> SUFFICES Rest'
  BY <1>1 DEF SwapInv, Rest
<1> USE <1>1
<1>2. ASSUME NEW r \in Arrivals, Route(r) PROVE Rest'
  <2>1. /\ pc' = [pc EXCEPT ![r] = "done"] \/ pc' = [pc EXCEPT ![r] = "called"]
        /\ pc[r] = "away"
    BY <1>2 DEF Route
  <2> QED BY <1>2, <2>1, QuietStep DEF Route, childVars, SwapInv, Types
<1>3. ASSUME NEW r \in Arrivals, HangUp(r) \/ GraceEnds(r) PROVE Rest'
  BY <1>3, QuietStep DEF HangUp, GraceEnds, childVars
<1>4. ASSUME NEW r \in Arrivals, TurnedAway(r) PROVE Rest'
  <2>1. pc' = [pc EXCEPT ![r] = "done"] /\ pc[r] \in {"called", "woken"}
    BY <1>4 DEF TurnedAway, Answer, Holding
  <2> QED BY <1>4, <2>1, QuietStep DEF TurnedAway, childVars, SwapInv, Types
<1>5. ASSUME NEW r \in Arrivals, Ride(r) PROVE Rest'
  BY <1>5, RideStep
<1>6. ASSUME NEW r \in Arrivals, Sleep(r) PROVE Rest'
  <2>1. pc' = [pc EXCEPT ![r] = "asleep"] /\ pc[r] \in {"called", "woken"}
    BY <1>6 DEF Sleep, Admitted, Holding
  <2>2. current # NoChild => held[current] < refs[current]
    BY <1>6 DEF Sleep, MustDrain, Draining, SwapInv, Types
  <2> QED BY <1>6, <2>1, <2>2, QuietStep DEF Sleep, childVars, SwapInv, Types
<1>7. ASSUME NEW r \in Arrivals, Launch(r) PROVE Rest'
  BY <1>7, LaunchStep
<1>8. ASSUME NEW r \in Arrivals, LaunchFails(r) PROVE Rest'
  BY <1>8, LaunchFailsStep
<1>17. ASSUME NEW r \in Arrivals, BeginLaunch(r) PROVE Rest'
  BY <1>17, BeginLaunchStep
<1>9. ASSUME NEW r \in Arrivals, GraceTells(r) \/ ContextTells(r) PROVE Rest'
  <2>1. pc' = Woken(pc)
    BY <1>9 DEF GraceTells, ContextTells
  <2> QED BY <1>9, <2>1, WokenType, QuietStep DEF GraceTells, ContextTells, childVars, SwapInv, Types
<1>10. ASSUME NEW r \in Arrivals, HoldOpen(r) PROVE Rest'
  BY <1>10, HoldOpenStep
<1>11. ASSUME NEW r \in Arrivals, Release(r) PROVE Rest'
  BY <1>11, ReleaseStep
<1>12. ASSUME NEW r \in Arrivals, ReleaseSevered(r) PROVE Rest'
  BY <1>12, ReleaseSeveredStep
<1>13. ASSUME NEW c \in Arrivals, IdleFires(c) PROVE Rest'
  BY <1>13, QuietStep DEF IdleFires, requestVars
<1>14. ASSUME NEW c \in Arrivals, StopIfIdle(c) PROVE Rest'
  <2>1. CASE current = c /\ refs[c] = 0
    BY <1>14, <2>1, StopStep DEF StopIfIdle, requestVars
  <2>2. CASE ~(current = c /\ refs[c] = 0)
    BY <1>14, <2>2, QuietStep DEF StopIfIdle, requestVars
  <2> QED BY <2>1, <2>2
<1>15. ASSUME Close PROVE Rest'
  BY <1>15, StopStep, WokenType DEF Close, SwapInv, Types
<1>16. CASE UNCHANGED swapVars
  BY <1>16, QuietStep DEF swapVars, childVars, requestVars
<1> QED
  BY <1>2, <1>3, <1>4, <1>5, <1>6, <1>7, <1>8, <1>9, <1>10, <1>11, <1>12, <1>13, <1>14, <1>15, <1>16, <1>17 DEF Next

LEMMA SwapInvHolds == SupervisorSpec => []SwapInv
<1>1. Init => SwapInv
  BY SwapInvInit
<1>2. SwapInv /\ [Next]_swapVars => SwapInv'
  BY SwapInvStep
<1> QED BY <1>1, <1>2, PTL DEF SupervisorSpec

\* The counters a swap and the idle timer go by are those of the child that runs,
\* whatever child a request releases late.
THEOREM CountersAreLeases == SupervisorSpec => []RefsAreLeases
<1>1. SwapInv => RefsAreLeases
  BY SwapInvGives
<1> QED BY <1>1, SwapInvHolds, PTL

\* Besides those that a failed Stop left behind there is one child process at most,
\* the current one or the one being launched, and none after Close.
THEOREM OneProcess == SupervisorSpec => []OneChild
<1>1. SwapInv => OneChild
  BY SwapInvGives
<1> QED BY <1>1, SwapInvHolds, PTL

\* No request sleeps beside a child that has drained.
THEOREM DrainNeverSleeps == SupervisorSpec => []DrainWakes
<1>1. SwapInv => DrainWakes
  BY SwapInvGives
<1> QED BY <1>1, SwapInvHolds, PTL

\* What may make the supervisor give up a child that is leased.
GivenUp == current # NoChild /\ current' # current
Severed ==
  Leases(current) # {} =>
    \/ closed'
    \/ \E r \in Arrivals : /\ Holding(r) /\ pc'[r] # pc[r]
                           /\ InFlight(current) = {} \/ GraceOver(r)

\* A child with leases is given up by Close, or for a request for another model that has
\* waited for those in flight; an idle timer that fires late takes none.
THEOREM SeveredForASwap == SupervisorSpec => SeveredOnlyForASwap
<1>1. ASSUME SwapInv, [Next]_swapVars, GivenUp PROVE Severed
  <2> USE DEF SwapInv
  <2>1. current \in Arrivals /\ MuFree
    BY <1>1 DEF GivenUp, OneChild, Types
  <2>2. ASSUME NEW r \in Arrivals, BeginLaunch(r) PROVE Severed
    <3>1. Holding(r) /\ ~MustDrain(r) /\ pc[r] # "launching" /\ pc' = [pc EXCEPT ![r] = "launching"]
      BY <2>2 DEF BeginLaunch, Admitted, Holding
    <3>2. pc'[r] # pc[r]
      BY <1>1, <3>1 DEF Types
    <3>3. InFlight(current) = {} \/ GraceOver(r)
      <4>1. ~(Draining(current) > 0) \/ GraceOver(r)
        BY <1>1, <3>1 DEF GivenUp, MustDrain
      <4> QED BY <1>1, <4>1, DrainingInFlight DEF GivenUp
    <3> QED BY <3>1, <3>2, <3>3 DEF Severed
  <2>3. ASSUME NEW d \in Arrivals, StopIfIdle(d) PROVE Severed
    <3>1. refs[current] = 0
      BY <1>1, <2>3 DEF StopIfIdle, GivenUp
    <3>2. Leases(current) = {}
      <4>1. Cardinality(Leases(current)) = 0
        BY <1>1, <3>1 DEF GivenUp, Tallied
      <4> QED BY <4>1, LeasesFinite, FS_EmptySet
    <3> QED BY <3>2 DEF Severed
  <2>4. CASE Close
    BY <2>4 DEF Close, Severed
  <2>5. ASSUME NEW r \in Arrivals, Launch(r) PROVE FALSE
    BY <2>1, <2>5 DEF Launch, MuFree, Launching
  <2>6. ASSUME NEW r \in Arrivals,
               \/ Route(r) \/ HangUp(r) \/ TurnedAway(r) \/ Ride(r) \/ Sleep(r) \/ LaunchFails(r)
               \/ GraceEnds(r) \/ GraceTells(r) \/ ContextTells(r)
               \/ HoldOpen(r) \/ Release(r) \/ ReleaseSevered(r) \/ IdleFires(r)
        PROVE  current' = current
    BY <2>6 DEF Route, HangUp, TurnedAway, Ride, Sleep, LaunchFails, GraceEnds, GraceTells, ContextTells,
                HoldOpen, Release, ReleaseSevered, IdleFires, childVars
  <2>7. CASE UNCHANGED swapVars
    BY <1>1, <2>7 DEF swapVars, childVars, GivenUp
  <2> QED BY <1>1, <2>2, <2>3, <2>4, <2>5, <2>6, <2>7 DEF Next, GivenUp
<1>2. SwapInv /\ [Next]_swapVars => [GivenUp => Severed]_swapVars
  BY <1>1
<1> QED BY <1>2, SwapInvHolds, PTL DEF SupervisorSpec, SeveredOnlyForASwap, Severed, GivenUp
=============================================================================
