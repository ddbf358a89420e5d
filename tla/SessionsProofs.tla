--------------------------- MODULE SessionsProofs ---------------------------
(* Theorems about Sessions, for every set of requests, Close calls, keys and *)
(* scopes, every capacity and any number of loads and requests.              *)
EXTENDS Sessions, FiniteSetTheorems, TLAPS

EntryRecord ==
  [scope : Scopes, state : {"loading", "ready", "failed"},
   model : {"none", "open", "closing", "closed"}, mu : Requests \cup Closers \cup {Free},
   borrowers : Int, dead : BOOLEAN, closing : BOOLEAN, retiring : BOOLEAN]

Places ==
  {"idle", "lease", "parked", "woken", "awaiting", "loading", "loaded", "resetting", "running",
   "retiring", "releasing", "finishing", "finished", "evicting", "evicted"}

RequestRecord ==
  [at : Places, key : Keys, scope : Scopes, scoped : BOOLEAN, entry : Nat, first : BOOLEAN,
   again : BOOLEAN, live : BOOLEAN, todo : SUBSET Nat]

CloserRecord ==
  [at : {"idle", "parked", "woken", "closing", "inside", "returned"}, todo : SUBSET Nat, entry : Nat]

Shape ==
  /\ entries \in Seq(EntryRecord)
  /\ table \in [Keys -> Nat] /\ \A k \in Keys : table[k] <= Len(entries)
  /\ request \in [Requests -> RequestRecord]
  /\ closer \in [Closers -> CloserRecord]

\* The table leads every key to an entry of its own that is not dead.
TableLive ==
  /\ \A k \in Keys : table[k] # 0 => ~entries[table[k]].dead
  /\ \A k, l \in Keys : table[k] = table[l] /\ table[k] # 0 => k = l

\* A model is closed only once its entry is dead.
ReadyOpen ==
  \A e \in DOMAIN entries : entries[e].state = "ready" /\ ~entries[e].dead => entries[e].model = "open"

\* Where a request holds the mutex of its entry, and where it has an entry.
Owning == {"loaded", "resetting", "running", "retiring", "finished", "evicted"}
Having == Owning \cup {"loading", "releasing"}

\* The entry of a request is its own, and what it has to close is dead and loaded.
GoodRequest(r) ==
  /\ request[r].at \in Having => Entry(r) \in DOMAIN entries
  /\ request[r].at \in Owning => entries[Entry(r)].mu = r /\ Ready(Entry(r))
  /\ request[r].at = "retiring" => entries[Entry(r)].dead
  /\ request[r].at \in {"resetting", "running"} => entries[Entry(r)].model = "open"
  /\ request[r].at \in {"finished", "evicted"} => entries[Entry(r)].model # "open"
  /\ \A e \in request[r].todo : e \in DOMAIN entries /\ entries[e].dead /\ Ready(e)

GoodCloser(c) ==
  /\ closer[c].at = "inside" =>
       /\ closer[c].entry \in DOMAIN entries /\ entries[closer[c].entry].mu = c
       /\ Ready(closer[c].entry) /\ entries[closer[c].entry].model # "open"
  /\ \A e \in closer[c].todo : e \in DOMAIN entries /\ entries[e].dead

\* What takes up a place: an entry in the table, one being retired, and one a
\* Close took out of the table and has not closed yet.
Tabled == {table[k] : k \in Keys} \ {0}
Flagged == {e \in DOMAIN entries : entries[e].retiring}
Takes(c) == closer[c].todo \cup {e \in {closer[c].entry} : closer[c].at = "inside"}
Taken == UNION {Takes(c) : c \in Closers}
Held == Tabled \cup Flagged \cup Taken

\* One Close closes entries, while the director is shutting.
ShutClosers ==
  /\ \A c \in Closers : closer[c].at \in {"closing", "inside"} => shutdown.shutting
  /\ \A c \in Closers : closer[c].at \notin {"closing", "inside"} => closer[c].todo = {}
  /\ \A c, d \in Closers : closer[c].at \in {"closing", "inside"} /\ closer[d].at \in {"closing", "inside"}
       => c = d

Retires(r, e) == request[r].at = "retiring" /\ Entry(r) = e

\* From then on places are only given up, and what is retired is closed by its
\* user first and by the Close after it.
Emptied ==
  /\ shutdown.shutting \/ shutdown.shut => shutdown.closed /\ Tabled = {} /\ Flagged \subseteq Taken
  /\ \A e \in Taken \cap Flagged : \E r \in Requests : Retires(r, e)

\* A Close that closes entries is the only one, and the first to have done so.
ShutdownRecord ==
  {s \in [closed : BOOLEAN, shutting : BOOLEAN, shut : BOOLEAN] : ~(s.shutting /\ s.shut)}

\* The director's books: every model has a place, and there are enough.
Books ==
  /\ shutdown \in ShutdownRecord
  /\ retiring = [count |-> Cardinality(Flagged), users |-> retiring.users]
  /\ Tabled \cap Flagged = {}
  /\ Resident \subseteq Held
  /\ Cardinality(Held) <= Capacity
  /\ ShutClosers /\ Emptied

\* Who counts among the borrowers of an entry, and who loads it.
Borrowing == {"loading", "loaded", "resetting", "running", "retiring", "releasing"}
Borrowers(e) == {r \in Requests : request[r].at \in Borrowing /\ Entry(r) = e}
Loads(r, e) == request[r].at = "loading" /\ Entry(r) = e

Lends ==
  /\ \A e \in DOMAIN entries : entries[e].borrowers = Cardinality(Borrowers(e))
  /\ \A e \in DOMAIN entries : ~Ready(e) => \E r \in Requests : Loads(r, e)
  /\ \A r \in Requests : request[r].at = "loading" => ~Ready(Entry(r))
  /\ \A q, r \in Requests : Loads(q, Entry(q)) /\ Loads(r, Entry(q)) => q = r

Inv ==
  /\ Shape /\ TableLive /\ ReadyOpen /\ Books /\ Lends
  /\ \A r \in Requests : GoodRequest(r)
  /\ \A c \in Closers : GoodCloser(c)

------------------------------------------------------------------------------
\* What the steps below take from the invariant before anything else.
LEMMA Basics ==
  ASSUME Inv
  PROVE  /\ Shape /\ TableLive
         /\ DOMAIN entries = 1 .. Len(entries) /\ Len(entries) \in Nat
         /\ \A q \in Requests : request[q] \in RequestRecord
<1>1. Shape /\ TableLive
  BY DEF Inv
<1>2. entries \in Seq(EntryRecord) /\ request \in [Requests -> RequestRecord]
  BY <1>1 DEF Shape
<1>3. DOMAIN entries = 1 .. Len(entries) /\ Len(entries) \in Nat
  BY <1>2
<1>4. \A q \in Requests : request[q] \in RequestRecord
  BY <1>2
<1> QED BY <1>1, <1>3, <1>4

LEMMA UnaskedType == Unasked \in RequestRecord
<1>1. (CHOOSE k \in Keys : TRUE) \in Keys /\ (CHOOSE s \in Scopes : TRUE) \in Scopes
  BY SessionsAssumption
<1> QED BY <1>1 DEF Unasked, RequestRecord, Places

\* What waking the parked leaves alone.
LEMMA NotifiedRequests ==
  ASSUME NEW f \in [Requests -> RequestRecord]
  PROVE  /\ Notified(f) \in [Requests -> RequestRecord]
         /\ \A p \in Requests :
              /\ Notified(f)[p].entry = f[p].entry /\ Notified(f)[p].todo = f[p].todo
              /\ \/ Notified(f)[p].at = f[p].at
                 \/ f[p].at = "parked" /\ Notified(f)[p].at = "woken"
<1>1. ASSUME NEW p \in Requests
      PROVE  /\ Notified(f)[p] \in RequestRecord
             /\ Notified(f)[p].entry = f[p].entry /\ Notified(f)[p].todo = f[p].todo
             /\ \/ Notified(f)[p].at = f[p].at
                \/ f[p].at = "parked" /\ Notified(f)[p].at = "woken"
  <2>1. f[p] \in RequestRecord /\ p \in DOMAIN f
    OBVIOUS
  <2>2. Notified(f)[p] = IF f[p].at = "parked" THEN [f[p] EXCEPT !.at = "woken"] ELSE f[p]
    BY <2>1 DEF Notified
  <2> QED BY <2>1, <2>2 DEF RequestRecord, Places
<1>2. Notified(f) \in [Requests -> RequestRecord]
  BY <1>1 DEF Notified
<1> QED BY <1>1, <1>2

LEMMA NotifiedClosers ==
  ASSUME NEW f \in [Closers -> CloserRecord]
  PROVE  /\ Notified(f) \in [Closers -> CloserRecord]
         /\ \A p \in Closers :
              /\ Notified(f)[p].entry = f[p].entry /\ Notified(f)[p].todo = f[p].todo
              /\ \/ Notified(f)[p].at = f[p].at
                 \/ f[p].at = "parked" /\ Notified(f)[p].at = "woken"
<1>1. ASSUME NEW p \in Closers
      PROVE  /\ Notified(f)[p] \in CloserRecord
             /\ Notified(f)[p].entry = f[p].entry /\ Notified(f)[p].todo = f[p].todo
             /\ \/ Notified(f)[p].at = f[p].at
                \/ f[p].at = "parked" /\ Notified(f)[p].at = "woken"
  <2>1. f[p] \in CloserRecord /\ p \in DOMAIN f
    OBVIOUS
  <2>2. Notified(f)[p] = IF f[p].at = "parked" THEN [f[p] EXCEPT !.at = "woken"] ELSE f[p]
    BY <2>1 DEF Notified
  <2> QED BY <2>1, <2>2 DEF CloserRecord
<1>2. Notified(f) \in [Closers -> CloserRecord]
  BY <1>1 DEF Notified
<1> QED BY <1>1, <1>2

\* The entries a request supersedes.
Gone(r) == {table[k] : k \in Stale(r)}

\* Superseding leaves every entry its model, its mutex, its state and its
\* borrowers, and flags those it takes out of the table.
ViewWell(r, view) ==
  /\ view.entries \in Seq(EntryRecord) /\ Len(view.entries) = Len(entries)
  /\ \A e \in DOMAIN entries :
       /\ view.entries[e].model = entries[e].model
       /\ view.entries[e].mu = entries[e].mu
       /\ view.entries[e].state = entries[e].state
       /\ view.entries[e].borrowers = entries[e].borrowers
       /\ view.entries[e].retiring <=> entries[e].retiring \/ e \in Gone(r)
       /\ entries[e].dead => view.entries[e].dead
  /\ view.table \in [Keys -> Nat]
  /\ \A k \in Keys : /\ view.table[k] = IF k \in Stale(r) THEN 0 ELSE table[k]
                     /\ view.table[k] # 0 => ~view.entries[view.table[k]].dead
  /\ \A e \in StaleIdle(r) : e \in DOMAIN entries /\ view.entries[e].dead

SupersedesWell(r, view) ==
  /\ ViewWell(r, view)
  /\ view.retiring = [count |-> retiring.count + Cardinality(Gone(r)),
                      users |-> view.retiring.users]

LEMMA SupersededKeeps ==
  ASSUME Shape, TableLive, NEW r \in Requests
  PROVE  SupersedesWell(r, Superseded(r))
<1> DEFINE gone == {table[k] : k \in Stale(r)}
           new == [e \in DOMAIN entries |->
             IF e \in gone
             THEN [entries[e] EXCEPT !.dead = TRUE, !.retiring = TRUE, !.closing = Ready(e) /\ Idle(e)]
             ELSE entries[e]]
           tab == [k \in Keys |-> IF k \in Stale(r) THEN 0 ELSE table[k]]
<1>1. Superseded(r).entries = new /\ Superseded(r).table = tab
  BY DEF Superseded
<1>2. \A e \in DOMAIN entries : entries[e] \in EntryRecord
  BY DEF Shape
<1>3. \A e \in DOMAIN entries : new[e] \in EntryRecord
  <2> SUFFICES ASSUME NEW e \in DOMAIN entries PROVE new[e] \in EntryRecord
    OBVIOUS
  <2>1. PICK closing \in BOOLEAN : closing = (Ready(e) /\ Idle(e))
    OBVIOUS
  <2>2. CASE e \in gone
    <3>1. new[e] = [entries[e] EXCEPT !.dead = TRUE, !.retiring = TRUE, !.closing = closing]
      BY <2>1, <2>2
    <3> HIDE DEF new, gone, tab
    <3> QED BY <1>2, <3>1 DEF EntryRecord
  <2>3. CASE e \notin gone
    BY <1>2, <2>3
  <2> QED BY <2>2, <2>3
<1>4. DOMAIN entries = 1 .. Len(entries) /\ Len(entries) \in Nat
  BY DEF Shape
<1>5. new \in Seq(EntryRecord) /\ Len(new) = Len(entries)
  <2>1. new \in [1 .. Len(entries) -> EntryRecord]
    BY <1>3, <1>4
  <2> HIDE DEF new
  <2> QED BY <1>4, <2>1
<1>6. \A e \in DOMAIN entries : /\ new[e].model = entries[e].model /\ new[e].mu = entries[e].mu
                                /\ new[e].state = entries[e].state
                                /\ new[e].borrowers = entries[e].borrowers
                                /\ new[e].retiring <=> entries[e].retiring \/ e \in gone
                                /\ entries[e].dead => new[e].dead
                                /\ e \notin gone => new[e] = entries[e]
  BY <1>2 DEF EntryRecord
<1>7. tab \in [Keys -> Nat]
  BY DEF Shape
<1>8. ASSUME NEW k \in Keys, tab[k] # 0 PROVE ~new[tab[k]].dead
  <2>1. k \notin Stale(r) /\ tab[k] = table[k]
    BY <1>8
  <2>2. table[k] \notin gone
    BY <2>1, <1>8 DEF TableLive, Stale
  <2>3. table[k] \in DOMAIN entries
    BY <2>1, <1>4, <1>8 DEF Shape
  <2> QED BY <2>1, <2>2, <2>3, <1>6, <1>8 DEF TableLive
<1>9. \A k \in Keys : tab[k] = IF k \in Stale(r) THEN 0 ELSE table[k]
  OBVIOUS
<1>10. \A e \in StaleIdle(r) : e \in gone /\ e \in DOMAIN entries
  BY <1>4 DEF StaleIdle, Stale, Shape
<1>11. \A e \in DOMAIN entries : e \in gone => new[e].dead
  BY <1>2 DEF EntryRecord
<1>12. Superseded(r).retiring = [count |-> retiring.count + Cardinality(gone),
                                 users |-> Superseded(r).retiring.users]
  BY DEF Superseded
<1>13. gone = Gone(r)
  BY DEF Gone
<1> HIDE DEF new, tab, gone
<1> QED BY <1>1, <1>5, <1>6, <1>7, <1>8, <1>9, <1>10, <1>11, <1>12, <1>13 DEF SupersedesWell, ViewWell

------------------------------------------------------------------------------
(* What a step of a request or of a Close does to the others *)

\* It leaves them the entries whose mutex they hold, and revives none.
Tame(p) ==
  /\ entries' \in Seq(EntryRecord) /\ Len(entries) <= Len(entries')
  /\ \A e \in DOMAIN entries :
       /\ entries[e].dead => entries'[e].dead
       /\ Ready(e) => Ready(e)'
       /\ entries[e].mu \notin {Free, p} =>
            entries'[e].mu = entries[e].mu /\ entries'[e].model = entries[e].model

\* It wakes them at most.
RequestsKept(p) ==
  /\ request' \in [Requests -> RequestRecord]
  /\ \A q \in Requests \ {p} :
       /\ request'[q].entry = request[q].entry /\ request'[q].todo = request[q].todo
       /\ \/ request'[q].at = request[q].at
          \/ request[q].at = "parked" /\ request'[q].at = "woken"

ClosersKept(p) ==
  /\ closer' \in [Closers -> CloserRecord]
  /\ \A q \in Closers \ {p} :
       /\ closer'[q].entry = closer[q].entry /\ closer'[q].todo = closer[q].todo
       /\ \/ closer'[q].at = closer[q].at
          \/ closer[q].at = "parked" /\ closer'[q].at = "woken"

Stepped(p) == Tame(p) /\ RequestsKept(p) /\ ClosersKept(p)

TableShape == table \in [Keys -> Nat] /\ \A k \in Keys : table[k] <= Len(entries)

\* So that a step needs to be looked at for its own part only.
LEMMA StepKeeps ==
  ASSUME Inv, NEW p, Tame(p), RequestsKept(p), ClosersKept(p),
         TableShape', TableLive', ReadyOpen', Books', Lends',
         p \in Requests => GoodRequest(p)',
         p \in Closers => GoodCloser(p)'
  PROVE  Inv' /\ Stepped(p)
<1>1. Shape'
  BY DEF Shape, Tame, RequestsKept, ClosersKept, TableShape
<1>2. DOMAIN entries \subseteq DOMAIN entries'
  BY DEF Inv, Shape, Tame
<1>3. ASSUME NEW r \in Requests \ {p} PROVE GoodRequest(r)'
  <2>1. GoodRequest(r) /\ r # Free
    BY SessionsAssumption DEF Inv
  <2>2. request'[r].at \in Having => request'[r].at = request[r].at
    BY <1>3 DEF RequestsKept, Having, Owning
  <2>3. request[r].at \in Owning => entries[Entry(r)].mu \notin {Free, p} /\ Entry(r) \in DOMAIN entries
    BY <2>1, <1>3 DEF GoodRequest, Having
  <2>4. Entry(r)' = Entry(r) /\ request'[r].todo = request[r].todo
    BY <1>3 DEF RequestsKept, Entry
  <2> QED BY <2>1, <2>2, <2>3, <2>4, <1>2 DEF GoodRequest, Tame, Having, Owning
<1>4. ASSUME NEW c \in Closers \ {p} PROVE GoodCloser(c)'
  <2>1. GoodCloser(c) /\ c # Free
    BY SessionsAssumption DEF Inv
  <2> QED BY <2>1, <1>2, <1>4 DEF GoodCloser, Tame, ClosersKept
<1> QED BY <1>1, <1>3, <1>4 DEF Inv, Stepped

\* A request that moves and notifies.
LEMMA NotifyKeeps ==
  ASSUME Shape, NEW r \in Requests, NEW moved \in [Requests -> RequestRecord],
         \A q \in Requests \ {r} : moved[q] = request[q], NotifyWith(moved)
  PROVE  /\ RequestsKept(r) /\ ClosersKept(r)
         /\ request'[r].entry = moved[r].entry /\ request'[r].todo = moved[r].todo
         /\ \/ request'[r].at = moved[r].at
            \/ moved[r].at = "parked" /\ request'[r].at = "woken"
<1>1. request' = Notified(moved) /\ closer' = Notified(closer)
  BY DEF NotifyWith
<1>2. RequestsKept(r)
  BY <1>1, NotifiedRequests DEF RequestsKept
<1>3. ClosersKept(r)
  BY <1>1, NotifiedClosers DEF ClosersKept, Shape
<1> QED BY <1>1, <1>2, <1>3, NotifiedRequests

\* A request that moves and tells nobody.
LEMMA MoveKeeps ==
  ASSUME Shape, NEW r \in Requests, request' \in [Requests -> RequestRecord],
         \A q \in Requests \ {r} : request'[q] = request[q], closer' = closer
  PROVE  RequestsKept(r) /\ ClosersKept(r)
BY DEF RequestsKept, ClosersKept, Shape

\* A step that leaves the entries and the table alone.
LEMMA EntriesKept ==
  ASSUME Inv, entries' = entries, table' = table
  PROVE  /\ \A p : Tame(p)
         /\ TableShape' /\ TableLive' /\ ReadyOpen'
<1>1. Len(entries) \in Nat /\ TableShape
  BY DEF Inv, Shape, TableShape
<1>2. \A p : Tame(p)
  BY <1>1 DEF Inv, Shape, Tame, Ready
<1> QED BY <1>1, <1>2 DEF Inv, TableShape, TableLive, ReadyOpen

\* A step that changes one entry, and takes it out of the table if it kills it.
Changes(p, e, new) ==
  /\ e \in DOMAIN entries /\ new \in EntryRecord
  /\ entries' = [entries EXCEPT ![e] = new]
  /\ entries[e].dead => new.dead
  /\ entries[e].mu \in {Free, p} \/ (new.mu = entries[e].mu /\ new.model = entries[e].model)
  /\ new.state = "ready" /\ ~new.dead => new.model = "open"
  /\ new.state = "loading" => entries[e].state = "loading"
  /\ \/ table' = table /\ (new.dead => entries[e].dead)
     \/ table' = [k \in Keys |-> IF table[k] = e THEN 0 ELSE table[k]]

LEMMA EntryStep ==
  ASSUME Inv, NEW p, NEW e, NEW new, Changes(p, e, new)
  PROVE  Tame(p) /\ TableShape' /\ TableLive' /\ ReadyOpen'
<1> USE DEF Changes
<1>1. DOMAIN entries = 1 .. Len(entries) /\ Len(entries) \in Nat /\ entries \in Seq(EntryRecord)
  BY DEF Inv, Shape
<1>2. entries' \in Seq(EntryRecord) /\ Len(entries') = Len(entries)
  BY <1>1
<1>3. entries'[e] = new /\ \A d \in DOMAIN entries \ {e} : entries'[d] = entries[d]
  BY <1>1
<1>4. Tame(p)
  BY <1>1, <1>2, <1>3 DEF Tame, Ready
<1>5. \A k \in Keys : table'[k] = table[k] \/ table'[k] = 0
  BY DEF Inv, Shape
<1>6. TableShape'
  BY <1>1, <1>2 DEF Inv, Shape, TableShape
<1>7. \A k \in Keys : table'[k] # 0 => table'[k] = table[k] /\ table[k] \in DOMAIN entries
  BY <1>1, <1>5 DEF Inv, Shape
<1>8. \A k \in Keys : table'[k] = e => (new.dead => entries[e].dead)
  BY <1>1 DEF Inv, Shape
<1>9. TableLive'
  BY <1>3, <1>7, <1>8 DEF Inv, TableLive
<1>10. ReadyOpen'
  BY <1>1, <1>2, <1>3 DEF Inv, ReadyOpen
<1> QED BY <1>4, <1>6, <1>9, <1>10


------------------------------------------------------------------------------
(* The books *)

LEMMA HeldFinite ==
  ASSUME Inv
  PROVE  /\ Held \subseteq DOMAIN entries /\ IsFiniteSet(Held)
         /\ IsFiniteSet(Flagged) /\ IsFiniteSet(Tabled)
<1>1. DOMAIN entries = 1 .. Len(entries) /\ Len(entries) \in Nat
  BY DEF Inv, Shape
<1>2. IsFiniteSet(DOMAIN entries)
  BY <1>1, FS_Interval
<1>3. Tabled \subseteq DOMAIN entries
  BY <1>1 DEF Inv, Shape, Tabled
<1>4. Taken \subseteq DOMAIN entries
  BY DEF Inv, GoodCloser, Taken, Takes
<1>5. Flagged \subseteq DOMAIN entries
  BY DEF Flagged
<1> QED BY <1>2, <1>3, <1>4, <1>5, FS_Subset DEF Held

\* Entries are taken while the director is shutting only.
LEMMA TakenWhileShutting ==
  ASSUME Inv, Taken # {}
  PROVE  shutdown.shutting /\ shutdown.closed /\ Tabled = {}
<1>1. PICK c \in Closers : Takes(c) # {}
  BY DEF Taken
<1>2. closer[c].at \in {"closing", "inside"}
  BY <1>1 DEF Takes, Inv, Books, ShutClosers
<1> QED BY <1>2 DEF Inv, Books, ShutClosers, Emptied

LEMMA TakenKept ==
  ASSUME Inv, NEW r \in Requests, ClosersKept(r), shutdown' = shutdown
  PROVE  Taken' = Taken /\ ShutClosers'
<1>1. \A c \in Closers : /\ closer'[c].entry = closer[c].entry /\ closer'[c].todo = closer[c].todo
                         /\ \/ closer'[c].at = closer[c].at
                            \/ closer[c].at = "parked" /\ closer'[c].at = "woken"
  BY SessionsAssumption DEF ClosersKept
<1>2. \A c \in Closers : Takes(c)' = Takes(c)
  BY <1>1 DEF Takes
<1>3. Taken' = Taken
  BY <1>2 DEF Taken
<1>4. ShutClosers'
  BY <1>1 DEF ShutClosers, Inv, Books
<1> QED BY <1>3, <1>4

\* A request that takes up no place more, and accounts for what it flags.
LEMMA BooksByRequest ==
  ASSUME Inv, NEW r \in Requests, RequestsKept(r), ClosersKept(r), shutdown' = shutdown,
         retiring' = [count |-> Cardinality(Flagged'), users |-> retiring'.users],
         Tabled' \subseteq Tabled, Flagged' \subseteq Held, Tabled' \cap Flagged' = {},
         Resident' \subseteq Tabled' \cup Flagged' \cup Taken,
         \A e \in Flagged' : \/ Retires(r, e)'
                             \/ e \in Tabled
                             \/ e \in Flagged /\ ~Retires(r, e)
  PROVE  Books'
<1>1. Taken' = Taken /\ ShutClosers'
  BY TakenKept
<1>2. Held' \subseteq Held
  BY <1>1 DEF Held
<1>3. Cardinality(Held') <= Capacity
  <2>1. Cardinality(Held') <= Cardinality(Held) /\ Cardinality(Held) \in Nat /\ Cardinality(Held') \in Nat
    BY <1>2, HeldFinite, FS_Subset, FS_CardinalityType
  <2> QED BY <2>1, SessionsAssumption DEF Inv, Books
<1>4. Resident' \subseteq Held'
  BY <1>1 DEF Held
<1>5. Emptied'
  <2>1. shutdown.shutting \/ shutdown.shut => shutdown.closed /\ Tabled = {} /\ Flagged \subseteq Taken
    BY DEF Inv, Books, Emptied
  <2>2. shutdown'.shutting \/ shutdown'.shut => shutdown'.closed /\ Tabled' = {} /\ Flagged' \subseteq Taken'
    BY <1>1, <2>1 DEF Held
  <2>3. ASSUME NEW e \in Taken' \cap Flagged' PROVE \E q \in Requests : Retires(q, e)'
    <3>1. e \notin Tabled
      BY <1>1, <2>3, TakenWhileShutting
    <3>2. CASE Retires(r, e)'
      BY <3>2
    <3>3. CASE e \in Flagged /\ ~Retires(r, e)
      <4>1. PICK q \in Requests : Retires(q, e)
        BY <1>1, <2>3, <3>3 DEF Inv, Books, Emptied
      <4>2. q # r
        BY <3>3, <4>1
      <4>3. Retires(q, e)'
        BY <4>1, <4>2 DEF Retires, Entry, RequestsKept
      <4> QED BY <4>3
    <3> QED BY <2>3, <3>1, <3>2, <3>3
  <2> QED BY <2>2, <2>3 DEF Emptied
<1> QED BY <1>1, <1>3, <1>4, <1>5 DEF Books, Inv

\* An entry whose model takes up the device.
Loaded(entry) == entry.state = "loading" \/ entry.model \in {"open", "closing"}

\* What a change of one entry changes in the books.
LEMMA EntrySets ==
  ASSUME Inv, NEW p, NEW e, NEW new, Changes(p, e, new)
  PROVE  /\ DOMAIN entries' = DOMAIN entries
         /\ Flagged' = IF new.retiring THEN Flagged \cup {e} ELSE Flagged \ {e}
         /\ Resident' = IF Loaded(new) THEN Resident \cup {e} ELSE Resident \ {e}
         /\ table' = table \/ Tabled' = Tabled \ {e}
         /\ table' = table => Tabled' = Tabled
<1>1. /\ DOMAIN entries' = DOMAIN entries /\ e \in DOMAIN entries /\ entries'[e] = new
      /\ \A d \in DOMAIN entries \ {e} : entries'[d] = entries[d]
  BY DEF Changes, Inv, Shape
<1>2. Flagged' = IF new.retiring THEN Flagged \cup {e} ELSE Flagged \ {e}
  BY <1>1 DEF Flagged
<1>3. Resident' = IF Loaded(new) THEN Resident \cup {e} ELSE Resident \ {e}
  BY <1>1 DEF Resident, Loaded
<1>4. table' = table => Tabled' = Tabled
  BY DEF Tabled
<1>5. ASSUME table' = [k \in Keys |-> IF table[k] = e THEN 0 ELSE table[k]]
      PROVE  Tabled' = Tabled \ {e}
  <2>1. e # 0
    BY <1>1 DEF Inv, Shape
  <2>2. Tabled' = Tabled \ {e}
    BY <1>5, <2>1 DEF Tabled, Inv, Shape
  <2> QED BY <2>2
<1>6. table' = table \/ Tabled' = Tabled \ {e}
  BY <1>5 DEF Changes
<1> QED BY <1>1, <1>2, <1>3, <1>4, <1>6

\* What a request owes the books for the change of an entry.
Accounts(r, e, new) ==
  /\ shutdown' = shutdown
  /\ retiring' = [count |-> retiring'.count, users |-> retiring'.users]
  /\ retiring'.count = IF new.retiring
                       THEN IF entries[e].retiring THEN retiring.count ELSE retiring.count + 1
                       ELSE IF entries[e].retiring THEN retiring.count - 1 ELSE retiring.count
  /\ new.retiring => e \in Held
  /\ new.retiring /\ table' = table => e \notin Tabled
  /\ Loaded(new) => Loaded(entries[e])
  /\ Loaded(new) => new.retiring \/ (table' = table /\ ~entries[e].retiring) \/ e \notin Tabled \cup Flagged
  /\ new.retiring => \/ request'[r].at = "retiring" /\ request'[r].entry = e
                     \/ e \in Tabled
                     \/ entries[e].retiring /\ ~Retires(r, e)
  /\ request[r].at = "retiring" => Entry(r) = e

LEMMA BooksChange ==
  ASSUME Inv, NEW r \in Requests, RequestsKept(r), ClosersKept(r),
         NEW e, NEW new, Changes(r, e, new), Accounts(r, e, new)
  PROVE  Books'
<1>1. /\ e \in DOMAIN entries
      /\ Flagged' = IF new.retiring THEN Flagged \cup {e} ELSE Flagged \ {e}
      /\ Resident' = IF Loaded(new) THEN Resident \cup {e} ELSE Resident \ {e}
      /\ table' = table \/ Tabled' = Tabled \ {e}
      /\ table' = table => Tabled' = Tabled
  BY EntrySets DEF Changes
<1>2. e \in Flagged <=> entries[e].retiring
  BY <1>1 DEF Flagged
<1>3. /\ retiring.count = Cardinality(Flagged) /\ Tabled \cap Flagged = {} /\ Resident \subseteq Held
  BY DEF Inv, Books
<1>4. retiring' = [count |-> Cardinality(Flagged'), users |-> retiring'.users]
  <2>1. /\ Cardinality(Flagged \cup {e}) = IF e \in Flagged THEN Cardinality(Flagged) ELSE Cardinality(Flagged) + 1
        /\ Cardinality(Flagged \ {e}) = IF e \in Flagged THEN Cardinality(Flagged) - 1 ELSE Cardinality(Flagged)
    BY HeldFinite, FS_AddElement, FS_RemoveElement
  <2>2. retiring'.count = Cardinality(Flagged')
    BY <1>1, <1>2, <1>3, <2>1 DEF Accounts
  <2> QED BY <2>2 DEF Accounts
<1>5. Tabled' \subseteq Tabled
  BY <1>1
<1>6. Flagged' \subseteq Held
  BY <1>1 DEF Accounts, Held
<1>7. Tabled' \cap Flagged' = {}
  BY <1>1, <1>2, <1>3 DEF Accounts
<1>8. Resident' \subseteq Tabled' \cup Flagged' \cup Taken
  <2>1. ASSUME NEW d \in Resident', d # e PROVE d \in Tabled' \cup Flagged' \cup Taken
    BY <1>1, <1>3, <2>1 DEF Held
  <2>2. ASSUME e \in Resident' PROVE e \in Tabled' \cup Flagged' \cup Taken
    <3>1. Loaded(new)
      BY <1>1, <2>2
    <3>2. e \in Held
      BY <1>1, <1>3, <3>1 DEF Accounts, Resident, Loaded
    <3> QED BY <1>1, <1>2, <3>1, <3>2 DEF Accounts, Held
  <2> QED BY <2>1, <2>2
<1>9. \A d \in Flagged' : \/ Retires(r, d)'
                          \/ d \in Tabled
                          \/ d \in Flagged /\ ~Retires(r, d)
  BY <1>1, <1>2 DEF Accounts, Retires, Entry
<1> QED BY <1>4, <1>5, <1>6, <1>7, <1>8, <1>9, BooksByRequest DEF Accounts

\* A request that changes no entry changes no book.
LEMMA BooksKept ==
  ASSUME Inv, NEW r \in Requests, RequestsKept(r), ClosersKept(r), shutdown' = shutdown,
         entries' = entries, table' = table, retiring' = retiring,
         request[r].at = "retiring" =>
           request'[r].at = "retiring" /\ request'[r].entry = request[r].entry
  PROVE  Books'
<1>1. Tabled' = Tabled /\ Flagged' = Flagged /\ Resident' = Resident
  BY DEF Tabled, Flagged, Resident
<1>2. \A e : Retires(r, e)' \/ ~Retires(r, e)
  BY DEF Retires, Entry
<1>3. /\ retiring = [count |-> Cardinality(Flagged), users |-> retiring.users]
      /\ Tabled \cap Flagged = {} /\ Resident \subseteq Held
  BY DEF Inv, Books
<1> QED BY <1>1, <1>2, <1>3, BooksByRequest DEF Held

------------------------------------------------------------------------------
(* Who uses what *)

LEMMA BorrowersFinite ==
  \A e : IsFiniteSet(Borrowers(e)) /\ Cardinality(Borrowers(e)) \in Nat
<1> TAKE e
<1>1. Borrowers(e) \in SUBSET Requests
  BY DEF Borrowers
<1> QED BY <1>1, SessionsAssumption, FS_Subset, FS_CardinalityType

\* A step that changes no borrower and starts or ends no load.
LEMMA LendsKept ==
  ASSUME Inv, NEW p, RequestsKept(p), DOMAIN entries' = DOMAIN entries,
         \A d \in DOMAIN entries : /\ entries'[d].borrowers = entries[d].borrowers
                                   /\ Ready(d)' <=> Ready(d),
         p \in Requests => /\ request'[p].at \in Borrowing <=> request[p].at \in Borrowing
                           /\ request'[p].at = "loading" <=> request[p].at = "loading"
                           /\ request'[p].at \in Borrowing => request'[p].entry = request[p].entry
  PROVE  Lends'
<1>1. \A q \in Requests : /\ request'[q].at \in Borrowing <=> request[q].at \in Borrowing
                          /\ request'[q].at = "loading" <=> request[q].at = "loading"
                          /\ request'[q].at \in Borrowing => Entry(q)' = Entry(q)
  BY DEF RequestsKept, Borrowing, Entry
<1>2. \A e : Borrowers(e)' = Borrowers(e)
  BY <1>1 DEF Borrowers
<1>3. \A q \in Requests : \A e : Loads(q, e)' <=> Loads(q, e)
  BY <1>1 DEF Loads, Borrowing
<1>4. \A q \in Requests : request[q].at = "loading" => Entry(q) \in DOMAIN entries /\ Entry(q)' = Entry(q)
  BY <1>1 DEF Inv, GoodRequest, Having, Borrowing
<1>5. \A e \in DOMAIN entries' : entries'[e].borrowers = Cardinality(Borrowers(e)')
  BY <1>2 DEF Inv, Lends
<1>6. \A e \in DOMAIN entries' : ~Ready(e)' => \E r \in Requests : Loads(r, e)'
  BY <1>3 DEF Inv, Lends
<1>7. \A r \in Requests : request'[r].at = "loading" => ~Ready(Entry(r))'
  BY <1>1, <1>4 DEF Inv, Lends, Ready
<1>8. \A q, r \in Requests : Loads(q, Entry(q))' /\ Loads(r, Entry(q))' => q = r
  BY <1>1, <1>3, <1>4 DEF Inv, Lends, Loads
<1> QED BY <1>5, <1>6, <1>7, <1>8 DEF Lends
------------------------------------------------------------------------------
(* Steps that leave the entries alone *)

\* A request without an entry is good if it has nothing new to close.
LEMMA NoEntryGood ==
  ASSUME Inv, NEW r \in Requests, NEW p, Tame(p),
         request'[r].at \notin Having, request'[r].todo \subseteq request[r].todo
  PROVE  GoodRequest(r)'
<1>1. DOMAIN entries \subseteq DOMAIN entries'
  BY DEF Inv, Shape, Tame
<1> QED BY <1>1 DEF GoodRequest, Having, Owning, Inv, Tame

LEMMA DoneType ==
  ASSUME Shape, NEW r \in Requests
  PROVE  /\ Done(r) \in [Requests -> RequestRecord]
         /\ \A q \in Requests \ {r} : Done(r)[q] = request[q]
         /\ Done(r)[r].at = "idle" /\ Done(r)[r].todo = {}
<1>1. Done(r) = [request EXCEPT ![r] = Unasked]
  BY DEF Done
<1>2. Unasked.at = "idle" /\ Unasked.todo = {}
  BY DEF Unasked
<1> HIDE DEF Unasked
<1> QED BY <1>1, <1>2, UnaskedType DEF Shape

\* A request that changes none of the director's state.
LEMMA QuietRequest ==
  ASSUME Inv, NEW r \in Requests, RequestsKept(r), ClosersKept(r), GoodRequest(r)',
         entries' = entries, table' = table, retiring' = retiring, shutdown' = shutdown,
         request'[r].at \in Borrowing <=> request[r].at \in Borrowing,
         request'[r].at = "loading" <=> request[r].at = "loading",
         request[r].at = "retiring" => request'[r].at = "retiring",
         request'[r].at \in Borrowing => request'[r].entry = request[r].entry
  PROVE  Inv' /\ Stepped(r)
<1>1. Books'
  BY BooksKept DEF Borrowing
<1>2. Lends'
  BY LendsKept DEF Ready
<1>3. r \notin Closers
  BY SessionsAssumption
<1> QED BY <1>1, <1>2, <1>3, EntriesKept, StepKeeps

LEMMA AskStep ==
  ASSUME Inv, NEW r \in Requests, Ask(r)
  PROVE  Inv' /\ Stepped(r)
<1>1. PICK key \in Keys, scope \in Scopes, scoped \in BOOLEAN :
        request' = [request EXCEPT ![r] = [Unasked EXCEPT
          !.at = "lease", !.key = key, !.scope = scope, !.scoped = scoped]]
  BY DEF Ask
<1> DEFINE new == [Unasked EXCEPT !.at = "lease", !.key = key, !.scope = scope, !.scoped = scoped]
<1>2. new \in RequestRecord /\ new.at = "lease" /\ new.todo = {}
  BY UnaskedType DEF Unasked, RequestRecord, Places
<1> HIDE DEF new
<1>3. request' \in [Requests -> RequestRecord] /\ request'[r] = new
      /\ \A q \in Requests \ {r} : request'[q] = request[q]
  BY <1>1, <1>2 DEF Inv, Shape, new
<1>4. GoodRequest(r)'
  BY <1>2, <1>3, EntriesKept, NoEntryGood DEF Ask, Having, Owning
<1>5. RequestsKept(r) /\ ClosersKept(r)
  BY <1>3, MoveKeeps DEF Ask, Inv
<1> QED BY <1>2, <1>3, <1>4, <1>5, QuietRequest DEF Ask, Borrowing

LEMMA CancelStep ==
  ASSUME Inv, NEW r \in Requests, Cancel(r)
  PROVE  Inv' /\ Stepped(r)
<1> DEFINE new == [request[r] EXCEPT !.live = FALSE]
<1>0. request[r] \in RequestRecord /\ request \in [Requests -> RequestRecord]
  BY Basics DEF Shape
<1>5. new \in RequestRecord /\ new.at = request[r].at /\ new.entry = request[r].entry
      /\ new.todo = request[r].todo
  BY <1>0 DEF RequestRecord
<1>6. request' = [request EXCEPT ![r] = new]
  BY <1>0 DEF Cancel, RequestRecord
<1> HIDE DEF new
<1>1. request' \in [Requests -> RequestRecord]
  BY <1>0, <1>5, <1>6
<1>2. /\ \A q \in Requests \ {r} : request'[q] = request[q]
      /\ request'[r].at = request[r].at /\ request'[r].entry = request[r].entry
      /\ request'[r].todo = request[r].todo
  BY <1>0, <1>5, <1>6
<1>3. GoodRequest(r)'
  BY <1>2 DEF Cancel, Inv, GoodRequest, Entry, Ready
<1>4. RequestsKept(r) /\ ClosersKept(r)
  BY <1>1, <1>2, MoveKeeps DEF Cancel, Inv
<1> QED BY <1>2, <1>3, <1>4, QuietRequest DEF Cancel

LEMMA RefuseStep ==
  ASSUME Inv, NEW r \in Requests, Refuse(r)
  PROVE  Inv' /\ Stepped(r)
<1>1. request' = Done(r) /\ entries' = entries /\ table' = table /\ closer' = closer
  BY DEF Refuse
<1>2. GoodRequest(r)'
  BY <1>1, DoneType, EntriesKept, NoEntryGood DEF Inv, Having, Owning
<1>3. RequestsKept(r) /\ ClosersKept(r)
  BY <1>1, DoneType, MoveKeeps DEF Inv
<1>4. request'[r].at = "idle" /\ request[r].at = "lease"
  BY <1>1, DoneType DEF Refuse, Inv
<1> QED BY <1>1, <1>2, <1>3, <1>4, QuietRequest DEF Refuse, Borrowing

LEMMA WakeStep ==
  ASSUME Inv, NEW r \in Requests, Wake(r)
  PROVE  Inv' /\ Stepped(r)
<1> DEFINE new == [request[r] EXCEPT !.at = "lease", !.entry = 0]
           again == [request EXCEPT ![r].at = "lease", ![r].entry = 0]
<1>0. request[r] \in RequestRecord
  BY Basics
<1>1. new \in RequestRecord /\ new.at = "lease" /\ new.todo = request[r].todo
  BY <1>0 DEF RequestRecord, Places
<1>2. again = [request EXCEPT ![r] = new]
  BY <1>0 DEF Inv, Shape, RequestRecord
<1>3. NotifyWith(again) \/ NotifyWith(Done(r))
  BY DEF Wake
<1>4. entries' = entries /\ table' = table
  BY DEF Wake
<1> HIDE DEF new, again
<1>5. PICK moved \in {again, Done(r)} : NotifyWith(moved)
  BY <1>3
<1>6. /\ moved \in [Requests -> RequestRecord] /\ \A q \in Requests \ {r} : moved[q] = request[q]
      /\ moved[r].at \in {"lease", "idle"} /\ moved[r].todo \subseteq request[r].todo
  <2>1. CASE moved = again
    <3>1. moved \in [Requests -> RequestRecord] /\ moved[r] = new /\ \A q \in Requests \ {r} : moved[q] = request[q]
      BY <1>1, <1>2, <2>1 DEF Inv, Shape
    <3> QED BY <1>1, <3>1
  <2>2. CASE moved = Done(r)
    BY <2>2, DoneType DEF Inv
  <2> QED BY <2>1, <2>2
<1>7. /\ RequestsKept(r) /\ ClosersKept(r) /\ request'[r].todo \subseteq request[r].todo
      /\ request'[r].at \in {"lease", "idle"}
  BY <1>5, <1>6, NotifyKeeps DEF Inv
<1>8. GoodRequest(r)'
  BY <1>4, <1>7, EntriesKept, NoEntryGood DEF Having, Owning
<1>9. request[r].at \in {"parked", "woken", "awaiting"}
  BY DEF Wake, Waiting
<1> QED BY <1>4, <1>7, <1>8, <1>9, QuietRequest DEF Wake, Borrowing

\* A request moves to another place.
Moved(r, at) == [request EXCEPT ![r].at = at]

LEMMA AtType ==
  ASSUME Shape, NEW r \in Requests, NEW at \in Places
  PROVE  /\ Moved(r, at) \in [Requests -> RequestRecord]
         /\ \A q \in Requests \ {r} : Moved(r, at)[q] = request[q]
         /\ Moved(r, at)[r].at = at /\ Moved(r, at)[r].entry = request[r].entry
         /\ Moved(r, at)[r].todo = request[r].todo
<1> DEFINE new == [request[r] EXCEPT !.at = at]
<1>1. request[r] \in RequestRecord
  BY DEF Shape
<1>2. new \in RequestRecord /\ new.at = at /\ new.entry = request[r].entry /\ new.todo = request[r].todo
  BY <1>1 DEF RequestRecord
<1>3. Moved(r, at) = [request EXCEPT ![r] = new]
  BY <1>1 DEF Shape, RequestRecord, Moved
<1> HIDE DEF new
<1> QED BY <1>2, <1>3 DEF Shape

\* It moves to another place and notifies.
LEMMA AtNotify ==
  ASSUME Shape, NEW r \in Requests, NEW at \in Places \ {"parked"}, NotifyWith(Moved(r, at))
  PROVE  /\ RequestsKept(r) /\ ClosersKept(r)
         /\ request'[r].entry = request[r].entry /\ request'[r].todo = request[r].todo
         /\ request'[r].at = at
<1>1. at \in Places /\ at # "parked"
  OBVIOUS
<1> QED BY <1>1, AtType, NotifyKeeps

\* It moves to another place and tells nobody.
LEMMA AtMove ==
  ASSUME Shape, NEW r \in Requests, NEW at \in Places, request' = Moved(r, at), closer' = closer
  PROVE  /\ RequestsKept(r) /\ ClosersKept(r)
         /\ request'[r].entry = request[r].entry /\ request'[r].todo = request[r].todo
         /\ request'[r].at = at
BY AtType, MoveKeeps

\* A request becomes another record and notifies.
LEMMA RecordNotify ==
  ASSUME Shape, NEW r \in Requests, NEW new \in RequestRecord, NEW moved,
         moved = [request EXCEPT ![r] = new], new.at # "parked", NotifyWith(moved)
  PROVE  /\ RequestsKept(r) /\ ClosersKept(r)
         /\ request'[r].entry = new.entry /\ request'[r].todo = new.todo
         /\ request'[r].at = new.at
<1>1. /\ moved \in [Requests -> RequestRecord] /\ moved[r] = new
      /\ \A q \in Requests \ {r} : moved[q] = request[q]
  BY DEF Shape
<1>2. moved[r].at # "parked"
  BY <1>1
<1>3. /\ RequestsKept(r) /\ ClosersKept(r)
      /\ request'[r].entry = moved[r].entry /\ request'[r].todo = moved[r].todo
      /\ request'[r].at = moved[r].at
  BY <1>1, <1>2, NotifyKeeps, Zenon
<1> QED BY <1>1, <1>3, Zenon

LEMMA TakeLoadedStep ==
  ASSUME Inv, NEW r \in Requests, TakeLoaded(r)
  PROVE  Inv' /\ Stepped(r)
<1>1. /\ RequestsKept(r) /\ ClosersKept(r)
      /\ request'[r].entry = request[r].entry /\ request'[r].todo = request[r].todo
      /\ request'[r].at = "running"
  <2>1. NotifyWith(Moved(r, "running")) /\ "running" \in Places \ {"parked"}
    BY DEF TakeLoaded, Places, Moved
  <2> QED BY <2>1, AtNotify DEF Inv
<1>2. entries' = entries /\ table' = table
  BY DEF TakeLoaded
<1>3. Entry(r) \in DOMAIN entries /\ entries[Entry(r)].mu = r /\ entries[Entry(r)].model = "open"
  BY DEF TakeLoaded, Inv, GoodRequest, ReadyOpen, Having, Owning
<1>4. GoodRequest(r)'
  BY <1>1, <1>2, <1>3 DEF TakeLoaded, Inv, GoodRequest, Entry, Having, Owning, Ready
<1> QED BY <1>1, <1>2, <1>4, QuietRequest DEF TakeLoaded, Borrowing

LEMMA ResetStep ==
  ASSUME Inv, NEW r \in Requests, Reset(r)
  PROVE  Inv' /\ Stepped(r)
<1>1. /\ RequestsKept(r) /\ ClosersKept(r)
      /\ request'[r].entry = request[r].entry /\ request'[r].todo = request[r].todo
      /\ request'[r].at = "running"
  <2>1. request' = Moved(r, "running") /\ closer' = closer /\ "running" \in Places \ {"parked"}
    BY DEF Reset, Places, Moved
  <2> QED BY <2>1, AtMove DEF Inv
<1>2. entries' = entries /\ table' = table
  BY DEF Reset
<1>3. GoodRequest(r)'
  BY <1>1, <1>2 DEF Reset, Inv, GoodRequest, Entry, Having, Owning, Ready
<1> QED BY <1>1, <1>2, <1>3, QuietRequest DEF Reset, Borrowing


------------------------------------------------------------------------------
(* Steps that change the entry of a request *)

\* The steps below end alike: the entry is the request's, the others keep theirs.
\* Where it leaves the request.
Leaves(r, e, new) ==
  /\ RequestsKept(r) /\ ClosersKept(r)
  /\ request'[r].at \in Having => request'[r].entry = e
  /\ request'[r].at \in Owning => new.mu = r /\ new.state # "loading"
  /\ request'[r].at = "retiring" => new.dead
  /\ request'[r].at \in {"resetting", "running"} => new.model = "open"
  /\ request'[r].at \in {"finished", "evicted"} => new.model # "open"
  /\ \A d \in request'[r].todo :
       d \in request[r].todo \/ (d = e /\ new.dead /\ new.state # "loading")

LEMMA OwnEntryStep ==
  ASSUME Inv, NEW r \in Requests, NEW e, NEW new,
         Changes(r, e, new), Leaves(r, e, new), Accounts(r, e, new), Lends'
  PROVE  Inv' /\ Stepped(r)
<1>1. Tame(r) /\ TableShape' /\ TableLive' /\ ReadyOpen'
  BY EntryStep
<1>2. DOMAIN entries' = DOMAIN entries /\ entries'[e] = new /\ e \in DOMAIN entries
  BY DEF Changes, Inv, Shape
<1>3. \A d \in request'[r].todo : d \in DOMAIN entries' /\ entries'[d].dead /\ Ready(d)'
  BY <1>1, <1>2 DEF Leaves, Inv, GoodRequest, Tame, Ready
<1>4. GoodRequest(r)'
  BY <1>2, <1>3 DEF Leaves, GoodRequest, Entry, Having, Owning, Ready
<1>5. r \notin Closers
  BY SessionsAssumption
<1>6. Books'
  BY BooksChange DEF Leaves
<1> QED BY <1>1, <1>4, <1>5, <1>6, StepKeeps DEF Leaves

\* The request stays a borrower of its entry, or was none.
LEMMA OwnEntryUse ==
  ASSUME Inv, NEW r \in Requests, NEW e, NEW new,
         Changes(r, e, new), Leaves(r, e, new), Accounts(r, e, new),
         new.borrowers = entries[e].borrowers,
         new.state = "loading" <=> entries[e].state = "loading",
         request'[r].at \in Borrowing <=> request[r].at \in Borrowing,
         request'[r].at # "loading", request[r].at # "loading",
         request'[r].at \in Borrowing => request[r].entry = e
  PROVE  Inv' /\ Stepped(r)
<1>1. /\ DOMAIN entries' = DOMAIN entries /\ e \in DOMAIN entries /\ entries'[e] = new
      /\ \A d \in DOMAIN entries \ {e} : entries'[d] = entries[d]
  BY DEF Changes, Inv, Shape
<1>2. \A d \in DOMAIN entries : /\ entries'[d].borrowers = entries[d].borrowers
                                /\ Ready(d)' <=> Ready(d)
  BY <1>1 DEF Ready
<1>3. request'[r].at \in Borrowing => request'[r].entry = request[r].entry
  BY DEF Leaves, Borrowing, Having, Owning
<1>4. Lends'
  BY <1>1, <1>2, <1>3, LendsKept DEF Leaves
<1> QED BY <1>4, OwnEntryStep

\* A request that leaves the flag of the entry and the table as they are.
LEMMA SameBooks ==
  ASSUME Inv, NEW r \in Requests, NEW e \in DOMAIN entries, NEW new,
         new.retiring = entries[e].retiring, Loaded(new) => Loaded(entries[e]),
         table' = table, shutdown' = shutdown,
         retiring' = [count |-> retiring.count, users |-> retiring'.users],
         request[r].at # "retiring"
  PROVE  Accounts(r, e, new)
<1>1. entries[e].retiring <=> e \in Flagged
  BY DEF Flagged
<1>2. Tabled \cap Flagged = {}
  BY DEF Inv, Books
<1>3. retiring'.count = retiring.count
  OBVIOUS
<1> QED BY <1>1, <1>2, <1>3 DEF Accounts, Held, Retires

LEMMA LoadEndsStep ==
  ASSUME Inv, NEW r \in Requests, LoadEnds(r)
  PROVE  Inv' /\ Stepped(r)
<1> DEFINE e == Entry(r)
<1>1. PICK loaded \in {[state |-> "ready", model |-> "open"], [state |-> "failed", model |-> "none"],
                       [state |-> "failed", model |-> "open"]} :
        entries' = [entries EXCEPT ![e].state = loaded.state, ![e].model = loaded.model, ![e].mu = r]
  BY DEF LoadEnds
<1>2. /\ RequestsKept(r) /\ ClosersKept(r)
      /\ request'[r].entry = e /\ request'[r].todo = request[r].todo /\ request'[r].at = "loaded"
  <2>1. request' = Moved(r, "loaded") /\ closer' = closer /\ "loaded" \in Places \ {"parked"}
    BY DEF LoadEnds, Places, Moved
  <2> QED BY <2>1, AtMove DEF Inv, Entry
<1>4. e \in DOMAIN entries /\ entries[e].mu = Free
  BY DEF LoadEnds, Inv, GoodRequest, Having
<1>5. entries[e] \in EntryRecord
  BY <1>4 DEF Inv, Shape
<1> DEFINE new == [entries[e] EXCEPT !.state = loaded.state, !.model = loaded.model, !.mu = r]
<1>6. /\ new \in EntryRecord /\ new.dead = entries[e].dead /\ new.mu = r
      /\ new.retiring = entries[e].retiring /\ new.borrowers = entries[e].borrowers
      /\ new.state # "loading"
      /\ new.state = "ready" => new.model = "open"
  <2>1. /\ loaded.state \in {"ready", "failed"} /\ loaded.model \in {"none", "open"}
        /\ loaded.state = "ready" => loaded.model = "open"
    BY <1>1
  <2> HIDE DEF e
  <2> QED BY <2>1, <1>5 DEF EntryRecord
<1>7. entries' = [entries EXCEPT ![e] = new]
  BY <1>1, <1>4, <1>5 DEF Inv, Shape, EntryRecord
<1>8. table' = table
  BY DEF LoadEnds
<1> HIDE DEF new, e
<1>9. Changes(r, e, new)
  BY <1>4, <1>6, <1>7, <1>8 DEF Changes
<1>10. Leaves(r, e, new)
  BY <1>2, <1>6 DEF Leaves
<1>11. /\ request[r].at = "loading" /\ request[r].entry = e /\ Loads(r, e) /\ ~Ready(e)
       /\ shutdown' = shutdown /\ retiring' = retiring
  BY DEF LoadEnds, Loads, e, Entry, Inv, Lends
<1>12. Accounts(r, e, new)
  <2>1. Loaded(entries[e])
    BY <1>11 DEF Ready, Loaded
  <2>2. retiring = [count |-> retiring.count, users |-> retiring.users]
    BY DEF Inv, Books
  <2> QED BY <1>4, <1>6, <1>8, <1>11, <2>1, <2>2, SameBooks
<1>13. Lends'
  <2>1. /\ DOMAIN entries' = DOMAIN entries /\ entries'[e] = new
        /\ \A d \in DOMAIN entries \ {e} : entries'[d] = entries[d]
    BY <1>4, <1>7 DEF Inv, Shape
  <2>2. \A q \in Requests : /\ request'[q].at \in Borrowing <=> request[q].at \in Borrowing
                            /\ request'[q].at \in Borrowing => Entry(q)' = Entry(q)
                            /\ request'[q].at = "loading" <=> request[q].at = "loading" /\ q # r
    BY <1>2, <1>11 DEF RequestsKept, Borrowing, Entry
  <2>3. \A d : Borrowers(d)' = Borrowers(d)
    BY <2>2 DEF Borrowers
  <2>4. \A q \in Requests \ {r} : \A d : Loads(q, d)' <=> Loads(q, d)
    BY <2>2 DEF Loads, Borrowing
  <2>5. \A q \in Requests : Loads(q, e) => q = r
    BY <1>11 DEF Inv, Lends, Loads
  <2>6. \A q \in Requests : request[q].at = "loading" => Entry(q) \in DOMAIN entries
    BY DEF Inv, GoodRequest, Having
  <2>7. \A d \in DOMAIN entries' : entries'[d].borrowers = Cardinality(Borrowers(d)')
    BY <1>6, <2>1, <2>3 DEF Inv, Lends
  <2>8. ASSUME NEW d \in DOMAIN entries', ~Ready(d)' PROVE \E q \in Requests : Loads(q, d)'
    <3>1. d # e /\ ~Ready(d)
      BY <1>6, <2>1, <2>8 DEF Ready
    <3>2. PICK q \in Requests : Loads(q, d)
      BY <2>1, <3>1 DEF Inv, Lends
    <3>3. q # r
      BY <1>11, <3>1, <3>2 DEF Loads
    <3> QED BY <2>4, <3>2, <3>3
  <2>9. \A q \in Requests : request'[q].at = "loading" => ~Ready(Entry(q))'
    BY <2>1, <2>2, <2>5, <2>6 DEF Inv, Lends, Ready, Loads, Borrowing
  <2>10. \A q, p \in Requests : Loads(q, Entry(q))' /\ Loads(p, Entry(q))' => q = p
    BY <2>2 DEF Inv, Lends, Loads, Borrowing
  <2> QED BY <2>1, <2>7, <2>8, <2>9, <2>10 DEF Lends
<1> QED BY <1>9, <1>10, <1>12, <1>13, OwnEntryStep

LEMMA DropLoadedStep ==
  ASSUME Inv, NEW r \in Requests, DropLoaded(r)
  PROVE  Inv' /\ Stepped(r)
<1> DEFINE e == Entry(r)
           held == \E k \in Keys : table[k] = e
           flag == entries[e].retiring \/ held
           new == [entries[e] EXCEPT !.dead = TRUE, !.mu = Free, !.retiring = flag]
<1>1. /\ RequestsKept(r) /\ ClosersKept(r)
      /\ request'[r].entry = e /\ request'[r].todo = request[r].todo
      /\ request'[r].at = "releasing"
  <2>1. NotifyWith(Moved(r, "releasing")) /\ "releasing" \in Places \ {"parked"}
    BY DEF DropLoaded, Places, Moved
  <2> QED BY <2>1, AtNotify DEF Inv, Entry
<1>2. e \in DOMAIN entries /\ entries[e].mu = r /\ request[r].at = "loaded" /\ request[r].entry = e
  BY DEF DropLoaded, Inv, GoodRequest, Having, Owning, Entry
<1>3. entries[e] \in EntryRecord
  BY <1>2 DEF Inv, Shape
<1>4. /\ new \in EntryRecord /\ new.dead /\ new.retiring = flag /\ new.borrowers = entries[e].borrowers
      /\ new.state = entries[e].state /\ new.model = entries[e].model
  <2>1. flag \in BOOLEAN
    OBVIOUS
  <2> HIDE DEF flag
  <2> QED BY <1>3, <2>1 DEF EntryRecord
<1>5. entries' = [entries EXCEPT ![e] = new]
  BY <1>2, <1>3 DEF DropLoaded, Inv, Shape, EntryRecord
<1>6. table' = [k \in Keys |-> IF table[k] = e THEN 0 ELSE table[k]]
  BY DEF DropLoaded
<1>7. /\ shutdown' = shutdown
      /\ retiring' = IF held THEN [count |-> retiring.count + 1,
                                   users |-> retiring.users + entries[e].borrowers]
                     ELSE retiring
  BY DEF DropLoaded
<1>8. held <=> e \in Tabled
  BY <1>2 DEF Tabled, Inv, Shape
<1>9. table' = table => e \notin Tabled
  BY <1>2, <1>6 DEF Tabled, Inv, Shape
<1> HIDE DEF new, e, held
<1>10. Changes(r, e, new)
  BY <1>2, <1>4, <1>5, <1>6 DEF Changes
<1>11. Leaves(r, e, new)
  BY <1>1 DEF Leaves, Having, Owning
<1>12. Accounts(r, e, new)
  <2>1. /\ entries[e].retiring <=> e \in Flagged
        /\ Tabled \cap Flagged = {} /\ retiring = [count |-> retiring.count, users |-> retiring.users]
    BY <1>2 DEF Flagged, Inv, Books
  <2>2. held => retiring'.count = retiring.count + 1
    BY <1>7
  <2>3. ~held => retiring'.count = retiring.count
    BY <1>7
  <2>4. retiring' = [count |-> retiring'.count, users |-> retiring'.users]
    BY <1>7, <2>1
  <2>5. Loaded(new) => Loaded(entries[e])
    BY <1>4 DEF Loaded
  <2> QED BY <1>2, <1>4, <1>7, <1>8, <1>9, <2>1, <2>2, <2>3, <2>4, <2>5 DEF Accounts, Held, Retires
<1> QED BY <1>1, <1>2, <1>4, <1>10, <1>11, <1>12, OwnEntryUse DEF Borrowing

\* The part of a retirement before the Close of the model.
LEMMA BeginRetireStep ==
  ASSUME Inv, NEW r \in Requests, request[r].at \in {"resetting", "running"},
         NEW again \in BOOLEAN, BeginRetire(r, again)
  PROVE  Inv' /\ Stepped(r)
<1> DEFINE e == Entry(r)
           new == [entries[e] EXCEPT !.dead = TRUE, !.closing = TRUE, !.retiring = TRUE,
                                     !.model = "closing"]
           rec == [request[r] EXCEPT !.at = "retiring", !.again = again, !.first = FALSE]
           moved == [request EXCEPT ![r].at = "retiring", ![r].again = again, ![r].first = FALSE]
<1>1. request[r] \in RequestRecord
  BY Basics
<1>2. /\ rec \in RequestRecord /\ rec.at = "retiring" /\ rec.entry = e
      /\ rec.todo = request[r].todo
  BY <1>1 DEF RequestRecord, Places, Entry
<1>3. moved = [request EXCEPT ![r] = rec]
  BY <1>1 DEF Inv, Shape, RequestRecord
<1>4. NotifyWith(moved)
  BY DEF BeginRetire
<1>5. /\ e \in DOMAIN entries /\ entries[e].mu = r /\ Ready(e) /\ entries[e].model = "open"
      /\ request[r].entry = e
  BY DEF Inv, GoodRequest, Having, Owning, Entry
<1>6. entries[e] \in EntryRecord
  BY <1>5 DEF Inv, Shape
<1>7. /\ new \in EntryRecord /\ new.dead /\ new.mu = r /\ new.retiring
      /\ new.state = entries[e].state /\ new.borrowers = entries[e].borrowers
  BY <1>5, <1>6 DEF EntryRecord
<1>8. entries' = [entries EXCEPT ![e] = new]
  BY <1>5, <1>6 DEF BeginRetire, Inv, Shape, EntryRecord
<1>9. table' = [k \in Keys |-> IF table[k] = e THEN 0 ELSE table[k]]
  BY DEF BeginRetire
<1>10. /\ shutdown' = shutdown
       /\ retiring' = IF entries[e].retiring THEN retiring
                      ELSE [count |-> retiring.count + 1,
                            users |-> retiring.users + entries[e].borrowers]
  BY DEF BeginRetire
<1>11. table' = table => e \notin Tabled
  BY <1>5, <1>9 DEF Tabled, Inv, Shape
<1> HIDE DEF new, e, rec, moved
<1>12. /\ RequestsKept(r) /\ ClosersKept(r)
       /\ request'[r].entry = e /\ request'[r].todo = request[r].todo
       /\ request'[r].at = "retiring"
  BY <1>2, <1>3, <1>4, RecordNotify DEF Inv
<1>13. Changes(r, e, new)
  BY <1>5, <1>7, <1>8, <1>9 DEF Changes, Ready
<1>14. Leaves(r, e, new)
  BY <1>5, <1>7, <1>12 DEF Leaves, Having, Owning, Ready
<1>15. Accounts(r, e, new)
  <2>1. /\ e \in Held /\ retiring = [count |-> retiring.count, users |-> retiring.users]
        /\ Loaded(entries[e])
    BY <1>5 DEF Inv, Books, Resident, Loaded
  <2>2. entries[e].retiring => retiring'.count = retiring.count
    BY <1>10
  <2>3. ~entries[e].retiring => retiring'.count = retiring.count + 1
    BY <1>10
  <2>4. retiring' = [count |-> retiring'.count, users |-> retiring'.users]
    BY <1>10, <2>1
  <2>5. request[r].at # "retiring"
    OBVIOUS
  <2> QED BY <1>7, <1>10, <1>11, <1>12, <2>1, <2>2, <2>3, <2>4, <2>5 DEF Accounts
<1> QED BY <1>5, <1>7, <1>12, <1>13, <1>14, <1>15, OwnEntryUse DEF Borrowing

LEMMA RunReleasesStep ==
  ASSUME Inv, NEW r \in Requests, RunReleases(r)
  PROVE  Inv' /\ Stepped(r)
<1> DEFINE e == Entry(r)
           new == [entries[e] EXCEPT !.mu = Free]
<1>1. /\ RequestsKept(r) /\ ClosersKept(r)
      /\ request'[r].entry = e /\ request'[r].todo = request[r].todo
      /\ request'[r].at = "releasing"
  <2>1. request' = Moved(r, "releasing") /\ closer' = closer /\ "releasing" \in Places \ {"parked"}
    BY DEF RunReleases, Places, Moved
  <2> QED BY <2>1, AtMove DEF Inv, Entry
<1>2. e \in DOMAIN entries /\ entries[e].mu = r /\ request[r].at = "running" /\ request[r].entry = e
  BY DEF RunReleases, Inv, GoodRequest, Having, Owning, Entry
<1>3. entries[e] \in EntryRecord
  BY <1>2 DEF Inv, Shape
<1>4. /\ new \in EntryRecord /\ new.dead = entries[e].dead /\ new.state = entries[e].state
      /\ new.model = entries[e].model /\ new.retiring = entries[e].retiring
      /\ new.borrowers = entries[e].borrowers
  BY <1>3 DEF EntryRecord
<1>5. entries' = [entries EXCEPT ![e] = new] /\ table' = table
  BY <1>2, <1>3 DEF RunReleases, Inv, Shape, EntryRecord
<1> HIDE DEF new, e
<1>6. Changes(r, e, new)
  BY <1>2, <1>4, <1>5 DEF Changes, Inv, ReadyOpen
<1>7. Leaves(r, e, new)
  BY <1>1 DEF Leaves, Having, Owning
<1>8. Accounts(r, e, new)
  <2>1. /\ retiring' = [count |-> retiring.count, users |-> retiring'.users] /\ shutdown' = shutdown
    BY DEF RunReleases, Inv, Books
  <2> QED BY <1>2, <1>4, <1>5, <2>1, SameBooks DEF Loaded
<1> QED BY <1>1, <1>2, <1>4, <1>6, <1>7, <1>8, OwnEntryUse DEF Borrowing

LEMMA EndRetireStep ==
  ASSUME Inv, NEW r \in Requests, EndRetire(r)
  PROVE  Inv' /\ Stepped(r)
<1> DEFINE e == Entry(r)
           new == [entries[e] EXCEPT !.model = "closed", !.retiring = FALSE, !.mu = Free]
<1>1. /\ RequestsKept(r) /\ ClosersKept(r)
      /\ request'[r].entry = e /\ request'[r].todo = request[r].todo
      /\ request'[r].at = "releasing"
  <2>1. NotifyWith(Moved(r, "releasing")) /\ "releasing" \in Places \ {"parked"}
    BY DEF EndRetire, Places, Moved
  <2> QED BY <2>1, AtNotify DEF Inv, Entry
<1>2. /\ e \in DOMAIN entries /\ entries[e].mu = r /\ entries[e].dead /\ Ready(e)
      /\ request[r].at = "retiring" /\ request[r].entry = e
  BY DEF EndRetire, Inv, GoodRequest, Having, Owning, Entry
<1>3. entries[e] \in EntryRecord
  BY <1>2 DEF Inv, Shape
<1>4. /\ new \in EntryRecord /\ new.dead /\ ~new.retiring /\ new.model = "closed"
      /\ new.state = entries[e].state /\ new.borrowers = entries[e].borrowers
  BY <1>2, <1>3 DEF EntryRecord
<1>5. entries' = [entries EXCEPT ![e] = new] /\ table' = table
  BY <1>2, <1>3 DEF EndRetire, Inv, Shape, EntryRecord
<1>6. /\ shutdown' = shutdown
      /\ retiring' = IF entries[e].retiring
                     THEN [count |-> retiring.count - 1,
                           users |-> retiring.users - entries[e].borrowers]
                     ELSE retiring
  BY DEF EndRetire
<1> HIDE DEF new, e
<1>7. Changes(r, e, new)
  BY <1>2, <1>4, <1>5 DEF Changes
<1>8. Leaves(r, e, new)
  BY <1>1 DEF Leaves, Having, Owning
<1>9. Accounts(r, e, new)
  <2>1. ~Loaded(new)
    BY <1>2, <1>4 DEF Loaded, Ready
  <2>2. retiring = [count |-> retiring.count, users |-> retiring.users]
    BY DEF Inv, Books
  <2>3. entries[e].retiring => retiring'.count = retiring.count - 1
    BY <1>6
  <2>4. ~entries[e].retiring => retiring'.count = retiring.count
    BY <1>6
  <2>5. retiring' = [count |-> retiring'.count, users |-> retiring'.users]
    BY <1>6, <2>2
  <2> QED BY <1>4, <1>6, <2>1, <2>3, <2>4, <2>5 DEF Accounts, Entry, e
<1> QED BY <1>1, <1>2, <1>4, <1>7, <1>8, <1>9, OwnEntryUse DEF Borrowing

\* An entry nobody loads is loaded.
LEMMA UnborrowedReady ==
  ASSUME Inv, NEW e \in DOMAIN entries,
         \/ Idle(e)
         \/ entries[e].borrowers = 1 /\ \E r \in Borrowers(e) : request[r].at # "loading"
  PROVE  Ready(e)
<1> SUFFICES ASSUME ~Ready(e) PROVE FALSE
  OBVIOUS
<1>1. PICK q \in Requests : Loads(q, e)
  BY DEF Inv, Lends
<1>2. q \in Borrowers(e)
  BY <1>1 DEF Borrowers, Loads, Borrowing
<1>3. entries[e].borrowers = Cardinality(Borrowers(e)) /\ IsFiniteSet(Borrowers(e))
  BY BorrowersFinite DEF Inv, Lends
<1>4. ~Idle(e)
  BY <1>2, <1>3, FS_EmptySet DEF Idle
<1>5. PICK r \in Borrowers(e) : request[r].at # "loading" /\ Cardinality(Borrowers(e)) = 1
  BY <1>3, <1>4
<1>6. PICK x : Borrowers(e) = {x}
  BY <1>3, <1>5, FS_Singleton
<1> QED BY <1>1, <1>2, <1>5, <1>6 DEF Loads

\* A request that gives its entry back is one borrower less.
LEMMA LendsGivenBack ==
  ASSUME Inv, NEW r \in Requests, RequestsKept(r), NEW e \in DOMAIN entries,
         request[r].at = "releasing", request[r].entry = e, request'[r].at \notin Borrowing,
         DOMAIN entries' = DOMAIN entries,
         \A d \in DOMAIN entries \ {e} : entries'[d] = entries[d],
         entries'[e].borrowers = entries[e].borrowers - 1, entries'[e].state = entries[e].state
  PROVE  Lends'
<1>1. \A q \in Requests \ {r} : /\ request'[q].at \in Borrowing <=> request[q].at \in Borrowing
                                /\ request'[q].at = "loading" <=> request[q].at = "loading"
                                /\ request'[q].at \in Borrowing => Entry(q)' = Entry(q)
  BY DEF RequestsKept, Borrowing, Entry
<1>2. request'[r].at # "loading" /\ request[r].at \in Borrowing /\ Entry(r) = e
  BY DEF Borrowing, Entry
<1>3. Borrowers(e)' = Borrowers(e) \ {r} /\ r \in Borrowers(e)
  BY <1>1, <1>2 DEF Borrowers
<1>4. \A d \in DOMAIN entries \ {e} : Borrowers(d)' = Borrowers(d)
  BY <1>1, <1>2 DEF Borrowers
<1>5. \A q \in Requests : \A d : Loads(q, d)' <=> Loads(q, d)
  BY <1>1, <1>2 DEF Loads, Borrowing
<1>6. \A q \in Requests : request'[q].at = "loading" =>
        request[q].at = "loading" /\ Entry(q) \in DOMAIN entries /\ Entry(q)' = Entry(q)
  BY <1>1, <1>2 DEF Inv, GoodRequest, Having, Borrowing
<1>7. \A d \in DOMAIN entries : Ready(d)' <=> Ready(d)
  BY DEF Ready
<1>8. entries'[e].borrowers = Cardinality(Borrowers(e)')
  <2>1. Cardinality(Borrowers(e) \ {r}) = Cardinality(Borrowers(e)) - 1
    BY <1>3, BorrowersFinite, FS_RemoveElement
  <2> QED BY <1>3, <2>1 DEF Inv, Lends
<1>9. \A d \in DOMAIN entries' : entries'[d].borrowers = Cardinality(Borrowers(d)')
  BY <1>4, <1>8 DEF Inv, Lends
<1>10. \A d \in DOMAIN entries' : ~Ready(d)' => \E q \in Requests : Loads(q, d)'
  BY <1>5, <1>7 DEF Inv, Lends
<1>11. \A q \in Requests : request'[q].at = "loading" => ~Ready(Entry(q))'
  <2>1. ASSUME NEW q \in Requests, request'[q].at = "loading" PROVE ~Ready(Entry(q))'
    <3>1. ~Ready(Entry(q)) /\ entries'[Entry(q)].state = entries[Entry(q)].state
      BY <1>6, <2>1 DEF Inv, Lends
    <3> QED BY <1>6, <2>1, <3>1 DEF Ready
  <2> QED BY <2>1
<1>12. \A q, p \in Requests : Loads(q, Entry(q))' /\ Loads(p, Entry(q))' => q = p
  BY <1>6 DEF Inv, Lends, Loads
<1> QED BY <1>9, <1>10, <1>11, <1>12 DEF Lends

\* A request that lets go of its entry and returns, or leases once more.
LEMMA OnwardNotify ==
  ASSUME Shape, NEW r \in Requests, NotifyWith(Onward(r)) \/ NotifyWith(Done(r))
  PROVE  /\ RequestsKept(r) /\ ClosersKept(r) /\ request'[r].todo \subseteq request[r].todo
         /\ request'[r].at \in {"lease", "idle"}
<1> DEFINE new == [request[r] EXCEPT !.at = "lease", !.entry = 0, !.again = FALSE]
           again == [request EXCEPT ![r].at = "lease", ![r].entry = 0, ![r].again = FALSE]
<1>1. request[r] \in RequestRecord
  BY DEF Shape
<1>2. new \in RequestRecord /\ new.at = "lease" /\ new.todo = request[r].todo
  BY <1>1 DEF RequestRecord, Places
<1>3. again = [request EXCEPT ![r] = new]
  BY <1>1 DEF Shape, RequestRecord
<1>4. Onward(r) = again \/ Onward(r) = Done(r)
  BY DEF Onward
<1> HIDE DEF new, again
<1>5. PICK moved \in {again, Done(r)} : NotifyWith(moved)
  BY <1>4
<1>6. /\ moved \in [Requests -> RequestRecord] /\ \A q \in Requests \ {r} : moved[q] = request[q]
      /\ moved[r].at \in {"lease", "idle"} /\ moved[r].todo \subseteq request[r].todo
  <2>1. CASE moved = Done(r)
    BY <2>1, DoneType
  <2>2. CASE moved = again
    <3>1. /\ moved \in [Requests -> RequestRecord] /\ moved[r] = new
          /\ \A q \in Requests \ {r} : moved[q] = request[q]
      BY <1>2, <1>3, <2>2 DEF Shape
    <3> QED BY <1>2, <3>1
  <2> QED BY <2>1, <2>2
<1> QED BY <1>5, <1>6, NotifyKeeps

LEMMA ReleaseBorrowerStep ==
  ASSUME Inv, NEW r \in Requests, ReleaseBorrower(r)
  PROVE  Inv' /\ Stepped(r)
<1> DEFINE e == Entry(r)
           closes == entries[e].borrowers = 1 /\ entries[e].dead /\ ~entries[e].closing
           left == entries[e].borrowers - 1
           closing == entries[e].closing \/ closes
           new == [entries[e] EXCEPT !.borrowers = left, !.closing = closing]
           rec == [request[r] EXCEPT !.at = "finishing", !.todo = {e}]
           moved == [request EXCEPT ![r].at = "finishing", ![r].todo = {e}]
<1>1. e \in DOMAIN entries /\ e \in Nat /\ request[r].at = "releasing" /\ request[r].entry = e
  BY DEF ReleaseBorrower, Inv, GoodRequest, Having, Shape, Entry
<1>2. entries[e] \in EntryRecord /\ request[r] \in RequestRecord
  BY <1>1 DEF Inv, Shape
<1>3. /\ new \in EntryRecord /\ new.dead = entries[e].dead /\ new.state = entries[e].state
      /\ new.model = entries[e].model /\ new.mu = entries[e].mu
      /\ new.retiring = entries[e].retiring /\ new.borrowers = entries[e].borrowers - 1
  <2>1. left \in Int
    BY <1>2 DEF EntryRecord
  <2>2. closing \in BOOLEAN
    OBVIOUS
  <2>3. new.borrowers = left
    BY <1>2 DEF EntryRecord
  <2>4. left = entries[e].borrowers - 1
    OBVIOUS
  <2> HIDE DEF left, closing
  <2> QED BY <1>2, <2>1, <2>2, <2>3, <2>4 DEF EntryRecord
<1>4. entries' = [entries EXCEPT ![e] = new] /\ table' = table
  BY <1>1, <1>2 DEF ReleaseBorrower, Inv, Shape, EntryRecord
<1>5. /\ rec \in RequestRecord /\ rec.at = "finishing" /\ rec.todo = {e}
      /\ moved = [request EXCEPT ![r] = rec]
  BY <1>1, <1>2 DEF RequestRecord, Places, Inv, Shape
<1>6. \/ closes /\ NotifyWith(moved)
      \/ NotifyWith(Onward(r))
  BY DEF ReleaseBorrower
<1>7. closes => new.dead /\ Ready(e)
  <2>1. r \in Borrowers(e)
    BY <1>1 DEF Borrowers, Borrowing
  <2>2. closes => Ready(e)
    BY <1>1, <2>1, UnborrowedReady
  <2> QED BY <1>3, <2>2
<1>8. Accounts(r, e, new)
  <2>1. /\ shutdown' = shutdown
        /\ retiring' = [retiring EXCEPT !.users = @ - (IF entries[e].retiring THEN 1 ELSE 0)]
    BY DEF ReleaseBorrower
  <2>2. retiring' = [count |-> retiring.count, users |-> retiring'.users]
    BY <2>1 DEF Inv, Books
  <2>3. Loaded(new) => Loaded(entries[e])
    BY <1>3 DEF Loaded
  <2> HIDE DEF new, e
  <2> QED BY <1>1, <1>3, <1>4, <2>1, <2>2, <2>3, SameBooks
<1> HIDE DEF new, e, rec, moved, closes
<1>9. Changes(r, e, new)
  BY <1>1, <1>3, <1>4 DEF Changes, Inv, ReadyOpen
<1>10. Leaves(r, e, new) /\ request'[r].at \notin Borrowing
  <2>1. CASE closes /\ NotifyWith(moved)
    <3>1. /\ RequestsKept(r) /\ ClosersKept(r)
          /\ request'[r].todo = {e} /\ request'[r].at = "finishing"
      BY <1>5, <2>1, RecordNotify DEF Inv
    <3> QED BY <1>3, <1>7, <2>1, <3>1 DEF Leaves, Having, Owning, Borrowing, Ready
  <2>2. CASE NotifyWith(Onward(r))
    <3>1. /\ RequestsKept(r) /\ ClosersKept(r) /\ request'[r].todo \subseteq request[r].todo
          /\ request'[r].at \in {"lease", "idle"}
      BY <2>2, OnwardNotify DEF Inv
    <3> QED BY <3>1 DEF Leaves, Having, Owning, Borrowing
  <2> QED BY <1>6, <2>1, <2>2
<1>11. Lends'
  <2>1. /\ DOMAIN entries' = DOMAIN entries /\ entries'[e] = new
        /\ \A d \in DOMAIN entries \ {e} : entries'[d] = entries[d]
    BY <1>1, <1>4 DEF Inv, Shape
  <2> QED BY <1>1, <1>3, <1>10, <2>1, LendsGivenBack DEF Leaves
<1> QED BY <1>8, <1>9, <1>10, <1>11, OwnEntryStep

\* What closing an entry changes.
LEMMA ClosingEntry ==
  ASSUME Inv, NEW p \in Requests \cup Closers, NEW e \in DOMAIN entries, entries[e].mu = Free,
         entries[e].dead, Closing(e, p), table' = table
  PROVE  \E new : /\ Changes(p, e, new) /\ new.mu = p /\ new.model # "open"
                  /\ new.dead /\ new.state = entries[e].state /\ new.retiring = entries[e].retiring
                  /\ new.borrowers = entries[e].borrowers /\ (Loaded(new) => Loaded(entries[e]))
<1> DEFINE model == IF entries[e].model = "open" THEN "closing" ELSE entries[e].model
           new == [entries[e] EXCEPT !.mu = p, !.model = model]
<1>1. entries[e] \in EntryRecord
  BY DEF Inv, Shape
<1>2. model \in {"none", "closing", "closed"} /\ (model = "closing" => entries[e].model \in {"open", "closing"})
  BY <1>1 DEF EntryRecord
<1>3. entries' = [entries EXCEPT ![e] = new]
  BY <1>1 DEF Closing, Inv, Shape, EntryRecord
<1> HIDE DEF model
<1>4. /\ new \in EntryRecord /\ new.dead /\ new.mu = p /\ new.model = model
      /\ new.state = entries[e].state /\ new.retiring = entries[e].retiring
      /\ new.borrowers = entries[e].borrowers
  BY <1>1, <1>2 DEF EntryRecord
<1> HIDE DEF new
<1>5. Changes(p, e, new)
  BY <1>3, <1>4 DEF Changes
<1>6. Loaded(new) => Loaded(entries[e])
  BY <1>2, <1>4 DEF Loaded
<1> QED BY <1>2, <1>4, <1>5, <1>6

LEMMA BeginFinishStep ==
  ASSUME Inv, NEW r \in Requests, BeginFinish(r)
  PROVE  Inv' /\ Stepped(r)
<1>1. PICK e \in request[r].todo :
        /\ entries[e].mu = Free
        /\ Closing(e, r)
        /\ request' = [request EXCEPT ![r].at = IF @ = "evicting" THEN "evicted" ELSE "finished",
                                      ![r].entry = e, ![r].todo = @ \ {e}]
  BY DEF BeginFinish
<1> DEFINE at == IF request[r].at = "evicting" THEN "evicted" ELSE "finished"
           rec == [request[r] EXCEPT !.at = at, !.entry = e, !.todo = @ \ {e}]
<1>2. /\ request[r] \in RequestRecord /\ e \in DOMAIN entries /\ entries[e].dead /\ e \in Nat
      /\ Ready(e) /\ request[r].at \in {"finishing", "evicting"}
  BY DEF Inv, GoodRequest, Shape, BeginFinish
<1>3. /\ rec \in RequestRecord /\ rec.at \in {"evicted", "finished"} /\ rec.entry = e
      /\ rec.todo \subseteq request[r].todo
  BY <1>2 DEF RequestRecord, Places
<1>4. request' = [request EXCEPT ![r] = rec]
  BY <1>1, <1>2 DEF RequestRecord, Inv, Shape
<1> HIDE DEF rec, at
<1>5. PICK new : /\ Changes(r, e, new) /\ new.mu = r /\ new.model # "open"
                 /\ new.dead /\ new.state = entries[e].state /\ new.retiring = entries[e].retiring
                 /\ new.borrowers = entries[e].borrowers /\ (Loaded(new) => Loaded(entries[e]))
  BY <1>1, <1>2, ClosingEntry DEF BeginFinish
<1>6. /\ request' \in [Requests -> RequestRecord] /\ request'[r] = rec
      /\ \A q \in Requests \ {r} : request'[q] = request[q]
  BY <1>3, <1>4 DEF Inv, Shape
<1>7. RequestsKept(r) /\ ClosersKept(r)
  BY <1>6, MoveKeeps DEF Inv, BeginFinish
<1>8. Leaves(r, e, new)
  BY <1>2, <1>3, <1>5, <1>6, <1>7 DEF Leaves, Ready
<1>9. Accounts(r, e, new)
  <2>1. /\ retiring' = [count |-> retiring.count, users |-> retiring'.users]
        /\ shutdown' = shutdown /\ table' = table
    BY DEF BeginFinish, Inv, Books
  <2> QED BY <1>2, <1>5, <2>1, SameBooks
<1> QED BY <1>2, <1>3, <1>5, <1>6, <1>8, <1>9, OwnEntryUse DEF Borrowing

LEMMA EndFinishStep ==
  ASSUME Inv, NEW r \in Requests, EndFinish(r)
  PROVE  Inv' /\ Stepped(r)
<1> DEFINE e == Entry(r)
           new == [entries[e] EXCEPT !.mu = Free, !.model = ClosedModel(@), !.retiring = FALSE]
<1>1. /\ RequestsKept(r) /\ ClosersKept(r) /\ request'[r].todo \subseteq request[r].todo
      /\ request'[r].at \in {"finishing", "lease", "idle"}
  <2>1. CASE NotifyWith(Moved(r, "finishing"))
    <3>1. "finishing" \in Places \ {"parked"}
      BY DEF Places
    <3> QED BY <2>1, <3>1, AtNotify DEF Inv
  <2>2. CASE NotifyWith(Onward(r)) \/ NotifyWith(Done(r))
    BY <2>2, OnwardNotify DEF Inv
  <2> QED BY <2>1, <2>2 DEF EndFinish, Moved
<1>2. /\ e \in DOMAIN entries /\ entries[e].mu = r /\ Ready(e) /\ entries[e].model # "open"
      /\ request[r].at \in {"finished", "evicted"}
  BY DEF EndFinish, Inv, GoodRequest, Having, Owning
<1>3. entries[e] \in EntryRecord
  BY <1>2 DEF Inv, Shape
<1>4. /\ new \in EntryRecord /\ new.dead = entries[e].dead /\ new.state = entries[e].state
      /\ new.model \notin {"open", "closing"} /\ ~new.retiring
      /\ new.borrowers = entries[e].borrowers
  BY <1>2, <1>3 DEF EntryRecord, ClosedModel
<1>5. entries' = [entries EXCEPT ![e] = new] /\ table' = table
  BY <1>2, <1>3 DEF EndFinish, Inv, Shape, EntryRecord
<1>6. /\ shutdown' = shutdown
      /\ retiring' = [retiring EXCEPT !.count = @ - (IF entries[e].retiring THEN 1 ELSE 0)]
  BY DEF EndFinish
<1> HIDE DEF new, e
<1>7. Changes(r, e, new)
  BY <1>2, <1>4, <1>5 DEF Changes, Inv, ReadyOpen
<1>8. Leaves(r, e, new)
  BY <1>1 DEF Leaves, Having, Owning
<1>9. Accounts(r, e, new)
  <2>1. ~Loaded(new)
    BY <1>2, <1>4 DEF Loaded, Ready
  <2>2. retiring = [count |-> retiring.count, users |-> retiring.users] /\ retiring.count \in Nat
    BY HeldFinite, FS_CardinalityType DEF Inv, Books
  <2>3. /\ retiring'.count = IF entries[e].retiring THEN retiring.count - 1 ELSE retiring.count
        /\ retiring' = [count |-> retiring'.count, users |-> retiring'.users]
    BY <1>6, <2>2
  <2> QED BY <1>2, <1>4, <1>6, <2>1, <2>3 DEF Accounts
<1> QED BY <1>1, <1>2, <1>4, <1>7, <1>8, <1>9, OwnEntryUse DEF Borrowing

------------------------------------------------------------------------------
(* Steps of a Close *)

LEMMA CloserMoves ==
  ASSUME Shape, NEW c \in Closers, NEW new \in CloserRecord, NEW f,
         f = closer \/ f = Notified(closer),
         closer' = [f EXCEPT ![c] = new],
         request' = request \/ request' = Notified(request)
  PROVE  RequestsKept(c) /\ ClosersKept(c) /\ closer'[c] = new
<1>1. RequestsKept(c)
  BY NotifiedRequests DEF RequestsKept, Shape
<1>2. /\ f \in [Closers -> CloserRecord]
      /\ \A q \in Closers : /\ f[q].entry = closer[q].entry /\ f[q].todo = closer[q].todo
                            /\ \/ f[q].at = closer[q].at
                               \/ closer[q].at = "parked" /\ f[q].at = "woken"
  BY NotifiedClosers DEF Shape
<1> QED BY <1>1, <1>2 DEF ClosersKept

\* What the other Close calls have taken stays taken.
LEMMA TakesKept ==
  ASSUME NEW c \in Closers, ClosersKept(c)
  PROVE  \A d \in Closers \ {c} :
           /\ Takes(d)' = Takes(d) /\ closer'[d].todo = closer[d].todo
           /\ closer'[d].at \in {"closing", "inside"} <=> closer[d].at \in {"closing", "inside"}
BY DEF ClosersKept, Takes

\* Close flags nothing, and gives back at most what it took.
LEMMA BooksByCloser ==
  ASSUME Inv, NEW c \in Closers, RequestsKept(c), ShutClosers', retiring' = retiring,
         shutdown' \in ShutdownRecord,
         Flagged' = Flagged, Tabled' \subseteq Tabled, Held' \subseteq Held, Resident' \subseteq Held',
         shutdown'.shutting \/ shutdown'.shut =>
           shutdown'.closed /\ Tabled' = {} /\ Flagged \subseteq Taken',
         Taken' \cap Flagged \subseteq Taken
  PROVE  Books'
<1>1. Cardinality(Held') <= Capacity
  <2>1. Cardinality(Held') <= Cardinality(Held) /\ Cardinality(Held) \in Nat /\ Cardinality(Held') \in Nat
    BY HeldFinite, FS_Subset, FS_CardinalityType
  <2> QED BY <2>1, SessionsAssumption DEF Inv, Books
<1>2. \A r \in Requests : \A e : Retires(r, e) => Retires(r, e)'
  BY SessionsAssumption DEF RequestsKept, Retires, Entry
<1>3. Emptied'
  BY <1>2 DEF Inv, Books, Emptied
<1> QED BY <1>1, <1>3 DEF Inv, Books

\* A Close that leaves the entries alone, and has taken none.
LEMMA CloserQuiet ==
  ASSUME Inv, NEW c \in Closers, RequestsKept(c), ClosersKept(c),
         entries' = entries, table' = table, retiring' = retiring,
         closer[c].at # "inside", closer'[c].at \notin {"closing", "inside"},
         closer[c].todo = {}, closer'[c].todo = {},
         shutdown' \in ShutdownRecord,
         shutdown'.shutting \/ shutdown'.shut =>
           (shutdown.shutting \/ shutdown.shut) /\ shutdown'.closed,
         shutdown.shutting => shutdown'.shutting \/ closer[c].at = "closing"
  PROVE  Inv' /\ Stepped(c)
<1>1. GoodCloser(c)'
  BY DEF Inv, GoodCloser
<1>2. c \notin Requests
  BY SessionsAssumption
<1>3. Takes(c) = {} /\ Takes(c)' = {}
  BY DEF Takes
<1>4. Taken' = Taken
  BY <1>3, TakesKept DEF Taken
<1>5. ShutClosers'
  BY TakesKept DEF Inv, Books, ShutClosers
<1>6. Tabled' = Tabled /\ Flagged' = Flagged /\ Resident' = Resident /\ Held' = Held
  BY <1>4 DEF Tabled, Flagged, Resident, Held
<1>7. Books'
  BY <1>4, <1>5, <1>6, BooksByCloser DEF Inv, Books, Emptied
<1>8. Lends'
  BY <1>2, LendsKept DEF Ready
<1> QED BY <1>1, <1>2, <1>7, <1>8, EntriesKept, StepKeeps

LEMMA CloseWaitsStep ==
  ASSUME Inv, NEW c \in Closers, CloseWaits(c)
  PROVE  Inv' /\ Stepped(c)
<1> DEFINE f == IF shutdown.closed THEN closer ELSE Notified(closer)
           new == [f[c] EXCEPT !.at = "parked"]
<1>1. f \in [Closers -> CloserRecord] /\ f[c].todo = closer[c].todo
  BY NotifiedClosers DEF Inv, Shape
<1>2. f = closer \/ f = Notified(closer)
  OBVIOUS
<1>3. closer' = [f EXCEPT ![c].at = "parked"]
  BY DEF CloseWaits
<1> HIDE DEF f
<1>4. new \in CloserRecord /\ new.at = "parked" /\ new.todo = closer[c].todo
  BY <1>1 DEF CloserRecord
<1>5. closer' = [f EXCEPT ![c] = new]
  BY <1>1, <1>3 DEF CloserRecord
<1> HIDE DEF new
<1>6. RequestsKept(c) /\ ClosersKept(c) /\ closer'[c] = new
  BY <1>2, <1>4, <1>5, CloserMoves DEF CloseWaits, Inv
<1>7. closer[c].at \notin {"closing", "inside"} /\ closer[c].todo = {}
  BY DEF CloseWaits, Inv, Books, ShutClosers
<1>8. /\ shutdown' \in ShutdownRecord
      /\ shutdown'.closed /\ shutdown'.shutting = shutdown.shutting /\ shutdown'.shut = shutdown.shut
  BY DEF CloseWaits, Inv, Books, ShutdownRecord
<1> QED BY <1>4, <1>6, <1>7, <1>8, CloserQuiet DEF CloseWaits

LEMMA CloseMovesStep ==
  ASSUME Inv, NEW c \in Closers, CloseFollows(c) \/ CloseCancelled(c) \/ CloseReturns(c)
  PROVE  Inv' /\ Stepped(c)
<1> DEFINE f == IF CloseReturns(c) THEN Notified(closer) ELSE closer
<1>1. f \in [Closers -> CloserRecord] /\ f[c].todo = closer[c].todo
  BY NotifiedClosers DEF Inv, Shape
<1>2. f = closer \/ f = Notified(closer)
  OBVIOUS
<1>3. PICK at \in {"returned", "idle"} : closer' = [f EXCEPT ![c].at = at]
  BY DEF CloseFollows, CloseCancelled, CloseReturns
<1>4. request' = request \/ request' = Notified(request)
  BY DEF CloseFollows, CloseCancelled, CloseReturns
<1>5. entries' = entries /\ table' = table /\ retiring' = retiring
  BY DEF CloseFollows, CloseCancelled, CloseReturns
<1> DEFINE new == [f[c] EXCEPT !.at = at]
<1> HIDE DEF f
<1>6. new \in CloserRecord /\ new.at = at /\ new.todo = closer[c].todo
  BY <1>1, <1>3 DEF CloserRecord
<1>7. closer' = [f EXCEPT ![c] = new]
  BY <1>1, <1>3 DEF CloserRecord
<1> HIDE DEF new
<1>8. RequestsKept(c) /\ ClosersKept(c) /\ closer'[c] = new
  BY <1>2, <1>4, <1>6, <1>7, CloserMoves DEF Inv
<1>9. closer[c].at # "inside" /\ closer[c].todo = {}
  BY DEF CloseFollows, CloseCancelled, CloseReturns, Inv, Books, ShutClosers
<1>10. /\ shutdown' \in ShutdownRecord
       /\ shutdown'.shutting \/ shutdown'.shut =>
            (shutdown.shutting \/ shutdown.shut) /\ shutdown'.closed
       /\ shutdown.shutting => shutdown'.shutting \/ closer[c].at = "closing"
  <2>1. shutdown \in ShutdownRecord
        /\ (shutdown.shutting \/ shutdown.shut => shutdown.closed)
        /\ (closer[c].at = "closing" => shutdown.shutting)
    BY DEF Inv, Books, Emptied, ShutClosers
  <2>2. CASE CloseReturns(c)
    BY <2>1, <2>2 DEF CloseReturns, ShutdownRecord
  <2>3. CASE CloseFollows(c) \/ CloseCancelled(c)
    BY <2>1, <2>3 DEF CloseFollows, CloseCancelled
  <2> QED BY <2>2, <2>3
<1> QED BY <1>3, <1>5, <1>6, <1>8, <1>9, <1>10, CloserQuiet

LEMMA CloseTakesStep ==
  ASSUME Inv, NEW c \in Closers, CloseTakes(c)
  PROVE  Inv' /\ Stepped(c)
<1> DEFINE held == {table[k] : k \in {k \in Keys : table[k] # 0}}
           f == Notified(closer)
           rec == [f[c] EXCEPT !.at = "closing", !.todo = held]
<1>1. /\ closer' = [f EXCEPT ![c].at = "closing", ![c].todo = held]
      /\ entries' = [e \in DOMAIN entries |->
                       IF e \in held THEN [entries[e] EXCEPT !.dead = TRUE] ELSE entries[e]]
      /\ request' = Notified(request) /\ table' = [k \in Keys |-> 0] /\ retiring' = retiring
      /\ ~shutdown.shutting /\ ~shutdown.shut /\ ~(retiring.count > 0)
  BY DEF CloseTakes, MustWait
<1>2. DOMAIN entries = 1 .. Len(entries) /\ Len(entries) \in Nat
      /\ \A e \in DOMAIN entries : entries[e] \in EntryRecord
  BY DEF Inv, Shape
<1>3. held \subseteq DOMAIN entries /\ held \in SUBSET Nat /\ held = Tabled
  BY <1>2 DEF Inv, Shape, Tabled
<1>4. f \in [Closers -> CloserRecord]
  BY NotifiedClosers DEF Inv, Shape
<1> HIDE DEF held, f
<1>5. rec \in CloserRecord /\ rec.at = "closing" /\ rec.todo = held
  BY <1>3, <1>4 DEF CloserRecord
<1>6. closer' = [f EXCEPT ![c] = rec]
  BY <1>1, <1>4 DEF CloserRecord
<1> HIDE DEF rec
<1>7. RequestsKept(c) /\ ClosersKept(c) /\ closer'[c] = rec
  <2>1. f = closer \/ f = Notified(closer)
    BY DEF f
  <2>2. request' = request \/ request' = Notified(request)
    BY <1>1
  <2> QED BY <1>5, <1>6, <2>1, <2>2, CloserMoves DEF Inv
<1>8. \A e \in DOMAIN entries :
        /\ entries'[e] \in EntryRecord
        /\ entries'[e].mu = entries[e].mu /\ entries'[e].model = entries[e].model
        /\ entries'[e].state = entries[e].state /\ entries'[e].retiring = entries[e].retiring
        /\ entries'[e].borrowers = entries[e].borrowers
        /\ entries[e].dead => entries'[e].dead
        /\ e \in held => entries'[e].dead
  BY <1>1, <1>2, Zenon DEF EntryRecord
<1>9. entries' \in Seq(EntryRecord) /\ Len(entries') = Len(entries) /\ DOMAIN entries' = DOMAIN entries
  <2>1. entries' \in [1 .. Len(entries) -> EntryRecord]
    BY <1>1, <1>2, <1>8
  <2> QED BY <1>2, <2>1
<1>10. Tame(c)
  BY <1>2, <1>8, <1>9 DEF Tame, Ready
<1>11. TableShape' /\ TableLive'
  BY <1>1, <1>2, <1>9 DEF TableShape, TableLive
<1>12. ReadyOpen'
  BY <1>2, <1>8, <1>9 DEF ReadyOpen, Inv
<1>13. GoodCloser(c)'
  BY <1>2, <1>3, <1>5, <1>7, <1>8, <1>9 DEF GoodCloser
<1>14. c \notin Requests
  BY SessionsAssumption
<1>15. Flagged = {} /\ Taken = {}
  <2>1. Cardinality(Flagged) \in Nat /\ retiring.count = Cardinality(Flagged)
    BY HeldFinite, FS_CardinalityType DEF Inv, Books
  <2> QED BY <1>1, <2>1, HeldFinite, FS_EmptySet, TakenWhileShutting
<1>16. Flagged' = Flagged /\ Resident' = Resident /\ Tabled' = {}
  <2>1. Flagged' = Flagged /\ Resident' = Resident
    BY <1>8, <1>9 DEF Flagged, Resident
  <2>2. Tabled' = {}
    BY <1>1 DEF Tabled
  <2> QED BY <2>1, <2>2
<1>17. Taken' = held
  <2>1. \A d \in Closers \ {c} : Takes(d)' = {}
    BY <1>7, <1>15, TakesKept DEF Taken
  <2>2. Takes(c)' = held
    BY <1>5, <1>7 DEF Takes
  <2> QED BY <2>1, <2>2 DEF Taken
<1>18. /\ shutdown' \in ShutdownRecord
       /\ shutdown'.closed /\ shutdown'.shutting
  BY <1>1 DEF CloseTakes, Inv, Books, ShutdownRecord
<1>19. ShutClosers'
  <2>1. \A d \in Closers : closer[d].at \notin {"closing", "inside"} /\ closer[d].todo = {}
    BY <1>1 DEF Inv, Books, ShutClosers
  <2>2. \A d \in Closers \ {c} : closer'[d].at \notin {"closing", "inside"} /\ closer'[d].todo = {}
    BY <1>7, <2>1, TakesKept
  <2> QED BY <1>5, <1>7, <1>18, <2>2 DEF ShutClosers
<1>20. Books'
  <2>1. Held' = Held /\ Held = held
    BY <1>3, <1>15, <1>16, <1>17 DEF Held
  <2> QED BY <1>1, <1>7, <1>15, <1>16, <1>18, <1>19, <2>1, BooksByCloser DEF Inv, Books
<1>21. Lends'
  BY <1>7, <1>8, <1>9, <1>14, LendsKept DEF Ready
<1> QED BY <1>7, <1>10, <1>11, <1>12, <1>13, <1>14, <1>20, <1>21, StepKeeps

\* A Close that changes one of the entries it took.
LEMMA CloserEntry ==
  ASSUME Inv, NEW c \in Closers, RequestsKept(c), ClosersKept(c),
         NEW e, NEW new, Changes(c, e, new), table' = table, retiring' = retiring, shutdown' = shutdown,
         new.retiring = entries[e].retiring, new.borrowers = entries[e].borrowers,
         new.state = entries[e].state, Loaded(new) => Loaded(entries[e]),
         closer[c].at \in {"closing", "inside"}, closer'[c].at \in {"closing", "inside"},
         Takes(c)' \subseteq Takes(c), Takes(c) \ {e} \subseteq Takes(c)',
         e \in Takes(c)' \/ (e \notin Flagged /\ ~Loaded(new)),
         GoodCloser(c)'
  PROVE  Inv' /\ Stepped(c)
<1>1. /\ DOMAIN entries' = DOMAIN entries /\ e \in DOMAIN entries /\ entries'[e] = new
      /\ \A d \in DOMAIN entries \ {e} : entries'[d] = entries[d]
  BY DEF Changes, Inv, Shape
<1>2. c \notin Requests
  BY SessionsAssumption
<1>3. /\ Flagged' = IF new.retiring THEN Flagged \cup {e} ELSE Flagged \ {e}
      /\ Resident' = IF Loaded(new) THEN Resident \cup {e} ELSE Resident \ {e}
      /\ Tabled' = Tabled
  BY EntrySets
<1>4. Flagged' = Flagged /\ Resident' \subseteq Resident
  BY <1>1, <1>3 DEF Flagged, Resident, Loaded
<1>5. Taken' \subseteq Taken /\ Taken \ {e} \subseteq Taken' /\ Takes(c)' \subseteq Taken'
  BY TakesKept DEF Taken
<1>6. e \in Taken' \/ (e \notin Flagged /\ e \notin Resident')
  BY <1>3, <1>5
<1>7. ShutClosers'
  BY TakesKept DEF Inv, Books, ShutClosers
<1>8. Held' \subseteq Held
  BY <1>3, <1>4, <1>5 DEF Held
<1>9. Resident' \subseteq Held'
  <2>1. Resident \subseteq Tabled \cup Flagged \cup Taken
    BY DEF Inv, Books, Held
  <2> QED BY <1>3, <1>4, <1>5, <1>6, <2>1 DEF Held
<1>10. Books'
  <2>1. shutdown.shutting \/ shutdown.shut => shutdown.closed /\ Tabled = {} /\ Flagged \subseteq Taken
    BY DEF Inv, Books, Emptied
  <2>2. shutdown \in ShutdownRecord
    BY DEF Inv, Books
  <2> QED BY <1>3, <1>4, <1>5, <1>6, <1>7, <1>8, <1>9, <2>1, <2>2, BooksByCloser
<1>11. Lends'
  BY <1>1, <1>2, LendsKept DEF Ready
<1> QED BY <1>2, <1>10, <1>11, EntryStep, StepKeeps

LEMMA CloseBeginsStep ==
  ASSUME Inv, NEW c \in Closers, CloseBegins(c)
  PROVE  Inv' /\ Stepped(c)
<1>1. PICK e \in closer[c].todo :
        /\ Ready(e) /\ entries[e].mu = Free
        /\ Closing(e, c)
        /\ closer' = [closer EXCEPT ![c].at = "inside", ![c].entry = e, ![c].todo = @ \ {e}]
  BY DEF CloseBegins
<1> DEFINE rec == [closer[c] EXCEPT !.at = "inside", !.entry = e, !.todo = @ \ {e}]
<1>2. /\ closer[c] \in CloserRecord /\ e \in DOMAIN entries /\ entries[e].dead /\ e \in Nat
      /\ closer[c].at = "closing"
  BY DEF Inv, GoodCloser, Shape, CloseBegins
<1>3. rec \in CloserRecord /\ rec.entry = e /\ rec.todo = closer[c].todo \ {e} /\ rec.at = "inside"
  BY <1>2 DEF CloserRecord
<1>4. closer' = [closer EXCEPT ![c] = rec]
  BY <1>1, <1>2 DEF CloserRecord, Inv, Shape
<1> HIDE DEF rec
<1>5. PICK new : /\ Changes(c, e, new) /\ new.mu = c /\ new.model # "open"
                 /\ new.dead /\ new.state = entries[e].state /\ new.retiring = entries[e].retiring
                 /\ new.borrowers = entries[e].borrowers /\ (Loaded(new) => Loaded(entries[e]))
  BY <1>1, <1>2, ClosingEntry DEF CloseBegins
<1>6. RequestsKept(c) /\ ClosersKept(c) /\ closer'[c] = rec
  BY <1>3, <1>4, CloserMoves DEF Inv, CloseBegins
<1>7. Tame(c) /\ TableShape' /\ TableLive' /\ ReadyOpen'
  BY <1>5, EntryStep
<1>8. DOMAIN entries' = DOMAIN entries /\ entries'[e] = new
  BY <1>5 DEF Changes, Inv, Shape
<1>9. GoodCloser(c)'
  <2>1. e \in DOMAIN entries' /\ entries'[e].mu = c /\ Ready(e)' /\ entries'[e].model # "open"
    BY <1>1, <1>2, <1>5, <1>7, <1>8 DEF Tame
  <2>2. \A d \in closer[c].todo : d \in DOMAIN entries' /\ entries'[d].dead
    BY <1>7, <1>8 DEF GoodCloser, Tame, Inv
  <2> QED BY <1>3, <1>6, <2>1, <2>2 DEF GoodCloser
<1>10. Takes(c)' = Takes(c) /\ e \in Takes(c)'
  BY <1>1, <1>2, <1>3, <1>6 DEF Takes
<1>11. table' = table /\ retiring' = retiring /\ shutdown' = shutdown
  BY DEF CloseBegins
<1> QED BY <1>2, <1>3, <1>5, <1>6, <1>9, <1>10, <1>11, CloserEntry

LEMMA CloseEndsStep ==
  ASSUME Inv, NEW c \in Closers, CloseEnds(c)
  PROVE  Inv' /\ Stepped(c)
<1> DEFINE e == closer[c].entry
           new == [entries[e] EXCEPT !.mu = Free, !.model = ClosedModel(@)]
           rec == [closer[c] EXCEPT !.at = "closing", !.entry = 0]
<1>1. /\ closer[c] \in CloserRecord /\ e \in DOMAIN entries /\ entries[e].mu = c
      /\ Ready(e) /\ entries[e].model # "open" /\ closer[c].at = "inside"
  BY DEF CloseEnds, Inv, GoodCloser, Shape
<1>2. entries[e] \in EntryRecord
  BY <1>1 DEF Inv, Shape
<1>3. /\ new \in EntryRecord /\ new.dead = entries[e].dead /\ new.state = entries[e].state
      /\ new.model \notin {"open", "closing"} /\ new.retiring = entries[e].retiring
      /\ new.borrowers = entries[e].borrowers
  BY <1>1, <1>2 DEF EntryRecord, ClosedModel
<1>4. entries' = [entries EXCEPT ![e] = new] /\ table' = table
  BY <1>1, <1>2 DEF CloseEnds, Inv, Shape, EntryRecord
<1>5. rec \in CloserRecord /\ rec.at = "closing" /\ rec.todo = closer[c].todo
  BY <1>1 DEF CloserRecord
<1>6. closer' = [closer EXCEPT ![c] = rec] /\ request' = request
  BY <1>1 DEF CloserRecord, CloseEnds, Inv, Shape
<1>7. Takes(c) = closer[c].todo \cup {e}
  BY <1>1 DEF Takes
<1> HIDE DEF new, e, rec
<1>8. Changes(c, e, new)
  BY <1>1, <1>3, <1>4 DEF Changes, Inv, ReadyOpen
<1>9. RequestsKept(c) /\ ClosersKept(c) /\ closer'[c] = rec
  BY <1>5, <1>6, CloserMoves DEF Inv
<1>10. Tame(c) /\ TableShape' /\ TableLive' /\ ReadyOpen'
  BY <1>8, EntryStep
<1>11. GoodCloser(c)'
  BY <1>5, <1>9, <1>10 DEF GoodCloser, Tame, Inv, Shape
<1>12. Takes(c)' = closer[c].todo
  BY <1>5, <1>9 DEF Takes
<1>13. e \notin Flagged
  <2>1. SUFFICES ASSUME e \in Flagged PROVE FALSE
    OBVIOUS
  <2>2. e \in Taken
    BY <1>7 DEF Taken
  <2>3. PICK r \in Requests : Retires(r, e)
    BY <2>1, <2>2 DEF Inv, Books, Emptied
  <2>4. entries[e].mu = r
    BY <2>3 DEF Retires, Inv, GoodRequest, Owning
  <2> QED BY <1>1, <2>4, SessionsAssumption
<1>14. ~Loaded(new)
  BY <1>1, <1>3 DEF Loaded, Ready
<1>15. retiring' = retiring /\ shutdown' = shutdown
  BY DEF CloseEnds
<1> QED BY <1>1, <1>3, <1>4, <1>5, <1>7, <1>8, <1>9, <1>11, <1>12, <1>13, <1>14, <1>15, CloserEntry

------------------------------------------------------------------------------
(* Turns of the lease loop that supersede on their way *)

\* What is superseded had a place in the table.
LEMMA GoneTabled ==
  ASSUME Inv, NEW r \in Requests
  PROVE  /\ Gone(r) \subseteq Tabled /\ IsFiniteSet(Gone(r)) /\ Gone(r) \cap Flagged = {}
         /\ {Superseded(r).table[k] : k \in Keys} \ {0} = Tabled \ Gone(r)
         /\ {e \in DOMAIN entries : Superseded(r).entries[e].retiring} = Flagged \cup Gone(r)
<1> DEFINE view == Superseded(r)
<1>1. /\ \A k \in Keys : view.table[k] = IF k \in Stale(r) THEN 0 ELSE table[k]
      /\ \A e \in DOMAIN entries :
           view.entries[e].retiring <=> entries[e].retiring \/ e \in Gone(r)
  BY SupersededKeeps DEF Inv, SupersedesWell, ViewWell
<1> HIDE DEF view
<1>2. Gone(r) \subseteq Tabled
  BY DEF Gone, Stale, Tabled
<1>3. IsFiniteSet(Gone(r)) /\ Tabled \subseteq DOMAIN entries
  BY <1>2, HeldFinite, FS_Subset DEF Held
<1>4. Gone(r) \cap Flagged = {}
  BY <1>2 DEF Inv, Books
<1>5. {view.table[k] : k \in Keys} \ {0} = Tabled \ Gone(r)
  <2>1. ASSUME NEW k \in Keys, view.table[k] # 0 PROVE table[k] \notin Gone(r)
    BY <1>1, <2>1 DEF Gone, Stale, Inv, TableLive
  <2>2. ASSUME NEW k \in Keys, table[k] \notin Gone(r), table[k] # 0 PROVE view.table[k] = table[k]
    BY <1>1, <2>2 DEF Gone
  <2> QED BY <1>1, <2>1, <2>2 DEF Tabled
<1>6. {e \in DOMAIN entries : view.entries[e].retiring} = Flagged \cup Gone(r)
  BY <1>1, <1>2, <1>3 DEF Flagged
<1> QED BY <1>2, <1>3, <1>4, <1>5, <1>6 DEF view

LEMMA DisjointCount ==
  ASSUME NEW A, NEW B, IsFiniteSet(A), IsFiniteSet(B), A \cap B = {}
  PROVE  /\ Cardinality(A) \in Nat /\ Cardinality(B) \in Nat
         /\ Cardinality(A \cup B) = Cardinality(A) + Cardinality(B)
<1>1. Cardinality(A) \in Nat /\ Cardinality(B) \in Nat
  BY FS_CardinalityType
<1>2. Cardinality(A \cap B) = 0
  BY FS_EmptySet
<1>3. Cardinality(A \cup B) = Cardinality(A) + Cardinality(B) - Cardinality(A \cap B)
  BY FS_Union
<1> QED BY <1>1, <1>2, <1>3

\* A request that takes entries out of the table and flags them.
LEMMA BooksFlag ==
  ASSUME Inv, NEW r \in Requests, RequestsKept(r), ClosersKept(r), request[r].at # "retiring",
         shutdown' = shutdown, NEW gone \in SUBSET Tabled,
         Tabled' = Tabled \ gone, Flagged' = Flagged \cup gone, Resident' = Resident,
         retiring' = [count |-> retiring.count + Cardinality(gone), users |-> retiring'.users]
  PROVE  Books'
<1>1. IsFiniteSet(gone) /\ gone \cap Flagged = {}
  BY HeldFinite, FS_Subset DEF Inv, Books
<1>2. Cardinality(Flagged \cup gone) = retiring.count + Cardinality(gone)
  <2>1. retiring.count = Cardinality(Flagged)
    BY DEF Inv, Books
  <2> QED BY <1>1, <2>1, HeldFinite, DisjointCount
<1>3. /\ Flagged' \subseteq Held /\ Tabled' \subseteq Tabled /\ Tabled' \cap Flagged' = {}
      /\ Resident' \subseteq Tabled' \cup Flagged' \cup Taken
  BY DEF Held, Inv, Books
<1>4. \A e \in Flagged' : e \in Tabled \/ (e \in Flagged /\ ~Retires(r, e))
  BY DEF Retires
<1> QED BY <1>2, <1>3, <1>4, BooksByRequest

\* One entry changes once the others are superseded: it is bound to the request,
\* or evicted.
ChangesFrom(view, r, e, new) ==
  /\ e \in DOMAIN entries /\ new \in EntryRecord
  /\ entries' = [view.entries EXCEPT ![e] = new]
  /\ view.entries[e].dead => new.dead
  /\ \/ entries[e].mu \in {Free, r}
     \/ new.mu = entries[e].mu
  /\ new.state = entries[e].state /\ new.model = entries[e].model
  /\ \/ /\ table' = view.table /\ (new.dead => view.entries[e].dead)
        /\ (new.retiring <=> view.entries[e].retiring)
        /\ retiring' = view.retiring
     \/ /\ \E k \in Keys : view.table[k] = e /\ table' = [view.table EXCEPT ![k] = 0]
        /\ new.retiring
        /\ retiring' = [view.retiring EXCEPT !.count = @ + 1]

ChangesView(r, e, new) == ChangesFrom(Superseded(r), r, e, new)

LEMMA SupersedeAndChange ==
  ASSUME Inv, NEW r \in Requests, NEW e, NEW new, ChangesView(r, e, new)
  PROVE  /\ Tame(r) /\ TableShape' /\ TableLive' /\ ReadyOpen'
         /\ DOMAIN entries' = DOMAIN entries /\ entries'[e] = new
         /\ \A d \in DOMAIN entries : Ready(d)' <=> Ready(d)
         /\ \A d \in DOMAIN entries \ {e} : entries'[d].borrowers = entries[d].borrowers
<1> DEFINE view == Superseded(r)
<1>1. /\ DOMAIN entries = 1 .. Len(entries) /\ Len(entries) \in Nat
      /\ Shape /\ TableLive
  BY Basics
<1>2. /\ view.entries \in Seq(EntryRecord) /\ Len(view.entries) = Len(entries)
      /\ \A d \in DOMAIN entries :
           /\ view.entries[d].model = entries[d].model
           /\ view.entries[d].mu = entries[d].mu
           /\ view.entries[d].state = entries[d].state
           /\ view.entries[d].borrowers = entries[d].borrowers
           /\ entries[d].dead => view.entries[d].dead
      /\ view.table \in [Keys -> Nat]
      /\ \A k \in Keys : /\ view.table[k] = IF k \in Stale(r) THEN 0 ELSE table[k]
                         /\ view.table[k] # 0 => ~view.entries[view.table[k]].dead
  <2>1. SupersedesWell(r, view)
    BY <1>1, SupersededKeeps
  <2> HIDE DEF view
  <2> QED BY <2>1 DEF SupersedesWell, ViewWell
<1>3. /\ e \in DOMAIN entries /\ new \in EntryRecord
      /\ entries' = [view.entries EXCEPT ![e] = new]
      /\ view.entries[e].dead => new.dead
      /\ \/ entries[e].mu \in {Free, r}
         \/ new.mu = entries[e].mu
      /\ new.state = entries[e].state /\ new.model = entries[e].model
      /\ \/ table' = view.table /\ (new.dead => view.entries[e].dead)
         \/ \E k \in Keys : view.table[k] = e /\ table' = [view.table EXCEPT ![k] = 0]
  BY DEF ChangesView, ChangesFrom
<1> HIDE DEF view
<1>4. /\ entries' \in Seq(EntryRecord) /\ Len(entries') = Len(entries)
      /\ DOMAIN entries' = DOMAIN entries
      /\ entries'[e] = new /\ \A d \in DOMAIN entries \ {e} : entries'[d] = view.entries[d]
  BY <1>1, <1>2, <1>3
<1>5. Tame(r)
  BY <1>1, <1>2, <1>3, <1>4 DEF Tame, Ready
<1>6. table' \in [Keys -> Nat] /\ \A k \in Keys : table'[k] = view.table[k] \/ table'[k] = 0
  <2>1. view.table \in [Keys -> Nat]
    BY <1>2
  <2>2. table' = view.table \/ \E k \in Keys : table' = [view.table EXCEPT ![k] = 0]
    BY <1>3
  <2> QED BY <2>1, <2>2
<1>7. TableShape'
  <2>1. ASSUME NEW k \in Keys PROVE table'[k] <= Len(entries')
    <3>1. table[k] <= Len(entries) /\ 0 <= Len(entries)
      BY <1>1 DEF Shape
    <3>2. table'[k] = table[k] \/ table'[k] = 0
      BY <1>2, <1>6
    <3> QED BY <1>4, <3>1, <3>2
  <2> QED BY <1>6, <2>1 DEF TableShape
<1>8. \A k \in Keys : table'[k] = e => (new.dead => view.entries[e].dead)
  <2> SUFFICES ASSUME NEW k \in Keys, table'[k] = e, new.dead PROVE view.entries[e].dead
    OBVIOUS
  <2>1. CASE table' = view.table /\ (new.dead => view.entries[e].dead)
    BY <2>1
  <2>2. ASSUME NEW l \in Keys, view.table[l] = e, table' = [view.table EXCEPT ![l] = 0] PROVE FALSE
    <3>1. e # 0 /\ view.table \in [Keys -> Nat]
      BY <1>1, <1>2, <1>3
    <3>2. k # l /\ view.table[k] = e
      BY <2>2, <3>1
    <3>3. table[k] = e /\ table[l] = e
      BY <1>2, <2>2, <3>1, <3>2
    <3> QED BY <1>1, <3>1, <3>2, <3>3 DEF TableLive
  <2> QED BY <1>3, <2>1, <2>2
<1>9. \A k \in Keys : table'[k] # 0 => table'[k] = table[k] /\ table[k] = view.table[k] /\ table[k] \in DOMAIN entries
  <2> SUFFICES ASSUME NEW k \in Keys, table'[k] # 0
               PROVE  table'[k] = table[k] /\ table[k] = view.table[k] /\ table[k] \in DOMAIN entries
    OBVIOUS
  <2>1. table'[k] = view.table[k] /\ table[k] = view.table[k]
    BY <1>2, <1>6
  <2>2. table[k] \in Nat /\ table[k] <= Len(entries)
    BY <1>1 DEF Shape
  <2> QED BY <1>1, <2>1, <2>2
<1>10. TableLive'
  <2>1. ASSUME NEW k \in Keys, table'[k] # 0 PROVE ~entries'[table'[k]].dead
    BY <1>2, <1>4, <1>8, <1>9, <2>1
  <2> QED BY <1>1, <1>9, <2>1 DEF TableLive
<1>11. ReadyOpen'
  <2> SUFFICES ASSUME NEW d \in DOMAIN entries, entries'[d].state = "ready", ~entries'[d].dead
               PROVE  entries'[d].model = "open"
    BY <1>4 DEF ReadyOpen
  <2>1. /\ entries'[d].state = entries[d].state /\ entries'[d].model = entries[d].model
        /\ view.entries[d].dead => entries'[d].dead
    BY <1>2, <1>3, <1>4
  <2>2. entries[d].dead => view.entries[d].dead
    BY <1>2
  <2> QED BY <2>1, <2>2 DEF Inv, ReadyOpen
<1>12. \A d \in DOMAIN entries : Ready(d)' <=> Ready(d)
  BY <1>2, <1>3, <1>4 DEF Ready
<1>13. \A d \in DOMAIN entries \ {e} : entries'[d].borrowers = entries[d].borrowers
  BY <1>2, <1>4
<1> QED BY <1>4, <1>5, <1>7, <1>10, <1>11, <1>12, <1>13

LEMMA SupersedeBooks ==
  ASSUME Inv, NEW r \in Requests, NEW e, NEW new, ChangesView(r, e, new),
         RequestsKept(r), ClosersKept(r), request[r].at # "retiring", shutdown' = shutdown
  PROVE  Books'
<1> DEFINE view == Superseded(r)
<1>1. /\ Gone(r) \subseteq Tabled /\ IsFiniteSet(Gone(r)) /\ Gone(r) \cap Flagged = {}
      /\ {view.table[k] : k \in Keys} \ {0} = Tabled \ Gone(r)
      /\ {d \in DOMAIN entries : view.entries[d].retiring} = Flagged \cup Gone(r)
  BY GoneTabled
<1>2. /\ Len(view.entries) = Len(entries) /\ view.entries \in Seq(EntryRecord)
      /\ \A d \in DOMAIN entries : /\ view.entries[d].model = entries[d].model
                                   /\ view.entries[d].state = entries[d].state
      /\ view.table \in [Keys -> Nat]
      /\ \A k \in Keys : view.table[k] = IF k \in Stale(r) THEN 0 ELSE table[k]
      /\ view.retiring = [count |-> retiring.count + Cardinality(Gone(r)),
                          users |-> view.retiring.users]
  BY SupersededKeeps DEF Inv, SupersedesWell, ViewWell
<1>3. /\ e \in DOMAIN entries /\ new \in EntryRecord
      /\ entries' = [view.entries EXCEPT ![e] = new]
      /\ new.state = entries[e].state /\ new.model = entries[e].model
      /\ \/ /\ table' = view.table /\ (new.retiring <=> view.entries[e].retiring)
            /\ retiring' = view.retiring
         \/ /\ \E k \in Keys : view.table[k] = e /\ table' = [view.table EXCEPT ![k] = 0]
            /\ new.retiring
            /\ retiring' = [view.retiring EXCEPT !.count = @ + 1]
  BY DEF ChangesView, ChangesFrom
<1> HIDE DEF view
<1>4. /\ DOMAIN entries' = DOMAIN entries /\ entries'[e] = new
      /\ \A d \in DOMAIN entries \ {e} : entries'[d] = view.entries[d]
  BY <1>2, <1>3 DEF Inv, Shape
<1>5. Resident' = Resident
  BY <1>2, <1>3, <1>4 DEF Resident
<1>6. CASE /\ table' = view.table /\ (new.retiring <=> view.entries[e].retiring)
           /\ retiring' = view.retiring
  <2>1. Flagged' = Flagged \cup Gone(r)
    <3>1. Flagged' = {d \in DOMAIN entries : view.entries[d].retiring}
      BY <1>3, <1>4, <1>6 DEF Flagged
    <3> QED BY <1>1, <3>1
  <2>2. Tabled' = Tabled \ Gone(r)
    BY <1>1, <1>6 DEF Tabled
  <2>3. retiring' = [count |-> retiring.count + Cardinality(Gone(r)), users |-> retiring'.users]
    BY <1>2, <1>6
  <2> QED BY <1>1, <1>5, <2>1, <2>2, <2>3, BooksFlag
<1>7. CASE /\ \E k \in Keys : view.table[k] = e /\ table' = [view.table EXCEPT ![k] = 0]
           /\ new.retiring
           /\ retiring' = [view.retiring EXCEPT !.count = @ + 1]
  <2>1. PICK k \in Keys : view.table[k] = e /\ table' = [view.table EXCEPT ![k] = 0]
    BY <1>7
  <2>2. e # 0
    BY <1>3 DEF Inv, Shape
  <2>3. e \in Tabled \ Gone(r)
    BY <1>1, <2>1, <2>2
  <2>4. Flagged' = Flagged \cup (Gone(r) \cup {e})
    <3>1. Flagged' = {d \in DOMAIN entries : view.entries[d].retiring} \cup {e}
      BY <1>3, <1>4, <1>7 DEF Flagged
    <3> QED BY <1>1, <3>1
  <2>5. Tabled' = Tabled \ (Gone(r) \cup {e})
    <3>1. \A l \in Keys : view.table[l] = e => l = k
      BY <1>2, <2>1, <2>2 DEF Inv, TableLive
    <3>2. Tabled' = ({view.table[l] : l \in Keys} \ {0}) \ {e}
      BY <1>2, <2>1, <2>2, <3>1 DEF Tabled
    <3> QED BY <1>1, <3>2
  <2>6. retiring' = [count |-> retiring.count + Cardinality(Gone(r) \cup {e}), users |-> retiring'.users]
    <3>1. Cardinality(Gone(r) \cup {e}) = Cardinality(Gone(r)) + 1 /\ Cardinality(Gone(r)) \in Nat
      BY <1>1, <2>3, FS_AddElement, FS_CardinalityType
    <3>2. retiring.count \in Nat
      BY HeldFinite, FS_CardinalityType DEF Inv, Books
    <3>3. view.retiring.count = retiring.count + Cardinality(Gone(r))
      BY <1>2
    <3>4. view.retiring.count + 1 = retiring.count + Cardinality(Gone(r) \cup {e})
      BY <3>1, <3>2, <3>3
    <3>5. retiring' = [count |-> view.retiring.count + 1, users |-> retiring'.users]
      BY <1>2, <1>7
    <3> QED BY <3>4, <3>5
  <2>7. Gone(r) \cup {e} \in SUBSET Tabled
    BY <1>1, <2>3
  <2> QED BY <1>5, <2>4, <2>5, <2>6, <2>7, BooksFlag
<1> QED BY <1>3, <1>6, <1>7

LEMMA SupersedeOnly ==
  ASSUME Inv, NEW r \in Requests, RequestsKept(r), ClosersKept(r),
         request[r].at = "lease", request'[r].at \notin Borrowing, shutdown' = shutdown,
         entries' = Superseded(r).entries, table' = Superseded(r).table,
         retiring' = Superseded(r).retiring
  PROVE  Tame(r) /\ TableShape' /\ TableLive' /\ ReadyOpen' /\ Books' /\ Lends'
<1> DEFINE view == Superseded(r)
<1>1. /\ DOMAIN entries = 1 .. Len(entries) /\ Len(entries) \in Nat
      /\ Shape /\ TableLive /\ SupersedesWell(r, view) /\ ViewWell(r, view)
      /\ entries' = view.entries /\ table' = view.table /\ retiring' = view.retiring
  BY SupersededKeeps DEF Inv, Shape, SupersedesWell
<1>2. /\ Gone(r) \subseteq Tabled
      /\ {view.table[k] : k \in Keys} \ {0} = Tabled \ Gone(r)
      /\ {d \in DOMAIN entries : view.entries[d].retiring} = Flagged \cup Gone(r)
  BY GoneTabled
<1> HIDE DEF view
<1>3. /\ entries' \in Seq(EntryRecord) /\ Len(entries') = Len(entries)
      /\ DOMAIN entries' = DOMAIN entries
      /\ \A e \in DOMAIN entries :
           /\ entries'[e].model = entries[e].model /\ entries'[e].mu = entries[e].mu
           /\ entries'[e].state = entries[e].state /\ (entries[e].dead => entries'[e].dead)
           /\ entries'[e].borrowers = entries[e].borrowers
      /\ table' \in [Keys -> Nat]
      /\ \A k \in Keys : /\ table'[k] = IF k \in Stale(r) THEN 0 ELSE table[k]
                         /\ table'[k] # 0 => ~entries'[table'[k]].dead
  BY <1>1 DEF SupersedesWell, ViewWell
<1>4. Tame(r)
  BY <1>1, <1>3 DEF Tame, Ready
<1>5. TableShape' /\ TableLive'
  <2>1. ASSUME NEW k \in Keys PROVE table'[k] <= Len(entries')
    <3>1. table[k] <= Len(entries) /\ 0 <= Len(entries)
      BY <1>1 DEF Shape
    <3> QED BY <1>3, <3>1
  <2>2. TableLive'
    BY <1>1, <1>3 DEF TableLive
  <2> QED BY <1>3, <2>1, <2>2 DEF TableShape
<1>6. ReadyOpen'
  BY <1>1, <1>3 DEF ReadyOpen, Inv
<1>7. Books'
  <2>1. Flagged' = Flagged \cup Gone(r)
    <3>1. Flagged' = {d \in DOMAIN entries : view.entries[d].retiring}
      BY <1>1, <1>3 DEF Flagged
    <3> QED BY <1>2, <3>1
  <2>2. Tabled' = Tabled \ Gone(r)
    BY <1>1, <1>2 DEF Tabled
  <2>3. retiring' = [count |-> retiring.count + Cardinality(Gone(r)), users |-> retiring'.users]
    BY <1>1 DEF SupersedesWell, ViewWell
  <2>4. Resident' = Resident
    BY <1>3 DEF Resident
  <2> QED BY <1>2, <2>1, <2>2, <2>3, <2>4, BooksFlag
<1>8. Lends'
  BY <1>3, LendsKept DEF Ready, Borrowing
<1> QED BY <1>4, <1>5, <1>6, <1>7, <1>8

\* A request that returns or parks keeps no entry.
LEMMA ParkedKeeps ==
  ASSUME Shape, NEW r \in Requests, NEW at \in {"parked", "awaiting"}, NEW e \in Nat,
         request' = Done(r) \/ request' = Parked(r, at, e), closer' = closer
  PROVE  /\ RequestsKept(r) /\ ClosersKept(r)
         /\ request'[r].todo \subseteq request[r].todo
         /\ request'[r].at \notin Having /\ request'[r].at \notin Borrowing
<1> DEFINE new == [request[r] EXCEPT !.at = at, !.entry = e]
           moved == [request EXCEPT ![r].at = at, ![r].entry = e]
<1>1. request[r] \in RequestRecord
  BY DEF Shape
<1>2. new \in RequestRecord /\ new.at = at /\ new.todo = request[r].todo
  BY <1>1 DEF RequestRecord, Places
<1>3. moved = [request EXCEPT ![r] = new]
  BY <1>1 DEF Shape, RequestRecord
<1>4. request' = moved \/ request' = Done(r)
  BY DEF Parked
<1> HIDE DEF new, moved
<1>5. /\ request' \in [Requests -> RequestRecord] /\ \A q \in Requests \ {r} : request'[q] = request[q]
      /\ request'[r].at \in {at, "idle"} /\ request'[r].todo \subseteq request[r].todo
  <2>1. CASE request' = Done(r)
    BY <2>1, DoneType
  <2>2. CASE request' = moved
    <3>1. request' = [request EXCEPT ![r] = new] /\ request \in [Requests -> RequestRecord]
      BY <1>3, <2>2 DEF Shape
    <3>2. /\ request' \in [Requests -> RequestRecord] /\ request'[r] = new
          /\ \A q \in Requests \ {r} : request'[q] = request[q]
      BY <1>2, <3>1
    <3> QED BY <1>2, <3>2
  <2> QED BY <1>4, <2>1, <2>2
<1>6. request'[r].at \notin Having /\ request'[r].at \notin Borrowing
  BY <1>5 DEF Having, Owning, Borrowing
<1> QED BY <1>5, <1>6, MoveKeeps

LEMMA SupersedeIdleStep ==
  ASSUME Inv, NEW r \in Requests, SupersedeIdle(r)
  PROVE  Inv' /\ Stepped(r)
<1> DEFINE rec == [request[r] EXCEPT !.at = "finishing", !.todo = StaleIdle(r), !.again = TRUE]
           moved == [request EXCEPT ![r].at = "finishing", ![r].todo = StaleIdle(r), ![r].again = TRUE]
<1>1. request[r] \in RequestRecord /\ Shape /\ TableLive /\ DOMAIN entries = 1 .. Len(entries)
  BY Basics
<1>2. /\ entries' = Superseded(r).entries /\ table' = Superseded(r).table
      /\ retiring' = Superseded(r).retiring /\ shutdown' = shutdown /\ NotifyWith(moved)
      /\ request[r].at = "lease"
  BY DEF SupersedeIdle, Leasing
<1>3. \A e \in StaleIdle(r) : e \in DOMAIN entries /\ entries'[e].dead
  BY <1>1, <1>2, SupersededKeeps DEF SupersedesWell, ViewWell
<1>4. \A e \in StaleIdle(r) : Ready(e)
  BY DEF StaleIdle
<1>5. rec \in RequestRecord /\ rec.at = "finishing" /\ rec.todo = StaleIdle(r)
  <2>1. StaleIdle(r) \in SUBSET Nat
    BY <1>1, <1>3
  <2> QED BY <1>1, <2>1 DEF RequestRecord, Places
<1>6. moved = [request EXCEPT ![r] = rec]
  BY <1>1 DEF RequestRecord, Shape
<1> HIDE DEF rec, moved
<1>7. /\ RequestsKept(r) /\ ClosersKept(r)
      /\ request'[r].todo = StaleIdle(r) /\ request'[r].at = "finishing"
  BY <1>1, <1>2, <1>5, <1>6, RecordNotify
<1>8. Tame(r) /\ TableShape' /\ TableLive' /\ ReadyOpen' /\ Books' /\ Lends'
  BY <1>2, <1>7, SupersedeOnly DEF Borrowing
<1>9. DOMAIN entries \subseteq DOMAIN entries'
  BY <1>1, <1>8 DEF Tame, Shape
<1>10. GoodRequest(r)'
  BY <1>3, <1>4, <1>7, <1>8, <1>9 DEF GoodRequest, Having, Owning, Tame
<1>11. r \notin Closers
  BY SessionsAssumption
<1> QED BY <1>7, <1>8, <1>10, <1>11, StepKeeps

LEMMA ParkForPlaceStep ==
  ASSUME Inv, NEW r \in Requests, ParkForPlace(r)
  PROVE  Inv' /\ Stepped(r)
<1>1. /\ entries' = Superseded(r).entries /\ table' = Superseded(r).table
      /\ retiring' = Superseded(r).retiring /\ shutdown' = shutdown /\ request[r].at = "lease"
      /\ request' = Parked(r, "parked", 0) /\ closer' = closer
  BY DEF ParkForPlace, Turning, Leasing
<1>2. /\ RequestsKept(r) /\ ClosersKept(r)
      /\ request'[r].todo \subseteq request[r].todo
      /\ request'[r].at \notin Having /\ request'[r].at \notin Borrowing
  BY <1>1, ParkedKeeps, Basics
<1>3. Tame(r) /\ TableShape' /\ TableLive' /\ ReadyOpen' /\ Books' /\ Lends'
  BY <1>1, <1>2, SupersedeOnly
<1>4. GoodRequest(r)'
  BY <1>2, <1>3, NoEntryGood
<1>5. r \notin Closers
  BY SessionsAssumption
<1> QED BY <1>2, <1>3, <1>4, <1>5, StepKeeps

\* The records of an entry a turn rebinds, reuses or evicts.
Rescoped(all, e, scope) == [all EXCEPT ![e].scope = scope]
Reused(all, e, r, scope) == [all EXCEPT ![e].mu = r, ![e].scope = scope, ![e].borrowers = @ + 1]
Evicted(all, e) == [all EXCEPT ![e].dead = TRUE, ![e].closing = TRUE, ![e].retiring = TRUE]

LEMMA RescopedRecord ==
  ASSUME NEW all \in Seq(EntryRecord), NEW e \in DOMAIN all, NEW scope \in Scopes
  PROVE  \E new \in EntryRecord :
           /\ Rescoped(all, e, scope) = [all EXCEPT ![e] = new]
           /\ new.dead = all[e].dead /\ new.mu = all[e].mu /\ new.model = all[e].model
           /\ new.state = all[e].state /\ new.retiring = all[e].retiring
           /\ new.borrowers = all[e].borrowers
<1>1. PICK old \in EntryRecord : old = all[e]
  OBVIOUS
<1>2. PICK new : new = [old EXCEPT !.scope = scope]
  OBVIOUS
<1>3. new \in EntryRecord
  BY <1>2 DEF EntryRecord
<1>4. /\ new.dead = old.dead /\ new.mu = old.mu /\ new.model = old.model
      /\ new.state = old.state /\ new.retiring = old.retiring /\ new.borrowers = old.borrowers
  BY <1>2 DEF EntryRecord
<1>5. Rescoped(all, e, scope) = [all EXCEPT ![e] = new]
  BY <1>1, <1>2 DEF Rescoped, EntryRecord
<1> QED BY <1>1, <1>3, <1>4, <1>5

LEMMA ReusedRecord ==
  ASSUME NEW all \in Seq(EntryRecord), NEW e \in DOMAIN all, NEW scope \in Scopes, NEW r \in Requests
  PROVE  \E new \in EntryRecord :
           /\ Reused(all, e, r, scope) = [all EXCEPT ![e] = new]
           /\ new.dead = all[e].dead /\ new.mu = r /\ new.model = all[e].model
           /\ new.state = all[e].state /\ new.retiring = all[e].retiring
           /\ new.borrowers = all[e].borrowers + 1
<1>1. PICK old \in EntryRecord : old = all[e]
  OBVIOUS
<1>0. PICK more \in Int : more = old.borrowers + 1
  BY DEF EntryRecord
<1>2. PICK new : new = [old EXCEPT !.mu = r, !.scope = scope, !.borrowers = more]
  OBVIOUS
<1>3. new \in EntryRecord
  BY <1>2 DEF EntryRecord
<1>4. /\ new.dead = old.dead /\ new.mu = r /\ new.model = old.model
      /\ new.state = old.state /\ new.retiring = old.retiring /\ new.borrowers = more
  BY <1>2 DEF EntryRecord
<1>5. Reused(all, e, r, scope) = [all EXCEPT ![e] = new]
  BY <1>0, <1>1, <1>2 DEF Reused, EntryRecord
<1> QED BY <1>0, <1>1, <1>3, <1>4, <1>5

LEMMA EvictedRecord ==
  ASSUME NEW all \in Seq(EntryRecord), NEW e \in DOMAIN all
  PROVE  \E new \in EntryRecord :
           /\ Evicted(all, e) = [all EXCEPT ![e] = new]
           /\ new.dead /\ new.mu = all[e].mu /\ new.model = all[e].model
           /\ new.state = all[e].state /\ new.retiring /\ new.borrowers = all[e].borrowers
<1>1. PICK old \in EntryRecord : old = all[e]
  OBVIOUS
<1>2. PICK new : new = [old EXCEPT !.dead = TRUE, !.closing = TRUE, !.retiring = TRUE]
  OBVIOUS
<1>3. new \in EntryRecord
  BY <1>2 DEF EntryRecord
<1>4. /\ new.dead /\ new.mu = old.mu /\ new.model = old.model
      /\ new.state = old.state /\ new.retiring /\ new.borrowers = old.borrowers
  BY <1>2 DEF EntryRecord
<1>5. Evicted(all, e) = [all EXCEPT ![e] = new]
  BY <1>1, <1>2 DEF Evicted, EntryRecord
<1> QED BY <1>1, <1>3, <1>4, <1>5

\* The turn rebinds the entry of the key to the scope of the request.
Rebinding(r, e) ==
  /\ e # 0 /\ e = Superseded(r).table[request[r].key]
  /\ entries' = Rescoped(Superseded(r).entries, e, request[r].scope)
  /\ table' = Superseded(r).table /\ retiring' = Superseded(r).retiring

LEMMA Rebinds ==
  ASSUME Inv, NEW r \in Requests, NEW e, Rebinding(r, e)
  PROVE  \E new : ChangesView(r, e, new) /\ new.borrowers = entries[e].borrowers
<1> DEFINE view == Superseded(r)
<1>1. /\ DOMAIN entries = 1 .. Len(entries) /\ Len(entries) \in Nat
      /\ Shape /\ TableLive /\ request[r] \in RequestRecord
  BY Basics
<1>2. request[r].key \in Keys /\ request[r].scope \in Scopes
  BY <1>1 DEF RequestRecord
<1>3. /\ entries' = Rescoped(view.entries, e, request[r].scope) /\ table' = view.table
      /\ retiring' = view.retiring /\ e = view.table[request[r].key] /\ e # 0
  BY DEF Rebinding
<1>0. ViewWell(r, view) /\ e = view.table[request[r].key] /\ e # 0
  BY <1>1, <1>3, SupersededKeeps, Zenon DEF SupersedesWell
<1> HIDE DEF view
<1>4. /\ view.entries \in Seq(EntryRecord) /\ Len(view.entries) = Len(entries)
      /\ \A d \in DOMAIN entries :
           /\ view.entries[d].model = entries[d].model /\ view.entries[d].mu = entries[d].mu
           /\ view.entries[d].state = entries[d].state
           /\ view.entries[d].borrowers = entries[d].borrowers
      /\ e = table[request[r].key]
  <2>1. e = table[request[r].key]
    BY <1>0, <1>2 DEF ViewWell
  <2> QED BY <1>0, <2>1 DEF ViewWell
<1>5. e \in DOMAIN entries
  BY <1>0, <1>1, <1>2, <1>4 DEF Shape
<1>6. e \in DOMAIN view.entries
  BY <1>1, <1>4, <1>5
<1>7. PICK new \in EntryRecord :
        /\ entries' = [view.entries EXCEPT ![e] = new]
        /\ new.dead = view.entries[e].dead /\ new.mu = view.entries[e].mu
        /\ new.model = view.entries[e].model /\ new.state = view.entries[e].state
        /\ new.retiring = view.entries[e].retiring /\ new.borrowers = view.entries[e].borrowers
  <2>1. PICK all \in Seq(EntryRecord), scope \in Scopes : all = view.entries /\ scope = request[r].scope
    BY <1>2, <1>4
  <2>2. e \in DOMAIN all /\ entries' = Rescoped(all, e, scope)
    BY <1>3, <1>6, <2>1
  <2>3. \E new \in EntryRecord :
           /\ Rescoped(all, e, scope) = [all EXCEPT ![e] = new]
           /\ new.dead = all[e].dead /\ new.mu = all[e].mu /\ new.model = all[e].model
           /\ new.state = all[e].state /\ new.retiring = all[e].retiring
           /\ new.borrowers = all[e].borrowers
    BY <2>2, RescopedRecord
  <2> QED BY <2>1, <2>2, <2>3, Zenon
<1>8. /\ new.mu = entries[e].mu /\ new.model = entries[e].model /\ new.state = entries[e].state
      /\ new.borrowers = entries[e].borrowers
  BY <1>4, <1>5, <1>7
<1>9. ChangesFrom(view, r, e, new)
  BY <1>3, <1>5, <1>7, <1>8, Zenon DEF ChangesFrom
<1>10. ChangesView(r, e, new)
  BY <1>9 DEF ChangesView, view
<1> QED BY <1>8, <1>10

LEMMA NoReuseStep ==
  ASSUME Inv, NEW r \in Requests, MeetFailure(r) \/ ParkForEntry(r)
  PROVE  Inv' /\ Stepped(r)
<1>0. PICK e : e = Superseded(r).table[request[r].key]
  OBVIOUS
<1>1. /\ e # 0 /\ entries' = Rescoped(Superseded(r).entries, e, request[r].scope)
      /\ table' = Superseded(r).table /\ closer' = closer
      /\ retiring' = Superseded(r).retiring /\ shutdown' = shutdown /\ request[r].at = "lease"
  BY <1>0, Zenon DEF MeetFailure, ParkForEntry, Turning, Leasing, Rescoped
<1>2. e \in Nat
  <2>1. request[r].key \in Keys
    BY Basics DEF RequestRecord
  <2>2. Superseded(r).table \in [Keys -> Nat]
    BY SupersededKeeps DEF Inv, SupersedesWell, ViewWell
  <2> QED BY <1>0, <2>1, <2>2
<1>3. request' = Done(r) \/ request' = Parked(r, "awaiting", e) \/ request' = Parked(r, "parked", 0)
  BY <1>0, Zenon DEF MeetFailure, ParkForEntry
<1>4. PICK new : ChangesView(r, e, new) /\ new.borrowers = entries[e].borrowers
  BY <1>0, <1>1, Rebinds, Zenon DEF Rebinding
<1>5. /\ RequestsKept(r) /\ ClosersKept(r)
      /\ request'[r].todo \subseteq request[r].todo
      /\ request'[r].at \notin Having /\ request'[r].at \notin Borrowing
  BY <1>1, <1>2, <1>3, ParkedKeeps, Basics
<1>6. /\ Tame(r) /\ TableShape' /\ TableLive' /\ ReadyOpen'
      /\ DOMAIN entries' = DOMAIN entries /\ entries'[e] = new
      /\ \A d \in DOMAIN entries : Ready(d)' <=> Ready(d)
      /\ \A d \in DOMAIN entries \ {e} : entries'[d].borrowers = entries[d].borrowers
  BY <1>4, SupersedeAndChange
<1>7. Books'
  BY <1>1, <1>4, <1>5, SupersedeBooks
<1>8. Lends'
  BY <1>1, <1>4, <1>5, <1>6, LendsKept DEF Borrowing
<1>9. GoodRequest(r)'
  BY <1>5, <1>6, NoEntryGood
<1>10. r \notin Closers
  BY SessionsAssumption
<1> QED BY <1>5, <1>6, <1>7, <1>8, <1>9, <1>10, StepKeeps

\* A request that reuses an entry is one borrower more.
LEMMA LendsBorrowed ==
  ASSUME Inv, NEW r \in Requests, RequestsKept(r), NEW e \in DOMAIN entries,
         request[r].at = "lease", request'[r].at = "resetting", request'[r].entry = e,
         DOMAIN entries' = DOMAIN entries,
         \A d \in DOMAIN entries \ {e} : entries'[d].borrowers = entries[d].borrowers,
         entries'[e].borrowers = entries[e].borrowers + 1,
         \A d \in DOMAIN entries : Ready(d)' <=> Ready(d)
  PROVE  Lends'
<1>1. \A q \in Requests \ {r} : /\ request'[q].at \in Borrowing <=> request[q].at \in Borrowing
                                /\ request'[q].at = "loading" <=> request[q].at = "loading"
                                /\ request'[q].at \in Borrowing => Entry(q)' = Entry(q)
  BY DEF RequestsKept, Borrowing, Entry
<1>2. request'[r].at \in Borrowing /\ request[r].at \notin Borrowing /\ Entry(r)' = e
  BY DEF Borrowing, Entry
<1>3. Borrowers(e)' = Borrowers(e) \cup {r} /\ r \notin Borrowers(e)
  BY <1>1, <1>2 DEF Borrowers
<1>4. \A d \in DOMAIN entries \ {e} : Borrowers(d)' = Borrowers(d)
  BY <1>1, <1>2 DEF Borrowers
<1>5. \A q \in Requests : \A d : Loads(q, d)' <=> Loads(q, d)
  BY <1>1, <1>2 DEF Loads, Borrowing
<1>6. \A q \in Requests : request'[q].at = "loading" =>
        request[q].at = "loading" /\ Entry(q) \in DOMAIN entries /\ Entry(q)' = Entry(q)
  BY <1>1, <1>2 DEF Inv, GoodRequest, Having, Borrowing
<1>7. entries'[e].borrowers = Cardinality(Borrowers(e)')
  <2>1. Cardinality(Borrowers(e) \cup {r}) = Cardinality(Borrowers(e)) + 1
    BY <1>3, BorrowersFinite, FS_AddElement
  <2> QED BY <1>3, <2>1 DEF Inv, Lends
<1>8. \A d \in DOMAIN entries' : entries'[d].borrowers = Cardinality(Borrowers(d)')
  BY <1>4, <1>7 DEF Inv, Lends
<1>9. \A d \in DOMAIN entries' : ~Ready(d)' => \E q \in Requests : Loads(q, d)'
  BY <1>5 DEF Inv, Lends
<1>10. \A q \in Requests : request'[q].at = "loading" => ~Ready(Entry(q))'
  <2>1. ASSUME NEW q \in Requests, request'[q].at = "loading" PROVE ~Ready(Entry(q))'
    <3>1. PICK d \in DOMAIN entries : Entry(q) = d /\ ~Ready(d) /\ Entry(q)' = d
      BY <1>6, <2>1 DEF Inv, Lends
    <3> QED BY <3>1 DEF Ready
  <2> QED BY <2>1
<1>11. \A q, p \in Requests : Loads(q, Entry(q))' /\ Loads(p, Entry(q))' => q = p
  BY <1>6 DEF Inv, Lends, Loads
<1> QED BY <1>8, <1>9, <1>10, <1>11 DEF Lends

LEMMA ReuseStep ==
  ASSUME Inv, NEW r \in Requests, Reuse(r)
  PROVE  Inv' /\ Stepped(r)
<1> DEFINE view == Superseded(r)
<1>0. PICK e : e = view.table[request[r].key]
  OBVIOUS
<1> DEFINE rec == [request[r] EXCEPT !.at = "resetting", !.entry = e]
<1>1. /\ DOMAIN entries = 1 .. Len(entries) /\ Len(entries) \in Nat
      /\ Shape /\ TableLive /\ request[r] \in RequestRecord
  BY Basics
<1>2. request[r].key \in Keys /\ request[r].scope \in Scopes
  BY <1>1 DEF RequestRecord
<1>3. /\ e # 0 /\ entries[e].state = "ready" /\ entries[e].mu = Free
      /\ entries' = Reused(view.entries, e, r, request[r].scope)
      /\ request' = [request EXCEPT ![r].at = "resetting", ![r].entry = e]
      /\ table' = view.table /\ closer' = closer /\ retiring' = view.retiring
      /\ shutdown' = shutdown /\ request[r].at = "lease"
  BY <1>0, Zenon DEF Reuse, Turning, Leasing, Reused
<1>4. ViewWell(r, view)
  BY <1>1, SupersededKeeps DEF SupersedesWell
<1> HIDE DEF view
<1>5. /\ view.entries \in Seq(EntryRecord) /\ Len(view.entries) = Len(entries)
      /\ \A d \in DOMAIN entries :
           /\ view.entries[d].model = entries[d].model /\ view.entries[d].mu = entries[d].mu
           /\ view.entries[d].state = entries[d].state
           /\ view.entries[d].borrowers = entries[d].borrowers
      /\ e = table[request[r].key] /\ ~view.entries[e].dead
  <2>1. e # 0
    BY <1>3
  <2>2. /\ \A k \in Keys : view.table[k] # 0 => view.table[k] = table[k] /\ ~view.entries[view.table[k]].dead
    BY <1>4 DEF ViewWell
  <2>3. e = table[request[r].key] /\ ~view.entries[e].dead
    BY <1>0, <1>2, <2>1, <2>2
  <2> QED BY <1>4, <2>3 DEF ViewWell
<1>6. e \in DOMAIN entries /\ e \in Nat
  <2>1. e # 0 /\ e = table[request[r].key]
    BY <1>3, <1>5, Zenon
  <2>2. \A k \in Keys : table[k] \in Nat /\ table[k] <= Len(entries)
    BY <1>1 DEF Shape
  <2> HIDE DEF rec
  <2> QED BY <1>1, <1>2, <2>1, <2>2
<1>7. e \in DOMAIN view.entries
  BY <1>1, <1>5, <1>6
<1>8. PICK new \in EntryRecord :
        /\ entries' = [view.entries EXCEPT ![e] = new]
        /\ new.dead = view.entries[e].dead /\ new.mu = r /\ new.model = view.entries[e].model
        /\ new.state = view.entries[e].state /\ new.retiring = view.entries[e].retiring
        /\ new.borrowers = view.entries[e].borrowers + 1
  <2>1. PICK all \in Seq(EntryRecord), scope \in Scopes : all = view.entries /\ scope = request[r].scope
    BY <1>2, <1>5
  <2>2. e \in DOMAIN all /\ entries' = Reused(all, e, r, scope)
    BY <1>3, <1>7, <2>1, Zenon
  <2>3. \E new \in EntryRecord :
           /\ Reused(all, e, r, scope) = [all EXCEPT ![e] = new]
           /\ new.dead = all[e].dead /\ new.mu = r /\ new.model = all[e].model
           /\ new.state = all[e].state /\ new.retiring = all[e].retiring
           /\ new.borrowers = all[e].borrowers + 1
    BY <2>2, ReusedRecord
  <2> QED BY <2>1, <2>2, <2>3, Zenon
<1>9. /\ new.model = entries[e].model /\ new.state = entries[e].state
      /\ new.borrowers = entries[e].borrowers + 1
  BY <1>5, <1>6, <1>8
<1>10. /\ rec \in RequestRecord /\ rec.at = "resetting" /\ rec.entry = e /\ rec.todo = request[r].todo
       /\ request' = [request EXCEPT ![r] = rec]
  <2>1. rec \in RequestRecord /\ rec.at = "resetting" /\ rec.entry = e /\ rec.todo = request[r].todo
    BY <1>1, <1>6 DEF RequestRecord, Places
  <2>2. request' = [request EXCEPT ![r].at = "resetting", ![r].entry = e]
    BY <1>3
  <2> QED BY <2>1, <2>2, <1>1 DEF RequestRecord, Shape
<1> HIDE DEF rec
<1>11. ChangesView(r, e, new)
  <2>1. ChangesFrom(view, r, e, new)
    BY <1>3, <1>6, <1>8, <1>9, Zenon DEF ChangesFrom
  <2> QED BY <2>1 DEF ChangesView, view
<1>12. /\ Tame(r) /\ TableShape' /\ TableLive' /\ ReadyOpen'
       /\ DOMAIN entries' = DOMAIN entries /\ entries'[e] = new
       /\ \A d \in DOMAIN entries : Ready(d)' <=> Ready(d)
       /\ \A d \in DOMAIN entries \ {e} : entries'[d].borrowers = entries[d].borrowers
  BY <1>11, SupersedeAndChange
<1>13. /\ request' \in [Requests -> RequestRecord] /\ request'[r] = rec
       /\ \A q \in Requests \ {r} : request'[q] = request[q]
  BY <1>1, <1>10 DEF Shape
<1>14. RequestsKept(r) /\ ClosersKept(r)
  <2>1. closer' = closer
    BY <1>3
  <2> QED BY <1>1, <1>13, <2>1, MoveKeeps
<1>15. new.model = "open"
  <2>1. entries[e].state = "ready"
    BY <1>3
  <2>2. ~new.dead /\ new.state = "ready"
    BY <1>5, <1>8, <1>9, <2>1
  <2>3. ReadyOpen' /\ e \in DOMAIN entries' /\ entries'[e] = new
    BY <1>6, <1>12
  <2> QED BY <2>2, <2>3 DEF ReadyOpen
<1>16. \A d \in request[r].todo : d \in DOMAIN entries /\ entries'[d].dead /\ Ready(d)'
  <2>1. \A d \in request[r].todo : d \in DOMAIN entries /\ entries[d].dead /\ Ready(d)
    BY DEF Inv, GoodRequest
  <2>2. \A d \in DOMAIN entries : (entries[d].dead => entries'[d].dead) /\ (Ready(d) => Ready(d)')
    BY <1>12 DEF Tame
  <2> QED BY <2>1, <2>2
<1>17. GoodRequest(r)'
  <2>1. /\ request'[r].at = "resetting" /\ Entry(r)' = e /\ e \in DOMAIN entries'
        /\ \A d \in request'[r].todo : d \in DOMAIN entries' /\ entries'[d].dead /\ Ready(d)'
    BY <1>6, <1>10, <1>12, <1>13, <1>16 DEF Entry
  <2>2. entries'[e].mu = r /\ entries'[e].model = "open" /\ Ready(e)'
    <3>1. entries[e].state = "ready"
      BY <1>3
    <3>2. Ready(e)
      BY <3>1 DEF Ready
    <3> QED BY <1>6, <1>8, <1>9, <1>12, <1>15, <3>2
  <2> QED BY <2>1, <2>2 DEF GoodRequest
<1>18. Books'
  BY <1>3, <1>11, <1>14, SupersedeBooks
<1>19. Lends'
  <2>1. request'[r].at = "resetting" /\ request'[r].entry = e /\ request[r].at = "lease"
    BY <1>3, <1>10, <1>13
  <2>2. entries'[e].borrowers = entries[e].borrowers + 1
    BY <1>9, <1>12
  <2> QED BY <1>6, <1>12, <1>14, <2>1, <2>2, LendsBorrowed
<1>20. r \notin Closers
  BY SessionsAssumption
<1> QED BY <1>12, <1>14, <1>17, <1>18, <1>19, <1>20, StepKeeps

LEMMA EvictStep ==
  ASSUME Inv, NEW r \in Requests, Evict(r)
  PROVE  Inv' /\ Stepped(r)
<1> DEFINE view == Superseded(r)
<1>1. /\ DOMAIN entries = 1 .. Len(entries) /\ Len(entries) \in Nat
      /\ Shape /\ TableLive /\ request[r] \in RequestRecord
  BY Basics
<1>5. shutdown' = shutdown /\ request[r].at = "lease"
  BY Zenon DEF Evict, Leasing
<1>2. PICK oldest \in Evictable(view) :
        /\ entries' = Evicted(view.entries, view.table[oldest])
        /\ table' = [view.table EXCEPT ![oldest] = 0]
        /\ retiring' = [view.retiring EXCEPT !.count = @ + 1]
        /\ NotifyWith([request EXCEPT ![r].at = "evicting", ![r].todo = {view.table[oldest]},
                                      ![r].again = TRUE])
  BY Zenon DEF Evict, Evicted
<1>3. PICK e : e = view.table[oldest]
  OBVIOUS
<1> DEFINE rec == [request[r] EXCEPT !.at = "evicting", !.todo = {e}, !.again = TRUE]
           moved == [request EXCEPT ![r].at = "evicting", ![r].todo = {e}, ![r].again = TRUE]
<1>4. oldest \in Keys /\ e # 0 /\ Idle(e)
  <2>1. Evictable(view) = {k \in Keys : view.table[k] # 0 /\ Idle(view.table[k])}
    BY DEF Evictable
  <2> HIDE DEF view, rec, moved
  <2> QED BY <1>3, <2>1
<1>6. /\ entries' = Evicted(view.entries, e)
      /\ table' = [view.table EXCEPT ![oldest] = 0] /\ NotifyWith(moved)
      /\ retiring' = [view.retiring EXCEPT !.count = @ + 1]
  BY <1>2, <1>3, Zenon
<1>0. ViewWell(r, view)
  BY <1>1, SupersededKeeps DEF SupersedesWell
<1> HIDE DEF view
<1>7. /\ view.entries \in Seq(EntryRecord) /\ Len(view.entries) = Len(entries)
      /\ \A d \in DOMAIN entries :
           /\ view.entries[d].model = entries[d].model /\ view.entries[d].mu = entries[d].mu
           /\ view.entries[d].state = entries[d].state
           /\ view.entries[d].borrowers = entries[d].borrowers
      /\ e = table[oldest]
  <2>1. e = table[oldest]
    BY <1>0, <1>3, <1>4 DEF ViewWell
  <2> QED BY <1>0, <2>1 DEF ViewWell
<1>8. e \in DOMAIN entries /\ e \in Nat
  BY <1>1, <1>4, <1>7 DEF Shape
<1>9. e \in DOMAIN view.entries
  BY <1>1, <1>7, <1>8
<1>10. Ready(e)
  BY <1>4, <1>8, UnborrowedReady
<1>11. PICK new \in EntryRecord :
         /\ entries' = [view.entries EXCEPT ![e] = new]
         /\ new.dead /\ new.mu = view.entries[e].mu /\ new.model = view.entries[e].model
         /\ new.state = view.entries[e].state /\ new.retiring
         /\ new.borrowers = view.entries[e].borrowers
  <2>1. PICK all \in Seq(EntryRecord) : all = view.entries
    BY <1>7
  <2>2. e \in DOMAIN all /\ entries' = Evicted(all, e)
    BY <1>6, <1>9, <2>1, Zenon
  <2>3. \E new \in EntryRecord :
           /\ Evicted(all, e) = [all EXCEPT ![e] = new]
           /\ new.dead /\ new.mu = all[e].mu /\ new.model = all[e].model
           /\ new.state = all[e].state /\ new.retiring /\ new.borrowers = all[e].borrowers
    BY <2>2, EvictedRecord
  <2> QED BY <2>1, <2>2, <2>3, Zenon
<1>12. /\ new.mu = entries[e].mu /\ new.model = entries[e].model /\ new.state = entries[e].state
       /\ new.borrowers = entries[e].borrowers
  BY <1>7, <1>8, <1>11
<1>13. /\ rec \in RequestRecord /\ rec.at = "evicting" /\ rec.todo = {e}
       /\ moved = [request EXCEPT ![r] = rec]
  BY <1>1, <1>8 DEF RequestRecord, Places, Shape
<1> HIDE DEF rec, moved
<1>14. ChangesView(r, e, new)
  <2>1. oldest \in Keys /\ view.table[oldest] = e
    BY <1>3, <1>4
  <2>2. ChangesFrom(view, r, e, new)
    BY <1>6, <1>8, <1>11, <1>12, <2>1, Zenon DEF ChangesFrom
  <2> QED BY <2>2 DEF ChangesView, view
<1>15. /\ Tame(r) /\ TableShape' /\ TableLive' /\ ReadyOpen'
       /\ DOMAIN entries' = DOMAIN entries /\ entries'[e] = new
       /\ \A d \in DOMAIN entries : Ready(d)' <=> Ready(d)
       /\ \A d \in DOMAIN entries \ {e} : entries'[d].borrowers = entries[d].borrowers
  BY <1>14, SupersedeAndChange
<1>16. /\ RequestsKept(r) /\ ClosersKept(r)
       /\ request'[r].todo = {e} /\ request'[r].at = "evicting"
  BY <1>1, <1>6, <1>13, RecordNotify, Zenon
<1>17. GoodRequest(r)'
  BY <1>8, <1>10, <1>11, <1>12, <1>15, <1>16 DEF GoodRequest, Having, Owning
<1>18. Books'
  BY <1>5, <1>14, <1>16, SupersedeBooks
<1>19. Lends'
  BY <1>5, <1>12, <1>15, <1>16, LendsKept DEF Borrowing
<1>20. r \notin Closers
  BY SessionsAssumption
<1> QED BY <1>15, <1>16, <1>17, <1>18, <1>19, <1>20, StepKeeps

\* A request that loads an entry is its only borrower.
LEMMA LendsLoading ==
  ASSUME Inv, NEW r \in Requests, RequestsKept(r), NEW e, e \notin DOMAIN entries,
         request[r].at = "lease", request'[r].at = "loading", request'[r].entry = e,
         DOMAIN entries' = DOMAIN entries \cup {e},
         \A d \in DOMAIN entries : entries'[d].borrowers = entries[d].borrowers,
         \A d \in DOMAIN entries : Ready(d)' <=> Ready(d),
         entries'[e].borrowers = 1, entries'[e].state = "loading"
  PROVE  Lends'
<1>1. \A q \in Requests \ {r} : /\ request'[q].at \in Borrowing <=> request[q].at \in Borrowing
                                /\ request'[q].at = "loading" <=> request[q].at = "loading"
                                /\ request'[q].at \in Borrowing => Entry(q)' = Entry(q)
  BY DEF RequestsKept, Borrowing, Entry
<1>2. /\ request'[r].at \in Borrowing /\ request[r].at \notin Borrowing /\ Entry(r)' = e
      /\ request'[r].at = "loading"
  BY DEF Borrowing, Entry
<1>3. \A q \in Requests : request[q].at \in Borrowing => Entry(q) \in DOMAIN entries
  BY DEF Inv, GoodRequest, Having, Owning, Borrowing
<1>4. Borrowers(e)' = {r}
  BY <1>1, <1>2, <1>3 DEF Borrowers
<1>5. \A d \in DOMAIN entries : Borrowers(d)' = Borrowers(d)
  BY <1>1, <1>2 DEF Borrowers
<1>6. \A q \in Requests \ {r} : \A d : Loads(q, d)' <=> Loads(q, d)
  BY <1>1 DEF Loads, Borrowing
<1>7. Loads(r, e)'
  BY <1>2 DEF Loads
<1>8. \A q \in Requests \ {r} : request'[q].at = "loading" =>
        request[q].at = "loading" /\ Entry(q) \in DOMAIN entries /\ Entry(q)' = Entry(q)
  BY <1>1, <1>3 DEF Borrowing
<1>9. entries'[e].borrowers = Cardinality(Borrowers(e)')
  <2>1. Cardinality({r}) = 1
    BY FS_Singleton
  <2> QED BY <1>4, <2>1
<1>10. \A d \in DOMAIN entries' : entries'[d].borrowers = Cardinality(Borrowers(d)')
  BY <1>5, <1>9 DEF Inv, Lends
<1>11. ASSUME NEW d \in DOMAIN entries', ~Ready(d)' PROVE \E q \in Requests : Loads(q, d)'
  <2>1. CASE d = e
    BY <1>7, <2>1
  <2>2. CASE d # e
    <3>1. d \in DOMAIN entries /\ ~Ready(d)
      BY <1>11, <2>2
    <3>2. PICK q \in Requests : Loads(q, d)
      BY <3>1 DEF Inv, Lends
    <3>3. q # r
      BY <1>2, <3>2 DEF Loads, Borrowing
    <3> QED BY <1>6, <3>2, <3>3
  <2> QED BY <2>1, <2>2
<1>12. \A q \in Requests : request'[q].at = "loading" => ~Ready(Entry(q))'
  <2>1. ASSUME NEW q \in Requests \ {r}, request'[q].at = "loading" PROVE ~Ready(Entry(q))'
    <3>1. PICK d \in DOMAIN entries : Entry(q) = d /\ ~Ready(d) /\ Entry(q)' = d
      BY <1>8, <2>1 DEF Inv, Lends
    <3> QED BY <3>1 DEF Ready
  <2>2. ~Ready(Entry(r))'
    BY <1>2 DEF Ready
  <2> QED BY <2>1, <2>2
<1>13. ASSUME NEW q \in Requests, NEW p \in Requests, Loads(q, Entry(q))', Loads(p, Entry(q))'
       PROVE  q = p
  <2>1. CASE q # r /\ p # r
    BY <1>8, <1>13, <2>1 DEF Inv, Lends, Loads
  <2>2. CASE q = r
    BY <1>2, <1>8, <1>13, <2>2 DEF Loads
  <2>3. CASE p = r
    BY <1>2, <1>8, <1>13, <2>3 DEF Loads
  <2> QED BY <2>1, <2>2, <2>3
<1> QED BY <1>10, <1>11, <1>12, <1>13 DEF Lends

\* The places taken, counted by a turn.
LEMMA FullCount ==
  ASSUME Inv, NEW r \in Requests
  PROVE  Full(Superseded(r)) <=> Cardinality(Tabled \cup Flagged) >= Capacity
<1> DEFINE view == Superseded(r)
           keys == {k \in Keys : view.table[k] # 0}
           kept == Tabled \ Gone(r)
           f == [k \in keys |-> view.table[k]]
<1>1. SupersedesWell(r, view)
  BY SupersededKeeps DEF Inv
<1>2. /\ Gone(r) \subseteq Tabled /\ IsFiniteSet(Gone(r)) /\ Gone(r) \cap Flagged = {}
      /\ {view.table[k] : k \in Keys} \ {0} = kept
  BY GoneTabled
<1>4. IsFiniteSet(kept) /\ IsFiniteSet(Flagged) /\ IsFiniteSet(Tabled)
  BY HeldFinite, FS_Subset
<1> HIDE DEF view
<1>5. \A k, l \in keys : view.table[k] = view.table[l] => k = l
  BY <1>1 DEF SupersedesWell, ViewWell, Inv, TableLive
<1>6. f \in Injection(keys, kept)
  BY <1>2, <1>5 DEF Injection, IsInjective
<1>7. f \in Surjection(keys, kept)
  BY <1>2 DEF Surjection
<1>8. Cardinality(keys) = Cardinality(kept) /\ Cardinality(kept) \in Nat
  BY <1>4, <1>6, <1>7, FS_Injection, FS_CardinalityType
<1>9. Full(view) <=> Cardinality(keys) + view.retiring.count >= Capacity
  BY DEF Full
<1>10. view.retiring.count = retiring.count + Cardinality(Gone(r)) /\ retiring.count = Cardinality(Flagged)
  BY <1>1 DEF SupersedesWell, ViewWell, Inv, Books
<1>11. Cardinality(Tabled) = Cardinality(kept) + Cardinality(Gone(r))
  <2>1. Tabled = kept \cup Gone(r) /\ kept \cap Gone(r) = {}
    BY <1>2
  <2>2. Cardinality(kept \cup Gone(r)) = Cardinality(kept) + Cardinality(Gone(r))
    BY <1>2, <1>4, <2>1, DisjointCount
  <2> HIDE DEF kept
  <2> QED BY <2>1, <2>2
<1>12. Cardinality(Tabled \cup Flagged) = Cardinality(Tabled) + Cardinality(Flagged)
  BY <1>4, DisjointCount DEF Inv, Books
<1>13. Cardinality(Gone(r)) \in Nat /\ Cardinality(Flagged) \in Nat /\ Capacity \in Nat
  BY <1>2, <1>4, FS_CardinalityType, SessionsAssumption
<1> HIDE DEF keys, kept
<1> QED BY <1>8, <1>9, <1>10, <1>11, <1>12, <1>13 DEF view

\* There is room for another one.
LEMMA RoomToLoad ==
  ASSUME Inv, NEW r \in Requests, ~shutdown.closed, ~Full(Superseded(r))
  PROVE  Taken = {} /\ Cardinality(Held) + 1 <= Capacity
<1>1. Taken = {} /\ Held = Tabled \cup Flagged
  BY TakenWhileShutting DEF Held
<1>2. ~(Cardinality(Tabled \cup Flagged) >= Capacity)
  BY FullCount
<1>3. Cardinality(Held) \in Nat /\ Capacity \in Nat
  BY HeldFinite, FS_CardinalityType, SessionsAssumption
<1> QED BY <1>1, <1>2, <1>3

LEMMA StartLoadStep ==
  ASSUME Inv, NEW r \in Requests, StartLoad(r)
  PROVE  Inv' /\ Stepped(r)
<1> DEFINE view == Superseded(r)
           key == request[r].key
<1>0. PICK e : e = Len(entries) + 1
  OBVIOUS
<1> DEFINE new == [scope |-> request[r].scope, state |-> "loading", model |-> "none", mu |-> Free,
                   borrowers |-> 1, dead |-> FALSE, closing |-> FALSE, retiring |-> FALSE]
           rec == [request[r] EXCEPT !.at = "loading", !.entry = e]
           moved == [request EXCEPT ![r].at = "loading", ![r].entry = e]
<1>1. /\ DOMAIN entries = 1 .. Len(entries) /\ Len(entries) \in Nat
      /\ Shape /\ TableLive /\ request[r] \in RequestRecord
  BY Basics
<1>2. key \in Keys /\ request[r].scope \in Scopes
  BY <1>1 DEF RequestRecord
<1>3. SupersedesWell(r, view)
  BY <1>1, SupersededKeeps
<1>4. /\ entries' = Append(view.entries, new) /\ table' = [view.table EXCEPT ![key] = e]
      /\ NotifyWith(moved) /\ retiring' = view.retiring /\ shutdown' = shutdown
      /\ request[r].at = "lease" /\ view.table[key] = 0
  BY <1>0 DEF StartLoad, Leasing
<1>5. Taken = {} /\ Cardinality(Held) + 1 <= Capacity
  BY RoomToLoad DEF StartLoad, Leasing
<1>6. /\ Gone(r) \subseteq Tabled /\ IsFiniteSet(Gone(r)) /\ Gone(r) \cap Flagged = {}
      /\ {view.table[k] : k \in Keys} \ {0} = Tabled \ Gone(r)
      /\ {d \in DOMAIN entries : view.entries[d].retiring} = Flagged \cup Gone(r)
  BY GoneTabled
<1>7. new \in EntryRecord /\ ~new.dead /\ new.state = "loading" /\ new.borrowers = 1 /\ ~new.retiring
  BY <1>2 DEF EntryRecord
<1>8. e \in Nat /\ e \notin DOMAIN entries /\ e # 0
  BY <1>0, <1>1
<1>9. /\ rec \in RequestRecord /\ rec.at = "loading" /\ rec.entry = e /\ rec.todo = request[r].todo
      /\ moved = [request EXCEPT ![r] = rec]
  BY <1>1, <1>8 DEF RequestRecord, Places, Shape
<1> HIDE DEF view, new, rec, moved, key
<1>10. /\ view.entries \in Seq(EntryRecord) /\ Len(view.entries) = Len(entries)
       /\ \A d \in DOMAIN entries :
            /\ view.entries[d].model = entries[d].model /\ view.entries[d].mu = entries[d].mu
            /\ view.entries[d].state = entries[d].state /\ (entries[d].dead => view.entries[d].dead)
            /\ view.entries[d].borrowers = entries[d].borrowers
       /\ view.table \in [Keys -> Nat]
       /\ \A k \in Keys : /\ view.table[k] = IF k \in Stale(r) THEN 0 ELSE table[k]
                          /\ view.table[k] # 0 => ~view.entries[view.table[k]].dead
       /\ view.retiring = [count |-> retiring.count + Cardinality(Gone(r)),
                           users |-> view.retiring.users]
  BY <1>3 DEF SupersedesWell, ViewWell
<1>11. /\ entries' \in Seq(EntryRecord) /\ Len(entries') = e
       /\ DOMAIN entries' = DOMAIN entries \cup {e} /\ entries'[e] = new
       /\ \A d \in DOMAIN entries : entries'[d] = view.entries[d]
  BY <1>0, <1>1, <1>4, <1>7, <1>10
<1>12. \A d \in DOMAIN entries : Ready(d)' <=> Ready(d)
  BY <1>10, <1>11 DEF Ready
<1>13. Tame(r)
  BY <1>0, <1>1, <1>10, <1>11, <1>12 DEF Tame
<1>14. \A k \in Keys : /\ k = key => table'[k] = e
                       /\ k # key => table'[k] \in {table[k], 0} /\ table'[k] = view.table[k]
  BY <1>4, <1>10
<1>15. \A k \in Keys : table[k] \in Nat /\ table[k] <= Len(entries)
  BY <1>1 DEF Shape
<1>16. TableShape'
  <2>1. ASSUME NEW k \in Keys PROVE table'[k] \in Nat /\ table'[k] <= Len(entries')
    BY <1>0, <1>1, <1>8, <1>11, <1>14, <1>15
  <2>2. table' \in [Keys -> Nat]
    BY <1>4, <1>8, <1>10
  <2> QED BY <2>1, <2>2 DEF TableShape
<1>17. \A k \in Keys : k # key => table'[k] # e
  BY <1>0, <1>1, <1>14, <1>15
<1>18. TableLive'
  <2>1. ASSUME NEW k \in Keys, table'[k] # 0 PROVE ~entries'[table'[k]].dead
    <3>1. CASE k = key
      BY <1>7, <1>11, <1>14, <3>1
    <3>2. CASE k # key
      <4>1. table'[k] = view.table[k] /\ table'[k] \in DOMAIN entries
        BY <1>1, <1>14, <1>15, <2>1, <3>2
      <4> QED BY <1>10, <1>11, <2>1, <4>1
    <3> QED BY <3>1, <3>2
  <2>2. ASSUME NEW k \in Keys, NEW l \in Keys, table'[k] = table'[l], table'[k] # 0 PROVE k = l
    <3>1. CASE k # key /\ l # key
      BY <1>1, <1>14, <2>2, <3>1 DEF TableLive
    <3> QED BY <1>14, <1>17, <2>2, <3>1
  <2> QED BY <2>1, <2>2 DEF TableLive
<1>19. ReadyOpen'
  BY <1>7, <1>10, <1>11 DEF ReadyOpen, Inv
<1>20. /\ RequestsKept(r) /\ ClosersKept(r)
       /\ request'[r].todo = request[r].todo /\ request'[r].entry = e
       /\ request'[r].at = "loading"
  BY <1>1, <1>4, <1>9, RecordNotify
<1>21. \A d \in request[r].todo : d \in DOMAIN entries /\ entries'[d].dead /\ Ready(d)'
  BY <1>13 DEF Inv, GoodRequest, Tame
<1>22. GoodRequest(r)'
  BY <1>11, <1>20, <1>21 DEF GoodRequest, Entry, Having, Owning
<1>23. Lends'
  BY <1>4, <1>7, <1>8, <1>10, <1>11, <1>12, <1>20, LendsLoading
<1>24. Books'
  <2>1. Taken' = {} /\ ShutClosers'
    BY <1>4, <1>5, <1>20, TakenKept
  <2>2. Flagged' = Flagged \cup Gone(r)
    <3>1. Flagged' = {d \in DOMAIN entries : view.entries[d].retiring}
      BY <1>7, <1>8, <1>11 DEF Flagged
    <3> QED BY <1>6, <3>1
  <2>3. Tabled' = (Tabled \ Gone(r)) \cup {e}
    <3>1. Tabled' \subseteq ({view.table[k] : k \in Keys} \ {0}) \cup {e}
      BY <1>14 DEF Tabled
    <3>2. e \in Tabled'
      BY <1>2, <1>8, <1>14 DEF Tabled, key
    <3>3. {view.table[k] : k \in Keys} \ {0} \subseteq Tabled'
      BY <1>4, <1>14 DEF Tabled
    <3> QED BY <1>6, <3>1, <3>2, <3>3
  <2>4. Resident' = Resident \cup {e}
    BY <1>7, <1>8, <1>10, <1>11 DEF Resident
  <2>5. retiring' = [count |-> Cardinality(Flagged'), users |-> retiring'.users]
    <3>1. Cardinality(Flagged \cup Gone(r)) = retiring.count + Cardinality(Gone(r))
      <4>1. retiring.count = Cardinality(Flagged) /\ Flagged \cap Gone(r) = {}
        BY <1>6 DEF Inv, Books
      <4> QED BY <1>6, <4>1, HeldFinite, DisjointCount
    <3> QED BY <1>4, <1>10, <2>2, <3>1
  <2>6. Held = Tabled \cup Flagged /\ Resident \subseteq Held /\ Tabled \cap Flagged = {}
    BY <1>5 DEF Held, Inv, Books
  <2>7. Held' = Held \cup {e} /\ Resident' \subseteq Held'
    BY <1>6, <2>1, <2>2, <2>3, <2>4, <2>6 DEF Held
  <2>8. Cardinality(Held') <= Capacity
    <3>1. Cardinality(Held \cup {e}) = Cardinality(Held) + 1
      <4>1. e \notin Held
        BY <1>8, HeldFinite
      <4> QED BY <4>1, HeldFinite, FS_AddElement
    <3> QED BY <1>5, <2>7, <3>1
  <2>9. Tabled' \cap Flagged' = {}
    <3>1. e \notin Flagged /\ e \notin Gone(r)
      BY <1>6, <1>8, HeldFinite DEF Held
    <3> QED BY <1>6, <2>2, <2>3, <2>6, <3>1
  <2>10. Emptied'
    <3>1. ~shutdown.closed
      BY DEF StartLoad, Leasing
    <3>2. ~shutdown'.shutting /\ ~shutdown'.shut
      BY <1>4, <3>1 DEF Inv, Books, Emptied
    <3> QED BY <2>1, <3>2 DEF Emptied
  <2>11. shutdown' \in ShutdownRecord
    BY <1>4 DEF Inv, Books
  <2> QED BY <2>1, <2>5, <2>7, <2>8, <2>9, <2>10, <2>11 DEF Books
<1>25. r \notin Closers
  BY SessionsAssumption
<1> QED BY <1>13, <1>16, <1>18, <1>19, <1>20, <1>22, <1>23, <1>24, <1>25, StepKeeps

------------------------------------------------------------------------------
LEMMA InitInv == SessionsInit => Inv
<1> SUFFICES ASSUME SessionsInit PROVE Inv
  OBVIOUS
<1>1. /\ entries \in Seq(EntryRecord) /\ Len(entries) = 0 /\ DOMAIN entries = {}
      /\ table \in [Keys -> Nat] /\ \A k \in Keys : table[k] = 0
  BY DEF SessionsInit
<1>2. request \in [Requests -> RequestRecord]
  BY UnaskedType DEF SessionsInit
<1>3. closer \in [Closers -> CloserRecord]
  BY DEF SessionsInit, CloserRecord
<1>4. Shape /\ TableLive /\ ReadyOpen
  BY <1>1, <1>2, <1>3 DEF Shape, TableLive, ReadyOpen
<1>5. \A r \in Requests : GoodRequest(r)
  BY DEF SessionsInit, Unasked, GoodRequest, Having, Owning
<1>6. \A c \in Closers : GoodCloser(c)
  BY DEF SessionsInit, GoodCloser
<1>7. \A c \in Closers : Takes(c) = {}
  BY DEF SessionsInit, Takes
<1>8. Tabled = {} /\ Flagged = {} /\ Taken = {} /\ Resident = {}
  BY <1>1, <1>7 DEF Tabled, Flagged, Taken, Resident
<1>9. Held = {} /\ Cardinality({}) = 0 /\ Capacity \in Nat
  BY <1>8, FS_EmptySet, SessionsAssumption DEF Held
<1>10. /\ shutdown = [closed |-> FALSE, shutting |-> FALSE, shut |-> FALSE]
       /\ retiring = [count |-> 0, users |-> 0]
       /\ \A c \in Closers : closer[c].at = "idle" /\ closer[c].todo = {}
  BY DEF SessionsInit
<1>11. Books
  <2>1. ShutClosers /\ Emptied
    BY <1>8, <1>10 DEF ShutClosers, Emptied
  <2> QED BY <1>8, <1>9, <1>10, <2>1 DEF Books, ShutdownRecord
<1>12. Lends
  BY <1>1 DEF SessionsInit, Unasked, Lends, Loads
<1> QED BY <1>4, <1>5, <1>6, <1>11, <1>12 DEF Inv

LEMMA NextInv == Inv /\ [SessionsNext]_vars => Inv'
<1> SUFFICES ASSUME Inv, [SessionsNext]_vars PROVE Inv'
  OBVIOUS
<1>1. ASSUME NEW r \in Requests, LeaseTurn(r) PROVE Inv'
  BY <1>1, RefuseStep, SupersedeIdleStep, ReuseStep, NoReuseStep, ParkForPlaceStep, EvictStep,
     StartLoadStep DEF LeaseTurn
<1>2. ASSUME NEW r \in Requests, RefuseReset(r) \/ RunRetires(r) PROVE Inv'
  BY <1>2, BeginRetireStep DEF RefuseReset, RunRetires, Inv, Shape, RequestRecord
<1>3. ASSUME NEW r \in Requests, RequestStep(r) PROVE Inv'
  BY <1>1, <1>2, <1>3, WakeStep, LoadEndsStep, TakeLoadedStep, DropLoadedStep, ResetStep,
     RunReleasesStep, EndRetireStep, ReleaseBorrowerStep, BeginFinishStep, EndFinishStep
     DEF RequestStep
<1>4. ASSUME NEW r \in Requests, Ask(r) \/ Cancel(r) PROVE Inv'
  BY <1>4, AskStep, CancelStep
<1>5. ASSUME NEW c \in Closers, CloseCancelled(c) \/ CloserStep(c) PROVE Inv'
  BY <1>5, CloseWaitsStep, CloseMovesStep, CloseTakesStep, CloseBeginsStep, CloseEndsStep
     DEF CloserStep
<1>6. CASE UNCHANGED vars
  <2> USE <1>6 DEF vars
  <2>1. Shape' /\ TableLive' /\ ReadyOpen'
    BY DEF Inv, Shape, TableLive, ReadyOpen
  <2>2. (\A r \in Requests : GoodRequest(r)') /\ (\A c \in Closers : GoodCloser(c)')
    BY DEF Inv, GoodRequest, GoodCloser, Entry, Ready
  <2>3. \A c \in Closers : Takes(c)' = Takes(c)
    BY DEF Takes
  <2>4. Tabled' = Tabled /\ Flagged' = Flagged /\ Taken' = Taken /\ Resident' = Resident
    BY <2>3 DEF Tabled, Flagged, Taken, Resident
  <2>5. Books'
    BY <2>4 DEF Inv, Books, Held, ShutClosers, Emptied, Retires, Entry
  <2>6. \A e : Borrowers(e)' = Borrowers(e)
    BY DEF Borrowers, Entry
  <2>7. Lends'
    BY <2>6 DEF Inv, Lends, Loads, Entry, Ready
  <2> QED BY <2>1, <2>2, <2>5, <2>7 DEF Inv
<1> QED BY <1>3, <1>4, <1>5, <1>6 DEF SessionsNext

\* No model is closed under the request that uses it, and none is used by two,
\* whoever evicts, supersedes, retires or closes meanwhile
\* (session_director.go: leaseEntry, retire, finishRetirement and Close).
THEOREM ModelsInUseStayOpen == SessionsSpec => []UsedModelsAreOpen
<1>1. Inv => UsedModelsAreOpen
  BY DEF Inv, GoodRequest, UsedModelsAreOpen, Owning
<1> QED BY <1>1, InitInv, NextInv, PTL DEF SessionsSpec

\* Never more models than the capacity: what is loaded, used, evicted,
\* superseded or retired keeps its place until its Close returned
\* (session_director.go: leaseEntry, supersedeLocked and finishRetirement).
THEOREM PlacesSuffice == SessionsSpec => []CapacityHeld
<1>1. Inv => CapacityHeld
  <2> SUFFICES ASSUME Inv PROVE CapacityHeld
    OBVIOUS
  <2>1. /\ Cardinality(Resident) <= Cardinality(Held)
        /\ Cardinality(Held) \in Nat /\ Cardinality(Resident) \in Nat
    BY HeldFinite, FS_Subset, FS_CardinalityType DEF Inv, Books
  <2> QED BY <2>1, SessionsAssumption DEF Inv, Books, CapacityHeld
<1> QED BY <1>1, InitInv, NextInv, PTL DEF SessionsSpec

\* Once a Close returned for good no model is left, not even one that was
\* loading, superseded or in use when it was called (session_director.go: Close).
THEOREM CloseLeavesNothing == SessionsSpec => []ShutClosesAll
<1>1. Inv => ShutClosesAll
  <2> SUFFICES ASSUME Inv, shutdown.shut PROVE Resident = {}
    BY DEF ShutClosesAll
  <2>1. ~shutdown.shutting /\ Tabled = {} /\ Flagged \subseteq Taken
    BY DEF Inv, Books, Emptied, ShutdownRecord
  <2>2. Taken = {}
    BY <2>1, TakenWhileShutting
  <2> QED BY <2>1, <2>2 DEF Inv, Books, Held
<1> QED BY <1>1, InitInv, NextInv, PTL DEF SessionsSpec
------------------------------------------------------------------------------
(* Nobody waits for someone who waits *)

\* A key of the table was used before another one or after it.
UseOrdered ==
  \A k, l \in {k \in Keys : table[k] # 0} : k # l => (<<k, l>> \in recency <=> <<l, k>> \notin recency)

\* Where a request closes entries or is about to.
Finishing == {"finishing", "finished", "evicting", "evicted"}

\* A request that has to close entries has some, and no other has.
GoodWork(r) ==
  /\ request[r].at \in {"finishing", "evicting"} => request[r].todo # {}
  /\ request[r].at \notin Finishing => request[r].todo = {}
  /\ request[r].at \in {"finished", "evicted"} => entries[Entry(r)].dead
  /\ request[r].at = "awaiting" => Entry(r) \in DOMAIN entries

GoodInside(c) == closer[c].at = "inside" => entries[closer[c].entry].dead

\* Who has the mutex of an entry, who is to close it, and whose load of it failed.
HoldsIt(r, e) == request[r].at \in Owning /\ Entry(r) = e
Inside(c, e) == closer[c].at = "inside" /\ closer[c].entry = e
WillClose(r, e) ==
  e \in request[r].todo \/ (request[r].at \in {"finished", "evicted", "retiring"} /\ Entry(r) = e)
Fails(r, e) == request[r].at = "loaded" /\ Entry(r) = e

\* An entry that someone may wait for has someone to get on with it: it is held
\* by one who will let go, what is being retired has someone to close it or to
\* leave it, and a failed load someone to take it out of the table.
GoodEntry(e) ==
  /\ entries[e].mu # Free => (\E r \in Requests : HoldsIt(r, e)) \/ (\E c \in Closers : Inside(c, e))
  /\ entries[e].retiring \/ entries[e].closing => entries[e].dead
  /\ entries[e].retiring /\ entries[e].closing => \E r \in Requests : WillClose(r, e)
  /\ entries[e].retiring /\ ~entries[e].closing => Borrowers(e) # {}
  /\ entries[e].state = "failed" /\ ~entries[e].dead => \E r \in Requests : Fails(r, e)

ShuttingDown == shutdown.shutting => \E c \in Closers : closer[c].at \in {"closing", "inside"}

Awake == \A r \in Requests : request[r].at # "parked"

Busy ==
  /\ UseOrdered /\ Waiters <= Capacity /\ asked \in 0 .. MaxAsks
  /\ \A r \in Requests : GoodWork(r)
  /\ \A c \in Closers : GoodInside(c)
  /\ \A e \in DOMAIN entries : GoodEntry(e)
  /\ ShuttingDown /\ (shutdown.closed => Awake)
  /\ NoLostWakeup

\* The fields of an entry GoodEntry is about.
SameEntry(d) ==
  /\ entries'[d].mu = entries[d].mu /\ entries'[d].state = entries[d].state
  /\ entries'[d].dead = entries[d].dead /\ entries'[d].closing = entries[d].closing
  /\ entries'[d].retiring = entries[d].retiring

\* Whoever makes the step has nothing to do with the entry, or still has.
Spares(p, d) ==
  /\ p \in Requests => /\ HoldsIt(p, d) => HoldsIt(p, d)'
                       /\ WillClose(p, d) => WillClose(p, d)'
                       /\ p \in Borrowers(d) => p \in Borrowers(d)'
                       /\ Fails(p, d) => Fails(p, d)'
  /\ p \in Closers => (Inside(p, d) => Inside(p, d)')

\* What the others have to do with an entry they still have.
LEMMA OthersStay ==
  ASSUME NEW p, Stepped(p), NEW d
  PROVE  /\ \A r \in Requests \ {p} : /\ HoldsIt(r, d) => HoldsIt(r, d)'
                                      /\ WillClose(r, d) => WillClose(r, d)'
                                      /\ r \in Borrowers(d) => r \in Borrowers(d)'
                                      /\ Fails(r, d) => Fails(r, d)'
         /\ \A c \in Closers \ {p} : Inside(c, d) => Inside(c, d)'
<1>1. ASSUME NEW r \in Requests \ {p}
      PROVE  /\ HoldsIt(r, d) => HoldsIt(r, d)'
             /\ WillClose(r, d) => WillClose(r, d)'
             /\ r \in Borrowers(d) => r \in Borrowers(d)'
             /\ Fails(r, d) => Fails(r, d)'
  <2>1. /\ request'[r].entry = request[r].entry /\ request'[r].todo = request[r].todo
        /\ request[r].at # "parked" => request'[r].at = request[r].at
    BY <1>1 DEF Stepped, RequestsKept
  <2> QED BY <2>1 DEF HoldsIt, WillClose, Borrowers, Fails, Entry, Owning, Borrowing
<1>2. ASSUME NEW c \in Closers \ {p} PROVE Inside(c, d) => Inside(c, d)'
  BY <1>2 DEF Stepped, ClosersKept, Inside
<1> QED BY <1>1, <1>2

LEMMA UntouchedEntry ==
  ASSUME NEW p, Stepped(p), NEW d, GoodEntry(d), SameEntry(d), Spares(p, d)
  PROVE  GoodEntry(d)'
<1>1. \A r \in Requests : /\ HoldsIt(r, d) => HoldsIt(r, d)'
                          /\ WillClose(r, d) => WillClose(r, d)'
                          /\ r \in Borrowers(d) => r \in Borrowers(d)'
                          /\ Fails(r, d) => Fails(r, d)'
  BY OthersStay DEF Spares
<1>2. ASSUME NEW c \in Closers PROVE Inside(c, d) => Inside(c, d)'
  <2>1. CASE c = p
    BY <2>1 DEF Spares
  <2>2. CASE c # p
    BY <2>2, OthersStay
  <2> QED BY <2>1, <2>2
<1>3. Borrowers(d) # {} => Borrowers(d)' # {}
  BY <1>1 DEF Borrowers
<1> QED BY <1>1, <1>2, <1>3 DEF GoodEntry, SameEntry

\* A step without a turn of the order of use.
LEMMA UseKept ==
  ASSUME UseOrdered, recency' = recency, \A k \in Keys : table'[k] # 0 => table[k] # 0
  PROVE  UseOrdered'
BY DEF UseOrdered

LEMMA WaitersCounted ==
  ASSUME NEW r, Waiters <= Capacity, Stepped(r),
         r \in Requests => (Waiting(r)' => Waiting(r) \/ Waiters < Capacity)
  PROVE  Waiters' <= Capacity
<1> DEFINE old == {q \in Requests : Waiting(q)}
           new == {q \in Requests : request'[q].at \in {"parked", "woken", "awaiting"}}
<1>1. Waiters = Cardinality(old) /\ Waiters' = Cardinality(new)
  BY DEF Waiters, Waiting
<1>2. IsFiniteSet(old) /\ Cardinality(old) \in Nat /\ Capacity \in Nat
  BY SessionsAssumption, FS_Subset, FS_CardinalityType
<1>3. \A q \in Requests \ {r} : q \in new => q \in old
  BY DEF Stepped, RequestsKept, Waiting
<1>4. r \in new => r \in old \/ Waiters < Capacity
  BY DEF Waiting
<1> HIDE DEF old, new
<1>5. CASE new \subseteq old
  <2>1. IsFiniteSet(new) /\ Cardinality(new) <= Cardinality(old) /\ Cardinality(new) \in Nat
    BY <1>2, <1>5, FS_Subset, FS_CardinalityType
  <2> QED BY <1>1, <1>2, <2>1
<1>6. CASE ~(new \subseteq old)
  <2>1. r \in new /\ r \notin old /\ Waiters < Capacity /\ new \subseteq old \cup {r}
    BY <1>3, <1>4, <1>6 DEF new
  <2>2. IsFiniteSet(old \cup {r}) /\ Cardinality(old \cup {r}) = Cardinality(old) + 1
    BY <1>2, <2>1, FS_AddElement
  <2>3. IsFiniteSet(new) /\ Cardinality(new) <= Cardinality(old \cup {r}) /\ Cardinality(new) \in Nat
    BY <2>1, <2>2, FS_Subset, FS_CardinalityType
  <2> QED BY <1>1, <1>2, <2>1, <2>2, <2>3
<1> QED BY <1>5, <1>6

\* What is left to show of a step.
LEMMA BusyStep ==
  ASSUME Inv, Busy, NEW p \in Requests \cup Closers, Stepped(p),
         UseOrdered', asked' \in 0 .. MaxAsks,
         p \in Requests => GoodWork(p)' /\ (Waiting(p)' => Waiting(p) \/ Waiters < Capacity),
         p \in Closers => GoodInside(p)',
         \A e \in DOMAIN entries' : GoodEntry(e)',
         ShuttingDown', shutdown'.closed => Awake', NoLostWakeup'
  PROVE  Busy'
<1>1. DOMAIN entries \subseteq DOMAIN entries' /\ \A e \in DOMAIN entries : entries[e].dead => entries'[e].dead
  BY DEF Inv, Shape, Stepped, Tame
<1>2. Waiters' <= Capacity
  BY WaitersCounted DEF Busy
<1>3. ASSUME NEW r \in Requests \ {p} PROVE GoodWork(r)'
  <2>1. /\ Entry(r)' = Entry(r) /\ request'[r].todo = request[r].todo
        /\ \/ request'[r].at = request[r].at
           \/ request[r].at = "parked" /\ request'[r].at = "woken"
    BY <1>3 DEF Stepped, RequestsKept, Entry
  <2>2. GoodWork(r) /\ (request[r].at \in {"finished", "evicted"} => Entry(r) \in DOMAIN entries)
    BY <1>3 DEF Busy, Inv, GoodRequest, Having, Owning
  <2> QED BY <1>1, <2>1, <2>2 DEF GoodWork, Finishing
<1>4. ASSUME NEW c \in Closers \ {p} PROVE GoodInside(c)'
  <2>1. GoodInside(c) /\ (closer[c].at = "inside" => closer[c].entry \in DOMAIN entries)
    BY <1>4 DEF Busy, Inv, GoodCloser
  <2> QED BY <1>1, <1>4, <2>1 DEF GoodInside, Stepped, ClosersKept
<1>5. (\A r \in Requests : GoodWork(r)') /\ (\A c \in Closers : GoodInside(c)')
  BY <1>3, <1>4
<1> QED BY <1>2, <1>5 DEF Busy

\* Whoever notifies wakes all.
LEMMA AllWoken ==
  ASSUME Inv, NEW p, Stepped(p), request' = Notified(request) \/ (\E moved : request' = Notified(moved)),
         closer' = Notified(closer)
  PROVE  Awake' /\ NoLostWakeup'
<1>1. PICK moved : request' = Notified(moved)
  OBVIOUS
<1>2. ASSUME NEW r \in Requests PROVE request'[r].at # "parked"
  <2>1. request' \in [Requests -> RequestRecord] /\ r \in DOMAIN moved
    BY <1>1 DEF Stepped, RequestsKept, Notified
  <2>2. request'[r] = IF moved[r].at = "parked" THEN [moved[r] EXCEPT !.at = "woken"] ELSE moved[r]
    BY <1>1, <2>1 DEF Notified
  <2>3. request'[r] \in RequestRecord
    BY <2>1
  <2>4. CASE moved[r].at = "parked"
    <3>1. "at" \in DOMAIN request'[r] /\ request'[r] = [moved[r] EXCEPT !.at = "woken"]
      BY <2>2, <2>3, <2>4 DEF RequestRecord
    <3>2. "at" \in DOMAIN moved[r]
      BY <3>1
    <3> QED BY <3>1, <3>2
  <2> QED BY <2>2, <2>4
<1>3. ASSUME NEW c \in Closers PROVE closer'[c].at # "parked"
  <2>1. closer \in [Closers -> CloserRecord]
    BY DEF Inv, Shape
  <2>2. closer[c] \in CloserRecord /\ closer'[c] = IF closer[c].at = "parked" THEN [closer[c] EXCEPT !.at = "woken"] ELSE closer[c]
    BY <2>1 DEF Notified
  <2> QED BY <2>2 DEF CloserRecord
<1> QED BY <1>2, <1>3 DEF Awake, NoLostWakeup

------------------------------------------------------------------------------
(* Who sleeps, and through what *)

\* What CouldProceed comes to: the scope has an idle entry under another key,
\* or the entry of the key is not in use, or there is none and a place for it.
IdleOfScope(r) ==
  \E k \in Keys \ {request[r].key} :
    table[k] # 0 /\ entries[table[k]].scope = request[r].scope /\ Ready(table[k]) /\ Idle(table[k])
OwnFree(r) ==
  table[request[r].key] # 0
    /\ (~Ready(table[request[r].key]) \/ entries[table[request[r].key]].mu = Free)
IdleToEvict(r) ==
  \E k \in Keys \ {request[r].key} :
    table[k] # 0 /\ entries[table[k]].scope # request[r].scope /\ Idle(table[k])
PlaceFree == ~(Cardinality(Tabled \cup Flagged) >= Capacity)
Could(r) ==
  \/ shutdown.closed \/ IdleOfScope(r) \/ OwnFree(r)
  \/ table[request[r].key] = 0 /\ (IdleToEvict(r) \/ PlaceFree)

LEMMA CouldMeans ==
  ASSUME Inv, NEW r \in Requests
  PROVE  CouldProceed(r) <=> Could(r)
<1> DEFINE key == request[r].key
           view == Superseded(r)
<1>0. key \in Keys
  BY Basics DEF RequestRecord
<1>1. \A k \in Keys : view.table[k] = IF k \in Stale(r) THEN 0 ELSE table[k]
  BY SupersededKeeps DEF Inv, SupersedesWell, ViewWell
<1>2. \A k \in Keys : k \in Stale(r) <=> k # key /\ table[k] # 0 /\ entries[table[k]].scope = request[r].scope
  BY DEF Stale
<1>3. StaleIdle(r) # {} <=> IdleOfScope(r)
  <2>1. StaleIdle(r) # {} <=> \E k \in Stale(r) : Ready(table[k]) /\ Idle(table[k])
    BY Zenon DEF StaleIdle
  <2>2. (\E k \in Stale(r) : Ready(table[k]) /\ Idle(table[k])) <=> IdleOfScope(r)
    BY <1>2 DEF IdleOfScope, Stale
  <2> QED BY <2>1, <2>2
<1>4. Full(view) <=> ~PlaceFree
  BY FullCount DEF PlaceFree
<1> HIDE DEF view
<1>5. table[key] = 0 => (Evictable(view) # {} <=> IdleToEvict(r))
  BY <1>0, <1>1, <1>2 DEF Evictable, IdleToEvict
<1> QED BY <1>3, <1>4, <1>5 DEF CouldProceed, Could, OwnFree, view

CouldRight == \A r \in Requests : CouldProceed(r) <=> Could(r)

LEMMA CouldMeansAll == Inv => CouldRight
BY CouldMeans DEF CouldRight

\* A step that leaves the table alone, and what is in it.
LEMMA SleepOn ==
  ASSUME Inv, Busy, Inv', NEW p, Stepped(p), table' = table, retiring' = retiring,
         shutdown' = shutdown, Flagged' = Flagged,
         \A c \in Closers : closer'[c].at = "parked" => closer[c].at = "parked",
         \A e \in Tabled : /\ entries'[e].scope = entries[e].scope
                           /\ entries'[e].state = entries[e].state
                           /\ entries'[e].borrowers = entries[e].borrowers
                           /\ entries'[e].mu = entries[e].mu,
         \A q \in Requests : request'[q].at = "parked" =>
           /\ request[q].at = "parked" /\ request'[q].key = request[q].key
           /\ request'[q].scope = request[q].scope,
         \A q \in Requests : AboutToNotify(q) => AboutToNotify(q)'
  PROVE  NoLostWakeup'
<1>1. Tabled' = Tabled /\ \A k \in Keys : table[k] # 0 => table[k] \in Tabled
  BY DEF Tabled
<1>2. \A e \in Tabled : (Ready(e)' <=> Ready(e)) /\ (Idle(e)' <=> Idle(e))
  BY DEF Ready, Idle
<1>3. PlaceFree' <=> PlaceFree
  BY <1>1 DEF PlaceFree
<1>9. CouldRight'
  BY CouldMeansAll, PTL
<1>0. \A q \in Requests : CouldProceed(q)' <=> Could(q)'
  BY <1>9 DEF CouldRight
<1>4. ASSUME NEW q \in Requests, request'[q].at = "parked", CouldProceed(q)'
      PROVE  \E x \in Requests : AboutToNotify(x)'
  <2>1. Could(q)'
    BY <1>0, <1>4
  <2>2. /\ request[q].at = "parked" /\ request'[q].key = request[q].key /\ request'[q].scope = request[q].scope
        /\ request[q].key \in Keys
    BY <1>4, Basics DEF RequestRecord
  <2>3. Could(q)
    BY <1>1, <1>2, <1>3, <2>1, <2>2 DEF Could, IdleOfScope, OwnFree, IdleToEvict
  <2>4. CouldProceed(q)
    BY <2>3, CouldMeans
  <2> QED BY <2>2, <2>4 DEF Busy, NoLostWakeup
<1>5. \A c \in Closers : closer'[c].at = "parked" => MustWait'
  BY DEF Busy, NoLostWakeup, MustWait
<1> QED BY <1>4, <1>5 DEF NoLostWakeup

\* A step after which the request is about to notify.
LEMMA SoonNotified ==
  ASSUME Busy, NEW r \in Requests, AboutToNotify(r)', closer' = closer,
         retiring' = retiring, shutdown' = shutdown
  PROVE  NoLostWakeup'
BY DEF Busy, NoLostWakeup, MustWait

------------------------------------------------------------------------------
(* Steps that leave the entries alone *)

LEMMA SameEntries ==
  ASSUME Busy, NEW p, Stepped(p), entries' = entries, \A d \in DOMAIN entries : Spares(p, d)
  PROVE  \A e \in DOMAIN entries' : GoodEntry(e)'
BY UntouchedEntry DEF Busy, SameEntry

\* A request without an entry has nothing to do with any.
LEMMA SparesAll ==
  ASSUME Busy, NEW r \in Requests, request[r].at \notin Having \cup Finishing
  PROVE  \A d : Spares(r, d)
<1>1. request[r].todo = {}
  BY DEF Busy, GoodWork
<1>2. r \notin Closers
  BY SessionsAssumption
<1> QED BY <1>1, <1>2 DEF Spares, HoldsIt, WillClose, Borrowers, Fails, Having, Owning, Borrowing, Finishing

\* What is left to show of a step of a request.
LEMMA RequestBusy ==
  ASSUME Inv, Busy, NEW r \in Requests, Stepped(r), shutdown' = shutdown,
         UseOrdered', asked' \in 0 .. MaxAsks, GoodWork(r)',
         Waiting(r)' => Waiting(r) \/ Waiters < Capacity,
         request'[r].at = "parked" => request[r].at = "parked" \/ ~shutdown.closed,
         \A e \in DOMAIN entries' : GoodEntry(e)', NoLostWakeup'
  PROVE  Busy'
<1>1. r \notin Closers
  BY SessionsAssumption
<1>2. ShuttingDown'
  <2>1. \A c \in Closers : closer[c].at \in {"closing", "inside"} => closer'[c].at = closer[c].at
    BY <1>1 DEF Stepped, ClosersKept
  <2> QED BY <2>1 DEF Busy, ShuttingDown
<1>3. shutdown'.closed => Awake'
  <2>1. \A q \in Requests : request'[q].at = "parked" => request[q].at = "parked" \/ ~shutdown.closed
    BY DEF Stepped, RequestsKept
  <2> QED BY <2>1 DEF Busy, Awake
<1> QED BY <1>1, <1>2, <1>3, BusyStep

\* A request that moves and tells nobody.
LEMMA QuietBusy ==
  ASSUME Inv, Busy, Inv', NEW r \in Requests, Stepped(r), entries' = entries, table' = table,
         recency' = recency, retiring' = retiring, shutdown' = shutdown, closer' = closer,
         asked' \in 0 .. MaxAsks, \A q \in Requests \ {r} : request'[q] = request[q],
         request'[r].at \in {"parked", "woken", "awaiting"} =>
           /\ request'[r].at = request[r].at /\ request'[r].key = request[r].key
           /\ request'[r].scope = request[r].scope,
         GoodWork(r)', \A d \in DOMAIN entries : Spares(r, d), AboutToNotify(r) => AboutToNotify(r)'
  PROVE  Busy'
<1>1. UseOrdered'
  BY UseKept DEF Busy
<1>2. \A e \in DOMAIN entries' : GoodEntry(e)'
  BY SameEntries
<1>3. Flagged' = Flagged
  BY DEF Flagged
<1>4. \A q \in Requests : AboutToNotify(q) => AboutToNotify(q)'
  BY DEF AboutToNotify, Entry
<1>5. NoLostWakeup'
  BY <1>3, <1>4, SleepOn
<1>6. (Waiting(r)' => Waiting(r)) /\ (request'[r].at = "parked" => request[r].at = "parked")
  BY DEF Waiting
<1> QED BY <1>1, <1>2, <1>5, <1>6, RequestBusy

LEMMA AskBusy ==
  ASSUME Inv, Busy, NEW r \in Requests, Ask(r)
  PROVE  Busy'
<1>1. Inv' /\ Stepped(r)
  BY AskStep
<1>2. PICK key \in Keys, scope \in Scopes, scoped \in BOOLEAN :
        request' = [request EXCEPT ![r] = [Unasked EXCEPT
          !.at = "lease", !.key = key, !.scope = scope, !.scoped = scoped]]
  BY DEF Ask
<1>3. request \in [Requests -> RequestRecord]
  BY DEF Inv, Shape
<1>4. /\ request'[r].at = "lease" /\ request'[r].todo = {}
      /\ \A q \in Requests \ {r} : request'[q] = request[q]
  BY <1>2, <1>3 DEF Unasked
<1>5. asked' \in 0 .. MaxAsks
  BY SessionsAssumption DEF Ask, Busy
<1>6. request[r].at = "idle"
  BY DEF Ask
<1>7. GoodWork(r)'
  BY <1>4 DEF GoodWork, Finishing
<1>8. \A d : Spares(r, d)
  BY <1>6, SparesAll DEF Having, Owning, Finishing
<1> QED BY <1>1, <1>4, <1>5, <1>6, <1>7, <1>8, QuietBusy DEF Ask, AboutToNotify

LEMMA CancelBusy ==
  ASSUME Inv, Busy, NEW r \in Requests, Cancel(r)
  PROVE  Busy'
<1>1. Inv' /\ Stepped(r)
  BY CancelStep
<1>2. request \in [Requests -> RequestRecord] /\ request' = [request EXCEPT ![r].live = FALSE]
  BY DEF Inv, Shape, Cancel
<1>3. /\ request'[r].at = request[r].at /\ request'[r].todo = request[r].todo
      /\ request'[r].entry = request[r].entry /\ request'[r].key = request[r].key
      /\ request'[r].scope = request[r].scope
      /\ \A q \in Requests \ {r} : request'[q] = request[q]
  BY <1>2 DEF RequestRecord
<1>4. entries' = entries /\ asked' = asked /\ asked \in 0 .. MaxAsks /\ GoodWork(r)
  BY DEF Cancel, Busy
<1>5. GoodWork(r)'
  BY <1>3, <1>4 DEF GoodWork, Entry
<1>6. r \notin Closers
  BY SessionsAssumption
<1>7. \A d : Spares(r, d)
  BY <1>3, <1>6 DEF Spares, HoldsIt, WillClose, Borrowers, Fails, Entry
<1>8. AboutToNotify(r) => AboutToNotify(r)'
  BY <1>3, <1>4 DEF AboutToNotify, Entry
<1> QED BY <1>1, <1>3, <1>4, <1>5, <1>7, <1>8, QuietBusy DEF Cancel

LEMMA RefuseBusy ==
  ASSUME Inv, Busy, NEW r \in Requests, Refuse(r)
  PROVE  Busy'
<1>1. Inv' /\ Stepped(r)
  BY RefuseStep
<1>2. /\ request'[r].at = "idle" /\ request'[r].todo = {}
      /\ \A q \in Requests \ {r} : request'[q] = request[q]
  BY DoneType DEF Refuse, Inv
<1>3. asked' \in 0 .. MaxAsks /\ request[r].at = "lease"
  BY DEF Refuse, Busy
<1>4. GoodWork(r)'
  BY <1>2 DEF GoodWork, Finishing
<1>5. \A d : Spares(r, d)
  BY <1>3, SparesAll DEF Having, Owning, Finishing
<1> QED BY <1>1, <1>2, <1>3, <1>4, <1>5, QuietBusy DEF Refuse, AboutToNotify

LEMMA ResetBusy ==
  ASSUME Inv, Busy, NEW r \in Requests, Reset(r)
  PROVE  Busy'
<1>1. Inv' /\ Stepped(r)
  BY ResetStep
<1>2. request' = Moved(r, "running") /\ request[r].at = "resetting"
  BY DEF Reset, Moved
<1>3. /\ request'[r].at = "running" /\ request'[r].todo = request[r].todo
      /\ Entry(r)' = Entry(r)
      /\ \A q \in Requests \ {r} : request'[q] = request[q]
  BY <1>2, AtType DEF Inv, Places, Entry
<1>4. entries' = entries /\ asked' \in 0 .. MaxAsks /\ GoodWork(r)
  BY DEF Reset, Busy
<1>5. GoodWork(r)'
  BY <1>2, <1>3, <1>4 DEF GoodWork, Finishing
<1>6. r \notin Closers
  BY SessionsAssumption
<1>7. \A d : Spares(r, d)
  BY <1>2, <1>3, <1>6 DEF Spares, HoldsIt, WillClose, Borrowers, Fails, Owning, Borrowing
<1>8. AboutToNotify(r) => AboutToNotify(r)'
  BY <1>2, <1>3, <1>4 DEF AboutToNotify
<1> QED BY <1>1, <1>3, <1>4, <1>5, <1>7, <1>8, QuietBusy DEF Reset

LEMMA WakeBusy ==
  ASSUME Inv, Busy, NEW r \in Requests, Wake(r)
  PROVE  Busy'
<1>1. Inv' /\ Stepped(r)
  BY WakeStep
<1> DEFINE again == [request EXCEPT ![r].at = "lease", ![r].entry = 0]
<1>2. PICK moved \in {again, Done(r)} : NotifyWith(moved)
  BY DEF Wake
<1>3. /\ moved \in [Requests -> RequestRecord] /\ moved[r].at \in {"lease", "idle"}
      /\ moved[r].todo \subseteq request[r].todo
      /\ \A q \in Requests \ {r} : moved[q] = request[q]
  <2>1. request \in [Requests -> RequestRecord]
    BY DEF Inv, Shape
  <2>2. CASE moved = again
    <3> DEFINE rec == [request[r] EXCEPT !.at = "lease", !.entry = 0]
    <3>1. request[r] \in RequestRecord /\ "lease" \in Places
      BY <2>1 DEF Places
    <3>2. rec \in RequestRecord /\ rec.at = "lease" /\ rec.todo = request[r].todo
      BY <3>1 DEF RequestRecord
    <3>3. moved = [request EXCEPT ![r] = rec]
      BY <2>1, <2>2
    <3> HIDE DEF rec
    <3> QED BY <2>1, <3>2, <3>3
  <2>3. CASE moved = Done(r)
    BY <2>3, DoneType DEF Inv
  <2> QED BY <2>2, <2>3
<1>4. request'[r].at \in {"lease", "idle"} /\ request'[r].todo \subseteq request[r].todo
  BY <1>2, <1>3, NotifyKeeps DEF Inv
<1>5. request[r].at \in {"parked", "woken", "awaiting"} /\ request[r].todo = {}
  BY DEF Wake, Waiting, Busy, GoodWork, Finishing
<1>6. GoodWork(r)'
  BY <1>4, <1>5 DEF GoodWork, Finishing
<1>7. \A d : Spares(r, d)
  BY <1>5, SparesAll DEF Having, Owning, Finishing
<1>8. \A e \in DOMAIN entries' : GoodEntry(e)'
  BY <1>1, <1>7, SameEntries DEF Wake
<1>9. NoLostWakeup'
  BY <1>1, <1>2, AllWoken DEF NotifyWith
<1>10. UseOrdered' /\ asked' \in 0 .. MaxAsks
  BY UseKept DEF Busy, Wake
<1> QED BY <1>1, <1>4, <1>6, <1>8, <1>9, <1>10, RequestBusy DEF Wake, Waiting

LEMMA TakeLoadedBusy ==
  ASSUME Inv, Busy, NEW r \in Requests, TakeLoaded(r)
  PROVE  Busy'
<1>1. Inv' /\ Stepped(r)
  BY TakeLoadedStep
<1>2. NotifyWith(Moved(r, "running")) /\ request[r].at = "loaded" /\ entries[Entry(r)].state = "ready"
  BY DEF TakeLoaded, Moved
<1>3. request'[r].at = "running" /\ request'[r].todo = request[r].todo /\ Entry(r)' = Entry(r)
  BY <1>2, AtNotify DEF Inv, Places, Entry
<1>4. GoodWork(r) /\ GoodWork(r)'
  BY <1>2, <1>3 DEF Busy, GoodWork, Finishing
<1>5. entries' = entries /\ r \notin Closers
  BY SessionsAssumption DEF TakeLoaded
<1>6. ASSUME NEW d \in DOMAIN entries PROVE GoodEntry(d)'
  <2>1. CASE d # Entry(r)
    <3>1. Spares(r, d)
      BY <1>2, <1>3, <1>5, <2>1 DEF Spares, HoldsIt, WillClose, Borrowers, Fails
    <3> QED BY <1>1, <1>5, <3>1, UntouchedEntry DEF Busy, SameEntry
  <2>2. CASE d = Entry(r)
    <3>1. GoodEntry(d) /\ ~entries[d].dead
      BY <2>2 DEF Busy, TakeLoaded
    <3>2. entries[d].mu # Free => HoldsIt(r, d)'
      BY <1>3, <2>2 DEF HoldsIt, Owning
    <3> QED BY <1>2, <1>5, <2>2, <3>1, <3>2 DEF GoodEntry
  <2> QED BY <2>1, <2>2
<1>7. NoLostWakeup'
  BY <1>1, <1>2, AllWoken DEF NotifyWith
<1>8. UseOrdered' /\ asked' \in 0 .. MaxAsks
  BY UseKept DEF Busy, TakeLoaded
<1> QED BY <1>1, <1>3, <1>4, <1>5, <1>6, <1>7, <1>8, RequestBusy DEF TakeLoaded, Waiting

------------------------------------------------------------------------------
(* Steps that change the entry of a request *)

LEMMA OwnBusy ==
  ASSUME Inv, Busy, NEW r \in Requests, Stepped(r), NEW e \in DOMAIN entries,
         DOMAIN entries' = DOMAIN entries, \A d \in DOMAIN entries \ {e} : entries'[d] = entries[d],
         \A d \in DOMAIN entries \ {e} : Spares(r, d),
         GoodEntry(e)', GoodWork(r)', request'[r].at \notin {"parked", "woken", "awaiting"},
         \A k \in Keys : table'[k] # 0 => table[k] # 0,
         recency' = recency, asked' = asked, shutdown' = shutdown, NoLostWakeup'
  PROVE  Busy'
<1>1. \A d \in DOMAIN entries' : GoodEntry(d)'
  <2>1. ASSUME NEW d \in DOMAIN entries \ {e} PROVE GoodEntry(d)'
    <3>1. SameEntry(d) /\ GoodEntry(d)
      BY <2>1 DEF SameEntry, Busy
    <3> QED BY <2>1, <3>1, UntouchedEntry
  <2> QED BY <2>1
<1>2. UseOrdered' /\ asked' \in 0 .. MaxAsks
  BY UseKept DEF Busy
<1> QED BY <1>1, <1>2, RequestBusy DEF Waiting

\* The entry of a request, and what others have to do with it.
LEMMA OthersAt ==
  ASSUME Busy, NEW r \in Requests, Stepped(r), NEW e \in DOMAIN entries,
         request[r].todo = {}
  PROVE  /\ entries[e].retiring /\ entries[e].closing /\ request[r].at \notin {"finished", "evicted", "retiring"}
              => \E q \in Requests : WillClose(q, e)'
         /\ entries[e].state = "failed" /\ ~entries[e].dead /\ request[r].at # "loaded"
              => \E q \in Requests : Fails(q, e)'
         /\ entries[e].mu # Free /\ request[r].at \notin Owning /\ r \notin Closers =>
              (\E q \in Requests : HoldsIt(q, e)') \/ (\E c \in Closers : Inside(c, e)')
         /\ entries[e].retiring \/ entries[e].closing => entries[e].dead
<1>1. GoodEntry(e)
  BY DEF Busy
<1>2. \A q \in Requests \ {r} : /\ HoldsIt(q, e) => HoldsIt(q, e)'
                                /\ WillClose(q, e) => WillClose(q, e)'
                                /\ Fails(q, e) => Fails(q, e)'
  BY OthersStay
<1>3. \A c \in Closers \ {r} : Inside(c, e) => Inside(c, e)'
  BY OthersStay
<1>4. /\ request[r].at \notin {"finished", "evicted", "retiring"} => ~WillClose(r, e)
      /\ request[r].at # "loaded" => ~Fails(r, e)
      /\ request[r].at \notin Owning => ~HoldsIt(r, e)
  BY DEF WillClose, Fails, HoldsIt
<1>5. ASSUME entries[e].retiring, entries[e].closing, request[r].at \notin {"finished", "evicted", "retiring"}
      PROVE  \E q \in Requests : WillClose(q, e)'
  BY <1>1, <1>2, <1>4, <1>5 DEF GoodEntry
<1>6. ASSUME entries[e].state = "failed", ~entries[e].dead, request[r].at # "loaded"
      PROVE  \E q \in Requests : Fails(q, e)'
  BY <1>1, <1>2, <1>4, <1>6 DEF GoodEntry
<1>7. ASSUME entries[e].mu # Free, request[r].at \notin Owning, r \notin Closers
      PROVE  (\E q \in Requests : HoldsIt(q, e)') \/ (\E c \in Closers : Inside(c, e)')
  <2>1. CASE \E q \in Requests : HoldsIt(q, e)
    BY <1>2, <1>4, <1>7, <2>1
  <2>2. CASE \E c \in Closers : Inside(c, e)
    <3>1. PICK c \in Closers : Inside(c, e)
      BY <2>2
    <3>2. c # r
      BY <1>7
    <3> QED BY <1>3, <3>1, <3>2
  <2> QED BY <1>1, <1>7, <2>1, <2>2 DEF GoodEntry
<1>8. entries[e].retiring \/ entries[e].closing => entries[e].dead
  BY <1>1 DEF GoodEntry
<1> QED BY <1>5, <1>6, <1>7, <1>8

\* A request that uses its entry has nothing to do with another one.
LEMMA SparesOthers ==
  ASSUME Busy, NEW r \in Requests, request[r].todo = {}, NEW d, d # Entry(r)
  PROVE  Spares(r, d)
<1>1. r \notin Closers
  BY SessionsAssumption
<1> QED BY <1>1 DEF Spares, HoldsIt, WillClose, Borrowers, Fails

LEMMA LoadEndsBusy ==
  ASSUME Inv, Busy, NEW r \in Requests, LoadEnds(r)
  PROVE  Busy'
<1>0. PICK e : e = Entry(r)
  OBVIOUS
<1>1. Inv' /\ Stepped(r)
  BY LoadEndsStep
<1>2. request' = Moved(r, "loaded") /\ request[r].at = "loading"
  BY DEF LoadEnds, Moved
<1>3. request'[r].at = "loaded" /\ request'[r].todo = request[r].todo /\ request'[r].entry = e
  BY <1>0, <1>2, AtType DEF Inv, Places, Entry
<1>4. e \in DOMAIN entries /\ entries \in Seq(EntryRecord)
  BY <1>0, <1>2 DEF Inv, Shape, GoodRequest, Having
<1>5. /\ DOMAIN entries' = DOMAIN entries /\ \A d \in DOMAIN entries \ {e} : entries'[d] = entries[d]
      /\ entries'[e].mu = r /\ entries'[e].dead = entries[e].dead
      /\ entries'[e].closing = entries[e].closing /\ entries'[e].retiring = entries[e].retiring
  <2>1. PICK state, model :
          entries' = [entries EXCEPT ![e].state = state, ![e].model = model, ![e].mu = r]
    BY <1>0 DEF LoadEnds
  <2> DEFINE new == [entries[e] EXCEPT !.state = state, !.model = model, !.mu = r]
  <2>2. entries[e] \in EntryRecord
    BY <1>4
  <2>3. entries' = [entries EXCEPT ![e] = new]
    BY <1>4, <2>1, <2>2 DEF EntryRecord
  <2>4. /\ new.mu = r /\ new.dead = entries[e].dead
        /\ new.closing = entries[e].closing /\ new.retiring = entries[e].retiring
    BY <2>2 DEF EntryRecord
  <2> HIDE DEF new
  <2> QED BY <1>4, <2>3, <2>4
<1>6. request[r].todo = {} /\ GoodWork(r)'
  BY <1>2, <1>3 DEF Busy, GoodWork, Finishing
<1>7. HoldsIt(r, e)' /\ Fails(r, e)' /\ r \in Borrowers(e)' /\ AboutToNotify(r)'
  BY <1>3 DEF HoldsIt, Fails, Borrowers, AboutToNotify, Entry, Owning, Borrowing
<1>8. GoodEntry(e)'
  BY <1>1, <1>2, <1>4, <1>5, <1>6, <1>7, OthersAt DEF GoodEntry
<1>9. \A d \in DOMAIN entries \ {e} : Spares(r, d)
  BY <1>0, <1>6, SparesOthers
<1>10. NoLostWakeup'
  BY <1>7, SoonNotified DEF LoadEnds
<1> QED BY <1>1, <1>3, <1>4, <1>5, <1>6, <1>8, <1>9, <1>10, OwnBusy DEF LoadEnds

LEMMA DropLoadedBusy ==
  ASSUME Inv, Busy, NEW r \in Requests, DropLoaded(r)
  PROVE  Busy'
<1>0. PICK e : e = Entry(r)
  OBVIOUS
<1> DEFINE held == \E k \in Keys : table[k] = e
<1>1. Inv' /\ Stepped(r)
  BY DropLoadedStep
<1>2. NotifyWith(Moved(r, "releasing")) /\ request[r].at = "loaded"
  BY DEF DropLoaded, Moved
<1>3. request'[r].at = "releasing" /\ request'[r].todo = request[r].todo /\ request'[r].entry = e
  BY <1>0, <1>2, AtNotify DEF Inv, Places, Entry
<1>4. e \in DOMAIN entries /\ entries \in Seq(EntryRecord) /\ e # 0
  BY <1>0, <1>2 DEF Inv, Shape, GoodRequest, Having, Owning
<1>5. PICK flag \in BOOLEAN : flag <=> entries[e].retiring \/ held
  OBVIOUS
<1>6. entries' = [entries EXCEPT ![e].dead = TRUE, ![e].mu = Free, ![e].retiring = flag]
  <2>1. entries[e] \in EntryRecord
    BY <1>4
  <2>2. flag = (entries[e].retiring \/ held)
    BY <1>5
  <2> QED BY <1>0, <2>2 DEF DropLoaded
<1>7. /\ DOMAIN entries' = DOMAIN entries /\ \A d \in DOMAIN entries \ {e} : entries'[d] = entries[d]
      /\ entries'[e].mu = Free /\ entries'[e].dead
      /\ entries'[e].closing = entries[e].closing /\ entries'[e].retiring = flag
  <2> DEFINE new == [entries[e] EXCEPT !.dead = TRUE, !.mu = Free, !.retiring = flag]
  <2>1. entries[e] \in EntryRecord
    BY <1>4
  <2>2. entries' = [entries EXCEPT ![e] = new]
    BY <1>4, <1>6, <2>1 DEF EntryRecord
  <2>3. /\ new.mu = Free /\ new.dead /\ new.closing = entries[e].closing /\ new.retiring = flag
    BY <2>1 DEF EntryRecord
  <2> HIDE DEF new
  <2> QED BY <1>4, <2>2, <2>3
<1>8. request[r].todo = {} /\ GoodWork(r)'
  BY <1>2, <1>3 DEF Busy, GoodWork, Finishing
<1>9. r \in Borrowers(e)'
  BY <1>3 DEF Borrowers, Entry, Borrowing
<1>10. entries[e].closing => ~held
  BY <1>4 DEF Busy, GoodEntry, Inv, TableLive
<1>11. GoodEntry(e)'
  BY <1>1, <1>2, <1>4, <1>5, <1>7, <1>8, <1>9, <1>10, OthersAt DEF GoodEntry
<1>12. \A d \in DOMAIN entries \ {e} : Spares(r, d)
  BY <1>0, <1>8, SparesOthers
<1>13. NoLostWakeup'
  BY <1>1, <1>2, AllWoken DEF NotifyWith
<1>14. \A k \in Keys : table'[k] # 0 => table[k] # 0
  BY DEF DropLoaded
<1> QED BY <1>1, <1>3, <1>4, <1>7, <1>8, <1>11, <1>12, <1>13, <1>14, OwnBusy DEF DropLoaded

LEMMA BeginRetireBusy ==
  ASSUME Inv, Busy, NEW r \in Requests, request[r].at \in {"resetting", "running"},
         NEW again \in BOOLEAN, BeginRetire(r, again)
  PROVE  Busy'
<1>0. PICK e : e = Entry(r)
  OBVIOUS
<1> DEFINE moved == [request EXCEPT ![r].at = "retiring", ![r].again = again, ![r].first = FALSE]
<1>1. Inv' /\ Stepped(r)
  BY BeginRetireStep
<1>2. NotifyWith(moved)
  BY DEF BeginRetire
<1>3. request'[r].at = "retiring" /\ request'[r].todo = request[r].todo /\ request'[r].entry = e
  <2>1. request \in [Requests -> RequestRecord]
    BY DEF Inv, Shape
  <2> DEFINE rec == [request[r] EXCEPT !.at = "retiring", !.again = again, !.first = FALSE]
  <2>2. request[r] \in RequestRecord
    BY <2>1
  <2>3. /\ rec \in RequestRecord /\ rec.at = "retiring" /\ rec.todo = request[r].todo /\ rec.entry = e
    BY <1>0, <2>2 DEF RequestRecord, Places, Entry
  <2>4. moved = [request EXCEPT ![r] = rec]
    BY <2>1, <2>2 DEF RequestRecord
  <2> HIDE DEF moved, rec
  <2> QED BY <1>2, <2>3, <2>4, RecordNotify DEF Inv
<1>4. e \in DOMAIN entries /\ entries \in Seq(EntryRecord) /\ entries[e].mu = r
  BY <1>0 DEF Inv, Shape, GoodRequest, Having, Owning
<1>5. /\ DOMAIN entries' = DOMAIN entries /\ \A d \in DOMAIN entries \ {e} : entries'[d] = entries[d]
      /\ entries'[e].mu = entries[e].mu /\ entries'[e].dead /\ entries'[e].closing /\ entries'[e].retiring
  BY <1>0, <1>4 DEF BeginRetire, EntryRecord
<1>6. request[r].todo = {} /\ GoodWork(r)'
  BY <1>3 DEF Busy, GoodWork, Finishing
<1>7. HoldsIt(r, e)' /\ WillClose(r, e)'
  BY <1>3 DEF HoldsIt, WillClose, Entry, Owning
<1>8. GoodEntry(e)'
  BY <1>5, <1>7 DEF GoodEntry
<1>9. \A d \in DOMAIN entries \ {e} : Spares(r, d)
  BY <1>0, <1>6, SparesOthers
<1>10. NoLostWakeup'
  BY <1>1, <1>2, AllWoken DEF NotifyWith
<1>11. \A k \in Keys : table'[k] # 0 => table[k] # 0
  BY DEF BeginRetire
<1> QED BY <1>1, <1>3, <1>4, <1>5, <1>6, <1>8, <1>9, <1>10, <1>11, OwnBusy DEF BeginRetire

LEMMA RunReleasesBusy ==
  ASSUME Inv, Busy, NEW r \in Requests, RunReleases(r)
  PROVE  Busy'
<1>0. PICK e : e = Entry(r)
  OBVIOUS
<1>1. Inv' /\ Stepped(r)
  BY RunReleasesStep
<1>2. request' = Moved(r, "releasing") /\ request[r].at = "running"
  BY DEF RunReleases, Moved
<1>3. request'[r].at = "releasing" /\ request'[r].todo = request[r].todo /\ request'[r].entry = e
  BY <1>0, <1>2, AtType DEF Inv, Places, Entry
<1>4. e \in DOMAIN entries /\ entries \in Seq(EntryRecord)
  BY <1>0, <1>2 DEF Inv, Shape, GoodRequest, Having, Owning
<1>5. /\ DOMAIN entries' = DOMAIN entries /\ \A d \in DOMAIN entries \ {e} : entries'[d] = entries[d]
      /\ entries'[e].mu = Free /\ entries'[e].dead = entries[e].dead
      /\ entries'[e].state = entries[e].state
      /\ entries'[e].closing = entries[e].closing /\ entries'[e].retiring = entries[e].retiring
  <2> DEFINE new == [entries[e] EXCEPT !.mu = Free]
  <2>1. entries[e] \in EntryRecord
    BY <1>4
  <2>2. entries' = [entries EXCEPT ![e] = new]
    BY <1>0, <1>4, <2>1 DEF RunReleases, EntryRecord
  <2>3. /\ new.mu = Free /\ new.dead = entries[e].dead /\ new.state = entries[e].state
        /\ new.closing = entries[e].closing /\ new.retiring = entries[e].retiring
    BY <2>1 DEF EntryRecord
  <2> HIDE DEF new
  <2> QED BY <1>4, <2>2, <2>3
<1>6. request[r].todo = {} /\ GoodWork(r)'
  BY <1>2, <1>3 DEF Busy, GoodWork, Finishing
<1>7. r \in Borrowers(e)' /\ AboutToNotify(r)'
  BY <1>3 DEF Borrowers, AboutToNotify, Entry, Borrowing
<1>8. GoodEntry(e)'
  BY <1>1, <1>2, <1>4, <1>5, <1>6, <1>7, OthersAt DEF GoodEntry
<1>9. \A d \in DOMAIN entries \ {e} : Spares(r, d)
  BY <1>0, <1>6, SparesOthers
<1>10. NoLostWakeup'
  BY <1>7, SoonNotified DEF RunReleases
<1> QED BY <1>1, <1>3, <1>4, <1>5, <1>6, <1>8, <1>9, <1>10, OwnBusy DEF RunReleases

LEMMA EndRetireBusy ==
  ASSUME Inv, Busy, NEW r \in Requests, EndRetire(r)
  PROVE  Busy'
<1>0. PICK e : e = Entry(r)
  OBVIOUS
<1>1. Inv' /\ Stepped(r)
  BY EndRetireStep
<1>2. NotifyWith(Moved(r, "releasing")) /\ request[r].at = "retiring"
  BY DEF EndRetire, Moved
<1>3. request'[r].at = "releasing" /\ request'[r].todo = request[r].todo /\ request'[r].entry = e
  BY <1>0, <1>2, AtNotify DEF Inv, Places, Entry
<1>4. e \in DOMAIN entries /\ entries \in Seq(EntryRecord) /\ entries[e].dead
  BY <1>0, <1>2 DEF Inv, Shape, GoodRequest, Having, Owning
<1>5. /\ DOMAIN entries' = DOMAIN entries /\ \A d \in DOMAIN entries \ {e} : entries'[d] = entries[d]
      /\ entries'[e].mu = Free /\ entries'[e].dead = entries[e].dead /\ ~entries'[e].retiring
  <2> DEFINE new == [entries[e] EXCEPT !.model = "closed", !.retiring = FALSE, !.mu = Free]
  <2>1. entries[e] \in EntryRecord
    BY <1>4
  <2>2. entries' = [entries EXCEPT ![e] = new]
    BY <1>0, <1>4, <2>1 DEF EndRetire, EntryRecord
  <2>3. new.mu = Free /\ new.dead = entries[e].dead /\ ~new.retiring
    BY <2>1 DEF EntryRecord
  <2> HIDE DEF new
  <2> QED BY <1>4, <2>2, <2>3
<1>6. request[r].todo = {} /\ GoodWork(r)'
  BY <1>2, <1>3 DEF Busy, GoodWork, Finishing
<1>7. GoodEntry(e)'
  BY <1>4, <1>5 DEF GoodEntry
<1>8. \A d \in DOMAIN entries \ {e} : Spares(r, d)
  BY <1>0, <1>6, SparesOthers
<1>9. NoLostWakeup'
  BY <1>1, <1>2, AllWoken DEF NotifyWith
<1> QED BY <1>1, <1>3, <1>4, <1>5, <1>6, <1>7, <1>8, <1>9, OwnBusy DEF EndRetire

\* Where a request is once it let go of its last entry.
LEMMA OnwardEmpty ==
  ASSUME Shape, NEW r \in Requests, request[r].todo = {}, NotifyWith(Onward(r)) \/ NotifyWith(Done(r))
  PROVE  request'[r].at \in {"lease", "idle"} /\ request'[r].todo = {}
BY OnwardNotify

LEMMA ReleaseBorrowerBusy ==
  ASSUME Inv, Busy, NEW r \in Requests, ReleaseBorrower(r)
  PROVE  Busy'
<1>0. PICK e : e = Entry(r)
  OBVIOUS
<1>a. PICK closes \in BOOLEAN : closes <=> entries[e].borrowers = 1 /\ entries[e].dead /\ ~entries[e].closing
  OBVIOUS
<1> DEFINE moved == [request EXCEPT ![r].at = "finishing", ![r].todo = {e}]
<1>1. Inv' /\ Stepped(r)
  BY ReleaseBorrowerStep
<1>2. /\ request[r].at = "releasing"
      /\ closes => NotifyWith(moved)
      /\ ~closes => NotifyWith(Onward(r))
  BY <1>0, <1>a DEF ReleaseBorrower
<1>3. request[r].todo = {}
  BY <1>2 DEF Busy, GoodWork, Finishing
<1>4. e \in DOMAIN entries /\ entries \in Seq(EntryRecord) /\ e \in Nat
  BY <1>0, <1>2 DEF Inv, Shape, GoodRequest, Having
<1>5. closes => request'[r].at = "finishing" /\ request'[r].todo = {e}
  <2> SUFFICES ASSUME closes PROVE request'[r].at = "finishing" /\ request'[r].todo = {e}
    OBVIOUS
  <2>1. request \in [Requests -> RequestRecord]
    BY DEF Inv, Shape
  <2> DEFINE rec == [request[r] EXCEPT !.at = "finishing", !.todo = {e}]
  <2>2. request[r] \in RequestRecord
    BY <2>1
  <2>3. rec \in RequestRecord /\ rec.at = "finishing" /\ rec.todo = {e}
    BY <1>4, <2>2 DEF RequestRecord, Places
  <2>4. moved = [request EXCEPT ![r] = rec]
    BY <2>1, <2>2 DEF RequestRecord
  <2>5. NotifyWith(moved)
    BY <1>2
  <2> HIDE DEF moved, rec
  <2> QED BY <2>3, <2>4, <2>5, RecordNotify DEF Inv
<1>6. ~closes => request'[r].at \in {"lease", "idle"} /\ request'[r].todo = {}
  BY <1>2, <1>3, OnwardEmpty DEF Inv
<1>7. /\ DOMAIN entries' = DOMAIN entries /\ \A d \in DOMAIN entries \ {e} : entries'[d] = entries[d]
      /\ entries'[e].mu = entries[e].mu /\ entries'[e].dead = entries[e].dead
      /\ entries'[e].state = entries[e].state /\ entries'[e].retiring = entries[e].retiring
      /\ entries'[e].closing <=> entries[e].closing \/ closes
  <2>1. PICK flag \in BOOLEAN : flag = (entries[e].closing \/ closes)
    OBVIOUS
  <2> DEFINE new == [entries[e] EXCEPT !.borrowers = @ - 1, !.closing = flag]
  <2>2. entries[e] \in EntryRecord
    BY <1>4
  <2>3. closes = (entries[e].borrowers = 1 /\ entries[e].dead /\ ~entries[e].closing)
    BY <1>a
  <2>4. entries' = [entries EXCEPT ![e].borrowers = @ - 1, ![e].closing = flag]
    BY <1>0, <2>1, <2>3 DEF ReleaseBorrower
  <2>5. entries' = [entries EXCEPT ![e] = new]
    BY <1>4, <2>2, <2>4 DEF EntryRecord
  <2>6. /\ new.mu = entries[e].mu /\ new.dead = entries[e].dead /\ new.state = entries[e].state
        /\ new.retiring = entries[e].retiring /\ new.closing = flag
    BY <2>2 DEF EntryRecord
  <2> HIDE DEF new
  <2> QED BY <1>4, <2>1, <2>5, <2>6
<1>8. GoodWork(r)'
  BY <1>5, <1>6 DEF GoodWork, Finishing
<1>9. closes => WillClose(r, e)' /\ entries[e].dead
  BY <1>5, <1>a DEF WillClose
<1>10. ASSUME entries[e].retiring, ~entries[e].closing, ~closes PROVE Borrowers(e)' # {}
  <2>1. r \in Borrowers(e)
    BY <1>0, <1>2 DEF Borrowers, Borrowing
  <2>2. entries[e].dead
    BY <1>4, <1>10 DEF Busy, GoodEntry
  <2>3. Cardinality(Borrowers(e)) # 1
    BY <1>4, <1>10, <1>a, <2>2 DEF Inv, Lends
  <2>4. Borrowers(e) # {r}
    BY <2>3, FS_Singleton
  <2>5. PICK q \in Borrowers(e) : q # r
    BY <2>1, <2>4
  <2>6. q \in Requests \ {r}
    BY <2>5 DEF Borrowers
  <2>7. q \in Borrowers(e)'
    BY <1>1, <2>5, <2>6, OthersStay
  <2> QED BY <2>7
<1>11. r \notin Closers
  BY SessionsAssumption
<1>12. GoodEntry(e)'
  BY <1>1, <1>2, <1>3, <1>4, <1>7, <1>9, <1>10, <1>11, OthersAt DEF GoodEntry, Owning
<1>13. \A d \in DOMAIN entries \ {e} : Spares(r, d)
  BY <1>0, <1>3, SparesOthers
<1>14. NoLostWakeup'
  BY <1>1, <1>2, AllWoken DEF NotifyWith
<1>15. request'[r].at \notin {"parked", "woken", "awaiting"}
  BY <1>5, <1>6
<1> QED BY <1>1, <1>4, <1>7, <1>8, <1>12, <1>13, <1>14, <1>15, OwnBusy DEF ReleaseBorrower

LEMMA BeginFinishBusy ==
  ASSUME Inv, Busy, NEW r \in Requests, BeginFinish(r)
  PROVE  Busy'
<1>1. Inv' /\ Stepped(r)
  BY BeginFinishStep
<1>2. PICK e \in request[r].todo :
        /\ entries[e].mu = Free
        /\ Closing(e, r)
        /\ request' = [request EXCEPT ![r].at = IF @ = "evicting" THEN "evicted" ELSE "finished",
                                      ![r].entry = e, ![r].todo = @ \ {e}]
  BY DEF BeginFinish
<1>3. request[r].at \in {"finishing", "evicting"} /\ r \notin Closers
  BY SessionsAssumption DEF BeginFinish
<1>4. e \in DOMAIN entries /\ entries \in Seq(EntryRecord) /\ entries[e].dead /\ e \in Nat
  BY DEF Inv, Shape, GoodRequest
<1>5. /\ request'[r].at \in {"finished", "evicted"} /\ request'[r].entry = e
      /\ request'[r].todo = request[r].todo \ {e}
      /\ \A q \in Requests \ {r} : request'[q] = request[q]
  <2> DEFINE at == IF request[r].at = "evicting" THEN "evicted" ELSE "finished"
             rec == [request[r] EXCEPT !.at = at, !.entry = e, !.todo = @ \ {e}]
  <2>1. request \in [Requests -> RequestRecord] /\ request[r] \in RequestRecord
    BY DEF Inv, Shape
  <2>2. rec.at \in {"finished", "evicted"} /\ rec.entry = e /\ rec.todo = request[r].todo \ {e}
    BY <2>1 DEF RequestRecord
  <2>3. request' = [request EXCEPT ![r] = rec]
    BY <1>2, <2>1 DEF RequestRecord
  <2> HIDE DEF rec
  <2> QED BY <2>1, <2>2, <2>3
<1>6. /\ DOMAIN entries' = DOMAIN entries /\ \A d \in DOMAIN entries \ {e} : entries'[d] = entries[d]
      /\ entries'[e].mu = r /\ entries'[e].dead /\ entries'[e].closing = entries[e].closing
      /\ entries'[e].retiring = entries[e].retiring
  <2> DEFINE model == IF entries[e].model = "open" THEN "closing" ELSE entries[e].model
             new == [entries[e] EXCEPT !.mu = r, !.model = model]
  <2>1. entries[e] \in EntryRecord
    BY <1>4
  <2>2. entries' = [entries EXCEPT ![e] = new]
    BY <1>2, <1>4, <2>1 DEF Closing, EntryRecord
  <2> HIDE DEF model
  <2>3. new.mu = r /\ new.dead /\ new.closing = entries[e].closing /\ new.retiring = entries[e].retiring
    BY <1>4, <2>1 DEF EntryRecord
  <2> HIDE DEF new
  <2> QED BY <1>4, <2>2, <2>3
<1>7. GoodWork(r)'
  BY <1>5, <1>6 DEF GoodWork, Finishing, Entry
<1>8. HoldsIt(r, e)' /\ WillClose(r, e)'
  BY <1>5 DEF HoldsIt, WillClose, Entry, Owning
<1>9. entries[e].retiring /\ ~entries[e].closing => Borrowers(e)' # {}
  <2> SUFFICES ASSUME entries[e].retiring, ~entries[e].closing PROVE Borrowers(e)' # {}
    OBVIOUS
  <2>1. PICK q \in Borrowers(e) : TRUE
    BY <1>4 DEF Busy, GoodEntry
  <2>2. q \in Requests \ {r}
    BY <1>3, <2>1 DEF Borrowers, Borrowing
  <2>3. q \in Borrowers(e)'
    BY <1>1, <2>1, <2>2, OthersStay
  <2> QED BY <2>3
<1>10. GoodEntry(e)'
  BY <1>6, <1>8, <1>9 DEF GoodEntry
<1>11. ASSUME NEW d \in DOMAIN entries \ {e} PROVE Spares(r, d)
  BY <1>3, <1>5, <1>11 DEF Spares, HoldsIt, WillClose, Borrowers, Fails, Owning, Borrowing
<1>12. NoLostWakeup'
  <2>1. e \notin Tabled
    BY <1>4 DEF Inv, TableLive, Tabled
  <2>2. Tabled \subseteq DOMAIN entries
    BY HeldFinite DEF Held
  <2>3. Flagged' = Flagged
    BY <1>6 DEF Flagged
  <2>4. ASSUME NEW q \in Requests, AboutToNotify(q) PROVE AboutToNotify(q)'
    <3>1. q # r
      BY <1>3, <2>4 DEF AboutToNotify
    <3>2. request'[q] = request[q]
      BY <1>5, <3>1
    <3>3. PICK d : d = request[q].entry
      OBVIOUS
    <3>4. CASE request[q].at \in {"loaded", "releasing"}
      BY <3>2, <3>4 DEF AboutToNotify
    <3>5. CASE request[q].at \in {"resetting", "running"} /\ entries[d].dead
      <4>1. GoodRequest(q) /\ d = Entry(q)
        BY <3>3 DEF Inv, Entry
      <4>2. d \in DOMAIN entries
        BY <3>5, <4>1 DEF GoodRequest, Having, Owning
      <4>3. entries'[d].dead
        BY <1>6, <3>5, <4>2
      <4> QED BY <3>2, <3>3, <3>5, <4>3 DEF AboutToNotify, Entry
    <3> QED BY <2>4, <3>3, <3>4, <3>5 DEF AboutToNotify, Entry
  <2>5. \A d \in Tabled : /\ entries'[d].scope = entries[d].scope
                          /\ entries'[d].state = entries[d].state
                          /\ entries'[d].borrowers = entries[d].borrowers
                          /\ entries'[d].mu = entries[d].mu
    BY <1>6, <2>1, <2>2
  <2>6. \A q \in Requests : request'[q].at = "parked" =>
          /\ request[q].at = "parked" /\ request'[q].key = request[q].key
          /\ request'[q].scope = request[q].scope
    BY <1>5
  <2>7. table' = table /\ retiring' = retiring /\ shutdown' = shutdown /\ closer' = closer
    BY DEF BeginFinish
  <2> QED BY <1>1, <2>3, <2>4, <2>5, <2>6, <2>7, SleepOn
<1> QED BY <1>1, <1>4, <1>5, <1>6, <1>7, <1>10, <1>11, <1>12, OwnBusy DEF BeginFinish

LEMMA EndFinishBusy ==
  ASSUME Inv, Busy, NEW r \in Requests, EndFinish(r)
  PROVE  Busy'
<1>0. PICK e : e = Entry(r)
  OBVIOUS
<1>1. Inv' /\ Stepped(r)
  BY EndFinishStep
<1>2. request[r].at \in {"finished", "evicted"} /\ r \notin Closers
  BY SessionsAssumption DEF EndFinish
<1>3. e \in DOMAIN entries /\ entries \in Seq(EntryRecord) /\ entries[e].dead
  BY <1>0, <1>2 DEF Inv, Shape, GoodRequest, Having, Owning, Busy, GoodWork
<1>4. \/ request[r].todo # {} /\ NotifyWith(Moved(r, "finishing"))
      \/ request[r].todo = {} /\ (NotifyWith(Onward(r)) \/ NotifyWith(Done(r)))
  BY DEF EndFinish, Moved
<1>5. /\ request'[r].todo = request[r].todo
      /\ IF request[r].todo # {} THEN request'[r].at = "finishing" ELSE request'[r].at \in {"lease", "idle"}
  <2>1. CASE request[r].todo # {} /\ NotifyWith(Moved(r, "finishing"))
    BY <2>1, AtNotify DEF Inv, Places
  <2>2. CASE request[r].todo = {} /\ (NotifyWith(Onward(r)) \/ NotifyWith(Done(r)))
    BY <2>2, OnwardEmpty DEF Inv
  <2> QED BY <1>4, <2>1, <2>2
<1>6. /\ DOMAIN entries' = DOMAIN entries /\ \A d \in DOMAIN entries \ {e} : entries'[d] = entries[d]
      /\ entries'[e].mu = Free /\ entries'[e].dead /\ ~entries'[e].retiring
  <2> DEFINE model == ClosedModel(entries[e].model)
             new == [entries[e] EXCEPT !.mu = Free, !.model = model, !.retiring = FALSE]
  <2>1. entries[e] \in EntryRecord
    BY <1>3
  <2>2. entries' = [entries EXCEPT ![e] = new]
    BY <1>0, <1>3, <2>1 DEF EndFinish, EntryRecord
  <2> HIDE DEF model
  <2>3. new.mu = Free /\ new.dead /\ ~new.retiring
    BY <1>3, <2>1 DEF EntryRecord
  <2> HIDE DEF new
  <2> QED BY <1>3, <2>2, <2>3
<1>7. GoodWork(r)'
  BY <1>5 DEF GoodWork, Finishing
<1>8. GoodEntry(e)'
  BY <1>6 DEF GoodEntry
<1>9. ASSUME NEW d \in DOMAIN entries \ {e} PROVE Spares(r, d)
  BY <1>0, <1>2, <1>5, <1>9 DEF Spares, HoldsIt, WillClose, Borrowers, Fails, Owning, Borrowing
<1>10. NoLostWakeup'
  BY <1>1, <1>4, AllWoken DEF NotifyWith
<1>11. request'[r].at \notin {"parked", "woken", "awaiting"}
  BY <1>5
<1> QED BY <1>1, <1>3, <1>6, <1>7, <1>8, <1>9, <1>10, <1>11, OwnBusy DEF EndFinish

------------------------------------------------------------------------------
(* Steps of a Close *)

\* What is left to show of a step of a Close.
LEMMA CloserBusy ==
  ASSUME Inv, Busy, NEW c \in Closers, Stepped(c), recency' = recency, asked' = asked,
         \A k \in Keys : table'[k] # 0 => table[k] # 0,
         \A e \in DOMAIN entries' : GoodEntry(e)', GoodInside(c)',
         ShuttingDown', shutdown'.closed => Awake', NoLostWakeup'
  PROVE  Busy'
<1>1. c \notin Requests
  BY SessionsAssumption
<1>2. UseOrdered' /\ asked' \in 0 .. MaxAsks
  BY UseKept DEF Busy
<1> QED BY <1>1, <1>2, BusyStep

\* An entry keeps those who get on with it, whatever a Close does to its mutex.
LEMMA CloserLeaves ==
  ASSUME NEW c \in Closers, Stepped(c), NEW d, GoodEntry(d),
         entries'[d].state = entries[d].state, entries'[d].closing = entries[d].closing,
         entries'[d].retiring = entries[d].retiring, entries[d].dead => entries'[d].dead,
         entries'[d].mu = Free \/ Inside(c, d)' \/ (entries'[d].mu = entries[d].mu /\ ~Inside(c, d))
  PROVE  GoodEntry(d)'
<1>1. \A r \in Requests : /\ HoldsIt(r, d) => HoldsIt(r, d)'
                          /\ WillClose(r, d) => WillClose(r, d)'
                          /\ r \in Borrowers(d) => r \in Borrowers(d)'
                          /\ Fails(r, d) => Fails(r, d)'
  <2>1. c \notin Requests
    BY SessionsAssumption
  <2> QED BY <2>1, OthersStay
<1>2. \A x \in Closers \ {c} : Inside(x, d) => Inside(x, d)'
  BY OthersStay
<1>3. Borrowers(d) # {} => Borrowers(d)' # {}
  BY <1>1 DEF Borrowers
<1>4. ASSUME entries'[d].mu # Free
      PROVE  (\E r \in Requests : HoldsIt(r, d)') \/ (\E x \in Closers : Inside(x, d)')
  <2>1. CASE Inside(c, d)'
    BY <2>1
  <2>2. CASE entries'[d].mu = entries[d].mu /\ ~Inside(c, d)
    <3>1. (\E r \in Requests : HoldsIt(r, d)) \/ (\E x \in Closers : Inside(x, d))
      BY <1>4, <2>2 DEF GoodEntry
    <3>2. CASE \E r \in Requests : HoldsIt(r, d)
      BY <1>1, <3>2
    <3>3. CASE \E x \in Closers : Inside(x, d)
      <4>1. PICK x \in Closers : Inside(x, d)
        BY <3>3
      <4>2. x # c
        BY <2>2, <4>1
      <4> QED BY <1>2, <4>1, <4>2
    <3> QED BY <3>1, <3>2, <3>3
  <2> QED BY <1>4, <2>1, <2>2
<1> QED BY <1>1, <1>3, <1>4 DEF GoodEntry

\* A Close that leaves the entries alone and has none open.
LEMMA CloserOutside ==
  ASSUME Busy, NEW c \in Closers, Stepped(c), entries' = entries, closer[c].at # "inside"
  PROVE  \A e \in DOMAIN entries' : GoodEntry(e)'
<1>1. ASSUME NEW e \in DOMAIN entries PROVE GoodEntry(e)'
  <2>1. GoodEntry(e) /\ ~Inside(c, e)
    BY DEF Busy, Inside
  <2> QED BY <2>1, CloserLeaves
<1> QED BY <1>1

\* The others that close entries go on.
LEMMA StillShutting ==
  ASSUME Busy, NEW c \in Closers, Stepped(c), shutdown'.shutting => shutdown.shutting,
         closer[c].at \notin {"closing", "inside"} \/ closer'[c].at \in {"closing", "inside"}
  PROVE  ShuttingDown'
<1>1. \A d \in Closers : d # c /\ closer[d].at \in {"closing", "inside"} => closer'[d].at = closer[d].at
  BY DEF Stepped, ClosersKept
<1> QED BY <1>1 DEF Busy, ShuttingDown

LEMMA NotifiedAwake ==
  ASSUME Inv, (request' = request /\ Awake) \/ request' = Notified(request)
  PROVE  Awake'
<1>1. CASE request' = Notified(request)
  <2>1. request \in [Requests -> RequestRecord]
    BY DEF Inv, Shape
  <2>2. ASSUME NEW q \in Requests PROVE request'[q].at # "parked"
    <3>1. request[q] \in RequestRecord /\ q \in DOMAIN request
      BY <2>1
    <3>2. request'[q] = IF request[q].at = "parked" THEN [request[q] EXCEPT !.at = "woken"] ELSE request[q]
      BY <1>1, <3>1 DEF Notified
    <3> QED BY <3>1, <3>2 DEF RequestRecord
  <2> QED BY <2>2 DEF Awake
<1>2. CASE request' = request /\ Awake
  BY <1>2 DEF Awake
<1> QED BY <1>1, <1>2

\* Once nobody is parked, nobody sleeps through anything.
LEMMA AwakeSleepsNot ==
  ASSUME Awake', \A c \in Closers : closer'[c].at = "parked" => MustWait'
  PROVE  NoLostWakeup'
BY DEF Awake, NoLostWakeup

\* A Close that waits leads nobody else to.
LEMMA ParkedBefore ==
  ASSUME Busy, NEW c \in Closers, Stepped(c), retiring' = retiring,
         shutdown'.shutting = shutdown.shutting, closer'[c].at = "parked" => MustWait
  PROVE  \A d \in Closers : closer'[d].at = "parked" => MustWait'
<1>1. MustWait' <=> MustWait
  BY DEF MustWait
<1>2. ASSUME NEW d \in Closers, closer'[d].at = "parked" PROVE MustWait
  <2>1. CASE d = c
    BY <1>2, <2>1
  <2>2. CASE d # c
    BY <1>2, <2>2 DEF Stepped, ClosersKept, Busy, NoLostWakeup
  <2> QED BY <2>1, <2>2
<1> QED BY <1>1, <1>2

LEMMA CloseWaitsBusy ==
  ASSUME Inv, Busy, NEW c \in Closers, CloseWaits(c)
  PROVE  Busy'
<1>1. Inv' /\ Stepped(c)
  BY CloseWaitsStep
<1> DEFINE f == IF shutdown.closed THEN closer ELSE Notified(closer)
<1>2. f \in [Closers -> CloserRecord]
  BY NotifiedClosers DEF Inv, Shape
<1>3. closer' = [f EXCEPT ![c].at = "parked"]
  BY DEF CloseWaits
<1> HIDE DEF f
<1>4. closer'[c].at = "parked"
  BY <1>2, <1>3 DEF CloserRecord
<1>5. closer[c].at \notin {"closing", "inside"} /\ MustWait
  BY DEF CloseWaits
<1>6. entries' = entries /\ table' = table /\ recency' = recency /\ retiring' = retiring /\ asked' = asked
  BY DEF CloseWaits
<1>7. shutdown'.shutting = shutdown.shutting
  BY DEF CloseWaits, Inv, Books, ShutdownRecord
<1>8. \A e \in DOMAIN entries' : GoodEntry(e)'
  BY <1>1, <1>5, <1>6, CloserOutside
<1>9. GoodInside(c)'
  BY <1>4 DEF GoodInside
<1>10. ShuttingDown'
  BY <1>1, <1>5, <1>7, StillShutting
<1>11. Awake'
  BY NotifiedAwake DEF CloseWaits, Busy
<1>12. NoLostWakeup'
  BY <1>1, <1>5, <1>6, <1>7, <1>11, ParkedBefore, AwakeSleepsNot
<1> QED BY <1>1, <1>6, <1>8, <1>9, <1>10, <1>11, <1>12, CloserBusy

LEMMA CloseCancelledBusy ==
  ASSUME Inv, Busy, NEW c \in Closers, CloseCancelled(c)
  PROVE  Busy'
<1>1. Inv' /\ Stepped(c)
  BY CloseMovesStep
<1>2. closer'[c].at = "idle" /\ \A d \in Closers \ {c} : closer'[d] = closer[d]
  BY DEF CloseCancelled, Inv, Shape, CloserRecord
<1>3. /\ closer[c].at \notin {"closing", "inside"}
      /\ entries' = entries /\ table' = table /\ recency' = recency /\ retiring' = retiring
      /\ asked' = asked /\ shutdown' = shutdown /\ request' = request
  BY DEF CloseCancelled
<1>4. \A e \in DOMAIN entries' : GoodEntry(e)'
  BY <1>1, <1>3, CloserOutside
<1>5. GoodInside(c)'
  BY <1>2 DEF GoodInside
<1>6. ShuttingDown'
  BY <1>1, <1>3, StillShutting
<1>7. shutdown'.closed => Awake'
  BY <1>3 DEF Busy, Awake
<1>8. NoLostWakeup'
  <2>1. \A q \in Requests : AboutToNotify(q) => AboutToNotify(q)'
    BY <1>3 DEF AboutToNotify, Entry
  <2>2. Flagged' = Flagged
    BY <1>3 DEF Flagged
  <2>3. \A d \in Closers : closer'[d].at = "parked" => closer[d].at = "parked"
    BY <1>2
  <2> QED BY <1>1, <1>3, <2>1, <2>2, <2>3, SleepOn
<1> QED BY <1>1, <1>3, <1>4, <1>5, <1>6, <1>7, <1>8, CloserBusy

LEMMA CloseFollowsBusy ==
  ASSUME Inv, Busy, NEW c \in Closers, CloseFollows(c)
  PROVE  Busy'
<1>1. Inv' /\ Stepped(c)
  BY CloseMovesStep
<1>2. closer'[c].at = "returned" /\ \A d \in Closers \ {c} : closer'[d] = closer[d]
  BY DEF CloseFollows, Inv, Shape, CloserRecord
<1>3. /\ closer[c].at \notin {"closing", "inside"} /\ shutdown.shut
      /\ entries' = entries /\ table' = table /\ recency' = recency /\ retiring' = retiring
      /\ asked' = asked /\ shutdown' = shutdown /\ request' = request
  BY DEF CloseFollows
<1>4. \A e \in DOMAIN entries' : GoodEntry(e)'
  BY <1>1, <1>3, CloserOutside
<1>5. GoodInside(c)'
  BY <1>2 DEF GoodInside
<1>6. ShuttingDown'
  BY <1>1, <1>3, StillShutting
<1>7. Awake'
  BY <1>3, NotifiedAwake DEF Busy, Inv, Books, Emptied
<1>8. NoLostWakeup'
  BY <1>1, <1>2, <1>3, <1>7, ParkedBefore, AwakeSleepsNot
<1> QED BY <1>1, <1>3, <1>4, <1>5, <1>6, <1>7, <1>8, CloserBusy

LEMMA AllClosersWoken ==
  ASSUME Inv, NEW c \in Closers, NEW new, new.at # "parked", closer' = [Notified(closer) EXCEPT ![c] = new]
  PROVE  /\ closer'[c] = new
         /\ \A d \in Closers : closer'[d].at # "parked"
<1>1. closer \in [Closers -> CloserRecord] /\ Notified(closer) \in [Closers -> CloserRecord]
  BY NotifiedClosers DEF Inv, Shape
<1>2. ASSUME NEW d \in Closers PROVE Notified(closer)[d].at # "parked"
  <2>1. closer[d] \in CloserRecord /\ d \in DOMAIN closer
    BY <1>1
  <2>2. Notified(closer)[d] = IF closer[d].at = "parked" THEN [closer[d] EXCEPT !.at = "woken"] ELSE closer[d]
    BY <2>1 DEF Notified
  <2> QED BY <2>1, <2>2 DEF CloserRecord
<1> QED BY <1>1, <1>2

LEMMA CloseReturnsBusy ==
  ASSUME Inv, Busy, NEW c \in Closers, CloseReturns(c)
  PROVE  Busy'
<1>1. Inv' /\ Stepped(c)
  BY CloseMovesStep
<1>2. PICK new : /\ new.at = "returned" /\ closer' = [Notified(closer) EXCEPT ![c] = new]
  <2>1. PICK f \in [Closers -> CloserRecord] : f = Notified(closer)
    BY NotifiedClosers DEF Inv, Shape
  <2>2. closer' = [f EXCEPT ![c].at = "returned"]
    BY <2>1 DEF CloseReturns
  <2>3. [f[c] EXCEPT !.at = "returned"].at = "returned"
    BY DEF CloserRecord
  <2>4. closer' = [f EXCEPT ![c] = [f[c] EXCEPT !.at = "returned"]]
    BY <2>2
  <2> QED BY <2>1, <2>3, <2>4
<1>3. /\ closer[c].at = "closing" /\ entries' = entries /\ table' = table /\ recency' = recency
      /\ asked' = asked /\ request' = Notified(request) /\ ~shutdown'.shutting
  BY DEF CloseReturns, Inv, Books, ShutdownRecord
<1>4. closer'[c].at = "returned" /\ \A d \in Closers : closer'[d].at # "parked"
  BY <1>2, AllClosersWoken
<1>5. \A e \in DOMAIN entries' : GoodEntry(e)'
  BY <1>1, <1>3, CloserOutside
<1>6. GoodInside(c)' /\ ShuttingDown'
  BY <1>3, <1>4 DEF GoodInside, ShuttingDown
<1>7. Awake'
  BY <1>3, NotifiedAwake
<1>8. NoLostWakeup'
  BY <1>4, <1>7, AwakeSleepsNot
<1> QED BY <1>1, <1>3, <1>5, <1>6, <1>7, <1>8, CloserBusy

LEMMA CloseTakesBusy ==
  ASSUME Inv, Busy, NEW c \in Closers, CloseTakes(c)
  PROVE  Busy'
<1>1. Inv' /\ Stepped(c)
  BY CloseTakesStep
<1> DEFINE held == {table[k] : k \in {k \in Keys : table[k] # 0}}
<1>2. PICK new : /\ new.at = "closing" /\ closer' = [Notified(closer) EXCEPT ![c] = new]
  <2>1. PICK f \in [Closers -> CloserRecord] : f = Notified(closer)
    BY NotifiedClosers DEF Inv, Shape
  <2>2. closer' = [f EXCEPT ![c].at = "closing", ![c].todo = held]
    BY <2>1 DEF CloseTakes
  <2> HIDE DEF held
  <2>3. [f[c] EXCEPT !.at = "closing", !.todo = held].at = "closing"
    BY DEF CloserRecord
  <2>4. closer' = [f EXCEPT ![c] = [f[c] EXCEPT !.at = "closing", !.todo = held]]
    BY <2>2 DEF CloserRecord
  <2> QED BY <2>1, <2>3, <2>4
<1>3. /\ closer[c].at \notin {"closing", "inside"} /\ recency' = recency
      /\ asked' = asked /\ request' = Notified(request) /\ table' = [k \in Keys |-> 0]
      /\ entries' = [e \in DOMAIN entries |->
                       IF e \in held THEN [entries[e] EXCEPT !.dead = TRUE] ELSE entries[e]]
  BY DEF CloseTakes
<1>4. closer'[c].at = "closing" /\ \A d \in Closers : closer'[d].at # "parked"
  BY <1>2, AllClosersWoken
<1>5. ASSUME NEW e \in DOMAIN entries PROVE GoodEntry(e)'
  <2>1. GoodEntry(e) /\ ~Inside(c, e) /\ entries[e] \in EntryRecord
    BY <1>3 DEF Busy, Inside, Inv, Shape
  <2> HIDE DEF held
  <2>2. /\ entries'[e].state = entries[e].state /\ entries'[e].closing = entries[e].closing
        /\ entries'[e].retiring = entries[e].retiring /\ (entries[e].dead => entries'[e].dead)
        /\ entries'[e].mu = entries[e].mu
    BY <1>3, <2>1 DEF EntryRecord
  <2> QED BY <1>1, <2>1, <2>2, CloserLeaves
<1>6. DOMAIN entries' = DOMAIN entries
  BY <1>3
<1>7. GoodInside(c)' /\ ShuttingDown'
  BY <1>4 DEF GoodInside, ShuttingDown
<1>8. Awake'
  BY <1>3, NotifiedAwake
<1>9. NoLostWakeup'
  BY <1>4, <1>8, AwakeSleepsNot
<1>10. \A k \in Keys : table'[k] # 0 => table[k] # 0
  BY <1>3
<1> QED BY <1>1, <1>3, <1>5, <1>6, <1>7, <1>8, <1>9, <1>10, CloserBusy

LEMMA CloseBeginsBusy ==
  ASSUME Inv, Busy, NEW c \in Closers, CloseBegins(c)
  PROVE  Busy'
<1>1. Inv' /\ Stepped(c)
  BY CloseBeginsStep
<1>2. PICK e \in closer[c].todo :
        /\ Ready(e) /\ entries[e].mu = Free
        /\ Closing(e, c)
        /\ closer' = [closer EXCEPT ![c].at = "inside", ![c].entry = e, ![c].todo = @ \ {e}]
  BY DEF CloseBegins
<1>3. /\ closer \in [Closers -> CloserRecord] /\ e \in DOMAIN entries /\ entries[e].dead
      /\ entries \in Seq(EntryRecord)
  BY DEF Inv, GoodCloser, Shape
<1>4. closer'[c].at = "inside" /\ closer'[c].entry = e
  BY <1>2, <1>3 DEF CloserRecord
<1>5. /\ closer[c].at = "closing" /\ table' = table /\ recency' = recency /\ retiring' = retiring
      /\ asked' = asked /\ shutdown' = shutdown /\ request' = request
  BY DEF CloseBegins
<1>6. /\ DOMAIN entries' = DOMAIN entries /\ \A d \in DOMAIN entries \ {e} : entries'[d] = entries[d]
      /\ entries'[e].dead /\ entries'[e].closing = entries[e].closing
      /\ entries'[e].retiring = entries[e].retiring /\ entries'[e].state = entries[e].state
  <2> DEFINE model == IF entries[e].model = "open" THEN "closing" ELSE entries[e].model
             new == [entries[e] EXCEPT !.mu = c, !.model = model]
  <2>1. entries[e] \in EntryRecord
    BY <1>3
  <2>2. entries' = [entries EXCEPT ![e] = new]
    BY <1>2, <1>3, <2>1 DEF Closing, EntryRecord
  <2> HIDE DEF model
  <2>3. new.dead /\ new.closing = entries[e].closing /\ new.retiring = entries[e].retiring
        /\ new.state = entries[e].state
    BY <1>3, <2>1 DEF EntryRecord
  <2> HIDE DEF new
  <2> QED BY <1>3, <2>2, <2>3
<1>7. ASSUME NEW d \in DOMAIN entries PROVE GoodEntry(d)'
  <2>1. GoodEntry(d) /\ ~Inside(c, d)
    BY <1>5 DEF Busy, Inside
  <2>2. CASE d = e
    <3>1. Inside(c, e)'
      BY <1>4 DEF Inside
    <3> QED BY <1>1, <1>6, <2>1, <2>2, <3>1, CloserLeaves
  <2>3. CASE d # e
    BY <1>1, <1>6, <2>1, <2>3, CloserLeaves
  <2> QED BY <2>2, <2>3
<1>8. GoodInside(c)'
  BY <1>4, <1>6 DEF GoodInside
<1>9. ShuttingDown'
  BY <1>4 DEF ShuttingDown
<1>10. Awake'
  BY <1>5, NotifiedAwake DEF Busy, Inv, Books, ShutClosers, Emptied
<1>11. NoLostWakeup'
  BY <1>1, <1>4, <1>5, <1>10, ParkedBefore, AwakeSleepsNot
<1> QED BY <1>1, <1>5, <1>6, <1>7, <1>8, <1>9, <1>10, <1>11, CloserBusy

LEMMA CloseEndsBusy ==
  ASSUME Inv, Busy, NEW c \in Closers, CloseEnds(c)
  PROVE  Busy'
<1>0. PICK e : e = closer[c].entry
  OBVIOUS
<1>1. Inv' /\ Stepped(c)
  BY CloseEndsStep
<1>2. /\ closer[c].at = "inside" /\ table' = table /\ recency' = recency /\ retiring' = retiring
      /\ asked' = asked /\ shutdown' = shutdown /\ request' = request
      /\ closer' = [closer EXCEPT ![c].at = "closing", ![c].entry = 0]
  BY DEF CloseEnds
<1>3. /\ closer \in [Closers -> CloserRecord] /\ e \in DOMAIN entries /\ entries \in Seq(EntryRecord)
  BY <1>0, <1>2 DEF Inv, GoodCloser, Shape
<1>4. closer'[c].at = "closing"
  BY <1>2, <1>3 DEF CloserRecord
<1>5. /\ DOMAIN entries' = DOMAIN entries /\ \A d \in DOMAIN entries \ {e} : entries'[d] = entries[d]
      /\ entries'[e].dead = entries[e].dead /\ entries'[e].closing = entries[e].closing
      /\ entries'[e].retiring = entries[e].retiring /\ entries'[e].state = entries[e].state
      /\ entries'[e].mu = Free
  <2> DEFINE model == ClosedModel(entries[e].model)
             new == [entries[e] EXCEPT !.mu = Free, !.model = model]
  <2>1. entries[e] \in EntryRecord
    BY <1>3
  <2>2. entries' = [entries EXCEPT ![e] = new]
    BY <1>0, <1>3, <2>1 DEF CloseEnds, EntryRecord
  <2> HIDE DEF model
  <2>3. new.dead = entries[e].dead /\ new.closing = entries[e].closing /\ new.retiring = entries[e].retiring
        /\ new.state = entries[e].state /\ new.mu = Free
    BY <1>3, <2>1 DEF EntryRecord
  <2> HIDE DEF new
  <2> QED BY <1>3, <2>2, <2>3
<1>6. ASSUME NEW d \in DOMAIN entries PROVE GoodEntry(d)'
  <2>1. GoodEntry(d)
    BY DEF Busy
  <2>2. CASE d = e
    BY <1>1, <1>5, <2>1, <2>2, CloserLeaves
  <2>3. CASE d # e
    <3>1. ~Inside(c, d)
      BY <1>0, <2>3 DEF Inside
    <3> QED BY <1>1, <1>5, <2>1, <2>3, <3>1, CloserLeaves
  <2> QED BY <2>2, <2>3
<1>7. GoodInside(c)' /\ ShuttingDown'
  BY <1>4 DEF GoodInside, ShuttingDown
<1>8. Awake'
  BY <1>2, NotifiedAwake DEF Busy, Inv, Books, ShutClosers, Emptied
<1>9. NoLostWakeup'
  BY <1>1, <1>2, <1>4, <1>8, ParkedBefore, AwakeSleepsNot
<1> QED BY <1>1, <1>2, <1>5, <1>6, <1>7, <1>8, <1>9, CloserBusy

------------------------------------------------------------------------------
(* Turns of the lease loop *)

\* What superseding leaves of an entry.
LEMMA ViewEntries ==
  ASSUME Inv, NEW r \in Requests
  PROVE  LET view == Superseded(r)
         IN  /\ DOMAIN view.entries = DOMAIN entries
             /\ \A e \in DOMAIN entries \ Gone(r) : view.entries[e] = entries[e]
             /\ \A e \in DOMAIN entries \cap Gone(r) :
                  /\ view.entries[e].mu = entries[e].mu /\ view.entries[e].state = entries[e].state
                  /\ view.entries[e].borrowers = entries[e].borrowers
                  /\ view.entries[e].dead /\ view.entries[e].retiring
                  /\ view.entries[e].closing <=> Ready(e) /\ Idle(e)
<1> DEFINE gone == {table[k] : k \in Stale(r)}
           new == [e \in DOMAIN entries |->
             IF e \in gone
             THEN [entries[e] EXCEPT !.dead = TRUE, !.retiring = TRUE, !.closing = Ready(e) /\ Idle(e)]
             ELSE entries[e]]
<1>1. Superseded(r).entries = new
  BY DEF Superseded
<1>2. gone = Gone(r)
  BY DEF Gone
<1>3. ASSUME NEW e \in DOMAIN entries \cap Gone(r)
      PROVE  /\ new[e].mu = entries[e].mu /\ new[e].state = entries[e].state
             /\ new[e].borrowers = entries[e].borrowers
             /\ new[e].dead /\ new[e].retiring
             /\ new[e].closing <=> Ready(e) /\ Idle(e)
  <2>1. PICK closing \in BOOLEAN : closing = (Ready(e) /\ Idle(e))
    OBVIOUS
  <2>2. entries[e] \in EntryRecord
    BY DEF Inv, Shape
  <2>3. new[e] = [entries[e] EXCEPT !.dead = TRUE, !.retiring = TRUE, !.closing = closing]
    BY <1>2, <1>3, <2>1
  <2> HIDE DEF new, gone
  <2> QED BY <2>1, <2>2, <2>3 DEF EntryRecord
<1>4. DOMAIN new = DOMAIN entries /\ \A e \in DOMAIN entries \ Gone(r) : new[e] = entries[e]
  BY <1>2
<1> HIDE DEF new, gone
<1> QED BY <1>1, <1>3, <1>4

LEMMA ViewTable ==
  ASSUME Inv, NEW r \in Requests
  PROVE  \A k \in Keys : Superseded(r).table[k] = IF k \in Stale(r) THEN 0 ELSE table[k]
<1>1. PICK view : view = Superseded(r)
  OBVIOUS
<1>2. ViewWell(r, view)
  BY <1>1, SupersededKeeps DEF Inv, SupersedesWell
<1> QED BY <1>1, <1>2 DEF ViewWell

\* An entry that is not both loaded and unused has a borrower.
LEMMA UsedBorrowed ==
  ASSUME Inv, NEW d \in DOMAIN entries, ~(Ready(d) /\ Idle(d))
  PROVE  Borrowers(d) # {}
<1>1. CASE ~Ready(d)
  BY <1>1 DEF Inv, Lends, Loads, Borrowers, Borrowing
<1>2. CASE ~Idle(d)
  <2>1. entries[d].borrowers = Cardinality(Borrowers(d)) /\ entries[d].borrowers # 0
    BY <1>2 DEF Inv, Lends, Idle
  <2> QED BY <2>1, FS_EmptySet
<1> QED BY <1>1, <1>2

\* The entries a turn superseded, or left alone.
LEMMA TurnEntry ==
  ASSUME Inv, Busy, NEW r \in Requests, Stepped(r), request[r].at = "lease",
         NEW d \in DOMAIN entries, entries'[d] = Superseded(r).entries[d],
         StaleIdle(r) \subseteq request'[r].todo
  PROVE  GoodEntry(d)'
<1>1. Spares(r, d) /\ GoodEntry(d)
  BY SparesAll DEF Having, Owning, Finishing, Busy
<1>2. CASE d \notin Gone(r)
  <2>1. entries'[d] = entries[d]
    BY <1>2, ViewEntries
  <2>2. SameEntry(d)
    BY <2>1 DEF SameEntry
  <2> QED BY <1>1, <2>2, UntouchedEntry
<1>3. CASE d \in Gone(r)
  <2>1. /\ entries'[d].mu = entries[d].mu /\ entries'[d].state = entries[d].state
        /\ entries'[d].dead /\ entries'[d].retiring
        /\ entries'[d].closing <=> Ready(d) /\ Idle(d)
    BY <1>3, ViewEntries
  <2>2. \A q \in Requests : /\ HoldsIt(q, d) => HoldsIt(q, d)'
                            /\ q \in Borrowers(d) => q \in Borrowers(d)'
    BY <1>1, OthersStay DEF Spares
  <2>3. \A c \in Closers : Inside(c, d) => Inside(c, d)'
    <3>1. r \notin Closers
      BY SessionsAssumption
    <3> QED BY <3>1, OthersStay
  <2>4. entries'[d].closing => WillClose(r, d)'
    <3>1. Ready(d) /\ Idle(d) => d \in StaleIdle(r)
      BY <1>3 DEF StaleIdle, Gone
    <3> QED BY <2>1, <3>1 DEF WillClose
  <2>5. ~entries'[d].closing => Borrowers(d)' # {}
    <3>1. CASE Ready(d) /\ Idle(d)
      BY <2>1, <3>1
    <3>2. CASE ~(Ready(d) /\ Idle(d))
      <4>1. PICK q \in Requests : q \in Borrowers(d)
        BY <3>2, UsedBorrowed DEF Borrowers
      <4> QED BY <2>2, <4>1
    <3> QED BY <3>1, <3>2
  <2>6. entries'[d].mu # Free => (\E q \in Requests : HoldsIt(q, d)') \/ (\E c \in Closers : Inside(c, d)')
    BY <1>1, <2>1, <2>2, <2>3 DEF GoodEntry
  <2> QED BY <2>1, <2>4, <2>5, <2>6 DEF GoodEntry
<1> QED BY <1>2, <1>3

\* A turn leaves every entry as superseding does, or in use as it was.
Turned(r) ==
  /\ DOMAIN entries' = DOMAIN entries
  /\ \A d \in DOMAIN entries :
       \/ entries'[d] = Superseded(r).entries[d]
       \/ /\ d \notin Gone(r) /\ entries'[d].state = entries[d].state
          /\ entries'[d].retiring = entries[d].retiring /\ entries'[d].borrowers # 0
          /\ entries'[d].mu = Free => entries[d].mu = Free

\* The places taken are the same, and the table leads to what was not superseded.
LEMMA TurnTable ==
  ASSUME Inv, NEW r \in Requests, Turned(r), table' = Superseded(r).table
  PROVE  /\ \A k \in Keys : table'[k] = IF k \in Stale(r) THEN 0 ELSE table[k]
         /\ \A k \in Keys : table'[k] # 0 => table'[k] \in DOMAIN entries \ Gone(r)
         /\ PlaceFree' <=> PlaceFree
<1>1. \A k \in Keys : table'[k] = IF k \in Stale(r) THEN 0 ELSE table[k]
  BY ViewTable
<1>2. /\ Gone(r) \subseteq Tabled /\ Tabled \subseteq DOMAIN entries
      /\ {table'[k] : k \in Keys} \ {0} = Tabled \ Gone(r)
      /\ {e \in DOMAIN entries : Superseded(r).entries[e].retiring} = Flagged \cup Gone(r)
  BY GoneTabled, HeldFinite DEF Held
<1>3. Tabled' = Tabled \ Gone(r)
  BY <1>2 DEF Tabled
<1>4. ASSUME NEW k \in Keys, table'[k] # 0 PROVE table'[k] \in DOMAIN entries \ Gone(r)
  BY <1>2, <1>4
<1>5. ASSUME NEW d \in DOMAIN entries PROVE d \in Flagged' <=> d \in Flagged \cup Gone(r)
  <2>1. d \in Flagged' <=> entries'[d].retiring
    BY <1>5 DEF Flagged, Turned
  <2>2. CASE entries'[d] = Superseded(r).entries[d]
    BY <1>2, <2>1, <2>2
  <2>3. CASE d \notin Gone(r) /\ entries'[d].retiring = entries[d].retiring
    BY <2>1, <2>3 DEF Flagged
  <2> QED BY <2>2, <2>3 DEF Turned
<1>6. Flagged' = Flagged \cup Gone(r)
  <2>1. Flagged' \subseteq DOMAIN entries /\ Flagged \cup Gone(r) \subseteq DOMAIN entries
    BY <1>2 DEF Flagged, Turned
  <2> QED BY <1>5, <2>1
<1>7. Tabled' \cup Flagged' = Tabled \cup Flagged
  BY <1>2, <1>3, <1>6
<1>8. PlaceFree' <=> PlaceFree
  BY <1>7 DEF PlaceFree
<1> QED BY <1>1, <1>4, <1>8

\* A turn does not open the way to a request whose entry it does not supersede.
LEMMA TurnOpens ==
  ASSUME Inv, NEW r \in Requests, Turned(r), table' = Superseded(r).table, shutdown' = shutdown,
         \A d \in Gone(r) : ~Ready(d),
         NEW q \in Requests, request'[q].key = request[q].key, request'[q].scope = request[q].scope,
         Could(q)'
  PROVE  Could(q)
<1>1. /\ \A k \in Keys : table'[k] = IF k \in Stale(r) THEN 0 ELSE table[k]
      /\ \A k \in Keys : table'[k] # 0 => table'[k] \in DOMAIN entries \ Gone(r)
      /\ PlaceFree' <=> PlaceFree
  BY TurnTable
<1>2. PICK key \in Keys : key = request[q].key
  BY Basics DEF RequestRecord
<1>3. ASSUME NEW k \in Keys, table'[k] # 0, Idle(table[k])'
      PROVE  /\ table'[k] = table[k] /\ table[k] # 0
             /\ entries'[table[k]] = entries[table[k]]
  <2>1. table'[k] = table[k] /\ table[k] \in DOMAIN entries \ Gone(r)
    BY <1>1, <1>3
  <2>2. Superseded(r).entries[table[k]] = entries[table[k]]
    BY <2>1, ViewEntries
  <2>3. entries'[table[k]].borrowers = 0
    BY <1>3, <2>1 DEF Idle
  <2> QED BY <1>3, <2>1, <2>2, <2>3 DEF Turned
<1>4. CASE IdleOfScope(q)'
  <2>1. PICK k \in Keys \ {key} :
          table'[k] # 0 /\ entries'[table'[k]].scope = request[q].scope /\ Ready(table[k])' /\ Idle(table[k])'
    BY <1>2, <1>4 DEF IdleOfScope
  <2>2. /\ table'[k] = table[k] /\ table[k] # 0
        /\ entries'[table[k]] = entries[table[k]]
    BY <1>3, <2>1
  <2>3. Ready(table[k]) /\ Idle(table[k]) /\ entries[table[k]].scope = request[q].scope
    BY <2>1, <2>2 DEF Ready, Idle
  <2> QED BY <1>2, <2>1, <2>2, <2>3 DEF Could, IdleOfScope
<1>5. CASE OwnFree(q)'
  <2>1. PICK d : d = table'[key]
    OBVIOUS
  <2>2. d # 0 /\ (entries'[d].state = "loading" \/ entries'[d].mu = Free)
    BY <1>2, <1>5, <2>1 DEF OwnFree, Ready
  <2>3. d = table[key] /\ d \in DOMAIN entries \ Gone(r)
    BY <1>1, <2>1, <2>2
  <2>4. Superseded(r).entries[d] = entries[d]
    BY <2>3, ViewEntries
  <2>5. entries[d].state = "loading" \/ entries[d].mu = Free
    BY <2>2, <2>3, <2>4 DEF Turned
  <2> QED BY <1>2, <2>2, <2>3, <2>5 DEF Could, OwnFree, Ready
<1>6. CASE table'[key] = 0 /\ table[key] # 0
  <2>1. key \in Stale(r)
    BY <1>1, <1>6
  <2>2. ~Ready(table[key])
    BY <2>1 DEF Gone
  <2> QED BY <1>2, <1>6, <2>2 DEF Could, OwnFree
<1>7. CASE table[key] = 0 /\ IdleToEvict(q)'
  <2>1. PICK k \in Keys \ {key} :
          table'[k] # 0 /\ entries'[table'[k]].scope # request[q].scope /\ Idle(table[k])'
    BY <1>2, <1>7 DEF IdleToEvict
  <2>2. /\ table'[k] = table[k] /\ table[k] # 0
        /\ entries'[table[k]] = entries[table[k]]
    BY <1>3, <2>1
  <2>3. Idle(table[k]) /\ entries[table[k]].scope # request[q].scope
    BY <2>1, <2>2 DEF Idle
  <2> QED BY <1>2, <1>7, <2>1, <2>2, <2>3 DEF Could, IdleToEvict
<1>8. CASE table[key] = 0 /\ PlaceFree'
  BY <1>1, <1>2, <1>8 DEF Could
<1>9. CASE shutdown'.closed
  BY <1>9 DEF Could
<1>10. table'[request'[q].key] = table'[key]
  BY <1>2
<1> QED BY <1>4, <1>5, <1>6, <1>7, <1>8, <1>9, <1>10 DEF Could

\* Superseding retires no less.
LEMMA TurnWaits ==
  ASSUME Inv, NEW r \in Requests, retiring' = Superseded(r).retiring \/ retiring' = retiring,
         shutdown' = shutdown, MustWait
  PROVE  MustWait'
<1>1. Superseded(r).retiring.count = retiring.count + Cardinality(Gone(r)) /\ retiring.count = Cardinality(Flagged)
  <2>1. PICK view : view = Superseded(r)
    OBVIOUS
  <2>2. SupersedesWell(r, view)
    BY <2>1, SupersededKeeps DEF Inv
  <2>3. view.retiring.count = retiring.count + Cardinality(Gone(r))
    BY <2>2 DEF SupersedesWell
  <2>4. retiring.count = Cardinality(Flagged)
    BY DEF Inv, Books
  <2> QED BY <2>1, <2>3, <2>4
<1>2. Cardinality(Gone(r)) \in Nat /\ Cardinality(Flagged) \in Nat
  BY GoneTabled, HeldFinite, FS_CardinalityType
<1>3. retiring.count > 0 => retiring'.count > 0
  BY <1>1, <1>2
<1> QED BY <1>3 DEF MustWait

\* Who uses an entry a turn superseded is about to notify; and nobody sleeps
\* through a turn that tells nobody.
LEMMA TurnSleeps ==
  ASSUME Inv, Busy, Inv', NEW r \in Requests, Stepped(r), Leasing(r), StaleIdle(r) = {},
         Turned(r), table' = Superseded(r).table, retiring' = Superseded(r).retiring,
         shutdown' = shutdown, closer' = closer,
         \A q \in Requests \ {r} : request'[q] = request[q],
         request'[r].at = "parked" => ~Could(r)'
  PROVE  NoLostWakeup'
<1>5. \A c \in Closers : closer'[c].at = "parked" => MustWait'
  BY TurnWaits DEF Busy, NoLostWakeup
<1>1. \A p \in Requests : AboutToNotify(p) => p # r /\ request'[p] = request[p]
  BY DEF AboutToNotify, Leasing
<1>2. ASSUME NEW p \in Requests, AboutToNotify(p) PROVE AboutToNotify(p)'
  <2>1. PICK d : d = request[p].entry
    OBVIOUS
  <2>2. request'[p] = request[p]
    BY <1>1, <1>2
  <2>3. CASE request[p].at \in {"loaded", "releasing"}
    BY <2>2, <2>3 DEF AboutToNotify
  <2>4. CASE request[p].at \in {"resetting", "running"} /\ entries[d].dead
    <3>1. d \in DOMAIN entries
      BY <2>1, <2>4 DEF Inv, GoodRequest, Having, Owning, Entry
    <3>2. entries'[d].dead
      BY <2>4, <3>1 DEF Stepped, Tame
    <3> QED BY <2>1, <2>2, <2>4, <3>2 DEF AboutToNotify, Entry
  <2> QED BY <1>2, <2>1, <2>3, <2>4 DEF AboutToNotify, Entry
<1>3. CASE \E d \in Gone(r) : \E p \in Borrowers(d) : request[p].at # "loading"
  <2>0. PICK d \in Gone(r) : \E p \in Borrowers(d) : request[p].at # "loading"
    BY <1>3
  <2>1. PICK p \in Borrowers(d) : request[p].at # "loading"
    BY <2>0
  <2>2. /\ p \in Requests /\ Entry(p) = d
        /\ request[p].at \in {"loaded", "resetting", "running", "retiring", "releasing"}
    BY <2>1 DEF Borrowers, Borrowing
  <2>3. p # r /\ request'[p] = request[p]
    BY <2>2 DEF Leasing
  <2>4. d \in DOMAIN entries /\ ~entries[d].dead
    <3>1. d \in Tabled /\ Tabled \subseteq DOMAIN entries
      BY GoneTabled, HeldFinite DEF Held
    <3> QED BY <3>1 DEF Inv, TableLive, Tabled
  <2>5. request[p].at # "retiring"
    BY <2>2, <2>4 DEF Inv, GoodRequest
  <2>6. entries'[d].dead
    <3>1. Superseded(r).entries[d].dead
      BY <2>4, ViewEntries
    <3> QED BY <2>4, <3>1 DEF Turned
  <2>7. AboutToNotify(p)'
    BY <2>2, <2>3, <2>5, <2>6 DEF AboutToNotify, Entry
  <2> QED BY <1>5, <2>2, <2>7 DEF NoLostWakeup
<1>4. CASE \A d \in Gone(r) : \A p \in Borrowers(d) : request[p].at = "loading"
  <2>1. ASSUME NEW d \in Gone(r) PROVE ~Ready(d)
    <3>1. d \in DOMAIN entries
      BY <2>1, GoneTabled, HeldFinite DEF Held
    <3>2. ~(Ready(d) /\ Idle(d))
      BY DEF StaleIdle, Gone
    <3>3. PICK p \in Requests : p \in Borrowers(d)
      BY <3>1, <3>2, UsedBorrowed DEF Borrowers
    <3>4. request[p].at = "loading" /\ Entry(p) = d
      BY <1>4, <3>3 DEF Borrowers
    <3> QED BY <3>4 DEF Inv, Lends
  <2>2. CouldRight'
    BY CouldMeansAll, PTL
  <2>3. ASSUME NEW q \in Requests, request'[q].at = "parked", CouldProceed(q)'
        PROVE  \E p \in Requests : AboutToNotify(p)'
    <3>1. Could(q)'
      BY <2>2, <2>3 DEF CouldRight
    <3>2. q # r
      BY <2>3, <3>1
    <3>3. request'[q] = request[q]
      BY <3>2
    <3>4. Could(q)
      BY <2>1, <3>1, <3>3, TurnOpens
    <3>5. request[q].at = "parked" /\ CouldProceed(q)
      BY <2>3, <3>3, <3>4, CouldMeans
    <3>6. \E p \in Requests : AboutToNotify(p)
      BY <3>5 DEF Busy, NoLostWakeup
    <3> QED BY <1>2, <3>6
  <2> QED BY <1>5, <2>3 DEF NoLostWakeup
<1> QED BY <1>3, <1>4

------------------------------------------------------------------------------
(* The entry a turn binds or evicts *)

LEMMA RescopedFields ==
  ASSUME NEW all \in Seq(EntryRecord), NEW e \in DOMAIN all, NEW scope \in Scopes
  PROVE  /\ DOMAIN Rescoped(all, e, scope) = DOMAIN all
         /\ \A d \in DOMAIN all \ {e} : Rescoped(all, e, scope)[d] = all[d]
         /\ LET new == Rescoped(all, e, scope)[e]
            IN  /\ new.scope = scope /\ new.mu = all[e].mu /\ new.state = all[e].state
                /\ new.borrowers = all[e].borrowers /\ new.dead = all[e].dead
                /\ new.closing = all[e].closing /\ new.retiring = all[e].retiring
<1> DEFINE new == [all[e] EXCEPT !.scope = scope]
<1>1. all[e] \in EntryRecord
  OBVIOUS
<1>2. Rescoped(all, e, scope) = [all EXCEPT ![e] = new]
  BY <1>1 DEF Rescoped, EntryRecord
<1>3. /\ new.scope = scope /\ new.mu = all[e].mu /\ new.state = all[e].state
      /\ new.borrowers = all[e].borrowers /\ new.dead = all[e].dead
      /\ new.closing = all[e].closing /\ new.retiring = all[e].retiring
  BY <1>1 DEF EntryRecord
<1> HIDE DEF new
<1> QED BY <1>2, <1>3

LEMMA ReusedFields ==
  ASSUME NEW all \in Seq(EntryRecord), NEW e \in DOMAIN all, NEW scope \in Scopes, NEW r
  PROVE  /\ DOMAIN Reused(all, e, r, scope) = DOMAIN all
         /\ \A d \in DOMAIN all \ {e} : Reused(all, e, r, scope)[d] = all[d]
         /\ LET new == Reused(all, e, r, scope)[e]
            IN  /\ new.mu = r /\ new.state = all[e].state
                /\ new.borrowers = all[e].borrowers + 1 /\ new.dead = all[e].dead
                /\ new.closing = all[e].closing /\ new.retiring = all[e].retiring
<1> DEFINE new == [all[e] EXCEPT !.mu = r, !.scope = scope, !.borrowers = @ + 1]
<1>1. all[e] \in EntryRecord
  OBVIOUS
<1>2. Reused(all, e, r, scope) = [all EXCEPT ![e] = new]
  BY <1>1 DEF Reused, EntryRecord
<1>3. /\ new.mu = r /\ new.state = all[e].state
      /\ new.borrowers = all[e].borrowers + 1 /\ new.dead = all[e].dead
      /\ new.closing = all[e].closing /\ new.retiring = all[e].retiring
  BY <1>1 DEF EntryRecord
<1> HIDE DEF new
<1> QED BY <1>2, <1>3

LEMMA EvictedFields ==
  ASSUME NEW all \in Seq(EntryRecord), NEW e \in DOMAIN all
  PROVE  /\ DOMAIN Evicted(all, e) = DOMAIN all
         /\ \A d \in DOMAIN all \ {e} : Evicted(all, e)[d] = all[d]
         /\ LET new == Evicted(all, e)[e]
            IN  /\ new.mu = all[e].mu /\ new.state = all[e].state
                /\ new.dead /\ new.closing /\ new.retiring
<1> DEFINE new == [all[e] EXCEPT !.dead = TRUE, !.closing = TRUE, !.retiring = TRUE]
<1>1. all[e] \in EntryRecord
  OBVIOUS
<1>2. Evicted(all, e) = [all EXCEPT ![e] = new]
  BY <1>1 DEF Evicted, EntryRecord
<1>3. /\ new.mu = all[e].mu /\ new.state = all[e].state
      /\ new.dead /\ new.closing /\ new.retiring
  BY <1>1 DEF EntryRecord
<1> HIDE DEF new
<1> QED BY <1>2, <1>3

\* The entry of the key, once others are superseded.
LEMMA BoundEntry ==
  ASSUME Inv, NEW r \in Requests, NEW e, e = Superseded(r).table[request[r].key], e # 0
  PROVE  /\ e \in DOMAIN entries \ Gone(r) /\ e = table[request[r].key] /\ ~entries[e].dead
         /\ Superseded(r).entries[e] = entries[e] /\ e \in DOMAIN Superseded(r).entries
         /\ Superseded(r).entries \in Seq(EntryRecord) /\ request[r].scope \in Scopes
<1>1. request[r].key \in Keys /\ request[r].scope \in Scopes
  BY Basics DEF RequestRecord
<1>2. PICK view : view = Superseded(r)
  OBVIOUS
<1>3. ViewWell(r, view)
  BY <1>2, SupersededKeeps DEF Inv, SupersedesWell
<1>4. e = table[request[r].key] /\ view.entries \in Seq(EntryRecord)
  BY <1>1, <1>2, <1>3 DEF ViewWell
<1>5. e \in Tabled \ Gone(r)
  <2>1. {view.table[k] : k \in Keys} \ {0} = Tabled \ Gone(r)
    BY <1>2, GoneTabled
  <2> QED BY <1>1, <1>2, <2>1
<1>6. e \in DOMAIN entries
  BY <1>5, HeldFinite DEF Held
<1>7. ~entries[e].dead
  BY <1>5 DEF Inv, TableLive, Tabled
<1>8. Superseded(r).entries[e] = entries[e] /\ e \in DOMAIN Superseded(r).entries
  BY <1>5, <1>6, ViewEntries
<1> QED BY <1>1, <1>2, <1>4, <1>5, <1>6, <1>7, <1>8

\* The request's key becomes the last used.
LEMMA TouchedOrdered ==
  ASSUME Inv, Busy, NEW r \in Requests, NEW view, view = Superseded(r), recency' = Touched(r, view),
         \A k \in Keys \ {request[r].key} : table'[k] # 0 => view.table[k] # 0
  PROVE  UseOrdered'
<1>1. PICK key : key = request[r].key
  OBVIOUS
<1> DEFINE others == {k \in Keys \ {key} : view.table[k] # 0}
<1>2. recency' = (recency \cap (others \X others)) \cup (others \X {key})
  BY <1>1 DEF Touched
<1>3. \A k \in Keys : view.table[k] = IF k \in Stale(r) THEN 0 ELSE table[k]
  BY ViewTable
<1>4. \A k \in others : k \in Keys /\ table[k] # 0 /\ k # key
  BY <1>3
<1>5. \A k \in Keys : table'[k] # 0 => k = key \/ k \in others
  BY <1>1
<1> HIDE DEF others
<1>6. ASSUME NEW k \in others, NEW l \in others, k # l
      PROVE  <<k, l>> \in recency' <=> <<l, k>> \notin recency'
  <2>1. <<k, l>> \in recency' <=> <<k, l>> \in recency
    BY <1>2, <1>4
  <2>2. <<l, k>> \in recency' <=> <<l, k>> \in recency
    BY <1>2, <1>4
  <2> QED BY <1>4, <1>6, <2>1, <2>2 DEF Busy, UseOrdered
<1>7. ASSUME NEW k \in others PROVE <<k, key>> \in recency' /\ <<key, k>> \notin recency'
  BY <1>2, <1>4
<1>8. ASSUME NEW k \in {k \in Keys : table'[k] # 0}, NEW l \in {l \in Keys : table'[l] # 0}, k # l
      PROVE  <<k, l>> \in recency' <=> <<l, k>> \notin recency'
  BY <1>5, <1>6, <1>7, <1>8
<1> QED BY <1>8 DEF UseOrdered

\* What is left to show of a turn.
LEMMA TurnBusy ==
  ASSUME Inv, Busy, NEW r \in Requests, Stepped(r), Leasing(r), shutdown' = shutdown, asked' = asked,
         UseOrdered', GoodWork(r)', Waiting(r)' => Waiters < Capacity,
         \A e \in DOMAIN entries' : GoodEntry(e)', NoLostWakeup'
  PROVE  Busy'
BY RequestBusy DEF Leasing, Busy

LEMMA SupersedeIdleBusy ==
  ASSUME Inv, Busy, NEW r \in Requests, SupersedeIdle(r)
  PROVE  Busy'
<1> DEFINE rec == [request[r] EXCEPT !.at = "finishing", !.todo = StaleIdle(r), !.again = TRUE]
           moved == [request EXCEPT ![r].at = "finishing", ![r].todo = StaleIdle(r), ![r].again = TRUE]
<1>1. Inv' /\ Stepped(r)
  BY SupersedeIdleStep
<1>2. /\ Leasing(r) /\ StaleIdle(r) # {} /\ NotifyWith(moved)
      /\ entries' = Superseded(r).entries /\ table' = Superseded(r).table
      /\ recency' = recency /\ shutdown' = shutdown /\ asked' = asked
  BY DEF SupersedeIdle
<1>3. request \in [Requests -> RequestRecord] /\ request[r] \in RequestRecord
  BY DEF Inv, Shape
<1>4. StaleIdle(r) \in SUBSET Nat
  BY DEF StaleIdle, Stale, Inv, Shape
<1>5. rec \in RequestRecord /\ rec.at = "finishing" /\ rec.todo = StaleIdle(r)
  BY <1>3, <1>4 DEF RequestRecord, Places
<1>6. moved = [request EXCEPT ![r] = rec]
  BY <1>3 DEF RequestRecord
<1> HIDE DEF rec, moved
<1>7. request'[r].at = "finishing" /\ request'[r].todo = StaleIdle(r)
  BY <1>2, <1>5, <1>6, RecordNotify DEF Inv
<1>8. \A e \in DOMAIN entries' : GoodEntry(e)'
  <2>1. DOMAIN entries' = DOMAIN entries
    BY <1>2, ViewEntries
  <2>2. ASSUME NEW d \in DOMAIN entries PROVE GoodEntry(d)'
    BY <1>1, <1>2, <1>7, TurnEntry DEF Leasing
  <2> QED BY <2>1, <2>2
<1>9. UseOrdered'
  <2>1. \A k \in Keys : table'[k] # 0 => table[k] # 0
    BY <1>2, ViewTable
  <2> QED BY <1>2, <2>1, UseKept DEF Busy
<1>10. GoodWork(r)'
  BY <1>2, <1>7 DEF GoodWork, Finishing
<1>11. NoLostWakeup'
  BY <1>1, <1>2, AllWoken DEF NotifyWith
<1> QED BY <1>1, <1>2, <1>7, <1>8, <1>9, <1>10, <1>11, TurnBusy DEF Waiting

LEMMA ReuseBusy ==
  ASSUME Inv, Busy, NEW r \in Requests, Reuse(r)
  PROVE  Busy'
<1>0. PICK view, e : view = Superseded(r) /\ e = view.table[request[r].key]
  OBVIOUS
<1> DEFINE rec == [request[r] EXCEPT !.at = "resetting", !.entry = e]
<1>1. Inv' /\ Stepped(r)
  BY ReuseStep
<1>2. /\ Leasing(r) /\ StaleIdle(r) = {} /\ table' = view.table /\ retiring' = view.retiring
      /\ e # 0 /\ entries[e].state = "ready" /\ entries[e].mu = Free
      /\ entries' = Reused(view.entries, e, r, request[r].scope)
      /\ recency' = Touched(r, view)
      /\ request' = [request EXCEPT ![r].at = "resetting", ![r].entry = e]
      /\ shutdown' = shutdown /\ closer' = closer /\ asked' = asked
  BY <1>0, Zenon DEF Reuse, Turning, Reused
<1>3. /\ e \in DOMAIN entries \ Gone(r) /\ e = table[request[r].key] /\ ~entries[e].dead
      /\ view.entries[e] = entries[e] /\ e \in DOMAIN view.entries
      /\ view.entries \in Seq(EntryRecord) /\ request[r].scope \in Scopes
  BY <1>0, <1>2, BoundEntry
<1>4. /\ DOMAIN entries' = DOMAIN entries
      /\ \A d \in DOMAIN entries \ {e} : entries'[d] = view.entries[d]
      /\ entries'[e].mu = r /\ entries'[e].state = entries[e].state
      /\ entries'[e].borrowers = entries[e].borrowers + 1 /\ entries'[e].dead = entries[e].dead
      /\ entries'[e].closing = entries[e].closing /\ entries'[e].retiring = entries[e].retiring
  <2>1. PICK all \in Seq(EntryRecord), scope \in Scopes : all = view.entries /\ scope = request[r].scope
    BY <1>3
  <2>2. entries' = Reused(all, e, r, scope)
    BY <1>2, <2>1
  <2>3. DOMAIN all = DOMAIN entries
    BY <1>0, <2>1, ViewEntries
  <2> QED BY <1>3, <2>1, <2>2, <2>3, ReusedFields
<1>5. /\ request'[r].at = "resetting" /\ request'[r].entry = e /\ request'[r].todo = request[r].todo
      /\ \A q \in Requests \ {r} : request'[q] = request[q]
  <2>1. request \in [Requests -> RequestRecord] /\ request[r] \in RequestRecord
    BY DEF Inv, Shape
  <2>2. rec.at = "resetting" /\ rec.entry = e /\ rec.todo = request[r].todo
    BY <2>1 DEF RequestRecord
  <2>3. request' = [request EXCEPT ![r] = rec]
    BY <1>2, <2>1 DEF RequestRecord
  <2> HIDE DEF rec
  <2> QED BY <2>1, <2>2, <2>3
<1>6. request[r].at = "lease" /\ request[r].todo = {} /\ GoodWork(r)'
  BY <1>2, <1>5 DEF Leasing, Busy, GoodWork, Finishing
<1>7. GoodEntry(e)'
  <2>1. HoldsIt(r, e)'
    BY <1>5 DEF HoldsIt, Owning, Entry
  <2>2. GoodEntry(e)
    BY <1>3 DEF Busy
  <2> QED BY <1>2, <1>3, <1>4, <2>1, <2>2 DEF GoodEntry
<1>8. ASSUME NEW d \in DOMAIN entries' PROVE GoodEntry(d)'
  <2>1. CASE d # e
    <3>1. entries'[d] = Superseded(r).entries[d] /\ d \in DOMAIN entries
      BY <1>0, <1>4, <2>1
    <3> QED BY <1>1, <1>2, <1>6, <3>1, TurnEntry
  <2> QED BY <1>7, <2>1
<1>9. UseOrdered'
  BY <1>0, <1>2, TouchedOrdered
<1>10. NoLostWakeup'
  <2>1. Turned(r)
    <3>1. entries[e].borrowers + 1 # 0
      BY <1>3, BorrowersFinite, FS_CardinalityType DEF Inv, Lends
    <3>2. r # Free
      BY SessionsAssumption
    <3> QED BY <1>0, <1>3, <1>4, <3>1, <3>2 DEF Turned
  <2> QED BY <1>0, <1>1, <1>2, <1>5, <2>1, TurnSleeps
<1> QED BY <1>1, <1>2, <1>5, <1>6, <1>8, <1>9, <1>10, TurnBusy DEF Waiting

\* The records of a turn that binds the entry of the key and lends it to nobody.
LEMMA BindsOnly ==
  ASSUME Inv, NEW r \in Requests, NEW e, Rebinding(r, e)
  PROVE  /\ e \in DOMAIN entries \ Gone(r) /\ e = table[request[r].key] /\ ~entries[e].dead
         /\ DOMAIN entries' = DOMAIN entries
         /\ \A d \in DOMAIN entries \ {e} : entries'[d] = Superseded(r).entries[d]
         /\ SameEntry(e) /\ entries'[e].borrowers = entries[e].borrowers
<1>1. PICK view : view = Superseded(r)
  OBVIOUS
<1>2. /\ e # 0 /\ e = view.table[request[r].key]
      /\ entries' = Rescoped(view.entries, e, request[r].scope)
  BY <1>1 DEF Rebinding
<1>3. /\ e \in DOMAIN entries \ Gone(r) /\ e = table[request[r].key] /\ ~entries[e].dead
      /\ view.entries[e] = entries[e] /\ e \in DOMAIN view.entries
      /\ view.entries \in Seq(EntryRecord) /\ request[r].scope \in Scopes
  BY <1>1, <1>2, BoundEntry
<1>4. PICK all \in Seq(EntryRecord), scope \in Scopes : all = view.entries /\ scope = request[r].scope
  BY <1>3
<1>5. entries' = Rescoped(all, e, scope)
  BY <1>2, <1>4
<1>6. DOMAIN all = DOMAIN entries
  BY <1>1, <1>4, ViewEntries
<1> QED BY <1>1, <1>3, <1>4, <1>5, <1>6, RescopedFields DEF SameEntry

LEMMA BindsGood ==
  ASSUME Inv, Busy, NEW r \in Requests, NEW e, Rebinding(r, e), Stepped(r), Leasing(r), StaleIdle(r) = {}
  PROVE  \A d \in DOMAIN entries' : GoodEntry(d)'
<1>1. request[r].at = "lease"
  BY DEF Leasing
<1>2. ASSUME NEW d \in DOMAIN entries' PROVE GoodEntry(d)'
  <2>1. d \in DOMAIN entries
    BY <1>2, BindsOnly
  <2>2. CASE d # e
    <3>1. entries'[d] = Superseded(r).entries[d]
      BY <2>1, <2>2, BindsOnly
    <3> QED BY <1>1, <2>1, <3>1, TurnEntry
  <2>3. CASE d = e
    <3>1. SameEntry(d)
      BY <2>3, BindsOnly
    <3>2. Spares(r, d) /\ GoodEntry(d)
      BY <1>1, <2>1, SparesAll DEF Having, Owning, Finishing, Busy
    <3> QED BY <3>1, <3>2, UntouchedEntry
  <2> QED BY <2>2, <2>3
<1> QED BY <1>2

LEMMA MeetFailureBusy ==
  ASSUME Inv, Busy, NEW r \in Requests, MeetFailure(r)
  PROVE  Busy'
<1>0. PICK view, e : view = Superseded(r) /\ e = view.table[request[r].key]
  OBVIOUS
<1>1. Inv' /\ Stepped(r)
  BY NoReuseStep
<1>2. /\ Leasing(r) /\ StaleIdle(r) = {} /\ table' = view.table /\ retiring' = view.retiring
      /\ e # 0 /\ entries[e].state = "failed"
      /\ entries' = Rescoped(view.entries, e, request[r].scope)
      /\ recency' = Touched(r, view) /\ request' = Done(r)
      /\ shutdown' = shutdown /\ closer' = closer /\ asked' = asked
  BY <1>0, Zenon DEF MeetFailure, Turning, Rescoped
<1>3. Rebinding(r, e)
  BY <1>0, <1>2 DEF Rebinding
<1>4. e \in DOMAIN entries /\ ~entries[e].dead
  BY <1>3, BindsOnly
<1>5. /\ request'[r].at = "idle" /\ request'[r].todo = {}
      /\ \A q \in Requests \ {r} : request'[q] = request[q]
  BY <1>2, DoneType DEF Inv
<1>6. GoodWork(r)'
  BY <1>5 DEF GoodWork, Finishing
<1>7. \A d \in DOMAIN entries' : GoodEntry(d)'
  BY <1>1, <1>2, <1>3, BindsGood
<1>8. UseOrdered'
  BY <1>0, <1>2, TouchedOrdered
<1>9. NoLostWakeup'
  <2>1. PICK p \in Requests : Fails(p, e)
    BY <1>2, <1>4 DEF Busy, GoodEntry
  <2>2. request'[p].at = "loaded"
    BY <1>2, <1>5, <2>1 DEF Fails, Leasing
  <2>3. AboutToNotify(p)'
    BY <2>2 DEF AboutToNotify
  <2>4. MustWait => MustWait'
    BY <1>0, <1>2, TurnWaits
  <2> QED BY <1>2, <2>3, <2>4 DEF Busy, NoLostWakeup
<1> QED BY <1>1, <1>2, <1>5, <1>6, <1>7, <1>8, <1>9, TurnBusy DEF Waiting

LEMMA ParkedFields ==
  ASSUME Shape, NEW r \in Requests, NEW at \in {"parked", "awaiting"}, NEW e \in Nat,
         request' = Parked(r, at, e)
  PROVE  /\ \A q \in Requests \ {r} : request'[q] = request[q]
         /\ request'[r].at # "idle" =>
              /\ Waiters < Capacity /\ request'[r].at = at /\ request'[r].entry = e
              /\ request'[r].key = request[r].key /\ request'[r].scope = request[r].scope
         /\ request'[r].at \in {at, "idle"} /\ request'[r].todo \subseteq request[r].todo
<1> DEFINE rec == [request[r] EXCEPT !.at = at, !.entry = e]
<1>1. request \in [Requests -> RequestRecord] /\ request[r] \in RequestRecord
  BY DEF Shape
<1>2. CASE Waiters < Capacity
  <2>1. request' = [request EXCEPT ![r].at = at, ![r].entry = e]
    BY <1>2 DEF Parked
  <2>2. request' = [request EXCEPT ![r] = rec]
    BY <1>1, <2>1 DEF RequestRecord
  <2>3. /\ rec.at = at /\ rec.entry = e /\ rec.todo = request[r].todo
        /\ rec.key = request[r].key /\ rec.scope = request[r].scope
    BY <1>1 DEF RequestRecord
  <2> HIDE DEF rec
  <2> QED BY <1>1, <1>2, <2>2, <2>3
<1>3. CASE ~(Waiters < Capacity)
  <2>1. request' = Done(r)
    BY <1>3 DEF Parked
  <2> QED BY <2>1, DoneType
<1> QED BY <1>2, <1>3

\* An entry that is in use, and tabled, has a borrower.
LEMMA HeldBorrowed ==
  ASSUME Inv, Busy, NEW e \in DOMAIN entries, ~entries[e].dead, entries[e].mu # Free
  PROVE  ~Idle(e)
<1>1. ~\E c \in Closers : Inside(c, e)
  BY DEF Busy, GoodInside, Inside
<1>2. PICK q \in Requests : HoldsIt(q, e)
  BY <1>1 DEF Busy, GoodEntry
<1>3. request[q].at \notin {"finished", "evicted"}
  BY <1>2 DEF Busy, GoodWork, HoldsIt
<1>4. q \in Borrowers(e)
  BY <1>2, <1>3 DEF HoldsIt, Owning, Borrowers, Borrowing
<1>5. IsFiniteSet(Borrowers(e)) /\ entries[e].borrowers = Cardinality(Borrowers(e))
  BY BorrowersFinite DEF Inv, Lends
<1> QED BY <1>4, <1>5, FS_EmptySet DEF Idle

\* Superseding leaves no idle entry of the request's scope in the table.
LEMMA NoneOfScope ==
  ASSUME Inv, NEW r \in Requests, Turned(r), table' = Superseded(r).table,
         request'[r].key = request[r].key, request'[r].scope = request[r].scope
  PROVE  ~IdleOfScope(r)'
<1> SUFFICES ASSUME IdleOfScope(r)' PROVE FALSE
  OBVIOUS
<1>1. PICK k \in Keys \ {request[r].key} :
        table'[k] # 0 /\ entries'[table'[k]].scope = request[r].scope /\ Idle(table[k])'
  BY DEF IdleOfScope
<1>2. /\ table'[k] = IF k \in Stale(r) THEN 0 ELSE table[k]
      /\ table'[k] \in DOMAIN entries \ Gone(r)
  BY <1>1, TurnTable
<1>3. k \notin Stale(r) /\ table'[k] = table[k]
  BY <1>1, <1>2
<1>4. entries'[table[k]] = entries[table[k]]
  <2>1. Superseded(r).entries[table[k]] = entries[table[k]]
    BY <1>2, <1>3, ViewEntries
  <2>2. entries'[table[k]].borrowers = 0
    BY <1>1, <1>3 DEF Idle
  <2> QED BY <1>2, <1>3, <2>1, <2>2 DEF Turned
<1> QED BY <1>1, <1>3, <1>4 DEF Stale

LEMMA ParkForEntryBusy ==
  ASSUME Inv, Busy, NEW r \in Requests, ParkForEntry(r)
  PROVE  Busy'
<1>0. PICK view, e : view = Superseded(r) /\ e = view.table[request[r].key]
  OBVIOUS
<1>1. Inv' /\ Stepped(r)
  BY NoReuseStep
<1>2. /\ Leasing(r) /\ StaleIdle(r) = {} /\ table' = view.table /\ retiring' = view.retiring
      /\ e # 0
      /\ \/ entries[e].state = "loading" /\ request' = Parked(r, "awaiting", e)
         \/ entries[e].state = "ready" /\ entries[e].mu # Free /\ request' = Parked(r, "parked", 0)
      /\ entries' = Rescoped(view.entries, e, request[r].scope)
      /\ recency' = Touched(r, view)
      /\ shutdown' = shutdown /\ closer' = closer /\ asked' = asked
  BY <1>0, Zenon DEF ParkForEntry, Turning, Rescoped
<1>3. Rebinding(r, e)
  BY <1>0, <1>2 DEF Rebinding
<1>4. /\ e \in DOMAIN entries \ Gone(r) /\ e = table[request[r].key] /\ ~entries[e].dead
      /\ DOMAIN entries' = DOMAIN entries
      /\ \A d \in DOMAIN entries \ {e} : entries'[d] = view.entries[d]
      /\ SameEntry(e) /\ entries'[e].borrowers = entries[e].borrowers
  BY <1>0, <1>3, BindsOnly
<1>5. e \in Nat
  BY <1>4, Basics
<1>6. /\ \A q \in Requests \ {r} : request'[q] = request[q]
      /\ request'[r].at # "idle" =>
           /\ Waiters < Capacity
           /\ request'[r].key = request[r].key /\ request'[r].scope = request[r].scope
           /\ \/ entries[e].state = "loading" /\ request'[r].at = "awaiting" /\ request'[r].entry = e
              \/ entries[e].state = "ready" /\ entries[e].mu # Free /\ request'[r].at = "parked"
      /\ request'[r].at \in {"parked", "awaiting", "idle"} /\ request'[r].todo \subseteq request[r].todo
  <2>1. CASE entries[e].state = "loading" /\ request' = Parked(r, "awaiting", e)
    BY <1>5, <2>1, ParkedFields DEF Inv
  <2>2. CASE entries[e].state = "ready" /\ entries[e].mu # Free /\ request' = Parked(r, "parked", 0)
    BY <2>2, ParkedFields DEF Inv
  <2> QED BY <1>2, <2>1, <2>2
<1>7. request[r].todo = {}
  BY <1>2 DEF Leasing, Busy, GoodWork, Finishing
<1>8. GoodWork(r)'
  BY <1>4, <1>6, <1>7 DEF GoodWork, Finishing, Entry
<1>9. \A d \in DOMAIN entries' : GoodEntry(d)'
  BY <1>1, <1>2, <1>3, BindsGood
<1>10. UseOrdered'
  BY <1>0, <1>2, TouchedOrdered
<1>11. Turned(r)
  <2>1. ~Idle(e)
    <3>1. CASE entries[e].state = "loading"
      BY <1>4, <3>1, UnborrowedReady DEF Ready
    <3>2. CASE entries[e].mu # Free
      BY <1>4, <3>2, HeldBorrowed
    <3> QED BY <1>2, <3>1, <3>2
  <2>2. entries'[e].borrowers # 0
    BY <1>4, <2>1 DEF Idle
  <2> QED BY <1>0, <1>4, <2>2 DEF Turned, SameEntry
<1>12. request'[r].at = "parked" => ~Could(r)'
  <2> SUFFICES ASSUME request'[r].at = "parked" PROVE ~Could(r)'
    OBVIOUS
  <2>1. /\ request'[r].key = request[r].key /\ request'[r].scope = request[r].scope
        /\ entries[e].state = "ready" /\ entries[e].mu # Free
    BY <1>6
  <2>2. ~IdleOfScope(r)'
    BY <1>0, <1>2, <1>11, <2>1, NoneOfScope
  <2>3. table'[request[r].key] = e /\ e # 0
    BY <1>0, <1>2
  <2>4. entries'[e].state = "ready" /\ entries'[e].mu # Free
    BY <1>4, <2>1 DEF SameEntry
  <2>5. ~OwnFree(r)'
    BY <2>1, <2>3, <2>4 DEF OwnFree, Ready
  <2>6. ~shutdown'.closed
    BY <1>2 DEF Leasing
  <2> QED BY <2>1, <2>2, <2>3, <2>5, <2>6 DEF Could
<1>13. NoLostWakeup'
  BY <1>0, <1>1, <1>2, <1>6, <1>11, <1>12, TurnSleeps
<1>14. Waiting(r)' => Waiters < Capacity
  BY <1>6 DEF Waiting
<1> QED BY <1>1, <1>2, <1>8, <1>9, <1>10, <1>13, <1>14, TurnBusy

LEMMA ParkForPlaceBusy ==
  ASSUME Inv, Busy, NEW r \in Requests, ParkForPlace(r)
  PROVE  Busy'
<1>0. PICK view : view = Superseded(r)
  OBVIOUS
<1>1. Inv' /\ Stepped(r)
  BY ParkForPlaceStep
<1>2. /\ Leasing(r) /\ StaleIdle(r) = {} /\ table' = view.table /\ retiring' = view.retiring
      /\ view.table[request[r].key] = 0 /\ Full(view) /\ Evictable(view) = {}
      /\ entries' = view.entries /\ request' = Parked(r, "parked", 0)
      /\ recency' = recency /\ shutdown' = shutdown /\ closer' = closer /\ asked' = asked
  BY <1>0, Zenon DEF ParkForPlace, Turning
<1>3. DOMAIN entries' = DOMAIN entries
  BY <1>0, <1>2, ViewEntries
<1>4. Turned(r)
  BY <1>0, <1>2, <1>3 DEF Turned
<1>5. /\ \A q \in Requests \ {r} : request'[q] = request[q]
      /\ request'[r].at # "idle" =>
           /\ Waiters < Capacity /\ request'[r].at = "parked"
           /\ request'[r].key = request[r].key /\ request'[r].scope = request[r].scope
      /\ request'[r].at \in {"parked", "idle"} /\ request'[r].todo \subseteq request[r].todo
  BY <1>2, ParkedFields DEF Inv
<1>6. request[r].todo = {} /\ request[r].at = "lease"
  BY <1>2 DEF Leasing, Busy, GoodWork, Finishing
<1>7. GoodWork(r)'
  BY <1>5, <1>6 DEF GoodWork, Finishing
<1>8. ASSUME NEW d \in DOMAIN entries' PROVE GoodEntry(d)'
  BY <1>0, <1>1, <1>2, <1>3, <1>6, TurnEntry
<1>9. UseOrdered'
  <2>1. \A k \in Keys : table'[k] # 0 => table[k] # 0
    BY <1>0, <1>2, ViewTable
  <2> QED BY <1>2, <2>1, UseKept DEF Busy
<1>10. request'[r].at = "parked" => ~Could(r)'
  <2> SUFFICES ASSUME request'[r].at = "parked" PROVE ~Could(r)'
    OBVIOUS
  <2>1. request'[r].key = request[r].key /\ request'[r].scope = request[r].scope
    BY <1>5
  <2>2. ~IdleOfScope(r)'
    BY <1>0, <1>2, <1>4, <2>1, NoneOfScope
  <2>3. ~OwnFree(r)'
    BY <1>2, <2>1 DEF OwnFree
  <2>4. ~IdleToEvict(r)'
    <3>1. ASSUME NEW k \in Keys, table'[k] # 0, Idle(table[k])' PROVE FALSE
      <4>1. table'[k] \in DOMAIN entries \ Gone(r)
        BY <1>0, <1>2, <1>4, <3>1, TurnTable
      <4>2. entries'[table'[k]] = entries[table'[k]]
        BY <1>0, <1>2, <4>1, ViewEntries
      <4>3. Idle(view.table[k]) /\ view.table[k] # 0
        BY <1>2, <3>1, <4>2 DEF Idle
      <4> QED BY <1>2, <4>3 DEF Evictable
    <3> QED BY <3>1 DEF IdleToEvict
  <2>5. ~PlaceFree'
    <3>1. ~PlaceFree
      BY <1>0, <1>2, FullCount DEF PlaceFree
    <3> QED BY <1>0, <1>2, <1>4, <3>1, TurnTable
  <2>6. ~shutdown'.closed
    BY <1>2 DEF Leasing
  <2> QED BY <2>2, <2>3, <2>4, <2>5, <2>6 DEF Could
<1>11. NoLostWakeup'
  BY <1>0, <1>1, <1>2, <1>4, <1>5, <1>10, TurnSleeps
<1>12. Waiting(r)' => Waiters < Capacity
  BY <1>5 DEF Waiting
<1> QED BY <1>1, <1>2, <1>7, <1>8, <1>9, <1>11, <1>12, TurnBusy

LEMMA EvictBusy ==
  ASSUME Inv, Busy, NEW r \in Requests, Evict(r)
  PROVE  Busy'
<1>0. PICK view : view = Superseded(r)
  OBVIOUS
<1>1. Inv' /\ Stepped(r)
  BY EvictStep
<1>2. PICK oldest \in Evictable(view) :
        /\ entries' = Evicted(view.entries, view.table[oldest])
        /\ table' = [view.table EXCEPT ![oldest] = 0]
        /\ NotifyWith([request EXCEPT ![r].at = "evicting", ![r].todo = {view.table[oldest]},
                                      ![r].again = TRUE])
  BY <1>0, Zenon DEF Evict, Evicted
<1>3. PICK e : e = view.table[oldest]
  OBVIOUS
<1> DEFINE rec == [request[r] EXCEPT !.at = "evicting", !.todo = {e}, !.again = TRUE]
           moved == [request EXCEPT ![r].at = "evicting", ![r].todo = {e}, ![r].again = TRUE]
<1>4. /\ Leasing(r) /\ StaleIdle(r) = {} /\ recency' = recency /\ shutdown' = shutdown /\ asked' = asked
      /\ NotifyWith(moved)
  BY <1>2, <1>3, Zenon DEF Evict
<1>5. oldest \in Keys /\ e # 0
  BY <1>3 DEF Evictable
<1>6. ViewWell(r, view)
  BY <1>0, SupersededKeeps DEF Inv, SupersedesWell
<1>7. view.entries \in Seq(EntryRecord) /\ DOMAIN view.entries = DOMAIN entries /\ e \in DOMAIN entries
  <2>1. view.entries \in Seq(EntryRecord) /\ DOMAIN view.entries = DOMAIN entries
    BY <1>0, <1>6, ViewEntries DEF ViewWell
  <2>2. {view.table[k] : k \in Keys} \ {0} \subseteq Tabled
    BY <1>0, GoneTabled
  <2>3. e \in Tabled
    BY <1>3, <1>5, <2>2
  <2> QED BY <2>1, <2>3, HeldFinite DEF Held
<1>8. e \in Nat
  BY <1>7, Basics
<1>9. request'[r].at = "evicting" /\ request'[r].todo = {e}
  <2>1. request \in [Requests -> RequestRecord] /\ request[r] \in RequestRecord
    BY DEF Inv, Shape
  <2>2. rec \in RequestRecord /\ rec.at = "evicting" /\ rec.todo = {e}
    BY <1>8, <2>1 DEF RequestRecord, Places
  <2>3. moved = [request EXCEPT ![r] = rec]
    BY <2>1 DEF RequestRecord
  <2> HIDE DEF rec, moved
  <2> QED BY <1>4, <2>2, <2>3, RecordNotify DEF Inv
<1> HIDE DEF rec, moved
<1>10. /\ DOMAIN entries' = DOMAIN entries
       /\ \A d \in DOMAIN entries \ {e} : entries'[d] = view.entries[d]
       /\ entries'[e].mu = view.entries[e].mu /\ entries'[e].state = view.entries[e].state
       /\ entries'[e].dead /\ entries'[e].closing /\ entries'[e].retiring
  <2>1. PICK all \in Seq(EntryRecord) : all = view.entries
    BY <1>7
  <2>2. entries' = Evicted(all, e)
    BY <1>2, <1>3, <2>1
  <2> QED BY <1>7, <2>1, <2>2, EvictedFields
<1>11. GoodEntry(e)'
  <2>1. request[r].at = "lease" /\ request[r].todo = {} /\ r \notin Closers
    BY <1>4, SessionsAssumption DEF Leasing, Busy, GoodWork, Finishing
  <2>2. WillClose(r, e)'
    BY <1>9 DEF WillClose
  <2>3. entries'[e].mu = entries[e].mu
    BY <1>6, <1>7, <1>10 DEF ViewWell
  <2>4. entries[e].mu # Free => (\E q \in Requests : HoldsIt(q, e)') \/ (\E c \in Closers : Inside(c, e)')
    BY <1>1, <1>7, <2>1, OthersAt DEF Owning
  <2> QED BY <1>10, <2>2, <2>3, <2>4 DEF GoodEntry
<1>12. ASSUME NEW d \in DOMAIN entries' PROVE GoodEntry(d)'
  <2>1. CASE d # e
    <3>1. entries'[d] = Superseded(r).entries[d] /\ d \in DOMAIN entries
      BY <1>0, <1>10, <2>1
    <3> QED BY <1>1, <1>4, <3>1, TurnEntry DEF Leasing
  <2> QED BY <1>11, <2>1
<1>13. UseOrdered'
  <2>1. ASSUME NEW k \in Keys, table'[k] # 0 PROVE table[k] # 0
    <3>1. view.table[k] # 0
      BY <1>2, <1>6, <2>1 DEF ViewWell
    <3> QED BY <1>0, <3>1, ViewTable
  <2> QED BY <1>4, <2>1, UseKept DEF Busy
<1>14. GoodWork(r)'
  BY <1>9 DEF GoodWork, Finishing
<1>15. NoLostWakeup'
  BY <1>1, <1>4, AllWoken DEF NotifyWith
<1> QED BY <1>1, <1>4, <1>9, <1>12, <1>13, <1>14, <1>15, TurnBusy DEF Waiting

LEMMA StartLoadBusy ==
  ASSUME Inv, Busy, NEW r \in Requests, StartLoad(r)
  PROVE  Busy'
<1>0. PICK view, e : view = Superseded(r) /\ e = Len(entries) + 1
  OBVIOUS
<1> DEFINE new == [scope |-> request[r].scope, state |-> "loading", model |-> "none", mu |-> Free,
                   borrowers |-> 1, dead |-> FALSE, closing |-> FALSE, retiring |-> FALSE]
           rec == [request[r] EXCEPT !.at = "loading", !.entry = e]
           moved == [request EXCEPT ![r].at = "loading", ![r].entry = e]
<1>1. Inv' /\ Stepped(r)
  BY StartLoadStep
<1>2. /\ Leasing(r) /\ StaleIdle(r) = {} /\ table' = [view.table EXCEPT ![request[r].key] = e]
      /\ entries' = Append(view.entries, new) /\ recency' = Touched(r, view)
      /\ shutdown' = shutdown /\ asked' = asked /\ NotifyWith(moved)
  BY <1>0, Zenon DEF StartLoad
<1>3. /\ new.mu = Free /\ new.state = "loading" /\ ~new.retiring /\ ~new.closing
  OBVIOUS
<1> HIDE DEF new
<1>4. ViewWell(r, view)
  BY <1>0, SupersededKeeps DEF Inv, SupersedesWell
<1>5. /\ DOMAIN entries' = DOMAIN entries \cup {e} /\ entries'[e] = new /\ e \in Nat
      /\ \A d \in DOMAIN entries : entries'[d] = view.entries[d]
  <2>1. view.entries \in Seq(EntryRecord) /\ Len(view.entries) = Len(entries) /\ Len(entries) \in Nat
        /\ DOMAIN entries = 1 .. Len(entries)
    BY <1>4, Basics DEF ViewWell
  <2> QED BY <1>0, <1>2, <2>1
<1>6. request'[r].at = "loading" /\ request'[r].todo = request[r].todo
  <2>1. request \in [Requests -> RequestRecord] /\ request[r] \in RequestRecord
    BY DEF Inv, Shape
  <2>2. rec \in RequestRecord /\ rec.at = "loading" /\ rec.todo = request[r].todo
    BY <1>5, <2>1 DEF RequestRecord, Places
  <2>3. moved = [request EXCEPT ![r] = rec]
    BY <2>1 DEF RequestRecord
  <2> HIDE DEF rec, moved
  <2> QED BY <1>2, <2>2, <2>3, RecordNotify DEF Inv
<1> HIDE DEF rec, moved
<1>7. request[r].at = "lease" /\ GoodWork(r)'
  BY <1>2, <1>6 DEF Leasing, Busy, GoodWork, Finishing
<1>8. ASSUME NEW d \in DOMAIN entries' PROVE GoodEntry(d)'
  <2>1. CASE d \in DOMAIN entries
    <3>1. entries'[d] = Superseded(r).entries[d]
      BY <1>0, <1>5, <2>1
    <3> QED BY <1>1, <1>2, <1>7, <2>1, <3>1, TurnEntry
  <2>2. CASE d = e
    BY <1>3, <1>5, <2>2 DEF GoodEntry
  <2> QED BY <1>5, <1>8, <2>1, <2>2
<1>9. UseOrdered'
  <2>1. \A k \in Keys \ {request[r].key} : table'[k] # 0 => view.table[k] # 0
    BY <1>2, <1>4 DEF ViewWell
  <2> QED BY <1>0, <1>2, <2>1, TouchedOrdered
<1>10. NoLostWakeup'
  BY <1>1, <1>2, AllWoken DEF NotifyWith
<1> QED BY <1>1, <1>2, <1>6, <1>7, <1>8, <1>9, <1>10, TurnBusy DEF Waiting

------------------------------------------------------------------------------
LEMMA InitBusy == SessionsInit => Busy
<1> SUFFICES ASSUME SessionsInit PROVE Busy
  OBVIOUS
<1>1. \A r \in Requests : request[r].at = "idle" /\ request[r].todo = {}
  BY DEF SessionsInit, Unasked
<1>2. \A c \in Closers : closer[c].at = "idle"
  BY DEF SessionsInit
<1>3. {r \in Requests : Waiting(r)} = {}
  BY <1>1 DEF Waiting
<1>4. Waiters <= Capacity
  BY <1>3, FS_EmptySet, SessionsAssumption DEF Waiters
<1>5. UseOrdered /\ asked \in 0 .. MaxAsks
  BY SessionsAssumption DEF SessionsInit, UseOrdered
<1>6. (\A r \in Requests : GoodWork(r)) /\ (\A c \in Closers : GoodInside(c))
  BY <1>1, <1>2 DEF GoodWork, GoodInside, Finishing
<1>7. \A e \in DOMAIN entries : GoodEntry(e)
  BY DEF SessionsInit
<1>8. ShuttingDown /\ Awake
  BY <1>1 DEF SessionsInit, ShuttingDown, Awake
<1>9. NoLostWakeup
  BY <1>1, <1>2 DEF NoLostWakeup
<1> QED BY <1>4, <1>5, <1>6, <1>7, <1>8, <1>9 DEF Busy

LEMMA NothingBusy ==
  ASSUME Inv, Busy, Inv', UNCHANGED vars
  PROVE  Busy'
<1>1. /\ entries' = entries /\ table' = table /\ recency' = recency /\ retiring' = retiring
      /\ shutdown' = shutdown /\ request' = request /\ closer' = closer /\ asked' = asked
  BY DEF vars
<1>2. PICK p : p \notin Requests \cup Closers
  BY SessionsAssumption
<1>3. Stepped(p)
  BY <1>1 DEF Stepped, Tame, RequestsKept, ClosersKept, Inv, Shape, Ready
<1>4. Flagged' = Flagged
  BY <1>1 DEF Flagged
<1>5. \A q \in Requests : AboutToNotify(q) => AboutToNotify(q)'
  BY <1>1 DEF AboutToNotify, Entry
<1>6. NoLostWakeup'
  BY <1>1, <1>3, <1>4, <1>5, SleepOn
<1>7. Waiters' <= Capacity
  BY <1>2, <1>3, WaitersCounted DEF Busy
<1>8. UseOrdered' /\ asked' \in 0 .. MaxAsks /\ ShuttingDown' /\ (shutdown'.closed => Awake')
  BY <1>1 DEF Busy, UseOrdered, ShuttingDown, Awake
<1>9. (\A r \in Requests : GoodWork(r)') /\ (\A c \in Closers : GoodInside(c)')
  BY <1>1 DEF Busy, GoodWork, GoodInside, Entry
<1>10. \A e \in DOMAIN entries' : GoodEntry(e)'
  <2>1. ASSUME NEW e \in DOMAIN entries PROVE GoodEntry(e)'
    <3>1. SameEntry(e) /\ GoodEntry(e) /\ Spares(p, e)
      BY <1>1, <1>2 DEF SameEntry, Busy, Spares
    <3> QED BY <1>3, <3>1, UntouchedEntry
  <2> QED BY <1>1, <2>1
<1> QED BY <1>6, <1>7, <1>8, <1>9, <1>10 DEF Busy

LEMMA NextBusy == Inv /\ Busy /\ [SessionsNext]_vars => Busy'
<1> SUFFICES ASSUME Inv, Busy, [SessionsNext]_vars PROVE Busy'
  OBVIOUS
<1>0. Inv'
  BY NextInv
<1>1. ASSUME NEW r \in Requests, LeaseTurn(r) PROVE Busy'
  BY <1>1, RefuseBusy, SupersedeIdleBusy, ReuseBusy, MeetFailureBusy, ParkForEntryBusy,
     ParkForPlaceBusy, EvictBusy, StartLoadBusy DEF LeaseTurn
<1>2. ASSUME NEW r \in Requests, RefuseReset(r) \/ RunRetires(r) PROVE Busy'
  <2>1. request[r].first \in BOOLEAN
    BY Basics DEF RequestRecord
  <2> QED BY <1>2, <2>1, BeginRetireBusy DEF RefuseReset, RunRetires
<1>3. ASSUME NEW r \in Requests, RequestStep(r) PROVE Busy'
  BY <1>1, <1>2, <1>3, WakeBusy, LoadEndsBusy, TakeLoadedBusy, DropLoadedBusy, ResetBusy,
     RunReleasesBusy, EndRetireBusy, ReleaseBorrowerBusy, BeginFinishBusy, EndFinishBusy
     DEF RequestStep
<1>4. ASSUME NEW r \in Requests, Ask(r) \/ Cancel(r) PROVE Busy'
  BY <1>4, AskBusy, CancelBusy
<1>5. ASSUME NEW c \in Closers, CloseCancelled(c) \/ CloserStep(c) PROVE Busy'
  BY <1>5, CloseCancelledBusy, CloseWaitsBusy, CloseFollowsBusy, CloseTakesBusy, CloseBeginsBusy,
     CloseEndsBusy, CloseReturnsBusy DEF CloserStep
<1> QED BY <1>0, <1>3, <1>4, <1>5, NothingBusy DEF SessionsNext

------------------------------------------------------------------------------
(* Whoever waits waits for someone who moves *)

Going == (\E r \in Requests : Moving(r)) \/ (\E c \in Closers : ClosingOn(c))

\* An entry in use, or loading, has someone at work on it.
LEMMA EntryGoing ==
  ASSUME Inv, Busy, NEW e \in DOMAIN entries,
         entries[e].mu # Free \/ ~Ready(e) \/ ~Idle(e)
  PROVE  Going
<1>1. CASE entries[e].mu # Free
  <2>1. (\E r \in Requests : HoldsIt(r, e)) \/ (\E c \in Closers : Inside(c, e))
    BY <1>1 DEF Busy, GoodEntry
  <2> QED BY <2>1 DEF HoldsIt, Owning, Inside, Going, Moving, ClosingOn
<1>2. CASE ~Ready(e)
  <2>1. \E r \in Requests : request[r].at = "loading"
    BY <1>2 DEF Inv, Lends, Loads
  <2> QED BY <2>1 DEF Going, Moving
<1>3. CASE ~Idle(e)
  <2>1. Borrowers(e) # {}
    BY <1>3, FS_EmptySet DEF Idle, Inv, Lends
  <2> QED BY <2>1 DEF Borrowers, Borrowing, Going, Moving
<1> QED BY <1>1, <1>2, <1>3

\* So has one that is to be closed by a request, ...
LEMMA WorkGoing ==
  ASSUME Inv, Busy, NEW r \in Requests, NEW e \in request[r].todo
  PROVE  Going
<1>1. e \in DOMAIN entries /\ request[r].at \in Finishing
  BY DEF Inv, GoodRequest, Busy, GoodWork
<1>2. CASE entries[e].mu = Free
  BY <1>1, <1>2 DEF Finishing, Going, Moving
<1>3. CASE entries[e].mu # Free
  BY <1>1, <1>3, EntryGoing
<1> QED BY <1>2, <1>3

\* ... or that still takes up a place after it left the table.
LEMMA FlaggedGoing ==
  ASSUME Inv, Busy, NEW e \in Flagged
  PROVE  Going
<1>1. e \in DOMAIN entries /\ entries[e].retiring /\ GoodEntry(e)
  BY DEF Flagged, Busy
<1>2. CASE entries[e].closing
  <2>1. PICK r \in Requests : WillClose(r, e)
    BY <1>1, <1>2 DEF GoodEntry
  <2>2. CASE e \in request[r].todo
    BY <2>2, WorkGoing
  <2>3. CASE request[r].at \in {"finished", "evicted", "retiring"}
    BY <2>3 DEF Going, Moving
  <2> QED BY <2>1, <2>2, <2>3 DEF WillClose
<1>3. CASE ~entries[e].closing
  <2>1. Borrowers(e) # {}
    BY <1>1, <1>3 DEF GoodEntry
  <2> QED BY <2>1 DEF Borrowers, Borrowing, Going, Moving
<1> QED BY <1>2, <1>3

\* A request parks for an entry in use, or for a place that others have.
LEMMA ParkedGoing ==
  ASSUME Inv, Busy, NEW r \in Requests, request[r].at = "parked"
  PROVE  Going
<1> DEFINE key == request[r].key
<1>1. key \in Keys /\ \A k \in Keys : table[k] # 0 => table[k] \in DOMAIN entries
  BY Basics DEF RequestRecord, Shape
<1>2. CASE CouldProceed(r)
  <2>1. \E p \in Requests : AboutToNotify(p)
    BY <1>2 DEF Busy, NoLostWakeup
  <2> QED BY <2>1 DEF AboutToNotify, Going, Moving
<1>3. CASE ~CouldProceed(r) /\ table[key] # 0
  <2>1. entries[table[key]].mu # Free
    BY <1>3, CouldMeans DEF Could, OwnFree
  <2> QED BY <1>1, <1>3, <2>1, EntryGoing
<1>4. CASE ~CouldProceed(r) /\ table[key] = 0
  <2>1. ~IdleOfScope(r) /\ ~IdleToEvict(r) /\ ~PlaceFree
    BY <1>4, CouldMeans DEF Could
  <2>2. Tabled \cup Flagged # {}
    BY <2>1, FS_EmptySet, SessionsAssumption DEF PlaceFree
  <2>3. CASE Flagged # {}
    BY <2>3, FlaggedGoing
  <2>4. CASE Tabled # {}
    <3>1. PICK k \in Keys : table[k] # 0
      BY <2>4 DEF Tabled
    <3>2. ~Ready(table[k]) \/ ~Idle(table[k])
      BY <1>4, <2>1, <3>1 DEF IdleOfScope, IdleToEvict
    <3> QED BY <1>1, <3>1, <3>2, EntryGoing
  <2> QED BY <2>2, <2>3, <2>4
<1> QED BY <1>2, <1>3, <1>4

LEMMA RequestGoing ==
  ASSUME Inv, Busy, NEW r \in Requests, request[r].at # "idle"
  PROVE  Going
<1>1. CASE request[r].at = "parked"
  BY <1>1, ParkedGoing
<1>2. CASE request[r].at = "awaiting"
  <2>1. Entry(r) \in DOMAIN entries
    BY <1>2 DEF Busy, GoodWork
  <2> QED BY <1>2, <2>1, EntryGoing DEF Going, Moving
<1>3. CASE request[r].at \in {"finishing", "evicting"}
  <2>1. request[r].todo # {}
    BY <1>3 DEF Busy, GoodWork
  <2> QED BY <2>1, WorkGoing
<1> QED BY <1>1, <1>2, <1>3 DEF Going, Moving

\* A Close waits for places to be given up, for the Close before it, for a load
\* or for the use of an entry.
LEMMA CloserGoing ==
  ASSUME Inv, Busy, NEW c \in Closers, closer[c].at \notin {"idle", "returned"}
  PROVE  Going
<1>1. ASSUME NEW d \in Closers, closer[d].at \in {"closing", "inside"} PROVE Going
  <2>1. \A e \in closer[d].todo : e \in DOMAIN entries
    BY DEF Inv, GoodCloser
  <2>2. CASE \E e \in closer[d].todo : ~Ready(e) \/ entries[e].mu # Free
    BY <2>1, <2>2, EntryGoing
  <2>3. CASE \A e \in closer[d].todo : Ready(e) /\ entries[e].mu = Free
    BY <1>1, <2>3 DEF ClosingOn, Going
  <2> QED BY <2>2, <2>3
<1>2. CASE closer[c].at = "parked"
  <2>1. MustWait
    BY <1>2 DEF Busy, NoLostWakeup
  <2>2. CASE retiring.count > 0
    <3>1. Flagged # {}
      BY <2>2, FS_EmptySet DEF Inv, Books
    <3> QED BY <3>1, FlaggedGoing
  <2>3. CASE shutdown.shutting
    BY <1>1, <2>3 DEF Busy, ShuttingDown
  <2> QED BY <2>1, <2>2, <2>3 DEF MustWait
<1>3. CASE closer[c].at = "woken"
  BY <1>3 DEF ClosingOn, Going
<1>4. closer[c].at \in {"parked", "woken", "closing", "inside"}
  BY DEF Inv, Shape, CloserRecord
<1> QED BY <1>1, <1>2, <1>3, <1>4

LEMMA BusyType == Inv /\ Busy => SessionsTypeOK
<1> SUFFICES ASSUME Inv, Busy PROVE SessionsTypeOK
  OBVIOUS
<1>1. \A e \in DOMAIN entries : entries[e] \in EntryRecord
  BY DEF Inv, Shape
<1>2. ASSUME NEW e \in DOMAIN entries PROVE entries[e].borrowers \in 0 .. Cardinality(Requests)
  <2>1. Borrowers(e) \subseteq Requests
    BY DEF Borrowers
  <2>2. /\ Cardinality(Borrowers(e)) <= Cardinality(Requests)
        /\ Cardinality(Borrowers(e)) \in Nat /\ Cardinality(Requests) \in Nat
    BY <2>1, SessionsAssumption, FS_Subset, FS_CardinalityType
  <2>3. entries[e].borrowers = Cardinality(Borrowers(e))
    BY DEF Inv, Lends
  <2> QED BY <2>2, <2>3
<1>3. \A k \in Keys : table[k] \in 0 .. Len(entries) /\ (table[k] # 0 => ~entries[table[k]].dead)
  BY DEF Inv, Shape, TableLive
<1>4. /\ \A k, l \in {k \in Keys : table[k] # 0} :
           k # l => (<<k, l>> \in recency <=> <<l, k>> \notin recency)
      /\ Waiters <= Capacity /\ asked \in 0 .. MaxAsks
  BY DEF Busy, UseOrdered
<1>5. \A e \in DOMAIN entries :
        /\ entries[e].scope \in Scopes /\ entries[e].state \in {"loading", "ready", "failed"}
        /\ entries[e].model \in {"none", "open", "closing", "closed"}
        /\ entries[e].mu \in Requests \cup Closers \cup {Free}
  BY <1>1 DEF EntryRecord
<1> QED BY <1>2, <1>3, <1>4, <1>5 DEF SessionsTypeOK

\* Nobody waits for someone who waits, and nobody sleeps through what it waits
\* for, however loads, evictions, retirements and Close calls meet
\* (session_director.go: leaseEntry, parkLocked, notify, finishRetirement and Close).
THEOREM NobodyStandsStill == SessionsSpec => []NoStandstill
<1>1. Inv /\ Busy => NoStandstill
  <2> SUFFICES ASSUME Inv, Busy PROVE NoStandstill
    OBVIOUS
  <2>1. SessionsTypeOK /\ NoLostWakeup
    BY BusyType DEF Busy
  <2>2. \/ /\ \A r \in Requests : request[r].at = "idle"
           /\ \A c \in Closers : closer[c].at \in {"idle", "returned"}
        \/ Going
    BY RequestGoing, CloserGoing
  <2> QED BY <2>1, <2>2 DEF NoStandstill, Going
<1> QED BY <1>1, InitInv, NextInv, InitBusy, NextBusy, PTL DEF SessionsSpec
=============================================================================
