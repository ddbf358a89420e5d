----------------------------- MODULE BlobsProofs -----------------------------
(* Theorems about Blobs, for any contents with any lineage, any goroutines on *)
(* any handles.                                                               *)
EXTENDS Blobs, TLAPS

TaskRecord == [at : Steps, content : Contents \cup {None}, head : Nat, some : SUBSET Contents]

\* The steps of a write transaction.
Inside == {"prepare", "append", "sweeping", "staged", "published", "unloosing"}

\* What the goroutine inside the write transaction knows while it is there.
Knows(a) ==
  /\ task[a].at \in {"prepare", "append"} => task[a].content \in Contents
  /\ task[a].at = "append" => task[a].content \in Has(catalog) \cup Small \cup loose \cup pack
  /\ task[a].at = "sweeping" => task[a].some \cap Has(catalog) = {}
  /\ task[a].at = "staged" => task[a].some = Members
  /\ task[a].at \in {"published", "unloosing"} => task[a].some \subseteq pack

KnowsInside == \A a \in Actors : Knows(a)

\* A pack has nothing too large for it, so the next one takes all of it.
PackIsPackable == pack \subseteq Packable

\* The handle that wrote the pack and forgot its index has that of the pack or none.
PackerIndex == packedBy # None => index[packedBy] \in {None, pack}

Kept == Blobs(catalog) \subseteq loose \cup pack

Inv == BlobsTypeOK /\ Kept /\ KnowsInside /\ PackIsPackable /\ PackerIndex

\* A handle that has replayed as much as there is has replayed what there is.
ViewsArePast ==
  \A h \in Handles : /\ view[h].seq <= catalog.seq
                     /\ view[h].seq = catalog.seq => view[h] = catalog

\* What a release is about to name was unreached in the view that the head is of.
CollectedUnreached ==
  \A a \in Actors :
    LET seen == view[Uses[a]] IN
    /\ task[a].at \in {"collected", "release"} => task[a].some \cap Reached(seen) = {}
    /\ task[a].at = "release" => task[a].head = seen.seq

------------------------------------------------------------------------------
(* Types *)

LEMMA IdleType == Idle \in TaskRecord
BY DEF Idle, TaskRecord, Steps

\* A goroutine goes to a step that is in the write transaction exactly if it has it.
LEMMA DoesType ==
  ASSUME BlobsTypeOK, NEW a \in Actors, NEW t \in TaskRecord, Does(a, t),
         lock' \in Actors \cup {None},
         \A b \in Actors : b # a => (lock' = b <=> lock = b),
         t.at \in Inside <=> lock' = a
  PROVE  /\ task' \in [Actors -> TaskRecord]
         /\ \A b \in Actors : task'[b].at \in Inside <=> lock' = b
         /\ task'[a] = t /\ \A b \in Actors : b # a => task'[b] = task[b]
<1>1. task \in [Actors -> TaskRecord]
  BY DEF BlobsTypeOK, TaskRecord
<1>2. task'[a] = t /\ \A b \in Actors : b # a => task'[b] = task[b]
  BY <1>1 DEF Does
<1>3. task' \in [Actors -> TaskRecord]
  BY <1>1 DEF Does
<1>4. \A b \in Actors : task[b].at \in Inside <=> lock = b
  BY DEF BlobsTypeOK, Inside
<1> QED BY <1>2, <1>3, <1>4

\* Nobody is in the write transaction, or a is.
LEMMA OneInside ==
  ASSUME BlobsTypeOK
  PROVE  /\ \A a, b \in Actors : task[a].at \in Inside /\ task[b].at \in Inside => a = b
         /\ lock = None => \A a \in Actors : task[a].at \notin Inside
         /\ \A a \in Actors : task[a].at \in Inside <=> lock = a
         /\ \A a \in Actors : task[a] \in TaskRecord /\ a # None
<1>1. \A a \in Actors : a # None
  BY BlobsAssumption DEF Actors
<1>2. \A a \in Actors : task[a].at \in Inside <=> lock = a
  BY DEF BlobsTypeOK, Inside
<1>3. \A a \in Actors : task[a] \in TaskRecord
  BY DEF BlobsTypeOK, TaskRecord
<1> QED BY <1>1, <1>2, <1>3

\* The types of all but the goroutines.
FilesType ==
  /\ catalog \in Catalogs /\ view \in [Handles -> Catalogs]
  /\ loose \subseteq Contents /\ pack \subseteq Contents
  /\ packedBy \in Handles \cup {None}
  /\ DOMAIN index = Handles /\ \A h \in Handles : index[h] = None \/ index[h] \subseteq Contents

LEMMA TypeParts ==
  BlobsTypeOK <=> /\ FilesType /\ lock \in Actors \cup {None}
                  /\ task \in [Actors -> TaskRecord]
                  /\ \A a \in Actors : task[a].at \in Inside <=> lock = a
BY DEF BlobsTypeOK, FilesType, TaskRecord, Inside

LEMMA UsesType == \A a \in Actors : Uses[a] \in Handles
BY BlobsAssumption DEF Actors

LEMMA BeginsType ==
  ASSUME FilesType, NEW a \in Actors, Begins(a)
  PROVE  view' \in [Handles -> Catalogs]
BY UsesType DEF Begins, FilesType

LEMMA LoadingType ==
  ASSUME FilesType, NEW a \in Actors, NEW looked, Loading(Uses[a], looked)
  PROVE  DOMAIN index' = Handles /\ \A h \in Handles : index'[h] = None \/ index'[h] \subseteq Contents
<1>1. Uses[a] \in Handles
  BY UsesType
<1>2. Entries(Uses[a]) \subseteq Contents
  BY <1>1 DEF Entries, FilesType
<1> QED BY <1>1, <1>2 DEF Loading, FilesType

\* What an introduction makes of a catalog.
LEMMA IntroducedType ==
  ASSUME NEW k \in Catalogs, NEW c \in Contents
  PROVE  /\ Introduced(k, c) \in Catalogs
         /\ Introduced(k, c).seq = k.seq + 1
         /\ Introduced(k, c).released = k.released \ {c}
         /\ \A d \in Contents : d # c => Introduced(k, c).at[d] = k.at[d]
         /\ Introduced(k, c).at[c] = IF c \in Has(k) THEN k.at[c] ELSE IF c \in Small THEN "inline" ELSE "blob"
<1>1. /\ k = [seq |-> k.seq, alias |-> k.alias, released |-> k.released, at |-> k.at]
      /\ k.seq \in Nat /\ k.alias \in Contents \cup {None} /\ k.released \in SUBSET Contents
      /\ k.at \in [Contents -> {"absent", "blob", "inline"}]
  BY DEF Catalogs
<1> DEFINE what == IF c \in Has(k) THEN k.at[c] ELSE IF c \in Small THEN "inline" ELSE "blob"
<1>2. /\ [k.at EXCEPT ![c] = what] \in [Contents -> {"absent", "blob", "inline"}]
      /\ \A d \in Contents : d # c => [k.at EXCEPT ![c] = what][d] = k.at[d]
      /\ [k.at EXCEPT ![c] = what][c] = what
  BY <1>1
<1>3. Introduced(k, c) =
        [seq |-> k.seq + 1, alias |-> c, released |-> k.released \ {c}, at |-> [k.at EXCEPT ![c] = what]]
  <2>1. Introduced(k, c) =
          [[[[k EXCEPT !.seq = @ + 1] EXCEPT !.alias = c] EXCEPT !.released = @ \ {c}] EXCEPT !.at = [k.at EXCEPT ![c] = what]]
    BY <1>1 DEF Introduced
  <2> QED BY <1>1, <2>1
<1> QED BY <1>1, <1>2, <1>3 DEF Catalogs

------------------------------------------------------------------------------
(* The invariant *)

LEMMA InvInit == Init => Inv
<1> SUFFICES ASSUME Init PROVE Inv
  OBVIOUS
<1>1. PICK first \in {[seq |-> 0, alias |-> None, released |-> {},
                      at |-> [c \in Contents |-> IF c \in Stored THEN "blob" ELSE "absent"]]} :
        catalog = first /\ view = [h \in Handles |-> first]
  BY DEF Init
<1>2. catalog \in Catalogs
  BY <1>1 DEF Catalogs
<1>3. FilesType
  BY <1>1, <1>2, BlobsAssumption DEF Init, FilesType
<1>4. \A a \in Actors : task[a] = Idle
  BY DEF Init
<1>5. BlobsTypeOK
  <2>1. task \in [Actors -> TaskRecord]
    BY IdleType DEF Init
  <2>2. \A a \in Actors : task[a].at \in Inside <=> lock = a
    BY <1>4, BlobsAssumption DEF Init, Idle, Inside, Actors
  <2> QED BY <1>3, <2>1, <2>2, TypeParts DEF Init
<1>6. Kept
  BY <1>1 DEF Kept, Blobs, Has, Init
<1>7. KnowsInside
  BY <1>4 DEF KnowsInside, Knows, Idle
<1>8. PackIsPackable /\ PackerIndex
  BY DEF Init, PackIsPackable, PackerIndex
<1> QED BY <1>5, <1>6, <1>7, <1>8 DEF Inv

\* A step that begins, or does nothing in, a write transaction and leaves the files and
\* the journal as they are.
LEMMA QuietStep ==
  ASSUME Inv, NEW a \in Actors, NEW t \in TaskRecord, Does(a, t),
         UNCHANGED <<catalog, loose, pack, packedBy>>,
         view' \in [Handles -> Catalogs],
         DOMAIN index' = Handles, \A h \in Handles : index'[h] = None \/ index'[h] \subseteq Contents,
         PackerIndex',
         lock' \in Actors \cup {None},
         \A b \in Actors : b # a => (lock' = b <=> lock = b),
         t.at \in Inside <=> lock' = a,
         t.at \in {"prepare", "append"} => t.content \in Contents,
         t.at = "append" => t.content \in Has(catalog) \cup Small \cup loose \cup pack,
         t.at = "sweeping" => t.some \cap Has(catalog) = {},
         t.at = "staged" => t.some = Members,
         t.at \in {"published", "unloosing"} => t.some \subseteq pack
  PROVE  Inv'
<1>1. BlobsTypeOK /\ FilesType
  BY TypeParts DEF Inv
<1>2. FilesType'
  BY <1>1 DEF FilesType
<1>3. /\ task' \in [Actors -> TaskRecord]
      /\ \A b \in Actors : task'[b].at \in Inside <=> lock' = b
      /\ task'[a] = t /\ \A b \in Actors : b # a => task'[b] = task[b]
  BY <1>1, DoesType
<1>4. BlobsTypeOK'
  BY <1>2, <1>3 DEF BlobsTypeOK, FilesType, TaskRecord, Inside
<1>5. Kept'
  BY DEF Inv, Kept, Blobs, Has
<1>6. KnowsInside'
  <2> SUFFICES ASSUME NEW b \in Actors PROVE Knows(b)'
    BY DEF KnowsInside
  <2>1. Has(catalog)' = Has(catalog) /\ Members' = Members
    BY DEF Members, Blobs, Has
  <2>2. CASE b = a
    BY <1>3, <2>1, <2>2 DEF Knows
  <2>3. CASE b # a
    BY <1>3, <2>1, <2>3 DEF Knows, KnowsInside, Inv
  <2> QED BY <2>2, <2>3
<1>7. PackIsPackable'
  BY DEF Inv, PackIsPackable
<1> QED BY <1>4, <1>5, <1>6, <1>7 DEF Inv

\* Who loads an index loads that of the pack there is.
LEMMA LoadingPacker ==
  ASSUME Inv, NEW h \in Handles, NEW looked, Loading(h, looked), UNCHANGED <<pack, packedBy>>
  PROVE  PackerIndex'
<1>1. DOMAIN index = Handles /\ packedBy \in Handles \cup {None}
  BY DEF Inv, BlobsTypeOK
<1>2. index'[h] \in {index[h], Entries(h)} /\ \A g \in Handles : g # h => index'[g] = index[g]
  BY <1>1 DEF Loading
<1>3. h = packedBy => Entries(h) = pack \/ packedBy = None
  BY DEF Inv, PackerIndex, Entries
<1>4. CASE packedBy = h
  BY <1>2, <1>3, <1>4 DEF Inv, PackerIndex
<1>5. CASE packedBy # h
  BY <1>1, <1>2, <1>5 DEF Inv, PackerIndex
<1> QED BY <1>4, <1>5

\* The view, the index and the lock of a step that touches none of them.
LEMMA Untouched ==
  ASSUME Inv
  PROVE  /\ UNCHANGED view => view' \in [Handles -> Catalogs]
         /\ UNCHANGED index => DOMAIN index' = Handles /\ \A h \in Handles : index'[h] = None \/ index'[h] \subseteq Contents
         /\ UNCHANGED <<index, pack, packedBy>> => PackerIndex'
         /\ lock \in Actors \cup {None}
BY DEF Inv, BlobsTypeOK, PackerIndex

LEMMA BeginCommitStep ==
  ASSUME Inv, NEW w \in Writers, BeginCommit(w)
  PROVE  Inv'
<1>1. w \in Actors
  BY DEF Actors
<1>2. PICK c \in Contents :
        Does(w, [Idle EXCEPT !.content = c, !.at = IF c \in Has(catalog) \cup Small THEN "append" ELSE "prepare"])
  BY DEF BeginCommit
<1> DEFINE t == [Idle EXCEPT !.content = c, !.at = IF c \in Has(catalog) \cup Small THEN "append" ELSE "prepare"]
<1>3. /\ t \in TaskRecord /\ t.content = c /\ t.at \in {"append", "prepare"}
      /\ t.at = "append" => c \in Has(catalog) \cup Small
  BY DEF Idle, TaskRecord, Steps
<1>4. view' \in [Handles -> Catalogs]
  BY <1>1, BeginsType, TypeParts DEF BeginCommit, Inv
<1>5. lock = None /\ lock' = w /\ w # None
  BY <1>1, OneInside DEF BeginCommit, Begins, Inv
<1> HIDE DEF t
<1>6. \A b \in Actors : b # w => (lock' = b <=> lock = b)
  BY <1>1, <1>5, OneInside DEF Inv
<1> QED BY <1>1, <1>2, <1>3, <1>4, <1>5, <1>6, Untouched, QuietStep DEF BeginCommit, Inside, t

\* A goroutine goes to another step with what it has.
LEMMA Moved ==
  ASSUME NEW t \in TaskRecord, NEW x \in Steps
  PROVE  /\ [t EXCEPT !.at = x] \in TaskRecord
         /\ [t EXCEPT !.at = x].at = x /\ [t EXCEPT !.at = x].content = t.content
         /\ [t EXCEPT !.at = x].head = t.head /\ [t EXCEPT !.at = x].some = t.some
BY DEF TaskRecord

\* The lock of a transaction that begins or ends.
LEMMA LockMoves ==
  ASSUME Inv, NEW a \in Actors
  PROVE  /\ lock = None /\ lock' = a => \A b \in Actors : b # a => (lock' = b <=> lock = b)
         /\ lock = a /\ lock' = None => \A b \in Actors : b # a => (lock' = b <=> lock = b)
         /\ None \notin Actors
BY OneInside DEF Inv

LEMMA PrepareRefusedStep ==
  ASSUME Inv, NEW w \in Writers, PrepareRefused(w)
  PROVE  Inv'
<1>1. w \in Actors /\ lock = w /\ lock' = None
  BY OneInside DEF Actors, PrepareRefused, Inv, Inside
<1>2. /\ DOMAIN index' = Handles /\ \A h \in Handles : index'[h] = None \/ index'[h] \subseteq Contents
      /\ PackerIndex'
  BY <1>1, UsesType, LoadingType, LoadingPacker, TypeParts DEF PrepareRefused, Inv
<1>3. Does(w, Idle) /\ Idle.at = "idle"
  BY DEF PrepareRefused, Idle
<1> QED BY <1>1, <1>2, <1>3, IdleType, LockMoves, Untouched, QuietStep DEF PrepareRefused, Inside

LEMMA CollectStep ==
  ASSUME Inv, NEW k \in Keepers, Collect(k)
  PROVE  Inv'
<1>1. k \in Actors /\ lock = None
  BY DEF Actors, Collect, Begins
<1> DEFINE t == [Idle EXCEPT !.at = "collected", !.some = (Has(catalog) \ Reached(catalog)) \cap Releasable]
<1>2. t \in TaskRecord /\ t.at = "collected"
  BY BlobsAssumption DEF Idle, TaskRecord, Steps
<1>3. Does(k, t)
  BY DEF Collect
<1> HIDE DEF t
<1>4. view' \in [Handles -> Catalogs]
  BY <1>1, BeginsType, TypeParts DEF Collect, Inv
<1> QED BY <1>1, <1>2, <1>3, <1>4, LockMoves, Untouched, QuietStep DEF Collect, Inside

LEMMA ReadHeadStep ==
  ASSUME Inv, NEW k \in Keepers, ReadHead(k)
  PROVE  Inv'
<1>1. k \in Actors /\ task[k] \in TaskRecord /\ task[k].at = "collected"
  BY OneInside DEF Actors, ReadHead, Inv
<1> DEFINE t == [task[k] EXCEPT !.head = view[Uses[k]].seq,
                                !.at = IF task[k].some = {} THEN "sweep" ELSE "release"]
<1>2. t \in TaskRecord /\ t.at \in {"sweep", "release"}
  <2>1. view[Uses[k]].seq \in Nat
    BY <1>1, UsesType DEF Inv, BlobsTypeOK, Catalogs
  <2> QED BY <1>1, <2>1 DEF TaskRecord, Steps
<1>3. Does(k, t)
  BY DEF ReadHead
<1>4. lock # k
  BY <1>1, OneInside DEF Inv, Inside
<1> HIDE DEF t
<1> QED BY <1>1, <1>2, <1>3, <1>4, Untouched, QuietStep DEF ReadHead, Inside

LEMMA ReleasesRefusedStep ==
  ASSUME Inv, NEW k \in Keepers, ReleasesRefused(k)
  PROVE  Inv'
<1>1. k \in Actors /\ lock = None
  BY DEF Actors, ReleasesRefused, Begins
<1>2. view' \in [Handles -> Catalogs]
  BY <1>1, BeginsType, TypeParts DEF ReleasesRefused, Inv
<1>3. Does(k, Idle) /\ Idle.at = "idle"
  BY DEF ReleasesRefused, Idle
<1> QED BY <1>1, <1>2, <1>3, IdleType, LockMoves, Untouched, QuietStep DEF ReleasesRefused, Inside

LEMMA BeginSweepStep ==
  ASSUME Inv, NEW k \in Keepers, BeginSweep(k)
  PROVE  Inv'
<1>1. k \in Actors /\ lock = None /\ lock' = k
  BY DEF Actors, BeginSweep, Begins
<1> DEFINE t == [Idle EXCEPT !.at = "sweeping", !.some = {c \in catalog.released : catalog.at[c] = "blob"}]
<1>2. t \in TaskRecord /\ t.at = "sweeping" /\ t.some \cap Has(catalog) = {}
  BY DEF Inv, BlobsTypeOK, Catalogs, Idle, TaskRecord, Steps, Has
<1>3. Does(k, t)
  BY DEF BeginSweep
<1>4. view' \in [Handles -> Catalogs]
  BY <1>1, BeginsType, TypeParts DEF BeginSweep, Inv
<1> HIDE DEF t
<1> QED BY <1>1, <1>2, <1>3, <1>4, LockMoves, Untouched, QuietStep DEF BeginSweep, Inside

LEMMA FinishStep ==
  ASSUME Inv, NEW k \in Keepers, Finish(k)
  PROVE  Inv'
<1>1. k \in Actors /\ lock = k /\ lock' = None
  BY OneInside DEF Actors, Finish, Inv, Inside
<1>2. Does(k, Idle) /\ Idle.at = "idle"
  BY DEF Finish, Idle
<1> QED BY <1>1, <1>2, IdleType, LockMoves, Untouched, QuietStep DEF Finish, Inside

LEMMA FailsStep ==
  ASSUME Inv, NEW k \in Keepers, Fails(k)
  PROVE  Inv'
<1>1. k \in Actors /\ lock = k /\ lock' = None
  BY OneInside DEF Actors, Fails, Inv, Inside
<1>2. Does(k, Idle) /\ Idle.at = "idle"
  BY DEF Fails, Idle
<1> QED BY <1>1, <1>2, IdleType, LockMoves, Untouched, QuietStep DEF Fails, Inside

LEMMA BeginPackStep ==
  ASSUME Inv, NEW k \in Keepers, BeginPack(k)
  PROVE  Inv'
<1>1. k \in Actors /\ lock = None /\ lock' = k
  BY DEF Actors, BeginPack, Begins
<1> DEFINE t == [Idle EXCEPT !.at = "staged", !.some = Members]
<1>2. t \in TaskRecord /\ t.at = "staged" /\ t.some = Members
  BY BlobsAssumption DEF Idle, TaskRecord, Steps, Members
<1>3. Does(k, t)
  BY DEF BeginPack
<1>4. /\ DOMAIN index' = Handles /\ \A h \in Handles : index'[h] = None \/ index'[h] \subseteq Contents
      /\ PackerIndex'
  BY <1>1, UsesType, LoadingType, LoadingPacker, TypeParts DEF BeginPack, Inv
<1>5. view' \in [Handles -> Catalogs]
  BY <1>1, BeginsType, TypeParts DEF BeginPack, Inv
<1> HIDE DEF t
<1> QED BY <1>1, <1>2, <1>3, <1>4, <1>5, LockMoves, Untouched, QuietStep DEF BeginPack, Inside

\* A step that changes what handles have replayed or loaded, and nothing else.
LEMMA ReadingStep ==
  ASSUME Inv, UNCHANGED <<catalog, loose, pack, packedBy, lock, task>>,
         view' \in [Handles -> Catalogs],
         DOMAIN index' = Handles, \A h \in Handles : index'[h] = None \/ index'[h] \subseteq Contents,
         PackerIndex'
  PROVE  Inv'
<1>1. BlobsTypeOK'
  BY DEF Inv, BlobsTypeOK
<1>2. Kept' /\ PackIsPackable'
  BY DEF Inv, Kept, PackIsPackable, Blobs, Has
<1>3. KnowsInside'
  BY DEF Inv, KnowsInside, Knows, Members, Blobs, Has
<1> QED BY <1>1, <1>2, <1>3 DEF Inv

LEMMA PackRefusedStep ==
  ASSUME Inv, NEW k \in Keepers, PackRefused(k)
  PROVE  Inv'
<1>1. k \in Actors
  BY DEF Actors
<1>2. /\ DOMAIN index' = Handles /\ \A h \in Handles : index'[h] = None \/ index'[h] \subseteq Contents
      /\ PackerIndex'
  BY <1>1, UsesType, LoadingType, LoadingPacker, TypeParts DEF PackRefused, Inv
<1>3. view' \in [Handles -> Catalogs]
  BY <1>1, BeginsType, TypeParts DEF PackRefused, Inv
<1> QED BY <1>2, <1>3, ReadingStep DEF PackRefused

LEMMA ReadStep ==
  ASSUME Inv, NEW h \in Handles, Read(h)
  PROVE  Inv'
<1>1. /\ DOMAIN index = Handles /\ \A g \in Handles : index[g] = None \/ index[g] \subseteq Contents
      /\ pack \subseteq Contents
  BY DEF Inv, BlobsTypeOK
<1>2. index' = [index EXCEPT ![h] = pack]
  BY DEF Read
<1>3. DOMAIN index' = Handles /\ \A g \in Handles : index'[g] = None \/ index'[g] \subseteq Contents
  BY <1>1, <1>2
<1>4. PackerIndex'
  <2>1. pack' = pack /\ packedBy' = packedBy /\ packedBy \in Handles \cup {None}
    BY DEF Read, Inv, BlobsTypeOK
  <2>2. CASE packedBy = h
    BY <1>1, <1>2, <2>1, <2>2 DEF PackerIndex
  <2>3. CASE packedBy # h
    BY <1>1, <1>2, <2>1, <2>3 DEF PackerIndex, Inv
  <2> QED BY <2>2, <2>3
<1> QED BY <1>3, <1>4, Untouched, ReadingStep DEF Read

\* A step of the goroutine in the write transaction that changes files: what is kept
\* is kept, and nobody else knows anything about them.
LEMMA HolderStep ==
  ASSUME Inv, NEW a \in Actors, task[a].at \in Inside,
         NEW t \in TaskRecord, Does(a, t), UNCHANGED <<catalog, view, packedBy, lock>>, t.at \in Inside,
         loose' \subseteq Contents, pack' = pack,
         DOMAIN index' = Handles, \A h \in Handles : index'[h] = None \/ index'[h] \subseteq Contents,
         PackerIndex', Kept', Knows(a)'
  PROVE  Inv'
<1>1. BlobsTypeOK /\ lock = a
  BY OneInside DEF Inv
<1>2. /\ task' \in [Actors -> TaskRecord]
      /\ \A b \in Actors : task'[b].at \in Inside <=> lock' = b
      /\ task'[a] = t /\ \A b \in Actors : b # a => task'[b] = task[b]
  BY <1>1, DoesType DEF BlobsTypeOK
<1>3. BlobsTypeOK'
  BY <1>1, <1>2 DEF BlobsTypeOK, TaskRecord, Inside
<1>4. \A b \in Actors : b # a => task'[b].at \notin Inside
  BY <1>1, <1>2
<1>5. KnowsInside'
  BY <1>4 DEF KnowsInside, Knows, Inside
<1> QED BY <1>3, <1>5 DEF Inv, PackIsPackable

LEMMA PrepareStep ==
  ASSUME Inv, NEW w \in Writers, Prepare(w)
  PROVE  Inv'
<1> DEFINE c == task[w].content  h == Uses[w]
<1>1. w \in Actors /\ task[w].at = "prepare" /\ task[w] \in TaskRecord
  BY OneInside DEF Actors, Prepare, Inv
<1>2. c \in Contents /\ h \in Handles
  BY <1>1, UsesType DEF Inv, KnowsInside, Knows
<1>3. /\ DOMAIN index' = Handles /\ \A g \in Handles : index'[g] = None \/ index'[g] \subseteq Contents
      /\ PackerIndex'
  BY <1>1, <1>2, LoadingType, LoadingPacker, TypeParts DEF Prepare, Inv
<1>4. loose' = IF c \in Entries(h) THEN loose ELSE loose \cup {c}
  BY DEF Prepare
<1>5. loose' \subseteq Contents /\ loose \subseteq loose'
  BY <1>2, <1>4 DEF Inv, BlobsTypeOK
<1>6. c \in loose' \cup pack
  BY <1>4 DEF Prepare, Verifies
<1>7. Kept'
  BY <1>5 DEF Prepare, Inv, Kept, Blobs, Has
<1> DEFINE t == [task[w] EXCEPT !.at = "append"]
<1>8. t \in TaskRecord /\ t.at = "append" /\ t.content = c
  BY <1>1, Moved DEF Steps
<1>9. Does(w, t) /\ UNCHANGED <<catalog, view, pack, packedBy, lock>>
  BY DEF Prepare
<1>10. Knows(w)'
  <2>1. task'[w] = t
    BY <1>1, <1>9 DEF Does, Inv, BlobsTypeOK
  <2> HIDE DEF t, c
  <2> QED BY <1>2, <1>6, <1>8, <1>9, <2>1 DEF Knows, c
<1> HIDE DEF t, c, h
<1> QED BY <1>1, <1>3, <1>5, <1>7, <1>8, <1>9, <1>10, HolderStep DEF Inside

LEMMA RemoveStep ==
  ASSUME Inv, NEW k \in Keepers, Remove(k)
  PROVE  Inv'
<1>1. k \in Actors /\ task[k].at \in {"sweeping", "unloosing"} /\ task[k] \in TaskRecord
  BY OneInside DEF Actors, Remove, Inv
<1>2. PICK c \in task[k].some : loose' = loose \ {c} /\ Does(k, [task[k] EXCEPT !.some = @ \ {c}])
  BY DEF Remove
<1> DEFINE t == [task[k] EXCEPT !.some = @ \ {c}]
<1>3. t \in TaskRecord /\ t.at = task[k].at /\ t.some = task[k].some \ {c}
  BY <1>1 DEF TaskRecord
<1>4. c \notin Has(catalog) \/ c \in pack
  BY <1>1, <1>2 DEF Inv, KnowsInside, Knows
<1>5. UNCHANGED <<catalog, view, pack, packedBy, index, lock>>
  BY DEF Remove
<1>6. Kept'
  BY <1>2, <1>4, <1>5 DEF Inv, Kept, Blobs, Has
<1>7. task'[k] = t
  BY <1>1, <1>2 DEF Does, Inv, BlobsTypeOK
<1> HIDE DEF t
<1>8. Knows(k)'
  BY <1>1, <1>3, <1>5, <1>7 DEF Knows, Inv, KnowsInside, Has
<1>9. loose' \subseteq Contents
  BY <1>2 DEF Inv, BlobsTypeOK
<1> QED BY <1>1, <1>2, <1>3, <1>5, <1>6, <1>8, <1>9, Untouched, HolderStep DEF Inside, t

LEMMA PublishStep ==
  ASSUME Inv, NEW k \in Keepers, Publish(k)
  PROVE  Inv'
<1>1. k \in Actors /\ task[k].at = "staged" /\ task[k] \in TaskRecord /\ lock = k
  BY OneInside DEF Actors, Publish, Inv, Inside
<1>2. task[k].some = Members
  BY <1>1 DEF Inv, KnowsInside, Knows
<1> DEFINE t == [task[k] EXCEPT !.at = "published"]
<1>3. t \in TaskRecord /\ t.at = "published" /\ t.some = Members
  BY <1>1, <1>2, Moved DEF Steps
<1>4. Does(k, t) /\ UNCHANGED <<catalog, view, loose, lock>>
  BY DEF Publish
<1> HIDE DEF t
<1>5. /\ task' \in [Actors -> TaskRecord]
      /\ \A b \in Actors : task'[b].at \in Inside <=> lock' = b
      /\ task'[k] = t /\ \A b \in Actors : b # k => task'[b] = task[b]
  BY <1>1, <1>3, <1>4, DoesType DEF Inv, BlobsTypeOK, Inside
<1>6. pack' = Members /\ packedBy' = None /\ index' = index
  BY <1>1, <1>2 DEF Publish
<1>7. PackIsPackable' /\ pack' \subseteq Contents
  BY <1>6, BlobsAssumption DEF PackIsPackable, Members
<1>8. PackerIndex' /\ DOMAIN index' = Handles /\ \A h \in Handles : index'[h] = None \/ index'[h] \subseteq Contents
  BY <1>6 DEF PackerIndex, Inv, BlobsTypeOK
<1>9. BlobsTypeOK'
  BY <1>4, <1>5, <1>6, <1>7, <1>8 DEF Inv, BlobsTypeOK, TaskRecord, Inside
<1>10. Kept'
  BY <1>4, <1>6 DEF Inv, Kept, PackIsPackable, Members, Blobs, Has
<1>11. KnowsInside'
  <2>1. Knows(k)'
    BY <1>3, <1>5, <1>6 DEF Knows
  <2>2. \A b \in Actors : b # k => task'[b].at \notin Inside
    BY <1>1, <1>4, <1>5
  <2> QED BY <2>1, <2>2 DEF KnowsInside, Knows, Inside
<1> QED BY <1>7, <1>8, <1>9, <1>10, <1>11 DEF Inv

LEMMA ForgetStep ==
  ASSUME Inv, NEW k \in Keepers, Forget(k)
  PROVE  Inv'
<1>1. k \in Actors /\ task[k].at = "published" /\ task[k] \in TaskRecord /\ lock = k
  BY OneInside DEF Actors, Forget, Inv, Inside
<1>2. task[k].some \subseteq pack
  BY <1>1 DEF Inv, KnowsInside, Knows
<1> DEFINE t == [task[k] EXCEPT !.at = "unloosing"]
<1>3. t \in TaskRecord /\ t.at = "unloosing" /\ t.some = task[k].some
  BY <1>1, Moved DEF Steps
<1>4. Does(k, t) /\ UNCHANGED <<catalog, view, loose, pack, lock>>
  BY DEF Forget
<1> HIDE DEF t
<1>5. /\ task' \in [Actors -> TaskRecord]
      /\ \A b \in Actors : task'[b].at \in Inside <=> lock' = b
      /\ task'[k] = t /\ \A b \in Actors : b # k => task'[b] = task[b]
  BY <1>1, <1>3, <1>4, DoesType DEF Inv, BlobsTypeOK, Inside
<1>6. packedBy' = Uses[k] /\ index' = [index EXCEPT ![Uses[k]] = None] /\ Uses[k] \in Handles
  BY <1>1, UsesType DEF Forget
<1>7. PackIsPackable' /\ Kept'
  BY <1>4 DEF Inv, Kept, PackIsPackable, Blobs, Has
<1>8. PackerIndex' /\ DOMAIN index' = Handles /\ \A h \in Handles : index'[h] = None \/ index'[h] \subseteq Contents
  BY <1>6 DEF PackerIndex, Inv, BlobsTypeOK
<1>9. BlobsTypeOK'
  BY <1>4, <1>5, <1>6, <1>8 DEF Inv, BlobsTypeOK, TaskRecord, Inside
<1>10. KnowsInside'
  <2>1. Knows(k)'
    BY <1>2, <1>3, <1>4, <1>5 DEF Knows
  <2>2. \A b \in Actors : b # k => task'[b].at \notin Inside
    BY <1>1, <1>4, <1>5
  <2> QED BY <2>1, <2>2 DEF KnowsInside, Knows, Inside
<1> QED BY <1>7, <1>8, <1>9, <1>10 DEF Inv

\* A step after which nobody is in the write transaction.
LEMMA LeavingStep ==
  ASSUME Inv, UNCHANGED <<pack, packedBy, index>>, catalog' \in Catalogs, view' \in [Handles -> Catalogs],
         loose' = loose, lock' = None, task' \in [Actors -> TaskRecord],
         \A a \in Actors : task'[a].at \notin Inside,
         Kept'
  PROVE  Inv'
<1>1. BlobsTypeOK'
  BY BlobsAssumption DEF Inv, BlobsTypeOK, TaskRecord, Inside, Actors
<1>2. KnowsInside'
  BY DEF KnowsInside, Knows, Inside
<1> QED BY <1>1, <1>2 DEF Inv, PackIsPackable, PackerIndex

LEMMA AppendStep ==
  ASSUME Inv, NEW w \in Writers, Append(w)
  PROVE  Inv'
<1> DEFINE c == task[w].content
<1>1. w \in Actors /\ task[w].at = "append" /\ lock = w /\ c \in Contents /\ Uses[w] \in Handles
  BY OneInside, UsesType DEF Actors, Append, Inv, Inside, KnowsInside, Knows
<1>2. c \in Has(catalog) \cup Small \cup loose \cup pack
  BY <1>1 DEF Inv, KnowsInside, Knows
<1>3. catalog \in Catalogs /\ catalog' = Introduced(catalog, c)
  BY DEF Inv, BlobsTypeOK, Append
<1> HIDE DEF c
<1>4. /\ catalog' \in Catalogs /\ catalog'.released = catalog.released \ {c}
      /\ \A d \in Contents : d # c => catalog'.at[d] = catalog.at[d]
      /\ catalog'.at[c] = IF c \in Has(catalog) THEN catalog.at[c] ELSE IF c \in Small THEN "inline" ELSE "blob"
  BY <1>1, <1>3, IntroducedType
<1>5. view' \in [Handles -> Catalogs]
  BY <1>1, <1>4 DEF Append, Inv, BlobsTypeOK
<1>6. Does(w, Idle) /\ lock' = None /\ UNCHANGED <<loose, pack, packedBy, index>> /\ Idle.at = "idle"
  BY DEF Append, Idle
<1>7. /\ task' \in [Actors -> TaskRecord]
      /\ \A b \in Actors : task'[b].at \in Inside <=> lock' = b
  BY <1>1, <1>6, IdleType, LockMoves, DoesType DEF Inv, Inside
<1>8. Kept'
  <2> SUFFICES ASSUME NEW d \in Contents, catalog'.at[d] = "blob", d \notin catalog'.released
               PROVE  d \in loose \cup pack
    BY <1>6 DEF Kept, Blobs, Has
  <2>1. CASE d # c
    BY <1>4, <2>1 DEF Inv, Kept, Blobs, Has
  <2>2. CASE d = c /\ c \in Has(catalog)
    BY <1>1, <1>4, <2>2 DEF Inv, Kept, Blobs, Has
  <2>3. CASE d = c /\ c \notin Has(catalog)
    BY <1>2, <1>4, <2>3
  <2> QED BY <2>1, <2>2, <2>3
<1> QED BY <1>4, <1>5, <1>6, <1>7, <1>8, LockMoves, LeavingStep

LEMMA CommitReleasesStep ==
  ASSUME Inv, NEW k \in Keepers, CommitReleases(k)
  PROVE  Inv'
<1>1. k \in Actors /\ task[k].at = "release" /\ lock = None /\ Uses[k] \in Handles
  BY UsesType DEF Actors, CommitReleases
<1>2. task[k].some \subseteq Contents
  BY <1>1, OneInside DEF Inv, TaskRecord
<1>3. catalog' = [catalog EXCEPT !.seq = @ + 1, !.released = @ \cup task[k].some] /\ catalog \in Catalogs
  BY DEF CommitReleases, Inv, BlobsTypeOK
<1>4. catalog' \in Catalogs /\ catalog'.at = catalog.at /\ catalog.released \subseteq catalog'.released
  <2> DEFINE gone == catalog.released \cup task[k].some
  <2>1. /\ catalog = [seq |-> catalog.seq, alias |-> catalog.alias, released |-> catalog.released, at |-> catalog.at]
        /\ catalog.seq \in Nat /\ catalog.alias \in Contents \cup {None} /\ gone \in SUBSET Contents
        /\ catalog.at \in [Contents -> {"absent", "blob", "inline"}]
    BY <1>2, <1>3 DEF Catalogs
  <2>2. catalog' = [[catalog EXCEPT !.seq = @ + 1] EXCEPT !.released = gone]
    BY <1>3, <2>1
  <2>3. catalog' = [seq |-> catalog.seq + 1, alias |-> catalog.alias, released |-> gone, at |-> catalog.at]
    BY <2>1, <2>2
  <2> QED BY <2>1, <2>3 DEF Catalogs
<1>5. view' \in [Handles -> Catalogs]
  BY <1>1, <1>4 DEF CommitReleases, Inv, BlobsTypeOK
<1> DEFINE t == [Idle EXCEPT !.at = "sweep"]
<1>6. Does(k, t) /\ t \in TaskRecord /\ t.at = "sweep" /\ UNCHANGED <<loose, pack, packedBy, index, lock>>
  BY IdleType, Moved DEF CommitReleases, Steps
<1> HIDE DEF t
<1>7. /\ task' \in [Actors -> TaskRecord]
      /\ \A b \in Actors : task'[b].at \in Inside <=> lock' = b
  BY <1>1, <1>6, LockMoves, DoesType DEF Inv, Inside
<1>8. Kept'
  BY <1>4, <1>6 DEF Inv, Kept, Blobs, Has
<1> QED BY <1>1, <1>4, <1>5, <1>6, <1>7, <1>8, LockMoves, LeavingStep

\* A crash leaves what others know to those who are inside.
LEMMA CrashStep ==
  ASSUME Inv, NEW h \in Handles, Crash(h)
  PROVE  Inv'
<1>1. task' = [a \in Actors |-> IF Uses[a] = h THEN Idle ELSE task[a]]
  BY DEF Crash
<1>2. task' \in [Actors -> TaskRecord]
  BY <1>1, IdleType, OneInside DEF Inv
<1>3. view' \in [Handles -> Catalogs]
  BY DEF Crash, Inv, BlobsTypeOK
<1>4. DOMAIN index' = Handles /\ \A g \in Handles : index'[g] = None \/ index'[g] \subseteq Contents
  BY DEF Crash, Inv, BlobsTypeOK
<1>5. PackerIndex'
  <2>1. index' = [index EXCEPT ![h] = None] /\ UNCHANGED <<pack, packedBy>> /\ DOMAIN index = Handles
        /\ packedBy \in Handles \cup {None}
    BY DEF Crash, Inv, BlobsTypeOK
  <2>2. CASE packedBy = h
    BY <2>1, <2>2 DEF PackerIndex
  <2>3. CASE packedBy # h
    BY <2>1, <2>3 DEF PackerIndex, Inv
  <2> QED BY <2>2, <2>3
<1>6. \A a \in Actors : task'[a].at \in Inside <=> lock' = a
  <2>1. Idle.at \notin Inside
    BY DEF Idle, Inside
  <2>2. \A a \in Actors : a # None /\ (task[a].at \in Inside <=> lock = a)
    BY OneInside DEF Inv
  <2>3. CASE Unlocked(h)
    BY <1>1, <2>1, <2>2, <2>3 DEF Crash, Unlocked
  <2>4. CASE ~Unlocked(h)
    <3>1. lock' = None /\ Uses[lock] = h /\ lock \in Actors
      BY <2>4 DEF Crash, Unlocked
    <3> QED BY <1>1, <2>1, <2>2, <3>1
  <2> QED BY <2>3, <2>4
<1>7. BlobsTypeOK'
  BY <1>2, <1>3, <1>4, <1>6 DEF Crash, Inv, BlobsTypeOK, TaskRecord, Inside
<1>8. Kept' /\ PackIsPackable'
  BY DEF Crash, Inv, Kept, PackIsPackable, Blobs, Has
<1>9. KnowsInside'
  <2> SUFFICES ASSUME NEW a \in Actors PROVE Knows(a)'
    BY DEF KnowsInside
  <2>1. UNCHANGED <<catalog, loose, pack>>
    BY DEF Crash
  <2>2. CASE Uses[a] = h
    BY <1>1, <2>2 DEF Knows, Idle
  <2>3. CASE Uses[a] # h
    BY <1>1, <2>1, <2>3 DEF Knows, Inv, KnowsInside, Has, Members, Blobs
  <2> QED BY <2>2, <2>3
<1> QED BY <1>5, <1>7, <1>8, <1>9 DEF Inv

LEMMA InvStep == Inv /\ [Next]_vars => Inv'
<1> SUFFICES ASSUME Inv, [Next]_vars PROVE Inv'
  OBVIOUS
<1>1. ASSUME NEW w \in Writers, BeginCommit(w) \/ Prepare(w) \/ PrepareRefused(w) \/ Append(w) PROVE Inv'
  BY <1>1, BeginCommitStep, PrepareStep, PrepareRefusedStep, AppendStep
<1>2. ASSUME NEW k \in Keepers,
             Collect(k) \/ ReadHead(k) \/ CommitReleases(k) \/ ReleasesRefused(k) \/ BeginSweep(k)
      PROVE  Inv'
  BY <1>2, CollectStep, ReadHeadStep, CommitReleasesStep, ReleasesRefusedStep, BeginSweepStep
<1>3. ASSUME NEW k \in Keepers,
             \/ BeginPack(k) \/ PackRefused(k) \/ Publish(k) \/ Forget(k)
             \/ Remove(k) \/ Finish(k) \/ Fails(k)
      PROVE  Inv'
  BY <1>3, BeginPackStep, PackRefusedStep, PublishStep, ForgetStep, RemoveStep, FinishStep, FailsStep
<1>4. ASSUME NEW h \in Handles, Read(h) \/ Crash(h) PROVE Inv'
  BY <1>4, ReadStep, CrashStep
<1>5. CASE UNCHANGED vars
  <2>1. UNCHANGED <<catalog, view, loose, pack, packedBy, index, lock, task>>
    BY <1>5 DEF vars
  <2>2. view' \in [Handles -> Catalogs] /\ PackerIndex'
    BY <2>1, Untouched
  <2>3. DOMAIN index' = Handles /\ \A h \in Handles : index'[h] = None \/ index'[h] \subseteq Contents
    BY <2>1, Untouched
  <2> QED BY <2>1, <2>2, <2>3, ReadingStep
<1> QED BY <1>1, <1>2, <1>3, <1>4, <1>5 DEF Next

LEMMA InvHolds == BlobsSpec => []Inv
<1>1. Init => Inv
  BY InvInit
<1>2. Inv /\ [Next]_vars => Inv'
  BY InvStep
<1> QED BY <1>1, <1>2, PTL DEF BlobsSpec

\* The bytes of what the journal says the store has stay in a file or in the pack,
\* whatever is released, swept, packed or interrupted, on handles shared or not.
THEOREM BytesKept == BlobsSpec => []LiveBytesKept
<1>1. Inv => LiveBytesKept
  BY DEF Inv, Kept, LiveBytesKept
<1> QED BY <1>1, InvHolds, PTL

\* A handle whose pack is durable, and which forgot its index for it, reads all there is
\* for as long as that pack is the one there is.
THEOREM PackerReads == BlobsSpec => []PackersRead
<1>1. ASSUME Inv PROVE PackersRead
  <2> SUFFICES ASSUME packedBy # None, NEW c \in Blobs(catalog) PROVE Verifies(packedBy, c)
    BY DEF PackersRead
  <2>1. Entries(packedBy) = pack
    BY <1>1 DEF Inv, PackerIndex, Entries
  <2> QED BY <1>1, <2>1 DEF Inv, Kept, Verifies
<1> QED BY <1>1, InvHolds, PTL

------------------------------------------------------------------------------
(* Releases *)

\* Goroutines in processes of their own, as the maintenance commands are run: the head
\* a release expects is then of the view its live set was collected from.
OwnHandles == \A a, b \in Actors : a # b => Uses[a] # Uses[b]

ReleaseInv == Inv /\ ViewsArePast /\ CollectedUnreached

\* What a step does to the catalog and the views.
LEMMA ViewsStep ==
  ASSUME ReleaseInv, [Next]_vars
  PROVE  ViewsArePast'
<1>0. catalog \in Catalogs /\ view \in [Handles -> Catalogs] /\ \A h \in Handles : view[h].seq \in Nat
  BY DEF ReleaseInv, Inv, BlobsTypeOK, Catalogs
<1>1. ASSUME catalog' = catalog, \A h \in Handles : view'[h] \in {view[h], catalog} PROVE ViewsArePast'
  BY <1>0, <1>1 DEF ViewsArePast, ReleaseInv, Catalogs
<1>2. ASSUME catalog'.seq = catalog.seq + 1, \A h \in Handles : view'[h] \in {view[h], catalog'} PROVE ViewsArePast'
  BY <1>0, <1>2 DEF ViewsArePast, ReleaseInv, Catalogs
<1>3. ASSUME NEW w \in Writers, BeginCommit(w) \/ Prepare(w) \/ PrepareRefused(w) PROVE ViewsArePast'
  BY <1>0, <1>1, <1>3 DEF BeginCommit, Begins, Prepare, PrepareRefused
<1>4. ASSUME NEW w \in Writers, Append(w) PROVE ViewsArePast'
  <2>1. w \in Actors /\ task[w].content \in Contents
    BY <1>4 DEF Append, Actors, ReleaseInv, Inv, KnowsInside, Knows
  <2>2. catalog'.seq = catalog.seq + 1
    BY <1>0, <1>4, <2>1, IntroducedType DEF Append
  <2> QED BY <1>0, <1>2, <1>4, <2>2 DEF Append
<1>5. ASSUME NEW k \in Keepers, CommitReleases(k) PROVE ViewsArePast'
  <2>1. catalog' = [[catalog EXCEPT !.seq = @ + 1] EXCEPT !.released = catalog.released \cup task[k].some]
    BY <1>0, <1>5 DEF CommitReleases, Catalogs
  <2>2. catalog'.seq = catalog.seq + 1
    BY <1>0, <2>1 DEF Catalogs
  <2> QED BY <1>0, <1>2, <1>5, <2>2 DEF CommitReleases
<1>6. ASSUME NEW k \in Keepers,
             \/ Collect(k) \/ ReadHead(k) \/ ReleasesRefused(k) \/ BeginSweep(k) \/ BeginPack(k)
             \/ PackRefused(k) \/ Publish(k) \/ Forget(k) \/ Remove(k) \/ Finish(k) \/ Fails(k)
      PROVE  ViewsArePast'
  BY <1>0, <1>1, <1>6 DEF Collect, ReadHead, ReleasesRefused, BeginSweep, BeginPack, PackRefused, Publish,
                          Forget, Remove, Finish, Fails, Begins
<1>7. ASSUME NEW h \in Handles, Read(h) \/ Crash(h) PROVE ViewsArePast'
  BY <1>0, <1>1, <1>7 DEF Read, Crash
<1>8. CASE UNCHANGED vars
  BY <1>0, <1>1, <1>8 DEF vars
<1> QED BY <1>3, <1>4, <1>5, <1>6, <1>7, <1>8 DEF Next

\* What one goroutine does leaves the collections of the others to them.
LEMMA CollectedOthers ==
  ASSUME ReleaseInv, OwnHandles, NEW a \in Actors,
         \A b \in Actors : b # a => task'[b] = task[b],
         \A h \in Handles : h # Uses[a] => view'[h] = view[h],
         task'[a].at \in {"collected", "release"} => task'[a].some \cap Reached(view'[Uses[a]]) = {},
         task'[a].at = "release" => task'[a].head = view'[Uses[a]].seq
  PROVE  CollectedUnreached'
<1> SUFFICES ASSUME NEW b \in Actors
             PROVE  /\ task'[b].at \in {"collected", "release"} => task'[b].some \cap Reached(view'[Uses[b]]) = {}
                    /\ task'[b].at = "release" => task'[b].head = view'[Uses[b]].seq
  BY DEF CollectedUnreached, Reached
<1>1. CASE b = a
  BY <1>1
<1>2. CASE b # a
  <2>1. Uses[b] # Uses[a] /\ Uses[b] \in Handles
    BY <1>2, UsesType DEF OwnHandles
  <2> QED BY <1>2, <2>1 DEF ReleaseInv, CollectedUnreached
<1> QED BY <1>1, <1>2

LEMMA CollectedStep ==
  ASSUME ReleaseInv, OwnHandles, [Next]_vars
  PROVE  CollectedUnreached'
<1>0. /\ \A a \in Actors : Uses[a] \in Handles /\ task[a] \in TaskRecord
      /\ task \in [Actors -> TaskRecord] /\ view \in [Handles -> Catalogs]
      /\ Writers \subseteq Actors /\ Keepers \subseteq Actors
  BY UsesType, OneInside DEF ReleaseInv, Inv, BlobsTypeOK, TaskRecord, Actors
<1>1. ASSUME NEW a \in Actors, NEW t, Does(a, t), t.at \notin {"collected", "release"},
             \A h \in Handles : h # Uses[a] => view'[h] = view[h]
      PROVE  CollectedUnreached'
  BY <1>0, <1>1, CollectedOthers DEF Does
<1>2. ASSUME NEW a \in Actors, task' = task, task[a].at = "idle",
             \A h \in Handles : h # Uses[a] => view'[h] = view[h]
      PROVE  CollectedUnreached'
  BY <1>0, <1>2, CollectedOthers
<1>3. ASSUME NEW w \in Writers, BeginCommit(w) PROVE CollectedUnreached'
  <2>1. PICK c \in Contents :
          Does(w, [Idle EXCEPT !.content = c, !.at = IF c \in Has(catalog) \cup Small THEN "append" ELSE "prepare"])
    BY <1>3 DEF BeginCommit
  <2>2. [Idle EXCEPT !.content = c, !.at = IF c \in Has(catalog) \cup Small THEN "append" ELSE "prepare"].at
          \in {"append", "prepare"}
    BY DEF Idle
  <2>3. view' = [view EXCEPT ![Uses[w]] = catalog]
    BY <1>3 DEF BeginCommit, Begins
  <2> QED BY <1>0, <1>1, <2>1, <2>2, <2>3
<1>4. ASSUME NEW w \in Writers, Prepare(w) PROVE CollectedUnreached'
  BY <1>0, <1>1, <1>4, Moved DEF Prepare, Steps
<1>5. ASSUME NEW a \in Actors, Does(a, Idle), \A h \in Handles : h # Uses[a] => view'[h] = view[h]
      PROVE  CollectedUnreached'
  BY <1>1, <1>5 DEF Idle
<1>6. ASSUME NEW w \in Writers, PrepareRefused(w) \/ Append(w) PROVE CollectedUnreached'
  BY <1>0, <1>5, <1>6 DEF PrepareRefused, Append
<1>7. ASSUME NEW k \in Keepers, ReleasesRefused(k) \/ Finish(k) \/ Fails(k) PROVE CollectedUnreached'
  BY <1>0, <1>5, <1>7 DEF ReleasesRefused, Finish, Fails, Begins
<1>8. ASSUME NEW k \in Keepers, PackRefused(k) PROVE CollectedUnreached'
  BY <1>0, <1>2, <1>8 DEF PackRefused, Begins
<1>9. ASSUME NEW k \in Keepers, Collect(k) PROVE CollectedUnreached'
  <2>1. /\ Does(k, [Idle EXCEPT !.at = "collected", !.some = (Has(catalog) \ Reached(catalog)) \cap Releasable])
        /\ view' = [view EXCEPT ![Uses[k]] = catalog]
    BY <1>9 DEF Collect, Begins
  <2>2. task'[k].at = "collected" /\ task'[k].some \cap Reached(catalog) = {}
    BY <1>0, <2>1 DEF Does, Idle
  <2>3. \A b \in Actors : b # k => task'[b] = task[b]
    BY <1>0, <2>1 DEF Does
  <2> QED BY <1>0, <2>1, <2>2, <2>3, CollectedOthers
<1>10. ASSUME NEW k \in Keepers, ReadHead(k) PROVE CollectedUnreached'
  <2> DEFINE t == [task[k] EXCEPT !.head = view[Uses[k]].seq,
                                  !.at = IF task[k].some = {} THEN "sweep" ELSE "release"]
  <2>1. task[k].at = "collected" /\ Does(k, t) /\ view' = view
    BY <1>10 DEF ReadHead
  <2>2. t.head = view[Uses[k]].seq /\ t.some = task[k].some /\ task'[k] = t
    BY <1>0, <2>1 DEF TaskRecord, Does
  <2>3. \A b \in Actors : b # k => task'[b] = task[b]
    BY <1>0, <2>1 DEF Does
  <2>4. task[k].some \cap Reached(view[Uses[k]]) = {}
    BY <1>0, <2>1 DEF ReleaseInv, CollectedUnreached
  <2> HIDE DEF t
  <2> QED BY <1>0, <2>1, <2>2, <2>3, <2>4, CollectedOthers
<1>11. ASSUME NEW k \in Keepers, CommitReleases(k) PROVE CollectedUnreached'
  <2>1. Does(k, [Idle EXCEPT !.at = "sweep"]) /\ view' = [view EXCEPT ![Uses[k]] = catalog']
    BY <1>11 DEF CommitReleases
  <2> QED BY <1>0, <1>1, <2>1 DEF Idle
<1>12. ASSUME NEW k \in Keepers, BeginSweep(k) \/ BeginPack(k) PROVE CollectedUnreached'
  <2>1. view' = [view EXCEPT ![Uses[k]] = catalog]
    BY <1>12 DEF BeginSweep, BeginPack, Begins
  <2>2. \E some : \E at \in {"sweeping", "staged"} : Does(k, [Idle EXCEPT !.at = at, !.some = some])
    BY <1>12 DEF BeginSweep, BeginPack
  <2>3. PICK some, at : at \in {"sweeping", "staged"} /\ Does(k, [Idle EXCEPT !.at = at, !.some = some])
    BY <2>2
  <2>4. [Idle EXCEPT !.at = at, !.some = some].at = at
    BY DEF Idle
  <2> QED BY <1>0, <1>1, <2>1, <2>3, <2>4
<1>13. ASSUME NEW k \in Keepers, Publish(k) \/ Forget(k) PROVE CollectedUnreached'
  BY <1>0, <1>1, <1>13, Moved DEF Publish, Forget, Steps
<1>14. ASSUME NEW k \in Keepers, Remove(k) PROVE CollectedUnreached'
  <2>1. PICK c \in task[k].some : Does(k, [task[k] EXCEPT !.some = @ \ {c}])
    BY <1>14 DEF Remove
  <2>2. [task[k] EXCEPT !.some = @ \ {c}].at \in {"sweeping", "unloosing"}
    BY <1>0, <1>14 DEF Remove, TaskRecord
  <2> QED BY <1>0, <1>1, <1>14, <2>1, <2>2 DEF Remove
<1>15. ASSUME NEW h \in Handles, Read(h) PROVE CollectedUnreached'
  BY <1>15 DEF Read, ReleaseInv, CollectedUnreached, Reached
<1>16. ASSUME NEW h \in Handles, Crash(h) PROVE CollectedUnreached'
  <2>1. /\ task' = [a \in Actors |-> IF Uses[a] = h THEN Idle ELSE task[a]]
        /\ view' = [view EXCEPT ![h] = catalog]
    BY <1>16 DEF Crash
  <2> SUFFICES ASSUME NEW b \in Actors
               PROVE  /\ task'[b].at \in {"collected", "release"} => task'[b].some \cap Reached(view'[Uses[b]]) = {}
                      /\ task'[b].at = "release" => task'[b].head = view'[Uses[b]].seq
    BY DEF CollectedUnreached, Reached
  <2>2. CASE Uses[b] = h
    BY <2>1, <2>2 DEF Idle
  <2>3. CASE Uses[b] # h
    BY <1>0, <2>1, <2>3 DEF ReleaseInv, CollectedUnreached
  <2> QED BY <2>2, <2>3
<1>17. CASE UNCHANGED vars
  BY <1>17 DEF vars, ReleaseInv, CollectedUnreached, Reached
<1> QED BY <1>3, <1>4, <1>6, <1>7, <1>8, <1>9, <1>10, <1>11, <1>12, <1>13, <1>14, <1>15, <1>16, <1>17 DEF Next

\* A step that releases something releases nothing reached.
Spares == (catalog'.released \ catalog.released) \cap Reached(catalog') = {}

LEMMA SparesStep ==
  ASSUME ReleaseInv, [Next]_vars
  PROVE  Spares
<1>1. ASSUME UNCHANGED catalog PROVE Spares
  BY <1>1 DEF Spares
<1>2. ASSUME NEW w \in Writers, Append(w) PROVE Spares
  <2>1. task[w].content \in Contents /\ catalog \in Catalogs
    BY <1>2 DEF Append, Actors, ReleaseInv, Inv, KnowsInside, Knows, BlobsTypeOK
  <2>2. catalog'.released = catalog.released \ {task[w].content}
    BY <1>2, <2>1, IntroducedType DEF Append
  <2> QED BY <2>2 DEF Spares
<1>3. ASSUME NEW k \in Keepers, CommitReleases(k) PROVE Spares
  <2>1. k \in Actors /\ Uses[k] \in Handles /\ catalog \in Catalogs
    BY UsesType DEF Actors, ReleaseInv, Inv, BlobsTypeOK
  <2>2. view[Uses[k]] = catalog /\ task[k].some \cap Reached(catalog) = {}
    BY <1>3, <2>1 DEF CommitReleases, HeadAgrees, ReleaseInv, ViewsArePast, CollectedUnreached
  <2>3. catalog' = [[catalog EXCEPT !.seq = @ + 1] EXCEPT !.released = catalog.released \cup task[k].some]
    BY <1>3, <2>1 DEF CommitReleases, Catalogs
  <2>4. catalog'.alias = catalog.alias /\ catalog'.released = catalog.released \cup task[k].some
    BY <2>1, <2>3 DEF Catalogs
  <2> QED BY <2>2, <2>4 DEF Spares, Reached
<1>4. ASSUME NEW a \in Actors,
             \/ BeginCommit(a) \/ Prepare(a) \/ PrepareRefused(a)
             \/ Collect(a) \/ ReadHead(a) \/ ReleasesRefused(a) \/ BeginSweep(a) \/ BeginPack(a)
             \/ PackRefused(a) \/ Publish(a) \/ Forget(a) \/ Remove(a) \/ Finish(a) \/ Fails(a)
      PROVE  Spares
  BY <1>1, <1>4 DEF BeginCommit, Prepare, PrepareRefused, Collect, ReadHead, ReleasesRefused, BeginSweep,
                    BeginPack, PackRefused, Publish, Forget, Remove, Finish, Fails
<1>5. ASSUME NEW h \in Handles, Read(h) \/ Crash(h) PROVE Spares
  BY <1>1, <1>5 DEF Read, Crash
<1>6. CASE UNCHANGED vars
  BY <1>1, <1>6 DEF vars
<1> QED BY <1>2, <1>3, <1>4, <1>5, <1>6 DEF Next, Actors

\* Goroutines on handles of their own release nothing that is reached, however long ago
\* the live set was collected.
THEOREM ReleaseSparesReached ==
  ASSUME OwnHandles
  PROVE  BlobsSpec => ReachableKept
<1>1. Init => ReleaseInv
  <2> SUFFICES ASSUME Init PROVE ReleaseInv
    OBVIOUS
  <2>1. ViewsArePast
    BY DEF Init, ViewsArePast
  <2>2. CollectedUnreached
    BY DEF Init, CollectedUnreached, Idle
  <2> QED BY <2>1, <2>2, InvInit DEF ReleaseInv
<1>2. ReleaseInv /\ [Next]_vars => ReleaseInv'
  BY InvStep, ViewsStep, CollectedStep DEF ReleaseInv
<1>3. ReleaseInv /\ [Next]_vars => [Spares]_vars
  BY SparesStep
<1> QED BY <1>1, <1>2, <1>3, PTL DEF BlobsSpec, ReachableKept, Spares
=============================================================================
