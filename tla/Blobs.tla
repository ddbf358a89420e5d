-------------------------------- MODULE Blobs --------------------------------
(***************************************************************************)
(* The content bytes of a store outside its journal (internal/overgodb:    *)
(* blobs.go, blob_pack.go, retention.go): commits that prepare a blob and  *)
(* then append, Release, which releases what no alias reaches and removes  *)
(* the files, and PackSmallBlobs, which moves blobs into one pack.  Any    *)
(* process may stop between any two steps.                                 *)
(*                                                                         *)
(* The journal is module Journal's subject; here it is the catalog its     *)
(* last frame leads to.  Of a content the model keeps where the catalog    *)
(* says its bytes are, and of aliases one name, which every commit moves.  *)
(***************************************************************************)
EXTENDS Naturals, FiniteSets

CONSTANTS
  Contents,
  Small,      \* contents under inlineContentLimit: inline now, blobs in older stores
  Stored,     \* contents the store has at first, as blobs
  Packable,   \* contents under the limit PackSmallBlobs is called with
  Releasable, \* contents of the classes the caller of Release admits
  Ancestors,  \* what lineage reaches from each content, itself included
  Handles,    \* open Stores, each in a process of its own
  Writers,    \* goroutines that commit
  Keepers,    \* goroutines that release and pack
  Uses,       \* the handle each goroutine uses
  MaxCommits, \* bound: commits after the first
  None

ASSUME BlobsAssumption ==
  /\ Small \subseteq Contents /\ Stored \subseteq Contents /\ Packable \subseteq Contents
  /\ Releasable \subseteq Contents
  /\ Ancestors \in [Contents -> SUBSET Contents]
  /\ \A c \in Contents : c \in Ancestors[c]
  /\ \A c \in Contents : \A d \in Ancestors[c] : Ancestors[d] \subseteq Ancestors[c]
  /\ Uses \in [Writers \cup Keepers -> Handles]
  /\ MaxCommits \in Nat
  /\ None \notin Contents \cup Handles \cup Writers \cup Keepers

Actors == Writers \cup Keepers

VARIABLES
  catalog,  \* what the journal says
  view,     \* what each handle has replayed
  loose,    \* blob files
  pack,     \* members of the pack file
  packedBy, \* history: the handle that wrote it and forgot its index since, or None
  index,    \* the pack index each handle has loaded, or None
  lock,     \* the goroutine inside a write transaction
  task      \* where each goroutine is

vars == <<catalog, view, loose, pack, packedBy, index, lock, task>>

------------------------------------------------------------------------------
Idle == [at |-> "idle", content |-> None, head |-> 0, some |-> {}]

Has(k) == {c \in Contents : k.at[c] # "absent" /\ c \notin k.released}
Known(k) == {c \in Contents : k.at[c] # "absent"}
Blobs(k) == {c \in Has(k) : k.at[c] = "blob"}
Reached(k) == IF k.alias = None THEN {} ELSE Ancestors[k.alias]

\* blobPack.entries: the index is read once, and kept.
Entries(h) == IF index[h] = None THEN pack ELSE index[h]

\* Bytes the handle can read and that hash to c.  An index says where bytes lie in
\* the pack it was read from, and in another one something else lies there.
Verifies(h, c) == c \in loose \/ (c \in Entries(h) /\ Entries(h) = pack)

\* The index is loaded at the first look for a blob that has no file.
Loading(h, looked) ==
  index' = [index EXCEPT ![h] = IF looked \subseteq loose THEN @ ELSE Entries(h)]

Does(a, t) == task' = [task EXCEPT ![a] = t]

\* writeTransaction: one at a time over all processes, on a refreshed view.
Begins(a) ==
  /\ lock = None
  /\ view' = [view EXCEPT ![Uses[a]] = catalog]

Init ==
  /\ \E first \in {[seq |-> 0, alias |-> None, released |-> {},
                    at |-> [c \in Contents |-> IF c \in Stored THEN "blob" ELSE "absent"]]} :
       catalog = first /\ view = [h \in Handles |-> first]
  /\ loose = Stored /\ pack = {} /\ packedBy = None
  /\ index = [h \in Handles |-> None]
  /\ lock = None
  /\ task = [a \in Actors |-> Idle]

------------------------------------------------------------------------------
(* Commits *)

\* A batch introduces c, derived from contents the store knows, and moves the
\* alias to it.  Content the store has is not written again.
BeginCommit(w) ==
  /\ task[w].at = "idle" /\ Begins(w)
  /\ catalog.seq < MaxCommits
  /\ \E c \in Contents :
       /\ Ancestors[c] \ {c} \subseteq Known(catalog)
       /\ c \notin Has(catalog) \/ catalog.alias # c
       /\ Does(w, [Idle EXCEPT !.content = c,
                               !.at = IF c \in Has(catalog) \cup Small THEN "append" ELSE "prepare"])
  /\ lock' = w
  /\ UNCHANGED <<catalog, loose, pack, packedBy, index>>

\* blobStore.prepare: bytes that are there are verified, others made durable.
Prepare(w) ==
  LET c == task[w].content  h == Uses[w] IN
  /\ task[w].at = "prepare"
  /\ c \in loose \/ c \notin Entries(h) \/ Verifies(h, c)
  /\ loose' = IF c \in Entries(h) THEN loose ELSE loose \cup {c}
  /\ Loading(h, {c})
  /\ Does(w, [task[w] EXCEPT !.at = "append"])
  /\ UNCHANGED <<catalog, view, pack, packedBy, lock>>

\* The packed bytes its index names are not the content's: the commit is refused.
PrepareRefused(w) ==
  LET c == task[w].content  h == Uses[w] IN
  /\ task[w].at = "prepare"
  /\ c \notin loose /\ c \in Entries(h) /\ ~Verifies(h, c)
  /\ Loading(h, {c})
  /\ Does(w, Idle) /\ lock' = None
  /\ UNCHANGED <<catalog, view, loose, pack, packedBy>>

Introduced(k, c) ==
  [k EXCEPT !.seq = @ + 1, !.alias = c, !.released = @ \ {c},
            !.at[c] = IF c \in Has(k) THEN @ ELSE IF c \in Small THEN "inline" ELSE "blob"]

Append(w) ==
  /\ task[w].at = "append"
  /\ catalog' = Introduced(catalog, task[w].content)
  /\ view' = [view EXCEPT ![Uses[w]] = catalog']
  /\ Does(w, Idle) /\ lock' = None
  /\ UNCHANGED <<loose, pack, packedBy, index>>

------------------------------------------------------------------------------
(* Release *)

\* collectLiveSet: what the refreshed view has and no root reaches.
Collect(k) ==
  /\ task[k].at = "idle" /\ Begins(k)
  /\ Does(k, [Idle EXCEPT !.at = "collected",
                          !.some = (Has(catalog) \ Reached(catalog)) \cap Releasable])
  /\ UNCHANGED <<catalog, loose, pack, packedBy, index, lock>>

\* The mutex of the handle is free.
Unlocked(h) == \A a \in Actors : Uses[a] = h => lock # a

\* store.Head: the head that the release will expect.
ReadHead(k) ==
  /\ task[k].at = "collected" /\ Unlocked(Uses[k])
  /\ Does(k, [task[k] EXCEPT !.head = view[Uses[k]].seq,
                             !.at = IF task[k].some = {} THEN "sweep" ELSE "release"])
  /\ UNCHANGED <<catalog, view, loose, pack, packedBy, index, lock>>

\* Mutant: the head is not expected.
HeadAgreesAlways(k) == TRUE

\* The release commit expects the head that was read.
HeadAgrees(k) == catalog.seq = task[k].head

CommitReleases(k) ==
  /\ task[k].at = "release" /\ lock = None
  /\ HeadAgrees(k) /\ catalog.alias \notin task[k].some
  /\ catalog.seq < MaxCommits
  /\ catalog' = [catalog EXCEPT !.seq = @ + 1, !.released = @ \cup task[k].some]
  /\ view' = [view EXCEPT ![Uses[k]] = catalog']
  /\ Does(k, [Idle EXCEPT !.at = "sweep"])
  /\ UNCHANGED <<loose, pack, packedBy, index, lock>>

\* Another commit came first, or a target of an alias is named: Release fails.
ReleasesRefused(k) ==
  /\ task[k].at = "release" /\ Begins(k)
  /\ ~HeadAgrees(k) \/ catalog.alias \in task[k].some
  /\ Does(k, Idle)
  /\ UNCHANGED <<catalog, loose, pack, packedBy, index, lock>>

\* Mutant: the files to remove are chosen from the view the handle already has.
BeginSweepStale(k) ==
  /\ task[k].at = "sweep" /\ lock = None
  /\ LET seen == view[Uses[k]] IN
       Does(k, [Idle EXCEPT !.at = "sweeping", !.some = {c \in seen.released : seen.at[c] = "blob"}])
  /\ lock' = k
  /\ UNCHANGED <<catalog, view, loose, pack, packedBy, index>>

\* A write transaction of its own: what is still released goes, this run's and
\* earlier runs'; what was introduced again since stays.
BeginSweep(k) ==
  /\ task[k].at = "sweep" /\ Begins(k)
  /\ Does(k, [Idle EXCEPT !.at = "sweeping",
                          !.some = {c \in catalog.released : catalog.at[c] = "blob"}])
  /\ lock' = k
  /\ UNCHANGED <<catalog, loose, pack, packedBy, index>>

\* blobStore.remove, one file after the other.
Remove(k) ==
  /\ task[k].at \in {"sweeping", "unloosing"}
  /\ \E c \in task[k].some :
       /\ loose' = loose \ {c}
       /\ Does(k, [task[k] EXCEPT !.some = @ \ {c}])
  /\ UNCHANGED <<catalog, view, pack, packedBy, index, lock>>

Finish(k) ==
  /\ task[k].at \in {"sweeping", "unloosing"} /\ task[k].some = {}
  /\ Does(k, Idle) /\ lock' = None
  /\ UNCHANGED <<catalog, view, loose, pack, packedBy, index>>

------------------------------------------------------------------------------
(* Packing *)

Members == Blobs(catalog) \cap Packable

\* Every member is read and held to its identity while the new pack is staged.
BeginPack(k) ==
  LET h == Uses[k] IN
  /\ task[k].at = "idle" /\ Begins(k)
  /\ \A c \in Members : Verifies(h, c)
  /\ Loading(h, Members)
  /\ Does(k, [Idle EXCEPT !.at = "staged", !.some = Members])
  /\ lock' = k
  /\ UNCHANGED <<catalog, loose, pack, packedBy>>

PackRefused(k) ==
  LET h == Uses[k] IN
  /\ task[k].at = "idle" /\ Begins(k)
  /\ \E c \in Members : ~Verifies(h, c)
  /\ Loading(h, Members)
  /\ UNCHANGED <<catalog, loose, pack, packedBy, lock, task>>

\* One rename publishes the pack.
Publish(k) ==
  /\ task[k].at = "staged"
  /\ pack' = task[k].some /\ packedBy' = None
  /\ Does(k, [task[k] EXCEPT !.at = "published"])
  /\ UNCHANGED <<catalog, view, loose, index, lock>>

\* Mutant: the index loaded from the old pack is kept.
ForgetNothing(k) ==
  /\ task[k].at = "published"
  /\ packedBy' = Uses[k]
  /\ Does(k, [task[k] EXCEPT !.at = "unloosing"])
  /\ UNCHANGED <<catalog, view, loose, pack, index, lock>>

\* The directory is synced: the handle forgets the index it had, and goes on to the
\* files of the members.
Forget(k) ==
  /\ task[k].at = "published"
  /\ packedBy' = Uses[k]
  /\ index' = [index EXCEPT ![Uses[k]] = None]
  /\ Does(k, [task[k] EXCEPT !.at = "unloosing"])
  /\ UNCHANGED <<catalog, view, loose, pack, lock>>

\* The pack cannot be written or renamed, the directory is not synced, or a file not
\* removed: the transaction ends there.  After the rename the index is not forgotten.
Fails(k) ==
  /\ task[k].at \in {"staged", "published", "sweeping", "unloosing"}
  /\ Does(k, Idle) /\ lock' = None
  /\ UNCHANGED <<catalog, view, loose, pack, packedBy, index>>

------------------------------------------------------------------------------
(* Reads and crashes *)

\* OpenContent of a blob without a file loads the index.
Read(h) ==
  /\ Unlocked(h)
  /\ index[h] = None
  /\ Blobs(view[h]) \ loose # {}
  /\ index' = [index EXCEPT ![h] = pack]
  /\ UNCHANGED <<catalog, view, loose, pack, packedBy, lock, task>>

\* The process stops and opens the store again.  Files that were staged are not
\* seen by anyone.
Crash(h) ==
  /\ view' = [view EXCEPT ![h] = catalog]
  /\ index' = [index EXCEPT ![h] = None]
  /\ task' = [a \in Actors |-> IF Uses[a] = h THEN Idle ELSE task[a]]
  /\ lock' = IF Unlocked(h) THEN lock ELSE None
  /\ UNCHANGED <<catalog, loose, pack, packedBy>>

Next ==
  \/ \E w \in Writers : BeginCommit(w) \/ Prepare(w) \/ PrepareRefused(w) \/ Append(w)
  \/ \E k \in Keepers :
       \/ Collect(k) \/ ReadHead(k) \/ CommitReleases(k) \/ ReleasesRefused(k)
       \/ BeginSweep(k) \/ BeginPack(k) \/ PackRefused(k) \/ Publish(k)
       \/ Forget(k) \/ Remove(k) \/ Finish(k) \/ Fails(k)
  \/ \E h \in Handles : Read(h) \/ Crash(h)

BlobsSpec == Init /\ [][Next]_vars

------------------------------------------------------------------------------
(* Properties *)

Catalogs ==
  [seq : Nat, alias : Contents \cup {None}, released : SUBSET Contents,
   at : [Contents -> {"absent", "blob", "inline"}]]

Steps == {"idle", "prepare", "append", "collected", "release", "sweep", "sweeping",
          "staged", "published", "unloosing"}

\* Types; only the goroutine in the write transaction is in a step that needs it.
BlobsTypeOK ==
  /\ catalog \in Catalogs /\ view \in [Handles -> Catalogs]
  /\ loose \subseteq Contents /\ pack \subseteq Contents
  /\ packedBy \in Handles \cup {None}
  /\ DOMAIN index = Handles /\ \A h \in Handles : index[h] = None \/ index[h] \subseteq Contents
  /\ lock \in Actors \cup {None}
  /\ task \in [Actors -> [at : Steps, content : Contents \cup {None}, head : Nat, some : SUBSET Contents]]
  /\ \A a \in Actors :
       lock = a <=> task[a].at \in {"prepare", "append", "sweeping", "staged", "published", "unloosing"}

\* Whatever was released, introduced again, packed and interrupted: the bytes of a
\* content that the journal says the store has are in a file or in the pack.
LiveBytesKept == BlobsTypeOK /\ Blobs(catalog) \subseteq loose \cup pack

\* A release names nothing that an alias reaches when it is committed, although the
\* live set was collected earlier.
ReachableKept ==
  [][ (catalog'.released \ catalog.released) \cap Reached(catalog') = {} ]_vars

\* The handle that wrote the pack reads every content the store has: from when the pack
\* is durable it does not go by the index of an earlier one.  One that could not sync the
\* directory after the rename keeps its index, and is not spoken of.
PackersRead == packedBy # None => \A c \in Blobs(catalog) : Verifies(packedBy, c)
==============================================================================
