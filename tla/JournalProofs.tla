---------------------------- MODULE JournalProofs ----------------------------
(* Theorems about Journal and Tailing, for every set of writers, readers,    *)
(* batches and bounds.                                                       *)
EXTENDS Tailing, TLAPS

\* What a refresh or a replay hands a handle.
View == [head : Chain, anchored : Nat, active : Seq(Frame), stable : Seq(Frame)]

\* The halves of the type invariant that the actions change together.
FilesTyped ==
  /\ active \in Seq(Frame) /\ stable \in Seq(Frame)
  /\ torn \in BOOLEAN
  /\ sealed \in Seq(Seq(Frame))
  /\ gens \subseteq [head : Chain, complete : BOOLEAN]

HandlesTyped ==
  /\ head \in [Writers -> Chain]
  /\ segs \in [Writers -> Nat]
  /\ end \in [Writers -> Nat]
  /\ anchored \in [Writers -> Nat]

PlacesTyped ==
  /\ lock \in Writers \cup {NoOne}
  /\ pc \in [Writers -> {"closed", "idle", "waiting", "faulted"} \cup Holding]
  /\ req \in [Writers -> Request]

AnswersTyped == acked \subseteq [id : Chain, batch : Batches, minted : BOOLEAN]

\* The type invariant is its parts: files, handles, places and answers.
LEMMA TypeParts ==
  TypeOK <=> FilesTyped /\ HandlesTyped /\ PlacesTyped /\ AnswersTyped
  BY DEF TypeOK, FilesTyped, HandlesTyped, PlacesTyped, AnswersTyped

------------------------------------------------------------------------------
(* The helpers *)

\* A frame commits to a chain.
LEMMA IdType ==
  ASSUME NEW frame \in Frame
  PROVE  Id(frame) \in Chain
  BY DEF Id, Frame, Chain

\* Frames continue a chain to a chain.
LEMMA HeadAfterType ==
  ASSUME NEW frames \in Seq(Frame), NEW from \in Chain
  PROVE  HeadAfter(frames, from) \in Chain
<1>1. CASE frames = <<>>
  BY <1>1 DEF HeadAfter
<1>2. CASE frames # <<>>
  <2>1. Last(frames) \in Frame
    BY <1>2 DEF Last
  <2> QED BY <1>2, <2>1, IdType DEF HeadAfter
<1> QED BY <1>1, <1>2

\* The sealed segments end in a chain when replaying them does not refuse.
LEMMA SealedHeadType ==
  ASSUME FilesTyped, SealedChained
  PROVE  SealedHead(Len(sealed)) \in Chain
<1>1. CASE Len(sealed) = 0
  BY <1>1 DEF SealedHead, Chain
<1>2. CASE Len(sealed) # 0
  <2>1. Len(sealed) \in 1 .. Len(sealed)
    BY <1>2 DEF FilesTyped
  <2>2. sealed[Len(sealed)] \in Seq(Frame) /\ sealed[Len(sealed)] # <<>>
    BY <2>1 DEF FilesTyped, SealedChained
  <2>3. Last(sealed[Len(sealed)]) \in Frame
    BY <2>2 DEF Last
  <2> QED BY <1>2, <2>3, IdType DEF SealedHead
<1> QED BY <1>1, <1>2

\* A repaired or untouched active segment gives a view.
LEMMA RecoveredType ==
  ASSUME FilesTyped, NEW h \in Chain, NEW anchor \in Nat
  PROVE  Recovered(h, anchor) \in View
  BY DEF Recovered, View, FilesTyped

\* A replayed active segment gives views.
LEMMA ReplayActiveType ==
  ASSUME FilesTyped, NEW from \in Chain, NEW anchor \in Nat
  PROVE  ReplayActive(from, anchor) \subseteq View
<1>1. HeadAfter(active, from) \in Chain
  BY HeadAfterType DEF FilesTyped
<1>2. Recovered(HeadAfter(active, from), anchor) \in View
  BY <1>1, RecoveredType
<1> QED BY <1>2 DEF ReplayActive

\* A full replay gives views.
LEMMA FullReplayType ==
  ASSUME FilesTyped
  PROVE  FullReplay \subseteq View
<1>1. CASE SealedChained
  <2>1. SealedHead(Len(sealed)) \in Chain
    BY <1>1, SealedHeadType
  <2>2. FinishRotation \subseteq View
    <3>1. <<>> \in Seq(Frame)
      OBVIOUS
    <3>2. [head |-> SealedHead(Len(sealed)), anchored |-> 0,
           active |-> <<>>, stable |-> <<>>] \in View
      BY <2>1, <3>1 DEF View
    <3> QED BY <3>2 DEF FinishRotation
  <2>3. ReplayActive(SealedHead(Len(sealed)), 0) \subseteq View
    BY <2>1, ReplayActiveType
  <2> QED BY <2>2, <2>3 DEF FullReplay
<1>2. CASE ~SealedChained
  BY <1>2 DEF FullReplay
<1> QED BY <1>1, <1>2

\* Whatever an open or a rebuild replays from.
LEMMA ReplayedType ==
  ASSUME FilesTyped
  PROVE  Replayed \subseteq View
<1>1. ASSUME NEW base \in Newest
      PROVE  ReplayFrom(base) \subseteq View
  <2>1. base \in Chain
    BY DEF Newest, Complete, FilesTyped
  <2>2. Len(base) \in Nat
    BY <2>1 DEF Chain
  <2>3. ReplayActive(base, Len(base)) \subseteq View
    BY <2>1, <2>2, ReplayActiveType
  <2> QED BY <2>3, FullReplayType DEF ReplayFrom
<1> QED BY <1>1, FullReplayType DEF Replayed

\* Whatever a refresh under the lock finds.
LEMMA RefreshedType ==
  ASSUME FilesTyped, HandlesTyped, NEW w \in Writers
  PROVE  Refreshed(w) \subseteq View
<1> DEFINE frames == SubSeq(active, end[w] + 1, Len(active))
<1>0. head[w] \in Chain /\ anchored[w] \in Nat /\ end[w] \in Nat
  BY DEF HandlesTyped
<1>1. frames \in Seq(Frame)
  <2>1. active \in Seq(Frame) /\ Len(active) \in Nat
    BY DEF FilesTyped
  <2>2. \A i \in end[w] + 1 .. Len(active) : active[i] \in Frame
    BY <1>0, <2>1
  <2> QED BY <1>0, <2>1, <2>2
<1> HIDE DEF frames
<1>2. HeadAfter(frames, head[w]) \in Chain
  BY <1>0, <1>1, HeadAfterType
<1>3. Recovered(HeadAfter(frames, head[w]), anchored[w]) \in View
  BY <1>0, <1>2, RecoveredType
<1> QED BY <1>3, ReplayedType DEF Refreshed, frames

\* The identity a key was committed under is a past of the chain, and ends in
\* the batch that has the key.
LEMMA CommitOfPast ==
  ASSUME NEW chain \in Chain, NEW key, Committed(chain, key)
  PROVE  /\ CommitOf(chain, key) \in Chain
         /\ Len(CommitOf(chain, key)) \in 1 .. Len(chain)
         /\ CommitOf(chain, key) = SubSeq(chain, 1, Len(CommitOf(chain, key)))
         /\ chain[Len(CommitOf(chain, key))].key = key
<1> DEFINE i == CHOOSE n \in 1 .. Len(chain) : chain[n].key = key
<1>1. i \in 1 .. Len(chain) /\ chain[i].key = key
  BY DEF Committed
<1>2. CommitOf(chain, key) = SubSeq(chain, 1, i)
  BY DEF CommitOf
<1> HIDE DEF i
<1>3. SubSeq(chain, 1, i) \in Seq(Batches) /\ Len(SubSeq(chain, 1, i)) = i
  BY <1>1 DEF Chain
<1> QED BY <1>1, <1>2, <1>3 DEF Chain

\* The requests a handle may be given.
LEMMA RequestType ==
  /\ Idle \in Request
  /\ [op |-> "close"] \in Request
  /\ Requests \subseteq Request
  BY DEF Idle, Request, Requests

------------------------------------------------------------------------------
(* The pieces the actions share *)

\* Repairing the active segment at a view keeps the files' types (Repair).
LEMMA RepairType ==
  ASSUME FilesTyped, NEW view \in View, Repair(view)
  PROVE  FilesTyped'
  BY DEF FilesTyped, View, Repair

\* A handle that takes over a view keeps its types (TakeView).
LEMMA TakeViewType ==
  ASSUME FilesTyped, HandlesTyped, NEW w \in Writers, NEW view \in View,
         TakeView(w, view)
  PROVE  FilesTyped' /\ HandlesTyped'
<1>1. FilesTyped'
  BY RepairType DEF TakeView
<1>2. Len(sealed) \in Nat /\ Len(view.active) \in Nat
  BY DEF FilesTyped, View
<1>3. HandlesTyped'
  BY <1>2 DEF HandlesTyped, TakeView, View
<1> QED BY <1>1, <1>3

\* A handle that leaves a transaction stands at one of its places (Leave).
LEMMA LeaveType ==
  ASSUME PlacesTyped, NEW w \in Writers, Leave(w)
  PROVE  PlacesTyped'
  BY RequestType DEF PlacesTyped, Leave

\* A handle that is gone has the empty view (Vanish).
LEMMA VanishType ==
  ASSUME PlacesTyped, HandlesTyped, NEW w \in Writers,
         NEW place \in {"closed", "faulted"}, Vanish(w, place),
         lock' \in {lock, NoOne}
  PROVE  PlacesTyped' /\ HandlesTyped'
<1>1. <<>> \in Chain
  BY DEF Chain
<1> QED BY <1>1, RequestType DEF PlacesTyped, HandlesTyped, Vanish

\* The answer to a commit is an identity on a chain (Answer).
LEMMA AnswerType ==
  ASSUME AnswersTyped, PlacesTyped, NEW w \in Writers, req[w].op = "commit",
         NEW id \in Chain, NEW minted \in BOOLEAN, Answer(w, id, minted)
  PROVE  AnswersTyped'
<1>1. req[w] \in Request
  BY DEF PlacesTyped
<1>2. req[w].batch \in Batches
  BY <1>1 DEF Request
<1> QED BY <1>2 DEF AnswersTyped, Answer

\* Entering a transaction with a refreshed view keeps the types (Enter).
LEMMA EnterType ==
  ASSUME TypeOK, NEW w \in Writers, NEW request \in Request, Enter(w, request)
  PROVE  TypeOK'
<1> USE TypeParts
<1>1. PICK view \in Refreshed(w) : TakeView(w, view)
  BY DEF Enter
<1>2. view \in View
  BY <1>1, RefreshedType
<1>3. FilesTyped' /\ HandlesTyped'
  BY <1>1, <1>2, TakeViewType
<1>4. PlacesTyped'
  BY DEF Enter, PlacesTyped, Holding
<1>5. AnswersTyped'
  BY DEF Enter, AnswersTyped
<1> QED BY <1>3, <1>4, <1>5 DEF TypeOK, FilesTyped, HandlesTyped, PlacesTyped, AnswersTyped

\* A transaction that ends as it refreshes keeps the types.
LEMMA EndRefresh ==
  ASSUME TypeOK, NEW w \in Writers, NEW view \in Refreshed(w), Repair(view)
  PROVE  FilesTyped'
<1>1. view \in View
  BY TypeParts, RefreshedType
<1> QED BY <1>1, TypeParts, RepairType

\* The head an append mints.
LEMMA MintedType ==
  ASSUME TypeOK, NEW w \in Writers, req[w].op = "commit"
  PROVE  /\ req[w].batch \in Batches
         /\ Append(head[w], req[w].batch) \in Chain
<1>1. req[w] \in Request /\ head[w] \in Chain
  BY DEF TypeOK
<1>2. req[w].batch \in Batches
  BY <1>1 DEF Request
<1> QED BY <1>1, <1>2 DEF Chain

------------------------------------------------------------------------------
(* The requests the places of a commit stand for *)

\* A handle that writes a frame works on a commit.
CommitPlaces ==
  \A w \in Writers : pc[w] \in {"waiting", "appending", "written"} => req[w].op = "commit"

TypeInv == TypeOK /\ CommitPlaces

\* The store and its handles start well typed.
LEMMA TypeInit == Init => TypeInv
<1> SUFFICES ASSUME Init PROVE TypeInv
  OBVIOUS
<1>1. <<>> \in Seq(Frame) /\ <<>> \in Seq(Seq(Frame)) /\ <<>> \in Chain
  BY DEF Chain
<1>2. TypeOK
  BY <1>1, RequestType DEF Init, TypeOK
<1>3. CommitPlaces
  BY DEF Init, CommitPlaces
<1> QED BY <1>2, <1>3 DEF TypeInv

\* Every step of a handle keeps the types: one step per action.
LEMMA TypeStep ==
  ASSUME TypeInv, NEW w \in Writers, Step(w)
  PROVE  TypeOK'
<1> USE DEF TypeInv
<1> DEFINE Parts == FilesTyped' /\ HandlesTyped' /\ PlacesTyped' /\ AnswersTyped'
<1>0. FilesTyped /\ HandlesTyped /\ PlacesTyped /\ AnswersTyped
  BY TypeParts
<1>a. Parts => TypeOK'
  BY DEF TypeOK, FilesTyped, HandlesTyped, PlacesTyped, AnswersTyped
<1>b. UNCHANGED disk => FilesTyped'
  BY <1>0 DEF disk, FilesTyped
<1>c. UNCHANGED handles => HandlesTyped'
  BY <1>0 DEF handles, HandlesTyped
<1>d. UNCHANGED acked => AnswersTyped'
  BY <1>0 DEF AnswersTyped
<1> HIDE DEF TypeInv
<1>1. CASE Open(w)
  <2>1. PICK view \in Replayed : TakeView(w, view)
    BY <1>1 DEF Open
  <2>2. FilesTyped' /\ HandlesTyped'
    BY <1>0, <2>1, ReplayedType, TakeViewType
  <2>3. PlacesTyped'
    BY <1>0, <1>1 DEF Open, PlacesTyped
  <2> QED BY <1>1, <1>a, <1>d, <2>2, <2>3 DEF Open
<1>2. CASE Ask(w)
  <2>1. \A batch \in Batches :
          [op |-> "commit", batch |-> batch, expected |-> {head[w]}] \in Request
    BY <1>0 DEF HandlesTyped, Request
  <2>2. PlacesTyped'
    BY <1>0, <1>2, <2>1 DEF Ask, PlacesTyped
  <2> QED BY <1>2, <1>a, <1>b, <1>c, <1>d, <2>2 DEF Ask
<1>3. CASE Withdraw(w)
  <2>1. PlacesTyped'
    BY <1>0, <1>3, RequestType DEF Withdraw, PlacesTyped
  <2> QED BY <1>3, <1>a, <1>b, <1>c, <1>d, <2>1 DEF Withdraw
<1>4. CASE Acquire(w)
  <2>1. req[w] \in Request
    BY <1>0 DEF PlacesTyped
  <2> QED BY <1>4, <2>1, RequestType, EnterType DEF Acquire, TypeInv
<1>5. CASE AcquireFaults(w)
  <2>1. PlacesTyped' /\ HandlesTyped'
    BY <1>0, <1>5, VanishType DEF AcquireFaults
  <2> QED BY <1>5, <1>a, <1>b, <1>d, <2>1 DEF AcquireFaults
<1>6. CASE Release(w)
  <2>1. PlacesTyped'
    BY <1>0, <1>6, LeaveType DEF Release
  <2> QED BY <1>6, <1>a, <1>b, <1>c, <1>d, <2>1 DEF Release
<1>7. CASE Repeat(w)
  <2>1. PlacesTyped'
    BY <1>0, <1>7, LeaveType DEF Repeat
  <2>2. CommitOf(head[w], req[w].batch.key) \in Chain
    BY <1>0, <1>7, CommitOfPast DEF Repeat, HandlesTyped
  <2>3. AnswersTyped'
    BY <1>0, <1>7, <1>d, <2>2, AnswerType DEF Repeat
  <2> QED BY <1>7, <1>a, <1>b, <1>c, <2>1, <2>3 DEF Repeat
<1>8. CASE Refuse(w)
  <2>1. PlacesTyped'
    BY <1>0, <1>8, LeaveType DEF Refuse
  <2> QED BY <1>8, <1>a, <1>b, <1>c, <1>d, <2>1 DEF Refuse
<1>9. CASE StartAppend(w)
  <2>1. FilesTyped' /\ PlacesTyped'
    BY <1>0, <1>9 DEF StartAppend, FilesTyped, PlacesTyped, Holding
  <2> QED BY <1>9, <1>a, <1>c, <1>d, <2>1 DEF StartAppend
<1>10. CASE FinishAppend(w)
  <2>1. req[w].op = "commit"
    BY <1>10 DEF FinishAppend, TypeInv, CommitPlaces
  <2>2. [prev |-> head[w], batch |-> req[w].batch] \in Frame
    BY <1>0, <2>1, MintedType DEF HandlesTyped, Frame, TypeInv
  <2>5. active' \in Seq(Frame)
    BY <1>0, <1>10, <2>2 DEF FinishAppend, FilesTyped
  <2>3. FilesTyped'
    BY <1>0, <1>10, <2>5 DEF FinishAppend, FilesTyped
  <2>4. PlacesTyped'
    BY <1>0, <1>10 DEF FinishAppend, PlacesTyped, Holding
  <2> QED BY <1>10, <1>a, <1>c, <1>d, <2>3, <2>4 DEF FinishAppend
<1>11. CASE SyncAppend(w)
  <2>1. req[w].op = "commit"
    BY <1>11 DEF SyncAppend, TypeInv, CommitPlaces
  <2>2. Append(head[w], req[w].batch) \in Chain
    BY <2>1, MintedType DEF TypeInv
  <2>3. FilesTyped'
    BY <1>0, <1>11 DEF SyncAppend, FilesTyped
  <2>4. HandlesTyped'
    BY <1>0, <1>11, <2>2 DEF SyncAppend, HandlesTyped
  <2>5. PlacesTyped'
    BY <1>0, <1>11, LeaveType DEF SyncAppend
  <2>6. AnswersTyped'
    BY <1>0, <1>11, <2>1, <2>2, AnswerType DEF SyncAppend
  <2> QED BY <1>a, <2>3, <2>4, <2>5, <2>6
<1>12. CASE FailAppend(w)
  <2>1. PlacesTyped' /\ HandlesTyped'
    BY <1>0, <1>12, VanishType DEF FailAppend
  <2> QED BY <1>12, <1>a, <1>b, <1>d, <2>1 DEF FailAppend
<1>13. CASE PublishSegment(w)
  <2>1. FilesTyped' /\ PlacesTyped'
    BY <1>0, <1>13 DEF PublishSegment, FilesTyped, PlacesTyped, Holding, Rotating
  <2> QED BY <1>13, <1>a, <1>c, <1>d, <2>1 DEF PublishSegment
<1>14. CASE ResetActive(w)
  <2>1. FilesTyped' /\ PlacesTyped'
    BY <1>0, <1>14 DEF ResetActive, FilesTyped, PlacesTyped, Holding, Rotating
  <2> QED BY <1>14, <1>a, <1>c, <1>d, <2>1 DEF ResetActive
<1>15. CASE SyncReset(w)
  <2>1. FilesTyped' /\ PlacesTyped'
    BY <1>0, <1>15 DEF SyncReset, FilesTyped, PlacesTyped, Holding, Rotating
  <2>2. Len(sealed) \in Nat
    BY <1>0 DEF FilesTyped
  <2>3. HandlesTyped'
    BY <1>0, <1>15, <2>2 DEF SyncReset, HandlesTyped
  <2> QED BY <1>15, <1>a, <1>d, <2>1, <2>3 DEF SyncReset
<1>16. CASE StageGeneration(w)
  <2>1. head[w] \in Chain
    BY <1>0 DEF HandlesTyped
  <2>3. [head |-> head[w], complete |-> FALSE] \in [head : Chain, complete : BOOLEAN]
    BY <2>1
  <2>4. gens' \subseteq [head : Chain, complete : BOOLEAN]
    BY <1>0, <1>16, <2>3 DEF StageGeneration, FilesTyped
  <2>2. FilesTyped' /\ PlacesTyped'
    BY <1>0, <1>16, <2>4
    DEF StageGeneration, FilesTyped, PlacesTyped, Holding, Rotating
  <2> QED BY <1>16, <1>a, <1>c, <1>d, <2>2 DEF StageGeneration
<1>17. CASE CompleteGeneration(w)
  <2>1. head[w] \in Chain
    BY <1>0 DEF HandlesTyped
  <2>3. [head |-> head[w], complete |-> TRUE] \in [head : Chain, complete : BOOLEAN]
    BY <2>1
  <2>4. gens' \subseteq [head : Chain, complete : BOOLEAN]
    BY <1>0, <1>17, <2>3 DEF CompleteGeneration, FilesTyped
  <2>2. FilesTyped' /\ PlacesTyped'
    BY <1>0, <1>17, <2>4
    DEF CompleteGeneration, FilesTyped, PlacesTyped, Holding, Rotating
  <2> QED BY <1>17, <1>a, <1>c, <1>d, <2>2 DEF CompleteGeneration
<1>18. CASE RetireGenerations(w)
  <2>1. FilesTyped'
    BY <1>0, <1>18 DEF RetireGenerations, FilesTyped
  <2>2. CASE req[w].op = "close"
    <3>1. PlacesTyped' /\ HandlesTyped'
      BY <1>0, <1>18, <2>2, VanishType DEF RetireGenerations
    <3> QED BY <1>18, <1>a, <1>d, <2>1, <3>1 DEF RetireGenerations
  <2>3. CASE req[w].op # "close"
    <3>1. PlacesTyped'
      BY <1>0, <1>18, <2>3, LeaveType DEF RetireGenerations
    <3>2. Len(head[w]) \in Nat
      BY <1>0 DEF HandlesTyped, Chain
    <3>3. HandlesTyped'
      BY <1>0, <1>18, <2>3, <3>2 DEF RetireGenerations, HandlesTyped
    <3> QED BY <1>18, <1>a, <1>d, <2>1, <3>1, <3>3 DEF RetireGenerations
  <2> QED BY <2>2, <2>3
<1>19. CASE FailSnapshot(w)
  <2>1. CASE req[w].op = "close"
    <3>1. PlacesTyped' /\ HandlesTyped'
      BY <1>0, <1>19, <2>1, VanishType DEF FailSnapshot
    <3> QED BY <1>19, <1>a, <1>b, <1>d, <3>1 DEF FailSnapshot
  <2>2. CASE req[w].op # "close"
    <3>1. PlacesTyped'
      BY <1>0, <1>19, <2>2, LeaveType DEF FailSnapshot
    <3> QED BY <1>19, <1>a, <1>b, <1>c, <1>d, <2>2, <3>1 DEF FailSnapshot
  <2> QED BY <2>1, <2>2
<1>20. CASE Close(w)
  <2>1. PlacesTyped' /\ HandlesTyped'
    BY <1>0, <1>20, VanishType DEF Close
  <2>2. FilesTyped'
    BY <1>20, <1>b, EndRefresh DEF Close, TypeInv
  <2> QED BY <1>20, <1>a, <1>d, <2>1, <2>2 DEF Close
<1>21. CASE CloseLong(w)
  BY <1>21, RequestType, EnterType DEF CloseLong, TypeInv
<1>22. CASE Crash(w)
  <2>1. PlacesTyped' /\ HandlesTyped'
    BY <1>0, <1>22, VanishType DEF Crash
  <2> QED BY <1>22, <1>a, <1>b, <1>d, <2>1 DEF Crash
<1> QED
  BY <1>1, <1>2, <1>3, <1>4, <1>5, <1>6, <1>7, <1>8, <1>9, <1>10, <1>11, <1>12,
     <1>13, <1>14, <1>15, <1>16, <1>17, <1>18, <1>19, <1>20, <1>21, <1>22 DEF Step

\* Only a commit waits, and only a commit reaches the places of an append.
LEMMA CommitPlacesStep ==
  ASSUME TypeInv, NEW w \in Writers, Step(w)
  PROVE  CommitPlaces'
<1> SUFFICES ASSUME NEW u \in Writers, pc'[u] \in {"waiting", "appending", "written"}
             PROVE  req'[u].op = "commit"
  BY DEF CommitPlaces
<1>1. pc \in [Writers -> {"closed", "idle", "waiting", "faulted"} \cup Holding]
  BY DEF TypeInv, TypeOK
<1>2. req \in [Writers -> Request]
  BY DEF TypeInv, TypeOK
<1>3. pc[u] \in {"waiting", "appending", "written"} => req[u].op = "commit"
  BY DEF TypeInv, CommitPlaces
<1>4. CASE u = w /\ Ask(w)
  BY <1>1, <1>2, <1>4 DEF Ask
<1>5. CASE u = w /\ (StartAppend(w) \/ FinishAppend(w))
  BY <1>1, <1>2, <1>3, <1>5 DEF StartAppend, FinishAppend
<1>6. CASE u = w /\ (Open(w) \/ Withdraw(w) \/ Acquire(w) \/ AcquireFaults(w)
                     \/ Release(w) \/ Repeat(w) \/ Refuse(w) \/ CloseLong(w))
  BY <1>1, <1>6
  DEF Open, Withdraw, Acquire, Enter, AcquireFaults, Release, Repeat, Refuse,
      CloseLong, Leave, Vanish
<1>7. CASE u = w /\ (SyncAppend(w) \/ FailAppend(w) \/ PublishSegment(w)
                     \/ ResetActive(w) \/ SyncReset(w) \/ StageGeneration(w)
                     \/ CompleteGeneration(w) \/ RetireGenerations(w)
                     \/ FailSnapshot(w) \/ Close(w) \/ Crash(w))
  BY <1>1, <1>7
  DEF SyncAppend, FailAppend, PublishSegment, ResetActive, SyncReset,
      StageGeneration, CompleteGeneration, RetireGenerations, FailSnapshot,
      Close, Crash, Leave, Vanish
<1>8. CASE u # w
  <2>1. pc'[u] = pc[u] /\ req'[u] = req[u]
    <3>1. CASE Open(w) \/ Ask(w) \/ Withdraw(w) \/ Acquire(w) \/ AcquireFaults(w)
               \/ Release(w) \/ Repeat(w) \/ Refuse(w) \/ StartAppend(w)
               \/ FinishAppend(w) \/ CloseLong(w)
      BY <1>1, <1>2, <1>8, <3>1
      DEF Open, Ask, Withdraw, Acquire, Enter, AcquireFaults, Release, Repeat,
          Refuse, StartAppend, FinishAppend, CloseLong, Leave, Vanish
    <3>2. CASE SyncAppend(w) \/ FailAppend(w) \/ PublishSegment(w)
               \/ ResetActive(w) \/ SyncReset(w) \/ StageGeneration(w)
               \/ CompleteGeneration(w) \/ RetireGenerations(w)
               \/ FailSnapshot(w) \/ Close(w) \/ Crash(w)
      BY <1>1, <1>2, <1>8, <3>2
      DEF SyncAppend, FailAppend, PublishSegment, ResetActive, SyncReset,
          StageGeneration, CompleteGeneration, RetireGenerations, FailSnapshot,
          Close, Crash, Leave, Vanish
    <3> QED BY <3>1, <3>2 DEF Step
  <2> QED BY <1>3, <2>1
<1> QED BY <1>4, <1>5, <1>6, <1>7, <1>8 DEF Step

LEMMA OneBefore ==
  ASSUME NEW n \in Nat, n # 0
  PROVE  \E m \in Nat : m = n - 1
OBVIOUS

\* The segments without the last one.
LEMMA WithoutLast ==
  ASSUME NEW all \in Seq(Seq(Frame)), all # <<>>, NEW rest, rest = SubSeq(all, 1, Len(all) - 1)
  PROVE  /\ rest \in Seq(Seq(Frame)) /\ Len(all) \in 1 .. Len(all) /\ Len(rest) = Len(all) - 1
         /\ \A n \in 1 .. Len(rest) : rest[n] = all[n]
<1>1. Len(all) \in Nat /\ Len(all) # 0
  OBVIOUS
<1>2. PICK n \in Nat : n = Len(all) - 1
  BY <1>1, OneBefore, Zenon
<1>3. rest = SubSeq(all, 1, n) /\ n \in 0 .. Len(all)
  BY <1>1, <1>2
<1> QED BY <1>1, <1>2, <1>3

\* A power loss leaves all the segments or all but the last ...
LEMMA SegmentsLeft ==
  ASSUME sealed \in Seq(Seq(Frame)), LosePower
  PROVE  /\ sealed' \in Seq(Seq(Frame))
         /\ \/ sealed' = sealed
            \/ /\ SegmentGoes /\ Len(sealed) \in 1 .. Len(sealed) /\ Len(sealed') = Len(sealed) - 1
               /\ \A n \in 1 .. Len(sealed') : sealed'[n] = sealed[n]
<1>1. CASE sealed' = sealed
  BY <1>1
<1>2. CASE SegmentGoes
  <2>1. PICK rest : rest = sealed' /\ sealed # <<>> /\ rest = SubSeq(sealed, 1, Len(sealed) - 1)
    BY <1>2 DEF SegmentGoes, Front
  <2>2. /\ rest \in Seq(Seq(Frame)) /\ Len(sealed) \in 1 .. Len(sealed) /\ Len(rest) = Len(sealed) - 1
        /\ \A n \in 1 .. Len(rest) : rest[n] = sealed[n]
    BY <2>1, WithoutLast
  <2> QED BY <1>2, <2>1, <2>2
<1> QED BY <1>1, <1>2 DEF LosePower

\* ... and no generation that was not there.
LEMMA GensLeft ==
  ASSUME LosePower
  PROVE  gens' \subseteq gens /\ (~InterruptLaterRotations => Complete' = Complete \/ Complete' = {})
<1>1. gens' = gens \/ gens' = Complete \/ gens' = {} \/ (InterruptLaterRotations /\ gens' \subseteq gens)
  BY DEF LosePower, GenerationsGo
<1> QED BY <1>1 DEF Complete

\* A power loss keeps the types.
LEMMA TypePowerLoss ==
  ASSUME TypeInv, LosePower
  PROVE  TypeInv'
<1>1. PICK s \in Survivors : active' = s.frames /\ stable' = s.frames /\ torn' = s.torn
  BY DEF LosePower
<1>2. s.frames \in Seq(Frame) /\ s.torn \in BOOLEAN
  <2>1. active \in Seq(Frame) /\ stable \in Seq(Frame)
    BY DEF TypeInv, TypeOK
  <2>2. \A n \in 0 .. Len(active) : SubSeq(active, 1, n) \in Seq(Frame)
    BY <2>1
  <2> DEFINE kept == {SubSeq(active, 1, n) : n \in 0 .. Len(active)}
  <2>3. \E f \in kept \cup {stable} : \E t \in BOOLEAN : s = [frames |-> f, torn |-> t]
    BY DEF Survivors
  <2> QED BY <2>1, <2>2, <2>3
<1>3. <<>> \in Chain
  BY DEF Chain
<1>4. sealed' \in Seq(Seq(Frame)) /\ gens' \subseteq [head : Chain, complete : BOOLEAN]
  BY SegmentsLeft, GensLeft DEF TypeInv, TypeOK
<1>5. TypeOK'
  BY <1>1, <1>2, <1>3, <1>4, RequestType DEF LosePower, TypeInv, TypeOK
<1>6. CommitPlaces'
  BY DEF LosePower, CommitPlaces
<1> QED BY <1>5, <1>6 DEF TypeInv

\* So does a stuttering step.
LEMMA TypeUnchanged ==
  ASSUME TypeInv, UNCHANGED vars
  PROVE  TypeInv'
  BY DEF TypeInv, TypeOK, CommitPlaces, vars

\* Whoever moves, a writer or the power, the types are kept.
LEMMA TypeInductive == TypeInv /\ [Next \/ LosePower]_vars => TypeInv'
<1> SUFFICES ASSUME TypeInv, [Next \/ LosePower]_vars PROVE TypeInv'
  OBVIOUS
<1>1. ASSUME NEW w \in Writers, Step(w) PROVE TypeInv'
  BY <1>1, TypeStep, CommitPlacesStep DEF TypeInv
<1> QED BY <1>1, TypePowerLoss, TypeUnchanged DEF Next

\* Every reachable state is well typed: whatever processes crash, files are
\* cut and journals replayed, no handle is left with a view of other shape.
THEOREM TypeCorrect == Spec => []TypeOK
<1>1. Init => TypeInv
  BY TypeInit
<1>2. TypeInv /\ [Next]_vars => TypeInv'
  BY TypeInductive
<1>3. TypeInv => TypeOK
  BY DEF TypeInv
<1> QED BY <1>1, <1>2, <1>3, PTL DEF Spec

\* The same on a machine that may lose power and restart its processes on
\* what survived of the active file.
THEOREM TypeCorrectUnderPowerLoss == PowerSpec => []TypeOK
<1>1. Init => TypeInv
  BY TypeInit
<1>2. TypeInv /\ [Next \/ LosePower]_vars => TypeInv'
  BY TypeInductive
<1>3. TypeInv => TypeOK
  BY DEF TypeInv
<1> QED BY <1>1, <1>2, <1>3, PTL DEF PowerSpec

------------------------------------------------------------------------------
(* What the files hold, when no rotation is interrupted while a generation   *)
(* exists.                                                                   *)

\* The head that the active segment continues.
From == SealedHead(Len(sealed))

\* The active segment goes on from there, or repeats the last sealed one.
Plain == Chained(active, From)
Duplicate == sealed # <<>> /\ active # <<>> /\ active = sealed[Len(sealed)] /\ ~torn

\* What a frame commits to is a past of what the later ones commit to.
Ascending(frames) ==
  \A i, j \in 1 .. Len(frames) : i <= j => IsPrefix(Id(frames[i]), Id(frames[j]))

GoodFiles ==
  /\ SealedChained
  /\ KeyOnce(From) /\ KeyOnce(Tip)
  /\ Plain \/ Duplicate
  /\ Ascending(active)

\* No generation is ahead of the sealed segments, and outside a rotation the newest
\* complete one is where they end.
GoodGens ==
  /\ \A g \in gens : /\ Len(g.head) <= Len(From)
                     /\ Len(g.head) = Len(From) => g.head = From
  /\ Complete # {} /\ (\A w \in Writers : pc[w] \notin Rotating) => \E g \in Complete : g.head = From

OneHolder(w) == pc[w] \in Holding <=> lock = w

Lives(w) == pc[w] \notin {"closed", "faulted"}

\* A handle that knows all sealed segments has a past of the active one.
Knows(w) ==
  Lives(w) =>
    /\ segs[w] <= Len(sealed)
    /\ segs[w] = Len(sealed) =>
         /\ Plain /\ end[w] <= Len(active)
         /\ head[w] = IF end[w] = 0 THEN From ELSE Id(active[end[w]])

\* What the holder of the lock finds between two writes of its own.
AtPlace(w) ==
  /\ pc[w] \in {"holding", "appending"} => segs[w] = Len(sealed) /\ end[w] = Len(active)
  /\ pc[w] = "holding" => ~torn
  /\ pc[w] = "appending" => ~Committed(head[w], req[w].batch.key)
  /\ pc[w] = "written" =>
       /\ segs[w] = Len(sealed) /\ active # <<>> /\ end[w] = Len(active) - 1
       /\ Id(active[Len(active)]) = Append(head[w], req[w].batch)
  /\ pc[w] = "published" => Duplicate /\ head[w] = Tip
  /\ pc[w] = "reset" => active = <<>> /\ head[w] = Tip
  /\ pc[w] \in {"settled", "staging", "complete"} => active = <<>> /\ segs[w] = Len(sealed) /\ end[w] = 0

GoodHandle(w) == OneHolder(w) /\ Knows(w) /\ AtPlace(w)

Core == TypeInv /\ GoodFiles /\ GoodGens /\ \A w \in Writers : GoodHandle(w)

------------------------------------------------------------------------------
(* Prefixes *)

LEMMA PastIsPrefix ==
  ASSUME NEW chain \in Chain, NEW n \in 0 .. Len(chain)
  PROVE  IsPrefix(SubSeq(chain, 1, n), chain)
BY DEF IsPrefix, Chain

LEMMA PrefixGrows ==
  ASSUME NEW chain \in Chain, NEW batch \in Batches, NEW past \in Chain, IsPrefix(past, chain)
  PROVE  IsPrefix(past, Append(chain, batch))
BY DEF IsPrefix, Chain

LEMMA PrefixItself ==
  ASSUME NEW chain \in Chain
  PROVE  IsPrefix(chain, chain)
BY DEF IsPrefix, Chain

\* A prefix agrees with the chain as far as it goes.
LEMMA PrefixAgrees ==
  ASSUME NEW past \in Chain, NEW chain \in Chain
  PROVE  IsPrefix(past, chain) <=> Len(past) <= Len(chain) /\ \A i \in 1 .. Len(past) : past[i] = chain[i]
BY DEF IsPrefix, Chain

LEMMA PrefixOfPrefix ==
  ASSUME NEW past \in Chain, NEW chain \in Chain, NEW longer \in Chain,
         IsPrefix(past, chain), IsPrefix(chain, longer)
  PROVE  IsPrefix(past, longer)
<1>1. Len(past) \in Nat /\ Len(chain) \in Nat /\ Len(longer) \in Nat
  BY DEF Chain
<1>2. \A i \in 1 .. Len(past) : past[i] = longer[i]
  BY <1>1, PrefixAgrees
<1> QED BY <1>1, <1>2, PrefixAgrees DEF IsPrefix

------------------------------------------------------------------------------
(* The files *)

LEMMA LastFrame ==
  ASSUME NEW frames \in Seq(Frame), frames # <<>>
  PROVE  /\ Len(frames) \in 1 .. Len(frames) /\ Last(frames) = frames[Len(frames)]
         /\ Last(frames) \in Frame
BY DEF Last

LEMMA IdLonger ==
  ASSUME NEW frame \in Frame
  PROVE  Len(Id(frame)) = Len(frame.prev) + 1 /\ Len(frame.prev) \in Nat /\ Id(frame) \in Chain
BY DEF Id, Frame, Chain

LEMMA Heads ==
  ASSUME TypeInv, GoodFiles
  PROVE  /\ FilesTyped /\ HandlesTyped /\ From \in Chain /\ Tip \in Chain /\ Len(From) \in Nat
         /\ Len(active) \in Nat /\ Len(sealed) \in Nat /\ Len(sealed) >= 0
         /\ Tip = IF active = <<>> THEN From ELSE Id(active[Len(active)])
         /\ active # <<>> => Len(active) \in 1 .. Len(active) /\ active[Len(active)] \in Frame
<1>1. FilesTyped /\ HandlesTyped
  BY TypeParts DEF TypeInv
<1>2. From \in Chain
  BY <1>1, SealedHeadType DEF From, GoodFiles
<1>3. active \in Seq(Frame) /\ sealed \in Seq(Seq(Frame))
  BY <1>1 DEF FilesTyped
<1>4. Tip = IF active = <<>> THEN From ELSE Id(active[Len(active)])
  BY <1>3, LastFrame DEF Tip, From
<1>5. active # <<>> => Len(active) \in 1 .. Len(active) /\ active[Len(active)] \in Frame
  BY <1>3, LastFrame
<1> QED BY <1>1, <1>2, <1>3, <1>4, <1>5, IdType DEF Chain

\* The last sealed segment ends at From.
LEMMA LastSealed ==
  ASSUME TypeInv, GoodFiles, sealed # <<>>
  PROVE  /\ Len(sealed) \in 1 .. Len(sealed) /\ Last(sealed) = sealed[Len(sealed)]
         /\ sealed[Len(sealed)] \in Seq(Frame) /\ sealed[Len(sealed)] # <<>>
         /\ From = Id(sealed[Len(sealed)][Len(sealed[Len(sealed)])])
         /\ SegmentName(Len(sealed)) = Len(From)
<1>1. sealed \in Seq(Seq(Frame)) /\ Len(sealed) \in 1 .. Len(sealed) /\ Len(sealed) # 0
  BY Heads DEF FilesTyped
<1>2. sealed[Len(sealed)] \in Seq(Frame) /\ sealed[Len(sealed)] # <<>>
  BY <1>1 DEF GoodFiles, SealedChained
<1>3. Last(sealed) = sealed[Len(sealed)]
  BY DEF Last
<1>4. From = Id(sealed[Len(sealed)][Len(sealed[Len(sealed)])])
  BY <1>1, <1>2, LastFrame DEF From, SealedHead
<1> QED BY <1>1, <1>2, <1>3, <1>4 DEF SegmentName, From

\* Which of the two shapes the files have can be told.
LEMMA Shapes ==
  ASSUME TypeInv, GoodFiles
  PROVE  /\ Plain => ~PendingRotation
         /\ Duplicate => PendingRotation /\ Tip = From
<1>1. active \in Seq(Frame)
  BY Heads DEF FilesTyped
<1>2. ASSUME Plain, PendingRotation PROVE FALSE
  <2>1. active # <<>> /\ sealed # <<>> /\ Len(Id(active[1])) <= SegmentName(Len(sealed))
    BY <1>2 DEF PendingRotation
  <2>2. active[1] \in Frame /\ active[1].prev = From
    BY <1>1, <1>2, <2>1 DEF Plain, Chained
  <2> QED BY <2>1, <2>2, IdLonger, LastSealed
<1>3. ASSUME Duplicate PROVE PendingRotation /\ Tip = From
  <2>1. Tip = From
    BY <1>3, Heads, LastSealed DEF Duplicate
  <2>2. Len(Id(active[1])) <= Len(Id(active[Len(active)]))
    <3>1. 1 \in 1 .. Len(active) /\ Len(active) \in 1 .. Len(active) /\ 1 <= Len(active)
      BY <1>1, <1>3, Heads DEF Duplicate
    <3> QED BY <3>1 DEF GoodFiles, Ascending, IsPrefix
  <2> QED BY <1>3, <2>1, <2>2, LastSealed, Heads DEF PendingRotation, Duplicate
<1> QED BY <1>2, <1>3

LEMMA ChainedEmpty == active = <<>> => Plain
BY DEF Plain, Chained

------------------------------------------------------------------------------
(* What an open or a refresh finds *)

\* A view at the end of the chain, with the active file as it is or reset.
Sound(view) ==
  /\ view.head = Tip
  /\ \/ Plain /\ view.active = active /\ view.stable = IF torn THEN active ELSE stable
     \/ Duplicate /\ view.active = <<>> /\ view.stable = <<>>

LEMMA ReplayActiveHere ==
  ASSUME TypeInv, GoodFiles, Plain, NEW anchor \in Nat
  PROVE  /\ ReplayActive(From, anchor) # {}
         /\ \A view \in ReplayActive(From, anchor) : Sound(view)
<1>1. HeadAfter(active, From) = Tip
  BY DEF HeadAfter, Tip, From
<1>2. ReplayActive(From, anchor) = {Recovered(Tip, anchor)}
  BY <1>1 DEF ReplayActive, Plain, GoodFiles
<1>3. /\ Recovered(Tip, anchor).head = Tip /\ Recovered(Tip, anchor).active = active
      /\ Recovered(Tip, anchor).stable = IF torn THEN active ELSE stable
  BY DEF Recovered
<1> QED BY <1>2, <1>3 DEF Sound

LEMMA FullReplayHere ==
  ASSUME TypeInv, GoodFiles
  PROVE  FullReplay # {} /\ \A view \in FullReplay : Sound(view)
<1>1. FullReplay = IF PendingRotation THEN FinishRotation ELSE ReplayActive(From, 0)
  BY DEF FullReplay, GoodFiles, From
<1>2. CASE Plain
  BY <1>1, <1>2, Shapes, ReplayActiveHere
<1>3. CASE Duplicate
  <2>1. FinishRotation = {[head |-> From, anchored |-> 0, active |-> <<>>, stable |-> <<>>]}
    <3>1. ~torn /\ active = Last(sealed)
      BY <1>3, LastSealed DEF Duplicate
    <3> QED BY <3>1 DEF FinishRotation, From
  <2>2. PICK view : view = [head |-> From, anchored |-> 0, active |-> <<>>, stable |-> <<>>]
    OBVIOUS
  <2>3. Sound(view)
    BY <1>3, <2>2, Shapes DEF Sound
  <2>4. FullReplay = {view}
    BY <1>1, <1>3, <2>1, <2>2, Shapes
  <2> QED BY <2>3, <2>4
<1> QED BY <1>2, <1>3 DEF GoodFiles

LEMMA ReplayedHere ==
  ASSUME TypeInv, GoodFiles, GoodGens, \A w \in Writers : pc[w] \notin Rotating
  PROVE  Replayed # {} /\ \A view \in Replayed : Sound(view)
<1>1. CASE Complete = {}
  BY <1>1, FullReplayHere DEF Replayed
<1>2. CASE Complete # {}
  <2>1. PICK g \in Complete : g.head = From
    BY <1>2 DEF GoodGens
  <2>2. \A h \in Complete : h.head \in Chain /\ Len(h.head) \in Nat /\ Len(h.head) <= Len(From)
                            /\ (Len(h.head) = Len(From) => h.head = From)
    BY Heads DEF Complete, GoodGens, FilesTyped, Chain
  <2>3. Newest = {From}
    <3>1. From \in Newest
      BY <2>1, <2>2 DEF Newest
    <3>2. ASSUME NEW base \in Newest PROVE base = From
      <4>1. PICK h \in Complete : base = h.head /\ \A k \in Complete : Len(k.head) <= Len(h.head)
        BY DEF Newest
      <4> QED BY <2>1, <2>2, <4>1, Heads
    <3> QED BY <3>1, <3>2
  <2>4. Replayed = ReplayFrom(From)
    BY <1>2, <2>3 DEF Replayed
  <2>5. ReplayFrom(From) = FullReplay \/ (Plain /\ ReplayFrom(From) = ReplayActive(From, Len(From)))
    BY Shapes DEF ReplayFrom, GoodFiles
  <2> QED BY <2>4, <2>5, FullReplayHere, ReplayActiveHere, Heads
<1> QED BY <1>1, <1>2

\* The frames of a segment from some offset on.
LEMMA TailOf ==
  ASSUME NEW frames \in Seq(Frame), NEW from \in Nat, from <= Len(frames)
  PROVE  /\ SubSeq(frames, from + 1, Len(frames)) \in Seq(Frame)
         /\ Len(SubSeq(frames, from + 1, Len(frames))) = Len(frames) - from
         /\ \A i \in 1 .. Len(frames) - from : SubSeq(frames, from + 1, Len(frames))[i] = frames[from + i]
<1>1. \A i \in from + 1 .. Len(frames) : frames[i] \in Frame
  OBVIOUS
<1>2. SubSeq(frames, from + 1, Len(frames)) \in Seq(Frame)
  BY <1>1
<1> QED BY <1>2

\* A handle that lives and does not hold the lock can refresh, and comes to the end.
LEMMA RefreshedHere ==
  ASSUME TypeInv, GoodFiles, GoodGens, \A u \in Writers : pc[u] \notin Rotating,
         NEW w \in Writers, Lives(w), Knows(w)
  PROVE  Refreshed(w) # {} /\ \A view \in Refreshed(w) : Sound(view)
<1> DEFINE frames == SubSeq(active, end[w] + 1, Len(active))
<1>1. CASE segs[w] # Len(sealed)
  BY <1>1, ReplayedHere DEF Refreshed
<1>2. CASE segs[w] = Len(sealed)
  <2>1. /\ Plain /\ end[w] <= Len(active) /\ end[w] \in Nat /\ Len(active) \in Nat
        /\ head[w] = IF end[w] = 0 THEN From ELSE Id(active[end[w]])
    BY <1>2, Heads DEF Knows, HandlesTyped
  <2>2. active \in Seq(Frame)
    BY Heads DEF FilesTyped
  <2>3. /\ frames \in Seq(Frame) /\ Len(frames) = Len(active) - end[w]
        /\ \A i \in 1 .. Len(frames) : frames[i] = active[end[w] + i]
    <3>1. PICK from \in Nat, all \in Seq(Frame) : from = end[w] /\ all = active /\ from <= Len(all)
      BY <2>1, <2>2
    <3>2. /\ SubSeq(all, from + 1, Len(all)) \in Seq(Frame)
          /\ Len(SubSeq(all, from + 1, Len(all))) = Len(all) - from
          /\ \A i \in 1 .. Len(all) - from : SubSeq(all, from + 1, Len(all))[i] = all[from + i]
      BY <3>1, TailOf
    <3>3. frames = SubSeq(all, from + 1, Len(all))
      BY <3>1
    <3> QED BY <3>1, <3>2, <3>3
  <2> HIDE DEF frames
  <2>4. Chained(frames, head[w])
    <3> SUFFICES ASSUME NEW i \in 1 .. Len(frames)
                 PROVE  frames[i].prev = IF i = 1 THEN head[w] ELSE Id(frames[i - 1])
      BY DEF Chained
    <3>1. end[w] + i \in 1 .. Len(active) /\ frames[i] = active[end[w] + i]
      BY <2>1, <2>3
    <3>2. frames[i].prev = IF end[w] + i = 1 THEN From ELSE Id(active[end[w] + i - 1])
      <4>1. PICK j \in 1 .. Len(active) : j = end[w] + i
        BY <3>1
      <4>2. active[j].prev = IF j = 1 THEN From ELSE Id(active[j - 1])
        BY <2>1 DEF Plain, Chained
      <4>3. frames[i] = active[j] /\ (j = 1 <=> end[w] + i = 1) /\ j - 1 = end[w] + i - 1
        <5>1. frames[i] = active[j] /\ (j = 1 <=> end[w] + i = 1)
          BY <3>1, <4>1, Zenon
        <5>2. j - 1 = end[w] + i - 1
          <6>1. PICK b \in Nat : b = end[w]
            BY <2>1
          <6>2. j = b + i
            BY <4>1, <6>1, Zenon
          <6>3. i \in Nat
            BY <2>1, <2>3
          <6> QED BY <6>1, <6>2, <6>3
        <5> QED BY <5>1, <5>2
      <4> QED BY <4>2, <4>3
    <3>3. CASE i = 1
      BY <2>1, <3>2, <3>3
    <3>4. CASE i # 1
      <4>1. i - 1 \in 1 .. Len(frames) /\ end[w] + (i - 1) = end[w] + i - 1 /\ end[w] + i # 1
        BY <2>1, <2>3, <3>4
      <4> QED BY <2>3, <3>2, <3>4, <4>1
    <3> QED BY <3>3, <3>4
  <2>5. HeadAfter(frames, head[w]) = Tip
    <3>1. CASE end[w] = Len(active)
      <4>1. frames = <<>>
        BY <2>1, <2>3, <3>1
      <4> QED BY <2>1, <3>1, <4>1, Heads DEF HeadAfter
    <3>2. CASE end[w] # Len(active)
      <4>1. frames # <<>> /\ Len(frames) \in 1 .. Len(frames) /\ active # <<>>
        BY <2>1, <2>2, <2>3, <3>2
      <4>2. Last(frames) = active[Len(active)]
        BY <2>1, <2>3, <4>1 DEF Last
      <4> QED BY <4>1, <4>2, Heads DEF HeadAfter
    <3> QED BY <3>1, <3>2
  <2>6. Refreshed(w) = {Recovered(Tip, anchored[w])}
    <3>1. KeyOnce(Tip) /\ ~(segs[w] # Len(sealed) \/ Len(active) < end[w])
      BY <1>2, <2>1 DEF GoodFiles
    <3> QED BY <2>4, <2>5, <3>1 DEF Refreshed, frames
  <2>7. Sound(Recovered(Tip, anchored[w]))
    BY <2>1 DEF Sound, Recovered
  <2> QED BY <2>6, <2>7
<1> QED BY <1>1, <1>2

------------------------------------------------------------------------------
(* What a step leaves alone *)

SameDisk == /\ active' = active /\ torn' = torn /\ sealed' = sealed /\ gens' = gens

SameHandle(u) ==
  /\ pc'[u] = pc[u] /\ req'[u] = req[u] /\ head'[u] = head[u] /\ segs'[u] = segs[u] /\ end'[u] = end[u]

LEMMA SameFiles ==
  ASSUME active' = active, torn' = torn, sealed' = sealed
  PROVE  /\ From' = From /\ Tip' = Tip /\ (Plain' <=> Plain) /\ (Duplicate' <=> Duplicate)
         /\ GoodFiles => GoodFiles'
BY DEF From, Tip, Plain, Duplicate, GoodFiles, SealedHead, SealedChained

\* A step of w that leaves the files alone: the others keep all they have.
LEMMA OthersKeep ==
  ASSUME Core, NEW w \in Writers, active' = active, torn' = torn, sealed' = sealed,
         NEW u \in Writers \ {w}, SameHandle(u), lock' = lock \/ (lock = w /\ lock' = NoOne)
                                                 \/ (lock = NoOne /\ lock' = w)
  PROVE  GoodHandle(u)'
<1>1. /\ From' = From /\ Tip' = Tip /\ (Plain' <=> Plain) /\ (Duplicate' <=> Duplicate)
  BY SameFiles
<1>2. OneHolder(u) /\ Knows(u) /\ AtPlace(u)
  BY DEF Core, GoodHandle
<1>3. OneHolder(u)'
  BY <1>2, JournalAssumption DEF OneHolder, SameHandle
<1>4. Knows(u)'
  BY <1>1, <1>2 DEF Knows, Lives, SameHandle
<1>5. AtPlace(u)'
  BY <1>1, <1>2 DEF AtPlace, SameHandle
<1> QED BY <1>3, <1>4, <1>5 DEF GoodHandle

\* Who does not hold the lock has nothing to keep in its place.
LEMMA OutsideAtPlace ==
  ASSUME NEW w \in Writers, pc[w] \notin Holding
  PROVE  AtPlace(w)
BY DEF AtPlace, Holding, Rotating

\* While nobody holds the lock no handle is in a rotation.
LEMMA NobodyRotates ==
  ASSUME Core, lock = NoOne
  PROVE  \A u \in Writers : pc[u] \notin Holding /\ pc[u] \notin Rotating
<1> SUFFICES ASSUME NEW u \in Writers PROVE pc[u] \notin Holding
  BY DEF Holding
<1>1. pc[u] \in Holding <=> lock = u
  BY DEF Core, GoodHandle, OneHolder
<1> QED BY <1>1, JournalAssumption

\* When w holds the lock, takes it or gives it up, the others are outside.
LEMMA OthersOutside ==
  ASSUME Core, NEW w \in Writers, NEW u \in Writers \ {w}, lock \in {w, NoOne}, lock' \in {w, NoOne},
         SameHandle(u)
  PROVE  pc[u] \notin Holding /\ OneHolder(u)' /\ AtPlace(u)'
<1>1. pc[u] \in Holding <=> lock = u
  BY DEF Core, GoodHandle, OneHolder
<1>2. pc[u] \notin Holding /\ pc'[u] = pc[u] /\ lock' # u
  BY <1>1, JournalAssumption DEF SameHandle
<1> QED BY <1>2 DEF OneHolder, AtPlace, Holding, Rotating

\* The handles that a step of w does not name stay as they are.
LEMMA LeaveHandle ==
  ASSUME TypeInv, NEW w \in Writers, Leave(w)
  PROVE  /\ lock' = NoOne /\ lock' # w /\ pc'[w] = "idle"
         /\ \A u \in Writers \ {w} : pc'[u] = pc[u] /\ req'[u] = req[u]
<1>1. pc \in [Writers -> {"closed", "idle", "waiting", "faulted"} \cup Holding] /\ req \in [Writers -> Request]
  BY TypeParts DEF TypeInv, PlacesTyped
<1> QED BY <1>1, JournalAssumption DEF Leave

LEMMA VanishHandle ==
  ASSUME TypeInv, NEW w \in Writers, NEW place, Vanish(w, place)
  PROVE  pc'[w] = place /\ \A u \in Writers \ {w} : SameHandle(u)
<1>1. /\ pc \in [Writers -> {"closed", "idle", "waiting", "faulted"} \cup Holding]
      /\ req \in [Writers -> Request]
  BY TypeParts DEF TypeInv, PlacesTyped
<1>2. HandlesTyped
  BY TypeParts DEF TypeInv
<1> QED BY <1>1, <1>2 DEF Vanish, SameHandle, HandlesTyped

LEMMA GensKeep ==
  ASSUME GoodGens, gens' = gens, From' = From,
         Complete = {} \/ \A u \in Writers : pc[u] \notin Rotating \/ pc'[u] \in Rotating
  PROVE  GoodGens'
<1>1. Complete' = Complete
  BY DEF Complete
<1> QED BY <1>1 DEF GoodGens

\* A handle that waits or is gone has nothing of the files in its hands.
LEMMA QuietStep ==
  ASSUME Core, TypeInv', NEW w \in Writers, SameDisk,
         \A u \in Writers \ {w} : SameHandle(u),
         lock' # w, lock' = lock \/ (lock = w /\ lock' = NoOne),
         \/ pc'[w] \in {"closed", "faulted"}
         \/ /\ pc'[w] \in {"idle", "waiting"} /\ Lives(w)
            /\ head'[w] = head[w] /\ segs'[w] = segs[w] /\ end'[w] = end[w],
         pc[w] \notin Rotating \/ Complete = {}
  PROVE  Core'
<1>1. active' = active /\ torn' = torn /\ sealed' = sealed /\ gens' = gens
  BY DEF SameDisk
<1>2. From' = From /\ Tip' = Tip /\ (Plain' <=> Plain) /\ (Duplicate' <=> Duplicate) /\ GoodFiles'
  BY <1>1, SameFiles DEF Core
<1>3. \A u \in Writers \ {w} : GoodHandle(u)'
  BY <1>1, OthersKeep
<1>4. GoodHandle(w)'
  <2>1. pc'[w] \notin Holding
    BY DEF Holding, Rotating
  <2>2. Knows(w)'
    <3>1. Knows(w)
      BY DEF Core, GoodHandle
    <3> QED BY <1>1, <1>2, <3>1 DEF Knows, Lives
  <2> QED BY <2>1, <2>2 DEF GoodHandle, OneHolder, AtPlace, Holding, Rotating
<1>5. GoodGens'
  BY <1>1, <1>2, GensKeep DEF Core, SameHandle
<1> QED BY <1>2, <1>3, <1>4, <1>5 DEF Core

------------------------------------------------------------------------------
(* Where the holder stands *)

LEMMA HolderIs ==
  ASSUME Core, NEW w \in Writers, pc[w] \in Holding
  PROVE  lock = w /\ Lives(w) /\ Knows(w) /\ AtPlace(w)
<1>1. GoodHandle(w)
  BY DEF Core
<1> QED BY <1>1 DEF GoodHandle, OneHolder, Lives, Holding, Rotating

LEMMA OutsideNotHolder ==
  ASSUME Core, NEW w \in Writers, pc[w] \notin Holding
  PROVE  lock # w
BY DEF Core, GoodHandle, OneHolder

\* Whoever may append stands at the end of the chain.
LEMMA HolderHead ==
  ASSUME Core, NEW w \in Writers, pc[w] \in {"holding", "appending", "settled", "staging", "complete"}
  PROVE  head[w] = Tip /\ Plain /\ lock = w /\ (active = <<>> => head[w] = From)
<1>1. lock = w /\ Lives(w) /\ Knows(w) /\ AtPlace(w)
  BY HolderIs DEF Holding, Rotating
<1>2. segs[w] = Len(sealed) /\ end[w] = Len(active)
  BY <1>1, Heads DEF AtPlace, Core
<1>3. Plain /\ head[w] = IF end[w] = 0 THEN From ELSE Id(active[end[w]])
  BY <1>1, <1>2 DEF Knows
<1>4. active \in Seq(Frame) /\ Tip = IF active = <<>> THEN From ELSE Id(active[Len(active)])
  BY Heads DEF Core, FilesTyped
<1>5. active = <<>> <=> Len(active) = 0
  BY <1>4
<1> QED BY <1>1, <1>2, <1>3, <1>4, <1>5

------------------------------------------------------------------------------
(* The steps that leave the files alone *)

\* A rotation stops half way only while no generation is complete.
LEMMA InterruptsEarly ==
  ASSUME ~InterruptLaterRotations, NEW w \in Writers, MayInterrupt(w)
  PROVE  pc[w] \notin Rotating \/ Complete = {}
BY DEF MayInterrupt

LEMMA AskStep ==
  ASSUME Core, TypeInv', NEW w \in Writers, Ask(w) \/ Withdraw(w)
  PROVE  Core'
<1>1. /\ pc \in [Writers -> {"closed", "idle", "waiting", "faulted"} \cup Holding]
      /\ req \in [Writers -> Request]
  BY TypeParts DEF Core, TypeInv, PlacesTyped
<1>2. SameDisk /\ lock' = lock /\ acked' = acked /\ handles' = handles
  BY DEF Ask, Withdraw, disk, SameDisk
<1>3. head' = head /\ segs' = segs /\ end' = end
  BY <1>2 DEF handles
<1>4. pc[w] \in {"idle", "waiting"} /\ pc'[w] \in {"idle", "waiting"}
  BY <1>1 DEF Ask, Withdraw
<1>5. \A u \in Writers \ {w} : pc'[u] = pc[u] /\ req'[u] = req[u]
  <2>1. CASE Ask(w)
    <3>1. PICK batch \in Batches :
             req' = [req EXCEPT ![w] = [op |-> "commit", batch |-> batch, expected |-> {head[w]}]]
      BY <2>1 DEF Ask
    <3>2. pc' = [pc EXCEPT ![w] = "waiting"]
      BY <2>1 DEF Ask
    <3> QED BY <1>1, <3>1, <3>2
  <2>2. CASE Withdraw(w)
    BY <1>1, <2>2 DEF Withdraw
  <2> QED BY <2>1, <2>2
<1>6. pc[w] \notin Holding /\ pc[w] \notin Rotating /\ Lives(w) /\ lock' # w
  <2>1. pc[w] \notin Holding /\ pc[w] \notin Rotating
    BY <1>4 DEF Holding, Rotating
  <2> QED BY <1>2, <1>4, <2>1, OutsideNotHolder DEF Lives
<1>7. \A u \in Writers \ {w} : SameHandle(u)
  BY <1>3, <1>5 DEF SameHandle
<1> QED BY <1>2, <1>3, <1>4, <1>6, <1>7, QuietStep

\* A handle that faults, dies or is closed without a repair.
LEMMA VanishStep ==
  ASSUME Core, TypeInv', NEW w \in Writers, NEW place \in {"closed", "faulted"},
         Vanish(w, place), disk' = disk, acked' = acked,
         lock' = (IF lock = w THEN NoOne ELSE lock),
         pc[w] \notin Rotating \/ Complete = {}
  PROVE  Core'
<1>1. SameDisk
  BY DEF disk, SameDisk
<1>2. pc'[w] = place /\ \A u \in Writers \ {w} : SameHandle(u)
  BY VanishHandle DEF Core
<1> QED BY <1>1, <1>2, QuietStep, JournalAssumption

LEMMA LeaveStep ==
  ASSUME Core, TypeInv', NEW w \in Writers, Leave(w), disk' = disk, handles' = handles,
         pc[w] \in Holding, pc[w] \notin Rotating \/ Complete = {}
  PROVE  Core'
<1>1. SameDisk /\ head' = head /\ segs' = segs /\ end' = end
  BY DEF disk, handles, SameDisk
<1>2. /\ lock' = NoOne /\ lock' # w /\ pc'[w] = "idle"
      /\ \A u \in Writers \ {w} : pc'[u] = pc[u] /\ req'[u] = req[u]
  BY LeaveHandle DEF Core
<1>3. \A u \in Writers \ {w} : SameHandle(u)
  BY <1>1, <1>2 DEF SameHandle
<1> QED BY <1>1, <1>2, <1>3, QuietStep, HolderIs

LEMMA ReleaseStep ==
  ASSUME Core, TypeInv', NEW w \in Writers, Release(w) \/ Refuse(w) \/ Repeat(w)
  PROVE  Core'
<1>1. pc[w] \in Holding /\ pc[w] \notin Rotating
  BY DEF Release, Refuse, Repeat, Holding, Rotating
<1> QED BY <1>1, LeaveStep DEF Release, Refuse, Repeat

LEMMA FaultStep ==
  ASSUME Core, TypeInv', NEW w \in Writers, AcquireFaults(w) \/ FailAppend(w)
  PROVE  Core'
<1>1. CASE AcquireFaults(w)
  <2>1. pc[w] \notin Rotating /\ lock' = (IF lock = w THEN NoOne ELSE lock)
    BY <1>1, JournalAssumption DEF AcquireFaults, Rotating
  <2> QED BY <1>1, <2>1, VanishStep DEF AcquireFaults
<1>2. CASE FailAppend(w)
  <2>1. pc[w] \in Holding /\ pc[w] \notin Rotating
    BY <1>2 DEF FailAppend, Holding, Rotating
  <2>2. lock' = (IF lock = w THEN NoOne ELSE lock)
    BY <1>2, <2>1, HolderIs DEF FailAppend
  <2> QED BY <1>2, <2>1, <2>2, VanishStep DEF FailAppend
<1> QED BY <1>1, <1>2

LEMMA CrashStep ==
  ASSUME Core, TypeInv', ~InterruptLaterRotations, NEW w \in Writers, Crash(w)
  PROVE  Core'
<1>1. pc[w] \notin Rotating \/ Complete = {}
  BY InterruptsEarly DEF Crash
<1> QED BY <1>1, VanishStep DEF Crash

LEMMA FailSnapshotStep ==
  ASSUME Core, TypeInv', ~InterruptLaterRotations, NEW w \in Writers, FailSnapshot(w)
  PROVE  Core'
<1>1. pc[w] \in Holding /\ (pc[w] \notin Rotating \/ Complete = {})
  BY InterruptsEarly DEF FailSnapshot, Holding
<1>2. CASE req[w].op = "close"
  <2>1. lock' = (IF lock = w THEN NoOne ELSE lock)
    BY <1>1, <1>2, HolderIs DEF FailSnapshot
  <2> QED BY <1>1, <1>2, <2>1, VanishStep DEF FailSnapshot
<1>3. CASE req[w].op # "close"
  BY <1>1, <1>3, LeaveStep DEF FailSnapshot
<1> QED BY <1>2, <1>3

------------------------------------------------------------------------------
(* Opening, refreshing and closing repair the active file at a view *)

LEMMA RepairKeeps ==
  ASSUME TypeInv, TypeInv', GoodFiles, NEW view \in View, Sound(view), Repair(view)
  PROVE  /\ active' = view.active /\ sealed' = sealed /\ gens' = gens /\ ~torn'
         /\ From' = From /\ Tip' = Tip /\ Plain' /\ GoodFiles'
<1>1. active' = view.active /\ sealed' = sealed /\ gens' = gens /\ torn' = FALSE
  BY DEF Repair
<1>2. From' = From /\ (SealedChained' <=> SealedChained)
  BY <1>1 DEF From, SealedHead, SealedChained
<1>3. CASE Plain /\ view.active = active
  <2>1. active' = active
    BY <1>1, <1>3
  <2>2. Tip' = Tip /\ Plain'
    BY <1>2, <1>3, <2>1 DEF Tip, Plain, From
  <2> QED BY <1>1, <1>2, <2>1, <2>2 DEF GoodFiles
<1>4. CASE Duplicate /\ view.active = <<>>
  <2>1. active' = <<>>
    BY <1>1, <1>4
  <2>2. Tip' = From'
    BY <2>1 DEF Tip, From
  <2>3. Tip = From
    BY <1>4, Shapes
  <2>4. Plain' /\ Ascending(active')
    BY <2>1 DEF Plain, Chained, Ascending
  <2> QED BY <1>1, <1>2, <2>1, <2>2, <2>3, <2>4 DEF GoodFiles
<1> QED BY <1>3, <1>4 DEF Sound

\* The others know as much of the files as before.
LEMMA RepairKnown ==
  ASSUME TypeInv, TypeInv', GoodFiles, NEW view \in View, Sound(view), Repair(view),
         NEW u \in Writers, Knows(u), SameHandle(u)
  PROVE  Knows(u)'
<1>1. active' = view.active /\ sealed' = sealed /\ From' = From /\ Plain'
  BY RepairKeeps
<1>2. CASE Plain /\ view.active = active
  BY <1>1, <1>2 DEF Knows, Lives, SameHandle
<1>3. CASE ~Plain
  BY <1>1, <1>3 DEF Knows, Lives, SameHandle
<1> QED BY <1>2, <1>3, Shapes DEF Sound

\* A step of w that repairs the files at a view while nobody holds the lock.
LEMMA RepairStep ==
  ASSUME Core, TypeInv', NEW w \in Writers, lock = NoOne, NEW view \in View, Sound(view),
         Repair(view), \A u \in Writers \ {w} : SameHandle(u), acked' = acked,
         lock' \in {w, NoOne}, pc'[w] \notin Rotating, GoodHandle(w)'
  PROVE  Core'
<1>1. /\ gens' = gens /\ From' = From /\ Tip' = Tip /\ GoodFiles'
  BY RepairKeeps DEF Core
<1>2. GoodGens'
  BY <1>1, GensKeep, NobodyRotates DEF Core
<1>3. ASSUME NEW u \in Writers \ {w} PROVE GoodHandle(u)'
  <2>1. OneHolder(u)' /\ AtPlace(u)'
    BY OthersOutside
  <2>2. Knows(u)'
    BY RepairKnown DEF Core, GoodHandle
  <2> QED BY <2>1, <2>2 DEF GoodHandle
<1> QED BY <1>1, <1>2, <1>3 DEF Core

\* The handle that took the view stands at the end of the chain.
LEMMA TakenHandle ==
  ASSUME Core, TypeInv', NEW w \in Writers, NEW view \in View, Sound(view), TakeView(w, view),
         pc'[w] \in {"idle", "holding"}, lock' = IF pc'[w] = "holding" THEN w ELSE NoOne
  PROVE  GoodHandle(w)'
<1>1. Repair(view) /\ HandlesTyped
  BY Heads DEF TakeView, Core
<1>2. /\ active' = view.active /\ sealed' = sealed /\ ~torn' /\ Tip' = Tip /\ Plain' /\ GoodFiles'
  BY <1>1, RepairKeeps DEF Core
<1>3. head'[w] = Tip' /\ segs'[w] = Len(sealed') /\ end'[w] = Len(active')
  BY <1>1, <1>2 DEF TakeView, HandlesTyped, Sound
<1>4. /\ Len(active') \in Nat /\ Len(sealed') \in Nat /\ (active' = <<>> <=> Len(active') = 0)
      /\ Tip' = IF active' = <<>> THEN From' ELSE Id(active'[Len(active')])
  <2>1. active' \in Seq(Frame) /\ sealed' \in Seq(Seq(Frame))
    BY TypeParts DEF TypeInv, TypeOK
  <2> QED BY <2>1, LastFrame DEF Tip, From
<1>5. Knows(w)'
  BY <1>2, <1>3, <1>4 DEF Knows
<1>6. OneHolder(w)'
  BY JournalAssumption DEF OneHolder, Holding, Rotating
<1>7. AtPlace(w)'
  BY <1>2, <1>3 DEF AtPlace
<1> QED BY <1>5, <1>6, <1>7 DEF GoodHandle

LEMMA TakeOthers ==
  ASSUME TypeInv, NEW w \in Writers, NEW view, TakeView(w, view),
         \A u \in Writers \ {w} : pc'[u] = pc[u] /\ req'[u] = req[u]
  PROVE  \A u \in Writers \ {w} : SameHandle(u)
<1>1. HandlesTyped
  BY TypeParts DEF TypeInv
<1> QED BY <1>1 DEF TakeView, HandlesTyped, SameHandle

LEMMA OpenStep ==
  ASSUME Core, TypeInv', NEW w \in Writers, Open(w)
  PROVE  Core'
<1>1. lock = NoOne /\ lock' = lock /\ acked' = acked /\ req' = req /\ pc' = [pc EXCEPT ![w] = "idle"]
  BY DEF Open
<1>2. \A u \in Writers : pc[u] \notin Rotating
  BY <1>1, NobodyRotates
<1>3. PICK view \in Replayed : TakeView(w, view)
  BY DEF Open
<1>4. view \in View /\ Sound(view)
  BY <1>2, <1>3, ReplayedHere, ReplayedType, Heads DEF Core
<1>5. pc'[w] = "idle" /\ \A u \in Writers \ {w} : pc'[u] = pc[u] /\ req'[u] = req[u]
  <2>1. pc \in [Writers -> {"closed", "idle", "waiting", "faulted"} \cup Holding]
    BY TypeParts DEF Core, TypeInv, PlacesTyped
  <2> QED BY <1>1, <2>1
<1>6. \A u \in Writers \ {w} : SameHandle(u)
  BY <1>3, <1>5, TakeOthers DEF Core
<1>7. GoodHandle(w)'
  BY <1>1, <1>3, <1>4, <1>5, TakenHandle
<1>8. Repair(view) /\ pc'[w] \notin Rotating
  BY <1>3, <1>5 DEF TakeView, Rotating
<1> QED BY <1>1, <1>4, <1>6, <1>7, <1>8, RepairStep

\* What a living handle finds when it refreshes with the lock free.
LEMMA RefreshSound ==
  ASSUME Core, NEW w \in Writers, lock = NoOne, Lives(w)
  PROVE  Refreshed(w) # {} /\ Refreshed(w) \subseteq View /\ \A view \in Refreshed(w) : Sound(view)
<1>1. \A u \in Writers : pc[u] \notin Rotating
  BY NobodyRotates
<1>2. Knows(w)
  BY DEF Core, GoodHandle
<1> QED BY <1>1, <1>2, RefreshedHere, RefreshedType, Heads DEF Core

LEMMA EnterStep ==
  ASSUME Core, TypeInv', NEW w \in Writers, NEW request, Lives(w), Enter(w, request)
  PROVE  Core'
<1>1. /\ lock = NoOne /\ lock' = w /\ acked' = acked
      /\ req' = [req EXCEPT ![w] = request] /\ pc' = [pc EXCEPT ![w] = "holding"]
  BY DEF Enter
<1>2. PICK view \in Refreshed(w) : TakeView(w, view)
  BY DEF Enter
<1>3. view \in View /\ Sound(view)
  BY <1>1, <1>2, RefreshSound
<1>4. pc'[w] = "holding" /\ \A u \in Writers \ {w} : pc'[u] = pc[u] /\ req'[u] = req[u]
  <2>1. /\ pc \in [Writers -> {"closed", "idle", "waiting", "faulted"} \cup Holding]
        /\ req \in [Writers -> Request]
    BY TypeParts DEF Core, TypeInv, PlacesTyped
  <2> QED BY <1>1, <2>1
<1>5. \A u \in Writers \ {w} : SameHandle(u)
  BY <1>2, <1>4, TakeOthers DEF Core
<1>6. GoodHandle(w)'
  BY <1>1, <1>2, <1>3, <1>4, TakenHandle
<1>7. Repair(view) /\ pc'[w] \notin Rotating
  BY <1>2, <1>4 DEF TakeView, Rotating
<1> QED BY <1>1, <1>3, <1>5, <1>6, <1>7, RepairStep

LEMMA AcquireStep ==
  ASSUME Core, TypeInv', NEW w \in Writers, Acquire(w) \/ CloseLong(w)
  PROVE  Core'
<1>1. pc[w] \in {"idle", "waiting"} /\ \E request : Enter(w, request)
  BY DEF Acquire, CloseLong
<1>2. Lives(w)
  BY <1>1 DEF Lives
<1> QED BY <1>1, <1>2, EnterStep

LEMMA CloseStep ==
  ASSUME Core, TypeInv', NEW w \in Writers, Close(w)
  PROVE  Core'
<1>1. /\ pc[w] \in {"idle", "faulted"} /\ Vanish(w, "closed") /\ lock' = lock /\ acked' = acked
      /\ pc[w] \notin Holding /\ pc[w] \notin Rotating
  BY DEF Close, Holding, Rotating
<1>2. lock # w
  BY <1>1, OutsideNotHolder
<1>3. CASE disk' = disk
  BY <1>1, <1>2, <1>3, VanishStep
<1>4. CASE disk' # disk
  <2>1. lock = NoOne /\ pc[w] = "idle" /\ \E view \in Refreshed(w) : Repair(view)
    BY <1>1, <1>4 DEF Close
  <2>2. Lives(w)
    BY <2>1 DEF Lives
  <2>3. PICK view \in Refreshed(w) : Repair(view)
    BY <2>1
  <2>4. view \in View /\ Sound(view)
    BY <2>1, <2>2, <2>3, RefreshSound
  <2>5. pc'[w] = "closed" /\ \A u \in Writers \ {w} : SameHandle(u)
    BY <1>1, VanishHandle DEF Core
  <2>6. GoodHandle(w)' /\ pc'[w] \notin Rotating
    BY <1>1, <1>2, <2>5 DEF GoodHandle, OneHolder, Knows, Lives, AtPlace, Holding, Rotating
  <2> QED BY <1>1, <2>1, <2>3, <2>4, <2>5, <2>6, RepairStep
<1> QED BY <1>3, <1>4

------------------------------------------------------------------------------
(* The append *)

\* A step of the lock holder: the others stay outside, and know what they knew.
LEMMA HolderStep ==
  ASSUME Core, TypeInv', NEW w \in Writers, lock = w, lock' \in {w, NoOne},
         \A u \in Writers \ {w} : SameHandle(u) /\ Knows(u)',
         GoodHandle(w)', GoodFiles', GoodGens'
  PROVE  Core'
<1>1. ASSUME NEW u \in Writers \ {w} PROVE GoodHandle(u)'
  <2>1. OneHolder(u)' /\ AtPlace(u)'
    BY OthersOutside
  <2> QED BY <2>1 DEF GoodHandle
<1> QED BY <1>1 DEF Core

LEMMA PlaceMoves ==
  ASSUME TypeInv, NEW w \in Writers, NEW place, pc' = [pc EXCEPT ![w] = place]
  PROVE  pc'[w] = place /\ \A u \in Writers \ {w} : pc'[u] = pc[u]
<1>1. pc \in [Writers -> {"closed", "idle", "waiting", "faulted"} \cup Holding]
  BY TypeParts DEF TypeInv, PlacesTyped
<1> QED BY <1>1

LEMMA StartAppendStep ==
  ASSUME Core, TypeInv', NEW w \in Writers, StartAppend(w)
  PROVE  Core'
<1>1. /\ pc[w] = "holding" /\ ~Committed(head[w], req[w].batch.key)
      /\ active' = active /\ sealed' = sealed /\ gens' = gens /\ acked' = acked
      /\ lock' = lock /\ req' = req /\ head' = head /\ segs' = segs /\ end' = end
  BY DEF StartAppend, handles
<1>2. pc'[w] = "appending" /\ \A u \in Writers \ {w} : pc'[u] = pc[u]
  BY PlaceMoves DEF StartAppend, Core
<1>3. lock = w /\ Knows(w) /\ AtPlace(w) /\ Plain
  BY <1>1, HolderIs, HolderHead DEF Holding
<1>4. From' = From /\ Tip' = Tip /\ Plain' /\ (SealedChained' <=> SealedChained)
  BY <1>1, <1>3 DEF From, Tip, Plain, SealedHead, SealedChained
<1>5. GoodFiles'
  BY <1>1, <1>4 DEF GoodFiles, Core
<1>6. GoodGens'
  BY <1>1, <1>2, <1>4, GensKeep DEF Core, Rotating
<1>7. \A u \in Writers \ {w} : SameHandle(u) /\ Knows(u)'
  <2>1. \A u \in Writers \ {w} : Knows(u)
    BY DEF Core, GoodHandle
  <2> QED BY <1>1, <1>2, <1>3, <1>4, <2>1 DEF SameHandle, Knows, Lives
<1>8. GoodHandle(w)'
  <2>1. Knows(w)'
    BY <1>1, <1>2, <1>3, <1>4 DEF Knows, Lives
  <2>2. OneHolder(w)'
    BY <1>1, <1>2, <1>3 DEF OneHolder, Holding
  <2>3. AtPlace(w)'
    BY <1>1, <1>2, <1>3 DEF AtPlace
  <2> QED BY <2>1, <2>2, <2>3 DEF GoodHandle
<1> QED BY <1>1, <1>3, <1>5, <1>6, <1>7, <1>8, HolderStep

\* A key the chain does not have can be added to it.
LEMMA KeyAdded ==
  ASSUME NEW chain \in Chain, NEW batch \in Batches, KeyOnce(chain), ~Committed(chain, batch.key)
  PROVE  KeyOnce(Append(chain, batch))
<1> DEFINE longer == Append(chain, batch)
<1>1. Len(chain) \in Nat /\ Len(longer) = Len(chain) + 1
      /\ (\A k \in 1 .. Len(chain) : longer[k] = chain[k]) /\ longer[Len(chain) + 1] = batch
  BY DEF Chain
<1> HIDE DEF longer
<1>2. \A k \in 1 .. Len(longer) : k \in 1 .. Len(chain) \/ k = Len(chain) + 1
  BY <1>1
<1>3. SUFFICES ASSUME NEW i \in 1 .. Len(longer), NEW j \in 1 .. Len(longer), longer[i].key = longer[j].key
               PROVE  i = j
  BY DEF KeyOnce, longer
<1>4. CASE i \in 1 .. Len(chain) /\ j \in 1 .. Len(chain)
  BY <1>1, <1>3, <1>4 DEF KeyOnce
<1>5. CASE i \in 1 .. Len(chain) /\ j = Len(chain) + 1
  BY <1>1, <1>3, <1>5 DEF Committed
<1>6. CASE j \in 1 .. Len(chain) /\ i = Len(chain) + 1
  BY <1>1, <1>3, <1>6 DEF Committed
<1> QED BY <1>2, <1>4, <1>5, <1>6

\* A frame whose predecessor is the end of the frames goes on from there.
LEMMA ChainGrows ==
  ASSUME NEW frames \in Seq(Frame), NEW from, Chained(frames, from), NEW frame \in Frame,
         frame.prev = IF frames = <<>> THEN from ELSE Id(frames[Len(frames)])
  PROVE  Chained(Append(frames, frame), from)
<1> DEFINE longer == Append(frames, frame)
<1>1. Len(frames) \in Nat /\ Len(longer) = Len(frames) + 1 /\ (frames = <<>> <=> Len(frames) = 0)
      /\ (\A k \in 1 .. Len(frames) : longer[k] = frames[k]) /\ longer[Len(frames) + 1] = frame
  OBVIOUS
<1> HIDE DEF longer
<1>2. SUFFICES ASSUME NEW i \in 1 .. Len(longer)
               PROVE  longer[i].prev = IF i = 1 THEN from ELSE Id(longer[i - 1])
  BY DEF Chained, longer
<1>3. CASE i \in 1 .. Len(frames)
  <2>1. frames[i].prev = IF i = 1 THEN from ELSE Id(frames[i - 1])
    BY <1>3 DEF Chained
  <2>2. longer[i] = frames[i]
    BY <1>1, <1>3
  <2>3. i # 1 => longer[i - 1] = frames[i - 1]
    <3>1. i # 1 => i - 1 \in 1 .. Len(frames)
      BY <1>1, <1>3
    <3> QED BY <1>1, <3>1
  <2> QED BY <2>1, <2>2, <2>3
<1>4. CASE i = Len(frames) + 1
  <2>1. longer[i] = frame /\ i - 1 = Len(frames) /\ (i = 1 <=> frames = <<>>)
    BY <1>1, <1>4
  <2>2. i # 1 => longer[Len(frames)] = frames[Len(frames)]
    <3>1. i # 1 => Len(frames) \in 1 .. Len(frames)
      BY <1>1, <1>4
    <3> QED BY <1>1, <3>1
  <2> QED BY <2>1, <2>2
<1> QED BY <1>1, <1>3, <1>4

\* What the last byte of a frame does to the files.
LEMMA FrameAdded ==
  ASSUME Core, TypeInv', NEW w \in Writers, FinishAppend(w)
  PROVE  /\ active' # <<>> /\ Len(active') = Len(active) + 1 /\ Len(active) \in Nat
         /\ \A i \in 1 .. Len(active) : active'[i] = active[i]
         /\ Id(active'[Len(active')]) = Append(head[w], req[w].batch)
         /\ Tip' = Append(Tip, req[w].batch) /\ req[w].batch \in Batches
         /\ From' = From /\ Plain /\ Plain' /\ GoodFiles' /\ sealed' = sealed /\ gens' = gens
<1> DEFINE frame == [prev |-> head[w], batch |-> req[w].batch]
<1>1. /\ pc[w] = "appending" /\ active' = Append(active, frame)
      /\ sealed' = sealed /\ gens' = gens /\ torn' = FALSE
  BY DEF FinishAppend
<1>2. head[w] = Tip /\ Plain /\ AtPlace(w)
  BY <1>1, HolderIs, HolderHead DEF Holding
<1>3. active \in Seq(Frame) /\ active' \in Seq(Frame) /\ Tip \in Chain /\ From \in Chain
  BY Heads, TypeParts DEF Core, TypeInv, TypeOK, FilesTyped
<1>4. req[w].batch \in Batches
  BY <1>1, MintedType DEF Core, TypeInv, CommitPlaces
<1>5. frame \in Frame /\ frame.prev = Tip /\ Id(frame) = Append(Tip, req[w].batch)
  BY <1>2, <1>3, <1>4 DEF Frame, Id
<1> HIDE DEF frame
<1>6. /\ active' # <<>> /\ Len(active') = Len(active) + 1 /\ Len(active) \in Nat
      /\ \A i \in 1 .. Len(active) : active'[i] = active[i]
      /\ active'[Len(active')] = frame /\ Len(active') \in 1 .. Len(active')
  BY <1>1, <1>3, <1>5
<1>7. From' = From /\ (SealedChained' <=> SealedChained)
  BY <1>1 DEF From, SealedHead, SealedChained
<1>8. Tip' = Append(Tip, req[w].batch)
  BY <1>3, <1>5, <1>6, LastFrame DEF Tip
<1>9. Plain'
  <2>1. Tip = IF active = <<>> THEN From ELSE Id(active[Len(active)])
    BY Heads DEF Core
  <2>2. Chained(Append(active, frame), From)
    BY <1>2, <1>3, <1>5, <2>1, ChainGrows DEF Plain
  <2> QED BY <1>1, <1>7, <2>2 DEF Plain, Chained
<1>10. KeyOnce(From') /\ KeyOnce(Tip')
  <2>1. ~Committed(Tip, req[w].batch.key)
    BY <1>1, <1>2 DEF AtPlace
  <2>2. KeyOnce(Append(Tip, req[w].batch))
    BY <1>3, <1>4, <2>1, KeyAdded DEF Core, GoodFiles
  <2> QED BY <1>7, <1>8, <2>2 DEF Core, GoodFiles
<1>11. Ascending(active')
  <2>1. Id(frame) \in Chain /\ IsPrefix(Id(frame), Id(frame))
    BY <1>5, IdType, PrefixItself
  <2>2. ASSUME NEW i \in 1 .. Len(active) PROVE IsPrefix(Id(active[i]), Id(frame))
    <3>1. Len(active) \in 1 .. Len(active) /\ i <= Len(active) /\ Tip = Id(active[Len(active)])
      BY <1>3, Heads DEF Core
    <3>2. IsPrefix(Id(active[i]), Tip)
      BY <3>1 DEF Core, GoodFiles, Ascending
    <3>3. Id(active[i]) \in Chain
      BY <1>3, IdType
    <3> QED BY <1>3, <1>4, <1>5, <3>2, <3>3, PrefixGrows
  <2>3. \A i, j \in 1 .. Len(active) : i <= j => IsPrefix(Id(active[i]), Id(active[j]))
    BY DEF Core, GoodFiles, Ascending
  <2>4. SUFFICES ASSUME NEW i \in 1 .. Len(active'), NEW j \in 1 .. Len(active'), i <= j
                 PROVE  IsPrefix(Id(active'[i]), Id(active'[j]))
    BY DEF Ascending
  <2>5. CASE j \in 1 .. Len(active)
    <3>1. i \in 1 .. Len(active)
      BY <1>6, <2>4, <2>5
    <3> QED BY <1>6, <2>3, <2>4, <2>5, <3>1
  <2>6. CASE j = Len(active')
    <3>1. active'[j] = frame /\ (i \in 1 .. Len(active) \/ i = Len(active'))
      BY <1>6, <2>6
    <3> QED BY <1>6, <2>1, <2>2, <3>1
  <2> QED BY <1>6, <2>5, <2>6
<1>12. GoodFiles'
  <2>1. SealedChained'
    BY <1>7 DEF Core, GoodFiles
  <2> QED BY <1>9, <1>10, <1>11, <2>1 DEF GoodFiles
<1> QED BY <1>1, <1>2, <1>4, <1>5, <1>6, <1>7, <1>8, <1>9, <1>12

LEMMA FinishAppendStep ==
  ASSUME Core, TypeInv', NEW w \in Writers, FinishAppend(w)
  PROVE  Core'
<1>1. /\ pc[w] = "appending" /\ acked' = acked
      /\ lock' = lock /\ req' = req /\ head' = head /\ segs' = segs /\ end' = end
  BY DEF FinishAppend, handles
<1>2. pc'[w] = "written" /\ \A u \in Writers \ {w} : pc'[u] = pc[u]
  BY PlaceMoves DEF FinishAppend, Core
<1>3. lock = w /\ AtPlace(w)
  BY <1>1, HolderIs DEF Holding
<1>4. /\ active' # <<>> /\ Len(active') = Len(active) + 1 /\ Len(active) \in Nat
      /\ \A i \in 1 .. Len(active) : active'[i] = active[i]
      /\ Id(active'[Len(active')]) = Append(head[w], req[w].batch)
      /\ Tip' = Append(Tip, req[w].batch) /\ req[w].batch \in Batches
      /\ From' = From /\ Plain /\ Plain' /\ GoodFiles' /\ sealed' = sealed /\ gens' = gens
  BY FrameAdded
<1>5. GoodGens'
  BY <1>1, <1>2, <1>4, GensKeep DEF Core, Rotating
<1>6. ASSUME NEW u \in Writers, pc'[u] = pc[u] \/ u = w PROVE Knows(u)'
  <2>1. Knows(u) /\ (Lives(u)' => Lives(u))
    BY <1>1, <1>2, <1>6 DEF Core, GoodHandle, Lives
  <2>2. SUFFICES ASSUME Lives(u), segs[u] = Len(sealed)
                 PROVE  end[u] <= Len(active') /\ head[u] = IF end[u] = 0 THEN From ELSE Id(active'[end[u]])
    BY <1>1, <1>4, <2>1 DEF Knows
  <2>3. /\ end[u] <= Len(active) /\ end[u] \in Nat
        /\ head[u] = IF end[u] = 0 THEN From ELSE Id(active[end[u]])
    BY <2>1, <2>2, Heads DEF Knows, Core, HandlesTyped
  <2>4. end[u] # 0 => active'[end[u]] = active[end[u]]
    BY <1>4, <2>3
  <2> QED BY <1>4, <2>3, <2>4
<1>7. \A u \in Writers \ {w} : SameHandle(u) /\ Knows(u)'
  BY <1>1, <1>2, <1>6 DEF SameHandle
<1>8. GoodHandle(w)'
  <2>1. AtPlace(w)'
    BY <1>1, <1>2, <1>3, <1>4 DEF AtPlace
  <2>2. OneHolder(w)'
    BY <1>1, <1>2, <1>3 DEF OneHolder, Holding
  <2> QED BY <1>6, <2>1, <2>2 DEF GoodHandle
<1> QED BY <1>1, <1>3, <1>4, <1>5, <1>7, <1>8, HolderStep

LEMMA SyncAppendStep ==
  ASSUME Core, TypeInv', NEW w \in Writers, SyncAppend(w)
  PROVE  Core'
<1>1. /\ pc[w] = "written" /\ Leave(w) /\ Answer(w, Append(head[w], req[w].batch), TRUE)
      /\ active' = active /\ torn' = torn /\ sealed' = sealed /\ gens' = gens /\ segs' = segs
      /\ head' = [head EXCEPT ![w] = Append(@, req[w].batch)] /\ end' = [end EXCEPT ![w] = @ + 1]
  BY DEF SyncAppend
<1>2. lock = w /\ AtPlace(w) /\ Knows(w) /\ Lives(w) /\ HandlesTyped
  BY <1>1, HolderIs, Heads DEF Holding, Core
<1>3. /\ lock' = NoOne /\ lock' # w /\ pc'[w] = "idle"
      /\ \A u \in Writers \ {w} : pc'[u] = pc[u] /\ req'[u] = req[u]
  BY <1>1, LeaveHandle DEF Core
<1>4. /\ head'[w] = Append(head[w], req[w].batch) /\ end'[w] = end[w] + 1
      /\ \A u \in Writers \ {w} : head'[u] = head[u] /\ end'[u] = end[u]
  BY <1>1, <1>2 DEF HandlesTyped
<1>5. From' = From /\ Tip' = Tip /\ (Plain' <=> Plain) /\ GoodFiles'
  BY <1>1, SameFiles DEF Core
<1>6. /\ active # <<>> /\ end[w] = Len(active) - 1 /\ segs[w] = Len(sealed)
      /\ Id(active[Len(active)]) = Append(head[w], req[w].batch)
  BY <1>1, <1>2 DEF AtPlace
<1>7. Tip = Append(head[w], req[w].batch) /\ Tip \in Chain /\ Len(active) \in Nat /\ Len(active) # 0
  <2>1. active \in Seq(Frame)
    BY Heads DEF Core, FilesTyped
  <2> QED BY <1>6, <2>1, Heads DEF Core
<1>8. GoodGens'
  BY <1>1, <1>3, <1>5, GensKeep DEF Core, Rotating
<1>9. \A u \in Writers \ {w} : SameHandle(u) /\ Knows(u)'
  <2>1. \A u \in Writers : Knows(u)
    BY DEF Core, GoodHandle
  <2> QED BY <1>1, <1>3, <1>4, <1>5, <2>1 DEF SameHandle, Knows, Lives
<1>10. GoodHandle(w)'
  <2>1. end'[w] = Len(active') /\ end'[w] # 0 /\ head'[w] = Id(active'[Len(active')])
    BY <1>1, <1>4, <1>6, <1>7
  <2>2. Plain' /\ segs'[w] = Len(sealed')
    BY <1>1, <1>2, <1>5, <1>6 DEF Knows
  <2>3. Knows(w)'
    <3>1. Len(active') \in Nat /\ Len(sealed') \in Nat
      BY <1>1, Heads DEF Core
    <3> QED BY <2>1, <2>2, <3>1 DEF Knows
  <2> QED BY <1>3, <2>3 DEF GoodHandle, OneHolder, AtPlace, Holding, Rotating
<1> QED BY <1>2, <1>3, <1>5, <1>8, <1>9, <1>10, HolderStep

------------------------------------------------------------------------------
(* The rotation *)

\* The active segment of one frame or more is longer than what is sealed.
LEMMA TipBeyond ==
  ASSUME TypeInv, GoodFiles, Plain, active # <<>>
  PROVE  Len(Tip) \in Nat /\ Len(From) \in Nat /\ Len(From) < Len(Tip)
<1>1. active \in Seq(Frame) /\ Tip = Id(active[Len(active)]) /\ Len(From) \in Nat
  BY Heads DEF FilesTyped
<1>2. /\ 1 \in 1 .. Len(active) /\ Len(active) \in 1 .. Len(active)
      /\ active[1] \in Frame /\ active[Len(active)] \in Frame
  BY <1>1
<1>3. active[1].prev = From
  BY <1>2 DEF Plain, Chained
<1>4. Len(Id(active[1])) = Len(From) + 1
  BY <1>2, <1>3, IdLonger
<1>5. Len(Id(active[1])) <= Len(Tip)
  <2>1. IsPrefix(Id(active[1]), Id(active[Len(active)]))
    BY <1>2 DEF GoodFiles, Ascending
  <2> QED BY <1>1, <2>1 DEF IsPrefix
<1>6. Len(Tip) \in Nat
  BY <1>1, <1>2, IdLonger
<1> QED BY <1>1, <1>4, <1>5, <1>6

\* What the publication of the active segment does to the files.
LEMMA Published ==
  ASSUME Core, TypeInv', NEW w \in Writers, PublishSegment(w)
  PROVE  /\ sealed' = Append(sealed, active) /\ Len(sealed') = Len(sealed) + 1 /\ Len(sealed) \in Nat
         /\ active' = active /\ torn' = torn /\ gens' = gens
         /\ From' = Tip /\ Tip' = Tip /\ Duplicate' /\ GoodFiles'
         /\ Len(Tip) \in Nat /\ Len(From) \in Nat /\ Len(From) < Len(Tip)
<1>1. /\ pc[w] = "holding" /\ sealed' = Append(sealed, active) /\ end[w] > 0
      /\ active' = active /\ torn' = torn /\ gens' = gens
  BY DEF PublishSegment
<1>2. head[w] = Tip /\ Plain /\ AtPlace(w)
  BY <1>1, HolderIs, HolderHead DEF Holding
<1>3. ~torn /\ end[w] = Len(active)
  BY <1>1, <1>2 DEF AtPlace
<1>4. active \in Seq(Frame) /\ sealed \in Seq(Seq(Frame)) /\ Len(sealed) \in Nat /\ active # <<>>
  <2>1. active \in Seq(Frame) /\ sealed \in Seq(Seq(Frame))
    BY Heads DEF Core, FilesTyped
  <2> QED BY <1>1, <1>3, <2>1
<1>5. /\ Len(sealed') = Len(sealed) + 1 /\ sealed'[Len(sealed) + 1] = active /\ sealed' # <<>>
      /\ \A n \in 1 .. Len(sealed) : sealed'[n] = sealed[n]
  BY <1>1, <1>4
<1>6. Tip = Id(Last(active)) /\ Tip' = Tip
  BY <1>1, <1>4 DEF Tip
<1>7. From' = Tip
  <2>1. Len(sealed') # 0 /\ sealed'[Len(sealed')] = active
    BY <1>4, <1>5
  <2> QED BY <1>6, <2>1 DEF From, SealedHead
<1>8. \A n \in 0 .. Len(sealed) : SealedHead(n)' = SealedHead(n)
  BY <1>4, <1>5 DEF SealedHead
<1>9. SealedChained'
  <2>1. SUFFICES ASSUME NEW n \in 1 .. Len(sealed')
                 PROVE  sealed'[n] # <<>> /\ Chained(sealed'[n], SealedHead(n - 1)')
    BY DEF SealedChained, Chained
  <2>2. CASE n \in 1 .. Len(sealed)
    <3>1. n - 1 \in 0 .. Len(sealed)
      BY <1>4, <2>2
    <3>2. sealed[n] # <<>> /\ Chained(sealed[n], SealedHead(n - 1))
      BY <2>2 DEF Core, GoodFiles, SealedChained
    <3> QED BY <1>5, <1>8, <2>2, <3>1, <3>2
  <2>3. CASE n = Len(sealed) + 1
    <3>1. n - 1 = Len(sealed) /\ n - 1 \in 0 .. Len(sealed) /\ sealed'[n] = active
      BY <1>4, <1>5, <2>3
    <3>2. Chained(active, SealedHead(n - 1))
      BY <1>2, <3>1 DEF Plain, From
    <3> QED BY <1>4, <1>8, <3>1, <3>2
  <2> QED BY <1>4, <1>5, <2>2, <2>3
<1>10. Duplicate'
  <2>1. sealed'[Len(sealed')] = active' /\ active' # <<>> /\ ~torn'
    BY <1>1, <1>3, <1>4, <1>5
  <2> QED BY <1>5, <2>1 DEF Duplicate
<1>11. GoodFiles'
  BY <1>1, <1>6, <1>7, <1>9, <1>10 DEF Core, GoodFiles
<1> QED BY <1>1, <1>2, <1>4, <1>5, <1>6, <1>7, <1>10, <1>11, TipBeyond DEF Core

LEMMA PublishStep ==
  ASSUME Core, TypeInv', NEW w \in Writers, PublishSegment(w)
  PROVE  Core'
<1>1. /\ pc[w] = "holding" /\ acked' = acked /\ lock' = lock /\ req' = req
      /\ head' = head /\ segs' = segs /\ end' = end
  BY DEF PublishSegment, handles
<1>2. pc'[w] = "published" /\ \A u \in Writers \ {w} : pc'[u] = pc[u]
  BY PlaceMoves DEF PublishSegment, Core
<1>3. lock = w /\ head[w] = Tip
  BY <1>1, HolderIs, HolderHead DEF Holding
<1>4. /\ Len(sealed') = Len(sealed) + 1 /\ Len(sealed) \in Nat /\ gens' = gens
      /\ From' = Tip /\ Tip' = Tip /\ Duplicate' /\ GoodFiles'
      /\ Len(Tip) \in Nat /\ Len(From) \in Nat /\ Len(From) < Len(Tip)
  BY Published
<1>5. GoodGens'
  <2>1. \A g \in gens : Len(g.head) \in Nat /\ Len(g.head) <= Len(From)
    BY Heads DEF Core, GoodGens, FilesTyped, Chain
  <2>2. \A g \in gens' : Len(g.head) <= Len(From') /\ Len(g.head) # Len(From')
    BY <1>4, <2>1
  <2>3. pc'[w] \in Rotating
    BY <1>2 DEF Rotating
  <2> QED BY <2>2, <2>3 DEF GoodGens
<1>6. ASSUME NEW u \in Writers, pc'[u] = pc[u] \/ u = w PROVE Knows(u)'
  <2>1. Knows(u) /\ (Lives(u)' => Lives(u)) /\ segs[u] \in Nat
    BY <1>1, <1>2, <1>6, Heads DEF Core, GoodHandle, Lives, HandlesTyped
  <2> QED BY <1>1, <1>4, <2>1 DEF Knows
<1>7. \A u \in Writers \ {w} : SameHandle(u) /\ Knows(u)'
  BY <1>1, <1>2, <1>6 DEF SameHandle
<1>8. GoodHandle(w)'
  BY <1>1, <1>2, <1>3, <1>4, <1>6 DEF GoodHandle, OneHolder, AtPlace, Holding, Rotating
<1> QED BY <1>1, <1>3, <1>4, <1>5, <1>7, <1>8, HolderStep

LEMMA ResetStep ==
  ASSUME Core, TypeInv', NEW w \in Writers, ResetActive(w)
  PROVE  Core'
<1>1. /\ pc[w] = "published" /\ acked' = acked /\ lock' = lock /\ req' = req
      /\ head' = head /\ segs' = segs /\ end' = end
      /\ active' = <<>> /\ torn' = torn /\ sealed' = sealed /\ gens' = gens
  BY DEF ResetActive, handles
<1>2. pc'[w] = "reset" /\ \A u \in Writers \ {w} : pc'[u] = pc[u]
  BY PlaceMoves DEF ResetActive, Core
<1>3. lock = w /\ Duplicate /\ head[w] = Tip
  BY <1>1, HolderIs DEF Holding, Rotating, AtPlace
<1>4. Tip = From /\ ~Plain
  BY <1>3, Shapes DEF Core
<1>5. From' = From /\ Tip' = From' /\ (SealedChained' <=> SealedChained)
  BY <1>1 DEF From, Tip, SealedHead, SealedChained
<1>6. Plain' /\ GoodFiles'
  <2>1. Plain' /\ Ascending(active')
    BY <1>1 DEF Plain, Chained, Ascending
  <2> QED BY <1>1, <1>5, <2>1 DEF Core, GoodFiles
<1>7. GoodGens'
  BY <1>1, <1>2, <1>5, GensKeep DEF Core, Rotating
<1>8. ASSUME NEW u \in Writers, pc'[u] = pc[u] \/ u = w PROVE Knows(u)'
  <2>1. Knows(u) /\ (Lives(u)' => Lives(u))
    BY <1>1, <1>2, <1>8 DEF Core, GoodHandle, Lives
  <2> QED BY <1>1, <1>4, <2>1 DEF Knows
<1>9. \A u \in Writers \ {w} : SameHandle(u) /\ Knows(u)'
  BY <1>1, <1>2, <1>8 DEF SameHandle
<1>10. GoodHandle(w)'
  BY <1>1, <1>2, <1>3, <1>4, <1>5, <1>8 DEF GoodHandle, OneHolder, AtPlace, Holding, Rotating
<1> QED BY <1>1, <1>3, <1>6, <1>7, <1>9, <1>10, HolderStep

LEMMA SyncResetStep ==
  ASSUME Core, TypeInv', NEW w \in Writers, SyncReset(w)
  PROVE  Core'
<1>1. /\ pc[w] = "reset" /\ acked' = acked /\ lock' = lock /\ req' = req /\ head' = head
      /\ active' = active /\ torn' = torn /\ sealed' = sealed /\ gens' = gens
      /\ segs' = [segs EXCEPT ![w] = Len(sealed)] /\ end' = [end EXCEPT ![w] = 0]
  BY DEF SyncReset
<1>2. pc'[w] = "settled" /\ \A u \in Writers \ {w} : pc'[u] = pc[u]
  BY PlaceMoves DEF SyncReset, Core
<1>3. lock = w /\ active = <<>> /\ head[w] = Tip /\ HandlesTyped
  BY <1>1, HolderIs, Heads DEF Holding, Rotating, AtPlace, Core
<1>4. /\ segs'[w] = Len(sealed) /\ end'[w] = 0
      /\ \A u \in Writers \ {w} : segs'[u] = segs[u] /\ end'[u] = end[u]
  BY <1>1, <1>3 DEF HandlesTyped
<1>5. /\ From' = From /\ Tip' = Tip /\ (Plain' <=> Plain) /\ GoodFiles' /\ Plain /\ Tip = From
  BY <1>1, <1>3, SameFiles, ChainedEmpty DEF Core, Tip, From
<1>6. GoodGens'
  BY <1>1, <1>2, <1>5, GensKeep DEF Core, Rotating
<1>7. \A u \in Writers \ {w} : SameHandle(u) /\ Knows(u)'
  <2>1. \A u \in Writers : Knows(u)
    BY DEF Core, GoodHandle
  <2> QED BY <1>1, <1>2, <1>4, <1>5, <2>1 DEF SameHandle, Knows, Lives
<1>8. GoodHandle(w)'
  <2>1. Len(active') = 0 /\ Len(sealed') = Len(sealed) /\ Len(sealed) \in Nat
    BY <1>1, <1>3, Heads DEF Core
  <2>2. Knows(w)'
    BY <1>1, <1>3, <1>4, <1>5, <2>1 DEF Knows
  <2> QED BY <1>1, <1>2, <1>3, <1>4, <2>2 DEF GoodHandle, OneHolder, AtPlace, Holding, Rotating
<1> QED BY <1>1, <1>3, <1>5, <1>6, <1>7, <1>8, HolderStep

------------------------------------------------------------------------------
(* The generation *)

\* A step of the holder that changes only the generations and its place.
LEMMA GenerationStep ==
  ASSUME Core, TypeInv', NEW w \in Writers, active' = active, torn' = torn, sealed' = sealed,
         lock = w, lock' = lock, req' = req, head' = head, segs' = segs, end' = end, acked' = acked,
         NEW place \in {"staging", "complete"}, pc' = [pc EXCEPT ![w] = place],
         Lives(w), AtPlace(w)', GoodGens'
  PROVE  Core'
<1>1. pc'[w] = place /\ \A u \in Writers \ {w} : pc'[u] = pc[u]
  BY PlaceMoves DEF Core
<1>2. From' = From /\ Tip' = Tip /\ (Plain' <=> Plain) /\ GoodFiles'
  BY SameFiles DEF Core
<1>3. \A u \in Writers : Knows(u)'
  <2>1. \A u \in Writers : Knows(u)
    BY DEF Core, GoodHandle
  <2> QED BY <1>1, <1>2, <2>1 DEF Knows, Lives
<1>4. \A u \in Writers \ {w} : SameHandle(u) /\ Knows(u)'
  BY <1>1, <1>3 DEF SameHandle
<1>5. GoodHandle(w)'
  BY <1>1, <1>3 DEF GoodHandle, OneHolder, Holding, Rotating
<1> QED BY <1>2, <1>4, <1>5, HolderStep

LEMMA StageStep ==
  ASSUME Core, TypeInv', NEW w \in Writers, StageGeneration(w)
  PROVE  Core'
<1>1. /\ active' = active /\ torn' = torn /\ sealed' = sealed /\ acked' = acked
      /\ lock' = lock /\ req' = req /\ head' = head /\ segs' = segs /\ end' = end
      /\ pc' = [pc EXCEPT ![w] = "staging"]
      /\ gens' = {g \in gens : Len(g.head) # Len(head[w])} \cup {[head |-> head[w], complete |-> FALSE]}
      /\ pc[w] = "settled" \/ (pc[w] = "holding" /\ end[w] = 0)
  BY DEF StageGeneration, handles
<1>2. lock = w /\ Lives(w) /\ AtPlace(w) /\ (active = <<>> => head[w] = From)
  BY <1>1, HolderIs, HolderHead DEF Holding, Rotating
<1>3. active = <<>> /\ segs[w] = Len(sealed) /\ end[w] = 0
  <2>1. active \in Seq(Frame)
    BY Heads DEF Core, FilesTyped
  <2> QED BY <1>1, <1>2, <2>1 DEF AtPlace
<1>4. pc'[w] = "staging"
  BY <1>1, PlaceMoves DEF Core
<1>5. AtPlace(w)'
  BY <1>1, <1>3, <1>4 DEF AtPlace
<1>6. GoodGens'
  <2>1. From' = From /\ pc'[w] \in Rotating
    BY <1>1, <1>4, SameFiles DEF Rotating
  <2>2. PICK new : new = [head |-> From, complete |-> FALSE]
    OBVIOUS
  <2>3. new.head = From /\ \A g \in gens' : g \in gens \/ g = new
    BY <1>1, <1>2, <1>3, <2>2
  <2>4. Len(From) <= Len(From)
    BY Heads DEF Core
  <2> QED BY <2>1, <2>3, <2>4 DEF GoodGens, Core
<1> QED BY <1>1, <1>2, <1>5, <1>6, GenerationStep

LEMMA CompleteStep ==
  ASSUME Core, TypeInv', NEW w \in Writers, CompleteGeneration(w)
  PROVE  Core'
<1>1. /\ active' = active /\ torn' = torn /\ sealed' = sealed /\ acked' = acked
      /\ lock' = lock /\ req' = req /\ head' = head /\ segs' = segs /\ end' = end
      /\ pc' = [pc EXCEPT ![w] = "complete"]
      /\ gens' = {g \in gens : Len(g.head) # Len(head[w])} \cup {[head |-> head[w], complete |-> TRUE]}
      /\ pc[w] = "staging"
  BY DEF CompleteGeneration, handles
<1>2. lock = w /\ Lives(w) /\ AtPlace(w) /\ (active = <<>> => head[w] = From)
  BY <1>1, HolderIs, HolderHead DEF Holding, Rotating
<1>3. active = <<>> /\ segs[w] = Len(sealed) /\ end[w] = 0
  BY <1>1, <1>2 DEF AtPlace
<1>4. pc'[w] = "complete"
  BY <1>1, PlaceMoves DEF Core
<1>5. AtPlace(w)'
  BY <1>1, <1>3, <1>4 DEF AtPlace
<1>6. GoodGens'
  <2>1. From' = From
    BY <1>1, SameFiles
  <2>2. PICK new : new = [head |-> From, complete |-> TRUE]
    OBVIOUS
  <2>3. new.head = From /\ new.complete /\ new \in gens' /\ \A g \in gens' : g \in gens \/ g = new
    BY <1>1, <1>2, <1>3, <2>2
  <2>4. Len(From) <= Len(From)
    BY Heads DEF Core
  <2>5. new \in Complete'
    BY <2>3 DEF Complete
  <2> QED BY <2>1, <2>3, <2>4, <2>5 DEF GoodGens, Core
<1> QED BY <1>1, <1>2, <1>5, <1>6, GenerationStep

LEMMA RetireStep ==
  ASSUME Core, TypeInv', NEW w \in Writers, RetireGenerations(w)
  PROVE  Core'
<1>1. /\ active' = active /\ torn' = torn /\ sealed' = sealed /\ acked' = acked
      /\ gens' = {g \in gens : Len(g.head) = Len(head[w])} /\ pc[w] = "complete"
  BY DEF RetireGenerations
<1>2. lock = w /\ Lives(w) /\ Knows(w) /\ AtPlace(w) /\ (active = <<>> => head[w] = From)
  BY <1>1, HolderIs, HolderHead DEF Holding, Rotating
<1>3. head[w] = From
  BY <1>1, <1>2 DEF AtPlace
<1>4. From' = From /\ Tip' = Tip /\ (Plain' <=> Plain) /\ GoodFiles'
  BY <1>1, SameFiles DEF Core
<1>5. \/ Vanish(w, "closed") /\ lock' = NoOne
      \/ Leave(w) /\ head' = head /\ segs' = segs /\ end' = end
  BY DEF RetireGenerations
<1>6. /\ pc'[w] \in {"closed", "idle"} /\ lock' = NoOne
      /\ \A u \in Writers \ {w} : SameHandle(u)
  BY <1>5, LeaveHandle, VanishHandle DEF Core, SameHandle
<1>7. GoodGens'
  <2>1. \A u \in Writers : pc[u] \notin Rotating
    <3>1. ASSUME NEW u \in Writers \ {w} PROVE pc[u] \notin Rotating
      BY <1>2, <1>6, OthersOutside DEF Holding
    <3> QED BY <1>1, <3>1 DEF Rotating
  <2>2. ASSUME Complete' # {} PROVE \E g \in Complete' : g.head = From
    <3>1. Complete # {}
      BY <1>1, <2>2 DEF Complete
    <3>2. PICK g \in Complete : g.head = From
      BY <2>1, <3>1 DEF Core, GoodGens
    <3> QED BY <1>1, <1>3, <3>2 DEF Complete
  <2> QED BY <1>1, <1>4, <2>2 DEF GoodGens, Core
<1>8. \A u \in Writers \ {w} : Knows(u)'
  <2>1. \A u \in Writers : Knows(u)
    BY DEF Core, GoodHandle
  <2> QED BY <1>1, <1>4, <1>6, <2>1 DEF SameHandle, Knows, Lives
<1>9. GoodHandle(w)'
  <2>1. Knows(w)'
    <3>1. CASE Vanish(w, "closed")
      <4>1. pc'[w] = "closed"
        BY <3>1, VanishHandle DEF Core
      <4> QED BY <4>1 DEF Knows, Lives
    <3>2. CASE head' = head /\ segs' = segs /\ end' = end
      BY <1>1, <1>2, <1>4, <3>2 DEF Knows, Lives
    <3> QED BY <1>5, <3>1, <3>2
  <2> QED BY <1>6, <2>1, JournalAssumption DEF GoodHandle, OneHolder, AtPlace, Holding, Rotating
<1> QED BY <1>2, <1>4, <1>6, <1>7, <1>8, <1>9, HolderStep

------------------------------------------------------------------------------
(* The files keep the chain *)

LEMMA CoreInit == Init => Core
<1> SUFFICES ASSUME Init PROVE Core
  OBVIOUS
<1>1. TypeInv
  BY TypeInit
<1>2. From = <<>> /\ Tip = <<>> /\ Plain
  BY DEF Init, From, Tip, Plain, Chained, SealedHead
<1>3. GoodFiles
  BY <1>2 DEF Init, GoodFiles, SealedChained, KeyOnce, Ascending
<1>4. GoodGens
  BY DEF Init, GoodGens, Complete
<1>5. ASSUME NEW w \in Writers PROVE GoodHandle(w)
  <2>1. pc[w] = "closed" /\ lock # w
    BY JournalAssumption DEF Init
  <2> QED BY <2>1 DEF GoodHandle, OneHolder, Knows, Lives, AtPlace, Holding, Rotating
<1> QED BY <1>1, <1>3, <1>4, <1>5 DEF Core

LEMMA CoreStep ==
  ASSUME ~InterruptLaterRotations, Core, TypeInv', NEW w \in Writers, Step(w)
  PROVE  Core'
<1>1. CASE Ask(w) \/ Withdraw(w)
  BY <1>1, AskStep
<1>2. CASE Open(w)
  BY <1>2, OpenStep
<1>3. CASE Acquire(w) \/ CloseLong(w)
  BY <1>3, AcquireStep
<1>4. CASE AcquireFaults(w) \/ FailAppend(w)
  BY <1>4, FaultStep
<1>5. CASE Release(w) \/ Refuse(w) \/ Repeat(w)
  BY <1>5, ReleaseStep
<1>6. CASE StartAppend(w)
  BY <1>6, StartAppendStep
<1>7. CASE FinishAppend(w)
  BY <1>7, FinishAppendStep
<1>8. CASE SyncAppend(w)
  BY <1>8, SyncAppendStep
<1>9. CASE PublishSegment(w)
  BY <1>9, PublishStep
<1>10. CASE ResetActive(w)
  BY <1>10, ResetStep
<1>11. CASE SyncReset(w)
  BY <1>11, SyncResetStep
<1>12. CASE StageGeneration(w)
  BY <1>12, StageStep
<1>13. CASE CompleteGeneration(w)
  BY <1>13, CompleteStep
<1>14. CASE RetireGenerations(w)
  BY <1>14, RetireStep
<1>15. CASE FailSnapshot(w)
  BY <1>15, FailSnapshotStep
<1>16. CASE Close(w)
  BY <1>16, CloseStep
<1>17. CASE Crash(w)
  BY <1>17, CrashStep
<1> QED BY <1>1, <1>2, <1>3, <1>4, <1>5, <1>6, <1>7, <1>8, <1>9, <1>10, <1>11, <1>12, <1>13,
           <1>14, <1>15, <1>16, <1>17 DEF Step

LEMMA CoreUnchanged == Core /\ TypeInv' /\ UNCHANGED vars => Core'
<1> SUFFICES ASSUME Core, TypeInv', UNCHANGED vars PROVE Core'
  OBVIOUS
<1>1. /\ active' = active /\ torn' = torn /\ sealed' = sealed /\ gens' = gens /\ lock' = lock
      /\ pc' = pc /\ req' = req /\ head' = head /\ segs' = segs /\ end' = end
  BY DEF vars
<1>2. /\ From' = From /\ Tip' = Tip /\ (Plain' <=> Plain) /\ (Duplicate' <=> Duplicate) /\ GoodFiles'
  BY <1>1, SameFiles DEF Core
<1>3. GoodGens'
  BY <1>1, <1>2, GensKeep DEF Core
<1>4. ASSUME NEW u \in Writers PROVE GoodHandle(u)'
  <2>1. OneHolder(u) /\ Knows(u) /\ AtPlace(u)
    BY DEF Core, GoodHandle
  <2>2. OneHolder(u)' /\ Knows(u)'
    BY <1>1, <1>2, <2>1 DEF OneHolder, Knows, Lives
  <2>3. AtPlace(u)'
    BY <1>1, <1>2, <2>1 DEF AtPlace
  <2> QED BY <2>2, <2>3 DEF GoodHandle
<1> QED BY <1>2, <1>3, <1>4 DEF Core

\* Who holds the lock is at the end of the chain, but for the frame it writes.
LEMMA CoreHolder == Core => HolderAtTip
<1> SUFFICES ASSUME Core, NEW w \in Writers, pc[w] \in Holding \ {"written"} PROVE head[w] = Tip
  BY DEF HolderAtTip
<1>1. CASE pc[w] \in {"published", "reset"}
  BY <1>1, HolderIs DEF AtPlace
<1>2. CASE pc[w] \in {"holding", "appending", "settled", "staging", "complete"}
  BY <1>2, HolderHead
<1> QED BY <1>1, <1>2 DEF Holding, Rotating

LEMMA CoreChain == Core => OneChain
<1> SUFFICES ASSUME Core PROVE OneChain
  OBVIOUS
<1>1. TypeOK /\ SealedChained /\ KeyOnce(Tip) /\ HolderAtTip
  BY CoreHolder DEF Core, TypeInv, GoodFiles
<1>2. IF PendingRotation THEN active = Last(sealed) ELSE Chained(active, SealedHead(Len(sealed)))
  <2>1. CASE Plain
    BY <2>1, Shapes DEF Core, Plain, From
  <2>2. CASE Duplicate
    BY <2>2, Shapes, LastSealed DEF Core, Duplicate
  <2> QED BY <2>1, <2>2 DEF Core, GoodFiles
<1> QED BY <1>1, <1>2 DEF OneChain

LEMMA CoreOpens == Core => AlwaysOpens
BY NobodyRotates, ReplayedHere DEF AlwaysOpens, Core

------------------------------------------------------------------------------
(* How the chain moves, and what clients are told of it *)

\* An open, a refresh or a close leaves the files alone or repairs them at a view.
LEMMA RepairsAtView ==
  ASSUME Core, NEW w \in Writers, Open(w) \/ Acquire(w) \/ CloseLong(w) \/ Close(w)
  PROVE  disk' = disk \/ \E view \in View : Sound(view) /\ Repair(view)
<1>1. CASE Open(w)
  <2>1. PICK view \in Replayed : Repair(view)
    BY <1>1 DEF Open, TakeView
  <2>2. \A u \in Writers : pc[u] \notin Rotating
    BY <1>1, NobodyRotates DEF Open
  <2>3. view \in View /\ Sound(view)
    BY <2>1, <2>2, ReplayedHere, ReplayedType, Heads DEF Core
  <2> QED BY <2>1, <2>3
<1>2. CASE Acquire(w) \/ CloseLong(w)
  <2>1. pc[w] \in {"idle", "waiting"} /\ lock = NoOne /\ \E view \in Refreshed(w) : Repair(view)
    BY <1>2 DEF Acquire, CloseLong, Enter, TakeView
  <2> QED BY <2>1, RefreshSound DEF Lives
<1>3. CASE Close(w) /\ disk' # disk
  <2>1. pc[w] = "idle" /\ lock = NoOne /\ \E view \in Refreshed(w) : Repair(view)
    BY <1>3 DEF Close
  <2> QED BY <2>1, RefreshSound DEF Lives
<1> QED BY <1>1, <1>2, <1>3

\* Only the last byte of a frame moves the end of the chain.
LEMMA TipMoves ==
  ASSUME Core, TypeInv', NEW w \in Writers, Step(w)
  PROVE  Tip' = Tip \/ FinishAppend(w)
<1>1. CASE active' = active /\ torn' = torn /\ sealed' = sealed
  BY <1>1, SameFiles
<1>2. CASE Ask(w) \/ Withdraw(w) \/ AcquireFaults(w) \/ Release(w) \/ Repeat(w) \/ Refuse(w)
           \/ SyncAppend(w) \/ FailAppend(w) \/ SyncReset(w) \/ StageGeneration(w)
           \/ CompleteGeneration(w) \/ RetireGenerations(w) \/ FailSnapshot(w) \/ Crash(w)
  <2>1. active' = active /\ torn' = torn /\ sealed' = sealed
    BY <1>2 DEF Ask, Withdraw, AcquireFaults, Release, Repeat, Refuse, SyncAppend, FailAppend, SyncReset,
                StageGeneration, CompleteGeneration, RetireGenerations, FailSnapshot, Crash, disk
  <2> QED BY <1>1, <2>1
<1>3. CASE StartAppend(w)
  BY <1>3 DEF StartAppend, Tip, SealedHead
<1>4. CASE Open(w) \/ Acquire(w) \/ CloseLong(w) \/ Close(w)
  BY <1>1, <1>4, RepairsAtView, RepairKeeps DEF Core, disk
<1>5. CASE PublishSegment(w)
  BY <1>5, Published
<1>6. CASE ResetActive(w)
  <2>1. pc[w] = "published" /\ active' = <<>> /\ sealed' = sealed
    BY <1>6 DEF ResetActive
  <2>2. Duplicate
    BY <2>1, HolderIs DEF Holding, Rotating, AtPlace
  <2> QED BY <2>1, <2>2, Shapes DEF Core, Tip, From, SealedHead
<1> QED BY <1>2, <1>3, <1>4, <1>5, <1>6 DEF Step

\* The answers of a transaction are pasts of the chain, and the chain grows.
LEMMA AnswersStep ==
  ASSUME Core, TypeInv', AnswersKept, NEW w \in Writers, Step(w)
  PROVE  AnswersKept'
<1>1. Tip \in Chain
  BY Heads DEF Core
<1>2. CASE FinishAppend(w)
  <2>1. acked' = acked
    BY <1>2 DEF FinishAppend
  <2>2. Tip' = Append(Tip, req[w].batch) /\ req[w].batch \in Batches
    BY <1>2, FrameAdded
  <2>3. SUFFICES ASSUME NEW a \in acked PROVE IsPrefix(a.id, Tip')
    BY <2>1 DEF AnswersKept
  <2>4. a \in [id : Chain, batch : Batches, minted : BOOLEAN]
    BY TypeParts DEF Core, TypeInv, AnswersTyped
  <2>5. PICK past \in Chain : past = a.id
    BY <2>4
  <2> QED BY <1>1, <2>2, <2>5, PrefixGrows DEF AnswersKept
<1>3. CASE SyncAppend(w)
  <2>1. pc[w] = "written" /\ Answer(w, Append(head[w], req[w].batch), TRUE) /\ Tip' = Tip
    <3>1. ~FinishAppend(w)
      BY <1>3 DEF FinishAppend, SyncAppend
    <3> QED BY <1>3, <3>1, TipMoves DEF SyncAppend
  <2>2. Tip = Append(head[w], req[w].batch)
    BY <2>1, HolderIs, Heads DEF Holding, AtPlace, Core
  <2>3. PICK answer : answer = [id |-> Tip, batch |-> req[w].batch, minted |-> TRUE]
    OBVIOUS
  <2>4. acked' = acked \cup {answer} /\ answer.id = Tip
    BY <2>1, <2>2, <2>3 DEF Answer
  <2>5. IsPrefix(Tip, Tip)
    BY <1>1, PrefixItself
  <2> QED BY <2>1, <2>4, <2>5 DEF AnswersKept
<1>4. CASE Repeat(w)
  <2> DEFINE key == req[w].batch.key
             id == CommitOf(head[w], key)
  <2>1. pc[w] = "holding" /\ ~FinishAppend(w)
    BY <1>4 DEF Repeat, FinishAppend
  <2>2. Tip' = Tip /\ head[w] = Tip
    BY <2>1, TipMoves, HolderHead
  <2>3. CASE acked' = acked
    BY <2>2, <2>3 DEF AnswersKept
  <2>4. CASE Answer(w, id, FALSE) /\ Committed(head[w], key)
    <3>1. id \in Chain /\ Len(id) \in 1 .. Len(Tip) /\ id = SubSeq(Tip, 1, Len(id))
      BY <1>1, <2>2, <2>4, CommitOfPast
    <3>2. PICK n \in 0 .. Len(Tip) : n = Len(id)
      BY <1>1, <3>1 DEF Chain
    <3> HIDE DEF id
    <3>3. IsPrefix(id, Tip)
      BY <1>1, <3>1, <3>2, PastIsPrefix
    <3>4. PICK answer : answer = [id |-> id, batch |-> req[w].batch, minted |-> FALSE]
      OBVIOUS
    <3>5. acked' = acked \cup {answer} /\ answer.id = id
      BY <2>4, <3>4 DEF Answer
    <3> QED BY <2>2, <3>3, <3>5 DEF AnswersKept
  <2> QED BY <1>4, <2>3, <2>4 DEF Repeat
<1>5. CASE ~FinishAppend(w) /\ ~SyncAppend(w) /\ ~Repeat(w)
  <2>1. acked' = acked
    BY <1>5 DEF Step, Open, Ask, Withdraw, Acquire, Enter, AcquireFaults, Release, Refuse, StartAppend,
         FailAppend, PublishSegment, ResetActive, SyncReset, StageGeneration,
         CompleteGeneration, RetireGenerations, FailSnapshot, Close, CloseLong, Crash
  <2>2. Tip' = Tip
    BY <1>5, TipMoves
  <2> QED BY <2>1, <2>2 DEF AnswersKept
<1> QED BY <1>2, <1>3, <1>4, <1>5

Inv == Core /\ AnswersKept

LEMMA InvInit == Init => Inv
BY CoreInit DEF Inv, Init, AnswersKept

LEMMA InvStep == ~InterruptLaterRotations /\ Inv /\ [Next]_vars => Inv'
<1> SUFFICES ASSUME ~InterruptLaterRotations, Inv, [Next]_vars PROVE Inv'
  OBVIOUS
<1>1. TypeInv'
  BY TypeInductive DEF Inv, Core
<1>2. CASE Next
  BY <1>1, <1>2, CoreStep, AnswersStep DEF Next, Inv
<1>3. CASE UNCHANGED vars
  <2>1. acked' = acked /\ active' = active /\ torn' = torn /\ sealed' = sealed
    BY <1>3 DEF vars
  <2>2. Tip' = Tip
    BY <2>1, SameFiles
  <2> QED BY <1>1, <1>3, <2>1, <2>2, CoreUnchanged DEF Inv, AnswersKept
<1> QED BY <1>2, <1>3

LEMMA InvHolds ==
  ASSUME ~InterruptLaterRotations
  PROVE  Spec => []Inv
<1>1. Init => Inv
  BY InvInit
<1>2. Inv /\ [Next]_vars => Inv'
  BY InvStep
<1> QED BY <1>1, <1>2, PTL DEF Spec

\* How long the chains are that minted answers speak of, and the longest.
Told == {0} \cup {Len(a.id) : a \in {b \in acked : b.minted}}

Longest == Kept \in Told /\ \A n \in Told : n <= Kept

LEMMA KeptIsMax == Kept = CHOOSE n \in Told : \A k \in Told : n >= k
BY DEF Kept, Told, Max

LEMMA KeptSame ==
  ASSUME Told' = Told
  PROVE  Kept' = Kept /\ (Longest => Longest')
<1>1. Kept' = CHOOSE n \in Told' : \A k \in Told' : n >= k
  BY DEF Kept, Told, Max
<1> QED BY <1>1, KeptIsMax DEF Longest

\* Every answer is a past of the chain, so none is longer.
LEMMA ToldRange ==
  ASSUME Core, AnswersKept
  PROVE  Len(Tip) \in Nat /\ \A n \in Told : n \in 0 .. Len(Tip)
<1>1. Tip \in Chain /\ Len(Tip) \in Nat
  BY Heads DEF Core, Chain
<1>2. ASSUME NEW a \in acked PROVE Len(a.id) \in 0 .. Len(Tip)
  <2>1. a \in [id : Chain, batch : Batches, minted : BOOLEAN]
    BY TypeParts DEF Core, TypeInv, AnswersTyped
  <2>2. a.id \in Chain
    BY <2>1
  <2>3. Len(a.id) \in Nat
    BY <2>2 DEF Chain
  <2>4. Len(a.id) <= Len(Tip)
    BY DEF AnswersKept, IsPrefix
  <2> QED BY <1>1, <2>3, <2>4
<1> QED BY <1>1, <1>2 DEF Told

\* The answer of a sync speaks of the whole chain.
LEMMA SyncTells ==
  ASSUME Core, TypeInv', AnswersKept, Longest, NEW w \in Writers, SyncAppend(w)
  PROVE  Longest' /\ Kept' = Len(Tip)
<1> DEFINE answer == [id |-> Append(head[w], req[w].batch), batch |-> req[w].batch, minted |-> TRUE]
<1>1. pc[w] = "written" /\ acked' = acked \cup {answer}
  BY DEF SyncAppend, Answer
<1>2. AtPlace(w) /\ active # <<>>
  BY <1>1, HolderIs DEF Holding, AtPlace
<1>3. Tip = Append(head[w], req[w].batch)
  BY <1>1, <1>2, Heads DEF Core, AtPlace
<1>4. answer.id = Tip /\ answer.minted
  BY <1>3
<1> HIDE DEF answer
<1>5. Told' = Told \cup {Len(Tip)}
  BY <1>1, <1>4 DEF Told
<1>6. Len(Tip) \in Nat /\ \A n \in Told : n \in 0 .. Len(Tip)
  BY ToldRange
<1>7. Len(Tip) \in Told' /\ \A n \in Told' : n \in Nat /\ n <= Len(Tip)
  BY <1>5, <1>6
<1>8. Kept' = CHOOSE n \in Told' : \A k \in Told' : n >= k
  BY DEF Kept, Told, Max
<1>9. Kept' \in Told' /\ \A k \in Told' : Kept' >= k
  <2>1. \E n \in Told' : \A k \in Told' : n >= k
    BY <1>6, <1>7
  <2> QED BY <1>8, <2>1
<1>10. Kept' = Len(Tip)
  BY <1>6, <1>7, <1>9
<1> QED BY <1>6, <1>7, <1>10 DEF Longest

\* No other step mints an answer.
LEMMA MintsNone ==
  ASSUME Core, NEW w \in Writers, Step(w), ~SyncAppend(w)
  PROVE  acked \subseteq acked' /\ \A a \in acked' \ acked : ~a.minted
<1>1. CASE Repeat(w) /\ acked' # acked
  <2>1. PICK answer : answer = [id |-> CommitOf(head[w], req[w].batch.key),
                                batch |-> req[w].batch, minted |-> FALSE]
    OBVIOUS
  <2>2. acked' = acked \cup {answer}
    BY <1>1, <2>1 DEF Repeat, Answer
  <2>3. ~answer.minted
    BY <2>1
  <2> QED BY <2>2, <2>3
<1>2. acked' = acked \/ Repeat(w)
  BY DEF Step, Open, Ask, Withdraw, Acquire, Enter, AcquireFaults, Release, Refuse, StartAppend,
         FinishAppend, FailAppend, PublishSegment, ResetActive, SyncReset, StageGeneration,
         CompleteGeneration, RetireGenerations, FailSnapshot, Close, CloseLong, Crash
<1> QED BY <1>1, <1>2

LEMMA ToldMoves ==
  ASSUME Core, NEW w \in Writers, Step(w), ~SyncAppend(w)
  PROVE  Told' = Told
BY MintsNone DEF Told

\* A step is the chain's: a batch goes to its end, a client is told, or
\* neither moves.
LEMMA PromiseStep ==
  ASSUME Core, TypeInv', AnswersKept, Longest, NEW w \in Writers, Step(w)
  PROVE  Longest' /\ [Promise!Next]_<<Tip, Kept>>
<1>1. Len(Tip) \in Nat /\ Kept \in 0 .. Len(Tip)
  BY ToldRange DEF Longest
<1>2. CASE FinishAppend(w)
  <2>1. ~SyncAppend(w) /\ pc[w] = "appending"
    BY <1>2 DEF FinishAppend, SyncAppend
  <2>2. Kept' = Kept /\ Longest'
    BY <2>1, ToldMoves, KeptSame
  <2>3. head[w] = Tip /\ AtPlace(w)
    BY <2>1, HolderIs, HolderHead DEF Holding
  <2>4. ~Committed(Tip, req[w].batch.key)
    BY <2>1, <2>3 DEF AtPlace
  <2>5. Tip' = Append(Tip, req[w].batch) /\ req[w].batch \in Batches
    BY <1>2, FrameAdded
  <2>6. Promise!Extend(req[w].batch)
    BY <2>2, <2>4, <2>5 DEF Promise!Extend, Committed
  <2> QED BY <2>2, <2>5, <2>6 DEF Promise!Next
<1>3. CASE SyncAppend(w)
  <2>1. Longest' /\ Kept' = Len(Tip)
    BY <1>3, SyncTells
  <2>2. Tip' = Tip
    <3>1. ~FinishAppend(w)
      BY <1>3 DEF FinishAppend, SyncAppend
    <3> QED BY <3>1, TipMoves
  <2>3. CASE Kept = Len(Tip)
    BY <2>1, <2>2, <2>3
  <2>4. CASE Kept # Len(Tip)
    <3>1. Len(Tip) \in 1 .. Len(Tip) /\ Promise!Tell(Len(Tip))
      BY <1>1, <2>1, <2>2, <2>4 DEF Promise!Tell
    <3> QED BY <2>1, <3>1 DEF Promise!Next
  <2> QED BY <2>3, <2>4
<1>4. CASE ~FinishAppend(w) /\ ~SyncAppend(w)
  <2>1. Tip' = Tip
    BY <1>4, TipMoves
  <2>2. Kept' = Kept /\ Longest'
    BY <1>4, ToldMoves, KeptSame
  <2> QED BY <2>1, <2>2
<1> QED BY <1>2, <1>3, <1>4

------------------------------------------------------------------------------
(* The loss of power *)

\* What the active segment commits to after its first n frames.
Mark(n) == IF n = 0 THEN From ELSE Id(active[n])

\* The chain up to what the last sync of the active segment covered.
Durable == IF IsPrefix(stable, active) THEN HeadAfter(stable, From) ELSE From

\* The last sync covered the first frames of the active segment or, before it was
\* reset, those that are now the last sealed segment.
GoodStable ==
  /\ \/ IsPrefix(stable, active)
     \/ Plain /\ sealed # <<>> /\ stable = sealed[Len(sealed)]
  /\ Ascending(stable)
  /\ Plain \/ stable = active

\* The answers that a sync stands behind are durable.
MintedSafe == \A a \in acked : a.minted => IsPrefix(a.id, Durable)

LEMMA Marks ==
  ASSUME TypeInv, GoodFiles, Plain, NEW n \in 0 .. Len(active), NEW m \in 0 .. n
  PROVE  Mark(m) \in Chain /\ Mark(n) \in Chain /\ IsPrefix(Mark(m), Mark(n))
<1>1. active \in Seq(Frame) /\ From \in Chain /\ n \in Nat /\ m \in Nat /\ Len(active) \in Nat
  BY Heads DEF FilesTyped
<1>2. \A k \in 0 .. Len(active) : Mark(k) \in Chain
  <2> SUFFICES ASSUME NEW k \in 0 .. Len(active) PROVE Mark(k) \in Chain
    OBVIOUS
  <2>1. k # 0 => active[k] \in Frame
    BY <1>1
  <2> QED BY <1>1, <2>1, IdType DEF Mark
<1>3. m \in 0 .. Len(active)
  BY <1>1
<1>4. CASE m = n
  BY <1>2, <1>4, PrefixItself
<1>5. CASE m # 0
  <2>1. m \in 1 .. Len(active) /\ n \in 1 .. Len(active) /\ m <= n /\ n # 0
    BY <1>1, <1>5
  <2>2. IsPrefix(Id(active[m]), Id(active[n]))
    BY <2>1 DEF GoodFiles, Ascending
  <2> QED BY <1>2, <1>3, <1>5, <2>1, <2>2 DEF Mark
<1>6. CASE m = 0 /\ n # 0
  <2>1. 1 \in 1 .. Len(active) /\ n \in 1 .. Len(active) /\ 1 <= n /\ active[1] \in Frame
    BY <1>1, <1>6
  <2>2. active[1].prev = From /\ active[1].batch \in Batches
    BY <2>1 DEF Plain, Chained, Frame
  <2>3. IsPrefix(From, Id(active[1]))
    <3>1. IsPrefix(From, From)
      BY <1>1, PrefixItself
    <3> QED BY <1>1, <2>2, <3>1, PrefixGrows DEF Id
  <2>4. IsPrefix(Id(active[1]), Id(active[n])) /\ Id(active[1]) \in Chain
    BY <2>1, IdType DEF GoodFiles, Ascending
  <2>5. Mark(m) = From /\ Mark(n) = Id(active[n])
    BY <1>6 DEF Mark
  <2> QED BY <1>1, <1>2, <1>3, <2>3, <2>4, <2>5, PrefixOfPrefix
<1> QED BY <1>2, <1>3, <1>4, <1>5, <1>6

\* The frames of a prefix of the active segment.
LEMMA PastFrames ==
  ASSUME NEW frames \in Seq(Frame), NEW past \in Seq(Frame), IsPrefix(past, frames)
  PROVE  Len(past) \in 0 .. Len(frames) /\ \A i \in 1 .. Len(past) : past[i] = frames[i]
BY DEF IsPrefix

\* What is durable is a past of the chain.
LEMMA DurablePast ==
  ASSUME TypeInv, GoodFiles, GoodStable
  PROVE  Durable \in Chain /\ Tip \in Chain /\ IsPrefix(Durable, Tip)
<1>1. /\ active \in Seq(Frame) /\ stable \in Seq(Frame) /\ Tip \in Chain /\ From \in Chain
      /\ Tip = IF active = <<>> THEN From ELSE Id(active[Len(active)])
  BY Heads DEF FilesTyped
<1>2. CASE Plain
  <2>1. Len(active) \in 0 .. Len(active) /\ Tip = Mark(Len(active))
    BY <1>1 DEF Mark
  <2>2. \E m \in 0 .. Len(active) : Durable = Mark(m)
    <3>1. CASE ~IsPrefix(stable, active)
      BY <1>1, <3>1 DEF Durable, Mark
    <3>2. CASE IsPrefix(stable, active) /\ stable = <<>>
      BY <1>1, <3>2 DEF Durable, Mark, HeadAfter
    <3>3. CASE IsPrefix(stable, active) /\ stable # <<>>
      <4>1. /\ Len(stable) \in 0 .. Len(active) /\ Len(stable) # 0 /\ Len(stable) \in 1 .. Len(stable)
            /\ stable[Len(stable)] = active[Len(stable)]
        BY <1>1, <3>3, PastFrames
      <4> QED BY <1>1, <3>3, <4>1, LastFrame DEF Durable, Mark, HeadAfter
    <3> QED BY <3>1, <3>2, <3>3
  <2> QED BY <1>2, <2>1, <2>2, Marks
<1>3. CASE ~Plain
  <2>1. stable = active /\ Tip = From /\ active # <<>>
    BY <1>3, Shapes, ChainedEmpty DEF GoodStable, GoodFiles
  <2>2. IsPrefix(stable, active)
    BY <1>1, <2>1 DEF IsPrefix
  <2>3. Durable = Tip
    BY <1>1, <2>1, <2>2, LastFrame DEF Durable, HeadAfter
  <2> QED BY <1>1, <2>3, PrefixItself
<1> QED BY <1>2, <1>3

LEMMA RepairStable ==
  ASSUME Core, TypeInv', GoodStable, NEW view \in View, Sound(view), Repair(view)
  PROVE  GoodStable' /\ Durable' \in {Durable, Tip}
<1>1. /\ active' = view.active /\ stable' = view.stable /\ sealed' = sealed /\ From' = From /\ Plain'
  BY RepairKeeps DEF Core, Repair
<1>2. active \in Seq(Frame)
  BY Heads DEF Core, FilesTyped
<1>3. CASE active' = active /\ stable' = active
  <2>1. IsPrefix(active, active)
    BY <1>2 DEF IsPrefix
  <2>2. Durable' = Tip
    BY <1>1, <1>3, <2>1 DEF Durable, HeadAfter, Tip, From
  <2> QED BY <1>1, <1>3, <2>1, <2>2 DEF GoodStable, Core, GoodFiles
<1>4. CASE active' = active /\ stable' = stable
  BY <1>1, <1>4 DEF GoodStable, Durable
<1>5. CASE Duplicate /\ active' = <<>> /\ stable' = <<>>
  <2>1. IsPrefix(stable', active')
    BY <1>5 DEF IsPrefix
  <2>2. Durable' = Tip
    BY <1>1, <1>5, <2>1, Shapes DEF Durable, HeadAfter, Core
  <2> QED BY <1>1, <1>5, <2>1, <2>2 DEF GoodStable, Ascending
<1> QED BY <1>1, <1>3, <1>4, <1>5 DEF Sound

\* Frames that continue the sealed ones do not begin with them.
LEMMA NotSealedAgain ==
  ASSUME NEW frames \in Seq(Frame), NEW old \in Seq(Frame), old # <<>>, Ascending(old),
         Chained(frames, Id(old[Len(old)]))
  PROVE  ~IsPrefix(old, frames)
<1> SUFFICES ASSUME IsPrefix(old, frames) PROVE FALSE
  OBVIOUS
<1>1. /\ 1 \in 1 .. Len(old) /\ Len(old) \in 1 .. Len(old) /\ 1 <= Len(old) /\ 1 \in 1 .. Len(frames)
      /\ frames[1] = old[1] /\ old[1] \in Frame
  BY PastFrames
<1>2. frames[1].prev = Id(old[Len(old)])
  BY <1>1 DEF Chained
<1>3. Len(Id(old[1])) <= Len(Id(old[Len(old)]))
  BY <1>1 DEF Ascending, IsPrefix
<1>4. Len(Id(old[1])) = Len(old[1].prev) + 1 /\ Len(old[1].prev) \in Nat
  BY <1>1, IdLonger
<1> QED BY <1>1, <1>2, <1>3, <1>4

\* A step syncs the whole chain or leaves what is durable.
LEMMA StableStep ==
  ASSUME Core, TypeInv', GoodStable, NEW w \in Writers, Step(w)
  PROVE  GoodStable' /\ Durable' \in {Durable, Tip}
<1>1. active \in Seq(Frame) /\ stable \in Seq(Frame) /\ active' \in Seq(Frame)
  BY Heads, TypeParts DEF Core, TypeInv, TypeOK, FilesTyped
<1>2. CASE active' = active /\ stable' = stable /\ sealed' = sealed
  <2>1. From' = From /\ (Plain' <=> Plain)
    BY <1>2 DEF From, Plain, SealedHead
  <2> QED BY <1>2, <2>1 DEF GoodStable, Durable
<1>3. CASE Ask(w) \/ Withdraw(w) \/ AcquireFaults(w) \/ Release(w) \/ Repeat(w) \/ Refuse(w)
           \/ StartAppend(w) \/ FailAppend(w) \/ StageGeneration(w)
           \/ CompleteGeneration(w) \/ RetireGenerations(w) \/ FailSnapshot(w) \/ Crash(w)
  <2>1. active' = active /\ stable' = stable /\ sealed' = sealed
    BY <1>3 DEF Ask, Withdraw, AcquireFaults, Release, Repeat, Refuse, StartAppend, FailAppend,
                StageGeneration, CompleteGeneration, RetireGenerations, FailSnapshot, Crash, disk
  <2> QED BY <1>2, <2>1
<1>4. CASE Open(w) \/ Acquire(w) \/ CloseLong(w) \/ Close(w)
  BY <1>2, <1>4, RepairsAtView, RepairStable DEF disk
<1>5. CASE FinishAppend(w)
  <2>1. /\ Len(active') = Len(active) + 1 /\ Len(active) \in Nat
        /\ (\A i \in 1 .. Len(active) : active'[i] = active[i])
        /\ From' = From /\ Plain /\ Plain' /\ sealed' = sealed /\ stable' = stable
    BY <1>5, FrameAdded DEF FinishAppend
  <2>2. CASE IsPrefix(stable, active)
    <3>1. Len(stable) \in 0 .. Len(active) /\ \A i \in 1 .. Len(stable) : stable[i] = active[i]
      BY <1>1, <2>2, PastFrames
    <3>2. IsPrefix(stable, active')
      <4>1. Len(stable) <= Len(active') /\ \A i \in 1 .. Len(stable) : stable[i] = active'[i]
        BY <2>1, <3>1
      <4> QED BY <1>1, <4>1 DEF IsPrefix
    <3> QED BY <2>1, <2>2, <3>2 DEF GoodStable, Durable
  <2>3. CASE ~IsPrefix(stable, active)
    <3>1. sealed # <<>> /\ stable = sealed[Len(sealed)] /\ Ascending(stable)
      BY <2>3 DEF GoodStable
    <3>2. stable # <<>> /\ From = Id(stable[Len(stable)])
      BY <3>1, LastSealed DEF Core
    <3>3. ~IsPrefix(stable, active')
      BY <1>1, <2>1, <3>1, <3>2, NotSealedAgain DEF Plain
    <3> QED BY <2>1, <2>3, <3>1, <3>3 DEF GoodStable, Durable
  <2> QED BY <2>2, <2>3
<1>6. CASE SyncAppend(w)
  <2>1. active' = active /\ stable' = active /\ sealed' = sealed /\ From' = From
    BY <1>6 DEF SyncAppend, From, SealedHead
  <2>2. IsPrefix(active, active)
    BY <1>1 DEF IsPrefix
  <2>3. Durable' = Tip
    BY <2>1, <2>2 DEF Durable, HeadAfter, Tip, From
  <2> QED BY <2>1, <2>2, <2>3 DEF GoodStable, Core, GoodFiles
<1>7. CASE PublishSegment(w)
  <2>1. active' = active /\ stable' = active /\ From' = Tip /\ Duplicate'
    BY <1>7, Published DEF PublishSegment
  <2>2. IsPrefix(active, active)
    BY <1>1 DEF IsPrefix
  <2>3. active # <<>> /\ Tip = Id(Last(active))
    BY <2>1 DEF Duplicate, Tip
  <2>4. Durable' = Tip
    BY <2>1, <2>2, <2>3 DEF Durable, HeadAfter
  <2> QED BY <2>1, <2>2, <2>4 DEF GoodStable, Core, GoodFiles
<1>8. CASE ResetActive(w)
  <2>1. pc[w] = "published" /\ active' = <<>> /\ stable' = stable /\ sealed' = sealed
    BY <1>8 DEF ResetActive
  <2>2. Duplicate
    BY <2>1, HolderIs DEF Holding, Rotating, AtPlace
  <2>3. stable = sealed[Len(sealed)] /\ sealed # <<>> /\ stable # <<>> /\ Tip = From
    BY <2>2, Shapes DEF GoodStable, Duplicate, Core
  <2>4. From' = From /\ Plain'
    BY <2>1 DEF From, SealedHead, Plain, Chained
  <2>5. ~IsPrefix(stable, <<>>)
    BY <1>1, <2>3 DEF IsPrefix
  <2> QED BY <2>1, <2>3, <2>4, <2>5 DEF GoodStable, Durable
<1>9. CASE SyncReset(w)
  <2>1. pc[w] = "reset" /\ active' = active /\ stable' = active /\ sealed' = sealed
    BY <1>9 DEF SyncReset
  <2>2. active = <<>>
    BY <2>1, HolderIs DEF Holding, Rotating, AtPlace
  <2>3. IsPrefix(active, active) /\ From' = From /\ Tip = From
    BY <1>1, <2>1, <2>2 DEF IsPrefix, From, Tip, SealedHead
  <2> QED BY <2>1, <2>2, <2>3 DEF GoodStable, Durable, HeadAfter, Ascending
<1> QED BY <1>3, <1>4, <1>5, <1>6, <1>7, <1>8, <1>9 DEF Step

\* What may be left of the active file: its first frames, no fewer than the last
\* sync covered, or what it held before it was reset.
LEMMA Survived ==
  ASSUME active \in Seq(Frame), NEW s \in Survivors
  PROVE  \/ /\ ~IsPrefix(stable, active)
            /\ s.frames = stable /\ ~s.torn
         \/ \E n \in 0 .. Len(active) :
              /\ s.frames = SubSeq(active, 1, n)
              /\ IsPrefix(stable, active) => Len(stable) <= n
              /\ n = Len(active) /\ ~torn => ~s.torn
<1> DEFINE kept == {SubSeq(active, 1, n) : n \in 0 .. Len(active)}
           whole == {[frames |-> f, torn |-> FALSE] : f \in kept}
           cut == {[frames |-> f, torn |-> TRUE] : f \in IF torn THEN kept ELSE kept \ {active}}
<1>1. CASE s \in whole \cup cut /\ (IsPrefix(stable, active) => Len(stable) <= Len(s.frames))
  <2>1. s.frames \in kept /\ (s.torn /\ ~torn => s.frames # active)
    BY <1>1
  <2>2. PICK n \in 0 .. Len(active) : s.frames = SubSeq(active, 1, n)
    BY <2>1
  <2>3. Len(SubSeq(active, 1, n)) = n /\ SubSeq(active, 1, Len(active)) = active
    OBVIOUS
  <2> HIDE DEF kept, whole, cut
  <2> QED BY <1>1, <2>1, <2>2, <2>3, Zenon
<1>2. CASE ~IsPrefix(stable, active) /\ s \in {[frames |-> stable, torn |-> FALSE]}
  BY <1>2
<1> QED BY <1>1, <1>2 DEF Survivors

\* A prefix of a chain with no key twice has none twice.
LEMMA PrefixKeyOnce ==
  ASSUME NEW chain \in Chain, NEW past \in Chain, IsPrefix(past, chain), KeyOnce(chain)
  PROVE  KeyOnce(past)
<1>1. Len(past) <= Len(chain) /\ \A i \in 1 .. Len(past) : past[i] = chain[i]
  BY PrefixAgrees
<1>2. Len(past) \in Nat /\ Len(chain) \in Nat
  BY DEF Chain
<1>3. \A i \in 1 .. Len(past) : i \in 1 .. Len(chain)
  BY <1>1, <1>2
<1> QED BY <1>1, <1>3 DEF KeyOnce

------------------------------------------------------------------------------
(* What readers meet: the segments, the generations, and how writers change  *)
(* the files between two reads                                               *)

\* Every sealed segment takes the chain further.
SealedAscends ==
  \A j, k \in 0 .. Len(sealed) :
    j < k => IsPrefix(SealedHead(j), SealedHead(k)) /\ Len(SealedHead(j)) < Len(SealedHead(k))

\* A generation, complete or not, is where some segment ends.
GensSealed == \A g \in gens : \E k \in 0 .. Len(sealed) : g.head = SealedHead(k)

\* What the readers rely on.
Settled == Core /\ SealedAscends /\ GensSealed

\* The ways in which a writer's step may change the segments.
FilesStay == active' = active /\ sealed' = sealed

FrameGoesOn ==
  /\ sealed' = sealed /\ Plain /\ Plain' /\ active' # <<>>
  /\ Len(active') = Len(active) + 1
  /\ \A i \in 1 .. Len(active) : active'[i] = active[i]

SegmentSealed ==
  /\ active' = active /\ sealed' = Append(sealed, active)
  /\ Plain /\ Duplicate' /\ active # <<>> /\ From' = Tip

ActiveReset == sealed' = sealed /\ Duplicate /\ active' = <<>>

\* The head after any of the sealed segments.
LEMMA SegmentHead ==
  ASSUME TypeInv, GoodFiles, NEW n \in 0 .. Len(sealed)
  PROVE  /\ SealedHead(n) \in Chain /\ Len(SealedHead(n)) \in Nat
         /\ IsPrefix(SealedHead(n), SealedHead(n))
<1>1. SealedHead(n) \in Chain
  <2>1. CASE n = 0
    BY <2>1 DEF SealedHead, Chain
  <2>2. CASE n # 0
    <3>1. n \in 1 .. Len(sealed)
      BY <2>2, Heads
    <3>2. sealed[n] \in Seq(Frame) /\ sealed[n] # <<>>
      BY <3>1, Heads DEF FilesTyped, GoodFiles, SealedChained
    <3>3. Last(sealed[n]) \in Frame
      BY <3>2, LastFrame
    <3> QED BY <2>2, <3>3, IdType DEF SealedHead
  <2> QED BY <2>1, <2>2
<1>2. ASSUME NEW chain \in Chain PROVE Len(chain) \in Nat
  BY DEF Chain
<1> QED BY <1>1, <1>2, PrefixItself

\* Earlier segments end in pasts of where the later ones end, and not there.
LEMMA SegmentPast ==
  ASSUME TypeInv, GoodFiles, SealedAscends, NEW k \in 0 .. Len(sealed), NEW j \in 0 .. k
  PROVE  /\ j \in 0 .. Len(sealed) /\ IsPrefix(SealedHead(j), SealedHead(k))
         /\ Len(SealedHead(j)) <= Len(SealedHead(k))
         /\ Len(SealedHead(j)) = Len(SealedHead(k)) => j = k
<1>1. Len(sealed) \in Nat
  BY Heads
<1>2. j \in 0 .. Len(sealed) /\ j \in Nat /\ k \in Nat
  BY <1>1
<1>3. /\ Len(SealedHead(j)) \in Nat /\ Len(SealedHead(k)) \in Nat
      /\ IsPrefix(SealedHead(k), SealedHead(k))
  BY <1>2, SegmentHead
<1>4. CASE j = k
  BY <1>2, <1>3, <1>4
<1>5. CASE j # k
  <2>1. j < k
    BY <1>2, <1>5
  <2>2. IsPrefix(SealedHead(j), SealedHead(k)) /\ Len(SealedHead(j)) < Len(SealedHead(k))
    BY <1>2, <2>1 DEF SealedAscends
  <2> QED BY <1>2, <1>3, <1>5, <2>2
<1> QED BY <1>4, <1>5

\* The last of them is where the active segment goes on.
LEMMA SegmentFrom ==
  ASSUME TypeInv, GoodFiles, SealedAscends, NEW j \in 0 .. Len(sealed)
  PROVE  /\ SealedHead(Len(sealed)) = From /\ From \in Chain /\ Len(From) \in Nat
         /\ IsPrefix(SealedHead(j), From)
         /\ Len(SealedHead(j)) <= Len(From)
         /\ Len(SealedHead(j)) = Len(From) => j = Len(sealed)
<1>1. Len(sealed) \in 0 .. Len(sealed) /\ SealedHead(Len(sealed)) = From
  BY Heads DEF From
<1> QED BY <1>1, Heads, SegmentPast

\* The end of the files is at or after where the segments end.
LEMMA FromPast ==
  ASSUME TypeInv, GoodFiles
  PROVE  From \in Chain /\ Tip \in Chain /\ IsPrefix(From, Tip)
<1>1. From \in Chain /\ Tip \in Chain /\ Len(active) \in Nat
  BY Heads
<1>2. CASE Plain
  <2>1. Len(active) \in 0 .. Len(active) /\ 0 \in 0 .. Len(active)
    BY <1>1
  <2>2. Mark(0) = From /\ Mark(Len(active)) = Tip
    <3>1. active = <<>> <=> Len(active) = 0
      BY Heads DEF FilesTyped
    <3> QED BY <3>1, Heads DEF Mark
  <2> QED BY <1>1, <1>2, <2>1, <2>2, Marks
<1>3. CASE Duplicate
  BY <1>1, <1>3, Shapes, PrefixItself
<1> QED BY <1>2, <1>3 DEF GoodFiles

\* A writer's step leaves the segments, adds a frame, seals, or resets.
LEMMA FileMoves ==
  ASSUME Core, TypeInv', NEW w \in Writers, Step(w)
  PROVE  FilesStay \/ FrameGoesOn \/ SegmentSealed \/ ActiveReset
<1>1. CASE Ask(w) \/ Withdraw(w) \/ AcquireFaults(w) \/ Release(w) \/ Repeat(w) \/ Refuse(w)
           \/ SyncAppend(w) \/ FailAppend(w) \/ SyncReset(w) \/ StageGeneration(w)
           \/ CompleteGeneration(w) \/ RetireGenerations(w) \/ FailSnapshot(w) \/ Crash(w)
  BY <1>1 DEF Ask, Withdraw, AcquireFaults, Release, Repeat, Refuse, SyncAppend, FailAppend, SyncReset,
              StageGeneration, CompleteGeneration, RetireGenerations, FailSnapshot, Crash, disk,
              FilesStay
<1>2. CASE StartAppend(w)
  BY <1>2 DEF StartAppend, FilesStay
<1>3. CASE Open(w) \/ Acquire(w) \/ CloseLong(w) \/ Close(w)
  <2>1. CASE disk' = disk
    BY <2>1 DEF disk, FilesStay
  <2>2. ASSUME NEW v \in View, Sound(v), Repair(v) PROVE FilesStay \/ ActiveReset
    BY <2>2 DEF Sound, Repair, FilesStay, ActiveReset
  <2> QED BY <1>3, <2>1, <2>2, RepairsAtView
<1>4. CASE FinishAppend(w)
  BY <1>4, FrameAdded DEF FrameGoesOn
<1>5. CASE PublishSegment(w)
  <2>1. sealed' = Append(sealed, active) /\ active' = active /\ Duplicate' /\ From' = Tip
    BY <1>5, Published
  <2>2. Plain
    BY <1>5, HolderHead DEF PublishSegment
  <2> QED BY <2>1, <2>2 DEF SegmentSealed, Duplicate
<1>6. CASE ResetActive(w)
  BY <1>6, HolderIs DEF ResetActive, Holding, Rotating, AtPlace, ActiveReset
<1> QED BY <1>1, <1>2, <1>3, <1>4, <1>5, <1>6 DEF Step

\* The head after a sealed segment is for good.
LEMMA SegmentsStay ==
  ASSUME TypeInv, GoodFiles, sealed' = sealed \/ sealed' = Append(sealed, active)
  PROVE  /\ Len(sealed) \in Nat /\ Len(sealed') \in Nat /\ Len(sealed) <= Len(sealed')
         /\ \A n \in 0 .. Len(sealed) : SealedHead(n)' = SealedHead(n)
<1>1. sealed \in Seq(Seq(Frame)) /\ active \in Seq(Frame) /\ Len(sealed) \in Nat
  BY Heads DEF FilesTyped
<1>2. CASE sealed' = sealed
  BY <1>1, <1>2 DEF SealedHead
<1>3. CASE sealed' = Append(sealed, active)
  <2>1. Len(sealed') = Len(sealed) + 1 /\ \A n \in 1 .. Len(sealed) : sealed'[n] = sealed[n]
    BY <1>1, <1>3
  <2> QED BY <1>1, <2>1 DEF SealedHead
<1> QED BY <1>2, <1>3

LEMMA SealedAscendsStep ==
  ASSUME Core, TypeInv', GoodFiles', SealedAscends, NEW w \in Writers, Step(w)
  PROVE  SealedAscends'
<1>1. CASE sealed' = sealed
  BY <1>1 DEF SealedAscends, SealedHead
<1>2. CASE SegmentSealed
  <2>1. sealed' = Append(sealed, active) /\ Plain /\ active # <<>> /\ From' = Tip
    BY <1>2 DEF SegmentSealed
  <2>2. /\ Len(sealed) \in Nat /\ Len(sealed') = Len(sealed) + 1
        /\ \A n \in 0 .. Len(sealed) : SealedHead(n)' = SealedHead(n)
    <3>1. sealed \in Seq(Seq(Frame)) /\ active \in Seq(Frame)
      BY Heads DEF Core, FilesTyped
    <3> QED BY <2>1, <3>1, SegmentsStay DEF Core
  <2>3. ASSUME NEW n, n = Len(sealed') PROVE SealedHead(n)' = Tip
    <3>1. From' = SealedHead(n)'
      BY <2>3 DEF From, SealedHead
    <3> QED BY <2>1, <3>1
  <2>4. /\ From \in Chain /\ Tip \in Chain /\ IsPrefix(From, Tip)
        /\ Len(From) \in Nat /\ Len(Tip) \in Nat /\ Len(From) < Len(Tip)
    BY <2>1, FromPast, TipBeyond DEF Core
  <2>5. SUFFICES ASSUME NEW j \in 0 .. Len(sealed'), NEW k \in 0 .. Len(sealed'), j < k
                 PROVE  /\ IsPrefix(SealedHead(j)', SealedHead(k)')
                        /\ Len(SealedHead(j)') < Len(SealedHead(k)')
    BY DEF SealedAscends
  <2>6. CASE k \in 0 .. Len(sealed)
    <3>1. j \in 0 .. Len(sealed)
      BY <2>2, <2>5, <2>6
    <3>2. IsPrefix(SealedHead(j), SealedHead(k)) /\ Len(SealedHead(j)) < Len(SealedHead(k))
      BY <2>5, <2>6, <3>1 DEF SealedAscends
    <3> QED BY <2>2, <2>6, <3>1, <3>2
  <2>7. CASE k = Len(sealed')
    <3>1. j \in 0 .. Len(sealed)
      BY <2>2, <2>5, <2>7
    <3>2. /\ SealedHead(j) \in Chain /\ Len(SealedHead(j)) \in Nat
          /\ IsPrefix(SealedHead(j), From) /\ Len(SealedHead(j)) <= Len(From)
      BY <3>1, SegmentHead, SegmentFrom DEF Core
    <3>3. IsPrefix(SealedHead(j), Tip)
      BY <2>4, <3>2, PrefixOfPrefix
    <3>4. SealedHead(k)' = Tip
      BY <2>3, <2>7
    <3>5. Len(SealedHead(j)) < Len(Tip)
      BY <2>4, <3>2
    <3> QED BY <2>2, <3>1, <3>3, <3>4, <3>5
  <2> QED BY <2>2, <2>6, <2>7
<1> QED BY <1>1, <1>2, FileMoves DEF FilesStay, FrameGoesOn, ActiveReset

\* A new generation is written where the segments end.
LEMMA GensSealedStep ==
  ASSUME Core, TypeInv', GensSealed, NEW w \in Writers, Step(w)
  PROVE  GensSealed'
<1>1. \A g \in gens' : \/ \E h \in gens : g.head = h.head
                       \/ g.head = From /\ sealed' = sealed
  <2>1. CASE StageGeneration(w) \/ CompleteGeneration(w)
    <3>1. PICK done \in BOOLEAN :
            /\ gens' = {g \in gens : Len(g.head) # Len(head[w])} \cup {[head |-> head[w], complete |-> done]}
            /\ sealed' = sealed
      BY <2>1 DEF StageGeneration, CompleteGeneration
    <3>2. pc[w] \in {"holding", "settled", "staging"}
      BY <2>1 DEF StageGeneration, CompleteGeneration
    <3>3. active = <<>>
      <4>1. AtPlace(w)
        BY <3>2, HolderIs DEF Holding, Rotating
      <4>2. CASE pc[w] \in {"settled", "staging"}
        BY <4>1, <4>2 DEF AtPlace
      <4>3. CASE pc[w] = "holding"
        <5>1. end[w] = 0 /\ end[w] = Len(active)
          BY <2>1, <4>1, <4>3 DEF StageGeneration, CompleteGeneration, AtPlace
        <5> QED BY <5>1, Heads DEF Core, FilesTyped
      <4> QED BY <3>2, <4>2, <4>3
    <3>4. head[w] = From
      BY <3>2, <3>3, HolderHead
    <3>5. PICK new : new = [head |-> head[w], complete |-> done]
      OBVIOUS
    <3>6. new.head = From
      BY <3>4, <3>5
    <3>7. gens' = {g \in gens : Len(g.head) # Len(head[w])} \cup {new}
      BY <3>1, <3>5
    <3> QED BY <3>1, <3>6, <3>7
  <2>2. CASE gens' \subseteq gens
    BY <2>2
  <2>3. CASE RetireGenerations(w)
    BY <2>2, <2>3 DEF RetireGenerations
  <2>4. CASE Ask(w) \/ Withdraw(w) \/ AcquireFaults(w) \/ Release(w) \/ Repeat(w) \/ Refuse(w)
             \/ SyncAppend(w) \/ FailAppend(w) \/ SyncReset(w) \/ FailSnapshot(w) \/ Crash(w)
    BY <2>2, <2>4 DEF Ask, Withdraw, AcquireFaults, Release, Repeat, Refuse, SyncAppend, FailAppend,
                      SyncReset, FailSnapshot, Crash, disk
  <2>5. CASE StartAppend(w) \/ FinishAppend(w) \/ PublishSegment(w) \/ ResetActive(w)
    BY <2>2, <2>5 DEF StartAppend, FinishAppend, PublishSegment, ResetActive
  <2>6. CASE Open(w) \/ Acquire(w) \/ CloseLong(w) \/ Close(w)
    BY <2>2, <2>6, RepairsAtView DEF Repair, disk
  <2> QED BY <2>1, <2>3, <2>4, <2>5, <2>6 DEF Step
<1>2. /\ Len(sealed) \in Nat /\ Len(sealed') \in Nat /\ Len(sealed) <= Len(sealed')
      /\ \A n \in 0 .. Len(sealed) : SealedHead(n)' = SealedHead(n)
  BY FileMoves, SegmentsStay DEF Core, FilesStay, FrameGoesOn, SegmentSealed, ActiveReset
<1>3. SUFFICES ASSUME NEW g \in gens' PROVE \E k \in 0 .. Len(sealed') : g.head = SealedHead(k)'
  BY DEF GensSealed
<1>4. \E k \in 0 .. Len(sealed) : g.head = SealedHead(k)
  <2>1. Len(sealed) \in 0 .. Len(sealed) /\ SealedHead(Len(sealed)) = From
    BY <1>2 DEF From
  <2> QED BY <1>1, <1>3, <2>1 DEF GensSealed
<1>5. PICK k \in 0 .. Len(sealed) : g.head = SealedHead(k)
  BY <1>4
<1>6. k \in 0 .. Len(sealed') /\ SealedHead(k)' = g.head
  BY <1>2, <1>5
<1> QED BY <1>6

\* What readers rely on holds at first, and after every step of a writer or a
\* power loss.
LEMMA SettledInit == Init => Settled
<1> SUFFICES ASSUME Init PROVE SealedAscends /\ GensSealed
  BY CoreInit DEF Settled
<1>1. sealed = <<>> /\ gens = {}
  BY DEF Init
<1>2. 0 .. Len(sealed) = {0}
  BY <1>1
<1> QED BY <1>1, <1>2 DEF SealedAscends, GensSealed

LEMMA SettledStep ==
  ASSUME ~InterruptLaterRotations, Settled, TypeInv', NEW w \in Writers, Step(w)
  PROVE  Settled'
<1>1. Core'
  BY CoreStep DEF Settled
<1> QED BY <1>1, SealedAscendsStep, GensSealedStep DEF Settled, Core

LEMMA SettledUnchanged ==
  ASSUME Settled, TypeInv', UNCHANGED vars
  PROVE  Settled'
<1>1. Core' /\ sealed' = sealed /\ gens' = gens
  BY CoreUnchanged DEF vars, Settled
<1> QED BY <1>1 DEF Settled, SealedAscends, GensSealed, SealedHead

------------------------------------------------------------------------------
(* What a power loss leaves                                                  *)

\* The files of a machine that stopped while its segments were all durable.
LEMMA PowerKeepsSegments ==
  ASSUME Core, TypeInv', GoodStable, LosePower, sealed' = sealed
  PROVE  /\ From' = From /\ GoodFiles' /\ stable' = active' /\ Ascending(active')
         /\ Durable' \in Chain /\ Tip' = Durable' /\ IsPrefix(Durable, Durable')
<1>1. PICK s \in Survivors : active' = s.frames /\ stable' = s.frames /\ torn' = s.torn
  BY DEF LosePower
<1>2. From' = From /\ (SealedChained' <=> SealedChained)
  BY DEF From, SealedHead, SealedChained
<1>3. /\ active \in Seq(Frame) /\ stable \in Seq(Frame) /\ active' \in Seq(Frame) /\ torn \in BOOLEAN
      /\ From \in Chain /\ Tip \in Chain /\ Durable \in Chain
  BY Heads, TypeParts, DurablePast DEF Core, TypeInv, TypeOK, FilesTyped
<1>4. IsPrefix(active', active') /\ Tip' = Durable'
  <2>1. IsPrefix(active', active')
    BY <1>3 DEF IsPrefix
  <2> QED BY <1>1, <2>1 DEF Durable, Tip, HeadAfter, From
<1>5. Tip' = IF active' = <<>> THEN From ELSE Id(active'[Len(active')])
  BY <1>2, <1>3, LastFrame DEF Tip, From
<1>6. CASE Plain /\ \E n \in 0 .. Len(active) :
                      /\ active' = SubSeq(active, 1, n)
                      /\ IsPrefix(stable, active) => Len(stable) <= n
  <2>1. PICK n \in 0 .. Len(active) : /\ active' = SubSeq(active, 1, n)
                                      /\ IsPrefix(stable, active) => Len(stable) <= n
    BY <1>6
  <2>2. Len(active') = n /\ \A i \in 1 .. n : active'[i] = active[i] /\ i \in 1 .. Len(active)
    BY <1>3, <2>1
  <2>3. Tip' = Mark(n)
    <3>1. active' = <<>> <=> n = 0
      BY <1>3, <2>2
    <3>2. n # 0 => n \in 1 .. n
      OBVIOUS
    <3> QED BY <1>5, <2>2, <3>1, <3>2 DEF Mark
  <2>4. Len(active) \in 0 .. Len(active) /\ Tip = Mark(Len(active)) /\ n \in 0 .. Len(active)
    BY <1>3, Heads DEF Mark, Core
  <2>5. IsPrefix(Tip', Tip) /\ Tip' \in Chain
    BY <1>6, <2>3, <2>4, Marks DEF Core
  <2>6. KeyOnce(Tip')
    BY <1>3, <2>5, PrefixKeyOnce DEF Core, GoodFiles
  <2>7. Plain'
    <3>1. SUFFICES ASSUME NEW i \in 1 .. n
                   PROVE  active'[i].prev = IF i = 1 THEN From ELSE Id(active'[i - 1])
      BY <1>2, <2>2 DEF Plain, Chained
    <3>2. active[i].prev = IF i = 1 THEN From ELSE Id(active[i - 1])
      BY <1>6, <2>2 DEF Plain, Chained
    <3>3. i # 1 => i - 1 \in 1 .. n
      OBVIOUS
    <3> QED BY <2>2, <3>2, <3>3
  <2>8. Ascending(active')
    BY <2>2 DEF Ascending, Core, GoodFiles
  <2>9. IsPrefix(Durable, Tip')
    <3>1. CASE ~IsPrefix(stable, active) \/ stable = <<>>
      <4>1. Durable = Mark(0) /\ 0 \in 0 .. n
        BY <3>1 DEF Durable, HeadAfter, Mark
      <4> QED BY <1>6, <2>3, <4>1, Marks DEF Core
    <3>2. CASE IsPrefix(stable, active) /\ stable # <<>>
      <4>1. /\ Len(stable) \in 0 .. n /\ Len(stable) # 0 /\ Len(stable) \in 1 .. Len(stable)
            /\ stable[Len(stable)] = active[Len(stable)]
        BY <1>3, <2>1, <3>2, PastFrames
      <4>2. Durable = Mark(Len(stable))
        BY <1>3, <3>2, <4>1, LastFrame DEF Durable, Mark, HeadAfter
      <4> QED BY <1>6, <2>3, <4>1, <4>2, Marks DEF Core
    <3> QED BY <3>1, <3>2
  <2> QED BY <1>1, <1>2, <1>4, <2>5, <2>6, <2>7, <2>8, <2>9 DEF GoodFiles, Core
<1>7. CASE active' = stable /\ ~torn' /\ sealed # <<>> /\ stable = sealed[Len(sealed)]
           /\ (Plain => ~IsPrefix(stable, active))
  <2>1. stable # <<>> /\ From = Id(stable[Len(stable)])
    BY <1>7, LastSealed DEF Core
  <2>2. Duplicate' /\ Tip' = From'
    BY <1>2, <1>5, <1>7, <2>1 DEF Duplicate
  <2>3. Ascending(active')
    BY <1>7 DEF GoodStable
  <2>4. IsPrefix(Durable, From)
    <3>1. CASE Plain
      <4>1. Durable = From
        BY <1>7, <3>1 DEF Durable
      <4> QED BY <1>3, <4>1, PrefixItself
    <3>2. CASE Duplicate
      BY <3>2, Shapes, DurablePast DEF Core
    <3> QED BY <3>1, <3>2 DEF Core, GoodFiles
  <2> QED BY <1>1, <1>2, <1>3, <1>4, <2>2, <2>3, <2>4 DEF GoodFiles, Core
<1>8. CASE ~Plain
  <2>1. Duplicate /\ stable = active /\ ~torn
    BY <1>8 DEF GoodStable, Core, GoodFiles, Duplicate
  <2>2. IsPrefix(stable, active)
    BY <1>3, <2>1 DEF IsPrefix
  <2>3. PICK n \in 0 .. Len(active) : /\ s.frames = SubSeq(active, 1, n) /\ Len(stable) <= n
                                      /\ n = Len(active) /\ ~torn => ~s.torn
    BY <1>3, <2>2, Survived
  <2>4. n = Len(active) /\ SubSeq(active, 1, Len(active)) = active
    BY <1>3, <2>1, <2>3
  <2>5. active' = stable /\ ~torn'
    BY <1>1, <2>1, <2>3, <2>4
  <2> QED BY <1>7, <1>8, <2>1, <2>5 DEF Duplicate
<1>9. CASE Plain
  <2>1. CASE ~IsPrefix(stable, active) /\ s.frames = stable /\ ~s.torn
    BY <1>1, <1>7, <2>1 DEF GoodStable
  <2>2. CASE \E n \in 0 .. Len(active) : /\ s.frames = SubSeq(active, 1, n)
                                         /\ IsPrefix(stable, active) => Len(stable) <= n
    BY <1>1, <1>6, <1>9, <2>2
  <2> QED BY <1>3, <2>1, <2>2, Survived
<1> QED BY <1>8, <1>9

\* A complete generation keeps the last segment, and no handle is in a rotation
\* that leaves it.
LEMMA SegmentNeeded ==
  ASSUME ~InterruptLaterRotations, Core, LosePower, SegmentGoes
  PROVE  Complete = {} /\ Complete' = {}
<1>1. \A u \in Writers : MayInterrupt(u)
  BY DEF LosePower
<1>2. Complete # {} => \A u \in Writers : pc[u] \notin Rotating
  BY <1>1, InterruptsEarly
<1>3. Complete # {} => \E g \in Complete : g.head = From
  BY <1>2 DEF Core, GoodGens
<1>4. \A g \in gens : g.head # From
  BY DEF SegmentGoes, From
<1>5. Complete = {}
  BY <1>3, <1>4 DEF Complete
<1> QED BY <1>5, GensLeft

\* The active file of a lost segment is what the segment held.
LEMMA GoneDurable ==
  ASSUME Settled, GoodStable, sealed # <<>>, stable = Last(sealed)
  PROVE  Durable = From
<1>1. /\ Len(sealed) \in 1 .. Len(sealed) /\ stable = sealed[Len(sealed)]
      /\ stable \in Seq(Frame) /\ stable # <<>> /\ From = Id(stable[Len(stable)])
  BY LastSealed DEF Settled, Core
<1>2. CASE ~IsPrefix(stable, active)
  BY <1>2 DEF Durable
<1>3. CASE IsPrefix(stable, active)
  BY <1>1, <1>3, LastFrame DEF Durable, HeadAfter
<1> QED BY <1>2, <1>3

\* The segments that stay are those before it.
LEMMA SegmentGone ==
  ASSUME Settled, TypeInv', GoodStable, LosePower, SegmentGoes
  PROVE  /\ Len(sealed) \in 1 .. Len(sealed) /\ Len(sealed') = Len(sealed) - 1
         /\ Len(sealed') \in 0 .. Len(sealed)
         /\ \A n \in 0 .. Len(sealed') : n \in 0 .. Len(sealed) /\ SealedHead(n)' = SealedHead(n)
         /\ \A n \in 0 .. Len(sealed) : n \in 0 .. Len(sealed') \/ n = Len(sealed)
         /\ SealedChained' /\ Plain' /\ active' # <<>> /\ Tip' = From /\ Durable' = From
<1>1. /\ sealed # <<>> /\ active' = Last(sealed) /\ stable' = active'
  BY DEF SegmentGoes, LosePower
<1>2. /\ Len(sealed) \in 1 .. Len(sealed) /\ Len(sealed) \in Nat /\ Len(sealed') = Len(sealed) - 1
      /\ Len(sealed') \in 0 .. Len(sealed)
      /\ \A n \in 1 .. Len(sealed') : sealed'[n] = sealed[n]
  <2>1. sealed' # sealed
    BY <1>1, Heads DEF SegmentGoes, Front, Settled, Core, FilesTyped
  <2> QED BY <1>1, <2>1, SegmentsLeft, Heads DEF Settled, Core, FilesTyped
<1>3. /\ \A n \in 0 .. Len(sealed') : n \in 0 .. Len(sealed) /\ SealedHead(n)' = SealedHead(n)
      /\ \A n \in 0 .. Len(sealed) : n \in 0 .. Len(sealed') \/ n = Len(sealed)
  BY <1>2 DEF SealedHead
<1>4. SealedChained'
  <2> SUFFICES ASSUME NEW n \in 1 .. Len(sealed')
               PROVE  sealed'[n] # <<>> /\ Chained(sealed'[n], SealedHead(n - 1)')
    BY DEF SealedChained, Chained
  <2>1. n \in 1 .. Len(sealed) /\ n - 1 \in 0 .. Len(sealed') /\ sealed'[n] = sealed[n]
    BY <1>2
  <2>2. sealed[n] # <<>> /\ Chained(sealed[n], SealedHead(n - 1))
    BY <2>1 DEF Settled, Core, GoodFiles, SealedChained
  <2> QED BY <1>3, <2>1, <2>2
<1>5. /\ active' = sealed[Len(sealed)] /\ active' \in Seq(Frame) /\ active' # <<>>
      /\ From = Id(active'[Len(active')])
  BY <1>1, LastSealed DEF Settled, Core
<1>6. Plain'
  <2>1. Len(sealed) - 1 \in 0 .. Len(sealed')
    BY <1>2
  <2>2. Chained(sealed[Len(sealed)], SealedHead(Len(sealed) - 1))
    BY <1>2 DEF Settled, Core, GoodFiles, SealedChained
  <2>3. From' = SealedHead(Len(sealed) - 1)
    BY <1>2, <1>3, <2>1 DEF From
  <2> QED BY <1>5, <2>2, <2>3 DEF Plain, Chained
<1>7. Tip' = From
  BY <1>5, LastFrame DEF Tip
<1>8. Durable' = From
  <2>1. IsPrefix(stable', active')
    BY <1>1, <1>5 DEF IsPrefix
  <2> QED BY <1>1, <1>5, <2>1, LastFrame DEF Durable, HeadAfter
<1> QED BY <1>2, <1>3, <1>4, <1>5, <1>6, <1>7, <1>8

\* The files of a machine that stopped before its last segment was durable.
LEMMA PowerLosesSegment ==
  ASSUME Settled, TypeInv', GoodStable, LosePower, SegmentGoes
  PROVE  /\ GoodFiles' /\ stable' = active' /\ Ascending(active')
         /\ Durable' \in Chain /\ IsPrefix(Durable, Durable')
<1>1. /\ sealed # <<>> /\ stable = Last(sealed) /\ stable = active' /\ stable' = active'
  BY DEF SegmentGoes, LosePower
<1>2. /\ Len(sealed) \in 1 .. Len(sealed) /\ Len(sealed') = Len(sealed) - 1
      /\ Len(sealed') \in 0 .. Len(sealed)
      /\ \A n \in 0 .. Len(sealed') : n \in 0 .. Len(sealed) /\ SealedHead(n)' = SealedHead(n)
      /\ SealedChained' /\ Plain' /\ Tip' = From /\ Durable' = From
  BY SegmentGone
<1>3. Durable = From /\ From \in Chain /\ IsPrefix(From, From)
  BY <1>1, GoneDurable, Heads, PrefixItself DEF Settled, Core
<1>4. Ascending(active')
  <2>1. PICK frames : frames = stable /\ active' = frames
    BY <1>1
  <2>2. Ascending(frames)
    BY <2>1 DEF GoodStable
  <2> QED BY <2>1, <2>2 DEF Ascending
<1>5. KeyOnce(From')
  <2>1. PICK n \in 0 .. Len(sealed) : n = Len(sealed')
    BY <1>2
  <2>2. From' = SealedHead(n)
    <3>1. From' = SealedHead(n)'
      BY <2>1 DEF From, SealedHead
    <3> QED BY <1>2, <2>1, <3>1
  <2>3. SealedHead(n) \in Chain /\ IsPrefix(SealedHead(n), From)
    BY SegmentHead, SegmentFrom DEF Settled, Core
  <2> QED BY <1>3, <2>2, <2>3, PrefixKeyOnce DEF Settled, Core, GoodFiles
<1>6. KeyOnce(Tip')
  BY <1>2 DEF Settled, Core, GoodFiles
<1> QED BY <1>1, <1>2, <1>3, <1>4, <1>5, <1>6 DEF GoodFiles

\* The generations that are left are where a segment that is left ends.
LEMMA GensAfterSegment ==
  ASSUME ~InterruptLaterRotations, Settled, TypeInv', GoodStable, LosePower, SegmentGoes
  PROVE  GoodGens' /\ SealedAscends' /\ GensSealed'
<1>1. /\ Len(sealed) \in 1 .. Len(sealed) /\ Len(sealed') = Len(sealed) - 1
      /\ Len(sealed') \in 0 .. Len(sealed)
      /\ \A n \in 0 .. Len(sealed') : n \in 0 .. Len(sealed) /\ SealedHead(n)' = SealedHead(n)
      /\ \A n \in 0 .. Len(sealed) : n \in 0 .. Len(sealed') \/ n = Len(sealed)
  BY SegmentGone
<1>2. SealedAscends'
  BY <1>1 DEF SealedAscends, Settled
<1>3. \A g \in gens' : \E k \in 0 .. Len(sealed') : g.head = SealedHead(k)'
  <2> SUFFICES ASSUME NEW g \in gens' PROVE \E k \in 0 .. Len(sealed') : g.head = SealedHead(k)'
    OBVIOUS
  <2>1. g \in gens /\ g.head # SealedHead(Len(sealed))
    <3>1. g \in gens
      BY GensLeft
    <3> QED BY <3>1 DEF SegmentGoes
  <2>2. PICK k \in 0 .. Len(sealed) : g.head = SealedHead(k)
    BY <2>1 DEF Settled, GensSealed
  <2>3. k \in 0 .. Len(sealed')
    BY <1>1, <2>1, <2>2
  <2> QED BY <1>1, <2>2, <2>3
<1>4. GoodGens'
  <2>1. Complete' = {}
    BY SegmentNeeded DEF Settled
  <2>2. ASSUME NEW g \in gens' PROVE Len(g.head) <= Len(From') /\ (Len(g.head) = Len(From') => g.head = From')
    <3>1. PICK k \in 0 .. Len(sealed') : g.head = SealedHead(k)'
      BY <1>3
    <3>2. PICK n \in 0 .. Len(sealed) : n = Len(sealed')
      BY <1>1
    <3>3. From' = SealedHead(n) /\ g.head = SealedHead(k) /\ k \in 0 .. n
      <4>1. From' = SealedHead(n)'
        BY <3>2 DEF From, SealedHead
      <4> QED BY <1>1, <3>1, <3>2, <4>1
    <3>4. Len(SealedHead(k)) <= Len(SealedHead(n)) /\ (Len(SealedHead(k)) = Len(SealedHead(n)) => k = n)
      BY <3>3, SegmentPast DEF Settled, Core
    <3> QED BY <3>3, <3>4
  <2> QED BY <2>1, <2>2 DEF GoodGens
<1> QED BY <1>2, <1>3, <1>4 DEF GensSealed

\* With all the segments there, the generations that are left fit them.
LEMMA GensAfterPower ==
  ASSUME ~InterruptLaterRotations, Settled, LosePower, sealed' = sealed
  PROVE  GoodGens' /\ SealedAscends' /\ GensSealed'
<1>1. From' = From /\ \A n \in 0 .. Len(sealed) : SealedHead(n)' = SealedHead(n)
  BY DEF From, SealedHead
<1>2. \A g \in gens' : g \in gens
  BY GensLeft
<1>3. SealedAscends' /\ GensSealed'
  BY <1>1, <1>2 DEF Settled, SealedAscends, GensSealed
<1>4. Complete' # {} => \E g \in Complete' : g.head = From
  <2>1. \A u \in Writers : MayInterrupt(u)
    BY DEF LosePower
  <2>2. Complete # {} => \A u \in Writers : pc[u] \notin Rotating
    BY <2>1, InterruptsEarly
  <2>3. Complete # {} => \E g \in Complete : g.head = From
    BY <2>2 DEF Settled, Core, GoodGens
  <2> QED BY <2>3, GensLeft
<1>5. \A g \in gens : Len(g.head) <= Len(From) /\ (Len(g.head) = Len(From) => g.head = From)
  BY DEF Settled, Core, GoodGens
<1> QED BY <1>1, <1>2, <1>3, <1>4, <1>5 DEF GoodGens

\* The machine restarts on good files, with no handle open, and what was durable
\* is on the chain they hold.
LEMMA PowerSettled ==
  ASSUME ~InterruptLaterRotations, Settled, TypeInv', GoodStable, LosePower
  PROVE  Settled' /\ GoodStable' /\ Durable' \in Chain /\ IsPrefix(Durable, Durable')
<1>1. /\ GoodFiles' /\ stable' = active' /\ Ascending(active')
      /\ Durable' \in Chain /\ IsPrefix(Durable, Durable')
      /\ GoodGens' /\ SealedAscends' /\ GensSealed'
  <2>1. CASE sealed' = sealed
    BY <2>1, PowerKeepsSegments, GensAfterPower DEF Settled
  <2>2. CASE SegmentGoes
    BY <2>2, PowerLosesSegment, GensAfterSegment
  <2> QED BY <2>1, <2>2 DEF LosePower
<1>2. GoodStable'
  <2>1. active' \in Seq(Frame)
    BY TypeParts DEF TypeInv, TypeOK
  <2>2. IsPrefix(stable', active')
    BY <1>1, <2>1 DEF IsPrefix
  <2> QED BY <1>1, <2>2 DEF GoodStable
<1>3. ASSUME NEW w \in Writers PROVE GoodHandle(w)'
  <2>1. pc'[w] = "closed" /\ lock' # w
    BY JournalAssumption DEF LosePower
  <2> QED BY <2>1 DEF GoodHandle, OneHolder, Knows, Lives, AtPlace, Holding, Rotating
<1> QED BY <1>1, <1>2, <1>3 DEF Settled, Core

\* What was durable stays durable.
LEMMA DurableStays ==
  ASSUME TypeInv, TypeInv', MintedSafe, Durable \in Chain, Durable' \in Chain, IsPrefix(Durable, Durable'),
         NEW a \in acked, a.minted
  PROVE  IsPrefix(a.id, Durable')
<1>1. a \in [id : Chain, batch : Batches, minted : BOOLEAN] /\ IsPrefix(a.id, Durable)
  BY TypeParts DEF TypeInv, AnswersTyped, MintedSafe
<1>2. PICK past \in Chain : past = a.id
  BY <1>1
<1>3. PICK new \in Chain : new = Durable'
  OBVIOUS
<1>4. IsPrefix(past, new)
  BY <1>1, <1>2, <1>3, PrefixOfPrefix
<1> QED BY <1>2, <1>3, <1>4

\* An answer is minted after the sync that makes it durable.
LEMMA MintedStep ==
  ASSUME Core, TypeInv', GoodStable, MintedSafe, NEW w \in Writers, Step(w)
  PROVE  MintedSafe'
<1>1. /\ Durable \in Chain /\ Tip \in Chain /\ IsPrefix(Durable, Tip)
      /\ Durable' \in {Durable, Tip} /\ IsPrefix(Durable, Durable)
  BY DurablePast, StableStep, PrefixItself DEF Core
<1>2. ASSUME NEW a \in acked, a.minted PROVE IsPrefix(a.id, Durable')
  <2>1. Durable' \in Chain /\ IsPrefix(Durable, Durable')
    BY <1>1
  <2> QED BY <1>1, <1>2, <2>1, DurableStays DEF Core
<1>3. CASE SyncAppend(w)
  <2>1. pc[w] = "written" /\ Answer(w, Append(head[w], req[w].batch), TRUE)
        /\ stable' = active /\ active' = active /\ sealed' = sealed
    BY <1>3 DEF SyncAppend
  <2>2. Tip = Append(head[w], req[w].batch)
    BY <2>1, HolderIs, Heads DEF Holding, AtPlace, Core
  <2>3. PICK answer : answer = [id |-> Tip, batch |-> req[w].batch, minted |-> TRUE]
    OBVIOUS
  <2>4. acked' = acked \cup {answer} /\ answer.id = Tip
    BY <2>1, <2>2, <2>3 DEF Answer
  <2>5. active \in Seq(Frame)
    BY Heads DEF Core, FilesTyped
  <2>6. IsPrefix(active, active)
    BY <2>5 DEF IsPrefix
  <2>7. Durable' = Tip
    BY <2>1, <2>6 DEF Durable, HeadAfter, Tip, From, SealedHead
  <2>8. IsPrefix(Tip, Tip)
    BY <1>1, PrefixItself
  <2> QED BY <1>2, <2>4, <2>7, <2>8 DEF MintedSafe
<1>4. CASE ~SyncAppend(w)
  BY <1>2, <1>4, MintsNone DEF MintedSafe
<1> QED BY <1>3, <1>4

PowerInv == Settled /\ GoodStable /\ MintedSafe

LEMMA PowerInvInit == Init => PowerInv
<1> SUFFICES ASSUME Init PROVE GoodStable /\ MintedSafe
  BY SettledInit DEF PowerInv
<1>1. active = <<>> /\ stable = <<>> /\ acked = {} /\ Plain
  BY ChainedEmpty DEF Init
<1>2. IsPrefix(stable, active)
  BY <1>1 DEF IsPrefix
<1> QED BY <1>1, <1>2 DEF GoodStable, Ascending, MintedSafe

LEMMA PowerInvStep == ~InterruptLaterRotations /\ PowerInv /\ [Next \/ LosePower]_vars => PowerInv'
<1> SUFFICES ASSUME ~InterruptLaterRotations, PowerInv, [Next \/ LosePower]_vars PROVE PowerInv'
  OBVIOUS
<1>1. TypeInv'
  BY TypeInductive DEF PowerInv, Settled, Core
<1>2. CASE Next
  BY <1>1, <1>2, SettledStep, StableStep, MintedStep DEF Next, PowerInv, Settled
<1>3. CASE LosePower
  <2>1. Settled' /\ GoodStable' /\ Durable' \in Chain /\ IsPrefix(Durable, Durable')
    BY <1>1, <1>3, PowerSettled DEF PowerInv
  <2>2. Durable \in Chain
    BY DurablePast DEF PowerInv, Settled, Core
  <2>3. acked' = acked
    BY <1>3 DEF LosePower
  <2> QED BY <1>1, <2>1, <2>2, <2>3, DurableStays DEF PowerInv, MintedSafe, Settled, Core
<1>4. CASE UNCHANGED vars
  <2>1. active' = active /\ stable' = stable /\ sealed' = sealed /\ acked' = acked
    BY <1>4 DEF vars
  <2>2. From' = From /\ (Plain' <=> Plain)
    BY <2>1 DEF From, Plain, SealedHead
  <2> QED BY <1>1, <1>4, <2>1, <2>2, SettledUnchanged DEF PowerInv, GoodStable, MintedSafe, Durable
<1> QED BY <1>2, <1>3, <1>4

LEMMA PowerInvHolds ==
  ASSUME ~InterruptLaterRotations
  PROVE  PowerSpec => []PowerInv
<1>1. Init => PowerInv
  BY PowerInvInit
<1>2. PowerInv /\ [Next \/ LosePower]_vars => PowerInv'
  BY PowerInvStep
<1> QED BY <1>1, <1>2, PTL DEF PowerSpec

------------------------------------------------------------------------------
(* The theorems *)

\* While no rotation is interrupted under a complete generation, the files
\* hold one chain with no key twice, however many handles commit, fault, crash
\* and seal, and the lock holder appends to its end (OneChain).
THEOREM ChainIsOne ==
  ASSUME ~InterruptLaterRotations
  PROVE  Spec => []OneChain
<1>1. Inv => OneChain
  BY CoreChain DEF Inv
<1> QED BY <1>1, InvHolds, PTL

\* Under the same condition no answered commit leaves the chain: neither a
\* failed append nor a crash, rotation, repair or reopening takes it back.
THEOREM AnswersAreKept ==
  ASSUME ~InterruptLaterRotations
  PROVE  Spec => []AnswersKept
<1>1. Inv => AnswersKept
  BY DEF Inv
<1> QED BY <1>1, InvHolds, PTL

\* Under the same condition a store whose lock is free can be opened, wherever
\* the last holder stopped: the replay never refuses what writers leave behind.
THEOREM StoreOpens ==
  ASSUME ~InterruptLaterRotations
  PROVE  Spec => []AlwaysOpens
<1>1. Inv => AlwaysOpens
  BY CoreOpens DEF Inv
<1> QED BY <1>1, InvHolds, PTL

\* Under the same condition the files, the handles and their failures implement
\* the chain the store promises: batches only go to its end, each key once, and
\* what a client was told of stays (Chain).
THEOREM JournalIsAChain ==
  ASSUME ~InterruptLaterRotations
  PROVE  Spec => ImplementsChain
<1>1. Init => Inv /\ Longest /\ Promise!Init
  <2> SUFFICES ASSUME Init PROVE Inv /\ Longest /\ Promise!Init
    OBVIOUS
  <2>1. Told = {0}
    BY DEF Init, Told
  <2>2. Kept = 0
    BY <2>1, KeptIsMax
  <2>3. Tip = <<>>
    BY DEF Init, Tip, SealedHead
  <2> QED BY <2>1, <2>2, <2>3, InvInit DEF Longest, Promise!Init
<1>2. Inv /\ Longest /\ [Next]_vars => Inv' /\ Longest' /\ [Promise!Next]_<<Tip, Kept>>
  <2> SUFFICES ASSUME Inv, Longest, [Next]_vars PROVE Inv' /\ Longest' /\ [Promise!Next]_<<Tip, Kept>>
    OBVIOUS
  <2>1. TypeInv'
    BY TypeInductive DEF Inv, Core
  <2>2. Inv'
    BY InvStep
  <2>3. CASE Next
    BY <2>1, <2>2, <2>3, PromiseStep DEF Next, Inv
  <2>4. CASE UNCHANGED vars
    <3>1. Told' = Told /\ active' = active /\ torn' = torn /\ sealed' = sealed
      BY <2>4 DEF vars, Told
    <3> QED BY <2>2, <3>1, KeptSame, SameFiles
  <2> QED BY <2>3, <2>4
<1> QED BY <1>1, <1>2, PTL DEF Spec, ImplementsChain, Promise!Spec

\* Under the same condition, and whatever prefix of the unsynced writes and whichever
\* of the directory entries not yet synced a power loss leaves (LosePower), an answer
\* given after the sync of its commit stays on the chain: append syncs before it
\* answers, sealLocked before it resets.
THEOREM MintedAreKept ==
  ASSUME ~InterruptLaterRotations
  PROVE  PowerSpec => []MintedKept
<1>1. PowerInv => MintedKept
  <2> SUFFICES ASSUME PowerInv, NEW a \in acked, a.minted PROVE IsPrefix(a.id, Tip)
    BY DEF MintedKept
  <2>1. Durable \in Chain /\ Tip \in Chain /\ IsPrefix(Durable, Tip)
    BY DurablePast DEF PowerInv, Settled, Core
  <2>2. a \in [id : Chain, batch : Batches, minted : BOOLEAN] /\ IsPrefix(a.id, Durable)
    BY TypeParts DEF PowerInv, Settled, Core, TypeInv, AnswersTyped, MintedSafe
  <2>3. PICK past \in Chain : past = a.id
    BY <2>2
  <2> QED BY <2>1, <2>2, <2>3, PrefixOfPrefix
<1> QED BY <1>1, PowerInvHolds, PTL

\* A machine that may stop also finds one chain in its files when it restarts,
\* and opens it.
THEOREM ChainSurvivesPowerLoss ==
  ASSUME ~InterruptLaterRotations
  PROVE  PowerSpec => [](OneChain /\ AlwaysOpens)
<1>1. PowerInv => OneChain /\ AlwaysOpens
  BY CoreChain, CoreOpens DEF PowerInv, Settled
<1> QED BY <1>1, PowerInvHolds, PTL

------------------------------------------------------------------------------
(* What a reader knows                                                       *)

ReaderView ==
  [at : Places, opening : BOOLEAN, head : Chain, segs : Nat, end : Nat, pending : BOOLEAN,
   era : Nat, size : Nat, list : Nat, base : SUBSET Chain]

\* A head that one of the first n segments ends at: an anchor may lie behind.
Behind(past, n) == \E k \in 0 .. n : past = SealedHead(k)

\* A handle at rest or in its refresh: it knows what it listed, and where in the
\* active segment it is as long as there is no other segment.
Follows(v) ==
  v.at \in {"idle", "sized", "tail"} =>
    /\ v.segs <= Len(sealed)
    /\ v.at = "tail" => ~v.pending
    /\ v.pending => v.head = SealedHead(v.segs)
    /\ ~v.pending =>
         /\ v.segs <= v.era /\ v.era <= Era
         /\ v.end > 0 => v.era = v.segs
         /\ v.end = 0 => Behind(v.head, v.segs)
         /\ v.segs < Len(sealed) => IsPrefix(v.head, SealedHead(v.segs + 1))
         /\ v.segs = Len(sealed) =>
              /\ Plain /\ v.end <= Len(active)
              /\ v.end > 0 => v.head = Id(active[v.end])
              /\ v.at = "sized" => v.end <= v.size

Rebuilding == {"load", "loaded", "listed", "rotating", "replay"}
Listed == {"listed", "rotating", "replay"}

\* A rebuild under way: what the handle showed before lies in the segments it
\* has listed, and so does its anchor.
Replays(v) ==
  /\ v.at \in {"closed", "faulted"} => v.head = <<>>
  /\ v.at \in Rebuilding => IsPrefix(v.head, From)
  /\ v.at = "loaded" => v.base = {} \/ \E k \in 0 .. Len(sealed) : v.base = {SealedHead(k)}
  /\ v.at \in Listed =>
       /\ v.list <= Len(sealed) /\ IsPrefix(v.head, SealedHead(v.list))
       /\ v.base = {} \/ \E k \in 0 .. v.list : v.base = {SealedHead(k)}
  /\ v.at = "rotating" => v.base = {} /\ v.list > 0
  /\ v.at = "replay" /\ v.list = Len(sealed) => Plain

\* Nothing has changed since the refresh or the open began.
Undisturbed(v) ==
  /\ lock = NoOne
  /\ v.at = "idle" => v.head = Tip \/ AnchoredBehind(v)
  /\ v.at = "tail" => v.segs = Len(sealed)
  /\ v.at \in Rebuilding \ {"load"} => v.base \subseteq {From}
  /\ v.at \in Listed => v.list = Len(sealed)

GoodView(v, undisturbed) == Follows(v) /\ Replays(v) /\ (undisturbed => Undisturbed(v))

ReadersTyped == reader \in [Readers -> ReaderView] /\ quiet \in [Readers -> BOOLEAN]

GoodReaders == ReadersTyped /\ \A r \in Readers : GoodView(reader[r], quiet[r])

\* How often the active file was reset only grows.
LEMMA EraMoves ==
  ASSUME TypeInv, GoodFiles, TypeInv', GoodFiles',
         FilesStay \/ FrameGoesOn \/ SegmentSealed \/ ActiveReset
  PROVE  /\ Era \in Nat /\ Era <= Len(sealed) /\ Len(sealed) \in Nat
         /\ Plain => Era = Len(sealed)
         /\ Duplicate => Era = Len(sealed) - 1
         /\ Era' \in Nat /\ Era <= Era'
<1>1. Len(sealed) \in Nat /\ Len(sealed') \in Nat /\ (sealed = <<>> <=> Len(sealed) = 0)
  BY Heads, TypeParts DEF FilesTyped, TypeInv
<1>2. /\ Plain => Era = Len(sealed)
      /\ Duplicate => Era = Len(sealed) - 1 /\ Len(sealed) # 0
  BY <1>1, Shapes DEF Era, Duplicate
<1>3. /\ Plain' => Era' = Len(sealed')
      /\ Duplicate' => Era' = Len(sealed') - 1 /\ Len(sealed') # 0
  <2>1. Plain' => ~PendingRotation'
    BY Shapes, PTL
  <2>2. Duplicate' => PendingRotation'
    BY Shapes, PTL
  <2>3. sealed' = <<>> <=> Len(sealed') = 0
    BY TypeParts DEF TypeInv, TypeOK
  <2> QED BY <1>1, <2>1, <2>2, <2>3 DEF Era, Duplicate
<1>4. CASE FilesStay
  BY <1>1, <1>2, <1>4 DEF FilesStay, Era, PendingRotation, SegmentName, SealedHead, GoodFiles
<1>5. CASE FrameGoesOn
  BY <1>1, <1>2, <1>3, <1>5 DEF FrameGoesOn
<1>6. CASE SegmentSealed
  <2>1. Len(sealed') = Len(sealed) + 1
    BY <1>6, Heads DEF SegmentSealed, FilesTyped
  <2> QED BY <1>1, <1>2, <1>3, <1>6, <2>1 DEF SegmentSealed
<1>7. CASE ActiveReset
  <2>1. Plain'
    BY <1>7 DEF ActiveReset, Plain, Chained
  <2> QED BY <1>1, <1>2, <1>3, <1>7, <2>1 DEF ActiveReset
<1>8. Era \in Nat /\ Era <= Len(sealed)
  BY <1>1, <1>2 DEF GoodFiles
<1> QED BY <1>1, <1>2, <1>4, <1>5, <1>6, <1>7, <1>8

\* The fields of a view.
LEMMA ViewFields ==
  ASSUME NEW v \in ReaderView
  PROVE  /\ v.at \in Places /\ v.opening \in BOOLEAN /\ v.head \in Chain /\ v.segs \in Nat /\ v.end \in Nat
         /\ v.pending \in BOOLEAN /\ v.era \in Nat /\ v.size \in Nat /\ v.list \in Nat
         /\ v.base \in SUBSET Chain
BY DEF ReaderView

\* What a handle shows is a past of the chain, and of its sealed part unless
\* the handle follows the active segment.
LEMMA FollowsPast ==
  ASSUME Settled, NEW v \in ReaderView, Follows(v), v.at \in {"idle", "sized", "tail"}
  PROVE  /\ IsPrefix(v.head, Tip)
         /\ v.pending \/ v.segs # Len(sealed) \/ v.end = 0 => IsPrefix(v.head, From)
<1>1. /\ v.head \in Chain /\ v.segs \in Nat /\ v.end \in Nat /\ v.segs <= Len(sealed)
      /\ Len(sealed) \in Nat /\ Len(active) \in Nat
  BY Heads, ViewFields DEF Settled, Core, Follows
<1>2. From \in Chain /\ Tip \in Chain /\ IsPrefix(From, Tip)
  BY FromPast DEF Settled, Core
<1>3. ASSUME NEW k \in 0 .. Len(sealed), IsPrefix(v.head, SealedHead(k)) PROVE IsPrefix(v.head, From)
  <2>1. PICK mid \in Chain : mid = SealedHead(k) /\ IsPrefix(mid, From)
    BY SegmentHead, SegmentFrom DEF Settled, Core
  <2> QED BY <1>1, <1>2, <1>3, <2>1, PrefixOfPrefix
<1>4. CASE v.pending
  <2>1. v.segs \in 0 .. Len(sealed) /\ v.head = SealedHead(v.segs)
    BY <1>1, <1>4 DEF Follows
  <2>2. IsPrefix(v.head, SealedHead(v.segs))
    BY <1>1, <2>1, PrefixItself
  <2> QED BY <1>1, <1>2, <1>3, <2>1, <2>2, PrefixOfPrefix
<1>5. CASE ~v.pending /\ v.segs # Len(sealed)
  <2>1. v.segs + 1 \in 0 .. Len(sealed) /\ v.segs < Len(sealed)
    BY <1>1, <1>5
  <2>2. IsPrefix(v.head, SealedHead(v.segs + 1))
    BY <1>5, <2>1 DEF Follows
  <2>3. IsPrefix(v.head, From)
    BY <1>3, <2>1, <2>2
  <2> QED BY <1>1, <1>2, <2>3, PrefixOfPrefix
<1>6. CASE ~v.pending /\ v.end = 0
  <2>1. PICK k \in 0 .. v.segs : v.head = SealedHead(k)
    BY <1>6 DEF Follows, Behind
  <2>2. k \in 0 .. Len(sealed)
    BY <1>1, <2>1
  <2>3. IsPrefix(v.head, From)
    BY <1>1, <1>3, <2>1, <2>2, PrefixItself
  <2> QED BY <1>1, <1>2, <2>3, PrefixOfPrefix
<1>7. CASE ~v.pending /\ v.segs = Len(sealed) /\ v.end # 0
  <2>1. Plain /\ v.end <= Len(active) /\ v.head = Id(active[v.end])
    BY <1>1, <1>7 DEF Follows
  <2>2. v.end \in 0 .. Len(active) /\ Len(active) \in 0 .. Len(active) /\ v.end \in 0 .. Len(active)
    BY <1>1, <2>1
  <2>3. Mark(v.end) = v.head /\ Mark(Len(active)) = Tip
    <3>1. Len(active) # 0 /\ active # <<>>
      BY <1>1, <1>7, <2>1, Heads DEF Settled, Core, FilesTyped
    <3> QED BY <1>7, <2>1, <3>1, Heads DEF Mark, Settled, Core
  <2>4. IsPrefix(Mark(v.end), Mark(Len(active)))
    BY <2>1, <2>2, Marks DEF Settled, Core
  <2> QED BY <1>7, <2>3, <2>4
<1> QED BY <1>4, <1>5, <1>6, <1>7

\* The sealed part of the chain only grows.
LEMMA FromGrows ==
  ASSUME Settled, TypeInv', GoodFiles', FilesStay \/ FrameGoesOn \/ SegmentSealed \/ ActiveReset
  PROVE  From \in Chain /\ From' \in Chain /\ IsPrefix(From, From')
<1>1. From \in Chain /\ Tip \in Chain /\ IsPrefix(From, Tip) /\ IsPrefix(From, From)
  BY FromPast, PrefixItself DEF Settled, Core
<1>2. CASE sealed' = sealed
  <2>1. From' = From
    BY <1>2 DEF From, SealedHead
  <2> QED BY <1>1, <2>1
<1>3. CASE SegmentSealed
  BY <1>1, <1>3 DEF SegmentSealed
<1> QED BY <1>2, <1>3 DEF FilesStay, FrameGoesOn, ActiveReset

\* Where the segments ended they still end.
LEMMA SegmentsAfter ==
  ASSUME Settled, FilesStay \/ FrameGoesOn \/ SegmentSealed \/ ActiveReset
  PROVE  /\ Len(sealed) \in Nat /\ Len(sealed') \in Nat /\ Len(sealed) <= Len(sealed')
         /\ SegmentSealed => Len(sealed') = Len(sealed) + 1
         /\ \A n \in 0 .. Len(sealed) : SealedHead(n)' = SealedHead(n)
<1>1. SegmentSealed => Len(sealed') = Len(sealed) + 1
  BY Heads DEF SegmentSealed, Settled, Core, FilesTyped
<1>2. sealed' = sealed \/ sealed' = Append(sealed, active)
  BY DEF FilesStay, FrameGoesOn, SegmentSealed, ActiveReset
<1> QED BY <1>1, <1>2, SegmentsStay DEF Settled, Core

\* A writer's step leaves a handle what it knows.
LEMMA FollowsKept ==
  ASSUME Settled, TypeInv', GoodFiles', FilesStay \/ FrameGoesOn \/ SegmentSealed \/ ActiveReset,
         NEW v \in ReaderView, Follows(v)
  PROVE  Follows(v)'
<1> SUFFICES ASSUME v.at \in {"idle", "sized", "tail"} PROVE Follows(v)'
  BY DEF Follows
<1>1. /\ Len(sealed) \in Nat /\ Len(sealed') \in Nat /\ Len(sealed) <= Len(sealed')
      /\ SegmentSealed => Len(sealed') = Len(sealed) + 1
      /\ \A n \in 0 .. Len(sealed) : SealedHead(n)' = SealedHead(n)
  BY SegmentsAfter
<1>2. /\ v.head \in Chain /\ v.segs \in Nat /\ v.end \in Nat /\ v.era \in Nat
      /\ v.segs <= Len(sealed) /\ v.segs \in 0 .. Len(sealed)
  BY <1>1, ViewFields DEF Follows
<1>3. SealedHead(v.segs)' = SealedHead(v.segs)
  BY <1>1, <1>2
<1>4. Era \in Nat /\ Era' \in Nat /\ Era <= Era'
  BY EraMoves DEF Settled, Core
<1>5. ASSUME ~v.pending, v.end = 0 PROVE Behind(v.head, v.segs)'
  <2>1. PICK k \in 0 .. v.segs : v.head = SealedHead(k)
    BY <1>5 DEF Follows, Behind
  <2>2. SealedHead(k)' = v.head
    BY <1>1, <1>2, <2>1
  <2> QED BY <2>1, <2>2 DEF Behind
<1>6. ASSUME ~v.pending, v.segs < Len(sealed') PROVE IsPrefix(v.head, SealedHead(v.segs + 1)')
  <2>1. CASE v.segs < Len(sealed)
    <3>1. v.segs + 1 \in 0 .. Len(sealed) /\ IsPrefix(v.head, SealedHead(v.segs + 1))
      BY <1>1, <1>2, <1>6, <2>1 DEF Follows
    <3> QED BY <1>1, <3>1
  <2>2. CASE v.segs = Len(sealed)
    <3>1. SegmentSealed /\ v.segs + 1 = Len(sealed')
      BY <1>1, <1>6, <2>2 DEF FilesStay, FrameGoesOn, ActiveReset
    <3>2. SealedHead(v.segs + 1)' = From'
      BY <3>1 DEF From, SealedHead
    <3>3. From' = Tip /\ IsPrefix(v.head, Tip)
      BY <3>1, FollowsPast DEF SegmentSealed
    <3> QED BY <3>2, <3>3
  <2> QED BY <1>1, <1>2, <2>1, <2>2
<1>7. ASSUME ~v.pending, v.segs = Len(sealed')
      PROVE  /\ Plain' /\ v.end <= Len(active') /\ (v.end > 0 => v.head = Id(active'[v.end]))
             /\ v.at = "sized" => v.end <= v.size
  <2>1. v.segs = Len(sealed) /\ ~SegmentSealed
    BY <1>1, <1>2, <1>7
  <2>2. /\ Plain /\ v.end <= Len(active) /\ (v.end > 0 => v.head = Id(active[v.end]))
        /\ v.at = "sized" => v.end <= v.size
    BY <1>7, <2>1 DEF Follows
  <2>3. ~ActiveReset
    BY <2>2, Shapes DEF ActiveReset, Settled, Core
  <2>4. CASE FilesStay
    <3>1. Plain'
      BY <2>2, <2>4 DEF FilesStay, Plain, From, SealedHead
    <3> QED BY <2>2, <2>4, <3>1 DEF FilesStay
  <2>5. CASE FrameGoesOn
    <3>1. /\ Plain' /\ Len(active') = Len(active) + 1 /\ Len(active) \in Nat
          /\ \A i \in 1 .. Len(active) : active'[i] = active[i]
      BY <2>5, Heads DEF FrameGoesOn, Settled, Core
    <3>2. v.end > 0 => v.end \in 1 .. Len(active)
      BY <1>2, <2>2, <3>1
    <3> QED BY <1>2, <2>2, <3>1, <3>2
  <2> QED BY <2>1, <2>3, <2>4, <2>5
<1>8. v.segs <= Len(sealed') /\ (v.at = "tail" => ~v.pending) /\ (v.pending => v.head = SealedHead(v.segs)')
  BY <1>1, <1>2, <1>3 DEF Follows
<1>9. ~v.pending => v.segs <= v.era /\ v.era <= Era' /\ (v.end > 0 => v.era = v.segs)
  BY <1>2, <1>4 DEF Follows
<1> QED BY <1>5, <1>6, <1>7, <1>8, <1>9 DEF Follows

\* It leaves a rebuild what it has listed.
LEMMA ReplaysKept ==
  ASSUME Settled, TypeInv', GoodFiles', FilesStay \/ FrameGoesOn \/ SegmentSealed \/ ActiveReset,
         NEW v \in ReaderView, Replays(v)
  PROVE  Replays(v)'
<1>1. /\ Len(sealed) \in Nat /\ Len(sealed') \in Nat /\ Len(sealed) <= Len(sealed')
      /\ SegmentSealed => Len(sealed') = Len(sealed) + 1
      /\ \A n \in 0 .. Len(sealed) : SealedHead(n)' = SealedHead(n)
  BY SegmentsAfter
<1>2. v.head \in Chain /\ v.list \in Nat
  BY ViewFields
<1>3. v.at \in Rebuilding => IsPrefix(v.head, From')
  BY <1>2, FromGrows, PrefixOfPrefix DEF Replays
<1>4. v.at = "loaded" => v.base = {} \/ \E k \in 0 .. Len(sealed') : v.base = {SealedHead(k)'}
  <2>1. CASE v.at = "loaded" /\ v.base # {}
    <3>1. PICK k \in 0 .. Len(sealed) : v.base = {SealedHead(k)}
      BY <2>1 DEF Replays
    <3>2. k \in 0 .. Len(sealed') /\ SealedHead(k)' = SealedHead(k)
      BY <1>1
    <3> QED BY <3>1, <3>2
  <2> QED BY <2>1
<1>5. v.at \in Listed =>
        /\ v.list <= Len(sealed') /\ IsPrefix(v.head, SealedHead(v.list)')
        /\ v.base = {} \/ \E k \in 0 .. v.list : v.base = {SealedHead(k)'}
  <2> SUFFICES ASSUME v.at \in Listed
               PROVE  /\ v.list <= Len(sealed') /\ IsPrefix(v.head, SealedHead(v.list)')
                      /\ v.base = {} \/ \E k \in 0 .. v.list : v.base = {SealedHead(k)'}
    OBVIOUS
  <2>1. /\ v.list <= Len(sealed) /\ IsPrefix(v.head, SealedHead(v.list))
        /\ v.base = {} \/ \E k \in 0 .. v.list : v.base = {SealedHead(k)}
    BY DEF Replays
  <2>2. v.list \in 0 .. Len(sealed) /\ \A k \in 0 .. v.list : k \in 0 .. Len(sealed)
    BY <1>1, <1>2, <2>1
  <2> QED BY <1>1, <2>1, <2>2
<1>6. v.at = "replay" /\ v.list = Len(sealed') => Plain'
  <2> SUFFICES ASSUME v.at = "replay", v.list = Len(sealed') PROVE Plain'
    OBVIOUS
  <2>1. v.list = Len(sealed) /\ ~SegmentSealed /\ Plain
    BY <1>1, <1>2 DEF Replays, Listed
  <2>2. ~ActiveReset
    BY <2>1, Shapes DEF ActiveReset, Settled, Core
  <2> QED BY <2>1, <2>2 DEF FilesStay, FrameGoesOn, Plain, From, SealedHead
<1>7. (v.at \in {"closed", "faulted"} => v.head = <<>>) /\ (v.at = "rotating" => v.base = {} /\ v.list > 0)
  BY DEF Replays
<1> QED BY <1>3, <1>4, <1>5, <1>6, <1>7 DEF Replays

\* While no file changes and nobody holds the lock, an undisturbed reader stays so.
LEMMA UndisturbedKept ==
  ASSUME NEW v, Undisturbed(v), disk' = disk, lock' = NoOne
  PROVE  Undisturbed(v)'
<1>1. active' = active /\ sealed' = sealed
  BY DEF disk
<1>2. Tip' = Tip /\ From' = From
  BY <1>1 DEF Tip, From, SealedHead
<1>3. AnchoredBehind(v) => AnchoredBehind(v)'
  BY <1>1 DEF AnchoredBehind, SegmentName, SealedHead
<1> QED BY <1>1, <1>2, <1>3 DEF Undisturbed

------------------------------------------------------------------------------
(* The steps of a reader                                                     *)

\* The reader has this view now, the others theirs.
Takes(r, new) ==
  /\ reader' \in [Readers -> ReaderView] /\ reader'[r] = new
  /\ \A q \in Readers \ {r} : reader'[q] = reader[q]

\* A refresh ends at or after what the handle showed, or at an anchor from before
\* the segments it listed.
Onward(v, new) ==
  v.at \notin {"closed", "idle"} /\ ~v.opening /\ new.at = "idle"
    => IsPrefix(v.head, new.head) \/ AnchoredBehind(new)

\* What every step of a reader does, given what it makes of quiet.
ReaderMoves(r, undisturbed) ==
  \E new \in ReaderView :
    Takes(r, new) /\ GoodView(new, undisturbed) /\ Onward(reader[r], new)

LEMMA Taken ==
  ASSUME ReadersTyped, NEW r \in Readers, NEW new \in ReaderView, reader' = [reader EXCEPT ![r] = new]
  PROVE  Takes(r, new)
BY DEF ReadersTyped, Takes

LEMMA GotoTakes ==
  ASSUME ReadersTyped, NEW r \in Readers, NEW place \in Places, Goto(r, place)
  PROVE  \E new \in ReaderView :
           /\ Takes(r, new) /\ new.at = place
           /\ new.head = reader[r].head /\ new.segs = reader[r].segs /\ new.end = reader[r].end
           /\ new.pending = reader[r].pending /\ new.era = reader[r].era /\ new.size = reader[r].size
           /\ new.list = reader[r].list /\ new.base = reader[r].base
<1>1. PICK v \in ReaderView : v = reader[r]
  BY DEF ReadersTyped
<1>2. PICK new : new = [v EXCEPT !.at = place]
  OBVIOUS
<1>3. /\ new \in ReaderView /\ new.at = place
      /\ new.head = v.head /\ new.segs = v.segs /\ new.end = v.end
      /\ new.pending = v.pending /\ new.era = v.era /\ new.size = v.size
      /\ new.list = v.list /\ new.base = v.base
  BY <1>2 DEF ReaderView
<1>4. reader' = [reader EXCEPT ![r] = new]
  BY <1>1, <1>2 DEF Goto
<1> QED BY <1>1, <1>3, <1>4, Taken

LEMMA UnopenedView ==
  /\ Unopened \in ReaderView /\ Unopened.at = "closed" /\ Unopened.head = <<>>
  /\ [Unopened EXCEPT !.at = "faulted"] \in ReaderView
  /\ [Unopened EXCEPT !.at = "faulted"].at = "faulted" /\ [Unopened EXCEPT !.at = "faulted"].head = <<>>
<1>1. <<>> \in Chain /\ {} \in SUBSET Chain
  BY DEF Chain
<1> QED BY <1>1 DEF Unopened, ReaderView, Places

\* A closed or a faulted handle shows nothing.
LEMMA GoneView ==
  ASSUME NEW v \in ReaderView, v.at \in {"closed", "faulted"}, v.head = <<>>,
         NEW undisturbed \in BOOLEAN, undisturbed => lock = NoOne
  PROVE  GoodView(v, undisturbed)
<1>1. v.at \notin {"idle", "sized", "tail"} /\ v.at \notin Rebuilding /\ v.at \notin Listed
      /\ v.at # "loaded" /\ v.at # "rotating" /\ v.at # "replay"
  BY DEF Rebuilding, Listed
<1> QED BY <1>1 DEF GoodView, Follows, Replays, Undisturbed

LEMMA FailMoves ==
  ASSUME ReadersTyped, NEW r \in Readers, Fail(r), NEW undisturbed \in BOOLEAN, undisturbed => lock = NoOne
  PROVE  ReaderMoves(r, undisturbed)
<1>1. PICK new : new = IF reader[r].opening THEN Unopened ELSE [Unopened EXCEPT !.at = "faulted"]
  OBVIOUS
<1>2. new \in ReaderView /\ new.at \in {"closed", "faulted"} /\ new.head = <<>>
  BY <1>1, UnopenedView
<1>3. reader' = [reader EXCEPT ![r] = new]
  BY <1>1 DEF Fail
<1>4. Takes(r, new)
  BY <1>2, <1>3, Taken
<1>5. GoodView(new, undisturbed)
  BY <1>2, GoneView
<1> QED BY <1>2, <1>4, <1>5 DEF ReaderMoves, Onward

\* A rebuild begins when what the handle showed is sealed.
LEMMA RebuildMoves ==
  ASSUME ReadersTyped, NEW r \in Readers, Rebuild(r), IsPrefix(reader[r].head, From),
         NEW undisturbed \in BOOLEAN, undisturbed => lock = NoOne
  PROVE  ReaderMoves(r, undisturbed)
<1>1. PICK v \in ReaderView : v = reader[r]
  BY DEF ReadersTyped
<1>2. PICK new : new = [Unopened EXCEPT !.at = "load", !.head = v.head]
  OBVIOUS
<1>3. new \in ReaderView /\ new.at = "load" /\ new.head = v.head
  BY <1>2, UnopenedView, ViewFields DEF Unopened, ReaderView, Places
<1>4. reader' = [reader EXCEPT ![r] = new]
  BY <1>1, <1>2 DEF Rebuild
<1>5. Takes(r, new)
  BY <1>3, <1>4, Taken
<1>6. GoodView(new, undisturbed)
  <2>1. Follows(new)
    BY <1>3 DEF Follows
  <2>2. Replays(new)
    BY <1>1, <1>3 DEF Replays, Listed
  <2>3. undisturbed => Undisturbed(new)
    BY <1>3 DEF Undisturbed, Listed
  <2> QED BY <2>1, <2>2, <2>3 DEF GoodView
<1> QED BY <1>3, <1>5, <1>6 DEF ReaderMoves, Onward

\* A rebuild starts over without its anchor.
LEMMA WithoutAnchorMoves ==
  ASSUME ReadersTyped, NEW r \in Readers, WithoutAnchor(r), IsPrefix(reader[r].head, From),
         NEW undisturbed \in BOOLEAN, undisturbed => lock = NoOne
  PROVE  ReaderMoves(r, undisturbed)
<1>1. PICK v \in ReaderView : v = reader[r]
  BY DEF ReadersTyped
<1>2. PICK new : new = [v EXCEPT !.at = "loaded", !.base = {}]
  OBVIOUS
<1>3. new \in ReaderView /\ new.at = "loaded" /\ new.head = v.head /\ new.base = {}
  BY <1>2 DEF ReaderView, Places
<1>4. reader' = [reader EXCEPT ![r] = new]
  BY <1>1, <1>2 DEF WithoutAnchor
<1>5. Takes(r, new)
  BY <1>3, <1>4, Taken
<1>6. GoodView(new, undisturbed)
  <2>1. Follows(new)
    BY <1>3 DEF Follows
  <2>2. Replays(new)
    BY <1>1, <1>3 DEF Replays, Listed
  <2>3. undisturbed => Undisturbed(new)
    BY <1>3 DEF Undisturbed, Listed
  <2> QED BY <2>1, <2>2, <2>3 DEF GoodView
<1> QED BY <1>3, <1>5, <1>6 DEF ReaderMoves, Onward

\* A rebuild ends.
LEMMA RebuiltTakes ==
  ASSUME TypeInv, GoodFiles, ReadersTyped, NEW r \in Readers, NEW newHead \in Chain,
         NEW rotating \in BOOLEAN, Rebuilt(r, newHead, rotating)
  PROVE  \E new \in ReaderView :
           /\ Takes(r, new) /\ new.at = "idle" /\ new.head = newHead /\ new.segs = reader[r].list
           /\ new.end = Len(active) /\ new.pending = rotating /\ new.era = Era
<1>1. PICK v \in ReaderView : v = reader[r]
  BY DEF ReadersTyped
<1>2. PICK new : new = [Unopened EXCEPT !.at = "idle", !.head = newHead, !.segs = v.list,
                                        !.end = Len(active), !.pending = rotating, !.era = Era]
  OBVIOUS
<1>3. Era \in Nat /\ Len(active) \in Nat
  <2>1. Len(sealed) \in Nat /\ (sealed = <<>> <=> Len(sealed) = 0)
    BY Heads DEF FilesTyped
  <2> QED BY <2>1, Heads DEF Era, PendingRotation
<1>4. /\ new \in ReaderView /\ new.at = "idle" /\ new.head = newHead /\ new.segs = v.list
      /\ new.end = Len(active) /\ new.pending = rotating /\ new.era = Era
  <2>1. PICK blank \in ReaderView : blank = Unopened
    BY UnopenedView
  <2>2. new = [blank EXCEPT !.at = "idle", !.head = newHead, !.segs = v.list,
                            !.end = Len(active), !.pending = rotating, !.era = Era]
    BY <1>2, <2>1
  <2>3. v.list \in Nat
    BY ViewFields
  <2> QED BY <1>3, <2>2, <2>3 DEF ReaderView, Places
<1>5. reader' = [reader EXCEPT ![r] = new]
  BY <1>1, <1>2 DEF Rebuilt
<1> QED BY <1>1, <1>4, <1>5, Taken

\* What holds of one reader before it steps.
LEMMA ReaderHas ==
  ASSUME GoodReaders, NEW r \in Readers
  PROVE  /\ ReadersTyped /\ reader[r] \in ReaderView /\ quiet[r] \in BOOLEAN
         /\ Follows(reader[r]) /\ Replays(reader[r])
         /\ quiet[r] => Undisturbed(reader[r]) /\ lock = NoOne
BY DEF GoodReaders, GoodView, ReadersTyped, Undisturbed

LEMMA StartOpenMoves ==
  ASSUME Settled, GoodReaders, NEW r \in Readers, StartOpen(r)
  PROVE  ReaderMoves(r, lock = NoOne)
<1>1. PICK v \in ReaderView : v = reader[r] /\ Replays(v)
  BY ReaderHas
<1>2. v.at = "closed" /\ reader' = [reader EXCEPT ![r] = [v EXCEPT !.at = "load", !.opening = TRUE]]
  BY <1>1 DEF StartOpen
<1>3. PICK new : new = [v EXCEPT !.at = "load", !.opening = TRUE]
  OBVIOUS
<1>4. new \in ReaderView /\ new.at = "load" /\ new.head = v.head
  BY <1>3 DEF ReaderView, Places
<1>5. Takes(r, new)
  BY <1>2, <1>3, <1>4, ReaderHas, Taken
<1>6. IsPrefix(v.head, From)
  <2>1. v.head = <<>> /\ From \in Chain
    BY <1>1, <1>2, Heads DEF Replays, Settled, Core
  <2> QED BY <2>1 DEF IsPrefix, Chain
<1>7. GoodView(new, lock = NoOne)
  BY <1>4, <1>6 DEF GoodView, Follows, Replays, Undisturbed, Listed
<1> QED BY <1>2, <1>4, <1>5, <1>7, <1>1 DEF ReaderMoves, Onward

LEMMA StartRefreshMoves ==
  ASSUME Settled, GoodReaders, NEW r \in Readers, StartRefresh(r)
  PROVE  ReaderMoves(r, lock = NoOne)
<1>1. PICK v \in ReaderView : v = reader[r] /\ Follows(v)
  BY ReaderHas
<1>2. v.at = "idle" /\ reader' = [reader EXCEPT ![r] = [v EXCEPT !.at = "sized", !.size = Len(active)]]
  BY <1>1 DEF StartRefresh
<1>3. PICK new : new = [v EXCEPT !.at = "sized", !.size = Len(active)]
  OBVIOUS
<1>4. /\ new \in ReaderView /\ new.at = "sized" /\ new.size = Len(active)
      /\ new.head = v.head /\ new.segs = v.segs /\ new.end = v.end
      /\ new.pending = v.pending /\ new.era = v.era
  BY <1>3, Heads DEF ReaderView, Places, Settled, Core
<1>5. Takes(r, new)
  BY <1>2, <1>3, <1>4, ReaderHas, Taken
<1>6. Follows(new)
  BY <1>1, <1>2, <1>4 DEF Follows
<1>7. GoodView(new, lock = NoOne)
  BY <1>4, <1>6 DEF GoodView, Replays, Undisturbed, Rebuilding, Listed
<1> QED BY <1>4, <1>5, <1>7 DEF ReaderMoves, Onward

LEMMA ListSegmentsMoves ==
  ASSUME Settled, GoodReaders, NEW r \in Readers, ListSegments(r)
  PROVE  ReaderMoves(r, quiet[r])
<1>1. PICK v \in ReaderView : v = reader[r] /\ Follows(v) /\ v.at = "sized"
  BY ReaderHas DEF ListSegments
<1>2. v.end \in Nat /\ v.size \in Nat /\ v.segs \in Nat /\ Len(sealed) \in Nat
  BY Heads, ViewFields DEF Settled, Core
<1>3. CASE v.pending \/ Len(sealed) # v.segs \/ v.size < v.end
  <2>1. Rebuild(r)
    BY <1>1, <1>3 DEF ListSegments
  <2>2. v.pending \/ Len(sealed) # v.segs
    BY <1>1, <1>2, <1>3 DEF Follows
  <2>3. IsPrefix(reader[r].head, From)
    BY <1>1, <2>2, FollowsPast
  <2> QED BY <2>1, <2>3, ReaderHas, RebuildMoves
<1>4. CASE ~(v.pending \/ Len(sealed) # v.segs \/ v.size < v.end)
  <2>1. reader' = [reader EXCEPT ![r] = [v EXCEPT !.at = "tail", !.size = 0]]
    BY <1>1, <1>4 DEF ListSegments
  <2>2. PICK new : new = [v EXCEPT !.at = "tail", !.size = 0]
    OBVIOUS
  <2>3. /\ new \in ReaderView /\ new.at = "tail"
        /\ new.head = v.head /\ new.segs = v.segs /\ new.end = v.end
        /\ new.pending = v.pending /\ new.era = v.era
    BY <2>2 DEF ReaderView, Places
  <2>4. Takes(r, new)
    BY <2>1, <2>2, <2>3, ReaderHas, Taken
  <2>5. Follows(new)
    BY <1>1, <1>4, <2>3 DEF Follows
  <2>6. quiet[r] => lock = NoOne
    BY ReaderHas
  <2>7. GoodView(new, quiet[r])
    BY <1>4, <2>3, <2>5, <2>6 DEF GoodView, Replays, Undisturbed, Rebuilding, Listed
  <2> QED BY <2>3, <2>4, <2>7 DEF ReaderMoves, Onward
<1> QED BY <1>3, <1>4

\* A generation that is listed while nobody holds the lock lies where the segments end.
LEMMA QuietGeneration ==
  ASSUME Settled, lock = NoOne
  PROVE  Newest \subseteq {From}
<1>1. SUFFICES ASSUME NEW base \in Newest PROVE base = From
  OBVIOUS
<1>2. PICK h \in Complete : base = h.head /\ \A k \in Complete : Len(k.head) <= Len(h.head)
  BY DEF Newest
<1>3. PICK g \in Complete : g.head = From
  BY <1>2, NobodyRotates DEF GoodGens, Settled, Core
<1>4. \A k \in Complete : k.head \in Chain /\ Len(k.head) \in Nat /\ Len(k.head) <= Len(From)
                          /\ (Len(k.head) = Len(From) => k.head = From)
  BY Heads DEF Complete, GoodGens, FilesTyped, Chain, Settled, Core
<1> QED BY <1>2, <1>3, <1>4, Heads DEF Settled, Core

LEMMA LoadCheckpointMoves ==
  ASSUME Settled, GoodReaders, NEW r \in Readers, LoadCheckpoint(r)
  PROVE  ReaderMoves(r, quiet[r])
<1>1. PICK v \in ReaderView : v = reader[r] /\ Replays(v) /\ v.at = "load"
  BY ReaderHas DEF LoadCheckpoint
<1>2. PICK base : /\ base = {} \/ \E newest \in Newest : base = {newest}
                  /\ reader' = [reader EXCEPT ![r] = [v EXCEPT !.at = "loaded", !.base = base]]
  BY <1>1 DEF LoadCheckpoint
<1>3. base = {} \/ \E k \in 0 .. Len(sealed) : base = {SealedHead(k)}
  <2>1. \A newest \in Newest : \E k \in 0 .. Len(sealed) : newest = SealedHead(k)
    BY DEF Newest, Complete, Settled, GensSealed
  <2> QED BY <1>2, <2>1
<1>4. base \in SUBSET Chain
  <2>1. \A k \in 0 .. Len(sealed) : SealedHead(k) \in Chain
    BY SegmentHead DEF Settled, Core
  <2> QED BY <1>3, <2>1
<1>5. PICK new : new = [v EXCEPT !.at = "loaded", !.base = base]
  OBVIOUS
<1>6. new \in ReaderView /\ new.at = "loaded" /\ new.head = v.head /\ new.base = base
  BY <1>4, <1>5 DEF ReaderView, Places
<1>7. Takes(r, new)
  BY <1>2, <1>5, <1>6, ReaderHas, Taken
<1>8. Replays(new)
  BY <1>1, <1>3, <1>6 DEF Replays, Rebuilding, Listed
<1>9. quiet[r] => lock = NoOne /\ base \subseteq {From}
  BY <1>2, QuietGeneration, ReaderHas
<1>10. GoodView(new, quiet[r])
  BY <1>6, <1>8, <1>9 DEF GoodView, Follows, Undisturbed, Listed
<1> QED BY <1>6, <1>7, <1>10 DEF ReaderMoves, Onward

LEMMA ListForReplayMoves ==
  ASSUME Settled, GoodReaders, NEW r \in Readers, ListForReplay(r)
  PROVE  ReaderMoves(r, quiet[r])
<1>1. PICK v \in ReaderView : /\ v = reader[r] /\ Replays(v) /\ v.at = "loaded"
                              /\ quiet[r] => Undisturbed(v) /\ lock = NoOne
  BY ReaderHas DEF ListForReplay
<1>2. CASE Fail(r)
  BY <1>2, ReaderHas, FailMoves
<1>3. CASE reader' = [reader EXCEPT ![r] = [v EXCEPT !.at = "listed", !.list = Len(sealed)]]
  <2>1. PICK new : new = [v EXCEPT !.at = "listed", !.list = Len(sealed)]
    OBVIOUS
  <2>2. /\ new \in ReaderView /\ new.at = "listed" /\ new.head = v.head /\ new.base = v.base
        /\ new.list = Len(sealed) /\ Len(sealed) \in Nat
    BY <2>1, Heads DEF ReaderView, Places, Settled, Core
  <2>3. Takes(r, new)
    BY <1>3, <2>1, <2>2, ReaderHas, Taken
  <2>4. Replays(new)
    <3>1. IsPrefix(new.head, From) /\ SealedHead(new.list) = From
      BY <1>1, <2>2 DEF Replays, Rebuilding, From
    <3>2. new.base = {} \/ \E k \in 0 .. new.list : new.base = {SealedHead(k)}
      BY <1>1, <2>2 DEF Replays
    <3> QED BY <2>2, <3>1, <3>2 DEF Replays
  <2>5. quiet[r] => lock = NoOne /\ new.base \subseteq {From}
    BY <1>1, <2>2 DEF Undisturbed, Rebuilding
  <2>6. GoodView(new, quiet[r])
    BY <2>2, <2>4, <2>5 DEF GoodView, Follows, Undisturbed
  <2> QED BY <2>2, <2>3, <2>6 DEF ReaderMoves, Onward
<1> QED BY <1>1, <1>2, <1>3 DEF ListForReplay

\* Which segment the first frame of the active file continues.
LEMMA FirstFrame ==
  ASSUME Settled, active # <<>>, NEW k \in 0 .. Len(sealed), active[1].prev = SealedHead(k)
  PROVE  /\ Plain => k = Len(sealed)
         /\ Duplicate => k + 1 = Len(sealed)
<1>1. active \in Seq(Frame) /\ 1 \in 1 .. Len(active) /\ Len(sealed) \in Nat /\ k \in Nat
  BY Heads DEF FilesTyped, Settled, Core
<1>2. ASSUME Plain PROVE k = Len(sealed)
  <2>1. SealedHead(k) = From
    BY <1>1, <1>2 DEF Plain, Chained
  <2> QED BY <2>1, SegmentFrom DEF Settled, Core
<1>3. ASSUME Duplicate PROVE k + 1 = Len(sealed)
  <2>1. Len(sealed) \in 1 .. Len(sealed) /\ active = sealed[Len(sealed)]
    BY <1>1, <1>3, LastSealed DEF Duplicate, Settled, Core
  <2>2. active[1].prev = SealedHead(Len(sealed) - 1)
    BY <1>1, <2>1 DEF Settled, Core, GoodFiles, SealedChained, Chained
  <2>3. PICK n \in 0 .. Len(sealed) : n = Len(sealed) - 1
    <3>1. Len(sealed) - 1 \in 0 .. Len(sealed)
      BY <1>1, <2>1
    <3> QED BY <3>1
  <2>4. SealedHead(k) = SealedHead(n) /\ Len(SealedHead(n)) \in Nat
    BY <2>2, <2>3, SegmentHead DEF Settled, Core
  <2>5. ~(k < n) /\ ~(n < k)
    BY <2>4 DEF Settled, SealedAscends
  <2> QED BY <1>1, <2>3, <2>5
<1> QED BY <1>2, <1>3

LEMMA CheckRotationMoves ==
  ASSUME Settled, GoodReaders, NEW r \in Readers, CheckRotation(r)
  PROVE  ReaderMoves(r, quiet[r])
<1>1. /\ reader[r] \in ReaderView /\ Replays(reader[r]) /\ reader[r].at = "listed"
      /\ quiet[r] => Undisturbed(reader[r]) /\ lock = NoOne
  BY ReaderHas DEF CheckRotation
<1>2. CASE WithoutAnchor(r)
  <2>1. IsPrefix(reader[r].head, From)
    BY <1>1 DEF Replays, Rebuilding
  <2> QED BY <1>2, <2>1, <1>1, ReaderHas, WithoutAnchorMoves
<1>3. ASSUME NEW place \in {"rotating", "replay"}, Goto(r, place),
             place = "rotating" => reader[r].base = {} /\ reader[r].list > 0,
             place = "replay" /\ reader[r].list = Len(sealed) => Plain
      PROVE  ReaderMoves(r, quiet[r])
  <2>1. PICK new \in ReaderView : /\ Takes(r, new) /\ new.at = place /\ new.head = reader[r].head
                                  /\ new.list = reader[r].list /\ new.base = reader[r].base
    BY <1>3, ReaderHas, GotoTakes DEF Places
  <2>2. Replays(new)
    <3>1. IsPrefix(new.head, From) /\ new.list <= Len(sealed) /\ IsPrefix(new.head, SealedHead(new.list))
          /\ (new.base = {} \/ \E k \in 0 .. new.list : new.base = {SealedHead(k)})
      BY <1>1, <2>1 DEF Replays, Rebuilding, Listed
    <3> QED BY <1>3, <2>1, <3>1 DEF Replays
  <2>3. quiet[r] => lock = NoOne /\ new.base \subseteq {From} /\ new.list = Len(sealed)
    BY <1>1, <2>1 DEF Undisturbed, Rebuilding, Listed
  <2>4. GoodView(new, quiet[r])
    BY <1>3, <2>1, <2>2, <2>3 DEF GoodView, Follows, Undisturbed
  <2> QED BY <1>3, <2>1, <2>4 DEF ReaderMoves, Onward
<1>4. CASE reader[r].list > 0 /\ active # <<>> /\ Len(Id(active[1])) <= SegmentName(reader[r].list)
  BY <1>1, <1>2, <1>3, <1>4 DEF CheckRotation
<1>5. CASE ~(reader[r].list > 0 /\ active # <<>> /\ Len(Id(active[1])) <= SegmentName(reader[r].list))
  <2>1. Goto(r, "replay")
    BY <1>5 DEF CheckRotation
  <2>2. ASSUME reader[r].list = Len(sealed) PROVE Plain
    <3>1. ~PendingRotation
      BY <1>5, <2>2, Heads DEF PendingRotation, FilesTyped, Settled, Core
    <3> QED BY <3>1, Shapes DEF Settled, Core, GoodFiles
  <2> QED BY <1>3, <2>1, <2>2
<1> QED BY <1>4, <1>5

LEMMA CheckDuplicateMoves ==
  ASSUME Settled, GoodReaders, NEW r \in Readers, CheckDuplicate(r)
  PROVE  ReaderMoves(r, quiet[r])
<1>1. PICK v \in ReaderView : /\ v = reader[r] /\ Replays(v) /\ v.at = "rotating"
                              /\ quiet[r] => Undisturbed(v) /\ lock = NoOne
  BY ReaderHas DEF CheckDuplicate
<1>2. CASE Fail(r)
  BY <1>2, <1>1, ReaderHas, FailMoves
<1>3. CASE active = sealed[v.list] /\ ~torn
  <2>1. v.list \in 0 .. Len(sealed) /\ v.list > 0 /\ IsPrefix(v.head, SealedHead(v.list))
    BY <1>1, Heads, ViewFields DEF Replays, Listed, Settled, Core
  <2>2. PICK past \in Chain : past = SealedHead(v.list)
    BY <2>1, SegmentHead DEF Settled, Core
  <2>3. PICK rotating \in BOOLEAN : rotating = TRUE /\ Rebuilt(r, past, rotating)
    BY <1>1, <1>3, <2>2 DEF CheckDuplicate
  <2>4. PICK new \in ReaderView : /\ Takes(r, new) /\ new.at = "idle" /\ new.head = past
                                  /\ new.segs = v.list /\ new.pending = rotating
    <3>1. TypeInv /\ GoodFiles /\ ReadersTyped /\ Rebuilt(r, past, rotating)
      BY <2>3, ReaderHas DEF Settled, Core
    <3>2. \E new \in ReaderView :
            /\ Takes(r, new) /\ new.at = "idle" /\ new.head = past /\ new.segs = reader[r].list
            /\ new.end = Len(active) /\ new.pending = rotating /\ new.era = Era
      BY <3>1, RebuiltTakes
    <3> QED BY <1>1, <3>2
  <2>5. Follows(new)
    BY <2>1, <2>2, <2>3, <2>4 DEF Follows
  <2>6. ASSUME quiet[r] PROVE past = Tip /\ lock = NoOne
    <3>1. v.list = Len(sealed) /\ lock = NoOne
      BY <1>1, <2>6 DEF Undisturbed, Listed
    <3>2. Duplicate
      <4>1. sealed # <<>> /\ sealed[Len(sealed)] # <<>>
        BY <2>1, <3>1, Heads, LastSealed DEF FilesTyped, Settled, Core
      <4> QED BY <1>3, <3>1, <4>1 DEF Duplicate
    <3> QED BY <2>2, <3>1, <3>2, Shapes DEF From, Settled, Core
  <2>7. GoodView(new, quiet[r])
    BY <2>4, <2>5, <2>6 DEF GoodView, Replays, Undisturbed, Rebuilding, Listed
  <2> QED BY <1>1, <2>1, <2>2, <2>4, <2>7 DEF ReaderMoves, Onward
<1> QED BY <1>1, <1>2, <1>3 DEF CheckDuplicate

LEMMA CloseReaderMoves ==
  ASSUME Settled, GoodReaders, NEW r \in Readers, CloseReader(r)
  PROVE  ReaderMoves(r, FALSE)
<1>1. PICK new \in ReaderView : new = Unopened /\ new.at = "closed" /\ new.head = <<>>
  BY UnopenedView
<1>2. Takes(r, new)
  BY <1>1, ReaderHas, Taken DEF CloseReader
<1>3. GoodView(new, FALSE)
  BY <1>1, GoneView
<1> QED BY <1>1, <1>2, <1>3 DEF ReaderMoves, Onward

\* How often the active file was reset, by its shape.
LEMMA EraHere ==
  ASSUME Settled
  PROVE  /\ Plain => Era = Len(sealed)
         /\ Duplicate => Era + 1 = Len(sealed) /\ ~Plain /\ Tip = From
         /\ Era \in Nat
<1>1. Len(sealed) \in Nat /\ (sealed = <<>> <=> Len(sealed) = 0)
  BY Heads DEF FilesTyped, Settled, Core
<1>2. Duplicate => ~Plain /\ Tip = From
  BY Shapes DEF Settled, Core
<1>3. (Plain => Era = Len(sealed)) /\ (Duplicate => Era + 1 = Len(sealed))
  BY <1>1, Shapes DEF Era, Duplicate, Settled, Core
<1>4. Era \in Nat
  BY <1>1, <1>3 DEF Era, PendingRotation
<1> QED BY <1>2, <1>3, <1>4

\* A handle at the end of an active file with frames, having listed what comes before.
LEMMA TipFollows ==
  ASSUME Settled, active # <<>>, NEW v \in ReaderView, v.at = "idle", v.head = Tip, ~v.pending,
         v.end = Len(active), v.era = Era, v.segs = Era
  PROVE  Follows(v)
<1>1. Len(sealed) \in Nat /\ Len(active) \in 1 .. Len(active) /\ Tip = Id(active[Len(active)])
  BY Heads DEF Settled, Core
<1>2. /\ Plain => Era = Len(sealed)
      /\ Duplicate => Era + 1 = Len(sealed) /\ ~Plain /\ Tip = From
      /\ Era \in Nat /\ (Plain \/ Duplicate)
  BY EraHere DEF Settled, Core, GoodFiles
<1>3. ASSUME Era < Len(sealed) PROVE IsPrefix(v.head, SealedHead(v.segs + 1))
  <2>1. v.head = From /\ From \in Chain /\ SealedHead(v.segs + 1) = From
    BY <1>1, <1>2, <1>3, Heads DEF Settled, Core, From
  <2> QED BY <2>1, PrefixItself
<1>4. Era = Len(sealed) => Plain
  BY <1>1, <1>2
<1>5. Era <= Len(sealed) /\ Len(active) > 0
  BY <1>1, <1>2
<1> QED BY <1>1, <1>2, <1>3, <1>4, <1>5 DEF Follows

\* An empty active file leaves a view at the end of its segments, or behind it.
LEMMA AtEndOrBehind ==
  ASSUME Settled, NEW n \in 0 .. Len(sealed), NEW view \in ReaderView, view.segs = n, view.end = 0,
         ~view.pending, Behind(view.head, n)
  PROVE  view.head = SealedHead(n) \/ AnchoredBehind(view)
<1>1. PICK k \in 0 .. n : view.head = SealedHead(k)
  BY DEF Behind
<1>2. /\ Len(SealedHead(k)) <= Len(SealedHead(n))
      /\ Len(SealedHead(k)) = Len(SealedHead(n)) => k = n
      /\ k \in 0 .. Len(sealed)
  BY SegmentPast DEF Settled, Core
<1>3. Len(SealedHead(k)) \in Nat /\ Len(SealedHead(n)) \in Nat
  BY <1>2, SegmentHead DEF Settled, Core
<1>4. k = n \/ Len(SealedHead(k)) < Len(SealedHead(n))
  BY <1>2, <1>3
<1> QED BY <1>1, <1>4 DEF AnchoredBehind, SegmentName

\* Where a rebuild that replayed the active file from one of its segments stands.
LEMMA ReplayedFollows ==
  ASSUME Settled, NEW v \in ReaderView, Replays(v), v.at = "replay",
         NEW k \in 0 .. v.list, Chained(active, SealedHead(k)),
         NEW new \in ReaderView, new.at = "idle", new.head = HeadAfter(active, SealedHead(k)),
         new.segs = v.list, new.end = Len(active), ~new.pending, new.era = Era
  PROVE  /\ Follows(new)
         /\ active # <<>> => new.head = Tip
         /\ active = <<>> => new.head = SealedHead(v.list) \/ AnchoredBehind(new)
<1>1. /\ v.list \in 0 .. Len(sealed) /\ v.list \in Nat /\ Len(sealed) \in Nat /\ k \in 0 .. Len(sealed)
      /\ v.list = Len(sealed) => Plain
  BY Heads, ViewFields DEF Replays, Listed, Settled, Core
<1>2. /\ Plain => Era = Len(sealed)
      /\ Duplicate => Era + 1 = Len(sealed) /\ ~Plain /\ Tip = From
      /\ Era \in Nat /\ (Plain \/ Duplicate)
  BY EraHere DEF Settled, Core, GoodFiles
<1>3. CASE active = <<>>
  <2>1. new.head = SealedHead(k) /\ new.end = 0 /\ Plain /\ Era = Len(sealed)
    BY <1>2, <1>3, ChainedEmpty DEF HeadAfter
  <2>2. Behind(new.head, new.segs)
    BY <2>1 DEF Behind
  <2>3. ASSUME v.list < Len(sealed) PROVE IsPrefix(new.head, SealedHead(v.list + 1))
    <3>1. PICK n \in 0 .. Len(sealed) : n = v.list + 1 /\ k \in 0 .. n
      BY <1>1, <2>3
    <3>2. IsPrefix(SealedHead(k), SealedHead(n))
      BY <3>1, SegmentPast DEF Settled, Core
    <3> QED BY <2>1, <3>1, <3>2
  <2>4. Follows(new)
    BY <1>1, <1>3, <2>1, <2>2, <2>3 DEF Follows
  <2>5. new.head = SealedHead(v.list) \/ AnchoredBehind(new)
    BY <1>1, <2>1, <2>2, AtEndOrBehind
  <2> QED BY <1>3, <2>4, <2>5
<1>4. CASE active # <<>>
  <2>1. active \in Seq(Frame) /\ Len(active) \in 1 .. Len(active) /\ 1 \in 1 .. Len(active)
        /\ Tip = Id(active[Len(active)])
    BY <1>4, Heads DEF FilesTyped, Settled, Core
  <2>2. new.head = Tip
    BY <1>4, <2>1, LastFrame DEF HeadAfter
  <2>3. active[1].prev = SealedHead(k)
    BY <2>1 DEF Chained
  <2>4. (Plain => k = Len(sealed)) /\ (Duplicate => k + 1 = Len(sealed))
    BY <1>1, <1>4, <2>3, FirstFrame
  <2>5. v.list = Era
    <3>1. k <= v.list /\ v.list <= Len(sealed)
      BY <1>1
    <3>2. CASE Plain
      BY <1>1, <1>2, <2>4, <3>1, <3>2
    <3>3. CASE Duplicate
      BY <1>1, <1>2, <2>4, <3>1, <3>3
    <3> QED BY <1>2, <3>2, <3>3
  <2>6. Follows(new)
    BY <1>4, <2>2, <2>5, TipFollows
  <2> QED BY <1>4, <2>2, <2>6
<1> QED BY <1>3, <1>4

LEMMA ReadActiveMoves ==
  ASSUME Settled, GoodReaders, NEW r \in Readers, ReadActive(r)
  PROVE  ReaderMoves(r, quiet[r])
<1>1. PICK v \in ReaderView : /\ v = reader[r] /\ Replays(v) /\ v.at = "replay"
                              /\ quiet[r] => Undisturbed(v) /\ lock = NoOne
  BY ReaderHas DEF ReadActive
<1>2. /\ v.list \in 0 .. Len(sealed) /\ v.list \in Nat
      /\ IsPrefix(v.head, From) /\ IsPrefix(v.head, SealedHead(v.list))
      /\ v.base = {} \/ \E k \in 0 .. v.list : v.base = {SealedHead(k)}
  BY <1>1, Heads, ViewFields DEF Replays, Rebuilding, Listed, Settled, Core
<1>3. PICK from : from = IF v.base = {} THEN SealedHead(v.list) ELSE CHOOSE base \in v.base : TRUE
  OBVIOUS
<1>4. PICK k \in 0 .. v.list :
        /\ from = SealedHead(k)
        /\ v.base \in {{}, {SealedHead(v.list)}} => from = SealedHead(v.list)
  BY <1>2, <1>3
<1>5. CASE Chained(active, from) /\ Rebuilt(r, HeadAfter(active, from), FALSE)
  <2>1. PICK past \in Chain : past = HeadAfter(active, from) /\ Rebuilt(r, past, FALSE)
    <3>1. HeadAfter(active, from) \in Chain
      BY <1>2, <1>4, Heads, SegmentHead, HeadAfterType DEF FilesTyped, Settled, Core
    <3> QED BY <1>5, <3>1
  <2>2. PICK new \in ReaderView : /\ Takes(r, new) /\ new.at = "idle" /\ new.head = past
                                  /\ new.segs = v.list /\ new.end = Len(active) /\ ~new.pending /\ new.era = Era
    <3>1. PICK rotating \in BOOLEAN : ~rotating /\ Rebuilt(r, past, rotating)
      BY <2>1
    <3>2. TypeInv /\ GoodFiles /\ ReadersTyped
      BY ReaderHas DEF Settled, Core
    <3> QED BY <1>1, <3>1, <3>2, RebuiltTakes
  <2>3. /\ Follows(new)
        /\ active # <<>> => new.head = Tip
        /\ active = <<>> => new.head = SealedHead(v.list) \/ AnchoredBehind(new)
    BY <1>1, <1>4, <1>5, <2>1, <2>2, ReplayedFollows
  <2>4. ASSUME quiet[r] PROVE new.head = Tip \/ AnchoredBehind(new)
    <3>1. v.list = Len(sealed)
      BY <1>1, <2>4 DEF Undisturbed, Listed
    <3>2. active = <<>> => Tip = From
      BY Heads DEF Settled, Core
    <3> QED BY <2>3, <2>4, <3>1, <3>2 DEF From
  <2>5. IsPrefix(v.head, new.head) \/ AnchoredBehind(new)
    <3>1. From \in Chain /\ Tip \in Chain /\ IsPrefix(From, Tip) /\ v.head \in Chain
      BY FromPast, ViewFields DEF Settled, Core
    <3> QED BY <1>2, <2>3, <3>1, PrefixOfPrefix
  <2>6. GoodView(new, quiet[r])
    BY <1>1, <2>2, <2>3, <2>4 DEF GoodView, Replays, Undisturbed, Rebuilding, Listed
  <2> QED BY <1>1, <2>2, <2>5, <2>6 DEF ReaderMoves, Onward
<1>6. CASE WithoutAnchor(r)
  BY <1>1, <1>2, <1>6, ReaderHas, WithoutAnchorMoves
<1>7. CASE Fail(r)
  BY <1>1, <1>7, ReaderHas, FailMoves
<1> QED BY <1>1, <1>3, <1>5, <1>6, <1>7 DEF ReadActive

\* The frames of a segment from some offset on end where it ends.
LEMMA TailEnds ==
  ASSUME NEW all \in Seq(Frame), NEW from \in Nat, from <= Len(all)
  PROVE  LET frames == SubSeq(all, from + 1, Len(all))
         IN  /\ frames \in Seq(Frame)
             /\ frames = <<>> => from = Len(all)
             /\ frames # <<>> =>
                  /\ all # <<>> /\ from + 1 \in 1 .. Len(all) /\ 1 \in 1 .. Len(frames)
                  /\ frames[1] = all[from + 1] /\ Last(frames) = all[Len(all)]
<1> DEFINE frames == SubSeq(all, from + 1, Len(all))
<1>1. /\ frames \in Seq(Frame) /\ Len(frames) = Len(all) - from /\ Len(all) \in Nat
      /\ \A i \in 1 .. Len(all) - from : frames[i] = all[from + i]
  BY TailOf
<1> HIDE DEF frames
<1>2. ASSUME frames = <<>> PROVE from = Len(all)
  BY <1>1, <1>2
<1>3. ASSUME frames # <<>>
      PROVE  /\ all # <<>> /\ from + 1 \in 1 .. Len(all) /\ 1 \in 1 .. Len(frames)
             /\ frames[1] = all[from + 1] /\ Last(frames) = all[Len(all)]
  <2>1. PICK n \in Nat : n = Len(frames) /\ n >= 1 /\ n = Len(all) - from
    <3>1. Len(frames) \in Nat /\ Len(frames) # 0
      BY <1>1, <1>3
    <3>2. Len(frames) >= 1
      BY <3>1
    <3>3. Len(frames) = Len(all) - from
      BY <1>1
    <3> QED BY <3>1, <3>2, <3>3, Zenon
  <2>2. 1 \in 1 .. n /\ n \in 1 .. n /\ from + n = Len(all) /\ Len(all) >= 1
    BY <1>1, <2>1
  <2>3. \A i \in 1 .. n : frames[i] = all[from + i]
    BY <1>1, <2>1
  <2>4. frames[1] = all[from + 1] /\ Last(frames) = all[Len(all)]
    BY <2>1, <2>2, <2>3 DEF Last
  <2>5. all # <<>> /\ from + 1 \in 1 .. Len(all)
    BY <1>1, <2>1, <2>2
  <2> QED BY <2>1, <2>2, <2>4, <2>5
<1> QED BY <1>1, <1>2, <1>3 DEF frames

LEMMA ReadTailMoves ==
  ASSUME Settled, GoodReaders, NEW r \in Readers, ReadTail(r)
  PROVE  ReaderMoves(r, quiet[r])
<1>1. PICK v \in ReaderView : /\ v = reader[r] /\ Follows(v) /\ v.at = "tail"
                              /\ quiet[r] => lock = NoOne /\ v.segs = Len(sealed)
  BY ReaderHas DEF ReadTail, Undisturbed
<1>2. /\ v.head \in Chain /\ v.segs \in Nat /\ v.end \in Nat /\ v.era \in Nat
      /\ Len(sealed) \in Nat /\ Len(active) \in Nat /\ active \in Seq(Frame)
  BY Heads, ViewFields DEF FilesTyped, Settled, Core
<1>3. /\ ~v.pending /\ v.segs <= Len(sealed) /\ v.segs <= v.era /\ v.era <= Era
      /\ v.end > 0 => v.era = v.segs
      /\ v.end = 0 => Behind(v.head, v.segs)
      /\ v.segs = Len(sealed) =>
           Plain /\ v.end <= Len(active) /\ (v.end > 0 => v.head = Id(active[v.end]))
  BY <1>1 DEF Follows
<1>4. /\ Plain => Era = Len(sealed)
      /\ Duplicate => Era + 1 = Len(sealed) /\ ~Plain /\ Tip = From
      /\ Era \in Nat
  BY EraHere
<1>5. /\ IsPrefix(v.head, Tip)
      /\ v.segs # Len(sealed) \/ v.end = 0 => IsPrefix(v.head, From)
  BY <1>1, FollowsPast
<1>6. ASSUME Rebuild(r), v.segs # Len(sealed) \/ v.end = 0 PROVE ReaderMoves(r, quiet[r])
  BY <1>1, <1>5, <1>6, ReaderHas, RebuildMoves
<1>7. ASSUME Fail(r) PROVE ReaderMoves(r, quiet[r])
  BY <1>7, ReaderHas, FailMoves
<1>8. CASE v.end > 0 /\ v.era # Era /\ (active # <<>> \/ torn)
  <2>1. v.segs # Len(sealed)
    BY <1>3, <1>4, <1>8
  <2>2. ASSUME Goto(r, "idle") PROVE ReaderMoves(r, quiet[r])
    <3>1. PICK new \in ReaderView :
            /\ Takes(r, new) /\ new.at = "idle" /\ new.head = v.head /\ new.segs = v.segs
            /\ new.end = v.end /\ new.pending = v.pending /\ new.era = v.era
      BY <1>1, <2>2, ReaderHas, GotoTakes DEF Places
    <3>2. Follows(new)
      BY <1>1, <3>1 DEF Follows
    <3>3. ~quiet[r]
      BY <1>1, <2>1
    <3>4. GoodView(new, quiet[r])
      BY <3>1, <3>2, <3>3 DEF GoodView, Replays, Rebuilding, Listed
    <3>5. IsPrefix(v.head, v.head)
      BY <1>2, PrefixItself
    <3> QED BY <1>1, <3>1, <3>4, <3>5 DEF ReaderMoves, Onward
  <2>3. Goto(r, "idle") \/ Rebuild(r) \/ Fail(r)
    BY <1>1, <1>8 DEF ReadTail
  <2> QED BY <1>6, <1>7, <2>1, <2>2, <2>3
<1>9. CASE ~(v.end > 0 /\ v.era # Era /\ (active # <<>> \/ torn)) /\ Len(active) < v.end
  <2>1. Rebuild(r)
    BY <1>1, <1>9 DEF ReadTail
  <2>2. v.segs # Len(sealed)
    BY <1>2, <1>3, <1>9
  <2> QED BY <1>6, <2>1, <2>2
<1>10. CASE ~(v.end > 0 /\ v.era # Era /\ (active # <<>> \/ torn)) /\ ~(Len(active) < v.end)
  <2>1. PICK frames : frames = SubSeq(active, v.end + 1, Len(active))
    OBVIOUS
  <2>2. /\ frames \in Seq(Frame)
        /\ frames = <<>> => v.end = Len(active)
        /\ frames # <<>> =>
             /\ active # <<>> /\ v.end + 1 \in 1 .. Len(active) /\ 1 \in 1 .. Len(frames)
             /\ frames[1] = active[v.end + 1] /\ Last(frames) = active[Len(active)]
    <3>1. PICK all \in Seq(Frame), from \in Nat : all = active /\ from = v.end /\ from <= Len(all)
      BY <1>2, <1>10
    <3>2. LET rest == SubSeq(all, from + 1, Len(all))
          IN  /\ rest \in Seq(Frame)
              /\ rest = <<>> => from = Len(all)
              /\ rest # <<>> =>
                   /\ all # <<>> /\ from + 1 \in 1 .. Len(all) /\ 1 \in 1 .. Len(rest)
                   /\ rest[1] = all[from + 1] /\ Last(rest) = all[Len(all)]
      BY <3>1, TailEnds
    <3>3. frames = SubSeq(all, from + 1, Len(all))
      BY <2>1, <3>1
    <3> QED BY <3>1, <3>2, <3>3
  <2>3. ASSUME frames = <<>> PROVE v.end = Len(active)
    BY <2>2, <2>3
  <2>4. ASSUME frames # <<>>
        PROVE  /\ active # <<>> /\ v.end + 1 \in 1 .. Len(active) /\ frames[1] = active[v.end + 1]
               /\ HeadAfter(frames, v.head) = Tip /\ 1 \in 1 .. Len(frames)
    BY <2>2, <2>4, Heads DEF HeadAfter, Settled, Core
  <2>5. CASE /\ Chained(frames, v.head)
             /\ reader' = [reader EXCEPT ![r] =
                  [v EXCEPT !.at = "idle", !.head = HeadAfter(frames, v.head), !.end = Len(active)]]
    <3>1. HeadAfter(frames, v.head) \in Chain
      BY <1>2, <2>2, HeadAfterType
    <3>2. PICK new : new = [v EXCEPT !.at = "idle", !.head = HeadAfter(frames, v.head), !.end = Len(active)]
      OBVIOUS
    <3>3. /\ new \in ReaderView /\ new.at = "idle" /\ new.head = HeadAfter(frames, v.head)
          /\ new.end = Len(active) /\ new.segs = v.segs /\ new.pending = v.pending /\ new.era = v.era
      BY <1>2, <3>1, <3>2 DEF ReaderView, Places
    <3>4. Takes(r, new)
      BY <2>5, <3>2, <3>3, ReaderHas, Taken
    <3>5. ASSUME frames = <<>> PROVE Follows(new) /\ new.head = v.head
      <4>1. new.head = v.head /\ new.end = v.end
        BY <2>3, <3>3, <3>5 DEF HeadAfter
      <4> QED BY <1>1, <3>3, <4>1 DEF Follows
    <3>6. ASSUME frames = <<>>, quiet[r] PROVE new.head = Tip \/ AnchoredBehind(new)
      <4>1. v.segs = Len(sealed) /\ v.end = Len(active) /\ new.head = v.head
        BY <1>1, <2>3, <3>5, <3>6
      <4>2. CASE v.end = 0
        <5>1. active = <<>>
          <6>1. Len(active) = 0 /\ active \in Seq(Frame)
            BY <1>2, <4>1, <4>2
          <6> QED BY <6>1
        <5>2. new.head = SealedHead(v.segs) \/ AnchoredBehind(new)
          BY <1>2, <1>3, <3>3, <4>1, <4>2, AtEndOrBehind
        <5> QED BY <4>1, <5>1, <5>2 DEF Tip
      <4>3. CASE v.end # 0
        BY <1>2, <1>3, <4>1, <4>3, Heads DEF Settled, Core
      <4> QED BY <4>2, <4>3
    <3>7. ASSUME frames # <<>> PROVE Follows(new) /\ new.head = Tip
      <4>1. active[v.end + 1].prev = v.head
        <5>1. 1 \in 1 .. Len(frames) /\ frames[1] = active[v.end + 1]
          BY <2>4, <3>7
        <5> QED BY <2>5, <5>1 DEF Chained
      <4>2. ASSUME v.end = 0 PROVE v.era = v.segs /\ v.segs = Era
        <5>1. PICK k \in 0 .. v.segs : v.head = SealedHead(k)
          BY <1>3, <4>2 DEF Behind
        <5>2. k \in 0 .. Len(sealed) /\ active[1].prev = SealedHead(k) /\ active # <<>>
          BY <1>2, <1>3, <2>4, <3>7, <4>1, <4>2, <5>1
        <5>3. (Plain => k = Len(sealed)) /\ (Duplicate => k + 1 = Len(sealed))
          BY <5>2, FirstFrame
        <5> QED BY <1>2, <1>3, <1>4, <5>1, <5>2, <5>3 DEF Settled, Core, GoodFiles
      <4>3. v.era = v.segs /\ v.segs = Era
        BY <1>2, <1>3, <1>10, <2>4, <3>7, <4>2
      <4>4. new.head = Tip /\ active # <<>>
        BY <2>4, <3>3, <3>7
      <4>5. Follows(new)
        BY <1>3, <3>3, <4>3, <4>4, TipFollows
      <4> QED BY <4>4, <4>5
    <3>8. Follows(new) /\ IsPrefix(v.head, new.head)
      BY <1>2, <1>5, <3>5, <3>7, PrefixItself
    <3>9. GoodView(new, quiet[r])
      BY <1>1, <3>3, <3>6, <3>7, <3>8 DEF GoodView, Replays, Undisturbed, Rebuilding, Listed
    <3> QED BY <1>1, <3>3, <3>4, <3>8, <3>9 DEF ReaderMoves, Onward
  <2>6. CASE ~(Chained(frames, v.head) /\ KeyOnce(HeadAfter(frames, v.head)))
    <3>1. ASSUME Rebuild(r), frames[1].prev # v.head PROVE v.segs # Len(sealed) \/ v.end = 0
      <4> SUFFICES ASSUME v.segs = Len(sealed), v.end # 0 PROVE FALSE
        OBVIOUS
      <4>1. Plain /\ v.head = Id(active[v.end])
        BY <1>2, <1>3
      <4>2. CASE frames = <<>>
        <5>1. HeadAfter(frames, v.head) = Tip
          BY <1>2, <2>3, <4>1, <4>2, Heads DEF HeadAfter, Settled, Core
        <5> QED BY <2>6, <4>2, <5>1 DEF Chained, Settled, Core, GoodFiles
      <4>3. CASE frames # <<>>
        <5>1. PICK j \in 1 .. Len(active) : j = v.end + 1 /\ frames[1] = active[j]
          BY <2>4, <4>3
        <5>2. j # 1 /\ j - 1 = v.end
          BY <1>2, <5>1
        <5>3. active[j].prev = Id(active[j - 1])
          BY <4>1, <5>2 DEF Plain, Chained
        <5> QED BY <3>1, <4>1, <5>1, <5>2, <5>3
      <4> QED BY <4>2, <4>3
    <3>2. (Rebuild(r) /\ frames[1].prev # v.head) \/ Fail(r)
      BY <1>1, <1>10, <2>1, <2>6 DEF ReadTail
    <3> QED BY <1>6, <1>7, <3>1, <3>2
  <2> QED BY <1>1, <1>10, <2>1, <2>5, <2>6 DEF ReadTail
<1> QED BY <1>8, <1>9, <1>10

\* A view that is good before and kept by the step is good afterwards.
LEMMA ViewAfter ==
  ASSUME NEW r \in Readers, NEW v \in ReaderView, reader'[r] = v, Follows(v)', Replays(v)',
         quiet'[r] => Undisturbed(v)'
  PROVE  GoodView(reader[r], quiet[r])'
<1>1. Follows(reader[r])'
  BY DEF Follows
<1>2. Replays(reader[r])'
  BY DEF Replays
<1>3. quiet'[r] => Undisturbed(reader[r])'
  BY DEF Undisturbed
<1> QED BY <1>1, <1>2, <1>3 DEF GoodView

\* A writer leaves the readers what they know, and the undisturbed ones undisturbed.
LEMMA WriterKeepsReaders ==
  ASSUME Settled, GoodReaders, TypeInv', GoodFiles', NEW w \in Writers, Step(w), reader' = reader,
         quiet' = [r \in Readers |-> quiet[r] /\ disk' = disk /\ lock' = NoOne]
  PROVE  GoodReaders'
<1>1. FilesStay \/ FrameGoesOn \/ SegmentSealed \/ ActiveReset
  BY FileMoves DEF Settled
<1>2. ReadersTyped'
  BY DEF GoodReaders, ReadersTyped
<1>3. ASSUME NEW r \in Readers PROVE GoodView(reader[r], quiet[r])'
  <2>1. PICK v \in ReaderView : /\ v = reader[r] /\ Follows(v) /\ Replays(v)
                                /\ quiet[r] => Undisturbed(v)
    BY ReaderHas
  <2>2. Follows(v)' /\ Replays(v)'
    BY <1>1, <2>1, FollowsKept, ReplaysKept
  <2>3. quiet'[r] => Undisturbed(v)'
    <3>1. quiet'[r] => quiet[r] /\ disk' = disk /\ lock' = NoOne
      OBVIOUS
    <3> QED BY <2>1, <3>1, UndisturbedKept
  <2> QED BY <2>1, <2>2, <2>3, ViewAfter
<1> QED BY <1>2, <1>3 DEF GoodReaders

\* So does a step that leaves all files alone, and what such a step is for.
LEMMA StillKept ==
  ASSUME Settled, TypeInv', GoodFiles', UNCHANGED vars, NEW v \in ReaderView, NEW undisturbed \in BOOLEAN,
         GoodView(v, undisturbed)
  PROVE  Follows(v)' /\ Replays(v)' /\ (undisturbed => Undisturbed(v)')
<1>1. FilesStay /\ disk' = disk /\ lock' = lock
  BY DEF vars, disk, FilesStay
<1>2. Follows(v)' /\ Replays(v)'
  BY <1>1, FollowsKept, ReplaysKept DEF GoodView
<1>3. undisturbed => Undisturbed(v) /\ lock' = NoOne
  BY <1>1 DEF GoodView, Undisturbed
<1> QED BY <1>1, <1>2, <1>3, UndisturbedKept

LEMMA ReaderStepMoves ==
  ASSUME Settled, GoodReaders, NEW r \in Readers, ReaderStep(r)
  PROVE  /\ quiet' \in [Readers -> BOOLEAN] /\ \A q \in Readers \ {r} : quiet'[q] = quiet[q]
         /\ ReaderMoves(r, quiet'[r])
<1>1. quiet \in [Readers -> BOOLEAN]
  BY ReaderHas DEF ReadersTyped
<1>2. CASE StartOpen(r) \/ StartRefresh(r)
  <2>1. PICK free \in BOOLEAN : free = (lock = NoOne)
    OBVIOUS
  <2>2. quiet' = [quiet EXCEPT ![r] = free]
    BY <1>2, <2>1 DEF StartOpen, StartRefresh
  <2>3. ReaderMoves(r, free)
    BY <1>2, <2>1, StartOpenMoves, StartRefreshMoves
  <2>4. quiet'[r] = free
    BY <1>1, <2>2
  <2> QED BY <1>1, <2>2, <2>3, <2>4
<1>3. CASE CloseReader(r)
  <2>1. PICK free \in BOOLEAN : free = FALSE
    OBVIOUS
  <2>2. quiet' = [quiet EXCEPT ![r] = free]
    BY <1>3, <2>1 DEF CloseReader
  <2>3. ReaderMoves(r, free)
    BY <1>3, <2>1, CloseReaderMoves
  <2>4. quiet'[r] = free
    BY <1>1, <2>2
  <2> QED BY <1>1, <2>2, <2>3, <2>4
<1>4. CASE ListSegments(r) \/ ReadTail(r) \/ LoadCheckpoint(r) \/ ListForReplay(r) \/ CheckRotation(r)
           \/ CheckDuplicate(r) \/ ReadActive(r)
  <2>1. quiet' = quiet
    BY <1>4 DEF ListSegments, ReadTail, LoadCheckpoint, ListForReplay, CheckRotation, CheckDuplicate,
                ReadActive
  <2>2. ReaderMoves(r, quiet[r])
    BY <1>4, ListSegmentsMoves, ReadTailMoves, LoadCheckpointMoves, ListForReplayMoves,
       CheckRotationMoves, CheckDuplicateMoves, ReadActiveMoves
  <2> QED BY <1>1, <2>1, <2>2
<1> QED BY <1>2, <1>3, <1>4 DEF ReaderStep

LEMMA ReaderStepKeeps ==
  ASSUME Settled, GoodReaders, TypeInv', GoodFiles', UNCHANGED vars, NEW r \in Readers, ReaderStep(r)
  PROVE  /\ GoodReaders'
         /\ \A q \in Readers : Onward(reader[q], reader'[q])
<1>1. /\ quiet' \in [Readers -> BOOLEAN] /\ \A q \in Readers \ {r} : quiet'[q] = quiet[q]
      /\ ReaderMoves(r, quiet'[r])
  BY ReaderStepMoves
<1>2. PICK new \in ReaderView : Takes(r, new) /\ GoodView(new, quiet'[r]) /\ Onward(reader[r], new)
  BY <1>1 DEF ReaderMoves
<1>3. /\ reader' \in [Readers -> ReaderView] /\ reader'[r] = new
      /\ \A q \in Readers \ {r} : reader'[q] = reader[q]
  BY <1>2 DEF Takes
<1>4. ReadersTyped'
  BY <1>1, <1>3 DEF ReadersTyped
<1>5. ASSUME NEW q \in Readers PROVE GoodView(reader[q], quiet[q])'
  <2>1. PICK v \in ReaderView : v = reader'[q]
    BY <1>3
  <2>2. PICK undisturbed \in BOOLEAN : undisturbed = quiet'[q]
    BY <1>1
  <2>3. GoodView(v, undisturbed)
    <3>1. CASE q = r
      BY <1>2, <1>3, <2>1, <2>2, <3>1
    <3>2. CASE q # r
      <4>1. v = reader[q] /\ undisturbed = quiet[q]
        BY <1>1, <1>3, <2>1, <2>2, <3>2
      <4> QED BY <4>1 DEF GoodReaders
    <3> QED BY <3>1, <3>2
  <2>4. Follows(v)' /\ Replays(v)' /\ (undisturbed => Undisturbed(v)')
    BY <2>3, StillKept
  <2> QED BY <2>1, <2>2, <2>4, ViewAfter
<1>6. ASSUME NEW q \in Readers PROVE Onward(reader[q], reader'[q])
  <2>1. CASE q = r
    BY <1>2, <1>3, <2>1
  <2>2. CASE q # r
    <3>1. reader'[q] = reader[q]
      BY <1>3, <2>2
    <3> QED BY <3>1 DEF Onward
  <2> QED BY <2>1, <2>2
<1> QED BY <1>4, <1>5, <1>6 DEF GoodReaders

\* No reader has anything in hand.
LEMMA NobodyReads ==
  ASSUME reader = [r \in Readers |-> Unopened], quiet = [r \in Readers |-> FALSE]
  PROVE  GoodReaders
<1>1. ReadersTyped
  BY UnopenedView DEF ReadersTyped
<1>2. ASSUME NEW r \in Readers PROVE GoodView(reader[r], quiet[r])
  <2>1. PICK v \in ReaderView, undisturbed \in BOOLEAN :
          /\ v = reader[r] /\ v.at = "closed" /\ v.head = <<>>
          /\ undisturbed = quiet[r] /\ ~undisturbed
    BY UnopenedView
  <2>2. GoodView(v, undisturbed)
    BY <2>1, GoneView
  <2> QED BY <2>1, <2>2
<1> QED BY <1>1, <1>2 DEF GoodReaders

\* The invariant of the journal with its readers on a machine that may stop.
TailInv == PowerInv /\ GoodReaders

LEMMA TailInvInit == TailingInit => TailInv
BY PowerInvInit, NobodyReads DEF TailingInit, TailInv

LEMMA TailInvStep ==
  ~InterruptLaterRotations /\ TailInv /\ [TailingNext]_rvars
    => TailInv' /\ \A r \in Readers : Onward(reader[r], reader'[r])
<1> SUFFICES ASSUME ~InterruptLaterRotations, TailInv, [TailingNext]_rvars
             PROVE  TailInv' /\ \A r \in Readers : Onward(reader[r], reader'[r])
  OBVIOUS
<1>1. [Next \/ LosePower]_vars
  BY DEF TailingNext, WriterStep, PowerFails, rvars, Next
<1>2. PowerInv'
  BY <1>1, PowerInvStep DEF TailInv
<1>3. Settled /\ GoodReaders /\ TypeInv' /\ GoodFiles'
  BY <1>2 DEF TailInv, PowerInv, Settled, Core
<1>4. ASSUME reader' = reader PROVE \A r \in Readers : Onward(reader[r], reader'[r])
  BY <1>4 DEF Onward
<1>5. CASE WriterStep
  <2>1. PICK w \in Writers : Step(w)
    BY <1>5 DEF WriterStep
  <2>2. GoodReaders' /\ reader' = reader
    BY <1>3, <1>5, <2>1, WriterKeepsReaders DEF WriterStep
  <2> QED BY <1>2, <1>4, <2>2 DEF TailInv
<1>6. CASE PowerFails
  <2>1. GoodReaders'
    <3>1. (reader = [r \in Readers |-> Unopened])' /\ (quiet = [r \in Readers |-> FALSE])'
      BY <1>6 DEF PowerFails
    <3> QED BY <3>1, NobodyReads, PTL
  <2>2. ASSUME NEW r \in Readers PROVE Onward(reader[r], reader'[r])
    BY <1>6, UnopenedView DEF PowerFails, Onward
  <2> QED BY <1>2, <2>1, <2>2 DEF TailInv
<1>7. CASE (\E r \in Readers : ReaderStep(r)) /\ UNCHANGED vars
  <2>1. GoodReaders' /\ \A r \in Readers : Onward(reader[r], reader'[r])
    BY <1>3, <1>7, ReaderStepKeeps
  <2> QED BY <1>2, <2>1 DEF TailInv
<1>8. CASE UNCHANGED rvars
  <2>1. UNCHANGED vars /\ reader' = reader /\ quiet' = quiet
    BY <1>8 DEF rvars
  <2>2. GoodReaders'
    <3>1. ReadersTyped'
      BY <1>3, <2>1 DEF GoodReaders, ReadersTyped
    <3>2. ASSUME NEW r \in Readers PROVE GoodView(reader[r], quiet[r])'
      <4>1. PICK v \in ReaderView, undisturbed \in BOOLEAN :
              v = reader[r] /\ undisturbed = quiet[r] /\ GoodView(v, undisturbed)
        BY <1>3, ReaderHas DEF GoodReaders
      <4>2. Follows(v)' /\ Replays(v)' /\ (undisturbed => Undisturbed(v)')
        BY <1>3, <2>1, <4>1, StillKept
      <4> QED BY <2>1, <4>1, <4>2, ViewAfter
    <3> QED BY <3>1, <3>2 DEF GoodReaders
  <2> QED BY <1>2, <1>4, <2>1, <2>2 DEF TailInv
<1> QED BY <1>5, <1>6, <1>7, <1>8 DEF TailingNext

LEMMA TailInvHolds ==
  ASSUME ~InterruptLaterRotations
  PROVE  TailingSpec => []TailInv
<1>1. TailingInit => TailInv
  BY TailInvInit
<1>2. TailInv /\ [TailingNext]_rvars => TailInv'
  BY TailInvStep
<1> QED BY <1>1, <1>2, PTL DEF TailingSpec

\* Whatever a reader shows is a past of the one chain: its refreshes and rebuilds
\* read the files one by one while writers append, rotate, replace generations and
\* crash, and still never show a commit that is not there, or two chains in one.
THEOREM ReadersShowThePast ==
  ASSUME ~InterruptLaterRotations
  PROVE  TailingSpec => []ReadersSeePast
<1>1. TailInv => ReadersSeePast
  <2> SUFFICES ASSUME TailInv PROVE ReadersSeePast
    OBVIOUS
  <2>1. TailingTypeOK
    <3> SUFFICES ASSUME NEW r \in Readers
                 PROVE  /\ quiet \in [Readers -> BOOLEAN]
                        /\ reader[r].at \in Places /\ reader[r].head \in Chain
                        /\ reader[r].base \in SUBSET Chain
                        /\ {reader[r].segs, reader[r].end, reader[r].era, reader[r].size,
                            reader[r].list} \subseteq Nat
      BY DEF TailingTypeOK, TailInv, GoodReaders, ReadersTyped
    <3>1. reader[r] \in ReaderView /\ quiet \in [Readers -> BOOLEAN]
      BY ReaderHas DEF TailInv, ReadersTyped
    <3> QED BY <3>1, ViewFields
  <2>2. ASSUME NEW r \in Readers, reader[r].at = "idle" PROVE IsPrefix(reader[r].head, Tip)
    BY <2>2, ReaderHas, FollowsPast DEF TailInv, PowerInv
  <2> QED BY <2>1, <2>2 DEF ReadersSeePast
<1> QED BY <1>1, TailInvHolds, PTL

\* Whatever schedule led there, a refresh during which no writer touched the files
\* ends where a fresh open would, or its handle is still at an anchor from before
\* the segments it lists (CurrentUnlessBehind): no other rotation, however many lie
\* between two refreshes, leaves a handle behind.
THEOREM RefreshIsCurrent ==
  ASSUME ~InterruptLaterRotations
  PROVE  TailingSpec => []CurrentUnlessBehind
<1>1. TailInv => CurrentUnlessBehind
  BY ReaderHas DEF TailInv, CurrentUnlessBehind, Undisturbed
<1> QED BY <1>1, TailInvHolds, PTL

\* Only such an anchor takes a handle back behind what it showed before, whether
\* its refresh was disturbed or not (BackOnlyToAnAnchor).
THEOREM ReadersOnlyAdvance ==
  ASSUME ~InterruptLaterRotations
  PROVE  TailingSpec => BackOnlyToAnAnchor
<1>1. TailingInit => TailInv
  BY TailInvInit
<1>2. TailInv /\ [TailingNext]_rvars => TailInv'
  BY TailInvStep
<1>3. TailInv /\ [TailingNext]_rvars
        => \A r \in Readers :
             reader[r].at \notin {"closed", "idle"} /\ ~reader[r].opening /\ reader'[r].at = "idle"
               => IsPrefix(reader[r].head, reader'[r].head) \/ AnchoredBehind(reader'[r])
  BY TailInvStep DEF Onward
<1> QED BY <1>1, <1>2, <1>3, PTL DEF TailingSpec, BackOnlyToAnAnchor
=============================================================================
