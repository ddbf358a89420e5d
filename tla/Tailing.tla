------------------------------- MODULE Tailing -------------------------------
(***************************************************************************)
(* Read-only handles on the journal.  A reader takes no lock: between the  *)
(* reads of one Refresh, or of one rebuild of its view, the writers of     *)
(* Journal may append, rotate the active segment and replace the           *)
(* checkpoint generation.  Every read of a file is a step of its own here; *)
(* the sealed segments never change once they are listed, so a listing     *)
(* and the replay of what it lists are one step.                           *)
(***************************************************************************)
EXTENDS Journal

CONSTANT Readers \* the read-only handles

VARIABLES
  reader,  \* what each reader has read, and where it is
  quiet    \* no file has changed since the reader's refresh began

rvars == <<vars, reader, quiet>>

(* The fields of a reader's view:                                          *)
(*   at       where the reader is                                          *)
(*   opening  the rebuild under way is an open, not a refresh              *)
(*   head     Store.head; segs, end, pending: Store.log.sealed,            *)
(*            Store.replayEnd, Store.log.pendingReset                      *)
(*   era      how often the active file had been reset when end was taken  *)
(*   size     the size of the active file, list the number of sealed       *)
(*            segments and base the checkpoint head the step before read   *)
Unopened ==
  [at |-> "closed", opening |-> FALSE, head |-> <<>>, segs |-> 0, end |-> 0,
   pending |-> FALSE, era |-> 0, size |-> 0, list |-> 0, base |-> {}]

\* How often the active file has been reset: once for every sealed segment,
\* the last one perhaps not yet.
Era == IF PendingRotation THEN Len(sealed) - 1 ELSE Len(sealed)

Goto(r, place) == reader' = [reader EXCEPT ![r].at = place]

\* The rebuild fails: an open leaves no handle, a refresh a faulted one.
Fail(r) ==
  reader' = [reader EXCEPT ![r] = IF @.opening THEN Unopened ELSE [Unopened EXCEPT !.at = "faulted"]]

\* The view is read anew; of what the reader knew only what it showed counts.
Rebuild(r) ==
  reader' = [reader EXCEPT ![r] = [Unopened EXCEPT !.at = "load", !.head = reader[r].head]]

\* The rebuild succeeds with this head; what the reader listed is what it
\* compares the directory with from now on.
Rebuilt(r, newHead, rotating) ==
  reader' = [reader EXCEPT ![r] =
    [Unopened EXCEPT !.at = "idle", !.head = newHead, !.segs = reader[r].list,
                     !.end = Len(active), !.pending = rotating, !.era = Era]]

\* The anchor does not fit the journal: the rebuild starts over without it.
WithoutAnchor(r) ==
  reader' = [reader EXCEPT ![r].at = "loaded", ![r].base = {}]

------------------------------------------------------------------------------
(* Refresh *)

StartOpen(r) ==
  /\ reader[r].at = "closed"
  /\ reader' = [reader EXCEPT ![r] = [@ EXCEPT !.at = "load", !.opening = TRUE]]
  /\ quiet' = [quiet EXCEPT ![r] = (lock = NoOne)]

\* refreshLocked stats the journal by its name ...
StartRefresh(r) ==
  /\ reader[r].at = "idle"
  /\ reader' = [reader EXCEPT ![r] = [@ EXCEPT !.at = "sized", !.size = Len(active)]]
  /\ quiet' = [quiet EXCEPT ![r] = (lock = NoOne)]

\* Mutant: only a shrunken file makes the reader rebuild.
ListSegmentsBySize(r) ==
  /\ reader[r].at = "sized"
  /\ IF reader[r].size < reader[r].end THEN Rebuild(r) ELSE Goto(r, "tail")
  /\ UNCHANGED quiet

\* ... lists the sealed segments, and decides between tail and rebuild.
ListSegments(r) ==
  /\ reader[r].at = "sized"
  /\ IF \/ reader[r].pending
        \/ Len(sealed) # reader[r].segs
        \/ reader[r].size < reader[r].end
     THEN Rebuild(r)
     ELSE reader' = [reader EXCEPT ![r] = [@ EXCEPT !.at = "tail", !.size = 0]]
  /\ UNCHANGED quiet

\* recordLog.refresh: the frames from the replay end on.  In a file that was
\* reset and written again the replay end is no frame boundary: its bytes
\* decode to nothing, to an incomplete frame, or by chance to a frame of
\* another predecessor.
ReadTail(r) ==
  LET v == reader[r]
      frames == SubSeq(active, v.end + 1, Len(active))
  IN
  /\ v.at = "tail"
  /\ UNCHANGED quiet
  /\ IF v.end > 0 /\ v.era # Era /\ (active # <<>> \/ torn)
     THEN Goto(r, "idle") \/ Rebuild(r) \/ Fail(r)
     ELSE IF Len(active) < v.end THEN Rebuild(r)
     ELSE IF Chained(frames, v.head) /\ KeyOnce(HeadAfter(frames, v.head))
     THEN reader' = [reader EXCEPT ![r] =
            [@ EXCEPT !.at = "idle", !.head = HeadAfter(frames, v.head),
                      !.end = Len(active)]]
     ELSE IF frames[1].prev # v.head /\ v.head # <<>> THEN Rebuild(r)
     ELSE Fail(r)

------------------------------------------------------------------------------
(* Rebuilding the view: replayLocked *)

\* loadProjectionCheckpoints: the newest complete generation, or none when the
\* one it listed is retired before its members are read.
LoadCheckpoint(r) ==
  /\ reader[r].at = "load"
  /\ \E base \in {{newest} : newest \in Newest}
                 \cup (IF Complete = {} \/ \E w \in Writers : pc[w] = "complete"
                       THEN {{}} ELSE {}) :
       reader' = [reader EXCEPT ![r] = [@ EXCEPT !.at = "loaded", !.base = base]]
  /\ UNCHANGED quiet

\* openRecordLog lists the sealed segments; without an anchor it replays them.
ListForReplay(r) ==
  /\ reader[r].at = "loaded"
  /\ IF reader[r].base = {} /\ ~(SealedChained /\ KeyOnce(SealedHead(Len(sealed))))
     THEN Fail(r)
     ELSE reader' = [reader EXCEPT ![r] = [@ EXCEPT !.at = "listed", !.list = Len(sealed)]]
  /\ UNCHANGED quiet

\* pendingRotation against the segments listed: the first frame's header.
CheckRotation(r) ==
  /\ reader[r].at = "listed"
  /\ IF /\ reader[r].list > 0
        /\ active # <<>>
        /\ Len(Id(active[1])) <= SegmentName(reader[r].list)
     THEN IF reader[r].base # {} THEN WithoutAnchor(r) ELSE Goto(r, "rotating")
     ELSE Goto(r, "replay")
  /\ UNCHANGED quiet

\* Mutant: the last segment is taken for the copy and skipped with it.
CheckDuplicateSkips(r) ==
  /\ reader[r].at = "rotating"
  /\ IF active = sealed[reader[r].list] /\ ~torn
     THEN Rebuilt(r, SealedHead(reader[r].list - 1), TRUE)
     ELSE Fail(r)
  /\ UNCHANGED quiet

\* finishRotation of a reader leaves the bytes and remembers the reset to come.
CheckDuplicate(r) ==
  /\ reader[r].at = "rotating"
  /\ IF active = sealed[reader[r].list] /\ ~torn
     THEN Rebuilt(r, SealedHead(reader[r].list), TRUE)
     ELSE Fail(r)
  /\ UNCHANGED quiet

\* replayActive: from the anchor, or from where the listed segments end.  An
\* active segment without a frame does not tell an anchor that a rotation has
\* left behind from one it continues: the replay takes either.
ReadActive(r) ==
  LET from == IF reader[r].base = {} THEN SealedHead(reader[r].list)
              ELSE CHOOSE base \in reader[r].base : TRUE
  IN
  /\ reader[r].at = "replay"
  /\ UNCHANGED quiet
  /\ IF Chained(active, from) /\ KeyOnce(HeadAfter(active, from))
     THEN Rebuilt(r, HeadAfter(active, from), FALSE)
     ELSE IF reader[r].base # {} /\ active[1].prev # from THEN WithoutAnchor(r)
     ELSE Fail(r)

\* The handle is closed; a faulted one can do nothing else.
CloseReader(r) ==
  /\ reader[r].at \in {"idle", "faulted"}
  /\ reader' = [reader EXCEPT ![r] = Unopened]
  /\ quiet' = [quiet EXCEPT ![r] = FALSE]

------------------------------------------------------------------------------
ReaderStep(r) ==
  \/ StartOpen(r) \/ StartRefresh(r) \/ ListSegments(r) \/ ReadTail(r)
  \/ LoadCheckpoint(r) \/ ListForReplay(r) \/ CheckRotation(r)
  \/ CheckDuplicate(r) \/ ReadActive(r) \/ CloseReader(r)

TailingInit ==
  /\ Init
  /\ reader = [r \in Readers |-> Unopened]
  /\ quiet = [r \in Readers |-> FALSE]

WriterStep ==
  /\ \E w \in Writers : Step(w)
  /\ quiet' = [r \in Readers |-> quiet[r] /\ disk' = disk /\ lock' = NoOne]
  /\ UNCHANGED reader

\* A power loss takes the readers with it.
PowerFails ==
  /\ LosePower
  /\ reader' = [r \in Readers |-> Unopened]
  /\ quiet' = [r \in Readers |-> FALSE]

TailingNext ==
  \/ WriterStep
  \/ PowerFails
  \/ (\E r \in Readers : ReaderStep(r)) /\ UNCHANGED vars

TailingSpec == TailingInit /\ [][TailingNext]_rvars

------------------------------------------------------------------------------
(* Properties *)

Places == {"closed", "idle", "faulted", "sized", "tail", "load", "loaded",
           "listed", "rotating", "replay"}

TailingTypeOK ==
  /\ quiet \in [Readers -> BOOLEAN]
  /\ \A r \in Readers :
       /\ reader[r].at \in Places
       /\ reader[r].head \in Chain
       /\ reader[r].base \in SUBSET Chain
       /\ {reader[r].segs, reader[r].end, reader[r].era, reader[r].size, reader[r].list} \subseteq Nat

\* What a reader shows is a past of the one chain, however its reads fall
\* between the writes of a commit, a rotation or a generation.
ReadersSeePast ==
  /\ TailingTypeOK
  /\ \A r \in Readers : reader[r].at = "idle" => IsPrefix(reader[r].head, Tip)

\* What a rebuild leaves that met an empty active segment with an anchor from
\* before the segments it listed: it shows none of those after the anchor.
AnchoredBehind(view) ==
  ~view.pending /\ view.end = 0 /\ Len(view.head) < SegmentName(view.segs)

\* A refresh takes a reader back behind what it showed before only to such an
\* anchor, however many rotations and generations its reads fall between
\* (Refresh "applies the validated committed tail to this handle").
BackOnlyToAnAnchor ==
  [][\A r \in Readers :
       reader[r].at \notin {"closed", "idle"} /\ ~reader[r].opening /\ reader'[r].at = "idle"
         => IsPrefix(reader[r].head, reader'[r].head) \/ AnchoredBehind(reader'[r])]_rvars

\* A refresh that no writer disturbed stands at the end of the chain, unless
\* the handle is still at an anchor an earlier rebuild left it behind at.
CurrentUnlessBehind ==
  \A r \in Readers :
    reader[r].at = "idle" /\ quiet[r] => reader[r].head = Tip \/ AnchoredBehind(reader[r])

\* It always stands there, as a handle opened at that moment would
\* (checkpoint_tail_test.go: "A reader held across rotation must match a fresh
\* reader").
QuietRefreshIsCurrent ==
  \A r \in Readers : reader[r].at = "idle" /\ quiet[r] => reader[r].head = Tip
=============================================================================
