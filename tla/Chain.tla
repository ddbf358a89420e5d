-------------------------------- MODULE Chain --------------------------------
(***************************************************************************)
(* What the OvergoDB journal promises, whatever files it is kept in: one   *)
(* sequence of batches that only grows at its end, holds a key once, and   *)
(* never loses what a client has been told is committed.                   *)
(***************************************************************************)
EXTENDS Integers, Sequences

CONSTANTS
  Batches,     \* records with a field key
  PowerLoss    \* may batches nobody was told about be lost?

VARIABLES
  log,         \* the committed batches
  kept         \* how many of them some client was told about

Init == log = <<>> /\ kept = 0

\* A batch whose key is new goes to the end.
Extend(batch) ==
  /\ \A i \in 1 .. Len(log) : log[i].key # batch.key
  /\ log' = Append(log, batch)
  /\ UNCHANGED kept

\* A client is told about a batch, and by that about all before it.
Tell(n) ==
  /\ kept < n /\ n <= Len(log)
  /\ kept' = n
  /\ UNCHANGED log

\* What nobody was told about may be lost with the power.
Lose(n) ==
  /\ PowerLoss
  /\ kept <= n /\ n < Len(log)
  /\ log' = SubSeq(log, 1, n)
  /\ UNCHANGED kept

Next ==
  \/ \E batch \in Batches : Extend(batch)
  \/ \E n \in 1 .. Len(log) : Tell(n)
  \/ \E n \in 0 .. Len(log) : Lose(n)

Spec == Init /\ [][Next]_<<log, kept>>
=============================================================================
