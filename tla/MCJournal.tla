------------------------------ MODULE MCJournal ------------------------------
(* Small instances of Journal. *)
EXTENDS Journal, TLC

CONSTANTS w1, w2, k1, k2, b1, b2

\* Two bodies compete for the first key; the other keys have one.
MCBatches == {[key |-> k1, body |-> b1], [key |-> k1, body |-> b2],
              [key |-> k2, body |-> b1]}

\* One batch to a key.
MCBatches2 == {[key |-> k1, body |-> b1], [key |-> k2, body |-> b1]}

\* The writable handles are interchangeable.
WriterSymmetry == Permutations(Writers)

=============================================================================
