------------------------------ MODULE MCTailing ------------------------------
(* Small instances of Tailing. *)
EXTENDS Tailing, TLC

CONSTANTS w1, r1, k1, k2, b1

\* One batch to a key: the readers do not tell the bodies apart.
MCBatches2 == {[key |-> k, body |-> b1] : k \in {k1, k2}}

\* Nothing tells the keys apart.
Keys == Permutations({k1, k2})

\* Bound: a client that repeats its batch is not followed past its answer,
\* which no reader and no file depends on.
NoRepeats == \A a \in acked : a.minted

\* A machine on which no rotation fails or is interrupted.
CalmStep == TailingNext /\ \A w \in Writers : pc[w] \in Rotating => pc'[w] \in Holding
CalmSpec == TailingInit /\ [][CalmStep]_rvars
=============================================================================
