------------------------------- MODULE MCBlobs -------------------------------
EXTENDS Blobs, TLC
CONSTANTS old, base, derived, w1, k1, k2, h1

\* Something old and small, something large, and something large derived from the
\* small one.
MCContents == {old, base, derived}
MCAncestors == [c \in MCContents |-> IF c = derived THEN {derived, old} ELSE {c}]

\* A keeper is a process of its own: its handle goes by its name, and two of them
\* change places with their handles.
Apart == (w1 :> h1) @@ (k1 :> k1) @@ (k2 :> k2)
KeeperSymmetry == Permutations({k1, k2})
==============================================================================
