------------------------------ MODULE MCStages ------------------------------
EXTENDS Stages, TLC

\* Two stages of one ready set and one that joins them.
JoinStages == {"encode", "condition", "decode"}
JoinEdges == {<<"encode", "decode">>, <<"condition", "decode">>}
JoinSets == << <<"condition", "encode">>, <<"decode">> >>
OneModule(s) == "module"

StagesSymmetry == Permutations(Runs)
==============================================================================
