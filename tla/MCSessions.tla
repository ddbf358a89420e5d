------------------------------ MODULE MCSessions ------------------------------
(***************************************************************************)
(* The two ways to use a ModelSessionDirector: as the owner of loaded      *)
(* entries (Sessions), and behind the slots of one resident model          *)
(* (Residents).  A director is one or the other, so a behaviour of the run *)
(* is one of either: the other part rests in its initial state.  The       *)
(* requests and the Close calls of both go by the same names, so that one  *)
(* symmetry serves both.                                                   *)
(***************************************************************************)
EXTENDS Sessions, Residents, TLC

DirectorInit == SessionsInit /\ ResidentsInit

DirectorNext ==
  \/ ResidentsInit /\ SessionsNext /\ UNCHANGED residentVars
  \/ SessionsInit /\ ResidentsNext /\ UNCHANGED vars

DirectorSpec == DirectorInit /\ [][DirectorNext]_<<vars, residentVars>>

Symmetry ==
  Permutations(Requests) \cup Permutations(Keys) \cup Permutations(Scopes) \cup Permutations(Closers)
=============================================================================
