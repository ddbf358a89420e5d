------------------------------ MODULE Lifecycle ------------------------------
(***************************************************************************)
(* What the observer of an operation manager may rely on: per identity one *)
(* attempt after another, each admitted, active and ended once, with       *)
(* nothing said of it after its end; an attempt gives way to another only  *)
(* when it has ended; and no settled operation is retained beyond the      *)
(* limit.                                                                  *)
(***************************************************************************)
EXTENDS Integers, FiniteSets

CONSTANTS
  Ids,     \* the identities of operations
  Active,  \* the states of an attempt that has not ended, "admitted" among them
  Settled, \* the states it may end in
  GivesWay, \* those of them that another attempt may follow
  Limit    \* how many operations are retained while a settled one is

VARIABLES
  notified,  \* the last notification about an identity, and how many there were
  retained   \* the identities the manager still answers for

Unknown == [state |-> "none", times |-> 0]

Notify(id, state) ==
  notified' = [notified EXCEPT ![id] = [state |-> state, times |-> @.times + 1]]

\* Of what is held, settled identities go until the limit is met.
Retain(held) ==
  \E gone \in SUBSET {id \in held : notified'[id].state \in Settled} :
    /\ retained' = held \ gone
    /\ Cardinality(retained') <= Limit \/ \A id \in retained' : notified'[id].state \in Active
    /\ gone # {} => Cardinality(held) - Cardinality(gone) >= Limit

Admit(id) ==
  /\ notified[id].state \in {"none"} \cup GivesWay
  /\ Notify(id, "admitted")
  /\ Retain(retained \cup {id})

Change(id, state) ==
  /\ notified[id].state \in Active
  /\ Notify(id, state)
  /\ UNCHANGED retained

End(id, state) ==
  /\ notified[id].state \in Active
  /\ Notify(id, state)
  /\ Retain(retained)

LifecycleInit == notified = [id \in Ids |-> Unknown] /\ retained = {}

LifecycleNext ==
  \E id \in Ids :
    \/ Admit(id)
    \/ \E state \in Active \ {"admitted"} : Change(id, state)
    \/ \E state \in Settled : End(id, state)

LifecycleSpec == LifecycleInit /\ [][LifecycleNext]_<<notified, retained>>
=============================================================================
