------------------------------ MODULE Operations ------------------------------
(***************************************************************************)
(* operation.Manager (internal/operation/runtime.go) with the human        *)
(* decisions that resume a blocked operation (server/operations.go,        *)
(* runrecord/human_decision.go).                                           *)
(*                                                                         *)
(* An identity is run by one attempt after another.  Everything a method   *)
(* does under the manager's mutex is one action; what it does after the    *)
(* unlock is another.  A status is its state: progress, metrics, series,   *)
(* attempts and text are reports that publish the status again.            *)
(***************************************************************************)
EXTENDS Integers, Sequences, FiniteSets, SequencesExt

CONSTANTS
  Ids,          \* the identities Submit may mint
  Limit,        \* Manager.limit, which config.MaxStoredResponses gives
  Deciders,     \* requests to /operations/decisions served at one time
  Callers,      \* requests to /operations/cancel served at one time
  MaxAttempts,  \* bound: attempts of all operations
  MaxReports,   \* bound: reports of an executor that publish its status
  MaxDecisions  \* bound: decisions about one operation

ASSUME OperationsAssumption ==
  /\ Ids \subseteq Nat \ {0}
  /\ Limit \in Nat \ {0}
  /\ MaxAttempts \in Nat
  /\ MaxReports \in Nat
  /\ MaxDecisions \in Nat

VARIABLES
  attempts,   \* every attempt there ever was: its operation, its state, its
              \* context, where its goroutine is, its reports
  entries,    \* Manager.entries: the attempt that holds an identity, 0 if none
  order,      \* Manager.order
  closing,    \* where Close is: "open", "waiting" or "returned"
  notified,   \* what the observer was last told of an identity, and how often
  decisions,  \* the chain of decisions published about each operation
  decider,    \* where each decision request is, and what it read
  caller      \* the attempt whose cancel function a Cancel has read, 0 if none

operationVars ==
  <<attempts, entries, order, closing, notified, decisions, decider, caller>>

------------------------------------------------------------------------------
Settled == {"completed", "blocked", "cancelled", "failed"}
Active == {"admitted", "preparing", "running", "publishing"}

\* terminal(state)
Terminal(a) == attempts[a].state \in Settled

Attempts == 1 .. Len(attempts)
Retained == {id \in Ids : entries[id] # 0}

\* Where the goroutine of an attempt is.  A starting attempt is admitted, and
\* the caller of start has not handed its goroutine to the wait group yet.
Places == {"starting", "launched", "prepared", "executing", "ended"}

\* publishLocked: the observer is told of the attempt's state, in the order of
\* the transitions (Event.Sequence).
Notify(id, state) ==
  notified' = [notified EXCEPT ![id] = [state |-> state, times |-> @.times + 1]]

\* How many of some places come before one.
Before(i, places) == Cardinality({j \in places : j < i})

\* The oldest settled identities of the line, as many as it exceeds the limit by.
Overdue(held, line, states) ==
  LET old == {i \in DOMAIN line : states[held[line[i]]].state \in Settled}
  IN  {line[i] : i \in {i \in old : Before(i, old) < Len(line) - Limit}}

\* The line without those who go.
Without(line, gone) ==
  LET stay == {i \in DOMAIN line : line[i] \notin gone}
  IN  [n \in 1 .. Cardinality(stay) |-> line[CHOOSE i \in stay : Before(i, stay) = n - 1]]

\* Mutant: the oldest entries go, settled or not.
TrimOldest(held, line, states) ==
  LET excess == IF Len(line) > Limit THEN Len(line) - Limit ELSE 0
      gone == {line[i] : i \in 1 .. excess}
  IN  <<[id \in Ids |-> IF id \in gone THEN 0 ELSE held[id]], Without(line, gone)>>

\* trimLocked: while there are more entries than the limit the oldest settled
\* one goes; active ones stay, however many they are.
Trim(held, line, states) ==
  LET gone == Overdue(held, line, states)
  IN  <<[id \in Ids |-> IF id \in gone THEN 0 ELSE held[id]], Without(line, gone)>>

Retain(held, line, states) ==
  LET kept == Trim(held, line, states)
  IN  entries' = kept[1] /\ order' = kept[2]

------------------------------------------------------------------------------
(* Starting an attempt *)

\* The part of start under the mutex, once nothing refuses it.
Admit(id) ==
  LET a == Len(attempts) + 1
      fresh == [id |-> id, state |-> "admitted", ctx |-> "live",
                place |-> "starting", reports |-> 0]
  IN  /\ a <= MaxAttempts
      /\ attempts' = Append(attempts, fresh)
      /\ Notify(id, "admitted")
      /\ Retain([entries EXCEPT ![id] = a],
                IF id \in Retained THEN order ELSE Append(order, id), attempts')

\* Submit: the identity is new; a closed manager refuses it.  Identities are numbered as
\* they come.
Submit(id) ==
  /\ closing = "open"
  /\ \A i \in Ids : i < id => \E a \in Attempts : attempts[a].id = i
  /\ \A a \in Attempts : attempts[a].id # id
  /\ Admit(id)
  /\ UNCHANGED <<closing, decisions, decider, caller>>

\* wait.Go, after the unlock: from here on Close waits for the attempt.
Launch(a) ==
  /\ attempts[a].place = "starting"
  /\ attempts' = [attempts EXCEPT ![a].place = "launched"]
  /\ UNCHANGED <<entries, order, closing, notified, decisions, decider, caller>>

------------------------------------------------------------------------------
(* The goroutine of an attempt *)

\* setState: an attempt that has settled ignores it.
SetState(a, state, place) ==
  /\ attempts' = [attempts EXCEPT ![a].place = place,
                                  ![a].state = IF Terminal(a) THEN @ ELSE state]
  /\ IF Terminal(a) THEN UNCHANGED notified ELSE Notify(attempts[a].id, state)
  /\ UNCHANGED <<entries, order, closing, decisions, decider, caller>>

Prepare(a) ==
  /\ attempts[a].place = "launched"
  /\ SetState(a, "preparing", "prepared")

Execute(a) ==
  /\ attempts[a].place = "prepared"
  /\ SetState(a, "running", "executing")

\* Reporter.Publishing, also from a goroutine the executor left behind.
Publishing(a) ==
  /\ attempts[a].place \in {"executing", "ended"}
  /\ attempts[a].state # "publishing"
  /\ SetState(a, "publishing", attempts[a].place)

\* How often executors have reported, of all attempts.
Reports == FoldLeft(LAMBDA n, attempt : n + attempt.reports, 0, attempts)

\* Mutant: a report is published whatever the attempt's state.
ReportAlways(a) ==
  /\ attempts[a].place \in {"executing", "ended"}
  /\ Reports < MaxReports
  /\ attempts' = [attempts EXCEPT ![a].reports = @ + 1]
  /\ Notify(attempts[a].id, attempts[a].state)
  /\ UNCHANGED <<entries, order, closing, decisions, decider, caller>>

\* Reporter.Progress, Metric, Attempt and Text: the status is published again,
\* and a report that comes after the end is dropped.
Report(a) ==
  /\ attempts[a].place \in {"executing", "ended"}
  /\ ~Terminal(a)
  /\ Reports < MaxReports
  /\ attempts' = [attempts EXCEPT ![a].reports = @ + 1]
  /\ Notify(attempts[a].id, attempts[a].state)
  /\ UNCHANGED <<entries, order, closing, decisions, decider, caller>>

\* What an executor returns: no durable run (with an error or without), an
\* error of its context, one an operator may act on, another, or none.
Returns == {"no run", "context error", "recoverable", "error", "ok"}

\* Mutant: what the executor returned is looked at before its context.
OutcomeLate(returned, ctx) ==
  CASE returned = "no run" -> "failed"
    [] returned = "recoverable" -> "blocked"
    [] returned = "error" -> "failed"
    [] returned = "ok" -> "completed"
    [] OTHER -> "cancelled"

\* The switch of run.
Outcome(returned, ctx) ==
  CASE returned = "no run" -> "failed"
    [] returned # "no run" /\ (returned = "context error" \/ ctx = "cancelled") -> "cancelled"
    [] returned = "recoverable" /\ ctx = "live" -> "blocked"
    [] returned = "error" /\ ctx = "live" -> "failed"
    [] returned = "ok" /\ ctx = "live" -> "completed"

\* run, after the executor returned: the status, the cancellation, the waiters
\* and the one event of the end are a single step under the mutex.
Settle(a) ==
  /\ attempts[a].place = "executing"
  /\ \E returned \in Returns :
       LET state == Outcome(returned, attempts[a].ctx)
       IN  /\ attempts' = [attempts EXCEPT ![a].state = state, ![a].ctx = "cancelled",
                                           ![a].place = "ended"]
           /\ Notify(attempts[a].id, state)
  /\ Retain(entries, order, attempts')
  /\ UNCHANGED <<closing, decisions, decider, caller>>

------------------------------------------------------------------------------
(* Cancelling *)

\* Cancel under the read lock: the cancel function of the active attempt.
ReadCancel(c) ==
  /\ caller[c] = 0
  /\ \E id \in Retained :
       /\ ~Terminal(entries[id])
       /\ caller' = [caller EXCEPT ![c] = entries[id]]
  /\ UNCHANGED <<attempts, entries, order, closing, notified, decisions, decider>>

\* The call, after the unlock, whatever became of the attempt.
CallCancel(c) ==
  /\ caller[c] # 0
  /\ attempts' = [attempts EXCEPT ![caller[c]].ctx = "cancelled"]
  /\ caller' = [caller EXCEPT ![c] = 0]
  /\ UNCHANGED <<entries, order, closing, notified, decisions, decider>>

\* The context the attempt was started under ends (a tool call's caller).
EndContext(a) ==
  /\ attempts[a].ctx = "live"
  /\ attempts' = [attempts EXCEPT ![a].ctx = "cancelled"]
  /\ UNCHANGED <<entries, order, closing, notified, decisions, decider, caller>>

\* Mutant: a closed manager does not cancel what it waits for.
CloseQuietly ==
  /\ closing = "open"
  /\ closing' = "waiting"
  /\ UNCHANGED <<attempts, entries, order, notified, decisions, decider, caller>>

\* Close under the mutex: nothing starts any more, every active attempt is
\* cancelled.
Close ==
  /\ closing = "open"
  /\ closing' = "waiting"
  /\ attempts' = [a \in Attempts |->
       IF entries[attempts[a].id] = a THEN [attempts[a] EXCEPT !.ctx = "cancelled"]
       ELSE attempts[a]]
  /\ UNCHANGED <<entries, order, notified, decisions, decider, caller>>

\* wait.Wait returns when every goroutine it was handed has ended.
CloseReturns ==
  /\ closing = "waiting"
  /\ \A a \in Attempts : attempts[a].place \in {"starting", "ended"}
  /\ closing' = "returned"
  /\ UNCHANGED <<attempts, entries, order, notified, decisions, decider, caller>>

------------------------------------------------------------------------------
(* Deciding: operationDecision, PublishHumanDecision, RecoverAfterDecision *)

NoDecision == [at |-> "idle", id |-> 0, prior |-> 0, answer |-> "none"]

Done(d) == decider' = [decider EXCEPT ![d] = NoDecision]

\* The request finds the operation blocked and resolves the decision it would
\* follow, which the caller's approval identity must name.
ReadBlocked(d) ==
  /\ decider[d].at = "idle"
  /\ \E id \in Retained, answer \in {"grant", "decline"} :
       /\ attempts[entries[id]].state = "blocked"
       /\ Len(decisions[id]) < MaxDecisions
       /\ decider' = [decider EXCEPT ![d] =
            [at |-> "read", id |-> id, prior |-> Len(decisions[id]), answer |-> answer]]
  /\ UNCHANGED <<attempts, entries, order, closing, notified, decisions, caller>>

\* Mutant: a decision that lost its race is acted on all the same.
PublishDecisionLost(d) ==
  /\ decider[d].at = "read"
  /\ LET id == decider[d].id
     IN  decisions' = IF Len(decisions[id]) = decider[d].prior
                      THEN [decisions EXCEPT ![id] = Append(@, decider[d].answer)]
                      ELSE decisions
  /\ IF decider[d].answer = "grant"
     THEN decider' = [decider EXCEPT ![d].at = "granted"]
     ELSE Done(d)
  /\ UNCHANGED <<attempts, entries, order, closing, notified, caller>>

\* The commit: its alias move needs the decision that was read to be the last
\* still.  The very decision again is answered as a repeat of its key, unless
\* the chain, which is resolved once more before the commit, is seen to differ.
PublishDecision(d) ==
  /\ decider[d].at = "read"
  /\ LET id == decider[d].id
         chain == decisions[id]
         follows == Len(chain) = decider[d].prior
         repeats == Len(chain) > decider[d].prior
                    /\ chain[decider[d].prior + 1] = decider[d].answer
     IN  /\ decisions' = IF follows
                         THEN [decisions EXCEPT ![id] = Append(@, decider[d].answer)]
                         ELSE decisions
         /\ \/ /\ (follows \/ repeats) /\ decider[d].answer = "grant"
               /\ decider' = [decider EXCEPT ![d].at = "granted"]
            \/ ~(follows /\ decider[d].answer = "grant") /\ Done(d)
  /\ UNCHANGED <<attempts, entries, order, closing, notified, caller>>

\* RecoverAfterDecision under the read lock: the operation is still blocked.
CheckGranted(d) ==
  /\ decider[d].at = "granted"
  /\ LET a == entries[decider[d].id]
     IN  IF a # 0 /\ attempts[a].state = "blocked"
         THEN decider' = [decider EXCEPT ![d].at = "checked"]
         ELSE Done(d)
  /\ UNCHANGED <<attempts, entries, order, closing, notified, decisions, caller>>

\* Recover and start: any settled attempt, or none, gives way to a new one.
Resume(d) ==
  /\ decider[d].at = "checked"
  /\ closing = "open"
  /\ LET a == entries[decider[d].id] IN a # 0 => Terminal(a)
  /\ Admit(decider[d].id)
  /\ Done(d)
  /\ UNCHANGED <<closing, decisions, caller>>

\* The manager was closed, or another attempt runs.
RefuseResume(d) ==
  /\ decider[d].at = "checked"
  /\ \/ closing # "open"
     \/ LET a == entries[decider[d].id] IN a # 0 /\ ~Terminal(a)
  /\ Done(d)
  /\ UNCHANGED <<attempts, entries, order, closing, notified, decisions, caller>>

------------------------------------------------------------------------------
OperationsInit ==
  /\ attempts = <<>> /\ order = <<>>
  /\ notified = [id \in Ids |-> [state |-> "none", times |-> 0]]
  /\ entries = [id \in Ids |-> 0]
  /\ closing = "open"
  /\ decisions = [id \in Ids |-> <<>>]
  /\ decider = [d \in Deciders |-> NoDecision]
  /\ caller = [c \in Callers |-> 0]

AttemptStep(a) ==
  Launch(a) \/ Prepare(a) \/ Execute(a) \/ Publishing(a) \/ Report(a) \/ Settle(a)
  \/ EndContext(a)

DeciderStep(d) ==
  ReadBlocked(d) \/ PublishDecision(d) \/ CheckGranted(d) \/ Resume(d) \/ RefuseResume(d)

OperationsNext ==
  \/ \E id \in Ids : Submit(id)
  \/ \E a \in Attempts : AttemptStep(a)
  \/ \E c \in Callers : ReadCancel(c) \/ CallCancel(c)
  \/ \E d \in Deciders : DeciderStep(d)
  \/ Close \/ CloseReturns

\* Goroutines that can run do run, and an executor returns once its context
\* is cancelled; nobody is obliged to submit, decide or close.
OperationsFairness ==
  /\ \A a \in 1 .. MaxAttempts :
       /\ WF_operationVars(a \in Attempts /\ (Launch(a) \/ Prepare(a) \/ Execute(a)))
       /\ WF_operationVars(a \in Attempts /\ attempts[a].ctx = "cancelled" /\ Settle(a))
  /\ \A c \in Callers : WF_operationVars(CallCancel(c))
  /\ WF_operationVars(CloseReturns)

OperationsSpec == OperationsInit /\ [][OperationsNext]_operationVars /\ OperationsFairness

------------------------------------------------------------------------------
(* Properties *)

\* An identity is run by one attempt at a time, and the map leads to it: no
\* resumption, eviction or late report leaves an active attempt nobody can
\* cancel (runtime.go: "It acts only on current").
OneActiveAttempt ==
  \A a \in Attempts : ~Terminal(a) => entries[attempts[a].id] = a

\* Who was cancelled before it ended never ends completed or blocked, whatever
\* its executor answers in the meantime.
CancelledNeverCompletes ==
  [][\A a \in Attempts :
       attempts[a].ctx = "cancelled" /\ ~Terminal(a) /\ Terminal(a)'
         => attempts'[a].state \in {"cancelled", "failed"}]_operationVars

\* A grant resumes the operation once, and only out of a blocked attempt
\* (recovery_test.go: "decision replay resumed completed work").
ResumesOnlyBlocked ==
  \A a, b \in Attempts :
    a < b /\ attempts[a].id = attempts[b].id => attempts[a].state = "blocked"

\* Nothing runs again unless a grant was committed for it: of two decisions
\* taken at once, the one that lost its place in the chain resumes nothing.
ResumedByGrant ==
  \A a, b \in Attempts :
    a < b /\ attempts[a].id = attempts[b].id
      => "grant" \in ToSet(decisions[attempts[a].id])

\* Close returns if executors heed their context, and all attempts settle.
CloseCompletes ==
  closing = "waiting" ~> closing = "returned" /\ \A a \in Attempts : Terminal(a)

\* The manager, whatever is cancelled, decided and closed, keeps what Lifecycle
\* promises its observer: after the one event of an attempt's end come only
\* those of a later attempt.
Observed == INSTANCE Lifecycle WITH retained <- Retained, GivesWay <- Settled
ImplementsLifecycle == Observed!LifecycleSpec
=============================================================================
