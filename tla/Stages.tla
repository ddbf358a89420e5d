------------------------------- MODULE Stages -------------------------------
(***************************************************************************)
(* One operation of internal/workflowruntime/runtime.go: a program of      *)
(* stages, executed by runs that share nothing but the store.  A run is a  *)
(* request's execution or replay, another request's with the same key, or  *)
(* the start after a crash.                                                *)
(*                                                                         *)
(* A stage's receipts (internal/runrecord/stage_receipt.go) are a chain:   *)
(* each names the one before it, and an alias names the last.  Publishing  *)
(* one reads the alias, then commits a batch that moves it from what was   *)
(* read; a batch that was committed before is answered as it was.          *)
(*                                                                         *)
(* An output is what a stage leaves in the store.  A stage outside Durable *)
(* leaves values only, and its receipts name none.  The slots of a Runtime *)
(* are as many as its widest ready set, so nothing here waits for one.     *)
(***************************************************************************)
EXTENDS Integers, Sequences, SequencesExt, FiniteSets

CONSTANTS
  Runs,
  MaxLive,    \* runs at a time: bounds the model
  Stages,
  Edges,      \* <<u, s>>: s reads what u leaves
  Outputs,    \* the stages the program's outputs come from
  Durable,
  ReadySets,  \* the program's dependency levels, in the order they run
  Module(_),  \* the module of a stage
  Values,     \* artifacts an execution may leave
  None

ASSUME StagesAssumption ==
  /\ MaxLive \in Nat \ {0}
  /\ Edges \subseteq Stages \X Stages /\ Outputs \subseteq Stages /\ Durable \subseteq Stages
  /\ ReadySets \in Seq(Seq(Stages)) /\ ReadySets # <<>>
  /\ Values \cap {"ready", "executing", "waiting", "failed"} = {}

Reads(s) == {u \in Stages : <<u, s>> \in Edges}

\* runrecord.StageReceipt, and one on its way into the store.
Receipts ==
  [attempt : Nat, state : {"admitted", "running", "waiting", "completed", "failed"},
   in : UNION {[Reads(s) -> Values \cup {None}] : s \in Stages}, out : Values \cup {None}]
Notes == [stage : Stages, after : Nat, receipt : Receipts]

ASSUME NoneAssumption ==
  None \notin Values \cup Notes \cup {"ready", "executing", "waiting", "failed", "refused", "succeeded", "declined"}

\* A compiled program: every stage is in one place, behind those it reads, and no ready
\* set is empty.
ASSUME ProgramAssumption ==
  /\ \A l \in DOMAIN ReadySets : ReadySets[l] # <<>>
  /\ \A s \in Stages : \E l \in DOMAIN ReadySets : \E i \in DOMAIN ReadySets[l] : ReadySets[l][i] = s
  /\ \A k, l \in DOMAIN ReadySets : \A i \in DOMAIN ReadySets[k], j \in DOMAIN ReadySets[l] :
       /\ ReadySets[k][i] = ReadySets[l][j] => k = l /\ i = j
       /\ <<ReadySets[k][i], ReadySets[l][j]>> \in Edges => k < l

VARIABLES
  chain,     \* the receipts of each stage, in order
  phase,     \* where each run's own goroutine is
  level,     \* the ready set it is in
  left,      \* the places of the stages it has still to read, or to begin, in this phase
  held,      \* what each stage left, as far as the run has it
  need,      \* replayPlan.run
  attempt,   \* the attempt of each stage it began
  note,      \* the receipt it is about to commit, and the chain's length it read
  job,       \* its goroutines: ready, executing, or what they delivered
  cause,     \* the first stage error of the ready set
  cancelled, \* the context of the request
  outcome,
  beside     \* runs that were live together with another

localVars == <<level, left, held, need, attempt, note, job, cause>>
vars == <<chain, phase, localVars, cancelled, outcome, beside>>

------------------------------------------------------------------------------
Each(x) == [s \in Stages |-> x]
Kept(s, x) == IF s \in Durable THEN x ELSE None   \* the artifacts of an output

Firsts(places) == {i \in places : \A j \in places : i <= j}

Live(r) == phase[r] \notin {"away", "ended"}

\* The stage whose turn it is in the run's ready set.
Beginning(r, s) == \E i \in Firsts(left[r]) : s = ReadySets[level[r]][i]

AtLast(r) == level[r] = Len(ReadySets)

\* Mutant: an attempt whose admission was all that a crash left blocks the next.
TransitionNotFromAdmitted(p, q) ==
  \/ /\ q.attempt = p.attempt
     /\ \/ p.state = "admitted" /\ q.state = "running"
        \/ p.state = "running" /\ q.state \in {"waiting", "completed", "failed"}
  \/ q.attempt = p.attempt + 1 /\ q.state = "admitted" /\ p.state # "admitted"

\* stageTransition.
Transition(p, q) ==
  \/ /\ q.attempt = p.attempt
     /\ \/ p.state = "admitted" /\ q.state = "running"
        \/ p.state = "running" /\ q.state \in {"waiting", "completed", "failed"}
  \/ q.attempt = p.attempt + 1 /\ q.state = "admitted"

Init ==
  /\ chain = Each(<<>>)
  /\ phase = [r \in Runs |-> "away"]
  /\ level = [r \in Runs |-> 0]
  /\ left = [r \in Runs |-> {}]
  /\ held = [r \in Runs |-> Each(None)]
  /\ need = [r \in Runs |-> {}]
  /\ attempt = [r \in Runs |-> Each(0)]
  /\ note = [r \in Runs |-> None]
  /\ job = [r \in Runs |-> Each(None)]
  /\ cause = [r \in Runs |-> None]
  /\ cancelled = {}
  /\ outcome = [r \in Runs |-> None]
  /\ beside = {}

\* The run returns; what it holds of the outputs is its result.
End(r, how) ==
  /\ phase' = [phase EXCEPT ![r] = "ended"]
  /\ outcome' = [outcome EXCEPT ![r] = how]
  /\ level' = [level EXCEPT ![r] = 0]
  /\ left' = [left EXCEPT ![r] = {}]
  /\ held' = [held EXCEPT ![r] = [s \in Stages |->
                IF how = "succeeded" /\ s \in Outputs THEN held[r][s] ELSE None]]
  /\ need' = [need EXCEPT ![r] = {}]
  /\ attempt' = [attempt EXCEPT ![r] = Each(0)]
  /\ note' = [note EXCEPT ![r] = None]
  /\ job' = [job EXCEPT ![r] = Each(None)]
  /\ cause' = [cause EXCEPT ![r] = None]
  /\ cancelled' = cancelled \ {r}

------------------------------------------------------------------------------
(* Plan *)

\* ExecuteProgram, or Replay, which runs no stage.
Start(r) ==
  /\ phase[r] = "away"
  /\ Cardinality({x \in Runs : Live(x)}) < MaxLive
  /\ \E how \in {"planning", "replaying"} : phase' = [phase EXCEPT ![r] = how]
  /\ level' = [level EXCEPT ![r] = 1]
  /\ left' = [left EXCEPT ![r] = DOMAIN ReadySets[1]]
  /\ LET others == {x \in Runs : Live(x)}
     IN beside' = IF others = {} THEN beside ELSE beside \cup others \cup {r}
  /\ UNCHANGED <<chain, held, need, attempt, note, job, cause, cancelled, outcome>>

\* The request is cancelled.  Earlier its reads fail, later its commit may.
Cancel(r) ==
  /\ phase[r] \in {"beginning", "admitted", "executing"} /\ r \notin cancelled
  /\ cancelled' = cancelled \cup {r}
  /\ UNCHANGED <<chain, phase, localVars, outcome, beside>>

\* What recoverStage finds: the outputs of a last receipt that is completed, when they
\* are durable.
InStore(s) ==
  IF chain[s] # <<>> /\ Last(chain[s]).state = "completed" /\ s \in Durable
  THEN Last(chain[s]).out ELSE None

\* One stage after the other, one ready set after the other.
Recover(r) ==
  /\ phase[r] \in {"planning", "replaying"}
  /\ \E s \in Stages : Beginning(r, s) /\ held' = [held EXCEPT ![r][s] = InStore(s)]
  /\ IF left[r] = Firsts(left[r]) /\ ~AtLast(r)
     THEN /\ level' = [level EXCEPT ![r] = @ + 1]
          /\ left' = [left EXCEPT ![r] = DOMAIN ReadySets[level[r] + 1]]
     ELSE left' = [left EXCEPT ![r] = @ \ Firsts(@)] /\ UNCHANGED level
  /\ UNCHANGED <<chain, phase, need, attempt, note, job, cause, cancelled, outcome, beside>>

\* A receipt or an output cannot be read, or the context is done.
RecoverFails(r) ==
  /\ phase[r] \in {"planning", "replaying"} /\ left[r] # {}
  /\ End(r, IF phase[r] = "planning" THEN "failed" ELSE "declined")
  /\ UNCHANGED <<chain, beside>>

\* A stage whose outputs the store does not have must run if the program's outputs come
\* from it, if no other reads it, or if one that must run does.
MustRun(s, have, asked) ==
  LET readers == {t \in Stages : s \in Reads(t)}
  IN  have[s] = None /\ (s \in Outputs \/ readers = {} \/ readers \cap asked # {})

\* planReplay: the fewest stages that must run.  Fewer leave one out.
Asked(have) ==
  {s \in Stages : \A fewer \in SUBSET (Stages \ {s}) :
     \E u \in Stages \ fewer : MustRun(u, have, fewer)}

\* The places of a ready set that are not passed over.
Begins(l, needed) == {i \in DOMAIN ReadySets[l] : ReadySets[l][i] \in needed}

\* Mutant: what the store holds is asked for all the same.
DecideAfresh(r) ==
  /\ phase[r] = "planning" /\ left[r] = {}
  /\ need' = [need EXCEPT ![r] = Stages]
  /\ phase' = [phase EXCEPT ![r] = "beginning"]
  /\ level' = [level EXCEPT ![r] = 1]
  /\ left' = [left EXCEPT ![r] = Begins(1, Stages)]
  /\ UNCHANGED <<chain, held, attempt, note, job, cause, cancelled, outcome, beside>>

\* planReplay's answer, and the first ready set.
Decide(r) ==
  /\ phase[r] = "planning" /\ left[r] = {}
  /\ need' = [need EXCEPT ![r] = Asked(held[r])]
  /\ phase' = [phase EXCEPT ![r] = "beginning"]
  /\ level' = [level EXCEPT ![r] = 1]
  /\ left' = [left EXCEPT ![r] = Begins(1, Asked(held[r]))]
  /\ UNCHANGED <<chain, held, attempt, note, job, cause, cancelled, outcome, beside>>

\* Replay: the store holds the whole answer, or the run ends without a word.
DecideReplay(r) ==
  /\ phase[r] = "replaying" /\ left[r] = {}
  /\ IF Asked(held[r]) = {}
     THEN /\ phase' = [phase EXCEPT ![r] = "concluding"]
          /\ UNCHANGED <<localVars, cancelled, outcome>>
     ELSE End(r, "declined")
  /\ UNCHANGED <<chain, beside>>

------------------------------------------------------------------------------
(* Receipts *)

\* PrepareStageReceipt: the transition is checked against the last receipt, and the
\* alias is to move from there.
Prepare(r, s, receipt) ==
  note' = [note EXCEPT ![r] = [stage |-> s, after |-> Len(chain[s]), receipt |-> receipt]]

Legal(s, receipt) == chain[s] = <<>> \/ Transition(Last(chain[s]), receipt)

\* The first error of a ready set cancels it; one that joins the word that a person
\* must decide still says so.
Blamed(r, s, why) ==
  cause' = [cause EXCEPT ![r] =
    IF @ # None THEN @ ELSE IF job[r][s] = "waiting" THEN "waiting" ELSE why]

Inputs(r, s) == [u \in Reads(s) |-> Kept(u, held[r][u])]

\* prepareStage of the next stage of the ready set, up to the commit of its admitted
\* receipt.  beginStage reads the alias for the attempt and once more to prepare the
\* receipt; the later read decides, and an attempt that is stale by then is refused
\* now or at the commit.
Admit(r) ==
  /\ phase[r] = "beginning" /\ note[r] = None /\ r \notin cancelled
  /\ \E s \in Stages : Beginning(r, s) /\
     LET n == IF chain[s] = <<>> THEN 1 ELSE Last(chain[s]).attempt + 1
         receipt == [attempt |-> n, state |-> "admitted", in |-> Inputs(r, s), out |-> None]
     IN IF Legal(s, receipt)
        THEN /\ attempt' = [attempt EXCEPT ![r][s] = n]
             /\ Prepare(r, s, receipt)
             /\ UNCHANGED <<phase, level, left, held, need, job, cause, cancelled, outcome>>
        ELSE End(r, "refused")
  /\ UNCHANGED <<chain, beside>>

\* The running receipt that follows.
Run(r) ==
  /\ phase[r] = "admitted" /\ note[r] = None /\ r \notin cancelled
  /\ \E s \in Stages : Beginning(r, s) /\
     LET receipt == [attempt |-> attempt[r][s], state |-> "running", in |-> Inputs(r, s), out |-> None]
     IN IF Legal(s, receipt)
        THEN /\ Prepare(r, s, receipt)
             /\ UNCHANGED <<phase, level, left, held, need, attempt, job, cause, cancelled, outcome>>
        ELSE End(r, "refused")
  /\ UNCHANGED <<chain, beside>>

\* finishStage of a delivered result, up to the commit of its receipt.  A receipt
\* that may not follow is an error of the stage.
Finish(r, s) ==
  /\ phase[r] = "executing" /\ note[r] = None
  /\ job[r][s] \in Values \cup {"waiting", "failed"}
  /\ LET state == IF job[r][s] \in Values THEN "completed" ELSE job[r][s]
         receipt == [attempt |-> attempt[r][s], state |-> state, in |-> Inputs(r, s),
                     out |-> IF state = "completed" THEN Kept(s, job[r][s]) ELSE None]
     IN IF Legal(s, receipt)
        THEN Prepare(r, s, receipt) /\ UNCHANGED <<job, cause>>
        ELSE /\ job' = [job EXCEPT ![r][s] = None]
             /\ Blamed(r, s, "refused")
             /\ UNCHANGED note
  /\ UNCHANGED <<chain, phase, level, left, held, need, attempt, cancelled, outcome, beside>>

\* What a committed receipt lets the run do next.
Committed(r) ==
  LET s == note[r].stage
      state == note[r].receipt.state
  IN /\ note' = [note EXCEPT ![r] = None]
     /\ CASE state = "admitted" ->
               /\ phase' = [phase EXCEPT ![r] = "admitted"]
               /\ UNCHANGED <<left, held, job, cause>>
          [] state = "running" ->
               /\ phase' = [phase EXCEPT ![r] = "beginning"]
               /\ left' = [left EXCEPT ![r] = @ \ Firsts(@)]
               /\ UNCHANGED <<held, job, cause>>
          [] state = "completed" ->
               /\ held' = [held EXCEPT ![r][s] = job[r][s]]
               /\ job' = [job EXCEPT ![r][s] = None]
               /\ UNCHANGED <<phase, left, cause>>
          [] OTHER ->
               /\ job' = [job EXCEPT ![r][s] = None]
               /\ cause' = [cause EXCEPT ![r] = IF @ = None THEN state ELSE @]
               /\ UNCHANGED <<phase, left, held>>
     /\ UNCHANGED <<level, need, attempt, cancelled, outcome>>

\* The commit failed: a stage that was to begin ends the run, one that was to finish
\* fails and cancels its siblings.
NotCommitted(r, why) ==
  IF note[r].receipt.state \in {"admitted", "running"}
  THEN End(r, why)
  ELSE /\ note' = [note EXCEPT ![r] = None]
       /\ job' = [job EXCEPT ![r][note[r].stage] = None]
       /\ Blamed(r, note[r].stage, why)
       /\ UNCHANGED <<phase, level, left, held, need, attempt, cancelled, outcome>>

\* The batch is the one a run committed before: it is answered as that one was.
Repeated(r) == Len(chain[note[r].stage]) > note[r].after
                 /\ chain[note[r].stage][note[r].after + 1] = note[r].receipt

\* Mutant: the alias moves from wherever it is.
CommitAnywhere(r) ==
  /\ note[r] # None
  /\ chain' = [chain EXCEPT ![note[r].stage] = Append(@, note[r].receipt)]
  /\ Committed(r)
  /\ UNCHANGED beside

Commit(r) ==
  /\ note[r] # None
  /\ Len(chain[note[r].stage]) = note[r].after
  /\ chain' = [chain EXCEPT ![note[r].stage] = Append(@, note[r].receipt)]
  /\ Committed(r)
  /\ UNCHANGED beside

CommitRepeats(r) ==
  /\ note[r] # None /\ Repeated(r)
  /\ Committed(r)
  /\ UNCHANGED <<chain, beside>>

\* The alias has moved since it was read.
CommitConflicts(r) ==
  /\ note[r] # None
  /\ Len(chain[note[r].stage]) # note[r].after /\ ~Repeated(r)
  /\ NotCommitted(r, "refused")
  /\ UNCHANGED <<chain, beside>>

\* Mutant: what could not be recorded counts as done.
CommitFailsUnnoticed(r) ==
  /\ note[r] # None
  /\ Committed(r)
  /\ UNCHANGED <<chain, beside>>

\* The store fails, or the context is done by the time of the commit.
CommitFails(r) ==
  /\ note[r] # None
  /\ NotCommitted(r, "failed")
  /\ UNCHANGED <<chain, beside>>

------------------------------------------------------------------------------
(* Stages *)

\* Every stage of the ready set has begun: its goroutines start.
Spawn(r) ==
  /\ phase[r] = "beginning" /\ note[r] = None /\ left[r] = {}
  /\ phase' = [phase EXCEPT ![r] = "executing"]
  /\ job' = [job EXCEPT ![r] = [s \in Stages |->
               IF s \in need[r] /\ s \in ToSet(ReadySets[level[r]]) THEN "ready" ELSE None]]
  /\ UNCHANGED <<chain, level, left, held, need, attempt, note, cause, cancelled, outcome, beside>>

\* A goroutine has its slot and its module's entry lock, and its context is not done.
Enter(r, s) ==
  /\ phase[r] = "executing" /\ job[r][s] = "ready"
  /\ \A u \in Stages : Module(u) = Module(s) => job[r][u] # "executing"
  /\ cause[r] = None /\ r \notin cancelled
  /\ job' = [job EXCEPT ![r][s] = "executing"]
  /\ UNCHANGED <<chain, phase, level, left, held, need, attempt, note, cause, cancelled, outcome, beside>>

\* The ready set is cancelled before the adapter is entered: the stage delivers the
\* cause, and waits for a person if its sibling does.
TurnAway(r, s) ==
  /\ phase[r] = "executing" /\ job[r][s] = "ready"
  /\ cause[r] # None \/ r \in cancelled
  /\ job' = [job EXCEPT ![r][s] = IF cause[r] = "waiting" THEN "waiting" ELSE "failed"]
  /\ UNCHANGED <<chain, phase, level, left, held, need, attempt, note, cause, cancelled, outcome, beside>>

\* The adapter returns outputs, an error, or the word that a person must decide.
Execute(r, s) ==
  /\ phase[r] = "executing" /\ job[r][s] = "executing"
  /\ \E result \in Values \cup {"waiting", "failed"} : job' = [job EXCEPT ![r][s] = result]
  /\ UNCHANGED <<chain, phase, level, left, held, need, attempt, note, cause, cancelled, outcome, beside>>

Collected(r) == phase[r] = "executing" /\ note[r] = None /\ \A s \in Stages : job[r][s] = None

\* Every result of the ready set is recorded, and the context is asked once more.
Proceed(r) ==
  /\ Collected(r) /\ cause[r] = None /\ ~AtLast(r) /\ r \notin cancelled
  /\ phase' = [phase EXCEPT ![r] = "beginning"]
  /\ level' = [level EXCEPT ![r] = @ + 1]
  /\ left' = [left EXCEPT ![r] = Begins(level[r] + 1, need[r])]
  /\ UNCHANGED <<chain, held, need, attempt, note, job, cause, cancelled, outcome, beside>>

\* After the last one the outputs are there, cancelled or not.
Gather(r) ==
  /\ Collected(r) /\ cause[r] = None /\ AtLast(r)
  /\ phase' = [phase EXCEPT ![r] = "concluding"]
  /\ UNCHANGED <<chain, localVars, cancelled, outcome, beside>>

\* A stage failed, or the request was cancelled before the next one began.
GiveUp(r) ==
  /\ \/ Collected(r) /\ (cause[r] # None \/ (r \in cancelled /\ ~AtLast(r)))
     \/ /\ phase[r] \in {"beginning", "admitted"} /\ note[r] = None /\ left[r] # {}
        /\ r \in cancelled
  /\ End(r, IF cause[r] = "refused" THEN "refused" ELSE "failed")
  /\ UNCHANGED <<chain, beside>>

\* The run record is committed with the outputs, or not: then the caller has an error.
Conclude(r) ==
  /\ phase[r] = "concluding"
  /\ \E how \in {"succeeded", "failed"} : End(r, how)
  /\ UNCHANGED <<chain, beside>>

\* The process dies: for the store a run that failed, with less on record.
Crash(r) ==
  /\ Live(r)
  /\ End(r, "failed")
  /\ UNCHANGED <<chain, beside>>

\* Every run is over.
Rest == (\A r \in Runs : phase[r] = "ended") /\ UNCHANGED vars

Next ==
  \/ \E r \in Runs :
       \/ Start(r) \/ Cancel(r) \/ Recover(r) \/ RecoverFails(r) \/ Decide(r) \/ DecideReplay(r)
       \/ Admit(r) \/ Run(r) \/ Spawn(r)
       \/ Commit(r) \/ CommitRepeats(r) \/ CommitConflicts(r) \/ CommitFails(r)
       \/ Proceed(r) \/ Gather(r) \/ GiveUp(r) \/ Conclude(r) \/ Crash(r)
       \/ \E s \in Stages : Enter(r, s) \/ TurnAway(r, s) \/ Execute(r, s) \/ Finish(r, s)
  \/ Rest

StagesSpec == Init /\ [][Next]_vars

------------------------------------------------------------------------------
(* Properties *)

Recorded(s, x) == \E i \in DOMAIN chain[s] : chain[s][i].state = "completed" /\ chain[s][i].out = x

\* Every value anything rests on is the output of a completed receipt: what a receipt
\* names as an input, and what a run that succeeded answers.  A stage whose receipt
\* could not be committed is not built upon.
LineageComplete ==
  /\ \A s \in Stages : \A i \in DOMAIN chain[s] : \A u \in Reads(s) \cap Durable :
       Recorded(u, chain[s][i].in[u])
  /\ \A r \in Runs : outcome[r] = "succeeded" =>
       \A s \in Outputs \cap Durable : Recorded(s, held[r][s])

\* A receipt behind another is of a later attempt, or further on in the same one.
Onward(p, q) ==
  \/ p.attempt < q.attempt
  \/ /\ p.attempt = q.attempt
     /\ \/ p.state = "admitted" /\ q.state # "admitted"
        \/ p.state = "running" /\ q.state \in {"waiting", "completed", "failed"}

\* However many runs execute an attempt, its receipts tell one history: it is admitted,
\* runs and ends at most once each, in this order and on one set of inputs.  The next
\* attempt may open at any point of it, and then nothing more is said of this one.
OneResultPerAttempt ==
  \A s \in Stages : \A i, j \in DOMAIN chain[s] :
    /\ i < j => Onward(chain[s][i], chain[s][j])
    /\ chain[s][i].attempt = chain[s][j].attempt => chain[s][i].in = chain[s][j].in

\* Wherever an earlier run crashed, failed or was cancelled, no receipt of a later
\* one is refused: only a run beside it can be in its way.
RestartNotWedged == \A r \in Runs : outcome[r] = "refused" => r \in beside

\* The store holds an answer that Replay would give.
WholeAnswer == Asked([s \in Stages |-> InStore(s)]) = {}

\* An answer the store holds the whole of is not given up for another execution, but
\* by a run that planned while the answer was still being made beside it.
AnswerKept ==
  [][ chain' # chain /\ WholeAnswer /\ ~WholeAnswer' =>
        \E r \in beside : note[r] # None /\ note'[r] = None ]_vars
==============================================================================
