---------------------------- MODULE StagesProofs ----------------------------
(* Theorems about Stages, for every compiled program, any runs and values,   *)
(* and any number of runs at a time.                                         *)
EXTENDS Stages, TLAPS

Typed ==
  /\ chain \in [Stages -> Seq(Receipts)]
  /\ phase \in [Runs -> {"away", "planning", "replaying", "beginning", "admitted", "executing",
                         "concluding", "ended"}]
  /\ level \in [Runs -> Nat]
  /\ left \in [Runs -> SUBSET Nat]
  /\ held \in [Runs -> [Stages -> Values \cup {None}]]
  /\ need \in [Runs -> SUBSET Stages]
  /\ attempt \in [Runs -> [Stages -> Nat]]
  /\ note \in [Runs -> Notes \cup {None}]
  /\ job \in [Runs -> [Stages -> Values \cup {None, "ready", "executing", "waiting", "failed"}]]
  /\ cause \in [Runs -> {None, "waiting", "failed", "refused"}]
  /\ cancelled \subseteq Runs /\ beside \subseteq Runs
  /\ outcome \in [Runs -> {None, "succeeded", "failed", "refused", "declined"}]

(* What is in the store *)

OneHistory(s) ==
  \A i, j \in DOMAIN chain[s] :
    /\ i < j => Onward(chain[s][i], chain[s][j])
    /\ chain[s][i].attempt = chain[s][j].attempt => chain[s][i].in = chain[s][j].in

\* A receipt rests on recorded outputs, and names its own if they are durable.
Founded(s, q) ==
  /\ \A u \in Reads(s) \cap Durable : Recorded(u, q.in[u])
  /\ q.state = "completed" /\ s \in Durable => q.out # None

GoodStore ==
  \A s \in Stages : OneHistory(s) /\ \A i \in DOMAIN chain[s] : Founded(s, chain[s][i])

(* What a run has of the program *)

Working(r) == phase[r] \in {"beginning", "admitted", "executing"}
StageAt(r, i) == ReadySets[level[r]][i]
Due(r) == Begins(level[r], need[r])   \* the places of its ready set it runs

\* A run that plans leaves only the last ready set without another.  Whatever a stage that
\* must run reads, and every output, a run that works has or runs.
GoodPlan(r) ==
  /\ phase[r] \in {"planning", "replaying"} =>
       /\ level[r] \in DOMAIN ReadySets /\ left[r] \subseteq DOMAIN ReadySets[level[r]]
       /\ left[r] = {} => AtLast(r)
  /\ Working(r) =>
       /\ level[r] \in DOMAIN ReadySets /\ left[r] \subseteq Due(r)
       /\ \A s \in Stages : (s \in Outputs \/ \E t \in need[r] : s \in Reads(t))
            => s \in need[r] \/ held[r][s] # None
       /\ \A l \in DOMAIN ReadySets : \A i \in DOMAIN ReadySets[l] :
            l < level[r] /\ ReadySets[l][i] \in need[r] => held[r][ReadySets[l][i]] # None

GoodHeld(r) == \A s \in Durable : held[r][s] # None => Recorded(s, held[r][s])

GoodEnd(r) ==
  /\ phase[r] = "concluding" \/ outcome[r] = "succeeded" => \A s \in Outputs : held[r][s] # None
  /\ outcome[r] # None => phase[r] = "ended"

GoodJobs(r) ==
  /\ phase[r] # "executing" => cause[r] = None /\ \A s \in Stages : job[r][s] = None
  /\ phase[r] = "executing" => \A s \in Stages : job[r][s] # None => \E i \in Due(r) : s = StageAt(r, i)
  /\ phase[r] = "executing" /\ cause[r] = None =>
       \A i \in Due(r) : job[r][StageAt(r, i)] # None \/ held[r][StageAt(r, i)] # None

(* What a run has begun *)

Admitted(r) == {s \in Stages : phase[r] = "admitted" /\ Beginning(r, s)}
Running(r) == {s \in Stages :
  \/ phase[r] \in {"beginning", "admitted"} /\ \E i \in Due(r) \ left[r] : s = StageAt(r, i)
  \/ phase[r] = "executing" /\ job[r][s] # None}

\* The run's attempt of the stage is in the store, with the run's inputs.
Began(r, s) ==
  \E i \in DOMAIN chain[s] : chain[s][i].attempt = attempt[r][s] /\ chain[s][i].in = Inputs(r, s)

GoodBegun(r) == \A s \in Admitted(r) \cup Running(r) : Began(r, s)

\* The receipt follows the one its writer read, and belongs to where the run is.
GoodNote(r) ==
  note[r] # None =>
    LET s == note[r].stage
        n == note[r].after
        q == note[r].receipt
    IN  /\ Working(r) /\ n <= Len(chain[s])
        /\ n = 0 \/ Transition(chain[s][n], q)
        /\ q.attempt = attempt[r][s] /\ q.in = Inputs(r, s)
        /\ q.state = "admitted" => phase[r] = "beginning" /\ Beginning(r, s)
        /\ q.state = "running" => s \in Admitted(r)
        /\ q.state \notin {"admitted", "running"} => phase[r] = "executing" /\ job[r][s] # None
        /\ q.state = "completed" => job[r][s] \in Values /\ q.out = Kept(s, job[r][s])

(* What a run finds that nobody is beside *)

Stands(r, s, state) ==
  chain[s] # <<>> /\ Last(chain[s]).attempt = attempt[r][s] /\ Last(chain[s]).state = state

GoodAlone(r) ==
  /\ Live(r) /\ r \notin beside =>
       /\ \A q \in Runs \ {r} : ~Live(q)
       /\ note[r] # None => note[r].after = Len(chain[note[r].stage])
       /\ \A s \in Admitted(r) : Stands(r, s, "admitted")
       /\ \A s \in Running(r) : Stands(r, s, "running")
       /\ cause[r] # "refused"
  /\ outcome[r] = "refused" => r \in beside

GoodRun(r) ==
  /\ GoodPlan(r) /\ GoodHeld(r) /\ GoodEnd(r) /\ GoodJobs(r)
  /\ GoodBegun(r) /\ GoodNote(r) /\ GoodAlone(r)

Inv == Typed /\ GoodStore /\ \A r \in Runs : GoodRun(r)

------------------------------------------------------------------------------
(* The program *)

\* The least set of stages that must run is one: what it must run, it has.
LEMMA AskedCloses ==
  ASSUME NEW have, NEW s \in Stages, MustRun(s, have, Asked(have))
  PROVE  s \in Asked(have)
<1> SUFFICES ASSUME s \notin Asked(have) PROVE FALSE
  OBVIOUS
<1>1. PICK fewer \in SUBSET (Stages \ {s}) : \A u \in Stages \ fewer : ~MustRun(u, have, fewer)
  BY DEF Asked
<1>2. Asked(have) \subseteq fewer
  <2>1. ASSUME NEW t \in Asked(have), t \notin fewer PROVE FALSE
    BY <1>1, <2>1 DEF Asked
  <2> QED BY <2>1
<1>3. MustRun(s, have, fewer)
  BY <1>2 DEF MustRun
<1> QED BY <1>1, <1>3

\* A place of a ready set leads to a stage.
LEMMA PlacesOfStages ==
  ASSUME NEW l \in DOMAIN ReadySets, NEW i \in DOMAIN ReadySets[l]
  PROVE  i \in Nat /\ ReadySets[l][i] \in Stages
BY StagesAssumption

LEMMA LevelsAreNumbers == DOMAIN ReadySets \subseteq Nat \ {0} /\ 1 \in DOMAIN ReadySets
                          /\ DOMAIN ReadySets = 1 .. Len(ReadySets) /\ Len(ReadySets) \in Nat
BY StagesAssumption

LEMMA SetsHavePlaces ==
  ASSUME NEW l \in DOMAIN ReadySets
  PROVE  DOMAIN ReadySets[l] # {}
<1>1. PICK set \in Seq(Stages) : set = ReadySets[l]
  BY StagesAssumption
<1>2. set # <<>>
  BY <1>1, ProgramAssumption
<1>3. set \in Seq(Stages) /\ 1 \in DOMAIN set
  BY <1>2
<1> QED BY <1>1, <1>3

LEMMA OnePlace ==
  ASSUME NEW k \in DOMAIN ReadySets, NEW l \in DOMAIN ReadySets,
         NEW i \in DOMAIN ReadySets[k], NEW j \in DOMAIN ReadySets[l], ReadySets[k][i] = ReadySets[l][j]
  PROVE  k = l /\ i = j
<1>1. \A m, n \in DOMAIN ReadySets : \A v \in DOMAIN ReadySets[m], w \in DOMAIN ReadySets[n] :
        /\ ReadySets[m][v] = ReadySets[n][w] => m = n /\ v = w
        /\ <<ReadySets[m][v], ReadySets[n][w]>> \in Edges => m < n
  BY ProgramAssumption, Zenon
<1>2. \A v \in DOMAIN ReadySets[k], w \in DOMAIN ReadySets[l] :
        /\ ReadySets[k][v] = ReadySets[l][w] => k = l /\ v = w
        /\ <<ReadySets[k][v], ReadySets[l][w]>> \in Edges => k < l
  BY <1>1, Zenon
<1>3. ReadySets[k][i] = ReadySets[l][j] => k = l /\ i = j
  BY <1>2, Zenon
<1> QED BY <1>3, Zenon

\* The stages a run has to do in its ready set are told apart by their places, and
\* none of them reads another.
LEMMA DuePlaces ==
  ASSUME Inv, NEW r \in Runs, Working(r)
  PROVE  /\ \A i \in Due(r) : i \in Nat /\ i \in DOMAIN ReadySets[level[r]]
                              /\ StageAt(r, i) \in Stages /\ StageAt(r, i) \in need[r]
         /\ \A i, j \in Due(r) : /\ StageAt(r, i) = StageAt(r, j) => i = j
                                 /\ StageAt(r, j) \notin Reads(StageAt(r, i))
<1>1. level[r] \in DOMAIN ReadySets
  BY DEF Inv, GoodRun, GoodPlan
<1>2. \A i \in Due(r) : i \in DOMAIN ReadySets[level[r]] /\ StageAt(r, i) \in need[r]
  BY DEF Due, Begins, StageAt
<1>3. \A i \in Due(r) : i \in Nat /\ StageAt(r, i) \in Stages
  BY <1>1, <1>2, PlacesOfStages DEF StageAt
<1>4. \A i, j \in Due(r) : StageAt(r, i) = StageAt(r, j) => i = j
  BY <1>1, <1>2, ProgramAssumption DEF StageAt
<1>5. \A i, j \in Due(r) : <<StageAt(r, j), StageAt(r, i)>> \notin Edges
  <2>1. ~(level[r] < level[r])
    BY <1>1, LevelsAreNumbers
  <2> QED BY <1>1, <1>2, <2>1, ProgramAssumption DEF StageAt
<1> QED BY <1>2, <1>3, <1>4, <1>5 DEF Reads

\* The next place is one.
LEMMA FirstPlace ==
  ASSUME Inv, NEW r \in Runs, Working(r), NEW s, Beginning(r, s)
  PROVE  \E i \in left[r] : i \in Due(r) /\ s = StageAt(r, i) /\ Firsts(left[r]) = {i}
<1>1. PICK i \in Firsts(left[r]) : s = StageAt(r, i)
  BY DEF Beginning, StageAt
<1>2. left[r] \subseteq Due(r)
  BY DEF Inv, GoodRun, GoodPlan
<1>3. \A j \in left[r] : j \in Nat
  BY <1>2, DuePlaces
<1>4. Firsts(left[r]) = {i}
  BY <1>1, <1>3 DEF Firsts
<1> QED BY <1>1, <1>2, <1>4 DEF Firsts

------------------------------------------------------------------------------
(* What a step leaves alone *)

SameRun(q) ==
  /\ phase'[q] = phase[q] /\ level'[q] = level[q] /\ left'[q] = left[q] /\ held'[q] = held[q]
  /\ need'[q] = need[q] /\ attempt'[q] = attempt[q] /\ note'[q] = note[q] /\ job'[q] = job[q]
  /\ cause'[q] = cause[q] /\ outcome'[q] = outcome[q]

Others(r) == \A q \in Runs \ {r} : SameRun(q)

\* Receipts are added, none is taken away.
Grown ==
  \A s \in Stages : /\ Len(chain[s]) <= Len(chain'[s])
                    /\ \A i \in DOMAIN chain[s] : i \in DOMAIN chain'[s] /\ chain'[s][i] = chain[s][i]

LEMMA SameParts ==
  ASSUME NEW q \in Runs, SameRun(q)
  PROVE  /\ Working(q)' <=> Working(q)
         /\ Live(q)' <=> Live(q)
         /\ AtLast(q)' <=> AtLast(q)
         /\ Due(q)' = Due(q) /\ \A i : StageAt(q, i)' = StageAt(q, i)
         /\ \A s : Beginning(q, s)' <=> Beginning(q, s)
         /\ Admitted(q)' = Admitted(q) /\ Running(q)' = Running(q)
         /\ \A s : Inputs(q, s)' = Inputs(q, s)
<1>1. (Working(q)' <=> Working(q)) /\ (Live(q)' <=> Live(q)) /\ (AtLast(q)' <=> AtLast(q))
  BY DEF SameRun, Working, Live, AtLast
<1>2. Due(q)' = Due(q) /\ \A i : StageAt(q, i)' = StageAt(q, i)
  BY DEF SameRun, Due, StageAt
<1>3. \A s : Beginning(q, s)' <=> Beginning(q, s)
  BY DEF SameRun, Beginning
<1>4. Admitted(q)' = Admitted(q)
  BY <1>3 DEF SameRun, Admitted
<1>5. Running(q)' = Running(q)
  BY <1>2 DEF SameRun, Running
<1>6. \A s : Inputs(q, s)' = Inputs(q, s)
  BY DEF SameRun, Inputs
<1> QED BY <1>1, <1>2, <1>3, <1>4, <1>5, <1>6

LEMMA StoreKept == GoodStore /\ chain' = chain => GoodStore'
BY DEF GoodStore, OneHistory, Founded, Recorded

LEMMA NothingGrown == chain' = chain /\ Typed => Grown
BY DEF Grown, Typed

\* A run that another's step does not touch: its receipts and what it rests on stay, and
\* who is alone stays alone unless it is told.
LEMMA OtherRun ==
  ASSUME Inv, Typed', NEW r \in Runs, NEW q \in Runs \ {r}, SameRun(q), Grown,
         beside \subseteq beside', chain' = chain \/ Live(r),
         Live(r)' => Live(r) \/ ~Live(q) \/ q \in beside',
         \A p \in Runs \ {r} : Live(p)' => Live(p)
  PROVE  GoodRun(q)'
<1> USE DEF SameRun
<1>1. /\ GoodPlan(q) /\ GoodHeld(q) /\ GoodEnd(q) /\ GoodJobs(q)
      /\ GoodBegun(q) /\ GoodNote(q) /\ GoodAlone(q)
  BY DEF Inv, GoodRun
<1>2. /\ Working(q)' <=> Working(q)
      /\ Live(q)' <=> Live(q)
      /\ AtLast(q)' <=> AtLast(q)
      /\ Due(q)' = Due(q) /\ \A i : StageAt(q, i)' = StageAt(q, i)
      /\ \A s : Beginning(q, s)' <=> Beginning(q, s)
      /\ Admitted(q)' = Admitted(q) /\ Running(q)' = Running(q)
      /\ \A s : Inputs(q, s)' = Inputs(q, s)
  BY SameParts
<1>3. GoodPlan(q)'
  BY <1>1, <1>2 DEF GoodPlan
<1>4. GoodHeld(q)'
  <2>1. \A s \in Durable : s \in Stages
    BY StagesAssumption
  <2> QED BY <1>1, <2>1 DEF GoodHeld, Recorded, Grown
<1>5. GoodEnd(q)'
  BY <1>1 DEF GoodEnd
<1>6. GoodJobs(q)'
  BY <1>1, <1>2 DEF GoodJobs
<1>7. GoodBegun(q)'
  <2>1. ASSUME NEW s \in Admitted(q) \cup Running(q) PROVE Began(q, s)'
    <3>1. s \in Stages /\ Began(q, s)
      BY <1>1, <2>1 DEF GoodBegun, Admitted, Running
    <3> QED BY <1>2, <3>1 DEF Began, Grown
  <2> QED BY <1>2, <2>1 DEF GoodBegun
<1>8. GoodNote(q)'
  <2> SUFFICES ASSUME note[q] # None PROVE GoodNote(q)'
    BY DEF GoodNote
  <2>1. note[q].stage \in Stages /\ note[q].after \in Nat
    BY DEF Inv, Typed, Notes
  <2> DEFINE s == note[q].stage
             n == note[q].after
  <2>2. chain[s] \in Seq(Receipts) /\ chain'[s] \in Seq(Receipts)
    BY <2>1 DEF Inv, Typed
  <2>3. n <= Len(chain[s]) /\ n <= Len(chain'[s]) /\ (n = 0 \/ chain'[s][n] = chain[s][n])
    BY <1>1, <2>1, <2>2 DEF GoodNote, Grown
  <2> QED BY <1>1, <1>2, <2>1, <2>3 DEF GoodNote
<1>9. GoodAlone(q)'
  <2>1. outcome'[q] = "refused" => q \in beside'
    BY <1>1 DEF GoodAlone
  <2> SUFFICES ASSUME Live(q)', q \notin beside'
               PROVE  /\ \A p \in Runs \ {q} : ~Live(p)'
                      /\ note'[q] # None => note'[q].after = Len(chain'[note'[q].stage])
                      /\ \A s \in Admitted(q)' : Stands(q, s, "admitted")'
                      /\ \A s \in Running(q)' : Stands(q, s, "running")'
                      /\ cause'[q] # "refused"
    BY <2>1 DEF GoodAlone
  <2>2. Live(q) /\ q \notin beside
    BY <1>2
  <2>3. ~Live(r) /\ chain' = chain
    BY <1>1, <2>2 DEF GoodAlone
  <2>4. \A p \in Runs \ {q} : ~Live(p)'
    BY <1>1, <2>2, <2>3 DEF GoodAlone
  <2> QED BY <1>1, <1>2, <2>2, <2>3, <2>4 DEF GoodAlone, Stands
<1> QED BY <1>3, <1>4, <1>5, <1>6, <1>7, <1>8, <1>9 DEF GoodRun

\* A step of one run that leaves the store alone.
LEMMA OwnStep ==
  ASSUME Inv, Typed', NEW r \in Runs, Others(r), chain' = chain, beside' = beside,
         Live(r)' => Live(r), GoodRun(r)'
  PROVE  Inv'
<1>1. Grown
  BY NothingGrown DEF Inv
<1>2. \A p \in Runs \ {r} : Live(p)' => Live(p)
  BY SameParts DEF Others
<1>3. \A q \in Runs \ {r} : GoodRun(q)'
  BY <1>1, <1>2, OtherRun DEF Others
<1> QED BY <1>3, StoreKept DEF Inv

------------------------------------------------------------------------------
(* A run ends *)

LEMMA EndStep ==
  ASSUME Inv, NEW r \in Runs, NEW how \in {"succeeded", "failed", "refused", "declined"}, End(r, how),
         chain' = chain, beside' = beside,
         how = "succeeded" => \A s \in Outputs : held[r][s] # None,
         how = "refused" => r \in beside
  PROVE  Inv'
<1>1. /\ phase'[r] = "ended" /\ outcome'[r] = how /\ left'[r] = {} /\ need'[r] = {} /\ level'[r] = 0
      /\ note'[r] = None /\ cause'[r] = None
      /\ \A s \in Stages : job'[r][s] = None /\ attempt'[r][s] = 0
      /\ \A s \in Stages : held'[r][s] = held[r][s] \/ held'[r][s] = None
      /\ how = "succeeded" => \A s \in Outputs : held'[r][s] = held[r][s]
  BY StagesAssumption DEF End, Each, Inv, Typed
<1>2. Others(r)
  BY DEF End, Others, SameRun, Inv, Typed
<1>3. Typed'
  <2>1. /\ phase' \in [Runs -> {"away", "planning", "replaying", "beginning", "admitted", "executing",
                                "concluding", "ended"}]
        /\ level' \in [Runs -> Nat]
        /\ left' \in [Runs -> SUBSET Nat]
        /\ need' \in [Runs -> SUBSET Stages]
        /\ note' \in [Runs -> Notes \cup {None}]
        /\ cause' \in [Runs -> {None, "waiting", "failed", "refused"}]
        /\ cancelled' \subseteq Runs
        /\ outcome' \in [Runs -> {None, "succeeded", "failed", "refused", "declined"}]
    BY DEF End, Inv, Typed
  <2>2. held' \in [Runs -> [Stages -> Values \cup {None}]]
    BY DEF End, Inv, Typed
  <2>3. attempt' \in [Runs -> [Stages -> Nat]]
    BY DEF End, Each, Inv, Typed
  <2>4. job' \in [Runs -> [Stages -> Values \cup {None, "ready", "executing", "waiting", "failed"}]]
    BY DEF End, Each, Inv, Typed
  <2> QED BY <2>1, <2>2, <2>3, <2>4 DEF Inv, Typed
<1>4. GoodPlan(r)' /\ GoodJobs(r)' /\ GoodNote(r)'
  BY <1>1 DEF GoodPlan, GoodJobs, GoodNote, Working
<1>5. GoodHeld(r)'
  BY <1>1, StagesAssumption DEF GoodHeld, Recorded, Inv, GoodRun
<1>6. GoodEnd(r)'
  BY <1>1 DEF GoodEnd
<1>7. GoodBegun(r)'
  BY <1>1 DEF GoodBegun, Admitted, Running
<1>8. GoodAlone(r)' /\ (Live(r)' => Live(r))
  BY <1>1 DEF GoodAlone, Live
<1> QED BY <1>2, <1>3, <1>4, <1>5, <1>6, <1>7, <1>8, OwnStep DEF GoodRun

------------------------------------------------------------------------------
(* Starting, planning and going on *)

LEMMA CancelStep ==
  ASSUME Inv, NEW r \in Runs, Cancel(r)
  PROVE  Inv'
<1>1. SameRun(r) /\ Others(r)
  BY DEF Cancel, localVars, SameRun, Others
<1>2. Typed'
  BY DEF Cancel, localVars, Inv, Typed
<1>3. chain' = chain /\ beside' = beside /\ (Live(r)' => Live(r))
  BY DEF Cancel, Live
<1>4. GoodPlan(r)' /\ GoodEnd(r)' /\ GoodJobs(r)' /\ GoodBegun(r)'
  BY <1>1, <1>3, SameParts DEF SameRun, Inv, GoodRun, GoodPlan, GoodEnd, GoodJobs, GoodBegun, Began
<1>5. GoodHeld(r)' /\ GoodNote(r)'
  BY <1>1, <1>3, SameParts DEF SameRun, Inv, GoodRun, GoodHeld, Recorded, GoodNote
<1>6. GoodAlone(r)'
  <2>1. \A p \in Runs \ {r} : Live(p)' <=> Live(p)
    BY <1>1, SameParts DEF Others
  <2> QED BY <1>1, <1>3, <2>1, SameParts DEF SameRun, Inv, GoodRun, GoodAlone, Stands
<1> QED BY <1>1, <1>2, <1>3, <1>4, <1>5, <1>6, OwnStep DEF GoodRun

LEMMA StartStep ==
  ASSUME Inv, NEW r \in Runs, Start(r)
  PROVE  Inv'
<1> DEFINE others == {x \in Runs : Live(x)}
<1>1. PICK how \in {"planning", "replaying"} : phase' = [phase EXCEPT ![r] = how]
  BY DEF Start
<1>2. /\ chain' = chain /\ ~Live(r) /\ phase[r] = "away" /\ phase'[r] = how
      /\ held' = held /\ need' = need /\ attempt' = attempt
      /\ note' = note /\ job' = job /\ cause' = cause /\ outcome' = outcome
      /\ level' = [level EXCEPT ![r] = 1] /\ left' = [left EXCEPT ![r] = DOMAIN ReadySets[1]]
      /\ beside' = IF others = {} THEN beside ELSE beside \cup others \cup {r}
  BY <1>1 DEF Start, Live, Inv, Typed
<1>3. Others(r)
  BY <1>1, <1>2 DEF Others, SameRun, Inv, Typed
<1>4. Typed'
  <2>1. DOMAIN ReadySets[1] \subseteq Nat
    BY LevelsAreNumbers, PlacesOfStages
  <2> QED BY <1>1, <1>2, <2>1 DEF Start, Inv, Typed
<1>5. Grown
  BY <1>2, NothingGrown DEF Inv
<1>6. /\ GoodPlan(r) /\ GoodHeld(r) /\ GoodEnd(r) /\ GoodJobs(r)
      /\ GoodBegun(r) /\ GoodNote(r) /\ GoodAlone(r)
  BY DEF Inv, GoodRun
<1>7. outcome[r] = None /\ note[r] = None /\ cause[r] = None
  BY <1>2, <1>6, NoneAssumption DEF GoodEnd, GoodNote, GoodJobs, Working
<1>8. GoodJobs(r)' /\ GoodNote(r)' /\ GoodEnd(r)'
  BY <1>2, <1>6, <1>7, NoneAssumption DEF GoodJobs, GoodNote, GoodEnd, Working
<1>9. GoodHeld(r)' /\ GoodBegun(r)' /\ GoodPlan(r)'
  <2>1. GoodHeld(r)' /\ GoodBegun(r)'
    BY <1>2, <1>6 DEF GoodHeld, Recorded, GoodBegun, Admitted, Running
  <2>2. 1 \in DOMAIN ReadySets /\ DOMAIN ReadySets[1] # {}
    BY LevelsAreNumbers, SetsHavePlaces
  <2>3. level'[r] = 1 /\ left'[r] = DOMAIN ReadySets[1] /\ ~Working(r)'
    BY <1>2 DEF Inv, Typed, Working
  <2>4. GoodPlan(r)'
    BY <2>2, <2>3 DEF GoodPlan
  <2> QED BY <2>1, <2>4
<1>10. GoodAlone(r)'
  <2>1. outcome'[r] # "refused" /\ note'[r] = None /\ cause'[r] # "refused"
    BY <1>2, <1>7, NoneAssumption
  <2>2. Admitted(r)' = {} /\ Running(r)' = {}
    BY <1>2 DEF Admitted, Running
  <2>3. r \notin beside' => \A q \in Runs \ {r} : ~Live(q)'
    BY <1>2, <1>3, SameParts DEF Others
  <2> QED BY <2>1, <2>2, <2>3 DEF GoodAlone
<1>11. \A q \in Runs \ {r} : GoodRun(q)'
  <2>1. \A p \in Runs \ {r} : Live(p)' => Live(p)
    BY <1>3, SameParts DEF Others
  <2>2. beside \subseteq beside' /\ \A q \in Runs \ {r} : ~Live(q) \/ q \in beside'
    BY <1>2
  <2> QED BY <1>2, <1>3, <1>4, <1>5, <2>1, <2>2, OtherRun DEF Others
<1>12. GoodRun(r)'
  BY <1>8, <1>9, <1>10 DEF GoodRun
<1> QED BY <1>2, <1>4, <1>11, <1>12, StoreKept DEF Inv

\* Once a ready set is read the next one is.
LEMMA TurnTaken ==
  ASSUME Inv, NEW r \in Runs, Recover(r)
  PROVE  /\ level' \in [Runs -> Nat] /\ left' \in [Runs -> SUBSET Nat]
         /\ \A q \in Runs \ {r} : level'[q] = level[q] /\ left'[q] = left[q]
         /\ GoodPlan(r)'
<1>1. /\ phase' = phase /\ phase[r] \in {"planning", "replaying"}
      /\ level[r] \in DOMAIN ReadySets /\ left[r] \subseteq DOMAIN ReadySets[level[r]]
  BY DEF Recover, Inv, GoodRun, GoodPlan
<1>2. CASE left[r] = Firsts(left[r]) /\ ~AtLast(r)
  <2>1. /\ level' = [level EXCEPT ![r] = @ + 1]
        /\ left' = [left EXCEPT ![r] = DOMAIN ReadySets[level[r] + 1]]
    BY <1>2 DEF Recover
  <2>2. level[r] + 1 \in DOMAIN ReadySets
    BY <1>1, <1>2, LevelsAreNumbers DEF AtLast
  <2>3. DOMAIN ReadySets[level[r] + 1] \subseteq Nat
    BY <2>2, PlacesOfStages
  <2>4. /\ level' \in [Runs -> Nat] /\ left' \in [Runs -> SUBSET Nat]
        /\ \A q \in Runs \ {r} : level'[q] = level[q] /\ left'[q] = left[q]
        /\ level'[r] = level[r] + 1 /\ left'[r] = DOMAIN ReadySets[level[r] + 1]
    BY <2>1, <2>3 DEF Inv, Typed
  <2>5. DOMAIN ReadySets[level[r] + 1] # {}
    BY <2>2, SetsHavePlaces
  <2>6. level'[r] \in DOMAIN ReadySets /\ left'[r] = DOMAIN ReadySets[level'[r]] /\ left'[r] # {}
    BY <2>2, <2>4, <2>5
  <2>7. ~Working(r)'
    BY <1>1 DEF Working
  <2>8. GoodPlan(r)'
    BY <2>6, <2>7 DEF GoodPlan
  <2> QED BY <2>4, <2>8
<1>3. CASE ~(left[r] = Firsts(left[r]) /\ ~AtLast(r))
  <2>1. level' = level /\ left' = [left EXCEPT ![r] = @ \ Firsts(@)]
    BY <1>3 DEF Recover
  <2>2. /\ left' \in [Runs -> SUBSET Nat] /\ left'[r] = left[r] \ Firsts(left[r])
        /\ \A q \in Runs \ {r} : level'[q] = level[q] /\ left'[q] = left[q]
    BY <2>1 DEF Inv, Typed
  <2>3. left'[r] = {} => AtLast(r)
    BY <1>3, <2>2 DEF Firsts
  <2>4. AtLast(r)' <=> AtLast(r)
    BY <2>1 DEF AtLast
  <2>5. level' \in [Runs -> Nat]
    BY <2>1 DEF Inv, Typed
  <2> QED BY <1>1, <2>1, <2>2, <2>3, <2>4, <2>5 DEF GoodPlan, Working
<1> QED BY <1>2, <1>3

LEMMA RecoverStep ==
  ASSUME Inv, NEW r \in Runs, Recover(r)
  PROVE  Inv'
<1>1. PICK s \in Stages : held' = [held EXCEPT ![r][s] = InStore(s)]
  BY DEF Recover
<1>2. /\ chain' = chain /\ beside' = beside /\ cancelled' = cancelled
      /\ phase' = phase /\ need' = need /\ attempt' = attempt
      /\ note' = note /\ job' = job /\ cause' = cause /\ outcome' = outcome
      /\ phase[r] \in {"planning", "replaying"}
  BY DEF Recover
<1> DEFINE x == InStore(s)
<1>3. held' = [held EXCEPT ![r][s] = x]
  BY <1>1
<1>4. x # None => s \in Durable /\ Recorded(s, x) /\ x \in Values
  <2> SUFFICES ASSUME x # None PROVE s \in Durable /\ Recorded(s, x) /\ x \in Values
    OBVIOUS
  <2>1. s \in Stages /\ chain[s] \in Seq(Receipts) /\ chain[s] # <<>> /\ s \in Durable
        /\ x = Last(chain[s]).out /\ Last(chain[s]).state = "completed"
    BY DEF InStore, Inv, Typed
  <2>2. Len(chain[s]) \in DOMAIN chain[s] /\ Last(chain[s]) = chain[s][Len(chain[s])]
    BY <2>1 DEF Last
  <2>3. chain[s][Len(chain[s])] \in Receipts
    BY <2>1, <2>2
  <2> QED BY <2>1, <2>2, <2>3 DEF Recorded, Receipts
<1> HIDE DEF x
<1>5. Others(r)
  BY <1>2, <1>3, TurnTaken DEF Others, SameRun, Inv, Typed
<1>6. \A u \in Stages : held'[r][u] = held[r][u] \/ (u = s /\ held'[r][u] = x)
  BY <1>3 DEF Inv, Typed
<1>7. Typed'
  <2>1. held' \in [Runs -> [Stages -> Values \cup {None}]]
    BY <1>3, <1>4 DEF Inv, Typed
  <2>2. left' \in [Runs -> SUBSET Nat] /\ level' \in [Runs -> Nat]
    BY TurnTaken
  <2> QED BY <1>2, <2>1, <2>2 DEF Inv, Typed
<1>8. GoodHeld(r)'
  <2>1. \A u \in Durable : held'[r][u] # None => Recorded(u, held'[r][u])
    BY <1>4, <1>6, StagesAssumption DEF Inv, GoodRun, GoodHeld
  <2> QED BY <1>2, <2>1 DEF GoodHeld, Recorded
<1>9. /\ GoodPlan(r)' /\ GoodEnd(r) /\ GoodJobs(r) /\ GoodNote(r) /\ GoodAlone(r)
  BY TurnTaken DEF Inv, GoodRun
<1>10. GoodEnd(r)' /\ GoodJobs(r)' /\ GoodNote(r)'
  BY <1>2, <1>9, NoneAssumption DEF GoodEnd, GoodJobs, GoodNote, Working
<1>11. Admitted(r) = {} /\ Admitted(r)' = {} /\ Running(r) = {} /\ Running(r)' = {}
  BY <1>2 DEF Admitted, Running
<1>12. GoodBegun(r)'
  BY <1>11 DEF GoodBegun
<1>13. GoodAlone(r)' /\ (Live(r)' => Live(r))
  BY <1>2, <1>9, <1>11 DEF GoodAlone, Live
<1> QED BY <1>2, <1>5, <1>7, <1>8, <1>9, <1>10, <1>12, <1>13, OwnStep DEF GoodRun

LEMMA DecideStep ==
  ASSUME Inv, NEW r \in Runs, Decide(r)
  PROVE  Inv'
<1> DEFINE asked == Asked(held[r])
<1>1. /\ chain' = chain /\ beside' = beside /\ cancelled' = cancelled
      /\ held' = held /\ attempt' = attempt
      /\ note' = note /\ job' = job /\ cause' = cause /\ outcome' = outcome
      /\ need' = [need EXCEPT ![r] = asked] /\ phase' = [phase EXCEPT ![r] = "beginning"]
      /\ level' = [level EXCEPT ![r] = 1] /\ left' = [left EXCEPT ![r] = Begins(1, asked)]
      /\ phase[r] = "planning"
  BY DEF Decide
<1>2. asked \subseteq Stages
  BY DEF Asked
<1>3. \A s \in Stages : MustRun(s, held[r], asked) => s \in asked
  BY AskedCloses
<1> HIDE DEF asked
<1>4. Others(r)
  BY <1>1 DEF Others, SameRun, Inv, Typed
<1>5. Begins(1, asked) \subseteq Nat
  BY LevelsAreNumbers, PlacesOfStages DEF Begins
<1>6. Typed'
  BY <1>1, <1>2, <1>5 DEF Inv, Typed
<1>7. phase'[r] = "beginning" /\ level'[r] = 1 /\ left'[r] = Begins(1, asked) /\ need'[r] = asked
  BY <1>1 DEF Inv, Typed
<1>8. GoodPlan(r)'
  <2>1. ASSUME NEW s \in Stages, s \in Outputs \/ \E t \in asked : s \in Reads(t), held[r][s] = None
        PROVE  s \in asked
    BY <1>2, <1>3, <2>1 DEF MustRun
  <2>2. \A l \in DOMAIN ReadySets : ~(l < 1)
    BY LevelsAreNumbers
  <2> QED BY <1>1, <1>7, <2>1, <2>2, LevelsAreNumbers DEF GoodPlan, Due
<1>9. /\ GoodHeld(r) /\ GoodEnd(r) /\ GoodJobs(r) /\ GoodNote(r) /\ GoodAlone(r)
  BY DEF Inv, GoodRun
<1>10. note[r] = None /\ cause[r] = None /\ outcome[r] = None
  BY <1>1, <1>9 DEF GoodNote, GoodJobs, GoodEnd, Working
<1>11. GoodHeld(r)' /\ GoodEnd(r)' /\ GoodJobs(r)' /\ GoodNote(r)'
  BY <1>1, <1>7, <1>9, <1>10, NoneAssumption DEF GoodHeld, Recorded, GoodEnd, GoodJobs, GoodNote
<1>12. Admitted(r)' = {} /\ Running(r)' = {}
  BY <1>7 DEF Admitted, Running, Due
<1>13. GoodBegun(r)'
  BY <1>12 DEF GoodBegun
<1>14. GoodAlone(r)' /\ (Live(r)' => Live(r))
  <2>1. Live(r) /\ \A p \in Runs \ {r} : Live(p)' <=> Live(p)
    BY <1>1, <1>4, SameParts DEF Others, Live
  <2> QED BY <1>1, <1>9, <1>10, <1>12, <2>1, NoneAssumption DEF GoodAlone
<1> QED BY <1>1, <1>4, <1>6, <1>8, <1>11, <1>13, <1>14, OwnStep DEF GoodRun

\* A step of a run that goes over to its conclusion, where it has every output.
LEMMA ConcludingStep ==
  ASSUME Inv, NEW r \in Runs, Live(r), phase' = [phase EXCEPT ![r] = "concluding"],
         UNCHANGED <<chain, localVars, cancelled, outcome, beside>>,
         note[r] = None, cause[r] = None, \A s \in Stages : job[r][s] = None,
         \A s \in Outputs : held[r][s] # None
  PROVE  Inv'
<1>1. /\ chain' = chain /\ beside' = beside /\ cancelled' = cancelled
      /\ level' = level /\ left' = left /\ held' = held /\ need' = need /\ attempt' = attempt
      /\ note' = note /\ job' = job /\ cause' = cause /\ outcome' = outcome
      /\ phase'[r] = "concluding"
  BY DEF localVars, Inv, Typed
<1>2. Others(r)
  BY <1>1 DEF Others, SameRun, Inv, Typed
<1>3. Typed'
  BY <1>1 DEF Inv, Typed
<1>4. /\ GoodHeld(r) /\ GoodEnd(r) /\ GoodAlone(r)
  BY DEF Inv, GoodRun
<1>5. outcome[r] = None
  BY <1>4 DEF GoodEnd, Live
<1>6. GoodPlan(r)' /\ GoodHeld(r)' /\ GoodEnd(r)' /\ GoodJobs(r)' /\ GoodNote(r)'
  BY <1>1, <1>4, <1>5, NoneAssumption DEF GoodPlan, GoodHeld, Recorded, GoodEnd, GoodJobs, GoodNote, Working
<1>7. Admitted(r)' = {} /\ Running(r)' = {}
  BY <1>1 DEF Admitted, Running
<1>8. GoodAlone(r)'
  <2>1. \A p \in Runs \ {r} : Live(p)' <=> Live(p)
    BY <1>2, SameParts DEF Others
  <2> QED BY <1>1, <1>4, <1>5, <1>7, <2>1, NoneAssumption DEF GoodAlone
<1>9. GoodBegun(r)'
  BY <1>7 DEF GoodBegun
<1> QED BY <1>1, <1>2, <1>3, <1>6, <1>8, <1>9, OwnStep DEF GoodRun

LEMMA DecideReplayStep ==
  ASSUME Inv, NEW r \in Runs, DecideReplay(r)
  PROVE  Inv'
<1>1. CASE Asked(held[r]) # {}
  BY <1>1, EndStep DEF DecideReplay
<1>2. CASE Asked(held[r]) = {}
  <2>1. \A s \in Outputs : held[r][s] # None
    BY <1>2, AskedCloses, StagesAssumption DEF MustRun
  <2>2. note[r] = None /\ cause[r] = None /\ \A s \in Stages : job[r][s] = None
    BY DEF DecideReplay, Inv, GoodRun, GoodNote, GoodJobs, Working
  <2>3. Live(r)
    BY DEF DecideReplay, Live
  <2> QED BY <1>2, <2>1, <2>2, <2>3, ConcludingStep DEF DecideReplay
<1> QED BY <1>1, <1>2

LEMMA EndingStep ==
  ASSUME Inv, NEW r \in Runs, RecoverFails(r) \/ GiveUp(r) \/ Conclude(r) \/ Crash(r)
  PROVE  Inv'
<1>1. /\ GoodEnd(r) /\ GoodAlone(r) /\ GoodJobs(r)
  BY DEF Inv, GoodRun
<1>2. CASE RecoverFails(r)
  BY <1>2, EndStep DEF RecoverFails
<1>3. CASE GiveUp(r)
  <2>1. cause[r] = "refused" => r \in beside
    BY <1>1, <1>3, NoneAssumption DEF GiveUp, GoodAlone, GoodJobs, Collected, Live
  <2> QED BY <1>3, <2>1, EndStep DEF GiveUp
<1>4. CASE Conclude(r)
  BY <1>1, <1>4, EndStep DEF Conclude, GoodEnd
<1>5. CASE Crash(r)
  BY <1>5, EndStep DEF Crash
<1> QED BY <1>2, <1>3, <1>4, <1>5

\* When a ready set is through, the run has what it was to leave.
LEMMA SetThrough ==
  ASSUME Inv, NEW r \in Runs, Collected(r), cause[r] = None
  PROVE  \A l \in DOMAIN ReadySets : \A i \in DOMAIN ReadySets[l] :
           l <= level[r] /\ ReadySets[l][i] \in need[r] => held[r][ReadySets[l][i]] # None
<1>1. Working(r) /\ phase[r] = "executing"
  BY DEF Collected, Working
<1>2. \A i \in Due(r) : held[r][StageAt(r, i)] # None
  BY <1>1, DuePlaces DEF Collected, Inv, GoodRun, GoodJobs
<1>3. level[r] \in Nat
  BY DEF Inv, Typed
<1> SUFFICES ASSUME NEW l \in DOMAIN ReadySets, NEW i \in DOMAIN ReadySets[l],
                    l <= level[r], ReadySets[l][i] \in need[r]
             PROVE  held[r][ReadySets[l][i]] # None
  OBVIOUS
<1>4. CASE l = level[r]
  BY <1>2, <1>4 DEF Due, Begins, StageAt
<1>5. CASE l < level[r]
  BY <1>1, <1>5 DEF Inv, GoodRun, GoodPlan
<1> QED BY <1>3, <1>4, <1>5, LevelsAreNumbers

LEMMA GatherStep ==
  ASSUME Inv, NEW r \in Runs, Gather(r)
  PROVE  Inv'
<1>1. Collected(r) /\ cause[r] = None /\ level[r] = Len(ReadySets) /\ Working(r)
  BY DEF Gather, AtLast, Collected, Working
<1>2. ASSUME NEW s \in Outputs PROVE held[r][s] # None
  <2>1. s \in Stages /\ (s \in need[r] \/ held[r][s] # None)
    BY <1>1, StagesAssumption DEF Inv, GoodRun, GoodPlan
  <2>2. PICK l \in DOMAIN ReadySets : \E i \in DOMAIN ReadySets[l] : ReadySets[l][i] = s
    BY <2>1, ProgramAssumption
  <2>3. l <= level[r]
    BY <1>1, LevelsAreNumbers
  <2> QED BY <1>1, <2>1, <2>2, <2>3, SetThrough
<1>3. note[r] = None /\ (\A s \in Stages : job[r][s] = None) /\ Live(r)
  BY <1>1 DEF Collected, Live
<1> QED BY <1>1, <1>2, <1>3, ConcludingStep DEF Gather

LEMMA ProceedStep ==
  ASSUME Inv, NEW r \in Runs, Proceed(r)
  PROVE  Inv'
<1>1. /\ chain' = chain /\ beside' = beside /\ cancelled' = cancelled
      /\ held' = held /\ need' = need /\ attempt' = attempt
      /\ note' = note /\ job' = job /\ cause' = cause /\ outcome' = outcome
      /\ phase' = [phase EXCEPT ![r] = "beginning"]
      /\ level' = [level EXCEPT ![r] = @ + 1]
      /\ left' = [left EXCEPT ![r] = Begins(level[r] + 1, need[r])]
      /\ Collected(r) /\ cause[r] = None /\ level[r] # Len(ReadySets)
  BY DEF Proceed, AtLast
<1>2. /\ phase'[r] = "beginning" /\ level'[r] = level[r] + 1
      /\ left'[r] = Begins(level[r] + 1, need[r])
  BY <1>1 DEF Inv, Typed
<1>3. Working(r) /\ Live(r) /\ phase[r] = "executing" /\ note[r] = None
      /\ \A s \in Stages : job[r][s] = None
  BY <1>1 DEF Collected, Working, Live
<1>4. level[r] \in DOMAIN ReadySets /\ level[r] \in Nat /\ level[r] + 1 \in DOMAIN ReadySets
  BY <1>1, <1>3, LevelsAreNumbers DEF Inv, Typed, GoodRun, GoodPlan
<1>5. Begins(level[r] + 1, need[r]) \subseteq Nat
  BY <1>4, PlacesOfStages DEF Begins
<1>6. Others(r)
  BY <1>1 DEF Others, SameRun, Inv, Typed
<1>7. Typed'
  BY <1>1, <1>4, <1>5 DEF Inv, Typed
<1>8. /\ GoodPlan(r) /\ GoodHeld(r) /\ GoodEnd(r) /\ GoodAlone(r)
  BY DEF Inv, GoodRun
<1>9. GoodPlan(r)'
  <2>1. \A l \in DOMAIN ReadySets : l < level[r] + 1 => l <= level[r]
    BY <1>4, LevelsAreNumbers
  <2>2. \A l \in DOMAIN ReadySets : \A i \in DOMAIN ReadySets[l] :
           l < level[r] + 1 /\ ReadySets[l][i] \in need[r] => held[r][ReadySets[l][i]] # None
    BY <1>1, <2>1, SetThrough
  <2> QED BY <1>1, <1>2, <1>3, <1>4, <1>8, <2>2 DEF GoodPlan, Due
<1>10. outcome[r] = None
  BY <1>3, <1>8 DEF GoodEnd
<1>11. GoodHeld(r)' /\ GoodEnd(r)' /\ GoodJobs(r)' /\ GoodNote(r)'
  BY <1>1, <1>2, <1>3, <1>8, <1>10, NoneAssumption DEF GoodHeld, Recorded, GoodEnd, GoodJobs, GoodNote
<1>12. Admitted(r)' = {} /\ Running(r)' = {}
  BY <1>1, <1>2 DEF Admitted, Running, Due
<1>13. GoodBegun(r)'
  BY <1>12 DEF GoodBegun
<1>14. GoodAlone(r)' /\ (Live(r)' => Live(r))
  <2>1. \A p \in Runs \ {r} : Live(p)' <=> Live(p)
    BY <1>6, SameParts DEF Others
  <2> QED BY <1>1, <1>3, <1>8, <1>10, <1>12, <2>1, NoneAssumption DEF GoodAlone
<1> QED BY <1>1, <1>6, <1>7, <1>9, <1>11, <1>13, <1>14, OwnStep DEF GoodRun

LEMMA SpawnStep ==
  ASSUME Inv, NEW r \in Runs, Spawn(r)
  PROVE  Inv'
<1> DEFINE f == [s \in Stages |->
               IF s \in need[r] /\ s \in ToSet(ReadySets[level[r]]) THEN "ready" ELSE None]
<1>1. /\ chain' = chain /\ beside' = beside /\ cancelled' = cancelled
      /\ level' = level /\ left' = left /\ held' = held /\ need' = need /\ attempt' = attempt
      /\ note' = note /\ cause' = cause /\ outcome' = outcome
      /\ phase' = [phase EXCEPT ![r] = "executing"] /\ job' = [job EXCEPT ![r] = f]
      /\ phase[r] = "beginning" /\ note[r] = None /\ left[r] = {}
  BY DEF Spawn
<1>2. phase'[r] = "executing" /\ job'[r] = f
  BY <1>1 DEF Inv, Typed
<1>3. Working(r) /\ Live(r)
  BY <1>1 DEF Working, Live
<1>4. \A s \in Stages : f[s] # None <=> \E i \in Due(r) : s = StageAt(r, i)
  BY NoneAssumption DEF Due, Begins, StageAt, ToSet
<1>5. f \in [Stages -> Values \cup {None, "ready", "executing", "waiting", "failed"}]
  OBVIOUS
<1> HIDE DEF f
<1>6. Others(r)
  BY <1>1 DEF Others, SameRun, Inv, Typed
<1>7. Typed'
  BY <1>1, <1>5 DEF Inv, Typed
<1>8. /\ GoodPlan(r) /\ GoodHeld(r) /\ GoodEnd(r) /\ GoodAlone(r) /\ GoodJobs(r) /\ GoodBegun(r)
  BY DEF Inv, GoodRun
<1>9. Due(r)' = Due(r) /\ \A i : StageAt(r, i)' = StageAt(r, i)
  BY <1>1 DEF Due, StageAt
<1>10. GoodPlan(r)'
  BY <1>1, <1>3, <1>8, <1>9 DEF GoodPlan
<1>11. outcome[r] = None /\ cause[r] = None
  BY <1>1, <1>3, <1>8 DEF GoodEnd, GoodJobs
<1>12. GoodJobs(r)'
  BY <1>1, <1>2, <1>3, <1>4, <1>9, DuePlaces DEF GoodJobs
<1>13. GoodHeld(r)' /\ GoodEnd(r)' /\ GoodNote(r)'
  BY <1>1, <1>2, <1>8, <1>11, NoneAssumption DEF GoodHeld, Recorded, GoodEnd, GoodNote
<1>14. Admitted(r)' = {} /\ Running(r)' = Running(r)
  BY <1>1, <1>2, <1>4 DEF Admitted, Running
<1>15. GoodBegun(r)'
  BY <1>1, <1>8, <1>14 DEF GoodBegun, Began, Inputs
<1>16. GoodAlone(r)' /\ (Live(r)' => Live(r))
  <2>1. \A p \in Runs \ {r} : Live(p)' <=> Live(p)
    BY <1>6, SameParts DEF Others
  <2> QED BY <1>1, <1>3, <1>8, <1>11, <1>14, <2>1, NoneAssumption DEF GoodAlone, Stands
<1> QED BY <1>1, <1>6, <1>7, <1>10, <1>12, <1>13, <1>15, <1>16, OwnStep DEF GoodRun

\* A goroutine of the ready set goes on.
LEMMA JobStep ==
  ASSUME Inv, NEW r \in Runs, NEW s \in Stages, Enter(r, s) \/ TurnAway(r, s) \/ Execute(r, s)
  PROVE  Inv'
<1>1. PICK x \in Values \cup {"executing", "waiting", "failed"} : job' = [job EXCEPT ![r][s] = x]
  BY DEF Enter, TurnAway, Execute
<1>2. /\ chain' = chain /\ beside' = beside /\ cancelled' = cancelled
      /\ phase' = phase /\ level' = level /\ left' = left /\ held' = held /\ need' = need
      /\ attempt' = attempt /\ note' = note /\ cause' = cause /\ outcome' = outcome
      /\ phase[r] = "executing" /\ job[r][s] \in {"ready", "executing"}
  BY DEF Enter, TurnAway, Execute
<1>3. /\ job'[r][s] = x /\ x # None /\ job[r][s] # None
      /\ \A u \in Stages \ {s} : job'[r][u] = job[r][u]
  BY <1>1, <1>2, NoneAssumption DEF Inv, Typed
<1>4. Others(r)
  BY <1>1, <1>2 DEF Others, SameRun, Inv, Typed
<1>5. Typed'
  <2>1. job' \in [Runs -> [Stages -> Values \cup {None, "ready", "executing", "waiting", "failed"}]]
    BY <1>1 DEF Inv, Typed
  <2> QED BY <1>2, <2>1 DEF Inv, Typed
<1>6. \A u \in Stages : job'[r][u] # None <=> job[r][u] # None
  BY <1>3
<1>7. /\ GoodPlan(r) /\ GoodHeld(r) /\ GoodEnd(r) /\ GoodAlone(r) /\ GoodJobs(r) /\ GoodBegun(r)
      /\ GoodNote(r)
  BY DEF Inv, GoodRun
<1>8. /\ Due(r)' = Due(r) /\ (\A i : StageAt(r, i)' = StageAt(r, i)) /\ (Working(r)' <=> Working(r))
      /\ Admitted(r)' = Admitted(r) /\ Working(r) /\ Live(r) /\ (Live(r)' <=> Live(r))
      /\ \A u : Inputs(r, u)' = Inputs(r, u)
  BY <1>2 DEF Due, StageAt, Working, Admitted, Live, Inputs
<1>9. Running(r)' = Running(r)
  BY <1>2, <1>6 DEF Running
<1>10. GoodPlan(r)' /\ GoodHeld(r)' /\ GoodEnd(r)'
  BY <1>2, <1>7, <1>8 DEF GoodPlan, GoodHeld, Recorded, GoodEnd
<1>11. GoodJobs(r)'
  BY <1>2, <1>6, <1>7, <1>8, DuePlaces DEF GoodJobs
<1>12. GoodBegun(r)'
  BY <1>2, <1>7, <1>8, <1>9 DEF GoodBegun, Began
<1>13. GoodNote(r)'
  <2> SUFFICES ASSUME note[r] # None PROVE GoodNote(r)'
    BY <1>2 DEF GoodNote
  <2>1. note[r].stage \in Stages
    BY DEF Inv, Typed, Notes
  <2>2. note[r].receipt.state = "completed" => note[r].stage # s
    BY <1>2, <1>7, StagesAssumption DEF GoodNote
  <2> QED BY <1>2, <1>3, <1>6, <1>7, <1>8, <2>1, <2>2 DEF GoodNote, Beginning
<1>14. GoodAlone(r)'
  <2>1. \A p \in Runs \ {r} : Live(p)' <=> Live(p)
    BY <1>4, SameParts DEF Others
  <2> QED BY <1>2, <1>7, <1>8, <1>9, <2>1 DEF GoodAlone, Stands
<1> QED BY <1>2, <1>4, <1>5, <1>8, <1>10, <1>11, <1>12, <1>13, <1>14, OwnStep DEF GoodRun

------------------------------------------------------------------------------
(* Receipts on their way *)

LEMMA InputsType ==
  ASSUME Inv, NEW r \in Runs, NEW s \in Stages
  PROVE  Inputs(r, s) \in [Reads(s) -> Values \cup {None}]
BY DEF Inputs, Kept, Reads, Inv, Typed

LEMMA ReceiptType ==
  ASSUME Inv, NEW r \in Runs, NEW s \in Stages, NEW n \in Nat, NEW out \in Values \cup {None},
         NEW state \in {"admitted", "running", "waiting", "completed", "failed"}
  PROVE  [attempt |-> n, state |-> state, in |-> Inputs(r, s), out |-> out] \in Receipts
<1>1. Inputs(r, s) \in UNION {[Reads(u) -> Values \cup {None}] : u \in Stages}
  BY InputsType
<1> QED BY <1>1 DEF Receipts

\* A run prepares a receipt that may follow the last one.
LEMMA PrepareStep ==
  ASSUME Inv, NEW r \in Runs, NEW s \in Stages, NEW q \in Receipts,
         Prepare(r, s, q), Legal(s, q), q.in = Inputs(r, s),
         chain' = chain, beside' = beside, cancelled' = cancelled, outcome' = outcome,
         phase' = phase, level' = level, left' = left, held' = held, need' = need, job' = job,
         cause' = cause, note[r] = None, Working(r),
         \/ attempt' = attempt /\ attempt[r][s] = q.attempt
         \/ attempt' = [attempt EXCEPT ![r][s] = q.attempt] /\ s \notin Admitted(r) \cup Running(r),
         q.state = "admitted" => phase[r] = "beginning" /\ Beginning(r, s),
         q.state = "running" => s \in Admitted(r),
         q.state \notin {"admitted", "running"} => phase[r] = "executing" /\ job[r][s] # None,
         q.state = "completed" => job[r][s] \in Values /\ q.out = Kept(s, job[r][s])
  PROVE  Inv'
<1> DEFINE new == [stage |-> s, after |-> Len(chain[s]), receipt |-> q]
<1>1. chain[s] \in Seq(Receipts) /\ q.attempt \in Nat
  BY DEF Inv, Typed, Receipts
<1>2. new \in Notes /\ new # None
  BY <1>1, NoneAssumption DEF Notes
<1>3. note' = [note EXCEPT ![r] = new] /\ note'[r] = new
  BY DEF Prepare, Inv, Typed
<1>4. new.stage = s /\ new.after = Len(chain[s]) /\ new.receipt = q
  OBVIOUS
<1>5. new.after = 0 \/ Transition(chain[s][new.after], q)
  BY <1>1 DEF Legal, Last
<1> HIDE DEF new
<1>6. /\ \A u \in Admitted(r) \cup Running(r) : attempt'[r][u] = attempt[r][u]
      /\ attempt'[r][s] = q.attempt
  BY DEF Admitted, Running, Inv, Typed
<1>7. Others(r)
  BY <1>3 DEF Others, SameRun, Inv, Typed
<1>8. Typed'
  <2>1. attempt' \in [Runs -> [Stages -> Nat]]
    <3>1. attempt \in [Runs -> [Stages -> Nat]]
      BY DEF Inv, Typed
    <3>2. CASE attempt' = [attempt EXCEPT ![r][s] = q.attempt]
      BY <1>1, <3>1, <3>2
    <3> QED BY <3>1, <3>2
  <2> QED BY <1>2, <1>3, <2>1 DEF Inv, Typed
<1>9. /\ GoodPlan(r) /\ GoodHeld(r) /\ GoodEnd(r) /\ GoodAlone(r) /\ GoodJobs(r) /\ GoodBegun(r)
  BY DEF Inv, GoodRun
<1>10. /\ Due(r)' = Due(r) /\ (\A i : StageAt(r, i)' = StageAt(r, i)) /\ Working(r)'
       /\ Admitted(r)' = Admitted(r) /\ Running(r)' = Running(r) /\ Live(r) /\ Live(r)'
       /\ (\A u : Beginning(r, u)' <=> Beginning(r, u)) /\ \A u : Inputs(r, u)' = Inputs(r, u)
  BY DEF Due, StageAt, Working, Admitted, Running, Live, Inputs, Beginning
<1>11. GoodPlan(r)' /\ GoodHeld(r)' /\ GoodEnd(r)' /\ GoodJobs(r)'
  <2>1. GoodPlan(r)'
    BY <1>6, <1>9, <1>10 DEF GoodPlan, Working
  <2> QED BY <1>9, <1>10, <2>1 DEF GoodHeld, Recorded, GoodEnd, GoodJobs
<1>12. GoodBegun(r)'
  BY <1>6, <1>9, <1>10 DEF GoodBegun, Began
<1>13. GoodNote(r)'
  BY <1>1, <1>3, <1>4, <1>5, <1>6, <1>10 DEF GoodNote
<1>14. GoodAlone(r)'
  <2>1. \A p \in Runs \ {r} : Live(p)' <=> Live(p)
    BY <1>7, SameParts DEF Others
  <2> QED BY <1>3, <1>4, <1>6, <1>9, <1>10, <2>1 DEF GoodAlone, Stands
<1> QED BY <1>7, <1>8, <1>10, <1>11, <1>12, <1>13, <1>14, OwnStep DEF GoodRun

LEMMA AdmitStep ==
  ASSUME Inv, NEW r \in Runs, Admit(r)
  PROVE  Inv'
<1>1. PICK s \in Stages :
        /\ Beginning(r, s)
        /\ LET n == IF chain[s] = <<>> THEN 1 ELSE Last(chain[s]).attempt + 1
               receipt == [attempt |-> n, state |-> "admitted", in |-> Inputs(r, s), out |-> None]
           IN IF Legal(s, receipt)
              THEN /\ attempt' = [attempt EXCEPT ![r][s] = n]
                   /\ Prepare(r, s, receipt)
                   /\ UNCHANGED <<phase, level, left, held, need, job, cause, cancelled, outcome>>
              ELSE End(r, "refused")
  BY DEF Admit
<1> DEFINE n == IF chain[s] = <<>> THEN 1 ELSE Last(chain[s]).attempt + 1
           receipt == [attempt |-> n, state |-> "admitted", in |-> Inputs(r, s), out |-> None]
<1>2. chain' = chain /\ beside' = beside /\ phase[r] = "beginning" /\ note[r] = None /\ Working(r)
  BY DEF Admit, Working
<1>3. n \in Nat /\ (chain[s] # <<>> => n = Last(chain[s]).attempt + 1)
  <2>1. chain[s] \in Seq(Receipts)
    BY DEF Inv, Typed
  <2>2. chain[s] # <<>> => Last(chain[s]) \in Receipts
    BY <2>1 DEF Last
  <2> QED BY <2>2 DEF Receipts
<1>4. Legal(s, receipt)
  BY <1>3 DEF Legal, Transition
<1>5. /\ attempt' = [attempt EXCEPT ![r][s] = n] /\ Prepare(r, s, receipt)
      /\ phase' = phase /\ level' = level /\ left' = left /\ held' = held /\ need' = need
      /\ job' = job /\ cause' = cause /\ cancelled' = cancelled /\ outcome' = outcome
  BY <1>1, <1>4
<1> HIDE DEF n
<1>7. PICK q \in Receipts : q = receipt
  BY <1>3, ReceiptType
<1>8. q.attempt = n /\ q.state = "admitted" /\ q.in = Inputs(r, s)
  BY <1>7
<1>9. Legal(s, q) /\ Prepare(r, s, q)
  BY <1>4, <1>5, <1>7
<1> HIDE DEF receipt
<1>6. s \notin Admitted(r) \cup Running(r)
  <2>1. PICK i \in left[r] : i \in Due(r) /\ s = StageAt(r, i)
    BY <1>1, <1>2, FirstPlace
  <2> QED BY <1>2, <2>1, DuePlaces DEF Admitted, Running
<1> QED BY <1>1, <1>2, <1>5, <1>6, <1>8, <1>9, PrepareStep

LEMMA RunStep ==
  ASSUME Inv, NEW r \in Runs, Run(r)
  PROVE  Inv'
<1>1. PICK s \in Stages :
        /\ Beginning(r, s)
        /\ LET receipt == [attempt |-> attempt[r][s], state |-> "running", in |-> Inputs(r, s), out |-> None]
           IN IF Legal(s, receipt)
              THEN /\ Prepare(r, s, receipt)
                   /\ UNCHANGED <<phase, level, left, held, need, attempt, job, cause, cancelled, outcome>>
              ELSE End(r, "refused")
  BY DEF Run
<1> DEFINE receipt == [attempt |-> attempt[r][s], state |-> "running", in |-> Inputs(r, s), out |-> None]
<1>2. chain' = chain /\ beside' = beside /\ phase[r] = "admitted" /\ note[r] = None /\ Working(r) /\ Live(r)
  BY DEF Run, Working, Live
<1>3. s \in Admitted(r)
  BY <1>1, <1>2 DEF Admitted
<1>4. CASE Legal(s, receipt)
  <2>1. attempt[r][s] \in Nat
    BY DEF Inv, Typed
  <2>2. /\ Prepare(r, s, receipt) /\ attempt' = attempt
        /\ phase' = phase /\ level' = level /\ left' = left /\ held' = held /\ need' = need
        /\ job' = job /\ cause' = cause /\ cancelled' = cancelled /\ outcome' = outcome
    BY <1>1, <1>4
  <2>3. PICK q \in Receipts : q = receipt
    BY <2>1, ReceiptType
  <2>4. q.attempt = attempt[r][s] /\ q.state = "running" /\ q.in = Inputs(r, s)
    BY <2>3
  <2>5. Legal(s, q) /\ Prepare(r, s, q)
    BY <1>4, <2>2, <2>3
  <2> QED BY <1>2, <1>3, <2>2, <2>4, <2>5, PrepareStep
<1>5. CASE ~Legal(s, receipt)
  <2>1. r \in beside
    <3>1. ASSUME Stands(r, s, "admitted") PROVE FALSE
      BY <1>5, <3>1 DEF Stands, Legal, Transition
    <3> QED BY <1>2, <1>3, <3>1 DEF Inv, GoodRun, GoodAlone
  <2>2. End(r, "refused")
    BY <1>1, <1>5
  <2> QED BY <1>2, <2>1, <2>2, EndStep
<1> QED BY <1>4, <1>5

------------------------------------------------------------------------------
(* What becomes of a receipt *)

\* A step of one run, that may add to the store.
LEMMA StoreStep ==
  ASSUME Inv, Typed', GoodStore', NEW r \in Runs, Others(r), Live(r), Grown, beside' = beside, GoodRun(r)'
  PROVE  Inv'
<1>1. \A p \in Runs \ {r} : Live(p)' => Live(p)
  BY SameParts DEF Others
<1>2. \A q \in Runs \ {r} : GoodRun(q)'
  BY <1>1, OtherRun DEF Others
<1> QED BY <1>2 DEF Inv

\* A result of the ready set is dealt with: it is what the stage left, or a cause to stop.
LEMMA DeliveredRun ==
  ASSUME Inv, Typed', NEW r \in Runs, NEW s \in Stages, Grown, Others(r),
         phase[r] = "executing", phase' = phase, level' = level, left' = left, need' = need,
         attempt' = attempt, outcome' = outcome, beside' = beside, note'[r] = None,
         job[r][s] # None, job' = [job EXCEPT ![r][s] = None],
         held' = held \/ (held' = [held EXCEPT ![r][s] = job[r][s]] /\ job[r][s] \in Values),
         held' # held /\ s \in Durable => \E i \in DOMAIN chain'[s] :
            chain'[s][i].state = "completed" /\ chain'[s][i].out = job[r][s],
         cause'[r] = None => cause[r] = None /\ held'[r][s] # None,
         cause'[r] = "refused" => r \in beside \/ cause[r] = "refused",
         \A u \in Stages \ {s} : chain'[u] = chain[u]
  PROVE  GoodRun(r)'
<1>1. /\ GoodPlan(r) /\ GoodHeld(r) /\ GoodEnd(r) /\ GoodAlone(r) /\ GoodJobs(r) /\ GoodBegun(r)
  BY DEF Inv, GoodRun
<1>2. Working(r) /\ Working(r)' /\ Live(r) /\ Live(r)' /\ phase'[r] = "executing"
  BY DEF Working, Live
<1>3. Due(r)' = Due(r) /\ \A i : StageAt(r, i)' = StageAt(r, i)
  BY DEF Due, StageAt
<1>4. job'[r][s] = None /\ \A u \in Stages \ {s} : job'[r][u] = job[r][u]
  BY DEF Inv, Typed
<1>5. Admitted(r)' = {} /\ Admitted(r) = {} /\ Running(r)' = Running(r) \ {s}
  BY <1>2, <1>4 DEF Admitted, Running
<1>6. /\ \A u \in Stages \ {s} : held'[r][u] = held[r][u]
      /\ held'[r][s] = held[r][s] \/ (held' # held /\ held'[r][s] = job[r][s] /\ job[r][s] \in Values)
      /\ \A u \in Stages : held[r][u] # None => held'[r][u] # None
  BY NoneAssumption DEF Inv, Typed
<1>7. GoodPlan(r)'
  <2>1. level[r] \in DOMAIN ReadySets /\ left[r] \subseteq Due(r)
    BY <1>1, <1>2 DEF GoodPlan
  <2>2. \A u \in Stages : (u \in Outputs \/ \E t \in need[r] : u \in Reads(t))
         => u \in need[r] \/ held'[r][u] # None
    BY <1>1, <1>2, <1>6 DEF GoodPlan
  <2>3. ASSUME NEW l \in DOMAIN ReadySets, NEW i \in DOMAIN ReadySets[l],
               l < level[r], ReadySets[l][i] \in need[r]
        PROVE  held'[r][ReadySets[l][i]] # None
    BY <1>1, <1>2, <1>6, <2>3, PlacesOfStages DEF GoodPlan
  <2> QED BY <1>3, <2>1, <2>2, <2>3 DEF GoodPlan
<1>8. GoodHeld(r)'
  <2> SUFFICES ASSUME NEW u \in Durable, held'[r][u] # None
               PROVE  \E i \in DOMAIN chain'[u] : chain'[u][i].state = "completed" /\ chain'[u][i].out = held'[r][u]
    BY DEF GoodHeld, Recorded
  <2>1. u \in Stages
    BY StagesAssumption
  <2>2. CASE held'[r][u] = held[r][u]
    BY <1>1, <2>1, <2>2 DEF GoodHeld, Recorded, Grown
  <2>3. CASE u = s /\ held' # held /\ held'[r][s] = job[r][s]
    BY <2>3
  <2> QED BY <1>6, <2>1, <2>2, <2>3
<1>9. GoodEnd(r)'
  BY <1>1, <1>2, NoneAssumption DEF GoodEnd
<1>10. GoodJobs(r)'
  <2>1. \A u \in Stages : job'[r][u] # None => \E i \in Due(r) : u = StageAt(r, i)
    BY <1>1, <1>2, <1>4 DEF GoodJobs
  <2>2. cause'[r] = None => \A i \in Due(r) : job'[r][StageAt(r, i)] # None \/ held'[r][StageAt(r, i)] # None
    BY <1>1, <1>2, <1>4, <1>6, DuePlaces DEF GoodJobs
  <2> QED BY <1>2, <1>3, <2>1, <2>2 DEF GoodJobs
<1>11. GoodBegun(r)'
  <2> SUFFICES ASSUME NEW u \in Running(r), u # s PROVE Began(r, u)'
    BY <1>5 DEF GoodBegun
  <2>1. u \in Stages /\ Began(r, u) /\ s \notin Reads(u)
    <3>1. u \in Stages /\ job[r][u] # None
      BY DEF Running
    <3>2. (\E i \in Due(r) : u = StageAt(r, i)) /\ (\E i \in Due(r) : s = StageAt(r, i))
      BY <1>1, <3>1 DEF GoodJobs
    <3> QED BY <1>1, <1>2, <3>1, <3>2, DuePlaces DEF GoodBegun
  <2>2. Inputs(r, u)' = Inputs(r, u)
    BY <1>6, <2>1 DEF Inputs, Reads
  <2>3. PICK i \in DOMAIN chain[u] : chain[u][i].attempt = attempt[r][u] /\ chain[u][i].in = Inputs(r, u)
    BY <2>1 DEF Began
  <2>4. i \in DOMAIN chain'[u] /\ chain'[u][i] = chain[u][i]
    BY <2>1, <2>3 DEF Grown
  <2> QED BY <2>2, <2>3, <2>4 DEF Began
<1>12. GoodNote(r)'
  BY DEF GoodNote
<1>13. GoodAlone(r)'
  <2>1. \A p \in Runs \ {r} : Live(p)' <=> Live(p)
    BY SameParts DEF Others
  <2>2. \A u \in Running(r) \ {s} : Stands(r, u, "running") => Stands(r, u, "running")'
    BY DEF Stands, Running
  <2> QED BY <1>1, <1>2, <1>5, <2>1, <2>2 DEF GoodAlone
<1> QED BY <1>7, <1>8, <1>9, <1>10, <1>11, <1>12, <1>13 DEF GoodRun

LEMMA DeliveredTyped ==
  ASSUME Inv, NEW r \in Runs, NEW s \in Stages,
         chain' \in [Stages -> Seq(Receipts)], phase' = phase, level' = level, left' = left, need' = need,
         attempt' = attempt, outcome' = outcome, beside' = beside, cancelled' = cancelled,
         note' = note \/ note' = [note EXCEPT ![r] = None], job' = [job EXCEPT ![r][s] = None],
         held' = held \/ (held' = [held EXCEPT ![r][s] = job[r][s]] /\ job[r][s] \in Values),
         NEW y \in {None, "waiting", "failed", "refused"}, cause' = [cause EXCEPT ![r] = y]
  PROVE  Typed' /\ Others(r) /\ cause'[r] = y
<1>1. job' \in [Runs -> [Stages -> Values \cup {None, "ready", "executing", "waiting", "failed"}]]
  BY DEF Inv, Typed
<1>2. held' \in [Runs -> [Stages -> Values \cup {None}]]
  <2>1. held \in [Runs -> [Stages -> Values \cup {None}]]
    BY DEF Inv, Typed
  <2>2. CASE held' = held
    BY <2>1, <2>2
  <2>3. CASE held' = [held EXCEPT ![r][s] = job[r][s]] /\ job[r][s] \in Values
    BY <2>1, <2>3
  <2> QED BY <2>2, <2>3
<1>3. note' \in [Runs -> Notes \cup {None}] /\ cause' \in [Runs -> {None, "waiting", "failed", "refused"}]
  BY DEF Inv, Typed
<1>4. Typed'
  BY <1>1, <1>2, <1>3 DEF Inv, Typed
<1>5. Others(r) /\ cause'[r] = y
  BY DEF Others, SameRun, Inv, Typed
<1> QED BY <1>4, <1>5

\* The cause a stage is blamed with.
LEMMA BlamedCause ==
  ASSUME Inv, NEW r \in Runs, NEW s, NEW why \in {"failed", "refused"}, Blamed(r, s, why)
  PROVE  \E y \in {"waiting", "failed", "refused"} :
           /\ cause' = [cause EXCEPT ![r] = y]
           /\ y = "refused" => cause[r] = "refused" \/ why = "refused"
<1> DEFINE y == IF cause[r] # None THEN cause[r] ELSE IF job[r][s] = "waiting" THEN "waiting" ELSE why
<1>1. cause' = [cause EXCEPT ![r] = y]
  BY DEF Blamed, Inv, Typed
<1>2. y \in {"waiting", "failed", "refused"} /\ (y = "refused" => cause[r] = "refused" \/ why = "refused")
  BY DEF Inv, Typed
<1> QED BY <1>1, <1>2

LEMMA FinishStep ==
  ASSUME Inv, NEW r \in Runs, NEW s \in Stages, Finish(r, s)
  PROVE  Inv'
<1> DEFINE state == IF job[r][s] \in Values THEN "completed" ELSE job[r][s]
           out == IF state = "completed" THEN Kept(s, job[r][s]) ELSE None
           receipt == [attempt |-> attempt[r][s], state |-> state, in |-> Inputs(r, s), out |-> out]
<1>1. /\ chain' = chain /\ beside' = beside /\ cancelled' = cancelled /\ outcome' = outcome
      /\ phase' = phase /\ level' = level /\ left' = left /\ held' = held /\ need' = need
      /\ attempt' = attempt /\ phase[r] = "executing" /\ note[r] = None
      /\ job[r][s] \in Values \cup {"waiting", "failed"}
      /\ IF Legal(s, receipt)
         THEN Prepare(r, s, receipt) /\ job' = job /\ cause' = cause
         ELSE /\ job' = [job EXCEPT ![r][s] = None]
              /\ Blamed(r, s, "refused")
              /\ note' = note
  BY DEF Finish
<1>2. Working(r) /\ Live(r) /\ job[r][s] # None /\ s \in Running(r) /\ attempt[r][s] \in Nat
  BY <1>1, NoneAssumption DEF Working, Live, Running, Inv, Typed
<1>3. /\ state \in {"completed", "waiting", "failed"} /\ out \in Values \cup {None}
      /\ state = "completed" => job[r][s] \in Values /\ out = Kept(s, job[r][s])
  BY <1>1 DEF Kept
<1> HIDE DEF state, out
<1>4. CASE Legal(s, receipt)
  <2>1. Prepare(r, s, receipt) /\ job' = job /\ cause' = cause
    BY <1>1, <1>4
  <2>2. PICK q \in Receipts : q = receipt
    BY <1>2, <1>3, ReceiptType
  <2>3. q.attempt = attempt[r][s] /\ q.state = state /\ q.in = Inputs(r, s) /\ q.out = out
    BY <2>2
  <2>4. Legal(s, q) /\ Prepare(r, s, q)
    BY <1>4, <2>1, <2>2
  <2> QED BY <1>1, <1>2, <1>3, <2>1, <2>3, <2>4, PrepareStep
<1>5. CASE ~Legal(s, receipt)
  <2>1. job' = [job EXCEPT ![r][s] = None] /\ Blamed(r, s, "refused") /\ note' = note
    BY <1>1, <1>5
  <2>2. PICK y \in {"waiting", "failed", "refused"} : cause' = [cause EXCEPT ![r] = y]
    BY <2>1, BlamedCause
  <2>3. r \in beside
    <3>1. ASSUME Stands(r, s, "running") PROVE FALSE
      BY <1>3, <1>5, <3>1 DEF Stands, Legal, Transition
    <3> QED BY <1>2, <3>1 DEF Inv, GoodRun, GoodAlone
  <2>4. Typed' /\ Others(r) /\ cause'[r] = y /\ y # None
    <3>1. chain' \in [Stages -> Seq(Receipts)]
      BY <1>1 DEF Inv, Typed
    <3>2. y # None
      BY NoneAssumption
    <3> QED BY <1>1, <2>1, <2>2, <3>1, <3>2, DeliveredTyped
  <2>5. Grown
    BY <1>1, NothingGrown DEF Inv
  <2>6. GoodRun(r)'
    BY <1>1, <1>2, <2>1, <2>3, <2>4, <2>5, DeliveredRun
  <2>7. Live(r)' => Live(r)
    BY <1>2
  <2> QED BY <1>1, <2>4, <2>6, <2>7, OwnStep
<1> QED BY <1>4, <1>5

\* A receipt was not committed: a stage that was to begin ends its run, another fails.
LEMMA NotCommittedStep ==
  ASSUME Inv, NEW r \in Runs, NEW why \in {"failed", "refused"}, note[r] # None, NotCommitted(r, why),
         chain' = chain, beside' = beside, why = "refused" => r \in beside
  PROVE  Inv'
<1>1. CASE note[r].receipt.state \in {"admitted", "running"}
  <2>1. End(r, why)
    BY <1>1 DEF NotCommitted
  <2> QED BY <2>1, EndStep
<1>2. CASE note[r].receipt.state \notin {"admitted", "running"}
  <2> DEFINE s == note[r].stage
  <2>1. /\ note' = [note EXCEPT ![r] = None] /\ job' = [job EXCEPT ![r][s] = None]
        /\ Blamed(r, s, why)
        /\ phase' = phase /\ level' = level /\ left' = left /\ held' = held /\ need' = need
        /\ attempt' = attempt /\ cancelled' = cancelled /\ outcome' = outcome
    BY <1>2 DEF NotCommitted
  <2>2. s \in Stages /\ phase[r] = "executing" /\ job[r][s] # None
    BY <1>2 DEF Inv, Typed, Notes, GoodRun, GoodNote
  <2> HIDE DEF s
  <2>3. PICK y \in {"waiting", "failed", "refused"} :
          cause' = [cause EXCEPT ![r] = y] /\ (y = "refused" => cause[r] = "refused" \/ why = "refused")
    BY <2>1, BlamedCause
  <2>4. Typed' /\ Others(r) /\ cause'[r] = y /\ y # None
    <3>1. chain' \in [Stages -> Seq(Receipts)]
      BY DEF Inv, Typed
    <3>2. y # None
      BY NoneAssumption
    <3> QED BY <2>1, <2>2, <2>3, <3>1, <3>2, DeliveredTyped
  <2>5. Grown
    BY NothingGrown DEF Inv
  <2>6. note'[r] = None
    BY <2>1 DEF Inv, Typed
  <2>7. GoodRun(r)'
    BY <2>1, <2>2, <2>3, <2>4, <2>5, <2>6, DeliveredRun
  <2>8. Live(r)' => Live(r)
    BY <2>2 DEF Live
  <2> QED BY <2>4, <2>7, <2>8, OwnStep
<1> QED BY <1>1, <1>2

LEMMA CommitFailsStep ==
  ASSUME Inv, NEW r \in Runs, CommitFails(r) \/ CommitConflicts(r)
  PROVE  Inv'
<1>1. CASE CommitFails(r)
  BY <1>1, NotCommittedStep DEF CommitFails
<1>2. CASE CommitConflicts(r)
  <2>1. r \in beside
    BY <1>2 DEF CommitConflicts, Inv, GoodRun, GoodNote, GoodAlone, Live, Working
  <2> QED BY <1>2, <2>1, NotCommittedStep DEF CommitConflicts
<1> QED BY <1>1, <1>2

\* The receipt a run was to commit is in the store, of this commit or of one before.
Landed(r, s, q) ==
  /\ Grown /\ chain' \in [Stages -> Seq(Receipts)] /\ beside' = beside
  /\ \E i \in DOMAIN chain'[s] : chain'[s][i] = q
  /\ \A u \in Stages \ {s} : chain'[u] = chain[u]
  /\ r \notin beside => chain'[s] # <<>> /\ Last(chain'[s]) = q

\* The next stage of the ready set is admitted, and after that it runs.
LEMMA BeginLands ==
  ASSUME Inv, NEW r \in Runs, NEW s \in Stages, NEW q \in Receipts, Landed(r, s, q), Committed(r),
         note[r] # None, note[r].stage = s, note[r].receipt = q, q.state \in {"admitted", "running"}
  PROVE  Typed' /\ Others(r) /\ GoodRun(r)'
<1> DEFINE to == IF q.state = "admitted" THEN "admitted" ELSE "beginning"
           still == IF q.state = "admitted" THEN left[r] ELSE left[r] \ Firsts(left[r])
<1>1. /\ note' = [note EXCEPT ![r] = None] /\ phase' = [phase EXCEPT ![r] = to]
      /\ left' = IF q.state = "admitted" THEN left ELSE [left EXCEPT ![r] = still]
      /\ level' = level /\ held' = held /\ need' = need /\ attempt' = attempt
      /\ job' = job /\ cause' = cause /\ cancelled' = cancelled /\ outcome' = outcome
  BY DEF Committed
<1>2. note'[r] = None /\ phase'[r] = to /\ left'[r] = still
  BY <1>1 DEF Inv, Typed
<1>3. /\ GoodPlan(r) /\ GoodHeld(r) /\ GoodEnd(r) /\ GoodAlone(r) /\ GoodJobs(r) /\ GoodBegun(r)
      /\ GoodNote(r)
  BY DEF Inv, GoodRun
<1>4. /\ q.attempt = attempt[r][s] /\ q.in = Inputs(r, s) /\ Working(r) /\ Beginning(r, s)
      /\ phase[r] = IF q.state = "admitted" THEN "beginning" ELSE "admitted"
  BY <1>3 DEF GoodNote, Admitted
<1>5. PICK i \in left[r] : i \in Due(r) /\ s = StageAt(r, i) /\ Firsts(left[r]) = {i}
  BY <1>4, FirstPlace
<1>6. Typed' /\ Others(r)
  <2>1. left' \in [Runs -> SUBSET Nat]
    BY <1>1 DEF Inv, Typed
  <2>2. phase' \in [Runs -> {"away", "planning", "replaying", "beginning", "admitted", "executing",
                              "concluding", "ended"}]
    BY <1>1 DEF Inv, Typed
  <2>3. Typed'
    BY <1>1, <2>1, <2>2 DEF Landed, Inv, Typed
  <2> QED BY <1>1, <2>3 DEF Others, SameRun, Inv, Typed
<1>7. /\ Due(r)' = Due(r) /\ (\A j : StageAt(r, j)' = StageAt(r, j)) /\ Working(r)' /\ Live(r) /\ Live(r)'
      /\ (\A u : Inputs(r, u)' = Inputs(r, u)) /\ to \in {"admitted", "beginning"}
  BY <1>1, <1>2, <1>4 DEF Due, StageAt, Working, Live, Inputs
<1>8. still \subseteq Due(r) /\ still \subseteq left[r]
  BY <1>3, <1>4 DEF GoodPlan
<1>9. GoodPlan(r)'
  BY <1>1, <1>2, <1>3, <1>4, <1>7, <1>8 DEF GoodPlan
<1>10. GoodHeld(r)'
  <2> SUFFICES ASSUME NEW u \in Durable, held[r][u] # None
               PROVE  \E j \in DOMAIN chain'[u] : chain'[u][j].state = "completed" /\ chain'[u][j].out = held[r][u]
    BY <1>1 DEF GoodHeld, Recorded
  <2>1. u \in Stages /\ Grown
    BY StagesAssumption DEF Landed
  <2>2. PICK j \in DOMAIN chain[u] : chain[u][j].state = "completed" /\ chain[u][j].out = held[r][u]
    BY <1>3 DEF GoodHeld, Recorded
  <2>3. j \in DOMAIN chain'[u] /\ chain'[u][j] = chain[u][j]
    BY <2>1, <2>2 DEF Grown
  <2> QED BY <2>2, <2>3
<1>11. GoodEnd(r)' /\ GoodJobs(r)' /\ GoodNote(r)'
  BY <1>1, <1>2, <1>3, <1>4, <1>7 DEF GoodEnd, GoodJobs, GoodNote, Live
<1>12. Running(r) = {u \in Stages : \E j \in Due(r) \ left[r] : u = StageAt(r, j)} /\ s \notin Running(r)
  BY <1>4, <1>5, DuePlaces DEF Running
<1>13. Running(r)' = {u \in Stages : \E j \in Due(r) \ still : u = StageAt(r, j)}
  BY <1>2, <1>7 DEF Running
<1>14. Admitted(r)' = (IF q.state = "admitted" THEN {s} ELSE {})
  <2>1. CASE q.state = "admitted"
    <3>1. \A u : Beginning(r, u)' <=> u = s
      BY <1>1, <1>5, <2>1 DEF Beginning, StageAt
    <3> QED BY <1>2, <2>1, <3>1 DEF Admitted
  <2>2. CASE q.state # "admitted"
    BY <1>2, <2>2 DEF Admitted
  <2> QED BY <2>1, <2>2
<1>15. Running(r)' = (IF q.state = "admitted" THEN Running(r) ELSE Running(r) \cup {s})
  <2>1. CASE q.state = "admitted"
    BY <1>12, <1>13, <2>1
  <2>2. CASE q.state # "admitted"
    <3>1. Due(r) \ still = (Due(r) \ left[r]) \cup {i}
      BY <1>5, <2>2
    <3> QED BY <1>5, <1>12, <1>13, <2>2, <3>1
  <2> QED BY <2>1, <2>2
<1>16. GoodBegun(r)'
  <2>1. Began(r, s)'
    BY <1>1, <1>4, <1>7 DEF Began, Landed
  <2>2. ASSUME NEW u \in Running(r) PROVE Began(r, u)'
    <3>1. u \in Stages /\ Began(r, u)
      BY <1>3, <2>2 DEF GoodBegun, Running
    <3> QED BY <1>1, <1>7, <3>1 DEF Began, Landed, Grown
  <2> QED BY <1>14, <1>15, <2>1, <2>2 DEF GoodBegun
<1>17. GoodAlone(r)'
  <2>1. \A p \in Runs \ {r} : Live(p)' <=> Live(p)
    BY <1>6, SameParts DEF Others
  <2>2. r \notin beside => Stands(r, s, q.state)'
    BY <1>1, <1>4 DEF Landed, Stands
  <2>3. \A u \in Running(r) : Stands(r, u, "running") => Stands(r, u, "running")'
    BY <1>1, <1>12 DEF Stands, Landed
  <2> QED BY <1>1, <1>2, <1>3, <1>7, <1>14, <1>15, <2>1, <2>2, <2>3 DEF GoodAlone, Landed
<1> QED BY <1>6, <1>9, <1>10, <1>11, <1>16, <1>17 DEF GoodRun

\* A result is on record: the run has what the stage left, or a cause to stop.
LEMMA ResultLands ==
  ASSUME Inv, NEW r \in Runs, NEW s \in Stages, NEW q \in Receipts, Landed(r, s, q), Committed(r),
         note[r] # None, note[r].stage = s, note[r].receipt = q, q.state \notin {"admitted", "running"}
  PROVE  Typed' /\ Others(r) /\ GoodRun(r)'
<1> DEFINE done == q.state = "completed"
           y == IF done \/ cause[r] # None THEN cause[r] ELSE q.state
<1>1. q.state \in {"completed", "waiting", "failed"}
  BY DEF Receipts
<1>2. /\ note' = [note EXCEPT ![r] = None] /\ job' = [job EXCEPT ![r][s] = None]
      /\ held' = IF done THEN [held EXCEPT ![r][s] = job[r][s]] ELSE held
      /\ phase' = phase /\ left' = left /\ level' = level /\ need' = need /\ attempt' = attempt
      /\ cancelled' = cancelled /\ outcome' = outcome
  BY <1>1 DEF Committed
<1>3. cause' = [cause EXCEPT ![r] = y]
  BY <1>1 DEF Committed, Inv, Typed
<1>4. /\ phase[r] = "executing" /\ job[r][s] # None
      /\ done => job[r][s] \in Values /\ q.out = Kept(s, job[r][s])
  BY DEF Inv, GoodRun, GoodNote
<1>5. y \in {None, "waiting", "failed", "refused"} /\ (y = None => done /\ cause[r] = None)
      /\ (y = "refused" => cause[r] = "refused")
  BY <1>1, NoneAssumption DEF Inv, Typed
<1> HIDE DEF y
<1>6. held' = held \/ (held' = [held EXCEPT ![r][s] = job[r][s]] /\ job[r][s] \in Values)
  BY <1>2, <1>4
<1>7. Typed' /\ Others(r) /\ cause'[r] = y
  BY <1>2, <1>3, <1>5, <1>6, DeliveredTyped DEF Landed
<1>8. held' # held /\ s \in Durable => \E i \in DOMAIN chain'[s] :
            chain'[s][i].state = "completed" /\ chain'[s][i].out = job[r][s]
  BY <1>2, <1>4 DEF Landed, Kept
<1>9. done => held'[r][s] # None
  BY <1>2, <1>4, NoneAssumption DEF Inv, Typed
<1>10. note'[r] = None
  BY <1>2 DEF Inv, Typed
<1>11. GoodRun(r)'
  BY <1>2, <1>4, <1>5, <1>6, <1>7, <1>8, <1>9, <1>10, DeliveredRun DEF Landed
<1> QED BY <1>7, <1>11

------------------------------------------------------------------------------
(* The store grows *)

\* A receipt is about a stage that its writer's ready set has to do.
LEMMA WritersPlace ==
  ASSUME Inv, NEW r \in Runs, note[r] # None
  PROVE  /\ Working(r) /\ note[r].stage \in Stages
         /\ \E i \in Due(r) : note[r].stage = StageAt(r, i)
<1> DEFINE s == note[r].stage
           state == note[r].receipt.state
<1>1. s \in Stages /\ state \in {"admitted", "running", "waiting", "completed", "failed"}
  BY DEF Inv, Typed, Notes, Receipts
<1>2. /\ Working(r)
      /\ state \in {"admitted", "running"} => Beginning(r, s)
      /\ state \notin {"admitted", "running"} => phase[r] = "executing" /\ job[r][s] # None
  BY DEF Inv, GoodRun, GoodNote, Admitted
<1>3. CASE state \in {"admitted", "running"}
  BY <1>1, <1>2, <1>3, FirstPlace
<1>4. CASE state \notin {"admitted", "running"}
  BY <1>1, <1>2, <1>4 DEF Inv, GoodRun, GoodJobs
<1> QED BY <1>1, <1>2, <1>3, <1>4

\* What a stage reads is there when its ready set is reached.
LEMMA InputsHeld ==
  ASSUME Inv, NEW r \in Runs, Working(r), NEW i \in Due(r), NEW u \in Reads(StageAt(r, i))
  PROVE  held[r][u] # None
<1> DEFINE s == StageAt(r, i)
<1>1. s \in Stages /\ s \in need[r] /\ i \in DOMAIN ReadySets[level[r]] /\ level[r] \in DOMAIN ReadySets
  BY DuePlaces DEF Inv, GoodRun, GoodPlan
<1>2. u \in Stages /\ <<u, s>> \in Edges
  BY DEF Reads
<1>3. CASE u \notin need[r]
  BY <1>1, <1>2, <1>3 DEF Inv, GoodRun, GoodPlan
<1>4. CASE u \in need[r]
  <2>1. PICK k \in DOMAIN ReadySets : \E j \in DOMAIN ReadySets[k] : ReadySets[k][j] = u
    BY <1>2, ProgramAssumption
  <2>2. PICK j \in DOMAIN ReadySets[k] : ReadySets[k][j] = u
    BY <2>1
  <2>3. k < level[r]
    BY <1>1, <1>2, <2>2, ProgramAssumption DEF StageAt
  <2> QED BY <1>4, <2>2, <2>3 DEF Inv, GoodRun, GoodPlan
<1> QED BY <1>3, <1>4

\* The receipt that a run is to commit continues the stage's history.
LEMMA HistoryGoesOn ==
  ASSUME Inv, NEW r \in Runs, note[r] # None, NEW s \in Stages, NEW q \in Receipts,
         note[r].stage = s, note[r].receipt = q, note[r].after = Len(chain[s]),
         NEW i \in DOMAIN chain[s]
  PROVE  /\ Onward(chain[s][i], q)
         /\ chain[s][i].attempt = q.attempt => chain[s][i].in = q.in
<1> DEFINE m == Len(chain[s])
           p == chain[s][m]
<1>1. chain[s] \in Seq(Receipts) /\ m \in DOMAIN chain[s] /\ i \in Nat /\ m \in Nat /\ i <= m
  BY DEF Inv, Typed
<1>2. /\ p.attempt \in Nat /\ q.attempt \in Nat /\ chain[s][i].attempt \in Nat
  <2>1. p \in Receipts /\ chain[s][i] \in Receipts
    BY <1>1
  <2>2. \A x \in Receipts : x.attempt \in Nat
    BY DEF Receipts
  <2> QED BY <2>1, <2>2
<1>3. Transition(p, q) /\ q.attempt = attempt[r][s] /\ q.in = Inputs(r, s)
  BY <1>1 DEF Inv, GoodRun, GoodNote
<1>4. OneHistory(s)
  BY DEF Inv, GoodStore
<1>5. i < m => Onward(chain[s][i], p)
  BY <1>1, <1>4 DEF OneHistory
<1>6. chain[s][i].attempt <= p.attempt
  <2>1. CASE i = m
    BY <1>2, <2>1
  <2>2. CASE i < m
    BY <1>2, <1>5, <2>2 DEF Onward
  <2> QED BY <1>1, <2>1, <2>2
<1>7. Onward(p, q)
  BY <1>2, <1>3 DEF Transition, Onward
<1>8. Onward(chain[s][i], q)
  <2>1. CASE i = m
    BY <1>7, <2>1
  <2>2. CASE i < m
    BY <1>2, <1>5, <1>7, <2>2 DEF Onward
  <2> QED BY <1>1, <2>1, <2>2
<1>10. ASSUME chain[s][i].attempt = q.attempt PROVE chain[s][i].in = q.in
  <2>1. q.attempt = p.attempt /\ q.state # "admitted"
    BY <1>2, <1>3, <1>6, <1>10 DEF Transition
  <2>2. s \in Admitted(r) \cup Running(r)
    BY <2>1 DEF Inv, GoodRun, GoodNote, Running
  <2>3. PICK k \in DOMAIN chain[s] : chain[s][k].attempt = attempt[r][s] /\ chain[s][k].in = Inputs(r, s)
    BY <2>2 DEF Inv, GoodRun, GoodBegun, Began
  <2>4. chain[s][i].in = chain[s][k].in
    BY <1>3, <1>4, <1>10, <2>3 DEF OneHistory
  <2> QED BY <1>3, <2>3, <2>4
<1> QED BY <1>8, <1>10

\* It rests on what is recorded.
LEMMA NoteFounded ==
  ASSUME Inv, NEW r \in Runs, note[r] # None, NEW s \in Stages, NEW q \in Receipts,
         note[r].stage = s, note[r].receipt = q
  PROVE  Founded(s, q)
<1>1. q.in = Inputs(r, s) /\ (q.state = "completed" => job[r][s] \in Values /\ q.out = Kept(s, job[r][s]))
  BY DEF Inv, GoodRun, GoodNote
<1>2. ASSUME NEW u \in Reads(s) \cap Durable PROVE Recorded(u, q.in[u])
  <2>1. held[r][u] # None
    BY WritersPlace, InputsHeld
  <2>2. q.in[u] = held[r][u]
    BY <1>1 DEF Inputs, Kept
  <2> QED BY <2>1, <2>2 DEF Inv, GoodRun, GoodHeld
<1>3. q.state = "completed" /\ s \in Durable => q.out # None
  BY <1>1, NoneAssumption DEF Kept
<1> QED BY <1>2, <1>3 DEF Founded

LEMMA CommitStep ==
  ASSUME Inv, NEW r \in Runs, Commit(r)
  PROVE  Inv'
<1>1. note[r] # None /\ note[r] \in Notes
  BY DEF Commit, Inv, Typed
<1>2. PICK s \in Stages : s = note[r].stage
  BY <1>1 DEF Notes
<1>3. PICK q \in Receipts : q = note[r].receipt
  BY <1>1 DEF Notes
<1>4. /\ Len(chain[s]) = note[r].after /\ chain' = [chain EXCEPT ![s] = Append(@, q)]
      /\ Committed(r) /\ beside' = beside
  BY <1>2, <1>3 DEF Commit
<1>5. /\ chain[s] \in Seq(Receipts) /\ chain'[s] = Append(chain[s], q)
      /\ \A u \in Stages \ {s} : chain'[u] = chain[u]
      /\ chain' \in [Stages -> Seq(Receipts)]
  BY <1>4 DEF Inv, Typed
<1> DEFINE m == Len(chain[s])
<1>6. /\ m \in Nat /\ DOMAIN chain[s] = 1 .. m /\ DOMAIN chain'[s] = 1 .. (m + 1) /\ Len(chain'[s]) = m + 1
      /\ chain'[s][m + 1] = q /\ \A i \in 1 .. m : chain'[s][i] = chain[s][i]
  BY <1>5
<1>7. Grown
  <2>1. /\ m <= Len(chain'[s])
        /\ \A i \in DOMAIN chain[s] : i \in DOMAIN chain'[s] /\ chain'[s][i] = chain[s][i]
    BY <1>6
  <2>2. \A u \in Stages \ {s} : Len(chain[u]) \in Nat
    BY DEF Inv, Typed
  <2> QED BY <1>5, <2>1, <2>2 DEF Grown
<1>8. Landed(r, s, q)
  BY <1>4, <1>5, <1>6, <1>7 DEF Landed, Last
<1>9. Typed' /\ Others(r) /\ GoodRun(r)'
  BY <1>1, <1>2, <1>3, <1>4, <1>8, BeginLands, ResultLands
<1>10. \A u \in Durable : \A x : Recorded(u, x) => Recorded(u, x)'
  BY <1>7, StagesAssumption DEF Recorded, Grown
<1>11. ASSUME NEW t \in Stages, NEW p, Founded(t, p) PROVE Founded(t, p)'
  BY <1>10, <1>11 DEF Founded
<1>12. OneHistory(s)'
  <2>1. \A i \in 1 .. m :
          /\ Onward(chain[s][i], q)
          /\ chain[s][i].attempt = q.attempt => chain[s][i].in = q.in
    <3> SUFFICES ASSUME NEW i \in DOMAIN chain[s]
                 PROVE  /\ Onward(chain[s][i], q)
                        /\ chain[s][i].attempt = q.attempt => chain[s][i].in = q.in
      BY <1>6
    <3>1. note[r].stage = s /\ note[r].receipt = q /\ note[r].after = Len(chain[s])
      BY <1>2, <1>3, <1>4
    <3> QED BY <1>1, <3>1, HistoryGoesOn
  <2>2. OneHistory(s) /\ q.attempt \in Nat
    BY DEF Inv, GoodStore, Receipts
  <2> SUFFICES ASSUME NEW i \in 1 .. (m + 1), NEW j \in 1 .. (m + 1)
               PROVE  /\ i < j => Onward(chain'[s][i], chain'[s][j])
                      /\ chain'[s][i].attempt = chain'[s][j].attempt => chain'[s][i].in = chain'[s][j].in
    BY <1>6 DEF OneHistory, Onward
  <2>3. CASE i \in 1 .. m /\ j \in 1 .. m
    BY <1>6, <2>2, <2>3, Zenon DEF OneHistory
  <2>4. CASE i \in 1 .. m /\ j = m + 1
    BY <1>6, <2>1, <2>4
  <2>5. CASE i = m + 1 /\ j \in 1 .. m
    <3>1. m \in Nat /\ ~(i < j) /\ j \in DOMAIN chain[s]
      BY <1>6, <2>5
    <3>2. chain'[s][i] = q /\ chain'[s][j] = chain[s][j]
      BY <1>6, <2>5, <3>1
    <3>3. chain[s][j].attempt = q.attempt => chain[s][j].in = q.in
      BY <2>1, <2>5
    <3> QED BY <3>1, <3>2, <3>3, Zenon
  <2>6. CASE i = m + 1 /\ j = m + 1
    BY <1>6, <2>6
  <2> QED BY <1>6, <2>3, <2>4, <2>5, <2>6
<1>13. GoodStore'
  <2>1. Founded(s, q)
    BY <1>1, <1>2, <1>3, NoteFounded
  <2>2. ASSUME NEW t \in Stages, NEW i \in DOMAIN chain'[t] PROVE Founded(t, chain[t][i])'
    <3>1. PICK p : p = chain'[t][i]
      OBVIOUS
    <3>2. Founded(t, p)
      <4>1. CASE t = s
        <5>1. i \in DOMAIN chain[s] \/ p = q
          BY <1>6, <3>1, <4>1
        <5>2. i \in DOMAIN chain[s] => p = chain[s][i]
          BY <1>6, <3>1, <4>1
        <5>3. \A l \in DOMAIN chain[s] : Founded(s, chain[s][l])
          BY DEF Inv, GoodStore
        <5> QED BY <2>1, <4>1, <5>1, <5>2, <5>3, Zenon
      <4>2. CASE t # s
        BY <1>5, <3>1, <4>2 DEF Inv, GoodStore
      <4> QED BY <4>1, <4>2
    <3>3. Founded(t, p)'
      BY <1>11, <3>2
    <3> QED BY <3>1, <3>3 DEF Founded
  <2>3. ASSUME NEW t \in Stages \ {s} PROVE OneHistory(t)'
    BY <1>5 DEF Inv, GoodStore, OneHistory
  <2> QED BY <1>12, <2>2, <2>3 DEF GoodStore
<1>14. Live(r)
  BY <1>1, WritersPlace DEF Working, Live
<1> QED BY <1>4, <1>7, <1>9, <1>13, <1>14, StoreStep

LEMMA CommitRepeatsStep ==
  ASSUME Inv, NEW r \in Runs, CommitRepeats(r)
  PROVE  Inv'
<1>1. note[r] # None /\ note[r] \in Notes
  BY DEF CommitRepeats, Inv, Typed
<1>2. PICK s \in Stages : s = note[r].stage
  BY <1>1 DEF Notes
<1>3. PICK q \in Receipts : q = note[r].receipt
  BY <1>1 DEF Notes
<1>4. /\ Len(chain[s]) > note[r].after /\ chain[s][note[r].after + 1] = q
      /\ Committed(r) /\ chain' = chain /\ beside' = beside
  BY <1>2, <1>3 DEF CommitRepeats, Repeated
<1>5. chain' \in [Stages -> Seq(Receipts)] /\ chain[s] \in Seq(Receipts) /\ note[r].after \in Nat
  BY <1>1, <1>4 DEF Inv, Typed, Notes
<1>6. Live(r)
  BY <1>1, WritersPlace DEF Working, Live
<1>7. r \in beside
  BY <1>1, <1>2, <1>4, <1>5, <1>6 DEF Inv, GoodRun, GoodAlone
<1>8. Grown
  BY <1>4, NothingGrown DEF Inv
<1>9. note[r].after + 1 \in DOMAIN chain[s]
  BY <1>4, <1>5
<1>10. Landed(r, s, q)
  BY <1>4, <1>5, <1>7, <1>8, <1>9 DEF Landed
<1>11. Typed' /\ Others(r) /\ GoodRun(r)'
  BY <1>1, <1>2, <1>3, <1>4, <1>10, BeginLands, ResultLands
<1> QED BY <1>4, <1>6, <1>8, <1>11, StoreKept, StoreStep DEF Inv

------------------------------------------------------------------------------
(* Why a run has anything to do *)

\* What the run had found in the store when it planned.
Had(r) == [s \in Stages |-> IF s \in need[r] THEN None ELSE held[r][s]]

\* A run does what it had not found, and has of that what it has come to.
GoodTodo(r) ==
  Working(r) =>
    /\ need[r] = Asked(Had(r))
    /\ \A l \in DOMAIN ReadySets : \A i \in DOMAIN ReadySets[l] :
         ReadySets[l][i] \in need[r] /\ held[r][ReadySets[l][i]] # None =>
           l < level[r] \/ (l = level[r] /\ phase[r] = "executing" /\ job[r][ReadySets[l][i]] = None)

\* While nobody is beside it, what the run has read and does not have is not in the store.
GoodSight(r) ==
  Live(r) /\ r \notin beside =>
    /\ phase[r] = "planning" => \A l \in DOMAIN ReadySets : \A i \in DOMAIN ReadySets[l] :
         (l < level[r] \/ (l = level[r] /\ i \notin left[r])) /\ held[r][ReadySets[l][i]] = None
           => InStore(ReadySets[l][i]) = None
    /\ Working(r) => \A s \in Stages : held[r][s] = None => InStore(s) = None

KeptInv == Inv /\ \A r \in Runs : GoodTodo(r) /\ GoodSight(r)

LEMMA AskedMissing ==
  ASSUME NEW have, NEW s \in Asked(have)
  PROVE  s \in Stages /\ have[s] = None
<1>1. PICK u \in Stages \ (Stages \ {s}) : MustRun(u, have, Stages \ {s})
  BY DEF Asked
<1> QED BY <1>1 DEF MustRun, Asked

\* A receipt a run is about to commit is of a stage it has still to finish.
LEMMA NoteTodo ==
  ASSUME Inv, NEW r \in Runs, GoodTodo(r), note[r] # None
  PROVE  /\ Working(r) /\ note[r].stage \in need[r] /\ held[r][note[r].stage] = None
         /\ \E i \in Due(r) : note[r].stage = StageAt(r, i)
<1> DEFINE s == note[r].stage
<1>1. Working(r) /\ GoodNote(r) /\ GoodJobs(r) /\ GoodPlan(r)
  BY DEF Inv, GoodRun, GoodNote
<1>2. \/ phase[r] # "executing" /\ Beginning(r, s)
      \/ phase[r] = "executing" /\ job[r][s] # None /\ s \in Stages
  <2>1. note[r].receipt.state = "admitted" => phase[r] # "executing" /\ Beginning(r, s)
    BY <1>1 DEF GoodNote
  <2>2. note[r].receipt.state = "running" => phase[r] # "executing" /\ Beginning(r, s)
    BY <1>1 DEF GoodNote, Admitted
  <2>3. s \in Stages
    BY DEF Inv, Typed, Notes
  <2> QED BY <1>1, <2>1, <2>2, <2>3 DEF GoodNote
<1>3. PICK i \in Due(r) : s = StageAt(r, i)
  BY <1>1, <1>2, FirstPlace DEF GoodJobs
<1>4. s \in need[r] /\ level[r] \in DOMAIN ReadySets /\ i \in DOMAIN ReadySets[level[r]]
  BY <1>1, <1>3, DuePlaces DEF GoodPlan
<1>5. ~(level[r] < level[r])
  BY <1>4, LevelsAreNumbers
<1>6. held[r][s] = None
  BY <1>1, <1>2, <1>3, <1>4, <1>5 DEF GoodTodo, StageAt
<1> QED BY <1>1, <1>3, <1>4, <1>6

\* While a run that nobody is beside has a receipt to commit, the store does not hold the
\* answer: what the run lacks is asked for by what it lacks, up to an output or to a stage
\* that no other reads.
LEMMA AnswerMissing ==
  ASSUME KeptInv, NEW r \in Runs, r \notin beside, note[r] # None, WholeAnswer
  PROVE  FALSE
<1>1. Inv /\ GoodTodo(r) /\ GoodSight(r) /\ GoodPlan(r)
  BY DEF KeptInv, Inv, GoodRun
<1>2. PICK x : x = note[r].stage /\ x \in need[r] /\ held[r][x] = None
  BY <1>1, NoteTodo
<1>3. Working(r) /\ Live(r)
  BY <1>1, NoteTodo DEF Working, Live
<1>4. need[r] = Asked(Had(r)) /\ need[r] \subseteq Stages
  BY <1>1, <1>3 DEF GoodTodo, Asked
<1>5. \A s \in Stages : held[r][s] = None => InStore(s) = None
  BY <1>1, <1>3 DEF GoodSight
<1>6. ASSUME NEW s \in Stages, s \in Outputs \/ {t \in Stages : s \in Reads(t)} = {}
      PROVE  held[r][s] # None
  <2> DEFINE have == [u \in Stages |-> InStore(u)]
  <2>1. Asked(have) = {}
    BY DEF WholeAnswer
  <2>2. ~MustRun(s, have, Asked(have))
    BY <2>1, AskedCloses
  <2>3. have[s] # None
    BY <1>6, <2>2 DEF MustRun
  <2> QED BY <1>5, <2>3
<1> DEFINE has == {u \in need[r] : held[r][u] # None}
<1>7. PICK u \in Stages \ has : MustRun(u, Had(r), has)
  <2>1. has \in SUBSET (Stages \ {x}) /\ x \in Asked(Had(r))
    BY <1>2, <1>4
  <2> QED BY <2>1 DEF Asked
<1>8. u \in need[r] /\ held[r][u] = None
  <2>1. MustRun(u, Had(r), Asked(Had(r)))
    BY <1>4, <1>7 DEF MustRun
  <2>2. u \in need[r]
    BY <1>4, <2>1, AskedCloses
  <2> QED BY <1>7, <2>2
<1>9. PICK t \in has : u \in Reads(t)
  BY <1>6, <1>7, <1>8 DEF MustRun
<1>10. t \in Stages /\ t \in need[r] /\ held[r][t] # None /\ <<u, t>> \in Edges
  BY <1>4, <1>9 DEF Reads
<1>11. PICK k \in DOMAIN ReadySets : \E i \in DOMAIN ReadySets[k] : ReadySets[k][i] = u
  BY ProgramAssumption
<1>12. PICK l \in DOMAIN ReadySets : \E j \in DOMAIN ReadySets[l] : ReadySets[l][j] = t
  BY <1>10, ProgramAssumption
<1>13. k < l
  BY <1>10, <1>11, <1>12, ProgramAssumption
<1>14. l < level[r] \/ l = level[r]
  BY <1>1, <1>3, <1>10, <1>12 DEF GoodTodo
<1>15. k < level[r]
  <2>1. k \in Nat /\ l \in Nat /\ level[r] \in Nat
    BY <1>1, LevelsAreNumbers DEF Inv, Typed
  <2> QED BY <1>13, <1>14, <2>1
<1> QED BY <1>1, <1>3, <1>8, <1>11, <1>15 DEF GoodPlan

\* A run that another's step does not touch keeps both: the store changes only while
\* someone is live, and who starts beside it is noted.
LEMMA OtherTodo ==
  ASSUME NEW q \in Runs, SameRun(q), GoodTodo(q), GoodSight(q), beside \subseteq beside',
         chain' = chain \/ ~Live(q) \/ q \in beside
  PROVE  GoodTodo(q)' /\ GoodSight(q)'
<1>1. (Working(q)' <=> Working(q)) /\ (Live(q)' <=> Live(q))
  BY SameParts
<1>2. Had(q)' = Had(q)
  BY DEF SameRun, Had
<1>3. GoodTodo(q)'
  BY <1>1, <1>2 DEF SameRun, GoodTodo
<1>4. GoodSight(q)'
  <2> SUFFICES ASSUME Live(q)', q \notin beside' PROVE GoodSight(q)'
    BY DEF GoodSight
  <2>1. Live(q) /\ q \notin beside /\ chain' = chain
    BY <1>1
  <2>2. \A s : InStore(s)' = InStore(s)
    BY <2>1 DEF InStore
  <2> QED BY <1>1, <2>1, <2>2 DEF SameRun, GoodSight
<1> QED BY <1>3, <1>4

\* A run that goes on with its ready set: its receipts are of what it has not, and what it
\* gets it had begun.
LEMMA WorkStep ==
  ASSUME Inv, NEW r \in Runs, GoodTodo(r), GoodSight(r), Working(r), Working(r)',
         level'[r] = level[r], need'[r] = need[r], beside' = beside,
         phase[r] = "executing" =>
           phase'[r] = "executing" /\ \A s \in Stages : job[r][s] = None => job'[r][s] = None,
         \A s \in Stages :
           \/ held'[r][s] = held[r][s]
           \/ /\ phase'[r] = "executing" /\ \E i \in Due(r) : s = StageAt(r, i)
              /\ job'[r][s] = None /\ held'[r][s] # None,
         \A s \in Stages : held'[r][s] # None \/ InStore(s)' \in {InStore(s), None}
  PROVE  GoodTodo(r)' /\ GoodSight(r)'
<1>1. Live(r) /\ phase'[r] # "planning"
  BY DEF Working, Live
<1>2. need[r] = Asked(Had(r)) /\ need[r] \subseteq Stages /\ level[r] \in DOMAIN ReadySets
  BY DEF GoodTodo, Asked, Inv, GoodRun, GoodPlan
<1>3. \A s \in Stages : held'[r][s] = held[r][s] \/ s \in need[r]
  BY DuePlaces
<1>4. Had(r)' = Had(r)
  <2>1. Had(r)' = [s \in Stages |-> IF s \in need'[r] THEN None ELSE held'[r][s]]
    BY DEF Had
  <2>2. \A s \in Stages : (IF s \in need'[r] THEN None ELSE held'[r][s]) = (IF s \in need[r] THEN None ELSE held[r][s])
    BY <1>3
  <2> QED BY <2>1, <2>2 DEF Had
<1>5. ASSUME NEW l \in DOMAIN ReadySets, NEW i \in DOMAIN ReadySets[l], NEW s \in Stages,
             s = ReadySets[l][i], s \in need[r], held'[r][s] # None
      PROVE  l < level[r] \/ (l = level[r] /\ phase'[r] = "executing" /\ job'[r][s] = None)
  <2>1. CASE held'[r][s] = held[r][s]
    <3>1. held[r][s] # None
      BY <1>5, <2>1
    <3>2. l < level[r] \/ (l = level[r] /\ phase[r] = "executing" /\ job[r][s] = None)
      <4>1. ReadySets[l][i] \in need[r] /\ held[r][ReadySets[l][i]] # None
        BY <1>5, <3>1
      <4>2. \/ l < level[r]
            \/ (l = level[r] /\ phase[r] = "executing" /\ job[r][ReadySets[l][i]] = None)
        BY <4>1, Zenon DEF GoodTodo
      <4> QED BY <1>5, <4>2
    <3>3. CASE l < level[r]
      BY <3>3
    <3>4. CASE l = level[r] /\ phase[r] = "executing" /\ job[r][s] = None
      <4>1. phase'[r] = "executing" /\ job'[r][s] = None
        BY <3>4
      <4> QED BY <3>4, <4>1
    <3> QED BY <3>2, <3>3, <3>4
  <2>2. CASE held'[r][s] # held[r][s]
    <3>1. PICK j \in Due(r) : s = StageAt(r, j)
      BY <2>2
    <3>2. j \in DOMAIN ReadySets[level[r]] /\ ReadySets[level[r]][j] = s
      BY <3>1, DuePlaces DEF StageAt
    <3>3. l = level[r]
      <4>1. ReadySets[l][i] = ReadySets[level[r]][j]
        BY <1>5, <3>2
      <4> QED BY <1>2, <3>2, <4>1, OnePlace
    <3> QED BY <2>2, <3>3
  <2> QED BY <2>1, <2>2
<1>6. GoodTodo(r)'
  <2>1. need'[r] = Asked(Had(r)')
    BY <1>2, <1>4
  <2>2. \A l \in DOMAIN ReadySets : \A i \in DOMAIN ReadySets[l] : ReadySets[l][i] \in Stages
    BY PlacesOfStages
  <2>3. \A l \in DOMAIN ReadySets : \A i \in DOMAIN ReadySets[l] :
         ReadySets[l][i] \in need'[r] /\ held'[r][ReadySets[l][i]] # None =>
           l < level'[r] \/ (l = level'[r] /\ phase'[r] = "executing" /\ job'[r][ReadySets[l][i]] = None)
    BY <1>5, <2>2
  <2>4. need'[r] = Asked(Had(r))'
    BY <2>1 DEF Asked, MustRun
  <2> QED BY <2>3, <2>4 DEF GoodTodo
<1>7. GoodSight(r)'
  <2> SUFFICES ASSUME r \notin beside, NEW s \in Stages, held'[r][s] = None PROVE InStore(s)' = None
    BY <1>1 DEF GoodSight
  <2>1. held[r][s] = None
    OBVIOUS
  <2>2. InStore(s) = None
    BY <1>1, <2>1 DEF GoodSight
  <2> QED BY <2>2
<1> QED BY <1>6, <1>7

\* A run that is over, or has only to conclude, has nothing to do.
LEMMA OverTodo ==
  ASSUME NEW r, phase'[r] \in {"away", "replaying", "concluding", "ended"}
  PROVE  GoodTodo(r)' /\ GoodSight(r)'
BY DEF GoodTodo, GoodSight, Working

LEMMA StoreSeen == chain' = chain => \A s : InStore(s)' = InStore(s)
BY DEF InStore

Todo(r) == Others(r) /\ GoodTodo(r)' /\ GoodSight(r)'

LEMMA EndTodo ==
  ASSUME Inv, NEW r \in Runs, NEW how, End(r, how)
  PROVE  Todo(r)
<1>1. phase'[r] = "ended"
  BY DEF End, Inv, Typed
<1>2. Others(r)
  BY DEF End, Others, SameRun, Inv, Typed
<1> QED BY <1>1, <1>2, OverTodo DEF Todo

\* A run that works on and gets nothing new.
LEMMA QuietTodo ==
  ASSUME KeptInv, NEW r \in Runs, Working(r), Working(r)', chain' = chain, beside' = beside,
         level' = level, need' = need, held' = held,
         phase[r] = "executing" =>
           phase'[r] = "executing" /\ \A s \in Stages : job[r][s] = None => job'[r][s] = None
  PROVE  GoodTodo(r)' /\ GoodSight(r)'
<1>1. Inv /\ GoodTodo(r) /\ GoodSight(r)
  BY DEF KeptInv
<1>2. \A s \in Stages : held'[r][s] # None \/ InStore(s)' \in {InStore(s), None}
  BY StoreSeen
<1> QED BY <1>1, <1>2, WorkStep

LEMMA PlainTodo ==
  ASSUME KeptInv, NEW r \in Runs,
         RecoverFails(r) \/ DecideReplay(r) \/ GiveUp(r) \/ Conclude(r) \/ Crash(r) \/ Gather(r)
  PROVE  Todo(r) /\ chain' = chain /\ beside' = beside
<1>1. Inv
  BY DEF KeptInv
<1>2. CASE \E how : End(r, how) /\ chain' = chain /\ beside' = beside
  BY <1>1, <1>2, EndTodo
<1>3. CASE /\ phase' = [phase EXCEPT ![r] = "concluding"]
           /\ UNCHANGED <<chain, localVars, cancelled, outcome, beside>>
  <2>1. Others(r) /\ phase'[r] = "concluding"
    BY <1>1, <1>3 DEF localVars, Others, SameRun, Inv, Typed
  <2> QED BY <1>3, <2>1, OverTodo DEF Todo
<1> QED BY <1>2, <1>3 DEF RecoverFails, DecideReplay, GiveUp, Conclude, Crash, Gather

LEMMA StartTodo ==
  ASSUME KeptInv, NEW r \in Runs, Start(r)
  PROVE  Todo(r) /\ chain' = chain /\ beside \subseteq beside'
<1> DEFINE others == {x \in Runs : Live(x)}
<1>1. PICK how \in {"planning", "replaying"} : phase' = [phase EXCEPT ![r] = how]
  BY DEF Start
<1>2. /\ chain' = chain /\ beside \subseteq beside' /\ phase'[r] = how
      /\ level'[r] = 1 /\ left'[r] = DOMAIN ReadySets[1]
  BY <1>1 DEF Start, KeptInv, Inv, Typed
<1>3. Others(r)
  BY <1>1 DEF Start, Others, SameRun, KeptInv, Inv, Typed
<1>4. GoodTodo(r)'
  BY <1>1, <1>2 DEF GoodTodo, Working
<1>5. GoodSight(r)'
  <2>1. \A l \in DOMAIN ReadySets : ~(l < 1)
    BY LevelsAreNumbers
  <2> QED BY <1>1, <1>2, <2>1 DEF GoodSight, Working
<1> QED BY <1>2, <1>3, <1>4, <1>5 DEF Todo

\* What has been read is what the store has of it: it does not change while the run is alone.
LEMMA RecoverTodo ==
  ASSUME KeptInv, NEW r \in Runs, Recover(r)
  PROVE  Todo(r) /\ chain' = chain /\ beside' = beside
<1>1. Inv /\ GoodSight(r) /\ GoodPlan(r)
  BY DEF KeptInv, Inv, GoodRun
<1>2. /\ chain' = chain /\ beside' = beside /\ phase' = phase /\ need' = need /\ attempt' = attempt
      /\ note' = note /\ job' = job /\ cause' = cause /\ outcome' = outcome
      /\ phase[r] \in {"planning", "replaying"}
  BY DEF Recover
<1>3. PICK i \in Firsts(left[r]) :
        held' = [held EXCEPT ![r][ReadySets[level[r]][i]] = InStore(ReadySets[level[r]][i])]
  BY DEF Recover, Beginning
<1>4. PICK here \in DOMAIN ReadySets : here = level[r] /\ here \in Nat
  BY <1>1, <1>2, LevelsAreNumbers DEF GoodPlan
<1>5. /\ i \in left[r] /\ left[r] \subseteq DOMAIN ReadySets[here] /\ i \in Nat
      /\ \A j \in left[r] : i <= j
  BY <1>1, <1>2, <1>4, PlacesOfStages DEF GoodPlan, Firsts
<1>6. PICK s \in Stages : s = ReadySets[here][i] /\ held' = [held EXCEPT ![r][s] = InStore(s)]
  BY <1>3, <1>4, <1>5, PlacesOfStages
<1>7. Others(r)
  BY <1>1, <1>2, <1>6, TurnTaken DEF Others, SameRun, Inv, Typed
<1>8. GoodTodo(r)'
  BY <1>2 DEF GoodTodo, Working
<1>9. \A u \in Stages : held'[r][u] = held[r][u] \/ (u = s /\ held'[r][u] = InStore(s))
  BY <1>1, <1>6 DEF Inv, Typed
\* What has been read by now.
<1>10. ASSUME NEW l \in DOMAIN ReadySets, NEW j \in DOMAIN ReadySets[l],
              l < level'[r] \/ (l = level'[r] /\ j \notin left'[r])
       PROVE  l < here \/ (l = here /\ j \notin left[r]) \/ (l = here /\ j = i)
  <2>1. l \in Nat
    BY LevelsAreNumbers
  <2>2. \A j1 \in left[r] : j1 \in Firsts(left[r]) => j1 = i
    <3>1. \A j1 \in left[r] : j1 \in Nat
      BY <1>5, PlacesOfStages
    <3> QED BY <1>5, <3>1 DEF Firsts
  <2>3. CASE left[r] = Firsts(left[r]) /\ ~AtLast(r)
    <3>1. level'[r] = here + 1 /\ left'[r] = DOMAIN ReadySets[here + 1]
      BY <1>1, <1>4, <2>3 DEF Recover, Inv, Typed
    <3>2. l = here \/ l < here
      BY <1>4, <1>10, <2>1, <3>1
    <3> QED BY <2>2, <2>3, <3>2
  <2>4. CASE ~(left[r] = Firsts(left[r]) /\ ~AtLast(r))
    <3>1. level'[r] = here /\ left'[r] = left[r] \ Firsts(left[r])
      BY <1>1, <1>4, <2>4 DEF Recover, Inv, Typed
    <3> QED BY <1>10, <2>2, <3>1
  <2> QED BY <2>3, <2>4
<1>11. GoodSight(r)'
  <2> SUFFICES ASSUME Live(r)', r \notin beside', phase'[r] = "planning",
                      NEW l \in DOMAIN ReadySets, NEW j \in DOMAIN ReadySets[l],
                      l < level'[r] \/ (l = level'[r] /\ j \notin left'[r]), held'[r][ReadySets[l][j]] = None
               PROVE  InStore(ReadySets[l][j])' = None
    BY <1>2 DEF GoodSight, Working
  <2>1. PICK u \in Stages : u = ReadySets[l][j]
    BY PlacesOfStages
  <2>2. Live(r) /\ r \notin beside /\ phase[r] = "planning"
    BY <1>2 DEF Live
  <2>3. CASE held'[r][u] = held[r][u]
    <3>1. CASE l < here \/ (l = here /\ j \notin left[r])
      <4>1. InStore(u) = None
        BY <1>4, <2>1, <2>2, <2>3, <3>1, <1>1 DEF GoodSight
      <4> QED BY <1>2, <2>1, <4>1, StoreSeen
    <3>2. CASE l = here /\ j = i
      <4>1. u = s /\ held'[r][u] = InStore(s)
        BY <1>1, <1>6, <2>1, <3>2 DEF Inv, Typed
      <4> QED BY <1>2, <2>1, <4>1, StoreSeen
    <3> QED BY <1>10, <3>1, <3>2
  <2>4. CASE u = s /\ held'[r][u] = InStore(s)
    BY <1>2, <2>1, <2>4, StoreSeen
  <2> QED BY <1>9, <2>3, <2>4
<1> QED BY <1>2, <1>7, <1>8, <1>11 DEF Todo

LEMMA DecideTodo ==
  ASSUME KeptInv, NEW r \in Runs, Decide(r)
  PROVE  Todo(r) /\ chain' = chain /\ beside' = beside
<1>1. Inv /\ GoodSight(r) /\ GoodPlan(r)
  BY DEF KeptInv, Inv, GoodRun
<1>2. PICK asked : asked = Asked(held[r])
  OBVIOUS
<1>3. /\ chain' = chain /\ beside' = beside /\ held' = held
      /\ phase[r] = "planning" /\ left[r] = {} /\ phase'[r] = "beginning"
      /\ level'[r] = 1 /\ need'[r] = asked
  BY <1>1, <1>2 DEF Decide, Inv, Typed
<1>4. Others(r)
  BY <1>1 DEF Decide, Others, SameRun, Inv, Typed
<1>5. \A s \in asked : s \in Stages /\ held[r][s] = None
  BY <1>2, AskedMissing
<1>6. GoodTodo(r)'
  <2>1. Had(r)' = held[r]
    <3>1. held[r] \in [Stages -> Values \cup {None}]
      BY <1>1 DEF Inv, Typed
    <3>2. Had(r)' = [s \in Stages |-> IF s \in asked THEN None ELSE held[r][s]]
      BY <1>3 DEF Had
    <3>3. \A s \in Stages : (IF s \in asked THEN None ELSE held[r][s]) = held[r][s]
      BY <1>5
    <3> QED BY <3>1, <3>2, <3>3
  <2>2. Asked(Had(r))' = asked
    BY <1>2, <2>1 DEF Asked, MustRun
  <2> QED BY <1>3, <1>5, <2>2 DEF GoodTodo
<1>7. GoodSight(r)'
  <2> SUFFICES ASSUME r \notin beside, NEW s \in Stages, held[r][s] = None PROVE InStore(s) = None
    BY <1>3, StoreSeen DEF GoodSight
  <2>1. PICK l \in DOMAIN ReadySets : \E i \in DOMAIN ReadySets[l] : ReadySets[l][i] = s
    BY ProgramAssumption
  <2>2. PICK i \in DOMAIN ReadySets[l] : ReadySets[l][i] = s
    BY <2>1
  <2>3. level[r] = Len(ReadySets)
    BY <1>1, <1>3 DEF GoodPlan, AtLast
  <2>4. l < level[r] \/ l = level[r]
    BY <2>3, LevelsAreNumbers
  <2>5. Live(r) /\ i \notin left[r]
    BY <1>3 DEF Live
  <2> QED BY <1>1, <1>3, <2>2, <2>4, <2>5 DEF GoodSight
<1> QED BY <1>3, <1>4, <1>6, <1>7 DEF Todo

LEMMA BeginTodo ==
  ASSUME KeptInv, NEW r \in Runs, Admit(r) \/ Run(r)
  PROVE  Todo(r) /\ chain' = chain /\ beside' = beside
<1>1. Inv
  BY DEF KeptInv
<1>2. CASE End(r, "refused") /\ chain' = chain /\ beside' = beside
  BY <1>1, <1>2, EndTodo
<1>3. CASE /\ phase[r] \in {"beginning", "admitted"} /\ \E new : note' = [note EXCEPT ![r] = new]
           /\ attempt' = attempt \/ \E s \in Stages : \E n : attempt' = [attempt EXCEPT ![r][s] = n]
           /\ UNCHANGED <<chain, phase, level, left, held, need, job, cause, cancelled, outcome, beside>>
  <2>1. Others(r)
    BY <1>1, <1>3 DEF Others, SameRun, Inv, Typed
  <2>2. Working(r) /\ Working(r)' /\ phase[r] # "executing"
    BY <1>3 DEF Working
  <2> QED BY <1>3, <2>1, <2>2, QuietTodo DEF Todo
<1> QED BY <1>2, <1>3 DEF Admit, Run, Prepare

LEMMA JobTodo ==
  ASSUME KeptInv, NEW r \in Runs, NEW s \in Stages,
         Enter(r, s) \/ TurnAway(r, s) \/ Execute(r, s) \/ Finish(r, s)
  PROVE  Todo(r) /\ chain' = chain /\ beside' = beside
<1>1. Inv /\ phase[r] = "executing" /\ job[r][s] # None
  BY NoneAssumption DEF KeptInv, Enter, TurnAway, Execute, Finish
<1>2. /\ UNCHANGED <<chain, phase, level, left, held, need, attempt, cancelled, outcome, beside>>
      /\ job' = job \/ \E y : job' = [job EXCEPT ![r][s] = y]
      /\ note' = note \/ \E new : note' = [note EXCEPT ![r] = new]
      /\ cause' = cause \/ \E y : cause' = [cause EXCEPT ![r] = y]
  BY DEF Enter, TurnAway, Execute, Finish, Prepare, Blamed
<1>3. Others(r)
  BY <1>1, <1>2 DEF Others, SameRun, Inv, Typed
<1>4. \A u \in Stages : job[r][u] = None => job'[r][u] = None
  BY <1>1, <1>2 DEF Inv, Typed
<1>5. Working(r) /\ Working(r)' /\ phase'[r] = "executing"
  BY <1>1, <1>2 DEF Working
<1> QED BY <1>2, <1>3, <1>4, <1>5, QuietTodo DEF Todo

LEMMA SpawnTodo ==
  ASSUME KeptInv, NEW r \in Runs, Spawn(r)
  PROVE  Todo(r) /\ chain' = chain /\ beside' = beside
<1>1. Inv
  BY DEF KeptInv
<1>2. Others(r)
  BY <1>1 DEF Spawn, Others, SameRun, Inv, Typed
<1>3. Working(r) /\ Working(r)' /\ phase[r] # "executing"
  BY <1>1 DEF Spawn, Working, Inv, Typed
<1> QED BY <1>2, <1>3, QuietTodo DEF Spawn, Todo

LEMMA ProceedTodo ==
  ASSUME KeptInv, NEW r \in Runs, Proceed(r)
  PROVE  Todo(r) /\ chain' = chain /\ beside' = beside
<1>1. Inv /\ GoodTodo(r) /\ GoodSight(r) /\ level[r] \in Nat
  BY DEF KeptInv, Inv, Typed
<1>2. Others(r)
  BY <1>1 DEF Proceed, Others, SameRun, Inv, Typed
<1>3. /\ phase[r] = "executing" /\ phase'[r] = "beginning" /\ level'[r] = level[r] + 1
      /\ chain' = chain /\ beside' = beside /\ need' = need /\ held' = held
  BY <1>1 DEF Proceed, Collected, Inv, Typed
<1>4. Working(r) /\ Live(r)
  BY <1>3 DEF Working, Live
<1>5. Asked(Had(r))' = Asked(Had(r))
  BY <1>3 DEF Asked, MustRun, Had
<1>6. GoodTodo(r)'
  <2>1. ASSUME NEW l \in DOMAIN ReadySets, NEW i \in DOMAIN ReadySets[l],
               ReadySets[l][i] \in need[r], held[r][ReadySets[l][i]] # None
        PROVE  l < level[r] + 1
    <3>1. l < level[r] \/ l = level[r]
      BY <1>1, <1>4, <2>1, Zenon DEF GoodTodo
    <3>2. l \in Nat
      BY LevelsAreNumbers
    <3> QED BY <1>1, <3>1, <3>2
  <2>2. need[r] = Asked(Had(r))
    BY <1>1, <1>4 DEF GoodTodo
  <2> QED BY <1>3, <1>5, <2>1, <2>2 DEF GoodTodo
<1>7. GoodSight(r)'
  BY <1>1, <1>3, <1>4, StoreSeen DEF GoodSight
<1> QED BY <1>2, <1>3, <1>6, <1>7 DEF Todo

LEMMA NotCommittedTodo ==
  ASSUME KeptInv, NEW r \in Runs, CommitFails(r) \/ CommitConflicts(r)
  PROVE  Todo(r) /\ chain' = chain /\ beside' = beside
<1>1. Inv /\ note[r] # None /\ chain' = chain /\ beside' = beside
  BY DEF KeptInv, CommitFails, CommitConflicts
<1>2. PICK why : NotCommitted(r, why)
  BY DEF CommitFails, CommitConflicts
<1>3. CASE End(r, why)
  BY <1>1, <1>3, EndTodo
<1>4. CASE ~End(r, why)
  <2>1. PICK s : s = note[r].stage
    OBVIOUS
  <2>2. /\ UNCHANGED <<phase, level, left, held, need, attempt, outcome>>
        /\ note' = [note EXCEPT ![r] = None] /\ job' = [job EXCEPT ![r][s] = None]
        /\ \E y : cause' = [cause EXCEPT ![r] = y]
    BY <1>2, <1>4, <2>1 DEF NotCommitted, Blamed
  <2>3. Others(r)
    BY <1>1, <2>2 DEF Others, SameRun, Inv, Typed
  <2>4. \A u \in Stages : job[r][u] = None => job'[r][u] = None
    BY <1>1, <2>2 DEF Inv, Typed
  <2>5. Working(r) /\ Working(r)'
    BY <1>1, <2>2 DEF Inv, GoodRun, GoodNote, Working
  <2> QED BY <1>1, <2>2, <2>3, <2>4, <2>5, QuietTodo DEF Todo
<1> QED BY <1>3, <1>4

\* A receipt in the store: what the run has now of its stage is what the receipt says, or
\* the receipt does not end it.
LEMMA CommittedTodo ==
  ASSUME KeptInv, NEW r \in Runs, note[r] # None, Committed(r), beside' = beside,
         \A u \in Stages :
           InStore(u)' \in {InStore(u), None} \/ (u = note[r].stage /\ note[r].receipt.state = "completed")
  PROVE  Todo(r)
<1>1. Inv /\ GoodTodo(r) /\ GoodSight(r) /\ GoodNote(r)
  BY DEF KeptInv, Inv, GoodRun
<1>2. PICK s \in Stages : s = note[r].stage /\ \E i \in Due(r) : s = StageAt(r, i)
  BY <1>1, NoteTodo DEF Inv, Typed, Notes
<1>3. Working(r) /\ UNCHANGED <<level, need, attempt, cancelled, outcome>>
  BY <1>1, NoteTodo DEF Committed
<1>4. PICK state \in {"admitted", "running", "waiting", "completed", "failed"} : state = note[r].receipt.state
  BY DEF KeptInv, Inv, Typed, Notes, Receipts
<1>5. note' = [note EXCEPT ![r] = None]
  BY DEF Committed
<1>6. CASE state = "admitted"
  <2>1. /\ phase' = [phase EXCEPT ![r] = "admitted"] /\ UNCHANGED <<left, held, job, cause>>
    BY <1>4, <1>6 DEF Committed
  <2>2. Others(r)
    BY <1>1, <1>3, <1>5, <2>1 DEF Others, SameRun, Inv, Typed
  <2>3. Working(r)' /\ phase[r] # "executing"
    BY <1>1, <1>4, <1>6, <2>1 DEF Working, Inv, Typed, GoodNote
  <2>4. \A u \in Stages : InStore(u)' \in {InStore(u), None}
    BY <1>4, <1>6
  <2> QED BY <1>1, <1>3, <2>1, <2>2, <2>3, <2>4, WorkStep DEF Todo
<1>7. CASE state = "running"
  <2>1. /\ phase' = [phase EXCEPT ![r] = "beginning"] /\ left' = [left EXCEPT ![r] = @ \ Firsts(@)]
        /\ UNCHANGED <<held, job, cause>>
    BY <1>4, <1>7 DEF Committed
  <2>2. Others(r)
    BY <1>1, <1>3, <1>5, <2>1 DEF Others, SameRun, Inv, Typed
  <2>3. Working(r)' /\ phase[r] # "executing"
    BY <1>1, <1>4, <1>7, <2>1 DEF Working, Inv, Typed, GoodNote, Admitted
  <2>4. \A u \in Stages : InStore(u)' \in {InStore(u), None}
    BY <1>4, <1>7
  <2> QED BY <1>1, <1>3, <2>1, <2>2, <2>3, <2>4, WorkStep DEF Todo
<1>8. CASE state = "completed"
  <2>1. PICK x \in Values : x = job[r][s] /\ phase[r] = "executing"
    BY <1>1, <1>2, <1>4, <1>8 DEF GoodNote
  <2>2. /\ held' = [held EXCEPT ![r][s] = x] /\ job' = [job EXCEPT ![r][s] = None]
        /\ UNCHANGED <<phase, left, cause>>
    BY <1>2, <1>4, <1>8, <2>1 DEF Committed
  <2>3. Others(r)
    BY <1>1, <1>3, <1>5, <2>2 DEF Others, SameRun, Inv, Typed
  <2>4. /\ held'[r][s] = x /\ x # None /\ job'[r][s] = None
        /\ \A u \in Stages \ {s} : held'[r][u] = held[r][u] /\ job'[r][u] = job[r][u]
    BY <1>1, <2>2, NoneAssumption DEF Inv, Typed
  <2>5. Working(r)' /\ phase'[r] = "executing"
    BY <2>1, <2>2 DEF Working
  <2>6. \A u \in Stages : held'[r][u] # None \/ InStore(u)' \in {InStore(u), None}
    BY <1>2, <2>4
  <2>7. \A u \in Stages :
          \/ held'[r][u] = held[r][u]
          \/ /\ phase'[r] = "executing" /\ \E i \in Due(r) : u = StageAt(r, i)
             /\ job'[r][u] = None /\ held'[r][u] # None
    BY <1>2, <2>4, <2>5
  <2>8. \A u \in Stages : job[r][u] = None => job'[r][u] = None
    BY <2>4
  <2> QED BY <1>1, <1>3, <2>3, <2>5, <2>6, <2>7, <2>8, WorkStep DEF Todo
<1>9. CASE state \in {"waiting", "failed"}
  <2>1. /\ job' = [job EXCEPT ![r][s] = None] /\ \E y : cause' = [cause EXCEPT ![r] = y]
        /\ UNCHANGED <<phase, left, held>>
    BY <1>2, <1>4, <1>9 DEF Committed
  <2>2. Others(r)
    BY <1>1, <1>3, <1>5, <2>1 DEF Others, SameRun, Inv, Typed
  <2>3. Working(r)' /\ phase'[r] = phase[r]
    BY <1>3, <2>1 DEF Working
  <2>4. \A u \in Stages : InStore(u)' \in {InStore(u), None}
    BY <1>4, <1>9
  <2>5. \A u \in Stages : job[r][u] = None => job'[r][u] = None
    BY <1>1, <2>1 DEF Inv, Typed
  <2> QED BY <1>1, <1>3, <2>1, <2>2, <2>3, <2>4, <2>5, WorkStep DEF Todo
<1> QED BY <1>6, <1>7, <1>8, <1>9

LEMMA CommitTodo ==
  ASSUME KeptInv, NEW r \in Runs, Commit(r) \/ CommitRepeats(r)
  PROVE  /\ Todo(r) /\ beside' = beside /\ Live(r)
         /\ chain' # chain => Commit(r) /\ note'[r] = None
<1>1. Inv /\ note[r] # None /\ note[r] \in Notes /\ Committed(r) /\ beside' = beside
  BY DEF KeptInv, Inv, Typed, Commit, CommitRepeats
<1>2. Live(r)
  BY <1>1 DEF Inv, GoodRun, GoodNote, Working, Live
<1>3. note'[r] = None
  BY <1>1 DEF Committed, Inv, Typed
<1>4. CASE CommitRepeats(r)
  <2>1. chain' = chain
    BY <1>4 DEF CommitRepeats
  <2> QED BY <1>1, <1>2, <2>1, StoreSeen, CommittedTodo
<1>5. CASE Commit(r)
  <2>1. PICK s \in Stages : s = note[r].stage
    BY <1>1 DEF Notes
  <2>2. PICK q \in Receipts : q = note[r].receipt
    BY <1>1 DEF Notes
  <2>3. /\ \A u \in Stages \ {s} : chain'[u] = chain[u]
        /\ chain[s] \in Seq(Receipts) /\ chain'[s] = Append(chain[s], q)
    BY <1>1, <1>5, <2>1, <2>2 DEF Commit, Inv, Typed
  <2>4. Last(chain'[s]) = q
    BY <2>3 DEF Last
  <2>5. \A u \in Stages \ {s} : InStore(u)' = InStore(u)
    BY <2>3 DEF InStore
  <2>6. q.state # "completed" => InStore(s)' = None
    BY <2>4 DEF InStore
  <2>7. \A u \in Stages :
          InStore(u)' \in {InStore(u), None} \/ (u = note[r].stage /\ note[r].receipt.state = "completed")
    BY <2>1, <2>2, <2>5, <2>6
  <2>8. Todo(r)
    BY <1>1, <2>7, CommittedTodo
  <2> QED BY <1>1, <1>2, <1>3, <1>5, <2>8
<1> QED BY <1>4, <1>5

------------------------------------------------------------------------------
(* The specification *)

LEMMA InitInv == Init => Inv
<1> SUFFICES ASSUME Init PROVE Inv
  OBVIOUS
<1>1. Typed
  BY DEF Init, Each, Typed
<1>2. GoodStore
  BY DEF Init, Each, GoodStore, OneHistory
<1>3. ASSUME NEW r \in Runs PROVE GoodRun(r)
  <2>1. phase[r] = "away" /\ note[r] = None /\ outcome[r] = None /\ cause[r] = None
        /\ \A s \in Stages : held[r][s] = None /\ job[r][s] = None
    BY DEF Init, Each
  <2>2. GoodPlan(r) /\ GoodEnd(r) /\ GoodJobs(r) /\ GoodNote(r)
    BY <2>1, NoneAssumption DEF GoodPlan, GoodEnd, GoodJobs, GoodNote, Working
  <2>3. GoodHeld(r)
    BY <2>1, StagesAssumption DEF GoodHeld
  <2>4. GoodBegun(r) /\ GoodAlone(r)
    BY <2>1, NoneAssumption DEF GoodBegun, GoodAlone, Admitted, Running, Live
  <2> QED BY <2>2, <2>3, <2>4 DEF GoodRun
<1> QED BY <1>1, <1>2, <1>3 DEF Inv

LEMMA NextInv == Inv /\ [Next]_vars => Inv'
<1> SUFFICES ASSUME Inv, [Next]_vars PROVE Inv'
  OBVIOUS
<1>1. CASE UNCHANGED vars
  <2>1. /\ chain' = chain /\ beside' = beside /\ cancelled' = cancelled
        /\ phase' = phase /\ level' = level /\ left' = left /\ held' = held /\ need' = need
        /\ attempt' = attempt /\ note' = note /\ job' = job /\ cause' = cause /\ outcome' = outcome
    BY <1>1 DEF vars, localVars
  <2>2. Typed' /\ GoodStore'
    BY <2>1, StoreKept DEF Inv, Typed
  <2>3. ASSUME NEW r \in Runs PROVE GoodRun(r)'
    <3>1. SameRun(r)
      BY <2>1 DEF SameRun
    <3>2. GoodPlan(r)' /\ GoodEnd(r)' /\ GoodJobs(r)' /\ GoodBegun(r)'
      BY <2>1, <3>1, SameParts DEF SameRun, Inv, GoodRun, GoodPlan, GoodEnd, GoodJobs, GoodBegun, Began
    <3>3. GoodHeld(r)' /\ GoodNote(r)'
      BY <2>1, <3>1, SameParts DEF SameRun, Inv, GoodRun, GoodHeld, Recorded, GoodNote
    <3>4. GoodAlone(r)'
      <4>1. \A p \in Runs : Live(p)' <=> Live(p)
        BY <2>1 DEF Live
      <4> QED BY <2>1, <3>1, <4>1, SameParts DEF SameRun, Inv, GoodRun, GoodAlone, Stands
    <3> QED BY <3>2, <3>3, <3>4 DEF GoodRun
  <2> QED BY <2>2, <2>3 DEF Inv
<1>2. CASE Next
  <2>1. CASE Rest
    BY <1>1, <2>1 DEF Rest
  <2>2. ASSUME NEW r \in Runs,
               \/ Start(r) \/ Cancel(r) \/ Recover(r) \/ RecoverFails(r) \/ Decide(r) \/ DecideReplay(r)
               \/ GiveUp(r) \/ Conclude(r) \/ Crash(r)
        PROVE  Inv'
    BY <2>2, StartStep, CancelStep, RecoverStep, EndingStep, DecideStep, DecideReplayStep
  <2>3. ASSUME NEW r \in Runs, Admit(r) \/ Run(r) \/ Spawn(r) \/ Proceed(r) \/ Gather(r)
        PROVE  Inv'
    BY <2>3, AdmitStep, RunStep, SpawnStep, ProceedStep, GatherStep
  <2>4. ASSUME NEW r \in Runs, Commit(r) \/ CommitRepeats(r) \/ CommitConflicts(r) \/ CommitFails(r)
        PROVE  Inv'
    BY <2>4, CommitStep, CommitRepeatsStep, CommitFailsStep
  <2>5. ASSUME NEW r \in Runs, NEW s \in Stages,
               Enter(r, s) \/ TurnAway(r, s) \/ Execute(r, s) \/ Finish(r, s)
        PROVE  Inv'
    BY <2>5, JobStep, FinishStep
  <2> QED BY <1>2, <2>1, <2>2, <2>3, <2>4, <2>5 DEF Next
<1> QED BY <1>1, <1>2

LEMMA AlwaysInv == StagesSpec => []Inv
BY InitInv, NextInv, PTL DEF StagesSpec

\* However many runs share a stage, each of its attempts is admitted, runs and ends at
\* most once each, in this order and on one set of inputs: what stageTransition and the alias that moves from the receipt
\* that was read promise together, when runs race, crash or repeat a commit.
THEOREM EachAttemptEndsOnce == StagesSpec => []OneResultPerAttempt
<1>1. Inv => OneResultPerAttempt
  BY DEF Inv, GoodStore, OneHistory, OneResultPerAttempt
<1> QED BY <1>1, AlwaysInv, PTL

\* What a receipt names as an input, and what a run that succeeded answers, is the output
\* of a completed receipt: nothing rests on a result whose receipt was not committed.
THEOREM NothingUnrecorded == StagesSpec => []LineageComplete
<1>1. Inv => LineageComplete
  <2> SUFFICES ASSUME Inv PROVE LineageComplete
    OBVIOUS
  <2>1. ASSUME NEW s \in Stages, NEW i \in DOMAIN chain[s], NEW u \in Reads(s) \cap Durable
        PROVE  Recorded(u, chain[s][i].in[u])
    BY DEF Inv, GoodStore, Founded
  <2>2. ASSUME NEW r \in Runs, outcome[r] = "succeeded", NEW s \in Outputs \cap Durable
        PROVE  Recorded(s, held[r][s])
    BY <2>2 DEF Inv, GoodRun, GoodEnd, GoodHeld
  <2> QED BY <2>1, <2>2 DEF LineageComplete
<1> QED BY <1>1, AlwaysInv, PTL

\* Wherever a run stopped, between any two of its commits, a run that is alone after it
\* is refused no receipt: recoverStage and the attempt counter need no repair of a store
\* that a crash left behind.
THEOREM RestartGoesOn == StagesSpec => []RestartNotWedged
<1>1. Inv => RestartNotWedged
  BY DEF Inv, GoodRun, GoodAlone, RestartNotWedged
<1> QED BY <1>1, AlwaysInv, PTL

LEMMA InitKept == Init => KeptInv
<1> SUFFICES ASSUME Init, NEW r \in Runs PROVE GoodTodo(r) /\ GoodSight(r)
  BY InitInv DEF KeptInv
<1>1. phase[r] = "away"
  BY DEF Init
<1> QED BY <1>1 DEF GoodTodo, GoodSight, Working, Live

\* A step of one run: the others keep what they know, for the store changes only beside them.
LEMMA TodoStep ==
  ASSUME KeptInv, NEW r \in Runs, Todo(r), beside \subseteq beside', chain' = chain \/ Live(r)
  PROVE  \A q \in Runs : GoodTodo(q)' /\ GoodSight(q)'
<1> SUFFICES ASSUME NEW q \in Runs \ {r} PROVE GoodTodo(q)' /\ GoodSight(q)'
  BY DEF Todo
<1>1. SameRun(q) /\ GoodTodo(q) /\ GoodSight(q) /\ GoodAlone(q)
  BY DEF Todo, Others, KeptInv, Inv, GoodRun
<1>2. chain' = chain \/ ~Live(q) \/ q \in beside
  BY <1>1 DEF GoodAlone
<1> QED BY <1>1, <1>2, OtherTodo

\* A step of a run, and what it may do to the store.
LEMMA NextTodo ==
  ASSUME KeptInv, Next
  PROVE  UNCHANGED vars \/ \E r \in Runs :
           /\ Todo(r) /\ beside \subseteq beside'
           /\ chain' # chain => Live(r) /\ note[r] # None /\ note'[r] = None
<1>1. CASE Rest
  BY <1>1 DEF Rest
<1>2. ASSUME NEW r \in Runs,
             \/ RecoverFails(r) \/ DecideReplay(r) \/ GiveUp(r) \/ Conclude(r) \/ Crash(r) \/ Gather(r)
             \/ Start(r) \/ Recover(r) \/ Decide(r)
      PROVE  Todo(r) /\ beside \subseteq beside' /\ chain' = chain
  BY <1>2, PlainTodo, StartTodo, RecoverTodo, DecideTodo
<1>3. ASSUME NEW r \in Runs, Cancel(r)
      PROVE  Todo(r) /\ beside \subseteq beside' /\ chain' = chain
  <2>1. SameRun(r) /\ Others(r) /\ chain' = chain /\ beside' = beside
    BY <1>3 DEF Cancel, localVars, SameRun, Others
  <2> QED BY <2>1, OtherTodo DEF Todo, KeptInv
<1>4. ASSUME NEW r \in Runs,
             \/ Admit(r) \/ Run(r) \/ Spawn(r) \/ Proceed(r) \/ CommitConflicts(r) \/ CommitFails(r)
      PROVE  Todo(r) /\ beside \subseteq beside' /\ chain' = chain
  BY <1>4, BeginTodo, SpawnTodo, ProceedTodo, NotCommittedTodo
<1>5. ASSUME NEW r \in Runs, NEW s \in Stages,
             Enter(r, s) \/ TurnAway(r, s) \/ Execute(r, s) \/ Finish(r, s)
      PROVE  Todo(r) /\ beside \subseteq beside' /\ chain' = chain
  BY <1>5, JobTodo
<1>6. ASSUME NEW r \in Runs, Commit(r) \/ CommitRepeats(r)
      PROVE  /\ Todo(r) /\ beside \subseteq beside'
             /\ chain' # chain => Live(r) /\ note[r] # None /\ note'[r] = None
  BY <1>6, CommitTodo DEF Commit
<1> QED BY <1>1, <1>2, <1>3, <1>4, <1>5, <1>6 DEF Next

LEMMA NextKept == KeptInv /\ [Next]_vars => KeptInv'
<1> SUFFICES ASSUME KeptInv, [Next]_vars PROVE KeptInv'
  OBVIOUS
<1>1. Inv'
  BY NextInv DEF KeptInv
<1>2. CASE UNCHANGED vars
  <2>1. \A r \in Runs : SameRun(r)
    BY <1>2 DEF vars, localVars, SameRun
  <2>2. chain' = chain /\ beside' = beside
    BY <1>2 DEF vars
  <2> QED BY <1>1, <2>1, <2>2, OtherTodo DEF KeptInv
<1>3. CASE Next /\ ~UNCHANGED vars
  <2>1. PICK r \in Runs : /\ Todo(r) /\ beside \subseteq beside'
                          /\ chain' # chain => Live(r) /\ note[r] # None /\ note'[r] = None
    BY <1>3, NextTodo
  <2>2. \A q \in Runs : GoodTodo(q)' /\ GoodSight(q)'
    BY <2>1, TodoStep
  <2> QED BY <1>1, <2>2 DEF KeptInv
<1> QED BY <1>2, <1>3

LEMMA AlwaysKept == StagesSpec => []KeptInv
BY InitKept, NextKept, PTL DEF StagesSpec

\* An answer the store holds the whole of stays whole: no run that is alone commits a
\* receipt then, wherever runs before it stopped.  planReplay asks for what is missing
\* only, and what a run commits is missing from the answer while it works.
THEOREM AnswerIsKept == StagesSpec => AnswerKept
<1> DEFINE Step == chain' # chain /\ WholeAnswer /\ ~WholeAnswer' =>
                     \E r \in beside : note[r] # None /\ note'[r] = None
<1>1. ASSUME KeptInv, [Next]_vars PROVE [Step]_vars
  <2> SUFFICES ASSUME chain' # chain, WholeAnswer
               PROVE  \E r \in beside : note[r] # None /\ note'[r] = None
    OBVIOUS
  <2>1. ~UNCHANGED vars
    BY DEF vars
  <2>2. PICK r \in Runs : note[r] # None /\ note'[r] = None
    BY <1>1, <2>1, NextTodo
  <2>3. r \in beside
    BY <1>1, <2>2, AnswerMissing
  <2> QED BY <2>2, <2>3
<1>2. KeptInv /\ [Next]_vars => [Step]_vars
  BY <1>1
<1> QED BY <1>2, AlwaysKept, PTL DEF StagesSpec, AnswerKept
=============================================================================
