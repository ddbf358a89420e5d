-------------------------- MODULE OperationsProofs --------------------------
(* Theorems about Operations, for every set of identities, deciders and     *)
(* callers and every limit.                                                 *)
EXTENDS Operations, SequenceTheorems, FiniteSetTheorems, TLAPS

Attempt ==
  [id : Ids, state : Active \cup Settled, ctx : {"live", "cancelled"}, place : Places, reports : Int]

Answers == {"grant", "decline"}

DeciderRecord ==
  [at : {"idle", "read", "granted", "checked"}, id : Ids \cup {0}, prior : Nat,
   answer : Answers \cup {"none"}]

Deciding ==
  /\ decisions \in [Ids -> Seq(Answers)]
  /\ decider \in [Deciders -> DeciderRecord]
  /\ \A d \in Deciders :
       decider[d].at # "idle" => decider[d].id \in Ids /\ decider[d].answer \in Answers

\* The shapes of the variables the properties below are about.
Typed ==
  /\ attempts \in Seq(Attempt)
  /\ entries \in [Ids -> 0 .. Len(attempts)]
  /\ Deciding
  /\ caller \in [Callers -> 0 .. Len(attempts)]

\* Who acts on a grant has one in the chain of decisions.
GrantsCommitted ==
  \A d \in Deciders :
    decider[d].at \in {"granted", "checked"} => "grant" \in ToSet(decisions[decider[d].id])

------------------------------------------------------------------------------
(* Helpers *)

\* The eviction takes settled identities only, and gives nobody another attempt.
Spares(kept, held, states) ==
  /\ kept = [id \in Ids |-> kept[id]]
  /\ \A id \in Ids : /\ kept[id] \in {0, held[id]}
                     /\ states[held[id]].state \notin Settled => kept[id] = held[id]

LEMMA TrimSpares ==
  ASSUME NEW held, NEW line, NEW states
  PROVE  Spares(Trim(held, line, states)[1], held, states)
<1> DEFINE gone == Overdue(held, line, states)
           kept == [id \in Ids |-> IF id \in gone THEN 0 ELSE held[id]]
<1>1. Trim(held, line, states)[1] = kept
  BY DEF Trim
<1>2. \A id \in gone : states[held[id]].state \in Settled
  BY DEF Overdue
<1> QED BY <1>1, <1>2 DEF Spares

\* An attempt that ends after its context was cancelled ends cancelled, or
\* failed for want of a durable run.
LEMMA OutcomeType ==
  ASSUME NEW returned \in Returns, NEW ctx \in {"live", "cancelled"}
  PROVE  /\ Outcome(returned, ctx) \in Settled
         /\ ctx = "cancelled" => Outcome(returned, ctx) \in {"cancelled", "failed"}
  BY DEF Returns, Outcome, Settled

------------------------------------------------------------------------------
(* One attempt moves *)

\* What a step may do to an attempt: it keeps its identity, a cancelled context
\* and a settled state, and a cancelled one does not complete.
Moves(a) ==
  /\ attempts' \in Seq(Attempt) /\ Len(attempts') = Len(attempts)
  /\ \A b \in Attempts \ {a} : attempts'[b] = attempts[b]
  /\ attempts'[a].id = attempts[a].id
  /\ Terminal(a) => Terminal(a)'
  /\ attempts[a].ctx = "cancelled" /\ ~Terminal(a) /\ Terminal(a)'
       => attempts'[a].state \in {"cancelled", "failed"}

\* A replaced record is a move when its fields are.
LEMMA MovesTo ==
  ASSUME Typed, NEW a \in Attempts, NEW state \in Active \cup Settled,
         NEW ctx \in {"live", "cancelled"}, NEW place \in Places, NEW reports \in Int,
         attempts' = [attempts EXCEPT ![a] = [attempts[a] EXCEPT !.state = state, !.ctx = ctx,
                                                !.place = place, !.reports = reports]],
         Terminal(a) => state \in Settled,
         attempts[a].ctx = "cancelled" /\ ~Terminal(a) /\ state \in Settled
           => state \in {"cancelled", "failed"}
  PROVE  Moves(a)
<1> DEFINE rec == [attempts[a] EXCEPT !.state = state, !.ctx = ctx, !.place = place,
                                      !.reports = reports]
<1>1. attempts \in Seq(Attempt) /\ a \in 1 .. Len(attempts)
  BY DEF Typed, Attempts
<1>2. attempts[a] \in Attempt
  BY <1>1, ElementOfSeq
<1>3. rec \in Attempt /\ rec.id = attempts[a].id /\ rec.state = state
  BY <1>2 DEF Attempt
<1> HIDE DEF rec
<1>4. /\ attempts' \in Seq(Attempt) /\ Len(attempts') = Len(attempts)
      /\ \A b \in 1 .. Len(attempts) : attempts'[b] = IF b = a THEN rec ELSE attempts[b]
  BY <1>1, <1>3, ExceptSeq DEF rec
<1>5. attempts'[a] = rec
  BY <1>1, <1>4
<1>6. Terminal(a)' <=> state \in Settled
  BY <1>3, <1>5 DEF Terminal
<1> QED BY <1>3, <1>4, <1>5, <1>6 DEF Moves, Attempts

\* Each step of an attempt moves it, and only its end may evict.
LEMMA AttemptSteps ==
  ASSUME Typed, NEW a \in Attempts, AttemptStep(a)
  PROVE  /\ Moves(a)
         /\ entries' = entries \/ entries' = Trim(entries, order, attempts')[1]
         /\ UNCHANGED <<decisions, decider, caller>>
<1>0. /\ attempts \in Seq(Attempt) /\ a \in 1 .. Len(attempts)
      /\ attempts[a] \in Attempt
      /\ attempts[a].state \in Active \cup Settled /\ attempts[a].ctx \in {"live", "cancelled"}
      /\ attempts[a].place \in Places /\ attempts[a].reports \in Int
  <2>1. attempts[a] \in Attempt
    BY ElementOfSeq DEF Typed, Attempts
  <2> QED BY <2>1 DEF Typed, Attempts, Attempt
<1>1. ASSUME NEW state \in Active, NEW place \in Places, SetState(a, state, place)
      PROVE  Moves(a) /\ UNCHANGED <<entries, decisions, decider, caller>>
  <2> DEFINE to == IF Terminal(a) THEN attempts[a].state ELSE state
  <2>1. attempts' = [attempts EXCEPT ![a] = [attempts[a] EXCEPT !.state = to,
          !.ctx = attempts[a].ctx, !.place = place, !.reports = attempts[a].reports]]
    BY <1>0, <1>1 DEF SetState, Attempt
  <2>2. to \in Active \cup Settled /\ (Terminal(a) => to \in Settled) /\ (~Terminal(a) => to \notin Settled)
    BY <1>0 DEF Terminal, Active, Settled
  <2>3. Moves(a)
    BY <1>0, <2>1, <2>2, MovesTo
  <2> QED BY <1>1, <2>3 DEF SetState
<1>2. CASE Launch(a)
  <2>1. attempts' = [attempts EXCEPT ![a] = [attempts[a] EXCEPT !.state = attempts[a].state,
          !.ctx = attempts[a].ctx, !.place = "launched", !.reports = attempts[a].reports]]
    BY <1>0, <1>2 DEF Launch, Attempt
  <2>2. Moves(a)
    BY <1>0, <2>1, MovesTo DEF Terminal, Places
  <2> QED BY <1>2, <2>2 DEF Launch
<1>3. CASE Prepare(a) \/ Execute(a) \/ Publishing(a)
  BY <1>0, <1>1, <1>3 DEF Prepare, Execute, Publishing, Active, Places
<1>4. CASE Report(a)
  <2>1. attempts' = [attempts EXCEPT ![a] = [attempts[a] EXCEPT !.state = attempts[a].state,
          !.ctx = attempts[a].ctx, !.place = attempts[a].place, !.reports = attempts[a].reports + 1]]
    BY <1>0, <1>4 DEF Report, Attempt
  <2>2. attempts[a].reports + 1 \in Int
    BY <1>0
  <2>3. Moves(a)
    BY <1>0, <2>1, <2>2, MovesTo DEF Terminal
  <2> QED BY <1>4, <2>3 DEF Report
<1>5. CASE EndContext(a)
  <2>1. attempts' = [attempts EXCEPT ![a] = [attempts[a] EXCEPT !.state = attempts[a].state,
          !.ctx = "cancelled", !.place = attempts[a].place, !.reports = attempts[a].reports]]
    BY <1>0, <1>5 DEF EndContext, Attempt
  <2>2. Moves(a)
    BY <1>0, <2>1, MovesTo DEF Terminal
  <2> QED BY <1>5, <2>2 DEF EndContext
<1>6. CASE Settle(a)
  <2>1. PICK returned \in Returns :
          attempts' = [attempts EXCEPT ![a].state = Outcome(returned, attempts[a].ctx),
                                       ![a].ctx = "cancelled", ![a].place = "ended"]
    BY <1>6 DEF Settle
  <2>2. attempts' = [attempts EXCEPT ![a] = [attempts[a] EXCEPT
          !.state = Outcome(returned, attempts[a].ctx),
          !.ctx = "cancelled", !.place = "ended", !.reports = attempts[a].reports]]
    BY <1>0, <2>1 DEF Attempt
  <2>3. Moves(a)
    BY <1>0, <2>2, OutcomeType, MovesTo DEF Places
  <2> QED BY <1>6, <2>3 DEF Settle, Retain
<1> QED BY <1>2, <1>3, <1>4, <1>5, <1>6 DEF AttemptStep

------------------------------------------------------------------------------
(* What follows from it *)

\* As long as attempts keep their identity and stay settled, and decisions are
\* only added, nothing that was promised of them is lost.
LEMMA Persist ==
  ASSUME Typed, OneActiveAttempt, ResumedByGrant,
         Len(attempts') = Len(attempts),
         \A b \in Attempts : attempts'[b].id = attempts[b].id /\ (Terminal(b) => Terminal(b)'),
         entries' = entries \/ entries' = Trim(entries, order, attempts')[1],
         \A id \in Ids : ToSet(decisions[id]) \subseteq ToSet(decisions'[id])
  PROVE  OneActiveAttempt' /\ ResumedByGrant' /\ entries' \in [Ids -> 0 .. Len(attempts')]
<1>0. /\ Attempts' = Attempts /\ entries \in [Ids -> 0 .. Len(attempts)] /\ Len(attempts) \in Nat
      /\ \A b \in Attempts : attempts[b].id \in Ids
  <2>1. \A b \in Attempts : attempts[b] \in Attempt
    BY ElementOfSeq DEF Typed, Attempts
  <2> QED BY <2>1, LenProperties DEF Typed, Attempts, Attempt
<1>1. \A id \in Ids : /\ entries'[id] \in {0, entries[id]}
                      /\ attempts'[entries[id]].state \notin Settled => entries'[id] = entries[id]
  <2>1. CASE entries' = entries
    BY <2>1
  <2>2. CASE entries' = Trim(entries, order, attempts')[1]
    <3>1. Spares(entries', entries, attempts')
      BY <2>2, TrimSpares
    <3> QED BY <3>1 DEF Spares
  <2> QED BY <2>1, <2>2
<1>2. entries' = [id \in Ids |-> entries'[id]]
  <2>1. CASE entries' = entries
    BY <1>0, <2>1
  <2>2. CASE entries' = Trim(entries, order, attempts')[1]
    <3>1. Spares(entries', entries, attempts')
      BY <2>2, TrimSpares
    <3> QED BY <3>1 DEF Spares
  <2> QED BY <2>1, <2>2
<1>3. entries' \in [Ids -> 0 .. Len(attempts')]
  BY <1>0, <1>1, <1>2
<1>4. OneActiveAttempt'
  <2> SUFFICES ASSUME NEW a \in Attempts, ~Terminal(a)'
               PROVE  entries'[attempts'[a].id] = a
    BY <1>0 DEF OneActiveAttempt
  <2>1. entries[attempts[a].id] = a
    BY DEF OneActiveAttempt
  <2> QED BY <1>0, <1>1, <2>1 DEF Terminal
<1>5. ResumedByGrant'
  BY <1>0 DEF ResumedByGrant
<1> QED BY <1>3, <1>4, <1>5

\* A new attempt, of an identity whose others have all settled and that has a
\* grant unless there are none, is the one that holds it.
LEMMA Admission ==
  ASSUME Typed, OneActiveAttempt, ResumedByGrant, NEW id \in Ids, Admit(id),
         \A b \in Attempts : attempts[b].id = id => Terminal(b) /\ "grant" \in ToSet(decisions[id]),
         decisions' = decisions
  PROVE  /\ attempts' \in Seq(Attempt) /\ entries' \in [Ids -> 0 .. Len(attempts')]
         /\ Len(attempts') = Len(attempts) + 1
         /\ \A b \in Attempts : attempts'[b] = attempts[b]
         /\ OneActiveAttempt' /\ ResumedByGrant'
<1> DEFINE n == Len(attempts) + 1
           fresh == [id |-> id, state |-> "admitted", ctx |-> "live",
                     place |-> "starting", reports |-> 0]
           held == [entries EXCEPT ![id] = n]
<1>0. /\ attempts \in Seq(Attempt) /\ Len(attempts) \in Nat
      /\ entries \in [Ids -> 0 .. Len(attempts)]
      /\ \A b \in Attempts : attempts[b].id \in Ids
  <2>1. \A b \in Attempts : attempts[b] \in Attempt
    BY ElementOfSeq DEF Typed, Attempts
  <2> QED BY <2>1, LenProperties DEF Typed, Attempts, Attempt
<1>1. fresh \in Attempt
  BY DEF Attempt, Active, Places
<1>2. attempts' = Append(attempts, fresh)
  BY DEF Admit
<1>3. PICK line : entries' = Trim(held, line, attempts')[1]
  BY DEF Admit, Retain
<1> HIDE DEF fresh
<1>4. /\ attempts' \in Seq(Attempt) /\ Len(attempts') = n /\ attempts'[n] = fresh
      /\ \A b \in Attempts : attempts'[b] = attempts[b]
  BY <1>0, <1>1, <1>2, AppendProperties DEF Attempts
<1>5. Attempts' = Attempts \cup {n} /\ n \notin Attempts
  BY <1>0, <1>4 DEF Attempts
<1>a. Spares(entries', held, attempts')
  BY <1>3, TrimSpares
<1>6. \A i \in Ids : /\ entries'[i] \in {0, held[i]}
                     /\ attempts'[held[i]].state \notin Settled => entries'[i] = held[i]
  BY <1>a DEF Spares
<1>7. entries' = [i \in Ids |-> entries'[i]]
  BY <1>a DEF Spares
<1>8. entries' \in [Ids -> 0 .. Len(attempts')]
  <2>1. \A i \in Ids : held[i] \in 0 .. n
    BY <1>0
  <2> QED BY <1>0, <1>4, <1>6, <1>7, <2>1
<1>9. OneActiveAttempt'
  <2>1. ASSUME NEW b \in Attempts, ~Terminal(b)' PROVE entries'[attempts'[b].id] = b
    <3>1. ~Terminal(b) /\ attempts'[b] = attempts[b]
      BY <1>4, <2>1 DEF Terminal
    <3>2. attempts[b].id # id /\ entries[attempts[b].id] = b
      BY <3>1 DEF OneActiveAttempt
    <3>3. held[attempts[b].id] = b
      BY <1>0, <3>2
    <3> QED BY <1>0, <1>6, <2>1, <3>1, <3>3 DEF Terminal
  <2>2. entries'[attempts'[n].id] = n
    <3>1. held[id] = n /\ attempts'[n].id = id /\ attempts'[n].state = "admitted"
      BY <1>0, <1>4 DEF fresh
    <3> QED BY <1>6, <3>1 DEF Settled
  <2> QED BY <1>5, <2>1, <2>2 DEF OneActiveAttempt
<1>10. ResumedByGrant'
  <2> SUFFICES ASSUME NEW a \in Attempts', NEW b \in Attempts', a < b, attempts'[a].id = attempts'[b].id
               PROVE  "grant" \in ToSet(decisions[attempts'[a].id])
    BY DEF ResumedByGrant
  <2>1. a \in Attempts
    BY <1>0, <1>5 DEF Attempts
  <2>2. CASE b \in Attempts
    BY <1>4, <2>1, <2>2 DEF ResumedByGrant
  <2>3. CASE b = n
    <3>1. attempts[a].id = id
      BY <1>4, <2>1, <2>3 DEF fresh
    <3> QED BY <1>4, <2>1, <3>1
  <2> QED BY <1>5, <2>2, <2>3
<1> QED BY <1>4, <1>8, <1>9, <1>10

------------------------------------------------------------------------------
(* A decision is taken *)

LEMMA ToSetAppend ==
  ASSUME NEW s \in Seq(Answers), NEW x \in Answers
  PROVE  Append(s, x) \in Seq(Answers) /\ ToSet(Append(s, x)) = ToSet(s) \cup {x}
<1>1. /\ Append(s, x) \in Seq(Answers) /\ Len(Append(s, x)) = Len(s) + 1
      /\ Append(s, x)[Len(s) + 1] = x
      /\ \A i \in 1 .. Len(s) : Append(s, x)[i] = s[i]
  BY AppendProperties
<1>2. Len(s) \in Nat /\ DOMAIN s = 1 .. Len(s) /\ DOMAIN Append(s, x) = 1 .. Len(s) + 1
  BY <1>1, LenProperties
<1>3. 1 .. Len(s) + 1 = (1 .. Len(s)) \cup {Len(s) + 1}
  BY <1>2
<1>4. ToSet(s) = {s[i] : i \in 1 .. Len(s)}
      /\ ToSet(Append(s, x)) = {Append(s, x)[i] : i \in (1 .. Len(s)) \cup {Len(s) + 1}}
  BY <1>2, <1>3 DEF ToSet
<1> QED BY <1>1, <1>4

\* No decision is taken back.
Grown == \A id \in Ids : ToSet(decisions[id]) \subseteq ToSet(decisions'[id])

\* A request that leaves, or is further on with what it read, acts on a grant
\* only where there is one.
LEMMA DecidersSay ==
  ASSUME Deciding, GrantsCommitted, NEW d \in Deciders, NEW to \in DeciderRecord,
         decider' = [decider EXCEPT ![d] = to],
         to.at # "idle" => to.id \in Ids /\ to.answer \in Answers,
         decisions' \in [Ids -> Seq(Answers)], Grown,
         to.at \in {"granted", "checked"} => "grant" \in ToSet(decisions'[to.id])
  PROVE  Deciding' /\ GrantsCommitted'
<1>1. decider' \in [Deciders -> DeciderRecord]
  BY DEF Deciding
<1>2. \A e \in Deciders : decider'[e] = IF e = d THEN to ELSE decider[e]
  BY DEF Deciding
<1>3. Deciding'
  BY <1>1, <1>2 DEF Deciding
<1>4. ASSUME NEW e \in Deciders, decider'[e].at \in {"granted", "checked"}
      PROVE  "grant" \in ToSet(decisions'[decider'[e].id])
  <2>1. CASE e = d
    BY <1>2, <1>4, <2>1
  <2>2. CASE e # d
    <3>1. decider'[e] = decider[e] /\ decider[e].id \in Ids
      BY <1>2, <1>4, <2>2 DEF Deciding
    <3> QED BY <1>4, <3>1 DEF GrantsCommitted, Grown
  <2> QED BY <2>1, <2>2
<1> QED BY <1>3, <1>4 DEF GrantsCommitted

LEMMA DeciderSteps ==
  ASSUME Deciding, GrantsCommitted, NEW d \in Deciders, DeciderStep(d)
  PROVE  Deciding' /\ GrantsCommitted' /\ Grown /\ UNCHANGED caller
<1>0. decider[d] \in DeciderRecord /\ NoDecision \in DeciderRecord /\ NoDecision.at = "idle"
  BY DEF Deciding, DeciderRecord, NoDecision
<1>1. ASSUME Done(d), decisions' = decisions
      PROVE  Deciding' /\ GrantsCommitted' /\ Grown
  <2>1. decisions' \in [Ids -> Seq(Answers)] /\ Grown
    BY <1>1 DEF Deciding, Grown
  <2> QED BY <1>0, <1>1, <2>1, DecidersSay DEF Done
<1>2. CASE ReadBlocked(d)
  <2>1. PICK id \in Ids, answer \in Answers :
          decider' = [decider EXCEPT ![d] =
            [at |-> "read", id |-> id, prior |-> Len(decisions[id]), answer |-> answer]]
    BY <1>2 DEF ReadBlocked, Retained, Answers
  <2>2. decisions[id] \in Seq(Answers)
    BY DEF Deciding
  <2>3. Len(decisions[id]) \in Nat
    BY <2>2, LenProperties
  <2>4. [at |-> "read", id |-> id, prior |-> Len(decisions[id]), answer |-> answer] \in DeciderRecord
    BY <2>3 DEF DeciderRecord
  <2>5. decisions' \in [Ids -> Seq(Answers)] /\ Grown /\ UNCHANGED caller
    BY <1>2 DEF ReadBlocked, Deciding, Grown
  <2> QED BY <2>1, <2>4, <2>5, DecidersSay
<1>3. CASE PublishDecision(d)
  <2> DEFINE id == decider[d].id
             chain == decisions[id]
             follows == Len(chain) = decider[d].prior
             repeats == Len(chain) > decider[d].prior
                        /\ chain[decider[d].prior + 1] = decider[d].answer
             granted == [decider[d] EXCEPT !.at = "granted"]
  <2>1. id \in Ids /\ decider[d].answer \in Answers /\ decider[d].prior \in Nat
    BY <1>0, <1>3 DEF PublishDecision, Deciding, DeciderRecord
  <2>2. chain \in Seq(Answers) /\ Len(chain) \in Nat /\ DOMAIN chain = 1 .. Len(chain)
    BY <2>1, LenProperties DEF Deciding
  <2>3. decisions' = IF follows THEN [decisions EXCEPT ![id] = Append(chain, decider[d].answer)]
                     ELSE decisions
    BY <1>3, <2>1 DEF PublishDecision
  <2> HIDE DEF chain
  <2>4. decisions' \in [Ids -> Seq(Answers)] /\ Grown
        /\ (follows => decider[d].answer \in ToSet(decisions'[id]))
        /\ (~follows => decisions' = decisions)
    <3>1. CASE follows
      <4>1. /\ Append(chain, decider[d].answer) \in Seq(Answers)
            /\ ToSet(Append(chain, decider[d].answer)) = ToSet(chain) \cup {decider[d].answer}
        BY <2>1, <2>2, ToSetAppend
      <4>2. /\ decisions' \in [Ids -> Seq(Answers)]
            /\ \A i \in Ids : decisions'[i] = IF i = id THEN Append(chain, decider[d].answer)
                                             ELSE decisions[i]
        BY <2>1, <2>3, <3>1, <4>1 DEF Deciding
      <4> QED BY <2>1, <3>1, <4>1, <4>2 DEF Grown, chain
    <3>2. CASE ~follows
      BY <2>3, <3>2 DEF Deciding, Grown
    <3> QED BY <3>1, <3>2
  <2>5. ASSUME follows \/ repeats, decider[d].answer = "grant",
               decider' = [decider EXCEPT ![d].at = "granted"]
        PROVE  Deciding' /\ GrantsCommitted'
    <3>1. decider' = [decider EXCEPT ![d] = granted] /\ granted \in DeciderRecord
          /\ granted.id = id /\ granted.answer \in Answers
      BY <1>0, <2>1, <2>5 DEF Deciding, DeciderRecord
    <3>2. "grant" \in ToSet(decisions'[id])
      <4>1. CASE follows
        BY <2>4, <2>5, <4>1
      <4>2. CASE ~follows
        <5>1. decider[d].prior + 1 \in DOMAIN chain /\ chain[decider[d].prior + 1] = "grant"
          BY <2>1, <2>2, <2>5, <4>2
        <5>2. "grant" \in ToSet(chain)
          BY <5>1 DEF ToSet
        <5> QED BY <2>4, <4>2, <5>2 DEF chain
      <4> QED BY <4>1, <4>2
    <3> QED BY <2>1, <2>4, <3>1, <3>2, DecidersSay
  <2>6. ASSUME Done(d) PROVE Deciding' /\ GrantsCommitted'
    BY <1>0, <2>4, <2>6, DecidersSay DEF Done
  <2>7. \/ (follows \/ repeats) /\ decider[d].answer = "grant"
           /\ decider' = [decider EXCEPT ![d].at = "granted"]
        \/ Done(d)
    BY <1>3 DEF PublishDecision, chain
  <2>8. UNCHANGED caller
    BY <1>3 DEF PublishDecision
  <2> QED BY <2>4, <2>5, <2>6, <2>7, <2>8
<1>4. CASE CheckGranted(d)
  <2>1. decisions' = decisions /\ UNCHANGED caller /\ decider[d].at = "granted"
    BY <1>4 DEF CheckGranted
  <2>2. CASE decider' = [decider EXCEPT ![d].at = "checked"]
    <3> DEFINE checked == [decider[d] EXCEPT !.at = "checked"]
    <3>1. decider' = [decider EXCEPT ![d] = checked] /\ checked \in DeciderRecord
          /\ checked.id = decider[d].id /\ checked.id \in Ids /\ checked.answer \in Answers
      BY <1>0, <2>1, <2>2 DEF Deciding, DeciderRecord
    <3>2. "grant" \in ToSet(decisions'[checked.id])
      BY <2>1, <3>1 DEF GrantsCommitted
    <3>3. decisions' \in [Ids -> Seq(Answers)] /\ Grown
      BY <2>1 DEF Deciding, Grown
    <3> HIDE DEF checked
    <3> QED BY <2>1, <3>1, <3>2, <3>3, DecidersSay
  <2> QED BY <1>1, <1>4, <2>1, <2>2 DEF CheckGranted
<1>5. CASE Resume(d) \/ RefuseResume(d)
  BY <1>1, <1>5 DEF Resume, RefuseResume
<1> QED BY <1>2, <1>3, <1>4, <1>5 DEF DeciderStep

------------------------------------------------------------------------------
(* The invariant *)

\* That a resumption has a grant behind it rests on what the deciders know; that
\* the map leads to the active attempt, on who may start and who may be evicted.
Inv == Typed /\ GrantsCommitted /\ OneActiveAttempt /\ ResumedByGrant

LEMMA InvInit == OperationsInit => Inv
<1> SUFFICES ASSUME OperationsInit PROVE Inv
  OBVIOUS
<1>1. attempts \in Seq(Attempt) /\ Len(attempts) = 0 /\ Attempts = {}
  BY EmptySeq DEF OperationsInit, Attempts
<1>2. decisions \in [Ids -> Seq(Answers)]
  BY EmptySeq DEF OperationsInit
<1>3. decider \in [Deciders -> DeciderRecord] /\ \A d \in Deciders : decider[d].at = "idle"
  BY DEF OperationsInit, NoDecision, DeciderRecord
<1>4. entries \in [Ids -> 0 .. Len(attempts)] /\ caller \in [Callers -> 0 .. Len(attempts)]
  BY <1>1 DEF OperationsInit
<1> QED BY <1>1, <1>2, <1>3, <1>4
  DEF Inv, Typed, Deciding, GrantsCommitted, OneActiveAttempt, ResumedByGrant

\* Steps that only move one attempt.
LEMMA MovesKeep ==
  ASSUME Inv, NEW a \in Attempts, Moves(a),
         entries' = entries \/ entries' = Trim(entries, order, attempts')[1],
         UNCHANGED <<decisions, decider>>, caller' \in [Callers -> 0 .. Len(attempts)]
  PROVE  Inv'
<1>1. \A b \in Attempts : attempts'[b].id = attempts[b].id /\ (Terminal(b) => Terminal(b)')
  BY DEF Moves, Terminal
<1>2. \A id \in Ids : ToSet(decisions[id]) \subseteq ToSet(decisions'[id])
  OBVIOUS
<1>3. OneActiveAttempt' /\ ResumedByGrant' /\ entries' \in [Ids -> 0 .. Len(attempts')]
  BY <1>1, <1>2, Persist DEF Inv, Moves
<1> QED BY <1>3 DEF Inv, Typed, Deciding, GrantsCommitted, Moves

\* Steps that leave the attempts and the map alone.
LEMMA DecisionsKeep ==
  ASSUME Inv, UNCHANGED <<attempts, entries>>, Deciding', GrantsCommitted', Grown,
         caller' \in [Callers -> 0 .. Len(attempts)]
  PROVE  Inv'
<1>1. OneActiveAttempt' /\ ResumedByGrant' /\ entries' \in [Ids -> 0 .. Len(attempts')]
  BY Persist DEF Inv, Terminal, Grown
<1> QED BY <1>1 DEF Inv, Typed

LEMMA SubmitKeeps ==
  ASSUME Inv, NEW id \in Ids, Submit(id)
  PROVE  Inv'
<1>1. /\ attempts' \in Seq(Attempt) /\ entries' \in [Ids -> 0 .. Len(attempts')]
      /\ Len(attempts') = Len(attempts) + 1
      /\ OneActiveAttempt' /\ ResumedByGrant'
  BY Admission DEF Inv, Submit
<1>2. Len(attempts) \in Nat
  BY LenProperties DEF Inv, Typed
<1>3. caller' \in [Callers -> 0 .. Len(attempts')]
  BY <1>1, <1>2 DEF Inv, Typed, Submit
<1> QED BY <1>1, <1>3 DEF Inv, Typed, Deciding, GrantsCommitted, Submit

LEMMA DecidersKeep ==
  ASSUME Inv, NEW d \in Deciders, DeciderStep(d)
  PROVE  Inv'
<1>1. Deciding' /\ GrantsCommitted' /\ Grown /\ UNCHANGED caller
  BY DeciderSteps DEF Inv, Typed
<1>2. CASE UNCHANGED <<attempts, entries>>
  BY <1>1, <1>2, DecisionsKeep DEF Inv, Typed
<1>3. CASE Resume(d)
  <2> DEFINE id == decider[d].id
  <2>1. id \in Ids /\ "grant" \in ToSet(decisions[id])
    BY <1>3 DEF Resume, Inv, Typed, Deciding, GrantsCommitted
  <2>2. \A b \in Attempts : attempts[b].id = id => Terminal(b)
    <3> SUFFICES ASSUME NEW b \in Attempts, attempts[b].id = id, ~Terminal(b) PROVE FALSE
      OBVIOUS
    <3>1. entries[id] = b /\ b # 0
      BY DEF Inv, OneActiveAttempt, Attempts
    <3> QED BY <1>3, <3>1 DEF Resume
  <2>3. Admit(id) /\ decisions' = decisions
    BY <1>3 DEF Resume
  <2>4. /\ attempts' \in Seq(Attempt) /\ entries' \in [Ids -> 0 .. Len(attempts')]
        /\ Len(attempts') = Len(attempts) + 1
        /\ OneActiveAttempt' /\ ResumedByGrant'
    BY <2>1, <2>2, <2>3, Admission DEF Inv
  <2>5. Len(attempts) \in Nat
    BY LenProperties DEF Inv, Typed
  <2>6. caller' \in [Callers -> 0 .. Len(attempts')]
    BY <1>1, <2>4, <2>5 DEF Inv, Typed
  <2> QED BY <1>1, <2>4, <2>6 DEF Inv, Typed
<1> QED BY <1>2, <1>3
  DEF DeciderStep, ReadBlocked, PublishDecision, CheckGranted, RefuseResume

\* What a cancellation and a close do to the attempts.
LEMMA CallCancelMoves ==
  ASSUME Typed, NEW c \in Callers, CallCancel(c)
  PROVE  \E a \in Attempts : Moves(a)
<1>1. PICK a \in Attempts : a = caller[c]
  BY LenProperties DEF Typed, CallCancel, Attempts
<1>2. attempts[a] \in Attempt
  BY ElementOfSeq DEF Typed, Attempts
<1>3. attempts[a].state \in Active \cup Settled /\ attempts[a].place \in Places
      /\ attempts[a].reports \in Int
  BY <1>2 DEF Attempt
<1>4. attempts' = [attempts EXCEPT ![a] = [attempts[a] EXCEPT !.state = attempts[a].state,
        !.ctx = "cancelled", !.place = attempts[a].place, !.reports = attempts[a].reports]]
  BY <1>1, <1>2 DEF CallCancel, Attempt
<1> QED BY <1>3, <1>4, MovesTo DEF Terminal

LEMMA CloseCancels ==
  ASSUME Typed, Close
  PROVE  /\ attempts' \in Seq(Attempt) /\ Len(attempts') = Len(attempts)
         /\ \A b \in Attempts : attempts'[b].id = attempts[b].id
                              /\ attempts'[b].state = attempts[b].state
<1> DEFINE closed(b) == IF entries[attempts[b].id] = b
                        THEN [attempts[b] EXCEPT !.ctx = "cancelled"] ELSE attempts[b]
<1>1. Len(attempts) \in Nat /\ attempts' = [b \in 1 .. Len(attempts) |-> closed(b)]
  BY LenProperties DEF Typed, Close, Attempts
<1>2. \A b \in 1 .. Len(attempts) : attempts[b] \in Attempt
  BY ElementOfSeq DEF Typed
<1>3. \A b \in 1 .. Len(attempts) : closed(b) \in Attempt /\ closed(b).id = attempts[b].id
                                    /\ closed(b).state = attempts[b].state
  BY <1>2 DEF Attempt
<1> HIDE DEF closed
<1>4. attempts' \in [1 .. Len(attempts) -> Attempt]
  BY <1>1, <1>3
<1>5. attempts' \in Seq(Attempt) /\ Len(attempts') = Len(attempts)
  BY <1>1, <1>4
<1> QED BY <1>1, <1>3, <1>5 DEF Attempts

LEMMA CloseKeeps ==
  ASSUME Inv, Close
  PROVE  Inv'
<1>1. /\ attempts' \in Seq(Attempt) /\ Len(attempts') = Len(attempts)
      /\ \A b \in Attempts : attempts'[b].id = attempts[b].id
                           /\ attempts'[b].state = attempts[b].state
  BY CloseCancels DEF Inv
<1>2. UNCHANGED <<entries, decisions, decider, caller>>
  BY DEF Close
<1>3. OneActiveAttempt' /\ ResumedByGrant' /\ entries' \in [Ids -> 0 .. Len(attempts')]
  BY <1>1, <1>2, Persist DEF Inv, Terminal
<1> QED BY <1>1, <1>2, <1>3 DEF Inv, Typed, Deciding, GrantsCommitted

\* Every step keeps the invariant.
LEMMA InvStep == Inv /\ [OperationsNext]_operationVars => Inv'
<1> SUFFICES ASSUME Inv, [OperationsNext]_operationVars PROVE Inv'
  OBVIOUS
<1>1. ASSUME NEW id \in Ids, Submit(id) PROVE Inv'
  BY <1>1, SubmitKeeps
<1>2. ASSUME NEW a \in Attempts, AttemptStep(a) PROVE Inv'
  BY <1>2, AttemptSteps, MovesKeep DEF Inv, Typed
<1>3. ASSUME NEW c \in Callers, ReadCancel(c) PROVE Inv'
  <2>1. caller' \in [Callers -> 0 .. Len(attempts)]
    BY <1>3 DEF ReadCancel, Retained, Inv, Typed
  <2> QED BY <1>3, <2>1, DecisionsKeep
      DEF ReadCancel, Inv, Typed, Deciding, GrantsCommitted, Grown
<1>4. ASSUME NEW c \in Callers, CallCancel(c) PROVE Inv'
  <2>1. PICK a \in Attempts : Moves(a)
    BY <1>4, CallCancelMoves DEF Inv
  <2>2. caller' \in [Callers -> 0 .. Len(attempts)]
    BY <1>4, LenProperties DEF CallCancel, Inv, Typed
  <2> QED BY <1>4, <2>1, <2>2, MovesKeep DEF CallCancel
<1>5. ASSUME NEW d \in Deciders, DeciderStep(d) PROVE Inv'
  BY <1>5, DecidersKeep
<1>6. CASE Close
  BY <1>6, CloseKeeps
<1>7. CASE CloseReturns \/ UNCHANGED operationVars
  BY <1>7, DecisionsKeep
  DEF CloseReturns, operationVars, Inv, Typed, Deciding, GrantsCommitted, Grown
<1> QED BY <1>1, <1>2, <1>3, <1>4, <1>5, <1>6, <1>7 DEF OperationsNext

\* The invariant holds of every reachable state.
LEMMA Invariant == OperationsSpec => []Inv
  BY InvInit, InvStep, PTL DEF OperationsSpec

\* However grants, cancellations and evictions interleave, an identity is run
\* by one attempt at a time and the manager's map leads to it.
THEOREM OneAtATime == OperationsSpec => []OneActiveAttempt
<1>1. Inv => OneActiveAttempt
  BY DEF Inv
<1> QED BY <1>1, Invariant, PTL

\* Nothing runs again without a committed grant, whoever lost the race for the
\* place after the last decision.
THEOREM NoRunWithoutGrant == OperationsSpec => []ResumedByGrant
<1>1. Inv => ResumedByGrant
  BY DEF Inv
<1> QED BY <1>1, Invariant, PTL

\* No step lets an attempt whose context is cancelled end completed or blocked.
THEOREM CancelledEndsCancelled == OperationsSpec => CancelledNeverCompletes
<1> DEFINE Heeds(a) ==
      attempts[a].ctx = "cancelled" /\ ~Terminal(a) /\ Terminal(a)'
        => attempts'[a].state \in {"cancelled", "failed"}
<1>1. Inv /\ [OperationsNext]_operationVars => [\A a \in Attempts : Heeds(a)]_operationVars
  <2> SUFFICES ASSUME Inv, OperationsNext, NEW a \in Attempts PROVE Heeds(a)
    OBVIOUS
  <2>1. ASSUME NEW b \in Attempts, Moves(b) PROVE Heeds(a)
    BY <2>1 DEF Moves, Terminal
  <2>2. ASSUME attempts'[a].state = attempts[a].state PROVE Heeds(a)
    BY <2>2 DEF Terminal
  <2>3. ASSUME NEW id \in Ids, Admit(id) PROVE Heeds(a)
    <3>1. attempts' = Append(attempts, [id |-> id, state |-> "admitted", ctx |-> "live",
                                        place |-> "starting", reports |-> 0])
      BY <2>3 DEF Admit
    <3>2. attempts \in Seq(Attempt)
          /\ [id |-> id, state |-> "admitted", ctx |-> "live",
              place |-> "starting", reports |-> 0] \in Attempt
      BY DEF Inv, Typed, Attempt, Active, Places
    <3>3. attempts'[a] = attempts[a]
      BY <3>1, <3>2, AppendProperties DEF Attempts
    <3> QED BY <2>2, <3>3
  <2>4. CASE \E id \in Ids : Submit(id)
    BY <2>3, <2>4 DEF Submit
  <2>5. CASE \E b \in Attempts : AttemptStep(b)
    BY <2>1, <2>5, AttemptSteps DEF Inv
  <2>6. CASE \E c \in Callers : ReadCancel(c) \/ CallCancel(c)
    BY <2>1, <2>2, <2>6, CallCancelMoves DEF Inv, ReadCancel
  <2>7. CASE \E d \in Deciders : DeciderStep(d)
    <3>1. PICK d \in Deciders : DeciderStep(d)
      BY <2>7
    <3>2. CASE Resume(d)
      BY <2>3, <3>2 DEF Resume, Inv, Typed, Deciding
    <3> QED BY <2>2, <3>1, <3>2
        DEF DeciderStep, ReadBlocked, PublishDecision, CheckGranted, RefuseResume
  <2>8. CASE Close
    BY <2>2, <2>8, CloseCancels DEF Inv
  <2>9. CASE CloseReturns
    BY <2>2, <2>9 DEF CloseReturns
  <2> QED BY <2>4, <2>5, <2>6, <2>7, <2>8, <2>9 DEF OperationsNext
<1> QED BY <1>1, Invariant, PTL DEF OperationsSpec, CancelledNeverCompletes
------------------------------------------------------------------------------
(* Places of a line *)

\* Of n places the ranks are 0 .. n - 1, each had by one.
LEMMA Ranks ==
  ASSUME NEW n \in Nat, NEW S \in SUBSET (1 .. n)
  PROVE  /\ IsFiniteSet(S) /\ Cardinality(S) \in Nat
         /\ \A i \in S : Before(i, S) \in 0 .. Cardinality(S) - 1
         /\ \A i, j \in S : Before(i, S) = Before(j, S) => i = j
         /\ \A m \in 0 .. Cardinality(S) - 1 : \E i \in S : Before(i, S) = m
<1>0. \A i \in S : i \in Int
  OBVIOUS
<1>1. IsFiniteSet(S) /\ Cardinality(S) \in Nat
  <2>1. IsFiniteSet(1 .. n)
    BY FS_Interval
  <2> QED BY <2>1, FS_Subset, FS_CardinalityType
<1>2. ASSUME NEW T \in SUBSET S PROVE IsFiniteSet(T) /\ Cardinality(T) \in Nat
  BY <1>1, FS_Subset, FS_CardinalityType
<1>3. ASSUME NEW i \in S, NEW j \in S, i < j PROVE Before(i, S) < Before(j, S)
  <2> DEFINE B == {k \in S : k < i}
             C == {k \in S : k < j}
  <2>1. IsFiniteSet(B) /\ Cardinality(B) \in Nat /\ IsFiniteSet(C) /\ Cardinality(C) \in Nat
    BY <1>2
  <2>2. i \notin B /\ B \cup {i} \in SUBSET C
    <3>1. i \in Int /\ j \in Int /\ \A k \in S : k < i => k < j
      BY <1>0, <1>3
    <3>2. ~(i < i)
      BY <3>1
    <3> QED BY <1>3, <3>1, <3>2
  <2>3. Cardinality(B \cup {i}) = Cardinality(B) + 1
    BY <2>1, <2>2, FS_AddElement
  <2>4. Cardinality(B \cup {i}) <= Cardinality(C)
    BY <2>1, <2>2, FS_Subset
  <2>5. Before(i, S) = Cardinality(B) /\ Before(j, S) = Cardinality(C)
    BY DEF Before
  <2> HIDE DEF B, C
  <2> QED BY <2>1, <2>3, <2>4, <2>5
<1>4. ASSUME NEW i \in S PROVE Before(i, S) \in 0 .. Cardinality(S) - 1
  <2> DEFINE B == {k \in S : k < i}
  <2>1. IsFiniteSet(B) /\ Cardinality(B) \in Nat
    BY <1>2
  <2>2. i \notin B /\ B \cup {i} \in SUBSET S
    OBVIOUS
  <2>3. Cardinality(B \cup {i}) = Cardinality(B) + 1
    BY <2>1, <2>2, FS_AddElement
  <2>4. Cardinality(B \cup {i}) <= Cardinality(S)
    BY <1>1, <2>2, FS_Subset
  <2>5. Before(i, S) = Cardinality(B)
    BY DEF Before
  <2> HIDE DEF B
  <2> QED BY <1>1, <2>1, <2>3, <2>4, <2>5
<1>5. \A i, j \in S : Before(i, S) = Before(j, S) => i = j
  <2> SUFFICES ASSUME NEW i \in S, NEW j \in S, Before(i, S) = Before(j, S), i # j PROVE FALSE
    OBVIOUS
  <2>1. i \in Int /\ j \in Int /\ Before(i, S) \in Int
    BY <1>1, <1>4
  <2>2. i < j \/ j < i
    BY <2>1
  <2> QED BY <1>3, <2>1, <2>2
<1> DEFINE T == 0 .. Cardinality(S) - 1
           f == [i \in S |-> Before(i, S)]
<1>6. f \in Injection(S, T)
  BY <1>4, <1>5 DEF Injection, IsInjective
<1>7. IsFiniteSet(T) /\ Cardinality(T) = Cardinality(S)
  BY <1>1, FS_Interval
<1>8. f \in Surjection(S, T)
  BY <1>6, <1>7, FS_Injection
<1>9. \A m \in T : \E i \in S : f[i] = m
  BY <1>8 DEF Surjection
<1> QED BY <1>1, <1>4, <1>5, <1>9

\* How many there are with fewer than so many before them.
LEMMA FirstPlaces ==
  ASSUME NEW n \in Nat, NEW S \in SUBSET (1 .. n), NEW count \in Int
  PROVE  LET first == {i \in S : Before(i, S) < count}
         IN  /\ count <= 0 => first = {}
             /\ 0 <= count /\ count <= Cardinality(S) => Cardinality(first) = count
             /\ Cardinality(S) <= count => first = S
<1> DEFINE first == {i \in S : Before(i, S) < count}
<1>1. IsFiniteSet(S) /\ Cardinality(S) \in Nat
  BY Ranks
<1>2. \A i \in S : Before(i, S) \in 0 .. Cardinality(S) - 1
  BY Ranks
<1>3. \A i, j \in S : Before(i, S) = Before(j, S) => i = j
  BY Ranks
<1>4. \A m \in 0 .. Cardinality(S) - 1 : \E i \in S : Before(i, S) = m
  BY Ranks
<1>5. \A i \in S : Before(i, S) \in Nat /\ Before(i, S) < Cardinality(S)
  BY <1>1, <1>2
<1>6. ASSUME 0 <= count, count <= Cardinality(S) PROVE Cardinality(first) = count
  <2> DEFINE T == 0 .. count - 1
             f == [i \in first |-> Before(i, S)]
  <2>1. IsFiniteSet(T) /\ Cardinality(T) = count
    <3>1. count - 1 \in Int /\ (0 > count - 1 <=> count = 0) /\ (count - 1) - 0 + 1 = count
      BY <1>6
    <3> QED BY <3>1, FS_Interval
  <2>2. \A i \in first : i \in S /\ Before(i, S) \in T
    BY <1>5
  <2>3. f \in Injection(first, T)
    <3>1. f \in [first -> T]
      BY <2>2
    <3>2. \A i, j \in first : f[i] = f[j] => i = j
      BY <1>3, <2>2
    <3> QED BY <3>1, <3>2 DEF Injection, IsInjective
  <2>4. f \in Surjection(first, T)
    <3>1. f \in [first -> T]
      BY <2>2
    <3>2. ASSUME NEW m \in T PROVE \E i \in first : f[i] = m
      <4>1. m \in 0 .. Cardinality(S) - 1 /\ m < count
        BY <1>1, <1>6
      <4>2. PICK i \in S : Before(i, S) = m
        BY <1>4, <4>1
      <4> QED BY <4>1, <4>2
    <3> QED BY <3>1, <3>2 DEF Surjection
  <2> QED BY <2>1, <2>3, <2>4, FS_Injection
<1>7. ASSUME count <= 0 PROVE first = {}
  <2>1. \A i \in S : ~(Before(i, S) < count)
    BY <1>5, <1>7
  <2> QED BY <2>1
<1>8. ASSUME Cardinality(S) <= count PROVE first = S
  <2>1. \A i \in S : Before(i, S) < count
    BY <1>1, <1>5, <1>8
  <2> QED BY <2>1
<1> QED BY <1>6, <1>7, <1>8

\* Nobody is twice in the line, and those in it are the ones held.
Distinct(line) == \A i, j \in DOMAIN line : line[i] = line[j] => i = j

LEMMA WithoutLine ==
  ASSUME NEW line \in Seq(Ids), Distinct(line), NEW gone
  PROVE  /\ Without(line, gone) \in Seq(Ids) /\ Distinct(Without(line, gone))
         /\ ToSet(Without(line, gone)) = ToSet(line) \ gone
<1> DEFINE stay == {i \in DOMAIN line : line[i] \notin gone}
           count == Cardinality(stay)
           at(m) == CHOOSE i \in stay : Before(i, stay) = m - 1
           rest == [m \in 1 .. count |-> line[at(m)]]
<1>1. Without(line, gone) = rest
  BY DEF Without
<1>2. Len(line) \in Nat /\ DOMAIN line = 1 .. Len(line)
  BY LenProperties
<1>3. /\ count \in Nat
      /\ \A i \in stay : Before(i, stay) \in 0 .. count - 1
      /\ \A i, j \in stay : Before(i, stay) = Before(j, stay) => i = j
      /\ \A m \in 0 .. count - 1 : \E i \in stay : Before(i, stay) = m
  <2>1. stay \in SUBSET (1 .. Len(line))
    BY <1>2
  <2> HIDE DEF stay
  <2> QED BY <1>2, <2>1, Ranks
<1>4. \A m \in 1 .. count : at(m) \in stay /\ Before(at(m), stay) = m - 1
  <2> SUFFICES ASSUME NEW m \in 1 .. count PROVE at(m) \in stay /\ Before(at(m), stay) = m - 1
    OBVIOUS
  <2>1. m - 1 \in 0 .. count - 1
    BY <1>3
  <2>2. \E i \in stay : Before(i, stay) = m - 1
    BY <1>3, <2>1
  <2> QED BY <2>2
<1>5. \A i \in stay : \E m \in 1 .. count : at(m) = i
  <2> SUFFICES ASSUME NEW i \in stay PROVE \E m \in 1 .. count : at(m) = i
    OBVIOUS
  <2>1. PICK m \in 1 .. count : Before(i, stay) = m - 1
    <3>1. Before(i, stay) + 1 \in 1 .. count /\ Before(i, stay) = (Before(i, stay) + 1) - 1
      BY <1>3
    <3> QED BY <3>1
  <2>2. at(m) \in stay /\ Before(at(m), stay) = Before(i, stay)
    BY <1>4, <2>1
  <2> QED BY <1>3, <2>2
<1>6. \A l, m \in 1 .. count : at(l) = at(m) => l = m
  <2> SUFFICES ASSUME NEW l \in 1 .. count, NEW m \in 1 .. count, at(l) = at(m) PROVE l = m
    OBVIOUS
  <2>1. l - 1 = m - 1
    BY <1>4
  <2> QED BY <1>3, <2>1
<1>7. \A i \in stay : i \in DOMAIN line /\ line[i] \in Ids /\ line[i] \notin gone
  BY ElementOfSeq, <1>2
<1>8. rest \in Seq(Ids) /\ DOMAIN rest = 1 .. count
  <2>1. rest \in [1 .. count -> Ids]
    BY <1>4, <1>7
  <2>2. count \in Nat
    BY <1>3
  <2> HIDE DEF rest, count
  <2> QED BY <2>1, <2>2
<1>9. Distinct(rest)
  BY <1>4, <1>6, <1>7 DEF Distinct
<1>10. ToSet(rest) = ToSet(line) \ gone
  <2>1. \A x \in ToSet(rest) : x \in ToSet(line) \ gone
    BY <1>4, <1>7 DEF ToSet
  <2>2. ASSUME NEW x \in ToSet(line) \ gone PROVE x \in ToSet(rest)
    <3>1. PICK i \in stay : x = line[i]
      BY DEF ToSet
    <3>2. PICK m \in 1 .. count : at(m) = i
      BY <1>5
    <3>3. rest[m] = x
      BY <3>1, <3>2
    <3> QED BY <3>3 DEF ToSet
  <2> QED BY <2>1, <2>2
<1> QED BY <1>1, <1>8, <1>9, <1>10
LEMMA SeatsOfDistinct ==
  ASSUME NEW line \in Seq(Ids), Distinct(line), NEW places \in SUBSET DOMAIN line
  PROVE  LET seated == {line[i] : i \in places}
         IN  IsFiniteSet(seated) /\ Cardinality(seated) = Cardinality(places)
<1> DEFINE seated == {line[i] : i \in places}
           f == [i \in places |-> line[i]]
<1>1. IsFiniteSet(places)
  <2>1. DOMAIN line = 1 .. Len(line) /\ Len(line) \in Nat
    BY LenProperties
  <2>2. IsFiniteSet(1 .. Len(line))
    BY <2>1, FS_Interval
  <2> QED BY <2>1, <2>2, FS_Subset
<1>2. f \in Injection(places, seated)
  BY DEF Injection, IsInjective, Distinct
<1>3. f \in Surjection(places, seated)
  BY DEF Surjection
<1>4. IsFiniteSet(seated)
  BY <1>1, <1>3, FS_Surjection
<1> QED BY <1>2, <1>3, <1>4, FS_Injection

------------------------------------------------------------------------------
(* What the observer was told *)

\* The line holds every retained identity once.
Lined == order \in Seq(Ids) /\ Distinct(order) /\ ToSet(order) = Retained

\* An attempt has settled when its goroutine has ended, and is no longer merely
\* admitted when its executor runs.
Goroutines ==
  \A a \in Attempts : /\ attempts[a].place = "ended" <=> Terminal(a)
                      /\ attempts[a].place = "executing" => attempts[a].state # "admitted"

\* The last notification about a retained identity is the state of the attempt
\* that holds it; about another one it is of an end, or there was none.
Told ==
  /\ notified \in [Ids -> [state : {"none"} \cup Active \cup Settled, times : Nat]]
  /\ \A id \in Ids :
       /\ entries[id] = 0 => notified[id].state \in {"none"} \cup Settled
       /\ entries[id] # 0 => /\ attempts[entries[id]].id = id
                             /\ notified[id].state = attempts[entries[id]].state

Watched == Lined /\ Goroutines /\ Told

LEMMA CountsAgree == \A S : Observed!Cardinality(S) = Cardinality(S)
  BY DEF Cardinality, Observed!Cardinality

\* trimLocked keeps what Lifecycle says of retention, and the line with it.
LEMMA RetainMaps ==
  ASSUME NEW held \in [Ids -> Nat], NEW line \in Seq(Ids), Distinct(line),
         ToSet(line) = {id \in Ids : held[id] # 0}, NEW states, Retain(held, line, states),
         \A id \in Ids : held[id] # 0 => /\ notified'[id].state = states[held[id]].state
                                         /\ states[held[id]].state \in Active \cup Settled
  PROVE  /\ Observed!Retain({id \in Ids : held[id] # 0})
         /\ Lined'
         /\ \A id \in Ids : \/ entries'[id] = held[id]
                            \/ /\ entries'[id] = 0 /\ held[id] # 0
                               /\ notified'[id].state \in Settled
<1> DEFINE H == {id \in Ids : held[id] # 0}
           old == {i \in DOMAIN line : states[held[line[i]]].state \in Settled}
           count == Len(line) - Limit
           first == {i \in old : Before(i, old) < count}
           gone == {line[i] : i \in first}
<1>1. gone = Overdue(held, line, states)
  BY DEF Overdue
<1>2. entries' = [id \in Ids |-> IF id \in gone THEN 0 ELSE held[id]] /\ order' = Without(line, gone)
  BY <1>1 DEF Retain, Trim
<1>3. /\ order' \in Seq(Ids) /\ Distinct(order') /\ ToSet(order') = H \ gone
  BY <1>2, WithoutLine
<1>4. \A i \in DOMAIN line : line[i] \in H
  BY DEF ToSet
<1>5. \A i \in old : states[held[line[i]]].state \in Settled /\ i \in DOMAIN line
  OBVIOUS
<1>6. gone \subseteq {id \in H : notified'[id].state \in Settled}
  BY <1>4, <1>5
<1>7. Retained' = H \ gone
  BY <1>2 DEF Retained
<1>8. Len(line) \in Nat /\ DOMAIN line = 1 .. Len(line) /\ Limit \in Nat
  BY LenProperties, OperationsAssumption
<1>9. IsFiniteSet(H) /\ Cardinality(H) = Len(line)
  <2>1. H = {line[i] : i \in DOMAIN line}
    BY DEF ToSet
  <2>2. Cardinality(DOMAIN line) = Len(line)
    <3>1. Cardinality(1 .. Len(line)) = IF 1 > Len(line) THEN 0 ELSE Len(line) - 1 + 1
      BY <1>8, FS_Interval
    <3> QED BY <1>8, <3>1
  <2> HIDE DEF H
  <2> QED BY <2>1, <2>2, SeatsOfDistinct
<1>10. IsFiniteSet(gone) /\ Cardinality(gone) = Cardinality(first)
  <2>1. first \in SUBSET DOMAIN line
    OBVIOUS
  <2> HIDE DEF first
  <2> QED BY <2>1, SeatsOfDistinct
<1>11. Cardinality(H \ gone) = Cardinality(H) - Cardinality(gone)
  <2>1. H \cap gone = gone
    BY <1>6
  <2> HIDE DEF H, gone
  <2>2. Cardinality(H \ gone) = Cardinality(H) - Cardinality(H \cap gone)
    BY <1>9, FS_Difference
  <2> QED BY <2>1, <2>2
<1>12. /\ count <= 0 => first = {}
       /\ 0 <= count /\ count <= Cardinality(old) => Cardinality(first) = count
       /\ Cardinality(old) <= count => first = old
  <2>1. old \in SUBSET (1 .. Len(line)) /\ count \in Int
    BY <1>8
  <2> HIDE DEF old, count
  <2> QED BY <1>8, <2>1, FirstPlaces
<1>13. Cardinality(old) \in Nat /\ Cardinality(first) \in Nat /\ Cardinality(first) <= Cardinality(old)
  <2>1. old \in SUBSET (1 .. Len(line)) /\ first \in SUBSET old
    BY <1>8
  <2>2. IsFiniteSet(1 .. Len(line))
    BY <1>8, FS_Interval
  <2> HIDE DEF old, first
  <2> QED BY <2>1, <2>2, FS_Subset, FS_CardinalityType
<1>14. \/ Cardinality(H \ gone) <= Limit
       \/ \A id \in H \ gone : notified'[id].state \in Active
  <2>1. CASE count <= Cardinality(old)
    <3>1. Cardinality(first) >= count
      <4> HIDE DEF first, old
      <4>1. count \in Int
        BY <1>8
      <4>2. CASE 0 <= count
        BY <1>12, <2>1, <4>1, <4>2
      <4>3. CASE count < 0
        BY <1>13, <4>1, <4>3
      <4> QED BY <4>1, <4>2, <4>3
    <3> HIDE DEF first, H, gone
    <3> QED BY <1>8, <1>9, <1>10, <1>11, <1>13, <3>1
  <2>2. CASE Cardinality(old) <= count
    <3>1. first = old
      BY <1>12, <2>2
    <3>2. ASSUME NEW id \in H \ gone PROVE notified'[id].state \in Active
      <4>1. PICK i \in DOMAIN line : id = line[i]
        BY <3>2 DEF ToSet
      <4>2. i \notin old
        BY <3>1, <3>2, <4>1
      <4> QED BY <3>2, <4>1, <4>2
    <3> QED BY <3>2
  <2>3. count \in Int
    BY <1>8
  <2> HIDE DEF old, count
  <2> QED BY <1>13, <2>1, <2>2, <2>3
<1>15. gone # {} => Cardinality(H) - Cardinality(gone) >= Limit
  <2> SUFFICES ASSUME gone # {} PROVE Cardinality(H) - Cardinality(gone) >= Limit
    OBVIOUS
  <2>1. first # {}
    OBVIOUS
  <2>2. count > 0 /\ Cardinality(first) <= count
    <3> HIDE DEF first, old
    <3>1. count \in Int
      BY <1>8
    <3>2. ~(count <= 0)
      BY <1>12, <2>1
    <3> QED BY <1>12, <1>13, <3>1, <3>2
  <2> HIDE DEF first, H, gone
  <2> QED BY <1>8, <1>9, <1>10, <1>13, <2>2
<1>16. Observed!Retain(H)
  <2>1. gone \in SUBSET {id \in H : notified'[id].state \in Settled}
    BY <1>6
  <2>2. /\ Retained' = H \ gone
        /\ Cardinality(Retained') <= Limit \/ \A id \in Retained' : notified'[id].state \in Active
        /\ gone # {} => Cardinality(H) - Cardinality(gone) >= Limit
    <3> HIDE DEF H, gone
    <3> QED BY <1>7, <1>14, <1>15
  <2> HIDE DEF H, gone
  <2> QED BY <2>1, <2>2, CountsAgree DEF Observed!Retain
<1>17. Lined'
  BY <1>3, <1>7 DEF Lined
<1>18. \A id \in Ids : \/ entries'[id] = held[id]
                       \/ entries'[id] = 0 /\ held[id] # 0 /\ notified'[id].state \in Settled
  BY <1>2, <1>6
<1> QED BY <1>16, <1>17, <1>18
------------------------------------------------------------------------------
(* What each step tells the observer *)

\* What the steps below take from the invariants before anything else.
LEMMA Shapes ==
  ASSUME Inv, Watched
  PROVE  /\ attempts \in Seq(Attempt) /\ Len(attempts) \in Nat /\ DOMAIN attempts = Attempts
         /\ \A a \in Attempts : attempts[a] \in Attempt
         /\ entries \in [Ids -> 0 .. Len(attempts)]
         /\ \A id \in Ids : entries[id] # 0 => entries[id] \in Attempts
         /\ order \in Seq(Ids) /\ Distinct(order) /\ ToSet(order) = Retained
<1>1. attempts \in Seq(Attempt) /\ Len(attempts) \in Nat /\ DOMAIN attempts = Attempts
  BY LenProperties DEF Inv, Typed, Attempts
<1>2. \A a \in Attempts : attempts[a] \in Attempt
  BY <1>1, ElementOfSeq DEF Attempts
<1>3. entries \in [Ids -> 0 .. Len(attempts)]
  BY DEF Inv, Typed
<1>4. \A id \in Ids : entries[id] # 0 => entries[id] \in Attempts
  BY <1>1, <1>3 DEF Attempts
<1> QED BY <1>1, <1>2, <1>3, <1>4 DEF Watched, Lined

\* An attempt that has not settled is the last its observer heard of.
LEMMA ToldOfActive ==
  ASSUME Inv, Watched, NEW a \in Attempts, ~Terminal(a)
  PROVE  /\ attempts[a].id \in Ids /\ entries[attempts[a].id] = a /\ a # 0
         /\ notified[attempts[a].id].state = attempts[a].state
         /\ attempts[a].state \in Active
<1>1. attempts[a] \in Attempt /\ Len(attempts) \in Nat
  BY Shapes
<1>2. attempts[a].id \in Ids /\ attempts[a].state \in Active \cup Settled /\ a # 0
  BY <1>1 DEF Attempt, Attempts
<1>3. entries[attempts[a].id] = a
  BY DEF Inv, OneActiveAttempt
<1> QED BY <1>2, <1>3 DEF Watched, Told, Terminal

\* Steps the observer hears nothing of.
LEMMA Unheard ==
  ASSUME Inv, Watched, UNCHANGED <<entries, order, notified>>, Goroutines',
         \A a \in Attempts : attempts'[a].id = attempts[a].id /\ attempts'[a].state = attempts[a].state
  PROVE  Watched' /\ UNCHANGED <<notified, Retained>>
<1>1. \A id \in Ids : entries[id] # 0 => entries[id] \in Attempts
  BY Shapes
<1>2. Told'
  BY <1>1 DEF Watched, Told
<1>3. Lined' /\ Retained' = Retained
  BY DEF Watched, Lined, Retained
<1> QED BY <1>2, <1>3 DEF Watched

\* An active attempt is in another active state, or says again which it is in.
LEMMA HeardChange ==
  ASSUME Inv, Watched, NEW a \in Attempts, ~Terminal(a), NEW state \in Active \ {"admitted"},
         Moves(a), attempts'[a].state = state, Notify(attempts[a].id, state),
         UNCHANGED <<entries, order>>, Goroutines'
  PROVE  Watched' /\ Observed!Change(attempts[a].id, state)
<1> DEFINE me == attempts[a].id
<1>1. me \in Ids /\ entries[me] = a /\ a # 0 /\ notified[me].state \in Active
  BY ToldOfActive
<1>2. \A id \in Ids : entries[id] # 0 => entries[id] \in Attempts
  BY Shapes
<1>3. notified' = [notified EXCEPT ![me] = [state |-> state, times |-> @.times + 1]]
  BY DEF Notify
<1>4. notified \in [Ids -> [state : {"none"} \cup Active \cup Settled, times : Nat]]
  BY DEF Watched, Told
<1>5. /\ notified' \in [Ids -> [state : {"none"} \cup Active \cup Settled, times : Nat]]
      /\ \A id \in Ids \ {me} : notified'[id] = notified[id]
      /\ notified'[me].state = state
  <2> HIDE DEF me
  <2> QED BY <1>1, <1>3, <1>4
<1>6. attempts'[a].id = me /\ \A b \in Attempts \ {a} : attempts'[b] = attempts[b]
  BY DEF Moves
<1>7. Told'
  <2> SUFFICES ASSUME NEW id \in Ids
               PROVE  /\ entries[id] = 0 => notified'[id].state \in {"none"} \cup Settled
                      /\ entries[id] # 0 => /\ attempts'[entries[id]].id = id
                                            /\ notified'[id].state = attempts'[entries[id]].state
    BY <1>5 DEF Told
  <2>1. CASE id = me
    BY <1>1, <1>5, <1>6, <2>1
  <2>2. CASE id # me
    <3>1. entries[id] # 0 => entries[id] \in Attempts \ {a} /\ attempts[entries[id]].id = id
      BY <1>2, <2>2 DEF Watched, Told
    <3> QED BY <1>5, <1>6, <2>2, <3>1 DEF Watched, Told
  <2> QED BY <2>1, <2>2
<1>8. Lined' /\ Retained' = Retained
  BY DEF Watched, Lined, Retained
<1> QED BY <1>1, <1>3, <1>7, <1>8 DEF Watched, Observed!Change, Observed!Notify

\* A notification about the identity of a new or of a settled attempt, and what
\* is retained from there.
LEMMA HeardRetain ==
  ASSUME Inv, Watched, NEW me \in Ids, NEW state \in Active \cup Settled, Notify(me, state),
         NEW held \in [Ids -> Nat], NEW line \in Seq(Ids), Distinct(line),
         ToSet(line) = {id \in Ids : held[id] # 0}, Retain(held, line, attempts'),
         held[me] # 0 => attempts'[held[me]].id = me /\ attempts'[held[me]].state = state,
         held[me] = 0 => state \in Settled,
         \A id \in Ids \ {me} :
           /\ held[id] = entries[id]
           /\ held[id] # 0 => attempts'[held[id]] = attempts[held[id]]
  PROVE  /\ Lined' /\ Told'
         /\ Observed!Notify(me, state) /\ Observed!Retain({id \in Ids : held[id] # 0})
<1>1. notified' = [notified EXCEPT ![me] = [state |-> state, times |-> @.times + 1]]
  BY DEF Notify
<1>2. notified \in [Ids -> [state : {"none"} \cup Active \cup Settled, times : Nat]]
  BY DEF Watched, Told
<1>3. /\ notified' \in [Ids -> [state : {"none"} \cup Active \cup Settled, times : Nat]]
      /\ \A id \in Ids \ {me} : notified'[id] = notified[id]
      /\ notified'[me].state = state
  BY <1>1, <1>2
<1>4. \A id \in Ids : held[id] # 0 => attempts'[held[id]].id = id
                                      /\ notified'[id].state = attempts'[held[id]].state
                                      /\ attempts'[held[id]].state \in Active \cup Settled
  <2> SUFFICES ASSUME NEW id \in Ids, held[id] # 0
               PROVE  /\ attempts'[held[id]].id = id
                      /\ notified'[id].state = attempts'[held[id]].state
                      /\ attempts'[held[id]].state \in Active \cup Settled
    OBVIOUS
  <2>1. CASE id = me
    BY <1>3, <2>1
  <2>2. CASE id # me
    <3>1. held[id] = entries[id] /\ attempts'[held[id]] = attempts[held[id]] /\ held[id] \in Attempts
      BY <2>2, Shapes
    <3>2. attempts[held[id]] \in Attempt
      BY <3>1, Shapes
    <3>3. attempts[held[id]].id = id /\ notified[id].state = attempts[held[id]].state
      BY <3>1 DEF Watched, Told
    <3> QED BY <1>3, <2>2, <3>1, <3>2, <3>3 DEF Attempt
  <2> QED BY <2>1, <2>2
<1>5. \A id \in Ids : held[id] = 0 => notified'[id].state \in {"none"} \cup Settled
  <2> SUFFICES ASSUME NEW id \in Ids, held[id] = 0
               PROVE  notified'[id].state \in {"none"} \cup Settled
    OBVIOUS
  <2>1. CASE id = me
    BY <1>3, <2>1
  <2>2. CASE id # me
    BY <1>3, <2>2 DEF Watched, Told
  <2> QED BY <2>1, <2>2
<1>6. /\ Observed!Retain({id \in Ids : held[id] # 0})
      /\ Lined'
      /\ \A id \in Ids : \/ entries'[id] = held[id]
                         \/ /\ entries'[id] = 0 /\ held[id] # 0
                            /\ notified'[id].state \in Settled
  <2>1. \A id \in Ids : held[id] # 0 => notified'[id].state = attempts'[held[id]].state
                                        /\ attempts'[held[id]].state \in Active \cup Settled
    BY <1>4
  <2> QED BY <2>1, RetainMaps
<1>7. Told'
  <2> SUFFICES ASSUME NEW id \in Ids
               PROVE  /\ entries'[id] = 0 => notified'[id].state \in {"none"} \cup Settled
                      /\ entries'[id] # 0 => /\ attempts'[entries'[id]].id = id
                                             /\ notified'[id].state = attempts'[entries'[id]].state
    BY <1>3 DEF Told
  <2>1. CASE entries'[id] = held[id]
    BY <1>4, <1>5, <2>1
  <2>2. CASE entries'[id] = 0 /\ held[id] # 0 /\ notified'[id].state \in Settled
    BY <2>2
  <2> QED BY <1>6, <2>1, <2>2
<1>8. Observed!Notify(me, state)
  BY <1>1 DEF Observed!Notify
<1> QED BY <1>6, <1>7, <1>8
\* When one attempt moves, only it has to be looked at.
LEMMA GoroutineMoves ==
  ASSUME Watched, NEW a \in Attempts, Moves(a),
         attempts'[a].place = "ended" <=> Terminal(a)',
         attempts'[a].place = "executing" => attempts'[a].state # "admitted"
  PROVE  Goroutines'
<1>1. Attempts' = Attempts
  BY DEF Moves, Attempts
<1>2. \A b \in Attempts \ {a} : attempts'[b] = attempts[b]
  BY DEF Moves
<1> QED BY <1>1, <1>2 DEF Watched, Goroutines, Terminal

LEMMA SetStateHeard ==
  ASSUME Inv, Watched, NEW a \in Attempts, AttemptStep(a),
         NEW state \in Active \ {"admitted"}, NEW place \in Places, SetState(a, state, place),
         Terminal(a) => place = attempts[a].place, ~Terminal(a) => place # "ended"
  PROVE  Watched' /\ [Observed!LifecycleNext]_<<notified, Retained>>
<1>1. Moves(a) /\ attempts[a].id \in Ids
  BY AttemptSteps, Shapes DEF Inv, Attempt
<1>2. attempts[a] \in Attempt /\ DOMAIN attempts = Attempts
  BY Shapes
<1>3. attempts' = [attempts EXCEPT ![a].place = place,
                                   ![a].state = IF Terminal(a) THEN @ ELSE state]
  BY DEF SetState
<1>4. /\ attempts'[a].place = place
      /\ attempts'[a].state = IF Terminal(a) THEN attempts[a].state ELSE state
  BY <1>2, <1>3 DEF Attempt
<1>5. UNCHANGED <<entries, order>>
  BY DEF SetState
<1>6. Goroutines'
  <2>1. attempts[a].place = "ended" <=> Terminal(a)
    BY DEF Watched, Goroutines
  <2>2. CASE Terminal(a)
    BY <1>1, <1>4, <2>1, <2>2, GoroutineMoves DEF Terminal, Settled
  <2>3. CASE ~Terminal(a)
    BY <1>1, <1>4, <2>3, GoroutineMoves DEF Terminal, Settled, Active
  <2> QED BY <2>2, <2>3
<1>7. CASE Terminal(a)
  <2>1. UNCHANGED notified
    BY <1>7 DEF SetState
  <2>2. \A b \in Attempts : attempts'[b].id = attempts[b].id /\ attempts'[b].state = attempts[b].state
    BY <1>1, <1>4, <1>7 DEF Moves
  <2> QED BY <1>5, <1>6, <2>1, <2>2, Unheard
<1>8. CASE ~Terminal(a)
  <2>1. Notify(attempts[a].id, state) /\ attempts'[a].state = state
    BY <1>4, <1>8 DEF SetState
  <2>2. Watched' /\ Observed!Change(attempts[a].id, state)
    BY <1>1, <1>5, <1>6, <1>8, <2>1, HeardChange
  <2> QED BY <1>1, <2>2 DEF Observed!LifecycleNext
<1> QED BY <1>7, <1>8

LEMMA ReportHeard ==
  ASSUME Inv, Watched, NEW a \in Attempts, Report(a)
  PROVE  Watched' /\ [Observed!LifecycleNext]_<<notified, Retained>>
<1>1. Moves(a) /\ attempts[a].id \in Ids
  BY AttemptSteps, Shapes DEF Inv, Attempt, AttemptStep
<1>2. attempts[a] \in Attempt /\ DOMAIN attempts = Attempts
  BY Shapes
<1>3. attempts'[a].place = attempts[a].place /\ attempts'[a].state = attempts[a].state
  <2>1. attempts' = [attempts EXCEPT ![a].reports = @ + 1]
    BY DEF Report
  <2> QED BY <1>2, <2>1 DEF Attempt
<1>4. ~Terminal(a) /\ attempts[a].state \in Active \ {"admitted"}
  <2>1. ~Terminal(a) /\ attempts[a].place = "executing"
    BY DEF Report, Watched, Goroutines
  <2> QED BY <1>2, <2>1 DEF Watched, Goroutines, Attempt, Terminal
<1>5. Goroutines'
  BY <1>1, <1>3, GoroutineMoves DEF Watched, Goroutines, Terminal
<1>6. Watched' /\ Observed!Change(attempts[a].id, attempts[a].state)
  BY <1>1, <1>3, <1>4, <1>5, HeardChange DEF Report
<1> QED BY <1>1, <1>4, <1>6 DEF Observed!LifecycleNext

LEMMA SettleHeard ==
  ASSUME Inv, Watched, NEW a \in Attempts, Settle(a)
  PROVE  Watched' /\ [Observed!LifecycleNext]_<<notified, Retained>>
<1> DEFINE me == attempts[a].id
<1>1. Moves(a)
  BY AttemptSteps DEF Inv, AttemptStep
<1>2. attempts[a] \in Attempt /\ DOMAIN attempts = Attempts
  BY Shapes
<1>3. PICK returned \in Returns :
        /\ attempts' = [attempts EXCEPT ![a].state = Outcome(returned, attempts[a].ctx),
                                        ![a].ctx = "cancelled", ![a].place = "ended"]
        /\ Notify(me, Outcome(returned, attempts[a].ctx))
  BY DEF Settle
<1>4. PICK state \in Settled : state = Outcome(returned, attempts[a].ctx)
  BY <1>2, OutcomeType DEF Attempt
<1>5. attempts'[a].state = state /\ attempts'[a].place = "ended" /\ attempts'[a].id = me
  BY <1>2, <1>3, <1>4 DEF Attempt
<1>6. ~Terminal(a)
  BY DEF Settle, Watched, Goroutines
<1>7. me \in Ids /\ entries[me] = a /\ a # 0 /\ notified[me].state \in Active
  BY <1>6, ToldOfActive
<1>8. Goroutines'
  BY <1>1, <1>5, GoroutineMoves DEF Terminal
<1>9. /\ entries \in [Ids -> Nat] /\ Retain(entries, order, attempts')
      /\ order \in Seq(Ids) /\ Distinct(order) /\ ToSet(order) = {id \in Ids : entries[id] # 0}
  BY Shapes DEF Settle, Retained
<1>10. \A id \in Ids \ {me} : entries[id] # 0 => attempts'[entries[id]] = attempts[entries[id]]
  <2> SUFFICES ASSUME NEW id \in Ids \ {me}, entries[id] # 0
               PROVE  attempts'[entries[id]] = attempts[entries[id]]
    OBVIOUS
  <2>1. entries[id] \in Attempts /\ attempts[entries[id]].id = id
    BY Shapes DEF Watched, Told
  <2> QED BY <1>1, <2>1 DEF Moves
<1> HIDE DEF me
<1>11. /\ Lined' /\ Told'
       /\ Observed!Notify(me, state) /\ Observed!Retain({id \in Ids : entries[id] # 0})
  <2>1. state \in Active \cup Settled /\ Notify(me, state)
    BY <1>3, <1>4
  <2>2. /\ entries[me] # 0 => attempts'[entries[me]].id = me /\ attempts'[entries[me]].state = state
        /\ entries[me] = 0 => state \in Settled
    BY <1>5, <1>7
  <2>3. \A id \in Ids \ {me} :
          /\ entries[id] = entries[id]
          /\ entries[id] # 0 => attempts'[entries[id]] = attempts[entries[id]]
    BY <1>10
  <2> QED BY <1>7, <1>9, <2>1, <2>2, <2>3, HeardRetain
<1>12. Observed!End(me, state)
  BY <1>7, <1>11 DEF Observed!End, Retained
<1> QED BY <1>4, <1>7, <1>8, <1>11, <1>12 DEF Watched, Observed!LifecycleNext

LEMMA AttemptHeard ==
  ASSUME Inv, Watched, NEW a \in Attempts, AttemptStep(a)
  PROVE  Watched' /\ [Observed!LifecycleNext]_<<notified, Retained>>
<1>1. Moves(a) /\ attempts[a] \in Attempt /\ DOMAIN attempts = Attempts
  BY AttemptSteps, Shapes DEF Inv
<1>2. attempts[a].place \in Places /\ (attempts[a].place = "ended" <=> Terminal(a))
  BY <1>1 DEF Attempt, Watched, Goroutines
<1>3. ASSUME attempts'[a].state = attempts[a].state,
             \/ attempts'[a].place = attempts[a].place
             \/ attempts[a].place = "starting" /\ attempts'[a].place = "launched",
             UNCHANGED <<entries, order, notified>>
      PROVE  Watched' /\ [Observed!LifecycleNext]_<<notified, Retained>>
  <2>1. Goroutines'
    BY <1>1, <1>2, <1>3, GoroutineMoves DEF Terminal, Watched, Goroutines
  <2>2. \A b \in Attempts : attempts'[b].id = attempts[b].id /\ attempts'[b].state = attempts[b].state
    BY <1>1, <1>3 DEF Moves
  <2> QED BY <1>3, <2>1, <2>2, Unheard
<1>4. CASE Launch(a)
  <2>1. attempts'[a].state = attempts[a].state /\ attempts'[a].place = "launched"
    BY <1>1, <1>4 DEF Launch, Attempt
  <2> QED BY <1>3, <1>4, <2>1 DEF Launch
<1>5. CASE EndContext(a)
  <2>1. attempts'[a].state = attempts[a].state /\ attempts'[a].place = attempts[a].place
    BY <1>1, <1>5 DEF EndContext, Attempt
  <2> QED BY <1>3, <1>5, <2>1 DEF EndContext
<1>6. CASE Prepare(a)
  <2>1. SetState(a, "preparing", "prepared") /\ ~Terminal(a)
    BY <1>2, <1>6 DEF Prepare
  <2> QED BY <2>1, SetStateHeard DEF Active, Places
<1>7. CASE Execute(a)
  <2>1. SetState(a, "running", "executing") /\ ~Terminal(a)
    BY <1>2, <1>7 DEF Execute
  <2> QED BY <2>1, SetStateHeard DEF Active, Places
<1>8. CASE Publishing(a)
  <2>1. SetState(a, "publishing", attempts[a].place)
    BY <1>8 DEF Publishing
  <2> QED BY <1>2, <2>1, SetStateHeard DEF Active
<1>9. CASE Report(a)
  BY <1>9, ReportHeard
<1>10. CASE Settle(a)
  BY <1>10, SettleHeard
<1> QED BY <1>4, <1>5, <1>6, <1>7, <1>8, <1>9, <1>10 DEF AttemptStep

\* A new attempt of an identity nobody runs.
LEMMA AdmitHeard ==
  ASSUME Inv, Watched, NEW me \in Ids, Admit(me), entries[me] # 0 => Terminal(entries[me])
  PROVE  Watched' /\ [Observed!LifecycleNext]_<<notified, Retained>>
<1>0. PICK n : n = Len(attempts) + 1
  OBVIOUS
<1> DEFINE fresh == [id |-> me, state |-> "admitted", ctx |-> "live", place |-> "starting", reports |-> 0]
           held == [entries EXCEPT ![me] = n]
           line == IF me \in Retained THEN order ELSE Append(order, me)
<1>1. /\ attempts' = Append(attempts, fresh) /\ Notify(me, "admitted")
      /\ Retain(held, line, attempts')
  BY <1>0 DEF Admit
<1>2. /\ attempts \in Seq(Attempt) /\ Len(attempts) \in Nat /\ DOMAIN attempts = Attempts
      /\ entries \in [Ids -> 0 .. Len(attempts)]
      /\ \A id \in Ids : entries[id] # 0 => entries[id] \in Attempts
      /\ order \in Seq(Ids) /\ Distinct(order) /\ ToSet(order) = Retained
  BY Shapes
<1>3. fresh \in Attempt
  BY DEF Attempt, Active, Places
<1>4. /\ Len(attempts') = n /\ attempts'[n] = fresh
      /\ \A b \in Attempts : attempts'[b] = attempts[b]
  <2> HIDE DEF fresh
  <2> QED BY <1>0, <1>1, <1>2, <1>3, AppendProperties DEF Attempts
<1>5. Attempts' = Attempts \cup {n} /\ n \in Nat /\ n # 0
  BY <1>0, <1>2, <1>4 DEF Attempts
<1>6. Goroutines'
  <2>1. \A b \in Attempts : /\ attempts'[b].place = "ended" <=> Terminal(b)'
                            /\ attempts'[b].place = "executing" => attempts'[b].state # "admitted"
    BY <1>4 DEF Watched, Goroutines, Terminal
  <2>2. attempts'[n].place = "starting" /\ ~Terminal(n)'
    BY <1>4 DEF Terminal, Settled
  <2> QED BY <1>5, <2>1, <2>2 DEF Goroutines
<1>7. held \in [Ids -> Nat] /\ held[me] = n /\ \A id \in Ids \ {me} : held[id] = entries[id]
  BY <1>2, <1>5
<1>8. {id \in Ids : held[id] # 0} = Retained \cup {me}
  BY <1>5, <1>7 DEF Retained
<1>9. line \in Seq(Ids) /\ Distinct(line) /\ ToSet(line) = Retained \cup {me}
  <2>1. CASE me \in Retained
    BY <1>2, <2>1
  <2>2. CASE me \notin Retained
    <3> DEFINE longer == Append(order, me)
    <3>1. /\ longer \in Seq(Ids) /\ Len(longer) = Len(order) + 1 /\ longer[Len(order) + 1] = me
          /\ \A i \in 1 .. Len(order) : longer[i] = order[i]
      BY <1>2, AppendProperties
    <3>2. /\ Len(order) \in Nat /\ DOMAIN order = 1 .. Len(order)
          /\ DOMAIN longer = DOMAIN order \cup {Len(order) + 1}
      BY <1>2, <3>1, LenProperties
    <3> HIDE DEF longer
    <3>3. \A i \in DOMAIN order : longer[i] = order[i] /\ order[i] # me
      BY <1>2, <2>2, <3>1, <3>2 DEF ToSet
    <3>4. Distinct(longer)
      BY <1>2, <3>1, <3>2, <3>3 DEF Distinct
    <3>5. ToSet(longer) = ToSet(order) \cup {me}
      BY <3>1, <3>2, <3>3 DEF ToSet
    <3>6. line = longer
      BY <2>2 DEF longer
    <3> QED BY <1>2, <3>1, <3>4, <3>5, <3>6
  <2> QED BY <2>1, <2>2
<1>10. notified[me].state \in {"none"} \cup Settled
  BY DEF Watched, Told, Terminal
<1>11. \A id \in Ids \ {me} : held[id] # 0 => attempts'[held[id]] = attempts[held[id]]
  BY <1>2, <1>4, <1>7
<1>12. attempts'[held[me]].id = me /\ attempts'[held[me]].state = "admitted"
  BY <1>4, <1>7
<1> HIDE DEF held, line, fresh
<1>13. /\ Lined' /\ Told'
       /\ Observed!Notify(me, "admitted") /\ Observed!Retain({id \in Ids : held[id] # 0})
  <2>1. held[me] # 0 /\ "admitted" \in Active \cup Settled
    BY <1>5, <1>7 DEF Active
  <2>2. /\ held[me] # 0 => attempts'[held[me]].id = me /\ attempts'[held[me]].state = "admitted"
        /\ held[me] = 0 => "admitted" \in Settled
    BY <1>12, <2>1
  <2>3. \A id \in Ids \ {me} :
          /\ held[id] = entries[id]
          /\ held[id] # 0 => attempts'[held[id]] = attempts[held[id]]
    BY <1>7, <1>11
  <2>4. held \in [Ids -> Nat] /\ ToSet(line) = {id \in Ids : held[id] # 0}
    BY <1>7, <1>8, <1>9
  <2> QED BY <1>1, <1>9, <2>1, <2>2, <2>3, <2>4, HeardRetain
<1>14. Observed!Admit(me)
  BY <1>8, <1>10, <1>13 DEF Observed!Admit
<1> QED BY <1>6, <1>13, <1>14 DEF Watched, Observed!LifecycleNext

\* The two descriptions agree on what they both change.
LEMMA StepHeard ==
  ASSUME Inv, Watched, [OperationsNext]_operationVars
  PROVE  Watched' /\ [Observed!LifecycleNext]_<<notified, Retained>>
<1>1. ASSUME NEW id \in Ids, Submit(id)
      PROVE  Watched' /\ [Observed!LifecycleNext]_<<notified, Retained>>
  <2>1. entries[id] # 0 => FALSE
    BY <1>1, Shapes DEF Submit, Watched, Told
  <2> QED BY <1>1, <2>1, AdmitHeard DEF Submit
<1>2. ASSUME NEW a \in Attempts, AttemptStep(a)
      PROVE  Watched' /\ [Observed!LifecycleNext]_<<notified, Retained>>
  BY <1>2, AttemptHeard
<1>3. ASSUME UNCHANGED <<attempts, entries, order, notified>>
      PROVE  Watched' /\ [Observed!LifecycleNext]_<<notified, Retained>>
  <2>1. Goroutines'
    BY <1>3 DEF Watched, Goroutines, Attempts, Terminal
  <2> QED BY <1>3, <2>1, Unheard
<1>4. ASSUME NEW c \in Callers, CallCancel(c)
      PROVE  Watched' /\ [Observed!LifecycleNext]_<<notified, Retained>>
  <2>1. PICK a \in Attempts : a = caller[c]
    BY <1>4, LenProperties DEF Inv, Typed, CallCancel, Attempts
  <2>2. PICK b \in Attempts : Moves(b)
    BY <1>4, CallCancelMoves DEF Inv
  <2>3. attempts[a] \in Attempt /\ DOMAIN attempts = Attempts
    BY Shapes
  <2>4. attempts' = [attempts EXCEPT ![a].ctx = "cancelled"]
    BY <1>4, <2>1 DEF CallCancel
  <2>5. /\ \A d \in Attempts \ {a} : attempts'[d] = attempts[d]
        /\ attempts'[a].state = attempts[a].state /\ attempts'[a].place = attempts[a].place
        /\ attempts'[a].id = attempts[a].id
    BY <2>3, <2>4 DEF Attempt
  <2>6. Attempts' = Attempts
    BY <2>2 DEF Moves, Attempts
  <2>7. Goroutines'
    BY <2>5, <2>6 DEF Watched, Goroutines, Terminal
  <2>8. UNCHANGED <<entries, order, notified>>
    BY <1>4 DEF CallCancel
  <2> QED BY <2>5, <2>7, <2>8, Unheard
<1>5. ASSUME NEW d \in Deciders, DeciderStep(d)
      PROVE  Watched' /\ [Observed!LifecycleNext]_<<notified, Retained>>
  <2>1. CASE Resume(d)
    <3>1. decider[d].id \in Ids
      BY <2>1 DEF Resume, Inv, Typed, Deciding
    <3> QED BY <2>1, <3>1, AdmitHeard DEF Resume
  <2> QED BY <1>3, <1>5, <2>1
      DEF DeciderStep, ReadBlocked, PublishDecision, CheckGranted, RefuseResume
<1>6. CASE Close
  <2>1. /\ Len(attempts') = Len(attempts)
        /\ \A b \in Attempts : /\ attempts'[b].id = attempts[b].id
                               /\ attempts'[b].state = attempts[b].state
    BY <1>6, CloseCancels DEF Inv
  <2>2. \A b \in Attempts : attempts'[b].place = attempts[b].place
    <3> SUFFICES ASSUME NEW b \in Attempts PROVE attempts'[b].place = attempts[b].place
      OBVIOUS
    <3>1. attempts[b] \in Attempt
      BY Shapes
    <3>2. attempts'[b] \in {attempts[b], [attempts[b] EXCEPT !.ctx = "cancelled"]}
      BY <1>6 DEF Close
    <3> QED BY <3>1, <3>2 DEF Attempt
  <2>3. Goroutines'
    BY <2>1, <2>2 DEF Watched, Goroutines, Attempts, Terminal
  <2>4. UNCHANGED <<entries, order, notified>>
    BY <1>6 DEF Close
  <2> QED BY <2>1, <2>3, <2>4, Unheard
<1>7. CASE CloseReturns \/ UNCHANGED operationVars \/ \E c \in Callers : ReadCancel(c)
  BY <1>3, <1>7 DEF CloseReturns, operationVars, ReadCancel
<1> QED BY <1>1, <1>2, <1>4, <1>5, <1>6, <1>7 DEF OperationsNext

LEMMA WatchedInit == OperationsInit => Watched /\ Observed!LifecycleInit
<1> SUFFICES ASSUME OperationsInit PROVE Watched /\ Observed!LifecycleInit
  OBVIOUS
<1>1. /\ attempts = <<>> /\ order = <<>> /\ entries = [id \in Ids |-> 0]
      /\ notified = [id \in Ids |-> [state |-> "none", times |-> 0]]
  BY DEF OperationsInit
<1>2. Attempts = {} /\ Retained = {}
  BY <1>1, EmptySeq DEF Attempts, Retained
<1>3. order \in Seq(Ids) /\ DOMAIN order = {}
  BY <1>1, EmptySeq
<1>4. Lined
  BY <1>2, <1>3 DEF Lined, Distinct, ToSet
<1>5. Told
  BY <1>1 DEF Told
<1> QED BY <1>1, <1>2, <1>4, <1>5
  DEF Watched, Goroutines, Observed!LifecycleInit, Observed!Unknown

\* The manager implements what Lifecycle promises its observer, whatever is
\* cancelled, decided, reported late, evicted and closed: every notification is
\* one Lifecycle allows after the one before it, an identity is admitted again
\* only out of an end, and what is retained beyond the limit is active.
THEOREM ObserverIsToldTheTruth == OperationsSpec => ImplementsLifecycle
<1>1. OperationsInit => Inv /\ Watched /\ Observed!LifecycleInit
  BY InvInit, WatchedInit
<1>2. Inv /\ Watched /\ [OperationsNext]_operationVars
        => Inv' /\ Watched' /\ [Observed!LifecycleNext]_<<notified, Retained>>
  BY InvStep, StepHeard
<1> QED BY <1>1, <1>2, PTL DEF OperationsSpec, ImplementsLifecycle, Observed!LifecycleSpec
=============================================================================
