---------------------------- MODULE StreamsProofs ----------------------------
(* Theorems about Streams, for every set of operations, every length of the  *)
(* queue and any number of transitions, observations and connections.        *)
EXTENDS Streams, TLAPS

\* What the manager says of an operation, and the events of the stream.
Status == [state : {"none"} \cup Active \cup Settled, times : Nat]

Resync == [name |-> "resync"]
Records == [name |-> "records"]
Told(id, status) == [name |-> "operation", id |-> id, status |-> status]
Sessions(fresh) == [name |-> "sessions", fresh |-> fresh]
Serving(n) == [name |-> "serving", cursor |-> n]

Event ==
  {Resync, Records} \cup {Sessions(fresh) : fresh \in BOOLEAN}
  \cup {Serving(n) : n \in Nat} \cup {Told(id, status) : id \in Ids, status \in Status}

StreamAt == {"away", "sessions", "cursor", "activity", "list", "relay"}

Stream == [at : StreamAt, whole : BOOLEAN, cursor : Nat, read : Nat, connections : Nat]
Page == [shown : [Ids -> Status], fresh : BOOLEAN, activity : Seq(Nat), upto : Nat]

ManagerTyped ==
  /\ notified \in [Ids -> Status] /\ retained \subseteq Ids
  /\ \A id \in Ids : notified[id].state \in Active => id \in retained

\* A list without a place for two, of what is in the store ...
GoodList(l, d) ==
  /\ Len(l) <= Limit
  /\ \A i \in DOMAIN l : l[i] \in 1 .. d
  /\ \A i, j \in DOMAIN l : l[i] = l[j] => i = j

Listed(l, n) == \E i \in DOMAIN l : l[i] = n

\* ... that of the first k lacks only what newer ones crowd out ...
Crowded(l, n) == Len(l) = Limit /\ \A i \in DOMAIN l : n < l[i]

Covers(l, k) == \A n \in 1 .. k : Listed(l, n) \/ Crowded(l, n)

\* ... and has everything newer before them.
Ordered(l, k) == \A i, j \in DOMAIN l : i < j /\ l[j] <= k => l[j] < l[i]

Gapless(l, k) == Covers(l, k) /\ Ordered(l, k)

Typed ==
  /\ ManagerTyped
  /\ hubOpen \in BOOLEAN /\ token \in BOOLEAN /\ recording \in {"none", "writing", "written"}
  /\ queue \in Seq(Event) /\ Len(queue) <= Limit
  /\ computed \in {"none", "fresh", "aged"}
  /\ durable \in 0 .. MaxServings /\ cursor \in Nat
  /\ durable = IF recording = "written" THEN cursor + 1 ELSE cursor
  /\ recording = "writing" => durable < MaxServings
  /\ stream \in Stream /\ stream.connections <= MaxConnections
  /\ page \in Page /\ GoodList(page.activity, durable)

\* Where the stream has yet to send the operations, or to take a resync first.
Cleared(q) == \E i \in DOMAIN q : q[i] = Resync

Coming(s) == s.at = "away" \/ (s.at # "relay" /\ s.whole)

Placed ==
  /\ stream.at = "away" => queue = <<>>
  /\ stream.at \in {"sessions", "list"} => stream.whole

\* An operation is told for the last time as it is.
About(q, id) == {i \in DOMAIN q : q[i].name = "operation" /\ q[i].id = id}

LastTold ==
  hubOpen => \A id \in Ids : \A i \in About(queue, id) :
    (\A j \in About(queue, id) : j <= i) => queue[i].status = notified[id]

\* What is finished is shown and told as it will stay.
FinalQueue(q) ==
  \A i \in DOMAIN q : q[i].name = "operation" /\ Finished(q[i].status) => q[i].status = notified[q[i].id]

FinalPage(p) == \A id \in Ids : Finished(p.shown[id]) => p.shown[id] = notified[id]

\* What no event is about is shown as it is, or not retained and not shown as active.
Agrees(p, id) ==
  p.shown[id] = notified[id] \/ (id \notin retained /\ p.shown[id].state \notin Active)

Followed ==
  hubOpen /\ ~Coming(stream) /\ ~Cleared(queue) =>
    \A id \in Ids : About(queue, id) = {} => Agrees(page, id)

\* Serving observations are told in order ...
Servings(q) == {i \in DOMAIN q : q[i].name = "serving"}

InOrder ==
  /\ \A i \in Servings(queue) : queue[i].cursor <= cursor
  /\ \A i, j \in Servings(queue) : i <= j => queue[i].cursor <= queue[j].cursor

\* ... and, beyond what the stream has, without a gap.
Reaches(q, base, n) ==
  \A c \in Nat : base < c /\ c <= n => \E j \in Servings(q) : q[j].cursor = c

NoGap(q, base) ==
  /\ \A i \in Servings(q) : Reaches(q, base, q[i].cursor)
  /\ hubOpen => Reaches(q, base, cursor)

Complete ==
  /\ stream.at = "activity" => stream.read <= cursor
  /\ ~Cleared(queue) =>
       /\ stream.at = "activity" => NoGap(queue, stream.read)
       /\ stream.at \in {"list", "relay"} =>
            /\ NoGap(queue, stream.cursor)
            /\ page.upto = stream.cursor /\ Gapless(page.activity, page.upto)

Inv ==
  /\ Typed /\ Placed
  /\ LastTold /\ FinalQueue(queue) /\ FinalPage(page) /\ Followed
  /\ InOrder /\ Complete

------------------------------------------------------------------------------
(* Lists *)

LEMMA LesserOf ==
  ASSUME NEW a \in Nat, NEW b \in Nat
  PROVE  Min({a, b}) = IF a <= b THEN a ELSE b
<1>1. PICK m : m = IF a <= b THEN a ELSE b
  OBVIOUS
<1>2. m \in {a, b} /\ \A y \in {a, b} : m <= y
  BY <1>1
<1>3. \A x \in {a, b} : (\A y \in {a, b} : x <= y) => x = m
  BY <1>1
<1>4. Min({a, b}) = m
  BY <1>2, <1>3 DEF Min
<1> QED BY <1>1, <1>4

LEMMA GreaterOf ==
  ASSUME NEW a \in Nat, NEW b \in Nat
  PROVE  Max({a, b}) = IF a >= b THEN a ELSE b
<1>1. PICK m : m = IF a >= b THEN a ELSE b
  OBVIOUS
<1>2. m \in {a, b} /\ \A y \in {a, b} : m >= y
  BY <1>1
<1>3. \A x \in {a, b} : (\A y \in {a, b} : x >= y) => x = m
  BY <1>1
<1>4. Max({a, b}) = m
  BY <1>2, <1>3 DEF Max
<1> QED BY <1>1, <1>4

\* r is l with n, which was or would have been at the place "at", in front.
Fronted(l, n, r, at) ==
  /\ at \in 1 .. Len(l) + 1
  /\ \A i \in 1 .. Len(l) : l[i] = n => at <= Len(l)
  /\ at <= Len(l) => l[at] = n /\ Len(r) = Len(l)
  /\ at > Len(l) => Len(r) = IF Len(l) < Limit THEN Len(l) + 1 ELSE Limit
  /\ r \in Seq(Nat) /\ 1 <= Len(r) /\ r[1] = n
  /\ \A i \in 2 .. Len(r) : r[i] = IF i <= at THEN l[i - 1] ELSE l[i]

LEMMA PlaceFound ==
  ASSUME NEW l \in Seq(Nat), NEW n
  PROVE  /\ PlaceOf(l, n) \in 1 .. Len(l) + 1
         /\ \A i \in 1 .. Len(l) : l[i] = n => PlaceOf(l, n) <= Len(l)
         /\ PlaceOf(l, n) <= Len(l) => l[PlaceOf(l, n)] = n
<1>1. Len(l) \in Nat
  OBVIOUS
<1>2. CASE \E i \in 1 .. Len(l) : l[i] = n
  <2>1. PICK at : at = CHOOSE i \in 1 .. Len(l) : l[i] = n
    OBVIOUS
  <2>2. at \in 1 .. Len(l) /\ l[at] = n
    BY <1>2, <2>1
  <2>3. PlaceOf(l, n) = at
    BY <1>2, <2>1 DEF PlaceOf
  <2> QED BY <1>1, <2>2, <2>3
<1>3. CASE ~\E i \in 1 .. Len(l) : l[i] = n
  <2>1. PlaceOf(l, n) = Len(l) + 1
    BY <1>3 DEF PlaceOf
  <2> QED BY <1>1, <1>3, <2>1
<1> QED BY <1>2, <1>3

LEMMA ToFrontFronts ==
  ASSUME NEW l \in Seq(Nat), Len(l) <= Limit, NEW n \in Nat
  PROVE  Fronted(l, n, ToFront(l, n), PlaceOf(l, n))
<1>1. PICK at : at = PlaceOf(l, n)
  OBVIOUS
<1>2. /\ Limit \in Nat /\ Limit >= 1 /\ Len(l) \in Nat /\ at \in 1 .. Len(l) + 1
      /\ \A i \in 1 .. Len(l) : l[i] = n => at <= Len(l)
      /\ at <= Len(l) => l[at] = n
  BY <1>1, PlaceFound, StreamsAssumption
<1>3. PICK len : len = Min({Limit, Max({at, Len(l)})})
  OBVIOUS
<1>4. Max({at, Len(l)}) = IF at >= Len(l) THEN at ELSE Len(l)
  BY <1>2, GreaterOf
<1>5. Max({at, Len(l)}) \in Nat
  BY <1>2, <1>4
<1>6. len = IF Limit <= Max({at, Len(l)}) THEN Limit ELSE Max({at, Len(l)})
  BY <1>2, <1>3, <1>5, LesserOf
<1>7. /\ len \in Nat /\ 1 <= len
      /\ at <= Len(l) => len = Len(l)
      /\ at > Len(l) => len = IF Len(l) < Limit THEN Len(l) + 1 ELSE Limit
  BY <1>2, <1>4, <1>6
<1>8. PICK r : r = ToFront(l, n)
  OBVIOUS
<1>9. r = [i \in 1 .. len |-> IF i = 1 THEN n ELSE IF i <= at THEN l[i - 1] ELSE l[i]]
  BY <1>1, <1>3, <1>8 DEF ToFront
<1>10. \A i \in 1 .. len : (IF i = 1 THEN n ELSE IF i <= at THEN l[i - 1] ELSE l[i]) \in Nat
  <2>1. \A i \in 1 .. Len(l) : l[i] \in Nat
    OBVIOUS
  <2>2. ASSUME NEW i \in 1 .. len, i # 1
        PROVE  /\ i <= at => i - 1 \in 1 .. Len(l)
               /\ ~(i <= at) => i \in 1 .. Len(l)
    BY <1>2, <1>7, <2>2
  <2> QED BY <2>1, <2>2
<1>11. r \in Seq(Nat) /\ Len(r) = len
  BY <1>7, <1>9, <1>10
<1>12. r[1] = n /\ \A i \in 2 .. Len(r) : r[i] = IF i <= at THEN l[i - 1] ELSE l[i]
  BY <1>7, <1>9, <1>11
<1>13. Fronted(l, n, r, at)
  BY <1>2, <1>7, <1>11, <1>12 DEF Fronted
<1> QED BY <1>1, <1>8, <1>13

\* Where an element behind the front came from, and whether it is still there.
From(at, i) == IF i <= at THEN i - 1 ELSE i

Stays(r, at, i) == \E j \in 2 .. Len(r) : From(at, j) = i

CutOff(l, r, i) == i = Len(l) /\ Len(r) = Limit /\ Len(l) = Limit

LEMMA FrontedFrom ==
  ASSUME NEW l \in Seq(Nat), Len(l) <= Limit, NEW n \in Nat, NEW r, NEW at, Fronted(l, n, r, at)
  PROVE  /\ Len(r) <= Limit /\ DOMAIN r = 1 .. Len(r) /\ Len(r) \in Nat
         /\ \A i \in 2 .. Len(r) : From(at, i) \in 1 .. Len(l) /\ r[i] = l[From(at, i)] /\ From(at, i) # at
         /\ \A i, j \in 2 .. Len(r) : i < j => From(at, i) < From(at, j)
         /\ \A i \in 1 .. Len(l) : i = at \/ Stays(r, at, i) \/ CutOff(l, r, i)
<1>1. Limit \in Nat /\ Limit >= 1 /\ Len(l) \in Nat /\ Len(r) \in Nat /\ at \in 1 .. Len(l) + 1
  BY StreamsAssumption DEF Fronted
<1>2. /\ at <= Len(l) => Len(r) = Len(l)
      /\ at > Len(l) => Len(r) = IF Len(l) < Limit THEN Len(l) + 1 ELSE Limit
  BY DEF Fronted
<1>3. Len(r) <= Limit /\ DOMAIN r = 1 .. Len(r)
  BY <1>1, <1>2 DEF Fronted
<1>4. \A i \in 2 .. Len(r) : From(at, i) \in 1 .. Len(l) /\ From(at, i) # at
  BY <1>1, <1>2 DEF From
<1>5. \A i \in 2 .. Len(r) : r[i] = l[From(at, i)]
  BY <1>1 DEF From, Fronted
<1>6. \A i, j \in 2 .. Len(r) : i < j => From(at, i) < From(at, j)
  BY <1>1 DEF From
<1>7. ASSUME NEW i \in 1 .. Len(l), i # at
      PROVE  Stays(r, at, i) \/ CutOff(l, r, i)
  <2>1. CASE i < at
    <3>1. From(at, i + 1) = i
      BY <1>1, <2>1 DEF From
    <3>2. i + 1 \in 2 .. Len(r) \/ (i = Len(l) /\ Len(r) = Limit /\ Len(l) = Limit)
      BY <1>1, <1>2, <2>1
    <3> QED BY <3>1, <3>2 DEF Stays, CutOff
  <2>2. CASE i > at
    <3>1. From(at, i) = i /\ i \in 2 .. Len(r)
      BY <1>1, <1>2, <2>2 DEF From
    <3> QED BY <3>1 DEF Stays
  <2> QED BY <1>1, <1>7, <2>1, <2>2
<1> QED BY <1>1, <1>3, <1>4, <1>5, <1>6, <1>7

LEMMA FrontedGood ==
  ASSUME NEW d \in Nat, NEW n \in 1 .. d, NEW l \in Seq(Nat), GoodList(l, d),
         NEW r, NEW at, Fronted(l, n, r, at)
  PROVE  GoodList(r, d)
<1>1. /\ Len(l) \in Nat /\ DOMAIN l = 1 .. Len(l) /\ Len(l) <= Limit /\ n \in Nat
      /\ \A i \in 1 .. Len(l) : l[i] \in 1 .. d
      /\ \A i, j \in 1 .. Len(l) : l[i] = l[j] => i = j
  BY DEF GoodList
<1>2. /\ Len(r) <= Limit /\ DOMAIN r = 1 .. Len(r) /\ Len(r) \in Nat
      /\ \A i \in 2 .. Len(r) : From(at, i) \in 1 .. Len(l) /\ r[i] = l[From(at, i)] /\ From(at, i) # at
      /\ \A i, j \in 2 .. Len(r) : i < j => From(at, i) < From(at, j)
  BY <1>1, FrontedFrom
<1>3. r[1] = n /\ \A i \in 1 .. Len(l) : l[i] = n => i = at
  BY <1>1 DEF Fronted
<1>4. \A i \in 1 .. Len(r) : i = 1 \/ i \in 2 .. Len(r)
  BY <1>2
<1>5. \A i \in 1 .. Len(r) : r[i] \in 1 .. d
  BY <1>1, <1>2, <1>3, <1>4
<1>6. \A i \in 2 .. Len(r) : r[i] # n
  BY <1>2, <1>3
<1>7. \A i, j \in 2 .. Len(r) : r[i] = r[j] => i = j
  <2>1. \A i, j \in 2 .. Len(r) : r[i] = r[j] => From(at, i) = From(at, j)
    BY <1>1, <1>2
  <2>2. \A i, j \in 2 .. Len(r) : i = j \/ i < j \/ j < i
    BY <1>2
  <2>3. \A i \in 2 .. Len(r) : From(at, i) \in Nat
    BY <1>1, <1>2
  <2> QED BY <1>2, <2>1, <2>2, <2>3
<1> QED BY <1>2, <1>3, <1>4, <1>5, <1>6, <1>7 DEF GoodList

\* The next observation to follow.
LEMMA FrontedCovers ==
  ASSUME NEW d \in Nat, NEW k \in Nat, NEW next \in 1 .. d, next = k + 1, NEW l \in Seq(Nat), GoodList(l, d),
         Covers(l, k), Ordered(l, k),
         NEW r, NEW at, Fronted(l, next, r, at)
  PROVE  Covers(r, next) /\ Ordered(r, next)
<1>1. /\ Len(l) \in Nat /\ DOMAIN l = 1 .. Len(l) /\ Len(l) <= Limit /\ next \in Nat /\ Limit \in Nat
      /\ \A i \in 1 .. Len(l) : l[i] \in Nat
      /\ \A i, j \in 1 .. Len(l) : l[i] = l[j] => i = j
  BY StreamsAssumption DEF GoodList
<1>2. /\ Len(r) <= Limit /\ DOMAIN r = 1 .. Len(r) /\ Len(r) \in Nat
      /\ \A i \in 2 .. Len(r) : From(at, i) \in 1 .. Len(l) /\ r[i] = l[From(at, i)] /\ From(at, i) # at
      /\ \A i, j \in 2 .. Len(r) : i < j => From(at, i) < From(at, j)
      /\ \A i \in 1 .. Len(l) : i = at \/ Stays(r, at, i) \/ CutOff(l, r, i)
  BY <1>1, FrontedFrom
<1>3. r[1] = next /\ 1 \in 1 .. Len(r) /\ \A i \in 1 .. Len(l) : l[i] = next => i = at
  BY <1>1 DEF Fronted
<1>4. \A i \in 1 .. Len(r) : i = 1 \/ i \in 2 .. Len(r)
  BY <1>2
<1>5. \A i \in 2 .. Len(r) : r[i] \in Nat /\ r[i] # next
  BY <1>1, <1>2, <1>3
<1>6. ASSUME NEW i \in 1 .. Len(r), NEW j \in 1 .. Len(r), i < j, r[j] <= next
      PROVE  r[j] < r[i]
  <2>1. j \in 2 .. Len(r) /\ r[j] <= k
    <3>1. j # 1 /\ j \in 2 .. Len(r)
      BY <1>2, <1>6
    <3> QED BY <1>5, <1>6, <3>1
  <2>2. CASE i = 1
    BY <1>3, <1>5, <2>1, <2>2
  <2>3. CASE i \in 2 .. Len(r)
    <3>1. From(at, i) < From(at, j) /\ l[From(at, j)] <= k
      BY <1>2, <1>6, <2>1, <2>3
    <3> QED BY <1>1, <1>2, <2>1, <2>3, <3>1 DEF Ordered
  <2> QED BY <1>4, <2>2, <2>3
<1>7. ASSUME NEW n \in 1 .. k
      PROVE  Listed(r, n) \/ Crowded(r, n)
  <2>1. n # next /\ n < next /\ n \in Nat
    OBVIOUS
  <2>2. ASSUME NEW i \in 1 .. Len(l), l[i] = n, Stays(r, at, i)
        PROVE  Listed(r, n)
    <3>1. PICK j \in 2 .. Len(r) : From(at, j) = i
      BY <2>2 DEF Stays
    <3>2. j \in DOMAIN r /\ r[j] = n
      BY <1>2, <2>2, <3>1
    <3> QED BY <3>2 DEF Listed
  <2>3. ASSUME NEW i \in 1 .. Len(l), l[i] = n, i = at
        PROVE  FALSE
    <3>1. at <= Len(l)
      BY <1>1, <2>3
    <3> QED BY <2>1, <2>3, <3>1 DEF Fronted
  <2>4. ASSUME Len(r) = Limit, \A i \in 2 .. Len(r) : n < l[From(at, i)]
        PROVE  Crowded(r, n)
    BY <1>2, <1>3, <1>4, <2>1, <2>4 DEF Crowded
  <2>5. ASSUME NEW i \in 1 .. Len(l), l[i] = n, CutOff(l, r, i), ~Stays(r, at, i)
        PROVE  Crowded(r, n)
    <3>1. ASSUME NEW j \in 2 .. Len(r)
          PROVE  n < l[From(at, j)]
      <4>1. From(at, j) \in 1 .. Len(l) /\ From(at, j) # i
        BY <1>2, <2>5 DEF Stays
      <4>2. From(at, j) < i /\ l[i] <= k
        BY <1>1, <2>5, <4>1 DEF CutOff
      <4> QED BY <1>1, <2>5, <4>1, <4>2 DEF Ordered
    <3> QED BY <2>4, <2>5, <3>1 DEF CutOff
  <2>6. CASE Listed(l, n)
    <3>1. PICK i \in 1 .. Len(l) : l[i] = n
      BY <1>1, <2>6 DEF Listed
    <3> QED BY <1>2, <2>2, <2>3, <2>5, <3>1
  <2>7. CASE Crowded(l, n)
    <3>1. Len(l) = Limit /\ \A i \in 1 .. Len(l) : n < l[i]
      BY <1>1, <2>7 DEF Crowded
    <3>2. Len(r) = Limit
      BY <1>1, <3>1 DEF Fronted
    <3> QED BY <1>2, <2>4, <3>1, <3>2
  <2> QED BY <2>6, <2>7 DEF Covers
<1>8. Listed(r, next)
  BY <1>2, <1>3 DEF Listed
<1>9. \A n \in 1 .. next : n \in 1 .. k \/ n = next
  OBVIOUS
<1> QED BY <1>2, <1>6, <1>7, <1>8, <1>9 DEF Covers, Ordered

\* What the endpoint reads from the store.
LEMMA NewestGood ==
  ASSUME durable \in Nat
  PROVE  /\ Newest \in Seq(Nat) /\ GoodList(Newest, durable)
         /\ \A k \in 0 .. durable : Covers(Newest, k) /\ Ordered(Newest, k)
<1>1. Limit \in Nat
  BY StreamsAssumption
<1>2. PICK len : len = Min({Limit, durable})
  OBVIOUS
<1>3. len = IF Limit <= durable THEN Limit ELSE durable
  BY <1>1, <1>2, LesserOf
<1>4. PICK l : l = Newest
  OBVIOUS
<1>5. l = [i \in 1 .. len |-> durable + 1 - i]
  BY <1>2, <1>4 DEF Newest
<1>6. len \in Nat /\ len <= Limit /\ len <= durable /\ (len = Limit \/ len = durable)
  BY <1>1, <1>3
<1>7. \A i \in 1 .. len : durable + 1 - i \in 1 .. durable
  BY <1>6
<1>8. l \in Seq(Nat) /\ Len(l) = len /\ DOMAIN l = 1 .. len
  BY <1>5, <1>6, <1>7
<1>9. \A i \in 1 .. len : l[i] = durable + 1 - i
  BY <1>5
<1>10. GoodList(l, durable)
  BY <1>6, <1>7, <1>8, <1>9 DEF GoodList
<1>11. ASSUME NEW k \in 0 .. durable
       PROVE  Covers(l, k) /\ Ordered(l, k)
  <2>1. Ordered(l, k)
    BY <1>6, <1>8, <1>9 DEF Ordered
  <2>2. ASSUME NEW n \in 1 .. k
        PROVE  Listed(l, n) \/ Crowded(l, n)
    <3>1. CASE n > durable - len
      <4>1. durable + 1 - n \in 1 .. len
        BY <1>6, <3>1
      <4>2. l[durable + 1 - n] = n
        BY <1>9, <4>1
      <4> QED BY <1>8, <4>1, <4>2 DEF Listed
    <3>2. CASE ~(n > durable - len)
      <4>1. len = Limit
        BY <1>6, <3>2
      <4>2. \A i \in 1 .. len : n < l[i]
        BY <1>6, <1>9, <3>2
      <4> QED BY <1>8, <4>1, <4>2 DEF Crowded
    <3> QED BY <1>6, <3>1, <3>2
  <2> QED BY <2>1, <2>2 DEF Covers
<1> QED BY <1>4, <1>8, <1>10, <1>11

LEMMA NextGapless ==
  ASSUME NEW d \in Nat, NEW k \in Nat, NEW next \in 1 .. d, next = k + 1,
         NEW l \in Seq(Nat), GoodList(l, d), Gapless(l, k)
  PROVE  Gapless(ToFront(l, next), next)
<1>1. Len(l) <= Limit /\ next \in Nat
  BY DEF GoodList
<1>2. PICK r, at : r = ToFront(l, next) /\ at = PlaceOf(l, next)
  OBVIOUS
<1>3. Fronted(l, next, r, at)
  BY <1>1, <1>2, ToFrontFronts
<1>4. Covers(r, next) /\ Ordered(r, next)
  BY <1>3, FrontedCovers DEF Gapless
<1> QED BY <1>2, <1>4 DEF Gapless

LEMMA GoodGrows ==
  ASSUME NEW d \in Nat, NEW more \in Nat, d <= more, NEW l, GoodList(l, d)
  PROVE  GoodList(l, more)
BY DEF GoodList

------------------------------------------------------------------------------
(* Events *)

LEMMA EventKinds ==
  ASSUME NEW e \in Event
  PROVE  \/ e = Resync \/ e = Records
         \/ \E fresh \in BOOLEAN : e = Sessions(fresh)
         \/ \E n \in Nat : e = Serving(n)
         \/ \E id \in Ids, status \in Status : e = Told(id, status)
BY DEF Event

LEMMA EventNames ==
  /\ Resync.name = "resync" /\ Records.name = "records"
  /\ \A fresh : Sessions(fresh).name = "sessions" /\ Sessions(fresh).fresh = fresh
  /\ \A n : Serving(n).name = "serving" /\ Serving(n).cursor = n
  /\ \A id, status : /\ Told(id, status).name = "operation"
                     /\ Told(id, status).id = id /\ Told(id, status).status = status
BY DEF Resync, Records, Sessions, Serving, Told

LEMMA EventOf ==
  /\ Resync \in Event /\ Records \in Event
  /\ \A fresh \in BOOLEAN : Sessions(fresh) \in Event
  /\ \A n \in Nat : Serving(n) \in Event
  /\ \A id \in Ids, status \in Status : Told(id, status) \in Event
BY DEF Event

\* An event of a name is the one the name says.
LEMMA EventByName ==
  ASSUME NEW e \in Event
  PROVE  /\ e.name = "resync" <=> e = Resync
         /\ e.name = "records" => e = Records
         /\ e.name = "sessions" => e.fresh \in BOOLEAN /\ e = Sessions(e.fresh)
         /\ e.name = "serving" => e.cursor \in Nat /\ e = Serving(e.cursor)
         /\ e.name = "operation" => /\ e.id \in Ids /\ e.status \in Status
                                    /\ e = Told(e.id, e.status)
BY EventKinds, EventNames

\* What the queue keeps when a transition ages the sessions in it.
Alike(held, q) ==
  /\ held \in Seq(Event) /\ Len(held) = Len(q)
  /\ \A i \in DOMAIN q : held[i] = q[i] \/ (q[i].name = "sessions" /\ held[i].name = "sessions")

LEMMA AlikeItself ==
  ASSUME NEW q \in Seq(Event)
  PROVE  Alike(q, q)
BY DEF Alike

LEMMA AgedEvent ==
  ASSUME NEW e \in Event
  PROVE  /\ Aged(e) \in Event
         /\ Aged(e) = e \/ (e.name = "sessions" /\ Aged(e).name = "sessions")
<1>1. CASE e.name = "sessions"
  <2>1. Aged(e) = Sessions(FALSE)
    <3>1. PICK fresh \in BOOLEAN : e = Sessions(fresh)
      BY <1>1, EventByName
    <3>2. Aged(e) = [e EXCEPT !.fresh = FALSE]
      BY <1>1 DEF Aged
    <3> QED BY <3>1, <3>2 DEF Sessions
  <2> QED BY <1>1, <2>1, EventNames, EventOf
<1>2. CASE e.name # "sessions"
  BY <1>2 DEF Aged
<1> QED BY <1>1, <1>2

LEMMA AgedAlike ==
  ASSUME NEW q \in Seq(Event)
  PROVE  Alike([i \in 1 .. Len(q) |-> Aged(q[i])], q)
<1> DEFINE aged == [i \in 1 .. Len(q) |-> Aged(q[i])]
<1>1. Len(q) \in Nat /\ DOMAIN q = 1 .. Len(q) /\ \A i \in 1 .. Len(q) : q[i] \in Event
  OBVIOUS
<1>2. \A i \in 1 .. Len(q) : Aged(q[i]) \in Event
  BY <1>1, AgedEvent
<1>3. aged \in Seq(Event)
  BY <1>1, <1>2
<1>4. Len(aged) = Len(q)
  BY <1>1
<1>5. \A i \in 1 .. Len(q) : aged[i] = Aged(q[i])
  OBVIOUS
<1> HIDE DEF aged
<1> QED BY <1>1, <1>3, <1>4, <1>5, AgedEvent DEF Alike

------------------------------------------------------------------------------
(* Pushing *)

\* All that was held, and then what is new ...
Kept(held, q, new) ==
  /\ Len(held) <= Len(q)
  /\ \A i \in DOMAIN held : q[i] = held[i]
  /\ \A i \in DOMAIN q : i > Len(held) => q[i] \in new
  /\ \A e \in new : \E i \in DOMAIN q : i > Len(held) /\ q[i] = e

\* ... or a resync instead.
Dropped(q, new) ==
  /\ Cleared(q)
  /\ \A i \in DOMAIN q : q[i] \in new \cup {Resync}

Follows(held, q, new) ==
  /\ q \in Seq(Event) /\ Len(q) <= Limit
  /\ Kept(held, q, new) \/ Dropped(q, new)

LEMMA PushKind ==
  ASSUME NEW q, NEW e
  PROVE  \/ Len(q) < Limit /\ Push(q, e) = Append(q, e)
         \/ ~(Len(q) < Limit) /\ Push(q, e) = <<Resync>>
BY DEF Push, Resync

LEMMA OnlyResync ==
  ASSUME NEW new
  PROVE  /\ <<Resync>> \in Seq(Event) /\ Len(<<Resync>>) <= Limit
         /\ Dropped(<<Resync>>, new)
<1>1. Limit \in Nat \ {0}
  BY StreamsAssumption
<1>2. Resync \in Event
  BY EventOf
<1> QED BY <1>1, <1>2 DEF Dropped, Cleared

LEMMA PushesFollow ==
  ASSUME NEW held \in Seq(Event), NEW q, NEW new, Follows(held, q, new), NEW e \in Event
  PROVE  Follows(held, Push(q, e), new \cup {e})
<1>1. q \in Seq(Event) /\ Len(q) \in Nat /\ Len(held) \in Nat /\ Limit \in Nat
  BY StreamsAssumption DEF Follows
<1>2. CASE ~(Len(q) < Limit)
  BY <1>2, PushKind, OnlyResync DEF Follows
<1>3. CASE Len(q) < Limit
  <2> DEFINE r == Append(q, e)
  <2>1. /\ r \in Seq(Event) /\ Len(r) = Len(q) + 1 /\ DOMAIN r = 1 .. Len(q) + 1
        /\ DOMAIN q = 1 .. Len(q) /\ DOMAIN held = 1 .. Len(held)
        /\ \A i \in 1 .. Len(q) : r[i] = q[i]
        /\ r[Len(q) + 1] = e
    BY <1>1
  <2> HIDE DEF r
  <2>2. Len(r) <= Limit
    BY <1>1, <1>3, <2>1
  <2>3. CASE Kept(held, q, new)
    <3>1. Len(held) <= Len(r)
      BY <1>1, <2>1, <2>3 DEF Kept
    <3>2. \A i \in DOMAIN held : r[i] = held[i]
      BY <1>1, <2>1, <2>3 DEF Kept
    <3>3. \A i \in DOMAIN r : i > Len(held) => r[i] \in new \cup {e}
      BY <1>1, <2>1, <2>3 DEF Kept
    <3>4. \A f \in new \cup {e} : \E i \in DOMAIN r : i > Len(held) /\ r[i] = f
      <4>1. Len(q) + 1 \in DOMAIN r /\ Len(q) + 1 > Len(held)
        BY <1>1, <2>1, <2>3 DEF Kept
      <4>2. \A i \in DOMAIN q : i \in DOMAIN r
        BY <1>1, <2>1
      <4> QED BY <2>1, <2>3, <4>1, <4>2 DEF Kept
    <3> QED BY <2>1, <2>2, <3>1, <3>2, <3>3, <3>4, PushKind, <1>3 DEF Follows, Kept, r
  <2>4. CASE Dropped(q, new)
    <3>1. Cleared(r)
      BY <1>1, <2>1, <2>4 DEF Dropped, Cleared
    <3>2. \A i \in DOMAIN r : r[i] \in (new \cup {e}) \cup {Resync}
      BY <1>1, <2>1, <2>4 DEF Dropped
    <3> QED BY <2>1, <2>2, <3>1, <3>2, PushKind, <1>3 DEF Follows, Dropped, r
  <2> QED BY <2>3, <2>4 DEF Follows
<1> QED BY <1>2, <1>3

LEMMA PushFollows ==
  ASSUME NEW held \in Seq(Event), Len(held) <= Limit, NEW e \in Event
  PROVE  Follows(held, Push(held, e), {e})
<1>1. Len(held) \in Nat /\ DOMAIN held = 1 .. Len(held)
  OBVIOUS
<1>2. Kept(held, held, {})
  BY <1>1 DEF Kept
<1>3. Follows(held, held, {})
  BY <1>2 DEF Follows
<1>4. {} \cup {e} = {e}
  OBVIOUS
<1> QED BY <1>3, <1>4, PushesFollow

------------------------------------------------------------------------------
(* Taking an event *)

\* The parts of the page that an aged sessions snapshot leaves alone.
SameView(p, r) ==
  p.shown = r.shown /\ p.activity = r.activity /\ p.upto = r.upto

LEMMA TakenResync ==
  ASSUME NEW p, NEW e, e = Resync
  PROVE  /\ Taken(p, e).page = p
         /\ Taken(p, e).stream = [stream EXCEPT !.at = "sessions", !.whole = TRUE]
<1>1. e.name = "resync"
  BY EventNames
<1> QED BY <1>1 DEF Taken

LEMMA TakenRecords ==
  ASSUME NEW p, NEW e, e = Records
  PROVE  /\ Taken(p, e).page = p
         /\ Taken(p, e).stream = [stream EXCEPT !.at = "cursor", !.whole = FALSE]
<1>1. e.name = "records"
  BY EventNames
<1> QED BY <1>1 DEF Taken

LEMMA TakenTold ==
  ASSUME NEW p, NEW e, NEW id, NEW status, e = Told(id, status)
  PROVE  /\ Taken(p, e).page = FoldOperation(p, id, status)
         /\ Taken(p, e).stream = stream
<1>1. e.name = "operation" /\ e.id = id /\ e.status = status
  BY EventNames
<1> QED BY <1>1 DEF Taken

LEMMA TakenSessions ==
  ASSUME NEW p, NEW e, NEW fresh, e = Sessions(fresh)
  PROVE  /\ Taken(p, e).page = [p EXCEPT !.fresh = fresh]
         /\ Taken(p, e).stream = stream
<1>1. e.name = "sessions" /\ e.fresh = fresh
  BY EventNames
<1> QED BY <1>1 DEF Taken

LEMMA TakenServing ==
  ASSUME NEW p, NEW e, NEW n, e = Serving(n)
  PROVE  /\ n <= stream.cursor => Taken(p, e).page = p /\ Taken(p, e).stream = stream
         /\ ~(n <= stream.cursor) =>
              /\ Taken(p, e).page = FoldServing(p, n)
              /\ Taken(p, e).stream = [stream EXCEPT !.cursor = n]
<1>1. e.name = "serving" /\ e.cursor = n
  BY EventNames
<1> QED BY <1>1 DEF Taken

LEMMA NewServing ==
  ASSUME NEW p, NEW e, NEW n, e = Serving(n), ~(n <= stream.cursor)
  PROVE  Taken(p, e).stream = [stream EXCEPT !.cursor = n]
BY TakenServing

\* What the page makes of a notification, and of an observation.
LEMMA FoldedOperation ==
  ASSUME NEW p \in Page, NEW id \in Ids, NEW status \in Status
  PROVE  LET r == FoldOperation(p, id, status)
         IN  /\ r \in Page /\ r.activity = p.activity /\ r.upto = p.upto
             /\ \A i \in Ids \ {id} : r.shown[i] = p.shown[i]
             /\ IF Finished(p.shown[id]) /\ ~Finished(status) THEN r.shown[id] = p.shown[id]
                ELSE r.shown[id] = status
<1>1. CASE Finished(p.shown[id]) /\ ~Finished(status)
  <2>1. FoldOperation(p, id, status) = p
    BY <1>1 DEF FoldOperation
  <2> QED BY <1>1, <2>1
<1>2. CASE ~(Finished(p.shown[id]) /\ ~Finished(status))
  <2>1. FoldOperation(p, id, status) = [p EXCEPT !.shown[id] = status]
    BY <1>2, Zenon DEF FoldOperation
  <2>2. PICK r : r = [p EXCEPT !.shown[id] = status]
    OBVIOUS
  <2>3. /\ r \in Page /\ r.activity = p.activity /\ r.upto = p.upto
        /\ r.shown = [p.shown EXCEPT ![id] = status]
    BY <2>2 DEF Page
  <2>4. p.shown \in [Ids -> Status]
    BY DEF Page
  <2>5. r.shown[id] = status /\ \A i \in Ids \ {id} : r.shown[i] = p.shown[i]
    BY <2>3, <2>4
  <2>6. FoldOperation(p, id, status) = r
    BY <2>1, <2>2
  <2> QED BY <1>2, <2>3, <2>5, <2>6
<1> QED BY <1>1, <1>2

LEMMA FoldedServing ==
  ASSUME NEW p \in Page, Len(p.activity) <= Limit, NEW n \in Nat
  PROVE  LET r == FoldServing(p, n)
         IN  /\ r \in Page /\ r.shown = p.shown
             /\ n > p.upto => r.upto = n /\ r.activity = ToFront(p.activity, n)
             /\ ~(n > p.upto) => r = p
<1>1. p.upto \in Nat /\ p.activity \in Seq(Nat)
  BY DEF Page
<1>2. CASE n <= p.upto
  <2>1. FoldServing(p, n) = p
    BY <1>2 DEF FoldServing
  <2> QED BY <1>1, <1>2, <2>1
<1>3. CASE ~(n <= p.upto)
  <2>1. PICK list : list = ToFront(p.activity, n)
    OBVIOUS
  <2>2. list \in Seq(Nat)
    BY <1>1, <2>1, ToFrontFronts DEF Fronted
  <2>3. FoldServing(p, n) = [p EXCEPT !.upto = n, !.activity = ToFront(@, n)]
    BY <1>3, Zenon DEF FoldServing
  <2>4. PICK r : r = [p EXCEPT !.upto = n, !.activity = list]
    OBVIOUS
  <2>5. r \in Page /\ r.shown = p.shown /\ r.upto = n /\ r.activity = list
    BY <2>2, <2>4 DEF Page
  <2>6. [p EXCEPT !.upto = n, !.activity = ToFront(@, n)] = r
    BY <2>1, <2>4 DEF Page
  <2>7. FoldServing(p, n) = r
    BY <2>3, <2>6
  <2>8. n > p.upto
    BY <1>1, <1>3
  <2> QED BY <2>1, <2>5, <2>7, <2>8
<1> QED BY <1>2, <1>3

LEMMA FoldKeepsGood ==
  ASSUME NEW p \in Page, NEW d \in Nat, NEW n \in 1 .. d, GoodList(p.activity, d)
  PROVE  GoodList(FoldServing(p, n).activity, d)
<1>1. p.activity \in Seq(Nat) /\ Len(p.activity) <= Limit /\ n \in Nat /\ p.upto \in Nat
  BY DEF Page, GoodList
<1>2. PICK list : list = ToFront(p.activity, n)
  OBVIOUS
<1>3. PICK at : at = PlaceOf(p.activity, n)
  OBVIOUS
<1>4. Fronted(p.activity, n, list, at)
  BY <1>1, <1>2, <1>3, ToFrontFronts
<1>5. GoodList(list, d)
  BY <1>1, <1>4, FrontedGood
<1>6. FoldServing(p, n).activity \in {p.activity, list}
  BY <1>1, <1>2, FoldedServing
<1> QED BY <1>5, <1>6

\* Where a stream may be once it has taken an event.
LEMMA TakenStream ==
  ASSUME stream \in Stream, stream.at = "relay", NEW p, NEW e \in Event
  PROVE  LET s == Taken(p, e).stream
         IN  /\ s \in Stream /\ s.connections = stream.connections
             /\ s.at \in {"relay", "sessions", "cursor"}
             /\ s.at = "sessions" => s.whole
<1>1. CASE e = Resync
  <2>1. PICK s : s = [stream EXCEPT !.at = "sessions", !.whole = TRUE]
    OBVIOUS
  <2>2. s \in Stream /\ s.connections = stream.connections /\ s.at = "sessions" /\ s.whole
    BY <2>1 DEF Stream, StreamAt
  <2>3. Taken(p, e).stream = s
    BY <1>1, <2>1, TakenResync
  <2> QED BY <2>2, <2>3
<1>2. CASE e = Records
  <2>1. PICK s : s = [stream EXCEPT !.at = "cursor", !.whole = FALSE]
    OBVIOUS
  <2>2. s \in Stream /\ s.connections = stream.connections /\ s.at = "cursor"
    BY <2>1 DEF Stream, StreamAt
  <2>3. Taken(p, e).stream = s
    BY <1>2, <2>1, TakenRecords
  <2> QED BY <2>2, <2>3
<1>3. CASE \E fresh \in BOOLEAN : e = Sessions(fresh)
  <2>1. PICK fresh \in BOOLEAN : e = Sessions(fresh)
    BY <1>3
  <2>2. Taken(p, e).stream = stream
    BY <2>1, TakenSessions, Zenon
  <2> QED BY <2>2
<1>4. ASSUME NEW n \in Nat, e = Serving(n)
      PROVE  LET s == Taken(p, e).stream
             IN  s \in Stream /\ s.connections = stream.connections /\ s.at = "relay"
  <2>1. PICK s : s = [stream EXCEPT !.cursor = n]
    OBVIOUS
  <2>2. s \in Stream /\ s.connections = stream.connections /\ s.at = "relay"
    BY <2>1 DEF Stream, StreamAt
  <2>3. Taken(p, e).stream \in {stream, s}
    BY <1>4, <2>1, TakenServing
  <2> QED BY <2>2, <2>3
<1>5. CASE \E id \in Ids, status \in Status : e = Told(id, status)
  BY <1>5, TakenTold
<1> QED BY <1>1, <1>2, <1>3, <1>4, <1>5, EventKinds

\* What the page shows of the operations and of the observations after it.
LEMMA TakenPage ==
  ASSUME NEW p \in Page, Len(p.activity) <= Limit, NEW e \in Event
  PROVE  LET r == Taken(p, e).page
         IN  /\ r \in Page
             /\ e.name # "operation" => r.shown = p.shown
             /\ e.name = "operation" => r = FoldOperation(p, e.id, e.status)
             /\ e.name # "serving" => r.activity = p.activity /\ r.upto = p.upto
             /\ e.name = "serving" =>
                  r = p \/ (~(e.cursor <= stream.cursor) /\ r = FoldServing(p, e.cursor))
<1>1. CASE e \in {Resync, Records}
  BY <1>1, TakenResync, TakenRecords, EventNames
<1>2. ASSUME NEW fresh \in BOOLEAN, e = Sessions(fresh)
      PROVE  LET r == Taken(p, e).page
             IN  /\ r \in Page /\ SameView(r, p) /\ e.name = "sessions"
  <2>1. PICK r : r = [p EXCEPT !.fresh = fresh]
    OBVIOUS
  <2>2. r \in Page /\ SameView(r, p)
    BY <2>1 DEF Page, SameView
  <2>3. Taken(p, e).page = r
    BY <1>2, <2>1, TakenSessions
  <2> QED BY <1>2, <2>2, <2>3, EventNames
<1>3. ASSUME NEW n \in Nat, e = Serving(n)
      PROVE  LET r == Taken(p, e).page
             IN  /\ r \in Page /\ r.shown = p.shown /\ e.name = "serving" /\ e.cursor = n
                 /\ r = p \/ (~(n <= stream.cursor) /\ r = FoldServing(p, n))
  <2>1. CASE n <= stream.cursor
    <3>1. Taken(p, e).page = p
      BY <1>3, <2>1, TakenServing, Zenon
    <3> QED BY <1>3, <3>1, EventNames
  <2>2. CASE ~(n <= stream.cursor)
    <3>1. Taken(p, e).page = FoldServing(p, n)
      BY <1>3, <2>2, TakenServing, Zenon
    <3> QED BY <1>3, <2>2, <3>1, FoldedServing, EventNames
  <2> QED BY <2>1, <2>2
<1>4. ASSUME NEW id \in Ids, NEW status \in Status, e = Told(id, status)
      PROVE  LET r == Taken(p, e).page
             IN  /\ r \in Page /\ r.activity = p.activity /\ r.upto = p.upto
                 /\ e.name = "operation" /\ r = FoldOperation(p, e.id, e.status)
  BY <1>4, TakenTold, FoldedOperation, EventNames
<1> QED BY <1>1, <1>2, <1>3, <1>4, EventKinds, EventNames DEF SameView

LEMMA TakenGood ==
  ASSUME NEW p \in Page, NEW e \in Event, NEW d \in Nat, GoodList(p.activity, d),
         e.name = "serving" /\ ~(e.cursor <= stream.cursor) => e.cursor \in 1 .. d
  PROVE  Taken(p, e).page \in Page /\ GoodList(Taken(p, e).page.activity, d)
<1>1. Len(p.activity) <= Limit
  BY DEF GoodList
<1>2. PICK r : r = Taken(p, e).page
  OBVIOUS
<1>3. /\ r \in Page
      /\ e.name # "serving" => r.activity = p.activity
      /\ e.name = "serving" =>
           r = p \/ (~(e.cursor <= stream.cursor) /\ r = FoldServing(p, e.cursor))
  BY <1>1, <1>2, TakenPage
<1>4. CASE e.name = "serving" /\ ~(e.cursor <= stream.cursor) /\ r = FoldServing(p, e.cursor)
  <2>1. PICK n \in 1 .. d : n = e.cursor
    BY <1>4
  <2> QED BY <1>2, <1>3, <1>4, <2>1, FoldKeepsGood
<1> QED BY <1>2, <1>3, <1>4

------------------------------------------------------------------------------
(* The manager *)

\* A step of the manager is about one operation, which had not finished.
Moves(id) ==
  /\ id \in Ids
  /\ notified' \in [Ids -> Status]
  /\ \A i \in Ids \ {id} : notified'[i] = notified[i]
  /\ notified'[id] # notified[id]
  /\ ~Finished(notified[id])
  /\ retained' \subseteq retained \cup {id}
  /\ \A i \in Ids : notified'[i].state \in Active => i \in retained'

LEMMA NotFinished ==
  ASSUME NEW status, status.state \in {"none"} \cup GivesWay \cup Active
  PROVE  ~Finished(status)
BY StreamsAssumption DEF Finished

LEMMA Notified ==
  ASSUME ManagerTyped, NEW id \in Ids, NEW state \in Active \cup Settled, Notify(id, state)
  PROVE  /\ notified' \in [Ids -> Status]
         /\ \A i \in Ids \ {id} : notified'[i] = notified[i]
         /\ notified'[id] # notified[id]
         /\ notified'[id].state = state
<1>1. notified \in [Ids -> Status] /\ notified[id] \in Status /\ notified[id].times \in Nat
  BY DEF ManagerTyped, Status
<1>2. PICK status : status = [state |-> state, times |-> notified[id].times + 1]
  OBVIOUS
<1>3. status \in Status /\ status.state = state /\ status.times = notified[id].times + 1
  BY <1>1, <1>2 DEF Status
<1>4. notified' = [notified EXCEPT ![id] = status]
  BY <1>2 DEF Notify
<1>5. notified'[id] = status /\ notified' \in [Ids -> Status]
  BY <1>1, <1>3, <1>4
<1>6. \A i \in Ids \ {id} : notified'[i] = notified[i]
  BY <1>1, <1>4
<1>7. status # notified[id]
  BY <1>1, <1>3
<1> QED BY <1>3, <1>5, <1>6, <1>7

\* Only settled operations are let go.
LEMMA Retained ==
  ASSUME NEW held \in SUBSET Ids, Retain(held)
  PROVE  /\ retained' \subseteq held
         /\ \A i \in held : notified'[i].state \in Active => i \in retained'
<1>1. PICK gone \in SUBSET {id \in held : notified'[id].state \in Settled} : retained' = held \ gone
  BY DEF Retain
<1> QED BY <1>1, StreamsAssumption

LEMMA ManagerMoves ==
  ASSUME ManagerTyped, LifecycleNext
  PROVE  \E id \in Ids : Moves(id)
<1>1. retained \subseteq Ids /\ \A i \in Ids : notified[i].state \in Active => i \in retained
  BY DEF ManagerTyped
<1>2. ASSUME NEW id \in Ids, Admit(id)
      PROVE  Moves(id)
  <2>1. "admitted" \in Active \cup Settled /\ Notify(id, "admitted")
    BY <1>2, StreamsAssumption DEF Admit
  <2>2. ~Finished(notified[id])
    BY <1>2, NotFinished DEF Admit
  <2>3. Retain(retained \cup {id})
    BY <1>2 DEF Admit
  <2>4. /\ retained' \subseteq retained \cup {id}
        /\ \A i \in retained \cup {id} : notified'[i].state \in Active => i \in retained'
    BY <1>1, <2>3, Retained
  <2> QED BY <1>1, <2>1, <2>2, <2>4, Notified DEF Moves
<1>3. ASSUME NEW id \in Ids, NEW state \in Active, Change(id, state)
      PROVE  Moves(id)
  <2>1. Notify(id, state) /\ retained' = retained /\ notified[id].state \in Active
    BY <1>3 DEF Change
  <2>2. ~Finished(notified[id])
    BY <2>1, NotFinished
  <2> QED BY <1>1, <2>1, <2>2, Notified DEF Moves
<1>4. ASSUME NEW id \in Ids, NEW state \in Settled, End(id, state)
      PROVE  Moves(id)
  <2>1. Notify(id, state) /\ Retain(retained) /\ notified[id].state \in Active
    BY <1>4 DEF End
  <2>2. ~Finished(notified[id])
    BY <2>1, NotFinished
  <2>3. /\ retained' \subseteq retained
        /\ \A i \in retained : notified'[i].state \in Active => i \in retained'
    BY <1>1, <2>1, Retained
  <2> QED BY <1>1, <2>1, <2>2, <2>3, Notified DEF Moves
<1> QED BY <1>2, <1>3, <1>4 DEF LifecycleNext

LEMMA MovesTyped ==
  ASSUME ManagerTyped, NEW id \in Ids, Moves(id)
  PROVE  ManagerTyped'
BY DEF ManagerTyped, Moves

------------------------------------------------------------------------------
(* Broadcasting *)

\* What the stream may make of new events on top of those held for it.
Missed(p) == ~Subscribed /\ queue' = queue /\ stream' = stream /\ page' = p

Reached(held, p, new) ==
  Subscribed /\ Kept(held, queue', new) /\ stream' = stream /\ page' = p

Raced(held, p) ==
  /\ stream.at = "relay"
  /\ \E i \in DOMAIN held :
       stream' = Taken(p, held[i]).stream /\ page' = Taken(p, held[i]).page

Overrun(held, p, new) ==
  /\ Subscribed /\ Dropped(queue', new)
  /\ (stream' = stream /\ page' = p) \/ Raced(held, p)

\* A step that pushes; besides, it touches no more than the page's sessions.
Pushes(held, p, new) ==
  /\ Alike(held, queue)
  /\ p \in Page /\ SameView(p, page)
  /\ queue' \in Seq(Event) /\ Len(queue') <= Limit
  /\ Missed(p) \/ Reached(held, p, new) \/ Overrun(held, p, new)

LEMMA BroadcastPushes ==
  ASSUME NEW held, NEW p \in Page, NEW q, NEW new,
         queue \in Seq(Event), Len(queue) <= Limit,
         Alike(held, queue), SameView(p, page), Follows(held, q, new), Broadcast(held, p, q)
  PROVE  Pushes(held, p, new)
<1>1. q \in Seq(Event) /\ Len(q) <= Limit /\ DOMAIN q = 1 .. Len(q)
  BY DEF Follows
<1>2. held \in Seq(Event) /\ DOMAIN held = 1 .. Len(held)
  BY DEF Alike
<1>3. CASE ~Subscribed
  BY <1>3 DEF Broadcast, Pushes, Missed
<1>4. CASE Subscribed
  <2> DEFINE cleared == {held[i] : i \in 1 .. Len(held)} \ {q[i] : i \in 1 .. Len(q)}
  <2>1. /\ queue' = q
        /\ \/ stream' = stream /\ page' = p
           \/ /\ stream.at = "relay"
              /\ \E e \in cleared : stream' = Taken(p, e).stream /\ page' = Taken(p, e).page
    BY <1>4 DEF Broadcast
  <2>2. CASE stream' = stream /\ page' = p
    BY <1>1, <1>4, <2>1, <2>2 DEF Follows, Pushes, Reached, Overrun
  <2>3. CASE /\ stream.at = "relay"
             /\ \E e \in cleared : stream' = Taken(p, e).stream /\ page' = Taken(p, e).page
    <3>1. PICK e \in cleared : stream' = Taken(p, e).stream /\ page' = Taken(p, e).page
      BY <2>3
    <3>2. PICK i \in DOMAIN held : e = held[i]
      BY <1>2
    <3>3. Raced(held, p)
      BY <2>3, <3>1, <3>2, Zenon DEF Raced
    <3>4. ~Kept(held, q, new)
      <4>1. \A j \in DOMAIN q : q[j] # held[i]
        BY <1>1, <3>2
      <4>2. Kept(held, q, new) => i \in DOMAIN q /\ q[i] = held[i]
        BY <1>1, <1>2, <3>2 DEF Kept
      <4> QED BY <4>1, <4>2
    <3> QED BY <1>1, <1>4, <2>1, <3>3, <3>4 DEF Follows, Pushes, Overrun
  <2> QED BY <2>1, <2>2, <2>3
<1> QED BY <1>3, <1>4

LEMMA PumpPushes ==
  ASSUME Typed, PumpPublishes
  PROVE  \E fresh \in BOOLEAN : Pushes(queue, page, {Sessions(fresh)})
<1>1. queue \in Seq(Event) /\ Len(queue) <= Limit /\ page \in Page
  BY DEF Typed
<1>2. PICK fresh \in BOOLEAN : Broadcast(queue, page, Push(queue, Sessions(fresh)))
  BY DEF PumpPublishes, Sessions
<1>3. Follows(queue, Push(queue, Sessions(fresh)), {Sessions(fresh)})
  BY <1>1, PushFollows, EventOf
<1>4. Alike(queue, queue) /\ SameView(page, page)
  BY <1>1, AlikeItself DEF SameView
<1> QED BY <1>1, <1>2, <1>3, <1>4, BroadcastPushes

LEMMA ServingPushes ==
  ASSUME Typed, PublishServing
  PROVE  Pushes(queue, page, {Serving(cursor + 1)})
<1>1. queue \in Seq(Event) /\ Len(queue) <= Limit /\ page \in Page /\ cursor + 1 \in Nat
  BY DEF Typed
<1>2. Broadcast(queue, page, Push(queue, Serving(cursor + 1)))
  BY DEF PublishServing, Serving
<1>3. Follows(queue, Push(queue, Serving(cursor + 1)), {Serving(cursor + 1)})
  BY <1>1, PushFollows, EventOf
<1>4. Alike(queue, queue) /\ SameView(page, page)
  BY <1>1, AlikeItself DEF SameView
<1> QED BY <1>1, <1>2, <1>3, <1>4, BroadcastPushes

\* What a transition pushes.
News(id) ==
  {{Told(id, notified'[id])}, {Told(id, notified'[id]), Records}}

LEMMA OperationPushes ==
  ASSUME Typed, OperationStep
  PROVE  \E id \in Ids : Moves(id) /\ \E held, p : \E new \in News(id) : Pushes(held, p, new)
<1>1. queue \in Seq(Event) /\ Len(queue) <= Limit /\ page \in Page /\ ManagerTyped
  BY DEF Typed
<1>2. PICK id \in Ids : Moves(id)
  BY <1>1, ManagerMoves DEF OperationStep
<1>3. (CHOOSE i \in Ids : notified'[i] # notified[i]) = id
  BY <1>2 DEF Moves
<1>4. Told(id, notified'[id]) \in Event /\ Records \in Event
  BY <1>2, EventOf DEF Moves
<1>5. PICK aged : aged = [i \in 1 .. Len(queue) |-> Aged(queue[i])]
  OBVIOUS
<1>6. Alike(aged, queue)
  BY <1>1, <1>5, AgedAlike
<1>7. PICK p : p = [page EXCEPT !.fresh = FALSE]
  OBVIOUS
<1>8. p \in Page /\ SameView(p, page)
  BY <1>1, <1>7 DEF Page, SameView
<1>9. PICK pushed : pushed = Push(aged, Told(id, notified'[id]))
  OBVIOUS
<1>10. Follows(aged, pushed, {Told(id, notified'[id])})
  BY <1>1, <1>4, <1>6, <1>9, PushFollows DEF Alike
<1>11. Follows(aged, Push(pushed, Records), {Told(id, notified'[id])} \cup {Records})
  BY <1>4, <1>6, <1>10, PushesFollow DEF Alike
<1>12. \/ Broadcast(aged, p, pushed)
       \/ Broadcast(aged, p, Push(pushed, Records))
  BY <1>3, <1>5, <1>7, <1>9, Zenon DEF OperationStep, Told, Records
<1>13. {Told(id, notified'[id])} \cup {Records} = {Told(id, notified'[id]), Records}
  OBVIOUS
<1>14. \E new \in News(id) : Pushes(aged, p, new)
  BY <1>1, <1>6, <1>8, <1>10, <1>11, <1>12, <1>13, BroadcastPushes DEF News
<1> QED BY <1>2, <1>14

\* What is pushed is what changed: the operation as it is now, or the cursor.
Accounts(new) ==
  /\ new \subseteq Event
  /\ \A e \in new : e.name = "operation" => e.status = notified'[e.id]
  /\ \A id \in Ids :
       notified'[id] # notified[id] \/ id \in retained' \ retained =>
         \E e \in new : e.name = "operation" /\ e.id = id
  /\ \A id \in Ids : Finished(notified[id]) => notified'[id] = notified[id]
  /\ \A e \in new : e.name = "serving" => e.cursor = cursor'
  /\ cursor' = cursor \/ (cursor' = cursor + 1 /\ \E e \in new : e.name = "serving")
  /\ hubOpen' = hubOpen

PushStep(held, p, new) == Pushes(held, p, new) /\ Accounts(new)

LEMMA PumpAccounts ==
  ASSUME Typed, PumpPublishes
  PROVE  \E held, p, new : PushStep(held, p, new)
<1>1. PICK fresh \in BOOLEAN : Pushes(queue, page, {Sessions(fresh)})
  BY PumpPushes
<1>2. notified' = notified /\ retained' = retained /\ cursor' = cursor /\ hubOpen' = hubOpen
  BY DEF PumpPublishes, operationVars, servingVars
<1>3. Accounts({Sessions(fresh)})
  BY <1>2, EventOf, EventNames DEF Accounts
<1> QED BY <1>1, <1>3 DEF PushStep

LEMMA ServingAccounts ==
  ASSUME Typed, PublishServing
  PROVE  \E held, p, new : PushStep(held, p, new)
<1>1. Pushes(queue, page, {Serving(cursor + 1)})
  BY ServingPushes
<1>2. notified' = notified /\ retained' = retained /\ cursor' = cursor + 1 /\ hubOpen' = hubOpen
  BY DEF PublishServing, operationVars
<1>3. cursor + 1 \in Nat
  BY DEF Typed
<1>4. Accounts({Serving(cursor + 1)})
  BY <1>2, <1>3, EventOf, EventNames DEF Accounts
<1> QED BY <1>1, <1>4 DEF PushStep

LEMMA OperationAccounts ==
  ASSUME Typed, OperationStep
  PROVE  \E held, p, new : PushStep(held, p, new)
<1>1. PICK id \in Ids : Moves(id) /\ \E held, p : \E new \in News(id) : Pushes(held, p, new)
  BY OperationPushes
<1>2. PICK held, p, new : new \in News(id) /\ Pushes(held, p, new)
  BY <1>1
<1>3. cursor' = cursor /\ hubOpen' = hubOpen
  BY DEF OperationStep, servingVars
<1>4. Told(id, notified'[id]) \in Event /\ Records \in Event
  BY <1>1, EventOf DEF Moves
<1>5. new \subseteq Event
  BY <1>2, <1>4 DEF News
<1>6. \A e \in new : e = Records \/ e = Told(id, notified'[id])
  BY <1>2 DEF News
<1>7. Told(id, notified'[id]) \in new
  BY <1>2 DEF News
<1>8. \A e \in new : e.name = "operation" => e.status = notified'[e.id]
  BY <1>6, EventNames
<1>9. \A e \in new : e.name # "serving"
  BY <1>6, EventNames
<1>10. \A i \in Ids : notified'[i] # notified[i] \/ i \in retained' \ retained =>
         \E e \in new : e.name = "operation" /\ e.id = i
  <2>1. \A i \in Ids : notified'[i] # notified[i] \/ i \in retained' \ retained => i = id
    BY <1>1 DEF Moves
  <2> QED BY <1>7, <2>1, EventNames
<1>11. \A i \in Ids : Finished(notified[i]) => notified'[i] = notified[i]
  BY <1>1 DEF Moves
<1>12. Accounts(new)
  BY <1>3, <1>5, <1>8, <1>9, <1>10, <1>11 DEF Accounts
<1> QED BY <1>2, <1>12 DEF PushStep

\* An aged event keeps its name, and all but the sessions stay as they were.
LEMMA AlikeEvents ==
  ASSUME NEW q \in Seq(Event), NEW held, Alike(held, q)
  PROVE  /\ DOMAIN held = DOMAIN q
         /\ \A i \in DOMAIN q :
              /\ q[i] \in Event /\ held[i] \in Event /\ held[i].name = q[i].name
              /\ q[i].name # "sessions" => held[i] = q[i]
<1>1. DOMAIN held = 1 .. Len(held) /\ DOMAIN q = 1 .. Len(q) /\ Len(held) = Len(q)
  BY DEF Alike
<1>2. \A i \in DOMAIN q : q[i] \in Event /\ held[i] \in Event
  BY <1>1 DEF Alike
<1> QED BY <1>1, <1>2 DEF Alike

------------------------------------------------------------------------------
(* What a push keeps *)

LEMMA PushStream ==
  ASSUME Typed, Placed, NEW held, NEW p, NEW new, Pushes(held, p, new)
  PROVE  /\ stream' \in Stream /\ stream'.connections = stream.connections
         /\ stream' = stream \/ (stream'.at \in {"relay", "sessions", "cursor"} /\ Cleared(queue'))
         /\ Placed'
<1>1. stream \in Stream /\ queue \in Seq(Event)
  BY DEF Typed
<1>2. CASE Missed(p)
  BY <1>1, <1>2 DEF Missed, Placed
<1>3. CASE Subscribed /\ stream' = stream
  BY <1>1, <1>3 DEF Placed, Subscribed
<1>4. CASE Raced(held, p) /\ Cleared(queue')
  <2>1. PICK i \in DOMAIN held : stream' = Taken(p, held[i]).stream
    BY <1>4 DEF Raced
  <2>2. held[i] \in Event
    BY <1>1, <2>1, AlikeEvents DEF Pushes
  <2>3. stream.at = "relay"
    BY <1>4 DEF Raced
  <2>4. /\ stream' \in Stream /\ stream'.connections = stream.connections
        /\ stream'.at \in {"relay", "sessions", "cursor"}
        /\ stream'.at = "sessions" => stream'.whole
    BY <1>1, <2>1, <2>2, <2>3, TakenStream
  <2> QED BY <1>4, <2>4 DEF Placed
<1> QED BY <1>2, <1>3, <1>4 DEF Pushes, Reached, Overrun, Dropped

LEMMA ShortList ==
  ASSUME Typed
  PROVE  Len(page.activity) <= Limit
BY DEF Typed, GoodList

LEMMA PushPage ==
  ASSUME Typed, InOrder, NEW held, NEW p, NEW new, Pushes(held, p, new)
  PROVE  page' \in Page /\ GoodList(page'.activity, durable)
<1>1. /\ stream.cursor \in Nat /\ queue \in Seq(Event) /\ cursor \in Nat
      /\ durable \in Nat /\ cursor <= durable /\ GoodList(page.activity, durable)
  BY StreamsAssumption DEF Typed, Stream
<1>2. p \in Page /\ p.activity = page.activity /\ Alike(held, queue)
  BY DEF Pushes, SameView
<1>3. CASE page' = p
  BY <1>1, <1>2, <1>3
<1>4. CASE Raced(held, p)
  <2>1. PICK i \in DOMAIN held : page' = Taken(p, held[i]).page
    BY <1>4 DEF Raced
  <2>2. held[i] \in Event /\ i \in DOMAIN queue
    BY <1>1, <1>2, <2>1, AlikeEvents
  <2>3. ASSUME held[i].name = "serving", ~(held[i].cursor <= stream.cursor)
        PROVE  held[i].cursor \in 1 .. durable
    <3>1. held[i] = queue[i] /\ i \in Servings(queue)
      BY <1>1, <1>2, <2>2, <2>3, AlikeEvents DEF Servings
    <3>2. held[i].cursor <= cursor /\ held[i].cursor \in Nat
      BY <2>2, <2>3, <3>1, EventByName DEF InOrder
    <3> QED BY <1>1, <2>3, <3>2
  <2>4. PICK e \in Event : e = held[i]
    BY <2>2
  <2>5. Taken(p, e).page \in Page /\ GoodList(Taken(p, e).page.activity, durable)
    BY <1>1, <1>2, <2>3, <2>4, TakenGood
  <2> QED BY <2>1, <2>4, <2>5
<1> QED BY <1>3, <1>4 DEF Pushes, Missed, Reached, Overrun

\* A page that folds in what is told of a finished operation still shows it as it is.
LEMMA FoldedFinal ==
  ASSUME NEW p \in Page, NEW id \in Ids, NEW status \in Status, NEW now,
         \A i \in Ids : Finished(p.shown[i]) => p.shown[i] = now[i],
         Finished(status) => status = now[id]
  PROVE  LET r == FoldOperation(p, id, status)
         IN  \A i \in Ids : Finished(r.shown[i]) => r.shown[i] = now[i]
BY FoldedOperation

LEMMA PushFinal ==
  ASSUME Typed, FinalQueue(queue), FinalPage(page), NEW held, NEW p, NEW new, PushStep(held, p, new)
  PROVE  FinalQueue(queue)' /\ FinalPage(page)'
<1>1. queue \in Seq(Event) /\ Alike(held, queue) /\ p \in Page /\ p.shown = page.shown
  BY DEF Typed, PushStep, Pushes, SameView
<1>2. \A id \in Ids : Finished(notified[id]) => notified'[id] = notified[id]
  BY DEF PushStep, Accounts
<1>3. \A i \in DOMAIN held : held[i].name = "operation" =>
         /\ held[i] = queue[i] /\ i \in DOMAIN queue
         /\ held[i].id \in Ids /\ held[i].status \in Status
  BY <1>1, AlikeEvents, EventByName
<1>4. \A i \in DOMAIN held : held[i].name = "operation" /\ Finished(held[i].status) =>
         held[i].status = notified'[held[i].id]
  BY <1>2, <1>3 DEF FinalQueue
<1>9. Len(p.activity) <= Limit
  BY ShortList DEF PushStep, Pushes, SameView
<1>5. \A i \in Ids : Finished(p.shown[i]) => p.shown[i] = notified'[i]
  BY <1>1, <1>2 DEF FinalPage
<1>6. \A e \in new : e.name = "operation" => e.status = notified'[e.id]
  BY DEF PushStep, Accounts
<1>7. FinalQueue(queue)'
  <2>1. CASE queue' = queue
    BY <1>1, <1>3, <1>4, <2>1, AlikeEvents DEF FinalQueue
  <2>2. CASE Kept(held, queue', new)
    <3>1. /\ \A i \in DOMAIN held : queue'[i] = held[i]
          /\ \A i \in DOMAIN queue' : i > Len(held) => queue'[i] \in new
          /\ DOMAIN held = 1 .. Len(held) /\ Len(held) \in Nat
          /\ DOMAIN queue' = 1 .. Len(queue') /\ Len(queue') \in Nat
      BY <1>1, <2>2 DEF Kept, Alike, PushStep, Pushes
    <3>2. \A i \in DOMAIN queue' : i \in DOMAIN held \/ queue'[i] \in new
      BY <3>1
    <3> QED BY <1>4, <1>6, <3>1, <3>2, Zenon DEF FinalQueue
  <2>3. CASE Dropped(queue', new)
    <3>1. \A i \in DOMAIN queue' : queue'[i] \in new \/ queue'[i].name = "resync"
      BY <2>3, EventNames DEF Dropped
    <3> QED BY <1>6, <3>1 DEF FinalQueue
  <2> QED BY <2>1, <2>2, <2>3 DEF PushStep, Pushes, Missed, Reached, Overrun
<1>8. FinalPage(page)'
  <2>1. CASE page' = p
    BY <1>5, <2>1 DEF FinalPage
  <2>2. CASE Raced(held, p)
    <3>1. PICK i \in DOMAIN held : page' = Taken(p, held[i]).page
      BY <2>2 DEF Raced
    <3>2. held[i] \in Event
      BY <1>1, <3>1, AlikeEvents
    <3>3. CASE held[i].name = "operation"
      <4>1. page' = FoldOperation(p, held[i].id, held[i].status)
        BY <1>1, <1>9, <3>1, <3>2, <3>3, TakenPage, Zenon
      <4>2. held[i].id \in Ids /\ held[i].status \in Status
        BY <1>3, <3>1, <3>3
      <4>3. Finished(held[i].status) => held[i].status = notified'[held[i].id]
        BY <1>4, <3>1, <3>3
      <4>4. \A j \in Ids : Finished(page'.shown[j]) => page'.shown[j] = notified'[j]
        BY <1>1, <1>5, <4>1, <4>2, <4>3, FoldedFinal
      <4> QED BY <4>4 DEF FinalPage
    <3>4. CASE held[i].name # "operation"
      <4>1. page'.shown = p.shown
        BY <1>1, <1>9, <3>1, <3>2, <3>4, TakenPage, Zenon
      <4> QED BY <1>5, <4>1 DEF FinalPage
    <3> QED BY <3>3, <3>4
  <2> QED BY <2>1, <2>2 DEF PushStep, Pushes, Missed, Reached, Overrun
<1> QED BY <1>7, <1>8

\* Where the events of a queue that kept what it held come from.
LEMMA KeptEvents ==
  ASSUME Typed, NEW held, NEW p, NEW new, Pushes(held, p, new), Kept(held, queue', new)
  PROVE  /\ Len(queue) \in Nat /\ DOMAIN queue = 1 .. Len(queue)
         /\ DOMAIN queue' = 1 .. Len(queue') /\ Len(queue') \in Nat
         /\ \A i \in DOMAIN queue :
              /\ i \in DOMAIN queue' /\ queue'[i].name = queue[i].name
              /\ queue[i].name # "sessions" => queue'[i] = queue[i]
         /\ \A i \in DOMAIN queue' : i \in DOMAIN queue \/ (i > Len(queue) /\ queue'[i] \in new)
         /\ \A e \in new : \E i \in DOMAIN queue' : i > Len(queue) /\ queue'[i] = e
<1>1. queue \in Seq(Event) /\ Alike(held, queue) /\ queue' \in Seq(Event)
  BY DEF Typed, Pushes
<1>2. /\ Len(queue) \in Nat /\ DOMAIN queue = 1 .. Len(queue)
      /\ DOMAIN queue' = 1 .. Len(queue') /\ Len(queue') \in Nat
      /\ Len(held) = Len(queue) /\ DOMAIN held = DOMAIN queue
  BY <1>1, AlikeEvents DEF Alike
<1>3. Len(queue) <= Len(queue')
  BY <1>2 DEF Kept
<1>4. \A i \in DOMAIN queue : i \in DOMAIN queue'
  BY <1>2, <1>3
<1>5. \A i \in DOMAIN queue : queue'[i] = held[i]
  BY <1>2 DEF Kept
<1>6. \A i \in DOMAIN queue :
        /\ queue'[i].name = queue[i].name
        /\ queue[i].name # "sessions" => queue'[i] = queue[i]
  BY <1>1, <1>5, AlikeEvents
<1>7. \A i \in DOMAIN queue' : i > Len(queue) => queue'[i] \in new
  BY <1>2 DEF Kept
<1>8. \A i \in DOMAIN queue' : i \in DOMAIN queue \/ i > Len(queue)
  BY <1>2
<1>9. \A e \in new : \E i \in DOMAIN queue' : i > Len(queue) /\ queue'[i] = e
  BY <1>2 DEF Kept
<1> QED BY <1>2, <1>4, <1>6, <1>7, <1>8, <1>9

LEMMA DroppedEvents ==
  ASSUME NEW q, NEW new, Dropped(q, new)
  PROVE  \A i \in DOMAIN q : q[i] \in new \/ q[i].name = "resync"
BY EventNames DEF Dropped

LEMMA KeptAbout ==
  ASSUME Typed, NEW held, NEW p, NEW new, Pushes(held, p, new), Kept(held, queue', new), NEW id
  PROVE  \A i \in About(queue, id) : i \in About(queue', id) /\ queue'[i] = queue[i]
BY KeptEvents DEF About

LEMMA PushLast ==
  ASSUME Typed, Placed, LastTold, NEW held, NEW p, NEW new, PushStep(held, p, new)
  PROVE  LastTold'
<1> SUFFICES ASSUME hubOpen', NEW id \in Ids, NEW i \in About(queue', id),
                    \A j \in About(queue', id) : j <= i
             PROVE  queue'[i].status = notified'[id]
  BY DEF LastTold
<1>1. /\ \A e \in new : e.name = "operation" => e.status = notified'[e.id]
      /\ notified'[id] # notified[id] => \E e \in new : e.name = "operation" /\ e.id = id
      /\ hubOpen /\ Pushes(held, p, new)
  BY DEF PushStep, Accounts
<1>2. i \in DOMAIN queue' /\ queue'[i].name = "operation" /\ queue'[i].id = id
  BY DEF About
<1>3. queue'[i] \in new => queue'[i].status = notified'[id]
  BY <1>1, <1>2
<1>4. CASE Missed(p)
  <2>1. queue' = queue /\ stream.at = "away"
    BY <1>1, <1>4 DEF Missed, Subscribed
  <2>2. queue = <<>>
    BY <2>1 DEF Placed
  <2> QED BY <1>2, <2>1, <2>2
<1>5. CASE Kept(held, queue', new)
  <2>1. CASE queue'[i] \in new
    BY <1>3, <2>1
  <2>2. CASE queue'[i] \notin new
    <3>1. i \in DOMAIN queue /\ queue'[i] = queue[i] /\ i \in Nat /\ Len(queue) \in Nat /\ i <= Len(queue)
      BY <1>1, <1>2, <1>5, <2>2, KeptEvents
    <3>2. i \in About(queue, id)
      BY <1>2, <3>1 DEF About
    <3>3. \A j \in About(queue, id) : j <= i
      BY <1>1, <1>5, KeptAbout
    <3>4. queue[i].status = notified[id]
      BY <1>1, <3>2, <3>3 DEF LastTold
    <3>5. ASSUME NEW e \in new, e.name = "operation", e.id = id
          PROVE  FALSE
      <4>1. PICK j \in DOMAIN queue' : j > Len(queue) /\ queue'[j] = e
        BY <1>1, <1>5, KeptEvents
      <4>2. j \in About(queue', id) /\ j \in Nat
        BY <1>1, <1>5, <3>5, <4>1, KeptEvents DEF About
      <4> QED BY <3>1, <4>1, <4>2
    <3> QED BY <1>1, <3>1, <3>4, <3>5
  <2> QED BY <2>1, <2>2
<1>6. CASE Dropped(queue', new)
  BY <1>2, <1>3, <1>6, DroppedEvents
<1> QED BY <1>1, <1>4, <1>5, <1>6 DEF Pushes, Reached, Overrun

LEMMA PushFollowed ==
  ASSUME Typed, Followed, NEW held, NEW p, NEW new, PushStep(held, p, new)
  PROVE  Followed'
<1> SUFFICES ASSUME hubOpen', ~Coming(stream'), ~Cleared(queue'),
                    NEW id \in Ids, About(queue', id) = {}
             PROVE  Agrees(page, id)'
  BY DEF Followed
<1>1. /\ notified'[id] # notified[id] \/ id \in retained' \ retained =>
           \E e \in new : e.name = "operation" /\ e.id = id
      /\ hubOpen /\ Pushes(held, p, new)
  BY DEF PushStep, Accounts
<1>2. CASE Missed(p)
  BY <1>1, <1>2 DEF Missed, Subscribed, Coming
<1>3. CASE Reached(held, p, new)
  <2>1. Kept(held, queue', new) /\ stream' = stream /\ page' = p /\ p.shown = page.shown
    BY <1>1, <1>3 DEF Reached, Pushes, SameView
  <2>2. ASSUME NEW e \in new, e.name = "operation", e.id = id
        PROVE  FALSE
    <3>1. PICK j \in DOMAIN queue' : queue'[j] = e
      BY <1>1, <2>1, KeptEvents
    <3> QED BY <2>2, <3>1 DEF About
  <2>3. notified'[id] = notified[id] /\ (id \in retained' => id \in retained)
    BY <1>1, <2>2
  <2>4. ~Cleared(queue)
    <3>1. Resync.name # "sessions"
      BY EventNames
    <3> QED BY <1>1, <2>1, <3>1, KeptEvents DEF Cleared
  <2>5. About(queue, id) = {}
    BY <1>1, <2>1, KeptAbout
  <2>6. Agrees(page, id)
    BY <1>1, <2>1, <2>4, <2>5 DEF Followed
  <2> QED BY <2>1, <2>3, <2>6 DEF Agrees
<1>4. CASE Overrun(held, p, new)
  BY <1>4 DEF Overrun, Dropped
<1> QED BY <1>1, <1>2, <1>3, <1>4 DEF Pushes

LEMMA PushInOrder ==
  ASSUME Typed, InOrder, NEW held, NEW p, NEW new, PushStep(held, p, new)
  PROVE  InOrder'
<1>1. /\ \A e \in new : e.name = "serving" => e.cursor = cursor'
      /\ cursor \in Nat /\ cursor' \in Nat /\ cursor <= cursor'
      /\ queue \in Seq(Event) /\ Pushes(held, p, new)
  BY DEF Typed, PushStep, Accounts
<1>2. \A i \in Servings(queue) : queue[i].cursor \in Nat /\ queue[i].cursor <= cursor
  BY <1>1, EventByName DEF Servings, InOrder
<1>3. CASE queue' = queue
  BY <1>1, <1>2, <1>3 DEF InOrder
<1>4. CASE Kept(held, queue', new)
  <2>1. \A i \in Servings(queue') :
          \/ i \in Servings(queue) /\ queue'[i] = queue[i] /\ i <= Len(queue)
          \/ i > Len(queue) /\ queue'[i].cursor = cursor'
    <3>1. \A i \in DOMAIN queue : i <= Len(queue)
      BY <1>1, <1>4, KeptEvents
    <3> QED BY <1>1, <1>4, <3>1, KeptEvents DEF Servings
  <2>2. \A i \in Servings(queue') : queue'[i].cursor \in Nat /\ queue'[i].cursor <= cursor'
    BY <1>1, <1>2, <2>1
  <2>3. \A i \in Servings(queue') : i \in Nat
    BY <1>1, <1>4, KeptEvents DEF Servings
  <2>4. Len(queue) \in Nat
    BY <1>1
  <2>5. ASSUME NEW i \in Servings(queue'), NEW j \in Servings(queue'), i <= j
        PROVE  queue'[i].cursor <= queue'[j].cursor
    <3>1. CASE queue'[j].cursor = cursor'
      BY <2>2, <3>1
    <3>2. CASE j \in Servings(queue) /\ queue'[j] = queue[j] /\ j <= Len(queue)
      <4>1. i \in Servings(queue) /\ queue'[i] = queue[i]
        BY <2>1, <2>3, <2>4, <2>5, <3>2
      <4> QED BY <2>5, <3>2, <4>1 DEF InOrder
    <3> QED BY <2>1, <3>1, <3>2
  <2> QED BY <2>2, <2>5 DEF InOrder
<1>5. CASE Dropped(queue', new)
  <2>1. \A i \in Servings(queue') : queue'[i].cursor = cursor'
    BY <1>1, <1>5, DroppedEvents DEF Servings
  <2> QED BY <1>1, <2>1 DEF InOrder
<1> QED BY <1>1, <1>3, <1>4, <1>5 DEF Pushes, Missed, Reached, Overrun

\* A queue that has all observations up to the cursor goes on having them.
LEMMA KeptNoGap ==
  ASSUME Typed, NEW held, NEW p, NEW new, PushStep(held, p, new), Kept(held, queue', new),
         hubOpen, NEW base \in Nat, NoGap(queue, base)
  PROVE  NoGap(queue, base)'
<1>1. /\ \A e \in new : e.name = "serving" => e.cursor = cursor'
      /\ cursor' = cursor \/ (cursor' = cursor + 1 /\ \E e \in new : e.name = "serving")
      /\ cursor \in Nat /\ Pushes(held, p, new)
  BY DEF Typed, PushStep, Accounts
<1>2. \A i \in Servings(queue) : i \in Servings(queue') /\ queue'[i] = queue[i]
  BY <1>1, KeptEvents DEF Servings
<1>3. \A n : Reaches(queue, base, n) => Reaches(queue', base, n)
  BY <1>2 DEF Reaches
<1>4. Reaches(queue', base, cursor)
  BY <1>3 DEF NoGap
<1>5. Reaches(queue', base, cursor')
  <2>1. CASE cursor' = cursor
    BY <1>4, <2>1
  <2>2. CASE cursor' = cursor + 1 /\ \E e \in new : e.name = "serving"
    <3>1. PICK e \in new : e.name = "serving"
      BY <2>2
    <3>2. PICK j \in DOMAIN queue' : queue'[j] = e
      BY <1>1, KeptEvents
    <3>3. j \in Servings(queue') /\ queue'[j].cursor = cursor + 1
      BY <1>1, <2>2, <3>1, <3>2 DEF Servings
    <3>4. \A c \in Nat : c <= cursor + 1 => c <= cursor \/ c = cursor + 1
      BY <1>1
    <3> QED BY <1>4, <2>2, <3>3, <3>4 DEF Reaches
  <2> QED BY <1>1, <2>1, <2>2
<1>6. \A i \in Servings(queue') : Reaches(queue', base, queue'[i].cursor)
  <2>1. \A i \in Servings(queue') :
          (i \in Servings(queue) /\ queue'[i] = queue[i]) \/ queue'[i].cursor = cursor'
    BY <1>1, KeptEvents DEF Servings
  <2> QED BY <1>3, <1>5, <2>1 DEF NoGap
<1> QED BY <1>5, <1>6 DEF NoGap

LEMMA PushComplete ==
  ASSUME Typed, Complete, NEW held, NEW p, NEW new, PushStep(held, p, new)
  PROVE  Complete'
<1>1. /\ cursor' = cursor \/ cursor' = cursor + 1
      /\ hubOpen' = hubOpen /\ Pushes(held, p, new)
      /\ cursor \in Nat /\ stream.cursor \in Nat /\ stream.read \in Nat
      /\ SameView(p, page)
  BY DEF Typed, Stream, PushStep, Accounts, Pushes
<1>2. stream.at = "activity" => stream.read <= cursor'
  BY <1>1 DEF Complete
<1>3. CASE Missed(p)
  <2>1. queue' = queue /\ stream' = stream /\ page' = p
    BY <1>3 DEF Missed
  <2>2. CASE ~hubOpen
    <3>1. \A base : NoGap(queue, base) => NoGap(queue, base)'
      BY <1>1, <2>1, <2>2 DEF NoGap
    <3> QED BY <1>1, <1>2, <2>1, <3>1 DEF Complete, SameView
  <2>3. CASE stream.at = "away"
    BY <2>1, <2>3 DEF Complete
  <2> QED BY <1>3, <2>2, <2>3 DEF Missed, Subscribed
<1>4. CASE Reached(held, p, new)
  <2>1. Kept(held, queue', new) /\ stream' = stream /\ page' = p /\ hubOpen
    BY <1>4 DEF Reached, Subscribed
  <2>2. Cleared(queue) => Cleared(queue')
    <3>1. Resync.name # "sessions"
      BY EventNames
    <3> QED BY <1>1, <2>1, <3>1, KeptEvents DEF Cleared
  <2>3. \A base \in Nat : NoGap(queue, base) => NoGap(queue, base)'
    BY <2>1, KeptNoGap
  <2> QED BY <1>1, <1>2, <2>1, <2>2, <2>3 DEF Complete, SameView
<1>5. CASE Overrun(held, p, new)
  <2>1. Cleared(queue')
    BY <1>5 DEF Overrun, Dropped
  <2>2. CASE stream' = stream
    BY <1>2, <2>1, <2>2 DEF Complete
  <2>3. CASE Raced(held, p)
    <3>1. PICK i \in DOMAIN held : stream' = Taken(p, held[i]).stream
      BY <2>3 DEF Raced
    <3>2. held[i] \in Event /\ stream \in Stream /\ stream.at = "relay"
      BY <1>1, <2>3, <3>1, AlikeEvents DEF Typed, Pushes, Raced
    <3>3. stream'.at \in {"relay", "sessions", "cursor"}
      BY <3>1, <3>2, TakenStream
    <3> QED BY <2>1, <3>3 DEF Complete
  <2> QED BY <1>5, <2>2, <2>3 DEF Overrun
<1> QED BY <1>1, <1>3, <1>4, <1>5 DEF Pushes

------------------------------------------------------------------------------
(* The steps that push *)

LEMMA PushInv ==
  ASSUME Inv, Typed', NEW held, NEW p, NEW new, PushStep(held, p, new)
  PROVE  Inv'
<1>1. Pushes(held, p, new)
  BY DEF PushStep
<1>2. Placed'
  BY <1>1, PushStream DEF Inv
<1>3. LastTold' /\ Followed' /\ FinalQueue(queue)' /\ FinalPage(page)'
  BY PushLast, PushFollowed, PushFinal DEF Inv
<1>4. InOrder' /\ Complete'
  BY PushInOrder, PushComplete DEF Inv
<1> QED BY <1>2, <1>3, <1>4 DEF Inv

\* The half of Typed that is not about what is pushed.
Counters ==
  /\ ManagerTyped
  /\ hubOpen \in BOOLEAN /\ token \in BOOLEAN /\ recording \in {"none", "writing", "written"}
  /\ computed \in {"none", "fresh", "aged"}
  /\ durable \in 0 .. MaxServings /\ cursor \in Nat
  /\ durable = IF recording = "written" THEN cursor + 1 ELSE cursor
  /\ recording = "writing" => durable < MaxServings

LEMMA PushTyped ==
  ASSUME Inv, Counters', durable' = durable, NEW held, NEW p, NEW new, Pushes(held, p, new)
  PROVE  Typed'
<1>1. Typed /\ Placed /\ InOrder
  BY DEF Inv
<1>2. stream' \in Stream /\ stream'.connections <= MaxConnections
  BY <1>1, PushStream DEF Typed
<1>3. queue' \in Seq(Event) /\ Len(queue') <= Limit
  BY DEF Pushes
<1>4. page' \in Page /\ GoodList(page'.activity, durable')
  BY <1>1, PushPage
<1> QED BY <1>2, <1>3, <1>4 DEF Typed, Counters

LEMMA OperationInv ==
  ASSUME Inv, OperationStep
  PROVE  Inv'
<1>1. Typed
  BY DEF Inv
<1>2. PICK held, p, new : PushStep(held, p, new)
  BY <1>1, OperationAccounts
<1>3. ManagerTyped'
  BY <1>1, ManagerMoves, MovesTyped DEF OperationStep, Typed
<1>4. Counters' /\ durable' = durable
  BY <1>1, <1>3 DEF Typed, Counters, OperationStep, servingVars
<1>5. Typed'
  BY <1>2, <1>4, PushTyped DEF PushStep
<1> QED BY <1>2, <1>5, PushInv

LEMMA PumpPublishesInv ==
  ASSUME Inv, PumpPublishes
  PROVE  Inv'
<1>1. Typed
  BY DEF Inv
<1>2. PICK held, p, new : PushStep(held, p, new)
  BY <1>1, PumpAccounts
<1>3. Counters' /\ durable' = durable
  BY <1>1 DEF Typed, ManagerTyped, Counters, PumpPublishes, operationVars, servingVars
<1>4. Typed'
  BY <1>2, <1>3, PushTyped DEF PushStep
<1> QED BY <1>2, <1>4, PushInv

LEMMA PublishServingInv ==
  ASSUME Inv, PublishServing
  PROVE  Inv'
<1>1. Typed
  BY DEF Inv
<1>2. PICK held, p, new : PushStep(held, p, new)
  BY <1>1, ServingAccounts
<1>3. /\ recording = "written" /\ recording' = "none" /\ cursor' = cursor + 1 /\ durable' = durable
      /\ UNCHANGED <<notified, retained, hubOpen, token>>
      /\ computed' = computed
  BY DEF PublishServing, operationVars
<1>4. /\ durable = cursor + 1 /\ cursor \in Nat /\ durable \in 0 .. MaxServings
      /\ ManagerTyped /\ hubOpen \in BOOLEAN /\ token \in BOOLEAN
      /\ computed \in {"none", "fresh", "aged"}
  BY <1>1, <1>3 DEF Typed
<1>5. Counters'
  <2>1. ManagerTyped'
    BY <1>3, <1>4 DEF ManagerTyped
  <2>2. durable' = cursor' /\ cursor' \in Nat /\ durable' \in 0 .. MaxServings
    BY <1>3, <1>4
  <2>3. /\ recording' \in {"none", "writing", "written"} /\ recording' # "writing"
        /\ durable' = IF recording' = "written" THEN cursor' + 1 ELSE cursor'
    BY <1>3, <2>2
  <2> QED BY <1>3, <1>4, <2>1, <2>2, <2>3, Zenon DEF Counters
<1>6. Typed'
  BY <1>2, <1>3, <1>5, PushTyped DEF PushStep
<1> QED BY <1>2, <1>6, PushInv

------------------------------------------------------------------------------
(* The steps that leave the queue *)

Rests ==
  /\ queue' = queue /\ notified' = notified /\ retained' = retained /\ cursor' = cursor
  /\ hubOpen' => hubOpen

LEMMA RestsKeeps ==
  ASSUME Inv, Rests
  PROVE  /\ LastTold' /\ FinalQueue(queue)' /\ InOrder'
         /\ \A base : NoGap(queue, base) => NoGap(queue, base)'
<1>1. LastTold'
  BY DEF Inv, Rests, LastTold
<1>2. FinalQueue(queue)'
  BY DEF Inv, Rests, FinalQueue
<1>3. InOrder'
  BY DEF Inv, Rests, InOrder
<1>4. \A base : NoGap(queue, base) => NoGap(queue, base)'
  BY DEF Rests, NoGap
<1> QED BY <1>1, <1>2, <1>3, <1>4

LEMMA RestsShown ==
  ASSUME Inv, Rests, page'.shown = page.shown, Coming(stream) => Coming(stream')
  PROVE  FinalPage(page)' /\ Followed'
<1>1. FinalPage(page)'
  BY DEF Inv, Rests, FinalPage
<1>2. Followed'
  BY DEF Inv, Rests, Followed, Agrees
<1> QED BY <1>1, <1>2

\* Neither the stream nor the page moves.
LEMMA StillInv ==
  ASSUME Inv, Rests, Counters', durable <= durable', stream' = stream, page' = page
  PROVE  Inv'
<1>1. LastTold' /\ FinalQueue(queue)' /\ InOrder' /\ FinalPage(page)' /\ Followed'
  BY RestsKeeps, RestsShown
<1>2. Typed /\ Placed /\ Complete
  BY DEF Inv
<1>3. Typed'
  <2>1. GoodList(page'.activity, durable')
    <3>1. durable \in 0 .. MaxServings
      BY <1>2, Zenon DEF Typed
    <3>2. durable' \in 0 .. MaxServings
      BY Zenon DEF Counters
    <3>3. durable \in Nat /\ durable' \in Nat /\ GoodList(page.activity, durable)
      BY <1>2, <3>1, <3>2, StreamsAssumption DEF Typed
    <3> QED BY <3>3, GoodGrows
  <2> QED BY <1>2, <2>1 DEF Typed, Counters, Rests
<1>4. Placed'
  BY <1>2 DEF Placed, Rests
<1>5. Complete'
  BY <1>2, RestsKeeps DEF Complete, Rests
<1> QED BY <1>1, <1>3, <1>4, <1>5 DEF Inv

LEMMA PumpTakesInv ==
  ASSUME Inv, PumpTakes
  PROVE  Inv'
<1>1. Rests /\ stream' = stream /\ page' = page /\ durable' = durable /\ durable \in Nat
  BY DEF PumpTakes, Rests, operationVars, servingVars, Inv, Typed
<1>2. Counters'
  BY DEF PumpTakes, operationVars, servingVars, Inv, Typed, Counters, ManagerTyped
<1> QED BY <1>1, <1>2, StillInv

LEMMA CloseHubInv ==
  ASSUME Inv, CloseHub
  PROVE  Inv'
<1>1. Rests /\ stream' = stream /\ page' = page /\ durable' = durable /\ durable \in Nat
  BY DEF CloseHub, Rests, operationVars, servingVars, Inv, Typed
<1>2. Counters'
  BY DEF CloseHub, operationVars, servingVars, Inv, Typed, Counters, ManagerTyped
<1> QED BY <1>1, <1>2, StillInv

LEMMA BeginServingInv ==
  ASSUME Inv, BeginServing
  PROVE  Inv'
<1>1. Rests /\ stream' = stream /\ page' = page /\ durable' = durable /\ durable \in Nat
  BY DEF BeginServing, Rests, operationVars, hubVars, Inv, Typed
<1>2. Counters'
  BY DEF BeginServing, operationVars, hubVars, Inv, Typed, Counters, ManagerTyped
<1> QED BY <1>1, <1>2, StillInv

LEMMA ServingFailsInv ==
  ASSUME Inv, ServingFails
  PROVE  Inv'
<1>1. Rests /\ stream' = stream /\ page' = page /\ durable' = durable /\ durable \in Nat
  BY DEF ServingFails, Rests, operationVars, hubVars, Inv, Typed
<1>2. Counters'
  BY DEF ServingFails, operationVars, hubVars, Inv, Typed, Counters, ManagerTyped
<1> QED BY <1>1, <1>2, StillInv

LEMMA RecordServingInv ==
  ASSUME Inv, RecordServing
  PROVE  Inv'
<1>1. Rests /\ stream' = stream /\ page' = page /\ durable <= durable'
  BY DEF RecordServing, Rests, operationVars, hubVars, Inv, Typed
<1>2. Counters'
  BY StreamsAssumption
     DEF RecordServing, operationVars, hubVars, Inv, Typed, Counters, ManagerTyped
<1> QED BY <1>1, <1>2, StillInv

\* What the steps of the stream leave alone.
StreamMoves == UNCHANGED <<operationVars, hubVars, servingVars>>

LEMMA StreamMovesKeep ==
  ASSUME Inv, StreamMoves
  PROVE  /\ Rests /\ Counters' /\ durable' = durable /\ cursor' = cursor
         /\ stream' \in Stream /\ stream'.connections <= MaxConnections
            /\ page' \in Page /\ GoodList(page'.activity, durable) => Typed'
<1>1. Typed
  BY DEF Inv
<1>2. Rests /\ durable' = durable /\ token' = token /\ computed' = computed /\ recording' = recording
  BY DEF StreamMoves, Rests, operationVars, hubVars, servingVars
<1>3. Counters'
  BY <1>1, <1>2 DEF Rests, Typed, Counters, ManagerTyped, StreamMoves, hubVars
<1> QED BY <1>1, <1>2, <1>3 DEF Typed, Counters, Rests

LEMMA SubscribeInv ==
  ASSUME Inv, Subscribe
  PROVE  Inv'
<1>1. Typed /\ Placed /\ stream \in Stream /\ MaxConnections \in Nat
  BY StreamsAssumption DEF Inv, Typed
<1>2. /\ stream' \in Stream /\ stream'.at = "sessions" /\ stream'.whole
      /\ stream'.connections <= MaxConnections
  <2>1. stream.connections \in Nat /\ stream.connections + 1 \in Nat
        /\ stream.connections < MaxConnections
    BY <1>1 DEF Subscribe, Stream
  <2>2. PICK more : more = stream.connections + 1
    OBVIOUS
  <2>3. stream' = [stream EXCEPT !.at = "sessions", !.whole = TRUE, !.cursor = 0,
                                 !.connections = more]
    BY <2>2 DEF Subscribe
  <2>4. more \in Nat /\ more <= MaxConnections
    BY <1>1, <2>1, <2>2
  <2>5. stream' \in Stream /\ stream'.at = "sessions" /\ stream'.whole /\ stream'.connections = more
    BY <1>1, <2>3, <2>4 DEF Stream, StreamAt
  <2> QED BY <2>4, <2>5
<1>3. StreamMoves /\ page' = page
  BY DEF Subscribe, StreamMoves
<1>4. Typed'
  BY <1>1, <1>2, <1>3, StreamMovesKeep DEF Typed
<1>5. Coming(stream')
  BY <1>2 DEF Coming
<1>6. Placed' /\ Complete'
  BY <1>2 DEF Placed, Complete
<1> QED BY <1>3, <1>4, <1>5, <1>6, RestsKeeps, RestsShown, StreamMovesKeep DEF Inv

LEMMA SendSessionsInv ==
  ASSUME Inv, SendSessions
  PROVE  Inv'
<1>1. Typed /\ Placed /\ stream \in Stream /\ page \in Page /\ stream.at = "sessions"
  BY DEF Inv, Typed, SendSessions
<1>2. /\ stream' \in Stream /\ stream'.at = "cursor" /\ stream'.whole = stream.whole
      /\ stream'.connections = stream.connections
  BY <1>1 DEF SendSessions, Stream, StreamAt
<1>3. page' \in Page /\ page'.shown = page.shown /\ page'.activity = page.activity
  BY <1>1 DEF SendSessions, Page
<1>4. StreamMoves
  BY DEF SendSessions, StreamMoves
<1>5. Typed'
  BY <1>1, <1>2, <1>3, <1>4, StreamMovesKeep DEF Typed
<1>6. Coming(stream')
  BY <1>1, <1>2 DEF Coming, Placed
<1>7. Placed' /\ Complete'
  BY <1>2 DEF Placed, Complete
<1> QED BY <1>3, <1>4, <1>5, <1>6, <1>7, RestsKeeps, RestsShown, StreamMovesKeep DEF Inv

LEMMA ReadCursorInv ==
  ASSUME Inv, ReadCursor
  PROVE  Inv'
<1>1. Typed /\ InOrder /\ stream \in Stream /\ stream.at = "cursor" /\ cursor \in Nat
  BY DEF Inv, Typed, ReadCursor
<1>2. /\ stream' \in Stream /\ stream'.at = "activity" /\ stream'.whole = stream.whole
      /\ stream'.connections = stream.connections /\ stream'.read = cursor
  BY <1>1 DEF ReadCursor, Stream, StreamAt
<1>3. StreamMoves /\ page' = page
  BY DEF ReadCursor, StreamMoves
<1>4. Typed'
  BY <1>1, <1>2, <1>3, StreamMovesKeep DEF Typed
<1>5. Coming(stream) <=> Coming(stream')
  BY <1>1, <1>2 DEF Coming
<1>6. NoGap(queue, cursor)
  <2>1. \A n \in Nat : n <= cursor => Reaches(queue, cursor, n)
    BY <1>1 DEF Reaches
  <2>2. \A i \in Servings(queue) : queue[i].cursor \in Nat /\ queue[i].cursor <= cursor
    BY <1>1, EventByName DEF Servings, InOrder, Typed
  <2> QED BY <1>1, <2>1, <2>2 DEF NoGap
<1>7. Rests /\ cursor' = cursor
  BY <1>3, StreamMovesKeep
<1>8. Complete'
  BY <1>1, <1>2, <1>6, <1>7, RestsKeeps DEF Complete
<1>9. Placed'
  BY <1>2 DEF Placed
<1> QED BY <1>3, <1>4, <1>5, <1>7, <1>8, <1>9, RestsKeeps, RestsShown DEF Inv

LEMMA SendActivityInv ==
  ASSUME Inv, SendActivity
  PROVE  Inv'
<1>1. /\ Typed /\ Complete /\ stream \in Stream /\ stream.at = "activity" /\ page \in Page
      /\ cursor \in Nat /\ durable \in Nat /\ cursor <= durable
  BY DEF Inv, Typed, SendActivity
<1>2. /\ stream' \in Stream /\ stream'.at = (IF stream.whole THEN "list" ELSE "relay")
      /\ stream'.whole = stream.whole
      /\ stream'.connections = stream.connections /\ stream'.cursor = stream.read
  BY <1>1 DEF SendActivity, Stream, StreamAt
<1>3. stream.read \in Nat /\ stream.read <= cursor
  BY <1>1 DEF Stream, Complete
<1>4. PICK r : r = [page EXCEPT !.activity = Newest, !.upto = stream.read]
  OBVIOUS
<1>5. /\ r \in Page /\ r.shown = page.shown /\ r.upto = stream.read
      /\ GoodList(r.activity, durable) /\ Gapless(r.activity, stream.read)
  <2>1. PICK all : all = Newest
    OBVIOUS
  <2>2. all \in Seq(Nat) /\ GoodList(all, durable) /\ Gapless(all, stream.read)
    BY <1>1, <1>3, <2>1, NewestGood DEF Gapless
  <2>3. r = [page EXCEPT !.activity = all, !.upto = stream.read]
    BY <1>4, <2>1
  <2>4. r \in Page /\ r.shown = page.shown /\ r.activity = all /\ r.upto = stream.read
    BY <1>1, <1>3, <2>2, <2>3 DEF Page
  <2> QED BY <2>2, <2>4
<1>6. StreamMoves /\ page' = r
  BY <1>4 DEF SendActivity, StreamMoves
<1>7. Typed'
  BY <1>1, <1>2, <1>5, <1>6, StreamMovesKeep DEF Typed
<1>8. Coming(stream) => Coming(stream')
  BY <1>1, <1>2 DEF Coming
<1>9. Rests
  BY <1>6, StreamMovesKeep
<1>10. Complete'
  <2>2. PICK base : base = stream.read
    OBVIOUS
  <2>3. ~Cleared(queue) => NoGap(queue, base)'
    BY <1>1, <1>9, <2>2, RestsKeeps DEF Complete
  <2>4. stream'.at # "activity" /\ stream'.cursor = base
    BY <1>2, <2>2
  <2>5. page'.upto = base /\ Gapless(page'.activity, page'.upto)
    BY <1>5, <1>6, <2>2
  <2>6. queue' = queue
    BY <1>9 DEF Rests
  <2> QED BY <2>3, <2>4, <2>5, <2>6 DEF Complete
<1>11. Placed'
  BY <1>2 DEF Placed
<1> QED BY <1>5, <1>6, <1>7, <1>8, <1>9, <1>10, <1>11, RestsKeeps, RestsShown DEF Inv

LEMMA SendOperationsInv ==
  ASSUME Inv, SendOperations
  PROVE  Inv'
<1>1. /\ Typed /\ Placed /\ Complete /\ stream \in Stream /\ stream.at = "list" /\ page \in Page
      /\ notified \in [Ids -> Status] /\ Unknown \in Status
  <2>1. Unknown \in Status
    BY DEF Unknown, Status
  <2> QED BY <2>1 DEF Inv, Typed, ManagerTyped, SendOperations
<1>2. /\ stream' \in Stream /\ stream'.at = "relay" /\ stream'.cursor = stream.cursor
      /\ stream'.connections = stream.connections
  BY <1>1 DEF SendOperations, Stream, StreamAt
<1>3. PICK shown : shown = [id \in Ids |-> IF id \in retained THEN notified[id] ELSE Unknown]
  OBVIOUS
<1>4. /\ shown \in [Ids -> Status]
      /\ \A id \in Ids : shown[id] = IF id \in retained THEN notified[id] ELSE Unknown
  BY <1>1, <1>3
<1>5. PICK r : r = [page EXCEPT !.shown = shown]
  OBVIOUS
<1>6. r \in Page /\ r.shown = shown /\ r.activity = page.activity /\ r.upto = page.upto
  BY <1>1, <1>4, <1>5 DEF Page
<1>7. StreamMoves /\ page' = r
  BY <1>3, <1>5 DEF SendOperations, StreamMoves
<1>8. Typed'
  BY <1>1, <1>2, <1>6, <1>7, StreamMovesKeep DEF Typed
<1>9. Rests
  BY <1>7, StreamMovesKeep
<1>10. Unknown.state = "none" /\ ~Finished(Unknown) /\ Unknown.state \notin Active
  BY StreamsAssumption DEF Unknown, Finished
<1>11. FinalPage(page)'
  BY <1>4, <1>6, <1>7, <1>9, <1>10 DEF FinalPage, Rests
<1>12. Followed'
  <2>1. \A id \in Ids : Agrees(page, id)'
    BY <1>4, <1>6, <1>7, <1>9, <1>10 DEF Agrees, Rests
  <2> QED BY <2>1 DEF Followed
<1>13. Complete'
  <2>1. PICK base : base = stream.cursor
    OBVIOUS
  <2>2. ~Cleared(queue) =>
          NoGap(queue, base)' /\ page.upto = base /\ Gapless(page.activity, page.upto)
    BY <1>1, <1>9, <2>1, RestsKeeps DEF Complete
  <2>3. stream'.at # "activity" /\ stream'.cursor = base
    BY <1>2, <2>1
  <2>4. queue' = queue
    BY <1>9 DEF Rests
  <2> QED BY <1>6, <1>7, <2>2, <2>3, <2>4 DEF Complete
<1>14. Placed'
  BY <1>2 DEF Placed
<1> QED BY <1>8, <1>9, <1>11, <1>12, <1>13, <1>14, RestsKeeps DEF Inv

LEMMA UnsubscribeInv ==
  ASSUME Inv, Unsubscribe
  PROVE  Inv'
<1>1. Typed /\ stream \in Stream /\ FinalPage(page)
  BY DEF Inv, Typed
<1>2. /\ stream' \in Stream /\ stream'.at = "away" /\ stream'.connections = stream.connections
      /\ queue' = <<>>
  BY <1>1 DEF Unsubscribe, Stream, StreamAt
<1>3. UNCHANGED <<notified, retained, hubOpen, token, computed, durable, cursor, recording, page>>
  BY DEF Unsubscribe, operationVars, servingVars
<1>4. Typed'
  <2>1. queue' \in Seq(Event) /\ Len(queue') <= Limit
    BY <1>2, StreamsAssumption
  <2> QED BY <1>1, <1>2, <1>3, <2>1 DEF Typed, ManagerTyped
<1>5. DOMAIN queue' = {}
  BY <1>2
<1>6. LastTold' /\ FinalQueue(queue)' /\ InOrder'
  BY <1>5 DEF LastTold, About, FinalQueue, InOrder, Servings
<1>7. FinalPage(page)'
  BY <1>1, <1>3 DEF FinalPage
<1>8. Followed'
  BY <1>2 DEF Followed, Coming
<1>9. Placed' /\ Complete'
  BY <1>2 DEF Placed, Complete
<1> QED BY <1>4, <1>6, <1>7, <1>8, <1>9 DEF Inv

------------------------------------------------------------------------------
(* The next event of the queue *)

LEMMA TailOf ==
  ASSUME NEW q \in Seq(Event), q # <<>>
  PROVE  /\ Tail(q) \in Seq(Event) /\ Len(q) \in Nat /\ Len(Tail(q)) = Len(q) - 1
         /\ DOMAIN q = 1 .. Len(q) /\ 1 \in DOMAIN q /\ q[1] = Head(q) /\ Head(q) \in Event
         /\ \A i \in DOMAIN Tail(q) : i \in Nat /\ i + 1 \in DOMAIN q /\ Tail(q)[i] = q[i + 1]
         /\ \A i \in DOMAIN q : i # 1 => i - 1 \in DOMAIN Tail(q) /\ Tail(q)[i - 1] = q[i]
OBVIOUS

\* The step takes e, and p is the page it came to.
Relays(e) ==
  /\ queue # <<>> /\ e = Head(queue) /\ queue' = Tail(queue) /\ stream.at = "relay"
  /\ stream' = Taken(page, e).stream /\ page' = Taken(page, e).page
  /\ UNCHANGED <<notified, retained, hubOpen, token, computed, durable, cursor, recording>>

LEMMA RelayRelays ==
  ASSUME Relay
  PROVE  Relays(Head(queue))
BY DEF Relay, Relays, operationVars, servingVars

LEMMA RelayStream ==
  ASSUME Typed, NEW e, Relays(e)
  PROVE  /\ stream' \in Stream /\ stream'.connections = stream.connections
         /\ stream'.at \in {"relay", "sessions", "cursor"}
         /\ Placed'
<1>1. e \in Event
  BY TailOf DEF Relays, Typed
<1>2. /\ stream' \in Stream /\ stream'.connections = stream.connections
      /\ stream'.at \in {"relay", "sessions", "cursor"}
      /\ stream'.at = "sessions" => stream'.whole
  BY <1>1, TakenStream DEF Relays, Typed
<1> QED BY <1>2 DEF Placed

LEMMA RelayTyped ==
  ASSUME Typed, InOrder, NEW e, Relays(e)
  PROVE  Typed'
<1>1. /\ queue' \in Seq(Event) /\ Len(queue') = Len(queue) - 1 /\ Len(queue) \in Nat
      /\ 1 \in DOMAIN queue /\ queue[1] = e /\ e \in Event
  BY TailOf DEF Relays, Typed
<1>2. Len(queue') <= Limit
  BY <1>1, StreamsAssumption DEF Typed
<1>3. /\ page \in Page /\ GoodList(page.activity, durable) /\ stream.cursor \in Nat
      /\ durable \in Nat /\ cursor \in Nat /\ cursor <= durable
  BY StreamsAssumption DEF Typed, Stream
<1>4. page' \in Page /\ GoodList(page'.activity, durable)
  <2>1. ASSUME e.name = "serving", ~(e.cursor <= stream.cursor)
        PROVE  e.cursor \in 1 .. durable
    <3>1. e.cursor \in Nat /\ e.cursor <= cursor
      BY <1>1, <2>1, EventByName DEF InOrder, Servings
    <3> QED BY <1>3, <2>1, <3>1
  <2> QED BY <1>1, <1>3, <2>1, TakenGood DEF Relays
<1>5. stream' \in Stream /\ stream'.connections = stream.connections
  BY RelayStream
<1> QED BY <1>1, <1>2, <1>4, <1>5 DEF Typed, ManagerTyped, Relays

\* What is said of the rest of the queue.
LEMMA RelayRest ==
  ASSUME Typed, NEW e, Relays(e)
  PROVE  /\ e \in Event /\ 1 \in DOMAIN queue /\ queue[1] = e
         /\ \A i \in DOMAIN queue' : i \in Nat /\ i + 1 \in DOMAIN queue /\ queue'[i] = queue[i + 1]
         /\ \A i \in DOMAIN queue : i # 1 => i - 1 \in DOMAIN queue' /\ queue'[i - 1] = queue[i]
         /\ \A i \in DOMAIN queue : i \in Nat
<1>1. queue \in Seq(Event) /\ queue # <<>> /\ queue' = Tail(queue) /\ e = Head(queue)
  BY DEF Typed, Relays
<1>2. DOMAIN queue \subseteq Nat
  BY <1>1
<1> QED BY <1>1, <1>2, TailOf

LEMMA RelayFinal ==
  ASSUME Typed, FinalQueue(queue), FinalPage(page), NEW e, Relays(e)
  PROVE  FinalQueue(queue)' /\ FinalPage(page)'
<1>1. notified' = notified /\ page \in Page /\ e \in Event /\ page' = Taken(page, e).page
  BY RelayRest DEF Relays, Typed
<1>2. FinalQueue(queue)'
  BY <1>1, RelayRest DEF FinalQueue
<1>3. CASE e.name = "operation"
  <2>1. page' = FoldOperation(page, e.id, e.status)
    BY <1>1, <1>3, ShortList, TakenPage, Zenon
  <2>2. e.id \in Ids /\ e.status \in Status
    BY <1>3, RelayRest, EventByName
  <2>3. Finished(e.status) => e.status = notified[e.id]
    BY <1>3, RelayRest DEF FinalQueue
  <2>4. \A j \in Ids : Finished(page'.shown[j]) => page'.shown[j] = notified[j]
    BY <1>1, <2>1, <2>2, <2>3, FoldedFinal DEF FinalPage
  <2> QED BY <1>1, <1>2, <2>4 DEF FinalPage
<1>4. CASE e.name # "operation"
  <2>1. page'.shown = page.shown
    BY <1>1, <1>4, ShortList, TakenPage, Zenon
  <2> QED BY <1>1, <1>2, <2>1 DEF FinalPage
<1> QED BY <1>3, <1>4

LEMMA RelayLast ==
  ASSUME Typed, LastTold, NEW e, Relays(e)
  PROVE  LastTold'
<1> SUFFICES ASSUME hubOpen', NEW id \in Ids, NEW i \in About(queue', id),
                    \A j \in About(queue', id) : j <= i
             PROVE  queue'[i].status = notified'[id]
  BY DEF LastTold
<1>1. notified' = notified /\ hubOpen
  BY DEF Relays
<1>2. i \in Nat /\ i + 1 \in About(queue, id) /\ queue'[i] = queue[i + 1]
  BY RelayRest DEF About
<1>3. ASSUME NEW j \in About(queue, id)
      PROVE  j <= i + 1
  <2>1. j \in Nat /\ (j = 1 \/ j - 1 \in About(queue', id))
    BY RelayRest DEF About
  <2>2. CASE j = 1
    BY <1>2, <2>2
  <2>3. CASE j - 1 \in About(queue', id)
    <3>1. j - 1 <= i
      BY <2>3
    <3> QED BY <1>2, <2>1, <3>1
  <2> QED BY <2>1, <2>2, <2>3
<1> QED BY <1>1, <1>2, <1>3 DEF LastTold

LEMMA RelayFollowed ==
  ASSUME Inv, NEW e, Relays(e)
  PROVE  Followed'
<1> SUFFICES ASSUME hubOpen', ~Coming(stream'), ~Cleared(queue'),
                    NEW id \in Ids, About(queue', id) = {}
             PROVE  Agrees(page, id)'
  BY DEF Followed
<1>1. /\ notified' = notified /\ retained' = retained /\ hubOpen /\ stream.at = "relay"
      /\ page \in Page /\ Typed /\ e \in Event /\ page' = Taken(page, e).page
  BY RelayRest DEF Relays, Inv, Typed
<1>8. Len(page.activity) <= Limit
  BY <1>1, ShortList
<1>2. ~Coming(stream)
  BY <1>1 DEF Coming
<1>3. e # Resync
  <2>1. ASSUME e = Resync
        PROVE  FALSE
    <3>1. stream' = [stream EXCEPT !.at = "sessions", !.whole = TRUE]
      BY <2>1, TakenResync, Zenon DEF Relays
    <3>2. stream'.at = "sessions" /\ stream'.whole
      BY <1>1, <3>1 DEF Typed, Stream
    <3> QED BY <3>2 DEF Coming
  <2> QED BY <2>1
<1>4. ~Cleared(queue)
  <2>1. \A i \in DOMAIN queue : queue[i] # Resync
    <3>1. \A i \in DOMAIN queue : i # 1 => i - 1 \in DOMAIN queue' /\ queue'[i - 1] = queue[i]
      BY <1>1, RelayRest
    <3> QED BY <1>1, <1>3, <3>1, RelayRest DEF Cleared
  <2> QED BY <2>1 DEF Cleared
<1>5. \A i \in DOMAIN queue : queue[i].name = "operation" /\ queue[i].id = id => i = 1
  BY <1>1, RelayRest DEF About
<1>6. CASE e.name = "operation" /\ e.id = id
  <2>1. page' = FoldOperation(page, id, e.status) /\ e.status \in Status
    BY <1>1, <1>6, <1>8, TakenPage, EventByName, Zenon
  <2>2. 1 \in About(queue, id) /\ \A j \in About(queue, id) : j <= 1
    BY <1>1, <1>5, <1>6, RelayRest DEF About
  <2>3. e.status = notified[id]
    BY <1>1, <2>2, RelayRest DEF Inv, LastTold
  <2>4. Finished(page.shown[id]) => page.shown[id] = notified[id]
    BY DEF Inv, FinalPage
  <2>5. page'.shown[id] = notified[id]
    BY <1>1, <2>1, <2>3, <2>4, FoldedOperation
  <2> QED BY <1>1, <2>5 DEF Agrees
<1>7. CASE ~(e.name = "operation" /\ e.id = id)
  <2>1. About(queue, id) = {}
    BY <1>1, <1>5, <1>7, RelayRest DEF About
  <2>2. Agrees(page, id)
    BY <1>1, <1>2, <1>4, <2>1 DEF Inv, Followed
  <2>3. page'.shown[id] = page.shown[id]
    <3>1. CASE e.name = "operation"
      <4>1. page' = FoldOperation(page, e.id, e.status) /\ e.id \in Ids /\ e.status \in Status
        BY <1>1, <1>8, <3>1, TakenPage, EventByName, Zenon
      <4> QED BY <1>1, <1>7, <3>1, <4>1, FoldedOperation
    <3>2. CASE e.name # "operation"
      <4>1. page'.shown = page.shown
        BY <1>1, <1>8, <3>2, TakenPage, Zenon
      <4> QED BY <4>1
    <3> QED BY <3>1, <3>2
  <2> QED BY <1>1, <2>2, <2>3 DEF Agrees
<1> QED BY <1>6, <1>7

LEMMA RelayInOrder ==
  ASSUME Typed, InOrder, NEW e, Relays(e)
  PROVE  InOrder'
<1>1. cursor' = cursor
  BY DEF Relays
<1>2. \A i \in Servings(queue') : /\ i \in Nat /\ i + 1 \in Nat /\ i + 1 \in Servings(queue)
                                  /\ queue'[i] = queue[i + 1]
  BY RelayRest DEF Servings
<1>3. \A i, j \in Nat : i <= j => i + 1 <= j + 1
  OBVIOUS
<1> QED BY <1>1, <1>2, <1>3 DEF InOrder

\* Taking the first event leaves no gap beyond a cursor that is not its own.
LEMMA RelayNoGap ==
  ASSUME Typed, NEW e, Relays(e), NEW base \in Nat, NEW past \in Nat, past <= base,
         NoGap(queue, past), e.name = "serving" => e.cursor <= base
  PROVE  NoGap(queue, base)'
<1>1. hubOpen' = hubOpen /\ cursor' = cursor /\ cursor \in Nat
  BY DEF Relays, Typed
<1>2. \A j \in Servings(queue) : /\ queue[j].cursor \in Nat
                                 /\ j = 1 => queue[j].cursor <= base
                                 /\ j # 1 => j - 1 \in Servings(queue') /\ queue'[j - 1] = queue[j]
  <2>1. \A j \in DOMAIN queue : queue[j] \in Event
    BY DEF Typed
  <2> QED BY <2>1, RelayRest, EventByName DEF Servings
<1>3. ASSUME NEW n \in Nat, Reaches(queue, past, n)
      PROVE  Reaches(queue', base, n)
  <2> SUFFICES ASSUME NEW c \in Nat, base < c, c <= n
               PROVE  \E j \in Servings(queue') : queue'[j].cursor = c
    BY DEF Reaches
  <2>1. PICK j \in Servings(queue) : queue[j].cursor = c
    BY <1>3 DEF Reaches
  <2>2. j # 1
    BY <1>2, <2>1
  <2> QED BY <1>2, <2>1, <2>2
<1>4. \A i \in Servings(queue') : i + 1 \in Servings(queue) /\ queue'[i] = queue[i + 1]
  BY RelayRest DEF Servings
<1>5. \A i \in Servings(queue') : Reaches(queue', base, queue'[i].cursor)
  BY <1>2, <1>3, <1>4 DEF NoGap
<1>6. hubOpen => Reaches(queue', base, cursor)
  BY <1>1, <1>3 DEF NoGap
<1> QED BY <1>1, <1>5, <1>6 DEF NoGap

LEMMA RelayComplete ==
  ASSUME Typed, InOrder, Complete, NEW e, Relays(e)
  PROVE  Complete'
<1>1. stream'.at \in {"relay", "sessions", "cursor"}
  BY RelayStream
<1> SUFFICES ASSUME ~Cleared(queue'), stream'.at = "relay"
             PROVE  NoGap(queue, stream.cursor)' /\ page'.upto = stream'.cursor
                    /\ Gapless(page'.activity, page'.upto)
  BY <1>1 DEF Complete
<1>2. /\ e \in Event /\ page \in Page /\ stream \in Stream /\ stream.at = "relay"
      /\ stream.cursor \in Nat /\ 1 \in DOMAIN queue /\ queue[1] = e
      /\ page.activity \in Seq(Nat) /\ Len(page.activity) <= Limit
  BY RelayRest DEF Relays, Typed, Stream, Page, GoodList
<1>10. page' = Taken(page, e).page /\ stream' = Taken(page, e).stream
  BY DEF Relays
<1>3. e # Resync
  <2>1. e = Resync => stream' = [stream EXCEPT !.at = "sessions", !.whole = TRUE]
    BY <1>10, TakenResync, Zenon
  <2>2. e = Resync => stream'.at = "sessions"
    BY <1>2, <2>1 DEF Stream
  <2> QED BY <2>2
<1>4. e # Records
  <2>1. e = Records => stream' = [stream EXCEPT !.at = "cursor", !.whole = FALSE]
    BY <1>10, TakenRecords, Zenon
  <2>2. e = Records => stream'.at = "cursor"
    BY <1>2, <2>1 DEF Stream
  <2> QED BY <2>2
<1>5. ~Cleared(queue)
  <2>1. \A i \in DOMAIN queue : i # 1 => i - 1 \in DOMAIN queue' /\ queue'[i - 1] = queue[i]
    BY RelayRest
  <2> QED BY <1>2, <1>3, <2>1 DEF Cleared
<1>6. NoGap(queue, stream.cursor) /\ page.upto = stream.cursor /\ Gapless(page.activity, page.upto)
  BY <1>2, <1>5 DEF Complete
<1>7. PICK base \in Nat : base = stream.cursor
  BY <1>2
<1>8. CASE e.name # "serving" \/ e.cursor <= base
  <2>1. stream'.cursor = base /\ page'.upto = page.upto /\ page'.activity = page.activity
    <3>1. CASE e.name = "serving"
      <4>1. e = Serving(e.cursor) /\ e.cursor <= stream.cursor
        BY <1>2, <1>7, <1>8, <3>1, EventByName
      <4>2. page' = page /\ stream' = stream
        BY <1>10, <4>1, TakenServing, Zenon
      <4> QED BY <1>7, <4>2
    <3>2. CASE e.name = "operation"
      <4>1. stream' = stream
        <5>1. PICK id, status : e = Told(id, status)
          BY <1>2, <3>2, EventByName
        <5> QED BY <1>10, <5>1, TakenTold, Zenon
      <4>2. page'.upto = page.upto /\ page'.activity = page.activity
        BY <1>2, <1>10, <3>2, TakenPage
      <4> QED BY <1>7, <4>1, <4>2
    <3>3. CASE e.name = "sessions"
      <4>1. stream' = stream
        <5>1. PICK fresh : e = Sessions(fresh)
          BY <1>2, <3>3, EventByName
        <5> QED BY <1>10, <5>1, TakenSessions, Zenon
      <4>2. page'.upto = page.upto /\ page'.activity = page.activity
        BY <1>2, <1>10, <3>3, TakenPage
      <4> QED BY <1>7, <4>1, <4>2
    <3> QED BY <1>2, <1>3, <1>4, <3>1, <3>2, <3>3, EventKinds, EventNames
  <2>2. NoGap(queue, base)'
    BY <1>6, <1>7, <1>8, RelayNoGap
  <2> QED BY <1>6, <1>7, <2>1, <2>2
<1>9. CASE e.name = "serving" /\ ~(e.cursor <= base)
  <2>1. PICK n \in Nat : n = e.cursor
    BY <1>2, <1>9, EventByName
  <2>2. e = Serving(n) /\ ~(n <= stream.cursor)
    BY <1>2, <1>7, <1>9, <2>1, EventByName
  <2>3. n = base + 1
    <3>1. 1 \in Servings(queue) /\ Reaches(queue, base, n)
      BY <1>2, <1>6, <1>7, <1>9, <2>1 DEF NoGap, Servings
    <3>2. base + 1 \in Nat /\ base < base + 1 /\ base + 1 <= n
      BY <1>9, <2>1
    <3>3. PICK j \in Servings(queue) : queue[j].cursor = base + 1
      BY <3>1, <3>2 DEF Reaches
    <3>4. j \in DOMAIN queue /\ 1 <= j
      BY <3>3 DEF Servings, Typed
    <3>5. n <= base + 1
      BY <1>2, <2>1, <3>1, <3>3, <3>4 DEF InOrder
    <3> QED BY <3>2, <3>5
  <2>4. page' = FoldServing(page, n) /\ stream' = [stream EXCEPT !.cursor = n]
    <3>1. Taken(page, e).page = FoldServing(page, n)
      BY <2>2, TakenServing, Zenon
    <3>2. Taken(page, e).stream = [stream EXCEPT !.cursor = n]
      BY <2>2, NewServing, Zenon
    <3> QED BY <1>10, <3>1, <3>2, Zenon
  <2>5. stream'.cursor = n
    BY <1>2, <2>4 DEF Stream
  <2>6. page.upto = base /\ n > page.upto
    BY <1>6, <1>7, <2>3
  <2>7. page'.upto = n /\ page'.activity = ToFront(page.activity, n)
    BY <1>2, <2>4, <2>6, FoldedServing, Zenon
  <2>8. Gapless(ToFront(page.activity, n), n)
    <3>1. PICK d \in Nat : d = durable
      BY StreamsAssumption DEF Typed
    <3>2. PICK l \in Seq(Nat) : l = page.activity
      BY <1>2
    <3>3. n \in 1 .. d
      <4>1. n <= cursor
        BY <1>2, <1>9, <2>1 DEF InOrder, Servings
      <4>2. cursor \in Nat /\ cursor <= durable
        BY <3>1 DEF Typed
      <4> QED BY <2>3, <3>1, <4>1, <4>2
    <3>4. GoodList(l, d) /\ Gapless(l, base)
      BY <1>6, <2>6, <3>1, <3>2 DEF Typed
    <3>5. Gapless(ToFront(l, n), n)
      BY <2>3, <3>3, <3>4, NextGapless
    <3> QED BY <3>2, <3>5
  <2>9. NoGap(queue, n)'
    <3>1. NoGap(queue, base) /\ base <= n /\ (e.name = "serving" => e.cursor <= n)
      BY <1>6, <1>7, <2>1, <2>3
    <3> QED BY <3>1, RelayNoGap
  <2> QED BY <2>5, <2>7, <2>8, <2>9
<1> QED BY <1>2, <1>7, <1>8, <1>9

LEMMA RelayInv ==
  ASSUME Inv, Relay
  PROVE  Inv'
<1>1. PICK e : Relays(e)
  BY RelayRelays
<1>2. Typed' /\ Placed'
  BY <1>1, RelayTyped, RelayStream DEF Inv
<1>3. LastTold' /\ Followed' /\ FinalQueue(queue)' /\ FinalPage(page)'
  BY <1>1, RelayLast, RelayFollowed, RelayFinal DEF Inv
<1>4. InOrder' /\ Complete'
  BY <1>1, RelayInOrder, RelayComplete DEF Inv
<1> QED BY <1>2, <1>3, <1>4 DEF Inv

------------------------------------------------------------------------------
(* The invariant *)

LEMMA InvInit ==
  ASSUME StreamsInit
  PROVE  Inv
<1>1. \A id \in Ids : notified[id] = Unknown /\ page.shown[id] = Unknown
  BY DEF StreamsInit, LifecycleInit
<1>2. Unknown \in Status /\ Unknown.state \notin Active /\ ~Finished(Unknown)
  BY StreamsAssumption DEF Unknown, Status, Finished
<1>3. stream \in Stream /\ stream.at = "away" /\ stream.connections = 0
  BY DEF StreamsInit, Stream, StreamAt
<1>4. page \in Page /\ page.activity = <<>>
  BY <1>2 DEF StreamsInit, Page
<1>5. queue = <<>> /\ DOMAIN queue = {}
  BY DEF StreamsInit
<1>6. Typed
  <2>1. ManagerTyped
    BY <1>1, <1>2 DEF ManagerTyped, StreamsInit, LifecycleInit
  <2>2. queue \in Seq(Event) /\ Len(queue) <= Limit
    BY <1>5, StreamsAssumption
  <2>3. Counters
    <3>1. /\ hubOpen = TRUE /\ token = FALSE /\ recording = "none" /\ computed = "none"
          /\ durable = 0 /\ cursor = 0 /\ MaxServings \in Nat
      BY StreamsAssumption DEF StreamsInit
    <3>2. hubOpen \in BOOLEAN /\ token \in BOOLEAN
          /\ recording \in {"none", "writing", "written"} /\ recording # "writing"
      BY <3>1
    <3>3. computed \in {"none", "fresh", "aged"}
      BY <3>1
    <3>4. durable \in 0 .. MaxServings /\ cursor \in Nat /\ durable = cursor
      BY <3>1
    <3>5. durable = IF recording = "written" THEN cursor + 1 ELSE cursor
      BY <3>1, <3>4
    <3> QED BY <2>1, <3>2, <3>3, <3>4, <3>5, Zenon DEF Counters
  <2>4. stream.connections <= MaxConnections /\ GoodList(page.activity, durable)
    BY <1>3, <1>4, StreamsAssumption DEF GoodList
  <2> QED BY <1>3, <1>4, <2>2, <2>3, <2>4 DEF Typed, Counters
<1>7. Placed /\ Complete /\ Followed
  BY <1>3, <1>5 DEF Placed, Complete, Followed, Coming
<1>8. LastTold /\ FinalQueue(queue) /\ InOrder
  BY <1>5 DEF LastTold, About, FinalQueue, InOrder, Servings
<1>9. FinalPage(page)
  BY <1>1, <1>2 DEF FinalPage
<1> QED BY <1>6, <1>7, <1>8, <1>9 DEF Inv

LEMMA StutterInv ==
  ASSUME Inv, UNCHANGED vars
  PROVE  Inv'
<1>1. Rests /\ stream' = stream /\ page' = page /\ durable' = durable /\ durable \in Nat
  BY StreamsAssumption
     DEF vars, streamVars, operationVars, hubVars, servingVars, Rests, Inv, Typed
<1>2. Counters'
  BY DEF vars, streamVars, operationVars, hubVars, servingVars, Inv, Typed, Counters, ManagerTyped
<1> QED BY <1>1, <1>2, StillInv

LEMMA InvStep ==
  ASSUME Inv, [StreamsNext]_vars
  PROVE  Inv'
<1>1. CASE OperationStep
  BY <1>1, OperationInv
<1>2. CASE PumpTakes
  BY <1>2, PumpTakesInv
<1>3. CASE PumpPublishes
  BY <1>3, PumpPublishesInv
<1>4. CASE CloseHub
  BY <1>4, CloseHubInv
<1>5. CASE RecordServing
  BY <1>5, RecordServingInv
<1>6. CASE PublishServing
  BY <1>6, PublishServingInv
<1>7. CASE Subscribe
  BY <1>7, SubscribeInv
<1>8. CASE Unsubscribe
  BY <1>8, UnsubscribeInv
<1>9. CASE SendSessions
  BY <1>9, SendSessionsInv
<1>10. CASE ReadCursor
  BY <1>10, ReadCursorInv
<1>11. CASE SendActivity
  BY <1>11, SendActivityInv
<1>12. CASE SendOperations
  BY <1>12, SendOperationsInv
<1>13. CASE Relay
  BY <1>13, RelayInv
<1>14. CASE BeginServing
  BY <1>14, BeginServingInv
<1>15. CASE ServingFails
  BY <1>15, ServingFailsInv
<1>16. CASE UNCHANGED vars
  BY <1>16, StutterInv
<1> QED BY <1>1, <1>2, <1>3, <1>4, <1>5, <1>6, <1>7, <1>8, <1>9, <1>10, <1>11, <1>12, <1>13,
           <1>14, <1>15, <1>16 DEF StreamsNext, StreamStep

\* Every reachable state satisfies the invariant behind the two theorems below:
\* the queue is a true account of what the page has yet to learn.
THEOREM InvHolds == StreamsSpec => []Inv
<1>1. StreamsInit => Inv
  BY InvInit
<1>2. Inv /\ [StreamsNext]_vars => Inv'
  BY InvStep
<1> QED BY <1>1, <1>2, PTL DEF StreamsSpec

LEMMA InvTypeOK ==
  ASSUME Inv
  PROVE  StreamsTypeOK
<1>1. Typed
  BY DEF Inv
<1>2. DOMAIN notified = Ids /\ retained \subseteq Ids
  BY <1>1 DEF Typed, ManagerTyped
<1>3. cursor = IF recording = "written" THEN durable - 1 ELSE durable
  <2>1. cursor \in Nat /\ durable = IF recording = "written" THEN cursor + 1 ELSE cursor
    BY <1>1 DEF Typed
  <2> QED BY <2>1
<1>4. stream.at \in StreamAt /\ stream.connections \in 0 .. MaxConnections
  <2>1. stream.at \in StreamAt /\ stream.connections \in Nat /\ stream.connections <= MaxConnections
    BY <1>1 DEF Typed, Stream
  <2> QED BY <2>1, StreamsAssumption
<1>5. Range(page.activity) \subseteq 1 .. durable /\ Len(page.activity) <= Limit
  <2>1. GoodList(page.activity, durable)
    BY <1>1 DEF Typed
  <2> QED BY <2>1 DEF GoodList, Range
<1> QED BY <1>1, <1>2, <1>3, <1>4, <1>5 DEF StreamsTypeOK, StreamAt, Typed

LEMMA InvCurrent ==
  ASSUME Inv, Quiet, NEW id \in Ids
  PROVE  /\ id \in retained => page.shown[id] = notified[id]
         /\ page.shown[id].state \in Active => id \in retained
<1>1. hubOpen /\ ~Coming(stream) /\ ~Cleared(queue) /\ About(queue, id) = {}
  BY DEF Quiet, Coming, Cleared, About
<1>2. Agrees(page, id)
  BY <1>1 DEF Inv, Followed
<1>3. notified[id].state \in Active => id \in retained
  BY DEF Inv, Typed, ManagerTyped
<1> QED BY <1>2, <1>3 DEF Agrees

LEMMA InvComplete ==
  ASSUME Inv
  PROVE  ServingsComplete
<1>1. Cleared(queue) => Behind
  <2>1. DOMAIN queue = 1 .. Len(queue)
    BY DEF Inv, Typed
  <2> QED BY <2>1, EventNames DEF Cleared, Behind
<1>2. stream.at # "relay" => Behind
  BY DEF Behind
<1>3. ~Cleared(queue) /\ stream.at = "relay" => Covers(page.activity, page.upto)
  BY DEF Inv, Complete, Gapless
<1>4. IsInjective(page.activity)
  BY DEF Inv, Typed, GoodList, IsInjective
<1>5. PICK list : list = page.activity
  OBVIOUS
<1>6. PICK listed : listed = Range(list)
  OBVIOUS
<1>7. ASSUME NEW n, Listed(list, n) \/ Crowded(list, n)
      PROVE  n \in listed \/ (Len(list) = Limit /\ \A m \in listed : n < m)
  BY <1>6, <1>7 DEF Listed, Crowded, Range
<1>8. ~Behind => \A n \in 1 .. page.upto :
        n \in listed \/ (Len(list) = Limit /\ \A m \in listed : n < m)
  BY <1>1, <1>2, <1>3, <1>5, <1>7 DEF Covers
<1> QED BY <1>4, <1>5, <1>6, <1>8 DEF ServingsComplete

\* A page nothing more is on its way to shows every retained operation as it
\* is, and nothing as active that is not retained, however many transitions
\* were cleared from its queue, and whenever the stream was closed, connected
\* again or overrun; and it misses no serving observation it has passed
\* (event_hub.go, runtime_activity.go, workflow.js).
THEOREM PageIsCurrent == StreamsSpec => []QuietPageIsCurrent
<1>1. Inv => QuietPageIsCurrent
  BY InvTypeOK, InvCurrent, InvComplete DEF QuietPageIsCurrent
<1> QED BY <1>1, InvHolds, PTL

\* What a step may do to the page.
LEMMA FoldKeepsFinished ==
  ASSUME NEW p \in Page, Len(p.activity) <= Limit, NEW e \in Event, NEW id \in Ids,
         Finished(p.shown[id])
  PROVE  Finished(Taken(p, e).page.shown[id])
<1>1. CASE e.name = "operation"
  <2>1. PICK r : r = Taken(p, e).page
    OBVIOUS
  <2>2. r = FoldOperation(p, e.id, e.status) /\ e.id \in Ids /\ e.status \in Status
    BY <1>1, <2>1, TakenPage, EventByName
  <2>3. r.shown[id] = p.shown[id] \/ Finished(r.shown[id])
    BY <2>2, FoldedOperation
  <2> QED BY <2>1, <2>3
<1>2. CASE e.name # "operation"
  BY <1>2, TakenPage
<1> QED BY <1>1, <1>2

LEMMA PushKeepsFinished ==
  ASSUME Typed, NEW held, NEW p, NEW new, Pushes(held, p, new), NEW id \in Ids,
         Finished(page.shown[id])
  PROVE  Finished(page'.shown[id])
<1>1. /\ p \in Page /\ p.shown = page.shown /\ Alike(held, queue) /\ queue \in Seq(Event)
      /\ Len(p.activity) <= Limit
  BY DEF Typed, Pushes, SameView, GoodList
<1>2. CASE page' = p
  BY <1>1, <1>2
<1>3. CASE Raced(held, p)
  <2>1. PICK i \in DOMAIN held : page' = Taken(p, held[i]).page
    BY <1>3 DEF Raced
  <2>2. held[i] \in Event /\ Finished(p.shown[id])
    BY <1>1, <2>1, AlikeEvents
  <2> QED BY <1>1, <2>1, <2>2, FoldKeepsFinished
<1> QED BY <1>2, <1>3 DEF Pushes, Missed, Reached, Overrun

LEMMA FinishedStep ==
  ASSUME Inv, [StreamsNext]_vars, NEW id \in Ids, Finished(page.shown[id])
  PROVE  Finished(page'.shown[id]) \/ page'.shown[id] = Unknown
<1>1. Typed /\ page \in Page /\ Len(page.activity) <= Limit
  BY DEF Inv, Typed, GoodList
<1>2. CASE OperationStep \/ PumpPublishes \/ PublishServing
  <2>1. PICK held, p, new : PushStep(held, p, new)
    BY <1>1, <1>2, OperationAccounts, PumpAccounts, ServingAccounts
  <2> QED BY <1>1, <2>1, PushKeepsFinished DEF PushStep
<1>3. CASE PumpTakes \/ CloseHub \/ BeginServing \/ RecordServing \/ ServingFails \/ Subscribe
           \/ Unsubscribe \/ ReadCursor \/ UNCHANGED vars
  <2>1. page' = page
    BY <1>3 DEF PumpTakes, CloseHub, BeginServing, RecordServing, ServingFails, Subscribe,
                Unsubscribe, ReadCursor, vars, streamVars
  <2> QED BY <2>1
<1>4. CASE SendSessions
  <2>1. page' = [page EXCEPT !.fresh = TRUE]
    BY <1>4 DEF SendSessions
  <2>2. page'.shown = page.shown
    BY <1>1, <2>1 DEF Page
  <2> QED BY <2>2
<1>5. CASE SendActivity
  <2>1. page' = [page EXCEPT !.activity = Newest, !.upto = stream.read]
    BY <1>5 DEF SendActivity
  <2>2. page'.shown = page.shown
    BY <1>1, <2>1 DEF Page
  <2> QED BY <2>2
<1>6. CASE SendOperations
  <2>1. PICK shown : shown = [i \in Ids |-> IF i \in retained THEN notified[i] ELSE Unknown]
    OBVIOUS
  <2>2. page' = [page EXCEPT !.shown = shown]
    BY <1>6, <2>1 DEF SendOperations
  <2>3. page'.shown[id] = IF id \in retained THEN notified[id] ELSE Unknown
    <3>1. page'.shown = shown
      BY <1>1, <2>2 DEF Page
    <3> QED BY <2>1, <3>1
  <2>4. page.shown[id] = notified[id]
    BY DEF Inv, FinalPage
  <2> QED BY <2>3, <2>4
<1>7. CASE Relay
  <2>1. PICK e : Relays(e)
    BY <1>7, RelayRelays
  <2>2. e \in Event /\ page' = Taken(page, e).page
    BY <1>1, <2>1, RelayRest DEF Relays
  <2> QED BY <1>1, <2>2, FoldKeepsFinished
<1> QED BY <1>2, <1>3, <1>4, <1>5, <1>6, <1>7 DEF StreamsNext, StreamStep

\* A finished operation stays finished on the page until a snapshot leaves it
\* out: no late event and no older snapshot brings it back (workflow.js).
THEOREM FinishedStays == StreamsSpec => FinishedStaysFinished
<1>1. Inv /\ [StreamsNext]_vars =>
        \A id \in Ids : Finished(page.shown[id]) =>
          Finished(page'.shown[id]) \/ page'.shown[id] = Unknown
  BY FinishedStep
<1> QED BY <1>1, InvHolds, PTL DEF StreamsSpec, FinishedStaysFinished
=============================================================================
