--------------------------- MODULE BatchingProofs ---------------------------
(* Theorems about Batching, for every number of calls, sequences and blocks. *)
EXTENDS Batching, FunctionTheorems, FiniteSetTheorems, WellFoundedInduction, NaturalsInduction, TLAPS

------------------------------------------------------------------------------
(* Naturals *)

\* A set of naturals has a least member.
LEMMA Least ==
  ASSUME NEW S \in SUBSET Nat, S # {}
  PROVE  \E m \in S : \A k \in 0 .. m - 1 : k \notin S
<1> DEFINE R == OpToRel(<, Nat)
<1>1. IsWellFoundedOn(R, Nat)
  BY NatLessThanWellFounded
<1>2. PICK m \in S : \A k \in S : ~ (<<k, m>> \in R)
  <2> HIDE DEF R
  <2> QED
    BY <1>1, WFMin
<1>3. \A k \in 0 .. m - 1 : <<k, m>> \in R
  BY DEF OpToRel
<1> QED
  BY <1>2, <1>3

------------------------------------------------------------------------------
(* Released *)

\* What the first i releases can lead to, from what the first i - 1 can.
Then(h, caches, f, i) ==
  IF i = 0 THEN {h}
  ELSE IF i \notin DOMAIN caches THEN f[i - 1]
  ELSE {g \in UNION {Release(k, caches[i]) : k \in f[i - 1]} : g.faults <= MaxFaults}

IsAfter(f, n, h, caches) == f = [i \in 0 .. n |-> Then(h, caches, f, i)]

LEMMA AfterExists ==
  ASSUME NEW n \in Nat, NEW h, NEW caches
  PROVE  \E f : IsAfter(f, n, h, caches)
<1> DEFINE Bad == {m \in Nat : ~ \E f : IsAfter(f, m, h, caches)}
<1> SUFFICES ASSUME Bad # {} PROVE FALSE
  OBVIOUS
<1>1. PICK m \in Bad : \A k \in 0 .. m - 1 : k \notin Bad
  <2>1. Bad \in SUBSET Nat
    OBVIOUS
  <2> HIDE DEF Bad
  <2> QED
    BY <2>1, Least
<1>2. CASE m = 0
  <2> DEFINE f == [i \in 0 .. 0 |-> {h}]
  <2>1. \A i \in 0 .. 0 : Then(h, caches, f, i) = {h}
    BY DEF Then
  <2>2. f = [i \in 0 .. 0 |-> Then(h, caches, f, i)]
    BY <2>1, Zenon
  <2>3. IsAfter(f, m, h, caches)
    BY <2>2, <1>2, Zenon DEF IsAfter
  <2> QED
    BY <2>3, Zenon
<1>3. CASE m # 0
  <2>1. m \in Nat /\ m - 1 \in Nat /\ m - 1 \notin Bad
    BY <1>1, <1>3
  <2>2. PICK g : IsAfter(g, m - 1, h, caches)
    BY <2>1
  <2> DEFINE f == [i \in 0 .. m |-> IF i = m THEN Then(h, caches, g, m) ELSE g[i]]
  <2>3. \A i \in 0 .. m : i # m => f[i] = g[i] /\ i \in 0 .. m - 1
    BY <2>1
  <2>4. \A i \in 0 .. m - 1 : g[i] = Then(h, caches, g, i)
    <3> HIDE DEF f
    <3> QED
      BY <2>2, Zenon DEF IsAfter
  <2>5. \A i \in 0 .. m : Then(h, caches, f, i) = Then(h, caches, g, i)
    <3> SUFFICES ASSUME NEW i \in 0 .. m PROVE Then(h, caches, f, i) = Then(h, caches, g, i)
      OBVIOUS
    <3>1. i # 0 => f[i - 1] = g[i - 1]
      <4>1. i # 0 => i - 1 \in 0 .. m /\ i - 1 # m
        BY <2>1
      <4> HIDE DEF f
      <4> QED
        BY <4>1, <2>3, Zenon
    <3> HIDE DEF f
    <3> QED
      BY <3>1, Zenon DEF Then
  <2>6. \A i \in 0 .. m : f[i] = Then(h, caches, f, i)
    <3> SUFFICES ASSUME NEW i \in 0 .. m PROVE f[i] = Then(h, caches, g, i)
      BY <2>5, Zenon
    <3> QED
      BY <2>3, <2>4, Zenon
  <2>7. IsAfter(f, m, h, caches)
    BY <2>6, Zenon DEF IsAfter
  <2> QED
    BY <2>7, Zenon
<1> QED
  BY <1>2, <1>3

\* Released by what its function satisfies.
LEMMA ReleasedIs ==
  ASSUME NEW n \in Nat, NEW h, NEW caches
  PROVE  \E f : /\ \A i \in 0 .. n : f[i] = Then(h, caches, f, i)
                /\ Released(n, h, caches) = f[n]
<1> DEFINE f == CHOOSE a : a = [i \in 0 .. n |-> Then(h, caches, a, i)]
<1>1. Released(n, h, caches) = f[n]
  BY DEF Released, Then
<1>2. f = [i \in 0 .. n |-> Then(h, caches, f, i)]
  BY AfterExists DEF IsAfter
<1> HIDE DEF f
<1>3. \A i \in 0 .. n : f[i] = Then(h, caches, f, i)
  BY <1>2, Zenon
<1> QED
  BY <1>1, <1>3, Zenon

------------------------------------------------------------------------------
(* Accounts *)

Fields == {"outputs", "store"}
Heaps == [outputs : [Blocks -> Nat], stores : [Blocks -> Nat], deferred : Seq(Caches),
          lost : SUBSET ({"outputs", "store"} \X Blocks), faults : Nat]
Refs(h, field) == IF field = "outputs" THEN h.outputs ELSE h.stores

Same(x, y) == IF x = y THEN 1 ELSE 0

\* Those of D whose cache names the block, and how many deferred caches do.
Naming(own, D, field, b) == {i \in D : own[i][field] = b}
Deferred(s, field, b) == Cardinality(Naming(s, 1 .. Len(s), field, b))
Lost(h, field, b) == IF <<field, b>> \in h.lost THEN 1 ELSE 0

\* The references of a heap are those of the caches of D, of those it deferred, what it
\* lost, and the rest.
Accounts(h, rest, own, D) ==
  \A field \in Fields, b \in Blocks :
    Refs(h, field)[b] = rest[field][b] + Cardinality(Naming(own, D, field, b))
                        + Deferred(h.deferred, field, b) + Lost(h, field, b)

LEMMA NamingFinite ==
  ASSUME NEW own, NEW D, IsFiniteSet(D), NEW field, NEW b
  PROVE  IsFiniteSet(Naming(own, D, field, b)) /\ Cardinality(Naming(own, D, field, b)) \in Nat
<1>1. Naming(own, D, field, b) \in SUBSET D
  BY DEF Naming
<1> QED
  BY <1>1, FS_Subset, FS_CardinalityType

LEMMA NamingWithout ==
  ASSUME NEW own, NEW D, IsFiniteSet(D), NEW i \in D, NEW field, NEW b
  PROVE  Cardinality(Naming(own, D, field, b))
           = Cardinality(Naming(own, D \ {i}, field, b)) + Same(own[i][field], b)
<1> DEFINE N == Naming(own, D, field, b)
<1>1. IsFiniteSet(N) /\ Cardinality(N) \in Nat
  BY NamingFinite
<1>2. Naming(own, D \ {i}, field, b) = N \ {i}
  BY Zenon DEF Naming
<1>3. i \in N <=> own[i][field] = b
  BY Zenon DEF Naming
<1>4. Cardinality(N \ {i}) = IF i \in N THEN Cardinality(N) - 1 ELSE Cardinality(N)
  BY <1>1, FS_RemoveElement
<1> HIDE DEF N
<1> QED
  BY <1>1, <1>2, <1>3, <1>4 DEF Same, N

LEMMA DeferredType ==
  ASSUME NEW s \in Seq(Caches), NEW field, NEW b
  PROVE  Deferred(s, field, b) \in Nat
<1>1. IsFiniteSet(1 .. Len(s))
  BY FS_Interval
<1> QED
  BY <1>1, NamingFinite DEF Deferred

LEMMA DeferredAlso ==
  ASSUME NEW s \in Seq(Caches), NEW c \in Caches, NEW field, NEW b
  PROVE  Deferred(Append(s, c), field, b) = Deferred(s, field, b) + Same(c[field], b)
<1>1. PICK n, t : n = Len(s) /\ t = Append(s, c)
  OBVIOUS
<1>2. n \in Nat /\ Len(t) = n + 1 /\ t[n + 1] = c /\ \A i \in 1 .. n : t[i] = s[i]
  BY <1>1
<1>3. PICK D, i : D = 1 .. (n + 1) /\ i = n + 1
  OBVIOUS
<1>4. i \in D /\ IsFiniteSet(D) /\ D \ {i} = 1 .. n
  <2>1. IsFiniteSet(D)
    BY <1>2, <1>3, FS_Interval
  <2> QED
    BY <2>1, <1>2, <1>3
<1>5. Cardinality(Naming(t, D, field, b))
        = Cardinality(Naming(t, D \ {i}, field, b)) + Same(t[i][field], b)
  <2>1. i \in D /\ IsFiniteSet(D)
    BY <1>4, Zenon
  <2> QED
    BY <2>1, NamingWithout
<1>6. Naming(t, 1 .. n, field, b) = Naming(s, 1 .. n, field, b)
  BY <1>2, Zenon DEF Naming
<1> QED
  BY <1>1, <1>2, <1>3, <1>4, <1>5, <1>6, Zenon DEF Deferred

\* The failed releases that did not add to the deferred.
Balance(h) == h.faults - Len(h.deferred)

\* One cache less, whether its blocks were given back or it was deferred.
Lesser(g, h, c) ==
  \A field \in Fields, b \in Blocks :
    Refs(g, field)[b] + Same(c[field], b) + Deferred(h.deferred, field, b)
      = Refs(h, field)[b] + Deferred(g.deferred, field, b)

LEMMA Given ==
  ASSUME NEW refs \in [Blocks -> Nat], NEW b, b \in Blocks => refs[b] > 0
  PROVE  /\ Gives(refs, b) \in [Blocks -> Nat]
         /\ \A x \in Blocks : Gives(refs, b)[x] + Same(b, x) = refs[x]
  BY DEF Gives, Same

LEMMA ReleaseLessens ==
  ASSUME NEW h \in Heaps, NEW c \in Caches,
         \A field \in Fields : c[field] \in Blocks => Refs(h, field)[c[field]] > 0,
         NEW g \in Release(h, c)
  PROVE  /\ g \in Heaps /\ Lesser(g, h, c) /\ g.lost = h.lost
         /\ Balance(g) = Balance(h)
<1> DEFINE o == Gives(h.outputs, c.outputs)
           s == Gives(h.stores, c.store)
<1>1. /\ c.outputs \in Blocks \cup {0} /\ c.store \in Blocks \cup {0}
      /\ c["outputs"] = c.outputs /\ c["store"] = c.store
  BY DEF Caches, Cache
<1>2. /\ h.outputs \in [Blocks -> Nat] /\ h.stores \in [Blocks -> Nat] /\ h.deferred \in Seq(Caches)
      /\ h.faults \in Nat
  BY DEF Heaps
<1>3. /\ o \in [Blocks -> Nat] /\ \A x \in Blocks : o[x] + Same(c.outputs, x) = h.outputs[x]
      /\ s \in [Blocks -> Nat] /\ \A x \in Blocks : s[x] + Same(c.store, x) = h.stores[x]
  <2>1. c.outputs \in Blocks => h.outputs[c.outputs] > 0
    BY <1>1 DEF Refs, Fields
  <2>2. c.store \in Blocks => h.stores[c.store] > 0
    BY <1>1 DEF Refs, Fields
  <2> QED
    BY <2>1, <2>2, <1>2, Given, Zenon
<1> HIDE DEF o, s
<1>4. PICK d : d = Cache(0, c.store)
  OBVIOUS
<1>5. d \in Caches /\ d.outputs = 0 /\ d.store = c.store
  BY <1>1, <1>4 DEF Caches, Cache
<1>6. \A x \in Caches : /\ Append(h.deferred, x) \in Seq(Caches)
                         /\ Len(Append(h.deferred, x)) = Len(h.deferred) + 1 /\ Len(h.deferred) \in Nat
  BY <1>2
<1>7. \/ g = [h EXCEPT !.outputs = o, !.stores = s]
      \/ g = [h EXCEPT !.deferred = Append(@, c), !.faults = @ + 1]
      \/ g = [h EXCEPT !.outputs = o, !.deferred = Append(@, d), !.faults = @ + 1]
  BY <1>4 DEF Release, Defers, o, s, Heaps
<1>8. CASE g = [h EXCEPT !.outputs = o, !.stores = s]
  <2>1. /\ g \in Heaps /\ g.outputs = o /\ g.stores = s /\ g.deferred = h.deferred
        /\ g.lost = h.lost /\ g.faults = h.faults
    BY <1>3, <1>8 DEF Heaps
  <2>2. Lesser(g, h, c)
    <3> SUFFICES ASSUME NEW field \in Fields, NEW b \in Blocks
                 PROVE  Refs(g, field)[b] + Same(c[field], b) + Deferred(h.deferred, field, b)
                          = Refs(h, field)[b] + Deferred(g.deferred, field, b)
      BY DEF Lesser
    <3>1. Deferred(h.deferred, field, b) \in Nat /\ Same(c[field], b) \in Nat
      BY <1>2, DeferredType DEF Same
    <3>2. Refs(g, field)[b] \in Nat /\ Refs(g, field)[b] + Same(c[field], b) = Refs(h, field)[b]
      BY <1>1, <1>3, <2>1 DEF Refs, Fields
    <3> QED
      BY <3>1, <3>2, <2>1
  <2> QED
    BY <2>1, <2>2, <1>2, Zenon DEF Balance
<1>9. CASE g = [h EXCEPT !.deferred = Append(@, c), !.faults = @ + 1]
  <2>1. /\ g \in Heaps /\ g.outputs = h.outputs /\ g.stores = h.stores /\ g.deferred = Append(h.deferred, c)
        /\ g.lost = h.lost /\ g.faults = h.faults + 1
    <3>1. PICK s1, n : s1 = Append(h.deferred, c) /\ n = h.faults + 1
      OBVIOUS
    <3>2. s1 \in Seq(Caches) /\ n \in Nat
      BY <3>1, <1>2, <1>5, <1>6
    <3>3. g = [h EXCEPT !.deferred = s1, !.faults = n]
      BY <3>1, <1>9
    <3>4. /\ g \in Heaps /\ g.outputs = h.outputs /\ g.stores = h.stores /\ g.deferred = s1
          /\ g.lost = h.lost /\ g.faults = n
      BY <3>2, <3>3, <1>2, <1>3 DEF Heaps
    <3> QED
      BY <3>1, <3>4, Zenon
  <2>2. Lesser(g, h, c)
    <3> SUFFICES ASSUME NEW field \in Fields, NEW b \in Blocks
                 PROVE  Refs(g, field)[b] + Same(c[field], b) + Deferred(h.deferred, field, b)
                          = Refs(h, field)[b] + Deferred(g.deferred, field, b)
      BY DEF Lesser
    <3>1. /\ Deferred(h.deferred, field, b) \in Nat /\ Same(c[field], b) \in Nat
          /\ Deferred(g.deferred, field, b) = Deferred(h.deferred, field, b) + Same(c[field], b)
      BY <1>2, <2>1, DeferredType, DeferredAlso DEF Same
    <3>2. Refs(g, field)[b] \in Nat /\ Refs(g, field)[b] = Refs(h, field)[b]
      BY <1>2, <2>1 DEF Refs
    <3> QED
      BY <3>1, <3>2
  <2>3. Len(g.deferred) = Len(h.deferred) + 1 /\ Len(h.deferred) \in Nat
    BY <2>1, <1>5, <1>6
  <2>4. Balance(g) = Balance(h)
    <3>1. g.faults = h.faults + 1 /\ h.faults \in Nat
      BY <2>1, <1>2, Zenon
    <3> QED
      BY <3>1, <2>3 DEF Balance
  <2> QED
    BY <2>1, <2>2, <2>4
<1>10. CASE g = [h EXCEPT !.outputs = o, !.deferred = Append(@, d), !.faults = @ + 1]
  <2>1. /\ g \in Heaps /\ g.outputs = o /\ g.stores = h.stores /\ g.deferred = Append(h.deferred, d)
        /\ g.lost = h.lost /\ g.faults = h.faults + 1
    <3>1. PICK s1, n : s1 = Append(h.deferred, d) /\ n = h.faults + 1
      OBVIOUS
    <3>2. s1 \in Seq(Caches) /\ n \in Nat
      BY <3>1, <1>2, <1>5, <1>6
    <3>3. g = [h EXCEPT !.outputs = o, !.deferred = s1, !.faults = n]
      BY <3>1, <1>10
    <3>4. /\ g \in Heaps /\ g.outputs = o /\ g.stores = h.stores /\ g.deferred = s1
          /\ g.lost = h.lost /\ g.faults = n
      BY <3>2, <3>3, <1>2, <1>3 DEF Heaps
    <3> QED
      BY <3>1, <3>4, Zenon
  <2>2. Lesser(g, h, c)
    <3> SUFFICES ASSUME NEW field \in Fields, NEW b \in Blocks
                 PROVE  Refs(g, field)[b] + Same(c[field], b) + Deferred(h.deferred, field, b)
                          = Refs(h, field)[b] + Deferred(g.deferred, field, b)
      BY DEF Lesser
    <3>1. /\ Deferred(h.deferred, field, b) \in Nat /\ Same(c[field], b) \in Nat
          /\ Deferred(g.deferred, field, b) = Deferred(h.deferred, field, b) + Same(d[field], b)
      BY <1>2, <1>5, <2>1, DeferredType, DeferredAlso DEF Same
    <3>2. d["outputs"] = 0 /\ d["store"] = c["store"] /\ 0 \notin Blocks
      BY <1>1, <1>5 DEF Blocks
    <3>3. CASE field = "outputs"
      <4>1. Same(d[field], b) = 0
        BY <3>2, <3>3 DEF Same
      <4>2. Refs(g, field)[b] \in Nat /\ Refs(g, field)[b] + Same(c[field], b) = Refs(h, field)[b]
        BY <1>1, <1>3, <2>1, <3>3 DEF Refs
      <4> QED
        BY <3>1, <4>1, <4>2
    <3>4. CASE field = "store"
      <4>1. Same(d[field], b) = Same(c[field], b)
        BY <3>2, <3>4 DEF Same
      <4>2. Refs(g, field)[b] \in Nat /\ Refs(g, field)[b] = Refs(h, field)[b]
        BY <1>2, <2>1, <3>4 DEF Refs
      <4> QED
        BY <3>1, <4>1, <4>2
    <3> QED
      BY <3>3, <3>4 DEF Fields
  <2>3. Len(g.deferred) = Len(h.deferred) + 1 /\ Len(h.deferred) \in Nat
    BY <2>1, <1>5, <1>6
  <2>4. Balance(g) = Balance(h)
    <3>1. g.faults = h.faults + 1 /\ h.faults \in Nat
      BY <2>1, <1>2, Zenon
    <3> QED
      BY <3>1, <2>3 DEF Balance
  <2> QED
    BY <2>1, <2>2, <2>4
<1> QED
  BY <1>7, <1>8, <1>9, <1>10, Zenon

\* g is h with only the caches of D left, lost nothing and deferred what it failed to free.
Settled(g, h, rest, own, D) ==
  g \in Heaps /\ Accounts(g, rest, own, D) /\ g.lost = h.lost /\ Balance(g) = Balance(h)

\* What the release of a cache leaves is accounted for without it.
LEMMA ReleaseAccounts ==
  ASSUME NEW h \in Heaps, NEW rest \in [Fields -> [Blocks -> Nat]],
         NEW own, NEW D, IsFiniteSet(D), NEW i \in D, own[i] \in Caches,
         Accounts(h, rest, own, D), NEW g \in Release(h, own[i])
  PROVE  Settled(g, h, rest, own, D \ {i})
<1>1. PICK c : c = own[i]
  OBVIOUS
<1> DEFINE N(S, field, b) == Cardinality(Naming(own, S, field, b))
<1>2. ASSUME NEW field \in Fields, NEW b \in Blocks
      PROVE  /\ N(D, field, b) = N(D \ {i}, field, b) + Same(c[field], b)
             /\ N(D \ {i}, field, b) \in Nat
  <2>1. IsFiniteSet(D \ {i})
    BY FS_RemoveElement
  <2>2. Cardinality(Naming(own, D, field, b))
          = Cardinality(Naming(own, D \ {i}, field, b)) + Same(own[i][field], b)
    BY NamingWithout
  <2> QED
    BY <1>1, <2>1, <2>2, NamingFinite
<1>3. ASSUME NEW field \in Fields, NEW b \in Blocks
      PROVE  /\ rest[field][b] \in Nat /\ Deferred(h.deferred, field, b) \in Nat
             /\ Lost(h, field, b) \in Nat
  <2>1. h.deferred \in Seq(Caches)
    BY DEF Heaps
  <2> QED
    BY <2>1, DeferredType DEF Lost
<1>4. ASSUME NEW field \in Fields, NEW b \in Blocks
      PROVE  Refs(h, field)[b] = rest[field][b] + N(D, field, b) + Deferred(h.deferred, field, b)
                                 + Lost(h, field, b)
  BY Zenon DEF Accounts
<1> HIDE DEF N
<1>5. \A field \in Fields : c[field] \in Blocks => Refs(h, field)[c[field]] > 0
  <2> SUFFICES ASSUME NEW field \in Fields, NEW b \in Blocks, c[field] = b
               PROVE  Refs(h, field)[b] > 0
    OBVIOUS
  <2>1. Same(c[field], b) = 1
    BY DEF Same
  <2> QED
    BY <2>1, <1>2, <1>3, <1>4
<1>6. /\ g \in Heaps /\ Lesser(g, h, c) /\ g.lost = h.lost
      /\ Balance(g) = Balance(h)
  BY <1>1, <1>5, ReleaseLessens
<1>7. ASSUME NEW field \in Fields, NEW b \in Blocks
      PROVE  Refs(g, field)[b] = rest[field][b] + N(D \ {i}, field, b) + Deferred(g.deferred, field, b)
                                 + Lost(g, field, b)
  <2>1. Refs(g, field)[b] + Same(c[field], b) + Deferred(h.deferred, field, b)
          = Refs(h, field)[b] + Deferred(g.deferred, field, b)
    BY <1>6, Zenon DEF Lesser
  <2>2. Lost(g, field, b) = Lost(h, field, b)
    BY <1>6, Zenon DEF Lost
  <2>3. /\ Refs(g, field)[b] \in Nat /\ Deferred(g.deferred, field, b) \in Nat
        /\ Same(c[field], b) \in Nat
    <3>1. g.deferred \in Seq(Caches) /\ g.outputs \in [Blocks -> Nat] /\ g.stores \in [Blocks -> Nat]
      BY <1>6 DEF Heaps
    <3> QED
      BY <3>1, DeferredType DEF Refs, Same
  <2>4. N(D, field, b) = N(D \ {i}, field, b) + Same(c[field], b) /\ N(D \ {i}, field, b) \in Nat
    BY <1>2, Zenon
  <2>5. rest[field][b] \in Nat /\ Deferred(h.deferred, field, b) \in Nat /\ Lost(h, field, b) \in Nat
    BY <1>3, Zenon
  <2>6. Refs(h, field)[b] = rest[field][b] + N(D, field, b) + Deferred(h.deferred, field, b)
                            + Lost(h, field, b)
    BY <1>4, Zenon
  <2> QED
    BY <2>1, <2>2, <2>3, <2>4, <2>5, <2>6
<1> QED
  BY <1>6, <1>7, Zenon DEF Accounts, Settled, N

\* The caches with a number up to i.
UpTo(caches, key, i) == {key[j] : j \in {k \in DOMAIN caches : k <= i}}

\* The keys of the caches.
Keys(caches, key) == {key[j] : j \in DOMAIN caches}

\* What releasing caches of D leaves is accounted for without them.
LEMMA ReleasedAccounts ==
  ASSUME NEW n \in Nat, NEW h \in Heaps, NEW rest \in [Fields -> [Blocks -> Nat]],
         NEW own, NEW D, IsFiniteSet(D), \A d \in D : own[d] \in Caches,
         NEW caches, NEW key, DOMAIN caches \subseteq 1 .. n,
         \A j \in DOMAIN caches : key[j] \in D /\ own[key[j]] = caches[j],
         \A j, k \in DOMAIN caches : key[j] = key[k] => j = k,
         Accounts(h, rest, own, D), NEW g \in Released(n, h, caches)
  PROVE  Settled(g, h, rest, own, D \ Keys(caches, key))
<1> DEFINE Gone(i) == UpTo(caches, key, i)
           Good(x, i) == Settled(x, h, rest, own, D \ Gone(i))
<1>1. PICK f : (\A i \in 0 .. n : f[i] = Then(h, caches, f, i)) /\ g \in f[n]
  <2>1. PICK f : /\ \A i \in 0 .. n : f[i] = Then(h, caches, f, i)
                 /\ Released(n, h, caches) = f[n]
    BY ReleasedIs
  <2> QED
    BY <2>1, Zenon
<1>2. Gone(0) = {}
  BY DEF UpTo
<1>3. \A x \in f[0] : Good(x, 0)
  <2>1. 0 \in 0 .. n
    OBVIOUS
  <2>2. f[0] = {h}
    BY <1>1, <2>1, Zenon DEF Then
  <2>3. D \ {} = D
    OBVIOUS
  <2>4. Good(h, 0)
    BY <1>2, <2>3, Zenon DEF Settled
  <2> HIDE DEF Good
  <2> QED
    BY <2>2, <2>4, Zenon
<1>4. ASSUME NEW i \in 1 .. n, \A x \in f[i - 1] : Good(x, i - 1)
      PROVE  \A x \in f[i] : Good(x, i)
  <2>1. i \in 0 .. n /\ i # 0 /\ i - 1 \in 0 .. n
    OBVIOUS
  <2>2. f[i] = IF i \notin DOMAIN caches THEN f[i - 1]
               ELSE {x \in UNION {Release(k, caches[i]) : k \in f[i - 1]} : x.faults <= MaxFaults}
    BY <1>1, <2>1, Zenon DEF Then
  <2>3. CASE i \notin DOMAIN caches
    <3>1. Gone(i) = Gone(i - 1)
      <4>1. {k \in DOMAIN caches : k <= i} = {k \in DOMAIN caches : k <= i - 1}
        BY <2>3
      <4> QED
        BY <4>1, Zenon DEF UpTo
    <3>2. f[i] = f[i - 1]
      BY <2>2, <2>3, Zenon
    <3> QED
      BY <3>1, <3>2, <1>4, Zenon
  <2>4. CASE i \in DOMAIN caches
    <3> SUFFICES ASSUME NEW x \in f[i] PROVE Good(x, i)
      OBVIOUS
    <3>1. PICK k \in f[i - 1] : x \in Release(k, caches[i])
      <4>1. x \in UNION {Release(k, caches[i]) : k \in f[i - 1]}
        BY <2>2, <2>4, Zenon
      <4> QED
        BY <4>1, Zenon
    <3>2. Good(k, i - 1)
      BY <1>4, Zenon
    <3>3. PICK E, d : E = D \ Gone(i - 1) /\ d = key[i]
      OBVIOUS
    <3>4. d \in E /\ own[d] = caches[i] /\ own[d] \in Caches
      <4>1. d \in D /\ own[d] = caches[i] /\ own[d] \in Caches
        BY <2>4, <3>3, Zenon
      <4>2. d \notin Gone(i - 1)
        <5> SUFFICES ASSUME d \in Gone(i - 1) PROVE FALSE
          OBVIOUS
        <5>1. PICK j \in DOMAIN caches : j <= i - 1 /\ d = key[j]
          BY Zenon DEF UpTo
        <5>2. j = i
          BY <2>4, <3>3, <5>1, Zenon
        <5> QED
          BY <5>1, <5>2
      <4> QED
        BY <3>3, <4>1, <4>2, Zenon
    <3>5. IsFiniteSet(E)
      BY <3>3, FS_Difference
    <3>6. Settled(x, k, rest, own, E \ {d})
      <4>1. k \in Heaps /\ Accounts(k, rest, own, E)
        BY <3>2, <3>3, Zenon DEF Settled
      <4>2. x \in Release(k, own[d])
        BY <3>1, <3>4, Zenon
      <4>3. d \in E /\ own[d] \in Caches
        BY <3>4
      <4> QED
        BY <3>5, <4>1, <4>2, <4>3, ReleaseAccounts
    <3>7. E \ {d} = D \ Gone(i)
      <4>1. {j \in DOMAIN caches : j <= i} = {j \in DOMAIN caches : j <= i - 1} \cup {i}
        BY <2>4
      <4>2. Gone(i) = Gone(i - 1) \cup {key[i]}
        <5>1. PICK S, T : S = {j \in DOMAIN caches : j <= i} /\ T = {j \in DOMAIN caches : j <= i - 1}
          OBVIOUS
        <5>2. Gone(i) = {key[j] : j \in S} /\ Gone(i - 1) = {key[j] : j \in T}
          BY <5>1, Zenon DEF UpTo
        <5>3. S = T \cup {i}
          BY <4>1, <5>1, Zenon
        <5>4. {key[j] : j \in T \cup {i}} = {key[j] : j \in T} \cup {key[i]}
          OBVIOUS
        <5> QED
          BY <5>2, <5>3, <5>4, Zenon
      <4> QED
        BY <3>3, <4>2, Zenon
    <3> QED
      BY <3>2, <3>6, <3>7, Zenon DEF Settled
  <2> QED
    BY <2>3, <2>4
<1> HIDE DEF Good
<1>5. \A i \in 0 .. n : \A x \in f[i] : Good(x, i)
  <2> DEFINE Bad == {i \in 0 .. n : ~ \A x \in f[i] : Good(x, i)}
  <2> SUFFICES ASSUME Bad # {} PROVE FALSE
    OBVIOUS
  <2>1. PICK m \in Bad : \A k \in 0 .. m - 1 : k \notin Bad
    <3>1. Bad \in SUBSET Nat
      OBVIOUS
    <3> HIDE DEF Bad
    <3> QED
      BY <3>1, Least
  <2>2. m \in 1 .. n /\ m - 1 \in 0 .. n /\ m - 1 \in 0 .. m - 1
    BY <2>1, <1>3
  <2>3. \A x \in f[m - 1] : Good(x, m - 1)
    BY <2>1, <2>2, Zenon
  <2> QED
    BY <1>4, <2>1, <2>2, <2>3, Zenon
<1>6. Gone(n) = Keys(caches, key)
  <2>1. \A k \in DOMAIN caches : k <= n
    OBVIOUS
  <2> QED
    BY <2>1, Zenon DEF UpTo, Keys
<1>7. Good(g, n)
  <2>1. n \in 0 .. n
    OBVIOUS
  <2> QED
    BY <2>1, <1>1, <1>5, Zenon
<1> QED
  BY <1>6, <1>7, Zenon DEF Good

------------------------------------------------------------------------------
(* Allocation *)

\* A set no larger than another is mapped into it.
LEMMA Fits ==
  ASSUME NEW S, IsFiniteSet(S), NEW T, IsFiniteSet(T), Cardinality(S) <= Cardinality(T)
  PROVE  Injection(S, T) # {}
<1>1. PICK m, n : m = Cardinality(S) /\ n = Cardinality(T)
  OBVIOUS
<1>2. m \in Nat /\ n \in Nat /\ m <= n
  BY <1>1, FS_CardinalityType
<1>3. PICK f : f \in Bijection(1 .. m, S)
  BY <1>1, FS_CardinalityType DEF ExistsBijection
<1>4. PICK g : g \in Bijection(1 .. n, T)
  BY <1>1, FS_CardinalityType DEF ExistsBijection
<1>5. PICK e : e \in Bijection(S, 1 .. m)
  BY <1>3, Fun_BijInverse
<1>6. /\ e \in [S -> 1 .. m] /\ \A a, b \in S : e[a] = e[b] => a = b
      /\ g \in [1 .. n -> T] /\ \A a, b \in 1 .. n : g[a] = g[b] => a = b
  BY <1>4, <1>5, Fun_BijectionProperties, Zenon
<1> DEFINE h == [s \in S |-> g[e[s]]]
<1>7. h \in [S -> T]
  BY <1>2, <1>6
<1>8. \A a, b \in S : h[a] = h[b] => a = b
  <2>1. \A a \in S : e[a] \in 1 .. n
    BY <1>2, <1>6
  <2> QED
    BY <2>1, <1>6, Zenon
<1> HIDE DEF h
<1> QED
  BY <1>7, <1>8, Fun_IsInj

\* Where there is room, the blocks found were unused and are different.
LEMMA FreshIs ==
  ASSUME NEW refs, NEW S, IsFiniteSet(S), Room(refs, Cardinality(S))
  PROVE  /\ Fresh(refs, S) \in [S -> Blocks]
         /\ \A r \in S : refs[Fresh(refs, S)[r]] = 0
         /\ \A q, r \in S : Fresh(refs, S)[q] = Fresh(refs, S)[r] => q = r
<1>1. IsFiniteSet(Unused(refs))
  <2>1. IsFiniteSet(Blocks)
    BY BatchingAssumption, FS_Interval DEF Blocks
  <2>2. Unused(refs) \in SUBSET Blocks
    BY DEF Unused
  <2> QED
    BY <2>1, <2>2, FS_Subset
<1>2. Cardinality(S) <= Cardinality(Unused(refs))
  <2>1. Cardinality(S) \in Nat /\ Cardinality(Unused(refs)) \in Nat
    BY <1>1, FS_CardinalityType
  <2> QED
    BY <2>1 DEF Room
<1>3. PICK f : f = Fresh(refs, S)
  OBVIOUS
<1>4. f \in Injection(S, Unused(refs))
  BY <1>1, <1>2, <1>3, Fits, Zenon DEF Fresh
<1>5. f \in [S -> Unused(refs)] /\ \A q, r \in S : f[q] = f[r] => q = r
  BY <1>4, Fun_InjectionProperties, Zenon
<1>6. f \in [S -> Blocks] /\ \A r \in S : refs[f[r]] = 0
  BY <1>5 DEF Unused
<1> QED
  BY <1>3, <1>5, <1>6, Zenon

------------------------------------------------------------------------------
(* The inductive invariant *)

\* A sequence's cache has outputs and a storage.
FullCaches == [outputs : Blocks, store : Blocks]
Phases == {"idle", "admitting", "stepping", "accepting", "rejecting", "closing", "done"}

Shape ==
  /\ call \in [Requests -> {"submitting", "waiting", "returned"}]
  /\ late \in [Requests -> Nat] /\ produced \in [Requests -> Nat] /\ position \in [Requests -> Nat]
  /\ stop \in BOOLEAN /\ accepted \in BOOLEAN
  /\ answered \subseteq Requests /\ cancelled \subseteq Requests /\ evaluated \subseteq Requests
  /\ queue \subseteq Requests /\ active \subseteq Requests /\ todo \subseteq Requests
  /\ phase \in Phases
  /\ device \in [Requests -> FullCaches \cup {None}]
  /\ heap \in Heaps

\* Who is admitted when, and who still has to append or to get a token.
Rounds ==
  /\ active # {} => phase \in {"admitting", "stepping", "accepting"}
  /\ Cardinality(active) <= MaxSequences
  /\ todo \subseteq active /\ evaluated \subseteq active
  /\ todo # {} => phase \in {"stepping", "accepting"}
  /\ accepted => \E r \in evaluated : Turn(r)

\* A cache is that of an admitted request, which has read it but for its first step, and
\* has followed its ids.
Follows ==
  /\ \A r \in Requests : r \in evaluated \/ Awaits(r) => device[r] # None
  /\ \A r \in Requests : device[r] = None => position[r] = 0
  /\ \A r \in Requests : device[r] # None =>
       /\ r \in active /\ (r \in evaluated \/ Awaits(r))
       /\ position[r] = PromptTokens + produced[r] - (IF Awaits(r) THEN 0 ELSE 1)

Nothing == [field \in Fields |-> [b \in Blocks |-> 0]]
Kept == {r \in Requests : device[r] # None}

\* Every reference is accounted for; no storage is that of two sequences; a cache is
\* deferred for a release that failed.
Memory ==
  /\ Accounts(heap, Nothing, device, Kept)
  /\ \A q, r \in Kept : device[q].store = device[r].store => q = r
  /\ Balance(heap) >= 0

\* A request is queued, admitted or answered, one of these; Generate leaves the first two
\* only for its context or the scheduler's end; a callback that came late is the last.
Calls ==
  /\ queue \cap active = {} /\ answered \cap (queue \cup active) = {}
  /\ \A r \in queue \cup active \cup answered : call[r] # "submitting"
  /\ \A r \in active : call[r] = "returned" => r \in cancelled
  /\ \A r \in queue : call[r] = "returned" => r \in cancelled \/ phase = "done"
  /\ \A r \in Requests : late[r] <= 1
  /\ \A r \in Requests : late[r] = 1 =>
       /\ call[r] = "returned" /\ r \notin queue
       /\ r \in active => r \in cancelled /\ r \in evaluated /\ ~ (accepted /\ Turn(r))

Inv == Shape /\ Rounds /\ Follows /\ Memory /\ Calls

------------------------------------------------------------------------------
(* Memory *)

LEMMA Numbers ==
  /\ Requests \subseteq Nat \ {0} /\ IsFiniteSet(Requests) /\ Requests = 1 .. MaxCalls /\ MaxCalls \in Nat
  /\ Nothing \in [Fields -> [Blocks -> Nat]]
<1>1. IsFiniteSet(1 .. MaxCalls)
  BY BatchingAssumption, FS_Interval
<1> QED
  BY <1>1, BatchingAssumption DEF Requests, Nothing

LEMMA KeptAre ==
  ASSUME device \in [Requests -> FullCaches \cup {None}]
  PROVE  /\ Kept \subseteq Requests /\ IsFiniteSet(Kept)
         /\ \A r \in Kept : device[r] \in FullCaches /\ device[r] \in Caches
<1>1. Kept \subseteq Requests
  BY DEF Kept
<1>2. IsFiniteSet(Kept)
  BY <1>1, Numbers, FS_Subset
<1>3. \A r \in Kept : device[r] \in FullCaches
  BY DEF Kept
<1>4. FullCaches \subseteq Caches
  BY DEF FullCaches, Caches
<1> QED
  BY <1>1, <1>2, <1>3, <1>4

\* Releasing what those that leave have.
LEMMA HeldSettled ==
  ASSUME device \in [Requests -> FullCaches \cup {None}],
         NEW order, DOMAIN order \subseteq Requests, \A i \in DOMAIN order : order[i] \in Requests,
         \A i, j \in DOMAIN order : order[i] = order[j] => i = j,
         NEW h \in Heaps, NEW rest \in [Fields -> [Blocks -> Nat]], NEW E \in SUBSET Kept,
         \A i \in DOMAIN order : order[i] \in Kept => order[i] \in E,
         Accounts(h, rest, device, E), NEW g \in Released(MaxCalls, h, Held(order))
  PROVE  Settled(g, h, rest, device, E \ Range(order))
<1>1. PICK caches : caches = Held(order)
  OBVIOUS
<1>2. /\ DOMAIN caches = {i \in DOMAIN order : device[order[i]] # None}
      /\ \A i \in DOMAIN caches : caches[i] = device[order[i]]
  BY <1>1, Zenon DEF Held
<1>3. \A j \in DOMAIN caches : order[j] \in E /\ device[order[j]] = caches[j]
  BY <1>2, Zenon DEF Kept
<1>4. \A j, k \in DOMAIN caches : order[j] = order[k] => j = k
  BY <1>2, Zenon
<1>5. DOMAIN caches \subseteq 1 .. MaxCalls /\ MaxCalls \in Nat
  BY <1>2, Numbers, Zenon
<1>6. IsFiniteSet(E) /\ \A d \in E : device[d] \in Caches
  BY KeptAre, FS_Subset
<1>7. g \in Released(MaxCalls, h, caches)
  BY <1>1, Zenon
<1>8. Settled(g, h, rest, device, E \ Keys(caches, order))
  BY <1>3, <1>4, <1>5, <1>6, <1>7, ReleasedAccounts
<1>9. E \ Keys(caches, order) = E \ Range(order)
  <2> SUFFICES ASSUME NEW d \in E
               PROVE  d \in Keys(caches, order) <=> d \in Range(order)
    BY Zenon
  <2>1. device[d] # None
    BY Zenon DEF Kept
  <2>2. ASSUME NEW j \in DOMAIN caches, d = order[j] PROVE d \in Range(order)
    BY <2>2, <1>2, Zenon DEF Range
  <2>3. ASSUME NEW j \in DOMAIN order, d = order[j] PROVE d \in Keys(caches, order)
    BY <2>1, <2>3, <1>2, Zenon DEF Keys
  <2> QED
    BY <2>2, <2>3, Zenon DEF Range, Keys
<1> QED
  BY <1>8, <1>9, Zenon

LEMMA AccountsAlike ==
  ASSUME NEW h, NEW rest, NEW own, NEW D, NEW alike, NEW S, S = D, \A i \in D : alike[i] = own[i],
         Accounts(h, rest, own, D)
  PROVE  Accounts(h, rest, alike, S)
<1>1. \A field, b : Naming(alike, S, field, b) = Naming(own, D, field, b)
  BY Zenon DEF Naming
<1> QED
  BY <1>1, Zenon DEF Accounts

LEMMA ForgetsMemory ==
  ASSUME device \in [Requests -> FullCaches \cup {None}],
         \A q, r \in Kept : device[q].store = device[r].store => q = r,
         NEW gone, Forget(gone), Accounts(heap', Nothing, device, Kept \ gone), Balance(heap') >= 0
  PROVE  Memory'
<1>1. /\ device' \in [Requests -> FullCaches \cup {None}]
      /\ \A r \in Requests : device'[r] = IF r \in gone THEN None ELSE device[r]
  BY DEF Forget
<1>2. Kept' = Kept \ gone /\ \A r \in Kept' : device'[r] = device[r]
  BY <1>1, Zenon DEF Kept
<1>3. Accounts(heap', Nothing, device', Kept')
  BY <1>2, AccountsAlike
<1>4. \A q, r \in Kept' : device'[q].store = device'[r].store => q = r
  <2> SUFFICES ASSUME NEW q \in Kept', NEW r \in Kept', device'[q].store = device'[r].store PROVE q = r
    OBVIOUS
  <2>1. q \in Kept /\ r \in Kept /\ device'[q] = device[q] /\ device'[r] = device[r]
    BY <1>2
  <2> QED
    BY <2>1
<1>5. Nothing' = Nothing
  BY DEF Nothing
<1> QED
  BY <1>3, <1>4, <1>5 DEF Memory

LEMMA LeaveMemory ==
  ASSUME Shape, Memory, NEW order, DOMAIN order \subseteq Requests,
         \A i \in DOMAIN order : order[i] \in Requests,
         \A i, j \in DOMAIN order : order[i] = order[j] => i = j,
         Leave(order)
  PROVE  heap' \in Heaps /\ Memory'
<1>1. device \in [Requests -> FullCaches \cup {None}] /\ heap \in Heaps
  BY DEF Shape
<1>2. PICK g : g = heap'
  OBVIOUS
<1>3. g \in Released(MaxCalls, heap, Held(order))
  BY <1>2 DEF Leave
<1>4. Accounts(heap, Nothing, device, Kept) /\ Balance(heap) >= 0
      /\ \A q, r \in Kept : device[q].store = device[r].store => q = r
  BY DEF Memory
<1>5. Settled(g, heap, Nothing, device, Kept \ Range(order))
  <2>1. Kept \in SUBSET Kept /\ \A i \in DOMAIN order : order[i] \in Kept => order[i] \in Kept
    OBVIOUS
  <2> QED
    BY <2>1, <1>1, <1>3, <1>4, Numbers, HeldSettled
<1>6. Accounts(heap', Nothing, device, Kept \ Range(order)) /\ Balance(heap') >= 0 /\ heap' \in Heaps
  BY <1>2, <1>4, <1>5, Zenon DEF Settled
<1>7. Forget(Range(order))
  BY DEF Leave
<1> QED
  BY <1>1, <1>4, <1>6, <1>7, ForgetsMemory

\* The rest, and what the caches of D name.
With(rest, own, D) ==
  [field \in Fields |-> [b \in Blocks |-> rest[field][b] + Cardinality(Naming(own, D, field, b))]]

LEMMA WithType ==
  ASSUME NEW rest \in [Fields -> [Blocks -> Nat]], NEW own, NEW D, IsFiniteSet(D)
  PROVE  /\ With(rest, own, D) \in [Fields -> [Blocks -> Nat]]
         /\ \A field \in Fields, b \in Blocks :
              With(rest, own, D)[field][b] = rest[field][b] + Cardinality(Naming(own, D, field, b))
<1>1. \A field \in Fields, b \in Blocks : rest[field][b] + Cardinality(Naming(own, D, field, b)) \in Nat
  BY NamingFinite
<1> QED
  BY <1>1 DEF With

\* Caches may be counted among the rest.
LEMMA MoveIn ==
  ASSUME NEW h, NEW rest \in [Fields -> [Blocks -> Nat]], NEW own, NEW D, IsFiniteSet(D), NEW other
  PROVE  Accounts(h, rest, own, D) <=> Accounts(h, With(rest, own, D), other, {})
<1>1. \A field, b : Cardinality(Naming(other, {}, field, b)) = 0
  <2>1. \A field, b : Naming(other, {}, field, b) = {}
    BY Zenon DEF Naming
  <2> QED
    BY <2>1, FS_EmptySet
<1> SUFFICES ASSUME NEW field \in Fields, NEW b \in Blocks
             PROVE  rest[field][b] + Cardinality(Naming(own, D, field, b))
                      = With(rest, own, D)[field][b] + Cardinality(Naming(other, {}, field, b))
  BY Zenon DEF Accounts
<1>2. rest[field][b] + Cardinality(Naming(own, D, field, b)) \in Nat
  BY NamingFinite
<1>3. With(rest, own, D)[field][b] = rest[field][b] + Cardinality(Naming(own, D, field, b))
  BY WithType
<1> QED
  BY <1>1, <1>2, <1>3

------------------------------------------------------------------------------
(* Steps *)

\* The outputs of the copies and of the forward pass are new and different.
LEMMA OutputsAre ==
  ASSUME NEW S \in SUBSET Requests, Room(heap.outputs, Cardinality(S) + 1)
  PROVE  /\ Outputs(S) \in [S \cup {0} -> Blocks] /\ 0 \notin S
         /\ \A r \in S \cup {0} : heap.outputs[Outputs(S)[r]] = 0
         /\ \A q, r \in S \cup {0} : Outputs(S)[q] = Outputs(S)[r] => q = r
<1>1. 0 \notin S /\ IsFiniteSet(S)
  BY Numbers, FS_Subset
<1>2. IsFiniteSet(S \cup {0}) /\ Cardinality(S \cup {0}) = Cardinality(S) + 1
  BY <1>1, FS_AddElement
<1>3. PICK T : T = S \cup {0}
  OBVIOUS
<1>4. IsFiniteSet(T) /\ Room(heap.outputs, Cardinality(T))
  BY <1>2, <1>3
<1>5. PICK refs : refs = heap.outputs
  OBVIOUS
<1>6. /\ Fresh(refs, T) \in [T -> Blocks]
      /\ \A r \in T : refs[Fresh(refs, T)[r]] = 0
      /\ \A q, r \in T : Fresh(refs, T)[q] = Fresh(refs, T)[r] => q = r
  BY <1>4, <1>5, FreshIs
<1>7. Fresh(refs, T) = Outputs(S)
  BY <1>3, <1>5, Zenon DEF Outputs
<1> QED
  BY <1>1, <1>3, <1>5, <1>6, <1>7, Zenon

LEMMA CopiesAre ==
  ASSUME NEW S \in SUBSET Requests, Room(heap.outputs, Cardinality(S) + 1)
  PROVE  /\ DOMAIN Copies(S) = S
         /\ \A r \in S : /\ Copies(S)[r] \in Caches /\ Copies(S)[r]["store"] = 0
                         /\ Copies(S)[r]["outputs"] = Outputs(S)[r]
<1>1. DOMAIN Copies(S) = S /\ \A r \in S : Copies(S)[r] = Cache(Outputs(S)[r], 0)
  BY DEF Copies
<1>2. \A r \in S : Outputs(S)[r] \in Blocks
  BY OutputsAre
<1> QED
  BY <1>1, <1>2 DEF Cache, Caches

\* A block is that of one copy or of none.
Copy(S, b) == \E r \in S : Outputs(S)[r] = b

LEMMA CopyNaming ==
  ASSUME NEW S \in SUBSET Requests, Room(heap.outputs, Cardinality(S) + 1), NEW b \in Blocks
  PROVE  /\ Cardinality(Naming(Copies(S), S, "outputs", b)) = IF Copy(S, b) THEN 1 ELSE 0
         /\ Cardinality(Naming(Copies(S), S, "store", b)) = 0
<1>1. 0 # b
  BY DEF Blocks
<1>2. Naming(Copies(S), S, "store", b) = {}
  <2>1. \A r \in S : Copies(S)[r]["store"] = 0
    BY CopiesAre
  <2> QED
    BY <1>1, <2>1, Zenon DEF Naming
<1>3. \A r \in S : Copies(S)[r]["outputs"] = Outputs(S)[r]
  BY CopiesAre
<1>4. CASE Copy(S, b)
  <2>1. PICK r \in S : Outputs(S)[r] = b
    BY <1>4, Zenon DEF Copy
  <2>2. \A q \in S : Outputs(S)[q] = b => q = r
    <3>1. \A q, s \in S \cup {0} : Outputs(S)[q] = Outputs(S)[s] => q = s
      BY OutputsAre
    <3> QED
      BY <2>1, <3>1
  <2>3. Naming(Copies(S), S, "outputs", b) = {r}
    BY <2>1, <2>2, <1>3, Zenon DEF Naming
  <2> QED
    BY <2>3, <1>2, <1>4, FS_Singleton, FS_EmptySet
<1>5. CASE ~ Copy(S, b)
  <2>1. Naming(Copies(S), S, "outputs", b) = {}
    BY <1>3, <1>5, Zenon DEF Naming, Copy
  <2> QED
    BY <2>1, <1>2, <1>5, FS_EmptySet
<1> QED
  BY <1>4, <1>5

\* The heap with the copies, and what else names its blocks.
LEMMA CopiedIs ==
  ASSUME heap \in Heaps, NEW S \in SUBSET Requests, Room(heap.outputs, Cardinality(S) + 1)
  PROVE  /\ Copied(S) \in Heaps /\ Copied(S).stores = heap.stores /\ Copied(S).deferred = heap.deferred
         /\ Copied(S).lost = heap.lost /\ Copied(S).faults = heap.faults
         /\ \A b \in Blocks :
              /\ Copied(S).outputs[b] = IF Copy(S, b) THEN 1 ELSE heap.outputs[b]
              /\ Copy(S, b) => heap.outputs[b] = 0
<1>1. PICK o : o = [b \in Blocks |-> IF Copy(S, b) THEN 1 ELSE heap.outputs[b]]
  OBVIOUS
<1>2. heap.outputs \in [Blocks -> Nat] /\ o \in [Blocks -> Nat]
  BY <1>1 DEF Heaps
<1>3. Copied(S) = [heap EXCEPT !.outputs = o]
  BY <1>1, Zenon DEF Copied, Copy
<1>4. /\ Copied(S) \in Heaps /\ Copied(S).stores = heap.stores /\ Copied(S).deferred = heap.deferred
      /\ Copied(S).lost = heap.lost /\ Copied(S).faults = heap.faults /\ Copied(S).outputs = o
  BY <1>2, <1>3 DEF Heaps
<1>5. ASSUME NEW b \in Blocks, Copy(S, b) PROVE heap.outputs[b] = 0
  <2>1. PICK r \in S : Outputs(S)[r] = b
    BY <1>5, Zenon DEF Copy
  <2>2. \A q \in S \cup {0} : heap.outputs[Outputs(S)[q]] = 0
    BY OutputsAre
  <2> QED
    BY <2>1, <2>2
<1> QED
  BY <1>1, <1>4, <1>5

LEMMA CopiedAccounts ==
  ASSUME Shape, Memory, NEW S \in SUBSET Requests, Room(heap.outputs, Cardinality(S) + 1)
  PROVE  Accounts(Copied(S), With(Nothing, device, Kept), Copies(S), S)
<1>1. device \in [Requests -> FullCaches \cup {None}] /\ heap \in Heaps
  BY DEF Shape
<1>2. IsFiniteSet(Kept)
  BY <1>1, KeptAre
<1> SUFFICES ASSUME NEW field \in Fields, NEW b \in Blocks
             PROVE  Refs(Copied(S), field)[b]
                      = With(Nothing, device, Kept)[field][b] + Cardinality(Naming(Copies(S), S, field, b))
                        + Deferred(Copied(S).deferred, field, b) + Lost(Copied(S), field, b)
  BY Zenon DEF Accounts
<1>3. Refs(heap, field)[b] = Nothing[field][b] + Cardinality(Naming(device, Kept, field, b))
                               + Deferred(heap.deferred, field, b) + Lost(heap, field, b)
  BY Zenon DEF Memory, Accounts
<1>4. PICK n, w, d, l, k :
        /\ n = Cardinality(Naming(device, Kept, field, b)) /\ w = With(Nothing, device, Kept)[field][b]
        /\ d = Deferred(heap.deferred, field, b) /\ l = Lost(heap, field, b)
        /\ k = Cardinality(Naming(Copies(S), S, field, b))
  OBVIOUS
<1>5. n \in Nat /\ w = n /\ d \in Nat /\ l \in Nat
  <2>1. heap.deferred \in Seq(Caches)
    BY <1>1 DEF Heaps
  <2>2. n \in Nat
    BY <1>2, <1>4, NamingFinite
  <2>3. w = n
    <3>1. Nothing[field][b] = 0
      BY DEF Nothing
    <3>2. w = Nothing[field][b] + n
      BY <1>2, <1>4, WithType, Numbers
    <3> QED
      BY <2>2, <3>1, <3>2
  <2> QED
    BY <2>1, <2>2, <2>3, <1>4, DeferredType DEF Lost
<1>6. Refs(heap, field)[b] = n + d + l
  <2>1. Nothing[field][b] = 0
    BY DEF Nothing
  <2> QED
    BY <2>1, <1>3, <1>4, <1>5
<1>7. Deferred(Copied(S).deferred, field, b) = d /\ Lost(Copied(S), field, b) = l
  BY <1>1, <1>4, CopiedIs DEF Lost
<1>8. Refs(Copied(S), field)[b] = n + k + d + l
  <2>1. CASE field = "store"
    <3>1. k = 0
      BY <1>4, <2>1, CopyNaming
    <3>2. Refs(Copied(S), field)[b] = Refs(heap, field)[b]
      BY <1>1, <2>1, CopiedIs DEF Refs
    <3> QED
      BY <3>1, <3>2, <1>5, <1>6
  <2>2. CASE field = "outputs"
    <3>1. k = IF Copy(S, b) THEN 1 ELSE 0
      BY <1>4, <2>2, CopyNaming
    <3>2. /\ Refs(Copied(S), field)[b] = IF Copy(S, b) THEN 1 ELSE heap.outputs[b]
          /\ Copy(S, b) => heap.outputs[b] = 0
      BY <1>1, <2>2, CopiedIs DEF Refs
    <3>3. heap.outputs[b] = n + d + l
      BY <1>6, <2>2 DEF Refs
    <3> QED
      BY <3>1, <3>2, <3>3, <1>5
  <2> QED
    BY <2>1, <2>2 DEF Fields
<1> QED
  BY <1>4, <1>5, <1>7, <1>8

\* What a failed forward pass could not give back is lost.
LEMMA AbandonedAccounts ==
  ASSUME NEW h \in Heaps, NEW rest \in [Fields -> [Blocks -> Nat]], NEW own, NEW D, IsFiniteSet(D),
         Accounts(h, rest, own, D), Balance(h) >= 0,
         NEW o \in Blocks, h.outputs[o] = 0, NEW s \in Blocks, h.stores[s] = 0,
         NEW g \in Abandoned(h, o, s)
  PROVE  g \in Heaps /\ Accounts(g, rest, own, D) /\ Balance(g) >= 0
<1>1. /\ h.outputs \in [Blocks -> Nat] /\ h.stores \in [Blocks -> Nat] /\ h.deferred \in Seq(Caches)
      /\ h.lost \subseteq Fields \X Blocks /\ h.faults \in Nat /\ Len(h.deferred) \in Nat
  BY DEF Heaps, Fields
<1>2. PICK n, a, z : n = h.faults + 1 /\ a = [h.outputs EXCEPT ![o] = 1] /\ z = [h.stores EXCEPT ![s] = 1]
  OBVIOUS
<1>3. PICK x, y : x = h.lost \cup {<<"outputs", o>>} /\ y = h.lost \cup {<<"store", s>>}
  OBVIOUS
<1>4. n \in Nat /\ a \in [Blocks -> Nat] /\ z \in [Blocks -> Nat]
      /\ x \in SUBSET (Fields \X Blocks) /\ y \in SUBSET (Fields \X Blocks)
  BY <1>1, <1>2, <1>3 DEF Fields
<1>5. \/ g = h
      \/ g = [h EXCEPT !.faults = n, !.outputs = a, !.lost = x]
      \/ g = [h EXCEPT !.faults = n, !.stores = z, !.lost = y]
  <2>1. \/ g = h
        \/ g = [h EXCEPT !.faults = @ + 1, !.outputs[o] = 1, !.lost = @ \cup {<<"outputs", o>>}]
        \/ g = [h EXCEPT !.faults = @ + 1, !.stores[s] = 1, !.lost = @ \cup {<<"store", s>>}]
    BY Zenon DEF Abandoned
  <2> QED
    BY <2>1, <1>2, <1>3 DEF Heaps
<1>6. \A field \in Fields, b \in Blocks :
        /\ rest[field][b] \in Nat /\ Cardinality(Naming(own, D, field, b)) \in Nat
        /\ Deferred(h.deferred, field, b) \in Nat /\ Lost(h, field, b) \in Nat
  BY <1>1, NamingFinite, DeferredType DEF Lost
<1>7. ASSUME NEW field \in Fields, NEW b \in Blocks, Refs(h, field)[b] = 0
      PROVE  <<field, b>> \notin h.lost
  <2>1. Refs(h, field)[b] = rest[field][b] + Cardinality(Naming(own, D, field, b))
                              + Deferred(h.deferred, field, b) + Lost(h, field, b)
    BY Zenon DEF Accounts
  <2>2. /\ rest[field][b] \in Nat /\ Cardinality(Naming(own, D, field, b)) \in Nat
        /\ Deferred(h.deferred, field, b) \in Nat /\ Lost(h, field, b) \in Nat
    BY <1>6, Zenon
  <2>3. Lost(h, field, b) = 0
    <3>1. PICK w, k, d, l :
            /\ w = rest[field][b] /\ k = Cardinality(Naming(own, D, field, b))
            /\ d = Deferred(h.deferred, field, b) /\ l = Lost(h, field, b)
      OBVIOUS
    <3>2. w \in Nat /\ k \in Nat /\ d \in Nat /\ l \in Nat /\ w + k + d + l = 0
      BY <2>1, <2>2, <3>1, <1>7, Zenon
    <3>3. l = 0
      BY ONLY <3>2
    <3> QED
      BY <3>1, <3>3
  <2> QED
    BY <2>3 DEF Lost
<1>8. ASSUME g \in Heaps, g.deferred = h.deferred, g.faults = n,
             NEW name \in Fields, NEW c \in Blocks, Refs(h, name)[c] = 0,
             g.lost = h.lost \cup {<<name, c>>},
             \A field \in Fields, b \in Blocks :
               Refs(g, field)[b] = IF field = name /\ b = c THEN 1 ELSE Refs(h, field)[b]
      PROVE  Accounts(g, rest, own, D) /\ Balance(g) >= 0
  <2>1. Balance(g) >= 0
    BY <1>1, <1>2, <1>8 DEF Balance
  <2> SUFFICES ASSUME NEW field \in Fields, NEW b \in Blocks
               PROVE  Refs(g, field)[b]
                        = rest[field][b] + Cardinality(Naming(own, D, field, b))
                          + Deferred(g.deferred, field, b) + Lost(g, field, b)
    BY <2>1, Zenon DEF Accounts
  <2>2. Refs(h, field)[b] = rest[field][b] + Cardinality(Naming(own, D, field, b))
                              + Deferred(h.deferred, field, b) + Lost(h, field, b)
    BY Zenon DEF Accounts
  <2>3. CASE field = name /\ b = c
    <3>1. Lost(h, field, b) = 0 /\ Lost(g, field, b) = 1
      BY <1>7, <1>8, <2>3 DEF Lost
    <3>2. Refs(g, field)[b] = Refs(h, field)[b] + 1
      BY <1>8, <2>3
    <3> QED
      BY <1>6, <1>8, <2>2, <3>1, <3>2
  <2>4. CASE ~ (field = name /\ b = c)
    <3>1. Lost(g, field, b) = Lost(h, field, b)
      BY <1>8, <2>4 DEF Lost
    <3>2. Refs(g, field)[b] = Refs(h, field)[b]
      BY <1>8, <2>4
    <3> QED
      BY <1>8, <2>2, <3>1, <3>2
  <2> QED
    BY <2>3, <2>4
<1>9. CASE g = h
  BY <1>9
<1>10. CASE g = [h EXCEPT !.faults = n, !.outputs = a, !.lost = x]
  <2>1. /\ g \in Heaps /\ g.deferred = h.deferred /\ g.faults = n /\ g.lost = x
        /\ g.outputs = a /\ g.stores = h.stores
    BY <1>4, <1>10 DEF Heaps, Fields
  <2>2. \A field \in Fields, b \in Blocks :
          Refs(g, field)[b] = IF field = "outputs" /\ b = o THEN 1 ELSE Refs(h, field)[b]
    BY <2>1, <1>1, <1>2 DEF Refs
  <2>3. "outputs" \in Fields /\ Refs(h, "outputs")[o] = 0
    BY DEF Fields, Refs
  <2> QED
    BY <1>3, <1>8, <2>1, <2>2, <2>3
<1>11. CASE g = [h EXCEPT !.faults = n, !.stores = z, !.lost = y]
  <2>1. /\ g \in Heaps /\ g.deferred = h.deferred /\ g.faults = n /\ g.lost = y
        /\ g.outputs = h.outputs /\ g.stores = z
    BY <1>4, <1>11 DEF Heaps, Fields
  <2>2. \A field \in Fields, b \in Blocks :
          Refs(g, field)[b] = IF field = "store" /\ b = s THEN 1 ELSE Refs(h, field)[b]
    BY <2>1, <1>1, <1>2 DEF Refs, Fields
  <2>3. "store" \in Fields /\ Refs(h, "store")[s] = 0
    BY DEF Fields, Refs
  <2> QED
    BY <1>3, <1>8, <2>1, <2>2, <2>3
<1> QED
  BY <1>5, <1>9, <1>10, <1>11

LEMMA ByIdIs ==
  ASSUME NEW T \in SUBSET Requests
  PROVE  /\ DOMAIN ById(T) = T /\ DOMAIN ById(T) \subseteq Requests /\ Range(ById(T)) = T
         /\ \A i \in DOMAIN ById(T) : ById(T)[i] = i /\ ById(T)[i] \in Requests
         /\ \A i, j \in DOMAIN ById(T) : ById(T)[i] = ById(T)[j] => i = j
<1>1. DOMAIN ById(T) = T /\ \A i \in T : ById(T)[i] = i
  BY DEF ById
<1>2. Range(ById(T)) = T
  BY <1>1, Zenon DEF Range
<1> QED
  BY <1>1, <1>2

\* The copies are released, and whatever else there is stays accounted for.
LEMMA CopiesGo ==
  ASSUME NEW S \in SUBSET Requests, Room(heap.outputs, Cardinality(S) + 1),
         NEW h \in Heaps, NEW rest \in [Fields -> [Blocks -> Nat]], NEW own, NEW D, IsFiniteSet(D),
         Accounts(h, With(rest, own, D), Copies(S), S), NEW g \in Released(MaxCalls, h, Copies(S))
  PROVE  Settled(g, h, rest, own, D)
<1>1. PICK key : key = [r \in S |-> r]
  OBVIOUS
<1>2. PICK c : c = Copies(S)
  OBVIOUS
<1>3. PICK w : w = With(rest, own, D)
  OBVIOUS
<1>4. w \in [Fields -> [Blocks -> Nat]] /\ IsFiniteSet(S) /\ MaxCalls \in Nat
  BY <1>3, WithType, Numbers, FS_Subset
<1>5. /\ DOMAIN c = S /\ \A r \in S : c[r] \in Caches
      /\ DOMAIN c \subseteq 1 .. MaxCalls
  BY <1>2, CopiesAre, Numbers
<1>6. /\ \A j \in DOMAIN c : key[j] \in S /\ c[key[j]] = c[j]
      /\ \A j, k \in DOMAIN c : key[j] = key[k] => j = k
      /\ S \ Keys(c, key) = {}
  BY <1>1, <1>5 DEF Keys
<1>7. Accounts(h, w, c, S) /\ g \in Released(MaxCalls, h, c)
  BY <1>2, <1>3, Zenon
<1>8. Settled(g, h, w, c, S \ Keys(c, key))
  <2>1. DOMAIN c \subseteq 1 .. MaxCalls /\ \A r \in S : c[r] \in Caches
    BY <1>5, Zenon
  <2>2. \A j \in DOMAIN c : key[j] \in S /\ c[key[j]] = c[j]
    BY <1>6, Zenon
  <2>3. \A j, k \in DOMAIN c : key[j] = key[k] => j = k
    BY <1>6, Zenon
  <2> QED
    BY <2>1, <2>2, <2>3, <1>4, <1>7, ReleasedAccounts
<1>9. Settled(g, h, w, c, {})
  BY <1>6, <1>8, Zenon
<1>10. Accounts(g, rest, own, D) <=> Accounts(g, w, c, {})
  BY <1>3, MoveIn
<1> QED
  BY <1>9, <1>10, Zenon DEF Settled

LEMMA FailsMemory ==
  ASSUME Shape, Memory, StepFails
  PROVE  heap' \in Heaps /\ Memory'
<1>1. device \in [Requests -> FullCaches \cup {None}] /\ heap \in Heaps /\ todo \in SUBSET Requests
  BY DEF Shape
<1>2. PICK S \in SUBSET Shiftable :
        /\ Room(heap.outputs, Cardinality(S) + 1) /\ Room(heap.stores, 1)
        /\ \E h \in Abandoned(Copied(S), Outputs(S)[0], Fresh(heap.stores, {0})[0]) :
             \E g \in Released(MaxCalls, h, Copies(S)) :
               heap' \in Released(MaxCalls, g, Held(ById(todo)))
  BY Zenon DEF StepFails
<1>3. S \in SUBSET Requests
  BY <1>1, <1>2 DEF Shiftable
<1>4. PICK o, s : o = Outputs(S)[0] /\ s = Fresh(heap.stores, {0})[0]
  OBVIOUS
<1>5. PICK h \in Abandoned(Copied(S), o, s) :
        \E g \in Released(MaxCalls, h, Copies(S)) : heap' \in Released(MaxCalls, g, Held(ById(todo)))
  BY <1>2, <1>4, Zenon
<1>6. PICK g \in Released(MaxCalls, h, Copies(S)) : heap' \in Released(MaxCalls, g, Held(ById(todo)))
  BY <1>5, Zenon
<1>7. PICK w, c : w = With(Nothing, device, Kept) /\ c = Copied(S)
  OBVIOUS
<1>8. w \in [Fields -> [Blocks -> Nat]] /\ IsFiniteSet(Kept) /\ IsFiniteSet(S)
  BY <1>1, <1>3, <1>7, WithType, KeptAre, Numbers, FS_Subset
<1>9. h \in Heaps /\ Accounts(h, w, Copies(S), S) /\ Balance(h) >= 0
  <2>1. c \in Heaps /\ Accounts(c, w, Copies(S), S)
    BY <1>1, <1>2, <1>3, <1>7, CopiedIs, CopiedAccounts
  <2>2. Balance(c) >= 0
    <3>1. c.faults = heap.faults /\ c.deferred = heap.deferred
      BY <1>1, <1>2, <1>3, <1>7, CopiedIs
    <3>2. Balance(c) = Balance(heap)
      BY <3>1, Zenon DEF Balance
    <3> QED
      BY <3>2, Zenon DEF Memory
  <2>3. o \in Blocks /\ c.outputs[o] = 0
    <3>1. /\ o \in Blocks /\ heap.outputs[o] = 0 /\ ~ Copy(S, o)
      <4>1. /\ Outputs(S) \in [S \cup {0} -> Blocks] /\ 0 \notin S
            /\ \A r \in S \cup {0} : heap.outputs[Outputs(S)[r]] = 0
            /\ \A q, r \in S \cup {0} : Outputs(S)[q] = Outputs(S)[r] => q = r
        BY <1>2, <1>3, OutputsAre
      <4> QED
        BY <4>1, <1>4 DEF Copy
    <3> QED
      BY <3>1, <1>1, <1>2, <1>3, <1>7, CopiedIs
  <2>4. s \in Blocks /\ c.stores[s] = 0
    <3>1. PICK refs, T : refs = heap.stores /\ T = {0}
      OBVIOUS
    <3>2. IsFiniteSet(T) /\ Room(refs, Cardinality(T))
      BY <3>1, <1>2, FS_Singleton
    <3>3. Fresh(refs, T) \in [T -> Blocks] /\ \A r \in T : refs[Fresh(refs, T)[r]] = 0
      BY <3>2, FreshIs
    <3>4. s \in Blocks /\ heap.stores[s] = 0
      BY <3>1, <3>3, <1>4
    <3>5. c.stores = heap.stores
      BY <1>1, <1>2, <1>3, <1>7, CopiedIs
    <3> QED
      BY <3>4, <3>5
  <2>5. h \in Abandoned(c, o, s)
    BY <1>5, <1>7, Zenon
  <2> QED
    BY <2>1, <2>2, <2>3, <2>4, <2>5, <1>8, AbandonedAccounts
<1>10. Settled(g, h, Nothing, device, Kept)
  <2>1. Accounts(h, With(Nothing, device, Kept), Copies(S), S)
    BY <1>7, <1>9, Zenon
  <2> QED
    BY <2>1, <1>2, <1>3, <1>6, <1>8, <1>9, Numbers, CopiesGo
<1>11. PICK order, k : order = ById(todo) /\ k = heap'
  OBVIOUS
<1>12. Settled(k, g, Nothing, device, Kept \ todo)
  <2>1. /\ DOMAIN order \subseteq Requests /\ Range(order) = todo
        /\ \A i \in DOMAIN order : order[i] \in Requests
        /\ \A i, j \in DOMAIN order : order[i] = order[j] => i = j
    BY <1>1, <1>11, ByIdIs
  <2>2. g \in Heaps /\ Accounts(g, Nothing, device, Kept)
    BY <1>10, Zenon DEF Settled
  <2>3. k \in Released(MaxCalls, g, Held(order))
    BY <1>6, <1>11, Zenon
  <2>4. Kept \in SUBSET Kept /\ \A i \in DOMAIN order : order[i] \in Kept => order[i] \in Kept
    OBVIOUS
  <2>5. Settled(k, g, Nothing, device, Kept \ Range(order))
    BY <2>1, <2>2, <2>3, <2>4, <1>1, Numbers, HeldSettled
  <2> QED
    BY <2>1, <2>5, Zenon
<1>13. heap' \in Heaps /\ Accounts(heap', Nothing, device, Kept \ todo) /\ Balance(heap') >= 0
  BY <1>9, <1>10, <1>11, <1>12, Zenon DEF Settled
<1>14. Forget(todo) /\ \A q, r \in Kept : device[q].store = device[r].store => q = r
  BY DEF StepFails, Memory
<1> QED
  BY <1>1, <1>13, <1>14, ForgetsMemory

LEMMA NamingSplit ==
  ASSUME NEW own, NEW D, IsFiniteSet(D), NEW S, NEW T, \A i : i \in D <=> i \in S \/ i \in T,
         \A i \in S : i \notin T, NEW field, NEW b
  PROVE  Cardinality(Naming(own, D, field, b))
           = Cardinality(Naming(own, S, field, b)) + Cardinality(Naming(own, T, field, b))
<1>1. PICK X, Y : X = Naming(own, S, field, b) /\ Y = Naming(own, T, field, b)
  OBVIOUS
<1>2. S \in SUBSET D /\ T \in SUBSET D
  BY Zenon
<1>3. IsFiniteSet(X) /\ IsFiniteSet(Y) /\ Cardinality(X) \in Nat /\ Cardinality(Y) \in Nat
  <2>1. IsFiniteSet(S) /\ IsFiniteSet(T)
    BY <1>2, FS_Subset
  <2> QED
    BY <2>1, <1>1, NamingFinite
<1>4. X \cap Y = {} /\ X \cup Y = Naming(own, D, field, b)
  BY <1>1, Zenon DEF Naming
<1>5. Cardinality(X \cup Y) = Cardinality(X) + Cardinality(Y) - Cardinality(X \cap Y)
  BY <1>3, FS_Union
<1>6. Cardinality(X \cap Y) = 0
  BY <1>4, FS_EmptySet
<1>7. Cardinality(X \cup Y) = Cardinality(X) + Cardinality(Y)
  BY <1>3, <1>5, <1>6
<1> QED
  BY <1>1, <1>4, <1>7, Zenon

\* The storage of a sequence after a step is its own in place, or a new one.
LEMMA StoreAfterIs ==
  ASSUME Shape, NEW S, NEW inPlace \in SUBSET Sole(S), Room(heap.stores, Cardinality(todo \ inPlace))
  PROVE  /\ \A r \in todo : StoreAfter(inPlace, r) \in Blocks
         /\ \A r \in inPlace : StoreAfter(inPlace, r) = device[r].store /\ r \in Kept
         /\ \A r \in todo \ inPlace : heap.stores[StoreAfter(inPlace, r)] = 0
         /\ \A q, r \in todo \ inPlace : StoreAfter(inPlace, q) = StoreAfter(inPlace, r) => q = r
<1>1. PICK refs, T : refs = heap.stores /\ T = todo \ inPlace
  OBVIOUS
<1>2. todo \subseteq Requests /\ device \in [Requests -> FullCaches \cup {None}]
  BY DEF Shape
<1>3. IsFiniteSet(T) /\ Room(refs, Cardinality(T))
  BY <1>1, <1>2, Numbers, FS_Subset
<1>4. PICK f : f = Fresh(refs, T)
  OBVIOUS
<1>5. /\ f \in [T -> Blocks] /\ \A r \in T : refs[f[r]] = 0
      /\ \A q, r \in T : f[q] = f[r] => q = r
  BY <1>3, <1>4, FreshIs
<1>6. \A r \in T : StoreAfter(inPlace, r) = f[r]
  BY <1>1, <1>4, Zenon DEF StoreAfter
<1>7. \A r \in inPlace : r \in Kept /\ StoreAfter(inPlace, r) = device[r].store
  <2>1. \A r \in inPlace : r \in todo /\ device[r] # None
    BY Zenon DEF Sole
  <2> QED
    BY <2>1, <1>2, Zenon DEF Kept, StoreAfter
<1>8. \A r \in Kept : device[r].store \in Blocks
  BY <1>2, KeptAre DEF FullCaches
<1>9. \A r \in todo : r \in T \/ r \in inPlace
  BY <1>1
<1> QED
  BY <1>1, <1>5, <1>6, <1>7, <1>8, <1>9

\* The heap a step releases from.
Grows(a, S, inPlace) ==
  /\ a \in Heaps /\ a.deferred = heap.deferred /\ a.lost = heap.lost /\ a.faults = heap.faults
  /\ \A b \in Blocks :
       /\ a.outputs[b] = IF b = Outputs(S)[0] THEN Cardinality(todo)
                         ELSE IF Copy(S, b) THEN 1 ELSE heap.outputs[b]
       /\ a.stores[b] = heap.stores[b] + Cardinality({r \in todo : StoreAfter(inPlace, r) = b})

LEMMA AppendedIs ==
  ASSUME Shape, NEW S \in SUBSET Requests, Room(heap.outputs, Cardinality(S) + 1), NEW inPlace
  PROVE  Grows(Appended(S, inPlace), S, inPlace)
<1>1. heap \in Heaps /\ todo \subseteq Requests
  BY DEF Shape
<1>2. IsFiniteSet(todo) /\ Cardinality(todo) \in Nat
  BY <1>1, Numbers, FS_Subset, FS_CardinalityType
<1>3. PICK c, o, N : c = Copied(S) /\ o = Outputs(S)[0]
                     /\ N = [b \in Blocks |-> Cardinality({r \in todo : StoreAfter(inPlace, r) = b})]
  OBVIOUS
<1>4. N \in [Blocks -> Nat]
  <2>1. ASSUME NEW b \in Blocks PROVE Cardinality({r \in todo : StoreAfter(inPlace, r) = b}) \in Nat
    <3>1. {r \in todo : StoreAfter(inPlace, r) = b} \in SUBSET todo
      OBVIOUS
    <3> QED
      BY <3>1, <1>2, FS_Subset, FS_CardinalityType
  <2> QED
    BY <2>1, <1>3
<1>5. o \in Blocks
  <2>1. Outputs(S) \in [S \cup {0} -> Blocks]
    BY OutputsAre
  <2> QED
    BY <2>1, <1>3
<1>6. /\ c \in Heaps /\ c.stores = heap.stores /\ c.deferred = heap.deferred
      /\ c.lost = heap.lost /\ c.faults = heap.faults
      /\ \A b \in Blocks : c.outputs[b] = IF Copy(S, b) THEN 1 ELSE heap.outputs[b]
  BY <1>1, <1>3, CopiedIs
<1>7. PICK x, y : x = [c.outputs EXCEPT ![o] = Cardinality(todo)]
                  /\ y = [b \in Blocks |-> c.stores[b] + N[b]]
  OBVIOUS
<1>8. c.outputs \in [Blocks -> Nat] /\ c.stores \in [Blocks -> Nat]
  BY <1>6 DEF Heaps
<1>9. x \in [Blocks -> Nat] /\ y \in [Blocks -> Nat]
  <2>1. x \in [Blocks -> Nat]
    BY <1>2, <1>7, <1>8
  <2>2. \A b \in Blocks : c.stores[b] + N[b] \in Nat
    BY <1>4, <1>8
  <2> QED
    BY <2>1, <2>2, <1>7
<1>10. Appended(S, inPlace) = [c EXCEPT !.outputs = x, !.stores = y]
  <2>1. [b \in Blocks |-> c.stores[b] + Cardinality({r \in todo : StoreAfter(inPlace, r) = b})] = y
    BY <1>3, <1>7
  <2>2. Appended(S, inPlace) = [c EXCEPT !.outputs[o] = Cardinality(todo), !.stores = y]
    BY <2>1, <1>3, Zenon DEF Appended
  <2> QED
    BY <2>2, <1>6, <1>7 DEF Heaps
<1>11. PICK a : a = Appended(S, inPlace)
  OBVIOUS
<1>12. /\ a \in Heaps /\ a.outputs = x /\ a.stores = y /\ a.deferred = c.deferred /\ a.lost = c.lost
       /\ a.faults = c.faults
  BY <1>6, <1>9, <1>10, <1>11 DEF Heaps
<1>13. ASSUME NEW b \in Blocks
       PROVE  /\ a.outputs[b] = IF b = o THEN Cardinality(todo)
                                ELSE IF Copy(S, b) THEN 1 ELSE heap.outputs[b]
              /\ a.stores[b] = heap.stores[b] + Cardinality({r \in todo : StoreAfter(inPlace, r) = b})
  <2>1. x[b] = IF b = o THEN Cardinality(todo) ELSE c.outputs[b]
    BY <1>7, <1>8
  <2>2. y[b] = heap.stores[b] + Cardinality({r \in todo : StoreAfter(inPlace, r) = b})
    BY <1>3, <1>6, <1>7
  <2> QED
    BY <2>1, <2>2, <1>6, <1>12
<1> QED
  BY <1>3, <1>6, <1>11, <1>12, <1>13, Zenon DEF Grows

\* The caches after a step.
After(S, inPlace) ==
  [r \in Requests |->
     IF r \in todo THEN Cache(Outputs(S)[0], StoreAfter(inPlace, r)) ELSE device[r]]

LEMMA AfterIs ==
  ASSUME Shape, NEW S \in SUBSET Requests, Room(heap.outputs, Cardinality(S) + 1),
         NEW inPlace \in SUBSET Sole(S), Room(heap.stores, Cardinality(todo \ inPlace))
  PROVE  /\ After(S, inPlace) \in [Requests -> FullCaches \cup {None}]
         /\ \A r \in todo : /\ After(S, inPlace)[r] # None
                            /\ After(S, inPlace)[r]["outputs"] = Outputs(S)[0]
                            /\ After(S, inPlace)[r]["store"] = StoreAfter(inPlace, r)
         /\ \A r \in Requests \ todo : After(S, inPlace)[r] = device[r]
<1>1. todo \subseteq Requests /\ device \in [Requests -> FullCaches \cup {None}]
  BY DEF Shape
<1>2. PICK f, o : f = After(S, inPlace) /\ o = Outputs(S)[0]
  OBVIOUS
<1>3. o \in Blocks
  <2>1. Outputs(S) \in [S \cup {0} -> Blocks]
    BY OutputsAre
  <2> QED
    BY <2>1, <1>2
<1>4. \A r \in todo : StoreAfter(inPlace, r) \in Blocks
  BY StoreAfterIs
<1>5. /\ \A r \in todo : f[r] = Cache(o, StoreAfter(inPlace, r))
      /\ \A r \in Requests \ todo : f[r] = device[r]
  BY <1>1, <1>2 DEF After
<1>6. \A r \in todo : /\ f[r] \in FullCaches /\ f[r]["outputs"] = o /\ f[r]["store"] = StoreAfter(inPlace, r)
  <2> SUFFICES ASSUME NEW r \in todo
               PROVE  f[r] \in FullCaches /\ f[r]["outputs"] = o /\ f[r]["store"] = StoreAfter(inPlace, r)
    OBVIOUS
  <2>1. PICK s : s = StoreAfter(inPlace, r)
    OBVIOUS
  <2>2. s \in Blocks /\ f[r] = Cache(o, s)
    BY <2>1, <1>4, <1>5
  <2>3. Cache(o, s) \in FullCaches /\ Cache(o, s)["outputs"] = o /\ Cache(o, s)["store"] = s
    BY <2>2, <1>3 DEF Cache, FullCaches
  <2> QED
    BY <2>1, <2>2, <2>3
<1>7. None \notin FullCaches
  BY BatchingAssumption DEF FullCaches, Caches
<1>8. \A r \in Requests : f[r] \in FullCaches \cup {None}
  BY <1>1, <1>5, <1>6
<1>9. f \in [Requests -> FullCaches \cup {None}]
  <2>1. DOMAIN f = Requests /\ f = [r \in Requests |-> f[r]]
    BY <1>2 DEF After
  <2> QED
    BY <2>1, <1>8
<1> QED
  BY <1>2, <1>5, <1>6, <1>7, <1>9

\* What the heap counts before the releases: the caches after the step, the past ones, and
\* the copies.
LEMMA AppendedAccounts ==
  ASSUME Shape, Memory, NEW S \in SUBSET Requests, Room(heap.outputs, Cardinality(S) + 1),
         NEW inPlace \in SUBSET Sole(S), Room(heap.stores, Cardinality(todo \ inPlace))
  PROVE  Accounts(Appended(S, inPlace),
                  With(With(Nothing, After(S, inPlace), Kept \cup todo), device, Kept \cap todo),
                  Copies(S), S)
<1>1. todo \subseteq Requests /\ device \in [Requests -> FullCaches \cup {None}] /\ heap \in Heaps
  BY DEF Shape
<1>2. PICK f, a, o, K : /\ f = After(S, inPlace) /\ a = Appended(S, inPlace) /\ o = Outputs(S)[0]
                        /\ K = Kept \cup todo
  OBVIOUS
<1>3. PICK w, v : w = With(Nothing, f, K) /\ v = With(w, device, Kept \cap todo)
  OBVIOUS
<1>grows. Grows(a, S, inPlace)
  BY <1>2, AppendedIs, Zenon
<1>4. /\ IsFiniteSet(Kept) /\ IsFiniteSet(todo) /\ IsFiniteSet(Kept \cap todo) /\ IsFiniteSet(Kept \ todo)
      /\ IsFiniteSet(K)
  <2>1. IsFiniteSet(Kept) /\ IsFiniteSet(todo)
    BY <1>1, KeptAre, Numbers, FS_Subset
  <2> QED
    BY <2>1, <1>2, FS_Intersection, FS_Difference, FS_Union
<1>5. w \in [Fields -> [Blocks -> Nat]]
  BY <1>3, <1>4, WithType, Numbers
<1> SUFFICES ASSUME NEW field \in Fields, NEW b \in Blocks
             PROVE  Refs(a, field)[b]
                      = v[field][b] + Cardinality(Naming(Copies(S), S, field, b))
                        + Deferred(a.deferred, field, b) + Lost(a, field, b)
  BY <1>2, <1>3, Zenon DEF Accounts
<1>6. PICK n1, n2, m, k, d, l :
        /\ n1 = Cardinality(Naming(device, Kept \ todo, field, b))
        /\ n2 = Cardinality(Naming(device, Kept \cap todo, field, b))
        /\ m = Cardinality(Naming(f, todo, field, b))
        /\ k = Cardinality(Naming(Copies(S), S, field, b))
        /\ d = Deferred(heap.deferred, field, b) /\ l = Lost(heap, field, b)
  OBVIOUS
<1>7. n1 \in Nat /\ n2 \in Nat /\ m \in Nat /\ d \in Nat /\ l \in Nat
  <2>1. heap.deferred \in Seq(Caches)
    BY <1>1 DEF Heaps
  <2> QED
    BY <2>1, <1>4, <1>6, NamingFinite, DeferredType DEF Lost
<1>8. Refs(heap, field)[b] = n1 + n2 + d + l
  <2>1. Refs(heap, field)[b] = Nothing[field][b] + Cardinality(Naming(device, Kept, field, b))
                                 + Deferred(heap.deferred, field, b) + Lost(heap, field, b)
    BY Zenon DEF Memory, Accounts
  <2>2. Nothing[field][b] = 0
    BY DEF Nothing
  <2>3. Cardinality(Naming(device, Kept, field, b)) = n1 + n2
    <3>1. Cardinality(Naming(device, Kept, field, b))
            = Cardinality(Naming(device, Kept \ todo, field, b))
              + Cardinality(Naming(device, Kept \cap todo, field, b))
      <4>1. PICK X, T : X = Kept \ todo /\ T = Kept \cap todo
        OBVIOUS
      <4>2. IsFiniteSet(Kept) /\ (\A i : i \in Kept <=> i \in X \/ i \in T) /\ \A i \in X : i \notin T
        BY <4>1, <1>4
      <4>3. Cardinality(Naming(device, Kept, field, b))
              = Cardinality(Naming(device, X, field, b)) + Cardinality(Naming(device, T, field, b))
        BY <4>2, NamingSplit
      <4> QED
        BY <4>1, <4>3, Zenon
    <3> QED
      BY <3>1, <1>6, Zenon
  <2> QED
    BY <2>1, <2>2, <2>3, <1>6, <1>7
<1>9. w[field][b] = n1 + m
  <2>1. w[field][b] = Nothing[field][b] + Cardinality(Naming(f, K, field, b))
    BY <1>3, <1>4, WithType, Numbers
  <2>2. PICK X : X = Kept \ todo
    OBVIOUS
  <2>3. Cardinality(Naming(f, K, field, b))
          = Cardinality(Naming(f, X, field, b)) + Cardinality(Naming(f, todo, field, b))
    <3>1. IsFiniteSet(K) /\ (\A i : i \in K <=> i \in X \/ i \in todo) /\ \A i \in X : i \notin todo
      BY <2>2, <1>2, <1>4
    <3> QED
      BY <3>1, NamingSplit
  <2>4. Naming(f, Kept \ todo, field, b) = Naming(device, Kept \ todo, field, b)
    <3>1. \A r \in Kept \ todo : f[r] = device[r]
      BY <1>1, <1>2, AfterIs, KeptAre
    <3> QED
      BY <3>1, Zenon DEF Naming
  <2>5. Nothing[field][b] = 0
    BY DEF Nothing
  <2>6. Cardinality(Naming(f, K, field, b)) = n1 + m
    BY <2>2, <2>3, <2>4, <1>6, Zenon
  <2> QED
    BY <2>1, <2>5, <2>6, <1>7
<1>10. v[field][b] = n1 + m + n2
  <2>1. v[field][b] = w[field][b] + Cardinality(Naming(device, Kept \cap todo, field, b))
    BY <1>3, <1>4, <1>5, WithType
  <2> QED
    BY <2>1, <1>6, <1>9
<1>11. Deferred(a.deferred, field, b) = d /\ Lost(a, field, b) = l
  <2>1. a.deferred = heap.deferred /\ a.lost = heap.lost
    BY <1>grows, Zenon DEF Grows
  <2> QED
    BY <2>1, <1>6 DEF Lost
<1>12. k \in Nat /\ Refs(a, field)[b] = n1 + n2 + m + k + d + l
  <2>1. CASE field = "store"
    <3>1. k = 0
      BY <2>1, <1>6, CopyNaming
    <3>2. a.stores[b] = heap.stores[b] + Cardinality({r \in todo : StoreAfter(inPlace, r) = b})
      BY <1>grows, Zenon DEF Grows
    <3>3. {r \in todo : StoreAfter(inPlace, r) = b} = Naming(f, todo, field, b)
      <4>1. \A r \in todo : f[r]["store"] = StoreAfter(inPlace, r)
        BY <1>2, AfterIs
      <4> QED
        BY <4>1, <2>1, Zenon DEF Naming
    <3>4. a.stores[b] = heap.stores[b] + m
      BY <3>2, <3>3, <1>6, Zenon
    <3>5. Refs(a, field)[b] = a.stores[b] /\ Refs(heap, field)[b] = heap.stores[b]
      BY <2>1 DEF Refs
    <3> QED
      BY <3>1, <3>4, <3>5, <1>7, <1>8
  <2>2. CASE field = "outputs"
    <3>1. k = IF Copy(S, b) THEN 1 ELSE 0
      BY <2>2, <1>6, CopyNaming
    <3>2. a.outputs[b] = IF b = o THEN Cardinality(todo) ELSE IF Copy(S, b) THEN 1 ELSE heap.outputs[b]
      BY <1>2, <1>grows, Zenon DEF Grows
    <3>3. /\ b = o => heap.outputs[b] = 0 /\ ~ Copy(S, b)
          /\ Copy(S, b) => heap.outputs[b] = 0
      <4>1. /\ 0 \notin S /\ \A r \in S \cup {0} : heap.outputs[Outputs(S)[r]] = 0
            /\ \A q, r \in S \cup {0} : Outputs(S)[q] = Outputs(S)[r] => q = r
        BY OutputsAre
      <4> QED
        BY <4>1, <1>2 DEF Copy
    <3>4. Naming(f, todo, field, b) = IF b = o THEN todo ELSE {}
      <4>1. \A r \in todo : f[r]["outputs"] = o
        BY <1>2, AfterIs
      <4> QED
        BY <4>1, <2>2 DEF Naming
    <3>5. m = IF b = o THEN Cardinality(todo) ELSE 0
      BY <3>4, <1>6, FS_EmptySet
    <3>6. Refs(a, field)[b] = a.outputs[b] /\ Refs(heap, field)[b] = heap.outputs[b]
      BY <2>2 DEF Refs
    <3> QED
      BY <3>1, <3>2, <3>3, <3>5, <3>6, <1>7, <1>8
  <2> QED
    BY <2>1, <2>2 DEF Fields
<1> QED
  BY <1>6, <1>7, <1>10, <1>11, <1>12

\* Every cache counts: a block that one names is referred to.
LEMMA Referred ==
  ASSUME Shape, Memory, NEW r \in Kept
  PROVE  heap.stores[device[r].store] # 0
<1>1. device \in [Requests -> FullCaches \cup {None}] /\ heap \in Heaps
  BY DEF Shape
<1>2. PICK b : b = device[r].store
  OBVIOUS
<1>3. b \in Blocks /\ device[r]["store"] = b /\ IsFiniteSet(Kept)
  BY <1>1, <1>2, KeptAre DEF FullCaches
<1>4. PICK n, d, l : /\ n = Cardinality(Naming(device, Kept, "store", b))
                     /\ d = Deferred(heap.deferred, "store", b) /\ l = Lost(heap, "store", b)
  OBVIOUS
<1>5. n \in Nat /\ d \in Nat /\ l \in Nat
  <2>1. heap.deferred \in Seq(Caches)
    BY <1>1 DEF Heaps
  <2> QED
    BY <2>1, <1>3, <1>4, NamingFinite, DeferredType DEF Lost
<1>6. n # 0
  <2>1. r \in Naming(device, Kept, "store", b)
    BY <1>3, Zenon DEF Naming
  <2>2. IsFiniteSet(Naming(device, Kept, "store", b))
    BY <1>3, NamingFinite
  <2> QED
    BY <2>1, <2>2, <1>4, FS_EmptySet
<1>7. heap.stores[b] = 0 + n + d + l
  <2>1. "store" \in Fields /\ "store" # "outputs"
    BY DEF Fields
  <2>2. Refs(heap, "store")[b] = Nothing["store"][b] + n + d + l
    BY <2>1, <1>3, <1>4, Zenon DEF Memory, Accounts
  <2>3. Nothing["store"][b] = 0 /\ Refs(heap, "store")[b] = heap.stores[b]
    BY <2>1, <1>3 DEF Nothing, Refs
  <2> QED
    BY <2>2, <2>3
<1> QED
  BY <1>2, <1>5, <1>6, <1>7

LEMMA AfterStores ==
  ASSUME Shape, Memory, NEW S \in SUBSET Requests, Room(heap.outputs, Cardinality(S) + 1),
         NEW inPlace \in SUBSET Sole(S), Room(heap.stores, Cardinality(todo \ inPlace)),
         NEW q \in Kept \cup todo, NEW r \in Kept \cup todo,
         After(S, inPlace)[q].store = After(S, inPlace)[r].store
  PROVE  q = r
<1>1. device \in [Requests -> FullCaches \cup {None}]
  BY DEF Shape
<1>2. PICK f, new : f = After(S, inPlace) /\ new = todo \ inPlace
  OBVIOUS
<1>3. /\ \A p \in todo : f[p].store = StoreAfter(inPlace, p)
      /\ \A p \in Kept \ todo : f[p].store = device[p].store
  <2>1. Kept \subseteq Requests
    BY <1>1, KeptAre
  <2> QED
    BY <2>1, <1>2, AfterIs
<1>4. /\ \A p \in inPlace : StoreAfter(inPlace, p) = device[p].store /\ p \in Kept
      /\ \A p \in new : heap.stores[StoreAfter(inPlace, p)] = 0
      /\ \A p, s \in new : StoreAfter(inPlace, p) = StoreAfter(inPlace, s) => p = s
  BY <1>2, StoreAfterIs
<1>5. \A p \in Kept \cup todo : p \in new \/ (p \in Kept /\ f[p].store = device[p].store)
  <2> SUFFICES ASSUME NEW p \in Kept \cup todo, p \notin new PROVE p \in Kept /\ f[p].store = device[p].store
    OBVIOUS
  <2>1. CASE p \in todo
    <3>1. p \in inPlace
      BY <2>1, <1>2
    <3> QED
      BY <2>1, <3>1, <1>3, <1>4
  <2>2. CASE p \notin todo
    BY <2>2, <1>3
  <2> QED
    BY <2>1, <2>2
<1>6. new \subseteq todo /\ \A p \in new : heap.stores[f[p].store] = 0
  BY <1>2, <1>3, <1>4
<1>7. \A p \in Kept : heap.stores[device[p].store] # 0
  BY Referred
<1>8. f[q].store = f[r].store
  BY <1>2, Zenon
<1>9. CASE q \in new /\ r \in new
  <2>1. StoreAfter(inPlace, q) = StoreAfter(inPlace, r)
    BY <1>3, <1>6, <1>8, <1>9
  <2> QED
    BY <2>1, <1>4, <1>9
<1>10. CASE q \notin new /\ r \notin new
  <2>1. q \in Kept /\ r \in Kept /\ device[q].store = device[r].store
    BY <1>5, <1>8, <1>10
  <2> QED
    BY <2>1, Zenon DEF Memory
<1>11. CASE (q \in new /\ r \notin new) \/ (q \notin new /\ r \in new)
  BY <1>5, <1>6, <1>7, <1>8, <1>11
<1> QED
  BY <1>9, <1>10, <1>11

LEMMA StepMemory ==
  ASSUME Shape, Memory, Step
  PROVE  /\ heap' \in Heaps /\ Memory' /\ device' \in [Requests -> FullCaches \cup {None}]
         /\ \A r \in todo : device'[r] # None
         /\ \A r \in Requests \ todo : device'[r] = device[r]
<1>1. device \in [Requests -> FullCaches \cup {None}] /\ heap \in Heaps /\ todo \in SUBSET Requests
  BY DEF Shape
<1>2. PICK S \in SUBSET Shiftable :
        \E inPlace \in SUBSET Sole(S) :
          /\ Room(heap.outputs, Cardinality(S) + 1) /\ Room(heap.stores, Cardinality(todo \ inPlace))
          /\ device' = After(S, inPlace)
          /\ \E h \in Released(MaxCalls, Appended(S, inPlace), Copies(S)) :
               heap' \in Released(MaxCalls, h, Held(ById(todo)))
  BY Zenon DEF Step, After
<1>3. PICK inPlace \in SUBSET Sole(S) :
        /\ Room(heap.outputs, Cardinality(S) + 1) /\ Room(heap.stores, Cardinality(todo \ inPlace))
        /\ device' = After(S, inPlace)
        /\ \E h \in Released(MaxCalls, Appended(S, inPlace), Copies(S)) :
             heap' \in Released(MaxCalls, h, Held(ById(todo)))
  BY <1>2, Zenon
<1>4. PICK h \in Released(MaxCalls, Appended(S, inPlace), Copies(S)) :
        heap' \in Released(MaxCalls, h, Held(ById(todo)))
  BY <1>3, Zenon
<1>5. S \in SUBSET Requests
  BY <1>1, <1>2 DEF Shiftable
<1>6. PICK f, a, w, E, all :
        /\ f = After(S, inPlace) /\ a = Appended(S, inPlace) /\ w = With(Nothing, f, all)
        /\ E = Kept \cap todo /\ all = Kept \cup todo
  OBVIOUS
<1>7. /\ f \in [Requests -> FullCaches \cup {None}] /\ \A r \in todo : f[r] # None
      /\ \A r \in Requests \ todo : f[r] = device[r]
  BY <1>3, <1>5, <1>6, AfterIs
<1>8. /\ IsFiniteSet(all) /\ IsFiniteSet(E) /\ E \in SUBSET Kept /\ E \subseteq todo
      /\ w \in [Fields -> [Blocks -> Nat]]
  <2>1. IsFiniteSet(Kept) /\ IsFiniteSet(todo)
    BY <1>1, KeptAre, Numbers, FS_Subset
  <2>2. IsFiniteSet(all) /\ IsFiniteSet(E)
    BY <2>1, <1>6, FS_Union, FS_Intersection
  <2>3. w \in [Fields -> [Blocks -> Nat]]
    BY <2>2, <1>6, WithType, Numbers
  <2> QED
    BY <2>2, <2>3, <1>6
<1>9. a \in Heaps /\ Balance(a) >= 0
  <2>1. a \in Heaps /\ a.deferred = heap.deferred /\ a.faults = heap.faults
    <3>1. Grows(a, S, inPlace)
      BY <1>3, <1>5, <1>6, AppendedIs, Zenon
    <3> QED
      BY <3>1, Zenon DEF Grows
  <2>2. Balance(a) = Balance(heap)
    BY <2>1, Zenon DEF Balance
  <2> QED
    BY <2>1, <2>2, Zenon DEF Memory
<1>10. Settled(h, a, w, device, E)
  <2>1. Accounts(a, With(w, device, E), Copies(S), S)
    BY <1>3, <1>5, <1>6, AppendedAccounts
  <2>2. h \in Released(MaxCalls, a, Copies(S))
    BY <1>4, <1>6, Zenon
  <2> QED
    BY <2>1, <2>2, <1>3, <1>5, <1>8, <1>9, CopiesGo
<1>11. PICK order, k : order = ById(todo) /\ k = heap'
  OBVIOUS
<1>12. Settled(k, h, w, device, {})
  <2>1. /\ DOMAIN order \subseteq Requests /\ Range(order) = todo
        /\ \A i \in DOMAIN order : order[i] \in Requests
        /\ \A i, j \in DOMAIN order : order[i] = order[j] => i = j
    BY <1>1, <1>11, ByIdIs
  <2>2. h \in Heaps /\ Accounts(h, w, device, E)
    BY <1>10, Zenon DEF Settled
  <2>3. k \in Released(MaxCalls, h, Held(order))
    BY <1>4, <1>11, Zenon
  <2>4. \A i \in DOMAIN order : order[i] \in Kept => order[i] \in E
    <3>1. \A i \in DOMAIN order : order[i] \in todo
      BY <2>1, Zenon DEF Range
    <3> QED
      BY <3>1, <1>6
  <2>5. Settled(k, h, w, device, E \ Range(order))
    BY <2>1, <2>2, <2>3, <2>4, <1>1, <1>8, HeldSettled
  <2>6. E \ Range(order) = {}
    BY <2>1, <1>8
  <2> QED
    BY <2>5, <2>6, Zenon
<1>13. k \in Heaps /\ Accounts(k, Nothing, f, all) /\ Balance(k) >= 0
  <2>1. k \in Heaps /\ Accounts(k, w, device, {}) /\ Balance(k) >= 0
    BY <1>9, <1>10, <1>12, Zenon DEF Settled
  <2>2. Accounts(k, Nothing, f, all) <=> Accounts(k, With(Nothing, f, all), device, {})
    BY <1>8, Numbers, MoveIn
  <2> QED
    BY <2>1, <2>2, <1>6, Zenon
<1>14. device' = f /\ Kept' = all
  <2>1. device' = f
    BY <1>3, <1>6, Zenon
  <2>2. \A r \in Requests : f[r] # None <=> r \in Kept \/ r \in todo
    BY <1>1, <1>7 DEF Kept
  <2>3. Kept' = {r \in Requests : f[r] # None}
    BY <2>1, Zenon DEF Kept
  <2>4. Kept \cup todo \subseteq Requests
    BY <1>1, KeptAre
  <2> QED
    BY <2>1, <2>2, <2>3, <2>4, <1>6
<1>15. \A q, r \in all : f[q].store = f[r].store => q = r
  BY <1>3, <1>5, <1>6, AfterStores
<1>16. Nothing' = Nothing
  BY DEF Nothing
<1>17. Memory'
  BY <1>11, <1>13, <1>14, <1>15, <1>16 DEF Memory
<1> QED
  BY <1>7, <1>11, <1>13, <1>14, <1>17

LEMMA CloseMemory ==
  ASSUME Shape, Memory, Kept = {}, CloseBatch
  PROVE  heap' \in Heaps /\ Memory'
<1>1. heap \in Heaps /\ heap.deferred \in Seq(Caches) /\ Len(heap.deferred) \in Nat
  BY DEF Shape, Heaps
<1>2. PICK h, s, n, k : /\ h = [heap EXCEPT !.deferred = <<>>] /\ s = heap.deferred /\ n = Len(heap.deferred)
                        /\ k = heap'
  OBVIOUS
<1>3. /\ h \in Heaps /\ h.deferred = <<>> /\ h.lost = heap.lost /\ h.faults = heap.faults
      /\ h.outputs = heap.outputs /\ h.stores = heap.stores
  <2>1. <<>> \in Seq(Caches)
    OBVIOUS
  <2> QED
    BY <2>1, <1>1, <1>2 DEF Heaps
<1>4. s \in Seq(Caches) /\ n \in Nat /\ DOMAIN s = 1 .. n /\ \A i \in 1 .. n : s[i] \in Caches
  BY <1>1, <1>2
<1>5. IsFiniteSet(1 .. n)
  BY <1>4, FS_Interval
<1>6. Accounts(h, Nothing, s, 1 .. n)
  <2> SUFFICES ASSUME NEW field \in Fields, NEW b \in Blocks
               PROVE  Refs(h, field)[b] = Nothing[field][b] + Cardinality(Naming(s, 1 .. n, field, b))
                                          + Deferred(h.deferred, field, b) + Lost(h, field, b)
    BY Zenon DEF Accounts
  <2>1. Refs(heap, field)[b] = Nothing[field][b] + Cardinality(Naming(device, Kept, field, b))
                                 + Deferred(heap.deferred, field, b) + Lost(heap, field, b)
    BY Zenon DEF Memory, Accounts
  <2>2. Nothing[field][b] = 0 /\ Cardinality(Naming(device, Kept, field, b)) = 0
    <3>1. Naming(device, Kept, field, b) = {}
      BY Zenon DEF Naming
    <3> QED
      BY <3>1, FS_EmptySet DEF Nothing
  <2>3. Deferred(heap.deferred, field, b) = Cardinality(Naming(s, 1 .. n, field, b))
        /\ Deferred(heap.deferred, field, b) \in Nat
    BY <1>1, <1>2, DeferredType DEF Deferred
  <2>4. Deferred(h.deferred, field, b) = 0
    <3>1. \A e : Naming(e, 1 .. 0, field, b) = {}
      BY DEF Naming
    <3>2. h.deferred = <<>> /\ Len(<<>>) = 0
      BY <1>3
    <3>3. Deferred(<<>>, field, b) = Cardinality(Naming(<<>>, 1 .. 0, field, b))
      BY <3>2, Zenon DEF Deferred
    <3> QED
      BY <3>1, <3>2, <3>3, FS_EmptySet
  <2>5. Lost(h, field, b) = Lost(heap, field, b) /\ Lost(h, field, b) \in Nat
    BY <1>3 DEF Lost
  <2>6. Refs(h, field) = Refs(heap, field)
    BY <1>3 DEF Refs
  <2> QED
    BY <2>1, <2>2, <2>3, <2>4, <2>5, <2>6
<1>7. PICK key : key = [i \in 1 .. n |-> i]
  OBVIOUS
<1>8. Settled(k, h, Nothing, s, (1 .. n) \ Keys(s, key))
  <2>1. k \in Released(n, h, s)
    BY <1>2 DEF CloseBatch
  <2>2. \A j \in DOMAIN s : key[j] \in 1 .. n /\ s[key[j]] = s[j]
    BY <1>4, <1>7
  <2>3. \A i, j \in DOMAIN s : key[i] = key[j] => i = j
    BY <1>4, <1>7
  <2>4. DOMAIN s \subseteq 1 .. n
    BY <1>4
  <2>5. PICK D : D = 1 .. n
    OBVIOUS
  <2>6. IsFiniteSet(D) /\ Accounts(h, Nothing, s, D) /\ (\A d \in D : s[d] \in Caches)
        /\ \A j \in DOMAIN s : key[j] \in D /\ s[key[j]] = s[j]
    BY <2>2, <2>5, <1>4, <1>5, <1>6, Zenon
  <2>7. Settled(k, h, Nothing, s, D \ Keys(s, key))
    BY <2>1, <2>3, <2>4, <2>6, <1>3, <1>4, Numbers, ReleasedAccounts
  <2> QED
    BY <2>5, <2>7, Zenon
<1>9. (1 .. n) \ Keys(s, key) = {}
  BY <1>4, <1>7 DEF Keys
<1>10. device' = device
  BY DEF CloseBatch
<1>11. Kept' = {}
  BY <1>10, Zenon DEF Kept
<1>12. Accounts(k, Nothing, device', Kept')
  <2>1. Accounts(k, Nothing, s, {})
    BY <1>8, <1>9, Zenon DEF Settled
  <2>2. \A i \in {} : (device')[i] = s[i]
    OBVIOUS
  <2> QED
    BY <2>1, <2>2, <1>11, AccountsAlike
<1>13. Balance(k) >= 0
  <2>1. Balance(h) >= 0
    <3>1. Len(h.deferred) = 0 /\ h.faults \in Nat
      BY <1>3 DEF Heaps
    <3> QED
      BY <3>1 DEF Balance
  <2> QED
    BY <2>1, <1>8, Zenon DEF Settled
<1>14. Nothing' = Nothing
  BY DEF Nothing
<1>15. Memory'
  BY <1>2, <1>11, <1>12, <1>13, <1>14 DEF Memory
<1> QED
  BY <1>2, <1>8, <1>15, Zenon DEF Settled

LEMMA MemoryStays ==
  ASSUME Memory, device' = device, heap' = heap
  PROVE  Memory'
<1>1. Kept' = Kept /\ Nothing' = Nothing
  BY DEF Kept, Nothing
<1> QED
  BY <1>1, Zenon DEF Memory

------------------------------------------------------------------------------
(* Steps *)

\* Two of a round do not have their turn at once.
LEMMA OneTurn ==
  ASSUME Shape, NEW q, NEW r, Turn(q), Turn(r)
  PROVE  q = r
<1>1. q \in Nat /\ r \in Nat /\ q <= r /\ r <= q
  BY Numbers DEF Turn, Shape
<1> QED
  BY <1>1

\* Who accepts a token is the one whose turn it is, and has read its prompt.
LEMMA AcceptedTurn ==
  ASSUME Shape, Rounds, accepted, NEW r, Turn(r)
  PROVE  r \in evaluated
<1>1. PICK q \in evaluated : Turn(q)
  BY Zenon DEF Rounds
<1> QED
  BY <1>1, OneTurn, Zenon

LEMMA FewerActive ==
  ASSUME Shape, Rounds, NEW S \in SUBSET active
  PROVE  Cardinality(S) <= MaxSequences
<1>1. IsFiniteSet(active) /\ active \subseteq Requests
  BY Numbers, FS_Subset DEF Shape
<1>2. IsFiniteSet(S) /\ Cardinality(S) <= Cardinality(active)
  BY <1>1, FS_Subset
<1>3. Cardinality(S) \in Nat /\ Cardinality(active) \in Nat /\ MaxSequences \in Nat
  BY <1>1, <1>2, FS_CardinalityType, BatchingAssumption
<1> QED
  BY <1>2, <1>3 DEF Rounds

LEMMA SubmitInv ==
  ASSUME Inv, NEW r \in Requests, Submit(r)
  PROVE  Inv'
<1>1. Shape'
  BY DEF Inv, Shape, Submit, stateVars, batchVars
<1>2. Rounds'
  BY DEF Inv, Rounds, Submit, Turn, stateVars, batchVars
<1>3. Follows'
  BY DEF Inv, Follows, Submit, Awaits, stateVars, batchVars
<1>4. Memory'
  BY MemoryStays DEF Inv, Submit, batchVars
<1>5. Calls'
  BY DEF Inv, Shape, Calls, Submit, Turn, stateVars, batchVars
<1> QED
  BY <1>1, <1>2, <1>3, <1>4, <1>5 DEF Inv

LEMMA ReturnInv ==
  ASSUME Inv, NEW r \in Requests, Return(r)
  PROVE  Inv'
<1>1. Shape'
  BY DEF Inv, Shape, Return, roundVars, stateVars, batchVars
<1>2. Rounds'
  BY DEF Inv, Rounds, Return, Turn, roundVars, stateVars, batchVars
<1>3. Follows'
  BY DEF Inv, Follows, Return, Awaits, roundVars, stateVars, batchVars
<1>4. Memory'
  BY MemoryStays DEF Inv, Return, batchVars
<1>5. Calls'
  BY DEF Inv, Shape, Rounds, Calls, Return, Turn, roundVars, stateVars, batchVars
<1> QED
  BY <1>1, <1>2, <1>3, <1>4, <1>5 DEF Inv

LEMMA CancelInv ==
  ASSUME Inv, NEW r \in Requests, Cancel(r)
  PROVE  Inv'
<1>1. Shape'
  BY DEF Inv, Shape, Cancel, roundVars, stateVars, batchVars
<1>2. Rounds'
  BY DEF Inv, Rounds, Cancel, Turn, roundVars, stateVars, batchVars
<1>3. Follows'
  BY DEF Inv, Follows, Cancel, Awaits, roundVars, stateVars, batchVars
<1>4. Memory'
  BY MemoryStays DEF Inv, Cancel, batchVars
<1>5. Calls'
  BY DEF Inv, Calls, Cancel, Turn, roundVars, stateVars, batchVars
<1> QED
  BY <1>1, <1>2, <1>3, <1>4, <1>5 DEF Inv

LEMMA CloseInv ==
  ASSUME Inv, Close \/ UNCHANGED vars
  PROVE  Inv'
<1>1. stop' \in {stop, TRUE} /\ UNCHANGED <<callVars, roundVars, stateVars, batchVars>>
  BY DEF Close, vars
<1>2. Shape'
  BY <1>1 DEF Inv, Shape, callVars, roundVars, stateVars, batchVars
<1>3. Rounds'
  BY <1>1 DEF Inv, Rounds, Turn, roundVars, stateVars, batchVars
<1>4. Follows'
  BY <1>1 DEF Inv, Follows, Awaits, roundVars, stateVars, batchVars
<1>5. Memory'
  BY <1>1, MemoryStays DEF Inv, batchVars
<1>6. Calls'
  BY <1>1 DEF Inv, Calls, Turn, callVars, roundVars, stateVars, batchVars
<1> QED
  BY <1>2, <1>3, <1>4, <1>5, <1>6 DEF Inv

LEMMA AdmitInv ==
  ASSUME Inv, Admit
  PROVE  Inv'
<1>1. PICK r \in queue :
        /\ queue' = queue \ {r} /\ phase' = "admitting"
        /\ \/ r \notin cancelled /\ active' = active \cup {r} /\ UNCHANGED answered
           \/ answered' = answered \cup {r} /\ UNCHANGED active
  BY Zenon DEF Admit
<1>2. /\ phase \in {"idle", "admitting"} /\ phase' = "admitting" /\ queue' = queue \ {r}
      /\ active \subseteq active' /\ active' \subseteq active \cup {r}
      /\ answered' \subseteq answered \cup {r} /\ answered \subseteq answered'
      /\ ~ (r \in active' /\ r \in answered')
      /\ r \in active' => r \notin cancelled
      /\ UNCHANGED <<call, cancelled, late, stop, todo, accepted, stateVars, batchVars>>
  BY <1>1 DEF Admit, Inv, Calls
<1>3. Shape'
  BY <1>1, <1>2 DEF Inv, Shape, Phases, stateVars, batchVars
<1>4. todo = {} /\ ~ accepted
  BY <1>2 DEF Inv, Rounds, Turn
<1>5. Cardinality(active') <= MaxSequences
  <2>1. IsFiniteSet(active) /\ MaxSequences \in Nat \ {0} /\ Cardinality(active) \in Nat
    BY Numbers, FS_Subset, FS_CardinalityType, BatchingAssumption DEF Inv, Shape
  <2>2. Cardinality(active) < MaxSequences
    <3>1. CASE phase = "idle"
      <4>1. active = {}
        BY <3>1 DEF Inv, Rounds
      <4> QED
        BY <4>1, <2>1, FS_EmptySet
    <3>2. CASE phase # "idle"
      BY <3>2 DEF Admit
    <3> QED
      BY <3>1, <3>2
  <2>3. Cardinality(active \cup {r}) <= MaxSequences
    <3>1. Cardinality(active \cup {r}) = IF r \in active THEN Cardinality(active) ELSE Cardinality(active) + 1
      BY <2>1, FS_AddElement
    <3> QED
      BY <3>1, <2>1, <2>2
  <2>4. Cardinality(active) <= MaxSequences
    BY <2>1, <2>2
  <2> QED
    BY <2>3, <2>4, <1>1, Zenon
<1>6. Rounds'
  BY <1>2, <1>4, <1>5 DEF Inv, Rounds, Turn, stateVars
<1>7. Follows'
  BY <1>2, <1>4 DEF Inv, Follows, Awaits, stateVars, batchVars
<1>8. Memory'
  BY <1>2, MemoryStays DEF Inv, batchVars
<1>9. Calls'
  BY <1>1, <1>2, <1>4 DEF Inv, Shape, Calls, Turn, stateVars
<1> QED
  BY <1>3, <1>6, <1>7, <1>8, <1>9 DEF Inv

LEMMA StepInv ==
  ASSUME Inv, Step
  PROVE  Inv'
<1>1. /\ heap' \in Heaps /\ Memory' /\ device' \in [Requests -> FullCaches \cup {None}]
      /\ \A r \in todo : device'[r] # None
      /\ \A r \in Requests \ todo : device'[r] = device[r]
  BY StepMemory DEF Inv
<1>2. /\ phase = "stepping" /\ phase' = "accepting"
      /\ UNCHANGED <<callVars, stop, queue, active, todo, accepted, stateVars>>
      /\ position' = [r \in Requests |->
           IF r \notin todo THEN position[r]
           ELSE IF r \in evaluated THEN position[r] + 1 ELSE position[r] + PromptTokens + produced[r]]
  BY DEF Step
<1>3. PromptTokens \in Nat
  BY BatchingAssumption
<1>4. \A r \in Requests : position[r] \in Nat /\ produced[r] \in Nat
  BY DEF Inv, Shape
<1>5. position' \in [Requests -> Nat]
  BY <1>2, <1>3, <1>4
<1>6. Shape'
  BY <1>1, <1>2, <1>5 DEF Inv, Shape, Phases, callVars, stateVars
<1>7. Rounds'
  BY <1>2 DEF Inv, Rounds, Turn, stateVars
<1>8. Follows'
  <2>1. /\ \A r \in Requests : r \in evaluated => device[r] # None
        /\ \A r \in Requests : device[r] = None => position[r] = 0
        /\ \A r \in Requests : device[r] # None =>
             r \in active /\ r \in evaluated /\ position[r] = PromptTokens + produced[r] - 1
    BY <1>2 DEF Inv, Follows, Awaits
  <2>2. todo \subseteq active /\ todo \subseteq Requests
    BY DEF Inv, Rounds, Shape
  <2>3. \A r \in Requests : Awaits(r)' <=> r \in todo
    BY <1>2 DEF Awaits
  <2>4. \A r \in Requests : device'[r] # None <=> r \in todo \/ device[r] # None
    BY <1>1
  <2>5. \A r \in Requests \ todo : position'[r] = position[r]
    BY <1>2
  <2>6. \A r \in todo : position'[r] = PromptTokens + produced[r]
    <3> SUFFICES ASSUME NEW r \in todo PROVE position'[r] = PromptTokens + produced[r]
      OBVIOUS
    <3>1. CASE r \in evaluated
      <4>1. position'[r] = position[r] + 1 /\ position[r] = PromptTokens + produced[r] - 1
        BY <3>1, <2>1, <2>2, <1>2
      <4> QED
        BY <4>1, <2>2, <1>3, <1>4
    <3>2. CASE r \notin evaluated
      <4>1. position'[r] = position[r] + PromptTokens + produced[r] /\ position[r] = 0
        BY <3>2, <2>1, <2>2, <1>2
      <4> QED
        BY <4>1, <2>2, <1>3, <1>4
    <3> QED
      BY <3>1, <3>2
  <2>7. UNCHANGED <<active, evaluated, produced>>
    BY <1>2 DEF stateVars
  <2> QED
    BY <2>1, <2>2, <2>3, <2>4, <2>5, <2>6, <2>7, <1>1, <1>3, <1>4 DEF Follows
<1>9. Calls'
  BY <1>2 DEF Inv, Rounds, Calls, Turn, callVars, stateVars
<1> QED
  BY <1>1, <1>6, <1>7, <1>8, <1>9 DEF Inv

LEMMA EvaluateInv ==
  ASSUME Inv, NEW r \in Requests, Evaluate(r)
  PROVE  Inv'
<1>1. /\ Turn(r) /\ r \notin evaluated /\ evaluated' = evaluated \cup {r}
      /\ late' = [late EXCEPT ![r] = IF call[r] = "returned" THEN @ + 1 ELSE @]
      /\ UNCHANGED <<call, answered, cancelled, stop, roundVars, produced, batchVars>>
  BY DEF Evaluate, CalledBack
<1>2. Awaits(r) /\ r \in active
  BY <1>1 DEF Inv, Rounds, Turn, Awaits
<1>3. ~ accepted
  BY <1>1, AcceptedTurn DEF Inv
<1>4. late[r] = 0
  <2>1. late[r] \in Nat /\ late[r] <= 1 /\ (late[r] = 1 => r \in evaluated)
    BY <1>2 DEF Inv, Shape, Calls
  <2> QED
    BY <2>1, <1>1
<1>5. late' = [late EXCEPT ![r] = IF call[r] = "returned" THEN 1 ELSE 0]
  BY <1>1, <1>4
<1>6. Shape'
  BY <1>1, <1>5 DEF Inv, Shape, roundVars, batchVars
<1>7. Rounds'
  BY <1>1, <1>2, <1>3 DEF Inv, Rounds, Turn, roundVars
<1>8. Follows'
  BY <1>1, <1>2 DEF Inv, Follows, Awaits, roundVars, batchVars
<1>9. Memory'
  BY <1>1, MemoryStays DEF Inv, batchVars
<1>10. Calls'
  BY <1>1, <1>2, <1>3, <1>5 DEF Inv, Shape, Calls, Turn, roundVars
<1> QED
  BY <1>6, <1>7, <1>8, <1>9, <1>10 DEF Inv

LEMMA AcceptInv ==
  ASSUME Inv, NEW r \in Requests, Accept(r)
  PROVE  Inv'
<1>1. /\ Turn(r) /\ r \in evaluated /\ ~ accepted /\ r \notin cancelled /\ accepted' = TRUE
      /\ UNCHANGED <<callVars, stop, queue, phase, active, todo, stateVars, batchVars>>
  BY DEF Accept
<1>2. Shape'
  BY <1>1 DEF Inv, Shape, callVars, stateVars, batchVars
<1>3. Rounds'
  BY <1>1 DEF Inv, Rounds, Turn, stateVars
<1>4. Follows'
  BY <1>1 DEF Inv, Follows, Awaits, stateVars, batchVars
<1>5. Memory'
  BY <1>1, MemoryStays DEF Inv, batchVars
<1>6. Calls'
  <2>1. \A q \in Requests : Turn(q)' => q = r
    <3>1. \A q \in Requests : Turn(q)' => Turn(q)
      BY <1>1 DEF Turn
    <3> QED
      BY <3>1, <1>1, OneTurn DEF Inv
  <2>2. late[r] # 1
    BY <1>1 DEF Inv, Calls, Rounds, Turn
  <2> QED
    BY <2>1, <2>2, <1>1 DEF Inv, Calls, callVars, stateVars
<1> QED
  BY <1>2, <1>3, <1>4, <1>5, <1>6 DEF Inv

LEMMA RoundEndsInv ==
  ASSUME Inv, RoundEnds
  PROVE  Inv'
<1>1. /\ phase = "accepting" /\ todo = {} /\ phase' = Round(active)
      /\ UNCHANGED <<callVars, stop, queue, active, todo, accepted, stateVars, batchVars>>
  BY DEF RoundEnds
<1>2. phase' \in {"idle", "admitting"} /\ (active # {} => phase' = "admitting") /\ ~ accepted
  BY <1>1 DEF Round, Inv, Rounds, Turn
<1>3. Shape'
  BY <1>1, <1>2 DEF Inv, Shape, Phases, callVars, stateVars, batchVars
<1>4. Rounds'
  BY <1>1, <1>2 DEF Inv, Rounds, Turn, stateVars
<1>5. Follows'
  BY <1>1, <1>2 DEF Inv, Follows, Awaits, stateVars, batchVars
<1>6. Memory'
  BY <1>1, MemoryStays DEF Inv, batchVars
<1>7. Calls'
  BY <1>1, <1>2 DEF Inv, Calls, callVars, stateVars
<1> QED
  BY <1>3, <1>4, <1>5, <1>6, <1>7 DEF Inv

LEMMA RejectInv ==
  ASSUME Inv, Reject
  PROVE  Inv'
<1>1. /\ phase = "rejecting" /\ phase' = "closing" /\ queue' = {} /\ answered' = answered \cup queue
      /\ UNCHANGED <<call, cancelled, late, stop, active, todo, accepted, stateVars, batchVars>>
  BY DEF Reject
<1>2. active = {} /\ todo = {} /\ ~ accepted
  BY <1>1 DEF Inv, Rounds, Turn
<1>3. Shape'
  BY <1>1 DEF Inv, Shape, Phases, stateVars, batchVars
<1>4. Rounds'
  BY <1>1, <1>2 DEF Inv, Rounds, stateVars
<1>5. Follows'
  BY <1>1, <1>2 DEF Inv, Follows, Awaits, stateVars, batchVars
<1>6. Memory'
  BY <1>1, MemoryStays DEF Inv, batchVars
<1>7. Calls'
  BY <1>1, <1>2 DEF Inv, Calls, stateVars
<1> QED
  BY <1>3, <1>4, <1>5, <1>6, <1>7 DEF Inv

LEMMA CloseBatchInv ==
  ASSUME Inv, CloseBatch
  PROVE  Inv'
<1>1. /\ phase = "closing" /\ phase' = "done"
      /\ UNCHANGED <<callVars, stop, queue, active, todo, accepted, stateVars, device, position>>
  BY DEF CloseBatch
<1>2. active = {} /\ todo = {} /\ ~ accepted
  BY <1>1 DEF Inv, Rounds, Turn
<1>3. heap' \in Heaps /\ Memory'
  <2>1. Kept = {}
    BY <1>2 DEF Inv, Follows, Kept
  <2> QED
    BY <2>1, CloseMemory DEF Inv
<1>4. Shape'
  BY <1>1, <1>3 DEF Inv, Shape, Phases, callVars, stateVars
<1>5. Rounds'
  BY <1>1, <1>2 DEF Inv, Rounds, stateVars
<1>6. Follows'
  BY <1>1, <1>2 DEF Inv, Follows, Awaits, stateVars
<1>7. Calls'
  BY <1>1, <1>2 DEF Inv, Calls, callVars, stateVars
<1> QED
  BY <1>3, <1>4, <1>5, <1>6, <1>7 DEF Inv

\* Those that leave take with them all that is known of them.
LEMMA ForgetShape ==
  ASSUME Shape, NEW gone, Forget(gone)
  PROVE  /\ produced' \in [Requests -> Nat] /\ position' \in [Requests -> Nat]
         /\ device' \in [Requests -> FullCaches \cup {None}]
         /\ active' = active \ gone /\ evaluated' = evaluated \ gone
         /\ \A r \in Requests : r \in gone => device'[r] = None /\ position'[r] = 0
         /\ \A r \in Requests : r \notin gone =>
              device'[r] = device[r] /\ position'[r] = position[r] /\ produced'[r] = produced[r]
BY DEF Forget, Shape

LEMMA ForgetFollows ==
  ASSUME Shape, Follows, NEW gone, Forget(gone),
         \A r \in Requests : Awaits(r)' <=> r \notin gone /\ Awaits(r)
  PROVE  Follows'
<1>1. /\ active' = active \ gone /\ evaluated' = evaluated \ gone
      /\ \A r \in Requests : r \in gone => device'[r] = None /\ position'[r] = 0
      /\ \A r \in Requests : r \notin gone =>
           device'[r] = device[r] /\ position'[r] = position[r] /\ produced'[r] = produced[r]
  BY ForgetShape
<1>2. \A r \in Requests : (r \in evaluated \/ Awaits(r) => device[r] # None)'
  BY <1>1 DEF Follows
<1>3. \A r \in Requests : (device[r] = None => position[r] = 0)'
  BY <1>1 DEF Follows
<1>4. \A r \in Requests : (device[r] # None => r \in active /\ (r \in evaluated \/ Awaits(r)))'
  BY <1>1 DEF Follows
<1>5. \A r \in Requests :
        (device[r] # None => position[r] = PromptTokens + produced[r] - (IF Awaits(r) THEN 0 ELSE 1))'
  BY <1>1 DEF Follows
<1> QED
  BY <1>2, <1>3, <1>4, <1>5 DEF Follows

LEMMA ForgetCalls ==
  ASSUME Shape, Calls, NEW gone \in SUBSET active, Forget(gone), answered' = answered \cup gone,
         UNCHANGED <<call, cancelled, queue>>, phase # "done", ~ accepted',
         \A r \in Requests \ gone : late'[r] = late[r],
         \A r \in gone : late'[r] <= 1 /\ (late'[r] = 1 => call[r] = "returned")
  PROVE  Calls'
<1>1. active' = active \ gone /\ evaluated' = evaluated \ gone
  BY DEF Forget
<1>2. \A r \in Requests : late'[r] <= 1
  BY DEF Calls
<1>3. \A r \in Requests : late'[r] = 1 =>
        /\ call'[r] = "returned" /\ r \notin queue'
        /\ r \in active' => r \in cancelled' /\ r \in evaluated'
  BY <1>1 DEF Shape, Calls
<1>4. /\ queue' \cap active' = {} /\ answered' \cap (queue' \cup active') = {}
      /\ \A r \in queue' \cup active' \cup answered' : call'[r] # "submitting"
      /\ \A r \in active' : call'[r] = "returned" => r \in cancelled'
      /\ \A r \in queue' : call'[r] = "returned" => r \in cancelled' \/ phase' = "done"
  BY <1>1 DEF Calls
<1> QED
  BY <1>2, <1>3, <1>4 DEF Calls

\* Leave, for those of an order without repetition.
LEMMA LeaveGives ==
  ASSUME Inv, NEW gone \in SUBSET active, NEW order, DOMAIN order \subseteq Requests, Range(order) = gone,
         \A i, j \in DOMAIN order : order[i] = order[j] => i = j, Leave(order)
  PROVE  heap' \in Heaps /\ Memory' /\ Forget(gone) /\ answered' = answered \cup gone
<1>1. gone \subseteq Requests
  BY DEF Inv, Shape
<1>2. \A i \in DOMAIN order : order[i] \in Requests
  BY <1>1 DEF Range
<1>3. Shape /\ Memory
  BY DEF Inv
<1>4. heap' \in Heaps /\ Memory'
  BY <1>2, <1>3, LeaveMemory
<1>5. Forget(Range(order)) /\ answered' = answered \cup Range(order)
  BY Zenon DEF Leave
<1> QED
  BY <1>4, <1>5, Zenon

\* The same for the requests in the order of their ids.
LEMMA LeaveByIdGives ==
  ASSUME Inv, NEW gone \in SUBSET active, Leave(ById(gone))
  PROVE  heap' \in Heaps /\ Memory' /\ Forget(gone) /\ answered' = answered \cup gone
<1>1. gone \in SUBSET Requests
  BY DEF Inv, Shape
<1>2. PICK order : order = ById(gone)
  OBVIOUS
<1>3. /\ DOMAIN order \subseteq Requests /\ Range(order) = gone
      /\ \A i, j \in DOMAIN order : order[i] = order[j] => i = j
  BY <1>1, <1>2, ByIdIs
<1>4. Leave(order)
  BY <1>2, Zenon
<1> QED
  BY <1>3, <1>4, LeaveGives

LEMMA SweepInv ==
  ASSUME Inv, Sweep
  PROVE  Inv'
<1>1. PICK gone : gone = active \cap cancelled
  OBVIOUS
<1>2. heap' \in Heaps /\ Memory' /\ Forget(gone) /\ answered' = answered \cup gone
  <2>1. Leave(ById(gone)) /\ gone \in SUBSET active
    BY <1>1 DEF Sweep
  <2> QED
    BY <2>1, LeaveByIdGives
<1>3. /\ phase = "admitting" /\ todo' = active' /\ phase' = (IF active' = {} THEN "idle" ELSE "stepping")
      /\ UNCHANGED <<call, cancelled, late, stop, queue, accepted>>
  BY DEF Sweep, RoundBegins
<1>4. todo = {} /\ ~ accepted /\ gone \subseteq active /\ active \subseteq Requests /\ answered \subseteq Requests
  BY <1>1, <1>3 DEF Inv, Shape, Rounds, Turn
<1>5. active' = active \ gone /\ evaluated' = evaluated \ gone
  BY <1>2 DEF Forget
<1>6. Shape'
  BY <1>2, <1>3, <1>4, <1>5, ForgetShape DEF Inv, Shape, Phases
<1>7. Rounds'
  <2>1. Cardinality(active') <= MaxSequences
    BY <1>5, FewerActive DEF Inv
  <2> QED
    BY <2>1, <1>3, <1>4, <1>5 DEF Inv, Rounds
<1>8. Follows'
  BY <1>2, <1>3, ForgetFollows DEF Inv, Awaits
<1>9. Calls'
  BY <1>2, <1>3, <1>4, ForgetCalls DEF Inv, Calls
<1> QED
  BY <1>2, <1>6, <1>7, <1>8, <1>9 DEF Inv

LEMMA FailsInv ==
  ASSUME Inv, StepFails
  PROVE  Inv'
<1>1. heap' \in Heaps /\ Memory' /\ Forget(todo)
  BY FailsMemory DEF Inv, StepFails
<1>2. /\ phase = "stepping" /\ todo' = {} /\ phase' = Round(active') /\ answered' = answered \cup todo
      /\ UNCHANGED <<call, cancelled, late, stop, queue, accepted>>
  BY DEF StepFails
<1>3. phase' \in {"idle", "admitting"} /\ (active' # {} => phase' = "admitting")
  BY <1>2 DEF Round
<1>4. ~ accepted /\ todo \subseteq active /\ active \subseteq Requests /\ answered \subseteq Requests
  BY <1>2 DEF Inv, Shape, Rounds, Turn
<1>5. active' = active \ todo /\ evaluated' = evaluated \ todo
  BY <1>1 DEF Forget
<1>6. Shape'
  BY <1>1, <1>2, <1>3, <1>4, <1>5, ForgetShape DEF Inv, Shape, Phases
<1>7. Rounds'
  <2>1. Cardinality(active') <= MaxSequences
    BY <1>5, FewerActive DEF Inv
  <2> QED
    BY <2>1, <1>2, <1>3, <1>4, <1>5 DEF Inv, Rounds
<1>8. Follows'
  BY <1>1, <1>2, <1>3, ForgetFollows DEF Inv, Awaits
<1>9. Calls'
  BY <1>1, <1>2, <1>4, ForgetCalls DEF Inv, Calls
<1> QED
  BY <1>1, <1>6, <1>7, <1>8, <1>9 DEF Inv

\* One of the round leaves in its turn.
LEMMA TurnLeavesInv ==
  ASSUME Inv, NEW r \in Requests, Turn(r), Leave(ById({r})), todo' = todo \ {r}, accepted' \in BOOLEAN, ~ accepted',
         UNCHANGED <<call, cancelled, stop, queue, phase>>, late' \in [Requests -> Nat],
         \A q \in Requests \ {r} : late'[q] = late[q],
         late'[r] <= 1 /\ (late'[r] = 1 => call[r] = "returned")
  PROVE  Inv'
<1>1. phase = "accepting" /\ r \in todo /\ r \in active
  BY DEF Turn, Inv, Rounds
<1>2. PICK gone : gone = {r}
  OBVIOUS
<1>3. heap' \in Heaps /\ Memory' /\ Forget(gone) /\ answered' = answered \cup gone
  <2>1. Leave(ById(gone)) /\ gone \in SUBSET active
    BY <1>1, <1>2
  <2> QED
    BY <2>1, LeaveByIdGives
<1>4. active' = active \ gone /\ evaluated' = evaluated \ gone
  BY <1>3 DEF Forget
<1>5. Shape'
  <2>1. gone \subseteq Requests /\ Shape
    BY <1>2 DEF Inv
  <2>2. /\ produced' \in [Requests -> Nat] /\ position' \in [Requests -> Nat]
        /\ device' \in [Requests -> FullCaches \cup {None}]
    BY <2>1, <1>3, ForgetShape
  <2> QED
    BY <2>1, <2>2, <1>3, <1>4 DEF Shape
<1>6. Rounds'
  <2>1. Cardinality(active') <= MaxSequences
    BY <1>4, FewerActive DEF Inv
  <2> QED
    BY <2>1, <1>1, <1>2, <1>4 DEF Inv, Rounds
<1>7. Follows'
  BY <1>1, <1>2, <1>3, ForgetFollows DEF Inv, Awaits
<1>8. Calls'
  BY <1>1, <1>2, <1>3, ForgetCalls DEF Inv
<1> QED
  BY <1>3, <1>5, <1>6, <1>7, <1>8 DEF Inv

LEMMA RefuseInv ==
  ASSUME Inv, NEW r \in Requests, Refuse(r)
  PROVE  Inv'
<1>1. /\ Turn(r) /\ Leave(ById({r})) /\ todo' = todo \ {r} /\ ~ accepted'
      /\ UNCHANGED <<call, cancelled, late, stop, queue, phase>>
  BY DEF Refuse
<1>3. accepted' \in BOOLEAN
  BY DEF Refuse, Inv, Shape
<1>2. late \in [Requests -> Nat] /\ late[r] <= 1 /\ (late[r] = 1 => call[r] = "returned")
  BY DEF Inv, Shape, Calls
<1> QED
  BY <1>1, <1>2, <1>3, TurnLeavesInv

LEMMA DeliverInv ==
  ASSUME Inv, NEW r \in Requests, Deliver(r)
  PROVE  Inv'
<1>1. /\ Turn(r) /\ accepted /\ accepted' = FALSE /\ todo' = todo \ {r}
      /\ late' = [late EXCEPT ![r] = IF call[r] = "returned" THEN @ + 1 ELSE @]
      /\ UNCHANGED <<call, cancelled, stop, queue, phase>>
  BY DEF Deliver, CalledBack
<1>2. r \in evaluated /\ r \in active /\ r \in todo /\ phase = "accepting"
  BY <1>1, AcceptedTurn DEF Inv, Rounds, Turn
<1>3. late[r] = 0
  <2>1. late[r] \in Nat /\ late[r] <= 1 /\ late[r] # 1
    BY <1>1, <1>2 DEF Inv, Shape, Calls
  <2> QED
    BY <2>1
<1>4. late' = [late EXCEPT ![r] = IF call[r] = "returned" THEN 1 ELSE 0]
  BY <1>1, <1>3
<1>5. late' \in [Requests -> Nat]
  BY <1>4 DEF Inv, Shape
<1>6. /\ \A q \in Requests \ {r} : late'[q] = late[q]
      /\ late'[r] <= 1 /\ (late'[r] = 1 => call[r] = "returned")
  BY <1>4 DEF Inv, Shape
<1>7. CASE produced' = [produced EXCEPT ![r] = @ + 1] /\ UNCHANGED <<answered, active, evaluated, batchVars>>
  <2>1. produced' \in [Requests -> Nat]
    BY <1>7 DEF Inv, Shape
  <2>2. Shape'
    BY <2>1, <1>1, <1>5, <1>7 DEF Inv, Shape, batchVars
  <2>3. Rounds'
    BY <1>1, <1>2, <1>7 DEF Inv, Rounds
  <2>4. Follows'
    <3>1. \A q \in Requests : Awaits(q)' <=> q # r /\ Awaits(q)
      BY <1>1 DEF Awaits
    <3>2. Awaits(r) /\ position[r] \in Nat /\ produced[r] \in Nat /\ PromptTokens \in Nat
          /\ produced'[r] = produced[r] + 1
      BY <1>2, <1>7, BatchingAssumption DEF Awaits, Inv, Shape
    <3>3. \A q \in Requests \ {r} : produced'[q] = produced[q]
      BY <1>7 DEF Inv, Shape
    <3>4. UNCHANGED <<device, position, active, evaluated>>
      BY <1>7 DEF batchVars
    <3> QED
      BY <3>1, <3>2, <3>3, <3>4, <1>2 DEF Inv, Follows
  <2>5. Memory'
    BY <1>7, MemoryStays DEF Inv, batchVars
  <2>6. Calls'
    BY <1>1, <1>2, <1>6, <1>7 DEF Inv, Shape, Calls
  <2> QED
    BY <2>2, <2>3, <2>4, <2>5, <2>6 DEF Inv
<1>8. CASE Leave(ById({r}))
  <2>1. accepted' \in BOOLEAN /\ ~ accepted'
    BY <1>1
  <2> QED
    BY <2>1, <1>1, <1>5, <1>6, <1>8, TurnLeavesInv
<1> QED
  BY <1>7, <1>8 DEF Deliver

LEMMA StopInv ==
  ASSUME Inv, Stop
  PROVE  Inv'
<1>1. PICK order \in Bijection(1 .. Cardinality(active), active) : Leave(order)
  BY DEF Stop
<1>2. active \subseteq Requests /\ IsFiniteSet(active) /\ Cardinality(active) \in Nat /\ Cardinality(active) <= MaxCalls
  <2>1. active \subseteq Requests /\ IsFiniteSet(Requests) /\ MaxCalls \in Nat
    BY Numbers DEF Inv, Shape
  <2>2. Cardinality(Requests) = MaxCalls
    BY <2>1, Numbers, FS_Interval
  <2> QED
    BY <2>1, <2>2, FS_Subset, FS_CardinalityType
<1>3. /\ DOMAIN order \subseteq Requests /\ Range(order) = active
      /\ \A i, j \in DOMAIN order : order[i] = order[j] => i = j
  <2>1. PICK D : D = 1 .. Cardinality(active)
    OBVIOUS
  <2>2. D \subseteq Requests
    BY <2>1, <1>2, Numbers
  <2>3. order \in Injection(D, active) /\ order \in Surjection(D, active)
    BY <2>1, <1>1, Zenon DEF Bijection
  <2>4. DOMAIN order = D /\ Range(order) = active
    BY <2>3, Fun_SurjectionProperties, Zenon
  <2>5. \A i, j \in D : order[i] = order[j] => i = j
    BY <2>3 DEF Injection, IsInjective
  <2> QED
    BY <2>2, <2>4, <2>5, Zenon
<1>4. heap' \in Heaps /\ Memory' /\ Forget(active) /\ answered' = answered \cup active
  BY <1>1, <1>3, LeaveGives
<1>5. /\ phase \in {"idle", "admitting"} /\ phase' = "rejecting"
      /\ UNCHANGED <<call, cancelled, late, stop, queue, todo, accepted>>
  BY DEF Stop, RoundBegins
<1>6. todo = {} /\ ~ accepted /\ active \subseteq Requests /\ answered \subseteq Requests
  BY <1>5 DEF Inv, Shape, Rounds, Turn
<1>7. active' = {} /\ evaluated' = {}
  BY <1>4 DEF Forget, Inv, Rounds
<1>8. Shape'
  BY <1>4, <1>5, <1>6, <1>7, ForgetShape DEF Inv, Shape, Phases
<1>9. Rounds'
  <2>1. Cardinality(active') <= MaxSequences
    BY <1>7, FewerActive DEF Inv
  <2> QED
    BY <2>1, <1>5, <1>6, <1>7 DEF Rounds
<1>10. Follows'
  BY <1>4, <1>5, ForgetFollows DEF Inv, Awaits
<1>11. Calls'
  BY <1>4, <1>5, <1>6, ForgetCalls DEF Inv, Calls
<1> QED
  BY <1>4, <1>8, <1>9, <1>10, <1>11 DEF Inv

------------------------------------------------------------------------------
(* Theorems *)

\* The invariant of the rounds, the caches, the memory and the calls holds before any call.
THEOREM InvInit == Init => Inv
<1> SUFFICES ASSUME Init PROVE Inv
  OBVIOUS
<1>1. Kept = {} /\ todo = {} /\ active = {} /\ queue = {} /\ ~ accepted
  BY DEF Init, Kept
<1>2. /\ heap \in Heaps /\ heap.deferred = <<>> /\ heap.lost = {} /\ heap.faults = 0
      /\ heap.outputs = [b \in Blocks |-> 0] /\ heap.stores = [b \in Blocks |-> 0]
  <2>1. <<>> \in Seq(Caches)
    OBVIOUS
  <2> QED
    BY <2>1 DEF Init, Heaps
<1>3. Shape
  BY <1>2 DEF Init, Shape, Phases
<1>4. Rounds
  BY FS_EmptySet, BatchingAssumption DEF Init, Rounds
<1>5. Follows
  BY DEF Init, Follows, Awaits
<1>6. Memory
  <2>1. Len(<<>>) = 0
    OBVIOUS
  <2>2. Accounts(heap, Nothing, device, Kept)
    <3> SUFFICES ASSUME NEW field \in Fields, NEW b \in Blocks
                 PROVE  Refs(heap, field)[b] = Nothing[field][b] + Cardinality(Naming(device, Kept, field, b))
                                               + Deferred(heap.deferred, field, b) + Lost(heap, field, b)
      BY Zenon DEF Accounts
    <3>1. Nothing[field][b] = 0 /\ Refs(heap, field)[b] = 0 /\ Lost(heap, field, b) = 0
      BY <1>2 DEF Nothing, Refs, Lost
    <3>2. Naming(device, Kept, field, b) = {}
      BY <1>1, Zenon DEF Naming
    <3>3. Deferred(<<>>, field, b) = 0
      <4>1. Naming(<<>>, 1 .. 0, field, b) = {}
        BY DEF Naming
      <4>2. Deferred(<<>>, field, b) = Cardinality(Naming(<<>>, 1 .. 0, field, b))
        BY <2>1, Zenon DEF Deferred
      <4> QED
        BY <4>1, <4>2, FS_EmptySet
    <3> QED
      BY <1>2, <3>1, <3>2, <3>3, FS_EmptySet
  <2>3. Balance(heap) >= 0
    BY <1>2, <2>1 DEF Balance
  <2> QED
    BY <1>1, <2>2, <2>3 DEF Memory
<1>7. Calls
  BY DEF Init, Calls
<1> QED
  BY <1>3, <1>4, <1>5, <1>6, <1>7 DEF Inv

\* No step of the scheduler or of a Generate call leaves it.
THEOREM InvStep == Inv /\ [Next]_vars => Inv'
<1> SUFFICES ASSUME Inv, [Next]_vars PROVE Inv'
  OBVIOUS
<1>1. CASE Scheduler
  <2>1. CASE Admit
    BY <2>1, AdmitInv
  <2>2. CASE Sweep
    BY <2>2, SweepInv
  <2>3. CASE StepFails
    BY <2>3, FailsInv
  <2>4. CASE Step
    BY <2>4, StepInv
  <2>5. ASSUME NEW r \in Requests, Evaluate(r) PROVE Inv'
    BY <2>5, EvaluateInv
  <2>6. ASSUME NEW r \in Requests, Accept(r) PROVE Inv'
    BY <2>6, AcceptInv
  <2>7. ASSUME NEW r \in Requests, Refuse(r) PROVE Inv'
    BY <2>7, RefuseInv
  <2>8. ASSUME NEW r \in Requests, Deliver(r) PROVE Inv'
    BY <2>8, DeliverInv
  <2>9. CASE RoundEnds
    BY <2>9, RoundEndsInv
  <2>10. CASE Stop
    BY <2>10, StopInv
  <2>11. CASE Reject
    BY <2>11, RejectInv
  <2>12. CASE CloseBatch
    BY <2>12, CloseBatchInv
  <2> QED
    BY <1>1, <2>1, <2>2, <2>3, <2>4, <2>5, <2>6, <2>7, <2>8, <2>9, <2>10, <2>11, <2>12, Zenon DEF Scheduler
<1>2. ASSUME NEW r \in Requests, Submit(r) PROVE Inv'
  BY <1>2, SubmitInv
<1>3. ASSUME NEW r \in Requests, Return(r) PROVE Inv'
  BY <1>3, ReturnInv
<1>4. ASSUME NEW r \in Requests, Cancel(r) PROVE Inv'
  BY <1>4, CancelInv
<1>5. CASE Close \/ UNCHANGED vars
  BY <1>5, CloseInv
<1> QED
  BY <1>1, <1>2, <1>3, <1>4, <1>5, Zenon DEF Next

\* It holds in every behaviour of the generator, its batch and its callers.
THEOREM InvHolds == BatchingSpec => []Inv
BY InvInit, InvStep, PTL DEF BatchingSpec

\* The scheduler's view of a sequence and the cache that the batch keeps of it agree,
\* after every step, failure and departure.
THEOREM CachesFollow == BatchingSpec => []CacheFollowsIds
<1>1. Inv => CacheFollowsIds
  <2> SUFFICES ASSUME Inv PROVE CacheFollowsIds
    OBVIOUS
  <2>1. FullCaches \subseteq Caches
    BY DEF FullCaches, Caches
  <2>2. BatchingTypeOK
    BY <2>1 DEF Inv, Shape, BatchingTypeOK, Phases, Heaps, Fields
  <2>3. \A r \in evaluated : device[r] # None
    BY DEF Inv, Shape, Follows
  <2> QED
    BY <2>2, <2>3 DEF Inv, Rounds, Follows, CacheFollowsIds
<1> QED
  BY <1>1, InvHolds, PTL

\* Nobody is called back more than once after Generate returned.
THEOREM OneIsLate == BatchingSpec => []OneLateCallback
<1>1. Inv => OneLateCallback
  BY DEF Inv, Calls, OneLateCallback
<1> QED
  BY <1>1, InvHolds, PTL

\* Device memory is counted exactly, whatever fails.
THEOREM MemoryHasOwners == BatchingSpec => []MemoryIsOwned
<1>1. Inv => MemoryIsOwned
  <2> SUFFICES ASSUME Inv PROVE MemoryIsOwned
    OBVIOUS
  <2>1. heap \in Heaps /\ heap.deferred \in Seq(Caches) /\ Len(heap.deferred) \in Nat /\ heap.faults \in Nat
    BY DEF Inv, Shape, Heaps
  <2>2. ASSUME NEW field \in Fields, NEW b \in Blocks
        PROVE  Refs(heap, field)[b] = Names(field, b)
    <3>1. Refs(heap, field)[b] = Nothing[field][b] + Cardinality(Naming(device, Kept, field, b))
                                 + Deferred(heap.deferred, field, b) + Lost(heap, field, b)
      BY Zenon DEF Inv, Memory, Accounts
    <3>2. PICK n1, n2, n3 : /\ n1 = Cardinality(Naming(device, Kept, field, b))
                            /\ n2 = Deferred(heap.deferred, field, b) /\ n3 = Lost(heap, field, b)
      OBVIOUS
    <3>3. n1 \in Nat /\ n2 \in Nat /\ n3 \in {0, 1} /\ Nothing[field][b] = 0
      <4>1. IsFiniteSet(Kept)
        BY KeptAre DEF Inv, Shape
      <4> QED
        BY <4>1, <3>2, <2>1, NamingFinite, DeferredType DEF Lost, Nothing
    <3>4. Cardinality({r \in Requests : device[r] # None /\ device[r][field] = b}) = n1
      <4>1. {r \in Requests : device[r] # None /\ device[r][field] = b} = Naming(device, Kept, field, b)
        BY DEF Naming, Kept
      <4> QED
        BY <4>1, <3>2, Zenon
    <3>5. Cardinality({i \in DOMAIN heap.deferred : heap.deferred[i][field] = b}) = n2
      <4>1. DOMAIN heap.deferred = 1 .. Len(heap.deferred)
        BY <2>1
      <4> QED
        BY <4>1, <3>2, Zenon DEF Deferred, Naming
    <3>6. Cardinality({<<field, b>>} \cap heap.lost) = n3
      <4>1. CASE <<field, b>> \in heap.lost
        <5>1. {<<field, b>>} \cap heap.lost = {<<field, b>>}
          BY <4>1
        <5>2. Cardinality({<<field, b>>}) = 1
          BY FS_Singleton, Zenon
        <5> QED
          BY <4>1, <5>1, <5>2, <3>2, Zenon DEF Lost
      <4>2. CASE <<field, b>> \notin heap.lost
        <5>1. {<<field, b>>} \cap heap.lost = {}
          BY <4>2
        <5> QED
          BY <4>2, <5>1, <3>2, FS_EmptySet, Zenon DEF Lost
      <4> QED
        BY <4>1, <4>2
    <3>7. Names(field, b) = n1 + n2 + n3
      BY <3>4, <3>5, <3>6, Zenon DEF Names
    <3> QED
      BY <3>1, <3>2, <3>3, <3>7
  <2>3. \A b \in Blocks : heap.outputs[b] = Names("outputs", b) /\ heap.stores[b] = Names("store", b)
    <3>1. /\ "outputs" \in Fields /\ "store" \in Fields
          /\ Refs(heap, "outputs") = heap.outputs /\ Refs(heap, "store") = heap.stores
      BY DEF Fields, Refs
    <3> QED
      BY <2>2, <3>1, Zenon
  <2>4. \A q, r \in Requests :
          q # r /\ device[q] # None /\ device[r] # None => device[q].store # device[r].store
    BY Zenon DEF Inv, Memory, Kept
  <2>5. phase = "done" => (\A r \in Requests : device[r] = None) /\ Len(heap.deferred) <= heap.faults
    <3>1. Len(heap.deferred) <= heap.faults
      BY <2>1 DEF Inv, Memory, Balance
    <3>2. phase = "done" => active = {}
      BY DEF Inv, Rounds
    <3> QED
      BY <3>1, <3>2 DEF Inv, Follows
  <2> QED
    BY <2>3, <2>4, <2>5, Zenon DEF MemoryIsOwned
<1> QED
  BY <1>1, InvHolds, PTL
=============================================================================
