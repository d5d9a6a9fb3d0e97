----------------------------- MODULE PartsProofs -----------------------------
(***************************************************************************)
(* Proofs about four parts of the engine that one actor runs on its own,   *)
(* for every value of their constants: the expert pool and its readers, a  *)
(* stream's decode steps, the arena's list of free rows and the chunked    *)
(* copy of a region.  Each part has its inductive invariant, one lemma per *)
(* action and its theorems at the end of its section.                      *)
(***************************************************************************)
EXTENDS ArenaStep, ExpertPager, RowFreeList, MoveChunks, ProofFacts

(***************************************************************************)
(* The pager: the pool                                                     *)
(***************************************************************************)
\* A pool's eviction order lists the occupied slots, and no key is twice in it.
PoolOk(p) ==
  /\ p \in [key : [Slots -> Keys \cup {NoKey}], bytes : [Slots -> Keys \cup {Junk}], lru : Seq(Slots)]
  /\ IsInjective(p.lru) /\ ToSet(p.lru) = {s \in Slots : p.key[s] # NoKey}
  /\ \A s, t \in Slots : p.key[s] = p.key[t] => s = t \/ p.key[s] = NoKey

\* What an occupied slot is said to hold has landed in it.
Landed(p) == \A s \in Slots : p.key[s] \in {NoKey, p.bytes[s]}

LEMMA Numbers ==
  /\ NSlots \in Nat \ {0} /\ NStages \in Nat \ {0} /\ NLayers \in Nat /\ Scan \in Nat
  /\ MaxAdmit \in Nat /\ InflightMax \in Nat /\ IsFiniteSet(Ids)
  /\ Slots \subseteq Nat /\ Slots # {}
<1>1. /\ NSlots \in Nat \ {0} /\ NStages \in Nat \ {0} /\ NLayers \in Nat /\ Scan \in Nat
      /\ MaxAdmit \in Nat /\ InflightMax \in Nat /\ IsFiniteSet(Ids)
  BY PagerAssumption
<1>2. 1 .. NSlots \subseteq Nat /\ 1 \in 1 .. NSlots
  BY <1>1
<1> QED BY <1>1, <1>2 DEF Slots

LEMMA KeyFacts == NoKey \notin Keys /\ Junk # NoKey
<1>1. \A k \in Keys : k # <<>>
  BY DEF Keys
<1> QED BY <1>1 DEF NoKey, Junk

LEMMA SlotFacts ==
  ASSUME NEW p, NEW k, Resident(p, k)
  PROVE  SlotOf(p, k) \in Slots /\ p.key[SlotOf(p, k)] = k
BY DEF Resident, SlotOf, SlotsOf

LEMMA TouchOk ==
  ASSUME NEW p, PoolOk(p), NEW s \in Slots, p.key[s] # NoKey
  PROVE  /\ PoolOk(touch(p, s))
         /\ touch(p, s).key = p.key /\ touch(p, s).bytes = p.bytes
         /\ touch(p, s) = [key |-> p.key, bytes |-> p.bytes, lru |-> touch(p, s).lru]
<1> DEFINE w == Without(p.lru, {s})
           q == touch(p, s)
<1>1. /\ p.lru \in Seq(Slots) /\ p.key \in [Slots -> Keys \cup {NoKey}]
      /\ p.bytes \in [Slots -> Keys \cup {Junk}]
      /\ IsInjective(p.lru) /\ ToSet(p.lru) = {t \in Slots : p.key[t] # NoKey}
      /\ p = [key |-> p.key, bytes |-> p.bytes, lru |-> p.lru]
  BY DEF PoolOk
<1>2. w \in Seq(Slots) /\ IsInjective(w) /\ ToSet(w) = ToSet(p.lru) \ {s}
  BY <1>1, WithoutKeeps
<1>3. q = [key |-> p.key, bytes |-> p.bytes, lru |-> Append(w, s)]
  <2>1. q = [p EXCEPT !.lru = Append(Without(p.lru, {s}), s)]
    BY DEF touch
  <2> HIDE DEF q
  <2> QED BY <1>1, <2>1
<1> HIDE DEF w, q
<1>4. Append(w, s) \in Seq(Slots) /\ IsInjective(Append(w, s)) /\ ToSet(Append(w, s)) = ToSet(w) \cup {s}
  BY <1>2, InjectiveAppend, ToSetAppend
<1>5. ToSet(q.lru) = {t \in Slots : q.key[t] # NoKey} /\ IsInjective(q.lru)
  BY <1>1, <1>2, <1>3, <1>4
<1>6. q \in [key : [Slots -> Keys \cup {NoKey}], bytes : [Slots -> Keys \cup {Junk}], lru : Seq(Slots)]
  BY <1>1, <1>3, <1>4
<1>7. q.key = p.key /\ q.bytes = p.bytes /\ q = [key |-> p.key, bytes |-> p.bytes, lru |-> q.lru]
  BY <1>3
<1>8. PoolOk(q)
  BY <1>5, <1>6, <1>7 DEF PoolOk
<1> QED BY <1>7, <1>8 DEF q

\* The slot a search finds is one of its range.
LEMMA PlaceOk ==
  ASSUME NEW p, PoolOk(p), NEW range, range \subseteq Slots, range # {}
  PROVE  Place(p, range) \in range
<1>1. CASE FreeIn(p, range) # {}
  <2>1. FreeIn(p, range) \subseteq Nat /\ FreeIn(p, range) \subseteq range
    BY Numbers DEF FreeIn
  <2>2. PICK x \in FreeIn(p, range) : \A y \in FreeIn(p, range) : x <= y
    BY <1>1, <2>1, Least
  <2>3. Min(FreeIn(p, range)) \in FreeIn(p, range)
    BY <2>2 DEF Min
  <2> QED BY <1>1, <2>1, <2>3 DEF Place
<1>2. CASE FreeIn(p, range) = {}
  <2> DEFINE js == {j \in DOMAIN p.lru : p.lru[j] \in range}
  <2>1. PICK s \in range : TRUE
    OBVIOUS
  <2>2. s \in ToSet(p.lru)
    BY <1>2, <2>1 DEF FreeIn, PoolOk
  <2>3. js # {} /\ js \subseteq Nat
    BY <2>1, <2>2 DEF ToSet, PoolOk
  <2>4. PICK x \in js : \A y \in js : x <= y
    BY <2>3, Least
  <2>5. Min(js) \in js
    BY <2>4 DEF Min
  <2> QED BY <1>2, <2>5 DEF Place, lru_victim
<1> QED BY <1>1, <1>2

LEMMA ClaimOk ==
  ASSUME NEW p, PoolOk(p), NEW k \in Keys, ~ Resident(p, k), NEW s \in Slots
  PROVE  /\ PoolOk(claim(p, k, s)) /\ claim(p, k, s).bytes = p.bytes
         /\ claim(p, k, s).key = [p.key EXCEPT ![s] = k]
<1> DEFINE q == [p EXCEPT !.key[s] = k]
           w == Without(p.lru, {s})
<1>1. /\ p.lru \in Seq(Slots) /\ p.key \in [Slots -> Keys \cup {NoKey}]
      /\ p.bytes \in [Slots -> Keys \cup {Junk}]
      /\ IsInjective(p.lru) /\ ToSet(p.lru) = {t \in Slots : p.key[t] # NoKey}
      /\ p = [key |-> p.key, bytes |-> p.bytes, lru |-> p.lru]
  BY DEF PoolOk
<1>2. q = [key |-> [p.key EXCEPT ![s] = k], bytes |-> p.bytes, lru |-> p.lru]
  BY <1>1
<1>3. w \in Seq(Slots) /\ IsInjective(w) /\ ToSet(w) = ToSet(p.lru) \ {s}
  BY <1>1, WithoutKeeps
<1>4. claim(p, k, s) = [key |-> [p.key EXCEPT ![s] = k], bytes |-> p.bytes, lru |-> Append(w, s)]
  <2>1. claim(p, k, s) = [q EXCEPT !.lru = Append(Without(q.lru, {s}), s)]
    BY DEF claim, touch
  <2> HIDE DEF q
  <2> QED BY <1>2, <2>1
<1> DEFINE c == claim(p, k, s)
<1> HIDE DEF c, w
<1>5. Append(w, s) \in Seq(Slots) /\ IsInjective(Append(w, s)) /\ ToSet(Append(w, s)) = ToSet(w) \cup {s}
  BY <1>3, InjectiveAppend, ToSetAppend
<1>6. /\ c.key = [p.key EXCEPT ![s] = k] /\ c.bytes = p.bytes /\ c.lru = Append(w, s)
      /\ c \in [key : [Slots -> Keys \cup {NoKey}], bytes : [Slots -> Keys \cup {Junk}], lru : Seq(Slots)]
  BY <1>1, <1>4, <1>5 DEF c
<1>7. ToSet(c.lru) = {t \in Slots : c.key[t] # NoKey} /\ IsInjective(c.lru)
  BY <1>1, <1>3, <1>5, <1>6, KeyFacts
<1>8. \A t \in Slots : p.key[t] # k
  BY DEF Resident, SlotsOf
<1>9. \A t, u \in Slots : c.key[t] = c.key[u] => t = u \/ c.key[t] = NoKey
  BY <1>1, <1>6, <1>8 DEF PoolOk
<1> QED BY <1>6, <1>7, <1>9 DEF PoolOk, c

LEMMA ReleaseOk ==
  ASSUME NEW p, PoolOk(p), NEW gone
  PROVE  /\ PoolOk(release(p, gone)) /\ release(p, gone).bytes = p.bytes
         /\ \A s \in Slots : release(p, gone).key[s] = IF s \in gone THEN NoKey ELSE p.key[s]
<1> DEFINE w == Without(p.lru, gone)
           q == release(p, gone)
<1>1. /\ p.lru \in Seq(Slots) /\ p.key \in [Slots -> Keys \cup {NoKey}]
      /\ p.bytes \in [Slots -> Keys \cup {Junk}]
      /\ IsInjective(p.lru) /\ ToSet(p.lru) = {t \in Slots : p.key[t] # NoKey}
      /\ p = [key |-> p.key, bytes |-> p.bytes, lru |-> p.lru]
  BY DEF PoolOk
<1>2. w \in Seq(Slots) /\ IsInjective(w) /\ ToSet(w) = ToSet(p.lru) \ gone
  BY <1>1, WithoutKeeps
<1>3. q = [key |-> [s \in Slots |-> IF s \in gone THEN NoKey ELSE p.key[s]], bytes |-> p.bytes, lru |-> w]
  <2> DEFINE ks == [s \in Slots |-> IF s \in gone THEN NoKey ELSE p.key[s]]
  <2>1. q = [[p EXCEPT !.key = ks] EXCEPT !.lru = Without([p EXCEPT !.key = ks].lru, gone)]
    BY DEF release
  <2> HIDE DEF q, ks
  <2>2. [p EXCEPT !.key = ks] = [key |-> ks, bytes |-> p.bytes, lru |-> p.lru]
    BY <1>1
  <2>3. q = [key |-> ks, bytes |-> p.bytes, lru |-> w]
    BY <2>1, <2>2
  <2> QED BY <2>3 DEF ks
<1> HIDE DEF w, q
<1>4. /\ \A s \in Slots : q.key[s] = IF s \in gone THEN NoKey ELSE p.key[s]
      /\ q.bytes = p.bytes /\ q.lru = w
      /\ q \in [key : [Slots -> Keys \cup {NoKey}], bytes : [Slots -> Keys \cup {Junk}], lru : Seq(Slots)]
  BY <1>1, <1>2, <1>3
<1>5. ToSet(q.lru) = {t \in Slots : q.key[t] # NoKey} /\ IsInjective(q.lru)
  BY <1>1, <1>2, <1>4
<1>6. \A t, u \in Slots : q.key[t] = q.key[u] => t = u \/ q.key[t] = NoKey
  BY <1>4 DEF PoolOk
<1>7. PoolOk(q)
  BY <1>4, <1>5, <1>6 DEF PoolOk
<1> QED BY <1>4, <1>7 DEF q

\* Bytes that land, or half land, change no key.
LEMMA BytesOk ==
  ASSUME NEW p, PoolOk(p), NEW b \in [Slots -> Keys \cup {Junk}]
  PROVE  /\ PoolOk([p EXCEPT !.bytes = b]) /\ [p EXCEPT !.bytes = b].key = p.key
         /\ [p EXCEPT !.bytes = b].bytes = b
<1>1. /\ [p EXCEPT !.bytes = b].key = p.key /\ [p EXCEPT !.bytes = b].lru = p.lru
      /\ [p EXCEPT !.bytes = b].bytes = b
      /\ [p EXCEPT !.bytes = b] \in
           [key : [Slots -> Keys \cup {NoKey}], bytes : [Slots -> Keys \cup {Junk}], lru : Seq(Slots)]
  BY DEF PoolOk
<1> QED BY <1>1 DEF PoolOk

(***************************************************************************)
(* The pager: one call of `ensure`                                         *)
(***************************************************************************)
Pools == [key : [Slots -> Keys \cup {NoKey}], bytes : [Slots -> Keys \cup {Junk}], lru : Seq(Slots)]
Calls == [pool : Pools, used : SUBSET Slots, claims : Seq(Slots), refused : BOOLEAN]

\* A call so far: it has changed the keys of its claims only, and no bytes.
CallOk(c) ==
  /\ c \in Calls /\ PoolOk(c.pool) /\ c.pool.bytes = bytes
  /\ IsInjective(c.claims) /\ ToSet(c.claims) \subseteq c.used
  /\ \A s \in Slots \ ToSet(c.claims) : c.pool.key[s] = slotKey[s]
  /\ \A s \in ToSet(c.claims) : c.pool.key[s] # NoKey

\* One id more: it is in a slot of the call's own afterwards, and what was there stays.
LEMMA ClassifyOk ==
  ASSUME NEW c, CallOk(c), NEW k \in Keys, NEW range, range \subseteq Slots, range # {}
  PROVE  /\ CallOk(Classify(c, k, range))
         /\ c.used \subseteq Classify(c, k, range).used
         /\ c.refused => Classify(c, k, range) = c
         /\ \A s \in c.used : Classify(c, k, range).pool.key[s] = c.pool.key[s]
         /\ ~ Classify(c, k, range).refused =>
              \E s \in Classify(c, k, range).used : Classify(c, k, range).pool.key[s] = k
         /\ (Resident(c.pool, k) /\ ~ c.refused) =>
              /\ Classify(c, k, range).pool.key = c.pool.key /\ ~ Classify(c, k, range).refused
              /\ Classify(c, k, range).claims = c.claims
<1> DEFINE d == Classify(c, k, range)
<1>0. /\ c = [pool |-> c.pool, used |-> c.used, claims |-> c.claims, refused |-> c.refused]
      /\ c.pool \in Pools /\ c.used \subseteq Slots /\ c.claims \in Seq(Slots) /\ c.refused \in BOOLEAN
      /\ PoolOk(c.pool)
  BY DEF CallOk, Calls
<1>1. CASE c.refused
  BY <1>1 DEF Classify
<1>2. CASE ~ c.refused /\ Resident(c.pool, k)
  <2> DEFINE s == SlotOf(c.pool, k)
             t == touch(c.pool, s)
  <2>1. s \in Slots /\ c.pool.key[s] = k
    BY <1>2, SlotFacts
  <2>2. PoolOk(t) /\ t.key = c.pool.key /\ t.bytes = c.pool.bytes
    BY <1>0, <2>1, KeyFacts, TouchOk
  <2>3. d = [c EXCEPT !.pool = t, !.used = c.used \cup {s}]
    BY <1>2 DEF Classify
  <2> HIDE DEF s, t, d
  <2>4. d = [pool |-> t, used |-> c.used \cup {s}, claims |-> c.claims, refused |-> c.refused]
    BY <1>0, <2>3
  <2>5. t \in Pools
    BY <2>2 DEF PoolOk, Pools
  <2>6. d \in Calls
    BY <1>0, <2>1, <2>4, <2>5 DEF Calls
  <2>7. CallOk(d)
    BY <2>1, <2>2, <2>4, <2>6 DEF CallOk
  <2> QED BY <1>2, <2>1, <2>2, <2>4, <2>7 DEF d
<1>3. CASE ~ c.refused /\ ~ Resident(c.pool, k) /\ Place(c.pool, range) \in c.used
  <2>1. d = [c EXCEPT !.refused = TRUE]
    BY <1>3 DEF Classify
  <2> HIDE DEF d
  <2>2. d = [pool |-> c.pool, used |-> c.used, claims |-> c.claims, refused |-> TRUE]
    BY <1>0, <2>1
  <2>3. CallOk(d)
    BY <1>0, <2>2 DEF CallOk, Calls
  <2> QED BY <1>3, <2>2, <2>3 DEF d
<1>4. CASE ~ c.refused /\ ~ Resident(c.pool, k) /\ Place(c.pool, range) \notin c.used
  <2> DEFINE s == Place(c.pool, range)
             p == claim(c.pool, k, s)
  <2>1. s \in Slots
    BY <1>0, PlaceOk
  <2>2. PoolOk(p) /\ p.bytes = c.pool.bytes /\ p.key = [c.pool.key EXCEPT ![s] = k]
    <3> HIDE DEF s
    <3> QED BY <1>0, <1>4, <2>1, ClaimOk, ZenonT(60)
  <2>3. d = [c EXCEPT !.pool = p, !.used = c.used \cup {s}, !.claims = Append(c.claims, s)]
    BY <1>4 DEF Classify
  <2>4. s \notin c.used
    BY <1>4
  <2> HIDE DEF s, p, d
  <2>5. d = [pool |-> p, used |-> c.used \cup {s}, claims |-> Append(c.claims, s), refused |-> c.refused]
    BY <1>0, <2>3
  <2>6. p \in Pools /\ c.pool.key \in [Slots -> Keys \cup {NoKey}]
    BY <1>0, <2>2 DEF PoolOk, Pools
  <2>7. /\ IsInjective(c.claims) /\ ToSet(c.claims) \subseteq c.used /\ c.pool.bytes = bytes
        /\ \A t \in Slots \ ToSet(c.claims) : c.pool.key[t] = slotKey[t]
        /\ \A t \in ToSet(c.claims) : c.pool.key[t] # NoKey
    BY DEF CallOk
  <2>8. /\ IsInjective(Append(c.claims, s)) /\ ToSet(Append(c.claims, s)) = ToSet(c.claims) \cup {s}
        /\ Append(c.claims, s) \in Seq(Slots)
    BY <1>0, <2>1, <2>4, <2>7, InjectiveAppend, ToSetAppend
  <2>9. d \in Calls
    BY <1>0, <2>1, <2>5, <2>6, <2>8 DEF Calls
  <2>10. \A t \in Slots \ ToSet(d.claims) : d.pool.key[t] = slotKey[t]
    BY <2>1, <2>2, <2>5, <2>6, <2>7, <2>8
  <2>13. \A t \in ToSet(d.claims) : d.pool.key[t] # NoKey
    <3>1. d.pool.key[s] = k /\ \A t \in Slots \ {s} : d.pool.key[t] = c.pool.key[t]
      BY <2>1, <2>2, <2>5, <2>6
    <3>2. ToSet(d.claims) = ToSet(c.claims) \cup {s} /\ ToSet(c.claims) \subseteq Slots
      BY <1>0, <2>5, <2>7, <2>8
    <3> QED BY <2>7, <3>1, <3>2, KeyFacts
  <2>11. CallOk(d)
    BY <2>2, <2>5, <2>7, <2>8, <2>9, <2>10, <2>13 DEF CallOk
  <2>12. s \in d.used /\ d.pool.key[s] = k /\ \A t \in c.used : d.pool.key[t] = c.pool.key[t]
    BY <1>0, <2>1, <2>2, <2>4, <2>5, <2>6
  <2> QED BY <1>4, <2>5, <2>11, <2>12 DEF d
<1> QED BY <1>1, <1>2, <1>3, <1>4

\* What a call is that has classified all its ids: unless it was refused, each is
\* in a slot; and when all were resident it has changed the order only.
ClassifiedAs(c, layer, order) ==
  /\ CallOk(c)
  /\ ~ c.refused => \A j \in 1 .. Len(order) : Resident(c.pool, <<layer, order[j]>>)
  /\ (\A j \in 1 .. Len(order) : Resident(Pool, <<layer, order[j]>>)) =>
       ~ c.refused /\ c.claims = <<>> /\ c.pool.key = slotKey

LEMMA ClassifiedOk ==
  ASSUME PoolOk(Pool), NEW layer \in Layers, NEW order \in Seq(Ids),
         NEW range, range \subseteq Slots, order # <<>> => range # {}
  PROVE  ClassifiedAs(Classified(layer, order, range), layer, order)
<1> DEFINE n == Len(order)
           V == {c \in Calls : CallOk(c)}
           first == [pool |-> Pool, used |-> {}, claims |-> <<>>, refused |-> FALSE]
           key(j) == <<layer, order[j]>>
           step == [i \in 1 .. n |-> [v \in V |-> Classify(v, key(i), range)]]
           e(f, j) == IF j = 0 THEN first ELSE Classify(f[j - 1], key(j), range)
           Eq(f) == f = [j \in 0 .. n |-> e(f, j)]
<1>1. n \in Nat /\ \A j \in 1 .. n : key(j) \in Keys
  BY DEF Keys
<1>2. first \in V
  <2>1. Pool \in Pools /\ first \in Calls
    BY EmptyFacts DEF PoolOk, Pools, Calls
  <2>2. first.pool.bytes = bytes /\ first.pool.key = slotKey
    BY DEF Pool
  <2> QED BY <2>1, <2>2, EmptyFacts DEF CallOk
<1>3. \A i \in 1 .. n : \A v \in V : Classify(v, key(i), range) \in V
  <2> SUFFICES ASSUME NEW i \in 1 .. n, NEW v \in V PROVE Classify(v, key(i), range) \in V
    OBVIOUS
  <2>1. CallOk(Classify(v, key(i), range))
    <3>1. range # {}
      OBVIOUS
    <3> HIDE DEF key
    <3> QED BY <1>1, <3>1, ClassifyOk
  <2> QED BY <2>1 DEF CallOk
<1>4. \E g \in [0 .. n -> V] : UpTo(g, n, first, step)
  <2>1. \A i \in 1 .. n : \A v \in V : step[i][v] \in V
    <3> HIDE DEF V, key, n
    <3> QED BY <1>3
  <2> HIDE DEF step, V, first, n
  <2> QED BY <1>1, <1>2, <2>1, Recursion
<1>5. PICK g \in [0 .. n -> V] : UpTo(g, n, first, step)
  BY <1>4
<1>6. Eq(g)
  <2>1. ASSUME NEW j \in 0 .. n
        PROVE  g[j] = e(g, j)
    <3>1. g[j] = IF j = 0 THEN first ELSE step[j][g[j - 1]]
      <4> HIDE DEF step, first
      <4> QED BY <1>5 DEF UpTo
    <3>2. CASE j = 0
      BY <3>1, <3>2
    <3>3. CASE j # 0
      <4>1. j \in 1 .. n /\ g[j - 1] \in V
        <5> HIDE DEF V, step, first, n
        <5>1. j \in 1 .. n /\ j - 1 \in 0 .. n
          BY <1>1, <3>3
        <5> QED BY <1>5, <5>1
      <4>2. step[j][g[j - 1]] = Classify(g[j - 1], key(j), range)
        <5> HIDE DEF V, key
        <5> QED BY <4>1
      <4> QED BY <3>1, <3>3, <4>2
    <3> QED BY <3>2, <3>3
  <2> HIDE DEF e, V
  <2> QED BY <1>5, <2>1
<1> DEFINE it == CHOOSE f : Eq(f)
<1>7. Eq(it)
  <2> HIDE DEF Eq
  <2> QED BY <1>6
<1>8. Classified(layer, order, range) = it[n]
  BY DEF Classified
<1> HIDE DEF it
<1>9. \A j \in 0 .. n : it[j] = e(it, j)
  <2> HIDE DEF e
  <2> QED BY <1>7
<1>10. it[0] = first /\ \A j \in Nat : j + 1 <= n => it[j + 1] = Classify(it[j], key(j + 1), range)
  <2>1. 0 \in 0 .. n /\ \A j \in Nat : j + 1 <= n => j + 1 \in 0 .. n /\ j + 1 # 0 /\ (j + 1) - 1 = j
    BY <1>1
  <2> HIDE DEF first, key
  <2> QED BY <1>9, <2>1
<1> DEFINE In(j) ==
             /\ CallOk(it[j])
             /\ ~ it[j].refused => \A i \in 1 .. j : \E s \in it[j].used : it[j].pool.key[s] = key(i)
             /\ (\A i \in 1 .. n : Resident(Pool, key(i))) =>
                  ~ it[j].refused /\ it[j].claims = <<>> /\ it[j].pool.key = slotKey
           T == {j \in Nat : j <= n => In(j)}
<1>11. 0 \in T
  BY <1>2, <1>10 DEF Pool
<1> HIDE DEF In
<1>12. ASSUME NEW j \in Nat, j \in T PROVE j + 1 \in T
  <2> SUFFICES ASSUME j + 1 <= n PROVE In(j + 1)
    OBVIOUS
  <2>1. In(j) /\ key(j + 1) \in Keys /\ j + 1 \in 1 .. n
    <3>1. n \in Nat /\ (\A i \in 1 .. n : key(i) \in Keys) /\ In(j)
      <4> HIDE DEF n, key
      <4> QED BY <1>1, <1>12
    <3> HIDE DEF n, key
    <3> QED BY <3>1
  <2> USE DEF In
  <2> DEFINE c == it[j]
             k == key(j + 1)
             d == it[j + 1]
  <2>2. d = Classify(c, k, range)
    BY <1>10
  <2> HIDE DEF c, d, k
  <2>3. /\ CallOk(d) /\ c.used \subseteq d.used /\ (c.refused => d = c)
        /\ \A s \in c.used : d.pool.key[s] = c.pool.key[s]
        /\ ~ d.refused => \E s \in d.used : d.pool.key[s] = k
        /\ (Resident(c.pool, k) /\ ~ c.refused) =>
             d.pool.key = c.pool.key /\ ~ d.refused /\ d.claims = c.claims
    <3>1. CallOk(c) /\ k \in Keys /\ range # {}
      BY <2>1 DEF c, k
    <3> QED BY <2>2, <3>1, ClassifyOk
  <2>4. ~ d.refused => \A i \in 1 .. j + 1 : \E s \in d.used : d.pool.key[s] = key(i)
    <3> SUFFICES ASSUME ~ d.refused, NEW i \in 1 .. j + 1
                 PROVE  \E s \in d.used : d.pool.key[s] = key(i)
      OBVIOUS
    <3>1. CASE i = j + 1
      BY <2>3, <3>1 DEF k
    <3>2. CASE i # j + 1
      <4>1. i \in 1 .. j /\ ~ c.refused
        BY <2>3, <3>2
      <4>2. PICK s \in c.used : c.pool.key[s] = key(i)
        <5> HIDE DEF key
        <5> QED BY <2>1, <4>1 DEF c
      <4> HIDE DEF key
      <4> QED BY <2>3, <4>2
    <3> QED BY <3>1, <3>2
  <2>5. (\A i \in 1 .. n : Resident(Pool, key(i))) =>
          ~ d.refused /\ d.claims = <<>> /\ d.pool.key = slotKey
    <3> SUFFICES ASSUME \A i \in 1 .. n : Resident(Pool, key(i))
                 PROVE  ~ d.refused /\ d.claims = <<>> /\ d.pool.key = slotKey
      OBVIOUS
    <3>1. ~ c.refused /\ c.claims = <<>> /\ c.pool.key = slotKey
      BY <2>1 DEF c
    <3>2. Resident(c.pool, k)
      <4>1. Resident(Pool, k) /\ Pool.key = slotKey
        BY <2>1 DEF k, Pool
      <4> QED BY <3>1, <4>1 DEF Resident, SlotsOf
    <3> QED BY <2>3, <3>1, <3>2
  <2> QED BY <2>3, <2>4, <2>5 DEF d
<1>13. \A j \in Nat : j \in T
  <2> HIDE DEF T
  <2> QED BY <1>11, <1>12, NatInduct
<1>14. In(n)
  <2>1. n \in T
    <3> HIDE DEF T, n
    <3> QED BY <1>1, <1>13
  <2> HIDE DEF n
  <2> QED BY <1>1, <2>1
<1> USE DEF In
<1>15. ASSUME ~ it[n].refused, NEW j \in 1 .. n PROVE Resident(it[n].pool, key(j))
  <2>1. PICK s \in it[n].used : it[n].pool.key[s] = key(j)
    BY <1>14, <1>15
  <2>2. s \in Slots
    BY <1>14 DEF CallOk, Calls
  <2> QED BY <2>1, <2>2 DEF Resident, SlotsOf
<1> QED BY <1>8, <1>14, <1>15 DEF ClassifiedAs

LEMMA BoundsOk ==
  ASSUME NEW ids \in SUBSET Ids
  PROVE  alloc_bounds(ids) \subseteq Slots /\ (ids # {} => alloc_bounds(ids) # {})
<1> DEFINE n == Cardinality(ids)
           scan == Max({Scan, n})
<1>1. IsFiniteSet(ids)
  BY Numbers, FS_Subset
<1>2. n \in Nat /\ (ids # {} => n # 0)
  BY <1>1, FS_CardinalityType, FS_EmptySet
<1>3. scan \in Nat /\ scan >= n
  <2> HIDE DEF n
  <2>1. PICK x \in {Scan, n} : \A y \in {Scan, n} : x >= y
    BY <1>2, Numbers
  <2>2. scan \in {Scan, n} /\ \A y \in {Scan, n} : scan >= y
    BY <2>1 DEF Max
  <2> QED BY <1>2, <2>2, Numbers
<1>4. alloc_bounds(ids) = IF unit = "prefill" /\ scan < NSlots THEN NSlots - scan + 1 .. NSlots ELSE Slots
  BY DEF alloc_bounds
<1> HIDE DEF n, scan
<1>5. scan < NSlots => NSlots - scan + 1 .. NSlots \subseteq 1 .. NSlots /\ (ids # {} => NSlots \in NSlots - scan + 1 .. NSlots)
  BY <1>2, <1>3, Numbers
<1> QED BY <1>4, <1>5, Numbers DEF Slots

\* What the uploads of a call leave.
LEMMA UploadedOk ==
  ASSUME NEW p, PoolOk(p), NEW claims \in Seq(Slots), \A s \in ToSet(claims) : p.key[s] # NoKey,
         NEW landed \in 0 .. Len(claims), NEW torn \in BOOLEAN
  PROVE  /\ PoolOk(Uploaded(p, claims, landed, torn))
         /\ Uploaded(p, claims, landed, torn).key = p.key
         /\ \A s \in Slots : (\E j \in 1 .. landed : claims[j] = s)
              => Uploaded(p, claims, landed, torn).bytes[s] = p.key[s]
         /\ \A s \in Slots : s \notin ToSet(claims)
              => Uploaded(p, claims, landed, torn).bytes[s] = p.bytes[s]
<1> DEFINE b == [s \in Slots |->
     IF \E j \in 1 .. landed : claims[j] = s THEN p.key[s]
     ELSE IF torn /\ landed < Len(claims) /\ claims[landed + 1] = s THEN Junk
     ELSE p.bytes[s]]
<1>1. \A j \in 1 .. landed : claims[j] \in ToSet(claims)
  BY DEF ToSet
<1>2. landed < Len(claims) => claims[landed + 1] \in ToSet(claims)
  BY DEF ToSet
<1>3. p.key \in [Slots -> Keys \cup {NoKey}] /\ p.bytes \in [Slots -> Keys \cup {Junk}]
  BY DEF PoolOk
<1>4. b \in [Slots -> Keys \cup {Junk}]
  BY <1>1, <1>3
<1>5. \A s \in Slots : (\E j \in 1 .. landed : claims[j] = s) => b[s] = p.key[s]
  OBVIOUS
<1>6. \A s \in Slots : s \notin ToSet(claims) => b[s] = p.bytes[s]
  BY <1>1, <1>2
<1>7. Uploaded(p, claims, landed, torn) = [p EXCEPT !.bytes = b]
  BY DEF Uploaded
<1> HIDE DEF b
<1> QED BY <1>4, <1>5, <1>6, <1>7, BytesOk

\* ... when all of them land, and when one fails.
LEMMA EnsureOk ==
  ASSUME NEW c, CallOk(c), Landed(Pool)
  PROVE  /\ PoolOk(Uploaded(c.pool, c.claims, Len(c.claims), FALSE))
         /\ Landed(Uploaded(c.pool, c.claims, Len(c.claims), FALSE))
         /\ Uploaded(c.pool, c.claims, Len(c.claims), FALSE).key = c.pool.key
<1> DEFINE n == Len(c.claims)
           u == Uploaded(c.pool, c.claims, n, FALSE)
<1>1. /\ c.claims \in Seq(Slots) /\ PoolOk(c.pool) /\ c.pool.bytes = bytes
      /\ \A s \in ToSet(c.claims) : c.pool.key[s] # NoKey
      /\ \A s \in Slots \ ToSet(c.claims) : c.pool.key[s] = slotKey[s]
  BY DEF CallOk, Calls
<1>2. n \in 0 .. Len(c.claims) /\ DOMAIN c.claims = 1 .. n
  BY <1>1
<1>3. /\ PoolOk(u) /\ u.key = c.pool.key
      /\ \A s \in Slots : (\E j \in 1 .. n : c.claims[j] = s) => u.bytes[s] = c.pool.key[s]
      /\ \A s \in Slots : s \notin ToSet(c.claims) => u.bytes[s] = c.pool.bytes[s]
  BY <1>1, <1>2, UploadedOk
<1> HIDE DEF u
<1>4. ASSUME NEW s \in Slots PROVE u.key[s] \in {NoKey, u.bytes[s]}
  <2>1. CASE s \in ToSet(c.claims)
    <3>1. \E j \in 1 .. n : c.claims[j] = s
      BY <1>2, <2>1 DEF ToSet
    <3> QED BY <1>3, <3>1
  <2>2. CASE s \notin ToSet(c.claims)
    BY <1>1, <1>3, <2>2 DEF Landed, Pool
  <2> QED BY <2>1, <2>2
<1> QED BY <1>3, <1>4 DEF Landed, u

LEMMA EnsureFailsOk ==
  ASSUME NEW c, CallOk(c), Landed(Pool), NEW landed \in 0 .. Len(c.claims), NEW torn \in BOOLEAN
  PROVE  LET q == release_unlanded(Uploaded(c.pool, c.claims, landed, torn), c.claims, landed)
         IN PoolOk(q) /\ Landed(q)
<1> DEFINE n == Len(c.claims)
           u == Uploaded(c.pool, c.claims, landed, torn)
           gone == {c.claims[j] : j \in landed + 1 .. n}
           q == release(u, gone)
<1>1. /\ c.claims \in Seq(Slots) /\ PoolOk(c.pool) /\ c.pool.bytes = bytes
      /\ \A s \in ToSet(c.claims) : c.pool.key[s] # NoKey
      /\ \A s \in Slots \ ToSet(c.claims) : c.pool.key[s] = slotKey[s]
  BY DEF CallOk, Calls
<1>2. /\ PoolOk(u) /\ u.key = c.pool.key
      /\ \A s \in Slots : (\E j \in 1 .. landed : c.claims[j] = s) => u.bytes[s] = c.pool.key[s]
      /\ \A s \in Slots : s \notin ToSet(c.claims) => u.bytes[s] = c.pool.bytes[s]
  BY <1>1, UploadedOk, SMTT(30)
<1>3. release_unlanded(u, c.claims, landed) = q
  BY DEF release_unlanded
<1>4. \A s \in ToSet(c.claims) : s \in gone \/ \E j \in 1 .. landed : c.claims[j] = s
  <2>1. \A j \in 1 .. n : j \in 1 .. landed \/ j \in landed + 1 .. n
    BY <1>1
  <2>2. DOMAIN c.claims = 1 .. n
    BY <1>1
  <2> QED BY <2>1, <2>2 DEF ToSet
<1> HIDE DEF u, gone
<1>5. /\ PoolOk(q) /\ q.bytes = u.bytes
      /\ \A s \in Slots : q.key[s] = IF s \in gone THEN NoKey ELSE u.key[s]
  BY <1>2, ReleaseOk
<1> HIDE DEF q
<1>6. ASSUME NEW s \in Slots PROVE q.key[s] \in {NoKey, q.bytes[s]}
  <2>1. CASE s \in gone
    BY <1>5, <2>1
  <2>2. CASE s \notin gone /\ s \in ToSet(c.claims)
    BY <1>2, <1>4, <1>5, <2>2
  <2>3. CASE s \notin gone /\ s \notin ToSet(c.claims)
    <3>1. q.key[s] = slotKey[s] /\ q.bytes[s] = bytes[s]
      BY <1>1, <1>2, <1>5, <2>3
    <3> QED BY <3>1 DEF Landed, Pool
  <2> QED BY <2>1, <2>2, <2>3
<1> QED BY <1>3, <1>5, <1>6 DEF Landed, u

(***************************************************************************)
(* The pager: admissions                                                   *)
(***************************************************************************)
Reads == [key : Keys, ok : BOOLEAN]

LEMMA AdmitOk ==
  ASSUME NEW p, PoolOk(p), Landed(p), NEW r \in Reads
  PROVE  /\ PoolOk(Admit(p, r)) /\ Landed(Admit(p, r))
         /\ PoolOk(AdmitFails(p, r)) /\ Landed(AdmitFails(p, r))
<1> DEFINE s == Place(p, Slots)
           k == r.key
<1>1. s \in Slots /\ k \in Keys
  BY Numbers, PlaceOk DEF Reads
<1> HIDE DEF s
<1>2. ASSUME NEW q, PoolOk(q), NEW b \in Keys \cup {Junk}
      PROVE  /\ PoolOk([q EXCEPT !.bytes[s] = b]) /\ [q EXCEPT !.bytes[s] = b].key = q.key
             /\ [q EXCEPT !.bytes[s] = b].bytes = [q.bytes EXCEPT ![s] = b]
  <2>1. q.bytes \in [Slots -> Keys \cup {Junk}]
    BY <1>2 DEF PoolOk
  <2>2. [q.bytes EXCEPT ![s] = b] \in [Slots -> Keys \cup {Junk}]
    BY <1>1, <2>1
  <2> DEFINE f == [q.bytes EXCEPT ![s] = b]
  <2>3. [q EXCEPT !.bytes[s] = b] = [q EXCEPT !.bytes = f]
    OBVIOUS
  <2> HIDE DEF f
  <2>4. f \in [Slots -> Keys \cup {Junk}]
    BY <2>2 DEF f
  <2>5. PoolOk([q EXCEPT !.bytes = f]) /\ [q EXCEPT !.bytes = f].key = q.key /\ [q EXCEPT !.bytes = f].bytes = f
    BY <1>2, <2>4, BytesOk
  <2> QED BY <2>3, <2>5 DEF f
<1>3. PoolOk(AdmitFails(p, r)) /\ Landed(AdmitFails(p, r))
  <2> DEFINE q == release(p, {s})
             a == [q EXCEPT !.bytes[s] = Junk]
  <2>1. /\ PoolOk(q) /\ q.bytes = p.bytes
        /\ \A t \in Slots : q.key[t] = IF t \in {s} THEN NoKey ELSE p.key[t]
    BY ReleaseOk
  <2>2. AdmitFails(p, r) = a
    BY DEF AdmitFails, s
  <2> HIDE DEF q
  <2>3. PoolOk(a) /\ a.key = q.key /\ a.bytes = [q.bytes EXCEPT ![s] = Junk]
    BY <1>1, <1>2, <2>1
  <2> HIDE DEF a
  <2>4. p.bytes \in [Slots -> Keys \cup {Junk}]
    BY DEF PoolOk
  <2>5. Landed(a)
    BY <1>1, <2>1, <2>3, <2>4 DEF Landed
  <2> QED BY <2>2, <2>3, <2>5
<1>4. CASE ~ Skipped(p, r)
  <2> DEFINE q == claim(p, k, s)
             a == [q EXCEPT !.bytes[s] = k]
  <2>1. PoolOk(q) /\ q.bytes = p.bytes /\ q.key = [p.key EXCEPT ![s] = k]
    BY <1>1, <1>4, ClaimOk DEF Skipped
  <2>2. Admit(p, r) = a
    BY <1>4 DEF Admit, s
  <2> HIDE DEF q
  <2>3. PoolOk(a) /\ a.key = q.key /\ a.bytes = [q.bytes EXCEPT ![s] = k]
    BY <1>1, <1>2, <2>1
  <2> HIDE DEF a
  <2>4. p.key \in [Slots -> Keys \cup {NoKey}] /\ p.bytes \in [Slots -> Keys \cup {Junk}]
    BY DEF PoolOk
  <2>5. Landed(a)
    BY <1>1, <2>1, <2>3, <2>4 DEF Landed
  <2> QED BY <1>3, <2>2, <2>3, <2>5
<1>5. CASE Skipped(p, r)
  <2>1. Admit(p, r) = p
    BY <1>5 DEF Admit
  <2> QED BY <1>3, <2>1
<1> QED BY <1>4, <1>5

LEMMA TakenFacts ==
  ASSUME read \in Seq(Reads)
  PROVE  /\ Len(Taken) \in 0 .. Len(read) /\ Taken \in Seq(Reads)
         /\ \A j \in 1 .. Len(Taken) : Taken[j] = read[j]
<1> DEFINE m == Min({MaxAdmit, Len(read)})
<1>1. m \in 0 .. Len(read)
  <2>1. PICK x \in {MaxAdmit, Len(read)} : \A y \in {MaxAdmit, Len(read)} : x <= y
    BY Numbers
  <2>2. m \in {MaxAdmit, Len(read)} /\ \A y \in {MaxAdmit, Len(read)} : m <= y
    BY <2>1 DEF Min
  <2> HIDE DEF m
  <2> QED BY <2>2, Numbers
<1>2. Taken = SubSeq(read, 1, m)
  BY DEF Taken
<1> HIDE DEF m
<1>3. Len(Taken) = m /\ Taken \in Seq(Reads) /\ \A j \in 1 .. m : Taken[j] = read[j]
  BY <1>1, <1>2
<1> QED BY <1>1, <1>3

LEMMA DrainedOk ==
  ASSUME read \in Seq(Reads), PoolOk(Pool), Landed(Pool), NEW n \in 0 .. Len(Taken)
  PROVE  PoolOk(Drained(n)) /\ Landed(Drained(n))
<1> DEFINE V == {p \in Pools : PoolOk(p) /\ Landed(p)}
           step == [i \in 1 .. n |-> [v \in V |-> Admit(v, Taken[i])]]
           e(f, j) == IF j = 0 THEN Pool ELSE Admit(f[j - 1], Taken[j])
           Eq(f) == f = [j \in 0 .. n |-> e(f, j)]
<1>1. Pool \in V /\ n \in Nat
  BY DEF PoolOk, Pools
<1>2. \A i \in 1 .. n : \A v \in V : Admit(v, Taken[i]) \in V
  <2> SUFFICES ASSUME NEW i \in 1 .. n, NEW v \in V PROVE Admit(v, Taken[i]) \in V
    OBVIOUS
  <2>1. Taken[i] \in Reads
    <3>1. i \in 1 .. Len(Taken) /\ Taken \in Seq(Reads)
      BY TakenFacts
    <3> QED BY <3>1
  <2>2. PoolOk(Admit(v, Taken[i])) /\ Landed(Admit(v, Taken[i]))
    BY <2>1, AdmitOk
  <2> QED BY <2>2 DEF PoolOk, Pools
<1>3. \E g \in [0 .. n -> V] : UpTo(g, n, Pool, step)
  <2>1. \A i \in 1 .. n : \A v \in V : step[i][v] \in V
    <3> HIDE DEF V
    <3> QED BY <1>2
  <2> HIDE DEF step, V
  <2> QED BY <1>1, <2>1, Recursion
<1>4. PICK g \in [0 .. n -> V] : UpTo(g, n, Pool, step)
  BY <1>3
<1>5. Eq(g)
  <2>1. ASSUME NEW j \in 0 .. n
        PROVE  g[j] = e(g, j)
    <3>1. g[j] = IF j = 0 THEN Pool ELSE step[j][g[j - 1]]
      <4> HIDE DEF step
      <4> QED BY <1>4 DEF UpTo
    <3>2. CASE j = 0
      BY <3>1, <3>2
    <3>3. CASE j # 0
      <4>1. j \in 1 .. n /\ g[j - 1] \in V
        <5> HIDE DEF V
        <5> QED BY <1>1, <1>4, <3>3
      <4>2. step[j][g[j - 1]] = Admit(g[j - 1], Taken[j])
        <5> HIDE DEF V
        <5> QED BY <4>1
      <4> QED BY <3>1, <3>3, <4>2
    <3> QED BY <3>2, <3>3
  <2> HIDE DEF e, V
  <2> QED BY <1>4, <2>1
<1> DEFINE it == CHOOSE f : Eq(f)
<1>6. Eq(it)
  <2> HIDE DEF Eq
  <2> QED BY <1>5
<1>7. Drained(n) = it[n]
  BY DEF Drained
<1> HIDE DEF it
<1>8. \A j \in 0 .. n : it[j] = e(it, j)
  <2> HIDE DEF e
  <2> QED BY <1>6
<1>9. it[0] = Pool /\ \A j \in Nat : j + 1 <= n => it[j + 1] = Admit(it[j], Taken[j + 1])
  <2>1. 0 \in 0 .. n /\ \A j \in Nat : j + 1 <= n => j + 1 \in 0 .. n /\ j + 1 # 0 /\ (j + 1) - 1 = j
    BY <1>1
  <2> QED BY <1>8, <2>1
<1> DEFINE T == {j \in Nat : j <= n => it[j] \in V}
<1>10. 0 \in T
  BY <1>1, <1>9
<1>11. \A j \in Nat : j \in T => j + 1 \in T
  <2> SUFFICES ASSUME NEW j \in Nat, it[j] \in V, j + 1 <= n PROVE it[j + 1] \in V
    <3> HIDE DEF V
    <3> QED BY <1>1
  <2>1. j + 1 \in 1 .. n
    BY <1>1
  <2> HIDE DEF V
  <2> QED BY <1>2, <1>9, <2>1
<1>12. \A j \in Nat : j \in T
  <2> HIDE DEF T
  <2> QED BY <1>10, <1>11, NatInduct
<1>13. it[n] \in V
  <2> HIDE DEF V
  <2> QED BY <1>1, <1>12
<1> QED BY <1>7, <1>13

(***************************************************************************)
(* The pager: the inductive invariant                                      *)
(***************************************************************************)
Stages == 1 .. NStages
Tables == UNION {[ids -> Slots] : ids \in SUBSET Ids}
Copies == [op : {"copy"}, layer : Layers, stage : Stages]
Moes == [op : {"moe"}, layer : Layers, lane : Lanes, ids : SUBSET Ids, live : BOOLEAN]
LaneStates ==
  {i \in [layer : 0 .. NLayers, at : {"off", "launched", "routed", "prepped"}, ids : SUBSET Ids] :
     i.at \in {"routed", "prepped"} => i.layer \in Layers}

\* Types: and no key twice in the pool, the eviction order lists the occupied
\* slots, and what an occupied slot is said to hold has landed in it.
PoolInv == PoolOk(Pool) /\ Landed(Pool)
ShapeInv ==
  /\ remapDev \in [Layers -> Tables] /\ stage \in [Stages -> Tables] /\ nextStage \in Stages
  /\ queue \in Seq(Copies \cup Moes) /\ lanes \in [Lanes -> LaneStates]
  /\ unit \in {"none", "decode", "prefill"} /\ units \in Nat /\ faults \in Nat
ReadInv == stack \in Seq(Keys) /\ read \in Seq(Reads) /\ pending \in SUBSET Keys

\* What is asked for is asked for once, and within the bound.
AskedInv ==
  /\ IsInjective(stack)
  /\ \A i, j \in DOMAIN read : read[i].key = read[j].key => i = j
  /\ \A j \in DOMAIN read : read[j].key \notin ToSet(stack) /\ read[j].key \in pending
  /\ ToSet(stack) \subseteq pending
  /\ Cardinality(pending) <= InflightMax

LiveAt(j) == queue[j].op = "moe" /\ queue[j].live

\* Between units nothing that somebody waits for is queued.
UnitInv ==
  unit = "none" => (\A i \in Lanes : lanes[i] = Off) /\ \A j \in DOMAIN queue : ~ LiveAt(j)

\* The table that a MoE queued at place j will find: the one its layer has, or
\* the one the copy before it brings.
Right(table, l, ids) ==
  \A id \in ids : id \in DOMAIN table /\ table[id] \in Slots /\ slotKey[table[id]] = <<l, id>>
Serves(j, l, ids) ==
  IF j = 1 THEN Right(remapDev[l], l, ids)
  ELSE queue[j - 1].op = "copy" /\ queue[j - 1].layer = l /\ Right(stage[queue[j - 1].stage], l, ids)

\* Every MoE somebody waits for will find its own table; so will that of the
\* lane that is between prep and launch, of which there is one at most.
TableInv ==
  /\ \A j \in DOMAIN queue : LiveAt(j) => Serves(j, queue[j].layer, queue[j].ids)
  /\ \A i \in Lanes : lanes[i].at = "prepped" =>
       /\ Serves(Len(queue) + 1, lanes[i].layer, lanes[i].ids)
       /\ \A k \in Lanes : lanes[k].at = "prepped" => k = i

PagerTypeInv == PoolInv /\ ShapeInv /\ ReadInv
PagerInv == PagerTypeInv /\ AskedInv /\ UnitInv /\ TableInv

LEMMA PoolBy ==
  ASSUME NEW p, PoolOk(p), Landed(p), SetPool(p)
  PROVE  PoolInv' /\ Pool' = p
<1>1. p = [key |-> p.key, bytes |-> p.bytes, lru |-> p.lru]
  BY DEF PoolOk
<1>2. Pool' = p
  BY <1>1 DEF Pool, SetPool
<1>3. PoolOk(p) /\ Landed(p)
  OBVIOUS
<1> QED BY <1>2, <1>3 DEF PoolInv, PoolOk, Landed

LEMMA PoolSame ==
  ASSUME PoolInv, UNCHANGED poolVars
  PROVE  PoolInv'
BY DEF PoolInv, PoolOk, Landed, Pool, poolVars

LEMMA InitInv == PagerInit => PagerInv
<1> SUFFICES ASSUME PagerInit PROVE PagerInv
  OBVIOUS
<1> USE DEF PagerInit
<1>1. PoolInv
  <2>1. Pool \in [key : [Slots -> Keys \cup {NoKey}], bytes : [Slots -> Keys \cup {Junk}], lru : Seq(Slots)]
    BY EmptyFacts DEF Pool
  <2>2. Pool.lru = <<>> /\ Pool.key = [s \in Slots |-> NoKey]
    BY DEF Pool
  <2> QED BY <2>1, <2>2, EmptyFacts DEF PoolInv, PoolOk, Landed
<1>2. ShapeInv
  <2>1. NoTable \in Tables
    BY DEF NoTable, Tables
  <2>2. Off \in LaneStates
    BY Numbers DEF Off, LaneStates
  <2>3. 1 \in Stages
    BY Numbers DEF Stages
  <2> QED BY <2>1, <2>2, <2>3, EmptyFacts DEF ShapeInv, Stages
<1>3. ReadInv
  BY EmptyFacts DEF ReadInv
<1>4. AskedInv
  <2>1. Cardinality(pending) = 0
    BY FS_EmptySet
  <2> QED BY <2>1, EmptyFacts, Numbers DEF AskedInv
<1>5. UnitInv /\ TableInv
  BY DEF UnitInv, TableInv, Off
<1> QED BY <1>1, <1>2, <1>3, <1>4, <1>5 DEF PagerInv, PagerTypeInv

(***************************************************************************)
(* The pager: what is asked for                                            *)
(***************************************************************************)
LEMMA PendingFinite ==
  ASSUME pending \in SUBSET Keys
  PROVE  IsFiniteSet(pending) /\ Cardinality(pending) \in Nat
<1>1. IsFiniteSet(Layers)
  BY Numbers, FS_Interval DEF Layers
<1>2. IsFiniteSet(Keys)
  BY <1>1, Numbers, FS_Product DEF Keys
<1> QED BY <1>2, FS_Subset, FS_CardinalityType

LEMMA HintOk ==
  ASSUME ReadInv, AskedInv, MayQueue, NEW k \in Wanted, Hint(k), UNCHANGED read
  PROVE  ReadInv' /\ AskedInv'
<1>1. k \in Keys /\ k \notin pending /\ stack' = Append(stack, k) /\ pending' = pending \cup {k}
  BY DEF Wanted, Hint
<1>2. k \notin ToSet(stack)
  BY <1>1 DEF AskedInv
<1>3. /\ IsInjective(stack') /\ ToSet(stack') = ToSet(stack) \cup {k} /\ stack' \in Seq(Keys)
  BY <1>1, <1>2, InjectiveAppend, ToSetAppend DEF ReadInv, AskedInv
<1>4. Cardinality(pending') <= InflightMax
  <2>1. Cardinality(pending') = Cardinality(pending) + 1
    BY <1>1, PendingFinite, FS_AddElement DEF ReadInv
  <2> QED BY <2>1, PendingFinite, Numbers DEF MayQueue, ReadInv
<1> QED BY <1>1, <1>3, <1>4 DEF ReadInv, AskedInv

LEMMA ReadOk ==
  ASSUME ReadInv, AskedInv, stack # <<>>, stack' = Front(stack), NEW ok \in BOOLEAN,
         read' = Append(read, [key |-> Last(stack), ok |-> ok]), UNCHANGED pending
  PROVE  ReadInv' /\ AskedInv'
<1> DEFINE n == Len(stack)
           k == Last(stack)
           m == Len(read)
<1>1. /\ n \in Nat \ {0} /\ m \in Nat /\ k = stack[n] /\ k \in Keys
      /\ DOMAIN stack = 1 .. n /\ DOMAIN read = 1 .. m
  BY DEF ReadInv, Last
<1>2. stack' \in Seq(Keys) /\ Len(stack') = n - 1 /\ \A i \in 1 .. n - 1 : stack'[i] = stack[i]
  BY <1>1 DEF ReadInv, Front
<1>3. DOMAIN stack' = 1 .. n - 1
  BY <1>2
<1>4. /\ read' \in Seq(Reads) /\ Len(read') = m + 1 /\ read'[m + 1].key = k
      /\ \A j \in 1 .. m : read'[j] = read[j]
  BY <1>1 DEF ReadInv, Reads
<1>5. DOMAIN read' = 1 .. m + 1
  BY <1>4
<1> HIDE DEF n, k, m
<1>6. IsInjective(stack') /\ ToSet(stack') \subseteq ToSet(stack) /\ k \notin ToSet(stack') /\ k \in ToSet(stack)
  <2>1. \A i \in 1 .. n - 1 : i \in 1 .. n /\ i # n
    BY <1>1
  <2>2. n \in 1 .. n
    BY <1>1
  <2>3. \A i, j \in 1 .. n : stack[i] = stack[j] => i = j
    BY <1>1 DEF AskedInv, IsInjective
  <2> QED BY <1>1, <1>2, <1>3, <2>1, <2>2, <2>3, SMTT(30) DEF IsInjective, ToSet
<1>7. \A j \in 1 .. m : read[j].key # k
  BY <1>1, <1>6 DEF AskedInv
<1>8. \A j \in 1 .. m + 1 : j \in 1 .. m \/ j = m + 1
  BY <1>1
<1>9. \A i, j \in DOMAIN read' : read'[i].key = read'[j].key => i = j
  BY <1>1, <1>4, <1>5, <1>7, <1>8 DEF AskedInv
<1>10. \A j \in DOMAIN read' : read'[j].key \notin ToSet(stack') /\ read'[j].key \in pending'
  BY <1>1, <1>4, <1>5, <1>6, <1>8 DEF AskedInv
<1> QED BY <1>2, <1>4, <1>6, <1>9, <1>10 DEF AskedInv, ReadInv

\* The reads leave the channel, and `pending` loses those of the first n.
LEMMA DrainAsked ==
  ASSUME ReadInv, AskedInv, NEW n \in 0 .. Len(Taken), NEW p, drain_prefetched(n, p)
  PROVE  ReadInv' /\ AskedInv'
<1> DEFINE m == Len(Taken)
           gone == KeysOf(SubSeq(Taken, 1, n))
           len == Len(read)
<1>1. /\ m \in 0 .. len /\ len \in Nat /\ Taken \in Seq(Reads) /\ DOMAIN read = 1 .. len
      /\ \A j \in 1 .. m : Taken[j] = read[j]
  BY TakenFacts DEF ReadInv
<1>2. read' = SubSeq(read, m + 1, len) /\ pending' = pending \ gone /\ stack' = stack
  BY DEF drain_prefetched
<1>3. /\ read' \in Seq(Reads) /\ DOMAIN read' = 1 .. len - m
      /\ \A j \in 1 .. len - m : m + j \in 1 .. len /\ read'[j] = read[m + j]
  BY <1>1, <1>2 DEF ReadInv
<1>4. \A k \in gone : \E j \in 1 .. m : k = read[j].key
  <2>1. DOMAIN SubSeq(Taken, 1, n) = 1 .. n /\ \A j \in 1 .. n : SubSeq(Taken, 1, n)[j] = Taken[j] /\ j \in 1 .. m
    BY <1>1
  <2> QED BY <1>1, <2>1 DEF KeysOf
<1> HIDE DEF m, gone, len
<1>5. \A i \in 1 .. len - m, j \in 1 .. len - m : m + i = m + j => i = j
  BY <1>1
<1>6. \A i, j \in DOMAIN read' : read'[i].key = read'[j].key => i = j
  <2> SUFFICES ASSUME NEW i \in 1 .. len - m, NEW j \in 1 .. len - m, read'[i].key = read'[j].key
               PROVE  i = j
    BY <1>3
  <2>1. m + i \in DOMAIN read /\ m + j \in DOMAIN read /\ read[m + i].key = read[m + j].key
    BY <1>1, <1>3
  <2>2. m + i = m + j
    BY <2>1 DEF AskedInv
  <2> QED BY <1>5, <2>2
<1>7. \A j \in DOMAIN read' : read'[j].key \notin gone
  <2> SUFFICES ASSUME NEW j \in 1 .. len - m, NEW i \in 1 .. m, read[i].key = read[m + j].key
               PROVE  FALSE
    BY <1>3, <1>4
  <2>1. i \in DOMAIN read /\ m + j \in DOMAIN read /\ i # m + j
    BY <1>1, <1>3
  <2> QED BY <2>1 DEF AskedInv
<1>8. \A k \in gone : k \notin ToSet(stack)
  <2>1. \A j \in 1 .. m : j \in DOMAIN read
    BY <1>1
  <2> QED BY <1>4, <2>1 DEF AskedInv
<1>9. \A j \in DOMAIN read' : read'[j].key \notin ToSet(stack') /\ read'[j].key \in pending'
  BY <1>1, <1>2, <1>3, <1>7 DEF AskedInv
<1>10. Cardinality(pending') <= InflightMax
  <2>1. pending' \subseteq pending /\ IsFiniteSet(pending) /\ Cardinality(pending) \in Nat
    BY <1>2, PendingFinite DEF ReadInv
  <2>2. Cardinality(pending') <= Cardinality(pending) /\ Cardinality(pending') \in Nat
    BY <2>1, FS_Subset, FS_CardinalityType
  <2> QED BY <2>1, <2>2, Numbers DEF AskedInv
<1>11. IsInjective(stack') /\ ToSet(stack') \subseteq pending'
  BY <1>2, <1>8 DEF AskedInv
<1> QED BY <1>2, <1>3, <1>6, <1>9, <1>10, <1>11 DEF ReadInv, AskedInv

(***************************************************************************)
(* The pager: one lemma per action, and the theorems                       *)
(***************************************************************************)
\* What a failed unit leaves queued serves nobody.
LEMMA FailUnitOk ==
  ASSUME ShapeInv, FailUnit, UNCHANGED remapVars
  PROVE  ShapeInv' /\ UnitInv' /\ TableInv'
<1>1. /\ unit' = "none" /\ lanes' = [i \in Lanes |-> Off] /\ queue' = Abandoned(queue)
      /\ faults' \in Nat /\ units' = units
  BY DEF FailUnit, Fault, ShapeInv
<1>2. queue \in Seq(Copies \cup Moes)
  BY DEF ShapeInv
<1>3. DOMAIN queue' = 1 .. Len(queue)
  BY <1>1, <1>2 DEF Abandoned
<1>4. ASSUME NEW j \in 1 .. Len(queue)
      PROVE  queue'[j] \in Copies \cup Moes /\ ~ (queue'[j].op = "moe" /\ queue'[j].live)
  <2>1. queue'[j] = IF queue[j].op = "moe" THEN [queue[j] EXCEPT !.live = FALSE] ELSE queue[j]
    <3>1. DOMAIN queue = 1 .. Len(queue)
      BY <1>2
    <3> QED BY <1>1, <3>1 DEF Abandoned
  <2>2. queue[j] \in Copies \/ queue[j] \in Moes
    BY <1>2, <1>4
  <2>3. CASE queue[j] \in Copies
    <3>1. queue[j].op = "copy"
      BY <2>3 DEF Copies
    <3>2. queue'[j] = queue[j]
      BY <2>1, <3>1
    <3> QED BY <2>3, <3>1, <3>2
  <2>4. CASE queue[j] \in Moes
    <3>1. queue[j].op = "moe"
      BY <2>4 DEF Moes
    <3>2. queue'[j] = [queue[j] EXCEPT !.live = FALSE]
      BY <2>1, <3>1
    <3>3. [queue[j] EXCEPT !.live = FALSE] \in Moes /\ [queue[j] EXCEPT !.live = FALSE].live = FALSE
      BY <2>4 DEF Moes
    <3> QED BY <3>2, <3>3
  <2> QED BY <2>2, <2>3, <2>4
<1>5. queue' \in Seq(Copies \cup Moes)
  <2>1. queue' = [j \in 1 .. Len(queue) |-> queue'[j]]
    BY <1>1, <1>2 DEF Abandoned
  <2> QED BY <1>2, <1>4, <2>1
<1>6. Off \in LaneStates
  BY Numbers DEF Off, LaneStates
<1>7. ShapeInv'
  BY <1>1, <1>5, <1>6 DEF ShapeInv, remapVars
<1>8. UnitInv' /\ TableInv'
  BY <1>1, <1>3, <1>4 DEF UnitInv, TableInv, LiveAt, Off
<1> QED BY <1>7, <1>8

LEMMA PrefetchReadOk == PagerInv /\ PrefetchRead => PagerInv'
<1> SUFFICES ASSUME PagerInv, PrefetchRead PROVE PagerInv'
  OBVIOUS
<1> USE DEF PagerInv, PagerTypeInv
<1>1. PoolInv'
  BY PoolSame DEF PrefetchRead
<1>2. ShapeInv'
  BY DEF PrefetchRead, ShapeInv, remapVars, Fault
<1>3. ReadInv' /\ AskedInv'
  <2>1. \E ok \in BOOLEAN : read' = Append(read, [key |-> Last(stack), ok |-> ok])
    BY DEF PrefetchRead
  <2>2. stack # <<>> /\ stack' = Front(stack) /\ UNCHANGED pending
    BY DEF PrefetchRead
  <2> QED BY <2>1, <2>2, ReadOk
<1>4. UnitInv' /\ TableInv'
  BY DEF PrefetchRead, UnitInv, TableInv, LiveAt, Serves, Right, poolVars, remapVars
<1> QED BY <1>1, <1>2, <1>3, <1>4

LEMMA StartUnitOk ==
  ASSUME NEW kind \in {"decode", "prefill"}
  PROVE  PagerInv /\ StartUnit(kind) => PagerInv'
<1> SUFFICES ASSUME PagerInv, StartUnit(kind) PROVE PagerInv'
  OBVIOUS
<1> USE DEF PagerInv, PagerTypeInv
<1> DEFINE n == Len(Taken)
           p == Drained(n)
<1>1. n \in 0 .. n
  BY TakenFacts DEF ReadInv
<1>2. PoolOk(p) /\ Landed(p)
  BY <1>1, DrainedOk DEF PoolInv, ReadInv
<1>3. drain_prefetched(n, p)
  BY DEF StartUnit
<1>4. SetPool(p)
  BY <1>3 DEF drain_prefetched
<1> HIDE DEF n, p
<1>5. PoolInv'
  BY <1>2, <1>4, PoolBy
<1>6. ReadInv' /\ AskedInv'
  BY <1>1, <1>3, DrainAsked DEF n
<1>7. ShapeInv'
  <2>1. [Off EXCEPT !.at = "launched"] \in LaneStates
    BY Numbers DEF Off, LaneStates
  <2> QED BY <2>1 DEF ShapeInv, StartUnit, remapVars
<1>8. UnitInv' /\ TableInv'
  <2>1. \A j \in DOMAIN queue : ~ LiveAt(j)
    BY DEF StartUnit, UnitInv
  <2>2. \A i \in Lanes : lanes'[i].at = "launched"
    BY DEF StartUnit, Off
  <2>3. unit' # "none" /\ queue' = queue
    BY DEF StartUnit
  <2> QED BY <2>1, <2>2, <2>3 DEF UnitInv, TableInv, LiveAt
<1> QED BY <1>5, <1>6, <1>7, <1>8

LEMMA StartFailsOk ==
  ASSUME NEW n
  PROVE  PagerInv /\ StartFails(n) => PagerInv'
<1> SUFFICES ASSUME PagerInv, StartFails(n) PROVE PagerInv'
  OBVIOUS
<1> USE DEF PagerInv, PagerTypeInv
<1> DEFINE q == Drained(n - 1)
           p == AdmitFails(q, Taken[n])
<1>1. n \in 1 .. Len(Taken) /\ Taken \in Seq(Reads) /\ Len(Taken) \in Nat
  BY TakenFacts DEF StartFails, ReadInv
<1>2. n - 1 \in 0 .. Len(Taken) /\ n \in 0 .. Len(Taken) /\ Taken[n] \in Reads
  BY <1>1
<1>3. PoolOk(q) /\ Landed(q)
  BY <1>2, DrainedOk DEF PoolInv, ReadInv
<1>4. PoolOk(p) /\ Landed(p)
  <2> HIDE DEF q
  <2> QED BY <1>2, <1>3, AdmitOk
<1>5. drain_prefetched(n, p)
  BY DEF StartFails
<1>6. SetPool(p)
  BY <1>5 DEF drain_prefetched
<1> HIDE DEF q, p
<1>7. PoolInv'
  BY <1>4, <1>6, PoolBy
<1>8. ReadInv' /\ AskedInv'
  BY <1>2, <1>5, DrainAsked
<1>9. ShapeInv'
  BY DEF ShapeInv, StartFails, remapVars, Fault
<1>10. UnitInv' /\ TableInv'
  <2>1. (\A j \in DOMAIN queue : ~ LiveAt(j)) /\ \A i \in Lanes : lanes[i].at = "off"
    BY DEF StartFails, UnitInv, Off
  <2>2. lanes' = lanes /\ queue' = queue /\ unit' = unit
    BY DEF StartFails
  <2> QED BY <2>1, <2>2 DEF UnitInv, TableInv, LiveAt
<1> QED BY <1>7, <1>8, <1>9, <1>10

LEMMA PrewarmOk ==
  ASSUME NEW k
  PROVE  PagerInv /\ Prewarm(k) => PagerInv'
<1> SUFFICES ASSUME PagerInv, Prewarm(k) PROVE PagerInv'
  OBVIOUS
<1> USE DEF PagerInv, PagerTypeInv
<1>1. PoolInv'
  BY PoolSame DEF Prewarm
<1>2. ShapeInv'
  BY DEF Prewarm, ShapeInv, remapVars
<1>3. ReadInv' /\ AskedInv'
  BY HintOk DEF Prewarm
<1>4. UnitInv' /\ TableInv'
  BY ZenonT(60) DEF Prewarm, UnitInv, TableInv, LiveAt, Serves, Right, poolVars, remapVars
<1> QED BY <1>1, <1>2, <1>3, <1>4

LEMMA RouteOk ==
  ASSUME NEW i \in Lanes, NEW ids \in SUBSET Ids, NEW sub \in AtMostOne(ids), NEW hint
  PROVE  PagerInv /\ Route(i, ids, sub, hint) => PagerInv'
<1> SUFFICES ASSUME PagerInv, Route(i, ids, sub, hint) PROVE PagerInv'
  OBVIOUS
<1> USE DEF PagerInv, PagerTypeInv
<1> DEFINE l == lanes[i].layer + 1
<1>0. /\ HostFree /\ l \in Layers
      /\ \A id \in sub : Resident(Pool, <<l, id>>)
      /\ lanes' = [lanes EXCEPT ![i] = [layer |-> l, at |-> "routed", ids |-> ids]]
      /\ lru' = IF sub = {} THEN lru
                ELSE touch(Pool, SlotOf(Pool, <<l, CHOOSE id \in sub : TRUE>>)).lru
      /\ IF hint = {} THEN UNCHANGED <<stack, pending>>
         ELSE MayQueue /\ \E id \in hint : <<l, id>> \in Wanted /\ Hint(<<l, id>>)
      /\ UNCHANGED <<slotKey, bytes, remapVars, queue, unit, units, read, faults>>
  BY DEF Route
<1>1. PoolInv'
  <2>1. CASE sub = {}
    <3>1. UNCHANGED poolVars
      BY <1>0, <2>1 DEF poolVars
    <3> QED BY <3>1, PoolSame
  <2>2. CASE sub # {}
    <3> DEFINE id == CHOOSE x \in sub : TRUE
               s == SlotOf(Pool, <<l, id>>)
               p == touch(Pool, s)
    <3>1. id \in sub /\ id \in Ids
      BY <2>2 DEF AtMostOne
    <3>2. s \in Slots /\ Pool.key[s] = <<l, id>>
      BY <1>0, <3>1, SlotFacts
    <3>3. Pool.key[s] # NoKey
      <4>1. <<l, id>> \in Keys
        <5>1. l \in Layers
          BY <1>0
        <5> HIDE DEF l, id
        <5> QED BY <3>1, <5>1 DEF Keys
      <4> HIDE DEF s, l, id
      <4> QED BY <3>2, <4>1, KeyFacts
    <3>4. /\ PoolOk(p) /\ p.key = Pool.key /\ p.bytes = Pool.bytes
      <4> HIDE DEF s
      <4> QED BY <3>2, <3>3, TouchOk DEF PoolInv
    <3>5. lru' = p.lru
      BY <1>0, <2>2
    <3> HIDE DEF p
    <3>6. Landed(p) /\ SetPool(p)
      BY <1>0, <3>4, <3>5 DEF PoolInv, Landed, SetPool, Pool
    <3> QED BY <3>4, <3>6, PoolBy
  <2> QED BY <2>1, <2>2
<1>2. ShapeInv'
  <2>1. [layer |-> l, at |-> "routed", ids |-> ids] \in LaneStates
    BY <1>0, Numbers DEF LaneStates, Layers
  <2> HIDE DEF l
  <2> QED BY <1>0, <2>1 DEF ShapeInv, remapVars
<1>3. ReadInv' /\ AskedInv'
  <2>1. CASE hint = {}
    BY <1>0, <2>1 DEF ReadInv, AskedInv
  <2>2. CASE hint # {}
    <3>1. PICK k \in Wanted : MayQueue /\ Hint(k)
      BY <1>0, <2>2
    <3> QED BY <1>0, <3>1, HintOk
  <2> QED BY <2>1, <2>2
<1>4. UnitInv' /\ TableInv'
  <2>1. \A k \in Lanes : lanes[k].at # "prepped"
    BY <1>0 DEF HostFree
  <2>2. \A k \in Lanes : lanes'[k].at # "prepped"
    BY <1>0, <2>1 DEF ShapeInv
  <2>3. unit' # "none"
    BY <1>0 DEF HostFree
  <2> QED BY <1>0, <2>2, <2>3, ZenonT(60) DEF UnitInv, TableInv, LiveAt, Serves, Right, remapVars
<1> QED BY <1>1, <1>2, <1>3, <1>4

\* The order of a lane's ids lists them all.
LEMMA OrderFacts ==
  ASSUME NEW ids \in SUBSET Ids, NEW order \in SetToSeqs(ids)
  PROVE  order \in Seq(Ids) /\ ToSet(order) = ids /\ (order # <<>> => ids # {})
<1>1. IsFiniteSet(ids)
  BY Numbers, FS_Subset
<1>2. order \in [1 .. Cardinality(ids) -> ids] /\ \A i, j \in 1 .. Cardinality(ids) : order[i] = order[j] => i = j
  BY DEF SetToSeqs
<1>3. order \in Seq(ids) /\ ToSet(order) = ids
  BY <1>1, <1>2, ListsAll
<1>4. ids = {} => order = <<>>
  BY <1>3
<1> QED BY <1>3, <1>4

LEMMA PrepOk ==
  ASSUME NEW i \in Lanes, NEW order \in SetToSeqs(lanes[i].ids)
  PROVE  PagerInv /\ Prep(i, order) => PagerInv'
<1> SUFFICES ASSUME PagerInv, Prep(i, order) PROVE PagerInv'
  OBVIOUS
<1> USE DEF PagerInv, PagerTypeInv
<1> DEFINE l == lanes[i].layer
           ids == lanes[i].ids
           c == Classified(l, order, alloc_bounds(ids))
           p == Uploaded(c.pool, c.claims, Len(c.claims), FALSE)
           table == [id \in ids |-> SlotOf(p, <<l, id>>)]
           copy == [op |-> "copy", layer |-> l, stage |-> nextStage]
<1>0. /\ HostFree /\ lanes[i].at = "routed" /\ MayPage(i)
      /\ ~ c.refused /\ ~ CopyQueued(nextStage)
      /\ SetPool(p)
      /\ stage' = [stage EXCEPT ![nextStage] = table]
      /\ queue' = Append(queue, copy)
      /\ nextStage' = (nextStage % NStages) + 1
      /\ lanes' = [lanes EXCEPT ![i].at = "prepped"]
      /\ UNCHANGED <<remapDev, unit, units, hintVars, faults>>
  BY DEF Prep
<1>1. /\ lanes[i] \in LaneStates /\ lanes \in [Lanes -> LaneStates] /\ ids \in SUBSET Ids
      /\ queue \in Seq(Copies \cup Moes) /\ stage \in [Stages -> Tables] /\ nextStage \in Stages
  BY DEF ShapeInv, LaneStates
<1>2. l \in Layers
  BY <1>0, <1>1 DEF LaneStates
<1>3. order \in Seq(Ids) /\ ToSet(order) = ids /\ (order # <<>> => alloc_bounds(ids) # {}) /\ alloc_bounds(ids) \subseteq Slots
  <2> HIDE DEF ids
  <2>1. order \in SetToSeqs(ids)
    BY DEF ids
  <2> QED BY <1>1, <2>1, OrderFacts, BoundsOk
<1>4. ClassifiedAs(c, l, order)
  <2> HIDE DEF l, ids
  <2> QED BY <1>2, <1>3, ClassifiedOk DEF PoolInv
<1> HIDE DEF c
<1>5. PoolOk(p) /\ Landed(p) /\ p.key = c.pool.key
  BY <1>4, EnsureOk DEF ClassifiedAs, PoolInv
<1> HIDE DEF p
<1>6. PoolInv' /\ slotKey' = p.key
  BY <1>0, <1>5, PoolBy DEF SetPool
<1>7. ASSUME NEW id \in ids
      PROVE  SlotOf(p, <<l, id>>) \in Slots /\ p.key[SlotOf(p, <<l, id>>)] = <<l, id>>
  <2>1. PICK j \in 1 .. Len(order) : order[j] = id
    <3>1. DOMAIN order = 1 .. Len(order)
      BY <1>3
    <3>2. id \in ToSet(order)
      BY <1>3
    <3> QED BY <3>1, <3>2 DEF ToSet
  <2>2. Resident(c.pool, <<l, id>>)
    <3>1. Resident(c.pool, <<l, order[j]>>)
      BY <1>0, <1>4 DEF ClassifiedAs
    <3> QED BY <2>1, <3>1
  <2>3. Resident(p, <<l, id>>)
    BY <1>5, <2>2 DEF Resident, SlotsOf
  <2> HIDE DEF l
  <2> QED BY <2>3, SlotFacts
<1>8. table \in Tables /\ DOMAIN table = ids /\ \A id \in ids : table[id] \in Slots /\ slotKey'[table[id]] = <<l, id>>
  <2>1. \A id \in ids : table[id] \in Slots /\ slotKey'[table[id]] = <<l, id>>
    <3> HIDE DEF l, ids
    <3> QED BY <1>6, <1>7
  <2>2. table \in [ids -> Slots]
    <3> HIDE DEF l, ids
    <3> QED BY <1>7
  <2> HIDE DEF table
  <2> QED BY <1>1, <2>1, <2>2 DEF Tables
<1> HIDE DEF table
<1>9. copy \in Copies
  BY <1>1, <1>2 DEF Copies
<1>10. /\ queue' \in Seq(Copies \cup Moes) /\ Len(queue') = Len(queue) + 1 /\ queue'[Len(queue) + 1] = copy
       /\ \A j \in 1 .. Len(queue) : queue'[j] = queue[j]
       /\ DOMAIN queue' = 1 .. Len(queue) + 1 /\ DOMAIN queue = 1 .. Len(queue) /\ Len(queue) \in Nat
  <2> HIDE DEF copy
  <2> QED BY <1>0, <1>1, <1>9
<1>11. /\ lanes' \in [Lanes -> LaneStates]
       /\ lanes'[i].layer = l /\ lanes'[i].ids = ids
       /\ \A k \in Lanes : lanes'[k].at = "prepped" => k = i
  <2>1. lanes' = [lanes EXCEPT ![i] = [lanes[i] EXCEPT !.at = "prepped"]]
    BY <1>0
  <2>2. [lanes[i] EXCEPT !.at = "prepped"] \in LaneStates
    BY <1>1, <1>2 DEF LaneStates
  <2>3. \A k \in Lanes : k # i => lanes'[k] = lanes[k]
    BY <1>1, <2>1
  <2>4. lanes'[i] = [lanes[i] EXCEPT !.at = "prepped"]
    BY <1>1, <2>1
  <2>5. lanes'[i].layer = l /\ lanes'[i].ids = ids
    BY <1>1, <2>4 DEF LaneStates
  <2> QED BY <1>0, <1>1, <2>1, <2>2, <2>3, <2>5 DEF HostFree
<1>12. ShapeInv'
  <2>1. nextStage' \in Stages
    BY <1>0, <1>1, Numbers DEF Stages
  <2>2. stage' \in [Stages -> Tables]
    BY <1>0, <1>1, <1>8
  <2> QED BY <1>0, <1>10, <1>11, <2>1, <2>2 DEF ShapeInv
<1>13. ReadInv' /\ AskedInv'
  BY <1>0 DEF ReadInv, AskedInv, hintVars
<1>14. UnitInv'
  BY <1>0 DEF UnitInv, HostFree
<1>15. /\ Len(queue') + 1 # 1 /\ (Len(queue') + 1) - 1 = Len(queue) + 1
       /\ copy.op = "copy" /\ copy.layer = l /\ stage'[copy.stage] = table
  <2>1. Len(queue') + 1 # 1 /\ (Len(queue') + 1) - 1 = Len(queue) + 1
    BY <1>10
  <2>2. stage'[nextStage] = table
    BY <1>0, <1>1
  <2> QED BY <2>1, <2>2
<1>16. ASSUME NEW j \in 1 .. Len(queue), LiveAt(j)
       PROVE  Serves(j, queue[j].layer, queue[j].ids)'
  <2>1. slotKey' = slotKey
    <3>1. queue # <<>>
      BY <1>10, <1>16
    <3>2. \A id \in ids : Resident(Pool, <<l, id>>)
      BY <1>0, <3>1 DEF MayPage
    <3>3. \A k \in 1 .. Len(order) : Resident(Pool, <<l, order[k]>>)
      BY <1>3, <3>2 DEF ToSet
    <3> QED BY <1>4, <1>5, <1>6, <3>3 DEF ClassifiedAs
  <2>2. Serves(j, queue[j].layer, queue[j].ids)
    BY <1>10, <1>16 DEF TableInv
  <2>3. queue'[j] = queue[j] /\ remapDev' = remapDev
    BY <1>0, <1>10, <1>16
  <2>4. CASE j = 1
    BY <2>1, <2>2, <2>3, <2>4 DEF Serves, Right
  <2>5. CASE j # 1
    <3>1. j - 1 \in 1 .. Len(queue) /\ queue'[j - 1] = queue[j - 1]
      BY <1>10, <2>5
    <3>2. queue[j - 1].op = "copy"
      BY <2>2, <2>5 DEF Serves
    <3>3. queue[j - 1].stage # nextStage
      BY <1>0, <1>10, <3>1, <3>2 DEF CopyQueued
    <3>4. queue[j - 1].stage \in Stages
      <4>1. queue[j - 1] \in Copies \cup Moes
        BY <1>1, <3>1
      <4> QED BY <3>2, <4>1 DEF Copies, Moes
    <3>5. stage'[queue[j - 1].stage] = stage[queue[j - 1].stage]
      BY <1>0, <1>1, <3>3, <3>4
    <3> QED BY <2>1, <2>2, <2>3, <2>5, <3>1, <3>5 DEF Serves, Right
  <2> QED BY <2>4, <2>5
<1>17. TableInv'
  <2>1. ASSUME NEW j \in DOMAIN queue', (queue'[j].op = "moe" /\ queue'[j].live)
        PROVE  Serves(j, queue[j].layer, queue[j].ids)'
    <3>1. j # Len(queue) + 1
      BY <1>10, <2>1
    <3>2. j \in 1 .. Len(queue) /\ queue'[j] = queue[j]
      BY <1>10, <3>1
    <3> QED BY <1>16, <2>1, <3>2 DEF LiveAt
  <2>3. ASSUME NEW k \in Lanes, lanes'[k].at = "prepped"
        PROVE  k = i /\ Serves(Len(queue) + 1, lanes[k].layer, lanes[k].ids)'
    <3>1. k = i /\ lanes'[k].layer = l /\ lanes'[k].ids = ids
      BY <1>11, <2>3
    <3> HIDE DEF l, ids, copy
    <3>2. queue'[(Len(queue') + 1) - 1] = copy
      BY <1>10, <1>15
    <3> QED BY <1>8, <1>15, <3>1, <3>2 DEF Serves, Right
  <2> QED BY <1>11, <2>1, <2>3 DEF TableInv, LiveAt
<1> QED BY <1>6, <1>12, <1>13, <1>14, <1>17

LEMMA PrepFailsOk ==
  ASSUME NEW i \in Lanes, NEW order \in SetToSeqs(lanes[i].ids),
         NEW landed \in 0 .. Len(order) - 1, NEW torn \in BOOLEAN
  PROVE  PagerInv /\ PrepFails(i, order, landed, torn) => PagerInv'
<1> SUFFICES ASSUME PagerInv, PrepFails(i, order, landed, torn) PROVE PagerInv'
  OBVIOUS
<1> USE DEF PagerInv, PagerTypeInv
<1> DEFINE l == lanes[i].layer
           ids == lanes[i].ids
           c == Classified(l, order, alloc_bounds(ids))
           p == release_unlanded(Uploaded(c.pool, c.claims, landed, torn), c.claims, landed)
<1>0. /\ lanes[i].at = "routed" /\ (landed < Len(c.claims) \/ c.refused) /\ (c.refused => landed = 0)
      /\ SetPool(p) /\ FailUnit /\ UNCHANGED <<remapVars, hintVars>>
  BY DEF PrepFails
<1>1. lanes[i] \in LaneStates /\ ids \in SUBSET Ids
  BY DEF ShapeInv, LaneStates
<1>2. l \in Layers
  BY <1>0, <1>1 DEF LaneStates
<1>3. order \in Seq(Ids) /\ (order # <<>> => alloc_bounds(ids) # {}) /\ alloc_bounds(ids) \subseteq Slots
  <2> HIDE DEF ids
  <2>1. order \in SetToSeqs(ids)
    BY DEF ids
  <2> QED BY <1>1, <2>1, OrderFacts, BoundsOk
<1>4. CallOk(c)
  <2>1. ClassifiedAs(c, l, order)
    <3> HIDE DEF l, ids
    <3> QED BY <1>2, <1>3, ClassifiedOk DEF PoolInv
  <2> QED BY <2>1 DEF ClassifiedAs
<1> HIDE DEF c
<1>5. landed \in 0 .. Len(c.claims)
  <2>1. Len(c.claims) \in Nat /\ landed \in Nat
    BY <1>3, <1>4 DEF CallOk, Calls
  <2> QED BY <1>0, <2>1
<1>6. PoolOk(p) /\ Landed(p)
  BY <1>4, <1>5, EnsureFailsOk DEF PoolInv
<1> HIDE DEF p
<1>7. PoolInv'
  BY <1>0, <1>6, PoolBy
<1>8. ReadInv' /\ AskedInv'
  BY <1>0 DEF ReadInv, AskedInv, hintVars
<1>9. ShapeInv' /\ UnitInv' /\ TableInv'
  BY <1>0, FailUnitOk
<1> QED BY <1>7, <1>8, <1>9

LEMMA LaunchOk ==
  ASSUME NEW i \in Lanes
  PROVE  PagerInv /\ Launch(i) => PagerInv'
<1> SUFFICES ASSUME PagerInv, Launch(i) PROVE PagerInv'
  OBVIOUS
<1> USE DEF PagerInv, PagerTypeInv
<1> DEFINE moe == [op |-> "moe", layer |-> lanes[i].layer, lane |-> i, ids |-> lanes[i].ids, live |-> TRUE]
<1>0. /\ lanes[i].at = "prepped" /\ queue' = Append(queue, moe)
      /\ lanes' = [lanes EXCEPT ![i].at = "launched"]
      /\ UNCHANGED <<poolVars, remapVars, unit, units, hintVars, faults>>
  BY DEF Launch
<1>1. /\ lanes[i] \in LaneStates /\ lanes \in [Lanes -> LaneStates]
      /\ queue \in Seq(Copies \cup Moes)
  BY DEF ShapeInv
<1>2. moe \in Moes /\ moe.op = "moe" /\ moe.layer = lanes[i].layer /\ moe.ids = lanes[i].ids
  BY <1>0, <1>1 DEF LaneStates, Moes
<1> HIDE DEF moe
<1>3. /\ queue' \in Seq(Copies \cup Moes) /\ Len(queue') = Len(queue) + 1 /\ queue'[Len(queue) + 1] = moe
      /\ \A j \in 1 .. Len(queue) : queue'[j] = queue[j]
      /\ DOMAIN queue' = 1 .. Len(queue) + 1 /\ DOMAIN queue = 1 .. Len(queue) /\ Len(queue) \in Nat
  BY <1>0, <1>1, <1>2
<1>4. lanes' \in [Lanes -> LaneStates] /\ \A k \in Lanes : lanes'[k].at # "prepped"
  <2>1. lanes' = [lanes EXCEPT ![i] = [lanes[i] EXCEPT !.at = "launched"]]
    BY <1>0
  <2>2. [lanes[i] EXCEPT !.at = "launched"] \in LaneStates /\ [lanes[i] EXCEPT !.at = "launched"].at = "launched"
    BY <1>1 DEF LaneStates
  <2>3. lanes'[i] = [lanes[i] EXCEPT !.at = "launched"] /\ \A k \in Lanes : k # i => lanes'[k] = lanes[k]
    BY <1>1, <2>1
  <2>4. \A k \in Lanes : k # i => lanes[k].at # "prepped"
    BY <1>0 DEF TableInv
  <2> QED BY <1>1, <2>1, <2>2, <2>3, <2>4
<1>5. PoolInv'
  BY <1>0, PoolSame
<1>6. ShapeInv'
  BY <1>0, <1>3, <1>4 DEF ShapeInv, remapVars
<1>7. ReadInv' /\ AskedInv'
  BY <1>0 DEF ReadInv, AskedInv, hintVars
<1>8. UnitInv'
  BY <1>0 DEF UnitInv, Off
<1>9. ASSUME NEW j \in DOMAIN queue', (queue'[j].op = "moe" /\ queue'[j].live)
      PROVE  Serves(j, queue[j].layer, queue[j].ids)'
  <2>0. Serves(j, queue'[j].layer, queue'[j].ids)
    <3>1. CASE j \in 1 .. Len(queue)
      <4>1. queue'[j] = queue[j]
        BY <1>3, <3>1
      <4> QED BY <1>3, <1>9, <3>1, <4>1 DEF TableInv, LiveAt
    <3>2. CASE j = Len(queue) + 1
      BY <1>0, <1>2, <1>3, <3>2 DEF TableInv
    <3> QED BY <1>3, <3>1, <3>2
  <2>1. remapDev' = remapDev /\ stage' = stage /\ slotKey' = slotKey
    BY <1>0 DEF poolVars, remapVars
  <2>2. CASE j = 1
    BY <2>0, <2>1, <2>2 DEF Serves, Right
  <2>3. CASE j # 1
    <3>1. queue'[j - 1] = queue[j - 1]
      <4>1. j - 1 \in 1 .. Len(queue)
        BY <1>3, <2>3
      <4> QED BY <1>3, <4>1
    <3> QED BY <2>0, <2>1, <2>3, <3>1 DEF Serves, Right
  <2> QED BY <2>2, <2>3
<1>10. TableInv'
  BY <1>4, <1>9 DEF TableInv, LiveAt
<1> QED BY <1>5, <1>6, <1>7, <1>8, <1>10

LEMMA AbandonOk == PagerInv /\ Abandon => PagerInv'
<1> SUFFICES ASSUME PagerInv, Abandon PROVE PagerInv'
  OBVIOUS
<1> USE DEF PagerInv, PagerTypeInv
<1>1. FailUnit /\ UNCHANGED <<poolVars, remapVars, hintVars>>
  BY DEF Abandon
<1>2. PoolInv'
  BY <1>1, PoolSame
<1>3. ReadInv' /\ AskedInv'
  BY <1>1 DEF ReadInv, AskedInv, hintVars
<1>4. ShapeInv' /\ UnitInv' /\ TableInv'
  BY <1>1, FailUnitOk
<1> QED BY <1>2, <1>3, <1>4

LEMMA EndUnitOk == PagerInv /\ EndUnit => PagerInv'
<1> SUFFICES ASSUME PagerInv, EndUnit PROVE PagerInv'
  OBVIOUS
<1> USE DEF PagerInv, PagerTypeInv
<1>1. PoolInv'
  BY PoolSame DEF EndUnit
<1>2. ShapeInv'
  <2>1. Off \in LaneStates
    BY Numbers DEF Off, LaneStates
  <2> QED BY <2>1 DEF EndUnit, ShapeInv, remapVars
<1>3. ReadInv' /\ AskedInv'
  BY DEF EndUnit, ReadInv, AskedInv, hintVars
<1>4. UnitInv' /\ TableInv'
  <2>1. queue' = <<>> /\ lanes' = [k \in Lanes |-> Off]
    BY DEF EndUnit
  <2>2. DOMAIN queue' = {}
    BY <2>1
  <2> QED BY <2>1, <2>2 DEF UnitInv, TableInv, Off
<1> QED BY <1>1, <1>2, <1>3, <1>4

LEMMA IgpuRunsOk == PagerInv /\ IgpuRuns => PagerInv'
<1> SUFFICES ASSUME PagerInv, IgpuRuns PROVE PagerInv'
  OBVIOUS
<1> USE DEF PagerInv, PagerTypeInv
<1> DEFINE first == Head(queue)
<1>0. /\ queue # <<>> /\ queue' = Tail(queue)
      /\ remapDev' = IF first.op = "moe" THEN remapDev
                     ELSE [remapDev EXCEPT ![first.layer] = stage[first.stage]]
      /\ UNCHANGED <<poolVars, stage, nextStage, lanes, unit, units, hintVars, faults>>
  BY DEF IgpuRuns
<1>1. /\ queue \in Seq(Copies \cup Moes) /\ remapDev \in [Layers -> Tables] /\ stage \in [Stages -> Tables]
  BY DEF ShapeInv
<1>2. /\ queue' \in Seq(Copies \cup Moes) /\ Len(queue) \in Nat \ {0} /\ Len(queue') = Len(queue) - 1
      /\ DOMAIN queue = 1 .. Len(queue) /\ DOMAIN queue' = 1 .. Len(queue) - 1
      /\ \A j \in 1 .. Len(queue) - 1 : queue'[j] = queue[j + 1]
      /\ first \in Copies \cup Moes /\ first = queue[1]
  BY <1>0, <1>1
<1> HIDE DEF first
<1>3. PoolInv'
  BY <1>0, PoolSame
<1>4. remapDev' \in [Layers -> Tables]
  <2>1. CASE first.op = "moe"
    BY <1>0, <1>1, <2>1
  <2>2. CASE first.op # "moe"
    <3>1. first \in Copies
      BY <1>2, <2>2 DEF Moes
    <3>2. stage[first.stage] \in Tables
      BY <1>1, <3>1 DEF Copies
    <3> QED BY <1>0, <1>1, <2>2, <3>2
  <2> QED BY <2>1, <2>2
<1>5. ShapeInv'
  BY <1>0, <1>2, <1>4 DEF ShapeInv
<1>6. ReadInv' /\ AskedInv'
  BY <1>0 DEF ReadInv, AskedInv, hintVars
<1>7. UnitInv'
  <2>1. \A j \in 1 .. Len(queue) - 1 : j + 1 \in 1 .. Len(queue)
    BY <1>2
  <2> QED BY <1>0, <1>2, <2>1 DEF UnitInv, LiveAt
<1>8. ASSUME NEW j \in 1 .. Len(queue), NEW l \in Layers, NEW ids, Serves(j + 1, l, ids)
      PROVE  IF j = 1 THEN Right(remapDev[l], l, ids)'
             ELSE queue'[j - 1].op = "copy" /\ queue'[j - 1].layer = l /\ Right(stage[queue[j - 1].stage], l, ids)'
  <2>1. j + 1 # 1 /\ (j + 1) - 1 = j
    BY <1>2
  <2>2. queue[j].op = "copy" /\ queue[j].layer = l /\ Right(stage[queue[j].stage], l, ids)
    BY <1>8, <2>1 DEF Serves
  <2>3. slotKey' = slotKey /\ stage' = stage
    BY <1>0 DEF poolVars
  <2>4. CASE j = 1
    <3>1. first.op = "copy" /\ first.layer = l /\ Right(stage[first.stage], l, ids)
      BY <1>2, <2>2, <2>4
    <3>2. remapDev'[l] = stage[first.stage]
      BY <1>0, <1>1, <3>1
    <3> QED BY <2>3, <2>4, <3>1, <3>2 DEF Right
  <2>5. CASE j # 1
    <3>1. queue'[j - 1] = queue[j]
      <4>1. j - 1 \in 1 .. Len(queue) - 1 /\ (j - 1) + 1 = j
        BY <1>2, <2>5
      <4> QED BY <1>2, <4>1
    <3> QED BY <2>2, <2>3, <2>5, <3>1 DEF Right
  <2> QED BY <2>4, <2>5
<1>9. ASSUME NEW j \in DOMAIN queue', (queue'[j].op = "moe" /\ queue'[j].live)
      PROVE  Serves(j, queue[j].layer, queue[j].ids)'
  <2>1. j \in 1 .. Len(queue) /\ j + 1 \in DOMAIN queue /\ queue'[j] = queue[j + 1]
    BY <1>2
  <2>2. Serves(j + 1, queue[j + 1].layer, queue[j + 1].ids)
    BY <1>9, <2>1 DEF TableInv, LiveAt
  <2>3. queue[j + 1].layer \in Layers
    <3>1. queue[j + 1] \in Copies \cup Moes
      BY <1>1, <2>1
    <3> QED BY <3>1 DEF Copies, Moes
  <2>4. PICK l, ids : l \in Layers /\ l = queue'[j].layer /\ ids = queue'[j].ids /\ Serves(j + 1, l, ids)
    BY <2>1, <2>2, <2>3
  <2>5. IF j = 1 THEN Right(remapDev[l], l, ids)'
        ELSE queue'[j - 1].op = "copy" /\ queue'[j - 1].layer = l /\ Right(stage[queue[j - 1].stage], l, ids)'
    BY <1>8, <2>1, <2>4
  <2>6. l = queue'[j].layer /\ ids = queue'[j].ids
    BY <2>4
  <2> QED BY <2>5, <2>6 DEF Serves, Right
<1>10. ASSUME NEW i \in Lanes, lanes'[i].at = "prepped"
       PROVE  Serves(Len(queue) + 1, lanes[i].layer, lanes[i].ids)' /\ \A k \in Lanes : lanes'[k].at = "prepped" => k = i
  <2>0. lanes' = lanes
    BY <1>0
  <2>1. Serves(Len(queue) + 1, lanes[i].layer, lanes[i].ids) /\ \A k \in Lanes : lanes[k].at = "prepped" => k = i
    BY <1>10, <2>0 DEF TableInv
  <2>2. lanes[i].layer \in Layers
    BY <1>10, <2>0 DEF ShapeInv, LaneStates
  <2>3. Len(queue) \in 1 .. Len(queue) /\ Len(queue') + 1 = Len(queue)
    BY <1>2
  <2>4. PICK j, l, ids :
          j \in 1 .. Len(queue) /\ l \in Layers /\ j = Len(queue) /\ l = lanes[i].layer /\ ids = lanes[i].ids /\ Serves(j + 1, l, ids)
    BY <2>1, <2>2, <2>3
  <2>5. IF j = 1 THEN Right(remapDev[l], l, ids)'
        ELSE queue'[j - 1].op = "copy" /\ queue'[j - 1].layer = l /\ Right(stage[queue[j - 1].stage], l, ids)'
    BY <1>8, <2>4
  <2>6. l = lanes'[i].layer /\ ids = lanes'[i].ids /\ j = Len(queue') + 1
    BY <2>0, <2>3, <2>4
  <2>7. Serves(Len(queue) + 1, lanes[i].layer, lanes[i].ids)'
    BY <2>5, <2>6 DEF Serves, Right
  <2> QED BY <2>0, <2>1, <2>7
<1>11. TableInv'
  BY <1>9, <1>10 DEF TableInv, LiveAt
<1> QED BY <1>3, <1>5, <1>6, <1>7, <1>11

LEMMA NextInv == PagerInv /\ [PagerNext]_pagerVars => PagerInv'
<1> SUFFICES ASSUME PagerInv, [PagerNext]_pagerVars PROVE PagerInv'
  OBVIOUS
<1>1. CASE PrefetchRead
  BY <1>1, PrefetchReadOk
<1>2. ASSUME NEW kind \in {"decode", "prefill"}, StartUnit(kind) PROVE PagerInv'
  BY <1>2, StartUnitOk
<1>3. ASSUME NEW n \in 1 .. MaxAdmit, StartFails(n) PROVE PagerInv'
  BY <1>3, StartFailsOk
<1>4. ASSUME NEW k \in Keys, Prewarm(k) PROVE PagerInv'
  BY <1>4, PrewarmOk
<1>5. ASSUME NEW i \in Lanes, NEW ids \in Picks, NEW sub \in AtMostOne(ids), NEW hint \in AtMostOne(Ids \ ids),
             Route(i, ids, sub, hint)
      PROVE  PagerInv'
  BY <1>5, RouteOk DEF Picks
<1>6. ASSUME NEW i \in Lanes, NEW order \in SetToSeqs(lanes[i].ids), Prep(i, order) PROVE PagerInv'
  BY <1>6, PrepOk
<1>7. ASSUME NEW i \in Lanes, NEW order \in SetToSeqs(lanes[i].ids),
             NEW landed \in 0 .. Len(order) - 1, NEW torn \in BOOLEAN, PrepFails(i, order, landed, torn)
      PROVE  PagerInv'
  BY <1>7, PrepFailsOk
<1>8. ASSUME NEW i \in Lanes, Launch(i) PROVE PagerInv'
  BY <1>8, LaunchOk
<1>9. CASE Abandon
  BY <1>9, AbandonOk
<1>10. CASE EndUnit
  BY <1>10, EndUnitOk
<1>11. CASE IgpuRuns
  BY <1>11, IgpuRunsOk
<1>12. CASE UNCHANGED pagerVars
  <2>1. PoolInv'
    BY <1>12, PoolSame DEF pagerVars, PagerInv, PagerTypeInv
  <2>2. ShapeInv' /\ ReadInv' /\ AskedInv'
    BY <1>12 DEF pagerVars, remapVars, hintVars, PagerInv, PagerTypeInv, ShapeInv, ReadInv, AskedInv
  <2>3. UnitInv' /\ TableInv'
    BY <1>12 DEF pagerVars, poolVars, remapVars, PagerInv, UnitInv, TableInv, LiveAt, Serves, Right
  <2> QED BY <2>1, <2>2, <2>3 DEF PagerInv, PagerTypeInv
<1> QED BY <1>1, <1>2, <1>3, <1>4, <1>5, <1>6, <1>7, <1>8, <1>9, <1>10, <1>11, <1>12 DEF PagerNext

\* The types of the pager's state; every occupied slot is in the eviction order,
\* once, and holds the weights of the expert it is said to hold (expert_pager.rs,
\* `ensure` and `release_unlanded`).
THEOREM PagerTypes == PagerSpec => []PagerTypeInv
<1>1. PagerInv => PagerTypeInv
  BY DEF PagerInv
<1> QED BY <1>1, InitInv, NextInv, PTL DEF PagerSpec

\* A MoE that somebody waits for reads the weights of its own experts: the table
\* it finds names slots whose keys no later paging has changed, and what those
\* slots are said to hold has landed.
THEOREM MoesReadTheirOwnExperts == PagerSpec => []MoesReadTheirExperts
<1>1. PagerInv => MoesReadTheirExperts
  <2> SUFFICES ASSUME PagerInv, queue # <<>>, Head(queue).op = "moe", Head(queue).live,
                      NEW id \in Head(queue).ids
               PROVE  LET table == remapDev[Head(queue).layer]
                      IN id \in DOMAIN table /\ bytes[table[id]] = <<Head(queue).layer, id>>
    BY DEF MoesReadTheirExperts
  <2> DEFINE m == queue[1]
             table == remapDev[m.layer]
  <2>1. queue \in Seq(Copies \cup Moes) /\ Head(queue) = m /\ 1 \in DOMAIN queue /\ m \in Copies \cup Moes
    BY DEF PagerInv, PagerTypeInv, ShapeInv
  <2>2. Right(table, m.layer, m.ids)
    BY <2>1 DEF PagerInv, TableInv, LiveAt, Serves
  <2>3. id \in DOMAIN table /\ table[id] \in Slots /\ slotKey[table[id]] = <<m.layer, id>>
    BY <2>1, <2>2 DEF Right
  <2>4. slotKey[table[id]] \in {NoKey, bytes[table[id]]}
    BY <2>3 DEF PagerInv, PagerTypeInv, PoolInv, Landed, Pool
  <2>5. <<m.layer, id>> # NoKey
    BY DEF NoKey
  <2> QED BY <2>1, <2>3, <2>4, <2>5
<1> QED BY <1>1, InitInv, NextInv, PTL DEF PagerSpec

\* No expert is in two slots, and none is asked for or read twice at a time.
THEOREM EachExpertOnce == PagerSpec => []ExpertsOnce
<1>1. PagerInv => ExpertsOnce
  <2> SUFFICES ASSUME PagerInv PROVE ExpertsOnce
    OBVIOUS
  <2> DEFINE keys == [j \in DOMAIN read |-> read[j].key]
  <2>1. stack \in Seq(Keys) /\ read \in Seq(Reads) /\ AskedInv /\ PoolOk(Pool)
    BY DEF PagerInv, PagerTypeInv, PoolInv, ReadInv
  <2>2. keys \in Seq(Keys) /\ DOMAIN keys = DOMAIN read /\ \A j \in DOMAIN read : keys[j] = read[j].key
    <3>0. DOMAIN read = 1 .. Len(read) /\ Len(read) \in Nat /\ \A j \in 1 .. Len(read) : read[j] \in Reads
      BY <2>1
    <3>1. DOMAIN read = 1 .. Len(read) /\ Len(read) \in Nat /\ \A j \in 1 .. Len(read) : read[j].key \in Keys
      BY <3>0 DEF Reads
    <3>2. keys \in [1 .. Len(read) -> Keys] /\ DOMAIN keys = DOMAIN read /\ \A j \in DOMAIN read : keys[j] = read[j].key
      BY <3>1
    <3> HIDE DEF keys
    <3> QED BY <3>1, <3>2
  <2> HIDE DEF keys
  <2>3. IsInjective(keys) /\ ToSet(keys) \subseteq pending /\ ToSet(stack) \cap ToSet(keys) = {}
    BY <2>1, <2>2 DEF AskedInv, IsInjective, ToSet
  <2>4. IsInjective(stack \o keys) /\ ToSet(stack \o keys) = ToSet(stack) \cup ToSet(keys)
    BY <2>1, <2>2, <2>3, InjectiveConcat, ToSetConcat DEF AskedInv
  <2> QED BY <2>1, <2>3, <2>4 DEF ExpertsOnce, AskedInv, PoolOk, Pool, keys
<1> QED BY <1>1, InitInv, NextInv, PTL DEF PagerSpec

(***************************************************************************)
(* A stream's steps: the inductive invariant                               *)
(***************************************************************************)
\* A position, or the value of a row that none of the stream's has reached.
Values == Nat \cup {None}

StepTypeInv ==
  /\ phase \in {"empty", "ready", "step"} /\ pos \in Nat
  /\ size \in 0 .. MaxRows /\ ran \in 0 .. size
  /\ win \in [Groups -> [off : Nat, n : 0 .. SwaWindow]]
  /\ raw \in [Groups -> [0 .. RawRows - 1 -> Values]]
  /\ nComp \in [Stores -> Nat]
  /\ DOMAIN comp = Stores /\ \A si \in Stores : comp[si] \in [0 .. Cap(si) - 1 -> SUBSET Values]
  /\ DOMAIN block = Stores
  /\ \A si \in Stores : block[si] \in [0 .. Blocks(si) - 1 -> [0 .. Ratio[si] - 1 -> Values]]

\* Rows of the step under way that have run, and those it has.
Done == IF phase = "step" THEN ran ELSE 0
Asked == IF phase = "step" THEN size ELSE 0
Least2(a, b) == IF a < b THEN a ELSE b

\* A raw window, with the rows the step has appended to it, holds the
\* positions up to them in order, and the step's rows fit behind it.
RawInv == phase # "empty" => \A g \in Groups :
  /\ win[g].n <= pos /\ win[g].off + win[g].n + Asked <= RawRows
  /\ g = "enc" => win[g].n = Least2(pos, SwaWindow)
  /\ \A j \in 0 .. win[g].n + Done - 1 : raw[g][win[g].off + j] = pos - win[g].n + j

\* The compressed rows of all groups that are complete hold them.
CompInv == phase # "empty" => \A si \in Stores :
  /\ nComp[si] = pos \div Ratio[si] /\ (pos + Asked) \div Ratio[si] <= Cap(si)
  /\ \A i \in 0 .. (pos + Done) \div Ratio[si] - 1 :
       comp[si][i] = (Ratio[si] * i) .. (Ratio[si] * i + Ratio[si] - 1)

\* The accumulator blocks hold the positions since the start of the open group.
BlockInv == phase # "empty" => \A si \in Stores :
  \A q \in (Ratio[si] * (pos \div Ratio[si])) .. (pos + Done - 1) :
    block[si][BlockOf(si, q)][q % Ratio[si]] = q

SeenInv == phase = "step" => \A g \in Groups, j \in 1 .. ran :
  seen[g][j] = (pos + j - Least2(win[g].n + j, SwaWindow)) .. (pos + j - 1)
PooledInv == \A f \in pooled :
  /\ f[1] \in Stores /\ f[2] \in Nat /\ f[3] = (f[2] + 1 - Ratio[f[1]]) .. f[2]
StepInv == StepTypeInv /\ RawInv /\ CompInv /\ BlockInv /\ SeenInv /\ PooledInv

LEMMA StepNumbers ==
  /\ SwaWindow \in Nat \ {0} /\ MaxRows \in Nat \ {0} /\ MaxPos \in Nat
  /\ RawRows \in Nat /\ RawRows >= SwaWindow + MaxRows
  /\ \A si \in Stores : Ratio[si] \in Nat \ {0} /\ Cap(si) \in Nat /\ Blocks(si) \in Nat \ {0}
<1>1. \A si \in Stores : Ratio[si] \in Nat \ {0}
  BY StepAssumption
<1>2. ASSUME NEW si \in Stores
      PROVE  Cap(si) \in Nat /\ Blocks(si) \in Nat \ {0}
  <2>1. MaxPos + Ratio[si] - 1 \in Nat /\ (MaxRows - 1) + Ratio[si] - 1 \in Nat
    BY <1>1, StepAssumption
  <2>2. (MaxPos + Ratio[si] - 1) \div Ratio[si] \in Nat /\ ((MaxRows - 1) + Ratio[si] - 1) \div Ratio[si] \in Nat
    BY <1>1, <2>1, DivMod
  <2> QED BY <2>2 DEF Cap, Blocks
<1> QED BY <1>1, <1>2, StepAssumption

\* The window after j rows ends j rows later and holds SwaWindow rows at most.
LEMMA WinFacts ==
  ASSUME StepTypeInv, NEW g \in Groups, NEW j \in Nat
  PROVE  /\ WinAt(g, j) \in [off : Nat, n : 0 .. SwaWindow]
         /\ WinAt(g, j).off + WinAt(g, j).n = win[g].off + win[g].n + j
         /\ WinAt(g, j).n = Least2(win[g].n + j, SwaWindow)
<1>1. win[g].off \in Nat /\ win[g].n \in 0 .. SwaWindow
  BY DEF StepTypeInv
<1> DEFINE grow == IF win[g].n + j <= SwaWindow THEN j ELSE SwaWindow - win[g].n
<1>2. grow \in 0 .. j /\ win[g].n + grow = Least2(win[g].n + j, SwaWindow)
  BY <1>1, StepNumbers DEF Least2
<1>3. WinAt(g, j) = [off |-> win[g].off + (j - grow), n |-> win[g].n + grow]
  BY DEF WinAt
<1>4. win[g].n + grow \in 0 .. SwaWindow
  BY <1>1, StepNumbers
<1> HIDE DEF grow
<1>5. WinAt(g, j).off = win[g].off + (j - grow) /\ WinAt(g, j).n = win[g].n + grow
  BY <1>3
<1>6. win[g].off + (j - grow) \in Nat
  BY <1>1, <1>2
<1> QED BY <1>1, <1>2, <1>3, <1>4, <1>5, <1>6

LEMMA CompAtIs ==
  ASSUME StepTypeInv, CompInv, phase # "empty", NEW si \in Stores, NEW j \in Nat
  PROVE  CompAt(si, j) = (pos + j) \div Ratio[si]
<1>1. pos \in Nat /\ Ratio[si] \in Nat \ {0} /\ nComp[si] = pos \div Ratio[si]
  BY StepNumbers DEF StepTypeInv, CompInv
<1>2. pos \div Ratio[si] \in Nat /\ (pos + j) \div Ratio[si] \in Nat
  <2>1. pos + j \in Nat
    BY <1>1
  <2> QED BY <1>1, <2>1, DivMod
<1> QED BY <1>1, <1>2 DEF CompAt

\* The block and the row of a position of the open group, or after it.
LEMMA BlockFacts ==
  ASSUME StepTypeInv, NEW si \in Stores, NEW q \in (Ratio[si] * (pos \div Ratio[si])) .. (pos + MaxRows - 1)
  PROVE  /\ q \in Nat /\ BlockOf(si, q) \in 0 .. Blocks(si) - 1 /\ q % Ratio[si] \in 0 .. Ratio[si] - 1
         /\ BlockOf(si, q) = q \div Ratio[si] - pos \div Ratio[si] /\ q \div Ratio[si] >= pos \div Ratio[si]
<1> DEFINE R == Ratio[si]
           m == pos \div R
           x == pos % R
           top == (MaxRows - 1) + R - 1
<1>1. pos \in Nat /\ R \in Nat \ {0} /\ MaxRows \in Nat \ {0}
  BY StepNumbers DEF StepTypeInv
<1>2. m \in Nat /\ x \in 0 .. R - 1 /\ pos = R * m + x
  BY <1>1, DivMod
<1> HIDE DEF x
<1>3. R * m \in Nat
  BY <1>1, <1>2
<1>4. q \in Nat
  BY <1>3
<1>5. q \div R \in Nat /\ q % R \in 0 .. R - 1
  BY <1>1, <1>4, DivMod
<1>6. q \div R >= m
  <2>1. q >= R * m
    OBVIOUS
  <2> HIDE DEF m, R
  <2> QED BY <1>1, <1>2, <1>4, <2>1, DivAtLeast
<1>7. q \div R <= m + (top \div R)
  <2>1. top \in Nat /\ R * m + top \in Nat /\ q <= R * m + top
    BY <1>1, <1>2, <1>3, <1>4
  <2>2. (R * m + top) \div R = m + (top \div R)
    <3> HIDE DEF m, R, top
    <3> QED BY <1>1, <1>2, <2>1, DivShift
  <2>3. q \div R <= (R * m + top) \div R
    <3> HIDE DEF m, R, top
    <3> QED BY <1>1, <1>4, <2>1, DivMono
  <2> QED BY <2>2, <2>3
<1>8. top \div R \in Nat
  <2>1. top \in Nat
    BY <1>1
  <2> HIDE DEF R, top
  <2> QED BY <1>1, <2>1, DivMod
<1>9. Blocks(si) = 1 + (top \div R) /\ BlockOf(si, q) = q \div R - m
  BY DEF Blocks, BlockOf
<1> HIDE DEF R, m, top
<1>10. q \div R - m \in 0 .. (1 + (top \div R)) - 1
  BY <1>2, <1>5, <1>6, <1>7, <1>8
<1> QED BY <1>4, <1>5, <1>6, <1>9, <1>10 DEF R, m

LEMMA StepInitInv == Init => StepInv
<1> SUFFICES ASSUME Init PROVE StepInv
  OBVIOUS
<1> USE DEF Init, Empty
<1>1. StepTypeInv
  <2>1. 0 \in 0 .. MaxRows /\ 0 \in 0 .. SwaWindow
    BY StepNumbers
  <2>2. None \in Values
    BY DEF Values
  <2> QED BY <2>1, <2>2 DEF StepTypeInv
<1>2. PooledInv
  BY DEF PooledInv
<1> QED BY <1>1, <1>2 DEF StepInv, RawInv, CompInv, BlockInv, SeenInv

LEMMA FillOk ==
  ASSUME NEW p \in 1 .. MaxPos, NEW d \in 1 .. p
  PROVE  StepInv /\ Fill(p, d) => StepInv'
<1> SUFFICES ASSUME StepInv, Fill(p, d) PROVE StepInv'
  OBVIOUS
<1> USE DEF StepInv
<1> DEFINE most == IF p < SwaWindow THEN p ELSE SwaWindow
           rows(g) == IF g = "dec" THEN d ELSE most
           row(g) == [r \in DOMAIN raw[g] |-> IF r < rows(g) THEN p - rows(g) + r ELSE raw[g][r]]
<1>0. /\ d <= most /\ phase = "empty"
      /\ \A si \in Stores : Cap(si) * Ratio[si] >= p + 1
      /\ phase' = "ready" /\ pos' = p
      /\ win' = [g \in Groups |-> [off |-> 0, n |-> rows(g)]]
      /\ raw' = [g \in Groups |-> row(g)]
      /\ nComp' = [si \in Stores |-> p \div Ratio[si]]
      /\ comp' = [si \in Stores |-> [i \in DOMAIN comp[si] |->
                IF i < p \div Ratio[si] THEN (i * Ratio[si]) .. (i * Ratio[si] + Ratio[si] - 1)
                                        ELSE comp[si][i]]]
      /\ block' = [si \in Stores |-> [block[si] EXCEPT ![0] =
                [x \in DOMAIN @ |-> IF x < p % Ratio[si] THEN p - (p % Ratio[si]) + x ELSE None]]]
      /\ UNCHANGED <<ran, size, seen, pooled>>
  BY DEF Fill
<1>1. /\ p \in Nat /\ most \in 1 .. SwaWindow /\ most = Least2(p, SwaWindow) /\ most <= p
      /\ \A g \in Groups : rows(g) \in 1 .. SwaWindow /\ rows(g) <= p
  BY <1>0, StepNumbers DEF Least2
<1>2. rows("enc") = most
  OBVIOUS
<1> HIDE DEF most, rows
<1>3. ASSUME NEW g \in Groups
      PROVE  /\ row(g) \in [0 .. RawRows - 1 -> Values]
             /\ \A r \in 0 .. rows(g) - 1 : row(g)[r] = p - rows(g) + r
  <2>1. raw[g] \in [0 .. RawRows - 1 -> Values]
    BY DEF StepTypeInv
  <2>2. \A r \in 0 .. rows(g) - 1 : r \in 0 .. RawRows - 1 /\ r < rows(g) /\ p - rows(g) + r \in Nat
    BY <1>1, StepNumbers
  <2>3. \A r \in 0 .. RawRows - 1 : r < rows(g) => r \in 0 .. rows(g) - 1
    BY <1>1
  <2> QED BY <2>1, <2>2, <2>3 DEF Values
<1> HIDE DEF row
<1>4. ASSUME NEW si \in Stores
      PROVE  /\ p \div Ratio[si] \in Nat /\ p % Ratio[si] \in 0 .. Ratio[si] - 1
             /\ p = Ratio[si] * (p \div Ratio[si]) + (p % Ratio[si])
             /\ p \div Ratio[si] <= Cap(si) /\ Ratio[si] \in Nat \ {0} /\ Cap(si) \in Nat
  <2>1. Ratio[si] \in Nat \ {0} /\ Cap(si) \in Nat
    BY StepNumbers
  <2>2. p \div Ratio[si] \in Nat /\ p % Ratio[si] \in 0 .. Ratio[si] - 1
        /\ p = Ratio[si] * (p \div Ratio[si]) + (p % Ratio[si])
    BY <1>1, <2>1, DivMod
  <2>3. Ratio[si] * Cap(si) >= p + 1 /\ Ratio[si] * Cap(si) \in Nat
    BY <1>0, <2>1
  <2>4. ~ (p >= Ratio[si] * Cap(si))
    BY <1>1, <2>3
  <2>5. ~ (p \div Ratio[si] >= Cap(si))
    BY <1>1, <2>1, <2>4, DivAtLeast
  <2> QED BY <2>1, <2>2, <2>5
<1>5. ASSUME NEW si \in Stores
      PROVE  /\ comp'[si] \in [0 .. Cap(si) - 1 -> SUBSET Values]
             /\ \A i \in 0 .. p \div Ratio[si] - 1 :
                  comp'[si][i] = (Ratio[si] * i) .. (Ratio[si] * i + Ratio[si] - 1)
  <2>1. comp[si] \in [0 .. Cap(si) - 1 -> SUBSET Values]
    BY DEF StepTypeInv
  <2>2. comp'[si] = [i \in 0 .. Cap(si) - 1 |->
           IF i < p \div Ratio[si] THEN (i * Ratio[si]) .. (i * Ratio[si] + Ratio[si] - 1) ELSE comp[si][i]]
    BY <1>0, <2>1
  <2>3. \A i \in 0 .. Cap(si) - 1 : (i * Ratio[si]) .. (i * Ratio[si] + Ratio[si] - 1) \in SUBSET Values
    <3> SUFFICES ASSUME NEW i \in 0 .. Cap(si) - 1, NEW q \in (i * Ratio[si]) .. (i * Ratio[si] + Ratio[si] - 1)
                 PROVE  q \in Nat
      BY DEF Values
    <3>1. i * Ratio[si] \in Nat
      BY <1>4
    <3> QED BY <3>1
  <2>4. comp'[si] \in [0 .. Cap(si) - 1 -> SUBSET Values]
    BY <2>1, <2>2, <2>3
  <2>5. ASSUME NEW i \in 0 .. p \div Ratio[si] - 1
        PROVE  comp'[si][i] = (Ratio[si] * i) .. (Ratio[si] * i + Ratio[si] - 1)
    <3>1. i \in 0 .. Cap(si) - 1 /\ i < p \div Ratio[si] /\ i * Ratio[si] = Ratio[si] * i
      BY <1>4
    <3> QED BY <2>2, <3>1
  <2> QED BY <2>4, <2>5
<1>6. ASSUME NEW si \in Stores
      PROVE  /\ block'[si] \in [0 .. Blocks(si) - 1 -> [0 .. Ratio[si] - 1 -> Values]]
             /\ \A x \in 0 .. Ratio[si] - 1 : x < p % Ratio[si] =>
                  block'[si][0][x] = p - (p % Ratio[si]) + x
  <2>1. block[si] \in [0 .. Blocks(si) - 1 -> [0 .. Ratio[si] - 1 -> Values]] /\ 0 \in 0 .. Blocks(si) - 1
    BY StepNumbers DEF StepTypeInv
  <2> DEFINE f == [x \in 0 .. Ratio[si] - 1 |-> IF x < p % Ratio[si] THEN p - (p % Ratio[si]) + x ELSE None]
  <2>2. block'[si] = [block[si] EXCEPT ![0] = f]
    <3>1. DOMAIN block[si][0] = 0 .. Ratio[si] - 1
      BY <2>1
    <3> QED BY <1>0, <3>1
  <2>3. f \in [0 .. Ratio[si] - 1 -> Values]
    <3>1. ASSUME NEW x \in 0 .. Ratio[si] - 1 PROVE p - (p % Ratio[si]) + x \in Nat
      <4>1. p - (p % Ratio[si]) = Ratio[si] * (p \div Ratio[si]) /\ Ratio[si] * (p \div Ratio[si]) \in Nat
        <5> DEFINE m == p \div Ratio[si]
                   y == p % Ratio[si]
        <5>1. p = Ratio[si] * m + y /\ m \in Nat /\ Ratio[si] \in Nat \ {0} /\ y \in 0 .. Ratio[si] - 1
          BY <1>4
        <5> HIDE DEF m, y
        <5>2. p - y = Ratio[si] * m /\ Ratio[si] * m \in Nat
          BY <5>1
        <5> QED BY <5>2 DEF m, y
      <4> QED BY <4>1
    <3> QED BY <3>1 DEF Values
  <2>4. \A x \in 0 .. Ratio[si] - 1 : x < p % Ratio[si] => f[x] = p - (p % Ratio[si]) + x
    OBVIOUS
  <2> HIDE DEF f
  <2> QED BY <2>1, <2>2, <2>3, <2>4
<1>7. StepTypeInv'
  <2>1. win' \in [Groups -> [off : Nat, n : 0 .. SwaWindow]]
    BY <1>0, <1>1
  <2>2. raw' \in [Groups -> [0 .. RawRows - 1 -> Values]]
    BY <1>0, <1>3
  <2>3. nComp' \in [Stores -> Nat]
    BY <1>0, <1>4
  <2>4. DOMAIN comp' = Stores /\ DOMAIN block' = Stores
    BY <1>0
  <2> QED BY <1>0, <1>1, <1>5, <1>6, <2>1, <2>2, <2>3, <2>4 DEF StepTypeInv, Cap, Blocks
<1>8. Done' = 0 /\ Asked' = 0
  BY <1>0 DEF Done, Asked
<1>9. RawInv'
  <2> SUFFICES ASSUME NEW g \in Groups
               PROVE  /\ win'[g].n <= p /\ win'[g].off + win'[g].n <= RawRows
                      /\ g = "enc" => win'[g].n = Least2(p, SwaWindow)
                      /\ \A j \in 0 .. win'[g].n + 0 - 1 : raw'[g][win'[g].off + j] = p - win'[g].n + j
    <3>1. \A g \in Groups : win'[g].off + win'[g].n + 0 = win'[g].off + win'[g].n
      BY <1>0, <1>1
    <3> QED BY <1>0, <1>8, <3>1 DEF RawInv
  <2>1. win'[g].off = 0 /\ win'[g].n = rows(g) /\ raw'[g] = row(g)
    BY <1>0
  <2> QED BY <1>1, <1>2, <1>3, <2>1, StepNumbers
<1>10. CompInv'
  <2> SUFFICES ASSUME NEW si \in Stores
               PROVE  /\ nComp'[si] = p \div Ratio[si] /\ (p + 0) \div Ratio[si] <= Cap(si)
                      /\ \A i \in 0 .. (p + 0) \div Ratio[si] - 1 :
                           comp'[si][i] = (Ratio[si] * i) .. (Ratio[si] * i + Ratio[si] - 1)
    BY <1>0, <1>8 DEF CompInv, Cap
  <2>1. p + 0 = p
    BY <1>1
  <2> QED BY <1>0, <1>4, <1>5, <2>1
<1>11. BlockInv'
  <2> SUFFICES ASSUME NEW si \in Stores, NEW q \in (Ratio[si] * (p \div Ratio[si])) .. (p + 0 - 1)
               PROVE  block'[si][q \div Ratio[si] - p \div Ratio[si]][q % Ratio[si]] = q
    BY <1>0, <1>8 DEF BlockInv, BlockOf
  <2> DEFINE R == Ratio[si]
             m == p \div R
             x == q - R * m
  <2>1. R \in Nat \ {0} /\ m \in Nat /\ p % R \in 0 .. R - 1 /\ p = R * m + (p % R) /\ R * m \in Nat
    BY <1>4
  <2> DEFINE y == p % R
  <2>2. y \in 0 .. R - 1 /\ p = R * m + y
    BY <2>1
  <2> HIDE DEF y
  <2>6. q \in (R * m) .. (p + 0 - 1)
    OBVIOUS
  <2> HIDE DEF m, R
  <2>3. x \in 0 .. R - 1 /\ x < y /\ q = R * m + x /\ q \in Nat /\ p - y + x = q
    BY <1>1, <2>1, <2>2, <2>6
  <2> HIDE DEF x
  <2>4. q \div R = m /\ q % R = x
    BY <2>1, <2>3, DivIs
  <2>5. m - m = 0
    BY <2>1
  <2> QED BY <1>6, <2>3, <2>4, <2>5 DEF R, m, y
<1>12. SeenInv' /\ PooledInv'
  BY <1>0 DEF SeenInv, PooledInv
<1> QED BY <1>7, <1>9, <1>10, <1>11, <1>12

LEMMA StartStepOk ==
  ASSUME NEW k \in 1 .. MaxRows
  PROVE  StepInv /\ StartStep(k) => StepInv'
<1> SUFFICES ASSUME StepInv, StartStep(k) PROVE StepInv'
  OBVIOUS
<1> USE DEF StepInv
<1>0. /\ phase = "ready" /\ CanStepRows(k)
      /\ IF NeedsCompaction(k) THEN CompactRaw ELSE UNCHANGED <<raw, win>>
      /\ size' = k /\ ran' = 0
      /\ seen' = [g \in Groups |-> <<>>] /\ pooled' = {}
      /\ phase' = IF \E g \in Groups, j \in 0 .. (k - 1) :
                       win'[g].off + win'[g].n + j >= RawRows THEN "refused" ELSE "step"
      /\ UNCHANGED <<pos, nComp, comp, block>>
  BY DEF StartStep
<1>1. /\ pos \in Nat /\ win \in [Groups -> [off : Nat, n : 0 .. SwaWindow]]
      /\ raw \in [Groups -> [0 .. RawRows - 1 -> Values]] /\ k \in Nat
      /\ Done = 0 /\ Asked = 0
  BY <1>0, StepNumbers DEF StepTypeInv, Done, Asked
<1>2. ASSUME NEW g \in Groups
      PROVE  /\ win[g].off \in Nat /\ win[g].n \in 0 .. SwaWindow /\ raw[g] \in [0 .. RawRows - 1 -> Values]
             /\ win[g].n <= pos /\ win[g].off + win[g].n <= RawRows
             /\ g = "enc" => win[g].n = Least2(pos, SwaWindow)
             /\ \A j \in 0 .. win[g].n - 1 : raw[g][win[g].off + j] = pos - win[g].n + j
  <2>1. win[g].off \in Nat /\ win[g].n \in 0 .. SwaWindow /\ raw[g] \in [0 .. RawRows - 1 -> Values]
    BY <1>1
  <2>2. /\ win[g].n <= pos /\ win[g].off + win[g].n + 0 <= RawRows
        /\ g = "enc" => win[g].n = Least2(pos, SwaWindow)
        /\ \A j \in 0 .. win[g].n + 0 - 1 : raw[g][win[g].off + j] = pos - win[g].n + j
    BY <1>0, <1>1 DEF RawInv
  <2>3. win[g].n + 0 - 1 = win[g].n - 1 /\ win[g].off + win[g].n + 0 = win[g].off + win[g].n
    BY <2>1
  <2> QED BY <2>1, <2>2, <2>3
\* After the compaction, if one is needed, the rows fit and the window is as it was.
<1>3. ASSUME NEW g \in Groups
      PROVE  /\ win'[g] \in [off : Nat, n : 0 .. SwaWindow] /\ win'[g].n = win[g].n
             /\ win'[g].off + win'[g].n + k <= RawRows
             /\ raw'[g] \in [0 .. RawRows - 1 -> Values]
             /\ \A j \in 0 .. win[g].n - 1 : raw'[g][win'[g].off + j] = pos - win[g].n + j
  <2>1. CASE NeedsCompaction(k)
    <3> DEFINE w == win[g]
               f == [r \in 0 .. RawRows - 1 |-> IF r < w.n THEN raw[g][w.off + r] ELSE raw[g][r]]
    <3>1. win'[g] = [off |-> 0, n |-> w.n]
      BY <1>0, <2>1 DEF CompactRaw
    <3>2. raw'[g] = IF w.off = 0 \/ w.n = 0 THEN raw[g] ELSE f
      BY <1>0, <1>2, <2>1, ZenonT(60) DEF CompactRaw
    <3>3. f \in [0 .. RawRows - 1 -> Values]
      <4>1. \A r \in 0 .. RawRows - 1 : r < w.n => w.off + r \in 0 .. RawRows - 1
        BY <1>2, StepNumbers
      <4> QED BY <1>2, <4>1
    <3>4. \A j \in 0 .. w.n - 1 : j \in 0 .. RawRows - 1 /\ j < w.n /\ 0 + j = j
      BY <1>2, StepNumbers
    <3>5. \A j \in 0 .. w.n - 1 : f[j] = pos - w.n + j
      BY <1>2, <3>4
    <3>6. ASSUME NEW j \in 0 .. w.n - 1
          PROVE  raw'[g][0 + j] = pos - w.n + j
      <4>1. CASE w.off = 0 \/ w.n = 0
        <5>1. w.n # 0 /\ w.off = 0
          BY <1>2, <3>6, <4>1
        <5>2. raw'[g] = raw[g] /\ raw[g][w.off + j] = pos - w.n + j
          BY <1>2, <3>2, <4>1
        <5> QED BY <5>1, <5>2
      <4>2. CASE ~ (w.off = 0 \/ w.n = 0)
        BY <3>2, <3>4, <3>5, <4>2
      <4> QED BY <4>1, <4>2
    <3>7. raw'[g] \in [0 .. RawRows - 1 -> Values]
      BY <1>2, <3>2, <3>3
    <3>8. 0 + w.n + k <= RawRows
      BY <1>2, StepNumbers
    <3> HIDE DEF f
    <3> QED BY <1>2, <3>1, <3>6, <3>7, <3>8
  <2>2. CASE ~ NeedsCompaction(k)
    <3>1. win' = win /\ raw' = raw
      BY <1>0, <2>2
    <3>2. ~ (win[g].off + win[g].n + k > RawRows)
      BY <2>2 DEF NeedsCompaction
    <3>3. win[g].off + win[g].n + k <= RawRows
      BY <1>2, <3>2, StepNumbers
    <3> QED BY <1>1, <1>2, <3>1, <3>3
  <2> QED BY <2>1, <2>2
<1>4. phase' = "step"
  <2> SUFFICES ASSUME NEW g \in Groups, NEW j \in 0 .. k - 1
               PROVE  ~ (win'[g].off + win'[g].n + j >= RawRows)
    BY <1>0
  <2>1. win'[g].off \in Nat /\ win'[g].n \in Nat /\ win'[g].off + win'[g].n + k <= RawRows
    BY <1>3, StepNumbers
  <2> QED BY <2>1, StepNumbers
<1>5. Done' = 0 /\ Asked' = k
  BY <1>0, <1>4 DEF Done, Asked
<1>6. StepTypeInv'
  <2>1. DOMAIN win' = Groups /\ win' = [g \in Groups |-> win'[g]] /\ DOMAIN raw' = Groups /\ raw' = [g \in Groups |-> raw'[g]]
    BY <1>0, <1>1 DEF CompactRaw
  <2>2. win' \in [Groups -> [off : Nat, n : 0 .. SwaWindow]] /\ raw' \in [Groups -> [0 .. RawRows - 1 -> Values]]
    BY <1>3, <2>1
  <2>3. size' \in 0 .. MaxRows /\ ran' \in 0 .. size'
    BY <1>0, <1>1, StepNumbers
  <2> QED BY <1>0, <1>4, <2>2, <2>3 DEF StepTypeInv, Cap, Blocks
<1>7. RawInv'
  <2> SUFFICES ASSUME NEW g \in Groups
               PROVE  /\ win'[g].n <= pos /\ win'[g].off + win'[g].n + k <= RawRows
                      /\ g = "enc" => win'[g].n = Least2(pos, SwaWindow)
                      /\ \A j \in 0 .. win'[g].n + 0 - 1 : raw'[g][win'[g].off + j] = pos - win'[g].n + j
    BY <1>0, <1>5 DEF RawInv
  <2>1. win[g].n + 0 - 1 = win[g].n - 1
    BY <1>2
  <2> QED BY <1>2, <1>3, <2>1
<1>8. CompInv'
  <2> SUFFICES ASSUME NEW si \in Stores
               PROVE  /\ nComp[si] = pos \div Ratio[si] /\ (pos + k) \div Ratio[si] <= Cap(si)
                      /\ \A i \in 0 .. (pos + 0) \div Ratio[si] - 1 :
                           comp[si][i] = (Ratio[si] * i) .. (Ratio[si] * i + Ratio[si] - 1)
    BY <1>0, <1>5 DEF CompInv, Cap
  <2>1. /\ nComp[si] = pos \div Ratio[si] /\ (pos + 0) \div Ratio[si] <= Cap(si)
        /\ \A i \in 0 .. (pos + 0) \div Ratio[si] - 1 :
             comp[si][i] = (Ratio[si] * i) .. (Ratio[si] * i + Ratio[si] - 1)
    BY <1>0, <1>1 DEF CompInv
  <2> DEFINE R == Ratio[si]
             m == (pos + k) \div R
             e == R * m - 1
             j == e - pos
  <2>2. R \in Nat \ {0} /\ Cap(si) \in Nat /\ pos + k \in Nat /\ pos + 0 = pos
    BY <1>1, StepNumbers
  <2>3. m \in Nat /\ pos \div R \in Nat /\ R * m \in Nat /\ pos + k >= R * m
    <3>1. m \in Nat /\ pos \div R \in Nat
      <4> HIDE DEF R
      <4> QED BY <1>1, <2>2, DivMod
    <3> HIDE DEF R
    <3>2. pos + k >= R * m
      <4>1. m >= m
        BY <3>1
      <4>2. m \in Int
        BY <3>1
      <4> QED BY <2>2, <4>1, <4>2, DivAtLeast
    <3> HIDE DEF m
    <3> QED BY <2>2, <3>1, <3>2
  <2>4. ASSUME m > Cap(si) PROVE FALSE
    <3>1. ~ (pos \div R >= m)
      BY <2>1, <2>2, <2>3, <2>4
    <3> HIDE DEF R
    <3>2. ~ (pos >= R * m)
      BY <1>1, <2>2, <2>3, <3>1, DivAtLeast
    <3> HIDE DEF m
    <3>3. e \in Nat /\ j \in 0 .. k - 1 /\ pos + j = e /\ e + 1 = R * m
      BY <1>1, <2>2, <2>3, <3>2
    <3>4. (e + 1) % R = 0
      <4>1. e + 1 = R * m + 0 /\ 0 \in 0 .. R - 1 /\ e + 1 \in Nat
        BY <2>2, <2>3, <3>3
      <4> HIDE DEF e
      <4> QED BY <2>2, <2>3, <4>1, DivIs
    <3>5. e \div R = m - 1
      <4>1. (e + 1) \div R = m
        <5>1. e + 1 = R * m + 0 /\ 0 \in 0 .. R - 1 /\ e + 1 \in Nat
          BY <2>2, <2>3, <3>3
        <5> HIDE DEF e
        <5> QED BY <2>2, <2>3, <5>1, DivIs
      <4> HIDE DEF e
      <4>2. (e + 1) \div R = (e \div R) + 1 /\ e \div R \in Nat
        BY <2>2, <3>3, <3>4, DivLast, DivMod
      <4> QED BY <2>3, <4>1, <4>2
    <3>6. Fires(pos + j, si) => CompAt(si, j) < Cap(si)
      BY <1>0, <3>3 DEF CanStepRows
    <3> HIDE DEF j
    <3>7. CompAt(si, j) = (pos + j) \div R
      <4>1. j \in Nat /\ phase # "empty"
        BY <1>0, <3>3
      <4> QED BY <4>1, CompAtIs DEF R
    <3> HIDE DEF e
    <3>8. Fires(pos + j, si)
      BY <3>3, <3>4 DEF Fires, R
    <3>9. m - 1 < Cap(si)
      BY <3>3, <3>5, <3>6, <3>7, <3>8
    <3> QED BY <2>2, <2>3, <2>4, <3>9
  <2>5. m <= Cap(si)
    BY <2>2, <2>3, <2>4
  <2> QED BY <2>1, <2>5
<1>9. BlockInv'
  <2>1. \A si \in Stores : \A q \in (Ratio[si] * (pos \div Ratio[si])) .. (pos + 0 - 1) :
          block[si][BlockOf(si, q)][q % Ratio[si]] = q
    BY <1>0, <1>1 DEF BlockInv
  <2> QED BY <1>0, <1>5, <2>1 DEF BlockInv, BlockOf
<1>10. SeenInv' /\ PooledInv'
  <2>1. 1 .. ran' = {}
    BY <1>0
  <2> QED BY <1>0, <2>1 DEF SeenInv, PooledInv
<1> QED BY <1>6, <1>7, <1>8, <1>9, <1>10

LEMMA LeaveOk == StepInv /\ Leave => StepInv'
<1> SUFFICES ASSUME StepInv, Leave PROVE StepInv'
  OBVIOUS
<1> USE DEF StepInv
<1>1. phase' = "empty"
  BY DEF Leave, Empty
<1>2. StepTypeInv'
  <2>1. 0 \in 0 .. MaxRows /\ 0 \in 0 .. SwaWindow
    BY StepNumbers
  <2>2. None \in Values
    BY DEF Values
  <2> QED BY <2>1, <2>2 DEF StepTypeInv, Leave, Empty, Cap, Blocks
<1>3. PooledInv'
  BY DEF PooledInv, Leave, Empty
<1> QED BY <1>1, <1>2, <1>3 DEF RawInv, CompInv, BlockInv, SeenInv

\* The rows the stream has kept keep their values.
LEMMA LiveKeeps ==
  ASSUME NEW q \in Int, NEW keep \in Nat, pos \in Nat, q < pos + keep
  PROVE  Live(q, keep) = q
BY DEF Live

LEMMA LiveValue ==
  ASSUME NEW q \in Values, NEW keep \in Nat
  PROVE  Live(q, keep) \in Values
BY DEF Live, Values

LEMMA AcceptOk ==
  ASSUME NEW keep \in 1 .. size
  PROVE  StepInv /\ Accept(keep) => StepInv'
<1> SUFFICES ASSUME StepInv, Accept(keep) PROVE StepInv'
  OBVIOUS
<1> USE DEF StepInv
<1>0. /\ phase = "step" /\ ran = size
      /\ pos' = pos + keep
      /\ win' = [g \in Groups |-> WinAt(g, keep)]
      /\ nComp' = [si \in Stores |-> CompAt(si, keep)]
      /\ block' = [si \in Stores |-> [b \in DOMAIN block[si] |-> [x \in DOMAIN block[si][b] |->
             Live(Committed(si, keep)[b][x], keep)]]]
      /\ raw' = [g \in Groups |-> [r \in DOMAIN raw[g] |-> Live(raw[g][r], keep)]]
      /\ comp' = [si \in Stores |-> [i \in DOMAIN comp[si] |-> {Live(q, keep) : q \in comp[si][i]}]]
      /\ phase' = "ready"
      /\ UNCHANGED <<ran, size, seen, pooled>>
  BY DEF Accept, Kept
<1>1. /\ pos \in Nat /\ keep \in Nat /\ keep >= 1 /\ keep <= size /\ size \in Nat /\ size <= MaxRows /\ pos' \in Nat
      /\ Done = size /\ Asked = size /\ Done' = 0 /\ Asked' = 0
  BY <1>0, StepNumbers DEF StepTypeInv, Done, Asked
<1>10. pos' + 0 - 1 \in Int /\ pos' + 0 - 1 < pos' /\ pos' \in Nat /\ pos' + 0 - 1 <= pos'
  <2>1. \A p \in Nat : p + 0 - 1 \in Int /\ p + 0 - 1 < p /\ p + 0 - 1 <= p
    OBVIOUS
  <2> QED BY <1>1, <2>1
<1>2. ASSUME NEW g \in Groups
      PROVE  /\ win'[g] \in [off : Nat, n : 0 .. SwaWindow] /\ win'[g].n <= pos' /\ win'[g].off + win'[g].n + 0 <= RawRows
             /\ g = "enc" => win'[g].n = Least2(pos', SwaWindow)
             /\ raw'[g] \in [0 .. RawRows - 1 -> Values]
             /\ \A j \in 0 .. win'[g].n + 0 - 1 : raw'[g][win'[g].off + j] = pos' - win'[g].n + j
  <2> DEFINE w == win[g]
             v == win'[g]
  <2>1. /\ v \in [off : Nat, n : 0 .. SwaWindow] /\ v.off + v.n = w.off + w.n + keep
        /\ v.n = Least2(w.n + keep, SwaWindow)
    BY <1>0, <1>1, WinFacts
  <2>2. /\ w.off \in Nat /\ w.n \in 0 .. SwaWindow /\ raw[g] \in [0 .. RawRows - 1 -> Values]
    BY DEF StepTypeInv
  <2>3. /\ w.n <= pos /\ w.off + w.n + size <= RawRows /\ (g = "enc" => w.n = Least2(pos, SwaWindow))
        /\ \A j \in 0 .. w.n + size - 1 : raw[g][w.off + j] = pos - w.n + j
    BY <1>0, <1>1 DEF RawInv
  <2>4. raw'[g] = [r \in 0 .. RawRows - 1 |-> Live(raw[g][r], keep)]
    BY <1>0, <2>2
  <2> HIDE DEF v, w
  <2>5. v.off \in Nat /\ v.n \in 0 .. SwaWindow
    BY <2>1
  <2>9. v.n <= w.n + keep /\ v.n <= SwaWindow /\ (v.n = w.n + keep \/ v.n = SwaWindow)
    BY <1>1, <2>1, <2>2, StepNumbers, SMTT(30) DEF Least2
  <2>12. PICK wo \in Nat, wn \in Nat, vo \in Nat, vn \in Nat, p \in Nat, cap \in Nat :
           /\ w.off = wo /\ w.n = wn /\ v.off = vo /\ v.n = vn /\ pos' = p /\ RawRows = cap
           /\ p = pos + keep /\ vo + vn = wo + wn + keep /\ vn <= wn + keep /\ wn <= pos
           /\ wo + wn + size <= cap
    <3>1. w.off \in Nat /\ w.n \in Nat /\ v.off \in Nat /\ v.n \in Nat
      BY <2>2, <2>5, StepNumbers
    <3> QED BY <1>0, <1>1, <2>1, <2>3, <2>9, <3>1, StepNumbers
  <2>13. vn <= p /\ vo + vn + 0 <= cap /\ vo >= wo
    BY <1>1, <2>12
  <2>10. v.n <= pos' /\ v.off + v.n + 0 <= RawRows
    BY <2>12, <2>13
  <2>11. ASSUME g = "enc" PROVE v.n = Least2(pos', SwaWindow)
    <3>1. w.n = Least2(pos, SwaWindow)
      BY <2>3, <2>11
    <3>2. CASE pos < SwaWindow
      <4>1. w.n = pos /\ w.n + keep = pos'
        BY <1>0, <3>1, <3>2 DEF Least2
      <4> QED BY <2>1, <4>1
    <3>3. CASE ~ (pos < SwaWindow)
      <4>1. w.n = SwaWindow
        BY <3>1, <3>3 DEF Least2
      <4>2. ~ (w.n + keep < SwaWindow) /\ ~ (pos' < SwaWindow)
        BY <1>0, <1>1, <3>3, <4>1, StepNumbers
      <4> QED BY <2>1, <4>2 DEF Least2
    <3> QED BY <3>2, <3>3
  <2>6. v.n <= pos' /\ v.off + v.n + 0 <= RawRows /\ (g = "enc" => v.n = Least2(pos', SwaWindow))
    BY <2>10, <2>11
  <2>7. raw'[g] \in [0 .. RawRows - 1 -> Values]
    <3> SUFFICES ASSUME NEW r \in 0 .. RawRows - 1 PROVE Live(raw[g][r], keep) \in Values
      BY <2>4
    <3>1. raw[g][r] \in Values
      BY <2>2
    <3> QED BY <1>1, <3>1, LiveValue
  <2>8. ASSUME NEW j \in 0 .. v.n + 0 - 1
        PROVE  raw'[g][v.off + j] = pos' - v.n + j
    <3> DEFINE i == v.off + j - w.off
    <3>1. /\ i \in 0 .. w.n + size - 1 /\ w.off + i = v.off + j /\ v.off + j \in 0 .. RawRows - 1
          /\ pos - w.n + i = pos' - v.n + j /\ pos - w.n + i < pos + keep /\ pos - w.n + i \in Int
      <4>1. j \in 0 .. vn + 0 - 1 /\ i = vo + j - wo
        BY <2>12
      <4>2. j \in Int /\ 0 <= j /\ j <= vn - 1
        BY <2>12, <4>1
      <4> HIDE DEF i
      <4>3. i \in 0 .. wn + size - 1 /\ wo + i = vo + j /\ vo + j \in 0 .. cap - 1
        BY <1>1, <2>12, <2>13, <4>1, <4>2
      <4>4. pos - wn + i = p - vn + j /\ p - vn + j < pos + keep /\ p - vn + j \in Int
        BY <1>1, <2>12, <4>1, <4>2
      <4> QED BY <2>12, <4>3, <4>4
    <3> HIDE DEF i
    <3>2. raw[g][w.off + i] = pos - w.n + i
      BY <2>3, <3>1
    <3>3. Live(pos - w.n + i, keep) = pos - w.n + i
      BY <1>1, <3>1, LiveKeeps
    <3> QED BY <2>4, <3>1, <3>2, <3>3
  <2> QED BY <2>1, <2>6, <2>7, <2>8 DEF v
<1>3. RawInv'
  BY <1>0, <1>1, <1>2 DEF RawInv
<1>4. ASSUME NEW si \in Stores
      PROVE  /\ comp'[si] \in [0 .. Cap(si) - 1 -> SUBSET Values]
             /\ nComp'[si] = pos' \div Ratio[si] /\ nComp'[si] \in Nat /\ (pos' + 0) \div Ratio[si] <= Cap(si)
             /\ \A i \in 0 .. (pos' + 0) \div Ratio[si] - 1 :
                  comp'[si][i] = (Ratio[si] * i) .. (Ratio[si] * i + Ratio[si] - 1)
  <2> DEFINE R == Ratio[si]
             m == pos' \div R
  <2>1. R \in Nat \ {0} /\ Cap(si) \in Nat /\ pos' + 0 = pos' /\ pos + size \in Nat /\ pos' <= pos + size
    BY <1>0, <1>1, StepNumbers
  <2>2. comp[si] \in [0 .. Cap(si) - 1 -> SUBSET Values]
    BY DEF StepTypeInv
  <2>3. /\ (pos + size) \div R <= Cap(si)
        /\ \A i \in 0 .. (pos + size) \div R - 1 : comp[si][i] = (R * i) .. (R * i + R - 1)
    BY <1>0, <1>1 DEF CompInv
  <2>4. nComp'[si] = m
    BY <1>0, <1>1, CompAtIs
  <2>5. comp'[si] = [i \in 0 .. Cap(si) - 1 |-> {Live(q, keep) : q \in comp[si][i]}]
    BY <1>0, <2>2
  <2> HIDE DEF R
  <2>6. m \in Nat /\ (pos + size) \div R \in Nat /\ m <= (pos + size) \div R
    BY <1>1, <2>1, DivMod, DivMono
  <2>7. comp'[si] \in [0 .. Cap(si) - 1 -> SUBSET Values]
    <3> SUFFICES ASSUME NEW i \in 0 .. Cap(si) - 1, NEW q \in comp[si][i] PROVE Live(q, keep) \in Values
      BY <2>5
    <3>1. q \in Values
      BY <2>2
    <3> QED BY <1>1, <3>1, LiveValue
  <2>8. ASSUME NEW i \in 0 .. m - 1
        PROVE  comp'[si][i] = (R * i) .. (R * i + R - 1)
    <3>1. i \in 0 .. (pos + size) \div R - 1 /\ i \in 0 .. Cap(si) - 1 /\ m >= i + 1 /\ i + 1 \in Int
      BY <2>1, <2>3, <2>6
    <3>2. pos' >= R * (i + 1)
      BY <1>1, <2>1, <3>1, DivAtLeast
    <3>3. R * i \in Nat /\ R * (i + 1) = R * i + R
      BY <2>1
    <3>4. \A q \in (R * i) .. (R * i + R - 1) : q \in Int /\ q < pos + keep
      BY <1>0, <1>1, <2>1, <3>2, <3>3
    <3>5. \A q \in (R * i) .. (R * i + R - 1) : Live(q, keep) = q
      BY <1>1, <3>4, LiveKeeps
    <3>6. comp'[si][i] = {Live(q, keep) : q \in (R * i) .. (R * i + R - 1)}
      BY <2>3, <2>5, <3>1
    <3> QED BY <3>5, <3>6
  <2> HIDE DEF m
  <2> QED BY <2>1, <2>3, <2>4, <2>6, <2>7, <2>8 DEF R, m
<1>5. CompInv'
  BY <1>0, <1>1, <1>4 DEF CompInv, Cap
<1>6. ASSUME NEW si \in Stores
      PROVE  /\ block'[si] \in [0 .. Blocks(si) - 1 -> [0 .. Ratio[si] - 1 -> Values]]
             /\ \A q \in (Ratio[si] * (pos' \div Ratio[si])) .. (pos' + 0 - 1) :
                  block'[si][q \div Ratio[si] - pos' \div Ratio[si]][q % Ratio[si]] = q
  <2> DEFINE R == Ratio[si]
             C == Committed(si, keep)
             rel == (pos + keep - 1) \div R - pos \div R
  <2>1. block[si] \in [0 .. Blocks(si) - 1 -> [0 .. R - 1 -> Values]] /\ 0 \in 0 .. Blocks(si) - 1
    BY StepNumbers DEF StepTypeInv
  <2>2. R \in Nat \ {0} /\ pos + keep - 1 \in Nat /\ pos' = (pos + keep - 1) + 1
    BY <1>0, <1>1, StepNumbers
  <2>3. C = IF pos' % R = 0 \/ rel = 0 THEN block[si] ELSE [block[si] EXCEPT ![0] = block[si][rel]]
    BY <1>0 DEF Committed
  <2>4. block'[si] = [b \in 0 .. Blocks(si) - 1 |-> [x \in 0 .. R - 1 |-> Live(C[b][x], keep)]]
    BY <1>0, <2>1
  <2>5. rel \in 0 .. Blocks(si) - 1 /\ (pos + keep - 1) \div R \in Nat /\ pos \div R \in Nat
    <3>1. pos \div R \in Nat /\ pos >= R * (pos \div R) /\ R * (pos \div R) \in Nat
      <4>1. R \in Nat \ {0}
        BY <2>2
      <4> HIDE DEF R
      <4>2. pos \div R \in Nat
        BY <1>1, <4>1, DivMod
      <4>3. pos >= R * (pos \div R)
        BY <1>1, <4>1, <4>2, DivAtLeast
      <4> QED BY <4>1, <4>2, <4>3
    <3>2. pos + keep - 1 \in (R * (pos \div R)) .. (pos + MaxRows - 1)
      BY <1>1, <2>2, <3>1, StepNumbers
    <3>3. BlockOf(si, pos + keep - 1) \in 0 .. Blocks(si) - 1
      BY <3>2, BlockFacts
    <3>4. (pos + keep - 1) \div R \in Nat
      BY <2>2, DivMod
    <3> QED BY <3>1, <3>3, <3>4 DEF BlockOf
  <2> HIDE DEF C
  <2>6. C \in [0 .. Blocks(si) - 1 -> [0 .. R - 1 -> Values]]
    BY <2>1, <2>3, <2>5
  <2>7. block'[si] \in [0 .. Blocks(si) - 1 -> [0 .. R - 1 -> Values]]
    <3> SUFFICES ASSUME NEW b \in 0 .. Blocks(si) - 1, NEW x \in 0 .. R - 1 PROVE Live(C[b][x], keep) \in Values
      BY <2>4
    <3>1. C[b][x] \in Values
      BY <2>6
    <3> QED BY <1>1, <3>1, LiveValue
  <2>8. ASSUME NEW q \in (R * (pos' \div R)) .. (pos' + 0 - 1)
        PROVE  block'[si][q \div R - pos' \div R][q % R] = q
    <3> DEFINE m == pos' \div R
    <3>1. m \in Nat /\ R * m \in Nat /\ pos' >= R * m
      <4>1. R \in Nat \ {0}
        BY <2>2
      <4> HIDE DEF R
      <4>2. m \in Nat
        BY <1>1, <4>1, DivMod
      <4>4. pos' \div R >= m /\ m \in Int
        BY <4>2
      <4>3. pos' >= R * m
        <5> HIDE DEF m
        <5> QED BY <1>1, <4>1, <4>4, DivAtLeast
      <4> HIDE DEF m
      <4> QED BY <4>1, <4>2, <4>3
    <3>2. q \in Nat /\ q < pos' /\ q >= R * m /\ q <= pos'
      <4>1. q \in (R * m) .. (pos' + 0 - 1)
        OBVIOUS
      <4> DEFINE a == R * m
      <4>2. a \in Nat /\ q \in a .. (pos' + 0 - 1)
        BY <3>1, <4>1
      <4> DEFINE b == pos' + 0 - 1
      <4>3. b \in Int /\ b < pos' /\ b <= pos' /\ pos' \in Nat
        BY <1>10, Zenon
      <4> HIDE DEF a, b
      <4>4. a \in Nat /\ q \in a .. b
        BY <4>2 DEF b
      <4>5. q \in Nat /\ q >= a /\ q <= b
        BY <4>3, <4>4
      <4>6. q < pos' /\ q <= pos'
        BY <4>3, <4>5
      <4> QED BY <4>5, <4>6 DEF a
    <3>3. R \in Nat \ {0} /\ pos' \in Nat
      BY <1>1, <2>2
    <3>4. q \div R = m
      <4>1. q \div R >= m
        <5> HIDE DEF R, m
        <5> QED BY <3>1, <3>2, <3>3, DivAtLeast
      <4>2. q \div R <= m /\ q \div R \in Nat
        <5> HIDE DEF R
        <5> QED BY <3>2, <3>3, DivMono, DivMod
      <4> QED BY <3>1, <4>1, <4>2
    <3>5. pos' % R # 0
      <4> SUFFICES ASSUME pos' % R = 0 PROVE FALSE
        OBVIOUS
      <4>1. pos' = R * m
        <5> HIDE DEF R
        <5>1. pos' = R * m + (pos' % R)
          BY <3>3, DivMod
        <5> DEFINE y == pos' % R
                   a == R * m
        <5>2. pos' = a + y /\ y = 0 /\ a \in Nat
          BY <3>1, <5>1
        <5> HIDE DEF y, a
        <5>3. pos' = a
          BY <5>2
        <5> QED BY <5>3 DEF a
      <4> HIDE DEF m, R
      <4> QED BY <3>2, <4>1
    <3>6. (pos + keep - 1) \div R = m
      <4> DEFINE e == pos + keep - 1
      <4>1. e \in Nat /\ (e + 1) % R # 0 /\ m = (e + 1) \div R
        BY <2>2, <3>5
      <4> HIDE DEF e, m, R
      <4>2. (e + 1) \div R = e \div R
        BY <3>3, <4>1, DivLast
      <4> QED BY <4>1, <4>2 DEF e
    <3>7. pos \div R <= m /\ R * m >= R * (pos \div R)
      <4>1. pos \div R <= m
        <5>1. pos <= pos'
          BY <1>0, <1>1
        <5> HIDE DEF R
        <5> QED BY <1>1, <3>3, <5>1, DivMono
      <4>2. pos \div R \in Nat
        BY <2>5
      <4> DEFINE a == pos \div R
      <4> HIDE DEF R, m, a
      <4>3. a \in Nat /\ a <= m
        BY <4>1, <4>2 DEF a
      <4>4. R * m >= R * a
        BY <3>1, <3>3, <4>3
      <4> QED BY <4>1, <4>4 DEF a
    <3>8. q \in (R * (pos \div R)) .. (pos + size - 1)
      <4>1. R * (pos \div R) \in Nat
        <5>1. pos \div R \in Nat
          BY <2>5
        <5> HIDE DEF R
        <5> QED BY <3>3, <5>1
      <4> DEFINE a == R * (pos \div R)
                 b == R * m
      <4>2. a \in Nat /\ b \in Nat /\ b >= a /\ q >= b /\ q < pos'
        BY <3>1, <3>2, <3>7, <4>1
      <4> HIDE DEF a, b
      <4>3. q \in a .. (pos + size - 1)
        BY <1>0, <1>1, <3>2, <4>2
      <4> QED BY <4>3 DEF a
    <3>9. block[si][BlockOf(si, q)][q % R] = q
      BY <1>0, <1>1, <3>8 DEF BlockInv
    <3>10. BlockOf(si, q) = rel
      BY <3>4, <3>6 DEF BlockOf
    <3>11. q % R \in 0 .. R - 1 /\ m - m = 0
      <4> HIDE DEF m, R
      <4> QED BY <3>1, <3>2, <3>3, DivMod
    <3>12. C[0][q % R] = q
      <4>1. CASE rel = 0
        BY <2>3, <3>9, <3>10, <4>1
      <4>2. CASE rel # 0
        <5>1. C = [block[si] EXCEPT ![0] = block[si][rel]]
          BY <2>3, <3>5, <4>2
        <5>2. C[0] = block[si][rel]
          BY <2>1, <5>1
        <5> QED BY <3>9, <3>10, <5>2
      <4> QED BY <4>1, <4>2
    <3>13. Live(q, keep) = q
      <4>1. q \in Int /\ q < pos + keep
        BY <1>0, <3>2
      <4> QED BY <1>1, <4>1, LiveKeeps
    <3>14. block'[si][0][q % R] = Live(C[0][q % R], keep)
      BY <2>1, <2>4, <3>11
    <3> HIDE DEF rel
    <3> QED BY <3>4, <3>11, <3>12, <3>13, <3>14
  <2> QED BY <2>7, <2>8
<1>7. BlockInv'
  BY <1>0, <1>1, <1>6 DEF BlockInv, BlockOf
<1>8. StepTypeInv'
  <2>1. win' \in [Groups -> [off : Nat, n : 0 .. SwaWindow]] /\ raw' \in [Groups -> [0 .. RawRows - 1 -> Values]]
    <3>1. DOMAIN win' = Groups /\ win' = [g \in Groups |-> win'[g]] /\ DOMAIN raw' = Groups /\ raw' = [g \in Groups |-> raw'[g]]
      BY <1>0
    <3> QED BY <1>2, <3>1
  <2>2. nComp' \in [Stores -> Nat]
    <3>1. DOMAIN nComp' = Stores /\ nComp' = [si \in Stores |-> nComp'[si]]
      BY <1>0
    <3> QED BY <1>4, <3>1
  <2>3. DOMAIN comp' = Stores /\ DOMAIN block' = Stores
    BY <1>0
  <2>4. ran' \in 0 .. size' /\ size' \in 0 .. MaxRows
    BY <1>0 DEF StepTypeInv
  <2> QED BY <1>0, <1>1, <1>4, <1>6, <2>1, <2>2, <2>3, <2>4 DEF StepTypeInv, Cap, Blocks
<1>9. SeenInv' /\ PooledInv'
  BY <1>0 DEF SeenInv, PooledInv
<1> QED BY <1>3, <1>5, <1>7, <1>8, <1>9
(***************************************************************************)
(* A stream's steps: what a lane writes                                    *)
(***************************************************************************)
\* Lane's local definitions: the raw region, the accumulator blocks and the
\* groups pooled once rows ran .. c - 1 have run.
LaneRaw(g, c) ==
  [r \in DOMAIN raw[g] |->
     IF \E j \in ran .. (c - 1) : r = WinAt(g, j).off + WinAt(g, j).n
     THEN pos + (CHOOSE j \in ran .. (c - 1) : r = WinAt(g, j).off + WinAt(g, j).n) ELSE raw[g][r]]
LaneHere(si, c, b, x) == {j \in ran .. (c - 1) : BlockOf(si, pos + j) = b /\ (pos + j) % Ratio[si] = x}
LaneBlock(si, c) ==
  [b \in DOMAIN block[si] |-> [x \in DOMAIN block[si][b] |->
     IF LaneHere(si, c, b, x) # {}
     THEN pos + (CHOOSE j \in LaneHere(si, c, b, x) : \A i \in LaneHere(si, c, b, x) : i <= j)
     ELSE block[si][b][x]]]
LaneFired(si, c) == {j \in ran .. (c - 1) : Fires(pos + j, si)}
LaneGroup(si, c, j) == {LaneBlock(si, c)[BlockOf(si, pos + j)][x] : x \in 0 .. (Ratio[si] - 1)}
LaneComp(si, c) ==
  [i \in DOMAIN comp[si] |->
     IF \E j \in LaneFired(si, c) : i = CompAt(si, j)
     THEN LaneGroup(si, c, CHOOSE j \in LaneFired(si, c) : i = CompAt(si, j)) ELSE comp[si][i]]

LEMMA LaneIs ==
  ASSUME NEW c, Lane(c)
  PROVE  /\ phase = "step" /\ ran < c /\ ran' = c
         /\ raw' = [g \in Groups |-> LaneRaw(g, c)]
         /\ seen' = [g \in Groups |-> [j \in 1 .. c |->
              IF j <= ran THEN seen[g][j] ELSE {LaneRaw(g, c)[r] : r \in RowWindow(g, j - 1)}]]
         /\ block' = [si \in Stores |-> LaneBlock(si, c)]
         /\ comp' = [si \in Stores |-> LaneComp(si, c)]
         /\ pooled' = pooled \cup UNION {{<<si, pos + j, LaneGroup(si, c, j)>> : j \in LaneFired(si, c)} : si \in Stores}
         /\ UNCHANGED <<phase, pos, win, nComp, size>>
BY Zenon DEF Lane, LaneRaw, LaneHere, LaneBlock, LaneFired, LaneGroup, LaneComp

LEMMA LaneRawIs ==
  ASSUME StepTypeInv, RawInv, phase = "step", NEW c \in 1 .. size, ran < c, NEW g \in Groups
  PROVE  /\ LaneRaw(g, c) \in [0 .. RawRows - 1 -> Values]
         /\ \A i \in 0 .. win[g].n + c - 1 : LaneRaw(g, c)[win[g].off + i] = pos - win[g].n + i
<1> DEFINE o == win[g].off
           n == win[g].n
           Row(j) == WinAt(g, j).off + WinAt(g, j).n
<1>1. /\ o \in Nat /\ n \in Nat /\ ran \in Nat /\ c \in Nat /\ pos \in Nat /\ c <= size /\ size \in Nat
      /\ raw[g] \in [0 .. RawRows - 1 -> Values]
  BY StepNumbers DEF StepTypeInv
<1>2. /\ o + n + size <= RawRows /\ \A i \in 0 .. n + ran - 1 : raw[g][o + i] = pos - n + i
  BY DEF RawInv, Done, Asked
<1>3. \A j \in ran .. c - 1 : j \in Nat /\ Row(j) = o + n + j
  BY <1>1, WinFacts
<1> DEFINE Ch(r) == CHOOSE j \in ran .. c - 1 : r = Row(j)
<1>4. LaneRaw(g, c) = [r \in 0 .. RawRows - 1 |->
        IF \E j \in ran .. c - 1 : r = Row(j) THEN pos + Ch(r) ELSE raw[g][r]]
  BY <1>1 DEF LaneRaw
<1> HIDE DEF Row, o, n
<1>5. ASSUME NEW r, NEW j \in ran .. c - 1, r = Row(j)
      PROVE  Ch(r) = j
  <2>1. ASSUME NEW i \in ran .. c - 1, r = Row(i) PROVE i = j
    <3>1. o + n + i = o + n + j
      BY <1>3, <1>5, <2>1
    <3>2. i \in Nat /\ j \in Nat
      BY <1>3
    <3> QED BY <1>1, <3>1, <3>2
  <2> QED BY <1>5, <2>1
<1> HIDE DEF Ch
<1>6. LaneRaw(g, c) \in [0 .. RawRows - 1 -> Values]
  <2>1. ASSUME NEW r \in 0 .. RawRows - 1
        PROVE  (IF \E j \in ran .. c - 1 : r = Row(j) THEN pos + Ch(r) ELSE raw[g][r]) \in Values
    <3>1. ASSUME NEW j \in ran .. c - 1, r = Row(j)
          PROVE  pos + Ch(r) \in Values
      <4>1. pos + j \in Nat /\ Ch(r) = j
        BY <1>1, <1>3, <1>5, <3>1
      <4> QED BY <4>1 DEF Values
    <3>2. raw[g][r] \in Values
      BY <1>1
    <3> QED BY <3>1, <3>2
  <2> QED BY <1>4, <2>1
<1>7. ASSUME NEW i \in 0 .. n + c - 1
      PROVE  LaneRaw(g, c)[o + i] = pos - n + i
  <2>1. o + i \in 0 .. RawRows - 1
    BY <1>1, <1>2, StepNumbers
  <2>2. CASE i \in 0 .. n + ran - 1
    <3>1. ~ \E j \in ran .. c - 1 : o + i = Row(j)
      BY <1>1, <1>3, <2>2
    <3> QED BY <1>2, <1>4, <2>1, <2>2, <3>1
  <2>3. CASE i \notin 0 .. n + ran - 1
    <3>1. i - n \in ran .. c - 1 /\ o + i = o + n + (i - n) /\ pos + (i - n) = pos - n + i
      <4>0. o \in Nat /\ n \in Nat /\ c \in Nat /\ ran \in Nat /\ pos \in Nat
        BY <1>1
      <4>1. i \in Nat /\ i >= n + ran /\ i <= n + c - 1
        BY <2>3, <4>0
      <4> QED BY <4>0, <4>1
    <3>2. o + i = Row(i - n)
      BY <1>3, <3>1
    <3>3. LaneRaw(g, c)[o + i] = pos + Ch(o + i)
      BY <1>4, <2>1, <3>1, <3>2
    <3>4. Ch(o + i) = i - n
      BY <1>5, <3>1, <3>2
    <3> QED BY <3>1, <3>3, <3>4
  <2> QED BY <2>2, <2>3
<1> QED BY <1>6, <1>7 DEF o, n

\* The row's window holds the positions up to the row's own.
LEMMA LaneSeenIs ==
  ASSUME StepTypeInv, RawInv, phase = "step", NEW c \in 1 .. size, ran < c, NEW g \in Groups,
         NEW j \in 1 .. c
  PROVE  {LaneRaw(g, c)[r] : r \in RowWindow(g, j - 1)}
           = (pos + j - Least2(win[g].n + j, SwaWindow)) .. (pos + j - 1)
<1> DEFINE o == win[g].off
           n == win[g].n
           m == Least2(n + j, SwaWindow)
           w == WinAt(g, j - 1)
           L == LaneRaw(g, c)
<1>1. /\ o \in Nat /\ n \in Nat /\ c \in Nat /\ pos \in Nat /\ j \in Nat /\ j >= 1 /\ j <= c /\ j - 1 \in Nat
      /\ n <= SwaWindow
  BY StepNumbers DEF StepTypeInv
<1>2. w.off \in Nat /\ w.n \in Nat /\ w.off + w.n = o + n + (j - 1) /\ w.n = Least2(n + (j - 1), SwaWindow)
  BY <1>1, WinFacts, StepNumbers, SMTT(30)
<1>3. \A i \in 0 .. n + c - 1 : L[o + i] = pos - n + i
  BY LaneRawIs
<1>4. RowWindow(g, j - 1) = (w.off + w.n + 1 - (IF w.n + 1 < SwaWindow THEN w.n + 1 ELSE SwaWindow)) .. (w.off + w.n)
  BY DEF RowWindow
<1> HIDE DEF o, n, w, L
<1>5. m \in Nat /\ m <= n + j /\ (IF w.n + 1 < SwaWindow THEN w.n + 1 ELSE SwaWindow) = m
  BY <1>1, <1>2, StepNumbers DEF Least2
<1> HIDE DEF m
<1>6. RowWindow(g, j - 1) = (o + (n + j - m)) .. (o + (n + j - 1))
  <2>1. w.off + w.n + 1 - m = o + (n + j - m) /\ w.off + w.n = o + (n + j - 1)
    BY <1>1, <1>2, <1>5
  <2> QED BY <1>4, <1>5, <2>1
<1>7. ASSUME NEW r \in RowWindow(g, j - 1)
      PROVE  L[r] \in (pos + j - m) .. (pos + j - 1)
  <2>1. r - o \in 0 .. n + c - 1 /\ r = o + (r - o) /\ pos - n + (r - o) \in (pos + j - m) .. (pos + j - 1)
    BY <1>1, <1>5, <1>6, SMTT(30)
  <2> QED BY <1>3, <2>1
<1>8. ASSUME NEW q \in (pos + j - m) .. (pos + j - 1)
      PROVE  \E r \in RowWindow(g, j - 1) : L[r] = q
  <2> DEFINE i == q - pos + n
  <2>1. i \in 0 .. n + c - 1 /\ o + i \in (o + (n + j - m)) .. (o + (n + j - 1)) /\ pos - n + i = q
    BY <1>1, <1>5
  <2> HIDE DEF i
  <2> QED BY <1>3, <1>6, <2>1
<1>9. {L[r] : r \in RowWindow(g, j - 1)} = (pos + j - m) .. (pos + j - 1)
  BY <1>7, <1>8
<1> QED BY <1>9 DEF L, m, n

\* The open group starts at or before the stream's next position.
LEMMA OpenGroup ==
  ASSUME StepTypeInv, NEW si \in Stores
  PROVE  /\ Ratio[si] \in Nat \ {0} /\ pos \in Nat /\ pos \div Ratio[si] \in Nat
         /\ Ratio[si] * (pos \div Ratio[si]) \in Nat /\ pos >= Ratio[si] * (pos \div Ratio[si])
<1> DEFINE R == Ratio[si]
           m == pos \div R
<1>1. pos \in Nat /\ R \in Nat \ {0}
  BY StepNumbers DEF StepTypeInv
<1> HIDE DEF R
<1>2. m \in Nat /\ m \in Int /\ m >= m
  BY <1>1, DivMod
<1>3. pos >= R * m
  BY <1>1, <1>2, DivAtLeast
<1> HIDE DEF m
<1>4. R * m \in Nat
  BY <1>1, <1>2
<1> QED BY <1>1, <1>2, <1>3, <1>4 DEF R, m

LEMMA LaneBlockIs ==
  ASSUME StepTypeInv, BlockInv, phase = "step", NEW c \in 1 .. size, ran < c, NEW si \in Stores
  PROVE  /\ LaneBlock(si, c) \in [0 .. Blocks(si) - 1 -> [0 .. Ratio[si] - 1 -> Values]]
         /\ \A q \in (Ratio[si] * (pos \div Ratio[si])) .. (pos + c - 1) :
              LaneBlock(si, c)[BlockOf(si, q)][q % Ratio[si]] = q
<1> DEFINE R == Ratio[si]
           a == R * (pos \div R)
           here(b, x) == LaneHere(si, c, b, x)
           Ch(b, x) == CHOOSE j \in here(b, x) : \A i \in here(b, x) : i <= j
<1>1. /\ pos \in Nat /\ R \in Nat \ {0} /\ pos \div R \in Nat /\ a \in Nat /\ a <= pos
  BY OpenGroup
<1>2. /\ ran \in Nat /\ c \in Nat /\ c <= size /\ size \in Nat /\ size <= MaxRows /\ ran < c
      /\ block[si] \in [0 .. Blocks(si) - 1 -> [0 .. R - 1 -> Values]]
  BY StepNumbers DEF StepTypeInv
<1>3. LaneBlock(si, c) = [b \in 0 .. Blocks(si) - 1 |-> [x \in 0 .. R - 1 |->
        IF here(b, x) # {} THEN pos + Ch(b, x) ELSE block[si][b][x]]]
  BY <1>2 DEF LaneBlock
<1>4. \A q \in a .. (pos + ran - 1) : block[si][BlockOf(si, q)][q % R] = q
  BY DEF BlockInv, Done
<1>5. \A q : BlockOf(si, q) = q \div R - pos \div R
  BY DEF BlockOf
<1>6. \A b, x : here(b, x) = {j \in ran .. c - 1 : BlockOf(si, pos + j) = b /\ (pos + j) % R = x}
  BY DEF LaneHere
<1> HIDE DEF here, R
\* A position has a row of a block of its own.
<1>7. ASSUME NEW p \in Nat, NEW q \in Nat, BlockOf(si, p) = BlockOf(si, q), p % R = q % R
      PROVE  p = q
  <2>1. p \div R \in Nat /\ q \div R \in Nat
    BY <1>1, DivMod
  <2>2. p \div R = q \div R
    BY <1>1, <1>5, <1>7, <2>1
  <2> QED BY <1>1, <1>7, <2>2, DivSame
<1>8. ASSUME NEW b, NEW x, NEW j \in here(b, x)
      PROVE  here(b, x) = {j} /\ Ch(b, x) = j /\ j \in Nat /\ j \in ran .. c - 1
  <2>1. j \in ran .. c - 1 /\ BlockOf(si, pos + j) = b /\ (pos + j) % R = x
    BY <1>6
  <2>2. j \in Nat
    BY <1>2, <2>1
  <2>3. ASSUME NEW i \in here(b, x) PROVE i = j
    <3>1. i \in ran .. c - 1 /\ BlockOf(si, pos + i) = b /\ (pos + i) % R = x
      BY <1>6
    <3>2. pos + i \in Nat /\ pos + j \in Nat /\ i \in Nat
      BY <1>1, <1>2, <2>2, <3>1
    <3>3. pos + i = pos + j
      BY <1>7, <2>1, <3>1, <3>2
    <3> QED BY <1>1, <2>2, <3>2, <3>3
  <2>4. here(b, x) = {j}
    BY <2>3
  <2>5. \A i \in here(b, x) : i <= j
    BY <2>2, <2>4
  <2>6. Ch(b, x) \in here(b, x)
    BY <2>5
  <2> QED BY <2>1, <2>2, <2>4, <2>6
<1> HIDE DEF Ch
<1>9. ASSUME NEW b \in 0 .. Blocks(si) - 1, NEW x \in 0 .. R - 1
      PROVE  (IF here(b, x) # {} THEN pos + Ch(b, x) ELSE block[si][b][x]) \in Values
  <2>1. ASSUME NEW j \in here(b, x) PROVE pos + Ch(b, x) \in Values
    BY <1>1, <1>8 DEF Values
  <2>2. block[si][b][x] \in Values
    BY <1>2
  <2> QED BY <2>1, <2>2
<1>10. ASSUME NEW q \in a .. (pos + c - 1)
       PROVE  LaneBlock(si, c)[BlockOf(si, q)][q % R] = q
  <2>1. q \in a .. (pos + MaxRows - 1)
    <3> HIDE DEF a
    <3>1. q \in Int /\ a <= q /\ q <= pos + c - 1
      BY <1>1, <1>2
    <3> QED BY <1>1, <1>2, <3>1, StepNumbers
  <2>2. q \in Nat /\ BlockOf(si, q) \in 0 .. Blocks(si) - 1 /\ q % R \in 0 .. R - 1
    <3> USE DEF R
    <3> QED BY <2>1, BlockFacts
  <2> DEFINE b == BlockOf(si, q)
             x == q % R
  <2>3. LaneBlock(si, c)[b][x] = IF here(b, x) # {} THEN pos + Ch(b, x) ELSE block[si][b][x]
    BY <1>3, <2>2
  <2> HIDE DEF a
  <2>4. q \in a .. (pos + c - 1) /\ q >= a /\ q <= pos + c - 1
    BY <1>1, <1>2, <2>2
  <2>5. CASE q < pos + ran
    <3>1. q \in a .. (pos + ran - 1)
      BY <1>1, <1>2, <2>2, <2>4, <2>5
    <3>2. ASSUME NEW j \in here(b, x) PROVE FALSE
      <4>1. j \in ran .. c - 1 /\ BlockOf(si, pos + j) = b /\ (pos + j) % R = x
        BY <1>6
      <4> HIDE DEF b, x
      <4>2. pos + j \in Nat /\ j >= ran /\ j \in Nat
        BY <1>1, <1>2, <4>1
      <4>3. pos + j = q
        BY <1>7, <2>2, <4>1, <4>2 DEF b, x
      <4> QED BY <1>1, <1>2, <2>2, <2>5, <4>2, <4>3
    <3>3. block[si][b][x] = q
      BY <1>4, <3>1
    <3> HIDE DEF b, x
    <3>4. here(b, x) = {}
      BY <3>2
    <3>5. LaneBlock(si, c)[b][x] = q
      BY <2>3, <3>3, <3>4
    <3> QED BY <3>5 DEF b, x
  <2>6. CASE ~ (q < pos + ran)
    <3>1. q - pos \in ran .. c - 1 /\ pos + (q - pos) = q
      <4> HIDE DEF b, x
      <4>0. pos \in Nat /\ ran \in Nat /\ c \in Nat /\ q \in Nat
        BY <1>1, <1>2, <2>2
      <4>1. q \in Int /\ q >= pos + ran /\ q <= pos + c - 1
        BY <2>4, <2>6, <4>0
      <4> QED BY <4>0, <4>1
    <3>2. q - pos \in here(b, x)
      BY <1>6, <3>1
    <3> HIDE DEF b, x
    <3>3. Ch(b, x) = q - pos
      BY <1>8, <3>2
    <3>4. LaneBlock(si, c)[b][x] = q
      BY <2>3, <3>1, <3>2, <3>3
    <3> QED BY <3>4 DEF b, x
  <2> QED BY <2>5, <2>6
<1>11. LaneBlock(si, c) \in [0 .. Blocks(si) - 1 -> [0 .. R - 1 -> Values]]
  BY <1>3, <1>9
<1> QED BY <1>10, <1>11 DEF R

\* A row at the end of a group pools the group.
LEMMA LaneGroupIs ==
  ASSUME StepTypeInv, BlockInv, phase = "step", NEW c \in 1 .. size, ran < c, NEW si \in Stores,
         NEW j \in LaneFired(si, c)
  PROVE  /\ j \in ran .. c - 1 /\ pos + j \in Nat
         /\ pos + j = Ratio[si] * ((pos + j) \div Ratio[si]) + Ratio[si] - 1
         /\ LaneGroup(si, c, j) = (pos + j + 1 - Ratio[si]) .. (pos + j)
<1> DEFINE R == Ratio[si]
           q == pos + j
           m == q \div R
           a == R * m
           L == LaneBlock(si, c)
<1>1. /\ pos \in Nat /\ R \in Nat \ {0} /\ pos \div R \in Nat /\ R * (pos \div R) \in Nat
  BY OpenGroup
<1>2. j \in ran .. c - 1 /\ (q + 1) % R = 0 /\ ran \in Nat /\ c \in Nat
  BY StepNumbers DEF LaneFired, Fires, StepTypeInv
<1>3. q \in Nat /\ q >= pos /\ q <= pos + c - 1
  BY <1>1, <1>2
<1>4. \A p \in (R * (pos \div R)) .. (pos + c - 1) : L[p \div R - pos \div R][p % R] = p
  BY LaneBlockIs DEF BlockOf
<1>5. LaneGroup(si, c, j) = {L[m - pos \div R][x] : x \in 0 .. R - 1}
  BY DEF LaneGroup, BlockOf
<1> HIDE DEF L, R
<1>6. m \in Nat
  BY <1>1, <1>3, DivMod
<1>7. q = a + R - 1
  <2> HIDE DEF q
  <2> QED BY <1>1, <1>2, <1>3, DivLast
<1>8. m >= pos \div R
  <2> HIDE DEF q
  <2> QED BY <1>1, <1>3, DivMono
<1> DEFINE s == pos \div R
<1>9. s \in Nat /\ m >= s /\ R * s \in Nat
  BY <1>1, <1>8
<1> HIDE DEF m
<1>10. a \in Nat /\ a >= R * s
  <2> HIDE DEF s
  <2> QED BY <1>1, <1>6, <1>9
<1>11. ASSUME NEW x \in 0 .. R - 1 PROVE L[m - s][x] = a + x
  <2>1. a + x \in Nat /\ (a + x) \div R = m /\ (a + x) % R = x
    <3>1. a + x \in Nat
      BY <1>1, <1>10
    <3> QED BY <1>1, <1>6, <3>1, DivIs
  <2>2. a + x \in (R * s) .. (pos + c - 1)
    <3> HIDE DEF a, s, q
    <3> DEFINE e == R * s
    <3>1. e \in Nat /\ a >= e
      BY <1>9, <1>10
    <3> HIDE DEF e
    <3>2. a + x \in e .. (pos + c - 1)
      BY <1>1, <1>2, <1>3, <1>7, <1>10, <3>1
    <3> QED BY <3>2 DEF e
  <2> QED BY <1>4, <2>1, <2>2
<1> HIDE DEF a, s, q
<1>12. \A p \in (q + 1 - R) .. q : p - a \in 0 .. R - 1 /\ a + (p - a) = p
  BY <1>1, <1>3, <1>7, <1>10
<1>13. \A x \in 0 .. R - 1 : a + x \in (q + 1 - R) .. q
  BY <1>1, <1>3, <1>7, <1>10
<1>14. {L[m - s][x] : x \in 0 .. R - 1} = (q + 1 - R) .. q
  <2>1. ASSUME NEW p \in (q + 1 - R) .. q PROVE \E x \in 0 .. R - 1 : L[m - s][x] = p
    BY <1>11, <1>12
  <2>2. ASSUME NEW x \in 0 .. R - 1 PROVE L[m - s][x] \in (q + 1 - R) .. q
    BY <1>11, <1>13
  <2> QED BY <2>1, <2>2
<1> QED BY <1>2, <1>3, <1>5, <1>7, <1>14 DEF R, q, s, a, m

LEMMA LaneCompIs ==
  ASSUME StepTypeInv, CompInv, BlockInv, phase = "step", NEW c \in 1 .. size, ran < c, NEW si \in Stores
  PROVE  /\ LaneComp(si, c) \in [0 .. Cap(si) - 1 -> SUBSET Values]
         /\ \A i \in 0 .. (pos + c) \div Ratio[si] - 1 :
              LaneComp(si, c)[i] = (Ratio[si] * i) .. (Ratio[si] * i + Ratio[si] - 1)
<1> DEFINE R == Ratio[si]
           F == LaneFired(si, c)
           G(j) == LaneGroup(si, c, j)
           Ch(i) == CHOOSE j \in F : i = CompAt(si, j)
<1>1. /\ pos \in Nat /\ R \in Nat \ {0} /\ ran \in Nat /\ c \in Nat /\ c <= size /\ size \in Nat /\ ran < c
      /\ comp[si] \in [0 .. Cap(si) - 1 -> SUBSET Values] /\ Cap(si) \in Nat
  BY StepNumbers DEF StepTypeInv
<1>2. /\ (pos + size) \div R <= Cap(si)
      /\ \A i \in 0 .. (pos + ran) \div R - 1 : comp[si][i] = (R * i) .. (R * i + R - 1)
  BY DEF CompInv, Done, Asked
<1>3. LaneComp(si, c) = [i \in 0 .. Cap(si) - 1 |->
        IF \E j \in F : i = CompAt(si, j) THEN G(Ch(i)) ELSE comp[si][i]]
  BY <1>1 DEF LaneComp
<1>4. ASSUME NEW j \in F
      PROVE  /\ j \in ran .. c - 1 /\ j \in Nat /\ pos + j \in Nat /\ CompAt(si, j) = (pos + j) \div R
             /\ pos + j = R * ((pos + j) \div R) + R - 1 /\ G(j) = (pos + j + 1 - R) .. (pos + j)
  <2>1. j \in ran .. c - 1 /\ j \in Nat
    BY <1>1, LaneGroupIs
  <2>2. CompAt(si, j) = (pos + j) \div R
    BY <2>1, CompAtIs
  <2> QED BY <2>1, <2>2, LaneGroupIs
<1>5. \A j \in ran .. c - 1 : (pos + j + 1) % R = 0 => j \in F
  BY DEF LaneFired, Fires
<1>6. \A j \in ran .. c - 1 : j \in Nat /\ CompAt(si, j) = (pos + j) \div R
  BY <1>1, CompAtIs
<1> HIDE DEF F, G, R
<1>7. ASSUME NEW i, NEW j \in F, i = CompAt(si, j)
      PROVE  Ch(i) \in F /\ i = CompAt(si, Ch(i))
  BY <1>7
<1> HIDE DEF Ch
<1>8. ASSUME NEW i, NEW j \in F, i = CompAt(si, j)
      PROVE  i \in Nat /\ G(Ch(i)) = (R * i) .. (R * i + R - 1)
  <2> DEFINE h == Ch(i)
             q == pos + h
  <2>1. h \in F /\ i = CompAt(si, h)
    BY <1>7, <1>8
  <2>2. q \in Nat /\ i = q \div R /\ q = R * (q \div R) + R - 1 /\ G(h) = (q + 1 - R) .. q
    BY <1>4, <2>1
  <2>3. i \in Nat
    <3> HIDE DEF q
    <3> QED BY <1>1, <2>2, DivMod
  <2>4. q = R * i + R - 1
    BY <2>2
  <2> HIDE DEF q
  <2> DEFINE a == R * i
  <2>5. a \in Nat /\ q = a + R - 1
    BY <1>1, <2>3, <2>4
  <2> HIDE DEF a
  <2>6. q + 1 - R = a
    BY <1>1, <2>5
  <2> QED BY <2>2, <2>3, <2>4, <2>6 DEF a, h
<1>9. ASSUME NEW i \in 0 .. Cap(si) - 1
      PROVE  LaneComp(si, c)[i] \in SUBSET Values
  <2>1. ASSUME NEW j \in F, i = CompAt(si, j) PROVE G(Ch(i)) \in SUBSET Values
    <3>1. i \in Nat /\ G(Ch(i)) = (R * i) .. (R * i + R - 1)
      BY <1>8, <2>1
    <3> DEFINE a == R * i
    <3>2. a \in Nat
      BY <1>1, <3>1
    <3>3. G(Ch(i)) = a .. (a + R - 1)
      BY <3>1
    <3> HIDE DEF a
    <3>4. \A x \in a .. (a + R - 1) : x \in Nat
      BY <1>1, <3>2
    <3> QED BY <3>3, <3>4 DEF Values
  <2>2. comp[si][i] \in SUBSET Values
    BY <1>1
  <2> QED BY <1>3, <2>1, <2>2
<1>10. ASSUME NEW i \in 0 .. (pos + c) \div R - 1
       PROVE  LaneComp(si, c)[i] = (R * i) .. (R * i + R - 1)
  <2>1. (pos + c) \div R \in Nat /\ (pos + size) \div R \in Nat /\ (pos + ran) \div R \in Nat
        /\ (pos + c) \div R <= (pos + size) \div R
    <3>1. pos + c \in Nat /\ pos + size \in Nat /\ pos + c <= pos + size /\ pos + ran \in Nat
      BY <1>1
    <3> QED BY <1>1, <3>1, DivMod, DivMono
  <2>2. i \in Nat /\ i \in 0 .. Cap(si) - 1 /\ (pos + c) \div R >= i + 1 /\ i + 1 \in Int
    BY <1>1, <1>2, <2>1
  <2>3. CASE \E j \in F : i = CompAt(si, j)
    <3>1. LaneComp(si, c)[i] = G(Ch(i))
      BY <1>3, <2>2, <2>3
    <3> QED BY <1>8, <2>3, <3>1
  <2>4. CASE ~ \E j \in F : i = CompAt(si, j)
    <3>1. LaneComp(si, c)[i] = comp[si][i]
      BY <1>3, <2>2, <2>4
    <3>2. (pos + ran) \div R >= i + 1
      <4> SUFFICES ASSUME ~ ((pos + ran) \div R >= i + 1) PROVE FALSE
        OBVIOUS
      <4>1. pos + c >= R * (i + 1) /\ ~ (pos + ran >= R * (i + 1))
        <5>1. pos + c \in Nat /\ pos + ran \in Nat
          BY <1>1
        <5> QED BY <1>1, <2>2, <5>1, DivAtLeast
      <4> DEFINE a == R * i
                 e == a + R - 1
                 j == e - pos
      <4>2. R * (i + 1) = e + 1 /\ a \in Nat /\ e \in Nat /\ e = a + (R - 1) /\ R - 1 \in 0 .. R - 1
        BY <1>1, <2>2
      <4>3. e \div R = i /\ e % R = R - 1
        <5>1. e = R * i + (R - 1) /\ i \in Nat /\ R - 1 \in 0 .. R - 1 /\ e \in Nat /\ R \in Nat \ {0}
          BY <1>1, <2>2, <4>2
        <5> HIDE DEF e, a
        <5> QED BY <5>1, DivIs
      <4>4. e = R * (e \div R) + R - 1
        <5>1. e = a + R - 1
          OBVIOUS
        <5> HIDE DEF e
        <5> QED BY <4>3, <5>1
      <4>5. (e + 1) % R = 0
        <5> HIDE DEF e
        <5> QED BY <1>1, <4>2, <4>4, DivLast
      <4> HIDE DEF e, a
      <4>6. pos + c >= e + 1 /\ ~ (pos + ran >= e + 1)
        BY <4>1, <4>2
      <4>7. j \in ran .. c - 1 /\ pos + j = e
        BY <1>1, <4>2, <4>6
      <4> HIDE DEF j
      <4>8. j \in F /\ CompAt(si, j) = i
        BY <1>5, <1>6, <4>3, <4>5, <4>7
      <4> QED BY <2>4, <4>8
    <3>3. i \in 0 .. (pos + ran) \div R - 1
      BY <2>1, <2>2, <3>2
    <3> QED BY <1>2, <3>1, <3>3
  <2> QED BY <2>3, <2>4
<1>11. LaneComp(si, c) \in [0 .. Cap(si) - 1 -> SUBSET Values]
  <2>1. DOMAIN LaneComp(si, c) = 0 .. Cap(si) - 1 /\ LaneComp(si, c) = [i \in 0 .. Cap(si) - 1 |-> LaneComp(si, c)[i]]
    BY <1>3
  <2> QED BY <1>9, <2>1
<1> QED BY <1>10, <1>11 DEF R

LEMMA LaneOk ==
  ASSUME NEW c \in 1 .. size
  PROVE  StepInv /\ Lane(c) => StepInv'
<1> SUFFICES ASSUME StepInv, Lane(c) PROVE StepInv'
  OBVIOUS
<1> USE DEF StepInv
<1>0. /\ phase = "step" /\ ran < c /\ ran' = c
      /\ raw' = [g \in Groups |-> LaneRaw(g, c)]
      /\ seen' = [g \in Groups |-> [j \in 1 .. c |->
           IF j <= ran THEN seen[g][j] ELSE {LaneRaw(g, c)[r] : r \in RowWindow(g, j - 1)}]]
      /\ block' = [si \in Stores |-> LaneBlock(si, c)]
      /\ comp' = [si \in Stores |-> LaneComp(si, c)]
      /\ pooled' = pooled \cup UNION {{<<si, pos + j, LaneGroup(si, c, j)>> : j \in LaneFired(si, c)} : si \in Stores}
      /\ UNCHANGED <<phase, pos, win, nComp, size>>
  BY LaneIs
<1>1. /\ pos \in Nat /\ ran \in Nat /\ c \in Nat /\ c <= size /\ size \in Nat /\ size <= MaxRows
      /\ Done' = c /\ Asked' = size /\ Asked = size
  BY <1>0, StepNumbers DEF StepTypeInv, Done, Asked
<1>2. StepTypeInv'
  <2>1. raw' \in [Groups -> [0 .. RawRows - 1 -> Values]]
    BY <1>0, LaneRawIs
  <2>2. \A si \in Stores : comp'[si] \in [0 .. Cap(si) - 1 -> SUBSET Values]
    BY <1>0, LaneCompIs
  <2>3. \A si \in Stores : block'[si] \in [0 .. Blocks(si) - 1 -> [0 .. Ratio[si] - 1 -> Values]]
    BY <1>0, LaneBlockIs
  <2>4. DOMAIN comp' = Stores /\ DOMAIN block' = Stores
    BY <1>0
  <2>5. ran' \in 0 .. size' /\ size' \in 0 .. MaxRows /\ phase' \in {"empty", "ready", "step"} /\ pos' \in Nat
    BY <1>0, <1>1 DEF StepTypeInv
  <2>6. win' \in [Groups -> [off : Nat, n : 0 .. SwaWindow]] /\ nComp' \in [Stores -> Nat]
    BY <1>0 DEF StepTypeInv
  <2> QED BY <2>1, <2>2, <2>3, <2>4, <2>5, <2>6 DEF StepTypeInv, Cap, Blocks
<1>3. RawInv'
  <2> SUFFICES ASSUME NEW g \in Groups
               PROVE  /\ win[g].n <= pos /\ win[g].off + win[g].n + size <= RawRows
                      /\ g = "enc" => win[g].n = Least2(pos, SwaWindow)
                      /\ \A j \in 0 .. win[g].n + c - 1 : raw'[g][win[g].off + j] = pos - win[g].n + j
    BY <1>0, <1>1 DEF RawInv
  <2>1. /\ win[g].n <= pos /\ win[g].off + win[g].n + size <= RawRows
        /\ g = "enc" => win[g].n = Least2(pos, SwaWindow)
    BY <1>0, <1>1 DEF RawInv
  <2> QED BY <1>0, <2>1, LaneRawIs
<1>4. CompInv'
  <2> SUFFICES ASSUME NEW si \in Stores
               PROVE  /\ nComp[si] = pos \div Ratio[si] /\ (pos + size) \div Ratio[si] <= Cap(si)
                      /\ \A i \in 0 .. (pos + c) \div Ratio[si] - 1 :
                           comp'[si][i] = (Ratio[si] * i) .. (Ratio[si] * i + Ratio[si] - 1)
    BY <1>0, <1>1 DEF CompInv, Cap
  <2>1. nComp[si] = pos \div Ratio[si] /\ (pos + size) \div Ratio[si] <= Cap(si)
    BY <1>0, <1>1 DEF CompInv
  <2>2. comp'[si] = LaneComp(si, c)
    BY <1>0
  <2> QED BY <1>0, <2>1, <2>2, LaneCompIs
<1>5. BlockInv'
  <2> SUFFICES ASSUME NEW si \in Stores, NEW q \in (Ratio[si] * (pos \div Ratio[si])) .. (pos + c - 1)
               PROVE  block'[si][BlockOf(si, q)][q % Ratio[si]] = q
    BY <1>0, <1>1 DEF BlockInv, BlockOf
  <2>1. block'[si] = LaneBlock(si, c)
    BY <1>0
  <2> QED BY <1>0, <2>1, LaneBlockIs
<1>6. SeenInv'
  <2> SUFFICES ASSUME NEW g \in Groups, NEW j \in 1 .. c
               PROVE  seen'[g][j] = (pos + j - Least2(win[g].n + j, SwaWindow)) .. (pos + j - 1)
    BY <1>0, <1>1 DEF SeenInv
  <2>1. seen'[g][j] = IF j <= ran THEN seen[g][j] ELSE {LaneRaw(g, c)[r] : r \in RowWindow(g, j - 1)}
    BY <1>0
  <2>2. CASE j <= ran
    <3>1. j \in 1 .. ran
      BY <1>1, <2>2
    <3> QED BY <1>0, <2>1, <2>2, <3>1 DEF SeenInv
  <2>3. CASE ~ (j <= ran)
    BY <1>0, <2>1, <2>3, LaneSeenIs
  <2> QED BY <2>2, <2>3
<1>7. PooledInv'
  <2> SUFFICES ASSUME NEW f \in pooled'
               PROVE  f[1] \in Stores /\ f[2] \in Nat /\ f[3] = (f[2] + 1 - Ratio[f[1]]) .. f[2]
    BY DEF PooledInv
  <2>1. CASE f \in pooled
    BY <2>1 DEF PooledInv
  <2>2. ASSUME NEW si \in Stores, NEW j \in LaneFired(si, c), f = <<si, pos + j, LaneGroup(si, c, j)>>
        PROVE  f[1] \in Stores /\ f[2] \in Nat /\ f[3] = (f[2] + 1 - Ratio[f[1]]) .. f[2]
    BY <1>0, <2>2, LaneGroupIs
  <2> QED BY <1>0, <2>1, <2>2
<1> QED BY <1>2, <1>3, <1>4, <1>5, <1>6, <1>7

(***************************************************************************)
(* A stream's steps: the theorems                                          *)
(***************************************************************************)
LEMMA StepNextInv == StepInv /\ [Next]_vars => StepInv'
<1> SUFFICES ASSUME StepInv, [Next]_vars PROVE StepInv'
  OBVIOUS
<1>1. ASSUME NEW p \in 1 .. MaxPos, NEW d \in 1 .. p, Fill(p, d) PROVE StepInv'
  BY <1>1, FillOk
<1>2. ASSUME NEW k \in 1 .. MaxRows, StartStep(k) PROVE StepInv'
  BY <1>2, StartStepOk
<1>3. ASSUME NEW c \in 1 .. size, Lane(c) PROVE StepInv'
  BY <1>3, LaneOk
<1>4. ASSUME NEW keep \in 1 .. size, Accept(keep) PROVE StepInv'
  BY <1>4, AcceptOk
<1>5. CASE Leave
  BY <1>5, LeaveOk
<1>6. CASE UNCHANGED vars
  BY <1>6 DEF vars, StepInv, StepTypeInv, RawInv, CompInv, BlockInv, SeenInv, PooledInv, Done, Asked,
              BlockOf, Cap, Blocks
<1> QED BY <1>1, <1>2, <1>3, <1>4, <1>5, <1>6 DEF Next

LEMMA StepInvHolds == Spec => []StepInv
BY StepInitInv, StepNextInv, PTL DEF Spec

\* The windows stay inside the region and no row, block or counter of a stream
\* leaves the range its arena was sized for.
THEOREM StepTypes == Spec => []StepTypeInv
<1>1. StepInv => StepTypeInv
  BY DEF StepInv
<1> QED BY <1>1, StepInvHolds, PTL

\* Every row of a step attends to exactly its window's positions, whatever
\* was kept, rejected or moved before (RowTables, accept, compact_raw).
THEOREM EveryRowSeesItsWindow == Spec => []RowsSeeTheirWindow
<1>1. StepInv => RowsSeeTheirWindow
  <2> SUFFICES ASSUME StepInv, phase = "step", NEW g \in Groups, NEW j \in 1 .. ran
               PROVE  LET q == pos + j - 1
                          n == IF win[g].n + j < SwaWindow THEN win[g].n + j ELSE SwaWindow
                      IN /\ seen[g][j] = (q + 1 - n) .. q
                         /\ g = "enc" => n = (IF q + 1 < SwaWindow THEN q + 1 ELSE SwaWindow)
    BY DEF RowsSeeTheirWindow
  <2> DEFINE n == IF win[g].n + j < SwaWindow THEN win[g].n + j ELSE SwaWindow
  <2>1. seen[g][j] = (pos + j - n) .. (pos + j - 1)
    BY DEF StepInv, SeenInv, Least2
  <2>2. pos \in Nat /\ ran \in Nat /\ j \in Nat /\ win[g].n \in Nat /\ SwaWindow \in Nat /\ n \in Nat
    BY StepNumbers DEF StepInv, StepTypeInv
  <2>3. g = "enc" => win[g].n = Least2(pos, SwaWindow)
    BY DEF StepInv, RawInv
  <2>4. g = "enc" => n = (IF (pos + j - 1) + 1 < SwaWindow THEN (pos + j - 1) + 1 ELSE SwaWindow)
    BY <2>2, <2>3, StepNumbers DEF Least2
  <2>5. pos + j - 1 + 1 - n = pos + j - n
    <3> HIDE DEF n
    <3> QED BY <2>2
  <2> QED BY <2>1, <2>4, <2>5
<1> QED BY <1>1, StepInvHolds, PTL

\* A group's last row pools the group's positions, also those carried in the
\* accumulator from steps whose later rows were rejected (commit_copies).
THEOREM EveryGroupPoolsItsPositions == Spec => []FiresPoolTheirGroup
<1>1. StepInv => FiresPoolTheirGroup
  BY DEF StepInv, PooledInv, FiresPoolTheirGroup
<1> QED BY <1>1, StepInvHolds, PTL

\* The compressed rows are the stream's groups in order, and none of them is
\* what a rejected draft left.
THEOREM CompressedRowsAreGroups == Spec => []CompRowsAreGroups
<1>1. StepInv => CompRowsAreGroups
  <2> SUFFICES ASSUME StepInv, phase # "empty", NEW si \in Stores
               PROVE  /\ nComp[si] = pos \div Ratio[si]
                      /\ \A i \in 0 .. (nComp[si] - 1) :
                           comp[si][i] = (i * Ratio[si]) .. (i * Ratio[si] + Ratio[si] - 1)
    BY DEF CompRowsAreGroups
  <2> DEFINE R == Ratio[si]
             d == pos + Done
  <2>1. /\ nComp[si] = pos \div R
        /\ \A i \in 0 .. d \div R - 1 : comp[si][i] = (R * i) .. (R * i + R - 1)
    BY DEF StepInv, CompInv
  <2>2. pos \in Nat /\ d \in Nat /\ pos <= d /\ R \in Nat \ {0}
    BY StepNumbers DEF StepInv, StepTypeInv, Done
  <2> HIDE DEF d, R
  <2>3. pos \div R \in Nat /\ d \div R \in Nat /\ pos \div R <= d \div R
    BY <2>2, DivMod, DivMono
  <2>4. ASSUME NEW i \in 0 .. nComp[si] - 1
        PROVE  comp[si][i] = (i * R) .. (i * R + R - 1)
    <3>1. i \in 0 .. d \div R - 1
      BY <2>1, <2>3
    <3>2. R * i = i * R
      BY <2>2, <3>1
    <3> QED BY <2>1, <3>1, <3>2
  <2> QED BY <2>1, <2>4 DEF R
<1> QED BY <1>1, StepInvHolds, PTL

\* No step that can_step_rows allowed is refused by the tables: after the
\* compaction its rows lie inside the slot's region.
THEOREM NoStepIsRefused == Spec => []StepFits
<1>1. StepInv => StepFits
  BY DEF StepInv, StepTypeInv, StepFits
<1> QED BY <1>1, StepInvHolds, PTL

(***************************************************************************)
(* The list of free rows: the inductive invariant                          *)
(***************************************************************************)
Runs == Nat \X (Nat \ {0})
RegionRows(X) == UNION {RowsOf(run) : run \in X}
Canon(list) == \A i, j \in DOMAIN list : i < j => list[i][1] + list[i][2] < list[j][1]
Apart(X) == \A r, t \in X : r # t => RowsOf(r) \cap RowsOf(t) = {}

\* The list is canonical, and its runs and the regions divide the store.
ListInv ==
  /\ free \in Seq(Runs) /\ Canon(free)
  /\ held \in SUBSET Runs /\ IsFiniteSet(held) /\ Apart(held)
  /\ Covered \cap RegionRows(held) = {} /\ Covered \cup RegionRows(held) = 0 .. NRows - 1

LEMMA RunFacts ==
  ASSUME NEW r \in Runs
  PROVE  /\ r = <<r[1], r[2]>> /\ r[1] \in Nat /\ r[2] \in Nat \ {0}
         /\ r[1] \in RowsOf(r) /\ r[1] + r[2] - 1 \in RowsOf(r)
         /\ RowsOf(r) \subseteq Nat /\ \A x \in RowsOf(r) : r[1] <= x /\ x < r[1] + r[2]
         /\ \A x \in Nat : r[1] <= x /\ x < r[1] + r[2] => x \in RowsOf(r)
<1>1. r = <<r[1], r[2]>> /\ r[1] \in Nat /\ r[2] \in Nat \ {0}
  BY DEF Runs
<1> QED BY <1>1 DEF RowsOf

\* Of two runs with no row in common, the first ends before the other starts.
LEMMA ApartFacts ==
  ASSUME NEW r \in Runs, NEW t \in Runs, RowsOf(r) \cap RowsOf(t) = {}, r[1] <= t[1]
  PROVE  r[1] + r[2] <= t[1]
<1>1. SUFFICES ASSUME ~ (r[1] + r[2] <= t[1]) PROVE FALSE
  OBVIOUS
<1>2. t[1] \in RowsOf(t) /\ t[1] \in Nat /\ r[1] \in Nat /\ r[2] \in Nat
  BY RunFacts
<1>3. t[1] \in RowsOf(r)
  BY <1>1, <1>2, RunFacts
<1> QED BY <1>2, <1>3

LEMMA BeforeFacts ==
  ASSUME NEW r \in Runs, NEW t \in Runs
  PROVE  /\ Before(r, t) \/ Before(t, r)
         /\ Before(r, r)
         /\ \A u \in Runs : Before(r, t) /\ Before(t, u) => Before(r, u)
         /\ Before(r, t) => r[1] <= t[1]
BY DEF Runs, Before

LEMMA LastRunIs ==
  ASSUME NEW S, IsFiniteSet(S), S \subseteq Runs
  PROVE  \A X \in SUBSET S : X # {} => LastRun(X) \in X /\ \A t \in X : Before(t, LastRun(X))
<1> DEFINE Has(X) == \E r \in X : \A t \in X : Before(t, r)
           T == {X \in SUBSET S : X # {} => Has(X)}
<1>1. ASSUME NEW X \in SUBSET S, \A x \in X : X \ {x} \in T
      PROVE  X \in T
  <2> SUFFICES ASSUME X # {} PROVE Has(X)
    OBVIOUS
  <2>1. PICK x \in X : TRUE
    OBVIOUS
  <2>2. x \in Runs /\ X \ {x} \in T
    BY <1>1
  <2>3. CASE X \ {x} = {}
    <3>1. \A t \in X : t = x
      BY <2>3
    <3> QED BY <2>1, <2>2, <3>1, BeforeFacts
  <2>4. CASE X \ {x} # {}
    <3>1. PICK r \in X \ {x} : \A t \in X \ {x} : Before(t, r)
      BY <2>2, <2>4
    <3>2. r \in Runs /\ \A t \in X : t \in Runs
      OBVIOUS
    <3>3. CASE Before(x, r)
      BY <3>1, <3>3
    <3>4. CASE ~ Before(x, r)
      <4>1. Before(r, x) /\ Before(x, x)
        BY <2>2, <3>2, <3>4, BeforeFacts
      <4>2. \A t \in X : Before(t, x)
        BY <2>2, <3>1, <3>2, <4>1, BeforeFacts
      <4> QED BY <4>2
    <3> QED BY <3>3, <3>4
  <2> QED BY <2>3, <2>4
<1>2. \A X \in SUBSET S : X \in T
  <2> HIDE DEF T
  <2> QED BY <1>1, SetStrongInduct
<1> QED BY <1>2 DEF LastRun

(***************************************************************************)
(* The list of free rows: one more run at its end, or one less             *)
(***************************************************************************)
LEMMA ListFacts ==
  ASSUME NEW list \in Seq(Runs)
  PROVE  /\ \A i \in DOMAIN list : list[i] \in Runs /\ RowsOf(list[i]) \subseteq RegionRows(ToSet(list))
         /\ \A x \in RegionRows(ToSet(list)) : \E i \in DOMAIN list : x \in RowsOf(list[i])
         /\ DOMAIN list = 1 .. Len(list) /\ Len(list) \in Nat
         /\ IsFiniteSet(ToSet(list)) /\ ToSet(list) \subseteq Runs
<1>1. DOMAIN list = 1 .. Len(list) /\ Len(list) \in Nat /\ \A i \in DOMAIN list : list[i] \in Runs
  OBVIOUS
<1>2. IsFiniteSet(ToSet(list)) /\ ToSet(list) \subseteq Runs
  BY ToSetFinite
<1> QED BY <1>1, <1>2 DEF RegionRows, ToSet

LEMMA AppendRun ==
  ASSUME NEW list \in Seq(Runs), Canon(list), NEW run \in Runs,
         \A i \in DOMAIN list : list[i][1] + list[i][2] < run[1]
  PROVE  /\ Append(list, run) \in Seq(Runs) /\ Canon(Append(list, run))
         /\ RegionRows(ToSet(Append(list, run))) = RegionRows(ToSet(list)) \cup RowsOf(run)
<1> DEFINE a == Append(list, run)
<1>1. /\ a \in Seq(Runs) /\ DOMAIN a = 1 .. Len(list) + 1 /\ Len(list) \in Nat /\ DOMAIN list = 1 .. Len(list)
      /\ a[Len(list) + 1] = run /\ \A i \in 1 .. Len(list) : a[i] = list[i]
  OBVIOUS
<1>2. ToSet(a) = ToSet(list) \cup {run}
  BY ToSetAppend
<1> HIDE DEF a
<1>3. Canon(a)
  <2> SUFFICES ASSUME NEW i \in DOMAIN a, NEW j \in DOMAIN a, i < j
               PROVE  a[i][1] + a[i][2] < a[j][1]
    BY DEF Canon
  <2>1. i \in 1 .. Len(list)
    BY <1>1
  <2>2. CASE j = Len(list) + 1
    BY <1>1, <2>1, <2>2
  <2>3. CASE j # Len(list) + 1
    <3>1. j \in 1 .. Len(list)
      BY <1>1, <2>3
    <3> QED BY <1>1, <2>1, <3>1 DEF Canon
  <2> QED BY <2>2, <2>3
<1>4. RegionRows(ToSet(a)) = RegionRows(ToSet(list)) \cup RowsOf(run)
  BY <1>2 DEF RegionRows
<1> QED BY <1>1, <1>3, <1>4 DEF a

\* Join: the list gains the run, as a run of its own or as part of the last one.
LEMMA JoinIs ==
  ASSUME NEW list \in Seq(Runs), Canon(list), NEW run \in Runs,
         \A i \in DOMAIN list : list[i][1] + list[i][2] <= run[1]
  PROVE  /\ Join(list, run) \in Seq(Runs) /\ Canon(Join(list, run))
         /\ RegionRows(ToSet(Join(list, run))) = RegionRows(ToSet(list)) \cup RowsOf(run)
<1> DEFINE n == Len(list)
           joins == list # <<>> /\ list[n][1] + list[n][2] = run[1]
<1>0. n \in Nat /\ DOMAIN list = 1 .. n /\ \A i \in 1 .. n : list[i] \in Runs
  BY ListFacts
<1>1. CASE joins
  <2> DEFINE more == <<list[n][1], list[n][2] + run[2]>>
             a == [list EXCEPT ![n] = more]
  <2>1. Join(list, run) = a
    BY <1>1 DEF Join, Last
  <2>2. n \in 1 .. n /\ list[n] \in Runs
    BY <1>0, <1>1
  <2>3. more \in Runs /\ more[1] = list[n][1] /\ more[2] = list[n][2] + run[2]
    <3>1. list[n][1] \in Nat /\ list[n][2] \in Nat \ {0} /\ run[2] \in Nat
      BY <2>2, RunFacts
    <3>2. list[n][2] + run[2] \in Nat \ {0}
      BY <3>1
    <3> QED BY <3>1, <3>2 DEF Runs
  <2>4. a \in Seq(Runs) /\ DOMAIN a = 1 .. n /\ a[n] = more /\ \A i \in 1 .. n : i # n => a[i] = list[i]
    BY <1>0, <2>2, <2>3
  <2>5. RowsOf(more) = RowsOf(list[n]) \cup RowsOf(run)
    <3>1. list[n][1] \in Nat /\ list[n][2] \in Nat /\ run[1] \in Nat /\ run[2] \in Nat /\ run[1] = list[n][1] + list[n][2]
      BY <1>1, <2>2, RunFacts
    <3> DEFINE p == list[n][1]
               l == list[n][2]
               m == run[2]
    <3>2. /\ RowsOf(more) = p .. (p + (l + m) - 1) /\ RowsOf(list[n]) = p .. (p + l - 1)
          /\ RowsOf(run) = (p + l) .. (p + l + m - 1)
      BY <2>3, <3>1 DEF RowsOf
    <3> HIDE DEF p, l, m, more
    <3>3. p \in Nat /\ l \in Nat /\ m \in Nat
      BY <3>1 DEF p, l, m
    <3>4. p .. (p + (l + m) - 1) = (p .. (p + l - 1)) \cup ((p + l) .. (p + l + m - 1))
      BY <3>3
    <3> QED BY <3>2, <3>4
  <2> HIDE DEF a, more
  <2>6. Canon(a)
    <3> SUFFICES ASSUME NEW i \in 1 .. n, NEW j \in 1 .. n, i < j
                 PROVE  a[i][1] + a[i][2] < a[j][1]
      BY <2>4 DEF Canon
    <3>1. i # n /\ list[i][1] + list[i][2] < list[j][1]
      BY <1>0 DEF Canon
    <3> QED BY <2>3, <2>4, <3>1
  <2>7. RegionRows(ToSet(a)) = RegionRows(ToSet(list)) \cup RowsOf(run)
    <3>1. \A x : x \in RegionRows(ToSet(a)) <=> \E i \in 1 .. n : x \in RowsOf(a[i])
      BY <2>4 DEF RegionRows, ToSet
    <3>2. \A x : x \in RegionRows(ToSet(list)) <=> \E i \in 1 .. n : x \in RowsOf(list[i])
      BY <1>0 DEF RegionRows, ToSet
    <3>3. \A i \in 1 .. n : RowsOf(a[i]) = IF i = n THEN RowsOf(list[n]) \cup RowsOf(run) ELSE RowsOf(list[i])
      BY <2>4, <2>5
    <3>4. ASSUME NEW x \in RegionRows(ToSet(a)) PROVE x \in RegionRows(ToSet(list)) \cup RowsOf(run)
      BY <2>2, <3>1, <3>2, <3>3
    <3>5. ASSUME NEW x \in RegionRows(ToSet(list)) \cup RowsOf(run) PROVE x \in RegionRows(ToSet(a))
      BY <2>2, <3>1, <3>2, <3>3
    <3> QED BY <3>4, <3>5
  <2> QED BY <2>1, <2>4, <2>6, <2>7
<1>2. CASE ~ joins
  <2>1. Join(list, run) = Append(list, run)
    BY <1>2 DEF Join, Last
  <2>2. ASSUME NEW i \in DOMAIN list PROVE list[i][1] + list[i][2] < run[1]
    <3>1. n \in 1 .. n /\ i \in 1 .. n /\ list # <<>>
      BY <1>0
    <3>2. list[i][1] \in Nat /\ list[i][2] \in Nat /\ list[n][1] \in Nat /\ list[n][2] \in Nat \ {0} /\ run[1] \in Nat
      BY <1>0, <3>1, RunFacts
    <3>3. list[n][1] + list[n][2] # run[1] /\ list[n][1] + list[n][2] <= run[1]
      BY <1>0, <1>2, <3>1
    <3>4. i = n \/ list[i][1] + list[i][2] < list[n][1]
      BY <1>0, <3>1 DEF Canon
    <3> QED BY <3>2, <3>3, <3>4
  <2> QED BY <2>1, <2>2, AppendRun
<1> QED BY <1>1, <1>2

(***************************************************************************)
(* The list of free rows: give_back and free_runs                          *)
(***************************************************************************)
\* The list of a set of runs without a row in common: canonical, the same rows.
LEMMA GivenBackIs ==
  ASSUME NEW list \in Seq(Runs), NEW run \in Runs, Apart(ToSet(list) \cup {run})
  PROVE  /\ GivenBack(list, run) \in Seq(Runs) /\ Canon(GivenBack(list, run))
         /\ RegionRows(ToSet(GivenBack(list, run))) = RegionRows(ToSet(list)) \cup RowsOf(run)
<1> DEFINE S == ToSet(list) \cup {run}
           V == Seq(Runs)
           ch == [X \in SUBSET S |-> LastRun(X)]
           step == [X \in SUBSET S |-> [v \in V |-> Join(v, LastRun(X))]]
           e(f, X) == IF X = {} THEN <<>> ELSE Join(f[X \ {LastRun(X)}], LastRun(X))
           Eq(f) == f = [X \in SUBSET S |-> e(f, X)]
<1>1. IsFiniteSet(S) /\ S \subseteq Runs
  BY ListFacts, FS_AddElement
<1>2. \A X \in SUBSET S : X # {} => LastRun(X) \in X /\ \A t \in X : Before(t, LastRun(X))
  BY <1>1, LastRunIs
<1>3. ASSUME NEW v \in V, NEW r \in Runs PROVE Join(v, r) \in V
  <2>1. Len(v) \in Nat /\ DOMAIN v = 1 .. Len(v) /\ Append(v, r) \in V
    OBVIOUS
  <2>2. CASE v # <<>>
    <3>1. Len(v) \in 1 .. Len(v) /\ v[Len(v)] \in Runs
      BY <2>1, <2>2
    <3>4. v[Len(v)][1] \in Nat /\ v[Len(v)][2] \in Nat \ {0} /\ r[2] \in Nat \ {0}
      BY <3>1, RunFacts
    <3>2. v[Len(v)][1] \in Nat /\ v[Len(v)][2] + r[2] \in Nat \ {0}
      BY <3>4
    <3>3. <<v[Len(v)][1], v[Len(v)][2] + r[2]>> \in Runs
      BY <3>2 DEF Runs
    <3> QED BY <2>1, <3>1, <3>3 DEF Join, Last
  <2> QED BY <2>1, <2>2 DEF Join
<1> HIDE DEF S
<1>4. \E g \in [SUBSET S -> V] : Down(g, S, <<>>, ch, step)
  <2>1. \A X \in SUBSET S : X # {} => ch[X] \in X
    BY <1>2
  <2>2. \A X \in SUBSET S : \A v \in V : X # {} => step[X][v] \in V
    BY <1>1, <1>2, <1>3
  <2>3. <<>> \in V
    OBVIOUS
  <2> HIDE DEF ch, step, V
  <2> QED BY <1>1, <2>1, <2>2, <2>3, SetRecursion
<1>5. PICK g \in [SUBSET S -> V] :
        g = [X \in SUBSET S |-> IF X = {} THEN <<>> ELSE step[X][g[X \ {ch[X]}]]]
  BY <1>4 DEF Down
<1>6. Eq(g)
  <2>1. ASSUME NEW X \in SUBSET S PROVE g[X] = e(g, X)
    <3>1. g[X] = IF X = {} THEN <<>> ELSE step[X][g[X \ {ch[X]}]]
      <4> HIDE DEF ch, step
      <4> QED BY <1>5
    <3>2. ch[X] = LastRun(X) /\ X \ {LastRun(X)} \in SUBSET S
      OBVIOUS
    <3>3. g[X \ {LastRun(X)}] \in V /\ \A v \in V : step[X][v] = Join(v, LastRun(X))
      BY <3>2
    <3> HIDE DEF ch, step
    <3> QED BY <3>1, <3>2, <3>3
  <2> HIDE DEF e
  <2> QED BY <1>5, <2>1
<1> DEFINE it == CHOOSE f : Eq(f)
<1>7. Eq(it)
  <2> HIDE DEF Eq
  <2> QED BY <1>6
<1>8. GivenBack(list, run) = it[S]
  BY DEF GivenBack, S
<1> HIDE DEF it
<1> DEFINE P(X) == it[X] \in V /\ Canon(it[X]) /\ RegionRows(ToSet(it[X])) = RegionRows(X)
           T == {X \in SUBSET S : P(X)}
<1>9. ASSUME NEW X \in SUBSET S, \A x \in X : X \ {x} \in T
      PROVE  X \in T
  <2>0. it[X] = e(it, X)
    <3> HIDE DEF e
    <3> QED BY <1>7
  <2>1. CASE X = {}
    <3>1. it[X] = <<>>
      BY <2>0, <2>1
    <3>2. ToSet(<<>>) = {} /\ <<>> \in V /\ Canon(<<>>)
      BY EmptyFacts DEF Canon
    <3> QED BY <2>1, <3>1, <3>2 DEF RegionRows
  <2>2. CASE X # {}
    <3> DEFINE r == LastRun(X)
               Y == X \ {r}
               v == it[Y]
    <3>1. r \in X /\ Y \in T /\ r \in Runs /\ X \subseteq Runs
      BY <1>1, <1>2, <1>9, <2>2
    <3>2. v \in V /\ Canon(v) /\ RegionRows(ToSet(v)) = RegionRows(Y)
      BY <3>1
    <3>3. it[X] = Join(v, r)
      BY <2>0, <2>2
    <3>4. \A t \in Y : Before(t, r) /\ t # r
      BY <1>2
    <3> HIDE DEF r, v, Y
    <3>5. ASSUME NEW i \in DOMAIN v PROVE v[i][1] + v[i][2] <= r[1]
      <4> DEFINE last == v[i][1] + v[i][2] - 1
      <4>1. v[i] \in Runs /\ RowsOf(v[i]) \subseteq RegionRows(ToSet(v))
        BY <3>2, ListFacts
      <4>2. last \in RegionRows(Y)
        BY <3>2, <4>1, RunFacts
      <4>3. PICK t \in Y : last \in RowsOf(t)
        BY <4>2 DEF RegionRows
      <4>4. t \in Runs /\ t \in S /\ r \in S /\ Before(t, r) /\ t # r
        BY <3>1, <3>4 DEF Y
      <4>5. RowsOf(t) \cap RowsOf(r) = {}
        BY <4>4 DEF Apart, S
      <4>6. t[1] <= r[1]
        BY <3>1, <4>4, BeforeFacts
      <4>7. t[1] + t[2] <= r[1]
        BY <3>1, <4>4, <4>5, <4>6, ApartFacts
      <4>8. last < t[1] + t[2] /\ t[1] \in Nat /\ t[2] \in Nat /\ v[i][1] \in Nat /\ v[i][2] \in Nat /\ r[1] \in Nat
        BY <3>1, <4>1, <4>3, <4>4, RunFacts
      <4>9. v[i][1] + v[i][2] = last + 1 /\ last \in Int
        BY <4>8
      <4> HIDE DEF last
      <4>10. last + 1 <= r[1]
        BY <4>7, <4>8, <4>9
      <4> QED BY <4>9, <4>10
    <3>6. /\ Join(v, r) \in V /\ Canon(Join(v, r))
          /\ RegionRows(ToSet(Join(v, r))) = RegionRows(Y) \cup RowsOf(r)
      BY <3>1, <3>2, <3>5, JoinIs
    <3>7. RegionRows(Y) \cup RowsOf(r) = RegionRows(X)
      BY <3>1 DEF RegionRows, Y
    <3> QED BY <3>3, <3>6, <3>7
  <2> QED BY <2>1, <2>2
<1>10. S \in T
  <2>1. \A X \in SUBSET S : X \in T
    <3> HIDE DEF T
    <3> QED BY <1>1, <1>9, SetStrongInduct
  <2> QED BY <2>1
<1>11. RegionRows(S) = RegionRows(ToSet(list)) \cup RowsOf(run)
  BY DEF RegionRows, S
<1> QED BY <1>8, <1>10, <1>11

\* What free_runs has once the regions X are passed.
GapInv(acc, X) ==
  /\ acc.list \in Seq(Runs) /\ Canon(acc.list)
  /\ X = {} => acc.at = 0
  /\ X # {} => acc.at - 1 \in RegionRows(X)
  /\ \A i \in DOMAIN acc.list : acc.list[i][1] + acc.list[i][2] < acc.at
  /\ \A x \in RegionRows(X) : x < acc.at
  /\ RegionRows(ToSet(acc.list)) = 0 .. (acc.at - 1) \ RegionRows(X)
  /\ \A x \in RegionRows(ToSet(acc.list)) : \E t \in X : x < t[1]
Gaps == [list : Seq(Runs), at : Nat]

LEMMA GapIs ==
  ASSUME NEW acc \in Gaps, NEW X \in SUBSET Runs, NEW run \in Runs, GapInv(acc, X),
         \A t \in X : t[1] <= run[1]
  PROVE  Gap(acc, run) \in Gaps /\ GapInv(Gap(acc, run), X \cup {run})
<1> DEFINE g == Gap(acc, run)
           at == acc.at
           b == run[1]
           k == run[2]
           gap == <<at, b - at>>
<1>1. acc.list \in Seq(Runs) /\ at \in Nat /\ b \in Nat /\ k \in Nat \ {0}
  BY RunFacts DEF Gaps
<1>2. /\ g.list = (IF b > at THEN Append(acc.list, gap) ELSE acc.list)
      /\ g.at = (IF at > b + k THEN at ELSE b + k)
  BY DEF Gap
<1>3. g = [list |-> g.list, at |-> g.at]
  BY DEF Gap
<1>4. g.at \in Nat /\ g.at >= b + k /\ g.at >= at /\ (g.at = at \/ g.at = b + k) /\ b < g.at
  BY <1>1, <1>2
<1>5. RegionRows(X \cup {run}) = RegionRows(X) \cup RowsOf(run)
  BY DEF RegionRows
<1>6. RowsOf(run) = b .. (b + k - 1)
  BY DEF RowsOf
<1>7. b > at => /\ gap \in Runs /\ gap[1] = at /\ gap[2] = b - at /\ RowsOf(gap) = at .. (b - 1)
  <2> SUFFICES ASSUME b > at PROVE gap \in Runs /\ gap[1] = at /\ gap[2] = b - at /\ RowsOf(gap) = at .. (b - 1)
    OBVIOUS
  <2>1. b - at \in Nat \ {0} /\ at + (b - at) - 1 = b - 1
    BY <1>1
  <2> QED BY <1>1, <2>1 DEF Runs, RowsOf
<1>8. /\ g.list \in Seq(Runs) /\ Canon(g.list)
      /\ RegionRows(ToSet(g.list)) = RegionRows(ToSet(acc.list)) \cup (IF b > at THEN at .. (b - 1) ELSE {})
      /\ \A i \in DOMAIN g.list : g.list[i][1] + g.list[i][2] < g.at
  <2>1. CASE b > at
    <3> HIDE DEF gap, g, at, b
    <3>1. \A i \in DOMAIN acc.list : acc.list[i][1] + acc.list[i][2] < gap[1]
      BY <1>7, <2>1 DEF GapInv, at
    <3>2. /\ g.list \in Seq(Runs) /\ Canon(g.list)
          /\ RegionRows(ToSet(g.list)) = RegionRows(ToSet(acc.list)) \cup (at .. (b - 1))
      BY <1>1, <1>2, <1>7, <2>1, <3>1, AppendRun DEF GapInv
    <3>3. ASSUME NEW i \in DOMAIN g.list PROVE g.list[i][1] + g.list[i][2] < g.at
      <4>1. g.list = Append(acc.list, gap)
        BY <1>2, <2>1
      <4>2. Len(acc.list) \in Nat /\ DOMAIN acc.list = 1 .. Len(acc.list) /\ DOMAIN g.list = 1 .. Len(acc.list) + 1
        BY <1>1, <1>7, <2>1, <4>1
      <4>3. CASE i \in DOMAIN acc.list
        <5>1. g.list[i] = acc.list[i]
          BY <1>1, <4>1, <4>2, <4>3
        <5>2. acc.list[i] \in Runs /\ acc.list[i][1] + acc.list[i][2] < at
          BY <1>1, <4>3 DEF GapInv, at
        <5>3. acc.list[i][1] \in Nat /\ acc.list[i][2] \in Nat
          BY <5>2, RunFacts
        <5> QED BY <1>1, <1>4, <5>1, <5>2, <5>3, SMTT(30)
      <4>4. CASE i \notin DOMAIN acc.list
        <5>1. i = Len(acc.list) + 1
          BY <4>2, <4>4
        <5>2. g.list[i] = gap
          BY <1>1, <4>1, <5>1
        <5>3. gap[1] + gap[2] = b
          BY <1>1, <1>7, <2>1
        <5> QED BY <1>4, <5>2, <5>3
      <4> QED BY <4>3, <4>4
    <3> QED BY <2>1, <3>2, <3>3
  <2>2. CASE ~ (b > at)
    <3>1. g.list = acc.list
      BY <1>2, <2>2
    <3> HIDE DEF g
    <3>2. \A i \in DOMAIN acc.list : acc.list[i][1] \in Nat /\ acc.list[i][2] \in Nat
      BY <1>1, RunFacts
    <3> QED BY <1>1, <1>4, <2>2, <3>1, <3>2, SMTT(30) DEF GapInv
  <2> QED BY <2>1, <2>2
<1>9. \A x \in RegionRows(ToSet(g.list)) : x \in Nat /\ x < b
  <2>1. ASSUME NEW x \in RegionRows(ToSet(acc.list)) PROVE x \in Nat /\ x < b
    <3>1. PICK t \in X : x < t[1]
      BY DEF GapInv
    <3>2. t[1] \in Nat /\ t[1] <= b
      BY RunFacts
    <3>3. x \in Nat
      <4>1. RegionRows(ToSet(acc.list)) \subseteq 0 .. (at - 1)
        BY DEF GapInv
      <4> QED BY <1>1, <4>1
    <3> QED BY <1>1, <3>1, <3>2, <3>3
  <2> HIDE DEF g
  <2> QED BY <1>1, <1>8, <2>1
<1>10. \A x \in RegionRows(X \cup {run}) : x < g.at
  <2>1. \A x \in RegionRows(X) : x \in Nat /\ x < at
    <3>1. \A t \in X : RowsOf(t) \subseteq Nat
      BY RunFacts
    <3> QED BY <3>1 DEF GapInv, RegionRows
  <2> HIDE DEF g
  <2> QED BY <1>1, <1>4, <1>5, <1>6, <2>1
<1>11. g.at - 1 \in RegionRows(X \cup {run})
  <2> HIDE DEF g, b, k, at
  <2>1. CASE g.at = b + k
    <3>1. g.at - 1 \in b .. (b + k - 1)
      BY <1>1, <2>1
    <3> QED BY <1>5, <1>6, <3>1
  <2>2. CASE g.at = at
    <3>1. X # {}
      BY <1>1, <1>4, <2>2 DEF GapInv, at
    <3> QED BY <1>5, <2>2, <3>1 DEF GapInv, at
  <2> QED BY <1>4, <2>1, <2>2
<1>12. RegionRows(ToSet(g.list)) = 0 .. (g.at - 1) \ RegionRows(X \cup {run})
  <2> DEFINE A == RegionRows(ToSet(acc.list))
             Q == RegionRows(X)
             G == RegionRows(ToSet(g.list))
  <2>1. A = 0 .. (at - 1) \ Q /\ (\A x \in Q : x < at) /\ Q \subseteq Nat
    <3>1. \A t \in X : RowsOf(t) \subseteq Nat
      BY RunFacts
    <3> QED BY <3>1 DEF GapInv, RegionRows
  <2>2. G = A \cup (IF b > at THEN at .. (b - 1) ELSE {}) /\ \A x \in G : x \in Nat /\ x < b
    BY <1>8, <1>9
  <2> HIDE DEF A, Q, G, g, b, k, at
  <2>3. ASSUME NEW x \in G PROVE x \in 0 .. (g.at - 1) /\ x \notin Q /\ x \notin RowsOf(run)
    BY <1>1, <1>4, <1>6, <2>1, <2>2
  <2>4. ASSUME NEW x \in 0 .. (g.at - 1), x \notin Q, x \notin RowsOf(run) PROVE x \in G
    <3>1. x \in Nat /\ (x < at => x \in A)
      BY <1>1, <1>4, <2>1, <2>4
    <3>2. CASE x < at
      BY <2>2, <3>1, <3>2
    <3>3. CASE ~ (x < at)
      <4>1. g.at = b + k
        BY <1>1, <1>4, <3>3
      <4>2. x < b
        BY <1>1, <1>6, <2>4, <3>1, <4>1
      <4>3. b > at
        BY <1>1, <3>1, <3>3, <4>2
      <4> QED BY <1>1, <2>2, <3>1, <3>3, <4>2, <4>3
    <3> QED BY <3>2, <3>3
  <2>5. G = 0 .. (g.at - 1) \ (Q \cup RowsOf(run))
    BY <2>3, <2>4
  <2> QED BY <1>5, <2>5 DEF G, Q
<1> HIDE DEF g
<1>13. GapInv(g, X \cup {run})
  BY <1>8, <1>9, <1>10, <1>11, <1>12 DEF GapInv
<1> QED BY <1>3, <1>4, <1>8, <1>13 DEF Gaps, g

\* free_runs: the rows of the store that no region holds.
LEMMA FreeRunsIs ==
  ASSUME NEW S, IsFiniteSet(S), S \subseteq Runs, RegionRows(S) \subseteq 0 .. NRows - 1
  PROVE  /\ FreeRuns(S) \in Seq(Runs) /\ Canon(FreeRuns(S))
         /\ RegionRows(ToSet(FreeRuns(S))) = 0 .. NRows - 1 \ RegionRows(S)
<1> DEFINE c == [list |-> <<>>, at |-> 0]
           V == Gaps
           ch == [X \in SUBSET S |-> LastRun(X)]
           step == [X \in SUBSET S |-> [v \in V |-> IF Gap(v, LastRun(X)) \in V THEN Gap(v, LastRun(X)) ELSE c]]
           e(f, X) == IF X = {} THEN c ELSE Gap(f[X \ {LastRun(X)}], LastRun(X))
           Eq(f) == f = [X \in SUBSET S |-> e(f, X)]
<1>1. c \in V /\ GapInv(c, {})
  <2>1. <<>> \in Seq(Runs) /\ ToSet(<<>>) = {} /\ DOMAIN <<>> = {} /\ 0 .. (0 - 1) = {}
    BY EmptyFacts
  <2> QED BY <2>1 DEF Gaps, GapInv, Canon, RegionRows
<1> HIDE DEF c
<1>2. \A X \in SUBSET S : X # {} => LastRun(X) \in X /\ \A t \in X : Before(t, LastRun(X))
  BY LastRunIs
<1>3. \E g \in [SUBSET S -> V] : Down(g, S, c, ch, step)
  <2>1. \A X \in SUBSET S : X # {} => ch[X] \in X
    BY <1>2
  <2>2. \A X \in SUBSET S : \A v \in V : X # {} => step[X][v] \in V
    BY <1>1
  <2> HIDE DEF ch, step, V
  <2> QED BY <1>1, <2>1, <2>2, SetRecursion
<1>4. PICK g \in [SUBSET S -> V] :
        g = [X \in SUBSET S |-> IF X = {} THEN c ELSE step[X][g[X \ {ch[X]}]]]
  BY <1>3 DEF Down
\* What holds of the two functions alike: the definition's, and the one there is.
<1> DEFINE P(f, X) == f[X] \in V /\ GapInv(f[X], X)
<1>5. ASSUME NEW X \in SUBSET S, X # {}, NEW v \in V, GapInv(v, X \ {LastRun(X)})
      PROVE  Gap(v, LastRun(X)) \in V /\ GapInv(Gap(v, LastRun(X)), X)
  <2> DEFINE r == LastRun(X)
             Y == X \ {r}
  <2>1. r \in X /\ r \in Runs /\ Y \in SUBSET Runs /\ Y \cup {r} = X
    BY <1>2, <1>5
  <2>2. \A t \in Y : t[1] <= r[1]
    <3>1. \A t \in Y : t \in Runs /\ Before(t, r)
      BY <1>2, <2>1
    <3> QED BY <2>1, <3>1, BeforeFacts
  <2> HIDE DEF r
  <2> QED BY <1>5, <2>1, <2>2, GapIs DEF r
<1>6. \A X \in SUBSET S : P(g, X)
  <2> DEFINE T == {X \in SUBSET S : P(g, X)}
  <2>1. ASSUME NEW X \in SUBSET S, \A x \in X : X \ {x} \in T
        PROVE  X \in T
    <3>1. g[X] = IF X = {} THEN c ELSE step[X][g[X \ {ch[X]}]]
      <4> HIDE DEF ch, step
      <4> QED BY <1>4
    <3>2. CASE X = {}
      BY <1>1, <3>1, <3>2
    <3>3. CASE X # {}
      <4>1. LastRun(X) \in X /\ ch[X] = LastRun(X)
        BY <1>2, <3>3
      <4> DEFINE v == g[X \ {LastRun(X)}]
      <4>2. v \in V /\ GapInv(v, X \ {LastRun(X)})
        BY <2>1, <4>1
      <4>3. Gap(v, LastRun(X)) \in V /\ GapInv(Gap(v, LastRun(X)), X)
        <5> HIDE DEF v
        <5> QED BY <1>5, <3>3, <4>2
      <4>4. g[X] = step[X][v]
        BY <3>1, <3>3, <4>1
      <4>5. step[X][v] = Gap(v, LastRun(X))
        BY <4>2, <4>3
      <4> HIDE DEF v, step, ch
      <4> QED BY <4>3, <4>4, <4>5
    <3> QED BY <3>2, <3>3
  <2> HIDE DEF T
  <2>2. \A X \in SUBSET S : X \in T
    BY <2>1, SetStrongInduct
  <2> QED BY <2>2 DEF T
<1>7. Eq(g)
  <2>1. ASSUME NEW X \in SUBSET S PROVE g[X] = e(g, X)
    <3>1. g[X] = IF X = {} THEN c ELSE step[X][g[X \ {ch[X]}]]
      <4> HIDE DEF ch, step
      <4> QED BY <1>4
    <3>2. CASE X # {}
      <4> DEFINE v == g[X \ {LastRun(X)}]
      <4>1. X \ {LastRun(X)} \in SUBSET S /\ ch[X] = LastRun(X)
        OBVIOUS
      <4>2. v \in V /\ GapInv(v, X \ {LastRun(X)})
        BY <1>6, <4>1
      <4>3. Gap(v, LastRun(X)) \in V
        <5> HIDE DEF v
        <5> QED BY <1>5, <3>2, <4>2
      <4>4. step[X][v] = Gap(v, LastRun(X))
        BY <4>2, <4>3
      <4> HIDE DEF step, ch
      <4> QED BY <3>1, <3>2, <4>1, <4>4
    <3> QED BY <3>1, <3>2
  <2> HIDE DEF e
  <2> QED BY <1>4, <2>1
<1> DEFINE it == CHOOSE f : Eq(f)
<1>8. Eq(it)
  <2> HIDE DEF Eq
  <2> QED BY <1>7
<1>9. FreeRuns(S) = (IF NRows > it[S].at THEN Append(it[S].list, <<it[S].at, NRows - it[S].at>>) ELSE it[S].list)
  BY DEF FreeRuns, c
<1> HIDE DEF it
<1>10. P(it, S)
  <2> DEFINE T == {X \in SUBSET S : P(it, X)}
  <2>1. ASSUME NEW X \in SUBSET S, \A x \in X : X \ {x} \in T
        PROVE  X \in T
    <3>1. it[X] = e(it, X)
      <4> HIDE DEF e
      <4> QED BY <1>8
    <3>2. CASE X = {}
      BY <1>1, <3>1, <3>2
    <3>3. CASE X # {}
      <4>1. LastRun(X) \in X
        BY <1>2, <3>3
      <4> DEFINE v == it[X \ {LastRun(X)}]
      <4>2. v \in V /\ GapInv(v, X \ {LastRun(X)})
        BY <2>1, <4>1
      <4>3. Gap(v, LastRun(X)) \in V /\ GapInv(Gap(v, LastRun(X)), X)
        <5> HIDE DEF v
        <5> QED BY <1>5, <3>3, <4>2
      <4> QED BY <3>1, <3>3, <4>3
    <3> QED BY <3>2, <3>3
  <2>2. \A X \in SUBSET S : X \in T
    <3> HIDE DEF T
    <3> QED BY <2>1, SetStrongInduct
  <2> QED BY <2>2
<1> DEFINE a == it[S].at
           q == it[S].list
<1>11. q \in Seq(Runs) /\ a \in Nat /\ GapInv(it[S], S)
  BY <1>10 DEF Gaps
<1>12. /\ Canon(q) /\ (S = {} => a = 0) /\ (S # {} => a - 1 \in RegionRows(S))
       /\ \A i \in DOMAIN q : q[i][1] + q[i][2] < a
       /\ \A x \in RegionRows(S) : x < a
       /\ RegionRows(ToSet(q)) = 0 .. (a - 1) \ RegionRows(S)
  BY <1>11 DEF GapInv
<1> HIDE DEF a, q
<1>13. a <= NRows
  BY <1>11, <1>12, ListAssumption
<1>14. CASE NRows > a
  <2> DEFINE rest == <<a, NRows - a>>
  <2>1. rest \in Runs /\ rest[1] = a /\ rest[2] = NRows - a
    <3>1. NRows - a \in Nat \ {0}
      BY <1>11, <1>14, ListAssumption
    <3> QED BY <1>11, <3>1 DEF Runs
  <2>2. RowsOf(rest) = a .. (NRows - 1)
    <3>1. a + (NRows - a) - 1 = NRows - 1
      BY <1>11, ListAssumption
    <3> QED BY <2>1, <3>1 DEF RowsOf
  <2>3. FreeRuns(S) = Append(q, rest)
    BY <1>9, <1>14 DEF a, q
  <2> HIDE DEF rest
  <2>4. /\ Append(q, rest) \in Seq(Runs) /\ Canon(Append(q, rest))
        /\ RegionRows(ToSet(Append(q, rest))) = RegionRows(ToSet(q)) \cup RowsOf(rest)
    BY <1>11, <1>12, <2>1, AppendRun
  <2>5. (0 .. (a - 1) \ RegionRows(S)) \cup (a .. (NRows - 1)) = 0 .. NRows - 1 \ RegionRows(S)
    <3> DEFINE Q == RegionRows(S)
    <3>1. \A x \in Q : x < a
      BY <1>12
    <3> HIDE DEF Q
    <3>2. \A x \in 0 .. (a - 1) : x \in 0 .. NRows - 1
      BY <1>11, <1>13, ListAssumption
    <3>3. \A x \in a .. (NRows - 1) : x \in 0 .. NRows - 1 /\ ~ (x < a)
      BY <1>11, <1>13, ListAssumption
    <3>4. \A x \in 0 .. NRows - 1 : x \in 0 .. (a - 1) \/ x \in a .. (NRows - 1)
      BY <1>11, <1>13, ListAssumption
    <3>5. (0 .. (a - 1) \ Q) \cup (a .. (NRows - 1)) = 0 .. NRows - 1 \ Q
      BY <3>1, <3>2, <3>3, <3>4
    <3> QED BY <3>5 DEF Q
  <2> QED BY <1>12, <2>2, <2>3, <2>4, <2>5
<1>15. CASE ~ (NRows > a)
  <2>1. a = NRows
    BY <1>11, <1>13, <1>15, ListAssumption
  <2>2. FreeRuns(S) = q
    BY <1>9, <1>15 DEF a, q
  <2> QED BY <1>11, <1>12, <2>1, <2>2
<1> QED BY <1>14, <1>15

(***************************************************************************)
(* The list of free rows: carve and carve_at                               *)
(***************************************************************************)
\* The run after a free run's last row is not free: runs do not touch.
LEMMA RunsAreMaximal ==
  ASSUME NEW list \in Seq(Runs), Canon(list), NEW i \in DOMAIN list
  PROVE  /\ \A j \in DOMAIN list : j # i => RowsOf(list[j]) \cap RowsOf(list[i]) = {}
         /\ list[i][1] + list[i][2] \notin RegionRows(ToSet(list))
         /\ \A j \in DOMAIN list : list[j][1] < list[i][1] => j < i
<1>1. DOMAIN list = 1 .. Len(list) /\ Len(list) \in Nat /\ \A j \in DOMAIN list : list[j] \in Runs
  BY ListFacts
<1>2. list[i][1] \in Nat /\ list[i][2] \in Nat \ {0} /\ i \in Nat
  BY <1>1, RunFacts
<1>3. ASSUME NEW j \in DOMAIN list, j # i
      PROVE  /\ RowsOf(list[j]) \cap RowsOf(list[i]) = {} /\ list[i][1] + list[i][2] \notin RowsOf(list[j])
             /\ list[j][1] < list[i][1] => j < i
  <2>1. list[j][1] \in Nat /\ list[j][2] \in Nat \ {0} /\ j \in Nat
    BY <1>1, RunFacts
  <2>2. CASE j < i
    <3>1. list[j][1] + list[j][2] < list[i][1]
      BY <2>2 DEF Canon
    <3> DEFINE b == list[i][1]
               l == list[i][2]
               c == list[j][1]
               m == list[j][2]
    <3>3. RowsOf(list[i]) = b .. (b + l - 1) /\ RowsOf(list[j]) = c .. (c + m - 1)
      BY DEF RowsOf
    <3>4. b \in Nat /\ l \in Nat \ {0} /\ c \in Nat /\ m \in Nat \ {0} /\ c + m < b
      BY <1>2, <2>1, <3>1
    <3> HIDE DEF b, l, c, m
    <3>5. (c .. (c + m - 1)) \cap (b .. (b + l - 1)) = {} /\ b + l \notin c .. (c + m - 1)
      BY <3>4
    <3> QED BY <2>2, <3>3, <3>5 DEF b, l
  <2>3. CASE ~ (j < i)
    <3>1. i < j
      BY <1>2, <1>3, <2>1, <2>3
    <3>2. list[i][1] + list[i][2] < list[j][1]
      BY <3>1 DEF Canon
    <3> DEFINE b == list[i][1]
               l == list[i][2]
               c == list[j][1]
               m == list[j][2]
    <3>3. RowsOf(list[i]) = b .. (b + l - 1) /\ RowsOf(list[j]) = c .. (c + m - 1)
      BY DEF RowsOf
    <3>4. b \in Nat /\ l \in Nat \ {0} /\ c \in Nat /\ m \in Nat \ {0} /\ b + l < c
      BY <1>2, <2>1, <3>2
    <3> HIDE DEF b, l, c, m
    <3>5. (c .. (c + m - 1)) \cap (b .. (b + l - 1)) = {} /\ b + l \notin c .. (c + m - 1) /\ ~ (c < b)
      BY <3>4
    <3> QED BY <3>3, <3>5 DEF b, l, c
  <2> QED BY <2>2, <2>3
<1>4. list[i][1] + list[i][2] \notin RowsOf(list[i])
  BY <1>2 DEF RowsOf
<1>5. list[i][1] + list[i][2] \notin RegionRows(ToSet(list))
  BY <1>3, <1>4, ListFacts
<1>6. ~ (list[i][1] < list[i][1])
  BY <1>2
<1> QED BY <1>3, <1>5, <1>6

LEMMA RemoveFacts ==
  ASSUME NEW S, NEW list \in Seq(S), NEW i \in DOMAIN list
  PROVE  /\ RemoveAt(list, i) \in Seq(S) /\ Len(RemoveAt(list, i)) = Len(list) - 1
         /\ \A j \in 1 .. Len(list) - 1 : RemoveAt(list, i)[j] = IF j < i THEN list[j] ELSE list[j + 1]
<1> DEFINE p == SubSeq(list, 1, i - 1)
           q == SubSeq(list, i + 1, Len(list))
           n == Len(list)
<1>1. n \in Nat /\ i \in 1 .. n /\ i \in Nat
  OBVIOUS
<1>2. p \in Seq(S) /\ Len(p) = i - 1 /\ \A j \in 1 .. i - 1 : p[j] = list[j]
  BY <1>1
<1>3. q \in Seq(S) /\ Len(q) = n - i /\ \A j \in 1 .. n - i : q[j] = list[j + i]
  BY <1>1
<1>4. RemoveAt(list, i) = p \o q
  BY DEF RemoveAt
<1> HIDE DEF p, q
<1>5. p \o q \in Seq(S) /\ Len(p \o q) = n - 1
  BY <1>1, <1>2, <1>3
<1>6. ASSUME NEW j \in 1 .. n - 1 PROVE (p \o q)[j] = IF j < i THEN list[j] ELSE list[j + 1]
  <2>1. CASE j < i
    BY <1>1, <1>2, <1>3, <2>1
  <2>2. CASE ~ (j < i)
    <3>1. j - (i - 1) \in 1 .. n - i /\ (j - (i - 1)) + i = j + 1
      BY <1>1, <2>2
    <3>2. (p \o q)[j] = q[j - (i - 1)]
      <4>1. \A h \in 1 .. Len(p) + Len(q) : (p \o q)[h] = IF h <= Len(p) THEN p[h] ELSE q[h - Len(p)]
        BY <1>2, <1>3, SMTT(30)
      <4>2. j \in 1 .. Len(p) + Len(q) /\ ~ (j <= Len(p)) /\ Len(p) = i - 1
        BY <1>1, <1>2, <1>3, <2>2
      <4> QED BY <4>1, <4>2
    <3> QED BY <1>3, <2>2, <3>1, <3>2
  <2> QED BY <2>1, <2>2
<1> QED BY <1>4, <1>5, <1>6

\* What is left of l rows from b once the first k are taken.
LEMMA RestOfRun ==
  ASSUME NEW b \in Nat, NEW l \in Nat, NEW k \in Nat
  PROVE  (b + k) .. (b + k + (l - k) - 1) = (b .. (b + l - 1)) \ (b .. (b + k - 1))
<1> SUFFICES ASSUME NEW x
             PROVE  x \in (b + k) .. (b + k + (l - k) - 1)
                      <=> x \in b .. (b + l - 1) /\ x \notin b .. (b + k - 1)
  OBVIOUS
<1>1. CASE x \in Int
  BY <1>1
<1>2. CASE x \notin Int
  BY <1>2
<1> QED BY <1>1, <1>2

\* The first k rows of a run are taken.
LEMMA TakeFromIs ==
  ASSUME NEW list \in Seq(Runs), Canon(list), NEW i \in DOMAIN list, NEW k \in Nat \ {0}, k <= list[i][2]
  PROVE  /\ TakeFrom(list, i, k) \in Seq(Runs) /\ Canon(TakeFrom(list, i, k))
         /\ RegionRows(ToSet(TakeFrom(list, i, k))) = RegionRows(ToSet(list)) \ RowsOf(<<list[i][1], k>>)
<1> DEFINE n == Len(list)
           b == list[i][1]
           l == list[i][2]
           taken == <<b, k>>
<1>1. DOMAIN list = 1 .. n /\ n \in Nat /\ \A j \in DOMAIN list : list[j] \in Runs
  BY ListFacts
<1>2. b \in Nat /\ l \in Nat \ {0} /\ i \in Nat /\ i \in 1 .. n
  BY <1>1, RunFacts
<1>3. RowsOf(taken) = b .. (b + k - 1) /\ RowsOf(list[i]) = b .. (b + l - 1)
  BY DEF RowsOf
<1>4. RowsOf(taken) \subseteq RowsOf(list[i])
  BY <1>2, <1>3
<1>5. \A j \in 1 .. n : j # i => RowsOf(list[j]) \cap RowsOf(list[i]) = {}
  BY <1>1, RunsAreMaximal
<1>6. \A x : x \in RegionRows(ToSet(list)) <=> \E j \in 1 .. n : x \in RowsOf(list[j])
  BY <1>1 DEF RegionRows, ToSet
<1>7. CASE l = k
  <2> DEFINE a == RemoveAt(list, i)
  <2>1. TakeFrom(list, i, k) = a
    BY <1>7 DEF TakeFrom
  <2>2. a \in Seq(Runs) /\ Len(a) = n - 1 /\ \A j \in 1 .. n - 1 : a[j] = IF j < i THEN list[j] ELSE list[j + 1]
    BY RemoveFacts
  <2> HIDE DEF a
  <2>3. DOMAIN a = 1 .. n - 1
    BY <2>2
  <2>4. Canon(a)
    <3> SUFFICES ASSUME NEW x \in 1 .. n - 1, NEW y \in 1 .. n - 1, x < y
                 PROVE  a[x][1] + a[x][2] < a[y][1]
      BY <2>3 DEF Canon
    <3> DEFINE u == IF x < i THEN x ELSE x + 1
               v == IF y < i THEN y ELSE y + 1
    <3>1. u \in 1 .. n /\ v \in 1 .. n /\ u < v
      BY <1>1, <1>2
    <3>2. a[x] = list[u] /\ a[y] = list[v]
      BY <2>2
    <3> HIDE DEF u, v
    <3> QED BY <1>1, <3>1, <3>2 DEF Canon
  <2>5. \A x : x \in RegionRows(ToSet(a)) <=> \E j \in 1 .. n - 1 : x \in RowsOf(a[j])
    BY <2>3 DEF RegionRows, ToSet
  <2>6. ASSUME NEW x, \E j \in 1 .. n - 1 : x \in RowsOf(a[j])
        PROVE  (\E j \in 1 .. n : x \in RowsOf(list[j])) /\ x \notin RowsOf(taken)
    <3>1. PICK j \in 1 .. n - 1 : x \in RowsOf(a[j])
      BY <2>6
    <3> DEFINE u == IF j < i THEN j ELSE j + 1
    <3>2. u \in 1 .. n /\ u # i
      BY <1>1, <1>2
    <3>3. x \in RowsOf(list[u])
      BY <2>2, <3>1
    <3> HIDE DEF u
    <3> QED BY <1>4, <1>5, <3>2, <3>3
  <2>7. ASSUME NEW x, NEW j \in 1 .. n, x \in RowsOf(list[j]), x \notin RowsOf(taken)
        PROVE  \E h \in 1 .. n - 1 : x \in RowsOf(a[h])
    <3>1. j # i
      BY <1>3, <1>7, <2>7
    <3> DEFINE h == IF j < i THEN j ELSE j - 1
    <3>2. h \in 1 .. n - 1 /\ (IF h < i THEN h ELSE h + 1) = j
      BY <1>1, <1>2, <3>1
    <3> HIDE DEF h
    <3>3. a[h] = list[j]
      BY <2>2, <3>2
    <3> QED BY <2>7, <3>2, <3>3
  <2>8. RegionRows(ToSet(a)) = RegionRows(ToSet(list)) \ RowsOf(taken)
    BY <1>6, <2>5, <2>6, <2>7
  <2> QED BY <2>1, <2>2, <2>4, <2>8
<1>8. CASE l # k
  <2> DEFINE rest == <<b + k, l - k>>
             a == [list EXCEPT ![i] = rest]
  <2>1. TakeFrom(list, i, k) = a
    BY <1>8 DEF TakeFrom, ReplaceAt
  <2>2. rest \in Runs /\ rest[1] = b + k /\ rest[2] = l - k
    <3>1. b + k \in Nat /\ l - k \in Nat \ {0}
      BY <1>2, <1>8
    <3> QED BY <3>1 DEF Runs
  <2>3. a \in Seq(Runs) /\ DOMAIN a = 1 .. n /\ a[i] = rest /\ \A j \in 1 .. n : j # i => a[j] = list[j]
    BY <1>1, <2>2
  <2>4. RowsOf(rest) = RowsOf(list[i]) \ RowsOf(taken)
    <3>1. RowsOf(rest) = (b + k) .. (b + k + (l - k) - 1)
      BY <2>2 DEF RowsOf
    <3> HIDE DEF b, l, taken, rest
    <3>2. (b + k) .. (b + k + (l - k) - 1) = (b .. (b + l - 1)) \ (b .. (b + k - 1))
      BY <1>2, <1>3, RestOfRun
    <3> QED BY <1>3, <3>1, <3>2
  <2> HIDE DEF a, rest
  <2>5. Canon(a)
    <3> SUFFICES ASSUME NEW x \in 1 .. n, NEW y \in 1 .. n, x < y
                 PROVE  a[x][1] + a[x][2] < a[y][1]
      BY <2>3 DEF Canon
    <3>1. list[x][1] + list[x][2] < list[y][1]
      BY <1>1 DEF Canon
    <3>2. list[x][1] \in Nat /\ list[x][2] \in Nat /\ list[y][1] \in Nat
      BY <1>1, RunFacts
    <3>3. CASE x = i
      <4>1. y # i /\ a[y] = list[y] /\ a[x] = rest
        BY <1>2, <2>3, <3>3
      <4> QED BY <1>2, <2>2, <3>1, <3>2, <3>3, <4>1
    <3>4. CASE y = i
      <4>1. x # i /\ a[x] = list[x] /\ a[y] = rest
        BY <1>2, <2>3, <3>4
      <4> QED BY <1>2, <2>2, <3>1, <3>2, <3>4, <4>1, SMTT(30)
    <3>5. CASE x # i /\ y # i
      BY <2>3, <3>1, <3>5
    <3> QED BY <3>3, <3>4, <3>5
  <2>6. \A x : x \in RegionRows(ToSet(a)) <=> \E j \in 1 .. n : x \in RowsOf(a[j])
    BY <2>3 DEF RegionRows, ToSet
  <2>7. ASSUME NEW x, \E j \in 1 .. n : x \in RowsOf(a[j])
        PROVE  (\E j \in 1 .. n : x \in RowsOf(list[j])) /\ x \notin RowsOf(taken)
    <3>1. PICK j \in 1 .. n : x \in RowsOf(a[j])
      BY <2>7
    <3>2. CASE j = i
      BY <2>3, <2>4, <3>1, <3>2
    <3>3. CASE j # i
      BY <1>4, <1>5, <2>3, <3>1, <3>3
    <3> QED BY <3>2, <3>3
  <2>8. ASSUME NEW x, NEW j \in 1 .. n, x \in RowsOf(list[j]), x \notin RowsOf(taken)
        PROVE  \E h \in 1 .. n : x \in RowsOf(a[h])
    BY <1>2, <2>3, <2>4, <2>8
  <2>9. RegionRows(ToSet(a)) = RegionRows(ToSet(list)) \ RowsOf(taken)
    BY <1>6, <2>6, <2>7, <2>8
  <2> QED BY <2>1, <2>3, <2>5, <2>9
<1> QED BY <1>7, <1>8

(***************************************************************************)
(* The list of free rows: the actions, and the theorems                    *)
(***************************************************************************)
LEMMA CoveredIs == Covered = RegionRows(ToSet(free)) /\ Covered' = RegionRows(ToSet(free'))
BY DEF Covered, RegionRows

LEMMA RegionsApart ==
  ASSUME NEW X, NEW run, Apart(X), RowsOf(run) \cap RegionRows(X) = {}
  PROVE  Apart(X \cup {run}) /\ RegionRows(X \cup {run}) = RegionRows(X) \cup RowsOf(run)
BY DEF Apart, RegionRows

LEMMA ListInitInv == ListInit => ListInv /\ Allocator!AllocInit
<1> SUFFICES ASSUME ListInit PROVE ListInv /\ Allocator!AllocInit
  OBVIOUS
<1>1. held = {} /\ IsFiniteSet({}) /\ RegionRows({}) = {} /\ Apart({})
  BY FS_EmptySet DEF ListInit, RegionRows, Apart
<1>2. free \in Seq(Runs) /\ Canon(free) /\ Covered = 0 .. NRows - 1
  <2>1. CASE NRows > 0
    <3> DEFINE r == <<0, NRows>>
    <3>1. free = <<r>> /\ r \in Runs /\ RowsOf(r) = 0 .. NRows - 1
      <4>1. 0 + NRows - 1 = NRows - 1 /\ NRows \in Nat \ {0}
        BY <2>1, ListAssumption
      <4> QED BY <2>1, <4>1 DEF ListInit, Runs, RowsOf
    <3> HIDE DEF r
    <3>2. free \in Seq(Runs) /\ DOMAIN free = 1 .. 1 /\ free[1] = r
      BY <3>1
    <3>3. ToSet(free) = {r} /\ Canon(free)
      BY <3>2 DEF ToSet, Canon
    <3> QED BY <3>1, <3>2, <3>3 DEF Covered
  <2>2. CASE ~ (NRows > 0)
    <3>1. free = <<>> /\ 0 .. NRows - 1 = {}
      BY <2>2, ListAssumption DEF ListInit
    <3> QED BY <3>1, EmptyFacts DEF Covered, Canon
  <2> QED BY <2>1, <2>2
<1>3. Allocator!AllocInit
  BY <1>1, <1>2 DEF Allocator!AllocInit, Allocator!AllocRows
<1> QED BY <1>1, <1>2, <1>3 DEF ListInv

LEMMA CarveOk ==
  ASSUME ListInv, NEW k \in 1 .. NRows, Carve(k)
  PROVE  ListInv' /\ Allocator!AllocCarve(k)
<1>0. k \in Nat \ {0}
  BY ListAssumption
<1>1. PICK i \in DOMAIN free :
        /\ FirstRun(i, {j \in DOMAIN free : free[j][2] >= k})
        /\ free' = TakeFrom(free, i, k)
        /\ held' = held \cup {<<free[i][1], k>>}
  BY DEF Carve
<1> DEFINE b == free[i][1]
           run == <<b, k>>
<1>2. free[i][2] >= k /\ \A j \in DOMAIN free : free[j][2] >= k => i <= j
  BY <1>1 DEF FirstRun
<1>3. /\ free \in Seq(Runs) /\ Canon(free) /\ DOMAIN free = 1 .. Len(free) /\ Len(free) \in Nat
      /\ \A j \in DOMAIN free : free[j] \in Runs /\ RowsOf(free[j]) \subseteq Covered
      /\ \A x \in Covered : \E j \in DOMAIN free : x \in RowsOf(free[j])
  <2>1. free \in Seq(Runs) /\ Canon(free)
    BY DEF ListInv
  <2> QED BY <2>1, ListFacts, CoveredIs
<1>4. b \in Nat /\ free[i][2] \in Nat
  BY <1>3, RunFacts
<1>5. run \in Runs /\ RowsOf(run) = b .. (b + k - 1) /\ RowsOf(run) \subseteq RowsOf(free[i])
  <2>1. run \in Runs /\ run[1] = b /\ run[2] = k
    BY <1>0, <1>4 DEF Runs
  <2>2. RowsOf(run) = b .. (b + k - 1) /\ RowsOf(free[i]) = b .. (b + free[i][2] - 1)
    BY <2>1 DEF RowsOf
  <2>3. b .. (b + k - 1) \subseteq b .. (b + free[i][2] - 1)
    BY <1>0, <1>2, <1>4
  <2> QED BY <2>1, <2>2, <2>3
<1>6. free' \in Seq(Runs) /\ Canon(free') /\ Covered' = Covered \ RowsOf(run)
  <2>1. k <= free[i][2]
    BY <1>0, <1>2, <1>4
  <2> QED BY <1>0, <1>1, <1>3, <2>1, TakeFromIs, CoveredIs
<1>7. RowsOf(run) \subseteq Covered
  BY <1>3, <1>5
<1>8. held' = held \cup {run} /\ held' \in SUBSET Runs /\ IsFiniteSet(held')
  <2>1. IsFiniteSet(held \cup {run})
    BY FS_AddElement DEF ListInv
  <2> QED BY <1>1, <1>5, <2>1 DEF ListInv
<1> HIDE DEF run
<1>9. Apart(held') /\ RegionRows(held') = RegionRows(held) \cup RowsOf(run)
  <2>1. Apart(held) /\ RowsOf(run) \cap RegionRows(held) = {}
    BY <1>7 DEF ListInv
  <2> QED BY <1>8, <2>1, RegionsApart
<1>10. ListInv'
  <2>1. Covered' \cap RegionRows(held') = {} /\ Covered' \cup RegionRows(held') = 0 .. NRows - 1
    BY <1>6, <1>7, <1>9 DEF ListInv
  <2> QED BY <1>6, <1>8, <1>9, <2>1 DEF ListInv
\* First fit over the list is first fit over the set: a row below the run lies
\* in a run that is too short, and the row after that run is not free.
<1>11. Allocator!FirstFit(Covered, b, k)
  <2>1. b .. (b + k - 1) \subseteq Covered
    BY <1>5, <1>7
  <2>2. ASSUME NEW c \in Covered, c < b PROVE ~ (c .. (c + k - 1) \subseteq Covered)
    <3>1. PICK j \in DOMAIN free : c \in RowsOf(free[j])
      BY <1>3
    <3> DEFINE p == free[j][1]
               l == free[j][2]
    <3>2. p \in Nat /\ l \in Nat /\ p <= c /\ c < p + l /\ c \in Nat
      BY <1>3, <3>1, RunFacts
    <3>3. p + l \notin Covered
      BY <1>3, RunsAreMaximal, CoveredIs
    <3>4. p < b
      BY <1>4, <2>2, <3>2
    <3>5. j < i
      BY <1>3, <3>4, RunsAreMaximal
    <3>6. ~ (l >= k)
      BY <1>2, <1>3, <3>5
    <3> HIDE DEF p, l
    <3>7. p + l \in c .. (c + k - 1)
      BY <1>0, <3>2, <3>6
    <3> QED BY <3>3, <3>7
  <2> QED BY <2>1, <2>2 DEF Allocator!FirstFit, Allocator!Window
<1>12. b \in Covered
  <2>1. b \in b .. (b + k - 1)
    BY <1>0, <1>4
  <2> QED BY <1>5, <1>7, <2>1
<1>13. Allocator!AllocCarve(k)
  <2>1. Allocator!RunRows(<<b, k>>) = RowsOf(run)
    BY DEF Allocator!RunRows, RowsOf, run
  <2> QED BY <1>6, <1>8, <1>11, <1>12, <2>1 DEF Allocator!AllocCarve, run
<1> QED BY <1>10, <1>13

LEMMA ExtendOk ==
  ASSUME ListInv, NEW run \in held, NEW k \in 1 .. NRows, Extend(run, k)
  PROVE  ListInv' /\ Allocator!AllocExtend(run, k)
<1>0. k \in Nat \ {0} /\ run \in Runs /\ held \in SUBSET Runs
  BY ListAssumption DEF ListInv
<1>1. PICK i \in DOMAIN free :
        /\ FirstRun(i, {j \in DOMAIN free : free[j][1] = run[1] + run[2] /\ free[j][2] >= k})
        /\ free' = TakeFrom(free, i, k)
        /\ held' = (held \ {run}) \cup {<<run[1], run[2] + k>>}
  BY DEF Extend
<1> DEFINE b == run[1]
           m == run[2]
           e == b + m
           more == <<e, k>>
           wide == <<b, m + k>>
           rest == held \ {run}
<1>2. free[i][1] = e /\ free[i][2] >= k
  BY <1>1 DEF FirstRun
<1>3. /\ free \in Seq(Runs) /\ Canon(free) /\ \A j \in DOMAIN free : free[j] \in Runs /\ RowsOf(free[j]) \subseteq Covered
  <2>1. free \in Seq(Runs) /\ Canon(free)
    BY DEF ListInv
  <2> QED BY <2>1, ListFacts, CoveredIs
<1>4. b \in Nat /\ m \in Nat \ {0} /\ e \in Nat /\ free[i][2] \in Nat
  <2>1. b \in Nat /\ m \in Nat \ {0} /\ free[i][2] \in Nat
    BY <1>0, <1>3, RunFacts
  <2> QED BY <2>1
<1>5. /\ RowsOf(more) = e .. (e + k - 1) /\ RowsOf(more) \subseteq RowsOf(free[i])
      /\ RowsOf(run) = b .. (e - 1)
      /\ wide \in Runs /\ RowsOf(wide) = RowsOf(run) \cup RowsOf(more)
  <2>1. RowsOf(more) = e .. (e + k - 1) /\ RowsOf(free[i]) = e .. (e + free[i][2] - 1)
    BY <1>2 DEF RowsOf
  <2>2. e .. (e + k - 1) \subseteq e .. (e + free[i][2] - 1)
    BY <1>0, <1>2, <1>4
  <2>3. RowsOf(run) = b .. (e - 1) /\ RowsOf(wide) = b .. (b + (m + k) - 1)
    <3>1. wide[1] = b /\ wide[2] = m + k
      OBVIOUS
    <3> HIDE DEF wide
    <3>2. RowsOf(wide) = wide[1] .. (wide[1] + wide[2] - 1)
      BY Zenon DEF RowsOf
    <3>3. RowsOf(run) = b .. (e - 1)
      <4>1. RowsOf(run) = b .. (b + m - 1)
        BY Zenon DEF RowsOf
      <4>2. b + m - 1 = e - 1
        BY <1>4
      <4> QED BY <4>1, <4>2
    <3> HIDE DEF b, m
    <3> QED BY <3>1, <3>2, <3>3
  <2>4. m + k \in Nat \ {0}
    BY <1>0, <1>4
  <2>5. wide \in Runs
    BY <1>4, <2>4 DEF Runs
  <2>6. b .. (b + (m + k) - 1) = (b .. (e - 1)) \cup (e .. (e + k - 1))
    <3> HIDE DEF b, m
    <3> QED BY <1>0, <1>4
  <2> HIDE DEF b, m, e, more, wide
  <2> QED BY <2>1, <2>2, <2>3, <2>5, <2>6
<1>6. free' \in Seq(Runs) /\ Canon(free') /\ Covered' = Covered \ RowsOf(more)
  <2>1. k <= free[i][2]
    BY <1>0, <1>2, <1>4
  <2> QED BY <1>0, <1>1, <1>2, <1>3, <2>1, TakeFromIs, CoveredIs
<1>7. RowsOf(more) \subseteq Covered
  BY <1>3, <1>5
<1>8. RegionRows(held) = RegionRows(rest) \cup RowsOf(run) /\ RowsOf(run) \cap RegionRows(rest) = {} /\ Apart(rest)
      /\ IsFiniteSet(rest)
  <2>1. IsFiniteSet(rest)
    BY FS_RemoveElement DEF ListInv
  <2> QED BY <2>1 DEF ListInv, RegionRows, Apart
<1>9. held' = rest \cup {wide}
  BY <1>1
<1>10. RowsOf(wide) \cap RegionRows(rest) = {}
  BY <1>5, <1>7, <1>8 DEF ListInv
<1> HIDE DEF rest, wide
<1>11. Apart(held') /\ RegionRows(held') = RegionRows(rest) \cup RowsOf(wide) /\ IsFiniteSet(held') /\ held' \in SUBSET Runs
  <2>1. IsFiniteSet(rest \cup {wide})
    BY <1>8, FS_AddElement
  <2> QED BY <1>0, <1>5, <1>8, <1>9, <1>10, <2>1, RegionsApart DEF rest
<1>12. ListInv'
  <2>1. Covered' \cap RegionRows(held') = {} /\ Covered' \cup RegionRows(held') = 0 .. NRows - 1
    <3> DEFINE C == Covered
               H == RegionRows(held)
               Q == RegionRows(rest)
               A == RowsOf(more)
               B == RowsOf(run)
    <3>1. C \cap H = {} /\ C \cup H = 0 .. NRows - 1 /\ H = Q \cup B /\ B \cap Q = {} /\ A \subseteq C
      BY <1>7, <1>8 DEF ListInv
    <3>2. Covered' = C \ A /\ RegionRows(held') = Q \cup (B \cup A)
      BY <1>5, <1>6, <1>11
    <3> HIDE DEF C, H, Q, A, B
    <3> QED BY <3>1, <3>2
  <2> QED BY <1>6, <1>11, <2>1 DEF ListInv
<1>13. Allocator!CarveAt(Covered, e, k)
  <2>1. e .. (e + k - 1) \subseteq Covered
    BY <1>5, <1>7
  <2>2. e - 1 \in RowsOf(run) /\ RowsOf(run) \subseteq RegionRows(held)
    <3>1. e - 1 \in b .. (e - 1)
      BY <1>4
    <3> QED BY <1>5, <3>1 DEF RegionRows
  <2>3. e - 1 \notin Covered
    BY <2>2 DEF ListInv
  <2> QED BY <2>1, <2>3 DEF Allocator!CarveAt, Allocator!Window
<1>14. Allocator!AllocExtend(run, k)
  <2>1. Allocator!RunRows(<<run[1] + run[2], k>>) = RowsOf(more)
    BY DEF Allocator!RunRows, RowsOf
  <2> QED BY <1>1, <1>6, <1>13, <2>1 DEF Allocator!AllocExtend
<1> QED BY <1>12, <1>14

LEMMA GiveBackOk ==
  ASSUME ListInv, NEW run \in held, GiveBack(run)
  PROVE  ListInv' /\ Allocator!AllocGiveBack(run)
<1> DEFINE rest == held \ {run}
<1>1. free' = GivenBack(free, run) /\ held' = rest /\ run \in Runs /\ held \in SUBSET Runs
  BY DEF GiveBack, ListInv
<1>2. free \in Seq(Runs) /\ Canon(free) /\ DOMAIN free = 1 .. Len(free)
  BY ListFacts DEF ListInv
<1>3. RegionRows(held) = RegionRows(rest) \cup RowsOf(run) /\ RowsOf(run) \cap RegionRows(rest) = {} /\ Apart(rest)
      /\ IsFiniteSet(rest)
  <2>1. IsFiniteSet(rest)
    BY FS_RemoveElement DEF ListInv
  <2> QED BY <2>1 DEF ListInv, RegionRows, Apart
<1>4. Apart(ToSet(free))
  <2> SUFFICES ASSUME NEW r \in ToSet(free), NEW t \in ToSet(free), r # t
               PROVE  RowsOf(r) \cap RowsOf(t) = {}
    BY DEF Apart
  <2>1. PICK i \in DOMAIN free : r = free[i]
    BY DEF ToSet
  <2>2. PICK j \in DOMAIN free : t = free[j]
    BY DEF ToSet
  <2>3. i # j
    BY <2>1, <2>2
  <2> QED BY <1>2, <2>1, <2>2, <2>3, RunsAreMaximal
<1>5. RowsOf(run) \cap RegionRows(ToSet(free)) = {}
  BY CoveredIs DEF ListInv, RegionRows
<1>6. Apart(ToSet(free) \cup {run})
  BY <1>4, <1>5, RegionsApart
<1>7. free' \in Seq(Runs) /\ Canon(free') /\ Covered' = Covered \cup RowsOf(run)
  BY <1>1, <1>2, <1>6, GivenBackIs, CoveredIs
<1>8. ListInv'
  <2>1. Covered' \cap RegionRows(held') = {} /\ Covered' \cup RegionRows(held') = 0 .. NRows - 1
    <3> DEFINE C == Covered
               H == RegionRows(held)
               Q == RegionRows(rest)
               B == RowsOf(run)
    <3>1. C \cap H = {} /\ C \cup H = 0 .. NRows - 1 /\ H = Q \cup B /\ B \cap Q = {}
      BY <1>3 DEF ListInv
    <3>2. Covered' = C \cup B /\ RegionRows(held') = Q
      BY <1>1, <1>7
    <3> HIDE DEF C, H, Q, B
    <3> QED BY <3>1, <3>2
  <2> QED BY <1>1, <1>3, <1>7, <2>1 DEF ListInv
<1>9. Allocator!AllocGiveBack(run)
  <2>1. Allocator!RunRows(run) = RowsOf(run)
    BY DEF Allocator!RunRows, RowsOf
  <2> QED BY <1>1, <1>7, <2>1 DEF Allocator!AllocGiveBack
<1> QED BY <1>8, <1>9

\* The list free_runs builds covers what the old one did: no row is lost.
LEMMA RebuildOk ==
  ASSUME ListInv, Rebuild
  PROVE  ListInv' /\ Covered' = Covered /\ held' = held
<1>1. free' = FreeRuns(held) /\ held' = held
  BY DEF Rebuild
<1>2. RegionRows(held) \subseteq 0 .. NRows - 1 /\ Covered = 0 .. NRows - 1 \ RegionRows(held)
  BY DEF ListInv
<1>3. free' \in Seq(Runs) /\ Canon(free') /\ Covered' = 0 .. NRows - 1 \ RegionRows(held)
  BY <1>1, <1>2, FreeRunsIs, CoveredIs DEF ListInv
<1> QED BY <1>1, <1>2, <1>3 DEF ListInv

LEMMA ListStep ==
  ListInv /\ [ListNext]_listVars => ListInv' /\ [Allocator!AllocNext]_<<Covered, held>>
<1> SUFFICES ASSUME ListInv, [ListNext]_listVars PROVE ListInv' /\ [Allocator!AllocNext]_<<Covered, held>>
  OBVIOUS
<1>1. ASSUME NEW k \in 1 .. NRows, Carve(k) PROVE ListInv' /\ Allocator!AllocNext
  BY <1>1, CarveOk DEF Allocator!AllocNext
<1>2. ASSUME NEW run \in held, NEW k \in 1 .. NRows, Extend(run, k) PROVE ListInv' /\ Allocator!AllocNext
  BY <1>2, ExtendOk DEF Allocator!AllocNext
<1>3. ASSUME NEW run \in held, GiveBack(run) PROVE ListInv' /\ Allocator!AllocNext
  BY <1>3, GiveBackOk DEF Allocator!AllocNext
<1>4. CASE Rebuild
  BY <1>4, RebuildOk
<1>5. CASE UNCHANGED listVars
  <2>1. free' = free /\ held' = held
    BY <1>5 DEF listVars
  <2> QED BY <2>1 DEF ListInv, Covered
<1> QED BY <1>1, <1>2, <1>3, <1>4, <1>5 DEF ListNext

LEMMA ListInvHolds == ListSpec => []ListInv
BY ListInitInv, ListStep, PTL DEF ListSpec

\* The free list is sorted and no two of its runs touch (give_back, free_runs):
\* carve_at, which looks for a run's start, finds every row that is free.
THEOREM FreeListIsCanonical == ListSpec => []Canonical
<1>1. ListInv => Canonical
  <2> SUFFICES ASSUME ListInv, NEW i \in DOMAIN free PROVE free[i][2] > 0
    BY DEF ListInv, Canon, Canonical
  <2>1. free[i] \in Runs
    BY ListFacts DEF ListInv
  <2> QED BY <2>1, RunFacts
<1> QED BY <1>1, ListInvHolds, PTL

\* Every operation of the list is the set's (RowFreeList implements RowAllocator).
THEOREM ListImplementsAllocator == ListSpec => ImplementsAllocator
<1>1. ListSpec => Allocator!AllocInit /\ [][Allocator!AllocNext]_<<Covered, held>>
  BY ListInitInv, ListStep, ListInvHolds, PTL DEF ListSpec
<1> QED BY <1>1 DEF ImplementsAllocator, Allocator!AllocSpec

(***************************************************************************)
(* The chunked move                                                        *)
(***************************************************************************)
CopyTriples == Nat \X Nat \X Nat
\* every copy of s lies in the move of nn rows from f to t
Pieces(s, f, t, nn) ==
  \A i \in 1 .. Len(s) : /\ s[i][2] = s[i][1] - f + t /\ s[i][3] > 0
                         /\ s[i][1] >= f /\ s[i][1] + s[i][3] <= f + nn
\* the copies of s follow one another, from row k of the move to its last one
Upwards(s, f, nn, k) ==
  \/ s = <<>> /\ k = nn
  \/ /\ s # <<>> /\ s[1][1] = f + k
     /\ \A i \in 1 .. (Len(s) - 1) : s[i + 1][1] = s[i][1] + s[i][3]
     /\ s[Len(s)][1] + s[Len(s)][3] = f + nn
\* ... or from its last one but k down to its first
Downwards(s, f, nn, k) ==
  \/ s = <<>> /\ k = nn
  \/ /\ s # <<>> /\ s[1][1] + s[1][3] = f + nn - k
     /\ \A i \in 1 .. (Len(s) - 1) : s[i][1] = s[i + 1][1] + s[i + 1][3]
     /\ s[Len(s)][1] = f

MoveTypes ==
  /\ from \in Nat /\ to \in Nat /\ from # to /\ total \in Nat
  /\ from + total <= BufRows /\ to + total <= BufRows
  /\ todo \in Seq(CopyTriples)
Left(k) == IF to < from THEN Upwards(todo, from, total, k) ELSE Downwards(todo, from, total, k)

\* The inductive invariant of the move: the copies made are a prefix of the
\* order, the copies left the rest of it, and the rows in the bounce buffer are
\* those the move found at their source.
MoveInv ==
  /\ MoveTypes
  /\ Pieces(todo, from, to, total)
  /\ \E k \in 0 .. total : buf = PartMove(Original, from, to, total, k) /\ Left(k)
  /\ \/ bounce = <<>>
     \/ todo # <<>> /\ bounce = [i \in 1 .. todo[1][3] |-> todo[1][1] + i - 1]

\* The first of the copies left.
LEMMA FirstCopy ==
  ASSUME NEW s \in Seq(CopyTriples), s # <<>>
  PROVE  /\ 1 \in 1 .. Len(s) /\ Head(s) = s[1]
         /\ s[1][1] \in Nat /\ s[1][2] \in Nat /\ s[1][3] \in Nat
<1>1. 1 \in 1 .. Len(s) /\ Head(s) = s[1]
  OBVIOUS
<1>2. s[1] \in CopyTriples
  BY <1>1
<1> DEFINE x == s[1]
<1>3. x \in CopyTriples
  BY <1>2
<1> HIDE DEF x
<1>4. x[1] \in Nat /\ x[2] \in Nat /\ x[3] \in Nat
  BY <1>3 DEF CopyTriples
<1> QED BY <1>1, <1>4 DEF x

\* How many chunks there are, and where each begins.
LEMMA SplitFacts ==
  ASSUME NEW nn \in Nat \ {0}, NEW c \in Nat \ {0}
  PROVE  LET m == (nn + c - 1) \div c
         IN /\ m \in Nat \ {0}
            /\ \A i \in 1 .. m : (i - 1) * c \in Nat /\ (i - 1) * c < nn
            /\ \A i \in 1 .. m : i * c = (i - 1) * c + c
            /\ \A i \in 1 .. m : i < m => i * c < nn
            /\ nn <= m * c
<1> DEFINE m == (nn + c - 1) \div c
           x == (nn + c - 1) % c
<1>1. m \in Nat /\ x \in 0 .. c - 1 /\ nn + c - 1 = c * m + x
  <2>1. nn + c - 1 \in Nat
    OBVIOUS
  <2> QED BY <2>1, DivMod
<1> HIDE DEF m, x
<1>2. \A i \in Int : i * c \in Int /\ i * c = (i - 1) * c + c
  OBVIOUS
<1>3. nn <= m * c
  BY <1>1
<1>4. m # 0
  <2>1. m = 0 => m * c = 0
    OBVIOUS
  <2> QED BY <1>3, <2>1
<1>5. (m - 1) * c < nn
  <2>1. c * m = m * c
    BY <1>1
  <2> QED BY <1>1, <1>2, <2>1
<1>6. ASSUME NEW i \in 1 .. m
      PROVE  (i - 1) * c \in Nat /\ (i - 1) * c <= (m - 1) * c
  BY <1>1
<1>7. ASSUME NEW i \in 1 .. m, i < m
      PROVE  i * c < nn
  <2>1. i + 1 \in 1 .. m
    BY <1>1, <1>7
  <2>2. ((i + 1) - 1) * c <= (m - 1) * c
    BY <2>1, <1>6
  <2>3. (i + 1) - 1 = i
    BY <1>7
  <2>4. i * c <= (m - 1) * c
    BY <2>2, <2>3
  <2> QED BY <1>1, <1>2, <1>5, <2>4
<1>8. \A i \in 1 .. m : (i - 1) * c \in Nat /\ (i - 1) * c < nn
  <2> SUFFICES ASSUME NEW i \in 1 .. m PROVE (i - 1) * c \in Nat /\ (i - 1) * c < nn
    OBVIOUS
  <2>1. (i - 1) * c \in Nat /\ (i - 1) * c <= (m - 1) * c /\ (m - 1) * c \in Int
    BY <1>1, <1>6
  <2> QED BY <1>5, <2>1
<1> QED BY <1>1, <1>2, <1>3, <1>4, <1>7, <1>8 DEF m

\* The chunks front to back.
LEMMA AheadIs ==
  ASSUME NEW f \in Nat, NEW t \in Nat, NEW nn \in Nat \ {0}, NEW c \in Nat \ {0}
  PROVE  LET s == [i \in 1 .. ((nn + c - 1) \div c) |->
                     LET r == (i - 1) * c IN <<f + r, t + r, IF nn - r < c THEN nn - r ELSE c>>]
         IN s \in Seq(CopyTriples) /\ Pieces(s, f, t, nn) /\ Upwards(s, f, nn, 0)
<1> DEFINE m == (nn + c - 1) \div c
           g == [i \in 1 .. m |-> (i - 1) * c]
           s == [i \in 1 .. m |->
                     LET r == (i - 1) * c IN <<f + r, t + r, IF nn - r < c THEN nn - r ELSE c>>]
<1>1. /\ m \in Nat \ {0}
      /\ \A i \in 1 .. m : (i - 1) * c \in Nat /\ (i - 1) * c < nn
      /\ \A i \in 1 .. m : i * c = (i - 1) * c + c
      /\ \A i \in 1 .. m : i < m => i * c < nn
      /\ nn <= m * c
  BY SplitFacts
<1> HIDE DEF m
<1>2. /\ \A i \in 1 .. m : g[i] \in Nat /\ g[i] < nn
      /\ g[1] = 0
      /\ \A i \in 1 .. m : i < m => g[i + 1] = g[i] + c /\ g[i + 1] < nn
      /\ nn <= g[m] + c
  <2>1. \A i \in 1 .. m : g[i] \in Nat /\ g[i] < nn
    BY <1>1
  <2>2. 1 \in 1 .. m /\ m \in 1 .. m
    BY <1>1
  <2>3. g[1] = 0
    BY <2>2
  <2>4. nn <= g[m] + c
    BY <1>1, <2>2
  <2>5. ASSUME NEW i \in 1 .. m, i < m PROVE g[i + 1] = g[i] + c /\ g[i + 1] < nn
    <3>1. i + 1 \in 1 .. m /\ (i + 1) - 1 = i
      BY <1>1, <2>5
    <3>2. g[i + 1] = i * c
      BY <3>1
    <3> QED BY <1>1, <2>5, <3>2
  <2> QED BY <2>1, <2>3, <2>4, <2>5
<1>3. s = [i \in 1 .. m |-> <<f + g[i], t + g[i], IF nn - g[i] < c THEN nn - g[i] ELSE c>>]
  OBVIOUS
<1> HIDE DEF g, s
<1>4. ASSUME NEW i \in 1 .. m
      PROVE  /\ s[i] = <<f + g[i], t + g[i], IF nn - g[i] < c THEN nn - g[i] ELSE c>>
             /\ s[i] \in CopyTriples
             /\ s[i][1] = f + g[i] /\ s[i][2] = t + g[i]
             /\ s[i][3] = IF nn - g[i] < c THEN nn - g[i] ELSE c
  <2> DEFINE u == f + g[i]
             v == t + g[i]
             w == IF nn - g[i] < c THEN nn - g[i] ELSE c
  <2>1. g[i] \in Nat /\ g[i] < nn
    BY <1>2
  <2>2. u \in Nat /\ v \in Nat /\ w \in Nat
    BY <2>1
  <2>3. s[i] = <<u, v, w>>
    BY <1>3
  <2> HIDE DEF u, v, w
  <2>4. s[i] \in CopyTriples /\ s[i][1] = u /\ s[i][2] = v /\ s[i][3] = w
    BY <2>2, <2>3 DEF CopyTriples
  <2> QED BY <2>3, <2>4 DEF u, v, w
<1>5. s \in Seq(CopyTriples) /\ Len(s) = m /\ s # <<>>
  <2>1. \A i \in 1 .. m : s[i] \in CopyTriples
    BY <1>4
  <2>2. s \in [1 .. m -> CopyTriples]
    BY <1>3, <2>1
  <2>3. s \in Seq(CopyTriples)
    BY <1>1, <2>2
  <2>4. Len(s) = m
    BY <1>1, <2>2
  <2> QED BY <1>1, <2>3, <2>4
<1>6. Pieces(s, f, t, nn)
  <2> SUFFICES ASSUME NEW i \in 1 .. m
               PROVE  /\ s[i][2] = s[i][1] - f + t /\ s[i][3] > 0
                      /\ s[i][1] >= f /\ s[i][1] + s[i][3] <= f + nn
    BY <1>5 DEF Pieces
  <2> QED BY <1>2, <1>4
<1>7. Upwards(s, f, nn, 0)
  <2>1. s[1][1] = f + 0
    BY <1>1, <1>2, <1>4
  <2>2. ASSUME NEW i \in 1 .. m - 1
        PROVE  s[i + 1][1] = s[i][1] + s[i][3]
    <3>1. i \in 1 .. m /\ i + 1 \in 1 .. m /\ i < m
      BY <1>1
    <3>2. g[i + 1] = g[i] + c /\ g[i + 1] < nn /\ g[i] \in Nat
      BY <1>2, <3>1
    <3>3. s[i][3] = c
      BY <1>4, <3>1, <3>2
    <3> QED BY <1>4, <3>1, <3>2, <3>3
  <2>3. s[m][1] + s[m][3] = f + nn
    BY <1>1, <1>2, <1>4
  <2> QED BY <1>1, <1>5, <2>1, <2>2, <2>3 DEF Upwards
<1> QED BY <1>5, <1>6, <1>7 DEF s, m

\* ... and back to front.
LEMMA ReversedIs ==
  ASSUME NEW f \in Nat, NEW t \in Nat, NEW nn \in Nat \ {0}, NEW s \in Seq(CopyTriples),
         Pieces(s, f, t, nn), Upwards(s, f, nn, 0)
  PROVE  LET z == Reverse(s)
         IN z \in Seq(CopyTriples) /\ Pieces(z, f, t, nn) /\ Downwards(z, f, nn, 0)
<1> DEFINE z == Reverse(s)
           m == Len(s)
<1>1. m \in Nat \ {0} /\ s # <<>>
  BY DEF Upwards
<1>2. z = [i \in 1 .. m |-> s[(m - i) + 1]]
  BY DEF Reverse
<1>3. \A i \in 1 .. m : (m - i) + 1 \in 1 .. m /\ s[i] \in CopyTriples
  BY <1>1
<1> HIDE DEF z
<1>4. z \in Seq(CopyTriples) /\ Len(z) = m /\ z # <<>>
  <2>1. \A i \in 1 .. m : z[i] \in CopyTriples
    BY <1>2, <1>3
  <2>2. z \in [1 .. m -> CopyTriples]
    BY <1>2, <2>1
  <2>3. z \in Seq(CopyTriples)
    BY <1>1, <2>2
  <2>4. Len(z) = m
    BY <1>1, <2>2
  <2> QED BY <1>1, <2>3, <2>4
<1>5. \A i \in 1 .. m : z[i] = s[(m - i) + 1]
  BY <1>2
<1>6. Pieces(z, f, t, nn)
  <2>1. ASSUME NEW i \in 1 .. m
        PROVE  /\ z[i][2] = z[i][1] - f + t /\ z[i][3] > 0
               /\ z[i][1] >= f /\ z[i][1] + z[i][3] <= f + nn
    <3> DEFINE x == (m - i) + 1
    <3>1. x \in 1 .. m /\ z[i] = s[x]
      BY <1>3, <1>5
    <3>2. /\ s[x][2] = s[x][1] - f + t /\ s[x][3] > 0
          /\ s[x][1] >= f /\ s[x][1] + s[x][3] <= f + nn
      BY <3>1 DEF Pieces
    <3> QED BY <3>1, <3>2
  <2> QED BY <1>4, <2>1 DEF Pieces
<1>7. z[1] = s[m] /\ z[m] = s[1]
  <2>1. 1 \in 1 .. m /\ m \in 1 .. m /\ (m - 1) + 1 = m /\ (m - m) + 1 = 1
    BY <1>1
  <2> QED BY <1>5, <2>1
<1>8. s[m][1] + s[m][3] = f + nn /\ s[1][1] = f + 0
  BY <1>1 DEF Upwards
<1>9. ASSUME NEW i \in 1 .. m - 1
      PROVE  z[i][1] = z[i + 1][1] + z[i + 1][3]
  <2>1. i \in 1 .. m /\ i + 1 \in 1 .. m /\ m - i \in 1 .. m - 1 /\ (m - (i + 1)) + 1 = m - i
    BY <1>1
  <2>2. z[i] = s[(m - i) + 1] /\ z[i + 1] = s[m - i]
    BY <1>5, <2>1
  <2>3. s[(m - i) + 1][1] = s[m - i][1] + s[m - i][3]
    BY <1>1, <2>1 DEF Upwards
  <2> QED BY <2>2, <2>3
<1> QED BY <1>4, <1>6, <1>7, <1>8, <1>9 DEF Downwards, z

LEMMA MoveInitInv == MoveInit => MoveInv
<1> SUFFICES ASSUME MoveInit PROVE MoveInv
  OBVIOUS
<1>1. /\ from \in Nat /\ to \in Nat /\ from # to /\ total \in Nat \ {0}
      /\ from + total <= BufRows /\ to + total <= BufRows /\ chunk \in Nat \ {0}
  BY MoveAssumption DEF MoveInit
<1> DEFINE s == [i \in 1 .. ((total + chunk - 1) \div chunk) |->
                  LET r == (i - 1) * chunk
                  IN <<from + r, to + r, IF total - r < chunk THEN total - r ELSE chunk>>]
<1>2. s \in Seq(CopyTriples) /\ Pieces(s, from, to, total) /\ Upwards(s, from, total, 0)
  BY <1>1, AheadIs
<1>3. todo = IF to > from THEN Reverse(s) ELSE s
  BY DEF MoveInit, MoveChunkList
<1> HIDE DEF s
<1>4. /\ Reverse(s) \in Seq(CopyTriples) /\ Pieces(Reverse(s), from, to, total)
      /\ Downwards(Reverse(s), from, total, 0)
  BY <1>1, <1>2, ReversedIs
<1>5. todo \in Seq(CopyTriples) /\ Pieces(todo, from, to, total) /\ Left(0)
  BY <1>1, <1>2, <1>3, <1>4 DEF Left
<1>6. buf = PartMove(Original, from, to, total, 0)
  <2>1. Copied(from, to, total, 0) = {}
    BY <1>1 DEF Copied
  <2> QED BY <2>1 DEF PartMove, MoveInit, Original
<1>7. bounce = <<>>
  BY DEF MoveInit
<1>8. 0 \in 0 .. total
  BY <1>1
<1> QED BY <1>1, <1>5, <1>6, <1>7, <1>8 DEF MoveInv, MoveTypes

\* The rows the next copy reads are not among those already copied over.
LEMMA SourceIsIntact ==
  ASSUME MoveTypes, Pieces(todo, from, to, total), todo # <<>>,
         NEW k \in 0 .. total, Left(k), NEW i \in 1 .. todo[1][3]
  PROVE  /\ todo[1][1] + i - 1 \in 0 .. BufRows - 1
         /\ PartMove(Original, from, to, total, k)[todo[1][1] + i - 1] = todo[1][1] + i - 1
<1> DEFINE a == todo[1][1]
           len == todo[1][3]
           r == a + i - 1
<1>1. 1 \in 1 .. Len(todo) /\ a \in Nat /\ len \in Nat
  BY FirstCopy DEF MoveTypes
<1>2. len > 0 /\ a >= from /\ a + len <= from + total
  BY <1>1 DEF Pieces
<1>3. IF to < from THEN a = from + k ELSE a + len = from + total - k
  BY DEF Left, Upwards, Downwards
<1> HIDE DEF a, len
<1>4. i \in 1 .. len
  BY DEF len
<1>5. r \in 0 .. BufRows - 1
  BY <1>1, <1>2, <1>4, MoveAssumption DEF MoveTypes
<1>6. r \notin Copied(from, to, total, k)
  BY <1>1, <1>2, <1>3, <1>4 DEF Copied, MoveTypes
<1>7. PartMove(Original, from, to, total, k)[r] = r
  <2>1. Original[r] = r /\ r \in DOMAIN Original
    BY <1>5 DEF Original
  <2> QED BY <1>6, <2>1 DEF PartMove
<1> QED BY <1>5, <1>7 DEF a

LEMMA CopyOutInv == MoveInv /\ CopyOut => MoveInv'
<1> SUFFICES ASSUME MoveInv, CopyOut PROVE MoveInv'
  OBVIOUS
<1>1. PICK k \in 0 .. total : buf = PartMove(Original, from, to, total, k) /\ Left(k)
  BY DEF MoveInv
<1>2. /\ MoveTypes /\ Pieces(todo, from, to, total) /\ todo # <<>>
      /\ UNCHANGED <<from, to, total, chunk, buf, todo>>
  BY DEF MoveInv, CopyOut
<1>3. bounce' = [i \in 1 .. todo[1][3] |-> buf[todo[1][1] + i - 1]]
  BY <1>2 DEF CopyOut, MoveTypes
<1>4. bounce' = [i \in 1 .. todo[1][3] |-> todo[1][1] + i - 1]
  <2>1. \A i \in 1 .. todo[1][3] : buf[todo[1][1] + i - 1] = todo[1][1] + i - 1
    BY <1>1, <1>2, SourceIsIntact
  <2> QED BY <1>3, <2>1
<1>5. MoveTypes' /\ Pieces(todo, from, to, total)' /\ Left(k)'
  BY <1>1, <1>2 DEF MoveTypes, Pieces, Left
<1>6. \E j \in 0 .. total' : buf' = PartMove(Original, from', to', total', j) /\ Left(j)'
  BY <1>1, <1>2, <1>5
<1> QED BY <1>2, <1>4, <1>5, <1>6 DEF MoveInv, Original

\* What is left once the first copy is made.
LEMMA NextLeft ==
  ASSUME MoveTypes, Pieces(todo, from, to, total), todo # <<>>,
         NEW k \in 0 .. total, Left(k)
  PROVE  LET j == k + todo[1][3]
             z == Tail(todo)
         IN /\ j \in 0 .. total
            /\ z \in Seq(CopyTriples) /\ Pieces(z, from, to, total)
            /\ IF to < from THEN Upwards(z, from, total, j) ELSE Downwards(z, from, total, j)
<1> DEFINE z == Tail(todo)
           m == Len(todo)
           a == todo[1][1]
           l == todo[1][3]
           j == k + l
<1>1. m \in Nat \ {0} /\ z \in Seq(CopyTriples) /\ Len(z) = m - 1 /\ \A i \in 1 .. m - 1 : z[i] = todo[i + 1]
  BY DEF MoveTypes
<1>2. \A i \in 1 .. m : todo[i][1] \in Nat /\ todo[i][2] \in Nat /\ todo[i][3] \in Nat
  <2>1. \A i \in 1 .. m : todo[i] \in CopyTriples
    BY DEF MoveTypes
  <2> QED BY <2>1 DEF CopyTriples
<1>3. from \in Nat /\ to \in Nat /\ total \in Nat
  BY DEF MoveTypes
<1> HIDE DEF z
<1>4. Pieces(z, from, to, total)
  <2> SUFFICES ASSUME NEW i \in 1 .. m - 1
               PROVE  /\ z[i][2] = z[i][1] - from + to /\ z[i][3] > 0
                      /\ z[i][1] >= from /\ z[i][1] + z[i][3] <= from + total
    BY <1>1 DEF Pieces
  <2>1. z[i] = todo[i + 1] /\ i + 1 \in 1 .. Len(todo)
    BY <1>1
  <2> QED BY <2>1 DEF Pieces
<1>5. l > 0 /\ a >= from /\ a + l <= from + total /\ a \in Nat /\ l \in Nat
  BY <1>1, <1>2 DEF Pieces
<1>6. CASE to < from
  <2>1. /\ a = from + k
        /\ \A i \in 1 .. (m - 1) : todo[i + 1][1] = todo[i][1] + todo[i][3]
        /\ todo[m][1] + todo[m][3] = from + total
    BY <1>6 DEF Left, Upwards
  <2>2. j \in 0 .. total
    <3> HIDE DEF a, l
    <3> QED BY <1>3, <1>5, <2>1
  <2>3. CASE m = 1
    <3>1. z = <<>>
      BY <1>1, <2>3
    <3>2. j = total
      <4>1. a + l = from + total
        BY <2>1, <2>3
      <4>2. a = from + k
        BY <2>1
      <4> HIDE DEF a, l
      <4> QED BY <1>3, <1>5, <4>1, <4>2
    <3> QED BY <1>1, <1>4, <1>6, <2>2, <3>1, <3>2 DEF Upwards, z
  <2>4. CASE m # 1
    <3>1. z # <<>> /\ z[1] = todo[2] /\ z[Len(z)] = todo[m] /\ 1 \in 1 .. (m - 1)
      BY <1>1, <2>4
    <3>2. z[1][1] = from + j
      <4>1. z[1][1] = a + l
        BY <2>1, <3>1
      <4> HIDE DEF a, l
      <4> QED BY <1>3, <1>5, <2>1, <4>1
    <3>3. ASSUME NEW i \in 1 .. (Len(z) - 1)
          PROVE  z[i + 1][1] = z[i][1] + z[i][3]
      <4>1. i \in 1 .. m - 1 /\ i + 1 \in 1 .. m - 1
        BY <1>1
      <4>2. z[i] = todo[i + 1] /\ z[i + 1] = todo[(i + 1) + 1]
        BY <1>1, <4>1
      <4> QED BY <2>1, <4>1, <4>2
    <3> QED BY <1>1, <1>4, <1>6, <2>1, <2>2, <3>1, <3>2, <3>3 DEF Upwards, z
  <2> QED BY <2>3, <2>4
<1>7. CASE ~ (to < from)
  <2>1. /\ a + l = from + total - k
        /\ \A i \in 1 .. (m - 1) : todo[i][1] = todo[i + 1][1] + todo[i + 1][3]
        /\ todo[m][1] = from
    BY <1>7 DEF Left, Downwards
  <2>2. j \in 0 .. total
    <3> HIDE DEF a, l
    <3> QED BY <1>3, <1>5, <2>1
  <2>3. CASE m = 1
    <3>1. z = <<>>
      BY <1>1, <2>3
    <3>2. j = total
      <4>1. a = from
        BY <2>1, <2>3
      <4>2. a + l = from + total - k
        BY <2>1
      <4> HIDE DEF a, l
      <4> QED BY <1>3, <1>5, <4>1, <4>2
    <3> QED BY <1>1, <1>4, <1>7, <2>2, <3>1, <3>2 DEF Downwards, z
  <2>4. CASE m # 1
    <3>1. z # <<>> /\ z[1] = todo[2] /\ z[Len(z)] = todo[m] /\ 1 \in 1 .. (m - 1) /\ 2 \in 1 .. m
      BY <1>1, <2>4
    <3>2. z[1][1] + z[1][3] = from + total - j
      <4>1. z[1][1] + z[1][3] = a
        BY <2>1, <3>1
      <4>2. a = from + total - j
        <5> HIDE DEF a, l
        <5> QED BY <1>3, <1>5, <2>1
      <4> QED BY <4>1, <4>2
    <3>3. ASSUME NEW i \in 1 .. (Len(z) - 1)
          PROVE  z[i][1] = z[i + 1][1] + z[i + 1][3]
      <4>1. i \in 1 .. m - 1 /\ i + 1 \in 1 .. m - 1
        BY <1>1
      <4>2. z[i] = todo[i + 1] /\ z[i + 1] = todo[(i + 1) + 1]
        BY <1>1, <4>1
      <4> QED BY <2>1, <4>1, <4>2
    <3> QED BY <1>1, <1>4, <1>7, <2>1, <2>2, <3>1, <3>2, <3>3 DEF Downwards, z
  <2> QED BY <2>3, <2>4
<1> QED BY <1>6, <1>7

LEMMA CopyInInv == MoveInv /\ CopyIn => MoveInv'
<1> SUFFICES ASSUME MoveInv, CopyIn PROVE MoveInv'
  OBVIOUS
<1>1. PICK k \in 0 .. total : buf = PartMove(Original, from, to, total, k) /\ Left(k)
  BY DEF MoveInv
<1>2. /\ MoveTypes /\ Pieces(todo, from, to, total)
      /\ todo # <<>> /\ bounce = [i \in 1 .. todo[1][3] |-> todo[1][1] + i - 1]
      /\ bounce' = <<>> /\ todo' = Tail(todo) /\ UNCHANGED <<from, to, total, chunk>>
  BY DEF MoveInv, CopyIn
<1> DEFINE a == todo[1][1]
           b == todo[1][2]
           len == todo[1][3]
<1>3. 1 \in 1 .. Len(todo) /\ a \in Nat /\ b \in Nat /\ len \in Nat /\ Head(todo)[2] = b
  BY <1>2, FirstCopy DEF MoveTypes
<1>4. b = a - from + to /\ len > 0 /\ a >= from /\ a + len <= from + total
  BY <1>2, <1>3 DEF Pieces
<1>5. IF to < from THEN a = from + k ELSE a + len = from + total - k
  BY <1>1, <1>2 DEF Left, Upwards, Downwards
<1>6. PICK j \in 0 .. total :
        /\ j = k + len /\ todo' \in Seq(CopyTriples) /\ Pieces(todo', from, to, total)
        /\ IF to < from THEN Upwards(todo', from, total, j) ELSE Downwards(todo', from, total, j)
  BY <1>1, <1>2, NextLeft
<1>7. buf' = [r \in DOMAIN buf |->
                LET i == r - b + 1 IN IF i \in DOMAIN bounce THEN bounce[i] ELSE buf[r]]
  BY <1>3 DEF CopyIn
<1>8. buf' = PartMove(Original, from, to, total, j)
  <2>9. j = k + len
    BY <1>6
  <2> HIDE DEF a, b, len
  <2>0. from \in Nat /\ to \in Nat /\ from # to /\ total \in Nat /\ BufRows \in Nat
        /\ from + total <= BufRows /\ to + total <= BufRows
    BY <1>2, MoveAssumption DEF MoveTypes
  <2>1. DOMAIN Original = 0 .. BufRows - 1 /\ DOMAIN buf = 0 .. BufRows - 1
    BY <1>1 DEF PartMove, Original
  <2>2. \A r \in 0 .. BufRows - 1 :
          buf[r] = IF r \in Copied(from, to, total, k) THEN r - to + from ELSE r
    <3> SUFFICES ASSUME NEW r \in 0 .. BufRows - 1
                 PROVE  buf[r] = IF r \in Copied(from, to, total, k) THEN r - to + from ELSE r
      OBVIOUS
    <3>1. r \in Copied(from, to, total, k) => r - to + from \in 0 .. BufRows - 1
      BY <2>0 DEF Copied
    <3>2. \A q \in 0 .. BufRows - 1 : Original[q] = q
      BY DEF Original
    <3> QED BY <1>1, <2>1, <3>1, <3>2 DEF PartMove
  <2>3. ASSUME NEW r \in 0 .. BufRows - 1
        PROVE  (r - b + 1) \in 1 .. len \/ r \in Copied(from, to, total, k)
                 <=> r \in Copied(from, to, total, j)
    <3>1. CASE to < from
      BY <1>3, <1>4, <1>5, <2>0, <2>9, <3>1 DEF Copied
    <3>2. CASE ~ (to < from)
      BY <1>3, <1>4, <1>5, <2>0, <2>9, <3>2 DEF Copied
    <3> QED BY <3>1, <3>2
  <2>4. bounce = [i \in 1 .. len |-> a + i - 1]
    BY <1>2 DEF a, len
  <2>5. ASSUME NEW r \in 0 .. BufRows - 1
        PROVE  buf'[r] = IF r \in Copied(from, to, total, j) THEN r - to + from ELSE r
    <3>1. CASE (r - b + 1) \in 1 .. len
      <4>1. buf'[r] = bounce[r - b + 1]
        BY <1>7, <2>1, <2>4, <3>1
      <4>2. bounce[r - b + 1] = r - to + from
        BY <1>3, <1>4, <2>0, <2>4, <3>1
      <4> QED BY <2>3, <3>1, <4>1, <4>2
    <3>2. CASE (r - b + 1) \notin 1 .. len
      <4>1. buf'[r] = buf[r]
        BY <1>7, <2>1, <2>4, <3>2
      <4> QED BY <2>2, <2>3, <3>2, <4>1
    <3> QED BY <3>1, <3>2
  <2>6. ASSUME NEW r \in 0 .. BufRows - 1
        PROVE  PartMove(Original, from, to, total, j)[r]
                 = IF r \in Copied(from, to, total, j) THEN r - to + from ELSE r
    <3>1. r \in Copied(from, to, total, j) => r - to + from \in 0 .. BufRows - 1
      BY <2>0 DEF Copied
    <3>2. \A q \in 0 .. BufRows - 1 : Original[q] = q
      BY DEF Original
    <3> QED BY <2>1, <3>1, <3>2 DEF PartMove
  <2>7. buf' = [r \in 0 .. BufRows - 1 |-> buf'[r]]
    BY <1>7, <2>1
  <2>8. PartMove(Original, from, to, total, j)
          = [r \in 0 .. BufRows - 1 |-> PartMove(Original, from, to, total, j)[r]]
    BY <2>1 DEF PartMove
  <2> QED BY <2>5, <2>6, <2>7, <2>8
<1>9. MoveTypes' /\ Pieces(todo, from, to, total)' /\ Left(j)'
  BY <1>2, <1>6 DEF MoveTypes, Pieces, Left
<1>10. \E i \in 0 .. total' : buf' = PartMove(Original, from', to', total', i) /\ Left(i)'
  BY <1>2, <1>8, <1>9
<1> QED BY <1>2, <1>9, <1>10 DEF MoveInv, Original

\* A move's inductive invariant holds of every reachable state: move_region_rows.
THEOREM MoveInvHolds == MoveSpec => []MoveInv
<1>1. MoveInv /\ [MoveNext]_moveVars => MoveInv'
  <2> SUFFICES ASSUME MoveInv, [MoveNext]_moveVars PROVE MoveInv'
    OBVIOUS
  <2>1. CASE CopyOut
    BY <2>1, CopyOutInv
  <2>2. CASE CopyIn
    BY <2>2, CopyInInv
  <2>3. CASE UNCHANGED moveVars
    BY <2>3 DEF moveVars, MoveInv, MoveTypes, Pieces, Left
  <2> QED BY <2>1, <2>2, <2>3 DEF MoveNext
<1> QED BY <1>1, MoveInitInv, PTL DEF MoveSpec

\* Whatever the chunk and however the ranges overlap, a move of a region's rows
\* that fails after any of its copies leaves the buffer with the first rows of
\* the move copied and every other row as it was, and one that ends has copied
\* them all (move_chunks reads every source row before it is overwritten).
THEOREM MoveReadsBeforeItWrites == MoveSpec => []MatchesPartMove
<1>1. MoveInv => MatchesPartMove
  <2> SUFFICES ASSUME MoveInv PROVE MatchesPartMove
    OBVIOUS
  <2>1. PICK k \in 0 .. total : buf = PartMove(Original, from, to, total, k) /\ Left(k)
    BY DEF MoveInv
  <2>2. todo = <<>> => k = total
    BY <2>1 DEF Left, Upwards, Downwards
  <2> QED BY <2>1, <2>2 DEF MatchesPartMove
<1> QED BY <1>1, MoveInvHolds, PTL

=============================================================================
