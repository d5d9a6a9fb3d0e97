----------------------------- MODULE PinProofs -----------------------------
(***************************************************************************)
(* Proofs about PinProtocol, for every set of experts and layers, every    *)
(* size of the pool's bands and every number of requests in flight: what   *)
(* the hub holds is pinned, no pass pages what the hub held, and no claim  *)
(* revokes a pin.                                                          *)
(***************************************************************************)
EXTENDS PinProtocol, FiniteSetTheorems, SequenceTheorems, TLAPS

(***************************************************************************)
(* The inductive invariant                                                 *)
(***************************************************************************)
Requests == [id : 1 .. MaxInFlight, layer : Layers, picks : SUBSET Keys, small : BOOLEAN,
             rel : Seq(Keys), words : SUBSET Keys, held : SUBSET Keys,
             surprise : SUBSET Keys, base : Nat]
Passes == [reqs : Seq(Requests), layer : Layers, large : BOOLEAN, picks : SUBSET Keys,
           paged : SUBSET Keys, at : {"land", "parked", "claim"}]

Types ==
  /\ held \subseteq Keys /\ released \subseteq Keys /\ restores \subseteq Keys
  /\ relIdx \in [Keys -> Nat] /\ relSent \in Nat /\ queue \in Seq(Keys)
  /\ known.epoch \in Nat /\ known.pinned \in Int
  /\ reqs \in Seq(Requests) /\ passes \in Seq(Passes)
  /\ main \subseteq Keys /\ staged \subseteq Keys /\ epoch \in Nat

\* The release words on their way to box 2 are numbered in order from its epoch
\* on, and a word's expert was last released by it or by a later one.
OnWire == relSent - Len(queue)
Wire ==
  /\ epoch <= OnWire
  /\ \A j \in 1 .. Len(queue) : OnWire + j <= relIdx[queue[j]]
  /\ \A i \in 1 .. Len(reqs) :
       /\ epoch <= reqs[i].base
       /\ reqs[i].base + Len(reqs[i].rel) <= OnWire
       /\ \A j \in 1 .. Len(reqs[i].rel) : reqs[i].base < relIdx[reqs[i].rel[j]]
  /\ \A i, k \in 1 .. Len(reqs) :
       i < k => reqs[i].base + Len(reqs[i].rel) <= reqs[k].base

\* What the hub holds, and what a reply lets it hold, is pinned.
Mirror ==
  /\ \A k \in held : k \in pinned /\ relIdx[k] <= epoch
  /\ \A p \in replies :
       /\ p.epoch \in Nat /\ p.pinned \in Nat /\ p.epoch <= epoch
       /\ p.map \subseteq Keys /\ p.surprise = {}
       /\ \A k \in p.map : relIdx[k] <= p.epoch => k \in pinned

\* What a request was sent to find resident is pinned until it is taken, and no
\* word before it on the wire releases it.
Sent ==
  /\ \A i \in 1 .. Len(reqs) :
       /\ reqs[i].held \subseteq pinned /\ reqs[i].surprise = {}
       /\ \A m \in 1 .. i : \A j \in 1 .. Len(reqs[m].rel) : reqs[m].rel[j] \notin reqs[i].held
  /\ \A i \in 1 .. Len(passes) : \A j \in 1 .. Len(passes[i].reqs) :
       LET r == passes[i].reqs[j] IN r.surprise = {} /\ r.held \cap passes[i].paged = {}

\* The pinned experts fit the budget and the picks of the passes the reserve.
Room ==
  /\ pinned \subseteq main /\ main \cap staged = {}
  /\ Cardinality(pinned) <= Budget
  /\ ~ revoked
  /\ \A i \in 1 .. Len(reqs) :
       /\ reqs[i].picks \subseteq reqs[i].layer
       /\ reqs[i].small => Cardinality(reqs[i].picks) <= SmallPicks
  /\ Len(passes) <= 2
  /\ \A i \in 1 .. Len(passes) : Cardinality(passes[i].picks) <= LayerSize
  /\ Len(passes) = 2 => Cardinality(passes[2].picks) <= SmallPicks

PinInv == Types /\ Wire /\ Mirror /\ Sent /\ Room

(***************************************************************************)
(* Sequences and numbers                                                   *)
(***************************************************************************)
\* The elements of a sequence.
LEMMA ElemsOf ==
  ASSUME NEW S, NEW s \in Seq(S)
  PROVE  /\ Elems(s) = {s[i] : i \in 1 .. Len(s)}
         /\ Elems(s) \subseteq S
BY DEF Elems

\* The fields of a request on the wire and of a pass.
LEMMA RequestFields ==
  ASSUME NEW r \in Requests
  PROVE  /\ r.layer \in Layers /\ r.picks \subseteq Keys /\ r.small \in BOOLEAN
         /\ r.rel \in Seq(Keys) /\ Len(r.rel) \in Nat
         /\ \A j \in 1 .. Len(r.rel) : r.rel[j] \in Keys
         /\ r.held \subseteq Keys /\ r.surprise \subseteq Keys /\ r.base \in Nat
<1>1. r.rel \in Seq(Keys)
  BY DEF Requests
<1>2. Len(r.rel) \in Nat /\ \A j \in 1 .. Len(r.rel) : r.rel[j] \in Keys
  BY <1>1, ElementOfSeq, LenProperties
<1> QED
  BY <1>1, <1>2 DEF Requests

\* The members of the three sequences.
LEMMA WireFields ==
  ASSUME Types
  PROVE  /\ Len(reqs) \in Nat /\ Len(passes) \in Nat /\ Len(queue) \in Nat
         /\ \A i \in 1 .. Len(reqs) : reqs[i] \in Requests
         /\ \A i \in 1 .. Len(passes) : passes[i] \in Passes
         /\ \A j \in 1 .. Len(queue) : queue[j] \in Keys
<1>1. reqs \in Seq(Requests) /\ passes \in Seq(Passes) /\ queue \in Seq(Keys)
  BY DEF Types
<1> QED
  BY <1>1, ElementOfSeq, LenProperties

\* The budget is a natural, and no set of experts is infinite.
LEMMA Finite ==
  /\ Budget \in Nat
  /\ \A S \in SUBSET Keys : IsFiniteSet(S) /\ Cardinality(S) \in Nat
<1>1. Budget \in Nat
  BY PoolAssumption DEF Budget
<1>2. ASSUME NEW S \in SUBSET Keys PROVE IsFiniteSet(S) /\ Cardinality(S) \in Nat
  BY PoolAssumption, FS_Subset, FS_CardinalityType
<1> QED
  BY <1>1, <1>2

\* A set of the picks of one layer has at most LayerSize experts.
LEMMA LayerBounds ==
  ASSUME NEW L \in Layers, NEW P, P \subseteq L
  PROVE  P \in SUBSET Keys /\ Cardinality(P) <= LayerSize
<1>1. IsFiniteSet(L) /\ Cardinality(L) <= LayerSize /\ L \subseteq Keys
  BY PoolAssumption, Finite
<1>2. Cardinality(P) <= Cardinality(L) /\ Cardinality(L) \in Nat /\ Cardinality(P) \in Nat
  BY <1>1, FS_Subset, FS_CardinalityType
<1> QED
  BY <1>1, <1>2, PoolAssumption

(***************************************************************************)
(* The hub's steps                                                         *)
(***************************************************************************)
\* The coldest experts are a sequence of different held ones.
LEMMA ColdestWords ==
  ASSUME Types, NEW target \in Nat, NEW s \in Coldest(target)
  PROVE  /\ s \in Seq(Keys)
         /\ \A j \in 1 .. Len(s) : s[j] \in held
         /\ \A i, j \in 1 .. Len(s) : s[i] = s[j] => i = j
<1> DEFINE n == LeastOf(Minus(Est, target), Cardinality(held))
<1>1. Est \in Nat
  BY DEF Types, Est, Minus
<1>2. n \in Nat
  BY <1>1, Finite DEF Types, Minus, LeastOf
<1>3. s \in [1 .. n -> held] /\ \A i, j \in 1 .. n : s[i] = s[j] => i = j
  BY DEF Coldest
<1> HIDE DEF n
<1>4. s \in Seq(held) /\ Len(s) = n
  BY <1>2, <1>3
<1> QED
  BY <1>3, <1>4, SeqMonotonic DEF Types

\* Released words take the numbers after relSent, the i-th the i-th.
LEMMA ReleaseNumbers ==
  ASSUME Types, NEW s \in Seq(Keys), ReleaseWords(s),
         \A i, j \in 1 .. Len(s) : s[i] = s[j] => i = j
  PROVE  /\ relIdx' \in [Keys -> Nat]
         /\ \A j \in 1 .. Len(s) : relIdx'[s[j]] = relSent + j
         /\ \A k \in Keys : relIdx'[k] = relIdx[k] \/ relSent < relIdx'[k]
         /\ \A k \in Keys : k \in Elems(s) \/ relIdx'[k] = relIdx[k]
<1> DEFINE at(k) == CHOOSE j \in DOMAIN s : s[j] = k
<1>1. DOMAIN s = 1 .. Len(s) /\ Len(s) \in Nat
  BY LenProperties
<1>2. ASSUME NEW k \in Keys, \E j \in DOMAIN s : s[j] = k
      PROVE  at(k) \in 1 .. Len(s) /\ s[at(k)] = k
  BY <1>1, <1>2
<1>3. relIdx' = [k \in Keys |-> IF \E j \in DOMAIN s : s[j] = k THEN relSent + at(k) ELSE relIdx[k]]
  BY DEF ReleaseWords
<1> HIDE DEF at
<1>4. ASSUME NEW k \in Keys
      PROVE  /\ relIdx'[k] \in Nat
             /\ relIdx'[k] = relIdx[k] \/ relSent < relIdx'[k]
             /\ k \in Elems(s) \/ relIdx'[k] = relIdx[k]
  <2>1. CASE \E j \in DOMAIN s : s[j] = k
    <3>1. at(k) \in Nat /\ 1 <= at(k) /\ relSent \in Nat
      BY <1>1, <1>2, <2>1 DEF Types
    <3>2. relIdx'[k] = relSent + at(k)
      BY <1>3, <2>1
    <3>3. k \in Elems(s)
      BY <2>1 DEF Elems
    <3> QED
      BY <3>1, <3>2, <3>3
  <2>2. CASE ~ \E j \in DOMAIN s : s[j] = k
    BY <1>3, <2>2 DEF Types
  <2> QED
    BY <2>1, <2>2
<1>5. ASSUME NEW j \in 1 .. Len(s) PROVE relIdx'[s[j]] = relSent + j
  <2>1. s[j] \in Keys /\ \E i \in DOMAIN s : s[i] = s[j]
    BY <1>1, ElementOfSeq
  <2>2. at(s[j]) = j
    BY <1>2, <2>1
  <2> QED
    BY <1>3, <2>1, <2>2
<1> QED
  BY <1>3, <1>4, <1>5

\* Releasing held experts keeps the invariant: they leave the mirror, their
\* numbers are above every epoch, and the words queue in the order of numbers.
LEMMA ReleaseStep ==
  ASSUME PinInv, NEW s \in Seq(Keys), ReleaseWords(s),
         \A j \in 1 .. Len(s) : s[j] \in held,
         \A i, j \in 1 .. Len(s) : s[i] = s[j] => i = j,
         released' \subseteq Keys, restores' \subseteq Keys,
         UNCHANGED <<reqs, replies, pins, pool, passes>>
  PROVE  PinInv'
<1> USE DEF PinInv
<1>1. /\ relIdx' \in [Keys -> Nat]
      /\ \A j \in 1 .. Len(s) : relIdx'[s[j]] = relSent + j
      /\ \A k \in Keys : relIdx'[k] = relIdx[k] \/ relSent < relIdx'[k]
      /\ \A k \in Keys : k \in Elems(s) \/ relIdx'[k] = relIdx[k]
  BY ReleaseNumbers
<1>2. /\ queue' \in Seq(Keys) /\ Len(queue') = Len(queue) + Len(s)
      /\ \A j \in 1 .. Len(queue) + Len(s) :
           queue'[j] = IF j <= Len(queue) THEN queue[j] ELSE s[j - Len(queue)]
  BY ConcatProperties DEF ReleaseWords, Types
<1>3. /\ relSent' = relSent + Len(s) /\ held' = held \ Elems(s) /\ known' = known
      /\ reqs' = reqs /\ replies' = replies /\ passes' = passes
      /\ pinned' = pinned /\ epoch' = epoch /\ main' = main /\ staged' = staged /\ revoked' = revoked
  BY DEF ReleaseWords, pins, pool
<1>4. /\ Len(queue) \in Nat /\ Len(s) \in Nat /\ relSent \in Nat /\ epoch \in Nat
      /\ OnWire \in Int /\ OnWire' = OnWire /\ OnWire <= relSent
  BY <1>2, <1>3, LenProperties DEF Types, OnWire
<1>5. Types'
  BY <1>1, <1>2, <1>3, <1>4 DEF Types
<1>6. Wire'
  <2>1. ASSUME NEW j \in 1 .. Len(queue') PROVE OnWire + j <= relIdx'[queue'[j]]
    <3>1. CASE j <= Len(queue)
      <4>1. queue'[j] = queue[j] /\ queue[j] \in Keys /\ OnWire + j <= relIdx[queue[j]]
        BY <1>2, <1>4, <3>1, WireFields DEF Wire
      <4>2. OnWire + j <= relSent
        BY <1>4, <3>1 DEF OnWire
      <4>3. relIdx'[queue[j]] = relIdx[queue[j]] \/ relSent < relIdx'[queue[j]]
        BY <1>1, <4>1
      <4>4. relIdx'[queue[j]] \in Nat /\ relIdx[queue[j]] \in Nat
        BY <1>1, <4>1 DEF Types
      <4> QED
        BY <1>4, <4>1, <4>2, <4>3, <4>4
    <3>2. CASE j > Len(queue)
      <4>1. j - Len(queue) \in 1 .. Len(s) /\ queue'[j] = s[j - Len(queue)]
        BY <1>2, <1>4, <3>2
      <4>2. relIdx'[queue'[j]] = relSent + (j - Len(queue))
        BY <1>1, <4>1
      <4> QED
        BY <1>4, <4>2 DEF OnWire
    <3> QED
      BY <1>2, <1>4, <3>1, <3>2
  <2>2. ASSUME NEW i \in 1 .. Len(reqs), NEW j \in 1 .. Len(reqs[i].rel)
        PROVE  reqs[i].base < relIdx'[reqs[i].rel[j]]
    <3>1. reqs[i] \in Requests /\ reqs[i].rel[j] \in Keys /\ reqs[i].base \in Nat
      BY WireFields, RequestFields
    <3>2. reqs[i].base < relIdx[reqs[i].rel[j]]
      BY DEF Wire
    <3>3. reqs[i].base <= relSent
      <4>1. reqs[i].base + Len(reqs[i].rel) <= OnWire /\ Len(reqs[i].rel) \in Nat
        BY <3>1, RequestFields DEF Wire
      <4> QED
        BY <1>4, <3>1, <4>1
    <3>4. /\ relIdx'[reqs[i].rel[j]] = relIdx[reqs[i].rel[j]] \/ relSent < relIdx'[reqs[i].rel[j]]
          /\ relIdx'[reqs[i].rel[j]] \in Nat
      BY <1>1, <3>1
    <3> QED
      BY <1>4, <3>1, <3>2, <3>3, <3>4
  <2> QED
    BY <1>3, <1>4, <2>1, <2>2 DEF Wire
<1>7. Mirror'
  <2>1. ASSUME NEW k \in held' PROVE k \in pinned /\ relIdx'[k] <= epoch
    <3>1. k \in held /\ k \in Keys /\ k \notin Elems(s)
      BY <1>3, <2>1 DEF Types
    <3> QED
      BY <1>1, <3>1 DEF Mirror
  <2>2. ASSUME NEW p \in replies, NEW k \in p.map, relIdx'[k] <= p.epoch PROVE k \in pinned
    <3>1. k \in Keys /\ p.epoch \in Nat /\ p.epoch <= epoch
      BY DEF Mirror
    <3>2. epoch <= relSent
      BY <1>4 DEF Wire
    <3>3. relIdx'[k] = relIdx[k]
      BY <1>1, <1>4, <2>2, <3>1, <3>2
    <3> QED
      BY <2>2, <3>3 DEF Mirror
  <2> QED
    BY <1>3, <2>1, <2>2 DEF Mirror
<1>8. Sent' /\ Room'
  BY <1>3 DEF Sent, Room
<1> QED
  BY <1>5, <1>6, <1>7, <1>8

\* BeginStep, EnterPrefill and PrefillTick release the coldest experts.
LEMMA HubReleases ==
  ASSUME PinInv, BeginStep \/ EnterPrefill \/ PrefillTick
  PROVE  PinInv'
<1>1. \A b \in Nat : Minus(Budget, b) \in Nat
  BY Finite DEF Minus
<1>2. Headroom \in Nat /\ 2 * Headroom \in Nat /\ Band \in Nat
  BY PoolAssumption
<1>3. Types /\ released \subseteq Keys /\ restores \subseteq Keys
  BY DEF PinInv, Types
<1>4. ASSUME NEW target \in Nat, NEW s \in Coldest(target), ReleaseWords(s),
             released' \subseteq Keys \cup Elems(s), restores' \subseteq Keys,
             UNCHANGED <<reqs, replies, pins, pool, passes>>
      PROVE  PinInv'
  <2>1. /\ s \in Seq(Keys) /\ Elems(s) \subseteq Keys
        /\ \A j \in 1 .. Len(s) : s[j] \in held
        /\ \A i, j \in 1 .. Len(s) : s[i] = s[j] => i = j
    BY <1>3, ColdestWords, ElemsOf
  <2> QED
    BY <1>4, <2>1, ReleaseStep
<1>5. CASE BeginStep
  <2>1. PICK s \in Coldest(Minus(Budget, 2 * Headroom)) : ReleaseWords(s)
    BY <1>5 DEF BeginStep
  <2> QED
    BY <1>1, <1>2, <1>3, <1>4, <1>5, <2>1 DEF BeginStep
<1>6. CASE EnterPrefill /\ Active
  <2>1. PICK s \in Coldest(Minus(Budget, Band)) :
               ReleaseWords(s) /\ released' = released \cup restores \cup Elems(s)
    BY <1>6 DEF EnterPrefill
  <2>2. restores' = {} /\ UNCHANGED <<reqs, replies, pins, pool, passes>>
    BY <1>6 DEF EnterPrefill
  <2> QED
    BY <1>1, <1>2, <1>3, <1>4, <2>1, <2>2
<1>7. CASE EnterPrefill /\ ~ Active
  BY <1>7 DEF EnterPrefill, PinInv, Types, Wire, Mirror, Sent, Room, OnWire, ledger, pins, pool
<1>8. CASE PrefillTick
  <2>1. PICK s \in Coldest(Minus(Budget, Band)) :
               ReleaseWords(s) /\ released' = released \cup Elems(s)
    BY <1>8 DEF PrefillTick
  <2>2. UNCHANGED <<restores, reqs, replies, pins, pool, passes>>
    BY <1>8 DEF PrefillTick
  <2> QED
    BY <1>1, <1>2, <1>3, <1>4, <2>1, <2>2
<1> QED
  BY <1>5, <1>6, <1>7, <1>8

\* The restores of a phase change neither mirror nor pins.
LEMMA EnterDecodeInv ==
  ASSUME PinInv, EnterDecode
  PROVE  PinInv'
BY DEF EnterDecode, PinInv, Types, Wire, Mirror, Sent, Room, OnWire, ledger, pins, pool

\* A request takes words off the queue: they were released after box 2's epoch,
\* so none of them is an expert the request expects to find.
LEMMA SubmitInv ==
  ASSUME PinInv, NEW L \in Layers, NEW picks \in SUBSET L, NEW small \in BOOLEAN,
         NEW admits \in SUBSET Keys, Submit(L, picks, small, admits)
  PROVE  PinInv'
<1> USE DEF PinInv
<1> DEFINE n == LeastOf(MaxWords, Len(queue))
           words == SubSeq(queue, 1, n)
           rest == SubSeq(queue, n + 1, Len(queue))
           r(ws) == [id |-> CHOOSE i \in FreeIds : TRUE, layer |-> L, picks |-> picks,
                     small |-> small, rel |-> words, words |-> ws \cup admits,
                     held |-> picks \cap held, surprise |-> {}, base |-> relSent - Len(queue)]
<1>1. PICK ws \in SUBSET restores :
        queue' = rest /\ restores' = restores \ ws /\ reqs' = Append(reqs, r(ws))
  BY DEF Submit
<1>2. UNCHANGED <<held, relIdx, relSent, known, released, replies, pins, pool, passes>>
  BY DEF Submit
<1>3. /\ Len(queue) \in Nat /\ n \in 0 .. Len(queue) /\ relSent \in Nat /\ epoch \in Nat
      /\ \A j \in 1 .. Len(queue) : queue[j] \in Keys
  BY WireFields, PoolAssumption DEF Types, LeastOf
<1> HIDE DEF n
<1>4. /\ words \in Seq(Keys) /\ Len(words) = n
      /\ \A j \in 1 .. n : words[j] = queue[j]
  <2>1. \A j \in 1 .. n : queue[j] \in Keys
    BY <1>3
  <2>2. /\ words \in Seq(Keys) /\ Len(words) = IF 1 <= n THEN n - 1 + 1 ELSE 0
        /\ \A j \in 1 .. n - 1 + 1 : words[j] = queue[1 + j - 1]
    BY <1>3, <2>1, SubSeqProperties
  <2> QED
    BY <1>3, <2>2
<1>5. /\ rest \in Seq(Keys) /\ Len(rest) = Len(queue) - n
      /\ \A j \in 1 .. Len(queue) - n : rest[j] = queue[n + j]
  <2>1. \A j \in n + 1 .. Len(queue) : queue[j] \in Keys
    BY <1>3
  <2>2. /\ rest \in Seq(Keys)
        /\ Len(rest) = IF n + 1 <= Len(queue) THEN Len(queue) - (n + 1) + 1 ELSE 0
        /\ \A j \in 1 .. Len(queue) - (n + 1) + 1 : rest[j] = queue[n + 1 + j - 1]
    BY <1>3, <2>1, SubSeqProperties
  <2> QED
    BY <1>3, <2>2
<1>6. /\ OnWire \in Nat /\ relSent - Len(queue) = OnWire /\ epoch <= OnWire
      /\ OnWire' = OnWire + n
      /\ \A j \in 1 .. Len(queue) : OnWire + j <= relIdx[queue[j]] /\ relIdx[queue[j]] \in Nat
  <2>1. OnWire' = relSent - (Len(queue) - n)
    BY <1>1, <1>2, <1>5 DEF OnWire
  <2>2. OnWire \in Int /\ epoch <= OnWire
    BY <1>3 DEF OnWire, Wire
  <2> QED
    BY <1>3, <2>1, <2>2 DEF OnWire, Wire, Types
<1>7. r(ws) \in Requests
  <2>1. FreeIds # {} /\ FreeIds \subseteq 1 .. MaxInFlight
    BY DEF Submit, FreeIds
  <2>2. (CHOOSE i \in FreeIds : TRUE) \in 1 .. MaxInFlight
    BY <2>1
  <2>3. picks \subseteq Keys /\ ws \subseteq Keys
    BY LayerBounds DEF Types
  <2> HIDE DEF words
  <2> QED
    BY <1>4, <1>6, <2>2, <2>3 DEF Requests
<1> DEFINE R == r(ws)
<1>8. /\ R.layer = L /\ R.picks = picks /\ R.small = small /\ R.rel = words
      /\ R.held = picks \cap held /\ R.surprise = {} /\ R.base = OnWire
  BY <1>6
<1>9. /\ reqs' \in Seq(Requests) /\ Len(reqs') = Len(reqs) + 1 /\ Len(reqs) \in Nat
      /\ \A i \in 1 .. Len(reqs) : reqs'[i] = reqs[i]
      /\ reqs'[Len(reqs) + 1] = R
  BY <1>1, <1>7, AppendProperties, LenProperties DEF Types
<1> HIDE DEF r, R, words, rest
<1>10. \A i \in 1 .. Len(reqs') : i \in 1 .. Len(reqs) \/ (i = Len(reqs) + 1 /\ reqs'[i] = R)
  BY <1>9
<1>11. \A i \in 1 .. Len(reqs) :
         /\ reqs[i].base \in Nat /\ Len(reqs[i].rel) \in Nat
         /\ reqs[i].base + Len(reqs[i].rel) <= OnWire /\ epoch <= reqs[i].base
  BY WireFields, RequestFields DEF Wire
<1>12. Types'
  BY <1>1, <1>2, <1>5, <1>9 DEF Types, pins, pool
<1>13. Wire'
  <2>1. epoch' = epoch /\ relIdx' = relIdx /\ queue' = rest
    BY <1>1, <1>2 DEF pins
  <2>2. ASSUME NEW j \in 1 .. Len(rest) PROVE OnWire' + j <= relIdx[rest[j]]
    <3>1. j \in 1 .. Len(queue) - n /\ n + j \in 1 .. Len(queue)
      BY <1>3, <1>5
    <3>2. rest[j] = queue[n + j]
      BY <1>5, <3>1
    <3>3. OnWire + (n + j) <= relIdx[queue[n + j]] /\ relIdx[queue[n + j]] \in Nat
      BY <1>6, <3>1
    <3> QED
      BY <1>3, <1>6, <3>1, <3>2, <3>3
  <2>3. ASSUME NEW i \in 1 .. Len(reqs')
        PROVE  /\ epoch <= reqs'[i].base
               /\ reqs'[i].base + Len(reqs'[i].rel) <= OnWire'
               /\ \A j \in 1 .. Len(reqs'[i].rel) : reqs'[i].base < relIdx[reqs'[i].rel[j]]
    <3>1. CASE i \in 1 .. Len(reqs)
      <4>1. reqs'[i] = reqs[i]
        BY <1>9, <3>1
      <4>2. \A j \in 1 .. Len(reqs[i].rel) : reqs[i].base < relIdx[reqs[i].rel[j]]
        BY <3>1 DEF Wire
      <4>3. /\ reqs[i].base \in Nat /\ Len(reqs[i].rel) \in Nat
            /\ reqs[i].base + Len(reqs[i].rel) <= OnWire /\ epoch <= reqs[i].base
        BY <1>11, <3>1
      <4>4. OnWire' = OnWire + n /\ OnWire \in Nat /\ n \in Nat
        BY <1>3, <1>6
      <4>5. reqs[i].base + Len(reqs[i].rel) <= OnWire'
        BY <4>3, <4>4
      <4> QED
        BY <4>1, <4>2, <4>3, <4>5
    <3>2. CASE reqs'[i] = R
      <4>1. ASSUME NEW j \in 1 .. n PROVE OnWire < relIdx[words[j]]
        <5>1. j \in 1 .. Len(queue) /\ j \in Nat /\ 1 <= j
          BY <1>3
        <5>2. OnWire + j <= relIdx[queue[j]] /\ relIdx[queue[j]] \in Nat /\ OnWire \in Nat
          BY <1>6, <5>1
        <5>3. words[j] = queue[j]
          BY <1>4
        <5>4. OnWire < relIdx[queue[j]]
          BY <5>1, <5>2
        <5> QED
          BY <5>3, <5>4
      <4>2. /\ reqs'[i].base = OnWire /\ reqs'[i].rel = words /\ Len(reqs'[i].rel) = n
            /\ OnWire + n = OnWire'
        BY <1>4, <1>6, <1>8, <3>2
      <4> QED
        BY <1>6, <4>1, <4>2
    <3> QED
      BY <1>10, <3>1, <3>2
  <2>4. ASSUME NEW i \in 1 .. Len(reqs'), NEW k \in 1 .. Len(reqs'), i < k
        PROVE  reqs'[i].base + Len(reqs'[i].rel) <= reqs'[k].base
    <3>1. i \in 1 .. Len(reqs)
      BY <1>9, <2>4
    <3>2. CASE k \in 1 .. Len(reqs)
      BY <1>9, <2>4, <3>1, <3>2 DEF Wire
    <3>3. CASE reqs'[k] = R
      BY <1>8, <1>9, <1>11, <3>1, <3>3
    <3> QED
      BY <1>10, <3>2, <3>3
  <2> QED
    BY <1>3, <1>6, <2>1, <2>2, <2>3, <2>4 DEF Wire
<1>14. Mirror'
  BY <1>2 DEF Mirror, pins
<1>15. Sent'
  <2>1. \A k \in held : k \in pinned /\ relIdx[k] <= epoch /\ relIdx[k] \in Nat
    BY DEF Mirror, Types
  <2>2. ASSUME NEW m \in 1 .. Len(reqs'), NEW j \in 1 .. Len(reqs'[m].rel)
        PROVE  reqs'[m].rel[j] \notin held
    <3>1. Wire' /\ reqs'[m].base < relIdx[reqs'[m].rel[j]] /\ epoch <= reqs'[m].base
      BY <1>2, <1>13 DEF Wire, pins
    <3>2. reqs'[m] \in Requests
      BY <1>9, ElementOfSeq
    <3>3. reqs'[m].base \in Nat
      BY <3>2, RequestFields
    <3> QED
      BY <1>3, <2>1, <3>1, <3>3
  <2>3. ASSUME NEW i \in 1 .. Len(reqs')
        PROVE  /\ reqs'[i].held \subseteq pinned /\ reqs'[i].surprise = {}
               /\ \A m \in 1 .. i : \A j \in 1 .. Len(reqs'[m].rel) : reqs'[m].rel[j] \notin reqs'[i].held
    <3>1. CASE i \in 1 .. Len(reqs)
      <4>1. \A m \in 1 .. i : m \in 1 .. Len(reqs) /\ reqs'[m] = reqs[m]
        BY <1>9, <3>1
      <4> QED
        BY <1>9, <3>1, <4>1 DEF Sent
    <3>2. CASE reqs'[i] = R
      <4>1. \A m \in 1 .. i : m \in 1 .. Len(reqs')
        BY <1>9
      <4> QED
        BY <1>8, <2>1, <2>2, <3>2, <4>1
    <3> QED
      BY <1>10, <3>1, <3>2
  <2>4. passes' = passes /\ pinned' = pinned
    BY <1>2 DEF pins
  <2> QED
    BY <2>3, <2>4 DEF Sent
<1>16. Room'
  <2>1. ASSUME NEW i \in 1 .. Len(reqs')
        PROVE  /\ reqs'[i].picks \subseteq reqs'[i].layer
               /\ reqs'[i].small => Cardinality(reqs'[i].picks) <= SmallPicks
    <3>1. CASE i \in 1 .. Len(reqs)
      BY <1>9, <3>1 DEF Room
    <3>2. CASE reqs'[i] = R
      BY <1>8, <3>2 DEF Submit
    <3> QED
      BY <1>10, <3>1, <3>2
  <2> QED
    BY <1>2, <2>1 DEF Room, pins, pool
<1> QED
  BY <1>12, <1>13, <1>14, <1>15, <1>16

\* A map is taken without what was released after its epoch: the rest is pinned.
LEMMA HandleReplyInv ==
  ASSUME PinInv, NEW p \in replies, HandleReply(p)
  PROVE  PinInv'
<1> USE DEF PinInv
<1>1. UNCHANGED <<relIdx, relSent, queue, released, restores, reqs, pins, pool, passes>>
  BY DEF HandleReply
<1>2. /\ p.epoch \in Nat /\ p.pinned \in Nat /\ p.epoch <= epoch /\ p.map \subseteq Keys
      /\ \A k \in p.map : relIdx[k] <= p.epoch => k \in pinned
      /\ epoch \in Nat /\ relIdx \in [Keys -> Nat]
  BY DEF Mirror, Types
<1>3. held' = (held \ p.layer) \cup {k \in p.map : relIdx[k] <= p.epoch}
  BY DEF HandleReply
<1>4. Types'
  <2>1. known'.epoch \in Nat /\ known'.pinned \in Int
    BY <1>2 DEF HandleReply, Types
  <2> QED
    BY <1>1, <1>2, <1>3, <2>1 DEF Types, pins, pool
<1>5. Mirror'
  <2>1. ASSUME NEW k \in held' PROVE k \in pinned /\ relIdx[k] <= epoch
    BY <1>2, <1>3 DEF Mirror
  <2>2. replies' \subseteq replies
    BY DEF HandleReply
  <2> QED
    BY <1>1, <2>1, <2>2 DEF Mirror, pins
<1>6. Wire' /\ Sent' /\ Room'
  BY <1>1 DEF Wire, OnWire, Sent, Room, pins, pool
<1> QED
  BY <1>4, <1>5, <1>6

(***************************************************************************)
(* Box 2's steps                                                           *)
(***************************************************************************)
\* The words D of the first m requests unpin nothing the hub holds, has been
\* promised or expects to find, whatever passes the requests become.
LEMMA TakeStep ==
  ASSUME PinInv, NEW m \in 1 .. Len(reqs), NEW D,
         \A k \in D : \E i \in 1 .. m : \E j \in 1 .. Len(reqs[i].rel) : k = reqs[i].rel[j],
         pinned' = pinned \ D,
         epoch' \in Nat, epoch <= epoch', epoch' <= OnWire,
         \A i \in m + 1 .. Len(reqs) : epoch' <= reqs[i].base,
         reqs' \in Seq(Requests), Len(reqs') = Len(reqs) - m,
         \A i \in 1 .. Len(reqs) - m : reqs'[i] = reqs[i + m],
         passes' \in Seq(Passes),
         \A i \in 1 .. Len(passes') : \A j \in 1 .. Len(passes'[i].reqs) :
           LET r == passes'[i].reqs[j] IN r.surprise = {} /\ r.held \cap passes'[i].paged = {},
         Len(passes') <= 2,
         \A i \in 1 .. Len(passes') : Cardinality(passes'[i].picks) <= LayerSize,
         Len(passes') = 2 => Cardinality(passes'[2].picks) <= SmallPicks,
         UNCHANGED <<hub, replies, pool>>
  PROVE  PinInv'
<1> USE DEF PinInv
<1>1. /\ held' = held /\ relIdx' = relIdx /\ relSent' = relSent /\ queue' = queue /\ known' = known
      /\ released' = released /\ restores' = restores /\ replies' = replies
      /\ main' = main /\ staged' = staged /\ revoked' = revoked /\ OnWire' = OnWire
  BY DEF hub, ledger, pool, OnWire
<1>9. \A k \in Keys : relIdx[k] \in Nat
  BY DEF Types
<1>2. /\ Len(reqs) \in Nat /\ epoch \in Nat /\ OnWire \in Int /\ epoch <= OnWire
      /\ \A i \in 1 .. Len(reqs) : reqs[i] \in Requests
      /\ \A i \in 1 .. Len(reqs) - m : i + m \in m + 1 .. Len(reqs) /\ i + m \in 1 .. Len(reqs)
  BY WireFields DEF Types, OnWire, Wire
<1>3. \A k \in D : k \in Keys /\ epoch < relIdx[k] /\ relIdx[k] \in Nat
  <2>1. ASSUME NEW i \in 1 .. m, NEW j \in 1 .. Len(reqs[i].rel)
        PROVE  /\ reqs[i].rel[j] \in Keys /\ epoch < relIdx[reqs[i].rel[j]]
               /\ relIdx[reqs[i].rel[j]] \in Nat
    <3>1. i \in 1 .. Len(reqs)
      BY <1>2
    <3>2. reqs[i].base < relIdx[reqs[i].rel[j]] /\ epoch <= reqs[i].base
      BY <3>1 DEF Wire
    <3>3. reqs[i].base \in Nat /\ reqs[i].rel[j] \in Keys
      BY <1>2, <3>1, RequestFields
    <3>4. relIdx[reqs[i].rel[j]] \in Nat
      BY <1>9, <3>3
    <3>5. epoch \in Nat /\ \A x, y \in Nat : epoch <= x /\ x < y => epoch < y
      BY <1>2
    <3>6. epoch < relIdx[reqs[i].rel[j]]
      BY <3>2, <3>3, <3>4, <3>5
    <3> QED
      BY <3>3, <3>4, <3>6
  <2>2. ASSUME NEW k \in D PROVE k \in Keys /\ epoch < relIdx[k] /\ relIdx[k] \in Nat
    <3>1. PICK i \in 1 .. m : \E j \in 1 .. Len(reqs[i].rel) : k = reqs[i].rel[j]
      BY ZenonT(40)
    <3>2. PICK j \in 1 .. Len(reqs[i].rel) : k = reqs[i].rel[j]
      BY <3>1
    <3>3. /\ reqs[i].rel[j] \in Keys /\ epoch < relIdx[reqs[i].rel[j]]
          /\ relIdx[reqs[i].rel[j]] \in Nat
      BY <2>1
    <3> QED
      BY <3>2, <3>3
  <2> QED
    BY <2>2
<1>4. Types'
  BY <1>1 DEF Types
<1>5. Wire'
  <2>1. ASSUME NEW i \in 1 .. Len(reqs')
        PROVE  /\ epoch' <= reqs'[i].base
               /\ reqs'[i].base + Len(reqs'[i].rel) <= OnWire
               /\ \A j \in 1 .. Len(reqs'[i].rel) : reqs'[i].base < relIdx[reqs'[i].rel[j]]
    <3>1. i + m \in m + 1 .. Len(reqs) /\ i + m \in 1 .. Len(reqs) /\ reqs'[i] = reqs[i + m]
      BY <1>2
    <3> QED
      BY <3>1 DEF Wire
  <2>2. ASSUME NEW i \in 1 .. Len(reqs'), NEW k \in 1 .. Len(reqs'), i < k
        PROVE  reqs'[i].base + Len(reqs'[i].rel) <= reqs'[k].base
    <3>1. /\ i + m \in 1 .. Len(reqs) /\ reqs'[i] = reqs[i + m]
          /\ k + m \in 1 .. Len(reqs) /\ reqs'[k] = reqs[k + m] /\ i + m < k + m
      BY <1>2, <2>2
    <3> QED
      BY <3>1 DEF Wire
  <2>3. \A j \in 1 .. Len(queue) : OnWire + j <= relIdx[queue[j]]
    BY DEF Wire
  <2> QED
    BY <1>1, <2>1, <2>2, <2>3 DEF Wire
<1>6. Mirror'
  <2>1. ASSUME NEW k \in held PROVE k \in pinned \ D /\ relIdx[k] <= epoch'
    <3>1. k \in pinned /\ relIdx[k] <= epoch /\ relIdx[k] \in Nat
      BY DEF Mirror, Types
    <3> QED
      BY <1>2, <1>3, <3>1
  <2>2. ASSUME NEW p \in replies
        PROVE  /\ p.epoch \in Nat /\ p.pinned \in Nat /\ p.epoch <= epoch'
               /\ p.map \subseteq Keys /\ p.surprise = {}
               /\ \A k \in p.map : relIdx[k] <= p.epoch => k \in pinned \ D
    <3>1. /\ p.epoch \in Nat /\ p.pinned \in Nat /\ p.epoch <= epoch
          /\ p.map \subseteq Keys /\ p.surprise = {}
          /\ \A k \in p.map : relIdx[k] <= p.epoch => k \in pinned
      BY DEF Mirror
    <3>2. \A k \in D : ~ relIdx[k] <= p.epoch
      BY <1>2, <1>3, <3>1
    <3> QED
      BY <1>2, <3>1, <3>2
  <2> QED
    BY <1>1, <2>1, <2>2 DEF Mirror
<1>7. Sent'
  <2>1. ASSUME NEW i \in 1 .. Len(reqs')
        PROVE  /\ reqs'[i].held \subseteq pinned \ D /\ reqs'[i].surprise = {}
               /\ \A l \in 1 .. i : \A j \in 1 .. Len(reqs'[l].rel) : reqs'[l].rel[j] \notin reqs'[i].held
    <3>1. i + m \in 1 .. Len(reqs) /\ reqs'[i] = reqs[i + m]
      BY <1>2
    <3>2. reqs[i + m].held \subseteq pinned /\ reqs[i + m].surprise = {}
      BY <3>1 DEF Sent
    <3>3. ASSUME NEW l \in 1 .. i + m, NEW j \in 1 .. Len(reqs[l].rel)
          PROVE  reqs[l].rel[j] \notin reqs[i + m].held
      BY <3>1 DEF Sent
    <3>4. ASSUME NEW k \in D PROVE k \notin reqs[i + m].held
      <4>1. PICK l \in 1 .. m : \E j \in 1 .. Len(reqs[l].rel) : k = reqs[l].rel[j]
        BY ZenonT(40)
      <4>2. l \in 1 .. i + m
        BY <1>2
      <4> QED
        BY <3>3, <4>1, <4>2
    <3>5. ASSUME NEW l \in 1 .. i PROVE l + m \in 1 .. i + m /\ reqs'[l] = reqs[l + m]
      BY <1>2
    <3> QED
      BY <3>1, <3>2, <3>3, <3>4, <3>5
  <2> QED
    BY <1>1, <2>1 DEF Sent
<1>8. Room'
  <2>1. pinned \subseteq Keys
    BY DEF Types, Room
  <2>2. Cardinality(pinned \ D) <= Cardinality(pinned)
    BY <2>1, Finite, FS_Subset
  <2>3. /\ Cardinality(pinned \ D) \in Nat /\ Cardinality(pinned) \in Nat /\ Budget \in Nat
        /\ Cardinality(pinned) <= Budget
    BY <2>1, Finite DEF Room
  <2>4. ASSUME NEW i \in 1 .. Len(reqs')
        PROVE  /\ reqs'[i].picks \subseteq reqs'[i].layer
               /\ reqs'[i].small => Cardinality(reqs'[i].picks) <= SmallPicks
    BY <1>2 DEF Room
  <2> QED
    BY <1>1, <2>2, <2>3, <2>4 DEF Room
<1> QED
  BY <1>4, <1>5, <1>6, <1>7, <1>8

\* What a request expects to find has landed.
LEMMA ExpectedLanded ==
  ASSUME PinInv, NEW i \in 1 .. Len(reqs), NEW P
  PROVE  reqs[i].held \cap (P \ Resident) = {} /\ reqs[i].surprise = {}
BY DEF PinInv, Sent, Room, Resident

\* The pass of some requests, whose picks are of one layer.
LEMMA PassIsPass ==
  ASSUME PinInv, NEW rs \in Seq(Requests), NEW large \in BOOLEAN, rs # <<>>,
         \A j \in 1 .. Len(rs) : rs[j].picks \subseteq rs[1].layer
  PROVE  LET P == Pass(rs, large) IN
         /\ P \in Passes /\ P.reqs = rs /\ P.paged = P.picks \ Resident
         /\ Cardinality(P.picks) <= LayerSize
<1> DEFINE picks == UNION {r.picks : r \in Elems(rs)}
<1>1. /\ 1 \in 1 .. Len(rs) /\ rs[1] \in Requests
      /\ Elems(rs) = {rs[j] : j \in 1 .. Len(rs)}
  BY ElemsOf, EmptySeq, ElementOfSeq
<1>2. rs[1].layer \in Layers
  BY <1>1, RequestFields
<1>3. picks \subseteq rs[1].layer
  BY <1>1
<1> HIDE DEF picks
<1>4. picks \in SUBSET Keys /\ Cardinality(picks) <= LayerSize
  BY <1>2, <1>3, LayerBounds
<1>5. Pass(rs, large) = [reqs |-> rs, layer |-> rs[1].layer, large |-> large, picks |-> picks,
                         paged |-> picks \ Resident, at |-> "land"]
  BY DEF Pass, picks
<1> QED
  BY <1>2, <1>4, <1>5 DEF Passes

\* A request's own pass, alone or inside a parked one.
LEMMA TakeOneInv ==
  ASSUME PinInv, TakeOne
  PROVE  PinInv'
<1> USE DEF PinInv
<1> DEFINE r == reqs[1]
           P == Pass(<<r>>, ~ r.small)
<1>1. /\ reqs # <<>> /\ reqs \in Seq(Requests) /\ 1 \in 1 .. Len(reqs) /\ Len(reqs) \in Nat
      /\ r \in Requests /\ Head(reqs) = r
      /\ passes \in Seq(Passes) /\ Len(passes) \in Nat
  BY WireFields, EmptySeq DEF TakeOne, Types
<1>2. /\ pinned' = Unpinned(r, pinned) /\ epoch' = epoch + Len(r.rel)
      /\ passes' = Append(passes, P) /\ reqs' = Tail(reqs)
      /\ UNCHANGED <<hub, replies, pool>>
      /\ passes = <<>> \/ (Len(passes) = 1 /\ r.small)
  BY <1>1 DEF TakeOne
<1>3. /\ reqs' \in Seq(Requests) /\ Len(reqs') = Len(reqs) - 1
      /\ \A i \in 1 .. Len(reqs) - 1 : reqs'[i] = reqs[i + 1]
  BY <1>1, <1>2, HeadTailProperties
<1>4. /\ r.rel \in Seq(Keys) /\ Len(r.rel) \in Nat /\ r.small \in BOOLEAN
      /\ Elems(r.rel) = {r.rel[j] : j \in 1 .. Len(r.rel)}
  <2> HIDE DEF r
  <2>1. r.rel \in Seq(Keys) /\ Len(r.rel) \in Nat /\ r.small \in BOOLEAN
    BY <1>1, RequestFields
  <2> QED
    BY <2>1, ElemsOf
<1>5. /\ epoch' \in Nat /\ epoch <= epoch' /\ epoch' <= OnWire
      /\ \A i \in 2 .. Len(reqs) : epoch' <= reqs[i].base
  <2>1. epoch \in Nat /\ epoch <= r.base /\ r.base + Len(r.rel) <= OnWire
    BY <1>1 DEF Types, Wire
  <2>2. OnWire \in Int /\ r.base \in Nat
    BY <1>1, WireFields, RequestFields DEF Types, OnWire
  <2>3. ASSUME NEW i \in 2 .. Len(reqs)
        PROVE  r.base + Len(r.rel) <= reqs[i].base /\ reqs[i].base \in Nat
    <3>1. i \in 1 .. Len(reqs) /\ 1 < i
      BY <1>1
    <3>2. reqs[i] \in Requests
      BY <3>1, WireFields
    <3> QED
      BY <1>1, <3>1, <3>2, RequestFields DEF Wire
  <2> HIDE DEF r
  <2>4. Len(r.rel) \in Nat /\ epoch' = epoch + Len(r.rel)
    BY <1>2, <1>4
  <2>5. epoch' \in Nat /\ epoch <= epoch' /\ epoch' <= r.base + Len(r.rel) /\ r.base + Len(r.rel) \in Nat
    BY <2>1, <2>2, <2>4
  <2>6. epoch' <= OnWire
    BY <2>1, <2>2, <2>5
  <2>7. ASSUME NEW i \in 2 .. Len(reqs) PROVE epoch' <= reqs[i].base
    BY <2>3, <2>5
  <2> QED
    BY <2>5, <2>6, <2>7
<1>6. /\ P \in Passes /\ P.reqs = <<r>> /\ P.paged = P.picks \ Resident
      /\ Cardinality(P.picks) <= LayerSize /\ P.picks = r.picks
  <2>1. <<r>> \in Seq(Requests) /\ Len(<<r>>) = 1 /\ <<r>>[1] = r /\ <<r>> # <<>>
    BY <1>1
  <2>2. r.picks \subseteq r.layer
    BY <1>1 DEF Room
  <2>3. ASSUME NEW j \in 1 .. Len(<<r>>) PROVE <<r>>[j].picks \subseteq <<r>>[1].layer
    BY <2>1, <2>2
  <2>4. Elems(<<r>>) = {r}
    <3>1. DOMAIN <<r>> = {1}
      OBVIOUS
    <3> QED
      BY <2>1, <3>1 DEF Elems
  <2>5. P.picks = UNION {q.picks : q \in Elems(<<r>>)}
    BY DEF Pass
  <2>6. UNION {q.picks : q \in {r}} = r.picks
    OBVIOUS
  <2> HIDE DEF r
  <2> QED
    BY <1>4, <2>1, <2>3, <2>4, <2>5, <2>6, PassIsPass
<1>7. r.small => Cardinality(r.picks) <= SmallPicks
  BY <1>1 DEF Room
<1>8. r.held \cap (r.picks \ Resident) = {} /\ r.surprise = {}
  BY <1>1, ExpectedLanded
<1> HIDE DEF P
<1>9. /\ passes' \in Seq(Passes) /\ Len(passes') = Len(passes) + 1
      /\ \A i \in 1 .. Len(passes) : passes'[i] = passes[i]
      /\ passes'[Len(passes) + 1] = P
  BY <1>1, <1>2, <1>6, AppendProperties
<1>10. \A i \in 1 .. Len(passes') : i \in 1 .. Len(passes) \/ passes'[i] = P
  BY <1>1, <1>9
<1>11. ASSUME NEW i \in 1 .. Len(passes'), NEW j \in 1 .. Len(passes'[i].reqs)
       PROVE  LET q == passes'[i].reqs[j] IN q.surprise = {} /\ q.held \cap passes'[i].paged = {}
  <2>1. CASE i \in 1 .. Len(passes)
    BY <1>9, <2>1 DEF Sent
  <2>2. CASE passes'[i] = P
    <3>1. passes'[i].reqs[j] = r /\ passes'[i].paged = r.picks \ Resident
      BY <1>6, <2>2
    <3> QED
      BY <1>8, <3>1
  <2> QED
    BY <1>10, <2>1, <2>2
<1>12. Len(passes') <= 2 /\ (Len(passes') = 2 => Cardinality(passes'[2].picks) <= SmallPicks)
  <2>1. CASE passes = <<>>
    BY <1>9, <2>1, EmptySeq
  <2>2. CASE Len(passes) = 1 /\ r.small
    BY <1>6, <1>7, <1>9, <2>2
  <2> QED
    BY <1>2, <2>1, <2>2
<1>13. \A i \in 1 .. Len(passes') : Cardinality(passes'[i].picks) <= LayerSize
  BY <1>6, <1>9, <1>10 DEF Room
<1>14. \A k \in Elems(r.rel) : \E i \in 1 .. 1 : \E j \in 1 .. Len(reqs[i].rel) : k = reqs[i].rel[j]
  BY <1>4
<1>15. pinned' = pinned \ Elems(r.rel)
  BY <1>2 DEF Unpinned
<1>16. \A i \in 1 + 1 .. Len(reqs) : epoch' <= reqs[i].base
  BY <1>5
<1> HIDE DEF r
<1> DEFINE D == Elems(r.rel)
<1>17. pinned' = pinned \ D /\ \A k \in D : \E i \in 1 .. 1 : \E j \in 1 .. Len(reqs[i].rel) : k = reqs[i].rel[j]
  BY <1>14, <1>15
<1> HIDE DEF D
<1> QED
  BY <1>1, <1>2, <1>3, <1>5, <1>9, <1>11, <1>12, <1>13, <1>16, <1>17, TakeStep

\* The pass of two merged requests.
LEMMA TakeTwoInv ==
  ASSUME PinInv, TakeTwo
  PROVE  PinInv'
<1> USE DEF PinInv
<1> DEFINE r == reqs[1]
           q == reqs[2]
           D == Elems(r.rel) \cup Elems(q.rel)
<1>1. /\ reqs \in Seq(Requests) /\ Len(reqs) \in Nat /\ 2 <= Len(reqs)
      /\ 1 \in 1 .. Len(reqs) /\ 2 \in 1 .. Len(reqs)
      /\ r \in Requests /\ q \in Requests /\ r.layer = q.layer
  BY WireFields DEF TakeTwo, Types
<1>2. /\ pinned' = Unpinned(q, Unpinned(r, pinned))
      /\ epoch' = epoch + Len(r.rel) + Len(q.rel)
      /\ reqs' = Tail(Tail(reqs)) /\ UNCHANGED <<hub, replies, pool>>
  BY DEF TakeTwo
<1>3. PICK large \in {TRUE, ~ (r.small /\ q.small)} : passes' = <<Pass(<<r, q>>, large)>>
  BY DEF TakeTwo
<1> DEFINE P == Pass(<<r, q>>, large)
<1>4. /\ reqs' \in Seq(Requests) /\ Len(reqs') = Len(reqs) - 2
      /\ \A i \in 1 .. Len(reqs) - 2 : reqs'[i] = reqs[i + 2]
  <2>1. /\ Tail(reqs) \in Seq(Requests) /\ Len(Tail(reqs)) = Len(reqs) - 1
        /\ \A i \in 1 .. Len(reqs) - 1 : Tail(reqs)[i] = reqs[i + 1]
    BY <1>1, HeadTailProperties, EmptySeq
  <2>2. Tail(reqs) # <<>>
    <3>1. Len(<<>>) = 0
      OBVIOUS
    <3>2. Len(Tail(reqs)) # 0
      BY <1>1, <2>1
    <3> QED
      BY <3>1, <3>2
  <2>3. /\ reqs' \in Seq(Requests) /\ Len(reqs') = Len(Tail(reqs)) - 1
        /\ \A i \in 1 .. Len(reqs') : reqs'[i] = Tail(reqs)[i + 1]
    BY <1>2, <2>1, <2>2, HeadTailProperties
  <2> QED
    BY <1>1, <2>1, <2>3
<1>5. /\ Len(r.rel) \in Nat /\ Elems(r.rel) = {r.rel[j] : j \in 1 .. Len(r.rel)}
      /\ Len(q.rel) \in Nat /\ Elems(q.rel) = {q.rel[j] : j \in 1 .. Len(q.rel)}
      /\ r.small \in BOOLEAN /\ q.small \in BOOLEAN
  <2> HIDE DEF r, q
  <2>1. r.rel \in Seq(Keys) /\ Len(r.rel) \in Nat /\ q.rel \in Seq(Keys) /\ Len(q.rel) \in Nat
    BY <1>1, RequestFields
  <2>2. r.small \in BOOLEAN /\ q.small \in BOOLEAN
    BY <1>1, RequestFields
  <2> QED
    BY <2>1, <2>2, ElemsOf
<1>6. \A k \in D : \E i \in 1 .. 2 : \E j \in 1 .. Len(reqs[i].rel) : k = reqs[i].rel[j]
  <2>1. ASSUME NEW k \in Elems(r.rel) PROVE \E j \in 1 .. Len(reqs[1].rel) : k = reqs[1].rel[j]
    BY <1>5
  <2>2. ASSUME NEW k \in Elems(q.rel) PROVE \E j \in 1 .. Len(reqs[2].rel) : k = reqs[2].rel[j]
    BY <1>5
  <2>3. 1 \in 1 .. 2 /\ 2 \in 1 .. 2
    OBVIOUS
  <2> QED
    BY <2>1, <2>2, <2>3
<1>7. pinned' = pinned \ D
  BY <1>2 DEF Unpinned
<1>8. /\ epoch' \in Nat /\ epoch <= epoch' /\ epoch' <= OnWire
      /\ \A i \in 2 + 1 .. Len(reqs) : epoch' <= reqs[i].base
  <2>1. epoch \in Nat /\ epoch <= r.base /\ r.base \in Nat /\ q.base \in Nat
    BY <1>1, RequestFields DEF Types, Wire
  <2>2. r.base + Len(r.rel) <= q.base /\ q.base + Len(q.rel) <= OnWire
    BY <1>1 DEF Wire
  <2>3. OnWire \in Int
    BY WireFields DEF Types, OnWire
  <2>4. ASSUME NEW i \in 2 + 1 .. Len(reqs)
        PROVE  q.base + Len(q.rel) <= reqs[i].base /\ reqs[i].base \in Nat
    <3>1. i \in 1 .. Len(reqs) /\ 2 < i
      BY <1>1
    <3>2. reqs[i] \in Requests
      BY <3>1, WireFields
    <3> QED
      BY <1>1, <3>1, <3>2, RequestFields DEF Wire
  <2> HIDE DEF r, q
  <2>5. epoch' \in Nat /\ epoch <= epoch' /\ epoch' <= q.base + Len(q.rel) /\ q.base + Len(q.rel) \in Nat
    <3>1. Len(r.rel) \in Nat /\ Len(q.rel) \in Nat /\ epoch' = epoch + Len(r.rel) + Len(q.rel)
      BY <1>2, <1>5
    <3>2. \A e, b, c, x, y \in Nat : e <= b /\ b + x <= c =>
            /\ e + x + y \in Nat /\ e <= e + x + y
            /\ e + x + y <= c + y /\ c + y \in Nat
      OBVIOUS
    <3> QED
      BY <2>1, <2>2, <3>1, <3>2
  <2>6. epoch' <= OnWire
    BY <2>2, <2>3, <2>5
  <2>7. ASSUME NEW i \in 2 + 1 .. Len(reqs) PROVE epoch' <= reqs[i].base
    BY <2>4, <2>5
  <2> QED
    BY <2>5, <2>6, <2>7
<1>9. /\ P \in Passes /\ P.reqs = <<r, q>> /\ P.paged = P.picks \ Resident
      /\ Cardinality(P.picks) <= LayerSize
  <2>1. r.picks \subseteq r.layer /\ q.picks \subseteq r.layer
    BY <1>1 DEF Room
  <2> HIDE DEF r, q
  <2>2. /\ <<r, q>> \in Seq(Requests) /\ Len(<<r, q>>) = 2 /\ <<r, q>> # <<>>
        /\ <<r, q>>[1] = r /\ <<r, q>>[2] = q
    BY <1>1
  <2>3. ASSUME NEW j \in 1 .. Len(<<r, q>>) PROVE <<r, q>>[j].picks \subseteq <<r, q>>[1].layer
    BY <2>1, <2>2
  <2>4. large \in BOOLEAN
    BY <1>5
  <2> QED
    BY <2>2, <2>3, <2>4, PassIsPass
<1>10. /\ r.held \cap (P.picks \ Resident) = {} /\ r.surprise = {}
       /\ q.held \cap (P.picks \ Resident) = {} /\ q.surprise = {}
  BY <1>1, ExpectedLanded
<1> HIDE DEF P, r, q
<1>11. /\ passes' \in Seq(Passes) /\ Len(passes') = 1 /\ passes'[1] = P
       /\ \A i \in 1 .. Len(passes') : i = 1
  BY <1>3, <1>9 DEF P
<1>12. ASSUME NEW i \in 1 .. Len(passes'), NEW j \in 1 .. Len(passes'[i].reqs)
       PROVE  LET t == passes'[i].reqs[j] IN t.surprise = {} /\ t.held \cap passes'[i].paged = {}
  <2>1. passes'[i] = P
    BY <1>11
  <2>2. passes'[i].reqs[j] = r \/ passes'[i].reqs[j] = q
    BY <1>9, <2>1
  <2> QED
    BY <1>9, <1>10, <2>1, <2>2
<1>13. /\ Len(passes') <= 2 /\ (Len(passes') = 2 => Cardinality(passes'[2].picks) <= SmallPicks)
       /\ \A i \in 1 .. Len(passes') : Cardinality(passes'[i].picks) <= LayerSize
  BY <1>9, <1>11
<1> HIDE DEF D
<1> QED
  BY <1>1, <1>2, <1>4, <1>6, <1>7, <1>8, <1>11, <1>12, <1>13, TakeStep

\* A step that changes the pool and the passes only keeps the invariant if the
\* pinned experts stay, the bands stay apart and the passes keep their requests,
\* their picks and what they must page.
LEMMA PoolStep ==
  ASSUME PinInv, UNCHANGED <<hub, reqs, replies, pinned, epoch, revoked>>,
         main' \subseteq Keys, staged' \subseteq Keys,
         pinned \subseteq main', main' \cap staged' = {},
         passes' \in Seq(Passes), Len(passes') = Len(passes),
         \A i \in 1 .. Len(passes) :
           /\ passes'[i].reqs = passes[i].reqs /\ passes'[i].picks = passes[i].picks
           /\ passes'[i].paged = passes[i].paged
  PROVE  PinInv'
<1> USE DEF PinInv
<1>1. /\ held' = held /\ relIdx' = relIdx /\ relSent' = relSent /\ queue' = queue /\ known' = known
      /\ released' = released /\ restores' = restores /\ OnWire' = OnWire
  BY DEF hub, ledger, OnWire
<1>2. Types' /\ Wire' /\ Mirror'
  BY <1>1 DEF Types, Wire, Mirror
<1>3. Sent'
  BY DEF Sent
<1>4. Room'
  <2>1. Len(passes) \in Nat
    BY WireFields
  <2> QED
    BY <2>1 DEF Room
<1> QED
  BY <1>2, <1>3, <1>4

\* Only the stage of the running pass changes.
LEMMA SetTopFields ==
  ASSUME PinInv, passes # <<>>, NEW at \in {"land", "parked", "claim"}, SetTop(at)
  PROVE  /\ passes' \in Seq(Passes) /\ Len(passes') = Len(passes)
         /\ \A i \in 1 .. Len(passes) :
              /\ passes'[i].reqs = passes[i].reqs /\ passes'[i].picks = passes[i].picks
              /\ passes'[i].paged = passes[i].paged
<1> DEFINE n == Len(passes)
           P == [passes[n] EXCEPT !.at = at]
<1>1. passes \in Seq(Passes) /\ n \in 1 .. Len(passes) /\ passes[n] \in Passes
  <2>1. passes \in Seq(Passes) /\ Len(passes) \in Nat \ {0}
    BY EmptySeq DEF PinInv, Types
  <2> QED
    BY <2>1, ElementOfSeq
<1>2. P \in Passes
  BY <1>1 DEF Passes
<1>3. P.reqs = passes[n].reqs /\ P.picks = passes[n].picks /\ P.paged = passes[n].paged
  BY <1>1 DEF Passes
<1>4. passes' = [passes EXCEPT ![n] = P]
  BY DEF SetTop
<1> HIDE DEF P, n
<1>5. /\ passes' \in Seq(Passes) /\ Len(passes') = Len(passes)
      /\ \A i \in 1 .. Len(passes) : passes'[i] = IF i = n THEN P ELSE passes[i]
  BY <1>1, <1>2, <1>4, ExceptSeq
<1> QED
  BY <1>3, <1>5

\* Parking a pass and waking it.
LEMMA ParkInv ==
  ASSUME PinInv, Park \/ Unpark
  PROVE  PinInv'
<1>1. PICK at \in {"land", "parked", "claim"} : SetTop(at)
  BY DEF Park, Unpark
<1>2. passes # <<>> /\ UNCHANGED <<hub, reqs, replies, pins, pool>>
  <2>1. Len(passes) = 1 => passes # <<>>
    BY EmptySeq
  <2> QED
    BY <2>1 DEF Park, Unpark
<1>3. main \subseteq Keys /\ staged \subseteq Keys /\ pinned \subseteq main /\ main \cap staged = {}
  BY DEF PinInv, Types, Room
<1> QED
  BY <1>1, <1>2, <1>3, SetTopFields, PoolStep DEF pins, pool

\* Placing an expert evicts no pinned one.
LEMMA Placed ==
  ASSUME PinInv, NEW k \in Keys, k \notin Resident, PlaceInMain(k) \/ PlaceInStage(k)
  PROVE  /\ main' \subseteq Keys /\ staged' \subseteq Keys
         /\ pinned \subseteq main' /\ main' \cap staged' = {}
         /\ UNCHANGED <<pinned, epoch, revoked>>
<1>1. main \subseteq Keys /\ staged \subseteq Keys /\ pinned \subseteq main /\ main \cap staged = {}
  BY DEF PinInv, Types, Room
<1>2. k \notin main /\ k \notin staged
  BY DEF Resident
<1> QED
  BY <1>1, <1>2 DEF PlaceInMain, PlaceInStage, Takable

\* A background read lands.
LEMMA LandInv ==
  ASSUME PinInv, NEW k \in Keys, Land(k)
  PROVE  PinInv'
<1>1. /\ k \notin Resident /\ (PlaceInMain(k) \/ PlaceInStage(k))
      /\ UNCHANGED <<hub, reqs, replies, passes>>
  BY DEF Land
<1>2. passes \in Seq(Passes)
  BY DEF PinInv, Types
<1> QED
  BY <1>1, <1>2, Placed, PoolStep

\* With the picks of the passes within the reserve, a claim that finds no
\* unpinned victim would need more slots pinned than the budget allows.
LEMMA VictimLeft ==
  ASSUME PinInv, passes # <<>>, NEW k \in Top.picks \ Resident,
         ~ MainFree, ~ StageFree, Takable(main) = {}, Takable(staged) = {}
  PROVE  FALSE
<1> USE DEF PinInv
<1>1. /\ passes \in Seq(Passes) /\ Len(passes) \in {1, 2} /\ DOMAIN passes = 1 .. Len(passes)
      /\ \A i \in 1 .. Len(passes) :
           passes[i].picks \subseteq Keys /\ Cardinality(passes[i].picks) <= LayerSize
      /\ Len(passes) = 2 => Cardinality(passes[2].picks) <= SmallPicks
  <2>1. passes \in Seq(Passes) /\ Len(passes) \in Nat \ {0} /\ Len(passes) <= 2
    BY EmptySeq DEF Types, Room
  <2>2. \A i \in 1 .. Len(passes) : passes[i].picks \subseteq Keys
    BY WireFields DEF Passes
  <2>3. Len(passes) \in {1, 2}
    <3>1. \A x \in Nat \ {0} : x <= 2 => x = 1 \/ x = 2
      OBVIOUS
    <3> QED
      BY <2>1, <3>1
  <2>4. DOMAIN passes = 1 .. Len(passes)
    BY <2>1, LenProperties
  <2> QED
    BY <2>1, <2>2, <2>3, <2>4 DEF Room
<1>2. Kept \subseteq Keys /\ k \in Kept /\ Cardinality(Kept) <= LayerSize + SmallPicks
  <2>1. k \in Kept /\ k \in Keys
    BY <1>1 DEF Kept, Top
  <2>2. CASE Len(passes) = 1
    <3>1. Kept = passes[1].picks
      BY <1>1, <2>2 DEF Kept
    <3> QED
      BY <1>1, <2>1, <2>2, <3>1, Finite, PoolAssumption
  <2>3. CASE Len(passes) = 2
    <3> DEFINE A == passes[1].picks
               B == passes[2].picks
    <3>1. Kept = A \cup B
      <4>1. 1 .. 2 = {1, 2}
        OBVIOUS
      <4> QED
        BY <1>1, <2>3, <4>1 DEF Kept
    <3>2. /\ A \in SUBSET Keys /\ B \in SUBSET Keys
          /\ Cardinality(A) <= LayerSize /\ Cardinality(B) <= SmallPicks
      BY <1>1, <2>3
    <3> HIDE DEF A, B
    <3>3. /\ Cardinality(A \cup B) = Cardinality(A) + Cardinality(B) - Cardinality(A \cap B)
          /\ Cardinality(A) \in Nat /\ Cardinality(B) \in Nat /\ Cardinality(A \cap B) \in Nat
      <4>1. IsFiniteSet(A) /\ IsFiniteSet(B) /\ A \cap B \in SUBSET Keys
        BY <3>2, Finite
      <4> QED
        BY <3>2, <4>1, Finite, FS_Union
    <3>4. Cardinality(Kept) <= LayerSize + SmallPicks
      BY <3>1, <3>2, <3>3, PoolAssumption
    <3> QED
      BY <2>1, <3>1, <3>2, <3>4
  <2> QED
    BY <1>1, <2>2, <2>3
<1> DEFINE O == Kept \ {k}
<1>3. /\ O \in SUBSET Keys /\ Cardinality(O) \in Nat
      /\ Cardinality(O) <= LayerSize + SmallPicks - 1
  <2>1. IsFiniteSet(Kept) /\ Cardinality(Kept) \in Nat
    BY <1>2, Finite
  <2>2. Cardinality(O) = Cardinality(Kept) - 1
    BY <1>2, <2>1, FS_RemoveElement
  <2> QED
    BY <1>2, <2>1, <2>2, Finite, PoolAssumption
<1>4. /\ main \in SUBSET Keys /\ staged \in SUBSET Keys /\ pinned \in SUBSET Keys
      /\ main \cap staged = {} /\ Cardinality(pinned) <= Budget
      /\ k \notin main /\ k \notin staged
  BY DEF Types, Room, Resident
<1>5. main \cup staged \subseteq O \cup pinned
  BY <1>4 DEF Takable
<1>6. Cardinality(main \cup staged) <= Cardinality(O) + Cardinality(pinned)
  <2>1. O \cup pinned \in SUBSET Keys /\ O \cap pinned \in SUBSET Keys
    BY <1>3, <1>4
  <2>2. IsFiniteSet(O) /\ IsFiniteSet(pinned) /\ IsFiniteSet(O \cup pinned)
    BY <1>3, <1>4, <2>1, Finite
  <2>3. Cardinality(O \cup pinned) = Cardinality(O) + Cardinality(pinned) - Cardinality(O \cap pinned)
    BY <2>2, FS_Union
  <2>4. main \cup staged \in SUBSET Keys
    BY <1>4
  <2>5. Cardinality(main \cup staged) <= Cardinality(O \cup pinned)
    BY <1>5, <2>2, FS_Subset
  <2> HIDE DEF O
  <2>6. /\ Cardinality(main \cup staged) \in Nat /\ Cardinality(O \cup pinned) \in Nat
        /\ Cardinality(pinned) \in Nat /\ Cardinality(O \cap pinned) \in Nat
    BY <1>4, <2>1, <2>4, Finite
  <2> QED
    BY <1>3, <2>3, <2>5, <2>6
<1>7. Cardinality(main \cup staged) = Cardinality(main) + Cardinality(staged)
  <2>1. IsFiniteSet(main) /\ IsFiniteSet(staged) /\ Cardinality(main) \in Nat /\ Cardinality(staged) \in Nat
    BY <1>4, Finite
  <2>2. Cardinality(main \cup staged) = Cardinality(main) + Cardinality(staged) - Cardinality(main \cap staged)
    BY <2>1, FS_Union
  <2> QED
    BY <1>4, <2>1, <2>2, FS_EmptySet
<1>8. MainSlots <= Cardinality(main) /\ StageSlots <= Cardinality(staged)
  <2>1. Cardinality(main) \in Nat /\ Cardinality(staged) \in Nat
    BY <1>4, Finite
  <2> QED
    BY <2>1, PoolAssumption DEF MainFree, StageFree
<1>9. /\ Cardinality(main) \in Nat /\ Cardinality(staged) \in Nat /\ Cardinality(pinned) \in Nat
      /\ MainSlots \in Nat /\ StageSlots \in Nat /\ Reserve \in Nat
      /\ LayerSize \in Nat /\ SmallPicks \in Nat
  BY <1>4, Finite, PoolAssumption
<1> HIDE DEF O
<1> QED
  BY <1>3, <1>4, <1>6, <1>7, <1>8, <1>9, ReserveAssumption DEF Budget

\* A claim takes an unpinned victim.
LEMMA ClaimInv ==
  ASSUME PinInv, NEW k \in Keys, Claim(k)
  PROVE  PinInv'
<1>1. /\ passes # <<>> /\ k \in Top.picks \ Resident /\ k \notin Resident
      /\ SetTop("claim") /\ UNCHANGED <<hub, reqs, replies>>
      /\ ClaimInMain(k) \/ ClaimInStage(k) \/ ClaimPinned(k)
  BY DEF Claim
<1>2. ~ ClaimPinned(k)
  BY <1>1, VictimLeft DEF ClaimPinned
<1>3. PlaceInMain(k) \/ PlaceInStage(k)
  BY <1>1, <1>2 DEF ClaimInMain, ClaimInStage
<1> QED
  BY <1>1, <1>3, Placed, SetTopFields, PoolStep

\* The report pins what has landed, within the budget, and every map holds
\* pinned experts only.
LEMMA ReplyInv ==
  ASSUME PinInv, Reply
  PROVE  PinInv'
<1> USE DEF PinInv
<1> DEFINE cand == Eligible \cap Top.layer \cap main
           room == Budget - Cardinality(pinned)
           Answer(r) == [id |-> r.id, layer |-> Top.layer, map |-> pinned' \cap Top.layer, epoch |-> epoch,
                         pinned |-> Cardinality(pinned'), surprise |-> r.surprise \cup (r.held \cap Top.paged)]
<1>1. PICK new \in SUBSET cand :
        /\ Cardinality(new) = LeastOf(room, Cardinality(cand))
        /\ pinned' = pinned \cup new
        /\ replies' = replies \cup {Answer(r) : r \in Elems(Top.reqs)}
  BY DEF Reply
<1>2. /\ passes # <<>> /\ passes' = SubSeq(passes, 1, Len(passes) - 1)
      /\ UNCHANGED <<hub, reqs, epoch, pool>>
  BY DEF Reply
<1>3. /\ held' = held /\ relIdx' = relIdx /\ relSent' = relSent /\ queue' = queue /\ known' = known
      /\ released' = released /\ restores' = restores /\ OnWire' = OnWire /\ epoch' = epoch
      /\ main' = main /\ staged' = staged /\ revoked' = revoked /\ reqs' = reqs
  BY <1>2 DEF hub, ledger, pool, OnWire
<1>4. /\ passes \in Seq(Passes) /\ Len(passes) \in Nat \ {0} /\ Len(passes) <= 2
      /\ Top \in Passes /\ Len(passes) \in 1 .. Len(passes)
  <2>1. passes \in Seq(Passes) /\ Len(passes) \in Nat \ {0} /\ Len(passes) <= 2
    BY <1>2, EmptySeq DEF Types, Room
  <2> QED
    BY <2>1, ElementOfSeq DEF Top
<1>5. /\ passes' \in Seq(Passes) /\ Len(passes') = Len(passes) - 1
      /\ \A i \in 1 .. Len(passes') : i \in 1 .. Len(passes) /\ passes'[i] = passes[i]
  <2>1. \A i \in 1 .. Len(passes) - 1 : passes[i] \in Passes
    BY <1>4, ElementOfSeq
  <2>2. /\ SubSeq(passes, 1, Len(passes) - 1) \in Seq(Passes)
        /\ Len(SubSeq(passes, 1, Len(passes) - 1))
             = IF 1 <= Len(passes) - 1 THEN Len(passes) - 1 - 1 + 1 ELSE 0
        /\ \A i \in 1 .. Len(passes) - 1 - 1 + 1 :
             SubSeq(passes, 1, Len(passes) - 1)[i] = passes[1 + i - 1]
    BY <1>4, <2>1, SubSeqProperties
  <2>3. passes' \in Seq(Passes) /\ Len(passes') = Len(passes) - 1
    <3>1. \A x \in Nat \ {0} : (IF 1 <= x - 1 THEN x - 1 - 1 + 1 ELSE 0) = x - 1
      OBVIOUS
    <3> QED
      BY <1>2, <1>4, <2>2, <3>1
  <2>4. ASSUME NEW i \in 1 .. Len(passes')
        PROVE  i \in 1 .. Len(passes) /\ passes'[i] = passes[i]
    <3>1. i \in 1 .. Len(passes) - 1 - 1 + 1 /\ i \in 1 .. Len(passes) /\ 1 + i - 1 = i
      BY <1>4, <2>3
    <3> QED
      BY <1>2, <2>2, <3>1
  <2> QED
    BY <2>3, <2>4
<1>6. /\ pinned \in SUBSET Keys /\ new \in SUBSET Keys /\ pinned' \in SUBSET Keys
      /\ pinned \subseteq main /\ pinned' \subseteq main /\ cand \in SUBSET Keys
  BY <1>1 DEF Types, Room
<1> HIDE DEF cand
<1>7. Cardinality(pinned') \in Nat /\ Cardinality(pinned') <= Budget
  <2>1. /\ Cardinality(pinned) \in Nat /\ Cardinality(new) \in Nat /\ Cardinality(cand) \in Nat
        /\ Budget \in Nat /\ Cardinality(pinned) <= Budget /\ Cardinality(pinned') \in Nat
        /\ IsFiniteSet(pinned) /\ IsFiniteSet(new)
        /\ pinned \cap new \in SUBSET Keys
    BY <1>6, Finite DEF Room
  <2>2. Cardinality(pinned \cap new) \in Nat
    BY <2>1, Finite
  <2>3. Cardinality(pinned') = Cardinality(pinned) + Cardinality(new) - Cardinality(pinned \cap new)
    BY <1>1, <2>1, FS_Union
  <2>4. Cardinality(new) <= Budget - Cardinality(pinned)
    BY <1>1, <2>1 DEF LeastOf
  <2> QED
    BY <2>1, <2>2, <2>3, <2>4
<1>8. Types'
  BY <1>3, <1>5 DEF Types
<1>9. Wire'
  BY <1>3 DEF Wire
<1>10. Mirror'
  <2>1. pinned \subseteq pinned' /\ epoch \in Nat
    BY <1>1 DEF Types
  <2>2. ASSUME NEW k \in held PROVE k \in pinned' /\ relIdx[k] <= epoch
    BY <2>1 DEF Mirror
  <2>3. ASSUME NEW p \in replies
        PROVE  /\ p.epoch \in Nat /\ p.pinned \in Nat /\ p.epoch <= epoch
               /\ p.map \subseteq Keys /\ p.surprise = {}
               /\ \A k \in p.map : relIdx[k] <= p.epoch => k \in pinned'
    BY <2>1 DEF Mirror
  <2>4. ASSUME NEW r \in Elems(Top.reqs)
        PROVE  LET p == Answer(r) IN
               /\ p.epoch \in Nat /\ p.pinned \in Nat /\ p.epoch <= epoch
               /\ p.map \subseteq Keys /\ p.surprise = {}
               /\ \A k \in p.map : relIdx[k] <= p.epoch => k \in pinned'
    <3>1. Top.reqs \in Seq(Requests)
      BY <1>4 DEF Passes
    <3>2. PICK j \in 1 .. Len(Top.reqs) : r = Top.reqs[j]
      BY <3>1, ElemsOf
    <3>3. r.surprise = {} /\ r.held \cap Top.paged = {}
      BY <1>4, <3>2 DEF Sent, Top
    <3> QED
      BY <1>6, <1>7, <2>1, <3>3
  <2> HIDE DEF Answer
  <2>5. ASSUME NEW p \in replies'
        PROVE  /\ p.epoch \in Nat /\ p.pinned \in Nat /\ p.epoch <= epoch
               /\ p.map \subseteq Keys /\ p.surprise = {}
               /\ \A k \in p.map : relIdx[k] <= p.epoch => k \in pinned'
    BY <1>1, <2>3, <2>4
  <2> QED
    BY <1>3, <2>2, <2>5 DEF Mirror
<1>11. Sent'
  <2>1. pinned \subseteq pinned'
    BY <1>1
  <2> QED
    BY <1>3, <1>5, <2>1 DEF Sent
<1>12. Room'
  <2>1. Len(passes') <= 1 /\ Len(passes') <= 2 /\ Len(passes') # 2
    BY <1>4, <1>5
  <2>2. \A i \in 1 .. Len(passes') : Cardinality(passes'[i].picks) <= LayerSize
    BY <1>5 DEF Room
  <2>3. Cardinality(pinned') <= Budget' /\ Budget' = Budget
    BY <1>7 DEF Budget
  <2> QED
    BY <1>3, <1>6, <2>1, <2>2, <2>3 DEF Room
<1> QED
  BY <1>8, <1>9, <1>10, <1>11, <1>12

\* A new connection starts from an empty ledger and no pins.
LEMMA ReconnectInv ==
  ASSUME PinInv, Reconnect
  PROVE  PinInv'
<1> USE DEF PinInv
<1>1. /\ held' = {} /\ relIdx' = [k \in Keys |-> 0] /\ relSent' = 0 /\ queue' = <<>>
      /\ known' = NoReply /\ released' = {} /\ restores' = {}
      /\ reqs' = <<>> /\ replies' = {} /\ passes' = <<>>
      /\ pinned' = {} /\ epoch' = 0 /\ main' \subseteq main /\ staged' \subseteq staged
      /\ revoked' = revoked
  BY DEF Reconnect
<1>2. Len(<<>>) = 0 /\ \A S : <<>> \in Seq(S)
  BY EmptySeq
<1>3. Types'
  BY <1>1, <1>2 DEF Types, NoReply
<1>4. Wire'
  BY <1>1, <1>2 DEF Wire, OnWire
<1>5. Mirror' /\ Sent'
  BY <1>1, <1>2 DEF Mirror, Sent
<1>6. Room'
  <2>1. Cardinality({}) = 0 /\ Budget \in Nat
    BY Finite, FS_EmptySet
  <2> QED
    BY <1>1, <1>2, <2>1 DEF Room
<1> QED
  BY <1>3, <1>4, <1>5, <1>6

\* A frame seen early has no surprise to add: what its request expects to find
\* has landed.
LEMMA NoteEarlyInv ==
  ASSUME PinInv, NEW i \in 1 .. MaxInFlight, NoteEarly(i)
  PROVE  PinInv'
<1> DEFINE r == reqs[i]
           R == [r EXCEPT !.surprise = r.surprise \cup (r.held \ Resident)]
<1>1. /\ reqs \in Seq(Requests) /\ i \in 1 .. Len(reqs) /\ i \in DOMAIN reqs /\ r \in Requests
  <2>1. reqs \in Seq(Requests) /\ i \in DOMAIN reqs
    BY DEF NoteEarly, PinInv, Types
  <2> QED
    BY <2>1, LenProperties, ElementOfSeq
<1>2. r.held \ Resident = {} /\ r.surprise = {}
  BY <1>1 DEF PinInv, Sent, Room, Resident
<1>3. R = r
  <2> HIDE DEF r
  <2>1. R = [r EXCEPT !.surprise = {}]
    BY <1>2
  <2> QED
    BY <1>1, <1>2, <2>1 DEF Requests
<1>4. reqs' = [reqs EXCEPT ![i] = R]
  BY DEF NoteEarly
<1> HIDE DEF R
<1>5. reqs' = reqs
  BY <1>1, <1>3, <1>4
<1>6. UNCHANGED <<hub, replies, pins, pool, passes>>
  BY DEF NoteEarly
<1> QED
  BY <1>5, <1>6 DEF PinInv, Types, Wire, Mirror, Sent, Room, OnWire, hub, ledger, pins, pool

\* A new connection over a seeded pool.
LEMMA InitInv ==
  ASSUME Init
  PROVE  PinInv
<1>1. Len(<<>>) = 0 /\ \A S : <<>> \in Seq(S)
  BY EmptySeq
<1>2. Types
  BY <1>1 DEF Init, Types, NoReply
<1>3. Wire
  BY <1>1 DEF Init, Wire, OnWire
<1>4. Mirror /\ Sent
  BY <1>1 DEF Init, Mirror, Sent
<1>5. Room
  <2>1. Cardinality({}) = 0 /\ Budget \in Nat
    BY Finite, FS_EmptySet
  <2> QED
    BY <1>1, <2>1 DEF Init, Room
<1> QED
  BY <1>2, <1>3, <1>4, <1>5 DEF PinInv

(***************************************************************************)
(* Results                                                                 *)
(***************************************************************************)
\* Every step keeps the invariant.
LEMMA NextInv ==
  ASSUME PinInv, [Next]_vars
  PROVE  PinInv'
<1>1. CASE BeginStep \/ EnterPrefill \/ PrefillTick
  BY <1>1, HubReleases
<1>2. CASE EnterDecode
  BY <1>2, EnterDecodeInv
<1>3. ASSUME NEW L \in Layers, NEW picks \in SUBSET L, NEW small \in BOOLEAN,
             NEW admits \in SUBSET Keys, Submit(L, picks, small, admits)
      PROVE  PinInv'
  BY <1>3, SubmitInv
<1>4. ASSUME NEW p \in replies, HandleReply(p) PROVE PinInv'
  BY <1>4, HandleReplyInv
<1>5. CASE TakeOne
  BY <1>5, TakeOneInv
<1>6. CASE TakeTwo
  BY <1>6, TakeTwoInv
<1>7. CASE Park \/ Unpark
  BY <1>7, ParkInv
<1>8. ASSUME NEW i \in 1 .. MaxInFlight, NoteEarly(i) PROVE PinInv'
  BY <1>8, NoteEarlyInv
<1>9. ASSUME NEW k \in Keys, Land(k) \/ Claim(k) PROVE PinInv'
  BY <1>9, LandInv, ClaimInv
<1>10. CASE Reply
  BY <1>10, ReplyInv
<1>11. CASE Reconnect
  BY <1>11, ReconnectInv
<1>12. CASE UNCHANGED vars
  BY <1>12 DEF vars, PinInv, Types, Wire, Mirror, Sent, Room, OnWire, hub, ledger, pins, pool
<1> QED
  BY <1>1, <1>2, <1>3, <1>4, <1>5, <1>6, <1>7, <1>8, <1>9, <1>10, <1>11, <1>12 DEF Next

\* The invariant of the whole protocol holds on every wire of the sizes assumed.
THEOREM PinInvariant == Spec => []PinInv
<1>1. Init => PinInv
  BY InitInv
<1>2. PinInv /\ [Next]_vars => PinInv'
  BY NextInv
<1> QED
  BY <1>1, <1>2, PTL DEF Spec

\* Every expert the hub treats as held is pinned at box 2 and has landed, for
\* every pool and every order of requests, replies, phases and connections
\* (PinLedger::apply_map, PinBook::report, ShardPool::evict).
THEOREM HeldPinned == Spec => []HeldIsPinned
<1>1. PinInv => HeldIsPinned
  BY DEF PinInv, Mirror, Room, HeldIsPinned
<1> QED
  BY <1>1, PinInvariant, PTL

\* No pass pages an expert its requests were sent to find resident
\* (check_surprises, note_early_paged).
THEOREM Unsurprised == Spec => []NoSurprise
<1>1. PinInv => NoSurprise
  BY DEF PinInv, Mirror, NoSurprise
<1> QED
  BY <1>1, PinInvariant, PTL

\* A reserve that covers a layer and the picks of a small request always leaves
\* a claim an unpinned victim (PIN_RESERVE_MIN, claim_miss).
THEOREM PinsKept == Spec => []NoRevoke
<1>1. PinInv => NoRevoke
  BY DEF PinInv, Room, NoRevoke
<1> QED
  BY <1>1, PinInvariant, PTL
=============================================================================
